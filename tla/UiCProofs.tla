-------------------------------- MODULE UiCProofs --------------------------------
(***************************************************************************)
(* The arena of ui_c never hands a byte out twice, whatever words, pages   *)
(* and sizes are; the program's calls find what they need; and the lists   *)
(* of ocaml-eval are spliced as said.                                      *)
(***************************************************************************)
EXTENDS BaseArena, Window, BoxList, Induction

-----------------------------------------------------------------------------
(* Rounding.                                                               *)

LEMMA RoundUpBounds ==
  ASSUME NEW n \in Nat, NEW unit \in Nat \ {0}
  PROVE  RoundUp(n, unit) \in Nat /\ n <= RoundUp(n, unit) /\ RoundUp(n, unit) < n + unit
<1>1. n + unit - 1 \in Nat
  OBVIOUS
<1>2. (n + unit - 1) \div unit \in Nat
  BY <1>1, Division
<1>3. ((n + unit - 1) \div unit) * unit \in Nat
  BY <1>2
<1> QED
  BY <1>1, <1>3, Division DEF RoundUp

-----------------------------------------------------------------------------
(* The arena.                                                              *)

\* A block spans as many offsets as its size rounded up, below the offset.
SpansInv ==
  /\ \A b \in blocks :
       b.from + b.size <= b.to /\ b.to <= offset
  /\ \A b, c \in blocks : b # c => b.to <= c.from \/ c.to <= b.from

\* Scratches begun later began no lower than one that is kept to.
ScratchInv ==
  /\ ScratchKeeps
  /\ \A i, j \in DOMAIN scratch :
       i <= j /\ scratch[i].kept => scratch[i].offset <= scratch[j].offset

Entry == [offset : Nat, below : SUBSET Block, kept : BOOLEAN]

ArenaType ==
  /\ TypeOK
  /\ scratch \in Seq(Entry)
  /\ died \in [call : {"none", "push", "pop", "scratch_end"}, with : Nat]

ArenaInv == ArenaType /\ SpansInv /\ ScratchInv /\ FailsWithCause

LEMMA ScratchType ==
  ASSUME scratch \in Seq(Entry)
  PROVE  /\ Len(scratch) \in Nat /\ DOMAIN scratch = 1 .. Len(scratch)
         /\ \A i \in DOMAIN scratch :
              /\ scratch[i] \in Entry /\ scratch[i].offset \in Nat /\ i \in Nat
              /\ scratch[i].below \subseteq Block /\ scratch[i].kept \in BOOLEAN
<1>1. Len(scratch) \in Nat /\ DOMAIN scratch = 1 .. Len(scratch)
  OBVIOUS
<1>2. ASSUME NEW i \in DOMAIN scratch PROVE scratch[i] \in Entry /\ i \in Nat
  BY <1>1
<1> QED
  BY <1>1, <1>2 DEF Entry

LEMMA ArenaInit == Init => ArenaInv
<1> SUFFICES ASSUME Init PROVE ArenaInv
  OBVIOUS
<1>1. RoundUp(Capacity, Page) \in Nat
  BY RoundUpBounds, BaseArenaAssumption
<1>2. /\ offset = 0 /\ capacity = RoundUp(Capacity, Page) /\ blocks = {} /\ scratch = <<>>
      /\ released = FALSE /\ died = [call |-> "none", with |-> 0]
  BY DEF Init, Alive
<1>3. \A i \in DOMAIN scratch : FALSE
  BY <1>2
<1>4. ArenaType
  <2>1. TypeOK
    <3>1. offset \in 0 .. capacity /\ capacity \in {0, RoundUp(Capacity, Page)}
      BY <1>1, <1>2
    <3>2. died.call = "none" /\ died.with = 0
      BY <1>2
    <3> QED
      BY <1>2, <1>3, <3>1, <3>2 DEF TypeOK
  <2>2. scratch \in Seq(Entry)
    BY <1>2
  <2>3. died \in [call : {"none", "push", "pop", "scratch_end"}, with : Nat]
    BY <1>2
  <2> QED
    BY <2>1, <2>2, <2>3 DEF ArenaType
<1>5. SpansInv /\ ScratchInv /\ FailsWithCause
  BY <1>2, <1>3 DEF SpansInv, ScratchInv, ScratchKeeps, FailsWithCause
<1> QED
  BY <1>4, <1>5 DEF ArenaInv

\* A failed assert leaves everything but died.
LEMMA FailInv ==
  ASSUME ArenaInv, NEW call \in {"push", "pop", "scratch_end"}, NEW with \in Nat,
         Fail(call, with), FailsWithCause'
  PROVE  ArenaInv'
<1>1. /\ died' = [call |-> call, with |-> with]
      /\ UNCHANGED <<offset, capacity, blocks, scratch, released>>
  BY DEF Fail
<1>2. ArenaType'
  BY <1>1 DEF ArenaInv, ArenaType, TypeOK
<1>3. SpansInv' /\ ScratchInv'
  BY <1>1 DEF ArenaInv, SpansInv, ScratchInv, ScratchKeeps
<1> QED
  BY <1>2, <1>3 DEF ArenaInv

LEMMA PushInv ==
  ASSUME ArenaInv, died = Alive, NEW size \in Sizes, Push(size)
  PROVE  ArenaInv'
<1> DEFINE n == RoundUp(size, Word)
<1> DEFINE b0 == [from |-> offset, to |-> offset + n, size |-> size]
<1>1. size \in Nat /\ n \in Nat /\ size <= n
  BY RoundUpBounds, BaseArenaAssumption
<1>2. offset \in Nat /\ capacity \in Nat
  BY RoundUpBounds, BaseArenaAssumption DEF ArenaInv, ArenaType, TypeOK
<1> HIDE DEF n
<1>3. CASE offset + n <= capacity
  <2>1. /\ blocks' = blocks \cup {b0} /\ offset' = offset + n
        /\ UNCHANGED <<capacity, scratch, released, died>>
    BY <1>3 DEF Push, n
  <2>2. b0 \in Block /\ b0.from = offset /\ b0.to = offset + n /\ b0.size = size
    BY <1>1, <1>2 DEF Block
  <2> HIDE DEF b0
  <2>3. ArenaType'
    BY <1>1, <1>2, <1>3, <2>1, <2>2 DEF ArenaInv, ArenaType, TypeOK
  <2>4. \A b \in blocks : b \in Block /\ b.from \in Nat /\ b.to \in Nat /\ b.size \in Nat
    BY BaseArenaAssumption DEF ArenaInv, ArenaType, TypeOK, Block
  <2>5. SpansInv'
    BY <1>1, <1>2, <2>1, <2>2, <2>4 DEF ArenaInv, SpansInv
  <2>6. ScratchInv'
    BY <1>1, <1>2, <2>1 DEF ArenaInv, ScratchInv, ScratchKeeps, ArenaType, TypeOK
  <2>7. FailsWithCause'
    BY <2>1 DEF FailsWithCause, Alive
  <2> QED
    BY <2>3, <2>5, <2>6, <2>7 DEF ArenaInv
<1>4. CASE ~(offset + n <= capacity)
  <2>1. Fail("push", size)
    BY <1>4 DEF Push, n
  <2>2. FailsWithCause'
    BY <1>1, <1>2, <1>4, <2>1 DEF Fail, FailsWithCause, n
  <2> QED
    BY <1>1, <2>1, <2>2, FailInv
<1> QED
  BY <1>3, <1>4

LEMMA SpoilFacts ==
  ASSUME scratch \in Seq(Entry), NEW S, Spoil(S)
  PROVE  /\ scratch' \in Seq(Entry)
         /\ DOMAIN scratch' = DOMAIN scratch
         /\ \A i \in DOMAIN scratch :
              /\ scratch'[i] \in Entry /\ scratch'[i].offset = scratch[i].offset
              /\ scratch'[i].kept => i \notin S /\ scratch[i].kept
                                     /\ scratch'[i].below = scratch[i].below
<1>1. /\ Len(scratch) \in Nat /\ DOMAIN scratch = 1 .. Len(scratch)
      /\ \A i \in DOMAIN scratch :
           /\ scratch[i] \in Entry /\ scratch[i].offset \in Nat
           /\ scratch[i].below \subseteq Block /\ scratch[i].kept \in BOOLEAN
  BY ScratchType
<1>2. /\ DOMAIN scratch' = DOMAIN scratch
      /\ \A i \in DOMAIN scratch :
           /\ scratch'[i] \in Entry /\ scratch'[i].offset = scratch[i].offset
           /\ scratch'[i].kept => i \notin S /\ scratch[i].kept
                                  /\ scratch'[i].below = scratch[i].below
  <2>1. DOMAIN scratch' = DOMAIN scratch
    BY DEF Spoil
  <2>2. ASSUME NEW i \in DOMAIN scratch, i \in S
        PROVE  /\ scratch'[i] \in Entry /\ scratch'[i].offset = scratch[i].offset
               /\ ~scratch'[i].kept
    <3>1. scratch'[i] = [scratch[i] EXCEPT !.kept = FALSE, !.below = {}]
      BY <2>2 DEF Spoil
    <3> QED
      BY <1>1, <3>1 DEF Entry
  <2>3. ASSUME NEW i \in DOMAIN scratch, i \notin S
        PROVE  scratch'[i] = scratch[i]
    BY <2>3 DEF Spoil
  <2> QED
    BY <1>1, <2>1, <2>2, <2>3
<1>3. scratch' \in Seq(Entry)
  <2>1. scratch' = [i \in 1 .. Len(scratch) |-> scratch'[i]]
    BY <1>1 DEF Spoil
  <2> QED
    BY <1>1, <1>2, <2>1
<1> QED
  BY <1>2, <1>3

\* Giving back down to a position keeps what scratches began above, if they are
\* still kept to.
LEMMA GiveBackInv ==
  ASSUME ArenaInv, died = Alive, NEW pos \in Nat, pos <= offset, GiveBack(pos),
         NEW S, Spoil(S),
         \A i \in DOMAIN scratch \ S : scratch[i].kept => scratch[i].offset <= pos
  PROVE  ArenaInv'
<1>1. offset \in Nat /\ capacity \in Nat /\ offset <= capacity /\ blocks \subseteq Block
  BY RoundUpBounds, BaseArenaAssumption DEF ArenaInv, ArenaType, TypeOK
<1>2. /\ offset' = pos /\ blocks' = {b \in blocks : b.to <= pos}
      /\ UNCHANGED <<capacity, released, died>>
  BY DEF GiveBack
<1>3. \A i \in DOMAIN scratch : scratch[i].offset \in Nat
  BY ScratchType DEF ArenaInv, ArenaType
<1>4. /\ DOMAIN scratch' = DOMAIN scratch
      /\ \A i \in DOMAIN scratch :
           /\ scratch'[i] \in Entry /\ scratch'[i].offset = scratch[i].offset
           /\ scratch'[i].kept => i \notin S /\ scratch[i].kept
                                  /\ scratch'[i].below = scratch[i].below
  BY SpoilFacts DEF ArenaInv, ArenaType
<1>5. scratch' \in Seq(Entry)
  BY SpoilFacts DEF ArenaInv, ArenaType
<1>6. ArenaType'
  <2>1. \A i \in DOMAIN scratch' :
          /\ scratch'[i].offset \in Nat /\ scratch'[i].below \subseteq Block
          /\ scratch'[i].kept \in BOOLEAN
    BY <1>4 DEF Entry
  <2> QED
    BY <1>1, <1>2, <1>5, <2>1 DEF ArenaInv, ArenaType, TypeOK
<1>7. SpansInv'
  BY <1>2 DEF ArenaInv, SpansInv
<1>8. ScratchInv'
  <2>1. ASSUME NEW i \in DOMAIN scratch, scratch'[i].kept
        PROVE  /\ scratch'[i].below \subseteq blocks'
               /\ scratch'[i].offset <= offset'
               /\ \A b \in scratch'[i].below : b.to <= scratch'[i].offset
    <3>1. scratch[i].kept /\ scratch[i].offset <= pos /\ scratch'[i].below = scratch[i].below
          /\ scratch'[i].offset = scratch[i].offset
      BY <1>4, <2>1
    <3>2. ASSUME NEW b \in scratch[i].below PROVE b \in blocks /\ b.to <= scratch[i].offset /\ b.to \in Nat
      BY <1>1, <3>1, <3>2 DEF ArenaInv, ScratchInv, ScratchKeeps, Block
    <3> QED
      BY <1>2, <1>3, <3>1, <3>2
  <2>2. ASSUME NEW i \in DOMAIN scratch, NEW k \in DOMAIN scratch, i <= k, scratch'[i].kept
        PROVE  scratch'[i].offset <= scratch'[k].offset
    BY <1>4, <2>2 DEF ArenaInv, ScratchInv
  <2> QED
    BY <1>4, <2>1, <2>2 DEF ScratchInv, ScratchKeeps
<1>9. FailsWithCause'
  BY <1>2 DEF FailsWithCause, Alive
<1> QED
  BY <1>6, <1>7, <1>8, <1>9 DEF ArenaInv

LEMMA PopsInv ==
  ASSUME ArenaInv, died = Alive, (\E n \in Sizes : Pop(n)) \/ Reset
  PROVE  ArenaInv'
<1>1. offset \in Nat
  BY RoundUpBounds, BaseArenaAssumption DEF ArenaInv, ArenaType, TypeOK
<1>2. \A i \in DOMAIN scratch : scratch[i].offset \in Nat
  BY ScratchType DEF ArenaInv, ArenaType
<1>3. CASE \E n \in Sizes : Pop(n)
  <2>1. PICK n \in Sizes : Pop(n)
    BY <1>3
  <2>2. n \in Nat /\ PopTarget(n) \in Nat /\ PopTarget(n) <= offset
    BY <1>1, BaseArenaAssumption DEF PopTarget
  <2>3. GiveBack(PopTarget(n)) /\ Spoil(PoppedBelow(n))
    BY <1>1, <2>1, <2>2 DEF Pop
  <2>4. ASSUME NEW i \in DOMAIN scratch \ PoppedBelow(n), scratch[i].kept
        PROVE  scratch[i].offset <= PopTarget(n)
    <3>1. ~(offset - scratch[i].offset < n) /\ scratch[i].offset <= offset
      BY <2>4 DEF PoppedBelow, ArenaInv, ScratchInv, ScratchKeeps
    <3> QED
      BY <1>1, <1>2, <2>2, <3>1 DEF PopTarget
  <2> QED
    BY <2>2, <2>3, <2>4, GiveBackInv
<1>4. CASE Reset
  BY <1>1, <1>4, GiveBackInv DEF Reset
<1> QED
  BY <1>3, <1>4

LEMMA BeginInv ==
  ASSUME ArenaInv, died = Alive, Begin
  PROVE  ArenaInv'
<1> DEFINE new == [offset |-> offset, below |-> blocks, kept |-> TRUE]
<1>1. scratch' = Append(scratch, new) /\ UNCHANGED <<offset, capacity, blocks, released, died>>
  BY DEF Begin
<1>2. offset \in Nat /\ new \in Entry
      /\ new.offset = offset /\ new.below = blocks /\ new.kept
  BY RoundUpBounds, BaseArenaAssumption DEF ArenaInv, ArenaType, TypeOK, Entry
<1> HIDE DEF new
<1>3. /\ scratch' \in Seq(Entry)
      /\ DOMAIN scratch' = 1 .. Len(scratch) + 1 /\ DOMAIN scratch = 1 .. Len(scratch)
      /\ Len(scratch) \in Nat
      /\ \A i \in 1 .. Len(scratch) : scratch'[i] = scratch[i]
      /\ scratch'[Len(scratch) + 1] = new
  BY <1>1, <1>2 DEF ArenaInv, ArenaType
<1>4. ArenaType'
  <2>1. \A i \in DOMAIN scratch' :
          /\ scratch'[i].offset \in Nat /\ scratch'[i].below \subseteq Block
          /\ scratch'[i].kept \in BOOLEAN
    <3>1. \A i \in DOMAIN scratch' : scratch'[i] \in Entry
      BY <1>3
    <3> QED
      BY <3>1 DEF Entry
  <2> QED
    BY <1>1, <1>3, <2>1 DEF ArenaInv, ArenaType, TypeOK
<1>5. ScratchKeeps'
  BY <1>1, <1>2, <1>3 DEF ArenaInv, ScratchInv, ScratchKeeps, SpansInv
<1>6. ScratchInv'
  BY <1>1, <1>2, <1>3, <1>5 DEF ArenaInv, ScratchInv, ScratchKeeps
<1> QED
  BY <1>1, <1>4, <1>6 DEF ArenaInv, SpansInv, FailsWithCause, Alive

LEMMA ScratchEndInv ==
  ASSUME ArenaInv, died = Alive, NEW i \in DOMAIN scratch, End(i)
  PROVE  ArenaInv'
<1>1. offset \in Nat /\ i \in Nat
      /\ \A k \in DOMAIN scratch : scratch[k].offset \in Nat /\ k \in Nat
  BY RoundUpBounds, BaseArenaAssumption, ScratchType DEF ArenaInv, ArenaType, TypeOK
<1>2. CASE scratch[i].offset <= offset
  <2>1. GiveBack(scratch[i].offset) /\ Spoil({k \in DOMAIN scratch : i < k})
    BY <1>1, <1>2 DEF End
  <2>2. ASSUME NEW k \in DOMAIN scratch \ {k \in DOMAIN scratch : i < k}, scratch[k].kept
        PROVE  scratch[k].offset <= scratch[i].offset
    <3>1. k <= i
      BY <1>1, <2>2
    <3> QED
      BY <2>2, <3>1 DEF ArenaInv, ScratchInv
  <2> QED
    BY <1>1, <1>2, <2>1, <2>2, GiveBackInv
<1>3. CASE ~(scratch[i].offset <= offset)
  <2>1. Fail("scratch_end", i)
    BY <1>1, <1>3 DEF End
  <2>2. ~scratch[i].kept /\ scratch[i].offset > offset
    BY <1>1, <1>3 DEF ArenaInv, ScratchInv, ScratchKeeps
  <2>3. FailsWithCause'
    BY <2>1, <2>2 DEF Fail, FailsWithCause
  <2> QED
    BY <1>1, <2>1, <2>3, FailInv
<1> QED
  BY <1>2, <1>3

LEMMA ReleaseInv ==
  ASSUME ArenaInv, died = Alive, Release
  PROVE  ArenaInv'
<1>1. /\ released' = TRUE /\ capacity' = 0 /\ offset' = 0 /\ blocks' = {} /\ died' = died
      /\ Spoil(DOMAIN scratch)
  BY DEF Release
<1>2. /\ scratch' \in Seq(Entry) /\ DOMAIN scratch' = DOMAIN scratch
      /\ \A i \in DOMAIN scratch : scratch'[i] \in Entry /\ ~scratch'[i].kept
  BY <1>1, SpoilFacts DEF ArenaInv, ArenaType, Entry
<1>3. ArenaType'
  <2>1. \A i \in DOMAIN scratch' :
          /\ scratch'[i].offset \in Nat /\ scratch'[i].below \subseteq Block
          /\ scratch'[i].kept \in BOOLEAN
    BY <1>2 DEF Entry
  <2> QED
    BY <1>1, <1>2, <2>1 DEF ArenaInv, ArenaType, TypeOK
<1>4. SpansInv' /\ ScratchInv'
  BY <1>1, <1>2 DEF SpansInv, ScratchInv, ScratchKeeps
<1>5. FailsWithCause'
  BY <1>1 DEF FailsWithCause, Alive
<1> QED
  BY <1>3, <1>4, <1>5 DEF ArenaInv

\* The invariant of the arena: types, the spans of blocks, what scratches
\* keep, and why an assert may fail.
THEOREM ArenaInvariant == Spec => []ArenaInv
<1>1. ArenaInv /\ [Next]_vars => ArenaInv'
  <2> SUFFICES ASSUME ArenaInv, [Next]_vars PROVE ArenaInv'
    OBVIOUS
  <2>1. CASE UNCHANGED vars
    BY <2>1 DEF vars, ArenaInv, ArenaType, TypeOK, SpansInv, ScratchInv, ScratchKeeps,
       FailsWithCause
  <2> QED
    BY <2>1, PushInv, PopsInv, BeginInv, ScratchEndInv, ReleaseInv DEF Next
<1> QED
  BY <1>1, ArenaInit, PTL DEF Spec

\* The arena's offset stays within its capacity, and its blocks are blocks.
THEOREM ArenaTypes == Spec => []TypeOK
<1>1. ArenaInv => TypeOK
  BY DEF ArenaInv, ArenaType
<1> QED
  BY <1>1, ArenaInvariant, PTL

\* Blocks in use share no byte, for any word, page, capacity and sizes
\* (base_arena.c).
THEOREM ArenaNoOverlap == Spec => []NoOverlap
<1>1. ArenaInv => NoOverlap
  <2> SUFFICES ASSUME ArenaInv, NEW b \in blocks, NEW c \in blocks, b # c
               PROVE  Bytes(b) \cap Bytes(c) = {}
    BY DEF NoOverlap
  <2>1. b \in Block /\ c \in Block /\ Sizes \subseteq Nat /\ Word \in Nat \ {0}
    BY BaseArenaAssumption DEF ArenaInv, ArenaType, TypeOK
  <2>2. ASSUME NEW x \in Block, NEW y \in Block, x.from + x.size <= x.to, x.to <= y.from
        PROVE  Word * x.from + x.size <= Word * y.from
               /\ Word * x.from \in Nat /\ Word * y.from \in Nat /\ x.size \in Nat /\ y.size \in Nat
    <3>1. x.from \in Nat /\ x.to \in Nat /\ x.size \in Nat /\ y.from \in Nat /\ y.size \in Nat
      BY <2>1 DEF Block
    <3>2. x.from <= y.from /\ x.size <= y.from - x.from
      BY <2>2, <3>1
    <3>3. /\ Word * x.from \in Nat /\ Word * y.from \in Nat
          /\ y.from - x.from <= Word * y.from - Word * x.from
      <4>1. \A p, q \in Nat : p <= q => /\ Word * p \in Nat /\ Word * q \in Nat
                                       /\ q - p <= Word * q - Word * p
        BY <2>1, Stretched
      <4> QED
        BY <3>1, <3>2, <4>1
    <3> QED
      BY <3>1, <3>2, <3>3
  <2>3. CASE b.to <= c.from
    BY <2>1, <2>2, <2>3 DEF ArenaInv, SpansInv, Bytes
  <2>4. CASE c.to <= b.from
    BY <2>1, <2>2, <2>4 DEF ArenaInv, SpansInv, Bytes
  <2> QED
    BY <2>3, <2>4 DEF ArenaInv, SpansInv
<1> QED
  BY <1>1, ArenaInvariant, PTL

\* What was pushed before a scratch began survives every use of the arena that
\* keeps to it, scratches inside it included (arena_scratch_begin,
\* arena_scratch_end).
THEOREM ArenaScratchKeeps == Spec => []ScratchKeeps
<1>1. ArenaInv => ScratchKeeps
  BY DEF ArenaInv, ScratchInv
<1> QED
  BY <1>1, ArenaInvariant, PTL

\* An assert fails only in a push that finds no room, and at the end of a scratch
\* that callers have not kept to (arena_push, arena_pop_to).
THEOREM ArenaFailsWithCause == Spec => []FailsWithCause
<1>1. ArenaInv => FailsWithCause
  BY DEF ArenaInv
<1> QED
  BY <1>1, ArenaInvariant, PTL

-----------------------------------------------------------------------------
(* The window.                                                             *)

WindowSpec == WindowInit /\ [][WindowNext]_windowVars

WindowInv ==
  /\ CallsInOrder
  /\ place = "gfx_init" => ~context

\* Each call of main and of os_gfx.c finds what it needs, and only Escape ends
\* the loop, whatever fails and whatever the user does.
THEOREM WindowCallsInOrder == WindowSpec => []CallsInOrder
<1>1. WindowInit => WindowInv
  BY DEF WindowInit, WindowInv, CallsInOrder
<1>2. WindowInv /\ [WindowNext]_windowVars => WindowInv'
  <2> SUFFICES ASSUME WindowInv, [WindowNext]_windowVars PROVE WindowInv'
    OBVIOUS
  <2> USE DEF WindowInv, CallsInOrder
  <2>1. CASE GfxInit \/ WindowOpen \/ Glew
    BY <2>1 DEF GfxInit, WindowOpen, Glew, Abort
  <2>2. CASE RInit \/ Render \/ Poll
    BY <2>2 DEF RInit, Render, Poll, Abort
  <2>3. CASE ShouldClose \/ Destroy \/ Terminate
    BY <2>3 DEF ShouldClose, Destroy, Terminate
  <2>4. CASE User
    BY <2>4 DEF User
  <2>5. CASE UNCHANGED windowVars
    BY <2>5 DEF windowVars
  <2> QED
    BY <2>1, <2>2, <2>3, <2>4, <2>5 DEF WindowNext, Main
<1>3. WindowInv => CallsInOrder
  BY DEF WindowInv
<1> QED
  BY <1>1, <1>2, <1>3, PTL DEF WindowSpec

-----------------------------------------------------------------------------
(* The lists of ocaml-eval.                                                *)

Heap == [Boxes -> Boxes \cup {NoBox}]

\* s is the list from b, whose last box is linked to none.
Path(next, b, s) ==
  /\ s \in Seq(Boxes) /\ Len(s) # 0 /\ s[1] = b
  /\ \A i \in 1 .. (Len(s) - 1) : next[s[i]] = s[i + 1]
  /\ next[s[Len(s)]] = NoBox

LEMMA PathFacts ==
  ASSUME NEW next, NEW b, NEW s, Path(next, b, s)
  PROVE  /\ s \in Seq(Boxes) /\ Len(s) \in Nat \ {0} /\ DOMAIN s = 1 .. Len(s)
         /\ s[1] = b /\ b \in Boxes /\ \A i \in 1 .. Len(s) : s[i] \in Boxes /\ s[i] # NoBox
         /\ ToSet(s) = {s[i] : i \in 1 .. Len(s)}
<1>1. s \in Seq(Boxes) /\ Len(s) \in Nat \ {0} /\ DOMAIN s = 1 .. Len(s) /\ s[1] = b
  BY DEF Path
<1>2. \A i \in 1 .. Len(s) : s[i] \in Boxes /\ s[i] # NoBox
  BY <1>1, BoxListAssumption
<1>3. 1 \in 1 .. Len(s)
  BY <1>1
<1>4. ToSet(s) = {s[i] : i \in 1 .. Len(s)}
  BY <1>1 DEF ToSet
<1> QED
  BY <1>1, <1>2, <1>3, <1>4

\* A list that ends has each box once.
LEMMA PathInjective ==
  ASSUME NEW next, NEW b, NEW s, Path(next, b, s),
         NEW i \in 1 .. Len(s), NEW j \in 1 .. Len(s), s[i] = s[j]
  PROVE  i = j
<1>0. Len(s) \in Nat \ {0} /\ \A k \in 1 .. Len(s) : s[k] # NoBox
  BY PathFacts
<1>1. ASSUME NEW x \in 1 .. Len(s), NEW y \in 1 .. Len(s), s[x] = s[y], x < y
      PROVE  FALSE
  <2> DEFINE n == Len(s)
             D == {k \in Nat : y + k <= n => s[x + k] = s[y + k]}
  <2>1. 0 \in D
    BY <1>1
  <2>2. ASSUME NEW k \in Nat, k \in D PROVE k + 1 \in D
    <3> SUFFICES ASSUME y + (k + 1) <= n PROVE s[x + (k + 1)] = s[y + (k + 1)]
      OBVIOUS
    <3>1. /\ x + k \in 1 .. (n - 1) /\ y + k \in 1 .. (n - 1) /\ y + k <= n
          /\ (x + k) + 1 = x + (k + 1) /\ (y + k) + 1 = y + (k + 1)
      BY <1>0, <1>1
    <3>2. s[x + k] = s[y + k]
      BY <2>2, <3>1
    <3>3. next[s[x + k]] = s[(x + k) + 1] /\ next[s[y + k]] = s[(y + k) + 1]
      BY <3>1 DEF Path
    <3> HIDE DEF D, n
    <3> QED
      BY <3>1, <3>2, <3>3
  <2> HIDE DEF D
  <2>3. n - y \in Nat /\ y + (n - y) = n /\ x + (n - y) \in 1 .. (n - 1) /\ (x + (n - y)) + 1 \in 1 .. n
    BY <1>0, <1>1
  <2>4. n - y \in D
    BY <2>1, <2>2, <2>3, SetInduction
  <2>5. s[x + (n - y)] = s[n]
    BY <2>3, <2>4 DEF D
  <2>6. next[s[n]] = NoBox /\ next[s[x + (n - y)]] = s[(x + (n - y)) + 1]
    BY <2>3 DEF Path
  <2>7. s[(x + (n - y)) + 1] # NoBox
    BY <1>0, <2>3
  <2> QED
    BY <2>5, <2>6, <2>7
<1> QED
  BY <1>0, <1>1

LEMMA PathLength ==
  ASSUME NEW next, NEW b, NEW s, Path(next, b, s)
  PROVE  Len(s) <= Cardinality(Boxes) /\ Cardinality(Boxes) \in Nat
<1>1. s \in [1 .. Len(s) -> Boxes] /\ Len(s) \in Nat \ {0}
  BY PathFacts
<1>2. s \in Injection(1 .. Len(s), Boxes)
  <2>1. \A i, j \in 1 .. Len(s) : s[i] = s[j] => i = j
    BY PathInjective
  <2> QED
    BY <1>1, <2>1 DEF Injection, IsInjective
<1>3. Cardinality(1 .. Len(s)) <= Cardinality(Boxes)
  BY <1>2, FS_Injection, BoxListAssumption
<1>4. Cardinality(1 .. Len(s)) = Len(s)
  BY <1>1, FS_Interval
<1> QED
  BY <1>3, <1>4, FS_CardinalityType, BoxListAssumption

Walks(at, next, b) ==
  at = [n \in 0 .. Cardinality(Boxes) |->
        IF n = 0 THEN b
        ELSE IF at[n - 1] = NoBox THEN NoBox ELSE next[at[n - 1]]]

LEMMA WalkIs ==
  ASSUME NEW next \in Heap, NEW b \in Boxes
  PROVE  LET at == Walk(next, b)
             N == Cardinality(Boxes)
         IN  /\ N \in Nat /\ at \in [0 .. N -> Boxes \cup {NoBox}] /\ at[0] = b
             /\ \A n \in 1 .. N :
                  at[n] = IF at[n - 1] = NoBox THEN NoBox ELSE next[at[n - 1]]
<1> DEFINE N == Cardinality(Boxes)
           S == Boxes \cup {NoBox}
           step == [x \in S |-> IF x = NoBox THEN NoBox ELSE next[x]]
           at == CHOOSE at : Walks(at, next, b)
<1>1. N \in Nat
  BY FS_CardinalityType, BoxListAssumption
<1>2. step \in [S -> S] /\ b \in S
  BY DEF Heap
<1> HIDE DEF N, step
<1>3. PICK f : Repeats(f, S, b, step, N)
  BY <1>1, <1>2, Repetitions
<1>4. f \in [0 .. N -> S] /\ f[0] = b /\ \A n \in 1 .. N : f[n] = step[f[n - 1]]
  BY <1>3 DEF Repeats
<1>5. ASSUME NEW n \in 0 .. N
      PROVE  f[n] = IF n = 0 THEN b ELSE IF f[n - 1] = NoBox THEN NoBox ELSE next[f[n - 1]]
  <2>1. CASE n = 0
    BY <1>4, <2>1
  <2>2. CASE n # 0
    <3>1. n \in 1 .. N /\ n - 1 \in 0 .. N
      BY <1>1, <2>2
    <3>2. f[n] = step[f[n - 1]] /\ f[n - 1] \in S
      BY <1>4, <3>1
    <3> QED
      BY <2>2, <3>2 DEF step
  <2> QED
    BY <2>1, <2>2
<1>6. Walks(f, next, b)
  BY <1>4, <1>5 DEF Walks, N
<1>7. Walks(at, next, b)
  BY <1>6
<1>8. Walk(next, b) = at
  BY DEF Walk, Walks
<1> HIDE DEF at
<1>9. at[0] = b /\ \A n \in 1 .. N : at[n] = IF at[n - 1] = NoBox THEN NoBox ELSE next[at[n - 1]]
  <2>1. ASSUME NEW n \in 1 .. N PROVE n \in 0 .. N /\ n # 0
    BY <1>1
  <2>2. 0 \in 0 .. N
    BY <1>1
  <2> QED
    BY <1>7, <2>1, <2>2 DEF Walks, N
<1>10. at \in [0 .. N -> S]
  <2> DEFINE D == {n \in Nat : n <= N => at[n] \in S}
  <2>1. 0 \in D
    BY <1>2, <1>9
  <2>2. ASSUME NEW n \in Nat, n \in D PROVE n + 1 \in D
    <3> SUFFICES ASSUME n + 1 <= N PROVE at[n + 1] \in S
      OBVIOUS
    <3>1. n + 1 \in 1 .. N /\ (n + 1) - 1 = n /\ at[n] \in S
      BY <1>1, <2>2
    <3>2. at[n + 1] = IF at[n] = NoBox THEN NoBox ELSE next[at[n]]
      BY <1>9, <3>1
    <3> QED
      BY <3>1, <3>2 DEF Heap
  <2> HIDE DEF D
  <2>3. Nat \subseteq D
    BY <2>1, <2>2, SetInduction
  <2>4. \A n \in 0 .. N : at[n] \in S
    BY <1>1, <2>3 DEF D
  <2>5. at = [n \in 0 .. N |-> at[n]]
    BY <1>7 DEF Walks, N
  <2> QED
    BY <2>4, <2>5
<1> QED
  BY <1>1, <1>8, <1>9, <1>10 DEF N

\* A list that ends is what ListOf finds.
LEMMA PathIsList ==
  ASSUME NEW next \in Heap, NEW b, NEW s, Path(next, b, s)
  PROVE  Ends(next, b) /\ ListOf(next, b) = s
<1> DEFINE N == Cardinality(Boxes)
           at == Walk(next, b)
           n == Len(s)
<1>1. n \in Nat \ {0} /\ n <= N /\ N \in Nat /\ b \in Boxes /\ s[1] = b
      /\ \A i \in 1 .. n : s[i] \in Boxes /\ s[i] # NoBox
  BY PathFacts, PathLength
<1>2. at[0] = b /\ \A i \in 1 .. N : at[i] = IF at[i - 1] = NoBox THEN NoBox ELSE next[at[i - 1]]
  BY <1>1, WalkIs
<1>d. DOMAIN at = 0 .. N
  BY <1>1, WalkIs
<1>p. next[s[n]] = NoBox /\ \A i \in 1 .. (n - 1) : next[s[i]] = s[i + 1]
  BY DEF Path
<1> HIDE DEF at, N, n
<1>3. ASSUME NEW k \in 0 .. N
      PROVE  at[k] = IF k < n THEN s[k + 1] ELSE NoBox
  <2> DEFINE D == {i \in Nat : i <= N => at[i] = IF i < n THEN s[i + 1] ELSE NoBox}
  <2>1. 0 \in D
    BY <1>1, <1>2
  <2>2. ASSUME NEW i \in Nat, i \in D PROVE i + 1 \in D
    <3> SUFFICES ASSUME i + 1 <= N
                 PROVE  at[i + 1] = IF i + 1 < n THEN s[(i + 1) + 1] ELSE NoBox
      OBVIOUS
    <3>1. i + 1 \in 1 .. N /\ (i + 1) - 1 = i
      BY <1>1
    <3>2. at[i] = IF i < n THEN s[i + 1] ELSE NoBox
      BY <1>1, <2>2, <3>1
    <3>3. at[i + 1] = IF at[i] = NoBox THEN NoBox ELSE next[at[i]]
      BY <1>2, <3>1
    <3>4. CASE i + 1 < n
      <4>1. i < n /\ i + 1 \in 1 .. (n - 1) /\ i + 1 \in 1 .. n
        BY <1>1, <3>4
      <4> QED
        BY <1>1, <1>p, <3>2, <3>3, <3>4, <4>1
    <3>5. CASE i + 1 = n
      <4>1. i < n /\ i + 1 \in 1 .. n
        BY <1>1, <3>5
      <4> QED
        BY <1>1, <1>p, <3>2, <3>3, <3>5, <4>1
    <3>6. CASE i + 1 > n
      <4>1. ~(i < n) /\ ~(i + 1 < n)
        BY <1>1, <3>6
      <4> QED
        BY <3>2, <3>3, <4>1
    <3> QED
      BY <1>1, <3>4, <3>5, <3>6
  <2> HIDE DEF D
  <2>3. k \in D
    BY <1>1, <2>1, <2>2, SetInduction
  <2> QED
    BY <1>1, <2>3 DEF D
<1>4. at[N] = NoBox
  BY <1>1, <1>3
<1>5. {k \in DOMAIN at : at[k] # NoBox} = 0 .. (n - 1)
  <2>1. ASSUME NEW k \in 0 .. N PROVE at[k] # NoBox <=> k < n
    <3>1. CASE k < n
      <4>1. k + 1 \in 1 .. n
        BY <1>1, <3>1
      <4> QED
        BY <1>1, <1>3, <3>1, <4>1
    <3>2. CASE ~(k < n)
      BY <1>3, <3>2
    <3> QED
      BY <3>1, <3>2
  <2>2. \A k \in 0 .. N : k < n <=> k \in 0 .. (n - 1)
    BY <1>1
  <2>3. 0 .. (n - 1) \subseteq 0 .. N
    BY <1>1
  <2> QED
    BY <1>d, <2>1, <2>2, <2>3
<1>6. Cardinality(0 .. (n - 1)) = n
  <2>1. 0 \in Int /\ n - 1 \in Int /\ 0 <= n - 1 /\ (n - 1) - 0 + 1 = n
    BY <1>1
  <2> QED
    BY <2>1, FS_Interval
<1>7. ListOf(next, b) = [i \in 1 .. n |-> at[i - 1]]
  BY <1>5, <1>6 DEF ListOf, at
<1>8. ASSUME NEW i \in 1 .. n PROVE at[i - 1] = s[i]
  <2>1. i - 1 \in 0 .. N /\ i - 1 < n /\ (i - 1) + 1 = i
    BY <1>1
  <2> QED
    BY <1>3, <2>1
<1>9. s = [i \in 1 .. n |-> s[i]]
  BY PathFacts DEF n
<1> QED
  BY <1>4, <1>7, <1>8, <1>9 DEF Ends, at, N

LEMMA ListIsPath ==
  ASSUME NEW next \in Heap, NEW b \in Boxes, Ends(next, b)
  PROVE  Path(next, b, ListOf(next, b))
<1> DEFINE N == Cardinality(Boxes)
           at == Walk(next, b)
           Out == {n \in 0 .. N : at[n] = NoBox}
<1>1. N \in Nat /\ at \in [0 .. N -> Boxes \cup {NoBox}] /\ at[0] = b
      /\ \A n \in 1 .. N : at[n] = IF at[n - 1] = NoBox THEN NoBox ELSE next[at[n - 1]]
  BY WalkIs
<1>2. at[N] = NoBox
  BY DEF Ends
<1> HIDE DEF at, N
<1>3. PICK n \in Out : \A k \in Out : n <= k
  <2>1. Out \in SUBSET Nat /\ N \in Out
    BY <1>1, <1>2
  <2> HIDE DEF Out
  <2> QED
    BY <2>1, NatMin
<1>4. n \in 1 .. N /\ at[n] = NoBox
  BY <1>1, <1>3, BoxListAssumption
<1>5. \A k \in 0 .. (n - 1) : at[k] \in Boxes /\ at[k] # NoBox
  BY <1>1, <1>3, <1>4
<1> DEFINE s == [i \in 1 .. n |-> at[i - 1]]
<1>6. s \in Seq(Boxes) /\ Len(s) = n
  <2>1. \A i \in 1 .. n : i - 1 \in 0 .. (n - 1)
    BY <1>4
  <2>2. s \in [1 .. n -> Boxes] /\ n \in Nat
    BY <1>4, <1>5, <2>1
  <2> QED
    BY <2>2
<1>7. Path(next, b, s)
  <2>1. n # 0 /\ s[1] = b
    BY <1>1, <1>4
  <2>2. ASSUME NEW i \in 1 .. (n - 1) PROVE next[s[i]] = s[i + 1]
    <3>0. i \in 1 .. n /\ i + 1 \in 1 .. n /\ (i + 1) - 1 = i /\ i \in 1 .. N /\ i - 1 \in 0 .. (n - 1)
      BY <1>1, <1>4
    <3>1. s[i] = at[i - 1] /\ s[i + 1] = at[i]
      BY <3>0
    <3> QED
      BY <1>1, <1>5, <3>0, <3>1
  <2>3. next[s[n]] = NoBox
    <3>1. s[n] = at[n - 1] /\ n - 1 \in 0 .. (n - 1)
      BY <1>4
    <3> QED
      BY <1>1, <1>4, <1>5, <3>1
  <2> HIDE DEF s
  <2> QED
    BY <1>6, <2>1, <2>2, <2>3 DEF Path
<1> QED
  BY <1>7, PathIsList

\* A set of boxes that is never left holds no list that ends.
LEMMA CycleNeverEnds ==
  ASSUME NEW next \in Heap, NEW C \in SUBSET Boxes, \A c \in C : next[c] \in C, NEW b \in C
  PROVE  ~Ends(next, b)
<1> SUFFICES ASSUME Ends(next, b) PROVE FALSE
  OBVIOUS
<1> DEFINE s == ListOf(next, b)
           n == Len(s)
           D == {k \in Nat : k + 1 <= n => s[k + 1] \in C}
<1>1. Path(next, b, s)
  BY ListIsPath
<1> HIDE DEF s
<1>2. n \in Nat \ {0} /\ s[1] = b /\ next[s[n]] = NoBox
      /\ \A i \in 1 .. (n - 1) : next[s[i]] = s[i + 1]
  BY <1>1 DEF Path
<1> HIDE DEF n
<1>3. 0 \in D
  BY <1>2
<1>4. ASSUME NEW k \in Nat, k \in D PROVE k + 1 \in D
  <2> SUFFICES ASSUME (k + 1) + 1 <= n PROVE s[(k + 1) + 1] \in C
    OBVIOUS
  <2>1. k + 1 \in 1 .. (n - 1) /\ k + 1 <= n
    BY <1>2
  <2>2. s[k + 1] \in C
    BY <1>4, <2>1
  <2> QED
    BY <1>2, <2>1, <2>2
<1> HIDE DEF D
<1>5. n - 1 \in Nat /\ (n - 1) + 1 = n
  BY <1>2
<1>6. n - 1 \in D
  BY <1>3, <1>4, <1>5, SetInduction
<1>7. s[n] \in C
  BY <1>2, <1>5, <1>6 DEF D
<1> QED
  BY <1>2, <1>7, BoxListAssumption

LEMMA OneMore ==
  ASSUME NEW next \in Heap, NEW b \in Boxes, Ends(next, next[b]) \/ next[b] = NoBox
  PROVE  /\ Ends(next, b)
         /\ ListOf(next, b) = IF next[b] = NoBox THEN <<b>> ELSE <<b>> \o ListOf(next, next[b])
<1>1. CASE next[b] = NoBox
  <2> DEFINE s == <<b>>
  <2>1. s \in Seq(Boxes) /\ Len(s) = 1 /\ s[1] = b
    OBVIOUS
  <2> HIDE DEF s
  <2>2. Path(next, b, s)
    BY <1>1, <2>1 DEF Path
  <2> QED
    BY <1>1, <2>2, PathIsList DEF s
<1>2. CASE next[b] # NoBox
  <2> DEFINE t == ListOf(next, next[b])
             n == Len(t)
             s == <<b>> \o t
  <2>1. next[b] \in Boxes
    BY <1>2 DEF Heap
  <2>2. Path(next, next[b], t)
    BY <1>2, <2>1, ListIsPath
  <2> HIDE DEF t
  <2>3. /\ t \in Seq(Boxes) /\ n \in Nat \ {0} /\ t[1] = next[b] /\ next[t[n]] = NoBox
        /\ \A i \in 1 .. (n - 1) : next[t[i]] = t[i + 1]
    BY <2>2 DEF Path
  <2>4. s \in Seq(Boxes) /\ Len(s) = n + 1 /\ s[1] = b /\ \A i \in 1 .. n : s[i + 1] = t[i]
    BY <2>3
  <2> HIDE DEF s, n
  <2>5. ASSUME NEW i \in 1 .. n PROVE next[s[i]] = s[i + 1]
    <3>1. CASE i = 1
      BY <2>3, <2>4, <3>1
    <3>2. CASE i # 1
      <4>1. i - 1 \in 1 .. (n - 1) /\ i - 1 \in 1 .. n /\ (i - 1) + 1 = i
        BY <2>3, <3>2
      <4>2. s[i] = t[i - 1] /\ s[i + 1] = t[i]
        BY <2>4, <4>1
      <4>3. next[t[i - 1]] = t[i]
        BY <2>3, <4>1
      <4> QED
        BY <4>2, <4>3
    <3> QED
      BY <3>1, <3>2
  <2>6. next[s[n + 1]] = NoBox
    <3>1. n \in 1 .. n
      BY <2>3
    <3> QED
      BY <2>3, <2>4, <3>1
  <2>7. Path(next, b, s)
    <3>1. (n + 1) - 1 = n /\ n + 1 # 0
      BY <2>3
    <3> QED
      BY <2>4, <2>5, <2>6, <3>1 DEF Path
  <2> QED
    BY <1>2, <2>7, PathIsList DEF s, t
<1> QED
  BY <1>1, <1>2

\* Links that change at boxes from which lists still end, change no end.
LEMMA Diverted ==
  ASSUME NEW f \in Heap, AllEnd(f), NEW g \in Heap, NEW D \in SUBSET Boxes,
         \A b \in Boxes \ D : g[b] = f[b], \A d \in D : Ends(g, d)
  PROVE  AllEnd(g)
<1> SUFFICES ASSUME NEW b \in Boxes PROVE Ends(g, b)
  BY DEF AllEnd
<1> DEFINE s == ListOf(f, b)
           n == Len(s)
           K == {k \in Nat : k < n => Ends(g, s[n - k])}
<1>1. Path(f, b, s)
  BY ListIsPath DEF AllEnd
<1> HIDE DEF s
<1>2. /\ n \in Nat \ {0} /\ s[1] = b /\ f[s[n]] = NoBox
      /\ \A i \in 1 .. (n - 1) : f[s[i]] = s[i + 1]
  BY <1>1 DEF Path
<1>3. \A i \in 1 .. n : s[i] \in Boxes
  BY <1>1, PathFacts
<1> HIDE DEF n
<1>4. 0 \in K
  <2>1. n - 0 = n /\ n \in 1 .. n
    BY <1>2
  <2>2. Ends(g, s[n])
    <3>1. CASE s[n] \in D
      BY <3>1
    <3>2. CASE s[n] \notin D
      <4>1. g[s[n]] = NoBox /\ s[n] \in Boxes
        BY <1>2, <1>3, <2>1, <3>2
      <4> QED
        BY <4>1, OneMore
    <3> QED
      BY <3>1, <3>2
  <2> QED
    BY <2>1, <2>2
<1>5. ASSUME NEW k \in Nat, k \in K PROVE k + 1 \in K
  <2> SUFFICES ASSUME k + 1 < n PROVE Ends(g, s[n - (k + 1)])
    OBVIOUS
  <2> DEFINE i == n - (k + 1)
  <2>1. i \in 1 .. (n - 1) /\ i \in 1 .. n /\ i + 1 = n - k /\ k < n
    BY <1>2
  <2>2. Ends(g, s[i + 1])
    BY <1>5, <2>1
  <2> HIDE DEF i
  <2>3. s[i] \in Boxes /\ f[s[i]] = s[i + 1]
    BY <1>2, <1>3, <2>1
  <2>4. CASE s[i] \in D
    BY <2>4 DEF i
  <2>5. CASE s[i] \notin D
    <3>1. g[s[i]] = s[i + 1]
      BY <2>3, <2>5
    <3>2. Ends(g, s[i])
      BY <2>2, <2>3, <3>1, OneMore
    <3> QED
      BY <3>2 DEF i
  <2> QED
    BY <2>4, <2>5
<1> HIDE DEF K
<1>6. n - 1 \in Nat /\ n - 1 < n /\ n - (n - 1) = 1
  BY <1>2
<1>7. n - 1 \in K
  BY <1>4, <1>5, <1>6, SetInduction
<1> QED
  BY <1>2, <1>6, <1>7 DEF K

\* Links that are the same along a list leave it as it is.
LEMMA SamePath ==
  ASSUME NEW f, NEW g, NEW b, NEW s, Path(f, b, s), \A i \in 1 .. Len(s) : g[s[i]] = f[s[i]]
  PROVE  Path(g, b, s)
<1>1. Len(s) \in Nat \ {0}
  BY PathFacts
<1>2. \A i \in 1 .. (Len(s) - 1) : i \in 1 .. Len(s)
  BY <1>1
<1>3. Len(s) \in 1 .. Len(s)
  BY <1>1
<1> QED
  BY <1>2, <1>3 DEF Path

LEMMA PathTail ==
  ASSUME NEW next, NEW b, NEW s, Path(next, b, s), NEW t \in Seq(Boxes),
         Len(t) = Len(s) - 1, \A i \in 1 .. (Len(s) - 1) : t[i] = s[i + 1]
  PROVE  /\ ToSet(t) = {s[i] : i \in 2 .. Len(s)}
         /\ next[b] = NoBox => t = <<>>
         /\ next[b] # NoBox => Len(s) > 1 /\ s[2] = next[b] /\ Path(next, next[b], t)
<1> DEFINE n == Len(s)
<1>1. /\ s \in Seq(Boxes) /\ n \in Nat \ {0} /\ s[1] = b
      /\ \A i \in 1 .. n : s[i] \in Boxes /\ s[i] # NoBox
  BY PathFacts
<1>2. next[s[n]] = NoBox /\ \A i \in 1 .. (n - 1) : next[s[i]] = s[i + 1]
  BY DEF Path
<1>4. Len(t) = n - 1 /\ DOMAIN t = 1 .. (n - 1) /\ \A i \in 1 .. (n - 1) : t[i] = s[i + 1]
  BY <1>1
<1> HIDE DEF n
<1>6. ToSet(t) = {s[i] : i \in 2 .. n}
  <2>1. ToSet(t) = {t[i] : i \in 1 .. (n - 1)}
    BY <1>4 DEF ToSet
  <2>2. \A i \in 1 .. (n - 1) : i + 1 \in 2 .. n /\ t[i] = s[i + 1]
    BY <1>1, <1>4
  <2>3. \A i \in 2 .. n : i - 1 \in 1 .. (n - 1) /\ t[i - 1] = s[i]
    <3> SUFFICES ASSUME NEW i \in 2 .. n PROVE i - 1 \in 1 .. (n - 1) /\ t[i - 1] = s[i]
      OBVIOUS
    <3>1. i - 1 \in 1 .. (n - 1) /\ (i - 1) + 1 = i
      BY <1>1
    <3> QED
      BY <1>4, <3>1
  <2> QED
    BY <2>1, <2>2, <2>3
<1>7. ASSUME next[b] = NoBox PROVE n = 1 /\ t = <<>>
  <2>1. n = 1
    <3>1. CASE n > 1
      <4>1. 1 \in 1 .. (n - 1) /\ 1 + 1 \in 1 .. n
        BY <1>1, <3>1
      <4> QED
        BY <1>1, <1>2, <1>7, <4>1
    <3> QED
      BY <1>1, <3>1
  <2> QED
    BY <1>4, <2>1
<1>8. ASSUME next[b] # NoBox PROVE n > 1 /\ s[2] = next[b] /\ Path(next, next[b], t)
  <2>1. n > 1
    BY <1>1, <1>2, <1>8
  <2>2. s[2] = next[b] /\ t[1] = next[b]
    <3>1. 1 \in 1 .. (n - 1) /\ 1 + 1 = 2
      BY <1>1, <2>1
    <3> QED
      BY <1>1, <1>2, <1>4, <3>1
  <2>3. next[t[n - 1]] = NoBox
    <3>1. n - 1 \in 1 .. (n - 1) /\ (n - 1) + 1 = n
      BY <1>1, <2>1
    <3> QED
      BY <1>2, <1>4, <3>1
  <2>4. ASSUME NEW i \in 1 .. ((n - 1) - 1) PROVE next[t[i]] = t[i + 1]
    <3>1. i \in 1 .. (n - 1) /\ i + 1 \in 1 .. (n - 1)
      BY <1>1
    <3> QED
      BY <1>2, <1>4, <3>1
  <2>5. n - 1 # 0
    BY <1>1, <2>1
  <2> QED
    BY <1>4, <2>1, <2>2, <2>3, <2>4, <2>5 DEF Path
<1> QED
  BY <1>6, <1>7, <1>8 DEF n

-----------------------------------------------------------------------------
(* The insertions.                                                         *)

LEMMA TwoInFront ==
  ASSUME NEW b \in Boxes, NEW c \in Boxes, NEW t \in Seq(Boxes)
  PROVE  <<b>> \o (<<c>> \o t) = <<b, c>> \o t
<1> DEFINE u == <<c>> \o t
           v == <<b>> \o u
           w == <<b, c>> \o t
           n == Len(t)
<1>1. n \in Nat
  OBVIOUS
<1>2. /\ u \in Seq(Boxes) /\ Len(u) = n + 1
      /\ \A i \in 1 .. (n + 1) : u[i] = IF i = 1 THEN c ELSE t[i - 1]
  OBVIOUS
<1> HIDE DEF u
<1>3. /\ v \in Seq(Boxes) /\ Len(v) = n + 2
      /\ \A i \in 1 .. (n + 2) : v[i] = IF i = 1 THEN b ELSE u[i - 1]
  BY <1>1, <1>2
<1>4. /\ w \in Seq(Boxes) /\ Len(w) = n + 2
      /\ \A i \in 1 .. (n + 2) : w[i] = IF i = 1 THEN b ELSE IF i = 2 THEN c ELSE t[i - 2]
  BY <1>1
<1> HIDE DEF v, w, n
<1>5. ASSUME NEW i \in 1 .. (n + 2) PROVE v[i] = w[i]
  <2>1. CASE i = 1
    BY <1>3, <1>4, <2>1
  <2>2. CASE i # 1
    <3>1. i - 1 \in 1 .. (n + 1) /\ (i - 1 = 1 <=> i = 2) /\ (i - 1) - 1 = i - 2
      BY <1>1, <2>2
    <3> QED
      BY <1>2, <1>3, <1>4, <2>2, <3>1
  <2> QED
    BY <2>1, <2>2
<1>6. v = w
  BY <1>3, <1>4, <1>5
<1> QED
  BY <1>6 DEF u, v, w

LEMMA AfterSplices ==
  ASSUME NEW next \in Heap, AllEnd(next), NEW box \in Boxes, NEW new \in Boxes
  PROVE  LET old == ListOf(next, box)
             after == InsertAfter(next, box, new)
         IN  /\ AllEnd(after) <=> new \notin ToSet(Tail(old))
             /\ new \notin ToSet(old) => ListOf(after, box) = <<box, new>> \o Tail(old)
<1> DEFINE old == ListOf(next, box)
           n == Len(old)
           after == InsertAfter(next, box, new)
<1>1. Path(next, box, old)
  BY ListIsPath DEF AllEnd
<1> HIDE DEF old
<1>2. /\ n \in Nat \ {0} /\ old[1] = box /\ ToSet(old) = {old[i] : i \in 1 .. n}
      /\ \A i \in 1 .. n : old[i] \in Boxes
  BY <1>1, PathFacts
<1>3. /\ ToSet(Tail(old)) = {old[i] : i \in 2 .. n}
      /\ next[box] = NoBox => Tail(old) = <<>>
      /\ next[box] # NoBox => n > 1 /\ old[2] = next[box] /\ Path(next, next[box], Tail(old))
  <2> DEFINE t == Tail(old)
  <2>1. t \in Seq(Boxes) /\ Len(t) = n - 1 /\ \A i \in 1 .. (n - 1) : t[i] = old[i + 1]
    <3>1. old \in Seq(Boxes) /\ old # <<>>
      BY <1>1, <1>2 DEF Path
    <3> QED
      BY <1>2, <3>1
  <2> HIDE DEF t
  <2>2. /\ ToSet(t) = {old[i] : i \in 2 .. n}
        /\ next[box] = NoBox => t = <<>>
        /\ next[box] # NoBox => n > 1 /\ old[2] = next[box] /\ Path(next, next[box], t)
    BY <1>1, <2>1, PathTail
  <2> QED
    BY <2>2 DEF t
<1>4. \A i, j \in 1 .. n : old[i] = old[j] => i = j
  BY <1>1, PathInjective
<1>5. \A i \in 1 .. (n - 1) : next[old[i]] = old[i + 1]
  BY <1>1 DEF Path
<1> HIDE DEF n
<1>6. /\ 1 \in 1 .. n /\ 1 \notin 2 .. n
      /\ \A i \in 1 .. n : i \in 2 .. n \/ i = 1
      /\ \A i \in 2 .. n : i \in 1 .. n
  BY <1>2
<1>7. CASE box = new
  <2>1. after = next
    BY <1>7 DEF InsertAfter, Heap
  <2>2. new \in ToSet(old) /\ new \notin ToSet(Tail(old))
    <3>1. new = old[1]
      BY <1>2, <1>7
    <3> QED
      BY <1>2, <1>3, <1>4, <1>6, <3>1
  <2> HIDE DEF after
  <2> QED
    BY <2>1, <2>2 DEF after, old
<1>8. CASE box # new
  <2>1. /\ after \in Heap /\ after[box] = new /\ after[new] = next[box]
        /\ \A b \in Boxes \ {box, new} : after[b] = next[b]
    BY <1>8 DEF InsertAfter, Heap
  <2> HIDE DEF after
  <2>2. ASSUME new \notin ToSet(Tail(old))
        PROVE  AllEnd(after) /\ ListOf(after, box) = <<box, new>> \o Tail(old)
    <3>1. /\ Ends(after, new)
          /\ ListOf(after, new) = <<new>> \o Tail(old)
      <4>1. CASE next[box] = NoBox
        <5>1. Ends(after, new) /\ ListOf(after, new) = <<new>>
          BY <2>1, <4>1, OneMore
        <5>2. Tail(old) = <<>>
          BY <1>3, <4>1
        <5>3. <<new>> \o <<>> = <<new>>
          OBVIOUS
        <5> QED
          BY <5>1, <5>2, <5>3
      <4>2. CASE next[box] # NoBox
        <5> DEFINE t == Tail(old)
        <5>1. Path(next, next[box], t) /\ next[box] \in Boxes
          BY <1>3, <4>2 DEF Heap
        <5>3. box \notin ToSet(t) /\ new \notin ToSet(t)
          BY <1>2, <1>3, <1>4, <1>6, <2>2
        <5> HIDE DEF t
        <5>2. ToSet(t) = {t[i] : i \in 1 .. Len(t)} /\ \A i \in 1 .. Len(t) : t[i] \in Boxes
          BY <5>1, PathFacts
        <5>4. \A i \in 1 .. Len(t) : after[t[i]] = next[t[i]]
          BY <2>1, <5>2, <5>3
        <5>5. Path(after, next[box], t)
          BY <5>1, <5>4, SamePath
        <5>6. Ends(after, next[box]) /\ ListOf(after, next[box]) = t
          BY <2>1, <5>5, PathIsList
        <5>7. Ends(after, new) /\ ListOf(after, new) = <<new>> \o t
          BY <2>1, <4>2, <5>6, OneMore
        <5> QED
          BY <5>7 DEF t
      <4> QED
        BY <4>1, <4>2
    <3>2. new # NoBox
      BY BoxListAssumption
    <3>3. Ends(after, box) /\ ListOf(after, box) = <<box>> \o (<<new>> \o Tail(old))
      BY <2>1, <3>1, <3>2, OneMore
    <3>4. <<box>> \o (<<new>> \o Tail(old)) = <<box, new>> \o Tail(old)
      <4>1. Tail(old) \in Seq(Boxes)
        <5>1. old \in Seq(Boxes) /\ old # <<>>
          BY <1>1, <1>2 DEF Path, n
        <5> QED
          BY <5>1
      <4> QED
        BY <4>1, TwoInFront
    <3>5. AllEnd(after)
      <4>1. {box, new} \in SUBSET Boxes /\ \A d \in {box, new} : Ends(after, d)
        BY <3>1, <3>3
      <4> QED
        BY <2>1, <4>1, Diverted
    <3> QED
      BY <3>3, <3>4, <3>5
  <2>3. ASSUME new \in ToSet(Tail(old)) PROVE ~AllEnd(after)
    <3>1. PICK k \in 2 .. n : new = old[k]
      BY <1>3, <2>3
    <3> DEFINE C == {old[i] : i \in 2 .. k}
    <3>0. 2 \in 2 .. k /\ k \in 1 .. n /\ 1 \in 1 .. n
      BY <1>2
    <3>2. \A c \in C : after[c] \in C
      <4> SUFFICES ASSUME NEW i \in 2 .. k PROVE after[old[i]] \in C
        OBVIOUS
      <4>1. CASE i = k
        <5>1. next[box] = old[2]
          <6>1. 1 \in 1 .. (n - 1) /\ 1 + 1 = 2
            BY <1>2
          <6> QED
            BY <1>2, <1>5, <6>1
        <5> QED
          BY <2>1, <3>0, <3>1, <4>1, <5>1
      <4>2. CASE i # k
        <5>1. i \in 1 .. (n - 1) /\ i \in 1 .. n /\ i # 1 /\ i + 1 \in 2 .. k
          BY <1>2, <4>2
        <5>2. old[i] # box /\ old[i] # new /\ old[i] \in Boxes
          BY <1>2, <1>4, <3>0, <3>1, <4>2, <5>1
        <5>3. after[old[i]] = old[i + 1]
          BY <1>5, <2>1, <5>1, <5>2
        <5> QED
          BY <5>1, <5>3
      <4> QED
        BY <4>1, <4>2
    <3>3. C \in SUBSET Boxes /\ new \in C
      <4>1. \A i \in 2 .. k : i \in 1 .. n
        BY <1>2
      <4>2. k \in 2 .. k
        BY <3>1
      <4> QED
        BY <1>2, <3>1, <4>1, <4>2
    <3> HIDE DEF C
    <3>4. ~Ends(after, new)
      BY <2>1, <3>2, <3>3, CycleNeverEnds
    <3> QED
      BY <3>4 DEF AllEnd
  <2>4. new \notin ToSet(old) => new \notin ToSet(Tail(old))
    BY <1>2, <1>3, <1>6
  <2> QED
    BY <2>2, <2>3, <2>4 DEF after, old
<1> QED
  BY <1>7, <1>8

LEMMA FrontSplices ==
  ASSUME NEW next \in Heap, AllEnd(next), NEW box \in Boxes, NEW new \in Boxes
  PROVE  LET old == ListOf(next, box)
             front == InsertFront(next, new, box)
         IN  /\ AllEnd(front) <=> new \notin ToSet(old)
             /\ new \notin ToSet(old) => ListOf(front, new) = <<new>> \o old
<1> DEFINE old == ListOf(next, box)
           n == Len(old)
           front == InsertFront(next, new, box)
<1>1. Path(next, box, old)
  BY ListIsPath DEF AllEnd
<1> HIDE DEF old
<1>2. /\ n \in Nat \ {0} /\ old[1] = box /\ ToSet(old) = {old[i] : i \in 1 .. n}
      /\ \A i \in 1 .. n : old[i] \in Boxes
  BY <1>1, PathFacts
<1>3. \A i, j \in 1 .. n : old[i] = old[j] => i = j
  BY <1>1, PathInjective
<1>4. \A i \in 1 .. (n - 1) : next[old[i]] = old[i + 1]
  BY <1>1 DEF Path
<1>5. front \in Heap /\ front[new] = box /\ \A b \in Boxes \ {new} : front[b] = next[b]
  BY DEF InsertFront, Heap
<1> HIDE DEF n, front
<1>6. ASSUME new \notin ToSet(old)
      PROVE  AllEnd(front) /\ ListOf(front, new) = <<new>> \o old
  <2>1. \A i \in 1 .. Len(old) : front[old[i]] = next[old[i]]
    BY <1>2, <1>5, <1>6 DEF n
  <2>2. Path(front, box, old)
    BY <1>1, <2>1, SamePath
  <2>3. Ends(front, box) /\ ListOf(front, box) = old /\ box # NoBox
    BY <1>5, <2>2, PathIsList, BoxListAssumption
  <2>4. Ends(front, new) /\ ListOf(front, new) = <<new>> \o old
    BY <1>5, <2>3, OneMore
  <2>5. AllEnd(front)
    <3>1. {new} \in SUBSET Boxes /\ \A d \in {new} : Ends(front, d)
      BY <2>4
    <3> QED
      BY <1>5, <3>1, Diverted
  <2> QED
    BY <2>4, <2>5
<1>7. ASSUME new \in ToSet(old) PROVE ~AllEnd(front)
  <2>1. PICK k \in 1 .. n : new = old[k]
    BY <1>2, <1>7
  <2> DEFINE C == {old[i] : i \in 1 .. k}
  <2>2. \A c \in C : front[c] \in C
    <3> SUFFICES ASSUME NEW i \in 1 .. k PROVE front[old[i]] \in C
      OBVIOUS
    <3>1. CASE i = k
      <4>1. 1 \in 1 .. k
        BY <1>2
      <4> QED
        BY <1>2, <1>5, <2>1, <3>1, <4>1
    <3>2. CASE i # k
      <4>1. i \in 1 .. (n - 1) /\ i \in 1 .. n /\ i + 1 \in 1 .. k
        BY <1>2, <3>2
      <4>2. old[i] # new /\ old[i] \in Boxes
        BY <1>2, <1>3, <2>1, <3>2, <4>1
      <4>3. front[old[i]] = old[i + 1]
        BY <1>4, <1>5, <4>1, <4>2
      <4> QED
        BY <4>1, <4>3
    <3> QED
      BY <3>1, <3>2
  <2>3. C \in SUBSET Boxes /\ new \in C
    <3>1. k \in 1 .. k /\ \A i \in 1 .. k : i \in 1 .. n
      BY <1>2
    <3> QED
      BY <1>2, <2>1, <3>1
  <2> HIDE DEF C
  <2>4. ~Ends(front, new)
    BY <1>5, <2>2, <2>3, CycleNeverEnds
  <2> QED
    BY <2>4 DEF AllEnd
<1> QED
  BY <1>6, <1>7 DEF front, old

LEMMA BackSplices ==
  ASSUME NEW next \in Heap, AllEnd(next), NEW box \in Boxes, NEW new \in Boxes
  PROVE  LET old == ListOf(next, box)
             own == ListOf(next, new)
             back == InsertBack(next, new, box)
         IN  /\ AllEnd(back) <=> Last(old) # Last(own)
             /\ ToSet(old) \cap ToSet(own) = {} => ListOf(back, box) = old \o own
<1> DEFINE old == ListOf(next, box)
           own == ListOf(next, new)
           n == Len(old)
           m == Len(own)
           last == old[n]
           back == InsertBack(next, new, box)
<1>1. Path(next, box, old) /\ Path(next, new, own)
  BY ListIsPath DEF AllEnd
<1>a. last = Last(old) /\ own[m] = Last(own)
  BY DEF Last
<1>b. back = [next EXCEPT ![last] = new]
  BY DEF InsertBack, Last
<1> HIDE DEF old, own
<1>2. /\ n \in Nat \ {0} /\ old \in Seq(Boxes) /\ old[1] = box /\ ToSet(old) = {old[i] : i \in 1 .. n}
      /\ \A i \in 1 .. n : old[i] \in Boxes
  BY <1>1, PathFacts
<1>3. /\ m \in Nat \ {0} /\ own \in Seq(Boxes) /\ own[1] = new /\ ToSet(own) = {own[i] : i \in 1 .. m}
      /\ \A i \in 1 .. m : own[i] \in Boxes
  BY <1>1, PathFacts
<1>4. (\A i, j \in 1 .. n : old[i] = old[j] => i = j) /\ \A i, j \in 1 .. m : own[i] = own[j] => i = j
  BY <1>1, PathInjective
<1>5. next[old[n]] = NoBox /\ \A i \in 1 .. (n - 1) : next[old[i]] = old[i + 1]
  BY <1>1 DEF Path
<1>6. next[own[m]] = NoBox /\ \A i \in 1 .. (m - 1) : next[own[i]] = own[i + 1]
  BY <1>1 DEF Path
<1> HIDE DEF n, m
<1>7. n \in 1 .. n /\ m \in 1 .. m /\ 1 \in 1 .. m
  BY <1>2, <1>3
<1>8. last \in Boxes /\ next[last] = NoBox
  BY <1>2, <1>5, <1>7
<1> HIDE DEF last, back
<1>9. back \in Heap /\ back[last] = new /\ \A b \in Boxes \ {last} : back[b] = next[b]
  BY <1>b, <1>8 DEF Heap
<1>10. ASSUME last # own[m] PROVE AllEnd(back)
  <2>1. \A i \in 1 .. m : own[i] # last
    <3> SUFFICES ASSUME NEW i \in 1 .. m, own[i] = last PROVE FALSE
      OBVIOUS
    <3>1. i # m
      BY <1>10
    <3>2. i \in 1 .. (m - 1) /\ i + 1 \in 1 .. m
      BY <1>3, <3>1
    <3>3. next[last] = own[i + 1] /\ own[i + 1] \in Boxes
      BY <1>3, <1>6, <3>2
    <3> QED
      BY <1>8, <3>3, BoxListAssumption
  <2>2. \A i \in 1 .. Len(own) : back[own[i]] = next[own[i]]
    BY <1>3, <1>9, <2>1 DEF m
  <2>3. Path(back, new, own)
    BY <1>1, <2>2, SamePath
  <2>4. Ends(back, new)
    BY <1>9, <2>3, PathIsList
  <2>5. Ends(back, last)
    BY <1>8, <1>9, <2>4, OneMore
  <2>6. {last} \in SUBSET Boxes /\ \A d \in {last} : Ends(back, d)
    BY <1>8, <2>5
  <2> QED
    BY <1>9, <2>6, Diverted
<1>11. ASSUME last = own[m] PROVE ~AllEnd(back)
  <2> DEFINE C == {own[i] : i \in 1 .. m}
  <2>1. \A c \in C : back[c] \in C
    <3> SUFFICES ASSUME NEW i \in 1 .. m PROVE back[own[i]] \in C
      OBVIOUS
    <3>1. CASE i = m
      BY <1>3, <1>7, <1>9, <1>11, <3>1
    <3>2. CASE i # m
      <4>1. i \in 1 .. (m - 1) /\ i + 1 \in 1 .. m
        BY <1>3, <3>2
      <4>2. own[i] # last /\ own[i] \in Boxes
        BY <1>3, <1>4, <1>7, <1>11, <3>2
      <4>3. back[own[i]] = own[i + 1]
        BY <1>6, <1>9, <4>1, <4>2
      <4> QED
        BY <4>1, <4>3
    <3> QED
      BY <3>1, <3>2
  <2>2. C \in SUBSET Boxes /\ new \in C
    BY <1>3, <1>7
  <2> HIDE DEF C
  <2>3. ~Ends(back, new)
    BY <1>9, <2>1, <2>2, CycleNeverEnds
  <2> QED
    BY <2>3 DEF AllEnd
<1>12. ASSUME ToSet(old) \cap ToSet(own) = {}
       PROVE  ListOf(back, box) = old \o own
  <2> DEFINE s == old \o own
  <2>1. /\ s \in Seq(Boxes) /\ Len(s) = n + m
        /\ \A i \in 1 .. n + m : s[i] = IF i <= n THEN old[i] ELSE own[i - n]
    BY <1>2, <1>3 DEF n, m
  <2> HIDE DEF s
  <2>2. \A i \in 1 .. m : own[i] # last
    <3>1. last \in ToSet(old)
      BY <1>2, <1>7 DEF last
    <3> QED
      BY <1>3, <1>12, <3>1
  <2>3. \A i \in 1 .. m : back[own[i]] = next[own[i]]
    BY <1>3, <1>9, <2>2
  <2>4. \A i \in 1 .. (n - 1) : i \in 1 .. n /\ i # n /\ back[old[i]] = old[i + 1]
    <3> SUFFICES ASSUME NEW i \in 1 .. (n - 1) PROVE i \in 1 .. n /\ i # n /\ back[old[i]] = old[i + 1]
      OBVIOUS
    <3>1. i \in 1 .. n /\ i # n
      BY <1>2
    <3>2. old[i] # last /\ old[i] \in Boxes
      BY <1>2, <1>4, <1>7, <3>1 DEF last
    <3> QED
      BY <1>5, <1>9, <3>1, <3>2
  <2>5. ASSUME NEW i \in 1 .. (n + m - 1) PROVE back[s[i]] = s[i + 1]
    <3>0. i \in 1 .. n + m /\ i + 1 \in 1 .. n + m
      BY <1>2, <1>3
    <3>1. CASE i < n
      <4>1. i \in 1 .. (n - 1) /\ i <= n /\ i + 1 <= n
        BY <1>2, <3>1
      <4> QED
        BY <2>1, <2>4, <3>0, <4>1
    <3>2. CASE i = n
      <4>1. i <= n /\ ~(i + 1 <= n) /\ (i + 1) - n = 1
        BY <1>2, <3>2
      <4>2. s[i] = last /\ s[i + 1] = new
        BY <1>3, <2>1, <3>0, <3>2, <4>1 DEF last
      <4> QED
        BY <1>9, <4>2
    <3>3. CASE i > n
      <4>1. ~(i <= n) /\ ~(i + 1 <= n) /\ i - n \in 1 .. (m - 1) /\ i - n \in 1 .. m
            /\ (i + 1) - n = (i - n) + 1
        BY <1>2, <1>3, <3>3
      <4>2. s[i] = own[i - n] /\ s[i + 1] = own[(i - n) + 1]
        BY <2>1, <3>0, <4>1
      <4> QED
        BY <1>6, <2>3, <4>1, <4>2
    <3> QED
      BY <1>2, <3>1, <3>2, <3>3
  <2>6. back[s[n + m]] = NoBox
    <3>1. n + m \in 1 .. n + m /\ ~(n + m <= n) /\ (n + m) - n = m
      BY <1>2, <1>3
    <3>2. s[n + m] = own[m]
      BY <2>1, <3>1
    <3> QED
      BY <1>6, <1>7, <2>3, <3>2
  <2>7. s[1] = box /\ n + m # 0
    <3>1. 1 \in 1 .. n + m /\ 1 <= n /\ n + m # 0
      BY <1>2, <1>3
    <3> QED
      BY <1>2, <2>1, <3>1
  <2>8. Path(back, box, s)
    <3>1. /\ s \in Seq(Boxes) /\ Len(s) # 0 /\ s[1] = box
      BY <2>1, <2>7
    <3>2. \A i \in 1 .. (Len(s) - 1) : back[s[i]] = s[i + 1]
      <4>1. Len(s) - 1 = n + m - 1
        BY <1>2, <1>3, <2>1
      <4> QED
        BY <2>5, <4>1
    <3>3. back[s[Len(s)]] = NoBox
      BY <2>1, <2>6
    <3> QED
      BY <3>1, <3>2, <3>3 DEF Path
  <2> QED
    BY <1>9, <2>8, PathIsList DEF s
<1> QED
  BY <1>a, <1>10, <1>11, <1>12 DEF back, old, own

LEMMA ListType == ASSUME link \in Heap, [ListNext]_link PROVE link' \in Heap
<1>1. ASSUME NEW box \in Boxes, NEW new \in Boxes
      PROVE  /\ InsertAfter(link, box, new) \in Heap /\ InsertFront(link, new, box) \in Heap
             /\ InsertBack(link, new, box) \in Heap
  <2>1. InsertAfter(link, box, new) \in Heap /\ InsertFront(link, new, box) \in Heap
    BY DEF InsertAfter, InsertFront, Heap
  <2> DEFINE last == Last(ListOf(link, box))
  <2>2. InsertBack(link, new, box) = [link EXCEPT ![last] = new]
    BY DEF InsertBack
  <2> HIDE DEF last
  <2> QED
    BY <2>1, <2>2 DEF Heap
<1> QED
  BY <1>1 DEF ListNext

\* In a heap of any number of boxes whose lists all end, each insertion makes
\* the list it says, and closes a cycle exactly where the model says
\* (basic_linkable.ml:12-32).
THEOREM ListsSplice == ListSpec => InsertionsSplice
<1>1. ListInit => link \in Heap
  BY DEF ListInit, Heap
<1>2. link \in Heap /\ [ListNext]_link => (link \in Heap)'
  BY ListType
<1>3. ASSUME link \in Heap, AllEnd(link) PROVE Splices(link)
  BY <1>3, AfterSplices, FrontSplices, BackSplices DEF Splices
<1>4. link \in Heap => [link' # link /\ AllEnd(link) => Splices(link)]_link
  BY <1>3
<1> QED
  BY <1>1, <1>2, <1>4, PTL DEF ListSpec, InsertionsSplice
=============================================================================
