------------------------------- MODULE BaseArena -------------------------------
(***************************************************************************)
(* The arena of ui_c/src/base/base_arena.c: a bump allocator that gives    *)
(* back from the top, by amount, to a position, or to where a Scratch was  *)
(* begun.  As in src/domain/arena.h, addresses advance by words while the  *)
(* offset counts bytes.                                                    *)
(*                                                                         *)
(* A Scratch is a position, and nothing marks it as ended: callers may end *)
(* scratches in any order and more than once (arena_test.c:44-55 does),    *)
(* and pop, reset or release the arena below one.                          *)
(***************************************************************************)
EXTENDS Integers, Sequences, FiniteSets

CONSTANTS
  Word,        \* sizeof(uintptr_t)
  Page,        \* ARENA_PAGE_SIZE
  Capacity,    \* what arena_alloc is asked for
  Sizes,       \* sizes callers push and amounts they pop, far below 2^64
  MaxScratch,  \* bound: scratches begun
  MaxBlocks    \* bound: blocks in use

ASSUME BaseArenaAssumption ==
  /\ Word \in Nat \ {0} /\ Page \in Nat \ {0} /\ Capacity \in Nat
  /\ Sizes \subseteq Nat

RoundUp(n, unit) == ((n + unit - 1) \div unit) * unit

VARIABLES
  offset, capacity,   \* the Arena
  blocks,             \* the blocks callers still use, with the offsets they span
  scratch,            \* the scratches in the order they were begun, with the blocks
                      \* then, and whether callers have kept to them since
  released,           \* arena_release has been called
  died                \* the call whose assert has failed, and with what

vars == <<offset, capacity, blocks, scratch, released, died>>

Alive == [call |-> "none", with |-> 0]

Init ==
  /\ offset = 0 /\ capacity = RoundUp(Capacity, Page)
  /\ blocks = {} /\ scratch = <<>>
  /\ released = FALSE /\ died = Alive

\* An assert fails.
Fail(call, with) ==
  /\ died' = [call |-> call, with |-> with]
  /\ UNCHANGED <<offset, capacity, blocks, scratch, released>>

\* Mutant of Push: the assert is made on the offset before the push.
PushWhileRoom(size) ==
  LET n == RoundUp(size, Word) IN
  IF offset <= capacity
    THEN /\ blocks' = blocks \cup {[from |-> offset, to |-> offset + n, size |-> size]}
         /\ offset' = offset + n
         /\ UNCHANGED <<capacity, scratch, released, died>>
    ELSE Fail("push", size)

\* Mutant of Push: the offset stays.
PushInPlace(size) ==
  LET n == RoundUp(size, Word) IN
  IF offset + n <= capacity
    THEN /\ blocks' = blocks \cup {[from |-> offset, to |-> offset + n, size |-> size]}
         /\ UNCHANGED <<offset, capacity, scratch, released, died>>
    ELSE Fail("push", size)

\* arena_push.
Push(size) ==
  LET n == RoundUp(size, Word) IN
  IF offset + n <= capacity
    THEN /\ blocks' = blocks \cup {[from |-> offset, to |-> offset + n, size |-> size]}
         /\ offset' = offset + n
         /\ UNCHANGED <<capacity, scratch, released, died>>
    ELSE Fail("push", size)

\* arena_pop_to, but for its assert: what lies above pos, or across it, is given
\* back.
GiveBack(pos) ==
  /\ offset' = pos
  /\ blocks' = {b \in blocks : b.to <= pos}
  /\ UNCHANGED <<capacity, released, died>>

\* The scratches with an index in S are no longer kept to.
Spoil(S) ==
  scratch' = [i \in DOMAIN scratch |->
                IF i \in S THEN [scratch[i] EXCEPT !.kept = FALSE, !.below = {}]
                           ELSE scratch[i]]

\* Mutant of PopTarget: the difference of unsigned numbers wraps around.
PopTargetWrapped(amount) ==
  IF amount <= offset THEN offset - amount ELSE offset - amount + 1000

\* The new offset of arena_pop: an amount that is not less than the offset
\* pops nothing, the whole of the offset included.
PopTarget(amount) == IF amount < offset THEN offset - amount ELSE offset

\* The scratches in which less than amount was pushed.
PoppedBelow(amount) == {i \in DOMAIN scratch : offset - scratch[i].offset < amount}

\* arena_pop.
Pop(amount) ==
  IF offset >= PopTarget(amount)
    THEN GiveBack(PopTarget(amount)) /\ Spoil(PoppedBelow(amount))
    ELSE Fail("pop", amount)

\* arena_reset.
Reset == GiveBack(0) /\ Spoil(DOMAIN scratch)

\* arena_scratch_begin.
Begin ==
  /\ Len(scratch) < MaxScratch
  /\ scratch' = Append(scratch, [offset |-> offset, below |-> blocks, kept |-> TRUE])
  /\ UNCHANGED <<offset, capacity, blocks, released, died>>

\* Mutant of End: it resets the arena.
EndByReset(i) == GiveBack(0) /\ Spoil({j \in DOMAIN scratch : i < j})

\* arena_scratch_end of the i-th scratch begun, and with it of the later ones.
End(i) ==
  IF offset >= scratch[i].offset
    THEN GiveBack(scratch[i].offset) /\ Spoil({j \in DOMAIN scratch : i < j})
    ELSE Fail("scratch_end", i)

\* Mutant of Release: the offset stays.
ReleaseKeepsOffset ==
  /\ released' = TRUE /\ capacity' = 0 /\ blocks' = {}
  /\ Spoil(DOMAIN scratch)
  /\ UNCHANGED <<offset, died>>

\* arena_release.
Release ==
  /\ released' = TRUE /\ capacity' = 0 /\ offset' = 0 /\ blocks' = {}
  /\ Spoil(DOMAIN scratch)
  /\ UNCHANGED died

Next ==
  /\ died = Alive
  /\ \/ \E n \in Sizes : (Cardinality(blocks) < MaxBlocks /\ Push(n)) \/ Pop(n)
     \/ Reset \/ Begin \/ Release
     \/ \E i \in DOMAIN scratch : End(i)

Spec == Init /\ [][Next]_vars

-----------------------------------------------------------------------------

Block == [from : Nat, to : Nat, size : Sizes]

TypeOK ==
  /\ offset \in 0 .. capacity
  /\ capacity \in {0, RoundUp(Capacity, Page)}
  /\ blocks \subseteq Block
  /\ \A i \in DOMAIN scratch :
       /\ scratch[i].offset \in Nat /\ scratch[i].below \subseteq Block
       /\ scratch[i].kept \in BOOLEAN
  /\ released \in BOOLEAN
  /\ died.call \in {"none", "push", "pop", "scratch_end"} /\ died.with \in Nat

Bytes(b) == (Word * b.from) .. (Word * b.from + b.size - 1)

\* No byte belongs to two blocks in use, however pushes, pops of amounts that
\* are no block's, resets, releases and scratches follow each other.
NoOverlap ==
  \A b, c \in blocks : b # c => Bytes(b) \cap Bytes(c) = {}

\* What was pushed before a scratch began is still there, and the arena at least
\* as full, as long as callers keep to the scratch: they reset and release
\* nothing, pop no more than they have pushed in it, and end no scratch begun
\* before it.  Scratches inside it may be left open, ended in any order, ended
\* twice, or ended after one of them was spoiled (arena_scratch_begin and _end).
ScratchKeeps ==
  \A i \in DOMAIN scratch : scratch[i].kept =>
    /\ scratch[i].below \subseteq blocks
    /\ scratch[i].offset <= offset
    /\ \A b \in scratch[i].below : b.to <= scratch[i].offset

\* An assert fails for two reasons only.  A push finds no room for what it was
\* asked for; or a scratch is ended that callers have not kept to, above where
\* the arena is by then.  It never does in arena_pop or arena_reset, whatever
\* amount is popped, nor at the end of a scratch that was kept to
\* (base_arena.c:47, 79).
FailsWithCause ==
  /\ died.call # "pop"
  /\ died.call = "push" => offset + RoundUp(died.with, Word) > capacity
  /\ died.call = "scratch_end" =>
       LET s == scratch[died.with] IN ~s.kept /\ s.offset > offset

\* "If a user tries to use the arena again it will throw on assets"
\* (base_arena.c:36, of an arena that was released).
ReleasedThrows ==
  [][released => died'.call # "none"]_vars
=============================================================================
