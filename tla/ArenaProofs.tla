------------------------------- MODULE ArenaProofs -------------------------------
(***************************************************************************)
(* With asserts no byte of a mapping is handed out twice, and scratch      *)
(* arenas keep apart from all but those they were taken from; without them *)
(* this holds of what was handed out while there was room.  For any word,  *)
(* page, sizes and number of arenas, however they nest and are reset.      *)
(***************************************************************************)
EXTENDS Arena, Induction

-----------------------------------------------------------------------------
(* The inductive invariant.                                                *)

\* What an arena has not handed out.
Free(a) == Top(a) .. (End(a) - 1)

\* Closed under taking arenas.
Closed(D) == \A x \in DOMAIN parent : parent[x] \in D => x \in D

\* The arenas taken from a, directly or not, and a: those that are in every
\* closed set with a in it.
Under(x, a) == \A D \in SUBSET InUse : a \in D /\ Closed(D) => x \in D

\* Nobody has what is free, and what arenas have in common is a's because it
\* was taken from a; among what was handed out while there was room.
FreeInv ==
  /\ \A b \in blocks, a \in sound : ~Stray(b) => Bytes(b) \cap Free(a) = {}
  /\ \A a, c \in sound : a # c => Free(a) \cap Free(c) = {}

NestInv ==
  /\ \A b \in blocks, a \in sound :
       ~Stray(b) /\ Bytes(b) \cap Stretch(a) # {} => Under(b.of, a)
  /\ \A x, a \in sound : Free(x) \cap Stretch(a) # {} => Under(x, a)
  /\ \A x, a \in sound : Stretch(x) \cap Stretch(a) # {} => Under(x, a) \/ Under(a, x)

\* Asserts leave nothing stray, and arenas end where their parents go on.
RoomInv ==
  /\ ndebug \/ (sound = InUse /\ \A b \in blocks : ~Stray(b))
  /\ \A x \in DOMAIN parent :
       /\ End(x) <= Top(parent[x])
       /\ x \in sound => Stretch(x) \subseteq Stretch(parent[x])

Apart ==
  \A b, c \in blocks :
    b # c /\ ~Stray(b) /\ ~Stray(c) => Bytes(b) \cap Bytes(c) = {}

ArenaInv ==
  /\ ArenaTypeOK /\ IsFiniteSet(InUse)
  /\ FreeInv /\ NestInv /\ RoomInv /\ Apart

-----------------------------------------------------------------------------
(* What the operators do.                                                  *)

LEMMA RoundUpBounds ==
  ASSUME NEW n \in Nat, NEW unit \in Nat \ {0}
  PROVE  RoundUp(n, unit) \in Nat /\ n <= RoundUp(n, unit)
<1>1. n + unit - 1 \in Nat
  OBVIOUS
<1>2. (n + unit - 1) \div unit \in Nat
  BY <1>1, Division
<1>3. ((n + unit - 1) \div unit) * unit \in Nat
  BY <1>2
<1> QED
  BY <1>1, <1>3, Division DEF RoundUp

\* Above goes on for as many steps as there are arenas, which is until there is
\* nothing above what it has found.
LEMMA AboveClosed ==
  ASSUME IsFiniteSet(InUse), DOMAIN parent \subseteq InUse, NEW a
  PROVE  /\ Above(a) \subseteq DOMAIN parent
         /\ \A x \in DOMAIN parent : parent[x] \in Above(a) \cup {a} => x \in Above(a)
<1> DEFINE P == DOMAIN parent
           N == Cardinality(InUse)
           step == [A \in SUBSET P |-> {x \in P : parent[x] \in A \cup {a}}]
           Level(f) == f = [n \in 0 .. N |->
                              IF n = 0 THEN {} ELSE {x \in P : parent[x] \in f[n - 1] \cup {a}}]
           level == CHOOSE f : Level(f)
<1>1. N \in Nat /\ IsFiniteSet(P) /\ Cardinality(P) <= N
  BY FS_CardinalityType, FS_Subset
<1>2. Monotone(step, P)
  BY DEF Monotone
<1> HIDE DEF N
<1>3. \E f : Level(f)
  <2>1. PICK f : Repeats(f, SUBSET P, {}, step, N)
    <3> DEFINE S == SUBSET P
    <3>1. step \in [S -> S] /\ {} \in S
      OBVIOUS
    <3> HIDE DEF step, S
    <3>2. \E f : Repeats(f, S, {}, step, N)
      BY <1>1, <3>1, Repetitions
    <3> QED
      BY <3>2 DEF S
  <2>2. ASSUME NEW n \in 0 .. N, n # 0
        PROVE  f[n] = {x \in P : parent[x] \in f[n - 1] \cup {a}}
    <3>1. n \in 1 .. N /\ n - 1 \in 0 .. N
      BY <1>1, <2>2
    <3> QED
      BY <2>1, <3>1 DEF Repeats
  <2>3. Level(f)
    BY <2>1, <2>2 DEF Repeats
  <2> QED
    BY <2>3
<1>4. Level(level)
  BY <1>3
<1>5. Above(a) = level[N]
  BY DEF Above, N
<1> HIDE DEF level
<1>6. level \in [0 .. N -> SUBSET P] /\ level[0] = {}
  BY <1>1, <1>4
<1>7. \A n \in 1 .. N : level[n] = step[level[n - 1]]
  <2> SUFFICES ASSUME NEW n \in 1 .. N PROVE level[n] = step[level[n - 1]]
    OBVIOUS
  <2>1. n \in 0 .. N /\ n # 0 /\ n - 1 \in 0 .. N
    BY <1>1
  <2>2. level[n - 1] \in SUBSET P
    BY <1>6, <2>1
  <2> QED
    BY <1>4, <2>1, <2>2
<1>8. Repeats(level, SUBSET P, {}, step, N)
  BY <1>6, <1>7 DEF Repeats
<1>9. step[level[N]] = level[N] /\ level[N] \in SUBSET P
  <2>1. step[level[N]] = level[N]
    <3> HIDE DEF step, P
    <3> QED
      BY <1>1, <1>2, <1>8, Saturation
  <2> QED
    BY <1>1, <1>6, <2>1
<1> QED
  BY <1>5, <1>9

\* The numbers of an arena.
LEMMA Places ==
  ASSUME ArenaTypeOK, NEW a \in InUse
  PROVE  /\ arena[a].base \in Nat /\ arena[a].offset \in Nat /\ arena[a].capacity \in Nat
         /\ Word * arena[a].offset \in Nat /\ Word * arena[a].capacity \in Nat
         /\ Top(a) \in Nat /\ arena[a].base <= Top(a) /\ End(a) \in Nat
         /\ Free(a) \subseteq Stretch(a)
<1>1. arena[a].base \in Nat /\ arena[a].offset \in Nat /\ arena[a].capacity \in Nat
  BY DEF ArenaTypeOK
<1>2. \A p \in Nat : Word * p \in Nat
  BY ArenaAssumption
<1>3. Word * arena[a].offset \in Nat /\ Word * arena[a].capacity \in Nat
  BY <1>1, <1>2
<1> QED
  BY <1>1, <1>3 DEF Top, End, Free, Stretch

\* Moving an arena's offset on by n takes Word * n bytes from it, and from what
\* is free if there was room.
LEMMA Advances ==
  ASSUME ArenaTypeOK, NEW a \in InUse, NEW n \in Nat,
         arena'[a] = [base |-> arena[a].base, offset |-> arena[a].offset + n,
                      capacity |-> arena[a].capacity]
  PROVE  /\ Top(a)' = Top(a) + Word * n /\ Word * n \in Nat /\ n <= Word * n
         /\ Stretch(a)' = Stretch(a) /\ End(a)' = End(a)
         /\ Fits(a, n) => Top(a) .. (Top(a) + Word * n - 1) \subseteq Free(a)
         /\ Free(a)' \subseteq Free(a) \ (Top(a) .. (Top(a) + Word * n - 1))
         /\ arena'[a] \in [base : Nat, offset : Nat, capacity : Nat]
         /\ Fits(a, n) => arena'[a].offset <= arena'[a].capacity
<1> DEFINE b == arena[a].base
           o == arena[a].offset
           c == arena[a].capacity
<1>1. b \in Nat /\ o \in Nat /\ c \in Nat /\ (Fits(a, n) <=> o + n <= c)
  BY Places DEF Fits
<1>2. \A p, q \in Nat : p <= q => /\ Word * p \in Nat /\ Word * q \in Nat /\ Word * p <= Word * q
                                  /\ q - p <= Word * q - Word * p
  BY Stretched, ArenaAssumption
<1>3. Word * (o + n) = Word * o + Word * n /\ Word * 0 = 0
  BY <1>1, ArenaAssumption
<1>4. /\ Word * n \in Nat /\ n <= Word * n /\ Word * o \in Nat /\ Word * c \in Nat
      /\ Fits(a, n) => Word * (o + n) <= Word * c
  <2>1. 0 \in Nat /\ n \in Nat /\ 0 <= n /\ o + n \in Nat /\ o <= o + n
    BY <1>1
  <2>2. Word * n \in Nat /\ n - 0 <= Word * n - Word * 0
    BY <1>2, <2>1
  <2>3. n <= Word * n
    BY <1>3, <2>1, <2>2
  <2>4. Word * o \in Nat /\ Word * c \in Nat
    BY <1>1, <1>2
  <2>5. Fits(a, n) => Word * (o + n) <= Word * c
    BY <1>1, <1>2, <2>1
  <2> QED
    BY <2>2, <2>3, <2>4, <2>5
<1>5. arena'[a].base = b /\ arena'[a].offset = o + n /\ arena'[a].capacity = c
  OBVIOUS
<1>6. Top(a)' = b + Word * (o + n) /\ Top(a) = b + Word * o
  BY <1>5 DEF Top
<1> DEFINE e == b + Word * c
<1>7. Stretch(a)' = Stretch(a) /\ End(a)' = e /\ End(a) = e
  BY <1>5 DEF Stretch, End
<1>8. e \in Int
  BY <1>1, <1>4
<1> HIDE DEF e
<1>9. Free(a) = Top(a) .. (e - 1) /\ Free(a)' = Top(a)' .. (e - 1)
  BY <1>7 DEF Free
<1> HIDE DEF b, o, c
<1>10. arena'[a] \in [base : Nat, offset : Nat, capacity : Nat]
  BY <1>1 DEF b, o, c
<1>11. /\ Top(a) \in Nat /\ Top(a)' = Top(a) + Word * n
       /\ Fits(a, n) => Top(a)' <= e
  BY <1>1, <1>3, <1>4, <1>6 DEF e
<1>12. Fits(a, n) => Top(a) .. (Top(a) + Word * n - 1) \subseteq Free(a)
  BY <1>4, <1>8, <1>9, <1>11, SMTT(30)
<1>13. Free(a)' \subseteq Free(a) \ (Top(a) .. (Top(a) + Word * n - 1))
  BY <1>4, <1>8, <1>9, <1>11, SMTT(30)
<1> QED
  BY <1>1, <1>4, <1>5, <1>7, <1>10, <1>11, <1>12, <1>13

\* An arena that stays as it is keeps its places.
LEMMA Stays ==
  ASSUME NEW a, arena'[a] = arena[a]
  PROVE  /\ Top(a)' = Top(a) /\ End(a)' = End(a)
         /\ Free(a)' = Free(a) /\ Stretch(a)' = Stretch(a)
BY DEF Top, End, Free, Stretch

LEMMA UnderSelf == ASSUME NEW a PROVE Under(a, a)
BY DEF Under

\* What is under an arena is above it.
LEMMA UnderAbove ==
  ASSUME ArenaTypeOK, IsFiniteSet(InUse), NEW a \in InUse, NEW x, Under(x, a)
  PROVE  x = a \/ x \in Above(a)
<1>1. DOMAIN parent = InUse \ {Root}
  BY DEF ArenaTypeOK
<1>2. /\ Above(a) \subseteq DOMAIN parent
      /\ \A y \in DOMAIN parent : parent[y] \in Above(a) \cup {a} => y \in Above(a)
  BY <1>1, AboveClosed
<1>3. Closed(Above(a) \cup {a}) /\ Above(a) \cup {a} \in SUBSET InUse
  BY <1>1, <1>2 DEF Closed
<1> QED
  BY <1>3 DEF Under

-----------------------------------------------------------------------------
(* The steps.                                                              *)

LEMMA StartInv == ArenaInit => ArenaInv
<1> SUFFICES ASSUME ArenaInit PROVE ArenaInv
  OBVIOUS
<1>1. /\ InUse = {Root} /\ sound = {Root} /\ DOMAIN parent = {} /\ blocks = {}
      /\ IsFiniteSet(InUse)
  BY FS_Singleton DEF ArenaInit, InUse
<1>2. RoundUp(Capacity, Page) \in Nat
  BY RoundUpBounds, ArenaAssumption
<1>3. ArenaTypeOK
  <2>1. /\ arena = [a \in {Root} |->
                      [base |-> 0, offset |-> 0, capacity |-> RoundUp(Capacity, Page)]]
        /\ ndebug \in BOOLEAN /\ died = FALSE
    BY DEF ArenaInit
  <2>2. /\ arena \in [InUse -> [base : Nat, offset : Nat, capacity : Nat]]
        /\ \A a \in InUse : arena[a].offset <= arena[a].capacity
    BY <1>1, <1>2, <2>1
  <2>3. parent \in [InUse \ {Root} -> InUse]
    BY <1>1 DEF ArenaInit
  <2> QED
    BY <1>1, <2>1, <2>2, <2>3 DEF ArenaTypeOK
<1>4. FreeInv /\ Apart /\ RoomInv
  BY <1>1 DEF FreeInv, Apart, RoomInv
<1>5. NestInv
  BY <1>1, UnderSelf DEF NestInv
<1> QED
  BY <1>1, <1>3, <1>4, <1>5 DEF ArenaInv

LEMMA FailInv == ASSUME ArenaInv, Fail PROVE ArenaInv'
BY SMTT(30) DEF Fail, ArenaInv, ArenaTypeOK, InUse, FreeInv, NestInv, RoomInv, Apart, Under, Closed, Stray,
   Bytes, Free, Stretch, Top, End

\* The offset of a goes on by n, over a part of what is free or, without
\* asserts, over what is not a's any more.
LEMMA AllocInv ==
  ASSUME ArenaInv, NEW a \in InUse, NEW size \in Sizes, Alloc(a, size)
  PROVE  ArenaInv'
<1> DEFINE n == RoundUp(size, Word)
           b0 == BlockOf(a, size, n)
<1>1. size \in Nat /\ n \in Nat /\ size <= n
  BY RoundUpBounds, ArenaAssumption
<1> HIDE DEF n
<1>2. CASE Fail
  BY <1>2, FailInv
<1>3. CASE ~Fail
  <2>1. /\ blocks' = blocks \cup {b0} /\ arena' = Advance(a, n)
        /\ UNCHANGED <<ndebug, parent, sound, died>> /\ (Fits(a, n) \/ ndebug)
    BY <1>3 DEF Alloc, n
  <2>2. ArenaTypeOK /\ IsFiniteSet(InUse) /\ sound \subseteq InUse
    BY DEF ArenaInv, ArenaTypeOK
  <2>3. /\ InUse' = InUse /\ \A x \in InUse : x # a => arena'[x] = arena[x]
        /\ arena'[a] = [arena[a] EXCEPT !.offset = @ + n]
        /\ DOMAIN arena' = InUse
        /\ arena' = [x \in InUse |-> arena'[x]]
    BY <2>1, <2>2 DEF Advance, InUse, ArenaTypeOK
  <2>4. arena'[a] = [base |-> arena[a].base, offset |-> arena[a].offset + n,
                     capacity |-> arena[a].capacity]
    BY <2>2, <2>3 DEF ArenaTypeOK
  <2>5. /\ Top(a)' = Top(a) + Word * n /\ Word * n \in Nat /\ n <= Word * n
        /\ Stretch(a)' = Stretch(a) /\ End(a)' = End(a)
        /\ Fits(a, n) => Top(a) .. (Top(a) + Word * n - 1) \subseteq Free(a)
        /\ Free(a)' \subseteq Free(a) \ (Top(a) .. (Top(a) + Word * n - 1))
        /\ arena'[a] \in [base : Nat, offset : Nat, capacity : Nat]
        /\ Fits(a, n) => arena'[a].offset <= arena'[a].capacity
    BY <1>1, <2>2, <2>4, Advances
  <2>6. /\ Top(a) \in Nat /\ Free(a) \subseteq Stretch(a)
        /\ b0.of = a /\ b0.at = Top(a) /\ b0.size = size /\ b0.fits = Fits(a, n)
    BY <2>2, Places DEF BlockOf
  <2>7. b0 \in [of : InUse, at : Nat, size : Sizes, fits : BOOLEAN]
    BY <2>6 DEF BlockOf, Fits
  <2> HIDE DEF b0
  <2>8. /\ Free(a)' \subseteq Free(a) \ Bytes(b0)
        /\ ~Stray(b0) => a \in sound /\ Bytes(b0) \subseteq Free(a)
    <3>1. Bytes(b0) \subseteq Top(a) .. (Top(a) + Word * n - 1)
      BY <1>1, <2>5, <2>6 DEF Bytes
    <3> QED
      BY <2>5, <2>6, <3>1 DEF Stray
  <2>9. /\ \A x \in InUse : Stretch(x)' = Stretch(x) /\ Free(x)' \subseteq Free(x) /\ End(x)' = End(x)
        /\ \A x \in InUse : x # a => Free(x)' = Free(x) /\ Top(x)' = Top(x)
    BY <2>3, <2>5, Stays
  <2>10. ArenaTypeOK'
    <3>1. arena' \in [InUse -> [base : Nat, offset : Nat, capacity : Nat]]
      BY <2>2, <2>3, <2>5 DEF ArenaTypeOK
    <3>2. \A x \in InUse : ndebug \/ arena'[x].offset <= arena'[x].capacity
      BY <2>1, <2>2, <2>3, <2>5 DEF ArenaTypeOK
    <3>3. blocks' \subseteq [of : InUse, at : Nat, size : Sizes, fits : BOOLEAN]
      BY <2>1, <2>2, <2>7 DEF ArenaTypeOK
    <3> QED
      BY <2>1, <2>2, <2>3, <3>1, <3>2, <3>3 DEF ArenaTypeOK
  <2>11. FreeInv'
    BY <2>1, <2>2, <2>8, <2>9 DEF ArenaInv, FreeInv, Bytes, Stray
  <2>12. Apart'
    <3>1. ~Stray(b0) => \A b \in blocks : ~Stray(b) => Bytes(b) \cap Bytes(b0) = {}
      BY <2>8 DEF ArenaInv, FreeInv
    <3> QED
      BY <2>1, <3>1 DEF ArenaInv, Apart, Bytes, Stray
  <2>13. NestInv'
    <3>1. \A x, c : Under(x, c)' <=> Under(x, c)
      BY <2>1, <2>3 DEF Under, Closed
    <3>2. \A c \in sound : ~Stray(b0) /\ Bytes(b0) \cap Stretch(c) # {} => Under(b0.of, c)
      BY <2>6, <2>8 DEF ArenaInv, NestInv
    <3> QED
      BY <2>1, <2>2, <2>9, <3>1, <3>2 DEF ArenaInv, NestInv, Bytes, Stray
  <2>14. RoomInv'
    <3>1. \A x \in DOMAIN parent : x \in InUse /\ parent[x] \in InUse
      BY <2>2 DEF ArenaTypeOK
    <3>2. \A x \in InUse : Top(x) \in Nat /\ Top(x)' \in Nat /\ Top(x) <= Top(x)' /\ End(x) \in Nat
      BY <2>2, <2>5, <2>9, Places
    <3>3. ndebug \/ (sound = InUse /\ \A b \in blocks : ~Stray(b))
      BY DEF ArenaInv, RoomInv
    <3>4. ndebug' \/ (sound' = InUse' /\ \A b \in blocks' : ~Stray(b)')
      BY <2>1, <2>3, <2>6, <3>3 DEF Stray
    <3>5. ASSUME NEW x \in DOMAIN parent
          PROVE  /\ End(x)' <= Top(parent[x])'
                 /\ x \in sound => Stretch(x)' \subseteq Stretch(parent[x])'
      <4>1. PICK p \in InUse : p = parent[x] /\ p = parent'[x]
        BY <2>1, <3>1
      <4>2. End(x) <= Top(p) /\ (x \in sound => Stretch(x) \subseteq Stretch(p))
        BY <4>1 DEF ArenaInv, RoomInv
      <4>3. Stretch(parent[x])' = Stretch(p)' /\ Top(parent[x])' = Top(p)'
        BY <2>1, <4>1 DEF Stretch, Top, End
      <4> QED
        BY <2>9, <3>1, <3>2, <4>2, <4>3
    <3> QED
      BY <2>1, <3>4, <3>5 DEF RoomInv, Stray
  <2> QED
    BY <2>2, <2>3, <2>10, <2>11, <2>12, <2>13, <2>14 DEF ArenaInv
<1> QED
  BY <1>2, <1>3

LEMMA ScratchInv ==
  ASSUME ArenaInv, NEW a \in InUse, NEW s \in Scratches \ InUse, NEW size \in Sizes,
         Scratch(a, s, size)
  PROVE  ArenaInv'
<1> DEFINE n == RoundUp(size, Page)
<1>1. size \in Nat /\ n \in Nat /\ size <= n
  BY RoundUpBounds, ArenaAssumption
<1> HIDE DEF n
<1>2. CASE Fail
  BY <1>2, FailInv
<1>3. CASE ~Fail
  <2> DEFINE part == Top(a) .. (Top(a) + Word * n - 1)
             more == IF a \in sound /\ Fits(a, n) THEN sound \cup {s} ELSE sound
  <2>1. /\ arena' = [x \in InUse \cup {s} |->
                       IF x = s THEN [base |-> Top(a), offset |-> 0, capacity |-> n]
                                ELSE Advance(a, n)[x]]
        /\ parent' = [x \in DOMAIN arena' \ {Root} |-> IF x = s THEN a ELSE parent[x]]
        /\ sound' = more
        /\ UNCHANGED <<ndebug, blocks, died>> /\ (Fits(a, n) \/ ndebug)
    BY <1>3 DEF Scratch, Carve, n
  <2>2. ArenaTypeOK /\ IsFiniteSet(InUse) /\ a # s /\ s # Root /\ sound \subseteq InUse /\ s \notin sound
    BY ArenaAssumption DEF ArenaInv, ArenaTypeOK
  <2>3. /\ InUse' = InUse \cup {s} /\ \A x \in InUse : x # a => arena'[x] = arena[x]
        /\ arena'[a] = [arena[a] EXCEPT !.offset = @ + n]
        /\ arena'[s] = [base |-> Top(a), offset |-> 0, capacity |-> n]
        /\ arena' = [x \in InUse' |-> arena'[x]]
    BY <2>1, <2>2 DEF Advance, InUse
  <2>4. arena'[a] = [base |-> arena[a].base, offset |-> arena[a].offset + n,
                     capacity |-> arena[a].capacity]
    BY <2>2, <2>3 DEF ArenaTypeOK
  <2>5. /\ DOMAIN parent = InUse \ {Root} /\ DOMAIN parent' = DOMAIN parent \cup {s}
        /\ parent'[s] = a /\ \A x \in DOMAIN parent : parent'[x] = parent[x] /\ parent[x] \in InUse
        /\ parent' = [x \in DOMAIN parent' |-> parent'[x]]
    BY <2>1, <2>2, <2>3 DEF ArenaTypeOK, InUse
  <2>6. /\ Top(a)' = Top(a) + Word * n /\ Word * n \in Nat
        /\ Stretch(a)' = Stretch(a) /\ End(a)' = End(a)
        /\ Fits(a, n) => part \subseteq Free(a)
        /\ Free(a)' \subseteq Free(a) \ part
        /\ arena'[a] \in [base : Nat, offset : Nat, capacity : Nat]
        /\ Fits(a, n) => arena'[a].offset <= arena'[a].capacity
    BY <1>1, <2>2, <2>4, Advances
  <2>7. Top(a) \in Nat /\ Free(a) \subseteq Stretch(a)
    BY <2>2, Places
  <2>8. /\ arena'[s].base = Top(a) /\ arena'[s].capacity = n /\ arena'[s].offset = 0
        /\ Stretch(s)' = part /\ Free(s)' = part /\ Top(s)' = Top(a) /\ End(s)' = Top(a) + Word * n
    <3>1. arena'[s].base = Top(a) /\ arena'[s].capacity = n /\ arena'[s].offset = 0
      BY <2>3
    <3>2. Word * 0 = 0
      BY ArenaAssumption
    <3>3. Top(s)' = Top(a) /\ End(s)' = Top(a) + Word * n
      BY <2>7, <3>1, <3>2 DEF Top, End
    <3>4. Stretch(s)' = arena'[s].base .. (End(s)' - 1) /\ Free(s)' = Top(s)' .. (End(s)' - 1)
      BY DEF Stretch, Free
    <3> QED
      BY <2>6, <2>7, <3>1, <3>3, <3>4
  <2>9. /\ sound \subseteq more /\ more \subseteq sound \cup {s}
        /\ s \in more => a \in sound /\ Fits(a, n) /\ part \subseteq Free(a)
    BY <2>2, <2>6
  <2> HIDE DEF part, more
  <2>10. /\ \A x \in InUse : Stretch(x)' = Stretch(x) /\ Free(x)' \subseteq Free(x) /\ End(x)' = End(x)
         /\ \A x \in InUse : x # a => Free(x)' = Free(x) /\ Top(x)' = Top(x)
    BY <2>3, <2>6, Stays
  <2>11. ArenaTypeOK'
    <3>1. arena' \in [InUse' -> [base : Nat, offset : Nat, capacity : Nat]]
      BY <1>1, <2>2, <2>3, <2>6, <2>7 DEF ArenaTypeOK
    <3>2. \A x \in InUse' : ndebug' \/ arena'[x].offset <= arena'[x].capacity
      BY <1>1, <2>1, <2>2, <2>3, <2>6, <2>8 DEF ArenaTypeOK
    <3>3. parent' \in [InUse' \ {Root} -> InUse']
      BY <2>2, <2>3, <2>5
    <3>4. InUse' \subseteq {Root} \cup Scratches
      BY <2>2, <2>3 DEF ArenaTypeOK
    <3>5. blocks' \subseteq [of : InUse', at : Nat, size : Sizes, fits : BOOLEAN]
      BY <2>1, <2>2, <2>3 DEF ArenaTypeOK
    <3>6. sound' \subseteq InUse'
      BY <2>1, <2>2, <2>3, <2>9
    <3> QED
      BY <2>1, <2>2, <3>1, <3>2, <3>3, <3>4, <3>5, <3>6 DEF ArenaTypeOK
  <2>12. \A b \in blocks : /\ b.of \in InUse /\ (Stray(b)' <=> Stray(b))
                            /\ ((s \in more /\ ~Stray(b)) => Bytes(b) \cap part = {})
    <3>1. \A b \in blocks : b.of \in InUse
      BY <2>2 DEF ArenaTypeOK
    <3> QED
      BY <2>1, <2>2, <2>9, <3>1 DEF ArenaInv, FreeInv, Stray
  <2>13. FreeInv'
    <3>1. \A x \in sound : s \in more => Free(x)' \cap part = {}
      BY <2>2, <2>6, <2>9, <2>10 DEF ArenaInv, FreeInv
    <3> QED
      BY <2>1, <2>2, <2>8, <2>9, <2>10, <2>12, <3>1 DEF ArenaInv, FreeInv, Bytes
  <2>14. NestInv'
    <3>1. ASSUME NEW x \in InUse, NEW c \in InUse, Under(x, c)
          PROVE  Under(x, c)'
      <4> SUFFICES ASSUME NEW D \in SUBSET InUse', c \in D, Closed(D)' PROVE x \in D
        BY DEF Under
      <4>1. Closed(D \cap InUse) /\ D \cap InUse \in SUBSET InUse /\ c \in D \cap InUse
        BY <2>5 DEF Closed
      <4> QED
        BY <3>1, <4>1 DEF Under
    <3>2. ASSUME NEW c \in InUse, Under(a, c)
          PROVE  Under(s, c)'
      <4>1. Under(a, c)'
        BY <3>1, <3>2
      <4> SUFFICES ASSUME NEW D \in SUBSET InUse', c \in D, Closed(D)' PROVE s \in D
        BY DEF Under
      <4>2. a \in D
        BY <4>1 DEF Under
      <4> QED
        BY <2>5, <4>2 DEF Closed
    <3>3. Under(s, s)'
      BY DEF Under
    <3>4. ASSUME NEW c \in sound, s \in more, part \cap Stretch(c) # {}
          PROVE  Under(a, c)
      BY <2>9, <3>4 DEF ArenaInv, NestInv
    <3>5. \A x \in sound : s \in more => Free(x)' \cap part = {}
      BY <2>2, <2>6, <2>9, <2>10 DEF ArenaInv, FreeInv
    <3>6. \A b \in blocks', c \in sound' :
            (~Stray(b) /\ Bytes(b) \cap Stretch(c) # {} => Under(b.of, c))'
      BY <2>1, <2>2, <2>8, <2>9, <2>10, <2>12, <3>1 DEF ArenaInv, NestInv, Bytes
    <3>7. \A x, c \in sound' : (Free(x) \cap Stretch(c) # {} => Under(x, c))'
      BY <2>1, <2>2, <2>8, <2>9, <2>10, <3>1, <3>2, <3>3, <3>4, <3>5 DEF ArenaInv, NestInv
    <3>8. \A x, c \in sound' : (Stretch(x) \cap Stretch(c) # {} => Under(x, c) \/ Under(c, x))'
      BY <2>1, <2>2, <2>8, <2>9, <2>10, <3>1, <3>2, <3>3, <3>4 DEF ArenaInv, NestInv
    <3> QED
      BY <3>6, <3>7, <3>8 DEF NestInv
  <2>15. RoomInv'
    <3>1. \A x \in InUse : Top(x) \in Nat /\ Top(x)' \in Nat /\ Top(x) <= Top(x)' /\ End(x) \in Nat
      BY <2>2, <2>6, <2>7, <2>10, Places
    <3>2. ASSUME NEW x \in DOMAIN parent
          PROVE  /\ End(x)' <= Top(parent[x])'
                 /\ x \in sound => Stretch(x)' \subseteq Stretch(parent[x])'
      <4>1. PICK p \in InUse : p = parent[x] /\ p = parent'[x]
        BY <2>5
      <4>2. End(x) <= Top(p) /\ (x \in sound => Stretch(x) \subseteq Stretch(p))
        BY <4>1 DEF ArenaInv, RoomInv
      <4>3. Stretch(parent[x])' = Stretch(p)' /\ Top(parent[x])' = Top(p)'
        BY <4>1 DEF Stretch, Top, End
      <4>4. x \in InUse
        BY <2>5
      <4> QED
        BY <2>10, <3>1, <4>2, <4>3, <4>4
    <3>3. /\ End(s)' <= Top(parent[s])'
          /\ s \in more => Stretch(s)' \subseteq Stretch(parent[s])'
      <4>1. Stretch(parent[s])' = Stretch(a)' /\ Top(parent[s])' = Top(a)'
        BY <2>5 DEF Stretch, Top, End
      <4>2. s \in more => Stretch(s)' \subseteq Stretch(a)'
        BY <2>6, <2>7, <2>8, <2>9
      <4>3. End(s)' <= Top(a)'
        BY <2>6, <2>7, <2>8
      <4> QED
        BY <4>1, <4>2, <4>3
    <3>4. ndebug' \/ (sound' = InUse' /\ \A b \in blocks' : ~Stray(b)')
      <4>1. ndebug \/ (sound = InUse /\ \A b \in blocks : ~Stray(b))
        BY DEF ArenaInv, RoomInv
      <4>2. ndebug \/ more = InUse \cup {s}
        BY <2>1, <4>1 DEF more
      <4> QED
        BY <2>1, <2>3, <2>12, <4>1, <4>2
    <3> QED
      BY <2>1, <2>5, <2>9, <3>2, <3>3, <3>4 DEF RoomInv
  <2>16. IsFiniteSet(InUse')
    BY <2>2, <2>3, FS_AddElement
  <2>17. Apart'
    BY <2>1, <2>12 DEF ArenaInv, Apart, Bytes
  <2> QED
    BY <2>11, <2>13, <2>14, <2>15, <2>16, <2>17 DEF ArenaInv
<1> QED
  BY <1>2, <1>3

LEMMA ResetInv ==
  ASSUME ArenaInv, NEW a \in InUse, Reset(a)
  PROVE  ArenaInv'
<1> DEFINE up == Above(a)
<1>1. /\ ArenaTypeOK /\ IsFiniteSet(InUse) /\ DOMAIN parent = InUse \ {Root}
      /\ sound \subseteq InUse
  BY DEF ArenaInv, ArenaTypeOK
<1>2. up \subseteq DOMAIN parent /\ \A x \in DOMAIN parent : parent[x] \in up \cup {a} => x \in up
  BY <1>1, AboveClosed
<1>3. /\ arena' = [Restrict(arena, InUse \ up) EXCEPT ![a].offset = 0]
      /\ parent' = Restrict(parent, DOMAIN parent \ up)
      /\ blocks' = {b \in blocks : b.of \notin up \cup {a}}
      /\ sound' = sound \ up
      /\ UNCHANGED <<ndebug, died>>
  BY DEF Reset
<1> HIDE DEF up
<1>4. /\ InUse' = InUse \ up /\ InUse' \subseteq InUse
      /\ \A x \in InUse' : x # a => arena'[x] = arena[x]
      /\ a \in InUse' => arena'[a] = [arena[a] EXCEPT !.offset = 0]
      /\ arena' = [x \in InUse' |-> arena'[x]]
      /\ sound' \subseteq InUse' /\ sound' \subseteq sound
  BY <1>1, <1>3 DEF Restrict, InUse
<1>5. /\ DOMAIN parent' = DOMAIN parent \ up
      /\ \A x \in DOMAIN parent' : parent'[x] = parent[x]
      /\ parent' = [x \in DOMAIN parent' |-> parent'[x]]
  BY <1>3 DEF Restrict
\* Only what is under a has anything of a's.
<1>6. \A x : Under(x, a) => x \in up \cup {a}
  BY <1>1, UnderAbove DEF up
<1>7. ASSUME NEW x \in InUse', NEW c \in InUse', Under(x, c)
      PROVE  Under(x, c)'
  <2> SUFFICES ASSUME NEW D \in SUBSET InUse', c \in D, Closed(D)' PROVE x \in D
    BY DEF Under
  <2>1. Closed(D \cup up)
    BY <1>2, <1>5 DEF Closed
  <2>2. D \cup up \in SUBSET InUse
    BY <1>1, <1>2, <1>4
  <2> QED
    BY <1>4, <1>7, <2>1, <2>2 DEF Under
<1>8. a \in InUse' => /\ arena'[a].base = arena[a].base /\ arena'[a].offset = 0
                      /\ arena'[a].capacity = arena[a].capacity
                      /\ arena'[a] \in [base : Nat, offset : Nat, capacity : Nat]
                      /\ arena'[a].offset <= arena'[a].capacity
  <2>1. arena[a] \in [base : Nat, offset : Nat, capacity : Nat]
    BY <1>1 DEF ArenaTypeOK
  <2> QED
    BY <1>4, <2>1
<1>9. \A x \in InUse' : Stretch(x)' = Stretch(x) /\ End(x)' = End(x)
  BY <1>4, <1>8, Stays DEF Stretch, End
<1>10. a \in InUse' => Free(a)' = Stretch(a)
  <2>1. Word * 0 = 0 /\ arena[a].base \in Nat
    BY <1>1, Places, ArenaAssumption
  <2> QED
    BY <1>8, <2>1 DEF Stretch, Free, Top, End
<1>11. \A x \in InUse' : x # a => Free(x)' = Free(x) /\ Top(x)' = Top(x)
  BY <1>4, Stays
<1>12. ArenaTypeOK'
  <2>1. arena' \in [InUse' -> [base : Nat, offset : Nat, capacity : Nat]]
    BY <1>1, <1>4, <1>8 DEF ArenaTypeOK
  <2>2. \A x \in InUse' : ndebug' \/ arena'[x].offset <= arena'[x].capacity
    BY <1>1, <1>3, <1>4, <1>8 DEF ArenaTypeOK
  <2>3. parent' \in [InUse' \ {Root} -> InUse']
    <3>1. DOMAIN parent' = InUse' \ {Root}
      BY <1>1, <1>4, <1>5
    <3>2. \A x \in DOMAIN parent' : parent'[x] \in InUse'
      BY <1>1, <1>2, <1>4, <1>5 DEF ArenaTypeOK
    <3> QED
      BY <1>5, <3>1, <3>2
  <2>4. blocks' \subseteq [of : InUse', at : Nat, size : Sizes, fits : BOOLEAN]
    BY <1>1, <1>3, <1>4 DEF ArenaTypeOK
  <2> QED
    BY <1>1, <1>3, <1>4, <2>1, <2>2, <2>3, <2>4 DEF ArenaTypeOK
<1>13. \A b \in blocks' : /\ b \in blocks /\ b.of \in InUse' /\ b.of # a
                          /\ Stray(b)' <=> Stray(b)
                          /\ ((a \in sound /\ ~Stray(b)) => Bytes(b) \cap Stretch(a) = {})
  <2>1. \A b \in blocks' : b \in blocks /\ b.of \in InUse' /\ b.of \notin up \cup {a}
    BY <1>1, <1>3, <1>4 DEF ArenaTypeOK
  <2> QED
    BY <1>3, <1>6, <2>1 DEF ArenaInv, NestInv, Stray
<1>14. \A x \in sound' : x # a /\ a \in sound => Free(x) \cap Stretch(a) = {}
  BY <1>3, <1>4, <1>6 DEF ArenaInv, NestInv
<1>15. FreeInv'
  BY <1>4, <1>10, <1>11, <1>13, <1>14 DEF ArenaInv, FreeInv, Bytes
<1>16. NestInv'
  <2>1. \A b \in blocks', c \in sound' :
          (~Stray(b) /\ Bytes(b) \cap Stretch(c) # {} => Under(b.of, c))'
    BY <1>4, <1>7, <1>9, <1>13 DEF ArenaInv, NestInv, Bytes
  <2>2. \A x, c \in sound' : (Stretch(x) \cap Stretch(c) # {} => Under(x, c) \/ Under(c, x))'
    BY <1>4, <1>7, <1>9 DEF ArenaInv, NestInv
  <2>3. \A x, c \in sound' : (Free(x) \cap Stretch(c) # {} => Under(x, c))'
    <3> SUFFICES ASSUME NEW x \in sound', NEW c \in sound', Free(x)' \cap Stretch(c)' # {}
                 PROVE  Under(x, c)'
      OBVIOUS
    <3>1. CASE x # a
      BY <1>4, <1>7, <1>9, <1>11, <3>1 DEF ArenaInv, NestInv
    <3>2. CASE x = a
      <4>1. Stretch(a) \cap Stretch(c) # {}
        BY <1>4, <1>9, <1>10, <3>2
      <4>2. Under(a, c) \/ Under(c, a)
        BY <1>4, <3>2, <4>1 DEF ArenaInv, NestInv
      <4>3. Under(a, c) \/ c = a
        BY <1>3, <1>6, <4>2
      <4> QED
        BY <1>4, <1>7, <3>2, <4>3, UnderSelf
    <3> QED
      BY <3>1, <3>2
  <2> QED
    BY <2>1, <2>2, <2>3 DEF NestInv
<1>17. RoomInv'
  <2>1. ASSUME NEW x \in DOMAIN parent'
        PROVE  /\ End(x)' <= Top(parent[x])'
               /\ x \in sound' => Stretch(x)' \subseteq Stretch(parent[x])'
    <3>1. x \in InUse' /\ parent[x] \in InUse' /\ parent'[x] = parent[x] /\ parent[x] # a
          /\ x \in DOMAIN parent
      BY <1>1, <1>2, <1>4, <1>5 DEF ArenaTypeOK
    <3>2. PICK p \in InUse' : p = parent[x] /\ p = parent'[x] /\ p # a
      BY <3>1
    <3>3. /\ Stretch(x)' = Stretch(x) /\ Stretch(p)' = Stretch(p) /\ Top(p)' = Top(p)
          /\ Stretch(parent[x])' = Stretch(p)' /\ Top(parent[x])' = Top(p)' /\ End(x)' = End(x)
      BY <1>9, <1>11, <3>1, <3>2 DEF Stretch, Top, End
    <3>4. End(x) <= Top(p) /\ (x \in sound => Stretch(x) \subseteq Stretch(p))
      BY <3>1, <3>2 DEF ArenaInv, RoomInv
    <3> QED
      BY <1>4, <3>3, <3>4
  <2>2. ndebug' \/ (sound' = InUse' /\ \A b \in blocks' : ~Stray(b)')
    BY <1>3, <1>4, <1>13 DEF ArenaInv, RoomInv
  <2> QED
    BY <2>1, <2>2 DEF RoomInv
<1>18. IsFiniteSet(InUse') /\ Apart'
  BY <1>1, <1>4, <1>13, FS_Subset DEF ArenaInv, Apart, Bytes
<1> QED
  BY <1>12, <1>15, <1>16, <1>17, <1>18 DEF ArenaInv

LEMMA DestroyInv == ASSUME ArenaInv, Destroy PROVE ArenaInv'
<1>1. /\ InUse' = {} /\ DOMAIN parent' = {} /\ blocks' = {} /\ sound' = {}
      /\ UNCHANGED <<ndebug, died>>
      /\ arena' = [x \in InUse' |-> arena'[x]] /\ parent' = [x \in DOMAIN parent' |-> parent'[x]]
  BY DEF Destroy, Restrict, InUse
<1>2. IsFiniteSet(InUse')
  BY <1>1, FS_EmptySet
<1> QED
  BY <1>1, <1>2 DEF ArenaInv, ArenaTypeOK, FreeInv, NestInv, RoomInv, Apart

-----------------------------------------------------------------------------
(* The theorems.                                                           *)

\* The invariant of the mapping, in both builds: types, whose the free bytes
\* are among the arenas that were taken while there was room, what arenas that
\* were taken from each other have in common, and that asserts leave no others.
THEOREM ArenaInvariant == ArenaSpec => []ArenaInv
<1>1. ArenaInv /\ [ArenaNext]_arenaVars => ArenaInv'
  <2> SUFFICES ASSUME ArenaInv, [ArenaNext]_arenaVars PROVE ArenaInv'
    OBVIOUS
  <2>1. CASE UNCHANGED arenaVars
    BY <2>1, SMTT(30) DEF arenaVars, ArenaInv, ArenaTypeOK, InUse, FreeInv, NestInv, RoomInv, Apart, Under,
       Closed, Stray, Bytes, Free, Stretch, Top, End
  <2> QED
    BY <2>1, AllocInv, ScratchInv, ResetInv, DestroyInv DEF ArenaNext
<1> QED
  BY <1>1, StartInv, PTL DEF ArenaSpec

\* Arenas, their parents and the blocks of the mapping keep their types, and
\* with asserts no arena is fuller than it can be.
THEOREM ArenaTypes == ArenaSpec => []ArenaTypeOK
<1>1. ArenaInv => ArenaTypeOK
  BY DEF ArenaInv
<1> QED
  BY <1>1, ArenaInvariant, PTL

\* With asserts no byte is of two blocks in use, through whichever arenas they
\* were handed out and however these were taken and reset; without them no byte
\* is of two blocks that were handed out while there was room (arena.h:40-71).
THEOREM ArenaNoOverlap == ArenaSpec => []NoOverlap
<1>1. ArenaInv => NoOverlap
  BY DEF ArenaInv, Apart, RoomInv, NoOverlap
<1> QED
  BY <1>1, ArenaInvariant, PTL

\* A scratch arena ends before its parent goes on, and has nothing in common
\* with an arena that it was not taken from and that was not taken from it; in
\* a build without asserts, if both were taken while there was room
\* (arena.h:54-67).
THEOREM ArenaScratchesApart == ArenaSpec => []ScratchesApart
<1>1. ArenaInv => ScratchesApart
  <2> SUFFICES ASSUME ArenaInv PROVE ScratchesApart
    OBVIOUS
  <2>1. ASSUME NEW a \in sound, NEW b \in sound, Stretch(a) \cap Stretch(b) # {}
        PROVE  a = b \/ a \in Above(b) \/ b \in Above(a)
    <3>1. a \in InUse /\ b \in InUse /\ ArenaTypeOK /\ IsFiniteSet(InUse)
      BY DEF ArenaInv, ArenaTypeOK
    <3>2. Under(a, b) \/ Under(b, a)
      BY <2>1 DEF ArenaInv, NestInv
    <3> QED
      BY <3>1, <3>2, UnderAbove
  <2> QED
    BY <2>1 DEF ArenaInv, RoomInv, ScratchesApart
<1> QED
  BY <1>1, ArenaInvariant, PTL
=============================================================================
