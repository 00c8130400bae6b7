-------------------------------- MODULE Induction --------------------------------
(***************************************************************************)
(* Induction on the natural numbers, stated of sets of them, and what it   *)
(* says of functions that are defined by recursion over their arguments.   *)
(***************************************************************************)
EXTENDS Integers, FiniteSets, WellFoundedInduction, FiniteSetTheorems, TLAPS

LEMMA NatMin ==
  ASSUME NEW S \in SUBSET Nat, S # {}
  PROVE  \E m \in S : \A n \in S : m <= n
<1>1. IsWellFoundedOn(OpToRel(<, Nat), Nat)
  BY NatLessThanWellFounded
<1>2. PICK m \in S : \A n \in S : ~(<<n, m>> \in OpToRel(<, Nat))
  BY <1>1, WFMin
<1>3. ASSUME NEW n \in S PROVE m <= n
  <2>1. OpToRel(<, Nat) = {pair \in Nat \X Nat : pair[1] < pair[2]}
    BY DEF OpToRel
  <2>2. <<n, m>> \notin {pair \in Nat \X Nat : pair[1] < pair[2]}
    BY <1>2, <2>1
  <2>3. ~(n < m)
    BY <2>2
  <2> QED
    BY <2>3
<1> QED
  BY <1>3

LEMMA SetInduction ==
  ASSUME NEW S, 0 \in S, \A n \in Nat : n \in S => n + 1 \in S
  PROVE  Nat \subseteq S
<1> SUFFICES ASSUME Nat \ S # {} PROVE FALSE
  OBVIOUS
<1>1. PICK m \in Nat \ S : \A n \in Nat \ S : m <= n
  BY NatMin
<1> QED
  BY <1>1

-----------------------------------------------------------------------------

\* f is a step on S repeated N times.
Repeats(f, S, first, step, N) ==
  f \in [0 .. N -> S] /\ f[0] = first /\ \A n \in 1 .. N : f[n] = step[f[n - 1]]

LEMMA Repetitions ==
  ASSUME NEW S, NEW first \in S, NEW step \in [S -> S], NEW N \in Nat
  PROVE  \E f : Repeats(f, S, first, step, N)
<1> DEFINE Goes(f, n) == f \in [0 .. n -> S] /\ f[0] = first
                         /\ \A i \in 1 .. n : f[i] = step[f[i - 1]]
           Defined == {n \in Nat : \E f : Goes(f, n)}
<1>1. 0 \in Defined
  <2>1. Goes([i \in 0 .. 0 |-> first], 0)
    OBVIOUS
  <2> QED
    BY <2>1
<1>2. ASSUME NEW n \in Nat, n \in Defined
      PROVE  n + 1 \in Defined
  <2>1. PICK f : Goes(f, n)
    BY <1>2
  <2> DEFINE g == [i \in 0 .. n + 1 |-> IF i = n + 1 THEN step[f[n]] ELSE f[i]]
  <2>2. Goes(g, n + 1)
    <3>1. f[n] \in S
      BY <2>1
    <3>2. g \in [0 .. n + 1 -> S] /\ g[0] = first
      BY <2>1, <3>1
    <3>3. ASSUME NEW i \in 1 .. n + 1
          PROVE  g[i] = step[g[i - 1]]
      <4>1. i - 1 \in 0 .. n /\ i - 1 # n + 1 /\ g[i - 1] = f[i - 1]
        OBVIOUS
      <4>2. CASE i = n + 1
        BY <4>1, <4>2
      <4>3. CASE i # n + 1
        <5>1. i \in 1 .. n /\ g[i] = f[i]
          BY <4>3
        <5> QED
          BY <2>1, <4>1, <5>1
      <4> QED
        BY <4>2, <4>3
    <3> QED
      BY <3>2, <3>3
  <2> QED
    BY <2>2
<1> HIDE DEF Defined
<1>3. N \in Defined
  BY <1>1, <1>2, SetInduction
<1> QED
  BY <1>3 DEF Defined, Repeats

\* Pointers that lead to smaller ones lead to 0.
LEMMA DescentInduction ==
  ASSUME NEW N \in Nat, NEW next, \A e \in 1 .. N : next[e] \in 0 .. (e - 1),
         NEW S, 0 \in S, \A e \in 1 .. N : next[e] \in S => e \in S
  PROVE  0 .. N \subseteq S
<1> SUFFICES ASSUME (0 .. N) \ S # {} PROVE FALSE
  OBVIOUS
<1> DEFINE Out == (0 .. N) \ S
<1>1. Out \in SUBSET Nat /\ Out # {}
  OBVIOUS
<1> HIDE DEF Out
<1>2. PICK m \in Out : \A n \in Out : m <= n
  BY <1>1, NatMin
<1>3. m \in 1 .. N /\ m \notin S
  BY <1>2 DEF Out
<1>4. next[m] \in 0 .. (m - 1) /\ next[m] \notin S
  BY <1>3
<1> QED
  BY <1>2, <1>3, <1>4 DEF Out

\* A function of a pointer, defined by its value for the pointer that follows.
Descends(f, S, N, next, first, step) ==
  f \in [0 .. N -> S] /\ f[0] = first /\ \A e \in 1 .. N : f[e] = step[<<e, f[next[e]]>>]

LEMMA Descent ==
  ASSUME NEW N \in Nat, NEW next, \A e \in 1 .. N : next[e] \in 0 .. (e - 1),
         NEW S, NEW first \in S, NEW step, \A e \in 1 .. N, x \in S : step[<<e, x>>] \in S
  PROVE  \E f : Descends(f, S, N, next, first, step)
<1> DEFINE Goes(f, n) == f \in [0 .. n -> S] /\ f[0] = first
                         /\ \A e \in 1 .. n : f[e] = step[<<e, f[next[e]]>>]
           Defined == {n \in Nat : n <= N => \E f : Goes(f, n)}
<1>1. 0 \in Defined
  <2>1. Goes([i \in 0 .. 0 |-> first], 0)
    OBVIOUS
  <2> QED
    BY <2>1
<1>2. ASSUME NEW n \in Nat, n \in Defined
      PROVE  n + 1 \in Defined
  <2> SUFFICES ASSUME n + 1 <= N PROVE \E f : Goes(f, n + 1)
    OBVIOUS
  <2>1. PICK f : Goes(f, n)
    BY <1>2
  <2>2. next[n + 1] \in 0 .. n /\ n + 1 \in 1 .. N
    <3>1. n + 1 \in 1 .. N /\ (n + 1) - 1 = n
      OBVIOUS
    <3> QED
      BY <3>1
  <2> DEFINE new == step[<<n + 1, f[next[n + 1]]>>]
             g == [i \in 0 .. n + 1 |-> IF i = n + 1 THEN new ELSE f[i]]
  <2>3. new \in S
    BY <2>1, <2>2
  <2> HIDE DEF new
  <2>4. g \in [0 .. n + 1 -> S] /\ g[0] = first
    BY <2>1, <2>3
  <2>5. ASSUME NEW e \in 1 .. n + 1
        PROVE  g[e] = step[<<e, g[next[e]]>>]
    <3>1. CASE e = n + 1
      <4>1. g[next[e]] = f[next[e]] /\ g[e] = new
        BY <2>2, <3>1
      <4> QED
        BY <3>1, <4>1 DEF new
    <3>2. CASE e # n + 1
      <4>1. e \in 1 .. n /\ e \in 1 .. N
        BY <3>2
      <4>2. next[e] \in 0 .. n
        BY <4>1
      <4>3. g[next[e]] = f[next[e]] /\ g[e] = f[e]
        BY <4>1, <4>2
      <4> QED
        BY <2>1, <4>1, <4>3
    <3> QED
      BY <3>1, <3>2
  <2> QED
    BY <2>4, <2>5
<1> HIDE DEF Defined
<1>3. N \in Defined
  BY <1>1, <1>2, SetInduction
<1> QED
  BY <1>3 DEF Defined, Descends

\* f is what a loop comes to, by the state it is in: the result of the state it
\* is done in.
Loops(f, S, done, next, result) ==
  f = [x \in S |-> IF x \in done THEN result[x] ELSE f[next[x]]]

\* Whether or not it ends from every state, a loop has such a function.
LEMMA Looping ==
  ASSUME NEW S, NEW done \in SUBSET S, NEW next, \A x \in S \ done : next[x] \in S, NEW result
  PROVE  \E f : Loops(f, S, done, next, result)
<1> DEFINE Closed(D) == \A x \in D : x \notin done => next[x] \in D
           reach == [x \in S |-> {y \in S : \A D \in SUBSET S : x \in D /\ Closed(D) => y \in D}]
           f == [x \in S |-> result[CHOOSE y : y \in reach[x] \cap done]]
<1>1. ASSUME NEW x \in S
      PROVE  x \in reach[x] /\ Closed(reach[x])
             /\ \A D \in SUBSET S : x \in D /\ Closed(D) => reach[x] \subseteq D
  OBVIOUS
<1>2. ASSUME NEW x \in done
      PROVE  f[x] = result[x]
  <2>1. Closed({x}) /\ {x} \in SUBSET S
    OBVIOUS
  <2>2. x \in reach[x] /\ reach[x] \subseteq {x}
    <3> HIDE DEF reach, Closed
    <3> QED
      BY <1>1, <2>1
  <2> HIDE DEF reach
  <2>3. reach[x] \cap done = {x}
    BY <2>2
  <2>4. (CHOOSE y : y \in reach[x] \cap done) = x
    BY <2>3
  <2> QED
    BY <2>4
<1>3. ASSUME NEW x \in S, x \notin done
      PROVE  f[x] = f[next[x]]
  <2> DEFINE n == next[x]
  <2>1. n \in S
    BY <1>3
  <2>2. reach[n] \subseteq reach[x]
    BY <1>1, <1>3, <2>1
  <2> DEFINE D == {x} \cup reach[n]
  <2>3. x \in D /\ Closed(D) /\ D \in SUBSET S
    BY <1>1, <2>1
  <2>4. reach[x] \subseteq {x} \cup reach[n]
    <3> HIDE DEF D, Closed, reach
    <3>1. reach[x] \subseteq D
      BY <1>1, <2>3
    <3> QED
      BY <3>1 DEF D
  <2>5. reach[x] \cap done = reach[n] \cap done
    BY <1>3, <2>2, <2>4
  <2> HIDE DEF reach
  <2> QED
    BY <2>1, <2>5
<1> HIDE DEF f
<1>4. f = [x \in S |-> IF x \in done THEN result[x] ELSE f[next[x]]]
  <2>1. f = [x \in S |-> f[x]]
    BY DEF f
  <2> QED
    BY <1>2, <1>3, <2>1
<1> QED
  BY <1>4 DEF Loops

Monotone(step, P) ==
  /\ step \in [SUBSET P -> SUBSET P]
  /\ \A A, B \in SUBSET P : A \subseteq B => step[A] \subseteq step[B]

\* A monotone step repeated from the empty set as often as there are elements
\* has come to a set that it does not change.
LEMMA Saturation ==
  ASSUME NEW P, IsFiniteSet(P), NEW step, Monotone(step, P),
         NEW N \in Nat, Cardinality(P) <= N, NEW level, Repeats(level, SUBSET P, {}, step, N)
  PROVE  step[level[N]] = level[N]
<1> USE DEF Monotone, Repeats
<1> DEFINE Grows == {n \in Nat : n <= N => /\ level[n] \subseteq step[level[n]]
                                           /\ \/ step[level[n]] = level[n]
                                              \/ Cardinality(level[n]) >= n}
<1>1. 0 \in Grows
  <2>1. IsFiniteSet(level[0]) /\ Cardinality(level[0]) = 0
    BY FS_EmptySet
  <2>2. level[0] \subseteq step[level[0]]
    OBVIOUS
  <2>3. Cardinality(level[0]) >= 0
    BY <2>1
  <2> QED
    BY <2>2, <2>3
<1>2. ASSUME NEW n \in Nat, n \in Grows
      PROVE  n + 1 \in Grows
  <2> SUFFICES ASSUME n + 1 <= N
               PROVE  /\ level[n + 1] \subseteq step[level[n + 1]]
                      /\ \/ step[level[n + 1]] = level[n + 1]
                         \/ Cardinality(level[n + 1]) >= n + 1
    OBVIOUS
  <2>1. n \in 0 .. N /\ n + 1 \in 1 .. N /\ n + 1 \in 0 .. N /\ (n + 1) - 1 = n
    OBVIOUS
  <2>2. level[n] \in SUBSET P /\ level[n + 1] \in SUBSET P /\ level[n + 1] = step[level[n]]
    BY <2>1
  <2>3. level[n] \subseteq level[n + 1]
    BY <1>2, <2>1, <2>2
  <2>4. level[n + 1] \subseteq step[level[n + 1]]
    BY <2>2, <2>3
  <2>5. CASE level[n + 1] # level[n]
    <3>1. IsFiniteSet(level[n]) /\ IsFiniteSet(level[n + 1])
      BY <2>2, FS_Subset
    <3>2. /\ Cardinality(level[n]) \in Nat /\ Cardinality(level[n + 1]) \in Nat
          /\ Cardinality(level[n]) <= Cardinality(level[n + 1])
          /\ Cardinality(level[n]) # Cardinality(level[n + 1])
      BY <2>3, <2>5, <3>1, FS_Subset, FS_CardinalityType
    <3>3. Cardinality(level[n]) >= n
      BY <1>2, <2>1, <2>2, <2>5
    <3> QED
      BY <2>4, <3>2, <3>3
  <2>6. CASE level[n + 1] = level[n]
    BY <2>2, <2>4, <2>6
  <2> QED
    BY <2>5, <2>6
<1> HIDE DEF Grows
<1>3. N \in Grows
  BY <1>1, <1>2, SetInduction
<1>4. level[N] \in SUBSET P
  OBVIOUS
<1>5. CASE Cardinality(level[N]) >= N
  <2>1. /\ IsFiniteSet(level[N]) /\ Cardinality(level[N]) \in Nat /\ Cardinality(P) \in Nat
        /\ Cardinality(level[N]) <= Cardinality(P)
    BY <1>4, FS_Subset, FS_CardinalityType
  <2>2. level[N] = P
    BY <1>4, <1>5, <2>1, FS_Subset
  <2>3. level[N] \subseteq step[level[N]] /\ step[level[N]] \subseteq P
    BY <1>3, <1>4 DEF Grows
  <2> QED
    BY <2>2, <2>3
<1> QED
  BY <1>3, <1>5 DEF Grows

-----------------------------------------------------------------------------

LEMMA Division ==
  ASSUME NEW a \in Nat, NEW u \in Nat \ {0}
  PROVE  a \div u \in Nat /\ (a \div u) * u <= a /\ a < (a \div u) * u + u
<1>1. a \div u \in Int /\ a % u \in 0 .. (u - 1) /\ a = u * (a \div u) + (a % u)
  OBVIOUS
<1>2. a \div u >= 0
  BY SMTT(30)
<1> QED
  BY <1>1, <1>2

LEMMA Stretched ==
  ASSUME NEW w \in Nat \ {0}, NEW a \in Nat, NEW b \in Nat, a <= b
  PROVE  w * a \in Nat /\ w * a <= w * b /\ b - a <= w * b - w * a
OBVIOUS
=============================================================================
