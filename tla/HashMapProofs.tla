------------------------------ MODULE HashMapProofs ------------------------------
(***************************************************************************)
(* The hash table is a dictionary, and a key has one entry at most: for    *)
(* any keys, values, buckets and hash, and a chain of any length.          *)
(***************************************************************************)
EXTENDS HashMap, Induction

-----------------------------------------------------------------------------
(* Chains, as sets of entries.                                             *)

Cell == [key : Keys, value : Values, next : Nat]

\* The entries of a table: next leads to an older one.
Cells(ent) == ent \in Seq(Cell) /\ \A e \in DOMAIN ent : ent[e].next \in 0 .. (e - 1)

Follows(ent, D) == \A e \in D : ent[e].next # Null => ent[e].next \in D

\* What can be reached from first: what is in every set that has first in it
\* and follows next.
Reached(ent, first) ==
  {e \in DOMAIN ent :
     \A D \in SUBSET DOMAIN ent : (first # Null => first \in D) /\ Follows(ent, D) => e \in D}

LEMMA ReachedFollows ==
  ASSUME NEW ent, Cells(ent), NEW first \in 0 .. Len(ent)
  PROVE  /\ Reached(ent, first) \subseteq DOMAIN ent
         /\ first # Null => first \in Reached(ent, first)
         /\ Follows(ent, Reached(ent, first))
         /\ \A D \in SUBSET DOMAIN ent :
              (first # Null => first \in D) /\ Follows(ent, D) => Reached(ent, first) \subseteq D
<1>1. DOMAIN ent = 1 .. Len(ent) /\ Len(ent) \in Nat
  BY DEF Cells
<1>2. \A e \in DOMAIN ent : ent[e].next # Null => ent[e].next \in DOMAIN ent
  BY <1>1 DEF Cells, Null
<1> QED
  BY <1>1, <1>2 DEF Reached, Follows, Null

LEMMA ReachedIs ==
  ASSUME NEW ent, Cells(ent), NEW first \in 0 .. Len(ent), NEW R \in SUBSET DOMAIN ent,
         first # Null => first \in R, Follows(ent, R),
         \A D \in SUBSET DOMAIN ent : (first # Null => first \in D) /\ Follows(ent, D) => R \subseteq D
  PROVE  Reached(ent, first) = R
BY DEF Reached

LEMMA ReachedNone ==
  ASSUME NEW ent, Cells(ent)
  PROVE  Reached(ent, Null) = {}
<1>1. Follows(ent, {}) /\ {} \in SUBSET DOMAIN ent
  BY DEF Follows
<1> QED
  BY <1>1 DEF Reached

\* What can be reached from an entry is the entry and what can be reached from
\* the next one, which are older.
LEMMA ReachedStep ==
  ASSUME NEW ent, Cells(ent), NEW e \in DOMAIN ent
  PROVE  /\ Reached(ent, e) = {e} \cup Reached(ent, ent[e].next)
         /\ e \notin Reached(ent, ent[e].next)
<1> DEFINE n == ent[e].next
           R == Reached(ent, n)
<1>1. DOMAIN ent = 1 .. Len(ent) /\ Len(ent) \in Nat /\ e \in 1 .. Len(ent)
      /\ e \in 0 .. Len(ent) /\ e # Null /\ n \in 0 .. (e - 1) /\ n \in 0 .. Len(ent)
  BY DEF Cells, Null
<1>2. /\ R \subseteq DOMAIN ent /\ (n # Null => n \in R) /\ Follows(ent, R)
      /\ \A D \in SUBSET DOMAIN ent : (n # Null => n \in D) /\ Follows(ent, D) => R \subseteq D
  BY <1>1, ReachedFollows
<1>3. Follows(ent, {e} \cup R)
  BY <1>2 DEF Follows
<1>4. ASSUME NEW D \in SUBSET DOMAIN ent, e \in D, Follows(ent, D)
      PROVE  {e} \cup R \subseteq D
  <2>1. n # Null => n \in D
    BY <1>4 DEF Follows
  <2> QED
    BY <1>2, <1>4, <2>1
<1>5. Reached(ent, e) = {e} \cup R
  <2> HIDE DEF R, n
  <2>1. {e} \cup R \in SUBSET DOMAIN ent
    BY <1>2
  <2> QED
    BY <1>1, <1>3, <1>4, <2>1, ReachedIs
<1>6. e \notin R
  <2>1. \A x \in 1 .. n : x \in DOMAIN ent /\ ent[x].next \in 0 .. (x - 1)
    BY <1>1 DEF Cells
  <2>2. Follows(ent, 1 .. n) /\ 1 .. n \in SUBSET DOMAIN ent
    BY <1>1, <2>1 DEF Follows, Null
  <2>3. R \subseteq 1 .. n
    BY <1>1, <1>2, <2>2 DEF Null
  <2> QED
    BY <1>1, <2>3
<1> QED
  BY <1>5, <1>6

-----------------------------------------------------------------------------
(* What the walks along a chain find.                                      *)

\* Chain and Find, of any table.
ChainOf(ent, first) ==
  LET from[e \in 0 .. Len(ent)] ==
        IF e = Null THEN <<>> ELSE <<e>> \o from[ent[e].next]
  IN from[first]

FindOf(ent, first, k) ==
  LET from[e \in 0 .. Len(ent)] ==
        IF e = Null \/ ent[e].key = k THEN e ELSE from[ent[e].next]
  IN from[first]

LEMMA SameWalks ==
  /\ \A b : Chain(b) = ChainOf(entry, buckets[b])
  /\ \A k : Find(k) = FindOf(entry, buckets[Hash[k]], k)
  /\ \A k : Find(k)' = FindOf(entry', buckets'[Hash[k]], k)
<1>1. \A b : Chain(b) = ChainOf(entry, buckets[b])
  BY DEF Chain, ChainOf, Pointers
<1>2. \A k : Find(k) = FindOf(entry, buckets[Hash[k]], k)
  BY DEF Find, FindOf, Pointers
<1>3. \A k : Find(k)' = FindOf(entry', buckets'[Hash[k]], k)
  BY DEF Find, FindOf, Pointers
<1> QED
  BY <1>1, <1>2, <1>3

Elements(s) == {s[i] : i \in DOMAIN s}

LEMMA PrefixedElements ==
  ASSUME NEW e \in Nat, NEW s \in Seq(Nat)
  PROVE  <<e>> \o s \in Seq(Nat) /\ Elements(<<e>> \o s) = {e} \cup Elements(s)
<1>1. /\ <<e>> \o s \in Seq(Nat) /\ DOMAIN (<<e>> \o s) = 1 .. Len(s) + 1
      /\ DOMAIN s = 1 .. Len(s) /\ Len(s) \in Nat
  OBVIOUS
<1>2. (<<e>> \o s)[1] = e
  OBVIOUS
<1>3. \A i \in 1 .. Len(s) : (<<e>> \o s)[i + 1] = s[i]
  OBVIOUS
<1>4. \A i \in 1 .. Len(s) + 1 : i = 1 \/ (i - 1 \in 1 .. Len(s) /\ i = (i - 1) + 1)
  BY <1>1
<1>5. Elements(<<e>> \o s) \subseteq {e} \cup Elements(s)
  <2> SUFFICES ASSUME NEW i \in 1 .. Len(s) + 1
               PROVE  (<<e>> \o s)[i] \in {e} \cup Elements(s)
    BY <1>1 DEF Elements
  <2>1. CASE i = 1
    BY <1>2, <2>1
  <2>2. CASE i - 1 \in 1 .. Len(s)
    <3>1. (<<e>> \o s)[(i - 1) + 1] = s[i - 1] /\ (i - 1) + 1 = i
      BY <1>3, <2>2
    <3> QED
      BY <1>1, <2>2, <3>1 DEF Elements
  <2> QED
    BY <1>4, <2>1, <2>2
<1>6. {e} \cup Elements(s) \subseteq Elements(<<e>> \o s)
  <2>1. 1 \in 1 .. Len(s) + 1 /\ \A i \in 1 .. Len(s) : i + 1 \in 1 .. Len(s) + 1
    BY <1>1
  <2>2. e \in Elements(<<e>> \o s)
    BY <1>1, <1>2, <2>1 DEF Elements
  <2>3. ASSUME NEW i \in DOMAIN s PROVE s[i] \in Elements(<<e>> \o s)
    <3>1. i \in 1 .. Len(s) /\ i + 1 \in DOMAIN (<<e>> \o s) /\ (<<e>> \o s)[i + 1] = s[i]
      BY <1>1, <1>3, <2>1
    <3> QED
      BY <3>1 DEF Elements
  <2> QED
    BY <2>2, <2>3 DEF Elements
<1> QED
  BY <1>1, <1>5, <1>6

\* The walk of Chain finds what can be reached.
LEMMA ChainReached ==
  ASSUME NEW ent, Cells(ent), NEW first \in 0 .. Len(ent)
  PROVE  Elements(ChainOf(ent, first)) = Reached(ent, first)
<1> DEFINE N == Len(ent)
           S == Seq(Nat)
           next == [e \in 1 .. N |-> ent[e].next]
           step == [p \in (1 .. N) \X S |-> <<p[1]>> \o p[2]]
           Walk(f) == f = [e \in 0 .. N |-> IF e = Null THEN <<>> ELSE <<e>> \o f[ent[e].next]]
           from == CHOOSE f : Walk(f)
<1>1. DOMAIN ent = 1 .. N /\ N \in Nat
  BY DEF Cells
<1>2. \A e \in 1 .. N : next[e] \in 0 .. (e - 1) /\ next[e] = ent[e].next
  BY <1>1 DEF Cells
<1>3. <<>> \in S /\ \A e \in 1 .. N, x \in S : step[<<e, x>>] \in S /\ step[<<e, x>>] = <<e>> \o x
  OBVIOUS
<1> HIDE DEF N, S, next, step
<1>4. PICK f : Descends(f, S, N, next, <<>>, step)
  BY <1>1, <1>2, <1>3, Descent
<1>5. Walk(f)
  <2>1. ASSUME NEW e \in 0 .. N
        PROVE  f[e] = IF e = Null THEN <<>> ELSE <<e>> \o f[ent[e].next]
    <3>1. CASE e = 0
      BY <1>4, <3>1 DEF Descends, Null
    <3>2. CASE e # 0
      <4>1. e \in 1 .. N
        BY <1>1, <3>2
      <4>2. next[e] \in 0 .. N /\ f[next[e]] \in S
        BY <1>1, <1>2, <1>4, <4>1 DEF Descends
      <4> QED
        BY <1>2, <1>3, <1>4, <4>1, <4>2, ZenonT(40) DEF Descends, Null
    <3> QED
      BY <3>1, <3>2
  <2> QED
    BY <1>4, <2>1 DEF Descends
<1>6. Walk(from)
  BY <1>5
<1>7. ChainOf(ent, first) = from[first]
  BY DEF ChainOf, N
<1> HIDE DEF from
<1> DEFINE Good == {e \in 0 .. N : from[e] \in Seq(Nat) /\ Elements(from[e]) = Reached(ent, e)}
<1>8. 0 \in Good
  <2>1. from[0] = <<>> /\ Reached(ent, 0) = {}
    BY <1>1, <1>6, ReachedNone DEF Null
  <2>2. <<>> \in Seq(Nat) /\ Elements(<<>>) = {}
    BY DEF Elements
  <2>3. from[0] \in Seq(Nat) /\ Elements(from[0]) = Reached(ent, 0)
    BY <2>1, <2>2
  <2> QED
    BY <1>1, <2>3
<1>9. ASSUME NEW e \in 1 .. N, next[e] \in Good
      PROVE  e \in Good
  <2>0. e \in 0 .. N /\ e # Null /\ e \in Nat
    BY <1>1 DEF Null
  <2>1. from[e] = <<e>> \o from[next[e]]
    BY <1>2, <1>6, <2>0
  <2>2. from[next[e]] \in Seq(Nat)
    BY <1>9
  <2>3. from[e] \in Seq(Nat) /\ Elements(from[e]) = {e} \cup Elements(from[next[e]])
    BY <2>0, <2>1, <2>2, PrefixedElements
  <2>4. Reached(ent, e) = {e} \cup Reached(ent, next[e])
    <3>1. e \in DOMAIN ent /\ next[e] = ent[e].next
      BY <1>1, <1>2
    <3>2. Reached(ent, e) = {e} \cup Reached(ent, ent[e].next)
      BY <3>1, ReachedStep
    <3> QED
      BY <3>1, <3>2
  <2> QED
    BY <1>9, <2>0, <2>3, <2>4
<1> HIDE DEF Good
<1>10. 0 .. N \subseteq Good
  BY <1>1, <1>2, <1>8, <1>9, DescentInduction
<1> QED
  BY <1>7, <1>10 DEF Good, N

\* The walk of Find finds an entry with the key among those, if there is one.
LEMMA FindReached ==
  ASSUME NEW ent, Cells(ent), NEW first \in 0 .. Len(ent), NEW k
  PROVE  /\ FindOf(ent, first, k) \in 0 .. Len(ent)
         /\ FindOf(ent, first, k) # Null =>
              FindOf(ent, first, k) \in Reached(ent, first) /\ ent[FindOf(ent, first, k)].key = k
         /\ FindOf(ent, first, k) = Null => \A e \in Reached(ent, first) : ent[e].key # k
<1> DEFINE N == Len(ent)
           S == 0 .. N
           next == [e \in 1 .. N |-> ent[e].next]
           step == [p \in (1 .. N) \X S |-> IF ent[p[1]].key = k THEN p[1] ELSE p[2]]
           Walk(f) == f = [e \in 0 .. N |->
                             IF e = Null \/ ent[e].key = k THEN e ELSE f[ent[e].next]]
           from == CHOOSE f : Walk(f)
<1>1. DOMAIN ent = 1 .. N /\ N \in Nat
  BY DEF Cells
<1>2. \A e \in 1 .. N : next[e] \in 0 .. (e - 1) /\ next[e] = ent[e].next
  BY <1>1 DEF Cells
<1>3. /\ 0 \in S
      /\ \A e \in 1 .. N, x \in S : /\ step[<<e, x>>] \in S
                                    /\ step[<<e, x>>] = IF ent[e].key = k THEN e ELSE x
  BY <1>1
<1> HIDE DEF N, S, next, step
<1>4. PICK f : Descends(f, S, N, next, 0, step)
  BY <1>1, <1>2, <1>3, Descent
<1>5. Walk(f)
  <2>1. ASSUME NEW e \in 0 .. N
        PROVE  f[e] = IF e = Null \/ ent[e].key = k THEN e ELSE f[ent[e].next]
    <3>1. CASE e = 0
      BY <1>4, <3>1 DEF Descends, Null
    <3>2. CASE e # 0
      <4>1. e \in 1 .. N
        BY <1>1, <3>2
      <4>2. next[e] \in 0 .. N /\ f[next[e]] \in S
        BY <1>1, <1>2, <1>4, <4>1 DEF Descends
      <4>3. f[e] = step[<<e, f[next[e]]>>]
        BY <1>4, <4>1 DEF Descends
      <4>4. f[e] = IF ent[e].key = k THEN e ELSE f[next[e]]
        BY <1>3, <4>1, <4>2, <4>3
      <4> QED
        BY <1>2, <3>2, <4>1, <4>4 DEF Null
    <3> QED
      BY <3>1, <3>2
  <2> QED
    BY <1>4, <2>1 DEF Descends
<1>6. Walk(from)
  BY <1>5
<1>7. FindOf(ent, first, k) = from[first]
  BY DEF FindOf, N
<1> HIDE DEF from
<1> DEFINE Good == {e \in 0 .. N :
                      /\ from[e] \in 0 .. N
                      /\ from[e] # Null => from[e] \in Reached(ent, e) /\ ent[from[e]].key = k
                      /\ from[e] = Null => \A x \in Reached(ent, e) : ent[x].key # k}
<1>8. 0 \in Good
  <2>1. from[0] = 0 /\ Reached(ent, 0) = {}
    BY <1>1, <1>6, ReachedNone DEF Null
  <2> QED
    BY <1>1, <2>1 DEF Null
<1>9. ASSUME NEW e \in 1 .. N, next[e] \in Good
      PROVE  e \in Good
  <2>0. e \in 0 .. N /\ e # Null
    BY <1>1 DEF Null
  <2>1. from[e] = IF ent[e].key = k THEN e ELSE from[next[e]]
    BY <1>2, <1>6, <2>0
  <2>2. Reached(ent, e) = {e} \cup Reached(ent, next[e])
    <3>1. e \in DOMAIN ent /\ next[e] = ent[e].next
      BY <1>1, <1>2
    <3>2. Reached(ent, e) = {e} \cup Reached(ent, ent[e].next)
      BY <3>1, ReachedStep
    <3> QED
      BY <3>1, <3>2
  <2> QED
    BY <1>1, <1>9, <2>1, <2>2 DEF Null
<1> HIDE DEF Good
<1>10. 0 .. N \subseteq Good
  BY <1>1, <1>2, <1>8, <1>9, DescentInduction
<1> QED
  BY <1>7, <1>10 DEF Good, N

\* Find is the entry that has the key, in a chain where only one has it.
LEMMA FindUnique ==
  ASSUME NEW ent, Cells(ent), NEW first \in 0 .. Len(ent), NEW k,
         \A d, e \in Reached(ent, first) : ent[d].key = ent[e].key => d = e
  PROVE  /\ FindOf(ent, first, k) \in 0 .. Len(ent)
         /\ \A e : (e # Null /\ FindOf(ent, first, k) = e)
                   <=> (e \in Reached(ent, first) /\ ent[e].key = k)
<1>1. \A e \in Reached(ent, first) : e # Null
  BY DEF Reached, Cells, Null
<1> QED
  BY <1>1, FindReached

-----------------------------------------------------------------------------
(* What changes in a chain.                                                *)

\* Nothing, when no next pointer changes.
LEMMA SameReached ==
  ASSUME NEW ent, NEW new, DOMAIN new = DOMAIN ent,
         \A e \in DOMAIN ent : new[e].next = ent[e].next
  PROVE  \A first : Reached(new, first) = Reached(ent, first)
<1>1. \A D \in SUBSET DOMAIN ent : Follows(new, D) <=> Follows(ent, D)
  BY DEF Follows
<1> QED
  BY <1>1 DEF Reached

LEMMA AppendReached ==
  ASSUME NEW ent, Cells(ent), NEW cell \in Cell, cell.next \in 0 .. Len(ent)
  PROVE  LET new == Append(ent, cell)
         IN  /\ Cells(new) /\ DOMAIN new = DOMAIN ent \cup {Len(ent) + 1}
             /\ Len(ent) + 1 \notin DOMAIN ent /\ Len(new) = Len(ent) + 1
             /\ new[Len(ent) + 1] = cell /\ \A e \in DOMAIN ent : new[e] = ent[e]
             /\ \A first \in 0 .. Len(ent) : Reached(new, first) = Reached(ent, first)
             /\ Reached(new, Len(ent) + 1) = {Len(ent) + 1} \cup Reached(ent, cell.next)
<1> DEFINE new == Append(ent, cell)
           m == Len(ent) + 1
<1>1. /\ DOMAIN ent = 1 .. Len(ent) /\ Len(ent) \in Nat /\ Len(new) = m /\ new \in Seq(Cell)
      /\ DOMAIN new = 1 .. m /\ new[m] = cell /\ \A e \in 1 .. Len(ent) : new[e] = ent[e]
  BY DEF Cells
<1>2. DOMAIN new = DOMAIN ent \cup {m} /\ m \notin DOMAIN ent
  BY <1>1
<1> HIDE DEF new
<1>3. Cells(new)
  BY <1>1, <1>2 DEF Cells
<1>4. ASSUME NEW first \in 0 .. Len(ent)
      PROVE  Reached(new, first) = Reached(ent, first)
  <2> DEFINE R == Reached(ent, first)
  <2>1. /\ R \subseteq DOMAIN ent /\ (first # Null => first \in R) /\ Follows(ent, R)
        /\ \A D \in SUBSET DOMAIN ent :
             (first # Null => first \in D) /\ Follows(ent, D) => R \subseteq D
    BY ReachedFollows
  <2>2. Follows(new, R)
    BY <1>1, <2>1 DEF Follows
  <2>3. ASSUME NEW D \in SUBSET DOMAIN new, first # Null => first \in D, Follows(new, D)
        PROVE  R \subseteq D
    <3>1. first # Null => first \in DOMAIN ent
      BY <1>1 DEF Null
    <3>2. \A e \in DOMAIN ent : ent[e].next # Null => ent[e].next \in DOMAIN ent
      BY <1>1 DEF Cells, Null
    <3>3. Follows(ent, D \cap DOMAIN ent)
      BY <1>1, <2>3, <3>2 DEF Follows
    <3> QED
      BY <2>1, <2>3, <3>1, <3>3
  <2> HIDE DEF R
  <2>4. R \in SUBSET DOMAIN new /\ first \in 0 .. Len(new)
    BY <1>1, <1>2, <2>1
  <2>5. Reached(new, first) = R
    BY <1>3, <2>1, <2>2, <2>3, <2>4, ReachedIs
  <2> QED
    BY <2>5 DEF R
<1>5. Reached(new, m) = {m} \cup Reached(ent, cell.next)
  BY <1>1, <1>2, <1>3, <1>4, ReachedStep
<1> QED
  BY <1>1, <1>2, <1>3, <1>4, <1>5 DEF new

\* Entries of a chain are no newer than its first.
LEMMA ReachedBelow ==
  ASSUME NEW ent, Cells(ent), NEW first \in 0 .. Len(ent)
  PROVE  Reached(ent, first) \subseteq 1 .. first
<1>1. \A x \in 1 .. first : x \in DOMAIN ent /\ ent[x].next \in 0 .. (x - 1)
  BY DEF Cells
<1>2. Follows(ent, 1 .. first) /\ 1 .. first \in SUBSET DOMAIN ent
  BY <1>1 DEF Follows, Null, Cells
<1>3. first # Null => first \in 1 .. first
  BY DEF Cells, Null
<1> QED
  BY <1>2, <1>3, ReachedFollows

\* An entry that nothing in its chain leads to is the first.
LEMMA FirstHasNoneBefore ==
  ASSUME NEW ent, Cells(ent), NEW first \in 0 .. Len(ent), NEW e \in Reached(ent, first)
  PROVE  ({p \in Reached(ent, first) : ent[p].next = e} = {}) <=> e = first
<1> DEFINE R == Reached(ent, first)
<1>1. /\ R \subseteq DOMAIN ent /\ (first # Null => first \in R) /\ Follows(ent, R)
      /\ \A D \in SUBSET DOMAIN ent :
           (first # Null => first \in D) /\ Follows(ent, D) => R \subseteq D
  BY ReachedFollows
<1>2. ASSUME \A p \in R : ent[p].next # e, e # first
      PROVE  FALSE
  <2>1. Follows(ent, R \ {e}) /\ R \ {e} \in SUBSET DOMAIN ent
    BY <1>1, <1>2 DEF Follows
  <2> QED
    BY <1>1, <1>2, <2>1
<1>3. ASSUME NEW p \in R, ent[p].next = e, e = first
      PROVE  FALSE
  <2>1. p \in DOMAIN ent /\ p \in 1 .. first
    BY <1>1, ReachedBelow
  <2> QED
    BY <1>3, <2>1 DEF Cells
<1> QED
  BY <1>2, <1>3

\* What leads to an entry that is skipped, leads past it.
Skip(ent, B, e) ==
  [p \in DOMAIN ent |-> IF p \in B THEN [ent[p] EXCEPT !.next = ent[e].next] ELSE ent[p]]

LEMMA SkipCells ==
  ASSUME NEW ent, Cells(ent), NEW e \in DOMAIN ent, NEW B \in SUBSET DOMAIN ent,
         \A p \in B : ent[p].next = e
  PROVE  /\ Cells(Skip(ent, B, e)) /\ DOMAIN Skip(ent, B, e) = DOMAIN ent
         /\ Len(Skip(ent, B, e)) = Len(ent)
         /\ \A p \in DOMAIN ent :
              /\ Skip(ent, B, e)[p].key = ent[p].key /\ Skip(ent, B, e)[p].value = ent[p].value
              /\ Skip(ent, B, e)[p].next = IF p \in B THEN ent[e].next ELSE ent[p].next
<1> DEFINE new == Skip(ent, B, e)
<1>1. DOMAIN ent = 1 .. Len(ent) /\ Len(ent) \in Nat /\ \A p \in DOMAIN ent : ent[p] \in Cell
  BY DEF Cells
<1>2. DOMAIN new = DOMAIN ent
      /\ \A p \in DOMAIN ent : new[p] = IF p \in B THEN [ent[p] EXCEPT !.next = ent[e].next] ELSE ent[p]
  BY DEF Skip
<1> HIDE DEF new
<1>3. ASSUME NEW p \in DOMAIN ent
      PROVE  /\ new[p] \in Cell /\ new[p].key = ent[p].key /\ new[p].value = ent[p].value
             /\ new[p].next = IF p \in B THEN ent[e].next ELSE ent[p].next
  <2>1. ent[p] \in Cell /\ ent[e] \in Cell
    BY <1>1
  <2> QED
    BY <1>2, <2>1 DEF Cell
<1>4. new \in Seq(Cell) /\ Len(new) = Len(ent)
  <2>1. new \in [1 .. Len(ent) -> Cell]
    <3>1. new = [p \in 1 .. Len(ent) |-> new[p]]
      BY <1>1 DEF new, Skip
    <3> QED
      BY <1>1, <1>2, <1>3, <3>1
  <2> QED
    BY <1>1, <2>1
<1>5. \A p \in DOMAIN ent : new[p].next \in 0 .. (p - 1)
  BY <1>1, <1>3 DEF Cells
<1> QED
  BY <1>2, <1>3, <1>4, <1>5 DEF Cells, new

LEMMA SkipReached ==
  ASSUME NEW ent, Cells(ent), NEW first \in 0 .. Len(ent), NEW e \in Reached(ent, first),
         NEW B, B = {p \in Reached(ent, first) : ent[p].next = e}, B # {}
  PROVE  /\ Reached(Skip(ent, B, e), first) = Reached(ent, first) \ {e}
         /\ \A other \in 0 .. Len(ent) :
              Reached(ent, other) \cap Reached(ent, first) = {} =>
                Reached(Skip(ent, B, e), other) = Reached(ent, other)
<1> DEFINE R == Reached(ent, first)
           new == Skip(ent, B, e)
<1>1. /\ R \subseteq DOMAIN ent /\ (first # Null => first \in R) /\ Follows(ent, R)
      /\ \A D \in SUBSET DOMAIN ent :
           (first # Null => first \in D) /\ Follows(ent, D) => R \subseteq D
  BY ReachedFollows
<1>2. B \in SUBSET DOMAIN ent /\ B \subseteq R /\ e \in DOMAIN ent /\ e # first
  BY <1>1, FirstHasNoneBefore
<1>3. /\ Cells(new) /\ DOMAIN new = DOMAIN ent /\ Len(new) = Len(ent)
      /\ \A p \in DOMAIN ent : new[p].next = IF p \in B THEN ent[e].next ELSE ent[p].next
  BY <1>2, SkipCells
<1> HIDE DEF new, R
<1>4. ent[e].next # e /\ (ent[e].next # Null => ent[e].next \in R)
  BY <1>1, <1>2 DEF Cells, Follows, R
<1>5. Follows(new, R \ {e})
  BY <1>1, <1>2, <1>3, <1>4 DEF Follows, R
<1>6. ASSUME NEW D \in SUBSET DOMAIN ent, first # Null => first \in D, Follows(new, D)
      PROVE  R \ {e} \subseteq D
  <2>1. CASE B \cap D = {}
    <3>1. Follows(ent, D \cap R)
      BY <1>1, <1>3, <1>6, <2>1 DEF Follows
    <3> QED
      BY <1>1, <1>6, <3>1
  <2>2. CASE B \cap D # {}
    <3>1. ent[e].next # Null => ent[e].next \in D
      BY <1>2, <1>3, <1>6, <2>2 DEF Follows
    <3>2. Follows(ent, D \cup {e})
      BY <1>2, <1>3, <1>6, <3>1 DEF Follows, R
    <3>3. R \subseteq D \cup {e}
      BY <1>1, <1>2, <1>6, <3>2
    <3> QED
      BY <3>3
  <2> QED
    BY <2>1, <2>2
<1>7. Reached(new, first) = R \ {e}
  BY <1>1, <1>2, <1>3, <1>5, <1>6, ReachedIs
<1>8. ASSUME NEW other \in 0 .. Len(ent), Reached(ent, other) \cap R = {}
      PROVE  Reached(new, other) = Reached(ent, other)
  <2> DEFINE O == Reached(ent, other)
  <2>1. /\ O \subseteq DOMAIN ent /\ (other # Null => other \in O) /\ Follows(ent, O)
        /\ \A D \in SUBSET DOMAIN ent :
             (other # Null => other \in D) /\ Follows(ent, D) => O \subseteq D
    BY ReachedFollows
  <2> HIDE DEF O
  <2>2. O \cap B = {}
    BY <1>2, <1>8 DEF O
  <2>3. Follows(new, O)
    BY <1>3, <2>1, <2>2 DEF Follows
  <2>4. ASSUME NEW D \in SUBSET DOMAIN ent, other # Null => other \in D, Follows(new, D)
        PROVE  O \subseteq D
    <3>1. Follows(ent, D \cap O)
      BY <1>3, <2>1, <2>2, <2>4 DEF Follows
    <3> QED
      BY <2>1, <2>4, <3>1
  <2>5. Reached(new, other) = O
    BY <1>3, <2>1, <2>3, <2>4, ReachedIs
  <2> QED
    BY <2>5 DEF O
<1> QED
  BY <1>7, <1>8 DEF new, R

-----------------------------------------------------------------------------
(* The inductive invariant.                                                *)

In(b) == Reached(entry, buckets[b])

\* A chain has the entries of its bucket's keys, one for a key.
ChainsInv ==
  \A b \in Buckets :
    /\ \A e \in In(b) : Hash[entry[e].key] = b
    /\ \A d, e \in In(b) : entry[d].key = entry[e].key => d = e

\* A pointer that is held is to the entry of its key.
HeldInv == \A k \in DOMAIN held : held[k] \in In(Hash[k]) /\ entry[held[k]].key = k

\* There was no room for a key that is not there.
FullInv == full => \E k \in Keys : \A e \in In(Hash[k]) : entry[e].key # k

HashInv == HashTypeOK /\ Cells(entry) /\ ChainsInv /\ HeldInv /\ FullInv

LEMMA InitInv == HashInit => HashInv
<1> SUFFICES ASSUME HashInit PROVE HashInv
  OBVIOUS
<1>1. Cells(entry)
  <2>1. <<>> \in Seq(Cell) /\ \A e \in DOMAIN <<>> : FALSE
    OBVIOUS
  <2> QED
    BY <2>1 DEF HashInit, Cells
<1>2. \A b \in Buckets : In(b) = {}
  BY <1>1, ReachedNone DEF HashInit, In
<1>3. HashTypeOK
  <2>1. Pointers = {0} /\ DOMAIN entry = {}
    BY DEF HashInit, Pointers
  <2>2. held \in [{} -> {}] /\ DOMAIN held = {}
    BY DEF HashInit, EmptyMap
  <2> QED
    BY <2>1, <2>2 DEF HashInit, HashTypeOK, Null
<1> QED
  BY <1>1, <1>2, <1>3 DEF HashInv, ChainsInv, HeldInv, FullInv, HashInit, EmptyMap

\* Find in the terms of the invariant.
LEMMA FindIs ==
  ASSUME HashInv, NEW k \in Keys
  PROVE  /\ Hash[k] \in Buckets /\ Find(k) \in Pointers
         /\ \A e : (e # Null /\ Find(k) = e) <=> (e \in In(Hash[k]) /\ entry[e].key = k)
         /\ Find(k) = Null => \A e \in In(Hash[k]) : entry[e].key # k
<1>1. Hash[k] \in Buckets
  BY HashMapAssumption
<1>2. buckets[Hash[k]] \in 0 .. Len(entry) /\ Cells(entry)
  BY <1>1 DEF HashInv, HashTypeOK, Pointers
<1>3. \A d, e \in Reached(entry, buckets[Hash[k]]) : entry[d].key = entry[e].key => d = e
  BY <1>1 DEF HashInv, ChainsInv, In
<1>4. Find(k) = FindOf(entry, buckets[Hash[k]], k)
  BY SameWalks
<1>5. /\ FindOf(entry, buckets[Hash[k]], k) \in 0 .. Len(entry)
      /\ \A e : (e # Null /\ FindOf(entry, buckets[Hash[k]], k) = e)
                <=> (e \in Reached(entry, buckets[Hash[k]]) /\ entry[e].key = k)
  BY <1>2, <1>3, FindUnique
<1>6. \A e \in Reached(entry, buckets[Hash[k]]) : e # Null
  BY <1>2 DEF Reached, Cells, Null
<1> QED
  BY <1>1, <1>4, <1>5, <1>6 DEF In, Pointers

\* The same of the next state.
LEMMA NextFindIs ==
  ASSUME HashInv', NEW k \in Keys
  PROVE  \A e : (e # Null /\ Find(k)' = e)
                <=> (e \in Reached(entry', buckets'[Hash[k]]) /\ entry'[e].key = k)
<1>1. Hash[k] \in Buckets
  BY HashMapAssumption
<1>2. buckets'[Hash[k]] \in 0 .. Len(entry') /\ Cells(entry')
  BY <1>1 DEF HashInv, HashTypeOK, Pointers
<1>3. \A d, e \in Reached(entry', buckets'[Hash[k]]) : entry'[d].key = entry'[e].key => d = e
  BY <1>1 DEF HashInv, ChainsInv, In
<1>4. Find(k)' = FindOf(entry', buckets'[Hash[k]], k)
  BY SameWalks
<1>5. \A e : (e # Null /\ FindOf(entry', buckets'[Hash[k]], k) = e)
             <=> (e \in Reached(entry', buckets'[Hash[k]]) /\ entry'[e].key = k)
  BY <1>2, <1>3, FindUnique
<1> QED
  BY <1>4, <1>5

\* Facts about a table that keeps its invariant.
LEMMA Table ==
  ASSUME HashInv
  PROVE  /\ Cells(entry) /\ DOMAIN entry = 1 .. Len(entry) /\ Len(entry) \in Nat
         /\ Pointers = 0 .. Len(entry) /\ buckets \in [Buckets -> Pointers]
         /\ \A b \in Buckets : In(b) \subseteq DOMAIN entry
         /\ \A e \in DOMAIN entry : entry[e] \in Cell
         /\ DOMAIN held \subseteq Keys /\ held \in [DOMAIN held -> DOMAIN entry]
BY DEF HashInv, Cells, Pointers, HashTypeOK, In, Reached

\* Types follow from the cells.
LEMMA TypesFromCells ==
  ASSUME Cells(entry)', (buckets \in [Buckets -> Pointers])', (DOMAIN held \subseteq Keys)',
         (held \in [DOMAIN held -> DOMAIN entry])', (found \in BOOLEAN)', (full \in BOOLEAN)'
  PROVE  HashTypeOK'
<1>1. \A e \in DOMAIN entry' : entry'[e] \in Cell /\ entry'[e].next \in 0 .. (e - 1)
  BY DEF Cells
<1> QED
  BY <1>1 DEF HashTypeOK, Cell

-----------------------------------------------------------------------------
(* The calls.                                                              *)

LEMMA UpdateInv ==
  ASSUME HashInv, ~full, NEW k \in Keys, NEW v \in Values, Update(k, v)
  PROVE  /\ HashInv' /\ DOMAIN entry' = DOMAIN entry
         /\ \A b \in Buckets : Reached(entry', buckets'[b]) = In(b)
         /\ \A e \in DOMAIN entry :
              /\ entry'[e].key = entry[e].key
              /\ entry'[e].value = IF e = Find(k) THEN v ELSE entry[e].value
<1> DEFINE f == Find(k)
<1>1. f \in DOMAIN entry /\ f # Null
  BY FindIs, Table DEF Update, Null
<1>2. entry' = [entry EXCEPT ![f].value = v] /\ UNCHANGED <<buckets, held, found, full>>
  BY DEF Update
<1> HIDE DEF f
<1>3. /\ DOMAIN entry' = DOMAIN entry
      /\ \A e \in DOMAIN entry : /\ entry'[e] \in Cell /\ entry'[e].key = entry[e].key
                                 /\ entry'[e].next = entry[e].next
                                 /\ entry'[e].value = IF e = f THEN v ELSE entry[e].value
  <2>1. DOMAIN entry' = DOMAIN entry
    BY <1>2
  <2>2. ASSUME NEW e \in DOMAIN entry
        PROVE  /\ entry'[e] \in Cell /\ entry'[e].key = entry[e].key
               /\ entry'[e].next = entry[e].next
               /\ entry'[e].value = IF e = f THEN v ELSE entry[e].value
    <3>1. entry[e] \in Cell
      BY Table
    <3>2. entry'[e] = IF e = f THEN [entry[e] EXCEPT !.value = v] ELSE entry[e]
      BY <1>2
    <3> QED
      BY <3>1, <3>2 DEF Cell
  <2> QED
    BY <2>1, <2>2
<1>4. Cells(entry') /\ Len(entry') = Len(entry)
  <2>1. entry' \in [1 .. Len(entry) -> Cell]
    BY <1>2, <1>3, Table
  <2>2. entry' \in Seq(Cell) /\ Len(entry') = Len(entry)
    BY <2>1, Table
  <2>3. \A e \in DOMAIN entry : entry[e].next \in 0 .. (e - 1)
    BY Table DEF Cells
  <2>4. \A e \in DOMAIN entry' : entry'[e].next \in 0 .. (e - 1)
    BY <1>3, <2>3
  <2> QED
    BY <2>2, <2>4 DEF Cells
<1>5. \A b \in Buckets : Reached(entry', buckets'[b]) = In(b)
  <2>1. DOMAIN entry' = DOMAIN entry /\ \A e \in DOMAIN entry : entry'[e].next = entry[e].next
    BY <1>3
  <2>2. \A first : Reached(entry', first) = Reached(entry, first)
    BY <2>1, SameReached
  <2> QED
    BY <1>2, <2>2 DEF In
<1>6. HashTypeOK'
  BY <1>2, <1>3, <1>4, Table, TypesFromCells DEF Pointers, HashInv, HashTypeOK
<1>7. ChainsInv'
  BY <1>3, <1>5, Table DEF HashInv, ChainsInv, In
<1>8. HeldInv' /\ FullInv'
  BY <1>2, <1>3, <1>5, Table, HashMapAssumption, ZenonT(40) DEF HashInv, HeldInv, FullInv, In
<1> QED
  BY <1>3, <1>4, <1>5, <1>6, <1>7, <1>8 DEF HashInv, f

LEMMA InsertInv ==
  ASSUME HashInv, ~full, NEW k \in Keys, NEW v \in Values, Insert(k, v)
  PROVE  /\ HashInv' /\ DOMAIN entry' = DOMAIN entry \cup {Len(entry) + 1}
         /\ Len(entry) + 1 \notin DOMAIN entry
         /\ \A b \in Buckets : Reached(entry', buckets'[b]) =
                                 IF b = Hash[k] THEN In(b) \cup {Len(entry) + 1} ELSE In(b)
         /\ entry'[Len(entry) + 1].key = k /\ entry'[Len(entry) + 1].value = v
         /\ \A e \in DOMAIN entry : entry'[e] = entry[e]
<1> DEFINE m == Len(entry) + 1
           h == Hash[k]
           cell == [key |-> k, value |-> v, next |-> buckets[h]]
<1>1. /\ h \in Buckets /\ Find(k) = Null /\ entry' = Append(entry, cell)
      /\ buckets' = [buckets EXCEPT ![h] = m] /\ UNCHANGED <<held, found, full>>
  BY HashMapAssumption DEF Insert
<1>2. /\ buckets[h] \in 0 .. Len(entry) /\ cell.next = buckets[h]
      /\ cell \in Cell /\ cell.key = k /\ cell.value = v
  BY <1>1, Table DEF Cell
<1> HIDE DEF cell
<1>3. /\ Cells(entry') /\ DOMAIN entry' = DOMAIN entry \cup {m} /\ m \notin DOMAIN entry
      /\ Len(entry') = m /\ entry'[m] = cell /\ \A e \in DOMAIN entry : entry'[e] = entry[e]
      /\ \A first \in 0 .. Len(entry) : Reached(entry', first) = Reached(entry, first)
      /\ Reached(entry', m) = {m} \cup Reached(entry, buckets[h])
  BY <1>1, <1>2, Table, AppendReached
<1> HIDE DEF m, h
<1>4. \A b \in Buckets : Reached(entry', buckets'[b]) = IF b = h THEN In(b) \cup {m} ELSE In(b)
  BY <1>1, <1>3, Table DEF In
<1>5. HashTypeOK'
  <2>1. m \in 0 .. m /\ 0 .. Len(entry) \subseteq 0 .. m /\ Pointers' = 0 .. m
    BY <1>3, Table DEF m, Pointers
  <2>2. buckets' \in [Buckets -> 0 .. m]
    BY <1>1, <2>1, Table
  <2>3. held' \in [DOMAIN held' -> DOMAIN entry'] /\ DOMAIN held' \subseteq Keys
    BY <1>1, <1>3, Table
  <2> QED
    BY <1>1, <1>3, <2>1, <2>2, <2>3, TypesFromCells DEF HashInv, HashTypeOK
<1>6. \A e \in In(h) : entry[e].key # k
  BY <1>1, FindIs DEF h
<1>7. ChainsInv'
  <2>1. ASSUME NEW b \in Buckets, NEW e \in Reached(entry', buckets'[b])
        PROVE  Hash[entry'[e].key] = b
    <3>1. CASE e \in In(b)
      BY <1>3, <3>1, Table DEF HashInv, ChainsInv
    <3>2. CASE e = m /\ b = h
      BY <1>2, <1>3, <3>2 DEF h
    <3> QED
      BY <1>4, <2>1, <3>1, <3>2
  <2>2. ASSUME NEW b \in Buckets, NEW d \in Reached(entry', buckets'[b]),
               NEW e \in Reached(entry', buckets'[b]), entry'[d].key = entry'[e].key
        PROVE  d = e
    <3>1. CASE d \in In(b) /\ e \in In(b)
      BY <1>3, <2>2, <3>1, Table DEF HashInv, ChainsInv
    <3>2. CASE d = m /\ b = h /\ e \in In(b)
      BY <1>2, <1>3, <1>6, <2>2, <3>2, Table
    <3>3. CASE e = m /\ b = h /\ d \in In(b)
      BY <1>2, <1>3, <1>6, <2>2, <3>3, Table
    <3>4. (d \in In(b) \/ (b = h /\ d = m)) /\ (e \in In(b) \/ (b = h /\ e = m))
      BY <1>4, <2>2
    <3> QED
      BY <3>1, <3>2, <3>3, <3>4
  <2> QED
    BY <2>1, <2>2 DEF ChainsInv, In
<1>8. HeldInv' /\ FullInv'
  BY <1>1, <1>3, <1>4, Table, HashMapAssumption DEF HashInv, HeldInv, FullInv, In, h
<1> QED
  BY <1>2, <1>3, <1>4, <1>5, <1>7, <1>8 DEF HashInv, m, h

LEMMA ChainIs ==
  ASSUME HashInv, NEW b \in Buckets
  PROVE  {Chain(b)[i] : i \in DOMAIN Chain(b)} = In(b)
<1>1. Cells(entry) /\ buckets[b] \in 0 .. Len(entry)
  BY Table
<1>2. Elements(ChainOf(entry, buckets[b])) = In(b)
  BY <1>1, ChainReached DEF In
<1>3. Chain(b) = ChainOf(entry, buckets[b])
  BY SameWalks
<1> QED
  BY <1>2, <1>3 DEF Elements

\* Either way out of a chain takes the entry out of it and nothing else.
LEMMA UnlinkReached ==
  ASSUME HashInv, NEW h \in Buckets, NEW e \in In(h), Unlink(e, h)
  PROVE  /\ Cells(entry') /\ DOMAIN entry' = DOMAIN entry /\ Len(entry') = Len(entry)
         /\ buckets' \in [Buckets -> Pointers]
         /\ \A p \in DOMAIN entry : entry'[p].key = entry[p].key /\ entry'[p].value = entry[p].value
         /\ \A b \in Buckets : Reached(entry', buckets'[b]) = In(b) \ {e}
<1> DEFINE B == {p \in In(h) : entry[p].next = e}
<1>1. Before(e, h) = B
  BY ChainIs DEF Before
<1>2. /\ Cells(entry) /\ buckets[h] \in 0 .. Len(entry) /\ e \in DOMAIN entry
      /\ In(h) = Reached(entry, buckets[h]) /\ entry[e].next \in 0 .. Len(entry)
  BY Table DEF In, Cells
<1>3. \A b \in Buckets : b # h => In(b) \cap In(h) = {}
  BY DEF HashInv, ChainsInv
<1>4. \A b \in Buckets : buckets[b] \in 0 .. Len(entry)
  BY Table
<1>5. CASE B = {}
  <2>1. buckets' = [buckets EXCEPT ![h] = entry[e].next] /\ entry' = entry
    BY <1>1, <1>5 DEF Unlink
  <2>2. e = buckets[h]
    BY <1>2, <1>5, FirstHasNoneBefore
  <2>3. In(h) = {e} \cup Reached(entry, entry[e].next) /\ e \notin Reached(entry, entry[e].next)
    BY <1>2, <2>2, ReachedStep
  <2>4. Reached(entry, entry[e].next) = In(h) \ {e}
    BY <2>3
  <2>5. buckets' \in [Buckets -> Pointers]
    BY <1>2, <2>1, Table
  <2>6. ASSUME NEW b \in Buckets
        PROVE  Reached(entry', buckets'[b]) = In(b) \ {e}
    <3>1. CASE b = h
      BY <2>1, <2>4, <3>1, Table
    <3>2. CASE b # h
      BY <1>3, <2>1, <3>2, Table DEF In
    <3> QED
      BY <3>1, <3>2
  <2> QED
    BY <1>2, <2>1, <2>5, <2>6
<1>6. CASE B # {}
  <2>1. entry' = Skip(entry, B, e) /\ buckets' = buckets
    BY <1>1, <1>6 DEF Unlink, Skip
  <2>2. B \in SUBSET DOMAIN entry /\ \A p \in B : entry[p].next = e
    BY Table
  <2>3. B = {p \in Reached(entry, buckets[h]) : entry[p].next = e} /\ e \in Reached(entry, buckets[h])
    BY DEF In
  <2> HIDE DEF B
  <2>4. /\ Cells(entry') /\ DOMAIN entry' = DOMAIN entry /\ Len(entry') = Len(entry)
        /\ \A p \in DOMAIN entry : entry'[p].key = entry[p].key /\ entry'[p].value = entry[p].value
    BY <1>2, <2>1, <2>2, SkipCells
  <2>5. /\ Reached(entry', buckets[h]) = Reached(entry, buckets[h]) \ {e}
        /\ \A other \in 0 .. Len(entry) :
             Reached(entry, other) \cap Reached(entry, buckets[h]) = {} =>
               Reached(entry', other) = Reached(entry, other)
    BY <1>2, <1>6, <2>1, <2>3, SkipReached
  <2>6. ASSUME NEW b \in Buckets
        PROVE  Reached(entry', buckets'[b]) = In(b) \ {e}
    <3>1. CASE b = h
      BY <2>1, <2>5, <3>1 DEF In
    <3>2. CASE b # h
      <4>1. Reached(entry, buckets[b]) \cap Reached(entry, buckets[h]) = {}
            /\ buckets[b] \in 0 .. Len(entry)
        BY <1>3, <1>4, <3>2 DEF In
      <4>2. Reached(entry', buckets[b]) = In(b) /\ e \notin In(b)
        BY <1>2, <2>3, <2>5, <4>1 DEF In
      <4> QED
        BY <2>1, <4>2
    <3> QED
      BY <3>1, <3>2
  <2> QED
    BY <2>1, <2>4, <2>6, Table
<1> QED
  BY <1>5, <1>6

LEMMA RemoveInv ==
  ASSUME HashInv, ~full, NEW k \in Keys, Delete(k)
  PROVE  /\ HashInv' /\ DOMAIN entry' = DOMAIN entry
         /\ \A b \in Buckets : Reached(entry', buckets'[b]) = In(b) \ {Find(k)}
         /\ \A e \in DOMAIN entry : entry'[e].key = entry[e].key /\ entry'[e].value = entry[e].value
<1> DEFINE f == Find(k)
           h == Hash[k]
<1>1. h \in Buckets /\ f \in Pointers
      /\ \A e : (e # Null /\ f = e) <=> (e \in In(h) /\ entry[e].key = k)
  BY FindIs
<1>2. /\ held' = MapRemove(held, k) /\ UNCHANGED <<found, full>>
      /\ f = Null => UNCHANGED <<buckets, entry>>
      /\ f # Null => Unlink(f, h)
  BY DEF Delete
<1> HIDE DEF f, h
<1>3. /\ Cells(entry') /\ DOMAIN entry' = DOMAIN entry /\ Len(entry') = Len(entry)
      /\ buckets' \in [Buckets -> Pointers]
      /\ \A p \in DOMAIN entry : entry'[p].key = entry[p].key /\ entry'[p].value = entry[p].value
      /\ \A b \in Buckets : Reached(entry', buckets'[b]) = In(b) \ {f}
  <2>1. CASE f = Null
    <3>1. \A b \in Buckets : Null \notin In(b)
      BY Table DEF Null
    <3> QED
      BY <1>2, <2>1, <3>1, Table DEF In
  <2>2. CASE f # Null
    BY <1>1, <1>2, <2>2, UnlinkReached
  <2> QED
    BY <2>1, <2>2
<1>4. DOMAIN held' = DOMAIN held \ {k} /\ \A x \in DOMAIN held' : held'[x] = held[x]
  BY <1>2 DEF MapRemove, Restrict
<1>5. HashTypeOK'
  <2>1. held' \in [DOMAIN held' -> DOMAIN entry'] /\ DOMAIN held' \subseteq Keys
    <3>1. held' = [x \in DOMAIN held' |-> held'[x]]
      BY <1>2 DEF MapRemove, Restrict
    <3> QED
      BY <1>3, <1>4, <3>1, Table
  <2> QED
    BY <1>2, <1>3, <2>1, Table, TypesFromCells DEF HashInv, HashTypeOK, Pointers
<1>6. ChainsInv'
  BY <1>3, Table DEF HashInv, ChainsInv, In
<1>7. HeldInv'
  <2>1. ASSUME NEW x \in DOMAIN held'
        PROVE  held'[x] \in Reached(entry', buckets'[Hash[x]]) /\ entry'[held'[x]].key = x
    <3>1. x \in DOMAIN held /\ x # k /\ x \in Keys /\ held'[x] = held[x]
          /\ held[x] \in In(Hash[x]) /\ entry[held[x]].key = x /\ held[x] \in DOMAIN entry
      BY <1>4, Table DEF HashInv, HeldInv
    <3>2. Hash[x] \in Buckets /\ held[x] # f
      BY <1>1, <3>1, HashMapAssumption, Table DEF Null
    <3> QED
      BY <1>3, <3>1, <3>2
  <2> QED
    BY <2>1 DEF HeldInv, In
<1>8. FullInv'
  BY <1>2 DEF HashInv, FullInv
<1> QED
  BY <1>3, <1>5, <1>6, <1>7, <1>8 DEF HashInv, f

LEMMA GetInv ==
  ASSUME HashInv, ~full, NEW k \in Keys, Get(k)
  PROVE  HashInv'
<1>1. CASE Find(k) = Null
  BY <1>1 DEF Get, HashInv, HashTypeOK, Pointers, ChainsInv, HeldInv, FullInv, In
<1>2. CASE Find(k) # Null
  <2> DEFINE f == Find(k)
  <2>1. f \in In(Hash[k]) /\ entry[f].key = k /\ f \in DOMAIN entry
    BY <1>2, FindIs, Table
  <2>2. held' = MapPut(held, k, f) /\ found' \in BOOLEAN /\ UNCHANGED <<buckets, entry, full>>
    BY <1>2 DEF Get
  <2> HIDE DEF f
  <2>3. /\ DOMAIN held' = DOMAIN held \cup {k}
        /\ \A x \in DOMAIN held' : held'[x] = IF x = k THEN f ELSE held[x]
        /\ held' \in [DOMAIN held' -> DOMAIN entry]
    BY <2>1, <2>2, Table DEF MapPut
  <2>4. HeldInv'
    BY <2>1, <2>2, <2>3 DEF HashInv, HeldInv, In
  <2>5. HashTypeOK'
    BY <2>2, <2>3, Table, TypesFromCells DEF HashInv, HashTypeOK, Pointers
  <2> QED
    BY <2>2, <2>4, <2>5 DEF HashInv, ChainsInv, FullInv, In
<1> QED
  BY <1>1, <1>2

LEMMA OverflowInv ==
  ASSUME HashInv, ~full, NEW k \in Keys, Overflow(k)
  PROVE  HashInv'
<1>1. \A e \in In(Hash[k]) : entry[e].key # k
  BY FindIs DEF Overflow
<1> QED
  BY <1>1 DEF Overflow, HashInv, HashTypeOK, Pointers, ChainsInv, HeldInv, FullInv, In

-----------------------------------------------------------------------------
(* The theorems.                                                           *)

LEMMA NextInv == HashInv /\ [HashNext]_hashVars => HashInv'
<1> SUFFICES ASSUME HashInv, [HashNext]_hashVars PROVE HashInv'
  OBVIOUS
<1>1. CASE UNCHANGED hashVars
  BY <1>1 DEF hashVars, HashInv, HashTypeOK, Pointers, ChainsInv, HeldInv, FullInv, In
<1>2. CASE HashNext
  BY <1>2, UpdateInv, InsertInv, RemoveInv, GetInv, OverflowInv DEF HashNext, Put
<1> QED
  BY <1>1, <1>2

\* The invariant of the table: types, what its chains hold, which entries the
\* pointers are to, and when its arena was used up.
THEOREM HashInvariant == HashSpec => []HashInv
BY InitInv, NextInv, PTL DEF HashSpec

\* Pointers stay in range and next leads to an older entry, so that every walk
\* along a chain ends (hashmap.h).
THEOREM HashTypes == HashSpec => []HashTypeOK
<1>1. HashInv => HashTypeOK
  BY DEF HashInv
<1> QED
  BY <1>1, HashInvariant, PTL

LEMMA LinkedIs ==
  ASSUME HashInv
  PROVE  Linked = UNION {In(b) : b \in Buckets}
BY ChainIs DEF Linked

LEMMA LinkedKeys ==
  ASSUME HashInv
  PROVE  /\ Linked \subseteq DOMAIN entry /\ OneEntryPerKey
         /\ \A e \in Linked : entry[e].key \in Keys /\ e \in In(Hash[entry[e].key])
<1>1. \A e \in Linked : \E b \in Buckets : e \in In(b)
  BY LinkedIs
<1>2. \A e \in Linked : e \in DOMAIN entry /\ e \in In(Hash[entry[e].key])
                        /\ entry[e].key \in Keys
  BY <1>1, Table DEF HashInv, ChainsInv, Cell
<1>3. OneEntryPerKey
  BY <1>2, HashMapAssumption DEF OneEntryPerKey, HashInv, ChainsInv
<1> QED
  BY <1>2, <1>3

\* A key has one entry at most, and a table with room for every key runs out of
\* it only once keys were removed: for any keys, hash and length of its chains
\* (hashmap.h:48-66).
THEOREM HashFullOnlyByRemovals == HashSpec => []FullOnlyByRemovals
<1>1. ASSUME HashInv
      PROVE  FullOnlyByRemovals
  <2>1. ASSUME full, MaxEntries >= Cardinality(Keys)
        PROVE  Cardinality(Linked) < MaxEntries
    <3>1. PICK k \in Keys : \A e \in In(Hash[k]) : entry[e].key # k
      BY <1>1, <2>1 DEF HashInv, FullInv
    <3> DEFINE other == Keys \ {k}
               key == [e \in Linked |-> entry[e].key]
    <3>2. \A e \in Linked : entry[e].key \in other
      BY <1>1, <3>1, LinkedKeys
    <3>3. key \in Injection(Linked, other)
      BY <1>1, <3>2, LinkedKeys DEF Injection, IsInjective, OneEntryPerKey
    <3>4. IsFiniteSet(other) /\ Cardinality(other) = Cardinality(Keys) - 1
          /\ Cardinality(Keys) \in Nat
      BY HashMapAssumption, FS_RemoveElement, FS_CardinalityType
    <3>5. IsFiniteSet(Linked) /\ Cardinality(Linked) <= Cardinality(other)
      BY <3>3, <3>4, FS_Injection
    <3>6. Cardinality(Linked) \in Nat
      BY <3>5, FS_CardinalityType
    <3> QED
      BY <2>1, <3>4, <3>5, <3>6, HashMapAssumption
  <2> QED
    BY <1>1, <2>1, LinkedKeys DEF FullOnlyByRemovals
<1>2. HashInv => FullOnlyByRemovals
  BY <1>1
<1> QED
  BY <1>2, HashInvariant, PTL

-----------------------------------------------------------------------------
(* The table implements a dictionary.                                      *)

View == [k \in DOMAIN held |-> entry[held[k]].value]

\* The entry a pointer is to is the one Find stops at.
LEMMA HeldIs ==
  ASSUME HashInv, NEW x \in DOMAIN held
  PROVE  x \in Keys /\ held[x] = Find(x) /\ held[x] \in DOMAIN entry
         /\ Find(x) # Null /\ entry[held[x]].key = x
<1>1. x \in Keys /\ held[x] \in DOMAIN entry /\ held[x] \in In(Hash[x])
      /\ entry[held[x]].key = x
  BY Table DEF HashInv, HeldInv
<1> QED
  BY <1>1, FindIs

\* Distinct keys have distinct entries.
LEMMA FindApart ==
  ASSUME HashInv, NEW x \in Keys, Find(x) # Null
  PROVE  Find(x) \in DOMAIN entry /\ entry[Find(x)].key = x
<1>1. Find(x) \in In(Hash[x]) /\ entry[Find(x)].key = x /\ Hash[x] \in Buckets
  BY FindIs
<1> QED
  BY <1>1, Table

\* What the table holds, and what it holds after a call.
LEMMA ContentsAre ==
  /\ Contents = [x \in {x \in Keys : Find(x) # Null} |-> entry[Find(x)].value]
  /\ Contents' = [x \in {x \in Keys : Find(x)' # Null} |-> entry'[Find(x)'].value]
BY DEF Contents

LEMMA UpdateIsPut ==
  ASSUME HashInv, ~full, NEW k \in Keys, NEW v \in Values, Update(k, v)
  PROVE  Contents' = MapPut(Contents, k, v)
         /\ View' = IF k \in DOMAIN View THEN MapPut(View, k, v) ELSE View
<1>1. /\ HashInv' /\ DOMAIN entry' = DOMAIN entry /\ held' = held /\ Find(k) # Null
      /\ \A b \in Buckets : Reached(entry', buckets'[b]) = In(b)
      /\ \A e \in DOMAIN entry :
           /\ entry'[e].key = entry[e].key
           /\ entry'[e].value = IF e = Find(k) THEN v ELSE entry[e].value
  BY UpdateInv DEF Update
<1>2. ASSUME NEW x \in Keys
      PROVE  Find(x)' = Find(x)
  <2>1. \A e : (e # Null /\ Find(x)' = e) <=> (e \in In(Hash[x]) /\ entry[e].key = x)
    <3>1. Hash[x] \in Buckets /\ \A e \in In(Hash[x]) : e \in DOMAIN entry
      BY FindIs, Table
    <3> QED
      BY <1>1, <3>1, NextFindIs
  <2>2. \A e : (e # Null /\ Find(x) = e) <=> (e \in In(Hash[x]) /\ entry[e].key = x)
    BY FindIs
  <2> QED
    BY <2>1, <2>2
<1>3. ASSUME NEW x \in Keys, Find(x) # Null
      PROVE  entry'[Find(x)].value = IF x = k THEN v ELSE entry[Find(x)].value
  BY <1>1, <1>3, FindApart
<1>4. Contents' = [x \in {x \in Keys : Find(x) # Null} |->
                     IF x = k THEN v ELSE entry[Find(x)].value]
  BY <1>2, <1>3, ContentsAre
<1>5. Contents' = MapPut(Contents, k, v)
  BY <1>1, <1>4, ContentsAre DEF MapPut
<1>6. View' = [x \in DOMAIN held |-> IF x = k THEN v ELSE entry[held[x]].value]
  BY <1>1, <1>3, HeldIs DEF View
<1>7. View' = IF k \in DOMAIN View THEN MapPut(View, k, v) ELSE View
  BY <1>6 DEF View, MapPut
<1> QED
  BY <1>5, <1>7

LEMMA InsertIsPut ==
  ASSUME HashInv, ~full, NEW k \in Keys, NEW v \in Values, Insert(k, v)
  PROVE  Contents' = MapPut(Contents, k, v)
         /\ View' = IF k \in DOMAIN View THEN MapPut(View, k, v) ELSE View
<1> DEFINE m == Len(entry) + 1
<1>1. /\ HashInv' /\ held' = held /\ Find(k) = Null
      /\ m \notin DOMAIN entry
      /\ \A b \in Buckets : Reached(entry', buckets'[b]) =
                              IF b = Hash[k] THEN In(b) \cup {m} ELSE In(b)
      /\ entry'[m].key = k /\ entry'[m].value = v
      /\ \A e \in DOMAIN entry : entry'[e] = entry[e]
  BY InsertInv DEF Insert
<1>2. m # Null
  BY Table DEF Null
<1> HIDE DEF m
<1>3. Find(k)' = m
  <2>1. m \in Reached(entry', buckets'[Hash[k]]) /\ entry'[m].key = k
    BY <1>1, FindIs
  <2> QED
    BY <1>1, <2>1, NextFindIs
<1>4. ASSUME NEW x \in Keys, x # k
      PROVE  Find(x)' = Find(x)
  <2>0. Hash[x] \in Buckets /\ \A e \in In(Hash[x]) : e \in DOMAIN entry
    BY FindIs, Table
  <2>1. \A e : (e \in Reached(entry', buckets'[Hash[x]]) /\ entry'[e].key = x)
               <=> (e \in In(Hash[x]) /\ entry[e].key = x)
    BY <1>1, <1>4, <2>0
  <2>2. \A e : (e # Null /\ Find(x)' = e) <=> (e \in In(Hash[x]) /\ entry[e].key = x)
    BY <1>1, <2>1, NextFindIs
  <2>3. \A e : (e # Null /\ Find(x) = e) <=> (e \in In(Hash[x]) /\ entry[e].key = x)
    BY FindIs
  <2> QED
    BY <2>2, <2>3
<1>5. ASSUME NEW x \in Keys, Find(x) # Null
      PROVE  x # k /\ entry'[Find(x)] = entry[Find(x)]
  BY <1>1, <1>5, FindApart
<1>6. {x \in Keys : Find(x)' # Null} = {x \in Keys : Find(x) # Null} \cup {k}
  BY <1>2, <1>3, <1>4
<1>7. ASSUME NEW x \in Keys, Find(x)' # Null
      PROVE  entry'[Find(x)'].value = IF x = k THEN v ELSE entry[Find(x)].value
  BY <1>1, <1>3, <1>4, <1>5, <1>7
<1>8. Contents' = [x \in {x \in Keys : Find(x) # Null} \cup {k} |->
                     IF x = k THEN v ELSE entry[Find(x)].value]
  BY <1>6, <1>7, ContentsAre
<1>9. Contents' = MapPut(Contents, k, v)
  BY <1>8, ContentsAre DEF MapPut
<1>10. View' = View
  BY <1>1, <1>5, HeldIs DEF View
<1>11. k \notin DOMAIN View
  BY <1>1, HeldIs DEF View
<1> QED
  BY <1>9, <1>10, <1>11

LEMMA RemoveIsRemove ==
  ASSUME HashInv, ~full, NEW k \in Keys, Delete(k)
  PROVE  Contents' = MapRemove(Contents, k) /\ View' = MapRemove(View, k)
<1>1. /\ HashInv' /\ DOMAIN entry' = DOMAIN entry /\ held' = MapRemove(held, k)
      /\ \A b \in Buckets : Reached(entry', buckets'[b]) = In(b) \ {Find(k)}
      /\ \A e \in DOMAIN entry : entry'[e].key = entry[e].key /\ entry'[e].value = entry[e].value
  BY RemoveInv DEF Delete
<1>2. ASSUME NEW x \in Keys
      PROVE  Find(x)' = IF x = k THEN Null ELSE Find(x)
  <2>0. Hash[x] \in Buckets /\ \A e \in In(Hash[x]) : e \in DOMAIN entry
    BY FindIs, Table
  <2>1. \A e : (e # Null /\ Find(x)' = e)
               <=> (e \in In(Hash[x]) /\ e # Find(k) /\ entry[e].key = x)
    BY <1>1, <2>0, NextFindIs
  <2>2. \A e : (e # Null /\ Find(x) = e) <=> (e \in In(Hash[x]) /\ entry[e].key = x)
    BY FindIs
  <2>3. CASE x = k
    BY <2>1, <2>2, <2>3
  <2>4. CASE x # k
    <3>1. Find(k) # Null => entry[Find(k)].key = k
      BY FindApart
    <3> QED
      BY <2>1, <2>2, <2>4, <3>1
  <2> QED
    BY <2>3, <2>4
<1>3. {x \in Keys : Find(x)' # Null} = {x \in Keys : Find(x) # Null} \ {k}
  BY <1>2
<1>4. ASSUME NEW x \in Keys, Find(x)' # Null
      PROVE  entry'[Find(x)'].value = entry[Find(x)].value
  BY <1>1, <1>2, <1>4, FindApart
<1>5. Contents' = [x \in {x \in Keys : Find(x) # Null} \ {k} |-> entry[Find(x)].value]
  BY <1>3, <1>4, ContentsAre
<1>6. Contents' = MapRemove(Contents, k)
  BY <1>5, ContentsAre DEF MapRemove, Restrict
<1>7. DOMAIN held' = DOMAIN held \ {k} /\ \A x \in DOMAIN held' : held'[x] = held[x]
  BY <1>1 DEF MapRemove, Restrict
<1>8. View' = [x \in DOMAIN held \ {k} |-> entry[held[x]].value]
  BY <1>1, <1>7, HeldIs DEF View
<1>9. View' = MapRemove(View, k)
  BY <1>8 DEF View, MapRemove, Restrict
<1> QED
  BY <1>6, <1>9

LEMMA GetIsGet ==
  ASSUME HashInv, ~full, NEW k \in Keys, Get(k)
  PROVE  /\ found' = (k \in DOMAIN Contents) /\ Contents' = Contents
         /\ View' = IF k \in DOMAIN Contents THEN MapPut(View, k, Contents[k]) ELSE View
<1>1. buckets' = buckets /\ entry' = entry /\ found' = (Find(k) # Null)
      /\ held' = IF Find(k) # Null THEN MapPut(held, k, Find(k)) ELSE held
  BY DEF Get
<1>2. Contents' = Contents
  BY <1>1 DEF Contents, Find, Pointers
<1>3. /\ (k \in DOMAIN Contents) = (Find(k) # Null)
      /\ Find(k) # Null => Contents[k] = entry[Find(k)].value
  BY ContentsAre
<1>4. CASE Find(k) # Null
  <2>1. View' = [x \in DOMAIN held \cup {k} |->
                   IF x = k THEN entry[Find(k)].value ELSE entry[held[x]].value]
    BY <1>1, <1>4 DEF View, MapPut
  <2>2. View' = MapPut(View, k, Contents[k])
    BY <1>3, <1>4, <2>1 DEF View, MapPut
  <2> QED
    BY <1>1, <1>2, <1>3, <1>4, <2>2
<1>5. CASE Find(k) = Null
  BY <1>1, <1>2, <1>3, <1>5 DEF View
<1> QED
  BY <1>4, <1>5

LEMMA OverflowIsFail ==
  ASSUME HashInv, ~full, NEW k \in Keys, Overflow(k)
  PROVE  k \notin DOMAIN Contents /\ Contents' = Contents /\ View' = View
<1>1. UNCHANGED <<buckets, entry, held>> /\ Find(k) = Null
  BY DEF Overflow
<1>2. Contents' = Contents /\ View' = View
  BY <1>1 DEF Contents, Find, Pointers, View
<1> QED
  BY <1>1, <1>2, ContentsAre

\* Dictionary's maps are HashMap's.
LEMMA SameMaps ==
  /\ Dict!EmptyMap = EmptyMap
  /\ \A m, k, v : Dict!MapPut(m, k, v) = MapPut(m, k, v)
  /\ \A m, k : Dict!MapRemove(m, k) = MapRemove(m, k)
BY DEF Dict!EmptyMap, EmptyMap, Dict!MapPut, MapPut, Dict!MapRemove, MapRemove,
       Dict!Restrict, Restrict

\* Each hashmap_put, get and remove does what a dictionary does, and a pointer
\* that hashmap_get returned shows the value of its key until the key is
\* removed: for any keys, hash and length of the chains (hashmap.h).
THEOREM HashIsDictionary == HashSpec => IsDictionary
<1>1. HashInit => Dict!Init
  <2> SUFFICES ASSUME HashInit PROVE Dict!Init
    OBVIOUS
  <2>1. HashInv /\ Cells(entry)
    BY InitInv DEF HashInv
  <2>2. \A b \in Buckets : In(b) = {}
    BY <2>1, ReachedNone DEF HashInit, In
  <2>3. \A k \in Keys : Find(k) = Null
    BY <2>1, <2>2, FindIs
  <2>4. Contents = EmptyMap
    BY <2>3, ContentsAre DEF EmptyMap
  <2>5. View = EmptyMap
    BY DEF HashInit, View, EmptyMap
  <2> QED
    BY <2>4, <2>5, SameMaps DEF Dict!Init, View, HashInit
<1>2. ASSUME HashInv, ~full, NEW k \in Keys
      PROVE  /\ Get(k) => Dict!Get(k)
             /\ Delete(k) => Dict!Remove(k)
             /\ Overflow(k) => Dict!Fail(k)
             /\ \A v \in Values : Put(k, v) => Dict!Put(k, v)
  <2>1. ASSUME Get(k) PROVE Dict!Get(k)
    BY <1>2, <2>1, GetIsGet, SameMaps DEF Dict!Get, View, Get
  <2>2. ASSUME Delete(k) PROVE Dict!Remove(k)
    BY <1>2, <2>2, RemoveIsRemove, SameMaps DEF Dict!Remove, View, Delete
  <2>3. ASSUME Overflow(k) PROVE Dict!Fail(k)
    BY <1>2, <2>3, OverflowIsFail, SameMaps DEF Dict!Fail, View, Overflow
  <2>4. ASSUME NEW v \in Values, Put(k, v) PROVE Dict!Put(k, v)
    <3>1. /\ Contents' = MapPut(Contents, k, v)
          /\ View' = IF k \in DOMAIN View THEN MapPut(View, k, v) ELSE View
      BY <1>2, <2>4, UpdateIsPut, InsertIsPut DEF Put
    <3>2. UNCHANGED <<found, full>>
      BY <2>4 DEF Put, Update, Insert
    <3> QED
      BY <1>2, <3>1, <3>2, SameMaps DEF Dict!Put, View
  <2> QED
    BY <2>1, <2>2, <2>3, <2>4
<1>3. HashInv => [~full /\ hashVars' # hashVars =>
        \A k \in Keys :
          /\ Get(k) => Dict!Get(k)
          /\ Delete(k) => Dict!Remove(k)
          /\ Overflow(k) => Dict!Fail(k)
          /\ \A v \in Values : Put(k, v) => Dict!Put(k, v)]_hashVars
  BY <1>2
<1> QED
  BY <1>1, <1>3, HashInvariant, PTL DEF HashSpec, IsDictionary
=============================================================================
