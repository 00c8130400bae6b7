------------------------------ MODULE TablesProofs ------------------------------
(***************************************************************************)
(* What the tables compute, for caches, line tables and buffers of any     *)
(* size.                                                                   *)
(***************************************************************************)
EXTENDS MCTables, Induction

-----------------------------------------------------------------------------
(* Slices.                                                                 *)

LEMMA Remainder ==
  ASSUME NEW n \in Int, NEW m \in Nat \ {0}
  PROVE  /\ 0 <= n /\ n < m => n % m = n
         /\ -m <= n /\ n < 0 => n % m = n + m
<1> DEFINE q == n \div m
           r == n % m
<1>1. q \in Int /\ r \in 0 .. (m - 1) /\ n = m * q + r
  OBVIOUS
<1> HIDE DEF q, r
<1>2. CASE q >= 1
  <2>1. m * q >= m
    BY <1>1, <1>2
  <2> QED
    BY <1>1, <2>1 DEF r
<1>3. CASE q = 0
  BY <1>1, <1>3 DEF r
<1>4. CASE q = -1
  BY <1>1, <1>4 DEF r
<1>5. CASE q <= -2
  <2>1. m * q <= -(2 * m)
    BY <1>1, <1>5
  <2> QED
    BY <1>1, <2>1 DEF r
<1> QED
  BY <1>1, <1>2, <1>3, <1>4, <1>5

\* A slice is the interval it was asked for, its length narrowed.
SliceInv ==
  /\ asked \in [from : 0 .. Buffer, to : 0 .. Buffer]
  /\ slice = [ptr |-> asked.from, length |-> Narrow(asked.to - asked.from)]

LEMMA NextSlice ==
  ASSUME SliceInv, [Next]_vars
  PROVE  SliceInv'
<1>1. CASE UNCHANGED slices
  BY <1>1 DEF SliceInv, slices
<1>2. CASE TakeSlice
  <2>1. PICK start \in 0 .. Buffer, end \in 0 .. Buffer :
          \/ /\ slice' = SliceNew(start, end)
             /\ asked' = [from |-> start, to |-> start + end]
          \/ /\ slice' = Subslice(slice, start, end)
             /\ asked' = [from |-> asked.from + start, to |-> asked.from + end]
    BY <1>2 DEF TakeSlice
  <2>2. asked'.to <= Buffer /\ asked'.from <= Buffer
    BY <1>2 DEF TakeSlice
  <2>3. asked.from \in 0 .. Buffer /\ slice.ptr = asked.from
    BY DEF SliceInv
  <2>4. CASE slice' = SliceNew(start, end) /\ asked' = [from |-> start, to |-> start + end]
    <3>1. (start + end) - start = end
      BY TablesAssumption
    <3> QED
      BY <2>2, <2>4, <3>1, TablesAssumption DEF SliceInv, SliceNew
  <2>5. CASE /\ slice' = Subslice(slice, start, end)
             /\ asked' = [from |-> asked.from + start, to |-> asked.from + end]
    <3>1. (asked.from + end) - (asked.from + start) = end - start
      BY <2>3, TablesAssumption
    <3> QED
      BY <2>2, <2>3, <2>5, <3>1, TablesAssumption DEF SliceInv, Subslice
  <2> QED
    BY <2>1, <2>4, <2>5
<1> QED
  BY <1>1, <1>2 DEF Next, InsertRange, AddLine, AddRow, WriteRegister, vars

\* For buffers and lengths of any size: an index the assert admits is one of
\* the slice, if it does not end before it starts (slice.h).
THEOREM SlicesRead == Spec => []SliceReads
<1>1. Init => SliceInv
  BY TablesAssumption DEF Init, SliceInv, SliceNew
<1>2. ASSUME SliceInv
      PROVE  SliceReads
  <2> DEFINE from == asked.from
             to == asked.to
             length == Narrow(to - from)
             read == {from + i : i \in {i \in 0 .. LengthMax : i < length}}
  <2>1. from \in 0 .. Buffer /\ to \in 0 .. Buffer /\ Buffer \in 0 .. LengthMax /\ LengthMax \in Nat
    BY <1>2, TablesAssumption, SliceAssumption DEF SliceInv
  <2>2. SliceReads <=> IF from <= to THEN read = from .. (to - 1)
                                     ELSE \E e \in read : e >= Buffer
    BY <1>2 DEF SliceInv, SliceReads, Admits, ElementAt
  <2>3. length = IF from <= to THEN to - from ELSE to - from + (LengthMax + 1)
    BY <2>1, Remainder DEF Narrow
  <2> HIDE DEF from, to, length
  <2>4. CASE from <= to
    <3>1. \A i \in 0 .. LengthMax : i < length => from + i \in from .. (to - 1)
      BY <2>1, <2>3, <2>4
    <3>2. \A e \in from .. (to - 1) : e - from \in 0 .. LengthMax /\ e - from < length
                                      /\ e = from + (e - from)
      BY <2>1, <2>3, <2>4
    <3>3. read \subseteq from .. (to - 1)
      BY <3>1
    <3>4. from .. (to - 1) \subseteq read
      BY <3>2
    <3> QED
      BY <2>2, <2>4, <3>3, <3>4
  <2>5. CASE ~(from <= to)
    <3>1. length - 1 \in 0 .. LengthMax /\ length - 1 < length /\ from + (length - 1) >= Buffer
      BY <2>1, <2>3, <2>5
    <3>2. from + (length - 1) \in read
      BY <3>1
    <3> QED
      BY <2>2, <2>5, <3>1, <3>2
  <2> QED
    BY <2>4, <2>5
<1>3. SliceInv => SliceReads
  BY <1>2
<1> QED
  BY <1>1, <1>3, NextSlice, PTL DEF Spec

-----------------------------------------------------------------------------
(* Registers.                                                              *)

LEMMA Fields ==
  /\ DOMAIN UserRegs = 1 .. 27 /\ DOMAIN RegDescs = 1 .. 27
  /\ Len(UserRegs) = 27 /\ Len(RegDescs) = 27
  /\ \A i \in 1 .. 27 : RegDescs[i].name = UserRegs[i]
BY DEF UserRegs, RegDescs

LEMMA NamesApart ==
  \A i, j \in 1 .. 27 : UserRegs[i] = UserRegs[j] => i = j
BY DEF UserRegs

LEMMA RegistersApart ==
  \A i, j \in 1 .. 27 : RegDescs[i].r = RegDescs[j].r => i = j
BY DEF RegDescs

LEMMA OneSmallest ==
  ASSUME NEW i \in Int
  PROVE  {i} # {} /\ Min({i}) = i
BY DEF Min

\* The descriptions are in the order of the fields: the search for a register
\* or a name ends at its own.
LEMMA Located ==
  ASSUME NEW i \in 1 .. 27
  PROVE  IndexOf(RegDescs[i].r) = i /\ FromName(UserRegs[i]) = RegDescs[i].r
<1>1. {j \in 1 .. Len(RegDescs) : RegDescs[j].r = RegDescs[i].r} = {i}
  BY Fields, RegistersApart, SMTT(30)
<1>2. {j \in 1 .. Len(RegDescs) : RegDescs[j].name = UserRegs[i]} = {i}
  BY Fields, NamesApart
<1>3. IndexOf(RegDescs[i].r) = i
  BY <1>1, OneSmallest DEF IndexOf, SelectInSeq
<1>4. FromName(UserRegs[i]) = RegDescs[i].r
  BY <1>2, OneSmallest DEF FromName, SelectInSeq
<1> QED
  BY <1>3, <1>4

\* A DWARF number that the ABI gives to a field is in the description of that
\* field and in no other.
LEMMA NumbersLocated ==
  ASSUME NEW n \in DOMAIN AbiRegs
  PROVE  \E i \in 1 .. 27 : FromDwarf(n) = RegDescs[i].r /\ UserRegs[i] = AbiRegs[n]
<1>1. \E i \in 1 .. 27 : UserRegs[i] = AbiRegs[n] /\ RegDescs[i].dwarf = n
  BY DEF AbiRegs, RegDescs, UserRegs
<1>2. PICK i \in 1 .. 27 : UserRegs[i] = AbiRegs[n] /\ RegDescs[i].dwarf = n
  BY <1>1
<1>3. n >= 0
  BY DEF AbiRegs
<1>4. \A j \in 1 .. 27 : RegDescs[j].dwarf = n => j = i
  BY <1>2, <1>3 DEF RegDescs
<1>5. {j \in 1 .. Len(RegDescs) : RegDescs[j].dwarf = n} = {i}
  BY <1>2, <1>4, Fields
<1>6. FromDwarf(n) = RegDescs[i].r
  BY <1>5, OneSmallest DEF FromDwarf, SelectInSeq
<1> QED
  BY <1>2, <1>6

\* Each word of the file is what was written to the field of its place.
RegistersInv ==
  /\ DOMAIN written = ToSet(UserRegs)
  /\ file = [i \in 1 .. 27 |-> written[UserRegs[i]]]

LEMMA NextRegisters ==
  ASSUME RegistersInv, [Next]_vars
  PROVE  RegistersInv'
<1>1. CASE UNCHANGED registers
  BY <1>1 DEF RegistersInv, registers
<1>2. CASE WriteRegister
  <2>1. PICK f \in ToSet(UserRegs), v \in 0 .. 1 :
          /\ written' = [written EXCEPT ![f] = v]
          /\ file' = SetRegister(file, FromName(f), v)
    BY <1>2 DEF WriteRegister
  <2>2. PICK i \in 1 .. 27 : f = UserRegs[i]
    BY Fields DEF ToSet
  <2>3. file' = [file EXCEPT ![i] = v]
    BY <2>1, <2>2, Located DEF SetRegister
  <2>4. ASSUME NEW j \in 1 .. 27
        PROVE  written'[UserRegs[j]] = IF j = i THEN v ELSE written[UserRegs[j]]
    <3>1. UserRegs[j] \in DOMAIN written
      BY Fields DEF RegistersInv, ToSet
    <3> QED
      BY <2>1, <2>2, <3>1, NamesApart
  <2>5. DOMAIN written' = ToSet(UserRegs) /\ file' \in [1 .. 27 -> {v} \cup {file[j] : j \in 1 .. 27}]
    BY <2>1, <2>3 DEF RegistersInv
  <2>6. \A j \in 1 .. 27 : file'[j] = written'[UserRegs[j]]
    BY <2>3, <2>4 DEF RegistersInv
  <2> QED
    BY <2>5, <2>6 DEF RegistersInv
<1> QED
  BY <1>1, <1>2 DEF Next, InsertRange, AddLine, AddRow, TakeSlice, vars

\* Whatever was written to which registers, every way to a register ends at
\* the word the kernel keeps it in (registers.c).
THEOREM RegistersAccord == Spec => []RegistersAgree
<1>1. Init => RegistersInv
  BY Fields DEF Init, RegistersInv, Zero, ToSet
<1>2. ASSUME RegistersInv
      PROVE  RegistersAgree
  <2>1. ASSUME NEW i \in 1 .. 27
        PROVE  LET r == FromName(UserRegs[i])
               IN  file[i] = written[UserRegs[i]] /\ GetRegister(file, r) = file[i]
                   /\ NameOf(r) = UserRegs[i]
    BY <1>2, Located, Fields DEF RegistersInv, GetRegister, NameOf
  <2>2. ASSUME NEW n \in DOMAIN AbiRegs
        PROVE  GetRegister(file, FromDwarf(n)) = written[AbiRegs[n]]
    <3>1. PICK i \in 1 .. 27 : FromDwarf(n) = RegDescs[i].r /\ UserRegs[i] = AbiRegs[n]
      BY NumbersLocated
    <3> QED
      BY <1>2, <3>1, Located DEF RegistersInv, GetRegister
  <2> QED
    BY <2>1, <2>2, Fields DEF RegistersAgree
<1>3. RegistersInv => RegistersAgree
  BY <1>2
<1> QED
  BY <1>1, <1>3, NextRegisters, PTL DEF Spec

-----------------------------------------------------------------------------
(* The insertion into an address range cache.                              *)

Span == [start : Int, end : Int, line : Nat]

\* s with its last element moved to p.
Shifted(s, p) ==
  [i \in 1 .. Len(s) |-> IF i < p THEN s[i] ELSE IF i = p THEN s[Len(s)] ELSE s[i - 1]]

\* s is sorted but for its last element, which belongs at p.
Belongs(s, p) ==
  /\ s \in Seq(Span) /\ p \in 1 .. Len(s)
  /\ \A i, j \in 1 .. (Len(s) - 1) : i <= j => s[i].start <= s[j].start
  /\ \A j \in 1 .. (Len(s) - 1) : s[j].start <= s[Len(s)].start <=> j < p

\* One round of the loop in Sink.
LEMMA SinkStep ==
  ASSUME NEW s, NEW p, Belongs(s, p), NEW i \in 1 .. Len(s),
         NEW t, t = Shifted(s, IF p >= i + 1 THEN p ELSE i)
  PROVE  (IF i > 1 /\ t[i].start < t[i - 1].start THEN Swap(t, i) ELSE t)
           = Shifted(s, IF p >= i THEN p ELSE i - 1)
<1> DEFINE n == Len(s)
<1>0. s \in Seq(Span) /\ n \in Nat /\ p \in 1 .. n /\ DOMAIN s = 1 .. n /\ i \in 1 .. n
  BY DEF Belongs
<1> HIDE DEF n
<1>1. n \in Nat /\ n >= 1 /\ p \in 1 .. n /\ \A j \in 1 .. n : s[j].start \in Int
  <2>1. \A j \in 1 .. n : s[j] \in Span
    BY <1>0
  <2> QED
    BY <1>0, <2>1 DEF Span
<1>2. CASE p >= i + 1
  <2>1. t = Shifted(s, p) /\ DOMAIN t = 1 .. n
    BY <1>2 DEF Shifted, n
  <2>2. t[i] = s[i] /\ (i > 1 => t[i - 1] = s[i - 1])
    BY <1>1, <1>2, <2>1 DEF Shifted, n
  <2>3. i > 1 => s[i - 1].start <= s[i].start
    BY <1>1, <1>2 DEF Belongs, n
  <2>4. i > 1 => i - 1 \in 1 .. n
    BY <1>1 DEF n
  <2> QED
    BY <1>1, <1>2, <2>1, <2>2, <2>3, <2>4 DEF n
<1>3. CASE p = i
  <2>1. t = Shifted(s, i)
    BY <1>1, <1>3
  <2>2. t[i] = s[n] /\ (i > 1 => t[i - 1] = s[i - 1])
    BY <1>1, <2>1, SMTT(30) DEF Shifted, n
  <2>3. i > 1 => s[i - 1].start <= s[n].start
    BY <1>1, <1>3 DEF Belongs, n
  <2>4. i > 1 => i - 1 \in 1 .. n
    BY <1>1 DEF n
  <2> QED
    BY <1>1, <1>3, <2>1, <2>2, <2>3, <2>4
<1>4. CASE p < i
  <2>1. t = Shifted(s, i) /\ i > 1 /\ i - 1 \in 1 .. n
    BY <1>1, <1>4 DEF n
  <2>2. t[i] = s[n] /\ t[i - 1] = s[i - 1]
    BY <1>1, <2>1 DEF Shifted, n
  <2>3. ~(s[i - 1].start <= s[n].start)
    BY <1>1, <1>4, <2>1 DEF Belongs, n
  <2>4. Swap(t, i) = [j \in 1 .. n |-> IF j = i THEN s[i - 1] ELSE IF j = i - 1 THEN s[n] ELSE t[j]]
    BY <1>1, <2>1, <2>2 DEF Swap, Shifted, n
  <2>5. ASSUME NEW j \in 1 .. n
        PROVE  (IF j = i THEN s[i - 1] ELSE IF j = i - 1 THEN s[n] ELSE t[j])
                 = IF j < i - 1 THEN s[j] ELSE IF j = i - 1 THEN s[n] ELSE s[j - 1]
    <3>1. t[j] = IF j < i THEN s[j] ELSE IF j = i THEN s[n] ELSE s[j - 1]
      BY <2>1 DEF Shifted, n
    <3> QED
      BY <1>0, <3>1
  <2>6. Swap(t, i) = Shifted(s, i - 1)
    BY <2>4, <2>5 DEF Shifted, n
  <2> QED
    BY <1>1, <1>4, <2>1, <2>2, <2>3, <2>6
<1> QED
  BY <1>1, <1>2, <1>3, <1>4 DEF n

\* The loop moves the last element to its place.
LEMMA SinkIs ==
  ASSUME NEW s, NEW p, Belongs(s, p)
  PROVE  Sink(s) = Shifted(s, p)
<1> DEFINE n == Len(s)
           At(i) == Shifted(s, IF p >= i THEN p ELSE i - 1)
           Down(f) == f = [i \in 1 .. n |->
                             LET t == IF i = n THEN s ELSE f[i + 1]
                             IN  IF i > 1 /\ t[i].start < t[i - 1].start THEN Swap(t, i) ELSE t]
           down == CHOOSE f : Down(f)
           g == [i \in 1 .. n |-> At(i)]
<1>1. n \in Nat /\ n >= 1 /\ p \in 1 .. n /\ DOMAIN s = 1 .. n
      /\ s = [i \in 1 .. n |-> s[i]]
  BY DEF Belongs
<1> HIDE DEF n
<1>2. s = Shifted(s, n)
  <2>2. \A i \in 1 .. n : s[i] = IF i < n THEN s[i] ELSE IF i = n THEN s[n] ELSE s[i - 1]
    BY <1>1
  <2> QED
    BY <1>1, <2>2 DEF Shifted, n
<1>3. ASSUME NEW i \in 1 .. n, NEW t,
             t = IF i = n THEN s ELSE At(i + 1)
      PROVE  (IF i > 1 /\ t[i].start < t[i - 1].start THEN Swap(t, i) ELSE t) = At(i)
  <2>1. t = Shifted(s, IF p >= i + 1 THEN p ELSE i)
    BY <1>1, <1>2, <1>3
  <2> QED
    BY <2>1, SinkStep DEF n
<1> HIDE DEF At
<1>4. Down(g)
  <2>1. ASSUME NEW i \in 1 .. n
        PROVE  g[i] = LET t == IF i = n THEN s ELSE g[i + 1]
                      IN  IF i > 1 /\ t[i].start < t[i - 1].start THEN Swap(t, i) ELSE t
    <3>1. i # n => i + 1 \in 1 .. n /\ g[i + 1] = At(i + 1)
      BY <1>1
    <3> QED
      BY <1>3, <3>1
  <2> QED
    BY <2>1
<1>5. Down(down)
  BY <1>4
<1>6. Sink(s) = down[1]
  BY DEF Sink, n
<1> HIDE DEF down
<1> DEFINE Same == {k \in Nat : k <= n - 1 => down[n - k] = At(n - k)}
<1>7. 0 \in Same
  <2>1. n - 0 = n /\ n \in 1 .. n
    BY <1>1
  <2> QED
    BY <1>1, <1>3, <1>5, <2>1
<1>8. ASSUME NEW k \in Nat, k \in Same
      PROVE  k + 1 \in Same
  <2> SUFFICES ASSUME k + 1 <= n - 1 PROVE down[n - (k + 1)] = At(n - (k + 1))
    OBVIOUS
  <2> DEFINE i == n - (k + 1)
  <2>1. i \in 1 .. n /\ i # n /\ i + 1 = n - k
    BY <1>1
  <2>2. down[n - k] = At(n - k)
    BY <1>1, <1>8
  <2> HIDE DEF i
  <2>3. down[i] = At(i)
    <3> DEFINE t == down[i + 1]
    <3>1. down[i] = IF i > 1 /\ t[i].start < t[i - 1].start THEN Swap(t, i) ELSE t
      BY <1>5, <2>1
    <3>2. t = IF i = n THEN s ELSE At(i + 1)
      BY <2>1, <2>2
    <3> HIDE DEF t
    <3> QED
      BY <1>3, <2>1, <3>1, <3>2
  <2> QED
    BY <2>3 DEF i
<1> HIDE DEF Same
<1>9. n - 1 \in Same
  BY <1>1, <1>7, <1>8, SetInduction
<1>10. down[1] = At(1) /\ At(1) = Shifted(s, p)
  <2>1. n - (n - 1) = 1 /\ n - 1 <= n - 1 /\ p >= 1
    BY <1>1
  <2> QED
    BY <1>9, <2>1 DEF Same, At
<1> QED
  BY <1>6, <1>10

LEMMA HasPlace ==
  ASSUME NEW s \in Seq(Span), s # <<>>,
         \A i, j \in 1 .. (Len(s) - 1) : i <= j => s[i].start <= s[j].start
  PROVE  \E p : Belongs(s, p)
<1> DEFINE n == Len(s)
           After == {j \in 1 .. n : j = n \/ ~(s[j].start <= s[n].start)}
<1>1. n \in Nat /\ n >= 1 /\ \A j \in 1 .. n : s[j].start \in Int
  <2>1. n \in Nat /\ n >= 1 /\ \A j \in 1 .. n : s[j] \in Span
    OBVIOUS
  <2> QED
    BY <2>1 DEF Span
<1> HIDE DEF n
<1>2. n \in After /\ After \in SUBSET Nat
  BY <1>1
<1>3. PICK p \in After : \A j \in After : p <= j
  BY <1>2, NatMin
<1>4. p \in 1 .. n
  OBVIOUS
<1>5. ASSUME NEW j \in 1 .. (n - 1)
      PROVE  s[j].start <= s[n].start <=> j < p
  <2>1. j \in 1 .. n /\ j # n
    BY <1>1
  <2>2. CASE j < p
    <3>1. j \notin After
      BY <1>3, <1>4, <2>1, <2>2
    <3> QED
      BY <2>1, <2>2, <3>1
  <2>3. CASE ~(j < p)
    <3>1. p # n /\ p \in 1 .. (n - 1) /\ p <= j
      BY <1>1, <1>4, <2>1, <2>3
    <3>2. ~(s[p].start <= s[n].start) /\ s[p].start <= s[j].start
      BY <3>1 DEF n
    <3> QED
      BY <1>1, <1>4, <2>1, <2>3, <3>2
  <2> QED
    BY <2>2, <2>3
<1> QED
  BY <1>1, <1>4, <1>5 DEF Belongs, n

\* A cache holds the ranges that were given, which their lines tell apart,
\* sorted and in an array with room for them.
CacheInv ==
  /\ given \in Seq(Span) /\ Len(given) <= MaxItems
  /\ \A i \in DOMAIN given : given[i].line = i
  /\ cache \in [ranges : Seq(Span), capacity : Nat \ {0}]
  /\ Sorted

LEMMA CacheFacts ==
  ASSUME CacheInv
  PROVE  /\ given \in Seq(Span) /\ cache.ranges \in Seq(Span) /\ cache.capacity \in Nat \ {0}
         /\ Len(given) \in Nat /\ Len(given) <= cache.capacity /\ Len(cache.ranges) = Len(given)
         /\ DOMAIN given = 1 .. Len(given) /\ DOMAIN cache.ranges = 1 .. Len(given)
         /\ \A i \in 1 .. Len(given) :
              /\ cache.ranges[i].start \in Int /\ cache.ranges[i].end \in Int
              /\ \E j \in 1 .. Len(given) : cache.ranges[i] = given[j]
              /\ \E j \in 1 .. Len(given) : given[i] = cache.ranges[j]
              /\ cache.ranges[i].line \in 1 .. Len(given)
              /\ given[i].line = i
<1>1. /\ given \in Seq(Span) /\ cache.ranges \in Seq(Span) /\ cache.capacity \in Nat \ {0}
      /\ Len(given) <= cache.capacity /\ Len(cache.ranges) = Len(given)
      /\ ToSet(cache.ranges) = ToSet(given) /\ \A i \in DOMAIN given : given[i].line = i
  BY DEF CacheInv, Sorted
<1>2. /\ DOMAIN given = 1 .. Len(given) /\ DOMAIN cache.ranges = 1 .. Len(given)
      /\ Len(given) \in Nat
  BY <1>1
<1>3. ASSUME NEW i \in 1 .. Len(given)
      PROVE  /\ \E j \in 1 .. Len(given) : cache.ranges[i] = given[j]
             /\ \E j \in 1 .. Len(given) : given[i] = cache.ranges[j]
  <2>1. cache.ranges[i] \in ToSet(cache.ranges) /\ given[i] \in ToSet(given)
    BY <1>2 DEF ToSet
  <2>2. cache.ranges[i] \in ToSet(given) /\ given[i] \in ToSet(cache.ranges)
    BY <1>1, <2>1
  <2> QED
    BY <1>2, <2>2 DEF ToSet
<1>4. ASSUME NEW i \in 1 .. Len(given)
      PROVE  cache.ranges[i].start \in Int /\ cache.ranges[i].end \in Int
             /\ cache.ranges[i].line \in 1 .. Len(given)
  <2>1. cache.ranges[i] \in Span
    BY <1>1, <1>2
  <2>2. PICK j \in 1 .. Len(given) : cache.ranges[i] = given[j]
    BY <1>3
  <2>3. given[j].line = j
    BY <1>1, <1>2
  <2> QED
    BY <2>1, <2>2, <2>3 DEF Span
<1> QED
  BY <1>1, <1>2, <1>3, <1>4

\* What an insertion does to the array: ranges that start later than the new
\* one move up by one, into a larger array if there was no room.
LEMMA InsertShifts ==
  ASSUME CacheInv, InsertRange
  PROVE  \E p, range :
           LET n == Len(given) + 1
               s == Append(cache.ranges, range)
           IN  /\ range \in Span /\ range.line = n /\ p \in 1 .. n
               /\ given' = Append(given, range) /\ n <= MaxItems
               /\ Belongs(s, p) /\ cache'.ranges = Shifted(s, p)
               /\ cache' = [ranges |-> cache'.ranges, capacity |-> Grown(cache)]
<1>1. PICK a \in Addrs, b \in Addrs :
        LET range == [start |-> a, end |-> b, line |-> Len(given) + 1] IN
        /\ cache' = ArcInsert(cache, range)
        /\ given' = Append(given, range)
  BY DEF InsertRange
<1> DEFINE range == [start |-> a, end |-> b, line |-> Len(given) + 1]
           s == Append(cache.ranges, range)
           n == Len(given) + 1
<1>2. range \in Span /\ range.line = n
  BY CacheFacts, TablesAssumption DEF Span
<1>3. cache' = ArcInsert(cache, range) /\ given' = Append(given, range)
  BY <1>1
<1> HIDE DEF range
<1>4. s \in Seq(Span) /\ s # <<>> /\ Len(s) = n /\ n - 1 = Len(given)
      /\ \A i \in 1 .. (n - 1) : s[i] = cache.ranges[i]
  <2>1. cache.ranges \in Seq(Span) /\ Len(cache.ranges) = Len(given) /\ Len(given) \in Nat
    BY CacheFacts
  <2>2. s \in Seq(Span) /\ Len(s) = Len(cache.ranges) + 1
        /\ \A i \in 1 .. Len(cache.ranges) : s[i] = cache.ranges[i]
    BY <1>2, <2>1
  <2>3. s # <<>>
    BY <2>1, <2>2
  <2> QED
    BY <2>1, <2>2, <2>3
<1>5. \A i, j \in 1 .. (n - 1) : i <= j => s[i].start <= s[j].start
  <2> SUFFICES ASSUME NEW i \in 1 .. (n - 1), NEW j \in 1 .. (n - 1), i <= j
               PROVE  cache.ranges[i].start <= cache.ranges[j].start
    BY <1>4
  <2>1. i \in DOMAIN cache.ranges /\ j \in DOMAIN cache.ranges
        /\ cache.ranges[i].start \in Int /\ cache.ranges[j].start \in Int
    BY <1>4, CacheFacts
  <2>2. CASE i = j
    BY <2>1, <2>2
  <2>3. CASE i < j
    BY <2>1, <2>3, SMTT(30) DEF CacheInv, Sorted
  <2> QED
    BY <2>2, <2>3
<1>6. PICK p : Belongs(s, p)
  BY <1>4, <1>5, HasPlace
<1>7. cache' = [ranges |-> Shifted(s, p), capacity |-> Grown(cache)]
  BY <1>3, <1>6, SinkIs DEF ArcInsert
<1>8. p \in 1 .. n /\ n <= MaxItems
  BY <1>4, <1>6, CacheFacts, TablesAssumption DEF Belongs, InsertRange
<1>9. cache'.ranges = Shifted(s, p)
  BY <1>7
<1> QED
  BY <1>2, <1>3, <1>6, <1>7, <1>8, <1>9

LEMMA InsertKeeps ==
  ASSUME CacheInv, InsertRange
  PROVE  /\ CacheInv' /\ Last(given') = given'[Len(given) + 1] /\ given' # given
         /\ \A i \in DOMAIN cache.ranges :
              LET old == cache.ranges[i] IN
              /\ Shows(i) = old <=>
                   Last(given').start >= old.start \/ cache'.capacity # cache.capacity
              /\ Shows(i).start <= old.start
<1> DEFINE m == Len(given)
           old == cache.ranges
           new == cache'.ranges
<1>1. /\ m \in Nat /\ DOMAIN old = 1 .. m /\ DOMAIN given = 1 .. m /\ Len(old) = m
      /\ given \in Seq(Span) /\ old \in Seq(Span) /\ m <= cache.capacity
      /\ cache.capacity \in Nat \ {0}
  BY CacheFacts
<1>a. \A i \in 1 .. m : /\ \E j \in 1 .. m : old[i] = given[j]
                        /\ \E j \in 1 .. m : given[i] = old[j]
                        /\ given[i].line = i
  BY CacheFacts
<1>b. \A i \in 1 .. m : old[i].start \in Int /\ old[i].line \in 1 .. m
  BY CacheFacts
<1>c. \A i, j \in 1 .. m :
        i < j => \/ old[i].start < old[j].start
                 \/ old[i].start = old[j].start /\ old[i].line < old[j].line
  BY <1>1 DEF CacheInv, Sorted
<1>2. PICK p, range :
        LET s == Append(old, range)
        IN  /\ range \in Span /\ range.line = m + 1 /\ p \in 1 .. m + 1
            /\ given' = Append(given, range) /\ m + 1 <= MaxItems
            /\ Belongs(s, p) /\ new = Shifted(s, p)
            /\ cache' = [ranges |-> new, capacity |-> Grown(cache)]
  BY InsertShifts
<1> DEFINE n == m + 1
<1> HIDE DEF m
<1>n. n \in Nat /\ n > m /\ n - 1 = m
  BY <1>1
<1>3. /\ range \in Span /\ range.start \in Int /\ range.line = n /\ p \in 1 .. n /\ n <= MaxItems
      /\ given' \in Seq(Span) /\ Len(given') = n /\ DOMAIN given' = 1 .. n
      /\ given'[n] = range /\ \A i \in 1 .. m : given'[i] = given[i]
  BY <1>1, <1>2 DEF Span, m
<1> HIDE DEF n
<1>4. /\ new \in Seq(Span) /\ Len(new) = n /\ DOMAIN new = 1 .. n
      /\ \A i \in 1 .. n : /\ i < p => i \in 1 .. m /\ new[i] = old[i]
                           /\ i > p => i - 1 \in 1 .. m /\ new[i] = old[i - 1]
      /\ new[p] = range
      /\ \A i \in 1 .. m : old[i].start <= range.start <=> i < p
  <2> DEFINE s == Append(old, range)
  <2>1. /\ s \in Seq(Span) /\ Len(s) = n /\ s[n] = range /\ DOMAIN s = 1 .. n
        /\ \A i \in 1 .. m : s[i] = old[i]
    BY <1>1, <1>3 DEF m, n
  <2>2. new = Shifted(s, p) /\ Belongs(s, p)
    BY <1>2
  <2> HIDE DEF s
  <2>3. new = [i \in 1 .. n |-> IF i < p THEN s[i] ELSE IF i = p THEN s[n] ELSE s[i - 1]]
    BY <2>1, <2>2 DEF Shifted
  <2>4. ASSUME NEW i \in 1 .. n
        PROVE  /\ i < p => i \in 1 .. m /\ new[i] = old[i]
               /\ i > p => i - 1 \in 1 .. m /\ new[i] = old[i - 1]
               /\ i = p => new[i] = range
               /\ new[i] \in Span
    <3>1. i < p => i \in 1 .. m /\ new[i] = s[i]
      BY <1>1, <1>n, <1>3, <2>3
    <3>2. i > p => i - 1 \in 1 .. m /\ new[i] = s[i - 1]
      BY <1>1, <1>n, <1>3, <2>3
    <3>3. i = p => new[i] = range
      BY <1>n, <1>3, <2>1, <2>3
    <3>4. \A j \in 1 .. m : old[j] \in Span
      BY <1>1
    <3> QED
      BY <1>n, <1>1, <1>3, <2>1, <3>1, <3>2, <3>3, <3>4
  <2>5. new \in Seq(Span) /\ Len(new) = n /\ DOMAIN new = 1 .. n
    <3>1. new \in [1 .. n -> Span]
      BY <2>3, <2>4
    <3> QED
      BY <1>n, <3>1
  <2>6. n - 1 = m /\ p \in 1 .. n /\ m \in Nat
    BY <1>1, <1>n, <1>3
  <2>7. \A i \in 1 .. m : old[i].start <= range.start <=> i < p
    BY <2>1, <2>2, <2>6 DEF Belongs
  <2> QED
    BY <1>3, <2>4, <2>5, <2>7
<1>5. cache'.capacity = Grown(cache)
  BY <1>2
<1> HIDE DEF new, old
<1>6. /\ Grown(cache) \in Nat \ {0} /\ n <= Grown(cache)
      /\ Grown(cache) = cache.capacity <=> m # cache.capacity
  BY <1>1, <1>n DEF Grown, old
<1>7. CacheInv'
  <2>1. cache' \in [ranges : Seq(Span), capacity : Nat \ {0}]
    BY <1>2, <1>4, <1>6 DEF new, old
  <2>2. ToSet(new) = ToSet(given')
    <3>1. ASSUME NEW i \in 1 .. n PROVE \E j \in 1 .. n : new[i] = given'[j]
      <4>1. CASE i = p
        BY <1>n, <1>3, <1>4, <4>1
      <4>2. CASE i # p
        <5>1. PICK k \in 1 .. m : new[i] = old[k]
          BY <1>n, <1>3, <1>4, <4>2
        <5>2. PICK j \in 1 .. m : old[k] = given[j]
          BY <1>a
        <5>3. given'[j] = given[j] /\ j \in 1 .. n
          BY <1>n, <1>1, <1>3
        <5> QED
          BY <5>1, <5>2, <5>3
      <4> QED
        BY <4>1, <4>2
    <3>2. ASSUME NEW i \in 1 .. n PROVE \E j \in 1 .. n : given'[i] = new[j]
      <4>1. CASE i = n
        BY <1>3, <1>4, <4>1
      <4>2. CASE i # n
        <5>1. i \in 1 .. m
          BY <1>n, <1>1, <4>2
        <5>2. PICK k \in 1 .. m : given[i] = old[k]
          BY <1>a, <5>1
        <5>3. CASE k < p
          <6>1. k \in 1 .. n /\ new[k] = old[k]
            BY <1>n, <1>1, <1>4, <5>3
          <6> QED
            BY <1>3, <5>1, <5>2, <6>1
        <5>4. CASE ~(k < p)
          <6>1. k + 1 \in 1 .. n /\ k + 1 > p /\ (k + 1) - 1 = k
            BY <1>n, <1>1, <1>3, <5>4
          <6> QED
            BY <1>3, <1>4, <5>1, <5>2, <6>1
        <5> QED
          BY <5>3, <5>4
      <4> QED
        BY <4>1, <4>2
    <3>3. ToSet(new) = {new[i] : i \in 1 .. n} /\ ToSet(given') = {given'[i] : i \in 1 .. n}
      BY <1>3, <1>4 DEF ToSet
    <3> QED
      BY <3>1, <3>2, <3>3
  <2>3. ASSUME NEW i \in 1 .. n, NEW j \in 1 .. n, i < j
        PROVE  \/ new[i].start < new[j].start
               \/ new[i].start = new[j].start /\ new[i].line < new[j].line
    <3>1. CASE i < p /\ j < p
      BY <1>c, <1>4, <2>3, <3>1
    <3>2. CASE i < p /\ j = p
      <4>1. i \in 1 .. m /\ new[i] = old[i] /\ new[j] = range
        BY <1>4, <3>2
      <4>2. old[i].start <= range.start /\ old[i].line < range.line
        BY <1>b, <1>1, <1>n, <1>3, <1>4, <3>2, <4>1
      <4>3. old[i].start \in Int
        BY <1>b, <4>1
      <4> QED
        BY <1>3, <4>1, <4>2, <4>3
    <3>3. CASE i < p /\ j > p
      <4>1. i \in 1 .. m /\ j - 1 \in 1 .. m /\ new[i] = old[i] /\ new[j] = old[j - 1]
        BY <1>4, <3>3
      <4>2. old[i].start <= range.start /\ ~(old[j - 1].start <= range.start)
        BY <1>n, <1>1, <1>3, <1>4, <3>3, <4>1
      <4> QED
        BY <1>b, <1>3, <4>1, <4>2
    <3>4. CASE i = p /\ j > p
      <4>1. j - 1 \in 1 .. m /\ new[j] = old[j - 1] /\ new[i] = range
        BY <1>4, <3>4
      <4>2. ~(old[j - 1].start <= range.start) /\ old[j - 1].start \in Int
        BY <1>b, <1>1, <1>n, <1>3, <1>4, <3>4, <4>1
      <4> QED
        BY <1>3, <4>1, <4>2
    <3>5. CASE i > p /\ j > p
      <4>1. i - 1 \in 1 .. m /\ j - 1 \in 1 .. m /\ i - 1 < j - 1
            /\ new[j] = old[j - 1] /\ new[i] = old[i - 1]
        BY <1>n, <1>1, <1>3, <1>4, <2>3, <3>5
      <4> QED
        BY <1>c, <4>1
    <3> QED
      BY <1>n, <1>3, <2>3, <3>1, <3>2, <3>3, <3>4, <3>5
  <2>4. Sorted'
    <3>1. Len(new) <= cache'.capacity /\ Len(new) = Len(given') /\ ToSet(new) = ToSet(given')
      BY <1>3, <1>4, <1>5, <1>6, <2>2
    <3>2. \A i, j \in DOMAIN new :
            i < j => \/ new[i].start < new[j].start
                     \/ new[i].start = new[j].start /\ new[i].line < new[j].line
      BY <1>4, <2>3
    <3> QED
      BY <3>1, <3>2 DEF Sorted, new
  <2>5. \A i \in DOMAIN given' : given'[i].line = i
    <3>1. \A i \in 1 .. m : given'[i].line = i
      BY <1>a, <1>3
    <3> QED
      BY <1>1, <1>n, <1>3, <3>1
  <2> QED
    BY <1>3, <2>1, <2>4, <2>5 DEF CacheInv
<1>8. ASSUME NEW i \in 1 .. m
      PROVE  /\ Shows(i) = old[i] <=>
                  range.start >= old[i].start \/ cache'.capacity # cache.capacity
             /\ Shows(i).start <= old[i].start
  <2>0. old[i].start \in Int /\ old[i].line \in 1 .. m
    BY <1>b
  <2>1. CASE cache'.capacity # cache.capacity
    BY <2>0, <2>1 DEF Shows, old
  <2>2. CASE cache'.capacity = cache.capacity
    <3>1. Shows(i) = new[i]
      BY <2>2 DEF Shows, new
    <3>2. CASE i < p
      <4>1. i \in 1 .. n /\ new[i] = old[i] /\ old[i].start <= range.start
        BY <1>1, <1>n, <1>3, <1>4, <3>2
      <4> QED
        BY <1>3, <2>0, <2>2, <3>1, <4>1
    <3>3. CASE i = p
      <4>1. new[i] = range /\ ~(old[i].start <= range.start)
        BY <1>1, <1>3, <1>4, <3>3
      <4>2. range # old[i]
        BY <1>1, <1>n, <1>3, <2>0
      <4> QED
        BY <1>3, <2>0, <2>2, <3>1, <4>1, <4>2
    <3>4. CASE i > p
      <4>1. i \in 1 .. n /\ i - 1 \in 1 .. m /\ new[i] = old[i - 1] /\ ~(old[i].start <= range.start)
        BY <1>1, <1>n, <1>3, <1>4, <3>4
      <4>2. old[i - 1].start \in Int /\ \/ old[i - 1].start < old[i].start
                                        \/ /\ old[i - 1].start = old[i].start
                                           /\ old[i - 1].line < old[i].line
        BY <1>b, <1>c, <4>1
      <4>3. old[i - 1] # old[i] /\ old[i - 1].start <= old[i].start
        BY <1>b, <2>0, <4>1, <4>2
      <4> QED
        BY <1>3, <2>0, <2>2, <3>1, <4>1, <4>3
    <3> QED
      BY <1>3, <3>2, <3>3, <3>4
  <2> QED
    BY <2>1, <2>2
<1>9. Last(given') = range /\ given' # given
  BY <1>1, <1>n, <1>3 DEF Last, m
<1> QED
  BY <1>1, <1>3, <1>7, <1>8, <1>9 DEF old, m, n

LEMMA InitCache == Init => CacheInv
<1> SUFFICES ASSUME Init PROVE CacheInv
  OBVIOUS
<1>1. PICK cap \in Caps : cache = [ranges |-> <<>>, capacity |-> cap]
  BY DEF Init, ArcCreate
<1>2. given = <<>> /\ <<>> \in Seq(Span) /\ Len(<<>>) = 0 /\ DOMAIN <<>> = {}
  BY DEF Init
<1>3. cap \in Nat \ {0}
  BY TablesAssumption
<1>4. Sorted
  BY <1>1, <1>2, <1>3 DEF Sorted, ToSet
<1> QED
  BY <1>1, <1>2, <1>3, <1>4, TablesAssumption DEF CacheInv

LEMMA NextCache ==
  ASSUME CacheInv, [Next]_vars
  PROVE  /\ CacheInv'
         /\ given' # given =>
              /\ Sorted' /\ Last(given') = given'[Len(given) + 1]
              /\ \A i \in DOMAIN cache.ranges :
                   LET old == cache.ranges[i] IN
                   /\ Shows(i) = old <=>
                        Last(given').start >= old.start \/ cache'.capacity # cache.capacity
                   /\ Shows(i).start <= old.start
<1>1. CASE UNCHANGED <<cache, given>>
  BY <1>1 DEF CacheInv, Sorted
<1>2. CASE InsertRange
  BY <1>2, InsertKeeps DEF CacheInv
<1> QED
  BY <1>1, <1>2 DEF Next, AddLine, AddRow, WriteRegister, TakeSlice, vars

\* However many ranges a cache has, an insertion keeps it sorted, and shows a
\* range that starts no later under the pointers of its callers
\* (addr_range_cache.c:20-42).
THEOREM CacheInsertsUnder == Spec => InsertsUnder
<1>1. CacheInv /\ [Next]_vars =>
        [given' # given =>
           /\ Sorted'
           /\ \A i \in DOMAIN cache.ranges :
                LET old == cache.ranges[i] IN
                /\ Shows(i) = old <=>
                     Last(given').start >= old.start \/ cache'.capacity # cache.capacity
                /\ Shows(i).start <= old.start]_vars
  BY NextCache
<1>2. CacheInv /\ [Next]_vars => CacheInv'
  BY NextCache
<1> QED
  BY <1>1, <1>2, InitCache, PTL DEF Spec, InsertsUnder

-----------------------------------------------------------------------------
(* The lookup in an address range cache.                                   *)

\* The search of ArcLookup, from any ends.
Searches(search, s, addr) ==
  search = [ends \in (0 .. SizeMax) \X (0 .. SizeMax) |->
        LET left == ends[1]
            right == ends[2]
            mid == ((left + right) % (SizeMax + 1)) \div 2
        IN IF left > right THEN None
           ELSE IF mid >= Len(s) THEN Outside
           ELSE IF Holds(s[mid + 1], addr) THEN mid + 1
           ELSE IF addr >= s[mid + 1].start THEN search[<<mid + 1, right>>]
           ELSE IF mid = 0 THEN None ELSE search[<<left, mid - 1>>]]

LEMMA HalfRange ==
  ASSUME NEW n \in Nat
  PROVE  n \div 2 \in Nat /\ 2 * (n \div 2) <= n /\ n <= 2 * (n \div 2) + 1
OBVIOUS

\* Mid is an index as wide as the ends.
LEMMA Middle ==
  ASSUME NEW left \in 0 .. SizeMax, NEW right \in 0 .. SizeMax
  PROVE  LET mid == ((left + right) % (SizeMax + 1)) \div 2
         IN  /\ mid \in Nat /\ 2 * mid <= SizeMax
             /\ left + right <= SizeMax => (2 * mid <= left + right /\ left + right <= 2 * mid + 1)
<1>1. SizeMax \in Nat \ {0}
  BY LineCacheAssumption
<1> DEFINE r == (left + right) % (SizeMax + 1)
<1>2. /\ r \in 0 .. SizeMax
      /\ left + right <= SizeMax => r = left + right
  <2> DEFINE k == left + right
             M == SizeMax + 1
  <2>1. k \in Nat /\ M \in Nat \ {0} /\ (k <= SizeMax => 0 <= k /\ k < M) /\ M - 1 = SizeMax
    BY <1>1
  <2> HIDE DEF k, M
  <2>2. (0 <= k /\ k < M) => k % M = k
    BY <2>1, Remainder
  <2>3. k % M \in 0 .. (M - 1)
    BY <2>1
  <2>4. r = k % M
    BY DEF k, M
  <2>5. r \in 0 .. SizeMax /\ (k <= SizeMax => r = k)
    BY <2>1, <2>2, <2>3, <2>4
  <2> QED
    BY <2>5 DEF k
<1> HIDE DEF r
<1>3. r \in Nat /\ r <= SizeMax /\ r \div 2 \in Nat /\ 2 * (r \div 2) <= r /\ r <= 2 * (r \div 2) + 1
  BY <1>1, <1>2, HalfRange
<1> DEFINE mid == r \div 2
<1> HIDE DEF mid
<1>4. mid \in Nat /\ 2 * mid <= r /\ r <= 2 * mid + 1 /\ r <= SizeMax /\ r \in Nat
  BY <1>3 DEF mid
<1>5. mid = ((left + right) % (SizeMax + 1)) \div 2
  BY DEF mid, r
<1>6. mid \in Nat /\ 2 * mid <= SizeMax
  BY <1>1, <1>4
<1>7. left + right <= SizeMax => (2 * mid <= left + right /\ left + right <= 2 * mid + 1)
  BY <1>1, <1>2, <1>4
<1> QED
  BY <1>5, <1>6, <1>7

LEMMA SearchExists ==
  ASSUME NEW s \in Seq(Span), 2 * Len(s) <= SizeMax, NEW addr
  PROVE  \E search : Searches(search, s, addr)
<1> DEFINE S == (0 .. SizeMax) \X (0 .. SizeMax)
           Mid(e) == ((e[1] + e[2]) % (SizeMax + 1)) \div 2
           Right(e) == addr >= s[Mid(e) + 1].start
           Ends(e) == \/ e[1] > e[2] \/ Mid(e) >= Len(s) \/ Holds(s[Mid(e) + 1], addr)
                      \/ ~Right(e) /\ Mid(e) = 0
           done == {e \in S : Ends(e)}
           next == [e \in S |-> IF Right(e) THEN <<Mid(e) + 1, e[2]>> ELSE <<e[1], Mid(e) - 1>>]
           result == [e \in S |-> IF e[1] > e[2] THEN None
                                  ELSE IF Mid(e) >= Len(s) THEN Outside
                                  ELSE IF Holds(s[Mid(e) + 1], addr) THEN Mid(e) + 1 ELSE None]
<1>1. \A e \in S : e[1] \in 0 .. SizeMax /\ e[2] \in 0 .. SizeMax
                   /\ Mid(e) \in Nat /\ 2 * Mid(e) <= SizeMax
  BY Middle
<1>2. Len(s) \in Nat /\ SizeMax \in Nat
  BY LineCacheAssumption
<1> HIDE DEF Mid
<1>3. \A e \in S \ done : next[e] \in S
  <2> SUFFICES ASSUME NEW e \in S, ~Ends(e) PROVE next[e] \in S
    OBVIOUS
  <2>1. Mid(e) \in Nat /\ Mid(e) < Len(s) /\ (~Right(e) => Mid(e) # 0)
        /\ e[1] \in 0 .. SizeMax /\ e[2] \in 0 .. SizeMax
    BY <1>1, <1>2
  <2>2. Mid(e) + 1 \in 0 .. SizeMax /\ (~Right(e) => Mid(e) - 1 \in 0 .. SizeMax)
    BY <1>2, <2>1
  <2> HIDE DEF Right, Ends
  <2> QED
    BY <2>1, <2>2
<1>4. done \in SUBSET S
  OBVIOUS
<1> HIDE DEF done, next, result, S
<1>5. PICK search : Loops(search, S, done, next, result)
  BY <1>3, <1>4, Looping
<1>6. ASSUME NEW e \in S
      PROVE  (IF e \in done THEN result[e] ELSE search[next[e]])
               = (IF e[1] > e[2] THEN None
                  ELSE IF Mid(e) >= Len(s) THEN Outside
                  ELSE IF Holds(s[Mid(e) + 1], addr) THEN Mid(e) + 1
                  ELSE IF addr >= s[Mid(e) + 1].start THEN search[<<Mid(e) + 1, e[2]>>]
                  ELSE IF Mid(e) = 0 THEN None ELSE search[<<e[1], Mid(e) - 1>>])
  <2> HIDE DEF Holds
  <2>1. result[e] = IF e[1] > e[2] THEN None
                    ELSE IF Mid(e) >= Len(s) THEN Outside
                    ELSE IF Holds(s[Mid(e) + 1], addr) THEN Mid(e) + 1 ELSE None
    BY DEF result
  <2>2. next[e] = IF Right(e) THEN <<Mid(e) + 1, e[2]>> ELSE <<e[1], Mid(e) - 1>>
    BY DEF next
  <2>3. e \in done <=> Ends(e)
    BY DEF done
  <2> QED
    BY <2>1, <2>2, <2>3
<1>7. search = [e \in S |->
        IF e[1] > e[2] THEN None
        ELSE IF Mid(e) >= Len(s) THEN Outside
        ELSE IF Holds(s[Mid(e) + 1], addr) THEN Mid(e) + 1
        ELSE IF addr >= s[Mid(e) + 1].start THEN search[<<Mid(e) + 1, e[2]>>]
        ELSE IF Mid(e) = 0 THEN None ELSE search[<<e[1], Mid(e) - 1>>]]
  BY <1>5, <1>6 DEF Loops
<1> QED
  BY <1>7 DEF Searches, Mid, S

\* What a search from left to right of the array comes to: a range that holds
\* the address, or none where none of those between holds it.
Found(i, s, addr, left, right) ==
  /\ i \in 0 .. Len(s)
  /\ i > 0 => Holds(s[i], addr)
  /\ (i = 0 /\ \A j, k \in 1 .. Len(s) : s[j].start <= s[k].start => s[j].end <= s[k].end)
       => \A j \in (left + 1) .. (right + 1) : ~Holds(s[j], addr)

LEMMA SearchStep ==
  ASSUME NEW s \in Seq(Span), Len(s) # 0, 2 * Len(s) <= SizeMax, NEW addr \in Int,
         \A i, j \in 1 .. Len(s) : i <= j => s[i].start <= s[j].start,
         NEW search, Searches(search, s, addr),
         NEW left \in 0 .. Len(s), NEW right \in 0 .. (Len(s) - 1),
         left <= right =>
           \A l \in 0 .. Len(s), r \in 0 .. (Len(s) - 1) :
             r - l < right - left => Found(search[<<l, r>>], s, addr, l, r)
  PROVE  Found(search[<<left, right>>], s, addr, left, right)
<1> DEFINE n == Len(s)
<1>1. n \in Nat \ {0} /\ SizeMax \in Nat /\ 2 * n <= SizeMax
  BY LineCacheAssumption
<1>2. \A i \in 1 .. n : s[i].start \in Int /\ s[i].end \in Int
  <2>1. \A i \in 1 .. n : s[i] \in Span
    OBVIOUS
  <2> QED
    BY <2>1 DEF Span
<1> DEFINE mid == ((left + right) % (SizeMax + 1)) \div 2
<1>3. left \in 0 .. SizeMax /\ right \in 0 .. SizeMax /\ left + right <= SizeMax
  BY <1>1
<1>4. mid \in Nat /\ 2 * mid <= left + right /\ left + right <= 2 * mid + 1
  BY <1>3, Middle
<1>5. search[<<left, right>>] =
        IF left > right THEN None
        ELSE IF mid >= n THEN Outside
        ELSE IF Holds(s[mid + 1], addr) THEN mid + 1
        ELSE IF addr >= s[mid + 1].start THEN search[<<mid + 1, right>>]
        ELSE IF mid = 0 THEN None ELSE search[<<left, mid - 1>>]
  <2>1. <<left, right>> \in (0 .. SizeMax) \X (0 .. SizeMax)
    BY <1>3
  <2> QED
    BY <2>1 DEF Searches
<1> DEFINE v == search[<<left, right>>]
           after == search[<<mid + 1, right>>]
           before == search[<<left, mid - 1>>]
           holds == Holds(s[mid + 1], addr)
           from == s[mid + 1].start
<1>v. v = IF left > right THEN 0
          ELSE IF mid >= n THEN Outside
          ELSE IF holds THEN mid + 1
          ELSE IF addr >= from THEN after
          ELSE IF mid = 0 THEN 0 ELSE before
  BY <1>5 DEF None
<1> HIDE DEF mid, n, v, after, before, holds, from
<1>6. CASE left > right
  <2>1. search[<<left, right>>] = 0
    BY <1>5, <1>6 DEF None
  <2>2. (left + 1) .. (right + 1) = {}
    BY <1>3, <1>6
  <2>3. 0 \in 0 .. Len(s)
    BY <1>1 DEF n
  <2> QED
    BY <2>1, <2>2, <2>3 DEF Found
<1>7. CASE left <= right
  <2>1. /\ left <= mid /\ mid <= right /\ mid < n /\ mid + 1 \in 1 .. n /\ right + 1 <= n
        /\ left \in Nat /\ right \in Nat /\ mid \in Nat
    BY <1>1, <1>3, <1>4, <1>7 DEF n
  <2>2. CASE Holds(s[mid + 1], addr)
    <3>0. v = mid + 1
      <4>1. ~(left > right) /\ ~(mid >= n) /\ holds
        BY <1>1, <1>3, <1>7, <2>1, <2>2 DEF holds
      <4> QED
        BY <1>v, <4>1
    <3>1. search[<<left, right>>] = mid + 1
      BY <3>0 DEF v
    <3>2. mid + 1 \in 0 .. Len(s) /\ mid + 1 > 0 /\ mid + 1 # 0
      BY <1>1, <2>1 DEF n
    <3> QED
      BY <2>2, <3>1, <3>2 DEF Found
  <2>3. CASE ~Holds(s[mid + 1], addr) /\ addr >= s[mid + 1].start
    <3>0. v = after
      <4>1. ~(left > right) /\ ~(mid >= n) /\ ~holds /\ addr >= from
        BY <1>1, <1>3, <1>7, <2>1, <2>3 DEF holds, from
      <4> QED
        BY <1>v, <4>1
    <3>1. search[<<left, right>>] = search[<<mid + 1, right>>]
      BY <3>0 DEF v, after
    <3>2. mid + 1 \in 0 .. n /\ right - (mid + 1) < right - left
      BY <1>1, <2>1
    <3>3. Found(search[<<mid + 1, right>>], s, addr, mid + 1, right)
      BY <1>7, <3>2 DEF n
    <3>4. ASSUME \A j, k \in 1 .. n : s[j].start <= s[k].start => s[j].end <= s[k].end,
                 NEW j \in (left + 1) .. (right + 1), j <= mid + 1
          PROVE  ~Holds(s[j], addr)
      <4>1. j \in 1 .. n
        BY <1>1, <2>1, <3>4
      <4>2. s[j].end <= s[mid + 1].end
        BY <2>1, <3>4, <4>1 DEF n
      <4>3. s[mid + 1].end < addr
        BY <1>2, <2>1, <2>3 DEF Holds
      <4> QED
        BY <1>2, <2>1, <4>1, <4>2, <4>3 DEF Holds
    <3>5. ASSUME NEW j \in (left + 1) .. (right + 1), ~(j <= mid + 1)
          PROVE  j \in ((mid + 1) + 1) .. (right + 1)
      BY <2>1, <3>5
    <3> QED
      BY <3>1, <3>3, <3>4, <3>5 DEF Found, n
  <2>4. CASE ~Holds(s[mid + 1], addr) /\ ~(addr >= s[mid + 1].start)
    <3>1. ASSUME NEW j \in (left + 1) .. (right + 1), mid + 1 <= j
          PROVE  ~Holds(s[j], addr)
      <4>1. j \in 1 .. n
        BY <1>1, <2>1, <3>1
      <4>2. s[mid + 1].start <= s[j].start
        BY <2>1, <3>1, <4>1 DEF n
      <4> QED
        BY <1>2, <2>1, <2>4, <4>1, <4>2 DEF Holds
    <3>a. ~(left > right) /\ ~(mid >= n) /\ ~holds /\ ~(addr >= from)
      BY <1>1, <1>3, <1>7, <2>1, <2>4 DEF holds, from
    <3>2. CASE mid = 0
      <4>1. search[<<left, right>>] = 0
        BY <1>v, <3>2, <3>a DEF v
      <4>2. \A j \in (left + 1) .. (right + 1) : mid + 1 <= j
        BY <2>1, <3>2
      <4> QED
        BY <1>1, <3>1, <4>1, <4>2 DEF Found, n
    <3>3. CASE mid # 0
      <4>1. search[<<left, right>>] = search[<<left, mid - 1>>]
        BY <1>v, <3>3, <3>a DEF v, before
      <4>2. mid - 1 \in 0 .. (n - 1) /\ (mid - 1) - left < right - left
        BY <1>1, <1>4, <2>1, <3>3
      <4>3. Found(search[<<left, mid - 1>>], s, addr, left, mid - 1)
        <5>1. \A l \in 0 .. n, r \in 0 .. (n - 1) :
                r - l < right - left => Found(search[<<l, r>>], s, addr, l, r)
          BY <1>7 DEF n
        <5>2. left \in 0 .. n
          BY DEF n
        <5> QED
          BY <4>2, <5>1, <5>2
      <4>4. ASSUME NEW j \in (left + 1) .. (right + 1), ~(mid + 1 <= j)
            PROVE  j \in (left + 1) .. ((mid - 1) + 1)
        BY <2>1, <4>4
      <4> QED
        BY <3>1, <4>1, <4>3, <4>4 DEF Found, n
    <3> QED
      BY <3>2, <3>3
  <2> QED
    BY <2>2, <2>3, <2>4
<1> QED
  BY <1>3, <1>6, <1>7

LEMMA SearchFinds ==
  ASSUME NEW s \in Seq(Span), Len(s) # 0, 2 * Len(s) <= SizeMax, NEW addr \in Int,
         \A i, j \in 1 .. Len(s) : i <= j => s[i].start <= s[j].start,
         NEW search, Searches(search, s, addr)
  PROVE  Found(search[<<0, Len(s) - 1>>], s, addr, 0, Len(s) - 1)
<1> DEFINE L == 0 .. Len(s)
           R == 0 .. (Len(s) - 1)
           Short == {d \in Nat : \A l \in L, r \in R :
                        r - l < d => Found(search[<<l, r>>], s, addr, l, r)}
<1>1. Len(s) \in Nat \ {0}
  OBVIOUS
<1>2. 0 \in Short
  <2> SUFFICES ASSUME NEW l \in L, NEW r \in R, r - l < 0
               PROVE  Found(search[<<l, r>>], s, addr, l, r)
    OBVIOUS
  <2>1. ~(l <= r)
    BY <1>1
  <2> QED
    BY <2>1, SearchStep
<1>3. ASSUME NEW d \in Nat, d \in Short
      PROVE  d + 1 \in Short
  <2> SUFFICES ASSUME NEW l \in L, NEW r \in R, r - l < d + 1
               PROVE  Found(search[<<l, r>>], s, addr, l, r)
    OBVIOUS
  <2>1. \A a \in L, b \in R : b - a < r - l => b - a < d
    BY <1>1
  <2>2. \A a \in L, b \in R : b - a < d => Found(search[<<a, b>>], s, addr, a, b)
    BY <1>3
  <2> HIDE DEF Short
  <2> QED
    BY <2>1, <2>2, SearchStep
<1> HIDE DEF Short
<1>4. Len(s) \in Short
  BY <1>1, <1>2, <1>3, SetInduction
<1> QED
  BY <1>1, <1>4 DEF Short

LEMMA CacheLookup ==
  ASSUME CacheInv, NEW addr \in Addrs
  PROVE  LET s == cache.ranges
             i == ArcLookup(cache, addr)
         IN  /\ s = <<>> => i = Outside
             /\ s # <<>> => Found(i, s, addr, 0, Len(s) - 1)
<1> DEFINE s == cache.ranges
           n == Len(s)
           search == CHOOSE search : Searches(search, s, addr)
<1>1. /\ s \in Seq(Span) /\ n \in Nat /\ 2 * n <= SizeMax /\ SizeMax \in Nat \ {0} /\ addr \in Int
      /\ n = 0 <=> s = <<>>
  <2>1. s \in Seq(Span) /\ n = Len(given) /\ Len(given) \in Nat
    BY CacheFacts
  <2>2. Len(given) <= MaxItems
    BY DEF CacheInv
  <2>3. n = 0 <=> s = <<>>
    BY <2>1
  <2> QED
    BY <2>1, <2>2, <2>3, TablesAssumption, LineCacheAssumption
<1>2. ArcLookup(cache, addr) = search[<<0, LastIndex(s)>>]
  BY DEF ArcLookup, Searches
<1>3. Searches(search, s, addr)
  BY <1>1, SearchExists
<1> HIDE DEF search
<1>4. CASE s = <<>>
  <2>1. LastIndex(s) = SizeMax
    <3>1. n - 1 = -1 /\ SizeMax + 1 \in Nat \ {0}
      BY <1>1, <1>4
    <3> QED
      <4> DEFINE M == SizeMax + 1
      <4>1. M \in Nat \ {0} /\ -M <= -1 /\ -1 < 0 /\ -1 + M = SizeMax
        BY <1>1
      <4> HIDE DEF M
      <4>2. -1 % M = -1 + M
        BY <4>1, Remainder
      <4> QED
        BY <3>1, <4>1, <4>2 DEF LastIndex, M
  <2> DEFINE mid == ((0 + SizeMax) % (SizeMax + 1)) \div 2
  <2>2. mid \in Nat
    BY <1>1, Middle
  <2>3. <<0, SizeMax>> \in (0 .. SizeMax) \X (0 .. SizeMax)
    BY <1>1
  <2>4. ~(0 > SizeMax) /\ mid >= n
    BY <1>1, <1>4, <2>2
  <2>5. search[<<0, SizeMax>>] = Outside
    BY <1>3, <2>3, <2>4 DEF Searches
  <2> QED
    BY <1>2, <1>4, <2>1, <2>5
<1>5. CASE s # <<>>
  <2>1. n # 0 /\ LastIndex(s) = n - 1
    <3>1. n - 1 \in Int /\ 0 <= n - 1 /\ n - 1 < SizeMax + 1 /\ SizeMax + 1 \in Nat \ {0}
      BY <1>1, <1>5
    <3> QED
      BY <3>1, <1>1, <1>5, Remainder DEF LastIndex
  <2>2. \A i, j \in 1 .. n : i <= j => s[i].start <= s[j].start
    <3> SUFFICES ASSUME NEW i \in 1 .. n, NEW j \in 1 .. n, i <= j
                 PROVE  s[i].start <= s[j].start
      OBVIOUS
    <3>1. i \in DOMAIN s /\ j \in DOMAIN s /\ s[i].start \in Int /\ s[j].start \in Int
      BY CacheFacts
    <3>2. CASE i = j
      BY <3>1, <3>2
    <3>3. CASE i < j
      BY <3>1, <3>3 DEF CacheInv, Sorted
    <3> QED
      BY <3>2, <3>3
  <2>3. Found(search[<<0, n - 1>>], s, addr, 0, n - 1)
    BY <1>1, <1>3, <2>1, <2>2, SearchFinds
  <2> QED
    BY <1>2, <1>5, <2>1, <2>3
<1> QED
  BY <1>4, <1>5

LEMMA CacheLookupFinds == CacheInv => LookupFinds
<1> SUFFICES ASSUME CacheInv, NEW addr \in Addrs
             PROVE  LET i == ArcLookup(cache, addr)
                        hits == {j \in DOMAIN given : addr \in given[j].start .. given[j].end}
                    IN /\ i = Outside <=> given = <<>>
                       /\ i > 0 => cache.ranges[i].line \in hits
                       /\ (Unnested /\ i = None) => hits = {}
  BY DEF LookupFinds
<1> DEFINE s == cache.ranges
           n == Len(given)
           i == ArcLookup(cache, addr)
           hits == {j \in DOMAIN given : addr \in given[j].start .. given[j].end}
<1>1. /\ s = <<>> => i = Outside
      /\ s # <<>> => Found(i, s, addr, 0, Len(s) - 1)
  BY CacheLookup
<1> HIDE DEF i
<1>2. /\ s \in Seq(Span) /\ given \in Seq(Span) /\ n \in Nat /\ Len(s) = n /\ DOMAIN given = 1 .. n
      /\ addr \in Int
  BY CacheFacts, TablesAssumption
<1>3. s = <<>> <=> given = <<>>
  BY <1>2
<1>4. ASSUME NEW k \in 1 .. n PROVE \E j \in 1 .. n : s[k] = given[j] /\ given[j].line = j
  <2>1. PICK j \in 1 .. n : s[k] = given[j]
    BY CacheFacts
  <2>2. given[j].line = j
    BY CacheFacts
  <2> QED
    BY <2>1, <2>2
<1>5. ASSUME NEW j \in 1 .. n PROVE \E k \in 1 .. n : s[k] = given[j]
  BY CacheFacts
<1>6. \A j \in 1 .. n : /\ given[j].start \in Int /\ given[j].end \in Int
                        /\ j \in hits <=> Holds(given[j], addr)
  <2> SUFFICES ASSUME NEW j \in 1 .. n
               PROVE  /\ given[j].start \in Int /\ given[j].end \in Int
                      /\ j \in hits <=> Holds(given[j], addr)
    OBVIOUS
  <2>1. given[j] \in Span
    BY <1>2
  <2>2. given[j].start \in Int /\ given[j].end \in Int
    BY <2>1 DEF Span
  <2> QED
    BY <1>2, <2>2 DEF Holds
<1> HIDE DEF s, n
<1>7. hits \subseteq 1 .. n
  BY <1>2
<1> HIDE DEF hits
<1>8. CASE s = <<>>
  <2>1. i = -1 /\ n = 0
    BY <1>1, <1>2, <1>8 DEF Outside
  <2>2. i = Outside /\ ~(i > 0) /\ i # None
    BY <2>1 DEF Outside, None
  <2> QED
    BY <1>3, <1>8, <2>2 DEF i
<1>9. CASE s # <<>>
  <2>1. i \in 0 .. n /\ i # Outside
    BY <1>1, <1>2, <1>9 DEF Found, Outside
  <2>2. ASSUME i > 0 PROVE s[i].line \in hits
    <3>1. i \in 1 .. n /\ Holds(s[i], addr)
      BY <1>1, <1>9, <2>1, <2>2 DEF Found
    <3>2. PICK j \in 1 .. n : s[i] = given[j] /\ given[j].line = j
      BY <1>4, <3>1
    <3> QED
      BY <1>6, <3>1, <3>2
  <2>3. ASSUME Unnested, i = None, NEW j \in hits PROVE FALSE
    <3>1. PICK k \in 1 .. n : s[k] = given[j]
      BY <1>5, <1>7, <2>3
    <3>2. \A a, b \in 1 .. n : s[a].start <= s[b].start => s[a].end <= s[b].end
      <4> SUFFICES ASSUME NEW a \in 1 .. n, NEW b \in 1 .. n, s[a].start <= s[b].start
                   PROVE  s[a].end <= s[b].end
        OBVIOUS
      <4>1. PICK c \in 1 .. n : s[a] = given[c]
        BY <1>4
      <4>2. PICK d \in 1 .. n : s[b] = given[d]
        BY <1>4
      <4> QED
        BY <1>2, <2>3, <4>1, <4>2 DEF Unnested
    <3>3. \A a \in 1 .. n : ~Holds(s[a], addr)
      <4>1. i = 0 /\ (0 + 1) .. ((n - 1) + 1) = 1 .. n
        BY <1>2, <2>3 DEF None
      <4> QED
        BY <1>1, <1>2, <1>9, <3>2, <4>1 DEF Found
    <3> QED
      BY <1>6, <1>7, <2>3, <3>1, <3>3
  <2> QED
    BY <1>3, <1>9, <2>1, <2>2, <2>3 DEF i, s, hits
<1> QED
  BY <1>8, <1>9

\* However many ranges a cache has, a lookup returns one that holds the address,
\* finds one among unnested ranges if there is one, and reads past them only
\* when there are none (addr_range_cache.c:44-60).
THEOREM CacheLooksUp == Spec => []LookupFinds
<1>1. CacheInv /\ [Next]_vars => CacheInv'
  BY NextCache
<1> QED
  BY <1>1, InitCache, CacheLookupFinds, PTL DEF Spec

-----------------------------------------------------------------------------
(* The address of a line.                                                  *)

\* A search from the front for the result of the first place in P.
Scans(f, n, P, result) ==
  f = [i \in 1 .. n + 1 |-> IF i > n THEN 0 ELSE IF i \in P THEN result[i] ELSE f[i + 1]]

LEMMA ScanExists ==
  ASSUME NEW n \in Nat, NEW P, NEW result
  PROVE  \E f : Scans(f, n, P, result)
<1> DEFINE S == 1 .. n + 1
           done == {i \in S : i > n \/ i \in P}
           next == [i \in S |-> i + 1]
           found == [i \in S |-> IF i > n THEN 0 ELSE result[i]]
<1>1. \A i \in S \ done : next[i] \in S
  OBVIOUS
<1>2. done \in SUBSET S
  OBVIOUS
<1> HIDE DEF done, next, found
<1>3. PICK f : Loops(f, S, done, next, found)
  BY <1>1, <1>2, Looping
<1>4. ASSUME NEW i \in S
      PROVE  (IF i \in done THEN found[i] ELSE f[next[i]])
               = (IF i > n THEN 0 ELSE IF i \in P THEN result[i] ELSE f[i + 1])
  <2>1. (i \in done <=> (i > n \/ i \in P)) /\ next[i] = i + 1
        /\ found[i] = IF i > n THEN 0 ELSE result[i]
    BY DEF done, next, found
  <2> QED
    BY <2>1
<1> QED
  BY <1>3, <1>4 DEF Loops, Scans

LEMMA ScanFinds ==
  ASSUME NEW n \in Nat, NEW P \in SUBSET (1 .. n), NEW result, NEW f, Scans(f, n, P, result)
  PROVE  /\ P = {} => f[1] = 0
         /\ P # {} => \E i \in P : (\A j \in P : i <= j) /\ f[1] = result[i]
<1>1. \A i \in 1 .. n + 1 :
        f[i] = IF i > n THEN 0 ELSE IF i \in P THEN result[i] ELSE f[i + 1]
  BY DEF Scans
<1>2. ASSUME P = {} PROVE f[1] = 0
  <2> DEFINE D == {k \in Nat : k <= n => f[(n + 1) - k] = 0}
  <2>1. 0 \in D
    <3>1. n + 1 \in 1 .. n + 1 /\ n + 1 > n /\ (n + 1) - 0 = n + 1
      OBVIOUS
    <3> QED
      BY <1>1, <3>1
  <2>2. ASSUME NEW k \in Nat, k \in D PROVE k + 1 \in D
    <3> SUFFICES ASSUME k + 1 <= n PROVE f[(n + 1) - (k + 1)] = 0
      OBVIOUS
    <3>1. (n + 1) - (k + 1) \in 1 .. n + 1 /\ ~((n + 1) - (k + 1) > n)
          /\ ((n + 1) - (k + 1)) + 1 = (n + 1) - k /\ k <= n
      OBVIOUS
    <3>2. f[(n + 1) - k] = 0
      BY <2>2, <3>1
    <3> HIDE DEF D
    <3> QED
      BY <1>1, <1>2, <3>1, <3>2
  <2> HIDE DEF D
  <2>3. n \in D
    BY <2>1, <2>2, SetInduction
  <2> QED
    BY <2>3 DEF D
<1>3. ASSUME P # {} PROVE \E i \in P : (\A j \in P : i <= j) /\ f[1] = result[i]
  <2>0. P \in SUBSET Nat
    OBVIOUS
  <2>a. PICK i \in P : \A j \in P : i <= j
    BY <1>3, <2>0, NatMin
  <2> DEFINE D == {k \in Nat : k < i => f[i - k] = result[i]}
  <2>1. 0 \in D
    <3>1. i \in 1 .. n + 1 /\ ~(i > n) /\ i - 0 = i
      OBVIOUS
    <3> QED
      BY <1>1, <3>1
  <2>2. ASSUME NEW k \in Nat, k \in D PROVE k + 1 \in D
    <3> SUFFICES ASSUME k + 1 < i PROVE f[i - (k + 1)] = result[i]
      OBVIOUS
    <3>1. i - (k + 1) \in 1 .. n + 1 /\ ~(i - (k + 1) > n) /\ (i - (k + 1)) + 1 = i - k /\ k < i
      OBVIOUS
    <3>2. f[i - k] = result[i]
      BY <2>2, <3>1
    <3>3. i - (k + 1) \notin P
      BY <2>a
    <3> HIDE DEF D
    <3> QED
      BY <1>1, <3>1, <3>2, <3>3
  <2> HIDE DEF D
  <2>3. i - 1 \in Nat /\ i - 1 < i /\ i - (i - 1) = 1
    OBVIOUS
  <2>4. i - 1 \in D
    BY <2>1, <2>2, <2>3, SetInduction
  <2> QED
    BY <2>a, <2>3, <2>4 DEF D
<1> QED
  BY <1>2, <1>3

Row == [ok : BOOLEAN, file : Files, line : 1 .. 2, addr : Addrs]
Unit == [ok : BOOLEAN, rows : Seq(Row)]

\* The rows of a unit that have a line of a file.
Matching(unit, f, l) == {i \in 1 .. Len(unit.rows) : Matches(unit.rows[i], f, l)}

LEMMA UnitFinds ==
  ASSUME NEW unit \in Unit, NEW f, NEW l
  PROVE  LET i == InUnit(unit, f, l)
             M == Matching(unit, f, l)
         IN  /\ i # 0 <=> unit.ok /\ M # {}
             /\ i # 0 => i \in M /\ \A j \in M : i <= j
<1> DEFINE n == Len(unit.rows)
           M == Matching(unit, f, l)
           result == [i \in 1 .. n |-> i]
           Goes(from) == from = [i \in 1 .. n + 1 |->
             IF i > n THEN 0
             ELSE IF Matches(unit.rows[i], f, l) THEN i ELSE from[i + 1]]
           from == CHOOSE from : Goes(from)
<1>1. n \in Nat /\ M \in SUBSET (1 .. n) /\ unit.ok \in BOOLEAN
  BY DEF Unit, Matching
<1>2. InUnit(unit, f, l) = IF unit.ok THEN from[1] ELSE 0
  BY DEF InUnit
<1>3. ASSUME NEW g PROVE Goes(g) <=> Scans(g, n, M, result)
  <2>1. ASSUME NEW i \in 1 .. n + 1
        PROVE (IF i > n THEN 0 ELSE IF Matches(unit.rows[i], f, l) THEN i ELSE g[i + 1])
               = (IF i > n THEN 0 ELSE IF i \in M THEN result[i] ELSE g[i + 1])
    <3>1. CASE i > n
      BY <3>1
    <3>2. CASE ~(i > n)
      <4>1. i \in 1 .. n /\ result[i] = i
        BY <1>1, <3>2
      <4>2. i \in M <=> Matches(unit.rows[i], f, l)
        BY <4>1 DEF Matching
      <4> HIDE DEF M, n, result
      <4> QED
        BY <3>2, <4>1, <4>2
    <3> QED
      BY <3>1, <3>2
  <2> QED
    BY <2>1 DEF Scans
<1> HIDE DEF Goes, M, n, result
<1>4. Scans(from, n, M, result)
  <2>1. PICK g : Scans(g, n, M, result)
    BY <1>1, ScanExists
  <2>2. Goes(from)
    BY <1>3, <2>1
  <2> HIDE DEF from
  <2> QED
    BY <1>3, <2>2
<1> HIDE DEF from
<1>5. /\ M = {} => from[1] = 0
      /\ M # {} => \E i \in M : (\A j \in M : i <= j) /\ from[1] = result[i]
  BY <1>1, <1>4, ScanFinds
<1>6. \A i \in M : i # 0 /\ result[i] = i
  BY <1>1 DEF result
<1> QED
  BY <1>1, <1>2, <1>5, <1>6 DEF M

\* The rows of a unit are sorted by address.
RowsInv ==
  /\ units \in Seq(Unit)
  /\ \A u \in 1 .. Len(units) : \A i, j \in 1 .. Len(units[u].rows) :
       i <= j => units[u].rows[i].addr <= units[u].rows[j].addr

LEMMA AddressFound == RowsInv => AddressRight
<1> SUFFICES ASSUME RowsInv, NEW l \in 1 .. 2
             PROVE  LET ofLine(u) == {units[u].rows[i].addr :
                                        i \in {i \in DOMAIN units[u].rows :
                                                 LET r == units[u].rows[i] IN
                                                 r.ok /\ r.file = Shown /\ r.line = l}}
                        having == {u \in DOMAIN units : units[u].ok /\ ofLine(u) # {}}
                        a == AddressOfLine(units, Shown, l)
                    IN IF having = {} THEN a = 0
                       ELSE \E u \in having :
                              /\ \A v \in having : u <= v
                              /\ a \in ofLine(u) /\ \A b \in ofLine(u) : a <= b
  BY DEF AddressRight
<1> DEFINE n == Len(units)
           M(u) == Matching(units[u], Shown, l)
           at(u) == InUnit(units[u], Shown, l)
           P == {u \in 1 .. n : at(u) # 0}
           result == [u \in 1 .. n |-> units[u].rows[at(u)].addr]
           Goes(from) == from = [u \in 1 .. n + 1 |->
             IF u > n THEN 0
             ELSE LET i == InUnit(units[u], Shown, l) IN
                  IF i # 0 THEN units[u].rows[i].addr ELSE from[u + 1]]
           from == CHOOSE from : Goes(from)
           ofLine(u) == {units[u].rows[i].addr :
                                        i \in {i \in DOMAIN units[u].rows :
                                                 LET r == units[u].rows[i] IN
                                                 r.ok /\ r.file = Shown /\ r.line = l}}
           having == {u \in DOMAIN units : units[u].ok /\ ofLine(u) # {}}
<1>1. n \in Nat /\ DOMAIN units = 1 .. n /\ P \in SUBSET (1 .. n)
      /\ \A u \in 1 .. n : units[u] \in Unit
  BY DEF RowsInv
<1>2. AddressOfLine(units, Shown, l) = from[1]
  BY DEF AddressOfLine
<1>3. ASSUME NEW g PROVE Goes(g) <=> Scans(g, n, P, result)
  <2>1. ASSUME NEW u \in 1 .. n + 1
        PROVE (IF u > n THEN 0 ELSE LET i == InUnit(units[u], Shown, l) IN
                  IF i # 0 THEN units[u].rows[i].addr ELSE g[u + 1])
               = (IF u > n THEN 0 ELSE IF u \in P THEN result[u] ELSE g[u + 1])
    <3>1. CASE u > n
      BY <3>1
    <3>2. CASE ~(u > n)
      <4>1. u \in 1 .. n /\ result[u] = units[u].rows[at(u)].addr /\ (u \in P <=> at(u) # 0)
        BY <1>1, <3>2
      <4> HIDE DEF P, n, result
      <4> QED
        BY <3>2, <4>1
    <3> QED
      BY <3>1, <3>2
  <2> QED
    BY <2>1 DEF Scans
<1> HIDE DEF Goes, P, n, result
<1>4. Scans(from, n, P, result)
  <2>1. PICK g : Scans(g, n, P, result)
    BY <1>1, ScanExists
  <2>2. Goes(from)
    BY <1>3, <2>1
  <2> HIDE DEF from
  <2> QED
    BY <1>3, <2>2
<1> HIDE DEF from
<1>5. /\ P = {} => from[1] = 0
      /\ P # {} => \E u \in P : (\A v \in P : u <= v) /\ from[1] = result[u]
  BY <1>1, <1>4, ScanFinds
<1>6. ASSUME NEW u \in 1 .. n
      PROVE  /\ ofLine(u) = {units[u].rows[i].addr : i \in M(u)}
             /\ M(u) \subseteq 1 .. Len(units[u].rows)
             /\ at(u) # 0 <=> units[u].ok /\ M(u) # {}
             /\ at(u) # 0 => at(u) \in M(u) /\ \A j \in M(u) : at(u) <= j
  <2>1. units[u] \in Unit
    BY <1>1
  <2>2. DOMAIN units[u].rows = 1 .. Len(units[u].rows)
    BY <2>1 DEF Unit
  <2>3. {i \in DOMAIN units[u].rows : LET r == units[u].rows[i] IN
                                      r.ok /\ r.file = Shown /\ r.line = l} = M(u)
    BY <2>2 DEF Matching, Matches
  <2>4. /\ at(u) # 0 <=> units[u].ok /\ M(u) # {}
        /\ at(u) # 0 => at(u) \in M(u) /\ \A j \in M(u) : at(u) <= j
    BY <2>1, UnitFinds
  <2> QED
    BY <2>3, <2>4 DEF Matching
<1> HIDE DEF ofLine, M, at
<1>7. P = having
  <2>1. ASSUME NEW u \in 1 .. n PROVE u \in P <=> u \in having
    <3>0. ofLine(u) = {units[u].rows[i].addr : i \in M(u)}
      BY <1>6
    <3>1. ofLine(u) # {} <=> M(u) # {}
      <4>1. ASSUME NEW i \in M(u) PROVE ofLine(u) # {}
        BY <3>0
      <4>2. ASSUME NEW a \in ofLine(u) PROVE M(u) # {}
        BY <3>0
      <4> QED
        BY <4>1, <4>2
    <3>2. at(u) # 0 <=> units[u].ok /\ M(u) # {}
      BY <1>6
    <3>3. u \in P <=> at(u) # 0
      BY DEF P
    <3>4. u \in having <=> units[u].ok /\ ofLine(u) # {}
      BY <1>1
    <3> QED
      BY <3>1, <3>2, <3>3, <3>4
  <2>2. P \subseteq 1 .. n /\ having \subseteq 1 .. n
    BY <1>1
  <2> HIDE DEF having
  <2> QED
    BY <2>1, <2>2
<1>8. ASSUME NEW u \in P
      PROVE  result[u] \in ofLine(u) /\ \A b \in ofLine(u) : result[u] <= b
  <2>1. u \in 1 .. n /\ at(u) # 0
    BY DEF P
  <2>2. at(u) \in M(u) /\ result[u] = units[u].rows[at(u)].addr
        /\ M(u) \subseteq 1 .. Len(units[u].rows) /\ \A j \in M(u) : at(u) <= j
    BY <1>6, <2>1 DEF result
  <2>3. \A j \in M(u) : units[u].rows[at(u)].addr <= units[u].rows[j].addr
    BY <2>1, <2>2 DEF RowsInv, n
  <2>4. ofLine(u) = {units[u].rows[i].addr : i \in M(u)}
    BY <1>6, <2>1
  <2> QED
    BY <2>2, <2>3, <2>4
<1> DEFINE a == AddressOfLine(units, Shown, l)
<1>9. IF having = {} THEN a = 0
      ELSE \E u \in having : /\ \A v \in having : u <= v
                             /\ a \in ofLine(u) /\ \A b \in ofLine(u) : a <= b
  <2> HIDE DEF having, a
  <2>1. a = from[1]
    BY <1>2 DEF a
  <2>2. CASE P = {}
    BY <1>5, <1>7, <2>1, <2>2
  <2>3. CASE P # {}
    <3>1. PICK u \in P : (\A v \in P : u <= v) /\ from[1] = result[u]
      BY <1>5, <2>3
    <3> QED
      BY <1>7, <1>8, <2>1, <2>3, <3>1
  <2> QED
    BY <2>2, <2>3
<1> QED
  BY <1>9 DEF ofLine

LEMMA NextRows ==
  ASSUME RowsInv, [Next]_vars
  PROVE  RowsInv'
<1>1. CASE UNCHANGED units
  BY <1>1 DEF RowsInv
<1>2. ASSUME NEW ok \in BOOLEAN, units' = Append(units, [ok |-> ok, rows |-> <<>>])
      PROVE  RowsInv'
  <2> DEFINE new == [ok |-> ok, rows |-> <<>>]
  <2>1. <<>> \in Seq(Row) /\ Len(<<>>) = 0
    OBVIOUS
  <2>2. new \in Unit /\ Len(new.rows) = 0
    BY <2>1 DEF Unit
  <2> HIDE DEF new
  <2>3. units \in Seq(Unit) /\ units' = Append(units, new)
    BY <1>2 DEF RowsInv, new
  <2>4. /\ units' \in Seq(Unit) /\ Len(units') = Len(units) + 1 /\ Len(units) \in Nat
        /\ \A u \in 1 .. Len(units) : units'[u] = units[u]
        /\ units'[Len(units) + 1] = new
    BY <2>2, <2>3
  <2>5. ASSUME NEW u \in 1 .. Len(units'),
               NEW i \in 1 .. Len(units'[u].rows), NEW j \in 1 .. Len(units'[u].rows), i <= j
        PROVE  units'[u].rows[i].addr <= units'[u].rows[j].addr
    <3>1. u \in 1 .. Len(units)
      <4>1. CASE u = Len(units) + 1
        BY <2>2, <2>4, <4>1
      <4> QED
        BY <2>4, <4>1
    <3> QED
      BY <2>4, <2>5, <3>1 DEF RowsInv
  <2> QED
    BY <2>4, <2>5 DEF RowsInv
<1>3. ASSUME units # <<>>, NEW row \in Row,
             LET rows == Last(units).rows IN
             /\ rows # <<>> => Last(rows).addr <= row.addr
             /\ units' = [units EXCEPT ![Len(units)].rows = Append(@, row)]
      PROVE  RowsInv'
  <2> DEFINE n == Len(units)
             rows == units[n].rows
             m == Len(rows)
  <2>1. units \in Seq(Unit) /\ n \in Nat \ {0} /\ units[n] \in Unit /\ Last(units) = units[n]
    BY <1>3 DEF RowsInv, Last
  <2>2. rows \in Seq(Row) /\ m \in Nat /\ (m # 0 => (rows # <<>> /\ Last(rows) = rows[m]))
    BY <2>1 DEF Unit, Last
  <2>3. units' = [units EXCEPT ![n] = [units[n] EXCEPT !.rows = Append(rows, row)]]
        /\ (m # 0 => rows[m].addr <= row.addr)
    BY <1>3, <2>1, <2>2
  <2> DEFINE new == Append(rows, row)
  <2>4. /\ new \in Seq(Row) /\ Len(new) = m + 1 /\ new[m + 1] = row
        /\ \A i \in 1 .. m : new[i] = rows[i]
    BY <2>2
  <2> HIDE DEF new
  <2>5. /\ units' \in Seq(Unit) /\ Len(units') = n
        /\ \A u \in 1 .. n : u # n => units'[u] = units[u]
        /\ units'[n].rows = new
    <3> DEFINE unit == [units[n] EXCEPT !.rows = new]
    <3>1. unit \in Unit /\ unit.rows = new
      BY <2>1, <2>4 DEF Unit
    <3> HIDE DEF unit
    <3>2. units' = [units EXCEPT ![n] = unit]
      BY <2>3 DEF unit, new
    <3> QED
      BY <2>1, <3>1, <3>2
  <2>6. \A i \in 1 .. m + 1 : new[i].addr \in Int
    <3>1. \A i \in 1 .. m + 1 : new[i] \in Row
      BY <2>2, <2>4
    <3> QED
      BY <3>1, TablesAssumption DEF Row
  <2>7. \A i, j \in 1 .. m : i <= j => rows[i].addr <= rows[j].addr
    BY <2>1 DEF RowsInv
  <2> HIDE DEF rows, m
  <2>8. ASSUME NEW i \in 1 .. m + 1, NEW j \in 1 .. m + 1, i <= j
        PROVE  new[i].addr <= new[j].addr
    <3>1. CASE j = m + 1 /\ i = m + 1
      BY <2>6, <3>1
    <3>2. CASE j = m + 1 /\ i # m + 1
      <4>1. i \in 1 .. m /\ m \in 1 .. m /\ m # 0 /\ i <= m
        BY <2>2, <3>2
      <4>2. rows[i].addr <= rows[m].addr /\ rows[m].addr <= row.addr
        BY <2>3, <2>7, <4>1 DEF m, rows
      <4>3. new[i] = rows[i] /\ new[m] = rows[m] /\ new[j] = row /\ m \in 1 .. m + 1
        BY <2>2, <2>4, <3>2, <4>1, SMTT(30) DEF m, rows
      <4> QED
        BY <2>6, <4>2, <4>3
    <3>3. CASE j # m + 1
      <4>1. i \in 1 .. m /\ j \in 1 .. m
        BY <2>2, <2>8, <3>3
      <4> QED
        BY <2>4, <2>7, <2>8, <4>1
    <3> QED
      BY <3>1, <3>2, <3>3
  <2>9. ASSUME NEW u \in 1 .. n,
               NEW i \in 1 .. Len(units'[u].rows), NEW j \in 1 .. Len(units'[u].rows), i <= j
        PROVE  units'[u].rows[i].addr <= units'[u].rows[j].addr
    <3>1. CASE u = n
      BY <2>4, <2>5, <2>8, <2>9, <3>1
    <3>2. CASE u # n
      BY <2>5, <2>9, <3>2 DEF RowsInv
    <3> QED
      BY <3>1, <3>2
  <2> QED
    BY <2>5, <2>9 DEF RowsInv
<1>4. CASE AddRow
  <2>1. CASE \E ok \in BOOLEAN : units' = Append(units, [ok |-> ok, rows |-> <<>>])
    BY <1>2, <2>1
  <2>2. CASE /\ units # <<>>
             /\ \E ok \in BOOLEAN, f \in Files, l \in 1 .. 2, a \in Addrs :
                  LET rows == Last(units).rows IN
                  /\ rows # <<>> => Last(rows).addr <= a
                  /\ units' = [units EXCEPT ![Len(units)].rows =
                                 Append(@, [ok |-> ok, file |-> f, line |-> l, addr |-> a])]
    <3>1. PICK ok \in BOOLEAN, f \in Files, l \in 1 .. 2, a \in Addrs :
                  LET rows == Last(units).rows IN
                  /\ rows # <<>> => Last(rows).addr <= a
                  /\ units' = [units EXCEPT ![Len(units)].rows =
                                 Append(@, [ok |-> ok, file |-> f, line |-> l, addr |-> a])]
      BY <2>2
    <3> DEFINE row == [ok |-> ok, file |-> f, line |-> l, addr |-> a]
    <3>2. row \in Row /\ row.addr = a
      BY DEF Row
    <3>3. LET rows == Last(units).rows IN
          /\ rows # <<>> => Last(rows).addr <= row.addr
          /\ units' = [units EXCEPT ![Len(units)].rows = Append(@, row)]
      BY <3>1, <3>2
    <3> HIDE DEF row
    <3> QED
      BY <1>3, <2>2, <3>2, <3>3
  <2> QED
    BY <1>4, <2>1, <2>2 DEF AddRow
<1> QED
  BY <1>1, <1>4 DEF Next, InsertRange, AddLine, WriteRegister, TakeSlice, vars

\* In line tables of any size, with any units and rows unreadable, a line is
\* found at the lowest address of the first readable unit that has it, and 0
\* means that none does (conversion.c:128-187).
THEOREM AddressIsRight == Spec => []AddressRight
<1>1. Init => RowsInv
  <2>1. <<>> \in Seq(Unit) /\ Len(<<>>) = 0
    OBVIOUS
  <2> QED
    BY <2>1 DEF Init, RowsInv
<1>2. RowsInv /\ [Next]_vars => RowsInv'
  BY NextRows
<1> QED
  BY <1>1, <1>2, AddressFound, PTL DEF Spec

-----------------------------------------------------------------------------
(* The line numbers of the step view.                                      *)

LEMMA PiecesOf ==
  ASSUME NEW n \in Nat \ {0}
  PROVE  Pieces(n) \in Nat \ {0} /\ (Pieces(n) = 1 <=> n <= Chunk)
<1> DEFINE q == (n + Chunk - 1) \div Chunk
<1>1. Chunk \in Nat \ {0} /\ n + Chunk - 1 \in Nat
  BY SourceLinesAssumption
<1>2. q \in Nat /\ q * Chunk <= n + Chunk - 1 /\ n + Chunk - 1 < q * Chunk + Chunk
  BY <1>1, Division
<1> HIDE DEF q
<1>3. CASE q = 0
  BY <1>1, <1>2, <1>3
<1>4. CASE q = 1
  <2>1. n <= Chunk
    BY <1>1, <1>2, <1>4
  <2> QED
    BY <1>4, <2>1 DEF Pieces, q
<1>5. CASE q >= 2
  <2>1. q * Chunk >= 2 * Chunk
    BY <1>1, <1>2, <1>5
  <2>2. ~(n <= Chunk)
    BY <1>1, <1>2, <2>1
  <2> QED
    BY <1>2, <1>5, <2>2 DEF Pieces, q
<1> QED
  BY <1>2, <1>3, <1>4, <1>5

\* The view after each line of the file, as step_view_load makes it.
Views(upto) ==
  upto = [i \in 0 .. Len(lens) |->
           IF i = 0 THEN <<>>
           ELSE upto[i - 1] \o [p \in 1 .. Pieces(lens[i]) |-> i]]

LEMMA ViewsExist ==
  ASSUME lens \in Seq(Nat \ {0})
  PROVE  \E upto : Views(upto) /\ upto \in [0 .. Len(lens) -> Seq(Nat)]
<1> DEFINE N == Len(lens)
           S == Seq(Nat)
           lines(i) == [p \in 1 .. Pieces(lens[i]) |-> i]
           next == [i \in 1 .. N |-> i - 1]
           step == [a \in (1 .. N) \X S |-> a[2] \o lines(a[1])]
<1>1. N \in Nat /\ \A i \in 1 .. N : lens[i] \in Nat \ {0}
  OBVIOUS
<1>2. <<>> \in S
  OBVIOUS
<1>3. ASSUME NEW i \in 1 .. N PROVE lines(i) \in S
  <2>1. Pieces(lens[i]) \in Nat
    BY <1>1, PiecesOf
  <2> QED
    BY <2>1
<1> HIDE DEF N, lines
<1>4. \A i \in 1 .. N : next[i] = i - 1 /\ next[i] \in 0 .. (i - 1)
  BY <1>1
<1>5. ASSUME NEW i \in 1 .. N, NEW x \in S
      PROVE  step[<<i, x>>] = x \o lines(i) /\ step[<<i, x>>] \in S
  <2>1. x \o lines(i) \in S
    <3>1. x \in Seq(Nat) /\ lines(i) \in Seq(Nat)
      BY <1>3
    <3> QED
      BY <3>1
  <2> HIDE DEF S
  <2>2. <<i, x>> \in (1 .. N) \X S
    OBVIOUS
  <2>3. step[<<i, x>>] = x \o lines(i)
    BY <2>2
  <2> QED
    BY <2>1, <2>3
<1> HIDE DEF next, step, S
<1>0. \A i \in 1 .. N, x \in S : step[<<i, x>>] = x \o lines(i) /\ step[<<i, x>>] \in S
  BY <1>5
<1>6. PICK f : Descends(f, S, N, next, <<>>, step)
  BY <1>1, <1>2, <1>4, <1>0, Descent
<1>7. f \in [0 .. N -> S] /\ f[0] = <<>>
  BY <1>6 DEF Descends
<1>8. ASSUME NEW i \in 1 .. N PROVE f[i] = f[i - 1] \o lines(i)
  <2>0. f[i] = step[<<i, f[next[i]]>>] /\ next[i] = i - 1
    BY <1>4, <1>6 DEF Descends
  <2>1. f[i] = step[<<i, f[i - 1]>>] /\ i - 1 \in 0 .. N
    BY <1>1, <2>0
  <2>2. f[i - 1] \in S
    BY <1>7, <2>1
  <2> QED
    BY <1>0, <2>1, <2>2
<1>9. f = [i \in 0 .. N |-> IF i = 0 THEN <<>> ELSE f[i - 1] \o lines(i)]
  <2>1. \A i \in 0 .. N : i # 0 => i \in 1 .. N
    BY <1>1
  <2> QED
    BY <1>7, <1>8, <2>1
<1> QED
  BY <1>7, <1>9 DEF Views, N, lines, S

Long(j) == lens[j] > Chunk

\* What is true of the view v of the first i lines.
Numbered(v, i) ==
  /\ v \in Seq(Nat) /\ Len(v) >= i
  /\ Len(v) = i <=> \A j \in 1 .. i : ~Long(j)
  /\ \A n \in 1 .. Len(v) :
       n = v[n] <=> \A j \in 1 .. Len(lens) : Long(j) => n <= j
  /\ \A j \in 1 .. i : \E n \in 1 .. Len(v) : v[n] = j

LEMMA Joined ==
  ASSUME NEW S, NEW a \in Seq(S), NEW b \in Seq(S)
  PROVE  /\ a \o b \in Seq(S) /\ Len(a \o b) = Len(a) + Len(b)
         /\ \A n \in 1 .. Len(a) + Len(b) :
              (a \o b)[n] = IF n <= Len(a) THEN a[n] ELSE b[n - Len(a)]
OBVIOUS

LEMMA NextNumbered ==
  ASSUME lens \in Seq(Nat \ {0}), NEW v, NEW i \in 1 .. Len(lens), Numbered(v, i - 1)
  PROVE  Numbered(v \o [p \in 1 .. Pieces(lens[i]) |-> i], i)
<1> DEFINE N == Len(lens)
           m == Pieces(lens[i])
           w == [p \in 1 .. m |-> i]
           u == v \o w
           L == Len(v)
<1>1. N \in Nat /\ i \in 1 .. N /\ m \in Nat \ {0} /\ (m = 1 <=> ~Long(i))
      /\ \A j \in 1 .. N : Long(j) \in BOOLEAN
  <2>1. lens[i] \in Nat \ {0} /\ Chunk \in Nat
    BY SourceLinesAssumption
  <2>2. m \in Nat \ {0} /\ (m = 1 <=> lens[i] <= Chunk)
    BY <2>1, PiecesOf
  <2> QED
    BY <2>1, <2>2 DEF Long
<1>2. /\ v \in Seq(Nat) /\ L \in Nat /\ L >= i - 1
      /\ L = i - 1 <=> \A j \in 1 .. i - 1 : ~Long(j)
      /\ \A n \in 1 .. L : n = v[n] <=> \A j \in 1 .. N : Long(j) => n <= j
      /\ \A j \in 1 .. i - 1 : \E n \in 1 .. L : v[n] = j
  BY DEF Numbered
<1> HIDE DEF m, N
<1>3. /\ u \in Seq(Nat) /\ Len(u) = L + m
      /\ \A n \in 1 .. L : u[n] = v[n]
      /\ \A n \in 1 .. L + m : n > L => u[n] = i
  <2>1. w \in Seq(Nat) /\ Len(w) = m /\ \A p \in 1 .. m : w[p] = i
    BY <1>1
  <2> HIDE DEF w
  <2>2. u \in Seq(Nat) /\ Len(u) = L + m
        /\ \A n \in 1 .. L + m : u[n] = IF n <= L THEN v[n] ELSE w[n - L]
    <3>1. v \in Seq(Nat)
      BY <1>2
    <3>2. /\ u \in Seq(Nat) /\ Len(u) = Len(v) + Len(w)
          /\ \A n \in 1 .. Len(v) + Len(w) : u[n] = IF n <= Len(v) THEN v[n] ELSE w[n - Len(v)]
      BY <2>1, <3>1, Joined
    <3> QED
      BY <2>1, <3>2
  <2>0. L \in Nat /\ m \in Nat
    BY <1>1, <1>2
  <2> HIDE DEF L
  <2>3. ASSUME NEW n \in 1 .. L + m, n > L PROVE u[n] = i
    <3>1. n - L \in 1 .. m /\ ~(n <= L)
      BY <2>0, <2>3
    <3> QED
      BY <2>1, <2>2, <3>1
  <2>4. ASSUME NEW n \in 1 .. L PROVE u[n] = v[n]
    <3>1. n \in 1 .. L + m /\ n <= L
      BY <2>0
    <3> QED
      BY <2>2, <3>1
  <2> HIDE DEF u
  <2> QED
    BY <2>2, <2>3, <2>4
<1> HIDE DEF u, L
<1>4. L + m >= i
  BY <1>1, <1>2
<1>5. L + m = i <=> \A j \in 1 .. i : ~Long(j)
  <2>1. L + m = i <=> L = i - 1 /\ m = 1
    BY <1>1, <1>2
  <2>2. (\A j \in 1 .. i : ~Long(j)) <=> (\A j \in 1 .. i - 1 : ~Long(j)) /\ ~Long(i)
    <3>1. \A j \in 1 .. i : j = i \/ j \in 1 .. i - 1
      BY <1>1
    <3>2. i \in 1 .. i /\ \A j \in 1 .. i - 1 : j \in 1 .. i
      BY <1>1
    <3> QED
      BY <3>1, <3>2
  <2> QED
    BY <1>1, <1>2, <2>1, <2>2
<1>6. ASSUME NEW n \in 1 .. L + m
      PROVE  n = u[n] <=> \A j \in 1 .. N : Long(j) => n <= j
  <2>1. CASE n <= L
    <3>1. n \in 1 .. L
      BY <1>1, <1>2, <2>1
    <3> QED
      BY <1>2, <1>3, <3>1
  <2>2. CASE n > L /\ L = i - 1
    <3>1. u[n] = i /\ n >= i
      BY <1>1, <1>2, <1>3, <2>2
    <3>2. \A j \in 1 .. i - 1 : ~Long(j)
      BY <1>2, <2>2
    <3>3. CASE n = i
      <4>1. ASSUME NEW j \in 1 .. N, Long(j) PROVE n <= j
        <5>1. j \notin 1 .. i - 1
          BY <3>2, <4>1
        <5> QED
          BY <1>1, <3>3, <5>1
      <4> QED
        BY <3>1, <3>3, <4>1
    <3>4. CASE n # i
      <4>1. n > i /\ m # 1
        BY <1>1, <1>2, <2>2, <3>1, <3>4
      <4>2. Long(i) /\ ~(n <= i)
        BY <1>1, <4>1
      <4> QED
        BY <1>1, <3>1, <3>4, <4>2
    <3> QED
      BY <3>3, <3>4
  <2>3. CASE n > L /\ L # i - 1
    <3>1. u[n] = i /\ n > i
      BY <1>1, <1>2, <1>3, <2>3
    <3>2. PICK j \in 1 .. i - 1 : Long(j)
      BY <1>2, <2>3
    <3>3. j \in 1 .. N /\ ~(n <= j) /\ n # u[n]
      BY <1>1, <3>1, <3>2
    <3> QED
      BY <3>2, <3>3
  <2> QED
    BY <1>1, <1>2, <2>1, <2>2, <2>3
<1>7. ASSUME NEW j \in 1 .. i PROVE \E n \in 1 .. L + m : u[n] = j
  <2>1. CASE j = i
    <3>1. L + m \in 1 .. L + m /\ L + m > L
      BY <1>1, <1>2
    <3> QED
      BY <1>3, <2>1, <3>1
  <2>2. CASE j # i
    <3>1. j \in 1 .. i - 1
      BY <1>1, <2>2
    <3>2. PICK n \in 1 .. L : v[n] = j
      BY <1>2, <3>1
    <3>3. n \in 1 .. L + m
      BY <1>1, <1>2
    <3> QED
      BY <1>3, <3>2, <3>3
  <2> QED
    BY <2>1, <2>2
<1>8. Numbered(u, i)
  BY <1>3, <1>4, <1>5, <1>6, <1>7 DEF Numbered, N
<1> QED
  BY <1>8 DEF u, m

LEMMA ViewNumbered ==
  ASSUME lens \in Seq(Nat \ {0})
  PROVE  Numbered(ViewOf(lens), Len(lens))
<1> DEFINE N == Len(lens)
           upto == CHOOSE upto : Views(upto)
           D == {i \in Nat : i <= N => Numbered(upto[i], i)}
<1>1. N \in Nat
  OBVIOUS
<1>2. Views(upto)
  BY ViewsExist
<1>3. ViewOf(lens) = upto[N]
  BY DEF ViewOf, Views
<1> HIDE DEF upto
<1>4. upto[0] = <<>> /\ \A i \in 1 .. N : upto[i] = upto[i - 1] \o [p \in 1 .. Pieces(lens[i]) |-> i]
  <2> DEFINE lines(i) == [p \in 1 .. Pieces(lens[i]) |-> i]
  <2>1. upto = [i \in 0 .. N |-> IF i = 0 THEN <<>> ELSE upto[i - 1] \o lines(i)]
    BY <1>2 DEF Views
  <2> HIDE DEF lines, N
  <2>2. upto[0] = <<>>
    BY <1>1, <2>1
  <2>3. ASSUME NEW i \in 1 .. N PROVE upto[i] = upto[i - 1] \o lines(i)
    <3>1. i \in 0 .. N /\ i # 0
      BY <1>1
    <3> QED
      BY <2>1, <3>1
  <2> QED
    BY <2>2, <2>3 DEF lines
<1>5. 0 \in D
  <2>1. <<>> \in Seq(Nat) /\ Len(<<>>) = 0 /\ 1 .. 0 = {}
    OBVIOUS
  <2>2. Numbered(<<>>, 0)
    BY <2>1 DEF Numbered
  <2> QED
    BY <1>4, <2>2
<1>6. ASSUME NEW i \in Nat, i \in D PROVE i + 1 \in D
  <2> SUFFICES ASSUME i + 1 <= N PROVE Numbered(upto[i + 1], i + 1)
    OBVIOUS
  <2>1. i + 1 \in 1 .. N /\ (i + 1) - 1 = i /\ i <= N
    BY <1>1
  <2>2. Numbered(upto[(i + 1) - 1], (i + 1) - 1)
    BY <1>6, <2>1
  <2>3. upto[i + 1] = upto[(i + 1) - 1] \o [p \in 1 .. Pieces(lens[i + 1]) |-> i + 1]
    BY <1>4, <2>1
  <2> QED
    BY <2>1, <2>2, <2>3, NextNumbered
<1> HIDE DEF D
<1>7. N \in D
  BY <1>1, <1>5, <1>6, SetInduction
<1> QED
  BY <1>1, <1>3, <1>7 DEF D

Rooms(room, count) ==
  room = [n \in 0 .. count |->
           IF n = 0 THEN FirstCap
           ELSE IF n - 1 = room[n - 1] THEN 2 * room[n - 1] ELSE room[n - 1]]

LEMMA RoomsExist ==
  ASSUME NEW count \in Nat
  PROVE  \E room : Rooms(room, count)
<1> DEFINE next == [n \in 1 .. count |-> n - 1]
           grown(n, x) == IF n - 1 = x THEN 2 * x ELSE x
           step == [a \in (1 .. count) \X Nat |-> grown(a[1], a[2])]
<1>1. \A n \in 1 .. count : next[n] = n - 1 /\ next[n] \in 0 .. (n - 1)
  OBVIOUS
<1>2. \A n \in 1 .. count, x \in Nat : step[<<n, x>>] = grown(n, x) /\ step[<<n, x>>] \in Nat
  OBVIOUS
<1>3. FirstCap \in Nat
  BY SourceLinesAssumption
<1> HIDE DEF next, step, grown
<1>4. PICK f : Descends(f, Nat, count, next, FirstCap, step)
  BY <1>1, <1>2, <1>3, Descent
<1>5. f \in [0 .. count -> Nat] /\ f[0] = FirstCap
  BY <1>4 DEF Descends
<1>6. ASSUME NEW n \in 1 .. count PROVE f[n] = grown(n, f[n - 1])
  <2>0. f[n] = step[<<n, f[next[n]]>>] /\ next[n] = n - 1
    BY <1>1, <1>4 DEF Descends
  <2>1. f[n] = step[<<n, f[n - 1]>>] /\ n - 1 \in 0 .. count
    BY <2>0
  <2>2. f[n - 1] \in Nat
    BY <1>5, <2>1
  <2> QED
    BY <1>2, <2>1, <2>2
<1>7. f = [n \in 0 .. count |-> IF n = 0 THEN FirstCap ELSE grown(n, f[n - 1])]
  <2>1. \A n \in 0 .. count : n # 0 => n \in 1 .. count
    OBVIOUS
  <2> QED
    BY <1>5, <1>6, <2>1
<1> QED
  BY <1>7 DEF Rooms, grown

LEMMA RoomEnough ==
  ASSUME NEW count \in Nat
  PROVE  RoomFor(count) \in Nat /\ count <= RoomFor(count)
<1> DEFINE room == CHOOSE room : Rooms(room, count)
           D == {n \in Nat : n <= count => room[n] \in Nat \ {0} /\ n <= room[n]}
<1>1. Rooms(room, count)
  BY RoomsExist
<1>2. RoomFor(count) = room[count]
  BY DEF RoomFor, Rooms
<1> HIDE DEF room
<1>3. /\ room[0] = FirstCap
      /\ \A n \in 1 .. count :
           room[n] = IF n - 1 = room[n - 1] THEN 2 * room[n - 1] ELSE room[n - 1]
  BY <1>1 DEF Rooms
<1>4. 0 \in D
  BY <1>3, SourceLinesAssumption
<1>5. ASSUME NEW n \in Nat, n \in D PROVE n + 1 \in D
  <2> SUFFICES ASSUME n + 1 <= count PROVE room[n + 1] \in Nat \ {0} /\ n + 1 <= room[n + 1]
    OBVIOUS
  <2>1. n + 1 \in 1 .. count /\ (n + 1) - 1 = n /\ n <= count
    OBVIOUS
  <2>2. room[n] \in Nat \ {0} /\ n <= room[n]
    BY <1>5, <2>1
  <2>3. room[n + 1] = IF n = room[n] THEN 2 * room[n] ELSE room[n]
    BY <1>3, <2>1
  <2> QED
    BY <2>2, <2>3
<1> HIDE DEF D
<1>6. count \in D
  BY <1>4, <1>5, SetInduction
<1> QED
  BY <1>2, <1>6 DEF D

\* For files with any lines: the numbers of the step view are right up to the
\* first long line and at no line after it, every line is shown, and no line is
\* stored beyond the array (step_view.c:24-46).
THEOREM LinesNumbered == Spec => []NumbersHold
<1> DEFINE Inv == lens \in Seq(Nat \ {0})
<1>1. Init => Inv
  BY DEF Init
<1>2. ASSUME Inv, [Next]_vars PROVE Inv'
  <2>1. CASE AddLine
    <3>1. PICK n \in Lengths : lens' = Append(lens, n)
      BY <2>1 DEF AddLine
    <3>2. n \in Nat \ {0}
      BY TablesAssumption
    <3> QED
      BY <1>2, <3>1, <3>2
  <2> QED
    BY <1>2, <2>1 DEF Next, InsertRange, AddRow, WriteRegister, TakeSlice, vars
<1>3. ASSUME Inv PROVE NumbersHold
  <2> DEFINE view == ViewOf(lens)
             N == Len(lens)
             long == {i \in DOMAIN lens : lens[i] > Chunk}
  <2>1. Numbered(view, N) /\ N \in Nat /\ DOMAIN lens = 1 .. N
    BY <1>3, ViewNumbered
  <2> HIDE DEF view
  <2>2. /\ view \in Seq(Nat) /\ Len(view) \in Nat /\ DOMAIN view = 1 .. Len(view)
        /\ \A n \in DOMAIN view : (n = view[n]) <=> \A i \in long : n <= i
        /\ \A i \in DOMAIN lens : \E n \in DOMAIN view : view[n] = i
    <3>1. view \in Seq(Nat) /\ Len(view) \in Nat /\ DOMAIN view = 1 .. Len(view)
      BY <2>1 DEF Numbered
    <3>2. ASSUME NEW n \in 1 .. Len(view)
          PROVE  (n = view[n]) <=> \A i \in long : n <= i
      <4>1. (n = view[n]) <=> \A j \in 1 .. N : Long(j) => n <= j
        BY <2>1 DEF Numbered
      <4>2. (\A j \in 1 .. N : Long(j) => n <= j) <=> \A i \in long : n <= i
        BY <2>1 DEF Long
      <4> QED
        BY <4>1, <4>2
    <3>3. \A i \in 1 .. N : \E n \in 1 .. Len(view) : view[n] = i
      BY <2>1 DEF Numbered
    <3> QED
      BY <2>1, <3>1, <3>2, <3>3
  <2>3. \A n \in DOMAIN view : n <= RoomFor(n)
    BY <2>2, RoomEnough
  <2> QED
    BY <2>2, <2>3 DEF NumbersHold, view
<1> HIDE DEF Inv
<1> QED
  BY <1>1, <1>2, <1>3, PTL DEF Spec
=============================================================================
