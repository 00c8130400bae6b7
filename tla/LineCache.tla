------------------------------- MODULE LineCache -------------------------------
(***************************************************************************)
(* src/dwarf/addr_range_cache.c as operators: an array of address ranges   *)
(* kept sorted by start address, and a binary search over it.  A range     *)
(* includes its end address.  A cache is its array and its capacity.       *)
(***************************************************************************)
EXTENDS Integers, Sequences

CONSTANT SizeMax   \* the largest size_t, SIZE_MAX

ASSUME LineCacheAssumption == SizeMax \in Nat \ {0}

\* arc_create.
ArcCreate(cap) == [ranges |-> <<>>, capacity |-> cap]

\* The array is copied to one of twice the size when it is full.
Grown(cache) ==
  IF Len(cache.ranges) = cache.capacity THEN 2 * cache.capacity ELSE cache.capacity

Swap(s, i) == [s EXCEPT ![i] = s[i - 1], ![i - 1] = s[i]]

\* Mutant of Sink: the last range stays where it was appended.
Unsorted(s) == s

\* The loop that moves the last range of an array down to its place.
Sink(s) ==
  LET down[i \in 1 .. Len(s)] ==
        LET t == IF i = Len(s) THEN s ELSE down[i + 1]
        IN  IF i > 1 /\ t[i].start < t[i - 1].start THEN Swap(t, i) ELSE t
  IN down[1]

ArcInsert(cache, range) ==
  [ranges |-> Sink(Append(cache.ranges, range)), capacity |-> Grown(cache)]

\* Mutant of Holds: the end address is excluded.
HoldsBeforeEnd(range, addr) == range.start <= addr /\ addr < range.end

Holds(range, addr) == range.start <= addr /\ addr <= range.end

None == 0
Outside == -1

\* right = size - 1, which wraps around in an empty array.
LastIndex(s) == (Len(s) - 1) % (SizeMax + 1)

\* arc_lookup: the place of a range, None for nullptr, or Outside for a search
\* that reads past the ranges.  Indices count from 0.
ArcLookup(cache, addr) ==
  LET s == cache.ranges
      search[ends \in (0 .. SizeMax) \X (0 .. SizeMax)] ==
        LET left == ends[1]
            right == ends[2]
            mid == ((left + right) % (SizeMax + 1)) \div 2
        IN IF left > right THEN None
           ELSE IF mid >= Len(s) THEN Outside
           ELSE IF Holds(s[mid + 1], addr) THEN mid + 1
           ELSE IF addr >= s[mid + 1].start THEN search[<<mid + 1, right>>]
           ELSE IF mid = 0 THEN None ELSE search[<<left, mid - 1>>]
  IN search[<<0, LastIndex(s)>>]
=============================================================================
