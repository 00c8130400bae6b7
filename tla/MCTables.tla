------------------------------- MODULE MCTables -------------------------------
(***************************************************************************)
(* LineCache, SourceLines, Registers and Slice for TLC: their operators    *)
(* against what they are to compute, over every small cache, source file,  *)
(* line table, register file and slice of a buffer.  The inputs grow by    *)
(* one item a step, one of the five at a time.                             *)
(***************************************************************************)
EXTENDS LineCache, SourceLines, Registers, Slice, FiniteSets, SequencesExt

CONSTANTS
  Addrs,       \* addresses of ranges and rows
  Caps,        \* initial capacities of a cache
  Lengths,     \* line lengths, of which some exceed Chunk
  Files,       \* source files
  Shown,       \* the file the step view shows
  MaxItems,    \* bound: ranges, lines
  MaxRows,     \* bound: rows
  MaxSet,      \* bound: registers that are not zero
  Buffer       \* elements in the buffer of a slice

\* Addresses are numbers, a line that is read has a character, an index into a
\* cache is far below SIZE_MAX, and a slice can hold the length of its buffer.
ASSUME TablesAssumption ==
  /\ Addrs \subseteq Int /\ Caps \subseteq Nat \ {0} /\ Lengths \subseteq Nat \ {0}
  /\ MaxItems \in Nat /\ 2 * MaxItems <= SizeMax
  /\ Buffer \in 0 .. LengthMax

VARIABLES
  cache, given,   \* a cache, and the ranges that were inserted into it
  lens,           \* the lines of a source file
  units,          \* a line table
  file, written,  \* a register file, and by field what was written to it
  slice, asked    \* a slice, and the interval of the buffer it was asked for

registers == <<file, written>>
slices == <<slice, asked>>

vars == <<cache, given, lens, units, registers, slices>>

Zero == [f \in ToSet(UserRegs) |-> 0]

Init ==
  /\ \E cap \in Caps : cache = ArcCreate(cap)
  /\ given = <<>> /\ lens = <<>> /\ units = <<>>
  /\ file = [i \in DOMAIN UserRegs |-> 0] /\ written = Zero
  /\ slice = SliceNew(0, Buffer) /\ asked = [from |-> 0, to |-> Buffer]

NoSlice == slice = SliceNew(0, Buffer)

InsertRange ==
  /\ Len(given) < MaxItems /\ written = Zero /\ lens = <<>> /\ units = <<>> /\ NoSlice
  /\ \E a, b \in Addrs :
       LET range == [start |-> a, end |-> b, line |-> Len(given) + 1] IN
       /\ a <= b
       /\ cache' = ArcInsert(cache, range)
       /\ given' = Append(given, range)
  /\ UNCHANGED <<lens, units, registers, slices>>

AddLine ==
  /\ Len(lens) < MaxItems /\ written = Zero /\ given = <<>> /\ units = <<>> /\ NoSlice
  /\ \E n \in Lengths : lens' = Append(lens, n)
  /\ UNCHANGED <<cache, given, units, registers, slices>>

RowCount == Len(FlattenSeq([u \in DOMAIN units |-> units[u].rows]))

\* A new unit, or a row for the last one; libdw sorts rows by address.
AddRow ==
  /\ given = <<>> /\ lens = <<>> /\ written = Zero /\ NoSlice
  /\ \/ Len(units) < 2
        /\ \E ok \in BOOLEAN : units' = Append(units, [ok |-> ok, rows |-> <<>>])
     \/ /\ units # <<>> /\ RowCount < MaxRows
        /\ \E ok \in BOOLEAN, f \in Files, l \in 1 .. 2, a \in Addrs :
             LET rows == Last(units).rows IN
             /\ rows # <<>> => Last(rows).addr <= a
             /\ units' = [units EXCEPT ![Len(units)].rows =
                            Append(@, [ok |-> ok, file |-> f, line |-> l, addr |-> a])]
  /\ UNCHANGED <<cache, given, lens, registers, slices>>

\* set_register_value of the register with a field's name.
WriteRegister ==
  /\ given = <<>> /\ lens = <<>> /\ units = <<>> /\ NoSlice
  /\ \E f \in ToSet(UserRegs), v \in 0 .. 1 :
       /\ written' = [written EXCEPT ![f] = v]
       /\ file' = SetRegister(file, FromName(f), v)
  /\ Cardinality({f \in DOMAIN written : written'[f] # 0}) <= MaxSet
  /\ UNCHANGED <<cache, given, lens, units, slices>>

\* A slice of a part of the buffer, or of a part of the slice.
TakeSlice ==
  /\ given = <<>> /\ lens = <<>> /\ units = <<>> /\ written = Zero
  /\ \E start, end \in 0 .. Buffer :
       \/ /\ slice' = SliceNew(start, end)
          /\ asked' = [from |-> start, to |-> start + end]
       \/ /\ slice' = Subslice(slice, start, end)
          /\ asked' = [from |-> asked.from + start, to |-> asked.from + end]
  /\ asked'.to <= Buffer /\ asked'.from <= Buffer
  /\ UNCHANGED <<cache, given, lens, units, registers>>

Next == InsertRange \/ AddLine \/ AddRow \/ WriteRegister \/ TakeSlice

Spec == Init /\ [][Next]_vars

-----------------------------------------------------------------------------

\* The array holds what was inserted, sorted by start address, equal starts in
\* order of insertion, and never more than it has room for.
Sorted ==
  /\ Len(cache.ranges) <= cache.capacity
  /\ Len(cache.ranges) = Len(given) /\ ToSet(cache.ranges) = ToSet(given)
  /\ \A i, j \in DOMAIN cache.ranges :
       i < j => LET r == cache.ranges[i]
                    s == cache.ranges[j]
                IN r.start < s.start \/ (r.start = s.start /\ r.line < s.line)

\* What the pointer to the i-th range shows after a step: the array it points
\* into is given up when the cache moves to a larger one.
Shows(i) ==
  IF cache'.capacity = cache.capacity THEN cache'.ranges[i] ELSE cache.ranges[i]

\* Insertions keep the array sorted, and a pointer that arc_lookup returned
\* before one shows the same range after it, unless the new range sorts before
\* it and the array had room: then it silently shows another one, which starts
\* no later (arc_insert moves ranges under the pointers of its callers).
InsertsUnder ==
  [][given' # given =>
       /\ Sorted'
       /\ \A i \in DOMAIN cache.ranges :
            LET old == cache.ranges[i] IN
            /\ Shows(i) = old <=>
                 Last(given').start >= old.start \/ cache'.capacity # cache.capacity
            /\ Shows(i).start <= old.start]_vars

\* Ranges whose ends are in the order of their starts, as the lines of a
\* function are; a range nested in another one is not.
Unnested ==
  \A i, j \in DOMAIN given :
    given[i].start <= given[j].start => given[i].end <= given[j].end

\* arc_lookup returns a range that includes the address, and fails only when
\* there is none, in a cache of unnested ranges.  (With nested ones the binary
\* search may pass by the outer one.)  It reads past the ranges exactly when
\* there are none: size - 1 wraps then, and never otherwise does an index.
LookupFinds ==
  \A addr \in Addrs :
    LET i == ArcLookup(cache, addr)
        hits == {j \in DOMAIN given : addr \in given[j].start .. given[j].end}
    IN /\ i = Outside <=> given = <<>>
       /\ i > 0 => cache.ranges[i].line \in hits
       /\ Unnested /\ i = None => hits = {}

\* The line numbers of the step view are those of the file up to the first
\* line of more than Chunk characters and wrong after it: the rest of such a
\* line counts as a line (step_view.c:30-43).  A line's address is looked up
\* by this number.
NumbersHold ==
  LET view == ViewOf(lens)
      long == {i \in DOMAIN lens : lens[i] > Chunk}
  IN /\ \A n \in DOMAIN view :
          (n = view[n]) <=> \A i \in long : n <= i
     /\ \A i \in DOMAIN lens : \E n \in DOMAIN view : view[n] = i
     /\ \A n \in DOMAIN view : n <= RoomFor(n)

\* find_address_by_line finds a line that a readable row has, in the lowest
\* address its unit gives it, whatever rows and units beside it are unreadable;
\* 0 means there is no such row.
AddressRight ==
  \A l \in 1 .. 2 :
    LET ofLine(u) == {units[u].rows[i].addr :
                        i \in {i \in DOMAIN units[u].rows :
                                 LET r == units[u].rows[i] IN
                                 r.ok /\ r.file = Shown /\ r.line = l}}
        having == {u \in DOMAIN units : units[u].ok /\ ofLine(u) # {}}
        a == AddressOfLine(units, Shown, l)
    IN IF having = {} THEN a = 0
       ELSE \E u \in having :
              /\ \A v \in having : u <= v
              /\ a \in ofLine(u) /\ \A b \in ofLine(u) : a <= b

\* Every way to a register ends at one word of the file, the one the kernel
\* keeps it in: what set_register_value writes is in the field of that name and
\* in no other, and the reads by register and by DWARF number return it, for
\* every number the ABI gives to a field (registers.c, whose table has to be in
\* the order of struct user_regs_struct).
RegistersAgree ==
  given = <<>> /\ lens = <<>> /\ units = <<>> =>
    /\ \A i \in DOMAIN UserRegs :
         LET r == FromName(UserRegs[i]) IN
         /\ file[i] = written[UserRegs[i]]
         /\ GetRegister(file, r) = file[i] /\ NameOf(r) = UserRegs[i]
    /\ \A n \in DOMAIN AbiRegs :
         GetRegister(file, FromDwarf(n)) = written[AbiRegs[n]]

\* Through slices of slices, in order and out of order, an index that the assert
\* admits reads an element of the interval last asked for, and every element of
\* it can be read, if that interval does not end before it starts.  If it does,
\* its length wraps and the assert lets an index by that leaves the buffer.
SliceReads ==
  LET read == {ElementAt(slice, i) : i \in {i \in 0 .. LengthMax : Admits(slice, i)}}
  IN IF asked.from <= asked.to
       THEN read = asked.from .. (asked.to - 1)
       ELSE \E e \in read : e >= Buffer
=============================================================================
