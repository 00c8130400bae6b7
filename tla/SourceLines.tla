------------------------------ MODULE SourceLines ------------------------------
(***************************************************************************)
(* The two tables that turn a click into an address: the lines of the step *)
(* view (step_view_load of src/ui/step_view.c) and the line table of the   *)
(* executable (find_address_by_line of src/dwarf/conversion.c).            *)
(*                                                                         *)
(* A source file is the sequence of the lengths of its lines, newline      *)
(* included.  A line table is a sequence of compile units, each a sequence *)
(* of rows; ok is FALSE in a unit that cannot be read, and in a row that   *)
(* lacks its file, line or address.                                        *)
(***************************************************************************)
EXTENDS Integers, Sequences

CONSTANTS
  Chunk,     \* the characters one fgets returns at most: 224
  FirstCap   \* the room for lines step_view_load starts with: 10

ASSUME SourceLinesAssumption == Chunk \in Nat \ {0} /\ FirstCap \in Nat \ {0}

\* The fgets calls a line of n characters takes.
Pieces(n) == (n + Chunk - 1) \div Chunk

\* step_view_load: each fgets makes a line of the view.  Its source_num is
\* its place; what is recorded here is the line of the file it shows.
ViewOf(lens) ==
  LET upto[i \in 0 .. Len(lens)] ==
        IF i = 0 THEN <<>>
        ELSE upto[i - 1] \o [p \in 1 .. Pieces(lens[i]) |-> i]
  IN upto[Len(lens)]

\* Mutant of RoomFor: the array grows once it is more than full.
RoomTooLate(count) ==
  LET room[n \in 0 .. count] ==
        IF n = 0 THEN FirstCap
        ELSE IF n - 1 > room[n - 1] THEN 2 * room[n - 1] ELSE room[n - 1]
  IN room[count]

\* The room in the view's array when its count-th line is stored.
RoomFor(count) ==
  LET room[n \in 0 .. count] ==
        IF n = 0 THEN FirstCap
        ELSE IF n - 1 = room[n - 1] THEN 2 * room[n - 1] ELSE room[n - 1]
  IN room[count]

Matches(row, file, line) == row.ok /\ row.file = file /\ row.line = line

\* The first matching row of a unit, or 0.
InUnit(unit, file, line) ==
  LET from[i \in 1 .. Len(unit.rows) + 1] ==
        IF i > Len(unit.rows) THEN 0
        ELSE IF Matches(unit.rows[i], file, line) THEN i ELSE from[i + 1]
  IN IF unit.ok THEN from[1] ELSE 0

\* Mutant of AddressOfLine: a unit that cannot be read ends the search.
AddressUntilBad(units, file, line) ==
  LET from[u \in 1 .. Len(units) + 1] ==
        IF u > Len(units) THEN 0
        ELSE IF ~units[u].ok THEN 0
        ELSE LET i == InUnit(units[u], file, line) IN
             IF i # 0 THEN units[u].rows[i].addr ELSE from[u + 1]
  IN from[1]

\* find_address_by_line: the address of the first match, or 0.
AddressOfLine(units, file, line) ==
  LET from[u \in 1 .. Len(units) + 1] ==
        IF u > Len(units) THEN 0
        ELSE LET i == InUnit(units[u], file, line) IN
             IF i # 0 THEN units[u].rows[i].addr ELSE from[u + 1]
  IN from[1]
=============================================================================
