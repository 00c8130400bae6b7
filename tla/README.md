# VannaDBG in TLA+

VannaDBG is a breakpoint debugger for x86-64 Linux: it forks a program, traces
it with ptrace, shows its source in a window, sets a breakpoint where a line is
clicked and continues when a key is pressed.  This directory models it in TLA+,
checks the models with TLC and proves the main results with TLAPS.

Paths are relative to the repository's root.

## 1. The system

### Components

| component | code | state | operations | models |
|---|---|---|---|---|
| breakpoint engine | `src/core/debugger.c`, `breakpoint.c` | table address -> breakpoint (saved byte, enabled) | set, remove, step over, continue | `Debugger` |
| registers | `src/core/registers.c` | none; the debuggee's register file | get, set, lookups by name and DWARF number | in `Debugger`; the table in `Registers` |
| launch | `src/main.c` | two processes, a wait status | fork, trace, exec, wait, check, hand over | `Launch`, `Session` |
| hash map | `src/domain/hashmap.h` | buckets, chains of entries in an arena | create, put, get, remove | `HashMap`, `Dictionary`, `Map` |
| arena | `src/domain/arena.h` | base, offset, capacity | create, alloc, scratch, reset, destroy | `Arena` |
| line address lookup | `src/dwarf/conversion.c` | none (reads DWARF and /proc) | line -> address, main, base | `SourceLines`, `Launch` |
| address range cache | `src/dwarf/addr_range_cache.c` | sorted array | create, insert, lookup | `LineCache` |
| step view | `src/ui/step_view.c` | lines with number and mark | load, click, keys U and space | `Debugger`, `Session`, `SourceLines` |
| interface loop | `src/ui/ui.c` | GLFW window, queues of events | event loop, close | `Session`, `Debugger`, `Launch` |
| register view | `src/ui/register_view.c` | none | reads and draws the registers, one by one | `Session` |
| slice | `src/domain/slice.h` | pointer, length of 32 bits | new, subslice, checked index | `Slice` |
| `ui_c` arena | `ui_c/src/base/base_arena.c` | offset, capacity | push, pop, reset, scratch, release | `BaseArena` |
| `ui_c` window | `ui_c/src/main.c`, `os/os_gfx.c`, `render/render.c` | GLFW, window, context | open, render, poll, close | `Window` |
| `ocaml-eval` lists | `ocaml-eval/src/basic` | nodes with a mutable next | insert after, in front, at the back | `BoxList` |
| `ui_c` strings, drawing, widgets | `ui_c/src` | none | helpers and beginnings of a second front end | not modelled |

### How they interact

`main` launches the debuggee and, once it has stopped, hands `debugger_t` to
`start_ui`.  From there on there is **one thread** in VannaDBG.  GLFW calls the
key callback inside `glfwPollEvents`, ImGui reports clicks while the lines are
drawn, later in the frame, and both call the breakpoint engine directly.  The
engine keeps its breakpoints in the hash map, which lives in a scratch arena of `main`.  The step view keeps a mark per line,
separately from the table.

The second actor is **the debuggee**, with the kernel.  VannaDBG never blocks
it; it only stops at traps and signals.  Every ptrace call fails while it runs,
and the code looks at a few of the results only, some of them inside asserts.
So between any two system calls of the engine the debuggee may execute, trap,
get a signal or exit, and the engine goes on with what it read before.

### What is hard

* **Interleaving.**  U continues without waiting.  A space or a click that
  follows races with the next trap, system call by system call.
* **Frames.**  Keys are acted on before clicks that were made earlier, clicks one
  a frame, and a continue blocks the loop; the registers of one dump are read by
  27 calls while the debuggee may run.
* **Stepping over** takes eight system calls (registers read twice and written,
  text read and written, single step, wait, text read and written) during which
  a breakpoint is missing from the text.
* **Failures that go unnoticed.**  A failed GETREGS leaves an uninitialized
  register file, a failed PEEK returns -1, a wait's status is thrown away.
* **Builds.**  In a Release build (`workflow.sh:20` configures one; NDEBUG) the
  asserts vanish, and with them the POKE that plants the INT3 and every check that
  an arena is full.
* **Signals.**  No request hands a signal on: one that stops the debuggee is
  discarded when the debuggee goes on (`debugger.c:99,108`, `step_view.c:58`).
* **Keys.**  Breakpoints are stored under absolute addresses and removed under
  addresses in the image; lines without code share address 0, and with it one
  breakpoint.
* **Launch.**  Five calls in two processes can fail on their own, and a signal
  can stop the child before its exec, or before it is traced.
* **Memory.**  Arenas count bytes and advance by words; table entries are never
  given back; pointers into the table are held across calls; a scratch of `ui_c`
  is a saved offset that nothing protects.

Every hazard is listed in `PROJECT.json` at its line, with the properties that
would catch it going wrong or the reason why there is none.

### What makes each component correct

* Engine: marks, table and text agree, except as far as lines with one address
  make them differ; the debuggee never runs freely past a missing INT3; VannaDBG
  always returns to its event loop; as long as no signal has to be handed on and
  the keys are used with care, a debugged program executes what an undebugged one
  does.
* Launch: it ends, it hands over a program stopped at its entry with the right
  base address, and it reports a child that failed.
* Hash map: a dictionary, with pointers that are live views.
* Arenas: no byte belongs to two blocks, or, where nothing asserts that there is
  room, only after an arena ran full; blocks lie in the mapping; what a scratch of
  `ui_c` found is there at its end.
* Event loop: everything the user does is acted on, a dump of the registers is
  of one moment.
* Window of `ui_c`: no call without a window, and Escape ends the program.
* Lists: an insertion splices, and closes a cycle only if a box is inserted
  where it is already.
* Tables: the lookup of a line finds the right address or says there is none.

## 2. The modules

| module | what it is |
|---|---|
| `Map` | the finite map the hash map promises |
| `Tracee` | environment: instructions, text, ptrace stop states |
| `Debugger` | the engine, the step view's marks, keys and clicks; EXTENDS `Tracee` and `Map` |
| `Program` | abstract: the program that nobody debugs, with the signals it handles or dies of |
| `Transparency` | `Debugger` under careful use, with the refinement mapping to `Program` |
| `DebuggerProofs`, `TransparencyProofs` | theorems of the two |
| `Dictionary` | abstract: the contract of the hash map, pointers included |
| `HashMap` | the chained table, with its refinement mapping to `Dictionary` |
| `Launch` | `main`, the child, and the reads under /proc |
| `Session` | `Launch` and, from where it ends, the event loop frame by frame; EXTENDS `Launch` |
| `Arena`, `BaseArena` | the two bump allocators |
| `LineCache`, `SourceLines` | the pure algorithms of `src/dwarf` and `step_view_load` |
| `Registers` | the register table and the accesses through it |
| `Slice` | slices of a buffer |
| `Window` | the program of `ui_c`: window, shaders, frames |
| `BoxList` | the lists of `ocaml-eval` |
| `MC*` | instances for TLC; `MCTables`, `MCData` (`MCTables`, `HashMap` and `Arena`) and `MCUiC` also put modules side by side and specify them together |
| `SessionProofs` | theorems of `Launch` and `Session` |
| `HashMapProofs`, `ArenaProofs` | theorems of `HashMap` with its refinement, and of `Arena` |
| `TablesProofs` | theorems of `LineCache`, `SourceLines`, `Registers` and `Slice`, by way of `MCTables` |
| `UiCProofs` | theorems of `BaseArena`, `Window` and `BoxList` |
| `Induction` | induction, loops and fixed points, stated of sets of numbers; some arithmetic |

### Tracee

The program is any set of instructions with lengths and successors.  `text`
records for each byte whether it is the program's own, an INT3, or the 0xFF of
a failed PEEK written back.  `Exec`, `Trap`, `Exit`, `Signal` are the steps of
processor and kernel.  `Derail` is the execution of bytes that are no
instruction of the program: anything may follow, and `sane` becomes FALSE.
`pending` says that a signal has stopped the process which the program would
handle or die of; for one it ignores, `pending` stays FALSE.
`Resume`, `SetRegs` and `Detach` are what PTRACE_CONT and SINGLESTEP, SETREGS
and the death of the tracer do; requests to a process that is not stopped
change nothing.  `Resume` clears `pending`: the data argument of every PTRACE_CONT
and PTRACE_SINGLESTEP is NULL, which discards the signal.

When a tracer dies the kernel detaches its tracee, and a tracee that was in a
stop runs on.  This was tried on Linux 6.18 for the stops the debugger can die
in (after exec, INT3 and signals): the debuggee continues, untraced, without
the signal, and an INT3 in an untraced process kills it.

### Debugger

`ui` is the control state of the interface thread: `"idle"` is the event loop
of `start_ui`, every other label the system call that comes next.

| action | code |
|---|---|
| `SetBreakpoint`, `RemoveBreakpoint` | a click: `step_view_render` 127-138, then `set_breakpoint_at_addr` or `remove_breakpoint_at_addr` with `breakpoint_enable` or `breakpoint_disable` |
| `PressSpace` | `continue_execution` up to the lookup in `step_over_breakpoint` |
| `SetPcGetRegs`, `SetPcSetRegs` | `set_pc` |
| `DisableForStep`, `PokeForStep` | `breakpoint_disable` |
| `SingleStep`, `StepWait` | PTRACE_SINGLESTEP and `wait_for_signal` |
| `Reenable` | `breakpoint_enable` |
| `Cont`, `ContWait` | PTRACE_CONT and `wait_for_signal` |
| `PressU` | the U key |
| `Close` | Ctrl-W or the window's button: `main` returns |

A PEEK and a POKE that directly follow each other are one step when the PEEK
succeeds: the debuggee is stopped then and stays stopped until this thread
resumes it.  When the PEEK fails, the debuggee runs, and the POKE is a step of
its own (`PokeForStep`, `PokeForRemove`).  In `breakpoint_enable` the POKE is
not executed without asserts and not reached with them, so there is no such
step.  `MaybeBreakpoint` is the rip minus one, or any address when GETREGS
failed: what an uninitialized struct holds is a choice.  A failed `setregs`
leg sets `sane` to FALSE.

Lines that share an address (`Shared`), as all lines without code do at address 0,
share an entry.  Marking the second saves the INT3 of the first as the program's
byte; unmarking one of them disables the entry for both; after both are unmarked
the INT3 stays.  `TextMirrorsTable` and `MarksMirrorTable` say what still agrees
then, for every line: an enabled entry has its INT3 and a marked line, a disabled
one its saved byte.  A saved byte that is not the program's own, and a mark whose
entry is disabled, occur for shared addresses only.  `NoMissedBreakpoint` is of
marked lines with an address of their own.

`DebuggerAssumption` says that absolute addresses are never addresses in the
image (`LineAddr[l] \notin Text`): a position-independent executable, mapped
far from 0.  For a fixed-address one, `get_base_address` would be added to
addresses that are absolute already.

Not in the model: SIGKILL from outside between two ptrace calls, signals for a
process that runs loose, threads and forks of the debuggee, and a PEEK whose
word is a legitimate -1, which no instruction starts with.  The order in which the loop hands out keys and clicks
is not fixed here, so that what is checked and proved of `Debugger` holds for
every order; `Session` has the one of the code.

### Transparency and Program

The code does not guard against every use that disturbs the debuggee, so the
claim that debugging is invisible is stated for a contract of use,
`CarefulSpec`:

* click only while the debuggee is not running, and mark one of two lines with
  the same address at most (`MayClick`);
* press space only while it is not running, when the byte before the rip is an
  enabled breakpoint exactly if that breakpoint caused the stop, and not when a
  signal the program would notice caused it (`MayPressSpace`);
* press U only when the stop is neither a breakpoint's nor such a signal's
  (`MayPressU`);
* close the window with no breakpoint left set, none just hit and no such signal
  pending, or after the program ended (`MayClose`);
* no such signal arrives during the single step over a breakpoint, which the code
  follows with PTRACE_CONT whatever ended it (`MaySignal`).  This one is a condition
  on the environment, nothing a user can see to.

So `Invisible` says nothing of a program that is sent signals it handles or dies of
and is then gone on with: the code discards every such signal, and the debugged
program differs from the undebugged one from there on.  It does cover a stop at
such a signal, and any number of signals the program ignores.

Traps, exits and every system call are those of `Debugger`.  Each clause names a
behaviour of the code that breaks invisibility without it; the hazards list their
lines, and no property covers what the contract excludes.  `Program` is the
undebugged program: it executes, exits, receives a signal, and handles it or dies
of it.  The mapping takes a trapped rip back by the one byte of the INT3, and never
shows a handled signal.  The parity bit `ran` makes the execution of an instruction
visible, so that it can be neither repeated nor skipped where control stays in
place.

### HashMap and Dictionary

Entries are numbered in the order of their allocation, so `next` always points
to an older entry and 0 is NULL.  `held` are pointers callers got from
`hashmap_get` and still use.  `Dictionary` is the contract: `view` shows what
those pointers show.  `Overflow` is a put that the arena has no room for: with
asserts the one of `arena_alloc` fails, and a Release build puts the entry behind
the end of the arena.  Either way the model ends there (`full`), and so does what it
says of the table.  `Delete` drops the pointer that is held for the removed key:
callers are taken to be done with it.  `remove_breakpoint_at_addr` is not, it goes on
to disable the breakpoint through it (`debugger.c:82-85`); it works because the key
it removes is another one, and because the entry's bytes are never used again.

### Launch

`at` is where the parent is in `main`; `child` and `image` are the state of the
child and whose text it runs.  `exe` decides whether the executable is there,
readable and has symbols.  Parent and child steps interleave freely.  A failed
`fopen` reaches `fileno(NULL)`, which is a crash.  A signal stops a traced child for
the parent to see (`signalled`, if that is before its exec); one that is not traced
yet it kills or, as SIGSTOP, halts: the parent's `waitpid`, without WUNTRACED, is not
told, and waits until SIGCONT or SIGKILL comes.  Once `main` holds the child in a
stop, nothing kills it from outside.

### Session

`Session` joins `Launch` to the loop of `start_ui` at `at = "ui"`.  What happens
to breakpoints is `Debugger`'s; here it is whether a key or a click resumes the
debuggee, when it is acted on, and what is read meanwhile.

| `frame` | code | actions |
|---|---|---|
| `"test"` | `glfwWindowShouldClose`, `ui.c:105`; `graceful_shutdown` | `Test` |
| `"poll"` | `glfwPollEvents` and the key callback it runs | `Space`, `U`, `AskClose`, `PassClick`, `EndPoll` |
| `"wait"` | `waitpid` of a continue, inside `glfwPollEvents` | `Returns` |
| `"registers"` | `register_view_render`, a PTRACE_GETREGS a row | `ReadRow` |
| `"lines"` | `step_view_render` and the end of the frame | `DrawLines` |

`inbox`, `batch` and `clicks` are where an input waits: with the window system,
in the batch `glfwPollEvents` fetched, and in ImGui's queue, which shows the
lines one press a frame.  `moment` is the parity of the runs of the debuggee and
stands for its register file, `Junk` for the uninitialized struct of a failed
PTRACE_GETREGS.  `Die` is a failed assert, or the NULL of a removal that finds
nothing; it may happen wherever `Debugger`'s `Crash` can, and also when a line's
address has changed because the program was built anew between two clicks, which
`Debugger` leaves out.

### Arena, BaseArena

Addresses are bytes from the start of the mapping.  `Top` is
`base + Word * offset`, as the pointer arithmetic has it.  `blocks` are the
blocks callers still rely on: after a reset, neither blocks of that arena nor
arenas taken from it are used, which is the callers' duty and not enforced by
the code.

In `Arena` the build is a variable that no step changes, `ndebug`.  With asserts an
arena that is full ends the process (`Fail`); without them, as in the scripted
Release build, `Alloc` and `Scratch` go on past the capacity.  Two history variables
tell what then may still be relied on: `fits` of a block, that its arena had room
for it, and `sound`, the arenas that were taken from a sound one that had room for
them.

`BaseArena` has the calls in any order, as nothing in the code forbids one: a scratch
can be ended late, twice or out of order (`arena_test.c:44-55` of `ui_c` ends one
twice, the second time while a later one is open), and pops, resets and releases may
go below it.  `scratch` keeps every scratch begun; `kept` says that callers have kept
to it, and `died` which assert has failed and for what.  Asserts are compiled in: both scripted builds of `ui_c` keep
them.

### Window, BoxList

`Window` goes call by call through `main` of `ui_c`; each call that can fail
does so by choice, and the asserts are there because both scripted builds keep
them.  `key` is Escape as of the last poll, `asked` the flag of
`glfwSetWindowShouldClose`, which the window manager may set as well.  `linked`
is what `render.c:48` asks for and does not look at.

A heap of `BoxList` is the function `link`; the insertions are operators on it,
and a list is what a walk from a box finds.  `insert_back` in a list that does
not end never returns, so there is no such step.

`MCUiC` puts `BaseArena`, `Window` and `BoxList` side by side: they do not
interact, and a behaviour is of one of them.

### LineCache, SourceLines, Registers, Slice

Operators, one per function, loops as recursive functions.  `ArcLookup` counts
from 0 and modulo `SizeMax + 1`, as the C code does, and says `Outside` where it
would read past the ranges.  A slice's length is modulo `LengthMax + 1`.  A source file is the
sequence of its line lengths; a line table a sequence of units of rows.  What
libdw does is the input: units and rows may be unreadable, and rows of a unit
are sorted by address.  A register file is the sequence of the words of
`user_regs_struct`; the layout of that struct and the ABI's DWARF numbers are
stated in `Registers` from the system's headers, apart from the code's table.

## 3. The runs

Deadlock checking is off throughout: VannaDBG may be closed, the debuggee may
have exited, and an assert may have ended the process.

| run | bounds | what it shows |
|---|---|---|
| `debugger` | 4 instructions of 1 and 2 bytes, 4 lines of which 2 share an address | with asserts, shared addresses included: `TypeOK`, `TextMirrorsTable`, `MarksMirrorTable`, `NoMissedBreakpoint`, `DiesOnlyWithoutTracee`, `KeepsResponding` |
| `release` | 3 instructions, 3 lines of which 2 share an address | without asserts: `KeepsResponding`; its safety is proved for both builds |
| `shared_address` | as `debugger` | violated: `GreenMeansEnabled` |
| `release_int3` | as `debugger` | violated: `EnabledMeansInt3` |
| `removed_entry` | as `debugger` | violated: `RemovedMeansAbsent` |
| `transparency` | a loop of a 1-byte and a 2-byte instruction, 4 lines | `CarefulInv`, and `Invisible`: `Debugger` implements `Program` |
| `data` | hash table: 3 keys in one chain, room for 4 entries | `HashTypeOK`, `FullOnlyByRemovals` with `OneEntryPerKey`, `IsDictionary` |
| | arenas: words of 2, pages of 4, 3 pages, 2 scratch arenas, 3 blocks, both builds | `ArenaTypeOK`, `NoOverlap`, `ScratchesApart` |
| | tables: 4 ranges or lines, 3 rows in 2 units, 2 registers that are not zero, a buffer of 4 | `InsertsUnder`, `LookupFinds`, `NumbersHold`, `AddressRight`, `RegistersAgree`, `SliceReads` |
| `arena_mapping` | as `data` | violated: `BlocksInMapping` |
| `launch` | 2 lines, 3 rows of registers, 2 inputs waiting | `SessionTypeOK`, `StartsAtEntry`, `OneImage`, `NoStray`, `OneMoment`, `LaunchEnds`, `ActedOn` |
| `launch_exit` | none: `Launch` alone is finite | violated: `ExitIsReported` |
| `new_front_end` | words of 2, 2 pages of 4, 2 scratches begun, 3 blocks; 4 boxes | `TypeOK`, `NoOverlap`, `ScratchKeeps`, `FailsWithCause` of `BaseArena`; `CallsInOrder`, `EscapeEnds` of `Window`; `InsertionsSplice` of `BoxList` |
| `released_arena` | as `new_front_end` | violated: `ReleasedThrows` |

`data` and `new_front_end` put parts side by side that do not interact; a behaviour
is of one of them.

Why these bounds are enough:

* `debugger`: the engine works on one address at a time and looks at one byte
  of text; two lines with code of their own, one on an instruction of two bytes
  whose second byte a trapped rip can point at, and two lines that share an
  address give each case of its lookups.  The program branches, so a breakpoint
  can be passed by and met.  Clicks, keys and signals are unbounded.
* `release` has a smaller program because a missing assert lets more control
  states meet more texts; it keeps an INT3-free instruction of two bytes and
  the shared address.
* `transparency` has a loop, so a breakpoint is hit, stepped over and hit again.
* `data`, the hash table: unlinking distinguishes the first, a middle and the last entry of a
  chain, hence three keys in one chain; a second bucket stays empty because
  chains share nothing.  Room for one entry more than keys lets a removed key
  come back once before the arena is full.
* `launch`: of 27 rows, three are enough for junk before and real values after
  the debuggee's stop; two inputs are every pair that can be out of order, and
  an input that waits for ever waits behind one other.
* `data` and `new_front_end`, the arenas: sizes that are no multiple of a word, and
  pages that hold two words, exercise both roundings; two scratch arenas nest or lie
  side by side; two scratches of `ui_c` are ended in either order, twice, and below
  one another.  Four boxes make a list with a first, a middle and a last box and one
  more to insert, or two lists of two.
* `data`, the tables: four ranges make two halvings of the binary search and one or two
  doublings of the array; line lengths are below, at, above and twice above
  what one read returns.  The largest size, 15, and length, 7, are beyond what
  four ranges and a buffer of four need, so an index wraps only where the code
  subtracts below zero.  Two registers tell a write to the wrong word from one
  to the right word.

### Violations

* **`shared_address`** (`src/ui/step_view.c:130`): two lines without code are
  marked and one is unmarked.  The entry both share is disabled, and the other line
  is still drawn green.  `TextMirrorsTable` says what else is left: when the second
  mark is gone too, the INT3 it saved stays in the text.
* **`release_int3`** (`src/core/breakpoint.c:36`): the only POKE that plants an
  INT3 is the argument of an assert.
* **`removed_entry`** (`src/core/debugger.c:84`): a breakpoint is looked up by
  its absolute address and removed by its address in the image.  The entry
  stays.  `TextMirrorsTable` and `DiesOnlyWithoutTracee` show why the debugger
  works all the same: the entry is disabled, its saved byte is right, and the
  next set overwrites it.  The mutant that repairs the key makes two lines that
  share an address dereference NULL.
* **`launch_exit`** (`src/main.c:41`): the symbols are read before the status
  is looked at, and for a child that exited `fileno` gets NULL.
* **`released_arena`** (`ui_c/src/base/base_arena.c:36`): "If a user tries to use the
  arena again it will throw on assets".  Only a push of more than 0 bytes does; a
  push of 0, `arena_pop`, `arena_reset`, a scratch or another `arena_release` goes
  through.  `FailsWithCause` has the push that does fail.
* **`arena_mapping`** (`src/domain/arena.h:48`): blocks that pass the assert
  lie beyond the mapping.  VannaDBG's own use, 8 MiB out of 1 GiB, stays
  within it.

### Fairness

`KeepsResponding` assumes weak fairness of the interface thread's handler steps
and of the debuggee's execution: both are threads the kernel schedules, and a
system call that can return does.  Nobody has to press a key, and no signal has
to come.  The model's programs terminate or loop without stopping only where
the property says so (`sane`): in `MCDebugger` every path ends, so a continue is
over when the debuggee traps or exits.  A debuggee that runs for ever blocks
VannaDBG in `waitpid` for ever, by design of the code.

`LaunchEnds` assumes weak fairness of parent and child.  SIGCONT is not fair, so a
child that is halted before it is traced may stay so for ever, and may be halted
again and again; the property is of a child that from some time on is not.  `ActedOn` assumes it also
of the event loop and of the debuggee: a program that runs stops or ends, as
above.  Clicks and keys are not fair, and there may always be another one.  A
session that ends, because the window closes or an assert fails, acts on nothing
more, which `ActedOn` allows.

`EscapeEnds` assumes weak fairness of `main` of `ui_c`; that Escape is held down
is its premise.

## 4. The proofs

TLAPS proves the following for every value of the constants that the assumptions
admit: programs of any instructions, lengths and successors, any lines and
addresses, any number of registers, keys, ranges, arenas and boxes, any words and
pages.  Where a run checks the property as well, it has its name.

| module | theorem | statement |
|---|---|---|
| `DebuggerProofs` | `Inductive` | `Spec => []IndInv`, with asserts and without |
| | `TypeCorrect` | `Spec => []TypeOK` |
| | `TextAgrees` | `Spec => []TextMirrorsTable` |
| | `MarksAgree` | `Spec => []MarksMirrorTable` |
| | `NothingMissed` | `Spec => []NoMissedBreakpoint` |
| | `DiesForWantOfTracee` | `Spec => DiesOnlyWithoutTracee` |
| `TransparencyProofs` | `CarefulInvariant` | `CarefulSpec => []CarefulInv` |
| | `Transparent` | `CarefulSpec => Invisible`, a refinement |
| `SessionProofs` | `SessionInvariant` | `SessionSpec => []SessionInv` |
| | `SessionTypes` | `SessionSpec => []SessionTypeOK` |
| | `EntryReached` | `SessionSpec => []StartsAtEntry` |
| | `ImageAgrees` | `SessionSpec => []OneImage` |
| | `NoneStrays` | `SessionSpec => []NoStray` |
| | `RowsOfOneMoment` | `SessionSpec => []OneMoment` |
| `HashMapProofs` | `HashInvariant` | `HashSpec => []HashInv` |
| | `HashTypes` | `HashSpec => []HashTypeOK` |
| | `HashFullOnlyByRemovals` | `HashSpec => []FullOnlyByRemovals` |
| | `HashIsDictionary` | `HashSpec => IsDictionary`, a refinement |
| `ArenaProofs` | `ArenaInvariant` | `ArenaSpec => []ArenaInv`, with asserts and without |
| | `ArenaTypes` | `ArenaSpec => []ArenaTypeOK` |
| | `ArenaNoOverlap` | `ArenaSpec => []NoOverlap` |
| | `ArenaScratchesApart` | `ArenaSpec => []ScratchesApart` |
| `UiCProofs` | `ArenaInvariant` | `Spec => []ArenaInv`, of `BaseArena` |
| | `ArenaTypes` | `Spec => []TypeOK` |
| | `ArenaNoOverlap` | `Spec => []NoOverlap` |
| | `ArenaScratchKeeps` | `Spec => []ScratchKeeps` |
| | `ArenaFailsWithCause` | `Spec => []FailsWithCause` |
| | `WindowCallsInOrder` | `WindowSpec => []CallsInOrder` |
| | `ListsSplice` | `ListSpec => InsertionsSplice` |
| `TablesProofs` | `CacheInsertsUnder` | `Spec => InsertsUnder` |
| | `CacheLooksUp` | `Spec => []LookupFinds` |
| | `AddressIsRight` | `Spec => []AddressRight` |
| | `LinesNumbered` | `Spec => []NumbersHold` |
| | `RegistersAccord` | `Spec => []RegistersAgree` |
| | `SlicesRead` | `Spec => []SliceReads` |

So every invariant and every action property that a passing run checks is a
theorem, and so are the two refinements.

### Assumptions

They are named, stand where the constants are declared, and TLC evaluates each of
them on a run.

* `ProgramAssumption`, `DebuggerAssumption`: section 2, Debugger.
  `LinesAssumption`: a line's code starts where an instruction does.
* `SessionAssumption`: a dump has a row at least.
* `HashMapAssumption`: the hash of a key is a bucket, and there are finitely many
  keys.  A key is an address of 64 bits.
* `ArenaAssumption`, `BaseArenaAssumption`: a word and a page are not empty.  Sizes
  are natural numbers: those within a page of 2^64, which wrap the rounding, are not
  in the model.
* `BoxListAssumption`: finitely many boxes, none of them None.
* `TablesAssumption`: a line that `fgets` returns has a character at least, its
  newline if nothing else, and a cache is created with room for one range at least.
  Twice the ranges inserted stay within `SizeMax`, that is 2^64 - 1: they are in
  memory.  The buffer that is sliced is no longer than a slice's length can say:
  a longer one, whose length `slice.h` cuts short, is not in the model, and neither
  is a cache that is created with room for nothing, which cannot grow.
* `SourceLinesAssumption`, `LineCacheAssumption`, `SliceAssumption`: the size of a
  read, the room to begin with, and the widths of the integers are not 0.

### The inductive invariants

**`Debugger`.**  Neither agreement is inductive by itself.  `TextMirrorsTable`
after `DisableForStep` depends on the entry's saved byte and on the entry existing
at all; that is `EntryInv`, which says for each control state what is known of the
entry of `cur`.  Removal needs `DomainInv`: entries are under absolute addresses of
lines, so the key `RemovalKey` computes is never one of them, and a marked line
always has an entry.  `NoMissedBreakpoint` needs `LiftInv`: while a breakpoint is
lifted the debuggee is stopped or is running with the single-step flag on.  The
proof has one step per action; `EnvironmentIndInv` disposes of the debuggee's
steps, which leave table and text alone, and `SteadyIndInv` of the others that do.

**`Transparency`.**  `TextInv`: the text is the program's own but for enabled
INT3s.  `MarkInv`: breakpoints sit on lines.  `RipInv`: the rip is at an instruction
or, trapped, one past it.  `StepInv`: at each system call of a step-over the
debuggee is where the code takes it to be.  With it each step of `CarefulNext` is a
step of `Program` or a stutter: `Exec` is `Step` (text at the rip is the program's
own, so it is not `Derail`), `Exit` is `Halt`, `Signal` is `Receive` or a stutter,
and all others keep `Reached` and `pending`, in
particular `SetPcSetRegs`, which takes the rip back by the byte that `trapped`
accounts for.  `RipInv` also says that a pending signal is met at a stop in the event
loop or in the wait before it, so no call of a step-over discards one.

**`Session`.**  `ChildInv` says what the child may be at each place of `main`: up
to the wait it has not been let go, though it may be halted, and from the check of the status until the
first continue it is held in the stop that `waitpid` reported.  So whatever is read
of it between two calls is of one process in one stop.  `ImageInv`: unless a
signal stopped the traced child, that stop is the one after the exec, and what was read for the address of
`main` and for the base is of the image it runs.  `RowsInv`: a row that is real was
read from a stopped debuggee, and since nothing resumes it while a dump is under
way, it has been stopped since.  That is why rows may turn from junk to real but
never tell of two moments.

**`HashMap`.**  The chains are walks in the model, as in the code, but nothing is
proved of a walk step by step.  `Reached(entry, e)` is the least set with e in it
that is closed under `next`; `ChainReached` and `FindReached` show once that the
loops of the code visit exactly that set and find what is in it.  `Cells` says that
`next` is an older entry, so a chain ends.  `ChainsInv`: a bucket reaches entries of
its own keys only, and one for a key.  `HeldInv`: a pointer held is to the entry of
its key, which removal and the insertion of other keys leave reachable.  `DiedInv`
is what failing to allocate says.  Every step is then one of `Dictionary`:
`UpdateIsPut`, `InsertIsPut`, `RemoveIsRemove`, `GetIsGet`, `OverflowIsFail`.

**`Arena`.**  `NoOverlap` is not inductive: two blocks stay apart because what an
arena has left is its own.  `FreeInv`: the bytes a sound arena may still hand out
belong to no block that is not stray and to no other sound arena, though they may be
far beyond its mapping (`arena_mapping`).  `RoomInv`: with asserts all arenas are
sound and no block is stray, and a scratch arena ends where its parent goes on, which
holds without asserts too, since the parent goes on by the same amount.  A reset makes bytes free that were handed out, to blocks and to
scratch arenas, which are the ones taken from it, and theirs, and so on.  `NestInv`
says that only those can be there: what lies in an arena's stretch was taken from
it, through any number of arenas.  `Under` is that relation, as least closed set.

**`BaseArena`.**  `SpansInv`: the spans of blocks, in units of the offset and rounded
up, are below the offset and apart.  `ScratchInv`: a scratch
that is kept to began no higher than the arena is and than any scratch begun since,
so what those give back is above what it keeps.  `FailsWithCause` is in it as it
stands.  Nothing is assumed of the order of calls.

**`Window`.**  `WindowInv`: what each place of `main` has already got.

**`BoxList`.**  The heap has a type and no other invariant; what is proved is what
an insertion does to any heap in which every list ends.  `Path(next, b, s)` says that
s is the list from b, without a walk; `PathIsList` and `ListIsPath` show that it is
what the walk of the model finds, which takes that a list has a box once
(`PathInjective`) and so at most as many boxes as there are.  Where an insertion
closes a cycle, `CycleNeverEnds` names the set of boxes that no walk leaves; where
it does not, `Diverted` shows that every list still ends, those through the changed
boxes included.

**The tables.**  `CacheInv`: the ranges are sorted by their start.  `SinkStep` is one
round of the loop of an insertion, which keeps `Belongs`, and `SinkIs` its result,
`Shifted`: everything from the place on moves up by one, which is what pointers
into the array see.  `SearchStep` is one round of the binary search, by induction on
`right - left`: a branch leaves out only ranges that cannot hold the address if none
is nested in another, `mid` never wraps, and `mid - 1` does at 0 only, where the code
looks first.  `ScanFinds` is the loop over units and over rows, with `RowsInv`: rows are
sorted by address.  `Numbered` is what is true of the step view after each line of
the file, and `RoomEnough` that its array doubles before it is full.  `RegistersInv`
and `SliceInv` say what the file, and a slice of a slice, are of.

### Induction over data

The induction theorems of the library take an operator as parameter, which the
installed provers cannot instantiate.  `Induction` states the principle of a set: a
set of numbers with 0 in it, and with n + 1 whenever n, has all (`SetInduction`),
from the smallest number outside it (`NatMin`).  A recursive function of the models
is a CHOOSE until a function that obeys its equation is known.  `Repetitions` (a body
repeated n times), `Descent` (a recursion to smaller numbers), `Looping` (a loop that
may not end: its function is defined by the closed sets of its states) and
`Saturation` (a fixed point) give one.  After that a definition is used by its
equation only.

### Only model-checked

The liveness properties `KeepsResponding`, `LaunchEnds`, `ActedOn` and
`EscapeEnds`: fairness and ENABLED are out of the prover's reach.  And the six
violations, which are counterexamples.

## 5. Plan

Done, in this order: the engine and its environment, transparency, their
proofs, the hash map, the launch, the arenas, the tables; then the event loop
with the register view, slices, the window of `ui_c`, the lists of `ocaml-eval`,
and what an insertion does under the pointers of the address range cache.

Then the proofs of section 4, component by component: launch and event loop, the
two arenas, the window, the hash map with its refinement, the tables, the lists.

Next:

1. `HashMap` on `Arena`: a put takes three allocations, entry, key and value, in
   place of the number `MaxEntries`; and its proof, that entries are never in
   bytes of another, from `FreeInv`.
2. A finer `CarefulSpec`: which clause of the contract is needed for which
   part of `Invisible`; and what a debugged program that loses its signals still has
   in common with the undebugged one.
3. `Session` over `Debugger`: that the order in which the loop hands out keys and
   clicks is one of those `Debugger` allows.

### Not modelled

* What drawing submits, and the set-up of ImGui and OpenGL in `start_ui`: calls
  to libraries that change no state of VannaDBG.
* `read_memory`, `write_memory`, `breakpoint()` and `get_source_line_from_rip`
  have no caller; `conversion.c:244-398` and, in `ui_c/src/main.c`, lines 12-65
  and 136-288 are commented out.
* `ui_c`'s `draw.c`, `ui_core.h` and widgets: nothing calls them, and `ui_core.h`
  does not compile yet.  Its string helpers are one line each, without state.
* libdw, the kernel, GLFW and ImGui are environment: their failures and answers
  are choices in the models.
