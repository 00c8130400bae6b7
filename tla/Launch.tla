-------------------------------- MODULE Launch --------------------------------
(***************************************************************************)
(* How VannaDBG starts: src/main.c forks, the child asks to be traced and  *)
(* executes the program, and the parent waits for it, reads its symbols    *)
(* and mappings under /proc and hands it to the user interface.  Both      *)
(* processes run freely, and a signal may reach the child before its exec. *)
(*                                                                         *)
(* An image names whose text a process runs: VannaDBG's own, "self", until *)
(* execl puts the program in its place.                                    *)
(***************************************************************************)
EXTENDS Naturals

Image == {"self", "program"}

\* What the child is doing; a "loose" child runs and nobody traces it, a
\* "halted" one was stopped before anybody did.
ChildState == {"none", "forked", "halted", "traced", "stopped", "loose", "exited",
               "killed"}

VARIABLES
  exe,        \* ./test_files/a.out: "good", "stripped", "unreadable", "missing"
  child,      \* state of the child process
  image,      \* what the child runs
  signalled,  \* a signal stopped the traced child before its exec
  at,         \* where main is in the parent
  status,     \* what waitpid stored
  mainAddr,   \* the image whose main find_main_address found, or "none"
  base        \* the image whose mapping dbgr.base_addr is, or "none"

vars == <<exe, child, image, signalled, at, status, mainAddr, base>>
childVars == <<child, image, signalled>>

\* "ui" is where the event loop begins, "no_window" the return of start_ui
\* without one; "loop" and "closed" are for Session, which goes on from "ui".
At == {"fork", "wait", "find_main", "symbols", "check", "open", "debugger",
       "start_ui", "ui", "returned", "no_window", "crashed", "loop", "closed"}

TypeOK ==
  /\ exe \in {"good", "stripped", "unreadable", "missing"}
  /\ child \in ChildState /\ image \in Image /\ signalled \in BOOLEAN
  /\ at \in At
  /\ status \in {"none", "stopped", "exited", "signaled"}
  /\ mainAddr \in Image \cup {"none"} /\ base \in Image \cup {"none"}

Init ==
  /\ exe \in {"good", "stripped", "unreadable", "missing"}
  /\ child = "none" /\ image = "self" /\ signalled = FALSE
  /\ at = "fork" /\ status = "none"
  /\ mainAddr = "none" /\ base = "none"

Dead == child \in {"exited", "killed"}
Ended == at \in {"ui", "returned", "no_window", "crashed"}

\* The parent dies or returns from main: a child that was traced runs on.
LeaveChild ==
  child' = IF child \in {"traced", "stopped"} THEN "loose" ELSE child

-----------------------------------------------------------------------------
(* The child: execute_debugee.                                             *)

\* Mutant of TraceMe: PTRACE_TRACEME is not asked for.
SkipTraceMe ==
  /\ child = "forked"
  /\ child' = "loose"
  /\ UNCHANGED <<image, signalled>>

\* PTRACE_TRACEME; when it fails the child returns from execute_debugee and
\* leaves main.
TraceMe ==
  /\ child = "forked"
  /\ child' \in {"traced", "exited"}
  /\ UNCHANGED <<image, signalled>>

\* execl: a traced process stops in the new image; execl of a file that is
\* not there returns, and the child exits.
Execl ==
  /\ child \in {"traced", "loose"} /\ image = "self"
  /\ IF exe = "missing"
       THEN child' = "exited" /\ UNCHANGED image
       ELSE /\ child' = IF child = "traced" THEN "stopped" ELSE "loose"
            /\ image' = "program"
  /\ UNCHANGED signalled

\* A signal before the exec: it stops a traced child for the tracer to see.
\* One that is not traced yet it kills or, as SIGSTOP, halts until SIGCONT
\* comes; and SIGKILL kills any.
Signal ==
  /\ \/ child = "traced" /\ child' = "stopped"
     \/ child = "forked" /\ child' = "halted"
     \/ child = "halted" /\ child' = "forked"
     \/ child \in {"forked", "halted", "traced"} /\ child' = "killed"
  /\ signalled' = (signalled \/ child' = "stopped")
  /\ UNCHANGED image

ChildStep == (TraceMe \/ Execl) /\ UNCHANGED <<exe, at, status, mainAddr, base>>

-----------------------------------------------------------------------------
(* The parent: main.                                                       *)

\* fork; when it fails main runs off its end.
Fork ==
  /\ at = "fork"
  /\ \/ child' = "forked" /\ at' = "wait"
     \/ child' = child /\ at' = "returned"
  /\ UNCHANGED <<exe, image, signalled, status, mainAddr, base>>

\* Mutant of Wait: waitpid with WNOHANG.
WaitNoHang ==
  /\ at = "wait"
  /\ status' = IF Dead THEN "exited" ELSE "stopped"
  /\ at' = "find_main"
  /\ UNCHANGED <<exe, childVars, mainAddr, base>>

\* Mutant of Wait: the status is not decoded.
WaitRaw ==
  /\ at = "wait" /\ (Dead \/ child = "stopped")
  /\ status' = child
  /\ at' = "find_main"
  /\ UNCHANGED <<exe, childVars, mainAddr, base>>

\* waitpid without WUNTRACED: a child that was halted untraced is not reported.
Wait ==
  /\ at = "wait" /\ (Dead \/ child = "stopped")
  /\ status' = CASE child = "stopped" -> "stopped"
                 [] child = "exited" -> "exited"
                 [] child = "killed" -> "signaled"
  /\ at' = "find_main"
  /\ UNCHANGED <<exe, childVars, mainAddr, base>>

\* The file behind /proc/pid/exe can be opened: there is none for a process
\* that has ended.
Readable == ~Dead /\ (image = "program" => exe # "unreadable")

\* find_main_address opens the image; without one fileno gets a NULL pointer.
FindMain ==
  /\ at = "find_main"
  /\ IF Readable
       THEN at' = "symbols" /\ UNCHANGED child
       ELSE at' = "crashed" /\ LeaveChild
  /\ UNCHANGED <<exe, image, signalled, status, mainAddr, base>>

\* The walk over its symbol tables for a symbol called main; VannaDBG's own
\* image has one.  An image that libelf cannot make sense of has none.
Symbols ==
  /\ at = "symbols"
  /\ mainAddr' = IF image = "program" /\ exe = "stripped" THEN "none" ELSE image
  /\ at' = "check"
  /\ UNCHANGED <<exe, childVars, status, base>>

\* Mutant of Check: WIFSTOPPED is not negated.
CheckStopped ==
  /\ at = "check"
  /\ IF status \in {"exited", "stopped"}
       THEN at' = "returned" /\ LeaveChild
       ELSE at' = "open" /\ UNCHANGED child
  /\ UNCHANGED <<exe, image, signalled, status, mainAddr, base>>

\* WIFEXITED and WIFSTOPPED.
Check ==
  /\ at = "check"
  /\ IF status # "stopped"
       THEN at' = "returned" /\ LeaveChild
       ELSE at' = "open" /\ UNCHANGED child
  /\ UNCHANGED <<exe, image, signalled, status, mainAddr, base>>

\* fopen of the program, and fileno before the assert on its result.
OpenProgram ==
  /\ at = "open"
  /\ IF exe \in {"missing", "unreadable"}
       THEN at' = "crashed" /\ LeaveChild
       ELSE at' = "debugger" /\ UNCHANGED child
  /\ UNCHANGED <<exe, image, signalled, status, mainAddr, base>>

\* debugger(): the base address is where the child's image is mapped now.
MakeDebugger ==
  /\ at = "debugger"
  /\ base' = image
  /\ at' = "start_ui"
  /\ UNCHANGED <<exe, childVars, status, mainAddr>>

\* start_ui: a window may not be had, and the source file may be missing.
StartUi ==
  /\ at = "start_ui"
  /\ at' \in {"ui", "no_window", "crashed"}
  /\ IF at' = "ui" THEN UNCHANGED child ELSE LeaveChild
  /\ UNCHANGED <<exe, image, signalled, status, mainAddr, base>>

Parent ==
  \/ Fork \/ Wait \/ FindMain \/ Symbols \/ Check \/ OpenProgram
  \/ MakeDebugger \/ StartUi

SignalStep == Signal /\ UNCHANGED <<exe, at, status, mainAddr, base>>

Next == Parent \/ ChildStep \/ SignalStep

\* Both processes are scheduled; no signal has to come, SIGCONT included.
Spec == Init /\ [][Next]_vars /\ WF_vars(Parent) /\ WF_vars(ChildStep)

-----------------------------------------------------------------------------

\* The user interface gets a child in the state Debugger starts from: stopped
\* at the entry of the program, with the base address of the program's image.
\* A signal that stops the traced child before its exec is the one thing that
\* breaks this: waitpid returns for any stop, and main never looks at which one
\* it was (main.c:37-66).  A stop before PTRACE_TRACEME only delays it.
StartsAtEntry ==
  at = "ui" /\ ~signalled =>
    child = "stopped" /\ image = "program" /\ base = "program"

\* The main address that is printed and the base address breakpoints are set
\* with are those of one image, whenever they were read: nothing the child
\* does comes between the two reads of /proc (main.c:41 and debugger.c:33).
OneImage == at = "ui" /\ mainAddr # "none" => mainAddr = base

\* The program runs loose only when VannaDBG crashes, gets no window or has its
\* window closed; the other returns of main, after fork and after waitpid, leave
\* no process behind (main.c:31-54, 75-76).
NoStray == child = "loose" => at \in {"no_window", "crashed", "closed"}

\* The launch ends: waitpid does not block for ever, whichever of fork, ptrace
\* and execl fails and whenever a signal comes, unless a signal halts the child
\* before it is traced and it stays so, or is halted again and again: waitpid
\* is not told of that stop (main.c:38).
LaunchEnds == <>[](child # "halted") => <>Ended

-----------------------------------------------------------------------------

\* A child that exits, because PTRACE_TRACEME or execl failed, is reported as
\* "Child exited" (main.c:47-50).
ExitIsReported == status = "exited" => at # "crashed"
=============================================================================
