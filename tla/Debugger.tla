------------------------------- MODULE Debugger -------------------------------
(***************************************************************************)
(* The breakpoint engine of src/core and the user interface calls that     *)
(* drive it.  The interface is one thread; every ptrace or waitpid call it *)
(* makes is a step of its own, because the debuggee runs, traps, gets      *)
(* signals and exits between any two of them unless it is stopped.         *)
(*                                                                         *)
(* ui is the control state of that thread: "idle" is the event loop, and   *)
(* each other label names the next system call of continue_execution or    *)
(* breakpoint_disable.                                                     *)
(***************************************************************************)
EXTENDS Tracee, Map

CONSTANTS
  NDEBUG,    \* assert() is compiled out, side effects and all (Release build)
  Base,      \* where the image is mapped: debugger_t.base_addr
  Lines,     \* the source lines of the step view
  LineAddr   \* find_address_by_line: the address in the image, 0 if not found

Abs(l) == LineAddr[l] + Base

ASSUME DebuggerAssumption ==
  /\ NDEBUG \in BOOLEAN
  /\ Base \in Nat \ {0}
  /\ LineAddr \in [Lines -> Nat]
  /\ \A l \in Lines : Abs(l) \in Text /\ LineAddr[l] \notin Text

VARIABLES
  bps,     \* debugger_t.breakpoints: address -> breakpoint_t
  lineOn,  \* step_line_t.breakpoint_enabled, by line
  ui,      \* control state of the interface thread
  cur      \* the address step_over_breakpoint or a disable works on, or 0

dbgVars == <<bps, lineOn, ui, cur>>
vars == <<st, pc, text, step, trapped, pending, sane, ran, bps, lineOn, ui, cur>>

Breakpoint == [saved : Byte, enabled : BOOLEAN]

Labels == {"idle", "getregs", "setregs", "setjunk", "disable", "poke", "sstep",
           "swait", "enable", "cont", "cwait", "poke_remove", "closed",
           "aborted"}

IsEnabled(a) == a \in DOMAIN bps /\ bps[a].enabled

Init ==
  /\ TraceeInit
  /\ bps = EmptyMap
  /\ lineOn = [l \in Lines |-> FALSE]
  /\ ui = "idle"
  /\ cur = 0

-----------------------------------------------------------------------------
(* breakpoint.c                                                            *)

\* A failed assert or a NULL dereference: the tracer dies.
Crash ==
  /\ ui' = "aborted"
  /\ cur' = 0
  /\ Detach
  /\ UNCHANGED bps

\* Mutant of Enable: the entry is stored under the address in the image.
EnableUnderOffset(a, next) ==
  /\ bps' = MapPut(bps, a - Base, [saved |-> "orig", enabled |-> TRUE])
  /\ ui' = next /\ cur' = 0
  /\ TraceeUnchanged

\* breakpoint_enable.  PEEKDATA of a process that is not stopped returns -1,
\* which the assert catches or, compiled out, is saved as the byte 0xFF.  The
\* POKETEXT is inside an assert.
Enable(a, next) ==
  \/ /\ Stopped
     /\ bps' = MapPut(bps, a, [saved |-> text[a], enabled |-> TRUE])
     /\ text' = IF NDEBUG THEN text ELSE [text EXCEPT ![a] = "int3"]
     /\ UNCHANGED <<st, pc, step, trapped, pending, sane, ran>>
     /\ ui' = next /\ cur' = 0
  \/ /\ ~Stopped /\ NDEBUG
     /\ bps' = MapPut(bps, a, [saved |-> "ones", enabled |-> TRUE])
     /\ TraceeUnchanged
     /\ ui' = next /\ cur' = 0
  \/ ~Stopped /\ ~NDEBUG /\ Crash

\* Mutant of Disabled: the flag of the entry is not reset.
DisabledStillOn(a) == bps

\* The map after the entry for a has been disabled.
Disabled(a) == [bps EXCEPT ![a].enabled = FALSE]

\* Mutant of RemovalKey: the key the entry is stored under, which two marked
\* lines may share.
AbsoluteRemovalKey(a) == a

\* The key remove_breakpoint_at_addr removes for the breakpoint at a: the
\* address in the image, while entries are stored under the absolute one.
RemovalKey(a) == a - Base

\* The map after remove_breakpoint_at_addr.
Removed(a) == MapRemove(Disabled(a), RemovalKey(a))

\* breakpoint_disable of the entry for a, leaving the map m; poke is where it
\* goes on when the PEEKDATA failed.
Disable(a, m, next, poke) ==
  \/ /\ Stopped
     /\ text' = [text EXCEPT ![a] = bps[a].saved]
     /\ bps' = m
     /\ ui' = next
     /\ UNCHANGED <<st, pc, step, trapped, pending, sane, ran, cur>>
  \/ /\ ~Stopped /\ NDEBUG
     /\ ui' = poke /\ cur' = a
     /\ UNCHANGED bps /\ TraceeUnchanged
  \/ ~Stopped /\ ~NDEBUG /\ Crash

\* The POKEDATA of breakpoint_disable when its PEEKDATA returned -1: the
\* saved byte, and seven bytes of 0xFF.
Poke(m, next) ==
  /\ text' = IF Stopped
               THEN [b \in Text |-> IF b = cur THEN bps[b].saved
                       ELSE IF b \in cur .. (cur + 7) THEN "ones" ELSE text[b]]
               ELSE text
  /\ bps' = m
  /\ ui' = next
  /\ UNCHANGED <<st, pc, step, trapped, pending, sane, ran, lineOn>>

-----------------------------------------------------------------------------
(* A click on a line of the step view.                                     *)

Toggle(l) == lineOn' = [lineOn EXCEPT ![l] = ~lineOn[l]]

\* set_breakpoint_at_addr.
SetBreakpoint(l) ==
  /\ ui = "idle" /\ ~lineOn[l]
  /\ Toggle(l)
  /\ Enable(Abs(l), "idle")

\* remove_breakpoint_at_addr: the entry is disabled through the pointer the
\* lookup returned; without one the assert fails or NULL is dereferenced.
RemoveBreakpoint(l) ==
  /\ ui = "idle" /\ lineOn[l]
  /\ Toggle(l)
  /\ IF Abs(l) \in DOMAIN bps
       THEN Disable(Abs(l), Removed(Abs(l)), "idle", "poke_remove")
       ELSE Crash

PokeForRemove ==
  /\ ui = "poke_remove"
  /\ cur' = 0
  /\ Poke(Removed(cur), "idle")

-----------------------------------------------------------------------------
(* The space key: continue_execution.                                      *)

\* Mutant of MaybeBreakpoint: the rip itself.
MaybeBreakpointAtRip == IF Stopped THEN {pc} ELSE Text \cup {0}

\* get_pc(dbg) - 1; the registers are uninitialized when GETREGS fails.
MaybeBreakpoint == IF Stopped THEN {pc - 1} ELSE Text \cup {0}

PressSpace ==
  /\ ui = "idle"
  /\ \E a \in MaybeBreakpoint :
       IF IsEnabled(a) THEN ui' = "getregs" /\ cur' = a
                       ELSE ui' = "cont" /\ UNCHANGED cur
  /\ UNCHANGED <<bps, lineOn>> /\ TraceeUnchanged

\* set_pc is a GETREGS and a SETREGS of the whole register file.
SetPcGetRegs ==
  /\ ui = "getregs"
  /\ ui' = IF Stopped THEN "setregs" ELSE "setjunk"
  /\ UNCHANGED <<bps, lineOn, cur>> /\ TraceeUnchanged

\* Mutant of SetPcSetRegs: the rip is not put into the register file.
SetPcUnchanged ==
  /\ ui \in {"setregs", "setjunk"}
  /\ ui' = "disable"
  /\ UNCHANGED <<bps, lineOn, cur>> /\ TraceeUnchanged

SetPcSetRegs ==
  /\ ui \in {"setregs", "setjunk"}
  /\ SetRegs(cur, ui = "setregs")
  /\ ui' = "disable"
  /\ UNCHANGED <<bps, lineOn, cur>>

DisableForStep ==
  /\ ui = "disable"
  /\ Disable(cur, Disabled(cur), "sstep", "poke")
  /\ UNCHANGED lineOn

PokeForStep ==
  /\ ui = "poke"
  /\ UNCHANGED cur
  /\ Poke(Disabled(cur), "sstep")

\* Mutant of SingleStep: PTRACE_CONT.
StepWithCont ==
  /\ ui = "sstep"
  /\ Resume(FALSE)
  /\ ui' = "swait"
  /\ UNCHANGED <<bps, lineOn, cur>>

SingleStep ==
  /\ ui = "sstep"
  /\ Resume(TRUE)
  /\ ui' = "swait"
  /\ UNCHANGED <<bps, lineOn, cur>>

\* waitpid returns once the process is not running; its status is ignored.
StepWait ==
  /\ ui = "swait" /\ st # "running"
  /\ ui' = "enable"
  /\ UNCHANGED <<bps, lineOn, cur>> /\ TraceeUnchanged

\* Mutant of Reenable: the breakpoint is not put back.
ForgetReenable ==
  /\ ui = "enable"
  /\ ui' = "cont" /\ cur' = 0
  /\ UNCHANGED <<bps, lineOn>> /\ TraceeUnchanged

Reenable ==
  /\ ui = "enable"
  /\ Enable(cur, "cont")
  /\ UNCHANGED lineOn

Cont ==
  /\ ui = "cont"
  /\ Resume(FALSE)
  /\ ui' = "cwait"
  /\ UNCHANGED <<bps, lineOn, cur>>

\* Mutant of ContWait: a wait that an exit does not end.
ContWaitForStop ==
  /\ ui = "cwait" /\ Stopped
  /\ ui' = "idle"
  /\ UNCHANGED <<bps, lineOn, cur>> /\ TraceeUnchanged

ContWait ==
  /\ ui = "cwait" /\ st # "running"
  /\ ui' = "idle"
  /\ UNCHANGED <<bps, lineOn, cur>> /\ TraceeUnchanged

-----------------------------------------------------------------------------

\* The U key: a bare PTRACE_CONT, and no wait.
PressU ==
  /\ ui = "idle" /\ Stopped
  /\ Resume(FALSE)
  /\ UNCHANGED dbgVars

\* The window is closed: main returns with the breakpoints still in place.
Close ==
  /\ ui = "idle"
  /\ ui' = "closed"
  /\ Detach
  /\ UNCHANGED <<bps, lineOn, cur>>

Click == \E l \in Lines : SetBreakpoint(l) \/ RemoveBreakpoint(l)

\* The steps the interface takes of itself once a key or click has been
\* handed to it.
Handler ==
  \/ PokeForRemove \/ SetPcGetRegs \/ SetPcSetRegs \/ DisableForStep
  \/ PokeForStep \/ SingleStep \/ StepWait \/ Reenable \/ Cont \/ ContWait

Environment == (Execute \/ Signal) /\ UNCHANGED dbgVars

Next == Click \/ PressSpace \/ PressU \/ Close \/ Handler \/ Environment

Spec == Init /\ [][Next]_vars

\* The interface thread and the debuggee are scheduled by the kernel; nobody
\* has to press a key, and no signal has to come.
Fairness == WF_vars(Handler) /\ WF_vars(Execute /\ UNCHANGED dbgVars)

FairSpec == Spec /\ Fairness

-----------------------------------------------------------------------------
(* Properties.                                                             *)

TypeOK ==
  /\ TraceeTypeOK
  /\ DOMAIN bps \subseteq Text
  /\ bps \in [DOMAIN bps -> Breakpoint]
  /\ lineOn \in [Lines -> BOOLEAN]
  /\ ui \in Labels
  /\ cur \in Nat

\* Two lines have the address, as all lines without code do.
Shared(a) == \E l, m \in Lines : l # m /\ Abs(l) = a /\ Abs(m) = a

\* step_over_breakpoint has found an enabled entry and not yet disabled it.
Found == {"getregs", "setregs", "setjunk", "disable", "poke"}

\* It has disabled the entry and not yet enabled it again.
Lifted == {"sstep", "swait", "enable"}

\* The address is being stepped over: its breakpoint is lifted for now.
SteppedOver(a) == ui \in Lifted /\ cur = a

\* In a build with asserts, however clicks, keys and the debuggee interleave, an
\* INT3 is in place where an entry is enabled, and where none is there is the
\* entry's saved byte.  That is the program's own byte, or, where two lines have
\* one address, the INT3 of the first mark, saved by the second: such an INT3
\* stays when both marks are gone (breakpoint.c, through every caller).
TextMirrorsTable ==
  ~NDEBUG =>
    /\ \A a \in Text \ DOMAIN bps : text[a] = "orig"
    /\ \A a \in DOMAIN bps :
         /\ text[a] = IF bps[a].enabled THEN "int3" ELSE bps[a].saved
         /\ bps[a].saved = "orig" \/ (bps[a].saved = "int3" /\ Shared(a))

\* The green marks of the step view and the breakpoint table, which the code
\* keeps separately: where an entry is enabled, or lifted to be stepped over, a
\* line of its address is marked, and a marked line's entry is enabled or
\* lifted if the line shares its address with no other.  If it does, a removed
\* mark disables the entry under the marks that stay (step_view.c, debugger.c).
\* Nothing is said while a removal waits for its second system call.
MarksMirrorTable ==
  ui # "aborted" =>
    \A l \in Lines :
      LET a  == Abs(l)
          on == IsEnabled(a) \/ SteppedOver(a)
      IN IF ui = "poke_remove" /\ cur = a
           THEN \E m \in Lines : Abs(m) = a /\ ~lineOn[m]
           ELSE /\ on => \E m \in Lines : Abs(m) = a /\ lineOn[m]
                /\ lineOn[l] => on \/ Shared(a)

\* While the debuggee runs freely, and not for the one instruction of a
\* single step, each marked line of a build with asserts that shares its
\* address with no other has its INT3 in place, so control cannot pass it
\* unseen (step_over_breakpoint puts it back before PTRACE_CONT, and U cannot
\* come in between).
NoMissedBreakpoint ==
  ~NDEBUG /\ st = "running" /\ ~step =>
    \A l \in Lines : lineOn[l] => text[Abs(l)] = "int3" \/ Shared(Abs(l))

\* The debugger dies on an assert only when the debuggee is not stopped: the
\* lookup of remove_breakpoint_at_addr never comes back empty, two lines with
\* one address included, and a build without asserts never dies.
DiesOnlyWithoutTracee ==
  [][ui # "aborted" /\ ui' = "aborted" => ~Stopped /\ ~NDEBUG]_vars

\* The interface thread is not blocked in waitpid for ever: each key that
\* enters continue_execution comes back to the event loop, or the debugger
\* dies, provided the program terminates and was not derailed.
Busy == ui \notin {"idle", "closed", "aborted"}
KeepsResponding == Busy ~> (~Busy \/ ~sane)

-----------------------------------------------------------------------------
(* What the properties above rest on.                                      *)

\* The entry the interface thread works on is in the table, in the state the
\* code takes it to be in; bp stays valid over every system call.
EntryInv ==
  /\ ui \in Found => IsEnabled(cur)
  /\ ui \in Lifted => cur \in DOMAIN bps /\ ~bps[cur].enabled
  /\ ui = "poke_remove" => cur \in DOMAIN bps
  /\ ui \in {"poke", "poke_remove"} => NDEBUG

\* Entries are for lines, and a marked line has one: RemovalKey never hits.
DomainInv ==
  /\ \A a \in DOMAIN bps : \E l \in Lines : a = Abs(l)
  /\ ui # "aborted" => \A l \in Lines : lineOn[l] => Abs(l) \in DOMAIN bps

\* A lifted breakpoint leaves the debuggee one instruction to run.
LiftInv ==
  /\ ui = "aborted" => st # "running"
  /\ ~NDEBUG =>
       /\ ui = "sstep" => Stopped
       /\ ui = "swait" /\ st = "running" => step
       /\ ui = "enable" => st # "running"

IndInv ==
  /\ TypeOK
  /\ EntryInv
  /\ DomainInv
  /\ LiftInv
  /\ TextMirrorsTable
  /\ MarksMirrorTable

-----------------------------------------------------------------------------
(* What comments and tests say, and the code does not do.                  *)

\* "Replace the first byte with 0xCC (INT 3)" (breakpoint.c:35): what an
\* enabled entry means, in every build.
EnabledMeansInt3 ==
  \A a \in DOMAIN bps : bps[a].enabled => text[a] = "int3"

\* A line that is shown as marked has a breakpoint ("bool breakpoint_enabled",
\* step_view.h:13, by which the line is drawn "Green when clicked",
\* step_view.c:144).
GreenMeansEnabled ==
  ui = "idle" => \A l \in Lines : lineOn[l] => IsEnabled(Abs(l))

\* A removed breakpoint is not in the table (debugger.c:84 removes it, and
\* hashmap_test.c:44-47 asserts what removal means).
RemovedMeansAbsent ==
  ui = "idle" => \A l \in Lines : ~lineOn[l] => Abs(l) \notin DOMAIN bps \/ Shared(Abs(l))
=============================================================================
