----------------------------- MODULE Transparency -----------------------------
(***************************************************************************)
(* When the debugger is invisible to the program it debugs.  The code does *)
(* not guard against the uses that disturb the program, so CarefulSpec     *)
(* states them: it is Debugger with the keys, the clicks and the time of   *)
(* signals restricted, and with the debuggee and every system call left as *)
(* they are.                                                               *)
(***************************************************************************)
EXTENDS Debugger

\* A line's code starts where an instruction does; a line without code maps
\* to a byte that is not code at all.
ASSUME LinesAssumption ==
  \A l \in Lines, i \in Insns : Abs(l) \in InsnBytes(i) => Abs(l) = i

\* Click while the debuggee is not running, and mark one of two lines that
\* have the same address at most.
MayClick(l) == st # "running" /\ (lineOn[l] \/ ~IsEnabled(Abs(l)))

\* Press space while the debuggee is not running, and not when the byte
\* before the rip is a breakpoint that did not cause the stop, or caused it
\* and has been removed since: the code takes the position of the rip for
\* the reason of the stop.  Nor when a signal the program would notice caused the
\* stop: no request ever delivers it, so the program cannot go on undisturbed.
MayPressSpace ==
  st # "running" /\ ~pending /\ (Stopped => (trapped <=> IsEnabled(pc - 1)))

\* Press U only when the stop is not a breakpoint's, which U does not step over,
\* and not such a signal's.
MayPressU == ~trapped /\ ~pending

\* Close the window after removing the marks and going on from the last
\* breakpoint, and not at a stop by such a signal, or after the program has
\* ended.
MayClose ==
  st = "exited" \/ (~trapped /\ ~pending /\ \A l \in Lines : ~lineOn[l])

\* No such signal comes during a single step, after which the code resumes the
\* program without a look at what stopped it.
MaySignal == step => ~pending'

CarefulNext ==
  \/ \E l \in Lines : MayClick(l) /\ (SetBreakpoint(l) \/ RemoveBreakpoint(l))
  \/ MayPressSpace /\ PressSpace
  \/ MayPressU /\ PressU
  \/ MayClose /\ Close
  \/ Handler
  \/ Environment /\ MaySignal

CarefulSpec == Init /\ [][CarefulNext]_vars

\* The instruction the program has reached: a trapped rip is one byte past it.
Reached == IF trapped THEN pc - 1 ELSE pc

Undisturbed ==
  INSTANCE Program WITH at <- Reached, done <- (st = "exited"), handled <- 0

\* As long as the user goes on from no signal that the program would notice,
\* breakpoints that stop the program, are stepped over, set and removed leave no
\* trace in what it executes: it runs the instructions of an undebugged run,
\* each once, and ends where that would (debugger.c:72-110 in full).
Invisible == Undisturbed!Spec

-----------------------------------------------------------------------------
(* Why it holds.                                                           *)

Gone == st = "exited"

\* The text is the program's own but for the INT3 of enabled breakpoints.
TextInv ==
  /\ \A a \in Text : text[a] = IF IsEnabled(a) /\ ~NDEBUG THEN "int3" ELSE "orig"
  /\ \A a \in DOMAIN bps : bps[a].saved = "orig"

\* Breakpoints sit where lines are, and an enabled one has its line marked.
MarkInv ==
  \A a \in DOMAIN bps :
    /\ \E l \in Lines : a = Abs(l)
    /\ bps[a].enabled \/ SteppedOver(a) => \E l \in Lines : a = Abs(l) /\ lineOn[l]

\* The rip is at an instruction, or one byte past the INT3 that stopped it.
RipInv ==
  /\ sane
  /\ trapped => st = "stopped"
  /\ pending => st = "stopped" /\ ui \in {"cwait", "idle"}
  /\ Reached \in Insns

\* What step_over_breakpoint relies on at each of its system calls.
StepInv ==
  /\ ui \in {"getregs", "setregs"} => Stopped /\ trapped /\ cur = pc - 1
  /\ ui \in {"disable", "sstep"} => Stopped /\ ~trapped /\ cur = pc
  /\ ui \in {"getregs", "setregs", "disable"} => IsEnabled(cur)
  /\ ui \in {"sstep", "swait", "enable"} => cur \in DOMAIN bps /\ ~IsEnabled(cur)
  /\ ui = "swait" => ~trapped /\ (st = "running" => step /\ cur = pc)
  /\ ui = "enable" => Stopped /\ ~trapped
  /\ ui = "cont" => Stopped /\ ~trapped
  /\ ui \notin {"setjunk", "poke", "poke_remove", "aborted"}
  /\ st = "loose" <=> ui = "closed"
  /\ st = "loose" => ~step
  /\ ui = "closed" => \A a \in DOMAIN bps : ~IsEnabled(a)

CarefulInv ==
  /\ st # "killed"
  /\ ~Gone => TextInv /\ MarkInv /\ RipInv /\ StepInv
=============================================================================
