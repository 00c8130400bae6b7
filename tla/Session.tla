-------------------------------- MODULE Session --------------------------------
(***************************************************************************)
(* A session with VannaDBG: Launch, and from where it ends the event loop  *)
(* of src/ui/ui.c, frame by frame, with the order in which the loop hands  *)
(* out what the user does.  glfwPollEvents runs the key callback at once   *)
(* and passes clicks on to ImGui, which shows them to the lines one a      *)
(* frame, after the registers have been read for the frame.                *)
(*                                                                         *)
(* What a key or a click does to breakpoints is Debugger's; here it is     *)
(* whether the debuggee is resumed, and when the handler returns.          *)
(***************************************************************************)
EXTENDS Launch, Sequences, SequencesExt

CONSTANTS
  Lines,     \* the lines of the step view
  Rows,      \* n_registers: the registers of the dump
  MaxInputs  \* bound: inputs that wait to be acted on

ASSUME SessionAssumption == Rows \in Nat \ {0} /\ MaxInputs \in Nat

Keys == {"space", "u", "close"}

VARIABLES
  frame,    \* where the loop is in a frame
  inbox,    \* what the user did and glfwPollEvents has not fetched
  batch,    \* what it has fetched and not handed out
  clicks,   \* the clicks ImGui has been told of and has not shown to a line
  rows,     \* the registers read for this frame so far
  closing,  \* glfwWindowShouldClose
  on,       \* step_line_t.breakpoint_enabled, by line
  moment    \* parity of the number of times the debuggee has run

loopVars == <<frame, inbox, batch, clicks, rows, closing, on, moment>>
sessionVars == <<vars, loopVars>>
found == <<exe, signalled, status, mainAddr, base>>

\* "wait" is the waitpid of continue_execution, inside glfwPollEvents.
Frame == {"test", "poll", "wait", "registers", "lines"}

\* What a row shows when PTRACE_GETREGS fails: an uninitialized word.
Junk == 2

SessionTypeOK ==
  /\ TypeOK
  /\ frame \in Frame
  /\ {inbox, batch} \subseteq Seq(Keys \cup Lines) /\ clicks \in Seq(Lines)
  /\ rows \in Seq({0, 1, Junk}) /\ Len(rows) <= Rows
  /\ closing \in BOOLEAN /\ on \in [Lines -> BOOLEAN] /\ moment \in {0, 1}

SessionInit ==
  /\ Init
  /\ frame = "test" /\ inbox = <<>> /\ batch = <<>> /\ clicks = <<>>
  /\ rows = <<>> /\ closing = FALSE /\ on = [l \in Lines |-> FALSE]
  /\ moment = 0

-----------------------------------------------------------------------------
(* The user and the debuggee.                                              *)

\* A key, the window's close button, or a click on a line.
Input ==
  /\ at = "loop" /\ Len(inbox \o batch \o clicks) < MaxInputs
  /\ \E e \in Keys \cup Lines : inbox' = Append(inbox, e)
  /\ UNCHANGED <<vars, frame, batch, clicks, rows, closing, on, moment>>

\* A debuggee that runs stops at a trap or for a signal, or ends; one that was
\* stopped before its exec may execute the program first.
Debuggee ==
  /\ at = "loop" /\ child = "traced"
  /\ child' \in {"stopped", "exited", "killed"}
  /\ image' \in {image, "program"}
  /\ moment' = 1 - moment
  /\ UNCHANGED <<found, at, frame, inbox, batch, clicks, rows, closing, on>>

-----------------------------------------------------------------------------
(* The loop.                                                               *)

\* Entering the loop of start_ui.
Enter ==
  /\ at = "ui" /\ at' = "loop"
  /\ UNCHANGED <<found, child, image, loopVars>>

\* The loop's condition; after the loop, graceful_shutdown and the end of main.
Test ==
  /\ at = "loop" /\ frame = "test"
  /\ IF closing
       THEN /\ at' = "closed" /\ LeaveChild
            /\ UNCHANGED <<frame, inbox, batch>>
       ELSE /\ frame' = "poll" /\ batch' = inbox /\ inbox' = <<>>
            /\ UNCHANGED <<at, child>>
  /\ UNCHANGED <<found, image, clicks, rows, closing, on, moment>>

Polling == at = "loop" /\ frame = "poll"

\* PTRACE_CONT: it fails unless the debuggee is stopped.
Resume == child' = IF child = "stopped" THEN "traced" ELSE child

\* continue_execution resumes the debuggee and goes on to its waitpid.
Space ==
  /\ Polling /\ batch # <<>> /\ Head(batch) = "space"
  /\ Resume
  /\ frame' = "wait" /\ batch' = Tail(batch)
  /\ UNCHANGED <<found, at, image, inbox, clicks, rows, closing, on, moment>>

\* waitpid returns once the debuggee does not run.
Returns ==
  /\ at = "loop" /\ frame = "wait" /\ child # "traced"
  /\ frame' = "poll"
  /\ UNCHANGED <<vars, inbox, batch, clicks, rows, closing, on, moment>>

\* Mutant of U: the register view asks for the key itself.
UInRegisterView ==
  /\ at = "loop" /\ frame = "registers" /\ inbox # <<>> /\ Head(inbox) = "u"
  /\ Resume
  /\ inbox' = Tail(inbox)
  /\ UNCHANGED <<found, at, image, frame, batch, clicks, rows, closing, on, moment>>

U ==
  /\ Polling /\ batch # <<>> /\ Head(batch) = "u"
  /\ Resume
  /\ batch' = Tail(batch)
  /\ UNCHANGED <<found, at, image, frame, inbox, clicks, rows, closing, on, moment>>

AskClose ==
  /\ Polling /\ batch # <<>> /\ Head(batch) = "close"
  /\ closing' = TRUE
  /\ batch' = Tail(batch)
  /\ UNCHANGED <<vars, frame, inbox, clicks, rows, on, moment>>

\* Mutant of PassClick: one click is remembered.
PassOneClick ==
  /\ Polling /\ batch # <<>> /\ Head(batch) \in Lines
  /\ clicks' = <<Head(batch)>>
  /\ batch' = Tail(batch)
  /\ UNCHANGED <<vars, frame, inbox, rows, closing, on, moment>>

PassClick ==
  /\ Polling /\ batch # <<>> /\ Head(batch) \in Lines
  /\ clicks' = Append(clicks, Head(batch))
  /\ batch' = Tail(batch)
  /\ UNCHANGED <<vars, frame, inbox, rows, closing, on, moment>>

\* glfwPollEvents returns; register_view_render begins.
EndPoll ==
  /\ Polling /\ batch = <<>>
  /\ frame' = "registers"
  /\ UNCHANGED <<vars, inbox, batch, clicks, rows, closing, on, moment>>

\* dump_registers: a PTRACE_GETREGS for each row.
ReadRow ==
  /\ at = "loop" /\ frame = "registers"
  /\ rows' = Append(rows, IF child = "stopped" THEN moment ELSE Junk)
  /\ frame' = IF Len(rows') = Rows THEN "lines" ELSE frame
  /\ UNCHANGED <<vars, inbox, batch, clicks, closing, on, moment>>

\* step_view_render, where one line at most sees a click, and the frame's end.
DrawLines ==
  /\ at = "loop" /\ frame = "lines"
  /\ IF clicks = <<>>
       THEN UNCHANGED <<clicks, on>>
       ELSE /\ on' = [on EXCEPT ![Head(clicks)] = ~@]
            /\ clicks' = Tail(clicks)
  /\ frame' = "test" /\ rows' = <<>>
  /\ UNCHANGED <<vars, inbox, batch, closing, moment>>

\* An assert of the breakpoint engine fails, or NULL is dereferenced: in a key
\* or a click that finds the debuggee running or gone, in a step over that it
\* did not survive, or in the removal of a breakpoint that the line no longer
\* leads to, because the executable was built anew since it was set.
Die ==
  /\ at = "loop"
  /\ \/ Polling /\ batch # <<>> /\ Head(batch) = "space" /\ child # "stopped"
     \/ frame = "wait" /\ Dead
     \/ frame = "lines" /\ clicks # <<>> /\ (child # "stopped" \/ on[Head(clicks)])
  /\ at' = "crashed" /\ LeaveChild
  /\ UNCHANGED <<found, image, loopVars>>

Interface ==
  \/ Enter \/ Test \/ Space \/ Returns \/ U \/ AskClose \/ PassClick \/ EndPoll
  \/ ReadRow \/ DrawLines \/ Die

LaunchParent == Parent /\ UNCHANGED loopVars
LaunchChild  == at # "loop" /\ ChildStep /\ UNCHANGED loopVars
LaunchSignal == at # "loop" /\ SignalStep /\ UNCHANGED loopVars

SessionNext ==
  \/ LaunchParent \/ LaunchChild \/ LaunchSignal
  \/ Interface \/ Debuggee \/ Input

\* The processes are scheduled, and a program that runs stops or ends; nobody
\* has to press a key, and no signal has to come.
SessionSpec ==
  /\ SessionInit /\ [][SessionNext]_sessionVars
  /\ WF_sessionVars(LaunchParent) /\ WF_sessionVars(LaunchChild)
  /\ WF_sessionVars(Interface) /\ WF_sessionVars(Debuggee)

-----------------------------------------------------------------------------

\* The rows of a register dump are of one moment of the debuggee, though each is
\* a system call of its own: once one is real all after it are, and show the
\* same moment, whatever the debuggee does meanwhile.  A dump that begins while
\* it runs may begin with junk (register_view.c:31-35, ui.c:106-117).
OneMoment ==
  \A i, j \in DOMAIN rows :
    i < j /\ rows[i] # Junk => rows[j] = rows[i]

Waits(e) == e \in ToSet(inbox \o batch \o clicks)
Over == at \in {"closed", "crashed"}

\* Everything the user does is acted on, unless the session ends first: a line
\* that was clicked is toggled, and a window that was asked to close closes,
\* however keys that block the loop come in between (ui.c:105-139).
ActedOn ==
  /\ \A l \in Lines, b \in BOOLEAN :
       Waits(l) /\ on[l] = b ~> on[l] # b \/ Over
  /\ Waits("close") \/ (at = "loop" /\ closing) ~> Over
=============================================================================
