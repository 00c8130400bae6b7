----------------------------- MODULE SessionProofs -----------------------------
(***************************************************************************)
(* A session is well typed, the user interface gets the program stopped at *)
(* its entry, main leaves it running only by a crash, without a window or  *)
(* after it was closed, and a dump of the registers is of one moment: for  *)
(* any lines, registers and inputs.                                        *)
(***************************************************************************)
EXTENDS Session, SequenceTheorems, TLAPS

-----------------------------------------------------------------------------
(* The inductive invariant.                                                *)

\* The child while main waits for it: execute_debugee has not been left loose.
Young == {"forked", "halted", "traced", "stopped", "exited", "killed"}

\* Where main holds the child in the stop that waitpid reported.
Held == {"symbols", "open", "debugger", "start_ui", "ui"}

\* What is known of the child at each place of main.
ChildInv ==
  /\ at = "fork" => child = "none"
  /\ child = "none" => at \in {"fork", "returned"}
  /\ at = "wait" => child \in Young
  /\ at \in Held => child = "stopped" /\ status = "stopped"
  /\ at \in {"find_main", "check"} =>
       \/ status = "stopped" /\ child = "stopped"
       \/ status # "stopped" /\ Dead
  /\ at = "loop" => child \in {"traced", "stopped"} \/ Dead
  /\ at = "returned" => child = "none" \/ Dead
  /\ NoStray

\* What it runs, and what was read of that.
ImageInv ==
  /\ at # "loop" /\ child = "stopped" /\ ~signalled => image = "program"
  /\ at \in Held \cup {"check"} /\ mainAddr # "none" => mainAddr = image
  /\ at \in {"fork", "wait", "find_main"} => mainAddr = "none"
  /\ at \in {"start_ui", "ui"} => base = image

\* A real row means that the debuggee has been stopped since it was read.
RowsInv ==
  /\ at \notin {"loop", "crashed", "closed"} => frame = "test"
  /\ frame \notin {"registers", "lines"} => rows = <<>>
  /\ frame = "registers" => Len(rows) < Rows
  /\ \A i \in DOMAIN rows :
       rows[i] # Junk /\ at = "loop" => rows[i] = moment /\ child = "stopped"
  /\ OneMoment

SessionInv == SessionTypeOK /\ ChildInv /\ ImageInv /\ RowsInv

LEMMA InitSession == SessionInit => SessionInv
<1> SUFFICES ASSUME SessionInit PROVE SessionInv
  OBVIOUS
<1>1. SessionTypeOK
  <2>1. TypeOK
    BY DEF SessionInit, Init, TypeOK, ChildState, Image, At
  <2>2. inbox \in Seq(Keys \cup Lines) /\ batch \in Seq(Keys \cup Lines)
        /\ clicks \in Seq(Lines) /\ rows \in Seq({0, 1, Junk}) /\ Len(rows) <= Rows
    BY SessionAssumption DEF SessionInit
  <2>3. frame \in Frame /\ closing \in BOOLEAN /\ on \in [Lines -> BOOLEAN] /\ moment \in {0, 1}
    BY DEF SessionInit, Frame
  <2> QED
    BY <2>1, <2>2, <2>3 DEF SessionTypeOK
<1>2. ChildInv
  BY DEF SessionInit, Init, ChildInv, NoStray, Young, Held, Dead
<1>3. ImageInv
  BY DEF SessionInit, Init, ImageInv, Held
<1>4. RowsInv
  BY DEF SessionInit, Init, RowsInv, OneMoment
<1> QED
  BY <1>1, <1>2, <1>3, <1>4 DEF SessionInv

-----------------------------------------------------------------------------
(* The launch.                                                             *)

LaunchInv == TypeOK /\ ChildInv /\ ImageInv

LEMMA LaunchParentInv ==
  ASSUME LaunchInv, Parent
  PROVE  LaunchInv' /\ at \notin {"loop", "crashed", "closed"} /\ at' \notin {"loop", "closed"}
<1> USE DEF LaunchInv, TypeOK, ChildState, Image, At, ChildInv, NoStray, Young, Held, Dead,
        ImageInv
<1>1. CASE Fork
  BY <1>1 DEF Fork
<1>2. CASE Wait
  BY <1>2 DEF Wait, childVars
<1>3. CASE FindMain
  BY <1>3 DEF FindMain, Readable, LeaveChild
<1>4. CASE Symbols
  BY <1>4 DEF Symbols, childVars
<1>5. CASE Check
  BY <1>5 DEF Check, LeaveChild
<1>6. CASE OpenProgram
  BY <1>6 DEF OpenProgram, LeaveChild
<1>7. CASE MakeDebugger
  BY <1>7 DEF MakeDebugger, childVars
<1>8. CASE StartUi
  BY <1>8 DEF StartUi, LeaveChild
<1> QED
  BY <1>1, <1>2, <1>3, <1>4, <1>5, <1>6, <1>7, <1>8 DEF Parent

\* The child moves only while it is not held.
LEMMA LaunchChildInv ==
  ASSUME LaunchInv, at # "loop", ChildStep \/ SignalStep
  PROVE  LaunchInv' /\ at' = at
<1> USE DEF LaunchInv, TypeOK, ChildState, Image, At, ChildInv, NoStray, Young, Held, Dead,
        ImageInv
<1>1. CASE TraceMe /\ ChildStep
  BY <1>1 DEF ChildStep, TraceMe
<1>2. CASE Execl /\ ChildStep
  BY <1>2 DEF ChildStep, Execl
<1>3. CASE SignalStep
  <2>1. child \in {"forked", "halted", "traced"}
        /\ child' \in {"forked", "halted", "stopped", "killed"}
        /\ (child' = "stopped" => signalled')
        /\ signalled' \in BOOLEAN
        /\ UNCHANGED <<exe, image, at, status, mainAddr, base>>
    BY <1>3 DEF SignalStep, Signal
  <2>2. at \in {"wait", "no_window", "crashed", "closed"}
    BY <2>1
  <2>3. TypeOK'
    BY <2>1
  <2>4. ChildInv'
    BY <2>1, <2>2
  <2>5. ImageInv'
    BY <2>1, <2>2
  <2> QED
    BY <2>1, <2>3, <2>4, <2>5
<1> QED
  BY <1>1, <1>2, <1>3 DEF ChildStep

\* The loop's variables stay as they are while it does not run.
LEMMA LaunchSessionInv ==
  ASSUME SessionInv, LaunchParent \/ LaunchChild \/ LaunchSignal
  PROVE  SessionInv'
<1>1. LaunchInv /\ RowsInv /\ SessionTypeOK /\ UNCHANGED loopVars /\ at # "loop"
  <2>1. at # "loop"
    BY DEF LaunchParent, LaunchChild, LaunchSignal, Parent, Fork, Wait, FindMain, Symbols, Check,
       OpenProgram, MakeDebugger, StartUi
  <2> QED
    BY <2>1 DEF SessionInv, SessionTypeOK, LaunchInv, LaunchParent, LaunchChild, LaunchSignal
<1>2. LaunchInv' /\ at' # "loop"
      /\ (at \notin {"crashed", "closed"} \/ at' \in {"crashed", "closed"})
  BY <1>1, LaunchParentInv, LaunchChildInv DEF LaunchParent, LaunchChild, LaunchSignal
<1>3. SessionTypeOK'
  BY <1>1, <1>2 DEF LaunchInv, SessionTypeOK, loopVars
<1>4. RowsInv'
  BY <1>1, <1>2 DEF RowsInv, OneMoment, loopVars
<1> QED
  BY <1>2, <1>3, <1>4 DEF SessionInv, LaunchInv

-----------------------------------------------------------------------------
(* The loop.                                                               *)

\* What the steps of the loop keep of the launch.
LEMMA LoopLaunchInv ==
  ASSUME SessionInv, at = "loop",
         at' \in {"loop", "closed", "crashed"},
         child' \in {"traced", "stopped", "exited", "killed", "loose"},
         child' \in {"loose", "exited", "killed"} \/ at' = "loop",
         child' = "loose" => at' # "loop",
         image' \in Image, UNCHANGED found
  PROVE  LaunchInv'
<1>1. TypeOK'
  BY DEF SessionInv, SessionTypeOK, TypeOK, ChildState, At, found
<1>2. ChildInv'
  BY DEF ChildInv, NoStray, Held, Dead
<1>3. ImageInv'
  BY DEF ImageInv, Held
<1> QED
  BY <1>1, <1>2, <1>3 DEF LaunchInv

Inputs == Keys \cup Lines

\* The loop's part of the type invariant.
LoopTypeOK ==
  /\ frame \in Frame
  /\ inbox \in Seq(Inputs) /\ batch \in Seq(Inputs) /\ clicks \in Seq(Lines)
  /\ rows \in Seq({0, 1, Junk}) /\ Len(rows) <= Rows
  /\ closing \in BOOLEAN /\ on \in [Lines -> BOOLEAN] /\ moment \in {0, 1}

LEMMA Types == SessionTypeOK <=> TypeOK /\ LoopTypeOK
BY DEF SessionTypeOK, LoopTypeOK, Inputs

\* What is fetched and handed out stays a sequence of the same things.
LEMMA Queues ==
  ASSUME NEW S, NEW s \in Seq(S)
  PROVE  /\ <<>> \in Seq(S)
         /\ s # <<>> => Head(s) \in S /\ Tail(s) \in Seq(S)
         /\ \A e \in S : Append(s, e) \in Seq(S)
OBVIOUS

LEMMA AppendIndex ==
  ASSUME NEW S, NEW s \in Seq(S), NEW e \in S, NEW i \in DOMAIN Append(s, e)
  PROVE  \/ i \in DOMAIN s /\ Append(s, e)[i] = s[i]
         \/ i = Len(s) + 1 /\ Append(s, e)[i] = e
<1>1. DOMAIN Append(s, e) = 1..Len(s) + 1 /\ DOMAIN s = 1..Len(s) /\ Len(s) \in Nat
  OBVIOUS
<1>2. CASE i \in 1..Len(s)
  BY <1>1, <1>2
<1>3. CASE i = Len(s) + 1
  BY <1>1, <1>3
<1> QED
  BY <1>1, <1>2, <1>3

LEMMA InterfaceInv ==
  ASSUME SessionInv, Interface
  PROVE  SessionInv'
<1>0. TypeOK /\ LoopTypeOK /\ ChildInv /\ ImageInv /\ RowsInv
  BY Types DEF SessionInv
<1> SUFFICES LaunchInv' /\ LoopTypeOK' /\ RowsInv'
  BY DEF SessionInv, LaunchInv, SessionTypeOK, LoopTypeOK, Inputs
<1> USE DEF Frame, Dead
<1>1. CASE Enter
  <2>1. LaunchInv'
    BY <1>0, <1>1 DEF Enter, LaunchInv, TypeOK, At, ChildInv, NoStray, Held, ImageInv, found
  <2>2. LoopTypeOK' /\ RowsInv'
    BY <1>0, <1>1 DEF Enter, LoopTypeOK, RowsInv, OneMoment, loopVars
  <2> QED
    BY <2>1, <2>2
<1>2. CASE Test
  <2>1. LaunchInv'
    BY <1>0, <1>2, LoopLaunchInv DEF Test, LeaveChild, TypeOK, ChildInv
  <2>2. LoopTypeOK'
    <3>1. inbox' \in Seq(Inputs) /\ batch' \in Seq(Inputs)
      BY <1>0, <1>2, Queues DEF Test, LoopTypeOK
    <3> QED
      BY <1>0, <1>2, <3>1 DEF Test, LoopTypeOK
  <2>3. RowsInv'
    BY <1>0, <1>2 DEF Test, RowsInv, OneMoment
  <2> QED
    BY <2>1, <2>2, <2>3
<1>3. CASE Space \/ U
  <2>1. LaunchInv'
    BY <1>0, <1>3, LoopLaunchInv DEF Space, U, Polling, Resume, TypeOK, ChildInv
  <2>2. LoopTypeOK'
    <3>1. batch' \in Seq(Inputs)
      BY <1>0, <1>3, Queues DEF Space, U, LoopTypeOK
    <3> QED
      BY <1>0, <1>3, <3>1 DEF Space, U, Polling, LoopTypeOK
  <2>3. RowsInv'
    BY <1>0, <1>3 DEF Space, U, Polling, RowsInv, OneMoment
  <2> QED
    BY <2>1, <2>2, <2>3
<1>4. CASE Returns \/ AskClose \/ PassClick \/ EndPoll
  <2>1. at = "loop" /\ frame \in {"poll", "wait"} /\ UNCHANGED <<vars, rows, moment, on, inbox>>
        /\ frame' \in {"poll", "wait", "registers"}
    BY <1>4 DEF Returns, AskClose, PassClick, EndPoll, Polling
  <2>2. LaunchInv'
    BY <1>0, <2>1, LoopLaunchInv DEF TypeOK, ChildInv, vars, found
  <2>3. LoopTypeOK'
    <3>1. CASE PassClick
      BY <1>0, <2>1, <3>1 DEF PassClick, LoopTypeOK
    <3>2. CASE AskClose
      BY <1>0, <2>1, <3>2 DEF AskClose, LoopTypeOK
    <3>3. CASE Returns \/ EndPoll
      BY <1>0, <2>1, <3>3 DEF Returns, EndPoll, LoopTypeOK
    <3> QED
      BY <1>4, <3>1, <3>2, <3>3
  <2>4. RowsInv'
    BY <1>0, <2>1, SessionAssumption DEF RowsInv, OneMoment, vars
  <2> QED
    BY <2>2, <2>3, <2>4
<1>5. CASE ReadRow
  <2> DEFINE read == IF child = "stopped" THEN moment ELSE Junk
  <2>1. at = "loop" /\ frame = "registers" /\ UNCHANGED <<vars, moment>>
        /\ rows' = Append(rows, read)
        /\ frame' = IF Len(rows') = Rows THEN "lines" ELSE frame
    BY <1>5 DEF ReadRow
  <2>2. LaunchInv'
    BY <1>0, <2>1, LoopLaunchInv DEF TypeOK, ChildInv, vars, found
  <2>3. Len(rows) < Rows /\ rows \in Seq({0, 1, Junk}) /\ read \in {0, 1, Junk} /\ Rows \in Nat
    BY <1>0, <2>1, SessionAssumption DEF RowsInv, LoopTypeOK
  <2>4. rows' \in Seq({0, 1, Junk}) /\ Len(rows') = Len(rows) + 1 /\ Len(rows) \in Nat
    BY <2>1, <2>3
  <2>5. LoopTypeOK'
    BY <1>0, <1>5, <2>3, <2>4 DEF ReadRow, LoopTypeOK
  <2>6. \A i \in DOMAIN rows' : \/ i \in DOMAIN rows /\ rows'[i] = rows[i]
                                \/ i = Len(rows) + 1 /\ rows'[i] = read
    BY <2>1, <2>3, AppendIndex
  <2>7. ASSUME NEW i \in DOMAIN rows', rows'[i] # Junk
        PROVE  rows'[i] = moment' /\ child' = "stopped"
    <3>1. CASE i \in DOMAIN rows
      BY <1>0, <2>1, <2>6, <2>7, <3>1 DEF RowsInv, vars
    <3>2. CASE i = Len(rows) + 1
      BY <2>1, <2>3, <2>6, <2>7, <3>2 DEF vars
    <3> QED
      BY <2>6, <3>1, <3>2
  <2>8. OneMoment'
    <3> SUFFICES ASSUME NEW i \in DOMAIN rows', NEW j \in DOMAIN rows', i < j, rows'[i] # Junk
                 PROVE  rows'[j] = rows'[i]
      BY DEF OneMoment
    <3>1. child = "stopped" /\ rows'[i] = moment
      BY <2>1, <2>7 DEF vars
    <3>2. CASE j \in DOMAIN rows
      <4>1. i \in DOMAIN rows /\ rows'[i] = rows[i] /\ rows'[j] = rows[j]
        BY <2>1, <2>3, <3>2
      <4> QED
        BY <1>0, <3>2, <4>1 DEF RowsInv, OneMoment
    <3>3. CASE j = Len(rows) + 1
      BY <2>6, <3>1, <3>3, <2>1, <2>3
    <3> QED
      BY <2>6, <3>2, <3>3
  <2>9. RowsInv'
    <3>1. frame' \in {"registers", "lines"} /\ at' = "loop"
          /\ (frame' = "registers" => Len(rows') < Rows)
      BY <2>1, <2>3, <2>4 DEF vars
    <3> QED
      BY <2>7, <2>8, <3>1 DEF RowsInv
  <2> QED
    BY <2>2, <2>5, <2>9
<1>6. CASE DrawLines
  <2>1. at = "loop" /\ UNCHANGED <<vars, inbox, batch, closing, moment>> /\ frame' = "test"
        /\ rows' = <<>>
    BY <1>6 DEF DrawLines
  <2>2. LaunchInv'
    BY <1>0, <2>1, LoopLaunchInv DEF TypeOK, ChildInv, vars, found
  <2>3. on' \in [Lines -> BOOLEAN] /\ clicks' \in Seq(Lines)
    <3>1. clicks = <<>> => on' = on /\ clicks' = clicks
      BY <1>6 DEF DrawLines
    <3>2. CASE clicks # <<>>
      <4>1. clicks' = Tail(clicks) /\ on' = [on EXCEPT ![Head(clicks)] = ~@]
        BY <1>6, <3>2 DEF DrawLines
      <4>2. clicks' \in Seq(Lines)
        BY <1>0, <3>2, <4>1, Queues DEF LoopTypeOK
      <4>3. on' \in [Lines -> BOOLEAN]
        BY <1>0, <4>1, ZenonT(20) DEF LoopTypeOK
      <4> QED
        BY <4>2, <4>3
    <3> QED
      BY <1>0, <3>1, <3>2 DEF LoopTypeOK
  <2>4. LoopTypeOK'
    BY <1>0, <2>1, <2>3, SessionAssumption DEF LoopTypeOK
  <2>5. RowsInv'
    BY <2>1 DEF RowsInv, OneMoment
  <2> QED
    BY <2>2, <2>4, <2>5
<1>7. CASE Die
  <2>1. LaunchInv'
    BY <1>0, <1>7, LoopLaunchInv DEF Die, LeaveChild, TypeOK, ChildInv
  <2>2. LoopTypeOK' /\ RowsInv'
    BY <1>0, <1>7 DEF Die, LoopTypeOK, RowsInv, OneMoment, loopVars
  <2> QED
    BY <2>1, <2>2
<1> QED
  BY <1>1, <1>2, <1>3, <1>4, <1>5, <1>6, <1>7 DEF Interface

\* What the debuggee does finds no real row, what the user does touches none.
LEMMA OutsideInv ==
  ASSUME SessionInv, Debuggee \/ Input
  PROVE  SessionInv'
<1>0. TypeOK /\ LoopTypeOK /\ ChildInv /\ ImageInv /\ RowsInv
  BY Types DEF SessionInv
<1> SUFFICES LaunchInv' /\ LoopTypeOK' /\ RowsInv'
  BY DEF SessionInv, LaunchInv, SessionTypeOK, LoopTypeOK, Inputs
<1>1. CASE Debuggee
  <2>1. LaunchInv'
    BY <1>0, <1>1, LoopLaunchInv DEF Debuggee, TypeOK, Image
  <2>2. LoopTypeOK'
    BY <1>0, <1>1 DEF Debuggee, LoopTypeOK
  <2>3. RowsInv'
    BY <1>0, <1>1 DEF Debuggee, RowsInv, OneMoment
  <2> QED
    BY <2>1, <2>2, <2>3
<1>2. CASE Input
  <2>1. LaunchInv'
    BY <1>0, <1>2, LoopLaunchInv DEF Input, TypeOK, ChildInv, Dead, vars, found
  <2>2. LoopTypeOK'
    <3>1. inbox' \in Seq(Inputs)
      BY <1>0, <1>2, Queues DEF Input, LoopTypeOK, Inputs
    <3> QED
      BY <1>0, <1>2, <3>1 DEF Input, LoopTypeOK, vars
  <2>3. RowsInv'
    BY <1>0, <1>2 DEF Input, RowsInv, OneMoment, vars
  <2> QED
    BY <2>1, <2>2, <2>3
<1> QED
  BY <1>1, <1>2

-----------------------------------------------------------------------------
(* The theorems.                                                           *)

\* The invariant of a session, from the fork to the end of main: types, the
\* state of the child at each place of main, the image it runs and the rows
\* of the register dump.
THEOREM SessionInvariant == SessionSpec => []SessionInv
<1>1. SessionInv /\ [SessionNext]_sessionVars => SessionInv'
  <2> SUFFICES ASSUME SessionInv, [SessionNext]_sessionVars PROVE SessionInv'
    OBVIOUS
  <2>1. CASE UNCHANGED sessionVars
    BY <2>1 DEF sessionVars, vars, loopVars, SessionInv, SessionTypeOK, TypeOK, ChildInv, NoStray,
       Dead, ImageInv, RowsInv, OneMoment
  <2> QED
    BY <2>1, LaunchSessionInv, InterfaceInv, OutsideInv DEF SessionNext
<1> QED
  BY <1>1, InitSession, PTL DEF SessionSpec

\* Every variable of main, the child and the event loop keeps its type.
THEOREM SessionTypes == SessionSpec => []SessionTypeOK
<1>1. SessionInv => SessionTypeOK
  BY DEF SessionInv
<1> QED
  BY <1>1, SessionInvariant, PTL

\* Unless a signal stopped the traced child before the exec, the user interface
\* gets the program stopped at its entry, with the base address of its image
\* (main.c:37-66).
THEOREM EntryReached == SessionSpec => []StartsAtEntry
<1>1. SessionInv => StartsAtEntry
  BY DEF SessionInv, ChildInv, ImageInv, Held, StartsAtEntry
<1> QED
  BY <1>1, SessionInvariant, PTL

\* The main address and the base address are read from one image (main.c:41,
\* debugger.c:33).
THEOREM ImageAgrees == SessionSpec => []OneImage
<1>1. SessionInv => OneImage
  BY DEF SessionInv, ImageInv, Held, OneImage
<1> QED
  BY <1>1, SessionInvariant, PTL

\* A child that runs loose was left by a crash, by the return of main without a
\* window or by that after the window was closed (main.c:75-76); the returns
\* after fork and waitpid (main.c:31-54) leave none.
THEOREM NoneStrays == SessionSpec => []NoStray
<1>1. SessionInv => NoStray
  BY DEF SessionInv, ChildInv
<1> QED
  BY <1>1, SessionInvariant, PTL

\* The rows of a dump are of one moment of the debuggee, for any number of
\* registers, though each is a system call of its own (register_view.c:31-35).
THEOREM RowsOfOneMoment == SessionSpec => []OneMoment
<1>1. SessionInv => OneMoment
  BY DEF SessionInv, RowsInv
<1> QED
  BY <1>1, SessionInvariant, PTL
=============================================================================
