-------------------------- MODULE TransparencyProofs --------------------------
(***************************************************************************)
(* CarefulSpec implements the undisturbed program.  CarefulInv says where  *)
(* the rip and the INT3 bytes can be; from it each step of the debuggee is *)
(* a step of the program, and each step of the debugger is none.           *)
(***************************************************************************)
EXTENDS Transparency, DebuggerProofs

LEMMA CarefulIsNext == [CarefulNext]_vars => [Next]_vars
BY DEF CarefulNext, Next, Click

LEMMA CarefulIndInv == CarefulSpec => []IndInv
<1>1. IndInv /\ [CarefulNext]_vars => IndInv'
  BY CarefulIsNext, NextIndInv
<1> QED
  BY <1>1, InitIndInv, PTL DEF CarefulSpec

LEMMA InitCareful == Init => CarefulInv
<1> SUFFICES ASSUME Init PROVE CarefulInv
  OBVIOUS
<1>1. /\ bps = [k \in {} |-> k] /\ ui = "idle" /\ st = "stopped" /\ pc = Entry
      /\ text = [a \in Text |-> "orig"] /\ ~trapped /\ sane
  BY DEF Init, TraceeInit, EmptyMap
<1>2. TextInv /\ MarkInv
  BY <1>1 DEF TextInv, MarkInv, IsEnabled
<1>3. RipInv /\ StepInv
  BY <1>1, ProgramAssumption DEF RipInv, StepInv, Reached, Stopped
<1> QED
  BY <1>1, <1>2, <1>3 DEF CarefulInv

\* A program that has exited stays so.
LEMMA GoneStays ==
  ASSUME [CarefulNext]_vars, Gone
  PROVE  Gone' /\ UNCHANGED <<trapped, pc, ran, pending>>
<1> USE DEF Gone, Stopped
<1>1. ASSUME NEW l \in Lines, SetBreakpoint(l) \/ RemoveBreakpoint(l)
      PROVE  UNCHANGED <<st, trapped, pc, ran, pending>>
  BY <1>1 DEF SetBreakpoint, RemoveBreakpoint, Enable, Disable, Crash, Detach, TraceeUnchanged,
     traceeVars
<1>2. ASSUME PressSpace \/ SetPcGetRegs \/ StepWait \/ ContWait
      PROVE  UNCHANGED <<st, trapped, pc, ran, pending>>
  BY <1>2 DEF PressSpace, SetPcGetRegs, StepWait, ContWait, TraceeUnchanged, traceeVars
<1>3. ASSUME DisableForStep \/ Reenable
      PROVE  UNCHANGED <<st, trapped, pc, ran, pending>>
  BY <1>3 DEF DisableForStep, Reenable, Enable, Disable, Crash, Detach, TraceeUnchanged,
     traceeVars
<1>4. ASSUME PokeForRemove \/ PokeForStep \/ SetPcSetRegs
      PROVE  UNCHANGED <<st, trapped, pc, ran, pending>>
  BY <1>4 DEF PokeForRemove, PokeForStep, Poke, SetPcSetRegs, SetRegs
<1>5. ASSUME PressU \/ SingleStep \/ Cont \/ Close
      PROVE  UNCHANGED <<st, trapped, pc, ran, pending>>
  BY <1>5 DEF PressU, SingleStep, Cont, Close, Resume, Detach
<1>6. ~Environment
  BY DEF Environment, Execute, Exec, Trap, Exit, Derail, Signal, Live
<1> QED
  BY <1>1, <1>2, <1>3, <1>4, <1>5, <1>6 DEF CarefulNext, Handler, vars

-----------------------------------------------------------------------------
(* The debuggee.                                                           *)

\* Where the debuggee can run, the bytes at the rip are its own instruction
\* or an INT3 that stops it.
LEMMA RunsOwnCode ==
  ASSUME IndInv, CarefulInv, Live
  PROVE  pc \in Insns /\ ~trapped /\ ~pending /\ (AtInsn \/ AtInt3)
<1>1. ~Gone /\ ~trapped /\ ~pending /\ pc \in Insns
  BY DEF CarefulInv, RipInv, Gone, Live, Reached
<1>2. ASSUME NEW b \in InsnBytes(pc), text[b] # "orig" PROVE AtInt3
  <2>1. b \in Text
    BY <1>1, <1>2, ProgramAssumption
  <2>2. IsEnabled(b) /\ text[b] = "int3"
    BY <1>1, <1>2, <2>1 DEF CarefulInv, TextInv
  <2>3. PICK l \in Lines : b = Abs(l)
    BY <1>1, <2>2 DEF CarefulInv, MarkInv, IsEnabled
  <2>4. b = pc
    BY <1>1, <1>2, <2>3, LinesAssumption
  <2> QED
    BY <2>1, <2>2, <2>4 DEF AtInt3
<1> QED
  BY <1>1, <1>2 DEF AtInsn

\* A step that leaves table, text and interface alone leaves TextInv and
\* MarkInv alone.
LEMMA SteadyCareful ==
  ASSUME TextInv, MarkInv, UNCHANGED <<bps, text, lineOn>>,
         ui \in Lifted <=> ui' \in Lifted, ui \in Lifted => cur' = cur
  PROVE  TextInv' /\ MarkInv'
BY DEF TextInv, MarkInv, IsEnabled, SteppedOver, Abs

LEMMA CarefulEnvironment ==
  ASSUME IndInv, CarefulInv, Environment, MaySignal
  PROVE  /\ CarefulInv'
         /\ \/ Undisturbed!Next
            \/ UNCHANGED <<Reached, st = "exited", ran, pending>>
<1> USE DEF Gone
<1>1. Live /\ ~Gone /\ UNCHANGED <<bps, text, lineOn, ui, cur>>
  BY DEF Environment, Execute, Exec, Trap, Exit, Derail, Signal, Live, dbgVars
<1>2. TextInv /\ MarkInv /\ RipInv /\ StepInv
  BY <1>1 DEF CarefulInv
<1>3. pc \in Insns /\ ~trapped /\ ~pending /\ (AtInsn \/ AtInt3)
  BY <1>1, RunsOwnCode
<1>4. TextInv' /\ MarkInv'
  BY <1>1, <1>2, SteadyCareful
<1>5. ASSUME Exec
      PROVE  CarefulInv' /\ Undisturbed!Step
  <2>1. /\ pc \notin Exits /\ pc' \in Succ[pc] /\ ran' = 1 - ran /\ trapped' = trapped
        /\ st' = (IF step THEN "stopped" ELSE st) /\ ~step'
        /\ sane' = sane /\ pending' = pending
    BY <1>2, <1>5 DEF Exec, RipInv
  <2>2. pc' \in Insns
    BY <1>3, <2>1, ProgramAssumption
  <2>3. RipInv'
    BY <1>2, <1>3, <2>1, <2>2 DEF RipInv, Reached
  <2>4. StepInv'
    BY <1>1, <1>2, <1>3, <2>1 DEF StepInv, Stopped, IsEnabled, Live
  <2>5. st # "exited" /\ st' # "exited" /\ st' # "killed"
    BY <1>1, <2>1 DEF Live
  <2>6. Undisturbed!Step
    BY <1>3, <2>1, <2>5 DEF Undisturbed!Step, Reached
  <2> QED
    BY <1>4, <2>3, <2>4, <2>5, <2>6 DEF CarefulInv
<1>6. ASSUME Trap
      PROVE  CarefulInv' /\ UNCHANGED <<Reached, st = "exited", ran, pending>>
  <2>1. /\ pc' = pc + 1 /\ trapped' /\ text[pc] = "int3"
        /\ UNCHANGED <<ran, sane, pending>>
    BY <1>6 DEF Trap, AtInt3
  <2>2. IsEnabled(pc)
    BY <1>2, <1>6, <2>1 DEF Trap, AtInt3, TextInv
  <2>3. st = "running" /\ st' = "stopped"
    BY <1>1, <1>2, <1>6, <2>2 DEF Trap, Live, StepInv, IsEnabled
  <2>4. pc \in Nat /\ pc' - 1 = pc
    BY <2>1 DEF IndInv, TypeOK, TraceeTypeOK
  <2>5. RipInv'
    BY <1>2, <1>3, <2>1, <2>3, <2>4 DEF RipInv, Reached
  <2>6. ui # "swait"
    BY <1>2, <2>2, <2>3 DEF StepInv
  <2>7. StepInv'
    BY <1>1, <1>2, <2>3, <2>6 DEF StepInv, Stopped, IsEnabled
  <2>8. Reached' = Reached
    BY <1>3, <2>1, <2>4 DEF Reached
  <2> QED
    BY <1>4, <2>1, <2>3, <2>5, <2>7, <2>8 DEF CarefulInv
<1>7. ASSUME Exit
      PROVE  CarefulInv' /\ Undisturbed!Halt
  <2>1. st' = "exited" /\ pc \in Exits /\ UNCHANGED <<pc, trapped, ran, pending>>
    BY <1>7 DEF Exit
  <2> QED
    BY <1>1, <1>3, <2>1 DEF CarefulInv, Undisturbed!Halt, Reached
<1>8. ~Derail
  BY <1>3 DEF Derail
<1>9. ASSUME Signal
      PROVE  /\ CarefulInv'
             /\ Undisturbed!Receive \/ UNCHANGED <<Reached, st = "exited", ran, pending>>
  <2>1. /\ st = "running" /\ st' = "stopped" /\ pending' \in BOOLEAN
        /\ UNCHANGED <<pc, trapped, sane, ran>>
    BY <1>9 DEF Signal
  <2>2. pending' => ui \in {"cwait", "idle"}
    <3>1. ui \in Labels
      BY DEF IndInv, TypeOK
    <3>2. ui = "swait" => ~pending'
      BY <1>2, <2>1 DEF StepInv, MaySignal
    <3> QED
      BY <1>2, <2>1, <3>1, <3>2 DEF StepInv, Labels, Stopped
  <2>3. RipInv'
    BY <1>1, <1>2, <2>1, <2>2 DEF RipInv, Reached
  <2>4. StepInv'
    BY <1>1, <1>2, <2>1 DEF StepInv, Stopped, IsEnabled
  <2>5. Undisturbed!Receive \/ UNCHANGED <<Reached, st = "exited", ran, pending>>
    <3>1. pending = FALSE /\ (pending' = TRUE \/ pending' = FALSE)
      BY <1>3, <2>1 DEF IndInv, TypeOK, TraceeTypeOK
    <3> QED
      BY <2>1, <3>1 DEF Undisturbed!Receive, Reached
  <2> QED
    BY <1>4, <2>1, <2>3, <2>4, <2>5 DEF CarefulInv
<1> QED
  BY <1>5, <1>6, <1>7, <1>8, <1>9 DEF Environment, Execute, Undisturbed!Next

-----------------------------------------------------------------------------
(* The debugger.  Each of its steps keeps CarefulInv, and the program does *)
(* not see it.                                                             *)

Hidden == ~Gone' /\ UNCHANGED <<Reached, ran, pending>>

\* The debuggee waits for its debugger in every state but a few.
LEMMA StoppedHere ==
  ASSUME IndInv, CarefulInv, ~Gone, ui # "closed", st # "running"
  PROVE  Stopped
BY DEF IndInv, TypeOK, TraceeTypeOK, Status, CarefulInv, StepInv, Gone, Stopped

\* Enabling a breakpoint that is not enabled while the debuggee is stopped.
LEMMA CarefulEnable ==
  ASSUME IndInv, TextInv, NEW a \in Text, NEW next, Enable(a, next), Stopped, ~IsEnabled(a)
  PROVE  TextInv'
<1>1. /\ text' = (IF NDEBUG THEN text ELSE [text EXCEPT ![a] = "int3"])
      /\ bps' = MapPut(bps, a, [saved |-> text[a], enabled |-> TRUE])
  BY DEF Enable
<1>2. /\ DOMAIN bps' = DOMAIN bps \cup {a}
      /\ \A x : IsEnabled(x)' <=> x = a \/ IsEnabled(x)
      /\ \A x \in DOMAIN bps \ {a} : bps'[x] = bps[x]
  BY EnableEnabled DEF IndInv
<1>3. bps'[a].saved = "orig"
  <2>1. bps'[a] = [saved |-> text[a], enabled |-> TRUE]
    BY <1>1 DEF MapPut
  <2>2. text[a] = "orig"
    BY DEF TextInv
  <2> QED
    BY <2>1, <2>2
<1>4. ASSUME NEW x \in Text
      PROVE  text'[x] = IF IsEnabled(x)' /\ ~NDEBUG THEN "int3" ELSE "orig"
  <2>1. CASE NDEBUG
    BY <1>1, <2>1 DEF TextInv
  <2>2. CASE ~NDEBUG
    <3>1. text' = [text EXCEPT ![a] = "int3"] /\ text \in [Text -> Byte]
      BY <1>1, <2>2 DEF IndInv, TypeOK, TraceeTypeOK
    <3>2. CASE x = a
      BY <1>2, <2>2, <3>1, <3>2
    <3>3. CASE x # a
      BY <1>2, <2>2, <3>1, <3>3 DEF TextInv
    <3> QED
      BY <3>2, <3>3
  <2> QED
    BY <2>1, <2>2, DebuggerAssumption
<1> QED
  BY <1>2, <1>3, <1>4 DEF TextInv

LEMMA CarefulSet ==
  ASSUME IndInv, CarefulInv, ~Gone, NEW m \in Lines, MayClick(m), SetBreakpoint(m)
  PROVE  CarefulInv' /\ Hidden
<1> DEFINE a == Abs(m)
<1>1. TextInv /\ MarkInv /\ RipInv /\ StepInv /\ ui = "idle" /\ ~lineOn[m] /\ a \in Text
  BY DebuggerAssumption DEF CarefulInv, SetBreakpoint
<1>2. Stopped /\ ~IsEnabled(a)
  BY <1>1, StoppedHere DEF MayClick
<1>3. /\ Enable(a, "idle")
      /\ ui' = "idle" /\ UNCHANGED <<st, pc, step, trapped, pending, sane, ran>>
  BY <1>2 DEF SetBreakpoint, Enable
<1>4. lineOn'[m] /\ \A l \in Lines \ {m} : lineOn'[l] = lineOn[l]
  BY DEF SetBreakpoint, Toggle, IndInv, TypeOK
<1>5. /\ DOMAIN bps' = DOMAIN bps \cup {a}
      /\ \A x : IsEnabled(x)' <=> x = a \/ IsEnabled(x)
      /\ \A x \in DOMAIN bps \ {a} : bps'[x] = bps[x]
  BY <1>2, <1>3, EnableEnabled DEF IndInv
<1>6. TextInv'
  BY <1>1, <1>2, <1>3, CarefulEnable
<1>7. MarkInv'
  <2>1. ASSUME NEW x \in DOMAIN bps', bps'[x].enabled \/ SteppedOver(x)'
        PROVE  \E l \in Lines : x = Abs(l) /\ lineOn'[l]
    <3>1. x # a => x \in DOMAIN bps /\ bps[x].enabled
      BY <1>3, <1>5, <2>1 DEF SteppedOver, Lifted
    <3> QED
      BY <1>1, <1>4, <3>1 DEF MarkInv
  <2>2. \A x \in DOMAIN bps' : \E l \in Lines : x = Abs(l)
    BY <1>1, <1>5 DEF MarkInv
  <2> QED
    BY <2>1, <2>2 DEF MarkInv, Abs
<1>8. RipInv' /\ StepInv'
  BY <1>1, <1>2, <1>3 DEF RipInv, StepInv, Reached, Stopped
<1> QED
  BY <1>2, <1>3, <1>6, <1>7, <1>8 DEF CarefulInv, Hidden, Gone, Stopped, Reached

\* Disabling an enabled breakpoint, or one that is disabled already, while
\* the debuggee is stopped.
LEMMA CarefulDisable ==
  ASSUME IndInv, TextInv, NEW a \in DOMAIN bps, bps' = Disabled(a),
         text' = [text EXCEPT ![a] = bps[a].saved]
  PROVE  TextInv'
<1>1. /\ DOMAIN bps' = DOMAIN bps
      /\ \A x : IsEnabled(x)' <=> x # a /\ IsEnabled(x)
      /\ \A x \in DOMAIN bps : bps'[x].saved = bps[x].saved
  BY DisabledEnabled DEF IndInv
<1>2. bps[a].saved = "orig" /\ text \in [Text -> Byte]
  BY DEF TextInv, IndInv, TypeOK, TraceeTypeOK
<1> QED
  BY <1>1, <1>2 DEF TextInv

LEMMA CarefulRemove ==
  ASSUME IndInv, CarefulInv, ~Gone, NEW m \in Lines, MayClick(m), RemoveBreakpoint(m)
  PROVE  CarefulInv' /\ Hidden
<1> DEFINE a == Abs(m)
<1>1. TextInv /\ MarkInv /\ RipInv /\ StepInv /\ ui = "idle" /\ lineOn[m]
  BY DEF CarefulInv, RemoveBreakpoint
<1>2. Stopped /\ a \in DOMAIN bps
  BY <1>1, StoppedHere DEF MayClick, IndInv, DomainInv
<1>3. Disable(a, Disabled(a), "idle", "poke_remove")
  BY <1>2, RemovedIsDisabled DEF RemoveBreakpoint, IndInv
<1>4. /\ bps' = Disabled(a) /\ text' = [text EXCEPT ![a] = bps[a].saved]
      /\ ui' = "idle" /\ UNCHANGED <<st, pc, step, trapped, pending, sane, ran>>
  BY <1>2, <1>3 DEF Disable
<1>5. /\ DOMAIN bps' = DOMAIN bps
      /\ \A x : IsEnabled(x)' <=> x # a /\ IsEnabled(x)
  BY <1>2, <1>4, DisabledEnabled DEF IndInv
<1>6. \A l \in Lines \ {m} : lineOn'[l] = lineOn[l]
  BY DEF RemoveBreakpoint, Toggle, IndInv, TypeOK
<1>7. TextInv'
  BY <1>1, <1>2, <1>4, CarefulDisable
<1>8. MarkInv'
  <2>1. ASSUME NEW x \in DOMAIN bps', bps'[x].enabled \/ SteppedOver(x)'
        PROVE  \E l \in Lines : x = Abs(l) /\ lineOn'[l]
    <3>1. IsEnabled(x)'
      BY <1>4, <2>1 DEF SteppedOver, Lifted, IsEnabled
    <3>2. x # a /\ x \in DOMAIN bps /\ bps[x].enabled
      BY <1>5, <3>1 DEF IsEnabled
    <3>3. PICK l \in Lines : x = Abs(l) /\ lineOn[l]
      BY <1>1, <3>2 DEF MarkInv
    <3> QED
      BY <1>6, <3>2, <3>3
  <2> QED
    BY <1>1, <1>5, <2>1 DEF MarkInv, Abs
<1>9. RipInv' /\ StepInv'
  BY <1>1, <1>2, <1>4 DEF RipInv, StepInv, Reached, Stopped
<1> QED
  BY <1>2, <1>4, <1>7, <1>8, <1>9 DEF CarefulInv, Hidden, Gone, Stopped, Reached

LEMMA CarefulDisableForStep ==
  ASSUME IndInv, CarefulInv, ~Gone, DisableForStep
  PROVE  CarefulInv' /\ Hidden
<1>1. TextInv /\ MarkInv /\ RipInv /\ StepInv /\ ui = "disable"
  BY DEF CarefulInv, DisableForStep
<1>2. Stopped /\ ~trapped /\ cur = pc /\ IsEnabled(cur) /\ cur \in DOMAIN bps
  BY <1>1 DEF StepInv, IsEnabled
<1>3. /\ bps' = Disabled(cur) /\ text' = [text EXCEPT ![cur] = bps[cur].saved]
      /\ ui' = "sstep" /\ UNCHANGED <<st, pc, step, trapped, pending, sane, ran, cur, lineOn>>
  BY <1>2 DEF DisableForStep, Disable
<1>4. /\ DOMAIN bps' = DOMAIN bps
      /\ \A x : IsEnabled(x)' <=> x # cur /\ IsEnabled(x)
  BY <1>2, <1>3, DisabledEnabled DEF IndInv
<1>5. TextInv'
  BY <1>1, <1>2, <1>3, CarefulDisable
<1>6. MarkInv'
  <2>1. ASSUME NEW x \in DOMAIN bps', bps'[x].enabled \/ SteppedOver(x)'
        PROVE  IsEnabled(x)
    BY <1>2, <1>3, <1>4, <2>1 DEF SteppedOver, IsEnabled
  <2> QED
    BY <1>1, <1>3, <1>4, <2>1 DEF MarkInv, IsEnabled, Abs
<1>7. RipInv' /\ StepInv'
  BY <1>1, <1>2, <1>3, <1>4 DEF RipInv, StepInv, Reached, Stopped
<1> QED
  BY <1>2, <1>3, <1>5, <1>6, <1>7 DEF CarefulInv, Hidden, Gone, Stopped, Reached

LEMMA CarefulReenable ==
  ASSUME IndInv, CarefulInv, ~Gone, Reenable
  PROVE  CarefulInv' /\ Hidden
<1>1. TextInv /\ MarkInv /\ RipInv /\ StepInv /\ ui = "enable"
  BY DEF CarefulInv, Reenable
<1>2. Stopped /\ ~trapped /\ ~IsEnabled(cur) /\ cur \in DOMAIN bps /\ cur \in Text
  BY <1>1 DEF StepInv, IndInv, TypeOK
<1>3. /\ Enable(cur, "cont")
      /\ ui' = "cont" /\ UNCHANGED <<st, pc, step, trapped, pending, sane, ran, lineOn>>
  BY <1>2 DEF Reenable, Enable
<1>4. /\ DOMAIN bps' = DOMAIN bps
      /\ \A x : IsEnabled(x)' <=> x = cur \/ IsEnabled(x)
      /\ \A x \in DOMAIN bps \ {cur} : bps'[x] = bps[x]
  BY <1>2, <1>3, EnableEnabled DEF IndInv
<1>5. TextInv'
  BY <1>1, <1>2, <1>3, CarefulEnable
<1>6. MarkInv'
  <2>1. ASSUME NEW x \in DOMAIN bps', bps'[x].enabled \/ SteppedOver(x)'
        PROVE  bps[x].enabled \/ SteppedOver(x)
    BY <1>1, <1>3, <1>4, <2>1 DEF SteppedOver, Lifted
  <2> QED
    BY <1>1, <1>3, <1>4, <2>1 DEF MarkInv, Abs
<1>7. RipInv' /\ StepInv'
  BY <1>1, <1>2, <1>3 DEF RipInv, StepInv, Reached, Stopped
<1> QED
  BY <1>2, <1>3, <1>5, <1>6, <1>7 DEF CarefulInv, Hidden, Gone, Stopped, Reached

\* The steps of the debugger that touch neither table nor text.
LEMMA CarefulSteady ==
  ASSUME IndInv, CarefulInv, ~Gone,
         \/ MayPressSpace /\ PressSpace
         \/ MayPressU /\ PressU
         \/ SetPcGetRegs \/ SetPcSetRegs \/ SingleStep \/ StepWait \/ Cont \/ ContWait
  PROVE  CarefulInv' /\ Hidden
<1>1. TextInv /\ MarkInv /\ RipInv /\ StepInv /\ st # "exited" /\ st # "killed"
  BY DEF CarefulInv, Gone
<1>2. UNCHANGED <<bps, text, lineOn>> /\ ui # "closed"
  BY DEF PressSpace, PressU, SetPcGetRegs, SetPcSetRegs, SingleStep, StepWait, Cont, ContWait,
     Resume, SetRegs, TraceeUnchanged, traceeVars, dbgVars
<1>3. SUFFICES ASSUME TRUE
               PROVE  /\ RipInv' /\ StepInv' /\ Hidden /\ st' # "killed"
                      /\ ui \in Lifted <=> ui' \in Lifted
                      /\ ui \in Lifted => cur' = cur
  BY <1>1, <1>2, SteadyCareful DEF CarefulInv
<1>3a. /\ MayPressSpace \/ MayPressU => pending = FALSE
       /\ ui \notin {"cwait", "idle"} => pending = FALSE
  BY <1>1 DEF IndInv, TypeOK, TraceeTypeOK, RipInv, MayPressSpace, MayPressU
<1> USE DEF RipInv, StepInv, Reached, Hidden, Gone, Stopped, Lifted
<1>4. ASSUME MayPressSpace /\ PressSpace
      PROVE  RipInv' /\ StepInv' /\ Hidden /\ ui \notin Lifted /\ ui' \notin Lifted
  <2>1. Stopped
    BY <1>2, <1>4, StoppedHere DEF MayPressSpace
  <2>2. /\ trapped <=> IsEnabled(pc - 1)
        /\ \/ IsEnabled(pc - 1) /\ ui' = "getregs" /\ cur' = pc - 1
           \/ ~IsEnabled(pc - 1) /\ ui' = "cont"
        /\ ui = "idle" /\ UNCHANGED <<st, pc, step, trapped, pending, sane, ran>>
    BY <1>4, <2>1 DEF MayPressSpace, PressSpace, MaybeBreakpoint, TraceeUnchanged, traceeVars
  <2> QED
    BY <1>1, <1>2, <1>3a, <1>4, <2>1, <2>2 DEF IsEnabled
<1>5. ASSUME MayPressU /\ PressU
      PROVE  RipInv' /\ StepInv' /\ Hidden /\ UNCHANGED <<ui, cur>>
  BY <1>1, <1>2, <1>3a, <1>5 DEF MayPressU, PressU, Resume, dbgVars
<1>6. ASSUME SetPcGetRegs
      PROVE  RipInv' /\ StepInv' /\ Hidden /\ ui \notin Lifted /\ ui' \notin Lifted
  BY <1>1, <1>2, <1>3a, <1>6 DEF SetPcGetRegs, TraceeUnchanged, traceeVars, IsEnabled
<1>7. ASSUME SetPcSetRegs
      PROVE  RipInv' /\ StepInv' /\ Hidden /\ ui \notin Lifted /\ ui' \notin Lifted
  BY <1>1, <1>2, <1>3a, <1>7 DEF SetPcSetRegs, SetRegs, IsEnabled
<1>8. ASSUME SingleStep
      PROVE  RipInv' /\ StepInv' /\ Hidden /\ ui \in Lifted /\ ui' \in Lifted /\ cur' = cur
  BY <1>1, <1>2, <1>3a, <1>8 DEF SingleStep, Resume, IsEnabled
<1>9. ASSUME StepWait
      PROVE  RipInv' /\ StepInv' /\ Hidden /\ ui \in Lifted /\ ui' \in Lifted /\ cur' = cur
  <2>1. Stopped
    BY <1>2, <1>9, StoppedHere DEF StepWait
  <2> QED
    BY <1>1, <1>2, <1>9, <2>1 DEF StepWait, TraceeUnchanged, traceeVars, IsEnabled
<1>10. ASSUME Cont
      PROVE  RipInv' /\ StepInv' /\ Hidden /\ ui \notin Lifted /\ ui' \notin Lifted
  BY <1>1, <1>2, <1>3a, <1>10 DEF Cont, Resume, IsEnabled
<1>11. ASSUME ContWait
      PROVE  RipInv' /\ StepInv' /\ Hidden /\ ui \notin Lifted /\ ui' \notin Lifted
  BY <1>1, <1>2, <1>11 DEF ContWait, TraceeUnchanged, traceeVars, IsEnabled
<1>12. st' # "killed"
  BY <1>1 DEF PressSpace, PressU, SetPcGetRegs, SetPcSetRegs, SingleStep, StepWait, Cont,
     ContWait, Resume, SetRegs, TraceeUnchanged, traceeVars
<1> QED
  BY <1>4, <1>5, <1>6, <1>7, <1>8, <1>9, <1>10, <1>11, <1>12

LEMMA CarefulClose ==
  ASSUME IndInv, CarefulInv, ~Gone, MayClose, Close
  PROVE  CarefulInv' /\ Hidden
<1>1. TextInv /\ MarkInv /\ RipInv /\ StepInv /\ ui = "idle"
  BY DEF CarefulInv, Close
<1>2. ~trapped /\ pending = FALSE /\ \A l \in Lines : ~lineOn[l]
  BY DEF MayClose, Gone, IndInv, TypeOK, TraceeTypeOK
<1>3. \A a \in DOMAIN bps : ~IsEnabled(a)
  BY <1>1, <1>2 DEF MarkInv, IsEnabled
<1>4. st \in {"stopped", "running"}
  BY <1>1 DEF IndInv, TypeOK, TraceeTypeOK, Status, CarefulInv, Gone, StepInv
<1>5. /\ ui' = "closed" /\ st' = "loose" /\ ~step' /\ ~trapped' /\ pending' = FALSE
      /\ UNCHANGED <<bps, text, lineOn, cur, pc, sane, ran>>
  BY <1>4 DEF Close, Detach
<1>6. TextInv' /\ MarkInv'
  BY <1>1, <1>5, SteadyCareful DEF Lifted
<1>7. RipInv' /\ StepInv'
  BY <1>1, <1>2, <1>3, <1>5 DEF RipInv, StepInv, Reached, IsEnabled
<1> QED
  BY <1>2, <1>5, <1>6, <1>7 DEF CarefulInv, Hidden, Gone, Reached

-----------------------------------------------------------------------------

\* CarefulInv is inductive, and every step is one of the program or none.
LEMMA CarefulStep ==
  ASSUME IndInv, CarefulInv, [CarefulNext]_vars
  PROVE  /\ CarefulInv'
         /\ \/ Undisturbed!Next
            \/ UNCHANGED <<Reached, st = "exited", ran, pending>>
<1>1. CASE Gone
  <2>1. Gone' /\ UNCHANGED <<trapped, pc, ran, pending>>
    BY <1>1, GoneStays
  <2> QED
    BY <1>1, <2>1 DEF CarefulInv, Gone, Reached
<1>2. CASE ~Gone
  <2>1. ASSUME CarefulInv' /\ Hidden
        PROVE  CarefulInv' /\ UNCHANGED <<Reached, st = "exited", ran, pending>>
    BY <1>2, <2>1 DEF Hidden, Gone
  <2>2. CASE \E l \in Lines : MayClick(l) /\ (SetBreakpoint(l) \/ RemoveBreakpoint(l))
    BY <1>2, <2>1, <2>2, CarefulSet, CarefulRemove
  <2>3. CASE MayClose /\ Close
    BY <1>2, <2>1, <2>3, CarefulClose
  <2>4. CASE DisableForStep \/ Reenable
    BY <1>2, <2>1, <2>4, CarefulDisableForStep, CarefulReenable
  <2>5. CASE \/ MayPressSpace /\ PressSpace
             \/ MayPressU /\ PressU
             \/ SetPcGetRegs \/ SetPcSetRegs \/ SingleStep \/ StepWait \/ Cont \/ ContWait
    BY <1>2, <2>1, <2>5, CarefulSteady
  <2>6. ~PokeForRemove /\ ~PokeForStep
    BY <1>2 DEF CarefulInv, StepInv, PokeForRemove, PokeForStep
  <2>7. CASE Environment /\ MaySignal
    BY <2>7, CarefulEnvironment
  <2>8. CASE UNCHANGED vars
    <3>1. TextInv' /\ MarkInv'
      BY <1>2, <2>8, SteadyCareful DEF vars, CarefulInv
    <3>2. RipInv' /\ StepInv' /\ st' # "killed"
      BY <1>2, <2>8 DEF vars, CarefulInv, RipInv, StepInv, Reached, IsEnabled, Stopped
    <3> QED
      BY <2>8, <3>1, <3>2 DEF vars, CarefulInv, Reached
  <2> QED
    BY <2>2, <2>3, <2>4, <2>5, <2>6, <2>7, <2>8 DEF CarefulNext, Handler
<1> QED
  BY <1>1, <1>2

\* Under careful use the debuggee's text differs from the program's by the
\* INT3 of marked lines only, and the rip is where the code takes it to be
\* (debugger.c:88-110).
THEOREM CarefulInvariant == CarefulSpec => []CarefulInv
<1>1. IndInv /\ CarefulInv /\ [CarefulNext]_vars => CarefulInv'
  BY CarefulStep
<1> QED
  BY <1>1, InitCareful, CarefulIndInv, PTL DEF CarefulSpec

\* Under careful use the debuggee executes the program as if nobody watched:
\* debugger and debuggee together implement Program.  Careful use goes on from
\* no signal that the program would handle or die of, because the code discards
\* it (debugger.c:99, 108).
THEOREM Transparent == CarefulSpec => Invisible
<1>1. Init => Undisturbed!Init
  BY DEF Init, TraceeInit, Undisturbed!Init, Reached
<1>2. IndInv /\ CarefulInv /\ [CarefulNext]_vars => [Undisturbed!Next]_(Undisturbed!vars)
  BY CarefulStep DEF Undisturbed!vars
<1> QED
  BY <1>1, <1>2, CarefulIndInv, CarefulInvariant, PTL
  DEF CarefulSpec, Invisible, Undisturbed!Spec
=============================================================================
