---------------------------- MODULE DebuggerProofs ----------------------------
(***************************************************************************)
(* Debugger, for every program, every set of lines, and builds with and    *)
(* without asserts.  IndInv is inductive: the agreement of marks, table    *)
(* and text is kept only because step_over_breakpoint's entry is in the    *)
(* table and in the state it expects at each system call (EntryInv), and   *)
(* because nothing but a single step runs while it is lifted (LiftInv).    *)
(***************************************************************************)
EXTENDS Debugger, TLAPS

-----------------------------------------------------------------------------
(* The operations of the breakpoint table.                                 *)

\* hashmap_remove of a key that is not in the table does nothing.
LEMMA MapRemoveAbsent ==
  ASSUME NEW D, NEW S, NEW m \in [D -> S], NEW k, k \notin D
  PROVE  MapRemove(m, k) = m
BY DEF MapRemove, Restrict

\* remove_breakpoint_at_addr leaves the entry in the table: the key it removes
\* is never one of the absolute addresses the table is keyed by.
LEMMA RemovedIsDisabled ==
  ASSUME TypeOK, NEW l \in Lines, Abs(l) \in DOMAIN bps
  PROVE  /\ Removed(Abs(l)) = Disabled(Abs(l))
         /\ RemovalKey(Abs(l)) \notin DOMAIN bps
<1>1. RemovalKey(Abs(l)) = LineAddr[l]
  BY DebuggerAssumption DEF RemovalKey, Abs
<1>2. RemovalKey(Abs(l)) \notin DOMAIN bps
  BY <1>1, DebuggerAssumption DEF TypeOK
<1>3. Disabled(Abs(l)) \in [DOMAIN bps -> Breakpoint]
  BY DEF Disabled, TypeOK, Breakpoint
<1> QED
  BY <1>2, <1>3, MapRemoveAbsent DEF Removed

\* What disabling does to the table.
LEMMA DisabledEntry ==
  ASSUME TypeOK, NEW a \in DOMAIN bps
  PROVE  /\ DOMAIN Disabled(a) = DOMAIN bps
         /\ Disabled(a) \in [DOMAIN bps -> Breakpoint]
         /\ Disabled(a)[a].enabled = FALSE
         /\ Disabled(a)[a].saved = bps[a].saved
         /\ \A x \in DOMAIN bps \ {a} : Disabled(a)[x] = bps[x]
BY DEF Disabled, TypeOK, Breakpoint

-----------------------------------------------------------------------------
(* Type correctness.                                                       *)

LEMMA InitType == Init => TypeOK
<1> SUFFICES ASSUME Init PROVE TypeOK
  OBVIOUS
<1>1. TraceeTypeOK
  BY ProgramAssumption DEF Init, TraceeInit, TraceeTypeOK, Byte, Status
<1>2. DOMAIN bps \subseteq Text /\ bps \in [DOMAIN bps -> Breakpoint]
  BY DEF Init, EmptyMap
<1> QED
  BY <1>1, <1>2 DEF Init, TypeOK, Labels

LEMMA CrashType == ASSUME TypeOK, Crash, lineOn' \in [Lines -> BOOLEAN] PROVE TypeOK'
BY DEF Crash, Detach, TypeOK, TraceeTypeOK, Status, Labels

LEMMA EnableType ==
  ASSUME TypeOK, NEW a \in Text, NEW next \in Labels, Enable(a, next),
         lineOn' \in [Lines -> BOOLEAN]
  PROVE  TypeOK'
<1> DEFINE b == [saved |-> IF Stopped THEN text[a] ELSE "ones", enabled |-> TRUE]
<1>1. b \in Breakpoint
  BY DEF TypeOK, TraceeTypeOK, Breakpoint, Byte
<1>2. ASSUME bps' = MapPut(bps, a, b)
      PROVE  DOMAIN bps' \subseteq Text /\ bps' \in [DOMAIN bps' -> Breakpoint]
  BY <1>1, <1>2 DEF MapPut, TypeOK
<1>3. CASE Stopped
  <2>1. bps' = MapPut(bps, a, b)
    BY <1>3 DEF Enable
  <2>2. text' \in [Text -> Byte]
    BY <1>3 DEF Enable, TypeOK, TraceeTypeOK, Byte
  <2>3. DOMAIN bps' \subseteq Text /\ bps' \in [DOMAIN bps' -> Breakpoint]
    BY <1>2, <2>1
  <2>4. ui' = next /\ cur' = 0 /\ UNCHANGED <<st, pc, step, trapped, pending, sane, ran>>
    BY <1>3 DEF Enable
  <2> QED
    BY <2>2, <2>3, <2>4 DEF TypeOK, TraceeTypeOK
<1>4. CASE ~Stopped /\ NDEBUG
  <2>1. bps' = MapPut(bps, a, b)
    BY <1>4 DEF Enable
  <2> QED
    BY <1>2, <1>4, <2>1 DEF Enable, TypeOK, TraceeTypeOK, TraceeUnchanged, traceeVars
<1>5. CASE ~Stopped /\ ~NDEBUG
  BY <1>5, CrashType DEF Enable
<1> QED
  BY <1>3, <1>4, <1>5, DebuggerAssumption

LEMMA DisableType ==
  ASSUME TypeOK, NEW a \in DOMAIN bps, NEW next \in Labels, NEW poke \in Labels,
         Disable(a, Disabled(a), next, poke), lineOn' \in [Lines -> BOOLEAN]
  PROVE  TypeOK'
<1>1. a \in Text /\ a \in Nat /\ bps[a].saved \in Byte
  BY ProgramAssumption DEF TypeOK, Breakpoint
<1>2. CASE Stopped
  <2>1. text' \in [Text -> Byte]
    BY <1>1, <1>2 DEF Disable, TypeOK, TraceeTypeOK
  <2>2. DOMAIN bps' \subseteq Text /\ bps' \in [DOMAIN bps' -> Breakpoint]
    BY <1>2, DisabledEntry DEF Disable, TypeOK
  <2> QED
    BY <1>2, <2>1, <2>2 DEF Disable, TypeOK, TraceeTypeOK
<1>3. CASE ~Stopped /\ NDEBUG
  BY <1>1, <1>3 DEF Disable, TypeOK, TraceeTypeOK, TraceeUnchanged, traceeVars
<1>4. CASE ~Stopped /\ ~NDEBUG
  BY <1>4, CrashType DEF Disable
<1> QED
  BY <1>2, <1>3, <1>4, DebuggerAssumption

LEMMA PokeType ==
  ASSUME TypeOK, cur \in DOMAIN bps, NEW next \in Labels, Poke(Disabled(cur), next),
         cur' \in Nat
  PROVE  TypeOK'
<1>1. text' \in [Text -> Byte]
  BY DEF Poke, TypeOK, TraceeTypeOK, Byte, Breakpoint
<1>2. DOMAIN bps' \subseteq Text /\ bps' \in [DOMAIN bps' -> Breakpoint]
  BY DisabledEntry DEF Poke, TypeOK
<1> QED
  BY <1>1, <1>2 DEF Poke, TypeOK, TraceeTypeOK

LEMMA EnvironmentType == ASSUME TypeOK, Environment PROVE TypeOK'
<1> SUFFICES TraceeTypeOK'
  BY DEF TypeOK, Environment, dbgVars
<1> USE DEF TypeOK, TraceeTypeOK
<1>1. ASSUME Exec PROVE TraceeTypeOK'
  <2>1. pc' \in Nat
    BY <1>1, ProgramAssumption DEF Exec, AtInsn
  <2>2. ran' \in {0, 1}
    BY <1>1 DEF Exec
  <2> QED
    BY <1>1, <2>1, <2>2 DEF Exec, Status
<1>2. ASSUME Trap PROVE TraceeTypeOK'
  <2>1. pc' \in Nat
    BY <1>2 DEF Trap
  <2> QED
    BY <1>2, <2>1 DEF Trap, Status
<1>3. ASSUME Exit PROVE TraceeTypeOK'
  BY <1>3 DEF Exit, Status
<1>4. ASSUME Derail PROVE TraceeTypeOK'
  <2>1. pc' \in Nat
    BY <1>4, ProgramAssumption DEF Derail
  <2> QED
    BY <1>4, <2>1 DEF Derail, Status
<1>5. ASSUME Signal PROVE TraceeTypeOK'
  BY <1>5 DEF Signal, Status
<1> QED
  BY <1>1, <1>2, <1>3, <1>4, <1>5 DEF Environment, Execute

LEMMA NextType == ASSUME TypeOK, EntryInv, DomainInv, [Next]_vars PROVE TypeOK'
<1>1. ASSUME NEW l \in Lines, SetBreakpoint(l) PROVE TypeOK'
  <2>1. Abs(l) \in Text /\ "idle" \in Labels
    BY DebuggerAssumption DEF Labels
  <2>2. lineOn' \in [Lines -> BOOLEAN]
    BY <1>1 DEF SetBreakpoint, Toggle, TypeOK
  <2> QED
    BY <1>1, <2>1, <2>2, EnableType DEF SetBreakpoint
<1>2. ASSUME NEW l \in Lines, RemoveBreakpoint(l) PROVE TypeOK'
  <2>1. "idle" \in Labels /\ "poke_remove" \in Labels
    BY DEF Labels
  <2>2. lineOn' \in [Lines -> BOOLEAN]
    BY <1>2 DEF RemoveBreakpoint, Toggle, TypeOK
  <2>3. CASE Abs(l) \in DOMAIN bps
    BY <1>2, <2>1, <2>2, <2>3, DisableType, RemovedIsDisabled DEF RemoveBreakpoint
  <2>4. CASE Abs(l) \notin DOMAIN bps
    BY <1>2, <2>2, <2>4, CrashType DEF RemoveBreakpoint
  <2> QED
    BY <2>3, <2>4
<1>3. ASSUME PokeForRemove PROVE TypeOK'
  <2>1. cur \in DOMAIN bps /\ "idle" \in Labels
    BY <1>3 DEF PokeForRemove, EntryInv, Labels
  <2>2. PICK l \in Lines : cur = Abs(l)
    BY <2>1 DEF DomainInv
  <2>3. Removed(cur) = Disabled(cur)
    BY <2>1, <2>2, RemovedIsDisabled
  <2>4. cur' \in Nat
    BY <1>3 DEF PokeForRemove
  <2> QED
    BY <1>3, <2>1, <2>3, <2>4, PokeType DEF PokeForRemove
<1>4. ASSUME PressSpace PROVE TypeOK'
  <2>1. cur' \in Nat /\ ui' \in Labels
    BY <1>4, ProgramAssumption DEF PressSpace, IsEnabled, TypeOK, Labels
  <2> QED
    BY <1>4, <2>1 DEF PressSpace, TypeOK, TraceeTypeOK, TraceeUnchanged, traceeVars
<1>5. ASSUME SetPcGetRegs \/ StepWait \/ ContWait PROVE TypeOK'
  BY <1>5 DEF SetPcGetRegs, StepWait, ContWait, TypeOK, TraceeTypeOK,
     TraceeUnchanged, traceeVars, Labels
<1>6. ASSUME SetPcSetRegs PROVE TypeOK'
  BY <1>6 DEF SetPcSetRegs, SetRegs, TypeOK, TraceeTypeOK, Labels
<1>7. ASSUME DisableForStep PROVE TypeOK'
  <2>1. cur \in DOMAIN bps /\ "sstep" \in Labels /\ "poke" \in Labels
    BY <1>7 DEF DisableForStep, EntryInv, Found, IsEnabled, Labels
  <2>2. lineOn' \in [Lines -> BOOLEAN]
    BY <1>7 DEF DisableForStep, TypeOK
  <2> QED
    BY <1>7, <2>1, <2>2, DisableType DEF DisableForStep
<1>8. ASSUME PokeForStep PROVE TypeOK'
  <2>1. cur \in DOMAIN bps /\ "sstep" \in Labels
    BY <1>8 DEF PokeForStep, EntryInv, Found, IsEnabled, Labels
  <2>2. cur' \in Nat
    BY <1>8 DEF PokeForStep, TypeOK
  <2> QED
    BY <1>8, <2>1, <2>2, PokeType DEF PokeForStep
<1>9. ASSUME Reenable PROVE TypeOK'
  <2>1. cur \in Text /\ "cont" \in Labels
    BY <1>9 DEF Reenable, EntryInv, Lifted, TypeOK, Labels
  <2>2. lineOn' \in [Lines -> BOOLEAN]
    BY <1>9 DEF Reenable, TypeOK
  <2> QED
    BY <1>9, <2>1, <2>2, EnableType DEF Reenable
<1>10. ASSUME SingleStep \/ Cont \/ PressU \/ Close PROVE TypeOK'
  <2>1. CASE SingleStep \/ Cont \/ PressU
    BY <2>1, ZenonT(40) DEF SingleStep, Cont, PressU, Resume, TypeOK, TraceeTypeOK, Labels, Status,
       dbgVars
  <2>2. CASE Close
    BY <2>2, ZenonT(40) DEF Close, Detach, TypeOK, TraceeTypeOK, Labels, Status
  <2> QED
    BY <1>10, <2>1, <2>2
<1>11. ASSUME Environment PROVE TypeOK'
  BY <1>11, EnvironmentType
<1>12. ASSUME UNCHANGED vars PROVE TypeOK'
  BY <1>12 DEF vars, TypeOK, TraceeTypeOK
<1> QED
  BY <1>1, <1>2, <1>3, <1>4, <1>5, <1>6, <1>7, <1>8, <1>9, <1>10, <1>11, <1>12
  DEF Next, Click, Handler

-----------------------------------------------------------------------------
(* The agreement of marks, table and text.                                 *)

LEMMA InitIndInv == Init => IndInv
<1> SUFFICES ASSUME Init PROVE IndInv
  OBVIOUS
<1>1. TypeOK
  BY InitType
<1>2. bps = [k \in {} |-> k] /\ ui = "idle" /\ lineOn = [l \in Lines |-> FALSE]
  BY DEF Init, EmptyMap
<1>3. text = [a \in Text |-> "orig"] /\ st = "stopped"
  BY DEF Init, TraceeInit
<1>4. EntryInv /\ DomainInv /\ LiftInv
  BY <1>2, <1>3 DEF EntryInv, DomainInv, LiftInv, Found, Lifted, Stopped
<1>5. TextMirrorsTable
  BY <1>2, <1>3, DebuggerAssumption DEF TextMirrorsTable, IsEnabled
<1>6. MarksMirrorTable
  BY <1>2 DEF MarksMirrorTable, IsEnabled, SteppedOver, Lifted
<1> QED
  BY <1>1, <1>4, <1>5, <1>6 DEF IndInv

\* The debugger dies in a failed assert: table and text stay as they are.
LEMMA CrashIndInv ==
  ASSUME IndInv, Crash, lineOn' \in [Lines -> BOOLEAN]
  PROVE  IndInv'
<1>1. TypeOK'
  BY CrashType DEF IndInv
<1>2. ui' = "aborted" /\ UNCHANGED <<bps, text>> /\ st' # "running"
  BY DEF Crash, Detach, IndInv
<1>3. EntryInv' /\ DomainInv' /\ LiftInv' /\ MarksMirrorTable'
  BY <1>2 DEF IndInv, EntryInv, DomainInv, LiftInv, MarksMirrorTable, Found, Lifted, Stopped
<1>4. TextMirrorsTable'
  BY <1>2 DEF IndInv, TextMirrorsTable, IsEnabled, Shared, Abs
<1> QED
  BY <1>1, <1>3, <1>4 DEF IndInv

\* breakpoint_enable that does not die enables a and no other entry.
LEMMA EnableEnabled ==
  ASSUME TypeOK, NEW a, NEW next, Enable(a, next), Stopped \/ NDEBUG
  PROVE  /\ DOMAIN bps' = DOMAIN bps \cup {a}
         /\ \A x : IsEnabled(x)' <=> x = a \/ IsEnabled(x)
         /\ \A x \in DOMAIN bps \ {a} : bps'[x] = bps[x]
         /\ ui' = next /\ cur' = 0
<1>1. PICK b : bps' = MapPut(bps, a, b) /\ b.enabled
  BY DEF Enable
<1>2. ui' = next /\ cur' = 0
  BY DEF Enable
<1>3. /\ DOMAIN bps' = DOMAIN bps \cup {a}
      /\ bps'[a] = b
      /\ \A x \in DOMAIN bps \ {a} : bps'[x] = bps[x]
  BY <1>1 DEF MapPut
<1>4. ASSUME NEW x PROVE IsEnabled(x)' <=> x = a \/ IsEnabled(x)
  BY <1>1, <1>3 DEF IsEnabled
<1> QED
  BY <1>2, <1>3, <1>4

\* breakpoint_enable keeps the text in step with the table: an INT3 that it
\* saves was put there for another line.
LEMMA EnableText ==
  ASSUME IndInv, NEW a \in Text, NEW next, Enable(a, next), Stopped,
         IsEnabled(a) => Shared(a)
  PROVE  TextMirrorsTable'
<1> SUFFICES ASSUME ~NDEBUG PROVE TextMirrorsTable'
  BY DEF TextMirrorsTable
<1> DEFINE b == [saved |-> text[a], enabled |-> TRUE]
<1>1. text' = [text EXCEPT ![a] = "int3"] /\ bps' = MapPut(bps, a, b)
  BY DEF Enable
<1>2. /\ DOMAIN bps' = DOMAIN bps \cup {a}
      /\ bps'[a].saved = text[a] /\ bps'[a].enabled
      /\ \A x \in DOMAIN bps \ {a} : bps'[x] = bps[x]
  <2>1. bps'[a] = b
    BY <1>1 DEF MapPut
  <2> QED
    BY <1>1, <2>1 DEF MapPut
<1>3. text'[a] = "int3" /\ \A x \in Text \ {a} : text'[x] = text[x]
  BY <1>1 DEF IndInv, TypeOK, TraceeTypeOK
<1>4. text[a] = "orig" \/ (text[a] = "int3" /\ Shared(a))
  BY DEF IndInv, TextMirrorsTable, IsEnabled
<1>5. ASSUME NEW x \in DOMAIN bps'
      PROVE  /\ text'[x] = IF bps'[x].enabled THEN "int3" ELSE bps'[x].saved
             /\ bps'[x].saved = "orig" \/ (bps'[x].saved = "int3" /\ Shared(x))
  <2>1. CASE x = a
    BY <1>2, <1>3, <1>4, <2>1
  <2>2. CASE x # a
    <3>1. x \in DOMAIN bps /\ x \in Text
      BY <1>2, <2>2 DEF IndInv, TypeOK
    <3> QED
      BY <1>2, <1>3, <2>2, <3>1 DEF IndInv, TextMirrorsTable
  <2> QED
    BY <2>1, <2>2
<1>6. \A x \in Text \ DOMAIN bps' : text'[x] = "orig"
  BY <1>2, <1>3 DEF IndInv, TextMirrorsTable
<1> QED
  BY <1>5, <1>6 DEF TextMirrorsTable, Shared, Abs

LEMMA SetBreakpointIndInv ==
  ASSUME IndInv, NEW m \in Lines, SetBreakpoint(m)
  PROVE  IndInv'
<1> DEFINE a == Abs(m)
<1>1. ui = "idle" /\ ~lineOn[m] /\ Enable(a, "idle") /\ Toggle(m)
  BY DEF SetBreakpoint
<1>2. lineOn' \in [Lines -> BOOLEAN] /\ lineOn'[m] /\ \A l \in Lines \ {m} : lineOn'[l] = lineOn[l]
  BY <1>1 DEF Toggle, IndInv, TypeOK
<1>3. a \in Text /\ "idle" \in Labels
  BY DebuggerAssumption DEF Labels
<1>4. CASE Stopped \/ NDEBUG
  <2>1. TypeOK'
    BY <1>1, <1>2, <1>3, EnableType DEF IndInv
  <2>2. /\ DOMAIN bps' = DOMAIN bps \cup {a}
        /\ \A x : IsEnabled(x)' <=> x = a \/ IsEnabled(x)
        /\ ui' = "idle" /\ cur' = 0
    BY <1>1, <1>4, EnableEnabled DEF IndInv
  <2>3. EntryInv' /\ LiftInv'
    BY <2>2 DEF EntryInv, LiftInv, Found, Lifted
  <2>4. DomainInv'
    BY <1>1, <1>2, <2>2 DEF IndInv, DomainInv, Abs
  <2>5. IsEnabled(a) => Shared(a)
    BY <1>1 DEF IndInv, MarksMirrorTable, Shared
  <2>6. TextMirrorsTable'
    <3>1. CASE Stopped
      BY <1>1, <1>3, <2>5, <3>1, EnableText
    <3>2. CASE NDEBUG
      BY <3>2 DEF TextMirrorsTable
    <3> QED
      BY <1>4, <3>1, <3>2
  <2>7. MarksMirrorTable'
    <3> SUFFICES ASSUME NEW l \in Lines
                 PROVE  /\ IsEnabled(Abs(l))' => \E n \in Lines : Abs(n) = Abs(l) /\ lineOn'[n]
                        /\ lineOn'[l] => IsEnabled(Abs(l))' \/ Shared(Abs(l))
      BY <2>2 DEF MarksMirrorTable, SteppedOver, Lifted, Shared, Abs
    <3>1. CASE Abs(l) = a
      BY <1>2, <2>2, <3>1
    <3>2. CASE Abs(l) # a
      <4>1. PICK n \in Lines :
              /\ IsEnabled(Abs(l)) => Abs(n) = Abs(l) /\ lineOn[n]
              /\ lineOn[l] => IsEnabled(Abs(l)) \/ Shared(Abs(l))
        BY <1>1 DEF IndInv, MarksMirrorTable, SteppedOver, Lifted
      <4>2. l # m /\ (Abs(n) = Abs(l) => n # m)
        BY <3>2
      <4> QED
        BY <1>2, <2>2, <3>2, <4>1, <4>2
    <3> QED
      BY <3>1, <3>2
  <2> QED
    BY <2>1, <2>3, <2>4, <2>6, <2>7 DEF IndInv
<1>5. CASE ~Stopped /\ ~NDEBUG
  BY <1>1, <1>2, <1>5, CrashIndInv DEF Enable
<1> QED
  BY <1>4, <1>5, DebuggerAssumption

\* The table after a breakpoint has been disabled, or removed.
LEMMA DisabledEnabled ==
  ASSUME TypeOK, NEW a \in DOMAIN bps, bps' = Disabled(a)
  PROVE  /\ DOMAIN bps' = DOMAIN bps
         /\ \A x : IsEnabled(x)' <=> x # a /\ IsEnabled(x)
         /\ \A x \in DOMAIN bps : bps'[x].saved = bps[x].saved
<1>1. ASSUME NEW x PROVE IsEnabled(x)' <=> x # a /\ IsEnabled(x)
  BY DisabledEntry DEF IsEnabled
<1> QED
  BY <1>1, DisabledEntry

\* breakpoint_disable puts the saved byte back.
LEMMA DisabledText ==
  ASSUME IndInv, NEW a \in DOMAIN bps, bps' = Disabled(a),
         text' = [text EXCEPT ![a] = bps[a].saved]
  PROVE  TextMirrorsTable'
<1> SUFFICES ASSUME ~NDEBUG PROVE TextMirrorsTable'
  BY DEF TextMirrorsTable
<1>1. /\ DOMAIN bps' = DOMAIN bps
      /\ ~bps'[a].enabled /\ bps'[a].saved = bps[a].saved
      /\ \A x \in DOMAIN bps \ {a} : bps'[x] = bps[x]
  BY DisabledEntry DEF IndInv
<1>2. a \in Text /\ text'[a] = bps[a].saved /\ \A x \in Text \ {a} : text'[x] = text[x]
  BY DEF IndInv, TypeOK, TraceeTypeOK
<1>3. ASSUME NEW x \in DOMAIN bps'
      PROVE  /\ text'[x] = IF bps'[x].enabled THEN "int3" ELSE bps'[x].saved
             /\ bps'[x].saved = "orig" \/ (bps'[x].saved = "int3" /\ Shared(x))
  <2>1. CASE x = a
    BY <1>1, <1>2, <2>1 DEF IndInv, TextMirrorsTable
  <2>2. CASE x # a
    <3>1. x \in DOMAIN bps /\ x \in Text
      BY <1>1 DEF IndInv, TypeOK
    <3> QED
      BY <1>1, <1>2, <2>2, <3>1 DEF IndInv, TextMirrorsTable
  <2> QED
    BY <2>1, <2>2
<1>4. \A x \in Text \ DOMAIN bps' : text'[x] = "orig"
  BY <1>1, <1>2 DEF IndInv, TextMirrorsTable
<1> QED
  BY <1>3, <1>4 DEF TextMirrorsTable, Shared, Abs

LEMMA RemoveBreakpointIndInv ==
  ASSUME IndInv, NEW m \in Lines, RemoveBreakpoint(m)
  PROVE  IndInv'
<1> DEFINE a == Abs(m)
<1>1. ui = "idle" /\ lineOn[m] /\ Toggle(m)
  BY DEF RemoveBreakpoint
<1>2. lineOn' \in [Lines -> BOOLEAN] /\ ~lineOn'[m] /\ \A l \in Lines \ {m} : lineOn'[l] = lineOn[l]
  BY <1>1 DEF Toggle, IndInv, TypeOK
<1>3. a \in DOMAIN bps /\ a \in Text
  BY <1>1, DebuggerAssumption DEF IndInv, DomainInv
<1>4. Disable(a, Disabled(a), "idle", "poke_remove")
  BY <1>3, RemovedIsDisabled DEF RemoveBreakpoint, IndInv
<1>5. "idle" \in Labels /\ "poke_remove" \in Labels
  BY DEF Labels
<1>6. TypeOK'
  BY <1>2, <1>3, <1>4, <1>5, DisableType DEF IndInv
<1>7. ASSUME NEW l \in Lines
      PROVE  /\ IsEnabled(Abs(l)) => \E n \in Lines : Abs(n) = Abs(l) /\ lineOn[n]
             /\ lineOn[l] => IsEnabled(Abs(l)) \/ Shared(Abs(l))
  BY <1>1 DEF IndInv, MarksMirrorTable, SteppedOver, Lifted
\* The lines of other addresses.
<1>8. ASSUME NEW l \in Lines, Abs(l) # a
      PROVE  /\ IsEnabled(Abs(l)) => \E n \in Lines : Abs(n) = Abs(l) /\ lineOn'[n]
             /\ lineOn'[l] => IsEnabled(Abs(l)) \/ Shared(Abs(l))
  BY <1>2, <1>7, <1>8
<1>9. CASE Stopped
  <2>1. bps' = Disabled(a) /\ text' = [text EXCEPT ![a] = bps[a].saved] /\ ui' = "idle"
    BY <1>4, <1>9 DEF Disable
  <2>2. DOMAIN bps' = DOMAIN bps /\ \A x : IsEnabled(x)' <=> x # a /\ IsEnabled(x)
    BY <1>3, <2>1, DisabledEnabled DEF IndInv
  <2>3. EntryInv' /\ LiftInv'
    BY <2>1 DEF EntryInv, LiftInv, Found, Lifted
  <2>4. DomainInv'
    BY <1>1, <1>2, <2>2 DEF IndInv, DomainInv, Abs
  <2>5. TextMirrorsTable'
    BY <1>3, <2>1, DisabledText
  <2>6. MarksMirrorTable'
    <3> SUFFICES ASSUME NEW l \in Lines
                 PROVE  /\ IsEnabled(Abs(l))' => \E n \in Lines : Abs(n) = Abs(l) /\ lineOn'[n]
                        /\ lineOn'[l] => IsEnabled(Abs(l))' \/ Shared(Abs(l))
      BY <2>1 DEF MarksMirrorTable, SteppedOver, Lifted, Shared, Abs
    <3>1. CASE Abs(l) = a
      BY <1>2, <2>2, <3>1 DEF Shared
    <3>2. CASE Abs(l) # a
      BY <1>8, <2>2, <3>2
    <3> QED
      BY <3>1, <3>2
  <2> QED
    BY <1>6, <2>3, <2>4, <2>5, <2>6 DEF IndInv
<1>10. CASE ~Stopped /\ NDEBUG
  <2>1. UNCHANGED <<bps, text, st>> /\ ui' = "poke_remove" /\ cur' = a
    BY <1>4, <1>10 DEF Disable, TraceeUnchanged, traceeVars
  <2>2. EntryInv' /\ LiftInv' /\ TextMirrorsTable'
    BY <1>3, <1>10, <2>1 DEF EntryInv, LiftInv, TextMirrorsTable, Found, Lifted
  <2>3. DomainInv'
    BY <1>1, <1>2, <2>1 DEF IndInv, DomainInv, Abs
  <2>4. MarksMirrorTable'
    <3>1. ASSUME NEW l \in Lines, Abs(l) # a
          PROVE  /\ (IsEnabled(Abs(l)) => \E n \in Lines : Abs(n) = Abs(l) /\ lineOn[n])'
                 /\ (lineOn[l] => IsEnabled(Abs(l)) \/ Shared(Abs(l)))'
      BY <1>8, <2>1, <3>1 DEF IsEnabled, Shared, Abs
    <3>2. \E n \in Lines : Abs(n) = a /\ ~lineOn'[n]
      BY <1>2
    <3> QED
      BY <2>1, <3>1, <3>2 DEF MarksMirrorTable, SteppedOver, Lifted, Abs
  <2> QED
    BY <1>6, <2>2, <2>3, <2>4 DEF IndInv
<1>11. CASE ~Stopped /\ ~NDEBUG
  BY <1>2, <1>4, <1>11, CrashIndInv DEF Disable
<1> QED
  BY <1>9, <1>10, <1>11, DebuggerAssumption

LEMMA PokeForRemoveIndInv ==
  ASSUME IndInv, PokeForRemove
  PROVE  IndInv'
<1>1. cur \in DOMAIN bps /\ NDEBUG
  BY DEF PokeForRemove, IndInv, EntryInv
<1>2. PICK m \in Lines : cur = Abs(m)
  BY <1>1 DEF IndInv, DomainInv
<1>3. Removed(cur) = Disabled(cur)
  BY <1>1, <1>2, RemovedIsDisabled DEF IndInv
<1>4. bps' = Disabled(cur) /\ ui' = "idle" /\ cur' = 0 /\ UNCHANGED <<st, lineOn>>
  BY <1>3 DEF PokeForRemove, Poke
<1>5. DOMAIN bps' = DOMAIN bps /\ \A x : IsEnabled(x)' <=> x # cur /\ IsEnabled(x)
  BY <1>1, <1>4, DisabledEnabled DEF IndInv
<1>6. TypeOK'
  <2>1. "idle" \in Labels /\ cur' \in Nat
    BY <1>4 DEF Labels
  <2> QED
    BY <1>1, <1>3, <2>1, PokeType DEF PokeForRemove, IndInv
<1>7. EntryInv' /\ LiftInv' /\ TextMirrorsTable'
  BY <1>1, <1>4 DEF EntryInv, LiftInv, TextMirrorsTable, Found, Lifted
<1>8. DomainInv'
  BY <1>4, <1>5 DEF PokeForRemove, IndInv, DomainInv, Abs
<1>9. MarksMirrorTable'
  <2> SUFFICES ASSUME NEW l \in Lines
               PROVE  /\ IsEnabled(Abs(l))' => \E n \in Lines : Abs(n) = Abs(l) /\ lineOn[n]
                      /\ lineOn[l] => IsEnabled(Abs(l))' \/ Shared(Abs(l))
    BY <1>4 DEF MarksMirrorTable, SteppedOver, Lifted, Shared, Abs
  <2>1. CASE Abs(l) = cur
    <3>1. PICK n \in Lines : Abs(n) = cur /\ ~lineOn[n]
      BY <2>1 DEF PokeForRemove, IndInv, MarksMirrorTable
    <3> QED
      BY <1>5, <2>1, <3>1 DEF Shared
  <2>2. CASE Abs(l) # cur
    BY <1>5, <2>2 DEF PokeForRemove, IndInv, MarksMirrorTable, SteppedOver, Lifted
  <2> QED
    BY <2>1, <2>2
<1> QED
  BY <1>6, <1>7, <1>8, <1>9 DEF IndInv

\* The breakpoint to step over goes from enabled to lifted.
LEMMA LiftMarks ==
  ASSUME IndInv, ui \in {"disable", "poke"}, cur \in DOMAIN bps, bps' = Disabled(cur),
         ui' = "sstep", UNCHANGED <<lineOn, cur>>
  PROVE  EntryInv' /\ DomainInv' /\ MarksMirrorTable'
<1>1. DOMAIN bps' = DOMAIN bps /\ \A x : IsEnabled(x)' <=> x # cur /\ IsEnabled(x)
  BY DisabledEnabled DEF IndInv
<1>2. EntryInv'
  BY <1>1, DisabledEntry DEF IndInv, EntryInv, Found, Lifted
<1>3. DomainInv'
  BY <1>1 DEF IndInv, DomainInv, Abs
<1>4. ASSUME NEW l \in Lines
      PROVE  /\ IsEnabled(Abs(l))' \/ cur = Abs(l) =>
                  \E n \in Lines : Abs(n) = Abs(l) /\ lineOn[n]
             /\ lineOn[l] => IsEnabled(Abs(l))' \/ cur = Abs(l) \/ Shared(Abs(l))
  <2>1. /\ IsEnabled(Abs(l)) => \E n \in Lines : Abs(n) = Abs(l) /\ lineOn[n]
        /\ lineOn[l] => IsEnabled(Abs(l)) \/ Shared(Abs(l))
    BY DEF IndInv, MarksMirrorTable, SteppedOver, Lifted
  <2>2. IsEnabled(cur)
    BY DEF IndInv, EntryInv, Found
  <2> QED
    BY <1>1, <2>1, <2>2
<1>5. MarksMirrorTable'
  BY <1>4 DEF MarksMirrorTable, SteppedOver, Lifted, Shared, Abs
<1> QED
  BY <1>2, <1>3, <1>5

LEMMA DisableForStepIndInv ==
  ASSUME IndInv, DisableForStep
  PROVE  IndInv'
<1>1. IsEnabled(cur) /\ cur \in DOMAIN bps /\ ui = "disable"
  BY DEF DisableForStep, IndInv, EntryInv, Found, IsEnabled
<1>2. Disable(cur, Disabled(cur), "sstep", "poke") /\ lineOn' = lineOn
  BY DEF DisableForStep
<1>3. lineOn' \in [Lines -> BOOLEAN] /\ "sstep" \in Labels /\ "poke" \in Labels
  BY <1>2 DEF IndInv, TypeOK, Labels
<1>4. TypeOK'
  BY <1>1, <1>2, <1>3, DisableType DEF IndInv
<1>5. CASE Stopped
  <2>1. /\ bps' = Disabled(cur) /\ text' = [text EXCEPT ![cur] = bps[cur].saved]
        /\ ui' = "sstep" /\ cur' = cur /\ st' = st
    BY <1>2, <1>5 DEF Disable
  <2>2. TextMirrorsTable'
    BY <1>1, <2>1, DisabledText
  <2>3. LiftInv'
    BY <1>5, <2>1 DEF LiftInv, Stopped
  <2> QED
    BY <1>1, <1>2, <1>4, <2>1, <2>2, <2>3, LiftMarks DEF IndInv
<1>6. CASE ~Stopped /\ NDEBUG
  <2>1. UNCHANGED <<bps, text, st, lineOn, cur>> /\ ui' = "poke"
    BY <1>2, <1>6 DEF Disable, TraceeUnchanged, traceeVars
  <2>2. EntryInv' /\ DomainInv' /\ LiftInv' /\ TextMirrorsTable'
    BY <1>1, <1>6, <2>1 DEF IndInv, EntryInv, DomainInv, LiftInv, TextMirrorsTable, Found,
       Lifted, IsEnabled, Abs
  <2>3. MarksMirrorTable'
    BY <1>1, <2>1 DEF IndInv, MarksMirrorTable, SteppedOver, Lifted, IsEnabled, Shared, Abs
  <2> QED
    BY <1>4, <2>2, <2>3 DEF IndInv
<1>7. CASE ~Stopped /\ ~NDEBUG
  BY <1>2, <1>3, <1>7, CrashIndInv DEF Disable
<1> QED
  BY <1>5, <1>6, <1>7, DebuggerAssumption

LEMMA PokeForStepIndInv ==
  ASSUME IndInv, PokeForStep
  PROVE  IndInv'
<1>1. cur \in DOMAIN bps /\ NDEBUG /\ ui = "poke"
  BY DEF PokeForStep, IndInv, EntryInv, Found, IsEnabled
<1>2. bps' = Disabled(cur) /\ ui' = "sstep" /\ UNCHANGED <<st, lineOn, cur>>
  BY DEF PokeForStep, Poke
<1>3. TypeOK'
  <2>1. "sstep" \in Labels /\ cur' \in Nat
    BY <1>2 DEF IndInv, TypeOK, Labels
  <2> QED
    BY <1>1, <2>1, PokeType DEF PokeForStep, IndInv
<1>4. LiftInv' /\ TextMirrorsTable'
  BY <1>1, <1>2 DEF LiftInv, TextMirrorsTable
<1> QED
  BY <1>1, <1>2, <1>3, <1>4, LiftMarks DEF IndInv

LEMMA ReenableIndInv ==
  ASSUME IndInv, Reenable
  PROVE  IndInv'
<1>1. ui = "enable" /\ Enable(cur, "cont") /\ lineOn' = lineOn
  BY DEF Reenable
<1>2. cur \in DOMAIN bps /\ ~IsEnabled(cur) /\ cur \in Text
  BY <1>1 DEF IndInv, EntryInv, Lifted, IsEnabled, TypeOK
<1>3. lineOn' \in [Lines -> BOOLEAN] /\ "cont" \in Labels
  BY <1>1 DEF IndInv, TypeOK, Labels
<1>4. CASE Stopped \/ NDEBUG
  <2>1. TypeOK'
    BY <1>1, <1>2, <1>3, EnableType DEF IndInv
  <2>2. /\ DOMAIN bps' = DOMAIN bps
        /\ \A x : IsEnabled(x)' <=> x = cur \/ IsEnabled(x)
        /\ ui' = "cont" /\ cur' = 0
    BY <1>1, <1>2, <1>4, EnableEnabled DEF IndInv
  <2>3. EntryInv' /\ LiftInv'
    BY <2>2 DEF EntryInv, LiftInv, Found, Lifted
  <2>4. DomainInv'
    BY <1>1, <2>2 DEF IndInv, DomainInv, Abs
  <2>5. TextMirrorsTable'
    <3>1. CASE Stopped
      BY <1>1, <1>2, <3>1, EnableText
    <3>2. CASE NDEBUG
      BY <3>2 DEF TextMirrorsTable
    <3> QED
      BY <1>4, <3>1, <3>2
  <2>6. MarksMirrorTable'
    <3> SUFFICES ASSUME NEW l \in Lines
                 PROVE  /\ IsEnabled(Abs(l))' => \E n \in Lines : Abs(n) = Abs(l) /\ lineOn[n]
                        /\ lineOn[l] => IsEnabled(Abs(l))' \/ Shared(Abs(l))
      BY <1>1, <2>2 DEF MarksMirrorTable, SteppedOver, Lifted, Shared, Abs
    <3> QED
      BY <1>1, <2>2 DEF IndInv, MarksMirrorTable, SteppedOver, Lifted
  <2> QED
    BY <2>1, <2>3, <2>4, <2>5, <2>6 DEF IndInv
<1>5. CASE ~Stopped /\ ~NDEBUG
  BY <1>1, <1>3, <1>5, CrashIndInv DEF Enable
<1> QED
  BY <1>4, <1>5, DebuggerAssumption

\* A step that touches neither the table, nor the text, nor the marks.
LEMMA SteadyIndInv ==
  ASSUME IndInv, UNCHANGED <<bps, text, lineOn>>, TypeOK', EntryInv', LiftInv',
         ui # "aborted", ui # "poke_remove", ui' # "poke_remove",
         ui \in Lifted <=> ui' \in Lifted, ui \in Lifted => cur' = cur
  PROVE  IndInv'
<1>1. DomainInv'
  BY DEF IndInv, DomainInv, Abs
<1>2. TextMirrorsTable'
  BY DEF IndInv, TextMirrorsTable, IsEnabled, Shared, Abs
<1>3. MarksMirrorTable'
  BY DEF IndInv, MarksMirrorTable, IsEnabled, SteppedOver, Shared, Abs
<1> QED
  BY <1>1, <1>2, <1>3 DEF IndInv

LEMMA EnvironmentIndInv ==
  ASSUME IndInv, Environment
  PROVE  IndInv'
<1>1. UNCHANGED <<bps, text, lineOn, ui, cur>>
  BY DEF Environment, Execute, Exec, Trap, Exit, Derail, Signal, dbgVars
<1>2. TypeOK'
  BY EnvironmentType DEF IndInv
<1>3. st' = "running" => st = "running" /\ ~step
  BY DEF Environment, Execute, Exec, Trap, Exit, Derail, Signal, Live
<1>4. ~Stopped
  BY DEF Environment, Execute, Exec, Trap, Exit, Derail, Signal, Live, Stopped
<1>5. LiftInv'
  BY <1>1, <1>3, <1>4 DEF IndInv, LiftInv, Stopped
<1>6. EntryInv' /\ DomainInv'
  BY <1>1 DEF IndInv, EntryInv, DomainInv, IsEnabled, Abs
<1>7. TextMirrorsTable'
  BY <1>1 DEF IndInv, TextMirrorsTable, IsEnabled, Shared, Abs
<1>8. MarksMirrorTable'
  BY <1>1 DEF IndInv, MarksMirrorTable, IsEnabled, SteppedOver, Shared, Abs
<1> QED
  BY <1>2, <1>5, <1>6, <1>7, <1>8 DEF IndInv

LEMMA NextIndInv == IndInv /\ [Next]_vars => IndInv'
<1> SUFFICES ASSUME IndInv, [Next]_vars PROVE IndInv'
  OBVIOUS
<1>0. TypeOK'
  BY NextType DEF IndInv
<1>1. ASSUME NEW m \in Lines, SetBreakpoint(m) PROVE IndInv'
  BY <1>1, SetBreakpointIndInv
<1>2. ASSUME NEW m \in Lines, RemoveBreakpoint(m) PROVE IndInv'
  BY <1>2, RemoveBreakpointIndInv
<1>3. ASSUME PokeForRemove PROVE IndInv'
  BY <1>3, PokeForRemoveIndInv
<1>4. ASSUME PressSpace PROVE IndInv'
  <2>1. /\ UNCHANGED <<bps, text, lineOn, st>> /\ ui = "idle"
        /\ (ui' = "getregs" /\ IsEnabled(cur')) \/ ui' = "cont"
    BY <1>4 DEF PressSpace, TraceeUnchanged, traceeVars
  <2>2. EntryInv' /\ LiftInv'
    BY <2>1 DEF EntryInv, LiftInv, Found, Lifted, IsEnabled
  <2> QED
    BY <1>0, <2>1, <2>2, SteadyIndInv DEF Lifted
<1>5. ASSUME SetPcGetRegs PROVE IndInv'
  <2>1. /\ UNCHANGED <<bps, text, lineOn, cur, st>> /\ ui = "getregs"
        /\ ui' \in {"setregs", "setjunk"}
    BY <1>5 DEF SetPcGetRegs, TraceeUnchanged, traceeVars
  <2>2. EntryInv' /\ LiftInv'
    BY <2>1 DEF IndInv, EntryInv, LiftInv, Found, Lifted, IsEnabled
  <2> QED
    BY <1>0, <2>1, <2>2, SteadyIndInv DEF Lifted
<1>6. ASSUME SetPcSetRegs PROVE IndInv'
  <2>1. /\ UNCHANGED <<bps, text, lineOn, cur, st>> /\ ui \in {"setregs", "setjunk"}
        /\ ui' = "disable"
    BY <1>6 DEF SetPcSetRegs, SetRegs
  <2>2. EntryInv' /\ LiftInv'
    BY <2>1 DEF IndInv, EntryInv, LiftInv, Found, Lifted, IsEnabled
  <2> QED
    BY <1>0, <2>1, <2>2, SteadyIndInv DEF Lifted
<1>7. ASSUME DisableForStep PROVE IndInv'
  BY <1>7, DisableForStepIndInv
<1>8. ASSUME PokeForStep PROVE IndInv'
  BY <1>8, PokeForStepIndInv
<1>9. ASSUME SingleStep PROVE IndInv'
  <2>1. /\ UNCHANGED <<bps, text, lineOn, cur>> /\ ui = "sstep" /\ ui' = "swait"
        /\ Stopped => step'
    BY <1>9 DEF SingleStep, Resume
  <2>2. EntryInv' /\ LiftInv'
    BY <2>1 DEF IndInv, EntryInv, LiftInv, Found, Lifted, IsEnabled
  <2> QED
    BY <1>0, <2>1, <2>2, SteadyIndInv DEF Lifted
<1>10. ASSUME StepWait PROVE IndInv'
  <2>1. /\ UNCHANGED <<bps, text, lineOn, cur, st>> /\ ui = "swait" /\ ui' = "enable"
        /\ st # "running"
    BY <1>10 DEF StepWait, TraceeUnchanged, traceeVars
  <2>2. EntryInv' /\ LiftInv'
    BY <2>1 DEF IndInv, EntryInv, LiftInv, Found, Lifted, IsEnabled
  <2> QED
    BY <1>0, <2>1, <2>2, SteadyIndInv DEF Lifted
<1>11. ASSUME Reenable PROVE IndInv'
  BY <1>11, ReenableIndInv
<1>12. ASSUME Cont \/ ContWait \/ PressU \/ Close PROVE IndInv'
  <2>1. /\ UNCHANGED <<bps, text, lineOn>> /\ ui \in {"cont", "cwait", "idle"}
        /\ ui' \in {"cwait", "idle", "closed"}
    BY <1>12 DEF Cont, ContWait, PressU, Close, Resume, Detach, TraceeUnchanged, traceeVars,
       dbgVars
  <2>2. EntryInv' /\ LiftInv'
    BY <2>1 DEF EntryInv, LiftInv, Found, Lifted
  <2> QED
    BY <1>0, <2>1, <2>2, SteadyIndInv DEF Lifted
<1>13. ASSUME Environment PROVE IndInv'
  BY <1>13, EnvironmentIndInv
<1>14. ASSUME UNCHANGED vars PROVE IndInv'
  <2>1. EntryInv' /\ LiftInv' /\ DomainInv'
    BY <1>14 DEF vars, IndInv, EntryInv, LiftInv, DomainInv, IsEnabled, Stopped, Abs
  <2>2. TextMirrorsTable'
    BY <1>14 DEF vars, IndInv, TextMirrorsTable, IsEnabled, Shared, Abs
  <2>3. MarksMirrorTable'
    BY <1>14 DEF vars, IndInv, MarksMirrorTable, IsEnabled, SteppedOver, Shared, Abs
  <2> QED
    BY <1>0, <2>1, <2>2, <2>3 DEF IndInv
<1> QED
  BY <1>1, <1>2, <1>3, <1>4, <1>5, <1>6, <1>7, <1>8, <1>9, <1>10, <1>11, <1>12, <1>13,
     <1>14
  DEF Next, Click, Handler

-----------------------------------------------------------------------------
(* The theorems.                                                           *)

\* The inductive invariant holds in every reachable state.
THEOREM Inductive == Spec => []IndInv
BY InitIndInv, NextIndInv, PTL DEF Spec

\* Every variable keeps its type (the state of debugger.c, step_view.c and the
\* debuggee).
THEOREM TypeCorrect == Spec => []TypeOK
<1>1. IndInv => TypeOK
  BY DEF IndInv
<1> QED
  BY <1>1, Inductive, PTL

\* In a build with asserts an INT3 is where an entry is enabled, and elsewhere
\* only where a second line of one address has had it saved (breakpoint.c).
THEOREM TextAgrees == Spec => []TextMirrorsTable
<1>1. IndInv => TextMirrorsTable
  BY DEF IndInv
<1> QED
  BY <1>1, Inductive, PTL

\* An enabled entry has a marked line, and a marked line that shares its address
\* with no other has an enabled entry (step_view.c:127-138 with
\* debugger.c:72-103).
THEOREM MarksAgree == Spec => []MarksMirrorTable
<1>1. IndInv => MarksMirrorTable
  BY DEF IndInv
<1> QED
  BY <1>1, Inductive, PTL

\* The debuggee never runs freely with the INT3 of a marked line missing, if the
\* line shares its address with no other (step_over_breakpoint and
\* continue_execution).
THEOREM NothingMissed == Spec => []NoMissedBreakpoint
<1>1. ASSUME IndInv PROVE NoMissedBreakpoint
  <2> SUFFICES ASSUME ~NDEBUG, st = "running", ~step, NEW l \in Lines, lineOn[l],
                      ~Shared(Abs(l))
               PROVE  text[Abs(l)] = "int3"
    BY DEF NoMissedBreakpoint
  <2>1. ui \notin Lifted /\ ui # "aborted" /\ ui # "poke_remove"
    BY <1>1 DEF IndInv, EntryInv, LiftInv, Lifted, Stopped
  <2>2. IsEnabled(Abs(l))
    BY <1>1, <2>1 DEF IndInv, MarksMirrorTable, SteppedOver
  <2> QED
    BY <1>1, <2>2 DEF IndInv, TextMirrorsTable, IsEnabled
<1> QED
  BY <1>1, Inductive, PTL

\* The debugger dies only for want of a stopped debuggee, and only in a build
\* with asserts: no lookup or removal of a breakpoint ever fails.
THEOREM DiesForWantOfTracee == Spec => DiesOnlyWithoutTracee
<1>1. ASSUME IndInv, [Next]_vars, ui # "aborted", ui' = "aborted"
      PROVE  ~Stopped /\ ~NDEBUG
  <2>1. ASSUME NEW m \in Lines, SetBreakpoint(m) PROVE ~Stopped /\ ~NDEBUG
    BY <1>1, <2>1, DebuggerAssumption DEF SetBreakpoint, Enable
  <2>2. ASSUME NEW m \in Lines, RemoveBreakpoint(m) PROVE ~Stopped /\ ~NDEBUG
    <3>1. Abs(m) \in DOMAIN bps
      BY <1>1, <2>2 DEF RemoveBreakpoint, IndInv, DomainInv
    <3> QED
      BY <1>1, <2>2, <3>1, DebuggerAssumption DEF RemoveBreakpoint, Disable
  <2>3. ASSUME DisableForStep \/ Reenable PROVE ~Stopped /\ ~NDEBUG
    BY <1>1, <2>3, DebuggerAssumption DEF DisableForStep, Reenable, Enable, Disable
  <2>4. ASSUME \/ PressSpace \/ PressU \/ Close \/ Environment \/ PokeForRemove
               \/ SetPcGetRegs \/ SetPcSetRegs \/ PokeForStep \/ SingleStep \/ StepWait
               \/ Cont \/ ContWait \/ UNCHANGED vars
        PROVE FALSE
    BY <1>1, <2>4 DEF PressSpace, PressU, Close, Environment, PokeForRemove, Poke,
       SetPcGetRegs, SetPcSetRegs, PokeForStep, SingleStep, StepWait, Cont, ContWait, vars,
       dbgVars
  <2> QED
    BY <1>1, <2>1, <2>2, <2>3, <2>4 DEF Next, Click, Handler
<1>2. ASSUME IndInv, [Next]_vars
      PROVE  [ui # "aborted" /\ ui' = "aborted" => ~Stopped /\ ~NDEBUG]_vars
  BY <1>1, <1>2
<1> QED
  BY <1>2, Inductive, PTL DEF Spec, DiesOnlyWithoutTracee
=============================================================================
