-------------------------------- MODULE Tracee --------------------------------
(***************************************************************************)
(* The debuggee as its tracer sees it: an x86 program counter that walks   *)
(* over instructions of one or more bytes, text that the tracer may poke,  *)
(* and the ptrace stop states of the kernel.  This is the environment of   *)
(* the debugger; it is modelled from the ptrace calls src/core makes.      *)
(***************************************************************************)
EXTENDS Integers

CONSTANTS
  Text,     \* the (absolute) addresses of the mapped program image
  Insns,    \* the addresses at which an instruction starts
  InsnLen,  \* the length in bytes of the instruction at each such address
  Succ,     \* where control may go from an instruction that is no exit
  Exits,    \* the instructions that end the process
  Entry     \* where the program is stopped after execl

InsnBytes(a) == a .. (a + InsnLen[a] - 1)

ASSUME ProgramAssumption ==
  /\ Text \subseteq Nat \ {0}
  /\ Insns \subseteq Text
  /\ Exits \subseteq Insns
  /\ Entry \in Insns
  /\ InsnLen \in [Insns -> Nat \ {0}]
  /\ Succ \in [Insns \ Exits -> SUBSET Insns]
  /\ \A a \in Insns : InsnBytes(a) \subseteq Text
  /\ \A a, b \in Insns : a # b => InsnBytes(a) \cap InsnBytes(b) = {}

\* A byte of text: what the linker put there, the INT3 opcode 0xCC, or the
\* 0xFF of a failed PTRACE_PEEKDATA written back.
Byte == {"orig", "int3", "ones"}

\* "loose" is a process whose tracer has died: it runs untraced.
Status == {"stopped", "running", "loose", "exited", "killed"}

VARIABLES
  st,       \* the state of the process
  pc,       \* its rip
  text,     \* the bytes of its text, by address
  step,     \* the current resumption is a PTRACE_SINGLESTEP
  trapped,  \* stopped by an INT3, with rip one past it and not yet moved back
  pending,  \* stopped by a signal that the program would handle or die of
  sane,     \* registers and control flow are ones the program can produce
  ran       \* parity of the number of instructions executed

traceeVars == <<st, pc, text, step, trapped, pending, sane, ran>>

TraceeTypeOK ==
  /\ st \in Status
  /\ pc \in Nat
  /\ text \in [Text -> Byte]
  /\ step \in BOOLEAN
  /\ trapped \in BOOLEAN
  /\ pending \in BOOLEAN
  /\ sane \in BOOLEAN
  /\ ran \in {0, 1}

TraceeInit ==
  /\ st = "stopped"
  /\ pc = Entry
  /\ text = [a \in Text |-> "orig"]
  /\ step = FALSE
  /\ trapped = FALSE
  /\ pending = FALSE
  /\ sane = TRUE
  /\ ran = 0

Live == st \in {"running", "loose"}

\* The bytes at pc are one whole instruction of the program.
AtInsn == pc \in Insns /\ \A b \in InsnBytes(pc) : text[b] = "orig"

AtInt3 == pc \in Text /\ text[pc] = "int3"

-----------------------------------------------------------------------------
(* Steps of the process and the kernel.                                    *)

\* An instruction completes; a single-stepped process stops after it.
Exec ==
  /\ Live /\ AtInsn /\ pc \notin Exits
  /\ pc' \in (IF sane THEN Succ[pc] ELSE Insns)
  /\ ran' = 1 - ran
  /\ st' = IF step THEN "stopped" ELSE st
  /\ step' = FALSE
  /\ UNCHANGED <<text, trapped, pending, sane>>

\* INT3: the rip moves past it and SIGTRAP stops a traced process and kills
\* an untraced one.
Trap ==
  /\ Live /\ AtInt3
  /\ pc' = pc + 1
  /\ trapped' = TRUE
  /\ st' = IF st = "running" THEN "stopped" ELSE "killed"
  /\ step' = FALSE
  /\ UNCHANGED <<text, pending, sane, ran>>

Exit ==
  /\ Live /\ AtInsn /\ pc \in Exits
  /\ st' = "exited"
  /\ step' = FALSE
  /\ UNCHANGED <<pc, text, trapped, pending, sane, ran>>

\* The processor decodes bytes that are no instruction of the program:
\* anything may follow, a fault or a jump to any instruction.
Derail ==
  /\ Live /\ ~AtInsn /\ ~AtInt3
  /\ sane' = FALSE
  /\ pc' \in Insns \cup {pc}
  /\ \/ st' = st /\ ~step
     \/ st' = IF st = "running" THEN "stopped" ELSE "killed"
     \/ st' = "exited"
  /\ step' = FALSE
  /\ UNCHANGED <<text, trapped, pending, ran>>

\* A signal for a running traced process: it stops before its delivery, and the
\* signal matters to the program or is one it ignores.  Those that reach a loose
\* process are left out.
Signal ==
  /\ st = "running"
  /\ st' = "stopped"
  /\ step' = FALSE
  /\ pending' \in BOOLEAN
  /\ UNCHANGED <<pc, text, trapped, sane, ran>>

Execute == Exec \/ Trap \/ Exit \/ Derail

-----------------------------------------------------------------------------
(* What a ptrace request does.  Each fails with ESRCH, and changes nothing, *)
(* unless the process is stopped.                                          *)

Stopped == st = "stopped"

\* PTRACE_CONT (single = FALSE) and PTRACE_SINGLESTEP (single = TRUE), whose
\* data is the signal to deliver.  All three calls pass NULL: the signal that
\* stopped the process is discarded.
Resume(single) ==
  /\ IF Stopped
       THEN st' = "running" /\ step' = single /\ trapped' = FALSE /\ pending' = FALSE
       ELSE UNCHANGED <<st, step, trapped, pending>>
  /\ UNCHANGED <<pc, text, sane, ran>>

\* PTRACE_SETREGS with rip = a; good is FALSE when the other registers of the
\* request are uninitialized.
SetRegs(a, good) ==
  /\ IF Stopped
       THEN pc' = a /\ trapped' = FALSE /\ sane' = (sane /\ good)
       ELSE UNCHANGED <<pc, trapped, sane>>
  /\ UNCHANGED <<st, text, step, pending, ran>>

\* The tracer dies: its tracee is detached and runs on, without the signal that
\* stopped it.
Detach ==
  /\ IF st \in {"stopped", "running"}
       THEN st' = "loose" /\ step' = FALSE /\ trapped' = FALSE /\ pending' = FALSE
       ELSE UNCHANGED <<st, step, trapped, pending>>
  /\ UNCHANGED <<pc, text, sane, ran>>

TraceeUnchanged == UNCHANGED traceeVars
=============================================================================
