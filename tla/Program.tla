-------------------------------- MODULE Program --------------------------------
(***************************************************************************)
(* The debugged program when nobody debugs it: instruction by instruction, *)
(* until it exits.  A signal that reaches it is delivered before its next  *)
(* instruction: a handler of the program runs, or the program dies of it.  *)
(* A debugger with breakpoints has to be invisible at this level.          *)
(***************************************************************************)
EXTENDS Naturals

CONSTANTS Succ, Exits, Entry

VARIABLES
  at,       \* the instruction to execute next
  done,     \* the program has exited
  ran,      \* parity of the number of instructions executed
  pending,  \* a signal has reached the program and is not delivered yet
  handled   \* parity of the number of signals handled

vars == <<at, done, ran, pending, handled>>

Init ==
  /\ at = Entry /\ done = FALSE /\ ran = 0
  /\ pending = FALSE /\ handled = 0

Step ==
  /\ ~done /\ ~pending /\ at \notin Exits
  /\ at' \in Succ[at]
  /\ ran' = 1 - ran
  /\ UNCHANGED <<done, pending, handled>>

Halt ==
  /\ ~done /\ ~pending /\ at \in Exits
  /\ done' = TRUE
  /\ UNCHANGED <<at, ran, pending, handled>>

Receive ==
  /\ ~done
  /\ pending' = TRUE
  /\ UNCHANGED <<at, done, ran, handled>>

Deliver ==
  /\ pending
  /\ pending' = FALSE
  /\ \/ handled' = 1 - handled /\ UNCHANGED done
     \/ done' = TRUE /\ UNCHANGED handled
  /\ UNCHANGED <<at, ran>>

Next == Step \/ Halt \/ Receive \/ Deliver

Spec == Init /\ [][Next]_vars
=============================================================================
