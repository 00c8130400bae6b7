-------------------------------- MODULE MCUiC --------------------------------
(***************************************************************************)
(* The parts of the two evaluations of a new front end for TLC: BaseArena  *)
(* and Window of ui_c, BoxList of ocaml-eval.  They do not interact: a     *)
(* behaviour is of one of them.                                            *)
(***************************************************************************)
EXTENDS BaseArena, Window, BoxList

parts == <<vars, windowVars, link>>

PartsInit == Init /\ WindowInit /\ ListInit

Fresh ==
  /\ offset = 0 /\ capacity = RoundUp(Capacity, Page) /\ blocks = {}
  /\ scratch = <<>> /\ ~released /\ died = Alive

Unlinked == \A b \in Boxes : link[b] = NoBox

OnlyArena ==
  place = "gfx_init" /\ Unlinked /\ Next /\ UNCHANGED <<windowVars, link>>
OnlyMain  == Fresh /\ Unlinked /\ Main /\ UNCHANGED <<vars, link>>
OnlyUser  == Fresh /\ Unlinked /\ User /\ UNCHANGED <<vars, link>>
OnlyLists ==
  place = "gfx_init" /\ Fresh /\ ListNext /\ UNCHANGED <<vars, windowVars>>

PartsNext == OnlyArena \/ OnlyMain \/ OnlyUser \/ OnlyLists

PartsSpec == PartsInit /\ [][PartsNext]_parts /\ WF_parts(OnlyMain)
=============================================================================
