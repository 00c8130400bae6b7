---------------------------- MODULE MCTransparency ----------------------------
(***************************************************************************)
(* Transparency for TLC: a program with a loop of a one-byte and a         *)
(* two-byte instruction, so that one breakpoint is met again and again.    *)
(***************************************************************************)
EXTENDS Transparency, TLC

CONSTANTS l1, l2, l3, l4

MCBase == 10
MCText == 10 .. 17
MCInsns == {11, 12, 14, 15}
MCInsnLen == 11 :> 1 @@ 12 :> 2 @@ 14 :> 1 @@ 15 :> 2
MCSucc == 11 :> {12, 14} @@ 12 :> {11} @@ 14 :> {14, 15}
MCExits == {15}
MCEntry == 11
MCLines == {l1, l2, l3, l4}
MCLineAddr == l1 :> 1 @@ l2 :> 4 @@ l3 :> 0 @@ l4 :> 0
=============================================================================
