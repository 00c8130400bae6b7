------------------------------ MODULE MCDebugger ------------------------------
(***************************************************************************)
(* Debugger for TLC: an image of eight bytes mapped at 10.  The program is *)
(* a one-byte instruction, a branch of two bytes, a one-byte instruction   *)
(* and a two-byte instruction that exits.  l1 and l2 are lines with code   *)
(* of their own; l3 and l4 have none, so find_address_by_line sends both   *)
(* to the first byte of the image.                                         *)
(***************************************************************************)
EXTENDS Debugger, TLC

CONSTANTS l1, l2, l3, l4

MCBase == 10
MCText == 10 .. 17
MCInsns == {11, 12, 14, 15}
MCInsnLen == 11 :> 1 @@ 12 :> 2 @@ 14 :> 1 @@ 15 :> 2
MCSucc == 11 :> {12} @@ 12 :> {14, 15} @@ 14 :> {15}
MCExits == {15}
MCEntry == 11
MCLines == {l1, l2, l3, l4}
MCLineAddr == l1 :> 1 @@ l2 :> 2 @@ l3 :> 0 @@ l4 :> 0

\* A smaller program, for the larger state space of a release build.
SmallText == 10 .. 14
SmallInsns == {11, 12, 14}
SmallInsnLen == 11 :> 1 @@ 12 :> 2 @@ 14 :> 1
SmallSucc == 11 :> {12, 14} @@ 12 :> {14}
SmallExits == {14}
SmallLines == {l1, l3, l4}
SmallLineAddr == l1 :> 1 @@ l3 :> 0 @@ l4 :> 0
=============================================================================
