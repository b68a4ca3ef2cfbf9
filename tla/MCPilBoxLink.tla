---------------------------- MODULE MCPilBoxLink ----------------------------
(***************************************************************************)
(* Frames that share a high byte, that differ in the bit which is in the   *)
(* low byte of one style of box and in the high byte of the other, one     *)
(* with the high byte of the commands (DDL 2), and one whose style 6 high  *)
(* byte agrees with the answer to the start in six bits (ETO).             *)
(***************************************************************************)
EXTENDS PilBoxLink

MCFrames == {\h055, \h0D5, \h4A2, \h540}
=============================================================================
