--------------------------- MODULE MCHpilTransfer ---------------------------
(***************************************************************************)
(* Three devices, any of which may be the talker while the others listen,  *)
(* so that there are listeners before and behind it on the loop.           *)
(***************************************************************************)
EXTENDS HpilTransfer

MCDefAddr  == <<1, 2, 4>>
MCDeviceId == <<<<68, 65, 13>>, <<72, 13>>, <<80, 13>>>>
MCAid      == <<50, 16, 34>>

\* SDC, IDY, LAD and UNL, TAD and UNT.
MCInputs ==
  {FrameOf(c) : c \in {\h404, \h600, \h421, \h422, \h424, \h43F, \h441, \h442, \h45F}}
=============================================================================
