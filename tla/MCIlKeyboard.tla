---------------------------- MODULE MCIlKeyboard ----------------------------
(***************************************************************************)
(* A ring of a few bytes, which fills up and wraps.                        *)
(***************************************************************************)
EXTENDS IlKeyboard

MCDeviceId == <<<<68, 13>>>>
MCAddr     == <<1>>
MCAid      == <<50>>
=============================================================================
