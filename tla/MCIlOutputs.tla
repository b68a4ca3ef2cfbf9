----------------------------- MODULE MCIlOutputs -----------------------------
(***************************************************************************)
(* The printer alone on the loop.                                          *)
(***************************************************************************)
EXTENDS IlOutputs

MCDeviceId == <<<<80, 82, 13>>>>
MCAddr     == <<4>>
MCAid      == <<34>>

\* Data: CR, LF, A, a Roman-8 letter of two bytes, one of three and one that
\* is not used, a control code with SRQ; DCL, LAD, TAD, SDI, AAD.
MCCodes == {\h00D, \h00A, \h041, \h0C5, \h0AF, \h0B1, \h107,
            \h414, \h424, \h444, \h562, \h581}
=============================================================================
