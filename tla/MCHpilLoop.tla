----------------------------- MODULE MCHpilLoop -----------------------------
(***************************************************************************)
(* Three devices: a display (two status bytes), a drive and a printer.     *)
(***************************************************************************)
EXTENDS HpilLoop

MCDefAddr  == <<1, 2, 4>>
MCDeviceId == <<<<68, 65, 13>>, <<72, 13>>, <<80, 82, 13>>>>
MCAid      == <<50, 16, 34>>

\* The frames as they come from the link: DAB and END; SDC, DDL 2, DDT 3, IFC
\* and AAU; LAD and TAD with addresses that devices have before or after an
\* AAD lap, UNL, UNT; ETO, NRD, SDA, SST, SDI, SAI, RFC; AAD on both sides of
\* 30, IAA; IDY.
MCInputs ==
  {FrameOf(c) : c \in {\h000, \h207, \h404, \h4A2, \h4C3, \h490, \h49A,
                       \h421, \h422, \h43D, \h43F,
                       \h441, \h442, \h443, \h444, \h45D, \h45F,
                       \h540, \h542, \h560, \h561, \h562, \h563, \h500,
                       \h582, \h59C, \h59F, \h600}}
=============================================================================
