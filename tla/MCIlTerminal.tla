---------------------------- MODULE MCIlTerminal ----------------------------
(***************************************************************************)
(* A buffer of a few rows and columns, for the 100 by 256 of the program.  *)
(***************************************************************************)
EXTENDS IlTerminal

\* One view smaller than the buffer in both directions, one that fills it,
\* one too large for it (the view is then the default), one too small.
MCSizes == {<<2, 2>>, <<4, 2>>, <<5, 2>>, <<1, 2>>}

\* All escape sequences, and a byte that is none.
MCEscapes == {65, 66, 67, 68, 69, 72, 74, 81, 82, 83, 84, 60, 62, 37, 90}
=============================================================================
