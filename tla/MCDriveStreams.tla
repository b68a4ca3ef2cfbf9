--------------------------- MODULE MCDriveStreams ---------------------------
(***************************************************************************)
(* A drive with sectors of two bytes, for the 256 of the program, and      *)
(* images of a few sectors, for its 2560.                                  *)
(***************************************************************************)
EXTENDS DriveStreams

MCDeviceId == <<<<72, 13>>>>
MCAddr     == <<2>>
MCAid      == <<16>>
MCDesc     == <<0, 1>>

\* Every sector of the image for reading is different, and none is Filler.
ReadImages == {<<[i \in 0 .. 1 |-> i], [i \in 0 .. 1 |-> 1 - i]>>}
ZeroImages == {<<Zeros, Zeros>>}

Commands(ddl, ddt) == {F("DDL", n) : n \in ddl} \cup {F("DDT", n) : n \in ddt}
DataBytes == {F("DAB", b) : b \in DataByte}

\* Seek or set the byte pointer, read, stop, fill, copy, send or exchange the
\* buffers, ask for the pointers, the descriptor or the status, resume.
ReadInputs ==
  {F("LAD", 2), F("TAD", 2), F("LAD", NoAddress), F("SDA", 0), F("NRD", 0), F("DCL", 0),
   F("SST", 0), F("IDY", 0)}
  \cup DataBytes \cup Commands({1, 3, 4, 9, 10}, {0, 1, 2, 3, 4, 6})

\* Seek, rewind or set the byte pointer, begin a record, fill it, end or close
\* it, format.
WriteInputs ==
  {F("LAD", 2), F("END", 1)} \cup DataBytes \cup Commands({2, 3, 4, 5, 6, 7, 8}, {})

\* The frame handed on decides nothing about the next step (the drive is alone
\* on the loop), so states that differ in it only are one.
View == <<dev, drive, file, tail, pos, run>>
=============================================================================
