---------------------------- MODULE DriveStreams ----------------------------
(***************************************************************************)
(* What the calculator relies on when it reads and writes an image through *)
(* the drive of IlDrive: a read delivers the image byte after byte from    *)
(* where it began, and a record lands where it was begun, byte for byte,   *)
(* with nothing else of the image changed.  Both are stated with the image *)
(* as one long row of bytes, without buffers.  A read or a record begins   *)
(* where the drive's pointer is when DDT 2, DDL 2 or DDL 6 comes; from     *)
(* there on, pos and run are moved by the frames under the commands in     *)
(* force (devl, devt, flpwr), and not by the drive's pointers or buffers.  *)
(***************************************************************************)
EXTENDS IlDrive

CONSTANT Payload  \* the bytes of the records the calculator writes

VARIABLES pos,  \* where the read under way goes on, or NoPos
          run   \* the record under way, or NoRun

svars == <<vars, pos, run>>

NoPos == <<>>
NoRun == <<>>

ByteOf(f, p) == SectorOf(f, p \div B)[p % B]

-----------------------------------------------------------------------------
\* The frames that matter, by what they do to the drive.
TakesByte(f) == f.k \in DoeKinds /\ IsListener(Drive)
AsksByte(f) ==
  IsTalker(Drive) /\ (f.k = "SDA" \/ (f.k \in DoeKinds /\ dev[Drive].state = Sending))
Listens(f) == f.k = "DDL" /\ IsListener(Drive)
Talks(f)   == f.k = "DDT" /\ IsTalker(Drive)
Clears(f)  == f.k = "DCL" \/ (f.k = "SDC" /\ Addressed(Drive))
TellsStatus(f) == f.k = "SST" /\ IsTalker(Drive)

\* A read begins with DDT 2, at the sector sought.  DDT 0 resumes it, after
\* NRD or after the drive was asked for something else; DDL 3 moves it in
\* its sector; any other use of the buffers ends it.
EndsRead(f) ==
  \/ Talks(f) /\ f.n \in {1, 4}
  \/ Listens(f) /\ f.n # 3
  \/ TakesByte(f) /\ drive.devl # 3
  \/ Clears(f)

PosAfter(f) ==
  IF Talks(f) /\ f.n = 2                       THEN <<drive.pe * B>>
  ELSE IF pos = NoPos \/ EndsRead(f)           THEN NoPos
  ELSE IF TakesByte(f)                         THEN <<(pos[1] \div B) * B + f.n>>
  ELSE IF AsksByte(f) /\ drive.devt \in {0, 2} THEN <<pos[1] + 1>>
  ELSE pos

\* A record begins with DDL 2, at a sector, or DDL 6, at a byte, and is
\* complete with an END byte or DDL 8.  It wants the bytes the file had, and
\* its own; the sector of a tail, which the drive reads as Filler, is not
\* among them.
Begin(at) ==
  [at |-> at, done |-> FALSE,
   want |-> [p \in 0 .. Len(file) * B - 1 |-> ByteOf(file, p)]]

\* Bytes of the record wait in the buffer.
Pending == ~run.done /\ run.at % B # 0

Take(f) ==
  [at   |-> run.at + 1,
   done |-> f.k = "END",
   want |-> [p \in DOMAIN run.want \cup {run.at} |-> IF p = run.at THEN f.n ELSE run.want[p]]]

\* Whatever else uses the buffers or the pointers, or reads the status, and
\* the bytes behind a record that was ended at a whole sector, end it.
EndsRun(f) ==
  \/ Listens(f) /\ ~(f.n = 8 /\ Pending)
  \/ Talks(f) \/ Clears(f) \/ AsksByte(f) \/ TellsStatus(f)
  \/ TakesByte(f) /\ (drive.devl \notin {2, 6} \/ (run.done /\ ~drive.flpwr))

RunAfter(f) ==
  IF Listens(f) /\ f.n = 2              THEN Begin(drive.pe * B)
  ELSE IF Listens(f) /\ f.n = 6         THEN Begin(drive.pe * B + drive.oc)
  ELSE IF run = NoRun \/ EndsRun(f)     THEN NoRun
  ELSE IF Listens(f)                    THEN [run EXCEPT !.done = TRUE]
  ELSE IF TakesByte(f)                  THEN Take(f)
  ELSE run

StreamInit == Init /\ pos = NoPos /\ run = NoRun

\* The calculator says what its bytes mean before it sends any.
Sensible(f) ==
  TakesByte(f) => drive.devl # 0 /\ (drive.devl \in {2, 6} => f.n \in Payload)

StreamNext ==
  \E f \in Inputs : Sensible(f) /\ ILhdisc(f) /\ pos' = PosAfter(f) /\ run' = RunAfter(f)

StreamSpec == StreamInit /\ [][StreamNext]_svars

-----------------------------------------------------------------------------
(***************************************************************************)
(* Properties                                                              *)
(***************************************************************************)

\* Every byte of a read is the next byte of the image, through the reading
\* ahead at the end of every sector, NRD, and questions in between.
ReadsImage ==
  [][/\ IsTalker(Drive) /\ frame'.k # "DDT"
     /\ NoPos \notin {pos, pos'} /\ pos' # pos
     => frame' = Dab(ByteOf(file, pos[1]))]_svars

\* A complete record is in the image and the image is otherwise what it was,
\* but for the rest of the last sector when the record was not begun with
\* DDL 6; or the status tells of an error.
RestOfSector(p) == ~drive.flpwr /\ p >= run.at /\ p \div B = (run.at - 1) \div B

RunWritten ==
  run # NoRun /\ run.done =>
    \/ drive.status \in {20, 24, 29}
    \/ \A p \in DOMAIN run.want : RestOfSector(p) \/ ByteOf(file, p) = run.want[p]
=============================================================================
