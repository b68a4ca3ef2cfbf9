------------------------------ MODULE IlDrive ------------------------------
(***************************************************************************)
(* A virtual drive (ildrive.c): the engine of HpilBase with the callbacks  *)
(* of a mass storage device.  Two one-sector buffers stand between the     *)
(* loop and the image file; device dependent commands (DDL for a listener, *)
(* DDT for a talker) say what the bytes on the loop mean; the byte and the *)
(* sector pointer move as bytes go through.  The file is opened, read or   *)
(* written anew for every sector, and each of these may fail.              *)
(*                                                                         *)
(* B stands for 256 wherever the code has it: the size of a sector and the *)
(* base of the two pointer bytes.  The drive is device 1 of HpilBase.      *)
(***************************************************************************)
EXTENDS HpilBase

CONSTANTS B,        \* bytes in a sector, values of a byte
          nbe,      \* sectors of the image
          lif_desc, \* the geometry descriptor
          Images,   \* the images the program may start with
          Inputs,   \* the frames of the controller
          Faults,   \* what may go wrong with the file
          MaxPe     \* bound: no sector beyond this one is reached

VARIABLES drive,  \* the fields of drive_t beside base
          file,   \* the image: its whole sectors
          tail    \* what the file has of one more, with zeros behind it

vars == <<dev, frame, drive, file, tail>>

Drive     == 1
SectorIdx == 0 .. B - 1
DataByte  == 0 .. B - 1
Sector    == [SectorIdx -> DataByte]
Filler    == [i \in SectorIdx |-> B - 1]  \* bytes 255
Zeros     == [i \in SectorIdx |-> 0]      \* a hole in a file

\* fpt, flpwr: zero or not.
DriveRecord ==
  [status : {0, 20, 24, 28, 29}, devl : 0 .. 31, devt : 0 .. 31,
   oc : SectorIdx, pe : Nat, pe0 : Nat, fpt : BOOLEAN, flpwr : BOOLEAN,
   ptout : Nat, buf0 : Sector, buf1 : Sector]

PowerOnDrive ==
  [status |-> 0, devl |-> 0, devt |-> 0, oc |-> 0, pe |-> 0, pe0 |-> 0,
   fpt |-> FALSE, flpwr |-> FALSE, ptout |-> 0, buf0 |-> Zeros, buf1 |-> Zeros]

\* A byte of data is one of B; the argument of DDL and DDT has 5 bits (CmdOf).
ASSUME DriveAssumption ==
  /\ N = 1 /\ TwoByte = {}
  /\ B \in Nat /\ B > 1
  /\ nbe \in 1 .. B * B - 1
  /\ Images \subseteq Seq(Sector)
  /\ Inputs \subseteq Frame
  /\ \A f \in Inputs : /\ f.k \in DoeKinds => f.n \in DataByte
                       /\ f.k \in {"DDL", "DDT"} => f.n \in 0 .. 31
  /\ Faults \subseteq {"access", "open", "read", "write"}
  /\ MaxPe \in Nat

-----------------------------------------------------------------------------
(***************************************************************************)
(* The image file.  An outcome is "ok" or a fault: access() says no,       *)
(* open() fails, or read() or write() does.                                *)
(***************************************************************************)
ReadOutcome  == {"ok"} \cup (Faults \ {"write"})
WriteOutcome == {"ok"} \cup (Faults \ {"read"})

\* What read() finds at sector s; a short read counts as a failure.
SectorOf(f, s) == IF s < Len(f) THEN f[s + 1] ELSE Filler

\* f up to sector s: what is written behind the end leaves a hole.
Grown(f, s) == f \o [i \in 1 .. s - Len(f) |-> IF i = 1 THEN tail ELSE Zeros]

\* write() at sector s.
Stored(f, s, buf) ==
  IF s < Len(f) THEN [f EXCEPT ![s + 1] = buf] ELSE Grown(f, s) \o <<buf>>

TailStored(f, s) == IF s < Len(f) THEN tail ELSE Zeros

\* A write that fails in the middle leaves the first k bytes, in a sector of
\* the file or in the tail, and behind the end, when there are any, the hole.
Part(sector, buf, k) == [i \in SectorIdx |-> IF i < k THEN buf[i] ELSE sector[i]]

Torn(f, s, buf, k) ==
  CASE s < Len(f)            -> [f EXCEPT ![s + 1] = Part(@, buf, k)]
    [] s >= Len(f) /\ k > 0  -> Grown(f, s)
    [] s >= Len(f) /\ k = 0  -> f

TailTorn(f, s, buf, k) ==
  CASE s < Len(f) \/ k = 0   -> tail
    [] s = Len(f) /\ k > 0   -> Part(tail, buf, k)
    [] s > Len(f) /\ k > 0   -> Part(Zeros, buf, k)

\* rrec(d), from file f.
Rrec(d, f, o) ==
  CASE o = "ok"     -> [d EXCEPT !.buf0 = SectorOf(f, d.pe)]
    [] o = "read"   -> [d EXCEPT !.buf0 = Filler]
    [] o = "open"   -> [d EXCEPT !.status = 20]
    [] o = "access" -> d

\* wrec(d): what becomes of d ...
Wrec(d, o) ==
  CASE o = "write"            -> [d EXCEPT !.status = 24]
    [] o = "open"             -> [d EXCEPT !.status = 29]
    [] o \in {"ok", "access"} -> d

\* Mutant: the sector pointer moves before the sector is written.
WroteLate(d, o) ==
  \/ o = "ok" /\ file' = Stored(file, d.pe + 1, d.buf0) /\ tail' = TailStored(file, d.pe + 1)
  \/ o = "write" /\ \E k \in SectorIdx :
       /\ file' = Torn(file, d.pe + 1, d.buf0, k)
       /\ tail' = TailTorn(file, d.pe + 1, d.buf0, k)
  \/ o \in {"open", "access"} /\ UNCHANGED <<file, tail>>

\* ... and of the file.
Wrote(d, o) ==
  \/ o = "ok" /\ file' = Stored(file, d.pe, d.buf0) /\ tail' = TailStored(file, d.pe)
  \/ o = "write" /\ \E k \in SectorIdx :
       /\ file' = Torn(file, d.pe, d.buf0, k)
       /\ tail' = TailTorn(file, d.pe, d.buf0, k)
  \/ o \in {"open", "access"} /\ UNCHANGED <<file, tail>>

\* d goes to the next sector (MaxPe bounds the model).
Advance(d)  == [d EXCEPT !.pe = @ + 1]
MayAdvance  == drive.pe < MaxPe

\* format_disc: a sector may fail, and what it has of it and the rest is then
\* missing; if the file cannot be opened it stays and no status tells.
Format(d) ==
  \/ /\ file' = [i \in 1 .. nbe |-> Filler] /\ tail' = Zeros
     /\ drive' = [d EXCEPT !.status = 0]
  \/ /\ "write" \in Faults
     /\ \E n \in 0 .. nbe - 1 : file' = [i \in 1 .. n |-> Filler]
     /\ \E k \in SectorIdx : tail' = Part(Zeros, Filler, k)
     /\ drive' = [d EXCEPT !.status = 29]
  \/ /\ "open" \in Faults
     /\ UNCHANGED <<file, tail>>
     /\ drive' = [d EXCEPT !.status = 0]

-----------------------------------------------------------------------------
(***************************************************************************)
(* indata: a byte b for the drive, the last of a record if end.            *)
(***************************************************************************)

\* Mutant: the byte pointer is not wrapped at the end of the sector.
PutUnwrapped(b) ==
  [drive EXCEPT !.buf0 = [@ EXCEPT ![drive.oc] = b], !.oc = @ + 1]

Put(b) == [drive EXCEPT !.buf0 = [@ EXCEPT ![drive.oc] = b], !.oc = (@ + 1) % B]

LastOfSector == drive.oc = B - 1

\* Mutant: the next sector is not loaded in partial-write mode.
FillSectorNoLoad(b) ==
  /\ LastOfSector /\ MayAdvance
  /\ \E w \in WriteOutcome :
       /\ Wrote(Put(b), w)
       /\ drive' = Advance(Wrec(Put(b), w))

FillSector(b) ==
  /\ LastOfSector /\ MayAdvance
  /\ \E w \in WriteOutcome, r \in ReadOutcome :
       /\ Wrote(Put(b), w)
       /\ LET d == Advance(Wrec(Put(b), w))
          IN  drive' = IF drive.flpwr THEN Rrec(d, file', r) ELSE d

EndRecord(b) ==
  /\ ~LastOfSector /\ MayAdvance
  /\ \E w \in WriteOutcome :
       /\ Wrote(Put(b), w)
       /\ LET d == Wrec(Put(b), w)
          IN  drive' = IF drive.flpwr THEN d ELSE Advance(d)

FillByte(b) == ~LastOfSector /\ drive' = Put(b) /\ UNCHANGED <<file, tail>>

\* The two bytes of the sector pointer, the high one first.
SeekByte(b) ==
  \/ /\ ~drive.fpt
     /\ drive' = [drive EXCEPT !.pe0 = (b * B) + (@ % B), !.fpt = TRUE]
  \/ /\ drive.fpt
     /\ LET p == ((drive.pe0 \div B) * B) + b
        IN  drive' = IF p < nbe
                     THEN [drive EXCEPT !.pe0 = p, !.pe = p, !.status = 0, !.fpt = FALSE]
                     ELSE [drive EXCEPT !.pe0 = p, !.status = 28, !.fpt = FALSE]

Indata(b, end) ==
  \/ drive.devl \in {0, 2, 6} /\ FillSector(b)
  \/ drive.devl \in {0, 2, 6} /\ end /\ EndRecord(b)
  \/ drive.devl \in {0, 2, 6} /\ ~end /\ FillByte(b)
  \/ /\ drive.devl = 1
     /\ drive' = [drive EXCEPT !.buf1 = [@ EXCEPT ![drive.oc] = b], !.oc = (@ + 1) % B]
     /\ UNCHANGED <<file, tail>>
  \/ drive.devl = 3 /\ drive' = [drive EXCEPT !.oc = b] /\ UNCHANGED <<file, tail>>
  \/ drive.devl = 4 /\ SeekByte(b) /\ UNCHANGED <<file, tail>>
  \/ drive.devl \notin {0, 1, 2, 3, 4, 6} /\ UNCHANGED <<drive, file, tail>>

-----------------------------------------------------------------------------
(***************************************************************************)
(* outdta: the byte the drive sends next, and what sending it does.        *)
(***************************************************************************)
Pointers == <<drive.pe \div B, drive.pe % B, drive.oc>>
Capacity == <<nbe \div B, nbe % B>>

Item(s) == IF drive.ptout < Len(s) THEN s[drive.ptout + 1] ELSE NoByte

OutByte ==
  CASE drive.devt \in {0, 2} -> drive.buf0[drive.oc]
    [] drive.devt = 1        -> drive.buf1[drive.oc]
    [] drive.devt = 3        -> Item(Pointers)
    [] drive.devt = 6        -> Item(lif_desc)
    [] drive.devt = 7        -> Item(Capacity)
    [] OTHER                 -> NoByte

NextByte(d) == [d EXCEPT !.oc = (@ + 1) % B]

\* Mutant: the sector pointer moves before the next sector is read ahead.
SendBuf0Skips ==
  /\ drive.devt \in {0, 2}
  /\ \/ ~LastOfSector /\ drive' = NextByte(drive)
     \/ /\ LastOfSector /\ MayAdvance
        /\ \E r \in ReadOutcome : drive' = Rrec(Advance(NextByte(drive)), file, r)

SendBuf0 ==
  /\ drive.devt \in {0, 2}
  /\ \/ ~LastOfSector /\ drive' = NextByte(drive)
     \/ /\ LastOfSector /\ MayAdvance
        /\ \E r \in ReadOutcome : drive' = Advance(Rrec(NextByte(drive), file, r))

SendBuf1 ==
  /\ drive.devt = 1
  /\ drive' = IF LastOfSector THEN [NextByte(drive) EXCEPT !.devt = 15] ELSE NextByte(drive)

\* ptout counts the ETO answers of DDT 3 and 7 too; the guard bounds it.
SendItem ==
  /\ \/ drive.devt \in {3, 7} /\ drive.ptout <= 4
     \/ drive.devt = 6 /\ drive.ptout < Len(lif_desc)
  /\ drive' = [drive EXCEPT !.ptout = @ + 1]

SendNone ==
  /\ drive.devt \notin {0, 1, 2, 3, 7}
  /\ drive.devt = 6 => drive.ptout >= Len(lif_desc)
  /\ UNCHANGED drive

Outdta == (SendBuf0 \/ SendBuf1 \/ SendItem \/ SendNone) /\ UNCHANGED <<file, tail>>

-----------------------------------------------------------------------------
(***************************************************************************)
(* on_cmd                                                                  *)
(***************************************************************************)
Exchbuf(d) == [d EXCEPT !.oc = 0, !.buf0 = d.buf1, !.buf1 = d.buf0]

Close(d) ==
  /\ d.flpwr \/ MayAdvance
  /\ \E w \in WriteOutcome :
       /\ Wrote(d, w)
       /\ drive' = IF d.flpwr THEN Wrec(d, w) ELSE Advance(Wrec(d, w))

\* DDL n, for a listener.
Ddl(n) ==
  LET d == [drive EXCEPT !.devl = n]
  IN  \/ n = 1 /\ drive' = [d EXCEPT !.flpwr = FALSE] /\ UNCHANGED <<file, tail>>
      \/ n = 2 /\ drive' = [d EXCEPT !.oc = 0, !.flpwr = FALSE] /\ UNCHANGED <<file, tail>>
      \/ n = 4 /\ drive' = [d EXCEPT !.flpwr = FALSE, !.fpt = FALSE] /\ UNCHANGED <<file, tail>>
      \/ n = 5 /\ Format(d)
      \/ /\ n = 6
         /\ \E r \in ReadOutcome : drive' = Rrec([d EXCEPT !.flpwr = TRUE], file, r)
         /\ UNCHANGED <<file, tail>>
      \/ n = 7 /\ drive' = [d EXCEPT !.fpt = FALSE, !.pe = 0, !.oc = 0] /\ UNCHANGED <<file, tail>>
      \/ n = 8 /\ Close(d)
      \/ n = 9 /\ drive' = [d EXCEPT !.oc = 0, !.buf1 = d.buf0] /\ UNCHANGED <<file, tail>>
      \/ n = 10 /\ drive' = Exchbuf(d) /\ UNCHANGED <<file, tail>>
      \/ n \notin {1, 2, 4, 5, 6, 7, 8, 9, 10} /\ drive' = d /\ UNCHANGED <<file, tail>>

\* DDT n, for a talker.
Ddt(n) ==
  LET d == [drive EXCEPT !.devt = n, !.ptout = 0]
  IN  \/ n = 0 /\ drive' = [d EXCEPT !.flpwr = FALSE]
      \/ /\ n = 2 /\ MayAdvance
         /\ \E r \in ReadOutcome :
              drive' = Advance([Rrec(d, file, r) EXCEPT !.oc = 0, !.flpwr = FALSE])
      \/ n = 4 /\ drive' = Exchbuf(d)
      \/ n \notin {0, 2, 4} /\ drive' = d

OnCmd(f) ==
  \/ f.k = "DDL" /\ IsListener(Drive) /\ Ddl(f.n)
  \/ f.k = "DDT" /\ IsTalker(Drive) /\ Ddt(f.n) /\ UNCHANGED <<file, tail>>
  \/ /\ f.k = "DDL" => ~IsListener(Drive)
     /\ f.k = "DDT" => ~IsTalker(Drive)
     /\ UNCHANGED <<drive, file, tail>>

-----------------------------------------------------------------------------
\* The error bits are gone once the status is read.
OnStatus == drive' = [drive EXCEPT !.status = (@ \div 32) * 32] /\ UNCHANGED <<file, tail>>

OnClear == drive' = [drive EXCEPT !.fpt = FALSE, !.pe = 0, !.oc = 0] /\ UNCHANGED <<file, tail>>

\* ILhdisc1(f)
ILhdisc(f) ==
  \/ (Quiet(Drive, f) \/ Poll(Drive, f, FALSE)) /\ UNCHANGED <<drive, file, tail>>
  \/ Hear(Drive, f) /\ Indata(f.n, f.k = "END")
  \/ Send(Drive, f, OutByte) /\ Outdta
  \/ Status(Drive, f, drive.status) /\ OnStatus
  \/ Clear(Drive, f) /\ OnClear
  \/ Command(Drive, f) /\ OnCmd(f)

\* init_drive
Init ==
  /\ dev = [d \in Device |-> PowerOn(d)] /\ frame = Eto
  /\ drive = PowerOnDrive
  /\ file \in Images /\ tail = Zeros

Next == \E f \in Inputs : ILhdisc(f)

Spec == Init /\ [][Next]_vars

-----------------------------------------------------------------------------
(***************************************************************************)
(* Properties                                                              *)
(***************************************************************************)

\* Every variable has its type; oc and the answers stay in their arrays.
TypeOK ==
  /\ dev \in [Device -> DevRecord] /\ frame.k \in Kinds
  /\ drive \in DriveRecord
  /\ file \in Seq(Sector) /\ tail \in Sector

\* Beside formatting, the file changes at the sector the pointer was at, and
\* nowhere else, also when the pointer moves in the same step and when the
\* write fails half way.
OtherSectorsKept ==
  [][drive'.devl # 5 =>
       \A s \in 0 .. Len(file) - 1 : s # drive.pe => SectorOf(file', s) = SectorOf(file, s)]_vars
=============================================================================
