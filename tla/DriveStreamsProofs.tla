------------------------- MODULE DriveStreamsProofs -------------------------
(***************************************************************************)
(* What holds of a virtual drive and of the streams of bytes it carries    *)
(* for every size of a sector, every image and every controller.           *)
(***************************************************************************)
EXTENDS DriveStreams, SequenceTheorems, TLAPS

-----------------------------------------------------------------------------
(***************************************************************************)
(* Places in the image: the sector and the byte in it.                     *)
(***************************************************************************)

\* Dividing by the size of a sector.
LEMMA DivB ==
  ASSUME NEW p \in Nat
  PROVE  /\ p \div B \in Nat /\ p % B \in SectorIdx
         /\ p = (p \div B) * B + (p % B)
<1>1. B \in Nat /\ B > 0
  BY DriveAssumption
<1>2. p \div B \in Int /\ p % B \in 0 .. B - 1 /\ p = B * (p \div B) + (p % B)
  BY <1>1
<1>3. p \div B \in Nat
  BY <1>1, <1>2
<1> QED BY <1>1, <1>2, <1>3 DEF SectorIdx

\* Byte i of sector s.
LEMMA Place ==
  ASSUME NEW s \in Nat, NEW i \in SectorIdx
  PROVE  /\ s * B + i \in Nat
         /\ (s * B + i) \div B = s
         /\ (s * B + i) % B = i
<1>1. B \in Nat /\ B > 0 /\ i \in Nat /\ i < B
  BY DriveAssumption DEF SectorIdx
<1>2. s * B \in Nat
  BY <1>1
<1>3. s * B + i \in Nat
  BY <1>1, <1>2
<1> DEFINE q == (s * B + i) \div B
           r == (s * B + i) % B
<1>4. q \in Nat /\ r \in Nat /\ r < B /\ s * B + i = q * B + r
  BY <1>3, DivB, <1>1 DEF SectorIdx
<1> HIDE DEF q, r
<1>5. ~(q < s)
  <2> SUFFICES ASSUME q < s PROVE FALSE
    OBVIOUS
  <2>1. PICK k \in Nat : s = q + 1 + k
    BY <1>4
  <2>2. s * B = q * B + B + k * B /\ k * B \in Nat
    BY <2>1, <1>1, <1>4
  <2> QED BY <2>2, <1>1, <1>2, <1>4
<1>6. ~(s < q)
  <2> SUFFICES ASSUME s < q PROVE FALSE
    OBVIOUS
  <2>1. PICK k \in Nat : q = s + 1 + k
    BY <1>4
  <2>2. q * B = s * B + B + k * B /\ k * B \in Nat
    BY <2>1, <1>1, <1>4
  <2> QED BY <2>2, <1>1, <1>2, <1>4
<1>7. q = s
  BY <1>4, <1>5, <1>6
<1>8. r = i
  BY <1>1, <1>2, <1>4, <1>7
<1> QED BY <1>3, <1>7, <1>8 DEF q, r

\* Two places are the same when sector and byte are.
LEMMA SamePlace ==
  ASSUME NEW p \in Nat, NEW q \in Nat, p \div B = q \div B, p % B = q % B
  PROVE  p = q
<1>1. p = (p \div B) * B + (p % B) /\ q = (q \div B) * B + (q % B)
  BY DivB
<1> QED BY <1>1

\* The next byte is in the same sector, or the first of the next one.
LEMMA NextPlace ==
  ASSUME NEW s \in Nat, NEW i \in SectorIdx
  PROVE  /\ (i + 1) % B = IF i = B - 1 THEN 0 ELSE i + 1
         /\ (i + 1) % B \in SectorIdx
         /\ i = B - 1 => s * B + i + 1 = (s + 1) * B
<1>1. B \in Nat /\ B > 0 /\ i \in Nat /\ i < B
  BY DriveAssumption DEF SectorIdx
<1>2. CASE i = B - 1
  <2>1. i + 1 = 1 * B + 0 /\ 0 \in SectorIdx
    BY <1>1, <1>2 DEF SectorIdx
  <2>2. (i + 1) % B = 0
    BY <2>1, Place
  <2>3. s * B + i + 1 = (s + 1) * B
    BY <1>1, <1>2
  <2> QED BY <1>2, <2>1, <2>2, <2>3
<1>3. CASE i # B - 1
  <2>1. i + 1 = 0 * B + (i + 1) /\ i + 1 \in SectorIdx
    BY <1>1, <1>3 DEF SectorIdx
  <2>2. (i + 1) % B = i + 1
    BY <2>1, Place
  <2> QED BY <1>3, <2>1, <2>2
<1> QED BY <1>2, <1>3

-----------------------------------------------------------------------------
(***************************************************************************)
(* The image file.                                                         *)
(***************************************************************************)

\* What is read is a sector, and what a write leaves is a file of sectors.
LEMMA FillerIsSector == Filler \in Sector /\ Zeros \in Sector
BY DriveAssumption DEF Filler, Zeros, Sector, SectorIdx, DataByte

LEMMA SectorOfOK ==
  ASSUME NEW g \in Seq(Sector), NEW s \in Nat
  PROVE  SectorOf(g, s) \in Sector
BY FillerIsSector DEF SectorOf

LEMMA ByteOfOK ==
  ASSUME NEW g \in Seq(Sector), NEW p \in Nat
  PROVE  ByteOf(g, p) \in DataByte
BY SectorOfOK, DivB DEF ByteOf, Sector

\* A row of equal sectors.
LEMMA RowOK ==
  ASSUME NEW n \in Nat, NEW z \in Sector
  PROVE  /\ [i \in 1 .. n |-> z] \in Seq(Sector)
         /\ Len([i \in 1 .. n |-> z]) = n
OBVIOUS

\* A sector stored where the file has one.
LEMMA StoredInside ==
  ASSUME NEW g \in Seq(Sector), NEW s \in Nat, s < Len(g), NEW buf \in Sector
  PROVE  /\ Stored(g, s, buf) \in Seq(Sector)
         /\ Len(Stored(g, s, buf)) = Len(g)
         /\ SectorOf(Stored(g, s, buf), s) = buf
         /\ \A t \in Nat : t # s => SectorOf(Stored(g, s, buf), t) = SectorOf(g, t)
<1>1. Stored(g, s, buf) = [g EXCEPT ![s + 1] = buf] /\ s + 1 \in 1 .. Len(g)
  BY DEF Stored
<1> QED BY <1>1 DEF SectorOf

\* The file grown up to a sector: what it had is as before.
LEMMA GrownOK ==
  ASSUME tail \in Sector, NEW g \in Seq(Sector), NEW s \in Nat, s >= Len(g)
  PROVE  /\ Grown(g, s) \in Seq(Sector) /\ Len(Grown(g, s)) = s
         /\ \A i \in 1 .. Len(g) : Grown(g, s)[i] = g[i]
<1> DEFINE hole == [i \in 1 .. s - Len(g) |-> IF i = 1 THEN tail ELSE Zeros]
<1>1. hole \in Seq(Sector) /\ Len(hole) = s - Len(g)
  <2>1. s - Len(g) \in Nat
    OBVIOUS
  <2> QED BY <2>1, FillerIsSector
<1>2. Grown(g, s) = g \o hole
  BY DEF Grown
<1> HIDE DEF hole
<1> QED BY <1>1, <1>2, ConcatProperties

\* A sector stored behind the end: the file grows up to it.
LEMMA StoredBehind ==
  ASSUME tail \in Sector,
         NEW g \in Seq(Sector), NEW s \in Nat, s >= Len(g), NEW buf \in Sector
  PROVE  /\ Stored(g, s, buf) \in Seq(Sector)
         /\ Len(Stored(g, s, buf)) = s + 1
         /\ SectorOf(Stored(g, s, buf), s) = buf
         /\ \A t \in Nat : t < Len(g) \/ t > s =>
              SectorOf(Stored(g, s, buf), t) = SectorOf(g, t)
<1> DEFINE h == Grown(g, s)
<1>1. Stored(g, s, buf) = h \o <<buf>>
  BY DEF Stored
<1>3. /\ h \in Seq(Sector) /\ Len(h) = s
      /\ \A i \in 1 .. Len(g) : h[i] = g[i]
  BY GrownOK
<1>4. /\ h \o <<buf>> \in Seq(Sector) /\ Len(h \o <<buf>>) = s + 1
      /\ \A i \in 1 .. s : (h \o <<buf>>)[i] = h[i]
      /\ (h \o <<buf>>)[s + 1] = buf
  <2> HIDE DEF h
  <2> QED BY <1>3
<1>5. \A t \in Nat : t < Len(g) => (h \o <<buf>>)[t + 1] = g[t + 1]
  BY <1>3, <1>4
<1>6. SectorOf(h \o <<buf>>, s) = buf
  BY <1>4 DEF SectorOf
<1>7. ASSUME NEW t \in Nat, t < Len(g) \/ t > s
      PROVE  SectorOf(h \o <<buf>>, t) = SectorOf(g, t)
  <2>1. CASE t < Len(g)
    BY <1>4, <1>5, <2>1 DEF SectorOf
  <2>2. CASE t > s
    BY <1>4, <2>2 DEF SectorOf
  <2> QED BY <1>7, <2>1, <2>2
<1> QED BY <1>1, <1>4, <1>6, <1>7

\* A sector stored anywhere: it is there, and the sectors the file had, and
\* what is behind both, are as before.
HasStored(h, g, s, buf) ==
  /\ h \in Seq(Sector) /\ s < Len(h) /\ Len(g) <= Len(h)
  /\ SectorOf(h, s) = buf
  /\ \A t \in Nat : t # s /\ (t < Len(g) \/ t > s) => SectorOf(h, t) = SectorOf(g, t)

LEMMA StoredKeeps ==
  ASSUME tail \in Sector, NEW g \in Seq(Sector), NEW s \in Nat, NEW buf \in Sector
  PROVE  HasStored(Stored(g, s, buf), g, s, buf)
<1> USE DEF HasStored
<1>0. Len(g) \in Nat
  OBVIOUS
<1>1. CASE s < Len(g)
  <2>1. Len(Stored(g, s, buf)) = Len(g)
    BY <1>1, StoredInside
  <2> QED BY <1>0, <1>1, <2>1, StoredInside
<1>2. CASE s >= Len(g)
  BY <1>0, <1>2, StoredBehind
<1>3. s < Len(g) \/ s >= Len(g)
  BY <1>0
<1> QED BY <1>1, <1>2, <1>3

\* A write that fails keeps the sectors the file had, but for its own.
KeepsOthers(h, g, s) ==
  /\ h \in Seq(Sector)
  /\ \A t \in Nat : t # s /\ t < Len(g) => SectorOf(h, t) = SectorOf(g, t)

LEMMA PartOK ==
  ASSUME NEW z \in Sector, NEW buf \in Sector, NEW k \in SectorIdx
  PROVE  Part(z, buf, k) \in Sector
BY DEF Part, Sector

LEMMA TornKeeps ==
  ASSUME tail \in Sector,
         NEW g \in Seq(Sector), NEW s \in Nat, NEW buf \in Sector, NEW k \in SectorIdx
  PROVE  KeepsOthers(Torn(g, s, buf, k), g, s)
<1> USE DEF KeepsOthers
<1>0. Len(g) \in Nat /\ k \in Nat
  BY DriveAssumption DEF SectorIdx
<1>1. CASE s < Len(g)
  <2> DEFINE half == Part(g[s + 1], buf, k)
  <2>1. s + 1 \in 1 .. Len(g) /\ g[s + 1] \in Sector
    BY <1>1
  <2>2. half \in Sector
    BY <2>1, PartOK
  <2>3. Torn(g, s, buf, k) = [g EXCEPT ![s + 1] = half]
    <3>1. ~(s >= Len(g) /\ k > 0) /\ ~(s >= Len(g) /\ k = 0)
      BY <1>0, <1>1
    <3> QED BY <1>1, <3>1 DEF Torn
  <2> HIDE DEF half
  <2> QED BY <2>1, <2>2, <2>3 DEF SectorOf
<1>2. CASE s >= Len(g) /\ k > 0
  <2>1. Torn(g, s, buf, k) = Grown(g, s)
    <3>1. ~(s < Len(g)) /\ ~(s >= Len(g) /\ k = 0)
      BY <1>0, <1>2
    <3> QED BY <1>2, <3>1 DEF Torn
  <2> QED BY <1>0, <1>2, <2>1, GrownOK DEF SectorOf
<1>3. CASE s >= Len(g) /\ k = 0
  <2>1. Torn(g, s, buf, k) = g
    <3>1. ~(s < Len(g)) /\ ~(s >= Len(g) /\ k > 0)
      BY <1>0, <1>3
    <3> QED BY <1>3, <3>1 DEF Torn
  <2> QED BY <2>1
<1> QED BY <1>0, <1>1, <1>2, <1>3

\* The tail stays a sector with zeros behind it.
LEMMA TailsOK ==
  ASSUME tail \in Sector, NEW g, NEW s, NEW buf \in Sector, NEW k \in SectorIdx,
         Len(g) \in Nat, s \in Nat
  PROVE  TailStored(g, s) \in Sector /\ TailTorn(g, s, buf, k) \in Sector
<1>1. TailStored(g, s) \in Sector
  BY FillerIsSector DEF TailStored
<1>2. /\ k \in Nat
      /\ Part(tail, buf, k) \in Sector /\ Part(Zeros, buf, k) \in Sector
  <2>1. k \in Nat
    BY DriveAssumption DEF SectorIdx
  <2> QED BY <2>1, PartOK, FillerIsSector
<1>3. CASE s < Len(g) \/ k = 0
  <2>1. ~(s = Len(g) /\ k > 0) /\ ~(s > Len(g) /\ k > 0)
    BY <1>2, <1>3
  <2> QED BY <1>1, <1>3, <2>1 DEF TailTorn
<1>4. CASE s = Len(g) /\ k > 0
  <2>1. ~(s < Len(g) \/ k = 0) /\ ~(s > Len(g) /\ k > 0)
    BY <1>2, <1>4
  <2> QED BY <1>1, <1>2, <1>4, <2>1 DEF TailTorn
<1>5. CASE s > Len(g) /\ k > 0
  <2>1. ~(s < Len(g) \/ k = 0) /\ ~(s = Len(g) /\ k > 0)
    BY <1>2, <1>5
  <2> QED BY <1>1, <1>2, <1>5, <2>1 DEF TailTorn
<1>6. \/ s < Len(g) \/ k = 0
      \/ s = Len(g) /\ k > 0
      \/ s > Len(g) /\ k > 0
  BY <1>2
<1> QED BY <1>3, <1>4, <1>5, <1>6

-----------------------------------------------------------------------------
(***************************************************************************)
(* The engine under the drive: its types, and the modes it can be in.      *)
(***************************************************************************)
Modes == {Idle, Listener, Talker, LastByteOut, Sending, Identifying,
          StatusPending, Identifying \ {"sda"}}

EngineOK ==
  /\ dev \in [Device -> DevRecord] /\ dev[Drive].state \in Modes
  /\ frame.k \in Kinds

LEMMA ModesOK ==
  /\ Modes \subseteq SUBSET Flags
  /\ {Idle, Listener, Talker, LastByteOut, Sending, Identifying, StatusPending} \subseteq Modes
  /\ \A m \in Modes : m \ {"sda"} \in Modes
BY DEF Modes, Flags, Idle, Listener, Talker, LastByteOut, Sending, Identifying, StatusPending

\* Only a device in the mode Sending has bytes of on_send on the loop.
LEMMA SendingMode ==
  ASSUME NEW m \in Modes, {"addressed", "talker", "sda"} \subseteq m, "sdi" \notin m
  PROVE  m = Sending
BY DEF Modes, Idle, Listener, Talker, LastByteOut, Sending, Identifying, StatusPending

LEMMA DriveIsDevice == Drive \in Device /\ Device = {Drive}
BY DriveAssumption DEF Drive, Device

\* A new record for the drive, of the right type, and a frame.
LEMMA EngineUpdate ==
  ASSUME EngineOK, NEW r \in DevRecord, r.state \in Modes,
         dev' = [dev EXCEPT ![Drive] = r], frame'.k \in Kinds
  PROVE  EngineOK'
BY DriveIsDevice DEF EngineOK

LEMMA EngineEnter ==
  ASSUME EngineOK, NEW m \in Modes, NEW f, f.k \in Kinds, Enter(Drive, m, f)
  PROVE  EngineOK'
<1> DEFINE r == [dev[Drive] EXCEPT !.state = m]
<1>1. r \in DevRecord /\ r.state = m
  BY DriveIsDevice, ModesOK DEF EngineOK, DevRecord
<1>2. dev' = [dev EXCEPT ![Drive] = r] /\ frame' = f
  BY DEF Enter
<1> HIDE DEF r
<1> QED BY <1>1, <1>2, EngineUpdate

LEMMA FramesMade ==
  /\ \A b : Dab(b).k \in Kinds
  /\ Eto.k \in Kinds /\ F("IDY", 1).k \in Kinds
  /\ \A n : F("AAD", n).k \in Kinds
BY DEF Dab, Eto, F, Kinds, DoeKinds, CmdKinds, RdyKinds

\* The branches without a callback.
LEMMA QuietOK ==
  ASSUME EngineOK, NEW f \in Frame, Quiet(Drive, f)
  PROVE  EngineOK'
<1>0. /\ f.k \in Kinds /\ f.n \in Byte
      /\ dev[Drive] \in DevRecord /\ dev[Drive].state \in Modes
  BY DriveIsDevice DEF Frame, EngineOK
<1>1. CASE NextIdByte(Drive, f)
  <2> DEFINE r == [dev[Drive] EXCEPT !.ptsdi = @ + 1]
  <2>1. r \in DevRecord /\ r.state = dev[Drive].state
    BY <1>0 DEF DevRecord
  <2>2. dev' = [dev EXCEPT ![Drive] = r] /\ frame'.k \in Kinds
    BY <1>1, FramesMade DEF NextIdByte
  <2> HIDE DEF r
  <2> QED BY <1>0, <2>1, <2>2, EngineUpdate
<1>2. CASE EndOfId(Drive, f)
  <2> DEFINE r == [dev[Drive] EXCEPT !.ptsdi = 0, !.state = Talker]
  <2>1. r \in DevRecord /\ r.state = Talker
    BY <1>0, ModesOK DEF DevRecord
  <2>2. dev' = [dev EXCEPT ![Drive] = r] /\ frame'.k \in Kinds
    BY <1>2, FramesMade DEF EndOfId
  <2> HIDE DEF r
  <2> QED BY <2>1, <2>2, EngineUpdate, ModesOK
<1>3. CASE NotReady(Drive, f)
  <2> DEFINE r == [dev[Drive] EXCEPT !.ptsdi = 0, !.state = dev[Drive].state \ {"sda"}]
  <2>1. r \in DevRecord /\ r.state \in Modes
    BY <1>0, ModesOK DEF DevRecord
  <2>2. dev' = [dev EXCEPT ![Drive] = r] /\ frame'.k \in Kinds
    BY <1>0, <1>3 DEF NotReady
  <2> HIDE DEF r
  <2> QED BY <2>1, <2>2, EngineUpdate
<1>4. CASE Identify(Drive, f)
  <2> DEFINE r == [dev[Drive] EXCEPT !.ptsdi = 2, !.state = Identifying]
  <2>1. r \in DevRecord /\ r.state = Identifying
    BY <1>0, ModesOK DEF DevRecord
  <2>2. dev' = [dev EXCEPT ![Drive] = r] /\ frame'.k \in Kinds
    BY <1>4, FramesMade DEF Identify
  <2> HIDE DEF r
  <2> QED BY <2>1, <2>2, EngineUpdate, ModesOK
<1>5. CASE Unconfigure(Drive, f)
  <2> DEFINE r == [dev[Drive] EXCEPT !.adr = DefAddr[Drive], !.aad = FALSE]
  <2>0. DefAddr[Drive] \in 0 .. 30
    BY LoopAssumption, DriveIsDevice
  <2>1. r \in DevRecord /\ r.state = dev[Drive].state
    BY <1>0, <2>0 DEF DevRecord
  <2>2. dev' = [dev EXCEPT ![Drive] = r] /\ frame'.k \in Kinds
    BY <1>0, <1>5 DEF Unconfigure
  <2> HIDE DEF r
  <2> QED BY <1>0, <2>1, <2>2, EngineUpdate
<1>6. CASE TakeAddress(Drive, f)
  <2> DEFINE r == [dev[Drive] EXCEPT !.adr = f.n, !.aad = TRUE]
  <2>0. f.n \in 0 .. 30
    BY <1>0, <1>6 DEF TakeAddress, Byte
  <2>1. r \in DevRecord /\ r.state = dev[Drive].state
    BY <1>0, <2>0 DEF DevRecord
  <2>2. dev' = [dev EXCEPT ![Drive] = r] /\ frame'.k \in Kinds
    BY <1>6, FramesMade DEF TakeAddress
  <2> HIDE DEF r
  <2> QED BY <1>0, <2>1, <2>2, EngineUpdate
<1>7. CASE \/ SendDone(Drive, f) \/ Listen(Drive, f) \/ Unlisten(Drive, f)
           \/ Talk(Drive, f) \/ Untalk(Drive, f) \/ InterfaceClear(Drive, f)
           \/ SendAid(Drive, f)
  <2>1. \E m \in {Idle, Listener, Talker, LastByteOut} : \E g : g.k \in Kinds /\ Enter(Drive, m, g)
    BY <1>0, <1>7, FramesMade
    DEF SendDone, Listen, Unlisten, Talk, Untalk, InterfaceClear, SendAid
  <2> QED BY <2>1, EngineEnter, ModesOK
<1>8. CASE Ignore(Drive, f)
  BY <1>0, <1>8 DEF Ignore, Pass, EngineOK
<1> QED BY <1>1, <1>2, <1>3, <1>4, <1>5, <1>6, <1>7, <1>8 DEF Quiet

\* Every branch.
LEMMA TurnOK ==
  ASSUME EngineOK, NEW f \in Frame, ILhdisc(f)
  PROVE  EngineOK'
<1>0. f.k \in Kinds
  BY DEF Frame
<1>1. CASE Quiet(Drive, f)
  BY <1>1, QuietOK
<1>2. CASE Hear(Drive, f) \/ Clear(Drive, f) \/ Command(Drive, f) \/ Poll(Drive, f, FALSE)
  BY <1>0, <1>2 DEF Hear, Clear, Command, Poll, Pass, EngineOK
<1>3. CASE Send(Drive, f, OutByte)
  <2>1. \/ \E m \in {Sending, Talker} : \E g : g.k \in Kinds /\ Enter(Drive, m, g)
        \/ UNCHANGED dev /\ frame'.k \in Kinds
    BY <1>3, FramesMade DEF Send, SendFirst, SendNext, Pass
  <2> QED BY <2>1, EngineEnter, ModesOK DEF EngineOK
<1>4. CASE Status(Drive, f, drive.status)
  <2>1. \E m \in {LastByteOut, StatusPending} : \E g : g.k \in Kinds /\ Enter(Drive, m, g)
    BY <1>4, FramesMade DEF Status
  <2> QED BY <2>1, EngineEnter, ModesOK
<1> QED BY <1>1, <1>2, <1>3, <1>4 DEF ILhdisc

-----------------------------------------------------------------------------
(***************************************************************************)
(* The drive: its types, and what its operations write.                    *)
(***************************************************************************)
DriveOK == drive \in DriveRecord /\ file \in Seq(Sector) /\ tail \in Sector

LEMMA Outcomes ==
  /\ ReadOutcome \subseteq {"ok", "access", "open", "read"}
  /\ WriteOutcome \subseteq {"ok", "access", "open", "write"}
BY DriveAssumption DEF ReadOutcome, WriteOutcome

LEMMA RrecOK ==
  ASSUME NEW d \in DriveRecord, NEW g \in Seq(Sector), NEW o \in ReadOutcome
  PROVE  Rrec(d, g, o) \in DriveRecord
<1>1. d.pe \in Nat
  BY DEF DriveRecord
<1>2. SectorOf(g, d.pe) \in Sector /\ Filler \in Sector
  BY <1>1, SectorOfOK, FillerIsSector
<1>3. o \in {"ok", "access", "open", "read"}
  BY Outcomes
<1> QED BY <1>2, <1>3 DEF Rrec, DriveRecord

LEMMA WrecOK ==
  ASSUME NEW d \in DriveRecord, NEW o \in WriteOutcome
  PROVE  /\ Wrec(d, o) \in DriveRecord
         /\ Wrec(d, o).pe = d.pe /\ Wrec(d, o).devl = d.devl
<1>1. o \in {"ok", "access", "open", "write"}
  BY Outcomes
<1> QED BY <1>1 DEF Wrec, DriveRecord

LEMMA AdvanceOK ==
  ASSUME NEW d \in DriveRecord
  PROVE  /\ Advance(d) \in DriveRecord
         /\ Advance(d).devl = d.devl
BY DEF Advance, DriveRecord

\* wrec writes the sector the pointer is at.
LEMMA WroteKeeps ==
  ASSUME DriveOK, NEW d \in DriveRecord, NEW o \in WriteOutcome, Wrote(d, o)
  PROVE  /\ file' \in Seq(Sector) /\ tail' \in Sector
         /\ \A t \in Nat : t # d.pe /\ t < Len(file) => SectorOf(file', t) = SectorOf(file, t)
<1>0. /\ o \in {"ok", "access", "open", "write"} /\ d.pe \in Nat /\ d.buf0 \in Sector
      /\ file \in Seq(Sector) /\ tail \in Sector /\ Len(file) \in Nat
      /\ 0 \in SectorIdx
  BY Outcomes, DriveAssumption DEF DriveRecord, DriveOK, SectorIdx
<1>1. CASE o = "ok"
  <2>1. file' = Stored(file, d.pe, d.buf0) /\ tail' = TailStored(file, d.pe)
    BY <1>1 DEF Wrote
  <2>2. TailStored(file, d.pe) \in Sector
    BY <1>0, TailsOK
  <2>3. HasStored(file', file, d.pe, d.buf0)
    BY <1>0, <2>1, StoredKeeps
  <2> QED BY <2>1, <2>2, <2>3 DEF HasStored
<1>2. CASE o = "write"
  <2>1. PICK k \in SectorIdx : /\ file' = Torn(file, d.pe, d.buf0, k)
                              /\ tail' = TailTorn(file, d.pe, d.buf0, k)
    BY <1>2 DEF Wrote
  <2>2. TailTorn(file, d.pe, d.buf0, k) \in Sector
    BY <1>0, TailsOK
  <2>3. KeepsOthers(file', file, d.pe)
    BY <1>0, <2>1, TornKeeps
  <2> QED BY <2>1, <2>2, <2>3 DEF KeepsOthers
<1>3. CASE o \in {"open", "access"}
  BY <1>0, <1>3 DEF Wrote
<1> QED BY <1>0, <1>1, <1>2, <1>3

\* A byte put into the buffer.
LEMMA PutOK ==
  ASSUME drive \in DriveRecord, NEW b \in DataByte
  PROVE  /\ Put(b) \in DriveRecord
         /\ Put(b).pe = drive.pe /\ Put(b).devl = drive.devl
         /\ Put(b).oc = (drive.oc + 1) % B
<1>1. drive.oc \in SectorIdx /\ drive.buf0 \in Sector
  BY DEF DriveRecord
<1>2. (drive.oc + 1) % B \in SectorIdx
  BY <1>1, NextPlace
<1>3. [drive.buf0 EXCEPT ![drive.oc] = b] \in Sector
  BY <1>1 DEF Sector
<1> QED BY <1>2, <1>3 DEF Put, DriveRecord

\* What a step of the drive owes: the types, and the sectors it has no
\* business with.
OthersKept ==
  \A s \in Nat : s # drive.pe /\ s < Len(file) => SectorOf(file', s) = SectorOf(file, s)

StepOK == DriveOK' /\ (drive'.devl # 5 => OthersKept)

LEMMA SameFile ==
  ASSUME DriveOK, drive' \in DriveRecord, UNCHANGED <<file, tail>>
  PROVE  StepOK
BY DEF DriveOK, StepOK, OthersKept

LEMMA FillSectorOK ==
  ASSUME DriveOK, NEW b \in DataByte, FillSector(b)
  PROVE  StepOK
<1>1. PICK w \in WriteOutcome, r \in ReadOutcome :
        /\ Wrote(Put(b), w)
        /\ drive' = LET d == Advance(Wrec(Put(b), w))
                    IN  IF drive.flpwr THEN Rrec(d, file', r) ELSE d
  BY DEF FillSector
<1> DEFINE d == Advance(Wrec(Put(b), w))
<1>2. file' \in Seq(Sector) /\ tail' \in Sector /\ OthersKept
  BY <1>1, PutOK, WroteKeeps DEF DriveOK, OthersKept
<1>3. d \in DriveRecord
  BY PutOK, WrecOK, AdvanceOK DEF DriveOK
<1>4. drive' \in {d, Rrec(d, file', r)}
  BY <1>1
<1> HIDE DEF d
<1>5. drive' \in DriveRecord
  BY <1>2, <1>3, <1>4, RrecOK
<1> QED BY <1>2, <1>5 DEF StepOK, DriveOK

LEMMA EndRecordOK ==
  ASSUME DriveOK, NEW b \in DataByte, EndRecord(b)
  PROVE  StepOK
<1>1. PICK w \in WriteOutcome :
        /\ Wrote(Put(b), w)
        /\ drive' \in {Wrec(Put(b), w), Advance(Wrec(Put(b), w))}
  BY DEF EndRecord
<1>2. file' \in Seq(Sector) /\ tail' \in Sector /\ OthersKept
  BY <1>1, PutOK, WroteKeeps DEF DriveOK, OthersKept
<1>3. drive' \in DriveRecord
  BY <1>1, PutOK, WrecOK, AdvanceOK DEF DriveOK
<1> QED BY <1>2, <1>3 DEF StepOK, DriveOK

LEMMA CloseOK ==
  ASSUME DriveOK, NEW d \in DriveRecord, d.pe = drive.pe, Close(d)
  PROVE  StepOK
<1>1. PICK w \in WriteOutcome :
        /\ Wrote(d, w)
        /\ drive' \in {Wrec(d, w), Advance(Wrec(d, w))}
  BY DEF Close
<1>2. file' \in Seq(Sector) /\ tail' \in Sector /\ OthersKept
  BY <1>1, WroteKeeps DEF DriveOK, OthersKept
<1>3. drive' \in DriveRecord
  BY <1>1, WrecOK, AdvanceOK
<1> QED BY <1>2, <1>3 DEF StepOK, DriveOK

LEMMA SeekOK ==
  ASSUME DriveOK, NEW b \in DataByte, SeekByte(b)
  PROVE  drive' \in DriveRecord
<1>1. B \in Nat /\ b \in Nat /\ drive.pe0 \in Nat
  BY DriveAssumption DEF DataByte, DriveOK, DriveRecord
<1>2. drive.pe0 \div B \in Nat /\ drive.pe0 % B \in Nat
  BY <1>1, DivB DEF SectorIdx
<1> DEFINE high == (b * B) + (drive.pe0 % B)
           low  == ((drive.pe0 \div B) * B) + b
<1>3. high \in Nat /\ low \in Nat
  BY <1>1, <1>2
<1>4. \/ drive' = [drive EXCEPT !.pe0 = high, !.fpt = TRUE]
      \/ drive' = [drive EXCEPT !.pe0 = low, !.pe = low, !.status = 0, !.fpt = FALSE]
      \/ drive' = [drive EXCEPT !.pe0 = low, !.status = 28, !.fpt = FALSE]
  BY DEF SeekByte
<1>5. drive \in DriveRecord
  BY DEF DriveOK
<1> HIDE DEF high, low
<1>6. [drive EXCEPT !.pe0 = high, !.fpt = TRUE] \in DriveRecord
  BY <1>3, <1>5 DEF DriveRecord
<1>7. [drive EXCEPT !.pe0 = low, !.pe = low, !.status = 0, !.fpt = FALSE] \in DriveRecord
  BY <1>3, <1>5 DEF DriveRecord
<1>8. [drive EXCEPT !.pe0 = low, !.status = 28, !.fpt = FALSE] \in DriveRecord
  BY <1>3, <1>5 DEF DriveRecord
<1> QED BY <1>4, <1>6, <1>7, <1>8

LEMMA IndataOK ==
  ASSUME DriveOK, NEW b \in DataByte, NEW end \in BOOLEAN, Indata(b, end)
  PROVE  StepOK
<1>0. drive.oc \in SectorIdx /\ (drive.oc + 1) % B \in SectorIdx /\ drive.buf1 \in Sector
  BY NextPlace DEF DriveOK, DriveRecord
<1>1. CASE FillSector(b)
  BY <1>1, FillSectorOK
<1>2. CASE EndRecord(b)
  BY <1>2, EndRecordOK
<1>3. CASE FillByte(b)
  BY <1>3, PutOK, SameFile DEF FillByte, DriveOK
<1>4. CASE /\ drive' = [drive EXCEPT !.buf1 = [@ EXCEPT ![drive.oc] = b], !.oc = (@ + 1) % B]
           /\ UNCHANGED <<file, tail>>
  <2>1. [drive.buf1 EXCEPT ![drive.oc] = b] \in Sector
    BY <1>0 DEF Sector
  <2>2. drive' \in DriveRecord
    BY <1>0, <1>4, <2>1 DEF DriveOK, DriveRecord
  <2> QED BY <1>4, <2>2, SameFile
<1>5. CASE drive' = [drive EXCEPT !.oc = b] /\ UNCHANGED <<file, tail>>
  <2>0. b \in SectorIdx /\ drive \in DriveRecord
    BY DEF SectorIdx, DataByte, DriveOK
  <2>1. drive' \in DriveRecord
    BY <1>5, <2>0 DEF DriveRecord
  <2> QED BY <1>5, <2>1, SameFile
<1>6. CASE SeekByte(b) /\ UNCHANGED <<file, tail>>
  BY <1>6, SeekOK, SameFile
<1>7. CASE UNCHANGED <<drive, file, tail>>
  BY <1>7, SameFile DEF DriveOK
<1> QED BY <1>1, <1>2, <1>3, <1>4, <1>5, <1>6, <1>7 DEF Indata

LEMMA OutdtaOK ==
  ASSUME DriveOK, Outdta
  PROVE  StepOK
<1>0. /\ drive \in DriveRecord /\ file \in Seq(Sector)
      /\ (drive.oc + 1) % B \in SectorIdx
  BY NextPlace DEF DriveOK, DriveRecord
<1>1. NextByte(drive) \in DriveRecord
  BY <1>0 DEF NextByte, DriveRecord
<1>2. CASE SendBuf0
  <2>1. \/ drive' = NextByte(drive)
        \/ \E r \in ReadOutcome : drive' = Advance(Rrec(NextByte(drive), file, r))
    BY <1>2 DEF SendBuf0
  <2>2. drive' \in DriveRecord
    BY <1>0, <1>1, <2>1, RrecOK, AdvanceOK
  <2> QED BY <2>2, SameFile DEF Outdta
<1>3. CASE SendBuf1
  <2> DEFINE d == NextByte(drive)
  <2>1. drive' \in {d, [d EXCEPT !.devt = 15]} /\ d \in DriveRecord
    BY <1>1, <1>3 DEF SendBuf1
  <2> HIDE DEF d
  <2>2. drive' \in DriveRecord
    BY <2>1 DEF DriveRecord
  <2> QED BY <2>2, SameFile DEF Outdta
<1>4. CASE SendItem
  <2>1. drive' = [drive EXCEPT !.ptout = @ + 1]
    BY <1>4 DEF SendItem
  <2>2. drive.ptout + 1 \in Nat
    BY <1>0 DEF DriveRecord
  <2>3. \A k \in Nat : [drive EXCEPT !.ptout = k] \in DriveRecord
    BY <1>0 DEF DriveRecord
  <2> QED BY <2>1, <2>2, <2>3, SameFile DEF Outdta
<1>5. CASE SendNone
  BY <1>0, <1>5, SameFile DEF SendNone, Outdta
<1> QED BY <1>2, <1>3, <1>4, <1>5 DEF Outdta

LEMMA ExchbufOK ==
  ASSUME NEW d \in DriveRecord
  PROVE  Exchbuf(d) \in DriveRecord
<1>1. 0 \in SectorIdx
  BY DriveAssumption DEF SectorIdx
<1> QED BY <1>1 DEF Exchbuf, DriveRecord

\* Formatting leaves full sectors of 255, as many as it could write.
LEMMA FormatOK ==
  ASSUME DriveOK, NEW d \in DriveRecord, d.devl = 5, Format(d)
  PROVE  StepOK
<1>1. /\ drive' \in DriveRecord /\ drive'.devl = 5
  <2>1. drive' \in {[d EXCEPT !.status = 0], [d EXCEPT !.status = 29]}
    BY DEF Format
  <2> QED BY <2>1 DEF DriveRecord
<1>2. nbe \in Nat
  BY DriveAssumption
<1>3. \/ file' = file
      \/ \E n \in Nat : file' = [i \in 1 .. n |-> Filler]
  BY <1>2 DEF Format
<1>4. file' \in Seq(Sector)
  BY <1>3, RowOK, FillerIsSector DEF DriveOK
<1>5. tail' \in Sector
  BY FillerIsSector, PartOK DEF Format, DriveOK
<1> QED BY <1>1, <1>4, <1>5 DEF StepOK, DriveOK

LEMMA DevlSet ==
  ASSUME NEW d \in DriveRecord, NEW n \in 0 .. 31
  PROVE  [d EXCEPT !.devl = n] \in DriveRecord
BY DEF DriveRecord

LEMMA DdlOK ==
  ASSUME DriveOK, NEW n \in 0 .. 31, Ddl(n)
  PROVE  StepOK
<1> DEFINE d == [drive EXCEPT !.devl = n]
<1>0. drive \in DriveRecord /\ 0 \in SectorIdx /\ file \in Seq(Sector)
  BY DriveAssumption DEF DriveOK, SectorIdx
<1>1. d \in DriveRecord /\ d.pe = drive.pe /\ d.devl = n
  BY <1>0 DEF DriveRecord
<1>2. CASE n = 5
  <2>1. Format(d)
    BY <1>2 DEF Ddl
  <2> HIDE DEF d
  <2> QED BY <1>1, <1>2, <2>1, FormatOK
<1>3. CASE n = 6
  <2> DEFINE e == [d EXCEPT !.flpwr = TRUE]
  <2>1. e \in DriveRecord
    BY <1>1 DEF DriveRecord
  <2>2. UNCHANGED <<file, tail>> /\ \E r \in ReadOutcome : drive' = Rrec(e, file, r)
    BY <1>3 DEF Ddl
  <2> HIDE DEF e
  <2> QED BY <1>0, <2>1, <2>2, RrecOK, SameFile
<1>4. CASE n = 8
  <2>1. Close(d)
    BY <1>4 DEF Ddl
  <2> HIDE DEF d
  <2> QED BY <1>1, <2>1, CloseOK
<1>5. CASE n = 10
  <2>1. UNCHANGED <<file, tail>> /\ drive' = Exchbuf(d)
    BY <1>5 DEF Ddl
  <2> HIDE DEF d
  <2> QED BY <1>1, <2>1, ExchbufOK, SameFile
<1>6. CASE n \notin {5, 6, 8, 10}
  <2>1. UNCHANGED <<file, tail>>
    BY <1>6 DEF Ddl
  <2>2. \/ drive' = [d EXCEPT !.flpwr = FALSE]
        \/ drive' = [d EXCEPT !.oc = 0, !.flpwr = FALSE]
        \/ drive' = [d EXCEPT !.flpwr = FALSE, !.fpt = FALSE]
        \/ drive' = [d EXCEPT !.fpt = FALSE, !.pe = 0, !.oc = 0]
        \/ drive' = [d EXCEPT !.oc = 0, !.buf1 = d.buf0]
        \/ drive' = d
    BY <1>6 DEF Ddl
  <2> HIDE DEF d
  <2>3. /\ [d EXCEPT !.flpwr = FALSE] \in DriveRecord
        /\ [d EXCEPT !.oc = 0, !.flpwr = FALSE] \in DriveRecord
    BY <1>0, <1>1 DEF DriveRecord
  <2>4. /\ [d EXCEPT !.flpwr = FALSE, !.fpt = FALSE] \in DriveRecord
        /\ [d EXCEPT !.fpt = FALSE, !.pe = 0, !.oc = 0] \in DriveRecord
    BY <1>0, <1>1 DEF DriveRecord
  <2>5. [d EXCEPT !.oc = 0, !.buf1 = d.buf0] \in DriveRecord
    BY <1>0, <1>1 DEF DriveRecord
  <2>6. drive' \in DriveRecord
    BY <1>1, <2>2, <2>3, <2>4, <2>5
  <2> QED BY <2>1, <2>6, SameFile
<1> QED BY <1>2, <1>3, <1>4, <1>5, <1>6

LEMMA DdtOK ==
  ASSUME DriveOK, NEW n \in 0 .. 31, Ddt(n), UNCHANGED <<file, tail>>
  PROVE  StepOK
<1> DEFINE d == [drive EXCEPT !.devt = n, !.ptout = 0]
<1>0. drive \in DriveRecord /\ 0 \in SectorIdx /\ file \in Seq(Sector)
  BY DriveAssumption DEF DriveOK, SectorIdx
<1>1. d \in DriveRecord
  BY <1>0 DEF DriveRecord
<1>2. \/ drive' = [d EXCEPT !.flpwr = FALSE]
      \/ \E r \in ReadOutcome :
           drive' = Advance([Rrec(d, file, r) EXCEPT !.oc = 0, !.flpwr = FALSE])
      \/ drive' = Exchbuf(d)
      \/ drive' = d
  BY DEF Ddt
<1> HIDE DEF d
<1>3. ASSUME NEW r \in ReadOutcome
      PROVE  Advance([Rrec(d, file, r) EXCEPT !.oc = 0, !.flpwr = FALSE]) \in DriveRecord
  <2> DEFINE c == Rrec(d, file, r)
             e == [c EXCEPT !.oc = 0, !.flpwr = FALSE]
  <2>1. c \in DriveRecord
    BY <1>0, <1>1, RrecOK
  <2> HIDE DEF c
  <2>2. e \in DriveRecord
    BY <1>0, <2>1 DEF DriveRecord
  <2> HIDE DEF e
  <2>3. Advance(e) \in DriveRecord
    BY <2>2, AdvanceOK
  <2> QED BY <2>3 DEF e, c
<1>4. [d EXCEPT !.flpwr = FALSE] \in DriveRecord
  BY <1>1 DEF DriveRecord
<1>5. drive' \in DriveRecord
  BY <1>1, <1>2, <1>3, <1>4, ExchbufOK
<1> QED BY <1>5, SameFile

\* The arguments of the controller's frames.
LEMMA Arguments ==
  ASSUME NEW f \in Inputs
  PROVE  /\ f \in Frame
         /\ f.k \in DoeKinds => f.n \in DataByte
         /\ f.k \in {"DDL", "DDT"} => f.n \in 0 .. 31
BY DriveAssumption

LEMMA OnCmdOK ==
  ASSUME DriveOK, NEW f \in Inputs, OnCmd(f)
  PROVE  StepOK
<1>1. CASE f.k = "DDL" /\ Ddl(f.n)
  BY <1>1, Arguments, DdlOK
<1>2. CASE f.k = "DDT" /\ Ddt(f.n) /\ UNCHANGED <<file, tail>>
  BY <1>2, Arguments, DdtOK
<1>3. CASE UNCHANGED <<drive, file, tail>>
  BY <1>3, SameFile DEF DriveOK
<1> QED BY <1>1, <1>2, <1>3 DEF OnCmd

LEMMA DriveStep ==
  ASSUME DriveOK, NEW f \in Inputs, ILhdisc(f)
  PROVE  StepOK
<1>0. drive \in DriveRecord
  BY DEF DriveOK
<1>1. CASE UNCHANGED <<drive, file, tail>>
  BY <1>0, <1>1, SameFile
<1>2. CASE Hear(Drive, f) /\ Indata(f.n, f.k = "END")
  <2>1. f.n \in DataByte
    BY <1>2, Arguments DEF Hear
  <2> QED BY <1>2, <2>1, IndataOK
<1>3. CASE Outdta
  BY <1>3, OutdtaOK
<1>4. CASE OnStatus
  <2>1. (drive.status \div 32) * 32 = 0
    BY <1>0 DEF DriveRecord
  <2>2. drive' = [drive EXCEPT !.status = 0] /\ UNCHANGED <<file, tail>>
    BY <1>4, <2>1 DEF OnStatus
  <2>3. drive' \in DriveRecord
    BY <1>0, <2>2 DEF DriveRecord
  <2> QED BY <2>2, <2>3, SameFile
<1>5. CASE OnClear
  <2>1. 0 \in SectorIdx
    BY DriveAssumption DEF SectorIdx
  <2>2. drive' \in DriveRecord /\ UNCHANGED <<file, tail>>
    BY <1>0, <1>5, <2>1 DEF OnClear, DriveRecord
  <2> QED BY <2>2, SameFile
<1>6. CASE OnCmd(f)
  BY <1>6, OnCmdOK
<1> QED BY <1>1, <1>2, <1>3, <1>4, <1>5, <1>6 DEF ILhdisc

-----------------------------------------------------------------------------
(***************************************************************************)
(* The types, and the sectors a write leaves alone.                        *)
(***************************************************************************)
DriveInv == EngineOK /\ DriveOK

LEMMA DriveInitially == Init => DriveInv
<1> SUFFICES ASSUME Init PROVE DriveInv
  OBVIOUS
<1> USE DEF Init
<1>1. \A d \in Device : PowerOn(d) \in DevRecord /\ PowerOn(d).state = Idle
  <2> TAKE d \in Device
  <2>1. DefAddr[d] \in 0 .. 30
    BY LoopAssumption
  <2> QED BY <2>1 DEF PowerOn, DevRecord, Idle
<1>2. EngineOK
  BY <1>1, DriveIsDevice, ModesOK, FramesMade DEF EngineOK
<1>3. PowerOnDrive \in DriveRecord
  <2>1. 0 \in SectorIdx
    BY DriveAssumption DEF SectorIdx
  <2> QED BY <2>1, FillerIsSector DEF PowerOnDrive, DriveRecord
<1>4. file \in Seq(Sector) /\ tail \in Sector
  BY DriveAssumption, FillerIsSector
<1> QED BY <1>2, <1>3, <1>4 DEF DriveInv, DriveOK

LEMMA DriveInductive == DriveInv /\ [Next]_vars => DriveInv'
<1> SUFFICES ASSUME DriveInv, [Next]_vars PROVE DriveInv'
  OBVIOUS
<1>1. ASSUME NEW f \in Inputs, ILhdisc(f)
      PROVE  DriveInv'
  BY <1>1, Arguments, TurnOK, DriveStep DEF DriveInv, StepOK
<1>2. CASE UNCHANGED vars
  BY <1>2 DEF vars, DriveInv, EngineOK, DriveOK
<1> QED BY <1>1, <1>2 DEF Next

THEOREM DriveHolds == Spec => []DriveInv
BY DriveInitially, DriveInductive, PTL DEF Spec

\* ildrive.c: the byte pointer stays inside the buffers, the status is one of
\* the five the code gives, and every buffer and sector is whole.
THEOREM DriveTypeCorrect == Spec => []TypeOK
<1>1. DriveInv => TypeOK
  BY DEF DriveInv, EngineOK, DriveOK, TypeOK
<1> QED BY <1>1, DriveHolds, PTL

\* wrec() writes the sector the pointer was at, and no other sector of the
\* image changes, also when the pointer moves in the same step, when the
\* file grows and when the write fails half way.
THEOREM WritesOneSector == Spec => OtherSectorsKept
<1> DEFINE Kept == drive'.devl # 5 =>
             \A s \in 0 .. Len(file) - 1 :
               s # drive.pe => SectorOf(file', s) = SectorOf(file, s)
<1>1. DriveInv /\ [Next]_vars => [Kept]_vars
  <2> SUFFICES ASSUME DriveInv, Next PROVE Kept
    OBVIOUS
  <2>1. PICK f \in Inputs : ILhdisc(f)
    BY DEF Next
  <2>2. StepOK /\ Len(file) \in Nat
    BY <2>1, DriveStep DEF DriveInv, DriveOK
  <2> QED BY <2>2 DEF StepOK, OthersKept
<1>2. [][Next]_vars /\ []DriveInv => [][Kept]_vars
  BY <1>1, PTL
<1> QED BY <1>2, DriveHolds DEF Spec, OtherSectorsKept

-----------------------------------------------------------------------------
(***************************************************************************)
(* The streams.  A frame does one thing to the drive, or nothing.          *)
(***************************************************************************)
Touches(f) ==
  TakesByte(f) \/ AsksByte(f) \/ TellsStatus(f) \/ Clears(f) \/ Listens(f) \/ Talks(f)

LEMMA OneEvent ==
  ASSUME NEW f
  PROVE  /\ TakesByte(f) => ~(AsksByte(f) \/ TellsStatus(f) \/ Clears(f) \/ Listens(f) \/ Talks(f))
         /\ AsksByte(f) => ~(TellsStatus(f) \/ Clears(f) \/ Listens(f) \/ Talks(f))
         /\ TellsStatus(f) => ~(Clears(f) \/ Listens(f) \/ Talks(f))
         /\ Clears(f) => ~(Listens(f) \/ Talks(f))
         /\ Listens(f) => ~Talks(f)
BY DEF TakesByte, AsksByte, TellsStatus, Clears, Listens, Talks, DoeKinds, IsListener

\* The bits of the modes the drive can be in.
LEMMA SendingBits ==
  dev[Drive].state = Sending =>
    IsTalker(Drive) /\ Addressed(Drive) /\ Is(Drive, "sda") /\ ~Is(Drive, "sdi")
BY DEF Sending, IsTalker, Addressed, Is

\* A byte of the drive is on the loop exactly when it was asked for one, and
\* it is the one outdta gives.
LEMMA AskedIsSent ==
  ASSUME EngineOK, NEW f \in Inputs, ILhdisc(f)
  PROVE  /\ Send(Drive, f, OutByte) => AsksByte(f)
         /\ AsksByte(f) => Send(Drive, f, OutByte) /\ Outdta
<1>1. ASSUME Send(Drive, f, OutByte)
      PROVE  AsksByte(f)
  <2>1. CASE f.k = "SDA"
    BY <1>1, <2>1 DEF Send, SendFirst, SendNext, AsksByte, DoeKinds
  <2>2. CASE f.k # "SDA"
    <3>1. /\ f.k \in DoeKinds
          /\ {"addressed", "talker", "sda"} \subseteq dev[Drive].state
          /\ "sdi" \notin dev[Drive].state
      BY <1>1, <2>2 DEF Send, SendFirst, SendNext, IsSource, Addressed, IsTalker, Is
    <3> QED BY <3>1, SendingMode, SendingBits DEF EngineOK, AsksByte
  <2> QED BY <2>1, <2>2
<1>2. ASSUME AsksByte(f)
      PROVE  Send(Drive, f, OutByte) /\ Outdta
  <2>1. CASE f.k = "SDA"
    <3>1. IsTalker(Drive)
      BY <1>2 DEF AsksByte
    <3> QED
      BY <2>1, <3>1 DEF ILhdisc, Quiet, Poll, Hear, Status, Clear, Command, DoeKinds,
         NextIdByte, EndOfId, SendDone, Listen, Unlisten, Talk, Untalk, InterfaceClear,
         Unconfigure, NotReady, Identify, SendAid, TakeAddress, Ignore
  <2>2. CASE f.k # "SDA"
    <3>1. /\ f.k \in DoeKinds /\ IsTalker(Drive) /\ Addressed(Drive)
          /\ Is(Drive, "sda") /\ ~Is(Drive, "sdi")
      BY <1>2, <2>2, SendingBits DEF AsksByte
    <3> QED
      BY <3>1 DEF ILhdisc, Quiet, Poll, Hear, Status, Clear, Command, DoeKinds, IsListener,
         NextIdByte, EndOfId, SendDone, Listen, Unlisten, Talk, Untalk, InterfaceClear,
         Unconfigure, NotReady, Identify, SendAid, TakeAddress, Ignore
  <2> QED BY <2>1, <2>2
<1> QED BY <1>1, <1>2

\* What each of them does.
LEMMA EventEffect ==
  ASSUME EngineOK, NEW f \in Inputs, ILhdisc(f)
  PROVE  /\ TakesByte(f) => Indata(f.n, f.k = "END")
         /\ AsksByte(f) => /\ Outdta
                           /\ OutByte # NoByte => frame' = Dab(OutByte)
         /\ TellsStatus(f) => OnStatus
         /\ Clears(f) => OnClear
         /\ Listens(f) => Ddl(f.n)
         /\ Talks(f) => Ddt(f.n) /\ UNCHANGED <<file, tail>> /\ frame' = f
         /\ ~Touches(f) => UNCHANGED <<drive, file, tail>>
<1>1. TakesByte(f) => Indata(f.n, f.k = "END")
  <2> SUFFICES ASSUME TakesByte(f) PROVE Indata(f.n, f.k = "END")
    OBVIOUS
  <2>1. f.k \in DoeKinds /\ Addressed(Drive) /\ ~IsTalker(Drive)
    BY DEF TakesByte, IsListener
  <2>2. ~Send(Drive, f, OutByte)
    BY AskedIsSent, OneEvent
  <2> QED
    BY <2>1, <2>2 DEF ILhdisc, Quiet, Poll, Status, Clear, Command, DoeKinds, IsSource,
       NextIdByte, EndOfId, SendDone, Listen, Unlisten, Talk, Untalk, InterfaceClear,
       Unconfigure, NotReady, Identify, SendAid, TakeAddress, Ignore
<1>2. AsksByte(f) => Outdta /\ (OutByte # NoByte => frame' = Dab(OutByte))
  <2> SUFFICES ASSUME AsksByte(f) PROVE Outdta /\ (OutByte # NoByte => frame' = Dab(OutByte))
    OBVIOUS
  <2>1. Send(Drive, f, OutByte) /\ Outdta
    BY AskedIsSent
  <2> QED BY <2>1 DEF Send, SendFirst, SendNext, Pass, Enter
<1>3. TellsStatus(f) => OnStatus
  <2> SUFFICES ASSUME TellsStatus(f) PROVE OnStatus
    OBVIOUS
  <2>1. f.k = "SST" /\ IsTalker(Drive)
    BY DEF TellsStatus
  <2> QED
    BY <2>1 DEF ILhdisc, Quiet, Poll, Hear, Send, SendFirst, SendNext, Clear, Command, DoeKinds,
       NextIdByte, EndOfId, SendDone, Listen, Unlisten, Talk, Untalk, InterfaceClear,
       Unconfigure, NotReady, Identify, SendAid, TakeAddress, Ignore
<1>4. Clears(f) => OnClear
  <2> SUFFICES ASSUME Clears(f) PROVE OnClear
    OBVIOUS
  <2>1. f.k = "DCL" \/ (f.k = "SDC" /\ Addressed(Drive))
    BY DEF Clears
  <2> QED
    BY <2>1 DEF ILhdisc, Quiet, Poll, Hear, Send, SendFirst, SendNext, Status, Command, DoeKinds,
       NextIdByte, EndOfId, SendDone, Listen, Unlisten, Talk, Untalk, InterfaceClear,
       Unconfigure, NotReady, Identify, SendAid, TakeAddress, Ignore
<1>5. f.k \in {"DDL", "DDT"} => OnCmd(f) /\ frame' = f
  <2> SUFFICES ASSUME f.k \in {"DDL", "DDT"} PROVE OnCmd(f) /\ frame' = f
    OBVIOUS
  <2> QED
    BY DEF ILhdisc, Quiet, Poll, Hear, Send, SendFirst, SendNext, Status, Clear, Command, Pass,
       DoeKinds,
       NextIdByte, EndOfId, SendDone, Listen, Unlisten, Talk, Untalk, InterfaceClear,
       Unconfigure, NotReady, Identify, SendAid, TakeAddress, Ignore
<1>6. Listens(f) => Ddl(f.n)
  BY <1>5 DEF Listens, OnCmd
<1>7. Talks(f) => Ddt(f.n) /\ UNCHANGED <<file, tail>> /\ frame' = f
  BY <1>5 DEF Talks, OnCmd
<1>8. ~Touches(f) => UNCHANGED <<drive, file, tail>>
  <2> SUFFICES ASSUME ~Touches(f) PROVE UNCHANGED <<drive, file, tail>>
    OBVIOUS
  <2>1. ~Hear(Drive, f)
    BY DEF Touches, TakesByte, Hear
  <2>2. ~Send(Drive, f, OutByte)
    BY AskedIsSent DEF Touches
  <2>3. ~Status(Drive, f, drive.status) /\ ~Clear(Drive, f)
    BY DEF Touches, TellsStatus, Status, Clears, Clear
  <2>4. OnCmd(f) => UNCHANGED <<drive, file, tail>>
    BY DEF OnCmd, Touches, Listens, Talks
  <2> QED BY <2>1, <2>2, <2>3, <2>4 DEF ILhdisc
<1> QED BY <1>1, <1>2, <1>3, <1>4, <1>6, <1>7, <1>8

-----------------------------------------------------------------------------
(***************************************************************************)
(* Reading.  While a read goes on, the buffer holds the sector that pos is *)
(* in, the byte pointer is at pos in it, the sector pointer is one ahead,  *)
(* and nothing has been asked for that takes the buffers for another use.  *)
(***************************************************************************)
ReadAt(s) ==
  /\ pos = <<s * B + drive.oc>>
  /\ drive.pe = s + 1 /\ drive.devt # 1
  /\ drive.buf0 = SectorOf(file, s)

ReadInv == pos = NoPos \/ \E s \in Nat : ReadAt(s)

\* The commands to a talker that leave the buffers as they are.
LEMMA Resumed ==
  ASSUME drive \in DriveRecord, NEW n, n \notin {1, 2, 4}, Ddt(n)
  PROVE  /\ drive'.oc = drive.oc /\ drive'.pe = drive.pe
         /\ drive'.buf0 = drive.buf0 /\ drive'.devt = n
BY DEF Ddt, DriveRecord

\* DDT 2 loads the sector sought.
LEMMA ReadBegins ==
  ASSUME Faults \subseteq {"write"}, DriveOK, Ddt(2)
  PROVE  /\ drive'.oc = 0 /\ drive'.pe = drive.pe + 1
         /\ drive'.buf0 = SectorOf(file, drive.pe) /\ drive'.devt = 2
<1>1. ReadOutcome = {"ok"}
  BY DEF ReadOutcome
<1> DEFINE d == [drive EXCEPT !.devt = 2, !.ptout = 0]
<1>2. drive' = Advance([Rrec(d, file, "ok") EXCEPT !.oc = 0, !.flpwr = FALSE])
  BY <1>1 DEF Ddt
<1> QED BY <1>2 DEF Rrec, Advance, DriveOK, DriveRecord

\* The next byte of a sector, and the first of the next one.
LEMMA ReadGoesOn ==
  ASSUME Faults \subseteq {"write"}, DriveOK, SendBuf0
  PROVE  /\ drive'.oc = (drive.oc + 1) % B /\ drive'.devt = drive.devt
         /\ ~LastOfSector => drive'.pe = drive.pe /\ drive'.buf0 = drive.buf0
         /\ LastOfSector => /\ drive'.pe = drive.pe + 1
                            /\ drive'.buf0 = SectorOf(file, drive.pe)
<1>1. ReadOutcome = {"ok"}
  BY DEF ReadOutcome
<1>2. CASE ~LastOfSector
  <2>1. drive' = NextByte(drive)
    BY <1>2 DEF SendBuf0
  <2> QED BY <1>2, <2>1 DEF NextByte, DriveOK, DriveRecord
<1>3. CASE LastOfSector
  <2>1. drive' = Advance(Rrec(NextByte(drive), file, "ok"))
    BY <1>1, <1>3 DEF SendBuf0
  <2> QED BY <1>3, <2>1 DEF NextByte, Advance, Rrec, DriveOK, DriveRecord
<1> QED BY <1>2, <1>3

\* What a frame does to a read under way.
LEMMA ReadStep ==
  ASSUME Faults \subseteq {"write"}, DriveInv, ReadInv,
         NEW f \in Inputs, ILhdisc(f), pos' = PosAfter(f)
  PROVE  ReadInv'
<1>0. /\ DriveOK /\ EngineOK
      /\ drive \in DriveRecord /\ drive.pe \in Nat /\ drive.oc \in SectorIdx
  BY DEF DriveInv, DriveOK, DriveRecord
<1>1. CASE Talks(f) /\ f.n = 2
  <2>0. PICK s \in Nat : s = drive.pe
    BY <1>0
  <2>1. Ddt(2) /\ UNCHANGED <<file, tail>>
    BY <1>0, <1>1, EventEffect
  <2>2. /\ drive'.oc = 0 /\ drive'.pe = drive.pe + 1
        /\ drive'.buf0 = SectorOf(file, drive.pe) /\ drive'.devt = 2
    BY <1>0, <2>1, ReadBegins
  <2>3. pos' = <<drive.pe * B>> /\ drive.pe * B = drive.pe * B + 0
    BY <1>0, <1>1, DriveAssumption DEF PosAfter
  <2>4. ReadAt(s)'
    BY <2>0, <2>1, <2>2, <2>3 DEF ReadAt
  <2> QED BY <2>4 DEF ReadInv
<1>2. CASE ~(Talks(f) /\ f.n = 2) /\ (pos = NoPos \/ EndsRead(f))
  BY <1>2 DEF PosAfter, ReadInv
<1>3. CASE ~(Talks(f) /\ f.n = 2) /\ pos # NoPos /\ ~EndsRead(f)
  <2>0. PICK s \in Nat : ReadAt(s)
    BY <1>3 DEF ReadInv
  <2>1. CASE TakesByte(f)
    <3>1. drive.devl = 3 /\ f.n \in DataByte /\ Indata(f.n, f.k = "END")
      BY <1>0, <1>3, <2>1, EventEffect, Arguments DEF EndsRead, TakesByte
    <3>2. drive' = [drive EXCEPT !.oc = f.n] /\ UNCHANGED <<file, tail>>
      BY <3>1 DEF Indata
    <3>3. /\ drive'.oc = f.n /\ drive'.pe = drive.pe /\ drive'.devt = drive.devt
          /\ drive'.buf0 = drive.buf0
      BY <1>0, <3>2 DEF DriveRecord
    <3>4. pos[1] \div B = s
      BY <1>0, <2>0, Place DEF ReadAt
    <3>5. pos' = <<s * B + f.n>>
      BY <1>3, <2>1, <3>4 DEF PosAfter
    <3>6. ReadAt(s)'
      BY <2>0, <3>2, <3>3, <3>5 DEF ReadAt
    <3> QED BY <3>6 DEF ReadInv
  <2>2. CASE AsksByte(f) /\ drive.devt \in {0, 2}
    <3>1. SendBuf0 /\ UNCHANGED <<file, tail>>
      BY <1>0, <2>2, EventEffect DEF Outdta, SendBuf0, SendBuf1, SendItem, SendNone
    <3>2. /\ drive'.oc = (drive.oc + 1) % B /\ drive'.devt = drive.devt
          /\ ~LastOfSector => drive'.pe = drive.pe /\ drive'.buf0 = drive.buf0
          /\ LastOfSector => /\ drive'.pe = drive.pe + 1
                             /\ drive'.buf0 = SectorOf(file, drive.pe)
      BY <1>0, <3>1, ReadGoesOn
    <3>3. pos' = <<s * B + drive.oc + 1>>
      BY <1>3, <2>0, <2>2, OneEvent DEF PosAfter, ReadAt
    <3>4. CASE ~LastOfSector
      <4>1. drive'.oc = drive.oc + 1
        BY <1>0, <3>2, <3>4, NextPlace DEF LastOfSector
      <4>2. s * B + drive.oc + 1 = s * B + drive'.oc
        BY <1>0, <4>1, DriveAssumption DEF SectorIdx
      <4>3. ReadAt(s)'
        BY <2>0, <3>1, <3>2, <3>3, <3>4, <4>2 DEF ReadAt
      <4> QED BY <4>3 DEF ReadInv
    <3>5. CASE LastOfSector
      <4>1. drive'.oc = 0 /\ s * B + drive.oc + 1 = (s + 1) * B
        BY <1>0, <3>2, <3>5, NextPlace DEF LastOfSector
      <4>2. (s + 1) * B = (s + 1) * B + drive'.oc
        BY <4>1, DriveAssumption
      <4>3. drive.pe = s + 1 /\ drive'.pe = (s + 1) + 1
        BY <2>0, <3>2, <3>5 DEF ReadAt
      <4>4. ReadAt(s + 1)'
        BY <2>0, <3>1, <3>2, <3>3, <3>5, <4>1, <4>2, <4>3 DEF ReadAt
      <4> QED BY <4>4 DEF ReadInv
    <3> QED BY <3>4, <3>5
  <2>3. CASE ~TakesByte(f) /\ ~(AsksByte(f) /\ drive.devt \in {0, 2})
    <3>1. pos' = pos
      BY <1>3, <2>3 DEF PosAfter
    <3>2. /\ drive'.oc = drive.oc /\ drive'.pe = drive.pe
          /\ drive'.buf0 = drive.buf0 /\ drive'.devt # 1
          /\ UNCHANGED <<file, tail>>
      <4>1. CASE AsksByte(f)
        <5>1. Outdta /\ drive.devt \notin {0, 1, 2}
          BY <1>0, <2>0, <2>3, <4>1, EventEffect DEF ReadAt
        <5>2. drive' \in {drive, [drive EXCEPT !.ptout = @ + 1]} /\ UNCHANGED <<file, tail>>
          BY <5>1 DEF Outdta, SendBuf0, SendBuf1, SendItem, SendNone
        <5> QED BY <1>0, <5>1, <5>2 DEF DriveRecord
      <4>2. CASE TellsStatus(f)
        <5>1. OnStatus
          BY <1>0, <4>2, EventEffect
        <5> QED BY <1>0, <2>0, <5>1 DEF OnStatus, DriveRecord, ReadAt
      <4>3. CASE Listens(f)
        <5>1. Ddl(3)
          BY <1>0, <1>3, <4>3, EventEffect DEF EndsRead
        <5>2. drive' = [drive EXCEPT !.devl = 3] /\ UNCHANGED <<file, tail>>
          BY <5>1 DEF Ddl
        <5> QED BY <1>0, <2>0, <5>2 DEF DriveRecord, ReadAt
      <4>4. CASE Talks(f)
        <5>1. Ddt(f.n) /\ f.n \notin {1, 2, 4} /\ UNCHANGED <<file, tail>>
          BY <1>0, <1>3, <4>4, EventEffect DEF EndsRead
        <5> QED BY <1>0, <5>1, Resumed
      <4>5. CASE ~(AsksByte(f) \/ TellsStatus(f) \/ Listens(f) \/ Talks(f))
        <5>1. ~Touches(f)
          BY <1>3, <2>3, <4>5 DEF Touches, EndsRead
        <5> QED BY <1>0, <2>0, <5>1, EventEffect DEF ReadAt
      <4> QED BY <4>1, <4>2, <4>3, <4>4, <4>5
    <3>3. ReadAt(s)'
      BY <2>0, <3>1, <3>2 DEF ReadAt
    <3> QED BY <3>3 DEF ReadInv
  <2> QED BY <2>1, <2>2, <2>3
<1> QED BY <1>1, <1>2, <1>3

THEOREM StreamsAreSpec == StreamSpec => Spec
<1>1. StreamInit => Init
  BY DEF StreamInit
<1>2. [StreamNext]_svars => [Next]_vars
  BY DEF StreamNext, Next, svars, vars
<1> QED BY <1>1, <1>2, PTL DEF StreamSpec, Spec

LEMMA ReadHolds ==
  ASSUME Faults \subseteq {"write"}
  PROVE  StreamSpec => [](DriveInv /\ ReadInv)
<1>1. StreamInit => ReadInv
  BY DEF StreamInit, ReadInv
<1>2. DriveInv /\ ReadInv /\ [StreamNext]_svars => ReadInv'
  <2> SUFFICES ASSUME DriveInv, ReadInv, [StreamNext]_svars PROVE ReadInv'
    OBVIOUS
  <2>1. CASE StreamNext
    BY <2>1, ReadStep DEF StreamNext
  <2>2. CASE UNCHANGED svars
    BY <2>2 DEF svars, vars, ReadInv, ReadAt
  <2> QED BY <2>1, <2>2
<1> QED BY <1>1, <1>2, DriveHolds, StreamsAreSpec, PTL DEF StreamSpec

\* ildrive.c, outdta(): when the image can be read, every byte the drive sends
\* after DDT 2 is the next byte of the image, whatever the size of the
\* sectors: through the reading ahead at the end of each, a stop with NRD and
\* a resumption with DDT 0, and questions for the pointers, the descriptor or
\* the status in between.
THEOREM ReadsFollowImage ==
  ASSUME Faults \subseteq {"write"}
  PROVE  StreamSpec => ReadsImage
<1> DEFINE Next1 == /\ IsTalker(Drive) /\ frame'.k # "DDT"
                    /\ NoPos \notin {pos, pos'} /\ pos' # pos
                    => frame' = Dab(ByteOf(file, pos[1]))
<1>1. DriveInv /\ ReadInv /\ [StreamNext]_svars => [Next1]_svars
  <2> SUFFICES ASSUME DriveInv, ReadInv, StreamNext,
                      IsTalker(Drive), frame'.k # "DDT",
                      pos # NoPos, pos' # NoPos, pos' # pos
               PROVE  frame' = Dab(ByteOf(file, pos[1]))
    OBVIOUS
  <2>1. PICK f \in Inputs : ILhdisc(f) /\ pos' = PosAfter(f)
    BY DEF StreamNext
  <2>2. PICK s \in Nat : ReadAt(s)
    BY DEF ReadInv
  <2>3. ~Talks(f)
    BY <2>1, EventEffect DEF Talks, DriveInv
  <2>4. ~TakesByte(f)
    BY DEF TakesByte, IsListener
  <2>5. AsksByte(f) /\ drive.devt \in {0, 2}
    BY <2>1, <2>3, <2>4 DEF PosAfter
  <2>6. /\ drive.oc \in SectorIdx /\ drive.buf0 \in Sector
        /\ pos = <<s * B + drive.oc>> /\ drive.buf0 = SectorOf(file, s)
    BY <2>2 DEF DriveInv, DriveOK, DriveRecord, ReadAt
  <2>7. ByteOf(file, pos[1]) = drive.buf0[drive.oc]
    BY <2>6, Place DEF ByteOf
  <2>8. OutByte = drive.buf0[drive.oc]
    BY <2>5 DEF OutByte
  <2>9. OutByte # NoByte
    BY <2>6, <2>8 DEF Sector, DataByte, NoByte
  <2> QED BY <2>1, <2>5, <2>7, <2>8, <2>9, EventEffect DEF DriveInv
<1>2. [][StreamNext]_svars /\ [](DriveInv /\ ReadInv) => [][Next1]_svars
  BY <1>1, PTL
<1> QED BY <1>2, ReadHolds DEF StreamSpec, ReadsImage

-----------------------------------------------------------------------------
(***************************************************************************)
(* Writing.  While a record is under way, the bytes taken since the last   *)
(* sector was written are in the buffer, everything before them is in the  *)
(* file, and everything behind them is as it was; with DDL 6 the buffer    *)
(* holds the rest of its sector too.                                       *)
(***************************************************************************)
Told == drive.status \in {20, 24, 29}

Want == DOMAIN run.want

RunTypes ==
  run # NoRun =>
    /\ run = [at |-> run.at, done |-> run.done, want |-> run.want]
    /\ run.at \in Nat /\ run.done \in BOOLEAN /\ Want \subseteq Nat

Buffered(p) == p \div B = drive.pe /\ p < run.at

\* The pointers are where the record goes on; no byte of it is behind the
\* sector there.
Aligned ==
  /\ run.at = drive.pe * B + drive.oc
  /\ \A p \in Want : p \div B < Len(file) \/ p \div B = drive.pe

Loaded == \A p \in Want : p \div B = drive.pe => drive.buf0[p % B] = run.want[p]

Written ==
  \A p \in Want : IF Buffered(p) THEN drive.buf0[p % B] = run.want[p]
                                 ELSE ByteOf(file, p) = run.want[p]

Landed == \A p \in Want : RestOfSector(p) \/ ByteOf(file, p) = run.want[p]

RunInv ==
  run # NoRun /\ ~Told =>
    /\ drive.devl = 2 => ~drive.flpwr
    /\ drive.devl = 6 => drive.flpwr
    /\ ~run.done => drive.devl \in {2, 6} /\ Aligned /\ Written
    /\ run.done => Landed
    /\ drive.flpwr => Aligned /\ Loaded

\* The bytes of a file of n sectors are in the first n sectors.
LEMMA WithinFile ==
  ASSUME NEW n \in Nat, NEW p \in 0 .. n * B - 1
  PROVE  p \in Nat /\ p \div B < n
<1>1. B \in Nat /\ B > 0
  BY DriveAssumption
<1>2. n * B \in Nat
  BY <1>1
<1>3. p \in Nat /\ p < n * B
  BY <1>2
<1>4. p \div B \in Nat /\ p % B \in Nat /\ p = (p \div B) * B + (p % B)
  BY <1>3, DivB DEF SectorIdx
<1>5. ~(p \div B >= n)
  <2> DEFINE q == p \div B
  <2> HIDE DEF q
  <2> SUFFICES ASSUME q >= n PROVE FALSE
    BY DEF q
  <2>1. q \in Nat /\ q * B <= p
    BY <1>1, <1>4 DEF q
  <2>2. PICK k \in Nat : q = n + k
    BY <2>1
  <2>3. q * B = n * B + k * B /\ k * B \in Nat
    BY <1>1, <2>2
  <2> QED BY <1>2, <1>3, <2>1, <2>3
<1> QED BY <1>3, <1>4, <1>5

\* The places of sector s from s * B + i on are those of its bytes from i on.
LEMMA Behind ==
  ASSUME NEW s \in Nat, NEW i \in SectorIdx, NEW p \in Nat, p \div B = s
  PROVE  /\ p < s * B + i <=> p % B < i
         /\ p = s * B + i <=> p % B = i
<1>1. p % B \in Nat /\ i \in Nat /\ p = s * B + (p % B)
  BY DivB DEF SectorIdx
<1>2. s * B \in Nat
  BY DriveAssumption
<1> QED BY <1>1, <1>2

\* A record begun with nothing in the buffer, or with its sector loaded.
LEMMA RunBegins ==
  ASSUME Faults \subseteq {"open", "write"}, DriveInv,
         \/ Ddl(2) /\ run' = Begin(drive.pe * B)
         \/ Ddl(6) /\ run' = Begin(drive.pe * B + drive.oc)
  PROVE  RunTypes' /\ RunInv'
<1> DEFINE W == [p \in 0 .. Len(file) * B - 1 |-> ByteOf(file, p)]
<1>0. /\ drive \in DriveRecord /\ drive.pe \in Nat /\ drive.oc \in SectorIdx
      /\ Len(file) \in Nat /\ file \in Seq(Sector) /\ tail \in Sector
      /\ B \in Nat /\ 0 \in SectorIdx
  BY DriveAssumption DEF DriveInv, DriveOK, DriveRecord, SectorIdx
<1>1. PICK i \in SectorIdx :
        /\ run' = Begin(drive.pe * B + i)
        /\ \/ i = 0 /\ Ddl(2)
           \/ i = drive.oc /\ Ddl(6)
  <2>1. drive.pe * B = drive.pe * B + 0
    BY <1>0
  <2> QED BY <1>0, <2>1
<1>2. drive.pe * B + i \in Nat
  BY <1>0, Place
<1>3. /\ run' = [at |-> drive.pe * B + i, done |-> FALSE, want |-> W]
      /\ run'.at = drive.pe * B + i /\ run'.done = FALSE /\ run'.want = W
      /\ Want' = DOMAIN W
  BY <1>1 DEF Begin, Want
<1>4. /\ DOMAIN W \subseteq Nat
      /\ \A p \in DOMAIN W : W[p] = ByteOf(file, p) /\ p \div B < Len(file)
  BY <1>0, WithinFile
<1> HIDE DEF W
<1>5. RunTypes'
  BY <1>2, <1>3, <1>4 DEF RunTypes
<1>6. UNCHANGED <<file, tail>>
  BY <1>1 DEF Ddl
<1>7. CASE i = 0 /\ Ddl(2)
  <2>1. drive' = [drive EXCEPT !.devl = 2, !.oc = 0, !.flpwr = FALSE]
    BY <1>7 DEF Ddl
  <2>2. drive'.devl = 2 /\ ~drive'.flpwr /\ drive'.oc = 0 /\ drive'.pe = drive.pe
    BY <1>0, <2>1 DEF DriveRecord
  <2>3. Aligned'
    BY <1>3, <1>4, <1>6, <1>7, <2>2 DEF Aligned
  <2>4. \A p \in Want' : ~(Buffered(p)')
    <3> SUFFICES ASSUME NEW p \in Want', p \div B = drive.pe, p < drive.pe * B + 0
                 PROVE  FALSE
      BY <1>3, <1>7, <2>2 DEF Buffered
    <3>1. p \in Nat
      BY <1>3, <1>4
    <3>2. p % B < 0
      BY <1>0, <3>1, Behind
    <3> QED BY <3>1, <3>2, DivB DEF SectorIdx
  <2>5. Written'
    BY <1>3, <1>4, <1>6, <2>4 DEF Written, ByteOf
  <2> QED BY <1>3, <1>5, <2>2, <2>3, <2>5 DEF RunInv
<1>8. CASE i = drive.oc /\ Ddl(6)
  <2> DEFINE d == [drive EXCEPT !.devl = 6, !.flpwr = TRUE]
  <2>1. ReadOutcome \subseteq {"ok", "open"}
    BY DEF ReadOutcome
  <2>2. drive' \in {Rrec(d, file, "ok"), Rrec(d, file, "open")}
    BY <1>8, <2>1 DEF Ddl
  <2>3. CASE drive' = Rrec(d, file, "open")
    <3>1. Told'
      BY <1>0, <2>3 DEF Rrec, Told, DriveRecord
    <3> QED BY <1>5, <3>1 DEF RunInv
  <2>4. CASE drive' = Rrec(d, file, "ok")
    <3>1. /\ drive'.devl = 6 /\ drive'.flpwr /\ drive'.oc = drive.oc
          /\ drive'.pe = drive.pe /\ drive'.buf0 = SectorOf(file, drive.pe)
      BY <1>0, <2>4 DEF Rrec, DriveRecord
    <3>2. Aligned'
      BY <1>3, <1>4, <1>6, <1>8, <3>1 DEF Aligned
    <3>3. Loaded'
      BY <1>3, <1>4, <3>1 DEF Loaded, ByteOf
    <3>4. Written'
      BY <1>3, <1>4, <1>6, <3>1, <3>3 DEF Written, Loaded, Buffered, ByteOf
    <3> QED BY <1>3, <1>5, <3>1, <3>2, <3>3, <3>4 DEF RunInv
  <2> QED BY <2>2, <2>3, <2>4
<1> QED BY <1>1, <1>7, <1>8

\* A write that is not told of stored the sector.
LEMMA StoresOrTells ==
  ASSUME Faults \subseteq {"open", "write"},
         NEW d \in DriveRecord, NEW w \in WriteOutcome, Wrote(d, w)
  PROVE  \/ Wrec(d, w) = d /\ file' = Stored(file, d.pe, d.buf0)
         \/ Wrec(d, w).status \in {24, 29}
<1>1. w \in {"ok", "open", "write"}
  BY DEF WriteOutcome
<1> QED BY <1>1 DEF Wrec, Wrote, DriveRecord

\* An error stays told through what a record does.
LEMMA StaysTold ==
  ASSUME NEW d \in DriveRecord, d.status \in {20, 24, 29}
  PROVE  /\ \A w \in WriteOutcome : Wrec(d, w).status \in {20, 24, 29}
         /\ Advance(d).status \in {20, 24, 29}
         /\ \A g, r : r \in ReadOutcome => Rrec(d, g, r).status \in {20, 24, 29}
<1>1. \A w \in WriteOutcome : Wrec(d, w).status \in {20, 24, 29}
  BY Outcomes DEF Wrec, DriveRecord
<1>2. Advance(d).status \in {20, 24, 29}
  BY DEF Advance, DriveRecord
<1>3. \A g, r : r \in ReadOutcome => Rrec(d, g, r).status \in {20, 24, 29}
  BY Outcomes DEF Rrec, DriveRecord
<1> QED BY <1>1, <1>2, <1>3

\* DDL 8 with bytes of a record in the buffer.
LEMMA RunCloses ==
  ASSUME Faults \subseteq {"open", "write"}, DriveInv, RunTypes, RunInv,
         run # NoRun, Pending, Ddl(8), run' = [run EXCEPT !.done = TRUE]
  PROVE  RunTypes' /\ RunInv'
<1> DEFINE d == [drive EXCEPT !.devl = 8]
<1>0. /\ drive \in DriveRecord /\ drive.pe \in Nat /\ drive.oc \in SectorIdx
      /\ drive.buf0 \in Sector
      /\ Len(file) \in Nat /\ file \in Seq(Sector) /\ tail \in Sector
  BY DEF DriveInv, DriveOK, DriveRecord
<1>1a. d \in DriveRecord
  <2>1. 8 \in 0 .. 31
    OBVIOUS
  <2> QED BY <1>0, <2>1, DevlSet, Zenon
<1>1b. /\ d.pe = drive.pe /\ d.buf0 = drive.buf0 /\ d.oc = drive.oc
       /\ d.status = drive.status /\ d.devl = 8 /\ d.flpwr = drive.flpwr
  BY <1>0 DEF DriveRecord
<1>1. /\ d \in DriveRecord /\ d.pe = drive.pe /\ d.buf0 = drive.buf0 /\ d.oc = drive.oc
      /\ d.status = drive.status /\ d.devl = 8 /\ d.flpwr = drive.flpwr
  BY <1>1a, <1>1b
<1>2. /\ run' = [at |-> run.at, done |-> TRUE, want |-> run.want]
      /\ run'.at = run.at /\ run'.done = TRUE /\ run'.want = run.want
      /\ Want' = Want /\ run.at \in Nat /\ Want \subseteq Nat
  <2>1. /\ run = [at |-> run.at, done |-> run.done, want |-> run.want]
        /\ run.at \in Nat /\ Want \subseteq Nat
    BY DEF RunTypes
  <2> QED BY <2>1 DEF Want
<1>3. RunTypes'
  BY <1>2 DEF RunTypes
<1>4. PICK w \in WriteOutcome :
        /\ Wrote(d, w)
        /\ drive' = IF d.flpwr THEN Wrec(d, w) ELSE Advance(Wrec(d, w))
  BY DEF Ddl, Close
<1> HIDE DEF d
<1>5. CASE Wrec(d, w).status \in {20, 24, 29}
  <2>1. Told'
    BY <1>1, <1>4, <1>5, WrecOK, StaysTold DEF Told
  <2> QED BY <1>3, <2>1 DEF RunInv
<1>6. CASE Wrec(d, w) = d /\ file' = Stored(file, d.pe, d.buf0) /\ ~Told
  <2>1. /\ ~run.done /\ Aligned /\ Written
        /\ drive.flpwr => Loaded
    BY <1>6 DEF RunInv, Pending
  <2>2. /\ Len(file) <= Len(file')
        /\ drive.pe < Len(file') /\ Len(file') \in Nat
        /\ SectorOf(file', drive.pe) = drive.buf0
        /\ \A t \in Nat : t # drive.pe /\ t < Len(file) => SectorOf(file', t) = SectorOf(file, t)
    <3>1. file' = Stored(file, drive.pe, drive.buf0)
      BY <1>1, <1>6
    <3>2. HasStored(file', file, drive.pe, drive.buf0)
      BY <1>0, <3>1, StoredKeeps
    <3>3. Len(file') \in Nat
      BY <3>2 DEF HasStored
    <3> QED BY <3>2, <3>3 DEF HasStored
  <2>3. /\ drive'.flpwr = drive.flpwr /\ drive'.devl = 8
        /\ drive'.buf0 = drive.buf0 /\ drive'.oc = drive.oc
        /\ drive.flpwr => drive'.pe = drive.pe
    BY <1>1, <1>4, <1>6 DEF Advance, DriveRecord
  <2>4. \A p \in Want : p \div B # drive.pe => ByteOf(file', p) = run.want[p]
    <3> SUFFICES ASSUME NEW p \in Want, p \div B # drive.pe
                 PROVE  ByteOf(file', p) = run.want[p]
      OBVIOUS
    <3>1. p \div B \in Nat /\ p \div B < Len(file)
      BY <1>2, <2>1, DivB DEF Aligned
    <3>2. ByteOf(file, p) = run.want[p]
      BY <2>1 DEF Written, Buffered
    <3> QED BY <2>2, <3>1, <3>2 DEF ByteOf
  <2>5. \A p \in Want : p \div B = drive.pe /\ (p < run.at \/ drive.flpwr) =>
          ByteOf(file', p) = run.want[p]
    BY <2>1, <2>2 DEF ByteOf, Written, Buffered, Loaded
  <2>6. (run.at - 1) \div B = drive.pe
    <3>1. run.at = drive.pe * B + drive.oc /\ run.at % B # 0
      BY <2>1 DEF Aligned, Pending
    <3>2. drive.oc # 0
      BY <1>0, <3>1, Place
    <3>3. drive.oc - 1 \in SectorIdx
      BY <1>0, <3>2, DriveAssumption DEF SectorIdx
    <3>4. run.at - 1 = drive.pe * B + (drive.oc - 1)
      <4>1. drive.pe * B \in Nat /\ drive.oc \in Nat
        BY <1>0, DriveAssumption DEF SectorIdx
      <4>2. \A x, y \in Nat : (x + y) - 1 = x + (y - 1)
        OBVIOUS
      <4> QED BY <3>1, <4>1, <4>2
    <3> QED BY <1>0, <3>3, <3>4, Place
  <2>7. Landed'
    <3> SUFFICES ASSUME NEW p \in Want
                 PROVE  \/ ~drive.flpwr /\ p >= run.at /\ p \div B = (run.at - 1) \div B
                        \/ ByteOf(file', p) = run.want[p]
      BY <1>2, <2>3 DEF Landed, RestOfSector, ByteOf
    <3>1. p \in Nat /\ run.at \in Nat
      BY <1>2
    <3>2. p < run.at \/ p >= run.at
      BY <3>1
    <3> QED BY <2>4, <2>5, <2>6, <3>2
  <2>8. drive.flpwr => Aligned' /\ Loaded'
    <3> SUFFICES ASSUME drive.flpwr PROVE Aligned' /\ Loaded'
      OBVIOUS
    <3>1. Loaded'
      BY <1>2, <2>1, <2>3 DEF Loaded
    <3>2. \A p \in Want : p \div B < Len(file') \/ p \div B = drive.pe
      <4> TAKE p \in Want
      <4>1. p \div B \in Nat /\ (p \div B < Len(file) \/ p \div B = drive.pe)
        BY <1>2, <2>1, DivB DEF Aligned
      <4> QED BY <1>0, <2>2, <4>1
    <3>3. Aligned'
      BY <1>2, <2>1, <2>3, <3>2 DEF Aligned
    <3> QED BY <3>1, <3>3
  <2> QED BY <1>2, <1>3, <2>3, <2>7, <2>8 DEF RunInv
<1>7. CASE Told
  <2>1. Told'
    BY <1>1, <1>4, <1>7, WrecOK, StaysTold DEF Told
  <2> QED BY <1>3, <2>1 DEF RunInv
<1> QED BY <1>1, <1>4, <1>5, <1>6, <1>7, StoresOrTells

\* A sector stored, byte by byte.
LEMMA StoredBytes ==
  ASSUME tail \in Sector, NEW g \in Seq(Sector), NEW s \in Nat, NEW buf \in Sector,
         NEW h, h = Stored(g, s, buf), NEW p \in Nat
  PROVE  /\ p \div B = s => ByteOf(h, p) = buf[p % B]
         /\ p \div B # s /\ p \div B < Len(g) => ByteOf(h, p) = ByteOf(g, p)
         /\ p \div B = s \/ p \div B < Len(g) => p \div B < Len(h)
<1>1. p \div B \in Nat
  BY DivB
<1>2. HasStored(h, g, s, buf)
  BY StoredKeeps
<1>3. Len(g) \in Nat /\ Len(h) \in Nat
  BY <1>2 DEF HasStored
<1> QED BY <1>1, <1>2, <1>3 DEF ByteOf, HasStored

\* The buffer with byte b in it, and what else the drive keeps.
LEMMA PutFields ==
  ASSUME drive \in DriveRecord, NEW b \in DataByte
  PROVE  /\ Put(b).buf0 = [drive.buf0 EXCEPT ![drive.oc] = b]
         /\ Put(b).flpwr = drive.flpwr /\ Put(b).status = drive.status
BY DEF Put, DriveRecord

\* A byte of the record.
LEMMA RunTakes ==
  ASSUME Faults \subseteq {"open", "write"}, DriveInv, RunTypes, RunInv, run # NoRun,
         NEW f \in Inputs, f.n \in DataByte, Indata(f.n, f.k = "END"),
         drive.devl \in {2, 6}, ~(run.done /\ ~drive.flpwr), run' = Take(f)
  PROVE  RunTypes' /\ RunInv'
<1> DEFINE a   == run.at
           b   == f.n
           buf == [drive.buf0 EXCEPT ![drive.oc] = b]
           new == [p \in Want \cup {a} |-> IF p = a THEN b ELSE run.want[p]]
<1>0. /\ drive \in DriveRecord /\ drive.pe \in Nat /\ drive.oc \in SectorIdx
      /\ drive.buf0 \in Sector /\ buf \in Sector
      /\ Len(file) \in Nat /\ file \in Seq(Sector) /\ tail \in Sector
  <2>1. /\ drive \in DriveRecord /\ drive.pe \in Nat /\ drive.oc \in SectorIdx
        /\ drive.buf0 \in Sector
        /\ Len(file) \in Nat /\ file \in Seq(Sector) /\ tail \in Sector
    BY DEF DriveInv, DriveOK, DriveRecord
  <2> QED BY <2>1 DEF Sector
<1>1. /\ a \in Nat /\ Want \subseteq Nat /\ run.done \in BOOLEAN
  BY DEF RunTypes
<1>2. /\ run' = [at |-> a + 1, done |-> f.k = "END", want |-> new]
      /\ run'.at = a + 1 /\ run'.done = (f.k = "END") /\ run'.want = new
      /\ Want' = Want \cup {a}
  BY DEF Take, Want
<1>3. RunTypes'
  BY <1>1, <1>2 DEF RunTypes
<1> DEFINE d == Put(b)
<1>4. /\ d \in DriveRecord /\ d.pe = drive.pe /\ d.devl = drive.devl
      /\ d.oc = (drive.oc + 1) % B
      /\ d.buf0 = buf /\ d.flpwr = drive.flpwr /\ d.status = drive.status
  BY <1>0, PutOK, PutFields
<1>5. CASE Told
  <2> HIDE DEF d
  <2>1. d.status \in {20, 24, 29}
    BY <1>4, <1>5 DEF Told
  <2>2. \/ drive' = d
        \/ \E w \in WriteOutcome : drive' \in {Wrec(d, w), Advance(Wrec(d, w))}
        \/ \E w \in WriteOutcome, r \in ReadOutcome :
             drive' = Rrec(Advance(Wrec(d, w)), file', r)
    BY DEF Indata, FillByte, EndRecord, FillSector, d
  <2>3. drive'.status \in {20, 24, 29}
    <3>1. ASSUME NEW w \in WriteOutcome
          PROVE  /\ Wrec(d, w).status \in {20, 24, 29}
                 /\ Advance(Wrec(d, w)) \in DriveRecord
                 /\ Advance(Wrec(d, w)).status \in {20, 24, 29}
      BY <1>4, <2>1, StaysTold, WrecOK, AdvanceOK
    <3> QED BY <2>1, <2>2, <3>1, StaysTold
  <2> QED BY <1>3, <2>3 DEF RunInv, Told
<1>6. CASE ~Told
  <2>1. /\ a = drive.pe * B + drive.oc
        /\ \A p \in Want : p \div B < Len(file) \/ p \div B = drive.pe
    BY <1>1, <1>6 DEF RunInv, Aligned
  <2>2. /\ a \div B = drive.pe /\ a % B = drive.oc
    BY <1>0, <2>1, Place
  \* The file behind the record and beside its sector.
  <2>3. \A p \in Want : p \div B # drive.pe \/ p >= a => ByteOf(file, p) = run.want[p]
    <3> SUFFICES ASSUME NEW p \in Want, p \div B # drive.pe \/ p >= a
                 PROVE  ByteOf(file, p) = run.want[p]
      OBVIOUS
    <3>1. p \in Nat /\ ~Buffered(p)
      BY <1>1 DEF Buffered
    <3>2. CASE run.done
      BY <1>6, <3>2 DEF RunInv, Landed, RestOfSector
    <3>3. CASE ~run.done
      BY <1>6, <3>1, <3>3 DEF RunInv, Written
    <3> QED BY <3>2, <3>3
  <2>4. \A p \in Want' : p \div B # drive.pe \/ p >= a + 1 =>
          /\ p \in Want /\ ByteOf(file, p) = new[p]
          /\ p \div B # drive.pe => p \div B < Len(file)
    <3> SUFFICES ASSUME NEW p \in Want \cup {a}, p \div B # drive.pe \/ p >= a + 1
                 PROVE  /\ p \in Want /\ ByteOf(file, p) = new[p]
                        /\ p \div B # drive.pe => p \div B < Len(file)
      BY <1>2
    <3>1. p # a
      BY <1>1, <2>2
    <3>2. p \in Want /\ p \in Nat
      BY <1>1, <3>1
    <3>3. p >= a + 1 => p >= a
      BY <1>1, <3>2
    <3> QED BY <2>1, <2>3, <3>1, <3>2, <3>3
  \* The buffer up to the byte taken, and behind it after DDL 6.
  <2>5. \A p \in Want' : p \div B = drive.pe /\ (p < a + 1 \/ drive.flpwr) =>
          buf[p % B] = new[p]
    <3> SUFFICES ASSUME NEW p \in Want \cup {a}, p \div B = drive.pe,
                        p < a + 1 \/ drive.flpwr
                 PROVE  buf[p % B] = new[p]
      BY <1>2
    <3>1. CASE p = a
      BY <1>0, <2>2, <3>1 DEF Sector
    <3>2. CASE p # a
      <4>1. p \in Want /\ p \in Nat /\ new[p] = run.want[p]
        BY <1>1, <3>2
      <4>2. p % B # drive.oc /\ p % B \in SectorIdx
        BY <1>0, <2>1, <3>2, <4>1, Behind, DivB
      <4>3. buf[p % B] = drive.buf0[p % B]
        BY <1>0, <4>2 DEF Sector
      <4>4. CASE drive.flpwr
        BY <1>6, <4>1, <4>3, <4>4 DEF RunInv, Loaded
      <4>5. CASE ~drive.flpwr
        <5>1. Buffered(p) /\ ~run.done
          BY <1>1, <3>2, <4>1, <4>5 DEF Buffered
        <5> QED BY <1>6, <4>1, <4>3, <5>1 DEF RunInv, Written
      <4> QED BY <4>4, <4>5
    <3> QED BY <3>1, <3>2
  <2>6. \A p \in Want' : p \in Nat /\ p \div B \in Nat
    BY <1>1, <1>2, DivB
  <2>7. \A p \in Want' : p \div B < Len(file) \/ p \div B = drive.pe
    BY <2>4
  <2> HIDE DEF new, buf, d
  <2>8. CASE f.k # "END" /\ FillByte(b)
    <3>1. /\ drive' = d /\ UNCHANGED <<file, tail>> /\ ~LastOfSector
      BY <2>8 DEF FillByte, d
    <3>2. d.oc = drive.oc + 1
      BY <1>0, <1>4, <3>1, NextPlace DEF LastOfSector
    <3>3. a + 1 = drive.pe * B + d.oc
      <4>1. drive.pe * B \in Nat /\ drive.oc \in Nat
        BY <1>0, DriveAssumption DEF SectorIdx
      <4>2. \A x, y \in Nat : (x + y) + 1 = x + (y + 1)
        OBVIOUS
      <4> QED BY <2>1, <3>2, <4>1, <4>2
    <3>4. Aligned'
      BY <1>2, <1>4, <2>7, <3>1, <3>3 DEF Aligned
    <3>5. drive.flpwr => Loaded'
      BY <1>2, <1>4, <2>5, <3>1 DEF Loaded
    <3>6. Written'
      <4> SUFFICES ASSUME NEW p \in Want'
                   PROVE  IF p \div B = drive.pe /\ p < a + 1
                          THEN buf[p % B] = new[p] ELSE ByteOf(file, p) = new[p]
        BY <1>2, <1>4, <3>1 DEF Written, Buffered, ByteOf
      <4>1. p < a + 1 \/ p >= a + 1
        BY <1>1, <2>6
      <4> QED BY <2>4, <2>5, <4>1
    <3>7. ~run'.done
      BY <1>2, <2>8
    <3> QED BY <1>3, <1>4, <1>6, <3>1, <3>4, <3>5, <3>6, <3>7 DEF RunInv
  \* A sector written.
  <2>9. ASSUME file' = Stored(file, drive.pe, buf)
        PROVE  \A p \in Want' :
                 /\ p \div B < Len(file')
                 /\ p \div B # drive.pe \/ p < a + 1 \/ drive.flpwr => ByteOf(file', p) = new[p]
    <3> SUFFICES ASSUME NEW p \in Want'
                 PROVE  /\ p \div B < Len(file')
                        /\ p \div B # drive.pe \/ p < a + 1 \/ drive.flpwr =>
                             ByteOf(file', p) = new[p]
      OBVIOUS
    <3>1. /\ p \div B = drive.pe => ByteOf(file', p) = buf[p % B]
          /\ p \div B # drive.pe /\ p \div B < Len(file) => ByteOf(file', p) = ByteOf(file, p)
          /\ p \div B = drive.pe \/ p \div B < Len(file) => p \div B < Len(file')
      BY <1>0, <2>6, <2>9, StoredBytes
    <3> QED BY <2>4, <2>5, <2>7, <3>1
  <2>10. CASE f.k = "END" /\ EndRecord(b)
    <3>1. PICK w \in WriteOutcome :
            /\ Wrote(d, w)
            /\ drive' = IF drive.flpwr THEN Wrec(d, w) ELSE Advance(Wrec(d, w))
            /\ ~LastOfSector
      BY <2>10 DEF EndRecord, d
    <3>2. CASE Wrec(d, w).status \in {24, 29}
      <4>1. Told'
        BY <1>4, <3>1, <3>2, WrecOK, StaysTold DEF Told
      <4> QED BY <1>3, <4>1 DEF RunInv
    <3>3. CASE Wrec(d, w) = d /\ file' = Stored(file, d.pe, d.buf0)
      <4>1. file' = Stored(file, drive.pe, buf)
        BY <1>4, <3>3
      <4>2. /\ drive'.devl = drive.devl /\ drive'.flpwr = drive.flpwr
            /\ drive'.oc = drive.oc + 1
            /\ drive.flpwr => drive'.pe = drive.pe /\ drive'.buf0 = buf
        <5>1. d.oc = drive.oc + 1
          BY <1>0, <1>4, <3>1, NextPlace DEF LastOfSector
        <5> QED BY <1>4, <3>1, <3>3, <5>1 DEF Advance, DriveRecord
      <4>3. Landed'
        <5> SUFFICES ASSUME NEW p \in Want'
                     PROVE  \/ ~drive.flpwr /\ p >= a + 1 /\ p \div B = ((a + 1) - 1) \div B
                            \/ ByteOf(file', p) = new[p]
          BY <1>2, <4>2 DEF Landed, RestOfSector, ByteOf
        <5>1. (a + 1) - 1 = a /\ (p < a + 1 \/ p >= a + 1)
          BY <1>1, <2>6
        <5> QED BY <2>2, <2>9, <4>1, <5>1
      <4>4. drive.flpwr => Aligned' /\ Loaded'
        <5> SUFFICES ASSUME drive.flpwr PROVE Aligned' /\ Loaded'
          OBVIOUS
        <5>1. a + 1 = drive.pe * B + drive'.oc
          <6>1. drive.pe * B \in Nat /\ drive.oc \in Nat
            BY <1>0, DriveAssumption DEF SectorIdx
          <6>2. \A x, y \in Nat : (x + y) + 1 = x + (y + 1)
            OBVIOUS
          <6> QED BY <2>1, <4>2, <6>1, <6>2
        <5>2. Aligned'
          BY <1>2, <2>9, <4>1, <4>2, <5>1 DEF Aligned
        <5>3. Loaded'
          BY <1>2, <2>5, <4>2 DEF Loaded
        <5> QED BY <5>2, <5>3
      <4>5. run'.done
        BY <1>2, <2>10
      <4> QED BY <1>3, <1>6, <4>2, <4>3, <4>4, <4>5 DEF RunInv
    <3> QED BY <1>4, <3>1, <3>2, <3>3, StoresOrTells
  <2>11. CASE FillSector(b)
    <3>1. PICK w \in WriteOutcome, r \in ReadOutcome :
            /\ Wrote(d, w)
            /\ drive' = IF drive.flpwr THEN Rrec(Advance(Wrec(d, w)), file', r)
                                       ELSE Advance(Wrec(d, w))
            /\ LastOfSector
      BY <2>11 DEF FillSector, d
    <3>2. CASE Wrec(d, w).status \in {24, 29}
      <4>1. /\ Advance(Wrec(d, w)).status \in {20, 24, 29}
            /\ Advance(Wrec(d, w)) \in DriveRecord
        BY <1>4, <3>2, WrecOK, AdvanceOK, StaysTold
      <4>2. Told'
        BY <3>1, <4>1, StaysTold DEF Told
      <4> QED BY <1>3, <4>2 DEF RunInv
    <3>3. CASE Wrec(d, w) = d /\ file' = Stored(file, d.pe, d.buf0)
      <4>1. file' = Stored(file, drive.pe, buf)
        BY <1>4, <3>3
      <4> DEFINE e == Advance(d)
      <4>2. /\ e \in DriveRecord /\ e.devl = drive.devl /\ e.flpwr = drive.flpwr
            /\ e.oc = d.oc /\ e.pe = drive.pe + 1
        BY <1>4, AdvanceOK DEF Advance, DriveRecord
      <4>3. d.oc = 0 /\ a + 1 = (drive.pe + 1) * B
        BY <1>0, <1>4, <2>1, <3>1, NextPlace DEF LastOfSector
      <4> HIDE DEF e
      <4>4. ReadOutcome \subseteq {"ok", "open"}
        BY DEF ReadOutcome
      <4>5. \/ drive' = e /\ ~drive.flpwr
            \/ drive' = Rrec(e, file', "ok") /\ drive.flpwr
            \/ drive' = Rrec(e, file', "open") /\ drive.flpwr
        BY <3>1, <3>3, <4>4 DEF e
      <4>6. CASE drive' = Rrec(e, file', "open")
        <5>1. Told'
          BY <4>2, <4>6 DEF Rrec, Told, DriveRecord
        <5> QED BY <1>3, <5>1 DEF RunInv
      <4>7. CASE \/ drive' = e /\ ~drive.flpwr
                 \/ drive' = Rrec(e, file', "ok") /\ drive.flpwr
        <5>1. /\ drive'.devl = drive.devl /\ drive'.flpwr = drive.flpwr
              /\ drive'.oc = 0 /\ drive'.pe = drive.pe + 1
              /\ drive.flpwr => drive'.buf0 = SectorOf(file', drive.pe + 1)
          BY <4>2, <4>3, <4>7 DEF Rrec, DriveRecord
        <5>2. \A p \in Want' : ByteOf(file', p) = new[p] /\ p \div B < Len(file')
          <6> SUFFICES ASSUME NEW p \in Want', p \div B = drive.pe
                       PROVE  p < a + 1
            BY <2>9, <4>1
          <6>1. p \in Nat /\ p % B \in SectorIdx /\ p % B <= drive.oc
            <7>1. p \in Nat /\ p % B \in 0 .. B - 1
              BY <2>6, DivB DEF SectorIdx
            <7>2. drive.oc = B - 1 /\ B \in Nat
              BY <3>1, DriveAssumption DEF LastOfSector
            <7> QED BY <7>1, <7>2 DEF SectorIdx
          <6>2. p < a \/ p = a
            BY <1>0, <2>1, <6>1, Behind DEF SectorIdx
          <6> QED BY <1>1, <6>1, <6>2
        <5>3. \A p \in Want' : ~(Buffered(p)')
          <6> SUFFICES ASSUME NEW p \in Want', p \div B = drive.pe + 1, p < a + 1
                       PROVE  FALSE
            BY <1>2, <5>1 DEF Buffered
          <6>1. p \in Nat /\ drive.pe + 1 \in Nat /\ 0 \in SectorIdx
            BY <1>0, <2>6, DriveAssumption DEF SectorIdx
          <6>2. p < (drive.pe + 1) * B + 0
            BY <4>3, <6>1, DriveAssumption
          <6>3. p % B < 0
            BY <6>1, <6>2, Behind
          <6> QED BY <6>1, <6>3, DivB DEF SectorIdx
        <5>4. Aligned'
          <6>1. a + 1 = (drive.pe + 1) * B + 0
            BY <1>0, <4>3, DriveAssumption
          <6> QED BY <1>2, <5>1, <5>2, <6>1 DEF Aligned
        <5>5. Written'
          BY <1>2, <5>2, <5>3 DEF Written, ByteOf
        <5>6. Landed'
          BY <1>2, <5>2 DEF Landed, ByteOf
        <5>7. drive.flpwr => Loaded'
          BY <1>2, <5>1, <5>2 DEF Loaded, ByteOf
        <5> QED BY <1>3, <1>6, <5>1, <5>4, <5>5, <5>6, <5>7 DEF RunInv
      <4> QED BY <4>5, <4>6, <4>7
    <3> QED BY <1>4, <3>1, <3>2, <3>3, StoresOrTells
  <2> QED BY <2>8, <2>10, <2>11 DEF Indata
<1> QED BY <1>5, <1>6

\* What a frame does to a record under way.
LEMMA RunStep ==
  ASSUME Faults \subseteq {"open", "write"}, DriveInv, RunTypes, RunInv,
         NEW f \in Inputs, ILhdisc(f), run' = RunAfter(f)
  PROVE  RunTypes' /\ RunInv'
<1>0. EngineOK
  BY DEF DriveInv
<1>1. CASE Listens(f) /\ f.n \in {2, 6}
  <2>1. Ddl(f.n)
    BY <1>0, <1>1, EventEffect
  <2>2. \/ Ddl(2) /\ run' = Begin(drive.pe * B)
        \/ Ddl(6) /\ run' = Begin(drive.pe * B + drive.oc)
    BY <1>1, <2>1 DEF RunAfter
  <2> QED BY <2>2, RunBegins
<1>2. CASE ~(Listens(f) /\ f.n \in {2, 6}) /\ (run = NoRun \/ EndsRun(f))
  <2>1. run' = NoRun
    BY <1>2 DEF RunAfter
  <2> QED BY <2>1 DEF RunTypes, RunInv
<1>3. CASE ~(Listens(f) /\ f.n \in {2, 6}) /\ run # NoRun /\ ~EndsRun(f)
  <2>1. CASE Listens(f)
    <3>1. f.n = 8 /\ Pending
      BY <1>3, <2>1 DEF EndsRun
    <3>2. Ddl(8) /\ run' = [run EXCEPT !.done = TRUE]
      BY <1>0, <1>3, <2>1, <3>1, EventEffect DEF RunAfter
    <3> QED BY <1>3, <3>1, <3>2, RunCloses
  <2>2. CASE TakesByte(f)
    <3>1. drive.devl \in {2, 6} /\ ~(run.done /\ ~drive.flpwr)
      BY <1>3, <2>2 DEF EndsRun
    <3>2. Indata(f.n, f.k = "END") /\ f.n \in DataByte
      BY <1>0, <2>2, EventEffect, Arguments DEF TakesByte
    <3>3. run' = Take(f)
      BY <1>3, <2>2, OneEvent DEF RunAfter
    <3> QED BY <1>3, <3>1, <3>2, <3>3, RunTakes
  <2>3. CASE ~Listens(f) /\ ~TakesByte(f)
    <3>1. ~Touches(f)
      BY <1>3, <2>3 DEF EndsRun, Touches
    <3>2. UNCHANGED <<drive, file, tail, run>>
      BY <1>0, <1>3, <2>3, <3>1, EventEffect DEF RunAfter
    <3> QED
      BY <3>2 DEF RunTypes, RunInv, Told, Want, Aligned, Loaded, Written, Landed, Buffered,
         RestOfSector, ByteOf
  <2> QED BY <2>1, <2>2, <2>3
<1> QED BY <1>1, <1>2, <1>3

LEMMA RunHolds ==
  ASSUME Faults \subseteq {"open", "write"}
  PROVE  StreamSpec => [](DriveInv /\ RunTypes /\ RunInv)
<1>1. StreamInit => RunTypes /\ RunInv
  BY DEF StreamInit, RunTypes, RunInv
<1>2. DriveInv /\ RunTypes /\ RunInv /\ [StreamNext]_svars => (RunTypes /\ RunInv)'
  <2> SUFFICES ASSUME DriveInv, RunTypes, RunInv, [StreamNext]_svars
               PROVE  (RunTypes /\ RunInv)'
    OBVIOUS
  <2>1. CASE StreamNext
    BY <2>1, RunStep DEF StreamNext
  <2>2. CASE UNCHANGED svars
    BY <2>2 DEF svars, vars, RunTypes, RunInv, Told, Want, Aligned, Loaded, Written, Landed,
       Buffered, RestOfSector, ByteOf
  <2> QED BY <2>1, <2>2
<1> QED BY <1>1, <1>2, DriveHolds, StreamsAreSpec, PTL DEF StreamSpec

\* ildrive.c, indata() and on_cmd(): a record begun with DDL 2 or DDL 6 and
\* ended by an END byte or DDL 8 is in the image byte for byte where it was
\* begun, and nothing else of the image has changed, whatever the size of the
\* sectors and the length of the record, unless the status tells of an error;
\* given that access() and read() do not fail, which the code never tells.
THEOREM RecordsLand ==
  ASSUME Faults \subseteq {"open", "write"}
  PROVE  StreamSpec => []RunWritten
<1>1. RunInv => RunWritten
  BY DEF RunInv, RunWritten, Landed, Want, Told
<1> QED BY <1>1, RunHolds, PTL
=============================================================================
