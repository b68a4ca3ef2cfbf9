--------------------------- MODULE HpilLoopProofs ---------------------------
(***************************************************************************)
(* What holds of the loop for every number of devices, every choice of     *)
(* default addresses and identification strings and every controller.      *)
(***************************************************************************)
EXTENDS HpilLoop, FiniteSetTheorems, TLAPS

-----------------------------------------------------------------------------
(***************************************************************************)
(* The engine: types, modes and the pointer into device_id together, since *)
(* the byte an identification sends has a type only where the pointer is   *)
(* inside the string.                                                      *)
(***************************************************************************)
EngineOK ==
  /\ dev \in [Device -> DevRecord]
  /\ frame \in Frame
  /\ EngineStates
  /\ SdiInBounds

Modes == {Idle, Listener, Talker, LastByteOut, Sending, Identifying,
          StatusPending, Identifying \ {"sda"}}

\* The modes are sets of state bits; only one of them has both bits of an
\* identification.
LEMMA ModesAreFlags ==
  /\ Modes \subseteq SUBSET Flags
  /\ \A s \in Modes : {"sda", "sdi"} \subseteq s <=> s = Identifying
BY DEF Modes, Flags, Idle, Listener, Talker, LastByteOut, Sending, Identifying, StatusPending

\* Clearing the bit that NRD, or the second status byte, clears leads from
\* mode to mode, and out of an identification.
LEMMA ModesClosed ==
  ASSUME NEW s \in Modes
  PROVE  /\ s \ {"sda"} \in Modes
         /\ s \ {"sst"} \in Modes
         /\ ~({"sda", "sdi"} \subseteq s \ {"sda"})
         /\ "sda" \notin s => ~({"sda", "sdi"} \subseteq s \ {"sst"})
<1>1. CASE s \in {Idle, Listener, Talker, LastByteOut, Identifying \ {"sda"}}
  <2>1. s \ {"sda"} = s /\ s \ {"sst"} = s
    BY <1>1 DEF Idle, Listener, Talker, LastByteOut, Identifying
  <2> QED BY <2>1
<1>2. CASE s = Sending
  <2>1. s \ {"sda"} = LastByteOut /\ s \ {"sst"} = s
    BY <1>2 DEF Sending, LastByteOut
  <2> QED BY <1>2, <2>1 DEF Modes
<1>3. CASE s = Identifying
  <2>1. s \ {"sst"} = s /\ "sda" \in s
    BY <1>3 DEF Identifying
  <2> QED BY <1>3, <2>1 DEF Modes
<1>4. CASE s = StatusPending
  <2>1. s \ {"sst"} = LastByteOut /\ s \ {"sda"} = s
    BY <1>4 DEF StatusPending, LastByteOut
  <2> QED BY <1>4, <2>1 DEF Modes
<1> QED BY <1>1, <1>2, <1>3, <1>4 DEF Modes

\* The frames a device makes are frames.
LEMMA FramesMade ==
  /\ \A b \in Byte : Dab(b) \in Frame
  /\ Eto \in Frame
  /\ NoLap \in Frame /\ F("IDY", 1) \in Frame
  /\ \A n \in 0 .. 30 : F("AAD", n) \in Frame
BY DEF Dab, Eto, NoLap, F, Frame, Byte, Kinds, DoeKinds, CmdKinds, RdyKinds

\* The updates of a device's record.
WithPointer(r, p) == [r EXCEPT !.ptsdi = p]
WithMode(r, p, s) == [r EXCEPT !.ptsdi = p, !.state = s]
WithAddress(r, n, a) == [r EXCEPT !.adr = n, !.aad = a]

LEMMA PointerSet ==
  ASSUME NEW r \in DevRecord, NEW p \in Nat
  PROVE  /\ WithPointer(r, p) \in DevRecord
         /\ WithPointer(r, p).state = r.state /\ WithPointer(r, p).ptsdi = p
BY DEF DevRecord, WithPointer

LEMMA ModeSet ==
  ASSUME NEW r \in DevRecord, NEW p \in Nat, NEW s \in SUBSET Flags
  PROVE  /\ WithMode(r, p, s) \in DevRecord
         /\ WithMode(r, p, s).state = s /\ WithMode(r, p, s).ptsdi = p
BY DEF DevRecord, WithMode

LEMMA AddressSet ==
  ASSUME NEW r \in DevRecord, NEW n \in 0 .. 30, NEW a \in BOOLEAN
  PROVE  /\ WithAddress(r, n, a) \in DevRecord
         /\ WithAddress(r, n, a).state = r.state
         /\ WithAddress(r, n, a).ptsdi = r.ptsdi
BY DEF DevRecord, WithAddress

\* A device may be given a new record that keeps to its type, its modes and
\* the string.
LEMMA UpdateOK ==
  ASSUME EngineOK, NEW d \in Device, NEW r \in DevRecord,
         r.state \in Modes,
         {"sda", "sdi"} \subseteq r.state => r.ptsdi \in 2 .. Len(DeviceId[d]),
         dev' = [dev EXCEPT ![d] = r],
         frame' \in Frame
  PROVE  EngineOK'
<1>1. dev' \in [Device -> DevRecord]
  BY DEF EngineOK
<1>2. \A e \in Device : dev'[e] = IF e = d THEN r ELSE dev[e]
  BY DEF EngineOK
<1>3. EngineStates'
  BY <1>2 DEF EngineOK, EngineStates, Modes
<1>4. SdiInBounds'
  BY <1>2 DEF EngineOK, SdiInBounds
<1> QED BY <1>1, <1>3, <1>4 DEF EngineOK

\* A device that passes a frame on, or hands on another, without a change of
\* its own.
LEMMA PassOK ==
  ASSUME EngineOK, UNCHANGED dev, frame' \in Frame
  PROVE  EngineOK'
BY DEF EngineOK, EngineStates, SdiInBounds

\* A device enters mode s, which is not that of an identification.
LEMMA EnterOK ==
  ASSUME EngineOK, NEW d \in Device, NEW s \in Modes, s # Identifying,
         NEW f \in Frame, Enter(d, s, f)
  PROVE  EngineOK'
<1> DEFINE r == [dev[d] EXCEPT !.state = s]
<1>1. r \in DevRecord /\ r.state = s
  BY ModesAreFlags DEF EngineOK, DevRecord
<1>2. dev' = [dev EXCEPT ![d] = r] /\ frame' \in Frame
  BY DEF Enter, EngineOK
<1>3. ~({"sda", "sdi"} \subseteq r.state)
  BY <1>1, ModesAreFlags
<1> HIDE DEF r
<1> QED BY <1>1, <1>2, <1>3, UpdateOK

\* What the assumption says of one identification string.
LEMMA IdString ==
  ASSUME NEW d \in Device
  PROVE  /\ DeviceId[d] \in Seq(Byte)
         /\ Len(DeviceId[d]) \in Nat /\ Len(DeviceId[d]) >= 2
         /\ \A i \in 1 .. Len(DeviceId[d]) :
              DeviceId[d][i] \in Byte /\ (DeviceId[d][i] = CR <=> i = Len(DeviceId[d]))
<1>1. DeviceId[d] \in Seq(Byte)
  BY DeviceIdAssumption
<1>2. Len(DeviceId[d]) \in Nat /\ \A i \in 1 .. Len(DeviceId[d]) : DeviceId[d][i] \in Byte
  BY <1>1
<1> QED BY <1>1, <1>2, DeviceIdAssumption

LEMMA ModesAre ==
  /\ {Idle, Listener, Talker, LastByteOut, Sending, StatusPending} \subseteq Modes
  /\ Identifying \in Modes
  /\ Identifying \notin {Idle, Listener, Talker, LastByteOut, Sending, StatusPending}
BY DEF Modes, Idle, Listener, Talker, LastByteOut, Sending, StatusPending, Identifying

\* Data frames keep EngineOK.
LEMMA DoeOK ==
  ASSUME EngineOK, NEW d \in Device, NEW f \in Frame,
         \/ NextIdByte(d, f) \/ EndOfId(d, f) \/ SendDone(d, f)
         \/ \E b \in Byte \cup {NoByte} : SendNext(d, f, b)
         \/ \E b \in Byte : Status2(d, f, b)
  PROVE  EngineOK'
<1>0. dev[d] \in DevRecord /\ dev[d].state \in Modes
  BY DEF EngineOK, EngineStates, Modes
<1>1. CASE NextIdByte(d, f)
  <2> DEFINE p == dev[d].ptsdi
             r == WithPointer(dev[d], p + 1)
  <2>1. {"sda", "sdi"} \subseteq dev[d].state
    BY <1>1 DEF NextIdByte, Is
  <2>2. p \in 2 .. Len(DeviceId[d]) /\ DeviceId[d][p] # CR
    BY <1>1, <2>1 DEF NextIdByte, EngineOK, SdiInBounds
  <2>3. /\ Len(DeviceId[d]) \in Nat /\ p \in Nat /\ p + 1 \in Nat
        /\ DeviceId[d][p] \in Byte
        /\ p # Len(DeviceId[d])
    BY <2>2, IdString
  <2>4. r \in DevRecord /\ r.state = dev[d].state /\ r.ptsdi = p + 1
    BY <1>0, <2>3, PointerSet
  <2>5. r.ptsdi \in 2 .. Len(DeviceId[d])
    BY <2>2, <2>3, <2>4
  <2>6. dev' = [dev EXCEPT ![d] = r] /\ frame' \in Frame
    BY <1>1, <2>3, FramesMade DEF NextIdByte, WithPointer
  <2> HIDE DEF r
  <2> QED BY <1>0, <2>4, <2>5, <2>6, UpdateOK
<1>2. CASE EndOfId(d, f)
  <2> DEFINE r == WithMode(dev[d], 0, Talker)
  <2>1. r \in DevRecord /\ r.state = Talker
    BY <1>0, ModesAre, ModesAreFlags, ModeSet
  <2>2. dev' = [dev EXCEPT ![d] = r] /\ frame' \in Frame
    BY <1>2, FramesMade DEF EndOfId, WithMode
  <2>3. Talker \in Modes /\ ~({"sda", "sdi"} \subseteq Talker)
    BY ModesAre, ModesAreFlags
  <2> HIDE DEF r
  <2> QED BY <2>1, <2>2, <2>3, UpdateOK
<1>3. CASE SendDone(d, f)
  <2>1. Enter(d, Talker, Eto)
    BY <1>3 DEF SendDone
  <2> QED BY <2>1, EnterOK, ModesAre, FramesMade
<1>4. ASSUME NEW b \in Byte \cup {NoByte}, SendNext(d, f, b)
      PROVE  EngineOK'
  <2>1. CASE b # NoByte
    BY <1>4, <2>1, PassOK, FramesMade DEF SendNext, Pass
  <2>2. CASE b = NoByte
    <3>1. Enter(d, Talker, Eto)
      BY <1>4, <2>2 DEF SendNext
    <3> QED BY <3>1, EnterOK, ModesAre, FramesMade
  <2> QED BY <2>1, <2>2
<1>5. ASSUME NEW b \in Byte, Status2(d, f, b)
      PROVE  EngineOK'
  <2>1. Enter(d, dev[d].state \ {"sst"}, Dab(b)) /\ "sda" \notin dev[d].state
    BY <1>5 DEF Status2, Is
  <2>2. /\ dev[d].state \ {"sst"} \in Modes
        /\ dev[d].state \ {"sst"} # Identifying
    BY <1>0, <2>1, ModesClosed, ModesAreFlags
  <2> QED BY <2>1, <2>2, EnterOK, ModesAre, FramesMade
<1> QED BY <1>1, <1>2, <1>3, <1>4, <1>5

\* Commands keep EngineOK.
LEMMA CmdOK ==
  ASSUME EngineOK, NEW d \in Device, NEW f \in Frame,
         \/ Listen(d, f) \/ Unlisten(d, f) \/ Talk(d, f) \/ Untalk(d, f)
         \/ InterfaceClear(d, f) \/ Unconfigure(d, f)
  PROVE  EngineOK'
<1>1. CASE ~Unconfigure(d, f)
  <2>1. \E s \in {Idle, Listener, Talker} : Enter(d, s, f)
    BY <1>1 DEF Listen, Unlisten, Talk, Untalk, InterfaceClear
  <2> QED BY <2>1, EnterOK, ModesAre, FramesMade
<1>2. CASE Unconfigure(d, f)
  <2> DEFINE r == WithAddress(dev[d], DefAddr[d], FALSE)
  <2>0. dev[d] \in DevRecord /\ dev[d].state \in Modes /\ DefAddr[d] \in 0 .. 30
    BY LoopAssumption DEF EngineOK, EngineStates, Modes
  <2>1. /\ r \in DevRecord
        /\ r.state = dev[d].state /\ r.ptsdi = dev[d].ptsdi
    BY <2>0, AddressSet
  <2>2. {"sda", "sdi"} \subseteq r.state => r.ptsdi \in 2 .. Len(DeviceId[d])
    BY <2>1 DEF EngineOK, SdiInBounds
  <2>3. dev' = [dev EXCEPT ![d] = r] /\ frame' \in Frame
    BY <1>2 DEF Unconfigure, WithAddress
  <2> HIDE DEF r
  <2> QED BY <2>0, <2>1, <2>2, <2>3, UpdateOK
<1> QED BY <1>1, <1>2

\* Ready frames keep EngineOK.
LEMMA RdyOK ==
  ASSUME EngineOK, NEW d \in Device, NEW f \in Frame,
         \/ NotReady(d, f) \/ Identify(d, f) \/ SendAid(d, f) \/ TakeAddress(d, f)
         \/ \E b \in Byte \cup {NoByte} : SendFirst(d, f, b)
         \/ \E b \in Byte : Status(d, f, b)
  PROVE  EngineOK'
<1>0. dev[d] \in DevRecord /\ dev[d].state \in Modes
  BY DEF EngineOK, EngineStates, Modes
<1>1. CASE NotReady(d, f)
  <2> DEFINE r == WithMode(dev[d], 0, dev[d].state \ {"sda"})
  <2>1. /\ dev[d].state \ {"sda"} \in Modes
        /\ ~({"sda", "sdi"} \subseteq dev[d].state \ {"sda"})
    BY <1>0, ModesClosed
  <2>2. r \in DevRecord /\ r.state = dev[d].state \ {"sda"}
    BY <1>0, <2>1, ModesAreFlags, ModeSet
  <2>3. dev' = [dev EXCEPT ![d] = r]
    BY <1>1 DEF NotReady, WithMode
  <2>4. frame' \in Frame
    BY <1>1 DEF NotReady
  <2> HIDE DEF r
  <2> QED BY <2>1, <2>2, <2>3, <2>4, UpdateOK
<1>2. CASE Identify(d, f)
  <2> DEFINE r == WithMode(dev[d], 2, Identifying)
  <2>1. r \in DevRecord /\ r.state = Identifying /\ r.ptsdi = 2
    BY <1>0, ModesAre, ModesAreFlags, ModeSet
  <2>2. 2 \in 2 .. Len(DeviceId[d]) /\ DeviceId[d][1] \in Byte
    BY IdString
  <2>3. dev' = [dev EXCEPT ![d] = r] /\ frame' \in Frame
    BY <1>2, <2>2, FramesMade DEF Identify, WithMode
  <2> HIDE DEF r
  <2> QED BY <2>1, <2>2, <2>3, UpdateOK, ModesAre
<1>3. CASE SendAid(d, f)
  <2>1. Enter(d, LastByteOut, Dab(Aid[d])) /\ Dab(Aid[d]) \in Frame
    BY <1>3, LoopAssumption, FramesMade DEF SendAid
  <2> QED BY <2>1, EnterOK, ModesAre, FramesMade
<1>4. CASE TakeAddress(d, f)
  <2> DEFINE r == WithAddress(dev[d], f.n, TRUE)
  <2>1. f.n \in 0 .. 30 /\ f.n + 1 \in Byte
    BY <1>4 DEF TakeAddress, Frame, Byte
  <2>2. /\ r \in DevRecord
        /\ r.state = dev[d].state /\ r.ptsdi = dev[d].ptsdi
    BY <1>0, <2>1, AddressSet
  <2>3. {"sda", "sdi"} \subseteq r.state => r.ptsdi \in 2 .. Len(DeviceId[d])
    BY <2>2 DEF EngineOK, SdiInBounds
  <2>4. dev' = [dev EXCEPT ![d] = r] /\ frame' \in Frame
    BY <1>4, <2>1, FramesMade DEF TakeAddress, WithAddress
  <2> HIDE DEF r
  <2> QED BY <1>0, <2>2, <2>3, <2>4, UpdateOK
<1>5. ASSUME NEW b \in Byte \cup {NoByte}, SendFirst(d, f, b)
      PROVE  EngineOK'
  <2>1. CASE b # NoByte
    <3>1. Enter(d, Sending, Dab(b))
      BY <1>5, <2>1 DEF SendFirst
    <3> QED BY <2>1, <3>1, EnterOK, ModesAre, FramesMade
  <2>2. CASE b = NoByte
    <3>1. Enter(d, Talker, Eto)
      BY <1>5, <2>2 DEF SendFirst
    <3> QED BY <3>1, EnterOK, ModesAre, FramesMade
  <2> QED BY <2>1, <2>2
<1>6. ASSUME NEW b \in Byte, Status(d, f, b)
      PROVE  EngineOK'
  <2>1. \E s \in {StatusPending, LastByteOut} : Enter(d, s, Dab(b))
    BY <1>6 DEF Status
  <2> QED BY <2>1, EnterOK, ModesAre, FramesMade
<1> QED BY <1>1, <1>2, <1>3, <1>4, <1>5, <1>6

\* A device's turn keeps EngineOK, whichever branch it takes.
LEMMA TurnOK ==
  ASSUME EngineOK, NEW d \in Device, Turn(d, frame)
  PROVE  EngineOK'
<1>0. frame \in Frame
  BY DEF EngineOK
<1>1. CASE Quiet(d, frame)
  <2>1. CASE Ignore(d, frame)
    BY <1>0, <2>1, PassOK DEF Ignore, Pass
  <2> QED BY <1>0, <1>1, <2>1, DoeOK, CmdOK, RdyOK DEF Quiet
<1>2. CASE Hear(d, frame) \/ Clear(d, frame) \/ Command(d, frame)
  BY <1>0, <1>2, PassOK DEF Hear, Clear, Command, Pass
<1>3. CASE \E b \in Payload \cup {NoByte} : Send(d, frame, b)
  BY <1>0, <1>3, DoeOK, RdyOK, InputsAssumption DEF Send
<1>4. CASE \E s \in Payload : Status(d, frame, s) \/ Status2(d, frame, s)
  BY <1>0, <1>4, DoeOK, RdyOK, InputsAssumption
<1>5. CASE \E q \in BOOLEAN : Poll(d, frame, q)
  BY <1>0, <1>5, PassOK, FramesMade DEF Poll, Pass
<1> QED BY <1>1, <1>2, <1>3, <1>4, <1>5 DEF Turn

Types == EngineOK /\ inFrame \in Frame /\ at \in 1 .. N + 1

\* A loop just switched on.
LEMMA PowerOnOK == Init => Types
<1> SUFFICES ASSUME Init PROVE Types
  OBVIOUS
<1> USE DEF Init
<1>1. \A d \in Device : PowerOn(d) \in DevRecord /\ PowerOn(d).state = Idle
  BY LoopAssumption, ModesAre, ModesAreFlags DEF PowerOn, DevRecord
<1>2. dev \in [Device -> DevRecord] /\ \A d \in Device : dev[d].state = Idle
  BY <1>1
<1>3. EngineStates /\ SdiInBounds
  BY <1>2, ModesAre, ModesAreFlags DEF EngineStates, SdiInBounds, Modes
<1>4. frame \in Frame /\ inFrame \in Frame
  BY FramesMade
<1>5. at \in 1 .. N + 1
  BY LoopAssumption
<1> QED BY <1>2, <1>3, <1>4, <1>5 DEF Types, EngineOK

\* Whatever frame the controller sends.
LEMMA InjectOK ==
  ASSUME Types, NEW f \in Frame, Inject(f)
  PROVE  Types'
<1>1. EngineOK'
  BY PassOK DEF Inject, Types
<1>2. 1 \in 1 .. N + 1
  BY LoopAssumption
<1> QED BY <1>1, <1>2 DEF Inject, Types

LEMMA HopOK ==
  ASSUME Types, Hop
  PROVE  Types'
<1>1. EngineOK'
  BY TurnOK DEF Hop, Types
<1>2. at' \in 1 .. N + 1
  BY LoopAssumption DEF Hop, Device
<1> QED BY <1>1, <1>2 DEF Types, Hop

LEMMA RestartOK == Restart => Types'
<1>1. Restart => Init'
  BY DEF Restart, Init
<1>2. Init' => Types'
  BY PowerOnOK, PTL
<1> QED BY <1>1, <1>2

LEMMA TypesInductive == Types /\ [Next]_vars => Types'
<1> SUFFICES ASSUME Types, [Next]_vars
             PROVE  Types'
  OBVIOUS
<1>1. CASE Hop
  BY <1>1, HopOK
<1>2. CASE Restart
  BY <1>2, RestartOK
<1>3. CASE \E f \in Inputs : Inject(f)
  BY <1>3, InjectOK, InputsAssumption
<1>4. CASE UNCHANGED vars
  BY <1>4 DEF vars, Types, EngineOK, EngineStates, SdiInBounds
<1> QED BY <1>1, <1>2, <1>3, <1>4 DEF Next

THEOREM TypesHold == Spec => []Types
BY PowerOnOK, TypesInductive, PTL DEF Spec

\* Every variable of the loop keeps its type.
THEOREM LoopTypeOK == Spec => []TypeOK
<1>1. Types => TypeOK
  BY DEF Types, EngineOK, TypeOK
<1> QED BY <1>1, TypesHold, PTL

\* The state bits of a device form one of eight modes, and an identification
\* never reads beyond its string, whatever frames arrive in whatever order.
THEOREM EngineSafe == Spec => [](EngineStates /\ SdiInBounds)
<1>1. Types => EngineStates /\ SdiInBounds
  BY DEF Types, EngineOK
<1> QED BY <1>1, TypesHold, PTL

-----------------------------------------------------------------------------
(***************************************************************************)
(* Addresses and talkers: why no two devices share an address between      *)
(* frames, and why one of them at most is talker.  Both fail while a frame *)
(* is on its way round, so the invariant says what a lap has done so far.  *)
(***************************************************************************)
\* Commands travel unchanged, and an AAD frame stays one.
FrameKept ==
  /\ frame.k \in CmdKinds \/ inFrame.k \in CmdKinds => frame = inFrame
  /\ frame.k = "AAD" <=> inFrame.k = "AAD"

\* A device without an AAD address has its default address.
DefaultOrTaken == \A d \in Device : ~dev[d].aad => dev[d].adr = DefAddr[d]

\* The addresses between frames: unique, with the AAD addresses consecutive
\* from the first device on.
Prefix == \E k \in 0 .. N : \A d \in Device : dev[d].aad <=> d <= k
Consecutive ==
  \A d, e \in Device : dev[d].aad /\ dev[e].aad => dev[d].adr - dev[e].adr = d - e
Configured == Unique /\ Prefix /\ Consecutive

\* While AAU goes round, the devices behind it have their default addresses.
UnconfigureLap ==
  inFrame.k = "AAU" =>
    \A d \in Device : d < at => ~dev[d].aad /\ dev[d].adr = DefAddr[d]

\* While AAD m goes round a loop without AAD addresses, the devices behind it
\* have taken m, m + 1, ... as far as 29, and the others their default.
Offered(m) == IF m + at - 1 <= 30 THEN m + at - 1 ELSE IF m <= 30 THEN 30 ELSE m
Addressing(m) ==
  /\ frame.n = Offered(m)
  /\ \A d \in Device :
       /\ d < at /\ m + d <= 30 => dev[d].aad /\ dev[d].adr = m + d - 1
       /\ ~(d < at /\ m + d <= 30) => ~dev[d].aad
AddressLap ==
  inFrame.k = "AAD" =>
    \/ (\A d \in Device : dev[d].aad) /\ Configured /\ frame = inFrame
    \/ Addressing(inFrame.n)

AddressStable == inFrame.k \notin {"AAD", "AAU"} => Configured

\* While TAD goes round, the talkers behind it have the address it names.
TalkLap ==
  inFrame.k = "TAD" =>
    /\ \A d \in Device : d < at /\ IsTalker(d) => dev[d].adr = inFrame.n
    /\ OneTalker({d \in Device : d >= at})

TalkerStable == inFrame.k # "TAD" => OneTalker(Device)

AddressInv ==
  /\ FrameKept /\ DefaultOrTaken
  /\ UnconfigureLap /\ AddressLap /\ AddressStable
  /\ TalkLap /\ TalkerStable

-----------------------------------------------------------------------------
(***************************************************************************)
(* What one turn does to addresses and talkers.                            *)
(***************************************************************************)
Reset(d) ==
  /\ frame.k = "AAU" /\ frame' = frame
  /\ ~dev'[d].aad /\ dev'[d].adr = DefAddr[d]
  /\ dev'[d].state = dev[d].state

Takes(d) ==
  /\ frame.k = "AAD" /\ frame.n < 30 /\ ~dev[d].aad
  /\ frame' = F("AAD", frame.n + 1)
  /\ dev'[d].aad /\ dev'[d].adr = frame.n
  /\ dev'[d].state = dev[d].state

Keeps(d) ==
  /\ frame.k # "AAU"
  /\ frame.k = "AAD" => frame' = frame /\ (frame.n >= 30 \/ dev[d].aad)
  /\ frame.k \in CmdKinds => frame' = frame
  /\ frame.k \notin CmdKinds \cup {"AAD"} => frame'.k \notin CmdKinds \cup {"AAD"}
  /\ dev'[d].adr = dev[d].adr /\ dev'[d].aad = dev[d].aad
  /\ "talker" \in dev'[d].state => IsTalker(d) \/ frame.k = "TAD"
  /\ frame.k = "TAD" /\ "talker" \in dev'[d].state => dev[d].adr = frame.n

Effect(d) ==
  /\ \A e \in Device \ {d} : dev'[e] = dev[e]
  /\ Reset(d) \/ Takes(d) \/ Keeps(d)

\* The kinds are distinct, so that a branch is known by the kind it tests.
LEMMA KindsOf ==
  /\ \A b : Dab(b).k = "DAB"
  /\ Eto.k = "ETO"
  /\ F("IDY", 1).k = "IDY"
  /\ (DoeKinds \cup RdyKinds \cup {"IDY"}) \cap CmdKinds = {}
  /\ "AAD" \notin DoeKinds
BY DEF Dab, Eto, F, DoeKinds, RdyKinds, CmdKinds

\* A new mode changes nothing else of the device.
LEMMA EnterEffect ==
  ASSUME Types, NEW d \in Device, NEW s, NEW g, Enter(d, s, g)
  PROVE  /\ \A e \in Device \ {d} : dev'[e] = dev[e]
         /\ dev'[d].state = s /\ dev'[d].adr = dev[d].adr /\ dev'[d].aad = dev[d].aad
         /\ frame' = g
BY DEF Types, EngineOK, DevRecord, Enter

\* A frame passed on without a change of the device.
LEMMA PassEffect ==
  ASSUME NEW d \in Device, NEW g, Pass(g), frame.k \notin {"AAU", "TAD"},
         frame.k = "AAD" => g = frame /\ (frame.n >= 30 \/ dev[d].aad),
         frame.k \in CmdKinds => g = frame,
         frame.k \notin CmdKinds \cup {"AAD"} => g.k \notin CmdKinds \cup {"AAD"}
  PROVE  Effect(d)
BY DEF Pass, Effect, Keeps, IsTalker, Is

LEMMA DoeEffect ==
  ASSUME Types, NEW d \in Device,
         \/ NextIdByte(d, frame) \/ EndOfId(d, frame) \/ SendDone(d, frame)
         \/ \E b : SendNext(d, frame, b)
         \/ \E b : Status2(d, frame, b)
  PROVE  Effect(d)
<1>0. frame.k \in DoeKinds /\ IsTalker(d) /\ frame.k \notin CmdKinds \cup {"AAD"}
  BY KindsOf DEF NextIdByte, EndOfId, SendDone, SendNext, Status2, IsSource, DoeKinds, CmdKinds
<1>a. frame.k # "AAU" /\ frame.k # "TAD"
  BY <1>0 DEF CmdKinds
<1>1. CASE NextIdByte(d, frame)
  <2>1. /\ \A e \in Device \ {d} : dev'[e] = dev[e]
        /\ dev'[d].state = dev[d].state /\ dev'[d].adr = dev[d].adr /\ dev'[d].aad = dev[d].aad
    BY <1>1 DEF NextIdByte, Types, EngineOK, DevRecord
  <2>2. frame'.k = "DAB"
    BY <1>1, KindsOf DEF NextIdByte
  <2> QED BY <1>0, <1>a, <2>1, <2>2, KindsOf DEF Effect, Keeps, DoeKinds
<1>2. CASE EndOfId(d, frame)
  <2>1. /\ \A e \in Device \ {d} : dev'[e] = dev[e]
        /\ dev'[d].adr = dev[d].adr /\ dev'[d].aad = dev[d].aad
    BY <1>2 DEF EndOfId, Types, EngineOK, DevRecord
  <2>2. frame'.k = "ETO"
    BY <1>2, KindsOf DEF EndOfId
  <2> QED BY <1>0, <1>a, <2>1, <2>2, KindsOf DEF Effect, Keeps, RdyKinds
<1>3. ASSUME NEW s, NEW g, Enter(d, s, g), g.k \in {"DAB", "ETO"}
      PROVE  Effect(d)
  <2>1. g.k \notin CmdKinds \cup {"AAD"}
    BY <1>3, KindsOf DEF DoeKinds, RdyKinds
  <2> QED BY <1>0, <1>a, <1>3, <2>1, EnterEffect DEF Effect, Keeps
<1>4. CASE SendDone(d, frame)
  <2>1. Enter(d, Talker, Eto) /\ Eto.k \in {"DAB", "ETO"}
    BY <1>4, KindsOf DEF SendDone
  <2> QED BY <2>1, <1>3
<1>5. ASSUME NEW b, SendNext(d, frame, b)
      PROVE  Effect(d)
  <2>1. CASE b # NoByte
    <3>1. Pass(Dab(b)) /\ Dab(b).k \notin CmdKinds \cup {"AAD"}
      BY <1>5, <2>1, KindsOf DEF SendNext, DoeKinds
    <3> QED BY <1>0, <1>a, <3>1, PassEffect
  <2>2. CASE b = NoByte
    <3>1. Enter(d, Talker, Eto) /\ Eto.k \in {"DAB", "ETO"}
      BY <1>5, <2>2, KindsOf DEF SendNext
    <3> QED BY <3>1, <1>3
  <2> QED BY <2>1, <2>2
<1>6. ASSUME NEW b, Status2(d, frame, b)
      PROVE  Effect(d)
  <2>1. Enter(d, dev[d].state \ {"sst"}, Dab(b)) /\ Dab(b).k \in {"DAB", "ETO"}
    BY <1>6, KindsOf DEF Status2
  <2> QED BY <2>1, <1>3
<1> QED BY <1>1, <1>2, <1>4, <1>5, <1>6

LEMMA CmdEffect ==
  ASSUME Types, NEW d \in Device,
         \/ Listen(d, frame) \/ Unlisten(d, frame) \/ Talk(d, frame)
         \/ Untalk(d, frame) \/ InterfaceClear(d, frame) \/ Unconfigure(d, frame)
  PROVE  Effect(d)
<1>1. CASE Unconfigure(d, frame)
  <2>1. /\ \A e \in Device \ {d} : dev'[e] = dev[e]
        /\ dev'[d].state = dev[d].state /\ dev'[d].adr = DefAddr[d] /\ dev'[d].aad = FALSE
    BY <1>1 DEF Unconfigure, Types, EngineOK, DevRecord
  <2> QED BY <1>1, <2>1 DEF Effect, Reset, Unconfigure
<1>2. CASE ~Unconfigure(d, frame)
  <2>1. PICK s \in {Idle, Listener, Talker} :
          /\ Enter(d, s, frame)
          /\ frame.k \in {"LAD", "TAD", "IFC"}
          /\ s = Talker => frame.k = "TAD" /\ frame.n = dev[d].adr
    BY <1>2 DEF Listen, Unlisten, Talk, Untalk, InterfaceClear, Idle, Listener, Talker
  <2>2. "talker" \in s => s = Talker
    BY DEF Idle, Listener, Talker
  <2>3. /\ \A e \in Device \ {d} : dev'[e] = dev[e]
        /\ dev'[d].state = s /\ dev'[d].adr = dev[d].adr /\ dev'[d].aad = dev[d].aad
        /\ frame' = frame
    BY <2>1, EnterEffect
  <2> QED BY <2>1, <2>2, <2>3 DEF Effect, Keeps, CmdKinds
<1> QED BY <1>1, <1>2

LEMMA RdyEffect ==
  ASSUME Types, NEW d \in Device,
         \/ NotReady(d, frame) \/ Identify(d, frame) \/ SendAid(d, frame)
         \/ TakeAddress(d, frame)
         \/ \E b : SendFirst(d, frame, b)
         \/ \E b : Status(d, frame, b)
  PROVE  Effect(d)
<1>1. CASE TakeAddress(d, frame)
  <2>1. /\ \A e \in Device \ {d} : dev'[e] = dev[e]
        /\ dev'[d].state = dev[d].state /\ dev'[d].adr = frame.n /\ dev'[d].aad = TRUE
    BY <1>1 DEF TakeAddress, Types, EngineOK, DevRecord
  <2> QED BY <1>1, <2>1 DEF Effect, Takes, TakeAddress
<1>2. CASE NotReady(d, frame)
  <2>1. /\ \A e \in Device \ {d} : dev'[e] = dev[e]
        /\ dev'[d].adr = dev[d].adr /\ dev'[d].aad = dev[d].aad
    BY <1>2 DEF NotReady, Types, EngineOK, DevRecord
  <2> QED BY <1>2, <2>1, KindsOf DEF Effect, Keeps, NotReady, RdyKinds
<1>3. CASE Identify(d, frame)
  <2>1. /\ \A e \in Device \ {d} : dev'[e] = dev[e]
        /\ dev'[d].adr = dev[d].adr /\ dev'[d].aad = dev[d].aad
    BY <1>3 DEF Identify, Types, EngineOK, DevRecord
  <2>2. frame'.k = "DAB"
    BY <1>3, KindsOf DEF Identify
  <2> QED BY <1>3, <2>1, <2>2, KindsOf DEF Effect, Keeps, Identify, RdyKinds, DoeKinds
<1>4. ASSUME NEW s, NEW g, Enter(d, s, g), g.k \in {"DAB", "ETO"},
             frame.k \in {"SDA", "SST", "SAI"}, IsTalker(d)
      PROVE  Effect(d)
  <2>1. g.k \notin CmdKinds \cup {"AAD"} /\ frame.k \notin CmdKinds \cup {"AAD"}
    BY <1>4, KindsOf DEF DoeKinds, RdyKinds
  <2> QED BY <1>4, <2>1, EnterEffect DEF Effect, Keeps
<1>5. CASE SendAid(d, frame)
  <2>1. Enter(d, LastByteOut, Dab(Aid[d])) /\ Dab(Aid[d]).k \in {"DAB", "ETO"}
    BY <1>5, KindsOf DEF SendAid
  <2> QED BY <1>4, <1>5, <2>1 DEF SendAid
<1>6. ASSUME NEW b, SendFirst(d, frame, b)
      PROVE  Effect(d)
  <2>1. \E s, g : Enter(d, s, g) /\ g.k \in {"DAB", "ETO"}
    BY <1>6, KindsOf DEF SendFirst
  <2> QED BY <1>4, <1>6, <2>1 DEF SendFirst
<1>7. ASSUME NEW b, Status(d, frame, b)
      PROVE  Effect(d)
  <2>1. \E s, g : Enter(d, s, g) /\ g.k \in {"DAB", "ETO"}
    BY <1>7, KindsOf DEF Status
  <2> QED BY <1>4, <1>7, <2>1 DEF Status
<1> QED BY <1>1, <1>2, <1>3, <1>5, <1>6, <1>7

LEMMA TurnEffect ==
  ASSUME Types, NEW d \in Device, Turn(d, frame)
  PROVE  Effect(d)
<1>1. CASE Quiet(d, frame)
  <2>1. CASE Ignore(d, frame)
    <3>1. Pass(frame)
      BY <2>1 DEF Ignore
    <3>2. frame.k # "AAU"
      BY <2>1 DEF Ignore, DoeKinds
    <3>3. frame.k = "TAD" => ~IsTalker(d)
      BY <2>1 DEF Ignore, DoeKinds
    <3>4. frame.k = "AAD" => frame.n >= 30 \/ dev[d].aad
      BY <2>1 DEF Ignore, DoeKinds
    <3> QED BY <3>1, <3>2, <3>3, <3>4 DEF Effect, Keeps, Pass, IsTalker, Is
  <2> QED BY <1>1, <2>1, DoeEffect, CmdEffect, RdyEffect DEF Quiet
<1>2. CASE Hear(d, frame) \/ Clear(d, frame) \/ Command(d, frame)
  <2>1. Pass(frame) /\ frame.k \notin {"AAU", "TAD", "AAD"}
    BY <1>2 DEF Hear, Clear, Command, DoeKinds
  <2> QED BY <2>1, PassEffect
<1>3. CASE \E b \in Payload \cup {NoByte} : Send(d, frame, b)
  BY <1>3, DoeEffect, RdyEffect DEF Send
<1>4. CASE \E s \in Payload : Status(d, frame, s) \/ Status2(d, frame, s)
  BY <1>4, DoeEffect, RdyEffect
<1>5. CASE \E q \in BOOLEAN : Poll(d, frame, q)
  <2>1. PICK g \in {frame, F("IDY", 1)} : Pass(g)
    BY <1>5 DEF Poll
  <2>2. frame.k = "IDY" /\ frame.k \notin CmdKinds /\ g.k = "IDY"
    BY <1>5, KindsOf DEF Poll
  <2> QED BY <2>1, <2>2, PassEffect
<1> QED BY <1>1, <1>2, <1>3, <1>4, <1>5 DEF Turn

-----------------------------------------------------------------------------
(***************************************************************************)
(* Between frames.                                                         *)
(***************************************************************************)

\* Default addresses only.
LEMMA DefaultsConfigured ==
  ASSUME \A d \in Device : ~dev[d].aad /\ dev[d].adr = DefAddr[d]
  PROVE  Configured
<1>1. Unique
  BY LoopAssumption DEF Unique
<1>2. Prefix
  <2>1. 0 \in 0 .. N /\ \A d \in Device : dev[d].aad <=> d <= 0
    BY LoopAssumption DEF Device
  <2> QED BY <2>1 DEF Prefix
<1> QED BY <1>1, <1>2 DEF Configured, Consecutive

\* The end of an AAD lap: the addresses taken are m, m + 1, ... and stop
\* before 30; a device left with its default address is so far down the loop
\* that its default is below all of them.
LEMMA AddressingConfigured ==
  ASSUME Types, DefaultOrTaken, at = N + 1, inFrame.k = "AAD", Addressing(inFrame.n)
  PROVE  Configured
<1> DEFINE m == inFrame.n
<1>0. m \in Nat /\ N \in Nat /\ \A d \in Device : d \in Nat /\ 1 <= d /\ d <= N
  <2>1. m \in Nat
    BY DEF Types, Frame, Byte
  <2> QED BY <2>1, LoopAssumption DEF Device
<1>1. \A d \in Device : dev[d].aad <=> m + d <= 30
  BY <1>0 DEF Addressing
<1>2. \A d \in Device : m + d <= 30 => dev[d].adr = m + d - 1
  BY <1>0 DEF Addressing
<1>3. \A d \in Device : m + d > 30 => dev[d].adr = DefAddr[d] /\ DefAddr[d] + N <= 30
  BY <1>0, <1>1, AddressRoom DEF DefaultOrTaken
<1>4. \A d \in Device : DefAddr[d] \in Nat
  BY LoopAssumption
<1> HIDE DEF m
<1>5. Unique
  <2> SUFFICES ASSUME NEW d \in Device, NEW e \in Device, dev[d].adr = dev[e].adr
               PROVE  d = e
    BY DEF Unique
  <2>1. CASE m + d <= 30 /\ m + e <= 30
    BY <1>0, <1>2, <2>1
  <2>2. CASE m + d > 30 /\ m + e > 30
    BY <1>3, <2>2, LoopAssumption
  <2>3. CASE m + d <= 30 /\ m + e > 30
    BY <1>0, <1>2, <1>3, <1>4, <2>3
  <2>4. CASE m + d > 30 /\ m + e <= 30
    BY <1>0, <1>2, <1>3, <1>4, <2>4
  <2> QED BY <1>0, <2>1, <2>2, <2>3, <2>4
<1>6. Prefix
  <2>1. CASE m >= 30
    <3>1. 0 \in 0 .. N /\ \A d \in Device : dev[d].aad <=> d <= 0
      BY <1>0, <1>1, <2>1
    <3> QED BY <3>1 DEF Prefix
  <2>2. CASE m < 30 /\ 30 - m <= N
    <3>1. 30 - m \in 0 .. N /\ \A d \in Device : dev[d].aad <=> d <= 30 - m
      BY <1>0, <1>1, <2>2
    <3> QED BY <3>1 DEF Prefix
  <2>3. CASE m < 30 /\ 30 - m > N
    <3>1. N \in 0 .. N /\ \A d \in Device : dev[d].aad <=> d <= N
      BY <1>0, <1>1, <2>3
    <3> QED BY <3>1 DEF Prefix
  <2> QED BY <1>0, <2>1, <2>2, <2>3
<1>7. Consecutive
  BY <1>0, <1>1, <1>2 DEF Consecutive
<1> QED BY <1>5, <1>6, <1>7 DEF Configured

\* Whatever lap has just ended, the loop is configured and has one talker.
LEMMA BetweenFrames ==
  ASSUME Types, AddressInv, Out
  PROVE  Configured /\ OneTalker(Device)
<1>0. \A d \in Device : d < at
  BY LoopAssumption DEF Out, Device
<1>1. Configured
  <2>1. CASE inFrame.k = "AAU"
    <3>1. \A d \in Device : ~dev[d].aad /\ dev[d].adr = DefAddr[d]
      BY <1>0, <2>1 DEF AddressInv, UnconfigureLap
    <3> QED BY <3>1, DefaultsConfigured
  <2>2. CASE inFrame.k = "AAD"
    BY <2>2, AddressingConfigured DEF AddressInv, AddressLap, Out
  <2>3. CASE inFrame.k \notin {"AAU", "AAD"}
    BY <2>3 DEF AddressInv, AddressStable
  <2> QED BY <2>1, <2>2, <2>3
<1>2. OneTalker(Device)
  <2>1. CASE inFrame.k = "TAD"
    BY <1>0, <1>1, <2>1 DEF AddressInv, TalkLap, OneTalker, Configured, Unique
  <2>2. CASE inFrame.k # "TAD"
    BY <2>2 DEF AddressInv, TalkerStable
  <2> QED BY <2>1, <2>2
<1> QED BY <1>1, <1>2

-----------------------------------------------------------------------------
(***************************************************************************)
(* Induction.                                                              *)
(***************************************************************************)

\* Nothing happens to a configuration whose addresses stay.
LEMMA ConfiguredKept ==
  ASSUME Configured,
         \A d \in Device : dev'[d].adr = dev[d].adr /\ dev'[d].aad = dev[d].aad
  PROVE  Configured'
BY DEF Configured, Unique, Prefix, Consecutive

LEMMA HopKeepsAddresses ==
  ASSUME Types, AddressInv, Hop
  PROVE  AddressInv'
<1>0. /\ at \in Device /\ Effect(at) /\ at' = at + 1 /\ inFrame' = inFrame
      /\ at \in Nat /\ at >= 1 /\ Device \subseteq Nat
  BY TurnEffect, LoopAssumption DEF Hop, Device
<1>1. \A e \in Device \ {at} : dev'[e] = dev[e]
  BY <1>0 DEF Effect
<1>2. Reset(at) \/ Takes(at) \/ Keeps(at)
  BY <1>0 DEF Effect
<1>3. \A d \in Device : d < at' <=> d < at \/ d = at
  BY <1>0
<1>4. FrameKept
  BY DEF AddressInv
<1>5. Keeps(at) => \A d \in Device : dev'[d].adr = dev[d].adr /\ dev'[d].aad = dev[d].aad
  BY <1>1 DEF Keeps
<1>6. FrameKept'
  <2>1. CASE Reset(at)
    BY <1>0, <1>4, <2>1 DEF Reset, FrameKept
  <2>2. CASE Takes(at)
    <3>1. frame'.k = "AAD" /\ frame.k = "AAD" /\ "AAD" \notin CmdKinds
      BY <2>2 DEF Takes, F, CmdKinds
    <3> QED BY <1>0, <1>4, <3>1 DEF FrameKept
  <2>3. CASE Keeps(at)
    <3>1. CASE frame.k \in CmdKinds \cup {"AAD"}
      BY <1>0, <1>4, <2>3, <3>1 DEF Keeps, FrameKept
    <3>2. CASE frame.k \notin CmdKinds \cup {"AAD"}
      BY <1>0, <1>4, <2>3, <3>2 DEF Keeps, FrameKept
    <3> QED BY <3>1, <3>2
  <2> QED BY <1>2, <2>1, <2>2, <2>3
<1>7. DefaultOrTaken'
  BY <1>1, <1>2 DEF AddressInv, DefaultOrTaken, Reset, Takes, Keeps
<1>8. UnconfigureLap'
  <2> SUFFICES ASSUME inFrame.k = "AAU"
               PROVE  \A d \in Device : d < at' => ~dev'[d].aad /\ dev'[d].adr = DefAddr[d]
    BY <1>0 DEF UnconfigureLap
  <2>1. frame.k = "AAU"
    BY <1>4 DEF FrameKept, CmdKinds
  <2>2. Reset(at)
    BY <1>2, <2>1 DEF Takes, Keeps
  <2> QED BY <1>1, <1>3, <2>2 DEF Reset, AddressInv, UnconfigureLap
<1>9. AddressLap'
  <2> SUFFICES ASSUME inFrame.k = "AAD"
               PROVE  \/ (\A d \in Device : dev'[d].aad) /\ Configured' /\ frame' = inFrame
                      \/ Addressing(inFrame.n)'
    BY <1>0 DEF AddressLap, Addressing, Offered
  <2>0. frame.k = "AAD" /\ ~Reset(at)
    BY <1>4 DEF FrameKept, Reset
  <2>1. CASE (\A d \in Device : dev[d].aad) /\ Configured /\ frame = inFrame
    <3>1. Keeps(at) /\ frame' = frame
      BY <1>0, <1>2, <2>0, <2>1 DEF Takes, Keeps
    <3> QED BY <1>5, <2>1, <3>1, ConfiguredKept
  <2>2. CASE Addressing(inFrame.n)
    <3> DEFINE m == inFrame.n
    <3>0. m \in Nat /\ frame.n = Offered(m)
      BY <2>2 DEF Types, Frame, Byte, Addressing
    <3>1. ~dev[at].aad
      BY <1>0, <2>2 DEF Addressing
    <3>2. Addressing(m)'
      <4>1. CASE Takes(at)
        <5>1. m + at <= 30 /\ frame.n = m + at - 1
          BY <1>0, <3>0, <4>1 DEF Takes, Offered
        <5>2. frame'.n = m + at
          BY <1>0, <3>0, <4>1, <5>1 DEF Takes, F
        <5>3. frame'.n = IF m + at' - 1 <= 30 THEN m + at' - 1 ELSE IF m <= 30 THEN 30 ELSE m
          BY <1>0, <3>0, <5>1, <5>2
        <5>4. \A d \in Device :
                /\ d < at' /\ m + d <= 30 => dev'[d].aad /\ dev'[d].adr = m + d - 1
                /\ ~(d < at' /\ m + d <= 30) => ~dev'[d].aad
          BY <1>0, <1>1, <1>3, <2>2, <4>1, <5>1 DEF Takes, Addressing
        <5> QED BY <1>0, <5>3, <5>4 DEF Addressing, Offered
      <4>2. CASE Keeps(at)
        <5>1. frame' = frame /\ frame.n >= 30
          BY <2>0, <3>1, <4>2 DEF Keeps
        <5>2. m + at > 30
          BY <1>0, <3>0, <5>1 DEF Offered
        <5>3. frame'.n = IF m + at' - 1 <= 30 THEN m + at' - 1 ELSE IF m <= 30 THEN 30 ELSE m
          BY <1>0, <3>0, <5>1, <5>2 DEF Offered
        <5>4. \A d \in Device :
                /\ d < at' /\ m + d <= 30 => dev'[d].aad /\ dev'[d].adr = m + d - 1
                /\ ~(d < at' /\ m + d <= 30) => ~dev'[d].aad
          <6>1. \A d \in Device : d < at' /\ m + d <= 30 <=> d < at /\ m + d <= 30
            BY <1>0, <1>3, <3>0, <5>2
          <6> QED BY <1>5, <2>2, <4>2, <6>1 DEF Addressing
        <5> QED BY <1>0, <5>3, <5>4 DEF Addressing, Offered
      <4> QED BY <1>2, <2>0, <4>1, <4>2
    <3> QED BY <3>2
  <2> QED BY <2>1, <2>2 DEF AddressInv, AddressLap
<1>10. AddressStable'
  <2> SUFFICES ASSUME inFrame.k \notin {"AAD", "AAU"}
               PROVE  Configured'
    BY <1>0 DEF AddressStable
  <2>1. frame.k \notin {"AAD", "AAU"}
    BY <1>4 DEF FrameKept, CmdKinds
  <2>2. Keeps(at)
    BY <1>2, <2>1 DEF Reset, Takes
  <2> QED BY <1>5, <2>2, ConfiguredKept DEF AddressInv, AddressStable
<1>11. TalkLap'
  <2> SUFFICES ASSUME inFrame.k = "TAD"
               PROVE  /\ \A d \in Device : d < at' /\ "talker" \in dev'[d].state
                                           => dev'[d].adr = inFrame.n
                      /\ \A d, e \in {x \in Device : x >= at'} :
                           "talker" \in dev'[d].state /\ "talker" \in dev'[e].state => d = e
    BY <1>0 DEF TalkLap, OneTalker, IsTalker, Is
  <2>1. frame.k = "TAD" /\ frame.n = inFrame.n
    BY <1>4 DEF FrameKept, CmdKinds
  <2>2. Keeps(at)
    BY <1>2, <2>1 DEF Reset, Takes
  <2>3. \A d \in Device : d < at' /\ "talker" \in dev'[d].state => dev'[d].adr = inFrame.n
    BY <1>0, <1>1, <1>3, <2>1, <2>2 DEF Keeps, AddressInv, TalkLap, IsTalker, Is
  <2>4. \A d \in Device : d >= at' => d >= at /\ d # at
    BY <1>0
  <2> QED BY <1>0, <1>1, <2>3, <2>4 DEF AddressInv, TalkLap, OneTalker, IsTalker, Is
<1>12. TalkerStable'
  <2> SUFFICES ASSUME inFrame.k # "TAD"
               PROVE  OneTalker(Device)'
    BY <1>0 DEF TalkerStable
  <2>1. frame.k # "TAD"
    BY <1>4 DEF FrameKept, CmdKinds
  <2>2. \A d \in Device : "talker" \in dev'[d].state => "talker" \in dev[d].state
    BY <1>1, <1>2, <2>1 DEF Reset, Takes, Keeps, IsTalker, Is
  <2> QED BY <2>2 DEF AddressInv, TalkerStable, OneTalker, IsTalker, Is
<1> QED BY <1>6, <1>7, <1>8, <1>9, <1>10, <1>11, <1>12 DEF AddressInv

LEMMA StartAddresses == Init => AddressInv
<1> SUFFICES ASSUME Init PROVE AddressInv
  OBVIOUS
<1>1. \A d \in Device : ~dev[d].aad /\ dev[d].adr = DefAddr[d] /\ dev[d].state = Idle
  BY DEF Init, PowerOn
<1>2. frame = inFrame /\ frame.k = "IDY"
  BY DEF Init, NoLap, F
<1>3. Configured
  BY <1>1, DefaultsConfigured
<1>4. OneTalker(Device)
  BY <1>1 DEF OneTalker, IsTalker, Is, Idle
<1> QED
  BY <1>1, <1>2, <1>3, <1>4
  DEF AddressInv, FrameKept, DefaultOrTaken, UnconfigureLap, AddressLap, AddressStable,
      TalkLap, TalkerStable

LEMMA InjectKeepsAddresses ==
  ASSUME Types, AddressInv, NEW f \in Frame, Inject(f)
  PROVE  AddressInv'
<1>0. /\ dev' = dev /\ frame' = f /\ inFrame' = f /\ at' = 1 /\ f \in Frame
      /\ f.k = "AAD" => MayAddress
  BY DEF Inject
<1>1. Configured /\ OneTalker(Device) /\ DefaultOrTaken
  BY BetweenFrames DEF Inject, AddressInv
<1>2. Configured' /\ OneTalker(Device)' /\ DefaultOrTaken'
  BY <1>0, <1>1 DEF Configured, Unique, Prefix, Consecutive, OneTalker, IsTalker, Is, DefaultOrTaken
<1>3. \A d \in Device : d >= 1 /\ ~(d < 1)
  BY LoopAssumption DEF Device
<1>4. FrameKept'
  BY <1>0 DEF FrameKept
<1>5. UnconfigureLap' /\ TalkerStable' /\ AddressStable'
  BY <1>0, <1>2, <1>3 DEF UnconfigureLap, TalkerStable, AddressStable
<1>6. TalkLap'
  BY <1>0, <1>2, <1>3 DEF TalkLap, OneTalker
<1>7. AddressLap'
  <2> SUFFICES ASSUME f.k = "AAD"
               PROVE  AddressLap'
    BY <1>0 DEF AddressLap
  <2>1. CASE \A d \in Device : dev[d].aad
    BY <1>0, <1>2, <2>1 DEF AddressLap
  <2>2. CASE \A d \in Device : ~dev[d].aad
    <3>1. f.n \in Nat
      BY <1>0 DEF Frame, Byte
    <3>2. f.n = IF f.n + 1 - 1 <= 30 THEN f.n + 1 - 1 ELSE IF f.n <= 30 THEN 30 ELSE f.n
      BY <3>1
    <3> QED BY <1>0, <1>3, <2>2, <3>2 DEF AddressLap, Addressing, Offered
  <2> QED BY <1>0, <2>1, <2>2 DEF MayAddress
<1> QED BY <1>2, <1>4, <1>5, <1>6, <1>7 DEF AddressInv

LEMMA RestartKeepsAddresses == Restart => AddressInv'
<1>1. Restart => Init'
  BY DEF Restart, Init
<1>2. Init' => AddressInv'
  BY StartAddresses, PTL
<1> QED BY <1>1, <1>2

LEMMA AddressInductive == Types /\ AddressInv /\ [Next]_vars => AddressInv'
<1> SUFFICES ASSUME Types, AddressInv, [Next]_vars
             PROVE  AddressInv'
  OBVIOUS
<1>1. CASE Hop
  BY <1>1, HopKeepsAddresses
<1>2. CASE Restart
  BY <1>2, RestartKeepsAddresses
<1>3. CASE \E f \in Inputs : Inject(f)
  BY <1>3, InjectKeepsAddresses, InputsAssumption
<1>4. CASE UNCHANGED vars
  BY <1>4
  DEF vars, AddressInv, FrameKept, DefaultOrTaken, UnconfigureLap, AddressLap, AddressStable,
      TalkLap, TalkerStable, Configured, Unique, Prefix, Consecutive, Addressing, Offered,
      OneTalker, IsTalker, Is
<1> QED BY <1>1, <1>2, <1>3, <1>4 DEF Next

THEOREM AddressesHold == Spec => []AddressInv
BY StartAddresses, AddressInductive, TypesHold, PTL DEF Spec

\* Between two frames no two devices share an address.
THEOREM AddressesUnique == Spec => []UniqueAddresses
<1>1. Types /\ AddressInv => UniqueAddresses
  BY BetweenFrames DEF UniqueAddresses, Configured
<1> QED BY <1>1, TypesHold, AddressesHold, PTL

\* Between two frames at most one device is talker.
THEOREM OneTalkerAtMost == Spec => []SingleTalker
<1>1. Types /\ AddressInv => SingleTalker
  BY BetweenFrames DEF SingleTalker
<1> QED BY <1>1, TypesHold, AddressesHold, PTL

-----------------------------------------------------------------------------
(***************************************************************************)
(* What the controller learns from an AAD frame that comes back: how many  *)
(* devices have taken an address.                                          *)
(***************************************************************************)

\* The devices with AAD addresses are the first ones.
LEMMA TakenFirst ==
  ASSUME Prefix
  PROVE  \E k \in 0 .. N : Taken = 1 .. k
<1>1. PICK k \in 0 .. N : \A d \in Device : dev[d].aad <=> d <= k
  BY DEF Prefix
<1>2. \A d : d \in Taken <=> d \in 1 .. k
  BY <1>1, LoopAssumption DEF Taken, Device
<1> QED BY <1>2

\* A lap that came back changed: it gave m to the first device, and counted.
LEMMA LapCounts ==
  ASSUME Types, AddressInv, Out, inFrame.k = "AAD", frame # inFrame
  PROVE  dev[1].adr = inFrame.n /\ frame.n = inFrame.n + Cardinality(Taken)
<1> DEFINE m == inFrame.n
<1>1. Addressing(m) /\ frame.k = "AAD"
  BY DEF AddressInv, AddressLap, FrameKept
<1>2. /\ frame \in [k : Kinds, n : Byte] /\ inFrame \in [k : Kinds, n : Byte]
      /\ m \in Nat /\ frame.n \in Nat
  BY DEF Types, EngineOK, Frame, Byte
<1>3. frame.n # m
  BY <1>1, <1>2
<1>4. N \in Nat /\ N >= 1 /\ Device = 1 .. N /\ at = N + 1
  BY LoopAssumption DEF Device, Out
<1>5. frame.n = IF m + N <= 30 THEN m + N ELSE IF m <= 30 THEN 30 ELSE m
  BY <1>1, <1>2, <1>4 DEF Addressing, Offered
<1>6. m < 30
  BY <1>2, <1>3, <1>4, <1>5
<1>7. \A d \in Device : (m + d <= 30 => dev[d].aad /\ dev[d].adr = m + d - 1)
                        /\ (~(m + d <= 30) => ~dev[d].aad)
  BY <1>1, <1>2, <1>4 DEF Addressing
<1>8. dev[1].adr = m
  BY <1>2, <1>4, <1>6, <1>7
<1> DEFINE k == IF m + N <= 30 THEN N ELSE 30 - m
<1>9. k \in Nat /\ frame.n = m + k
  BY <1>2, <1>4, <1>5, <1>6
<1>10. \A d : d \in Taken <=> d \in 1 .. k
  BY <1>2, <1>4, <1>6, <1>7 DEF Taken
<1> HIDE DEF k
<1>11. Taken = 1 .. k
  BY <1>10
<1>12. Cardinality(1 .. k) = k
  BY <1>9, FS_Interval, 1 \in Int, k \in Int
<1> QED BY <1>8, <1>9, <1>11, <1>12

\* An AAD lap tells the controller how many devices it has addressed, and these
\* are the first ones of the loop (ilbase.c:164-169).
THEOREM AadCounting == Spec => []AadCounts
<1>1. Types /\ AddressInv => AadCounts
  <2> SUFFICES ASSUME Types, AddressInv, Out PROVE AadCounts
    BY DEF AadCounts
  <2>1. Prefix /\ Consecutive
    BY BetweenFrames DEF Configured
  <2>2. \A d, e \in Taken : dev[d].adr - dev[e].adr = d - e
    BY <2>1 DEF Consecutive, Taken
  <2> QED BY <2>1, <2>2, TakenFirst, LapCounts DEF AadCounts
<1> QED BY <1>1, TypesHold, AddressesHold, PTL

\* An address that was taken is lost by AAU and a restart only.
THEOREM AddressIsKept == Spec => AddressKept
<1>1. Types /\ [Next]_vars =>
        [\A d \in Device : dev[d].aad /\ dev'[d].adr # dev[d].adr => frame.k = "AAU" \/ Restart]_vars
  <2> SUFFICES ASSUME Types, Next, NEW d \in Device, dev[d].aad, dev'[d].adr # dev[d].adr
               PROVE  frame.k = "AAU" \/ Restart
    OBVIOUS
  <2>1. CASE Hop
    BY <2>1, TurnEffect DEF Hop, Effect, Reset, Takes, Keeps
  <2>2. CASE \E f \in Inputs : Inject(f)
    BY <2>2 DEF Inject
  <2> QED BY <2>1, <2>2 DEF Next
<1> QED BY <1>1, TypesHold, PTL DEF Spec, AddressKept

-----------------------------------------------------------------------------
(***************************************************************************)
(* And from a ready frame: whether there is a talker.                      *)
(***************************************************************************)
Asks    == {"SDA", "SST", "SDI", "SAI"}
Answers == {"DAB", "ETO"}

\* While a ready frame goes round, the devices behind it are no talkers, or one
\* of them has answered and is still talker.
ReadyLap ==
  inFrame.k \in Asks =>
    \/ frame = inFrame /\ \A d \in Device : d < at => ~IsTalker(d)
    \/ frame.k \in Answers /\ \E d \in Device : d < at /\ IsTalker(d)

\* A device passes on the ready frames and NRD unless it is talker, the bytes
\* unless it is their source, and ETO.
LEMMA OthersPass ==
  ASSUME NEW d \in Device, Turn(d, frame),
         \/ frame.k \in Asks \cup {"NRD"} /\ ~IsTalker(d)
         \/ frame.k = "DAB" /\ ~IsSource(d)
         \/ frame.k = "ETO"
  PROVE  Pass(frame)
<1>1. CASE Quiet(d, frame)
  BY <1>1 DEF Quiet, NextIdByte, EndOfId, SendDone, Listen, Unlisten, Talk, Untalk,
       InterfaceClear, Unconfigure, NotReady, Identify, SendAid, TakeAddress, Ignore,
       DoeKinds, Asks
<1>2. CASE Hear(d, frame) \/ Clear(d, frame) \/ Command(d, frame)
  BY <1>2 DEF Hear, Clear, Command
<1>3. ASSUME NEW b PROVE ~Send(d, frame, b) /\ ~Status(d, frame, b) /\ ~Status2(d, frame, b)
  BY DEF Send, SendFirst, SendNext, Status, Status2, DoeKinds, Asks
<1>4. ~\E q \in BOOLEAN : Poll(d, frame, q)
  BY DEF Poll, Asks
<1> QED BY <1>1, <1>2, <1>3, <1>4 DEF Turn

LEMMA NoTalkerPasses ==
  ASSUME NEW d \in Device, Turn(d, frame), ~IsTalker(d),
         frame.k \in Asks \cup Answers
  PROVE  Pass(frame)
BY OthersPass DEF IsSource, Answers

\* A talker answers a ready frame, and stays talker.
LEMMA TalkerAnswers ==
  ASSUME Types, NEW d \in Device, Turn(d, frame), frame.k \in Asks, IsTalker(d)
  PROVE  frame'.k \in Answers /\ "talker" \in dev'[d].state
<1>1. ASSUME NEW s, NEW g, Enter(d, s, g), "talker" \in s, g.k \in Answers
      PROVE  frame'.k \in Answers /\ "talker" \in dev'[d].state
  BY <1>1, EnterEffect
<1>2. \A b : Dab(b).k \in Answers /\ Eto.k \in Answers
  BY KindsOf DEF Answers
<1>3. "talker" \in Talker /\ "talker" \in Sending /\ "talker" \in LastByteOut
      /\ "talker" \in StatusPending /\ "talker" \in Identifying
  BY DEF Talker, Sending, LastByteOut, StatusPending, Identifying
<1>4. CASE Quiet(d, frame)
  <2>1. Identify(d, frame) \/ SendAid(d, frame)
    BY <1>4 DEF Quiet, NextIdByte, EndOfId, SendDone, Listen, Unlisten, Talk, Untalk,
         InterfaceClear, Unconfigure, NotReady, TakeAddress, Ignore, DoeKinds, Asks
  <2>2. CASE Identify(d, frame)
    <3>1. dev'[d].state = Identifying
      BY <2>2 DEF Identify, Types, EngineOK, DevRecord
    <3> QED BY <1>2, <1>3, <2>2, <3>1 DEF Identify
  <2> QED BY <1>1, <1>2, <1>3, <2>1, <2>2 DEF SendAid
<1>5. ~Hear(d, frame) /\ ~Clear(d, frame) /\ ~Command(d, frame)
  BY DEF Hear, Clear, Command, DoeKinds, Asks
<1>6. ASSUME NEW b, Send(d, frame, b) \/ Status(d, frame, b) \/ Status2(d, frame, b)
      PROVE  frame'.k \in Answers /\ "talker" \in dev'[d].state
  <2>1. SendFirst(d, frame, b) \/ Status(d, frame, b)
    BY <1>6 DEF Send, SendNext, Status2, DoeKinds, Asks
  <2>2. CASE SendFirst(d, frame, b)
    BY <1>1, <1>2, <1>3, <2>2 DEF SendFirst
  <2>3. CASE Status(d, frame, b)
    BY <1>1, <1>2, <1>3, <2>3 DEF Status
  <2> QED BY <2>1, <2>2, <2>3
<1>7. ~\E q \in BOOLEAN : Poll(d, frame, q)
  BY DEF Poll, Asks
<1> QED BY <1>4, <1>5, <1>6, <1>7 DEF Turn

LEMMA HopKeepsReady ==
  ASSUME Types, AddressInv, ReadyLap, Hop
  PROVE  ReadyLap'
<1> SUFFICES ASSUME inFrame.k \in Asks PROVE ReadyLap'
  BY DEF ReadyLap, Hop
<1>0. /\ at \in Device /\ at' = at + 1 /\ inFrame' = inFrame /\ Turn(at, frame)
      /\ at \in Nat /\ Device \subseteq Nat
  BY LoopAssumption DEF Hop, Device
<1>1. /\ \A d \in Device : d < at' <=> d < at \/ d = at
      /\ \A e \in Device \ {at} : dev'[e] = dev[e]
  <2>1. \A d \in Device : d < at' <=> d < at \/ d = at
    <3>1. at \in Nat /\ at' = at + 1 /\ Device \subseteq Nat
      BY <1>0
    <3> QED BY <3>1
  <2>2. Effect(at)
    BY <1>0, TurnEffect
  <2>3. \A e \in Device \ {at} : dev'[e] = dev[e]
    BY <2>2, Zenon DEF Effect
  <2> QED BY <2>1, <2>3
<1>2. \A d \in Device : IsTalker(d)' <=> "talker" \in dev'[d].state
  BY DEF IsTalker, Is
<1>3. OneTalker(Device)
  BY DEF AddressInv, TalkerStable, Asks
<1>4. CASE frame = inFrame /\ \A d \in Device : d < at => ~IsTalker(d)
  <2>1. CASE IsTalker(at)
    BY <1>0, <1>1, <1>2, <1>4, <2>1, TalkerAnswers DEF ReadyLap
  <2>2. CASE ~IsTalker(at)
    <3>1. frame' = frame /\ dev' = dev
      BY <1>0, <1>4, <2>2, NoTalkerPasses DEF Pass
    <3> QED BY <1>0, <1>1, <1>4, <2>2, <3>1 DEF ReadyLap, IsTalker, Is
  <2> QED BY <2>1, <2>2
<1>5. CASE frame.k \in Answers /\ \E d \in Device : d < at /\ IsTalker(d)
  <2>1. ~IsTalker(at)
    BY <1>0, <1>3, <1>5 DEF OneTalker
  <2>2. frame' = frame /\ dev' = dev
    BY <1>0, <1>5, <2>1, NoTalkerPasses DEF Pass
  <2> QED BY <1>0, <1>1, <1>5, <2>2 DEF ReadyLap, IsTalker, Is
<1> QED BY <1>4, <1>5 DEF ReadyLap

LEMMA ReadyInductive == Types /\ AddressInv /\ ReadyLap /\ [Next]_vars => ReadyLap'
<1> SUFFICES ASSUME Types, AddressInv, ReadyLap, [Next]_vars PROVE ReadyLap'
  OBVIOUS
<1>1. CASE Hop
  BY <1>1, HopKeepsReady
<1>2. CASE Restart
  BY <1>2 DEF Restart, ReadyLap, NoLap, F, Asks
<1>3. CASE \E f \in Inputs : Inject(f)
  <2>1. \A d \in Device : ~(d < 1)
    BY LoopAssumption DEF Device
  <2> QED BY <1>3, <2>1 DEF Inject, ReadyLap
<1>4. CASE UNCHANGED vars
  BY <1>4 DEF vars, ReadyLap, IsTalker, Is
<1> QED BY <1>1, <1>2, <1>3, <1>4 DEF Next

\* A ready frame comes back as it was exactly when nobody is talker, so that a
\* controller never waits for data from a device that is not there
\* (ilbase.c:139-163).
THEOREM ReadyIsAnswered == Spec => []ReadyAnswered
<1>1. Init => ReadyLap
  BY DEF Init, ReadyLap, NoLap, F, Asks
<1>2. Spec => []ReadyLap
  BY <1>1, ReadyInductive, TypesHold, AddressesHold, PTL DEF Spec
<1>3. ReadyLap /\ Types => ReadyAnswered
  <2>1. Out => \A d \in Device : d < at
    BY LoopAssumption DEF Out, Device
  <2>2. Asks \cap Answers = {}
    BY DEF Asks, Answers
  <2> QED BY <2>1, <2>2 DEF ReadyLap, ReadyAnswered, Asks
<1> QED BY <1>2, <1>3, TypesHold, PTL

\* No identification reads beyond its string (ilbase.c:42-53).
THEOREM SdiSafe == Spec => []SdiInBounds
<1>1. Types => SdiInBounds
  BY DEF Types, EngineOK
<1> QED BY <1>1, TypesHold, PTL
=============================================================================
