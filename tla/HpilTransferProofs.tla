------------------------- MODULE HpilTransferProofs -------------------------
(***************************************************************************)
(* The transfers of HpilTransfer are broadcasts, for every number of       *)
(* devices and every place of the talker and the listeners on the loop.    *)
(***************************************************************************)
EXTENDS HpilTransfer, HpilLoopProofs, SequenceTheorems

-----------------------------------------------------------------------------
(***************************************************************************)
(* The invariant.  At any moment the loop and its controller are in one of *)
(* six stages; what the audience has heard is given by the set of parties  *)
(* that the byte on the loop has still to reach.                           *)
(***************************************************************************)
TransferTypes ==
  /\ Types
  /\ phase \in Phases /\ held \in Frame
  /\ sot \in SotKinds \cup {"none"} /\ audience \subseteq Party
  /\ log \in Seq(Byte) /\ heard \in [Party -> Seq(Byte)]
  /\ cut \in BOOLEAN

Front(s)   == SubSeq(s, 1, Len(s) - 1)
NoSource   == \A d \in Device : ~IsSource(d)
LastByte   == log[Len(log)]
Earlier    == Front(log)

\* What d answers to the ready frame of an identification.
Answer(d) == IF sot = "SDI" THEN Characters(d) ELSE <<Aid[d]>>

\* Nobody outside the audience has heard anything, the late parties all but
\* the last byte, the others everything.
HeardBut(late) ==
  \A p \in Party :
    heard[p] = IF p \notin audience THEN <<>> ELSE IF p \in late THEN Earlier ELSE log

\* Between transfers.  After IFC the source of an aborted one is still there
\* until the frame has reached it.
Resting ==
  /\ phase = "idle" /\ sot = "none"
  /\ audience = {} /\ log = <<>> /\ HeardBut({})
  /\ at \in Device => frame.k \notin DoeKinds \cup SotKinds \cup {"NRD"}
  /\ \A d \in Device : IsSource(d) => inFrame.k = "IFC" /\ d >= at

\* The controller is the source.
Writing ==
  /\ phase = "writing" /\ sot = "none" /\ NoSource /\ ~cut
  /\ audience = Listeners /\ Len(log) <= MaxLog
  /\ HeardBut({p \in Party : p >= at})
  /\ log = <<>> => Out
  /\ log # <<>> => frame = Dab(LastByte) /\ inFrame = frame

\* The stages of reading.
ReadingFor(phases) ==
  /\ phase \in phases /\ sot \in SotKinds /\ ~cut
  /\ audience = Listeners \cup {Controller}
  /\ inFrame.k \in SotKinds \cup {"DAB", "NRD"}

\* The ready frame has not reached a talker.
Asking ==
  /\ ReadingFor({"reading"})
  /\ frame = F(sot, 0) /\ inFrame = frame
  /\ \A d \in Device : d < at => ~IsTalker(d)
  /\ NoSource /\ log = <<>> /\ HeardBut({})

\* What the state of the source t says of the bytes that it has sent.
SentBy(t) ==
  LET state == dev[t].state IN
  /\ sot = "SDA" => state \in {Sending, LastByteOut} /\ Len(log) <= MaxLog
  /\ sot = "SST" => \/ state = StatusPending /\ Len(log) = 1
                    \/ state = LastByteOut /\ Len(log) <= 2
  /\ sot = "SDI" => \/ state = Identifying /\ log = SubSeq(DeviceId[t], 1, dev[t].ptsdi - 1)
                    \/ state = Identifying \ {"sda"} /\ Len(log) < Len(DeviceId[t])
  /\ sot = "SAI" => state = LastByteOut /\ log = <<Aid[t]>>

\* The last byte of t goes round, or goes round again as far as t: then the
\* controller wants one more of data.
Reaching(t) ==
  IF t < at THEN {p \in Party : p < t \/ p >= at} ELSE {p \in Party : at <= p /\ p < t}

Carrying(t) ==
  /\ ReadingFor({"reading", "released"})
  /\ frame = Dab(LastByte) /\ log # <<>>
  /\ IsSource(t) /\ SentBy(t)
  /\ HeardBut(Reaching(t))
  /\ phase = "reading" /\ sot = "SDI" => dev[t].state = Identifying
  /\ phase = "released" => ~Is(t, "sda") /\ (t < at => sot = "SST")
  /\ phase = "reading" /\ ~(t < at) => Wants

\* NRD goes round, the last byte is held back.
Stopping(t) ==
  /\ ReadingFor({"nrd"})
  /\ frame = F("NRD", 0) /\ held = Dab(LastByte) /\ log # <<>>
  /\ IsSource(t) /\ SentBy(t)
  /\ HeardBut({p \in Party : Controller < p /\ p < t})
  /\ t < at => ~Is(t, "sda")

\* The talker has ended the transfer.
Over ==
  /\ ReadingFor({"reading", "released"})
  /\ frame = Eto /\ NoSource /\ HeardBut({})
  /\ Len(log) < MaxHistory
  /\ phase = "reading" /\ sot \in {"SDI", "SAI"} =>
       \A d \in Device : IsTalker(d) => log = Answer(d)

Stages ==
  \/ Resting \/ Writing \/ Asking \/ Over
  \/ \E t \in Device : Carrying(t) \/ Stopping(t)

TransferInv == TransferTypes /\ AddressInv /\ Stages

-----------------------------------------------------------------------------
(***************************************************************************)
(* Histories                                                               *)
(***************************************************************************)

\* A sequence is its last element after the others.
LEMMA LastApart ==
  ASSUME NEW S, NEW s \in Seq(S), s # <<>>
  PROVE  /\ Front(s) \in Seq(S) /\ s[Len(s)] \in S
         /\ Len(s) \in Nat /\ Len(Front(s)) = Len(s) - 1 /\ Front(s) # s
         /\ Append(Front(s), s[Len(s)]) = s
<1>1. Len(s) \in Nat /\ Len(s) > 0 /\ \A i \in 1 .. Len(s) : s[i] \in S
  BY LenProperties, EmptySeq
<1>2. /\ Front(s) \in Seq(S) /\ Len(Front(s)) = Len(s) - 1
      /\ \A i \in 1 .. Len(s) - 1 : Front(s)[i] = s[i]
  <2>1. 1 \in Int /\ Len(s) - 1 \in Int /\ \A i \in 1 .. Len(s) - 1 : s[i] \in S
    BY <1>1
  <2>2. /\ Front(s) \in Seq(S)
        /\ Len(Front(s)) = IF 1 <= Len(s) - 1 THEN Len(s) - 1 - 1 + 1 ELSE 0
        /\ \A i \in 1 .. Len(s) - 1 - 1 + 1 : Front(s)[i] = s[1 + i - 1]
    BY <2>1, SubSeqProperties DEF Front
  <2>3. \A n \in Nat : n > 0 => /\ n - 1 - 1 + 1 = n - 1
                                 /\ (IF 1 <= n - 1 THEN n - 1 ELSE 0) = n - 1
                                 /\ \A i \in 1 .. n - 1 : 1 + i - 1 = i
    OBVIOUS
  <2>4. Len(s) - 1 - 1 + 1 = Len(s) - 1 /\ (IF 1 <= Len(s) - 1 THEN Len(s) - 1 ELSE 0) = Len(s) - 1
    BY <1>1, <2>3
  <2>5. \A i \in 1 .. Len(s) - 1 : Front(s)[i] = s[i]
    BY <1>1, <2>2, <2>3, <2>4
  <2> QED BY <2>2, <2>4, <2>5
<1>3. /\ Append(Front(s), s[Len(s)]) \in Seq(S)
      /\ Len(Append(Front(s), s[Len(s)])) = Len(s)
      /\ \A i \in 1 .. Len(s) : Append(Front(s), s[Len(s)])[i] = s[i]
  BY <1>1, <1>2, AppendProperties
<1>4. Append(Front(s), s[Len(s)]) = s
  BY <1>1, <1>3, SeqEqual
<1> QED BY <1>1, <1>2, <1>4

\* And the others are what it was before the last was added.
LEMMA Appended ==
  ASSUME NEW S, NEW s \in Seq(S), NEW b \in S
  PROVE  /\ Append(s, b) \in Seq(S) /\ Append(s, b) # <<>>
         /\ Len(s) \in Nat /\ Len(Append(s, b)) = Len(s) + 1
         /\ Append(s, b)[Len(s) + 1] = b
         /\ Front(Append(s, b)) = s
<1> DEFINE t == Append(s, b)
<1>1. /\ t \in Seq(S) /\ t # <<>> /\ Len(s) \in Nat /\ Len(t) = Len(s) + 1
      /\ t[Len(s) + 1] = b /\ \A i \in 1 .. Len(s) : t[i] = s[i]
  BY AppendProperties, LenProperties
<1> HIDE DEF t
<1>2. Front(t) \in Seq(S) /\ Append(Front(t), t[Len(t)]) = t /\ t[Len(t)] = b
  BY <1>1, LastApart
<1>3. Front(t) = s
  BY <1>1, <1>2, AppendInjective DEF t
<1> QED BY <1>1, <1>3 DEF t

\* A prefix grows by the next element.
LEMMA PrefixGrows ==
  ASSUME NEW S, NEW s \in Seq(S), NEW n \in Nat, n < Len(s)
  PROVE  /\ SubSeq(s, 1, n) \in Seq(S) /\ Len(SubSeq(s, 1, n)) = n
         /\ s[n + 1] \in S
         /\ SubSeq(s, 1, n + 1) = Append(SubSeq(s, 1, n), s[n + 1])
<1>1. Len(s) \in Nat /\ \A i \in 1 .. Len(s) : s[i] \in S
  BY LenProperties
<1>2. \A m \in Nat : m <= Len(s) =>
        /\ SubSeq(s, 1, m) \in Seq(S) /\ Len(SubSeq(s, 1, m)) = m
        /\ \A i \in 1 .. m : SubSeq(s, 1, m)[i] = s[i]
  <2> SUFFICES ASSUME NEW m \in Nat, m <= Len(s)
               PROVE  /\ SubSeq(s, 1, m) \in Seq(S) /\ Len(SubSeq(s, 1, m)) = m
                      /\ \A i \in 1 .. m : SubSeq(s, 1, m)[i] = s[i]
    OBVIOUS
  <2>1. 1 \in Int /\ m \in Int /\ \A i \in 1 .. m : s[i] \in S
    BY <1>1
  <2>2. /\ SubSeq(s, 1, m) \in Seq(S)
        /\ Len(SubSeq(s, 1, m)) = IF 1 <= m THEN m - 1 + 1 ELSE 0
        /\ \A i \in 1 .. m - 1 + 1 : SubSeq(s, 1, m)[i] = s[1 + i - 1]
    BY <2>1, SubSeqProperties
  <2>3. m - 1 + 1 = m /\ (IF 1 <= m THEN m ELSE 0) = m /\ \A i \in 1 .. m : 1 + i - 1 = i
    OBVIOUS
  <2> QED BY <2>2, <2>3
<1> DEFINE p == SubSeq(s, 1, n)
           q == SubSeq(s, 1, n + 1)
<1>3. /\ p \in Seq(S) /\ Len(p) = n /\ \A i \in 1 .. n : p[i] = s[i]
      /\ q \in Seq(S) /\ Len(q) = n + 1 /\ \A i \in 1 .. n + 1 : q[i] = s[i]
  BY <1>1, <1>2
<1>4. s[n + 1] \in S
  BY <1>1
<1> HIDE DEF p, q
<1>5. /\ Append(p, s[n + 1]) \in Seq(S) /\ Len(Append(p, s[n + 1])) = n + 1
      /\ \A i \in 1 .. n + 1 : Append(p, s[n + 1])[i] = s[i]
  BY <1>3, <1>4, AppendProperties
<1>6. q = Append(p, s[n + 1])
  BY <1>3, <1>5, SeqEqual
<1> QED BY <1>3, <1>4, <1>6 DEF p, q

\* A party that is late hears the last byte: a step of the broadcast.
LEMMA LateHears ==
  ASSUME TransferTypes, NEW late, HeardBut(late),
         log # <<>>, Len(log) < MaxHistory,
         NEW p \in audience \cap late,
         heard' = [heard EXCEPT ![p] = Noted(@, LastByte)],
         UNCHANGED <<audience, log, cut>>
  PROVE  Broadcast!Next /\ HeardBut(late \ {p})'
<1>1. p \in Party /\ heard[p] = Earlier
  BY DEF TransferTypes, HeardBut
<1>2. /\ Len(log) \in Nat /\ Len(Earlier) = Len(log) - 1 /\ Earlier # log
      /\ Append(Earlier, LastByte) = log
  BY LastApart DEF TransferTypes, Earlier, LastByte
<1>3. MaxHistory \in Nat
  BY TransferAssumption
<1>4. Noted(heard[p], LastByte) = log
  BY <1>1, <1>2, <1>3 DEF Noted
<1>5. heard' = [heard EXCEPT ![p] = log]
  BY <1>4
<1>6. Broadcast!Hear(p)
  BY <1>1, <1>2, <1>5 DEF Broadcast!Hear
<1>7. \A q \in Party : heard'[q] = IF q = p THEN log ELSE heard[q]
  BY <1>5 DEF TransferTypes
<1>8. Earlier' = Earlier
  BY DEF Earlier
<1>9. HeardBut(late \ {p})'
  BY <1>7, <1>8 DEF HeardBut
<1> QED BY <1>1, <1>6, <1>9 DEF Broadcast!Next

\* When nobody is late a byte may be emitted: the whole audience is late then.
LEMMA AllLate ==
  ASSUME TransferTypes, NEW late, HeardBut(late), audience \cap late = {},
         NEW b \in Byte, NEW after, audience \subseteq after,
         log' = Append(log, b), ~cut, UNCHANGED <<audience, heard, cut>>
  PROVE  Broadcast!Next /\ HeardBut(after)'
<1>1. \A p \in audience : heard[p] = log
  BY DEF TransferTypes, HeardBut
<1>2. Broadcast!Next
  BY <1>1 DEF Broadcast!Next, Broadcast!Emit, Broadcast!Complete
<1>3. Earlier' = log
  BY Appended DEF TransferTypes, Earlier
<1>4. HeardBut(after)'
  BY <1>1, <1>3 DEF HeardBut
<1> QED BY <1>2, <1>4

\* Who is late matters in the audience only.
LEMMA SameLate ==
  ASSUME NEW late, HeardBut(late), NEW after, audience \cap late = audience \cap after,
         UNCHANGED <<audience, log, heard>>
  PROVE  HeardBut(after)'
<1>1. Earlier' = Earlier
  BY DEF Earlier
<1> QED BY <1>1 DEF HeardBut

-----------------------------------------------------------------------------
(***************************************************************************)
(* The loop below the transfers                                            *)
(***************************************************************************)

\* The devices whose turn it is not keep their records.
LEMMA HopIs ==
  ASSUME TransferTypes, TransferHop
  PROVE  /\ Hop /\ Types'
         /\ \A d \in Device \ {at} : dev'[d] = dev[d]
<1>1. Hop
  <2>1. CASE SendTurn(at)
    <3>1. OnSend(at) \subseteq Payload \cup {NoByte}
      BY DEF OnSend
    <3> QED BY <2>1, <3>1 DEF SendTurn, TransferHop, Hop, Turn
  <2>2. CASE OtherTurn(at)
    BY <2>2 DEF OtherTurn, TransferHop, Hop, Turn
  <2> QED BY <2>1, <2>2 DEF TransferHop
<1>2. Types' /\ \A d \in Device \ {at} : dev'[d] = dev[d]
  BY <1>1, HopOK, TurnEffect DEF TransferTypes, Hop, Effect
<1> QED BY <1>1, <1>2

\* The devices are numbered from 1, the controller is 0.
LEMMA PartiesOrdered ==
  /\ Device \subseteq Nat /\ \A d \in Device : d >= 1 /\ d <= N
  /\ Party = Device \cup {0} /\ Controller = 0 /\ Controller \notin Device
  /\ N \in Nat
BY LoopAssumption DEF Device, Party, Controller

\* The frames the controller sends.
LEMMA FramesSent ==
  /\ \A k \in SotKinds \cup {"NRD", "IFC"} : F(k, 0) \in Frame
  /\ \A b \in Payload : Dab(b) \in Frame
  /\ Inputs \subseteq Frame
<1>1. ASSUME NEW k \in SotKinds \cup {"NRD", "IFC"}
      PROVE  F(k, 0) \in Frame
  <2>1. k \in Kinds
    BY DEF SotKinds, Kinds, CmdKinds, RdyKinds
  <2> QED BY <2>1 DEF F, Frame, Byte
<1> QED BY <1>1, FramesMade, InputsAssumption

\* Below the transfers the loop is that of HpilLoop, with a controller that
\* sends any frame.
LEMMA LoopSteps ==
  ASSUME TransferTypes, TransferNext
  PROVE  Hop \/ Restart \/ (\E f \in Frame : Inject(f)) \/ UNCHANGED vars
<1>1. CASE TransferHop
  BY <1>1, HopIs
<1>2. CASE \/ \E f \in Inputs : Instruct(f)
           \/ \E k \in SotKinds : StartReading(k)
           \/ Continue \/ Interrupt \/ Release
           \/ \E b \in Payload : Write(b)
           \/ AbortTransfer
  BY <1>2, FramesSent
  DEF TransferTypes, Types, EngineOK, Instruct, StartReading, Continue, Interrupt, Release,
      Write, AbortTransfer
<1>3. CASE StartWriting \/ Finish \/ StopWriting
  BY <1>3 DEF StartWriting, Finish, StopWriting, vars
<1>4. CASE TransferRestart
  BY <1>4 DEF TransferRestart
<1> QED BY <1>1, <1>2, <1>3, <1>4 DEF TransferNext, ControllerNext

LEMMA LoopKept ==
  ASSUME TransferTypes, AddressInv, [TransferNext]_transferVars
  PROVE  Types' /\ AddressInv'
<1>0. Types
  BY DEF TransferTypes
<1>1. CASE UNCHANGED vars
  <2>1. [Next]_vars
    BY <1>1
  <2> QED BY <1>0, <2>1, TypesInductive, AddressInductive
<1>2. CASE Hop \/ Restart \/ \E f \in Frame : Inject(f)
  BY <1>0, <1>2, HopOK, RestartOK, InjectOK, HopKeepsAddresses, RestartKeepsAddresses,
     InjectKeepsAddresses
<1> QED BY <1>1, <1>2, LoopSteps DEF transferVars, vars

LEMMA NotedOK ==
  ASSUME NEW h \in Seq(Byte), NEW b \in Byte
  PROVE  Noted(h, b) \in Seq(Byte)
BY AppendProperties DEF Noted

LEMMA SilenceOK ==
  /\ Silence \in [Party -> Seq(Byte)]
  /\ <<>> \in Seq(Byte)
BY EmptySeq DEF Silence

\* A party notes a frame's byte.
LEMMA NotesOK ==
  ASSUME TransferTypes, NEW p \in Party
  PROVE  [heard EXCEPT ![p] = Noted(@, frame.n)] \in [Party -> Seq(Byte)]
<1>1. Noted(heard[p], frame.n) \in Seq(Byte)
  BY NotedOK DEF TransferTypes, Types, EngineOK, Frame
<1> QED BY <1>1 DEF TransferTypes

LEMMA TransferTypesKept ==
  ASSUME TransferTypes, AddressInv, [TransferNext]_transferVars
  PROVE  TransferTypes'
<1> USE DEF TransferTypes
<1>0. /\ Types' /\ Device \subseteq Party /\ Controller \in Party /\ "idle" \in Phases
      /\ {"reading", "nrd", "released", "writing"} \subseteq Phases
      /\ NoLap \in Frame /\ frame \in Frame
  BY LoopKept, FramesMade DEF Party, Phases, Types, EngineOK
<1>1. CASE TransferHop
  <2>1. log' \in Seq(Byte)
    <3>1. frame'.n \in Byte
      BY <1>0 DEF Types, EngineOK, Frame
    <3> QED BY <1>1, <3>1, NotedOK DEF TransferHop
  <2>2. heard' \in [Party -> Seq(Byte)]
    BY <1>0, <1>1, NotesOK DEF TransferHop
  <2> QED BY <1>0, <1>1, <2>1, <2>2, HopIs DEF TransferHop
<1>2. CASE Finish \/ StopWriting \/ AbortTransfer \/ TransferRestart
  BY <1>0, <1>2, SilenceOK
  DEF Finish, StopWriting, AbortTransfer, TransferRestart, ForgetTransfer
<1>3. CASE \/ \E f \in Inputs : Instruct(f)
           \/ Release \/ UNCHANGED transferVars
  BY <1>0, <1>3 DEF Instruct, Release, transferVars, history
<1>4. CASE StartWriting \/ \E k \in SotKinds : StartReading(k)
  <2>1. Listeners \subseteq Party
    BY <1>0 DEF Listeners
  <2> QED BY <1>0, <1>4, <2>1, SilenceOK DEF StartWriting, StartReading, Begin
<1>5. CASE Continue \/ Interrupt
  BY <1>0, <1>5, NotesOK DEF Continue, Interrupt, ControllerHears
<1>6. ASSUME NEW b \in Payload, Write(b) PROVE TransferTypes'
  <2>1. log' \in Seq(Byte)
    BY <1>6, NotedOK, InputsAssumption DEF Write
  <2> QED BY <1>0, <1>6, <2>1 DEF Write
<1> QED BY <1>1, <1>2, <1>3, <1>4, <1>5, <1>6 DEF TransferNext, ControllerNext

-----------------------------------------------------------------------------
(***************************************************************************)
(* Turns that transfer nothing                                             *)
(***************************************************************************)

\* Only a ready frame makes a device a source, and IFC leaves none behind.
LEMMA NoNewSource ==
  ASSUME Types, NEW d \in Device, Turn(d, frame),
         frame.k \notin DoeKinds \cup SotKinds \cup {"NRD"}
  PROVE  /\ frame'.k = frame.k
         /\ IsSource(d)' => IsSource(d) /\ frame.k # "IFC"
<1>1. IsSource(d)' <=> {"addressed", "talker"} \subseteq dev'[d].state
  BY DEF IsSource, Addressed, IsTalker, Is
<1>2. ASSUME NEW s \in {Idle, Listener, Talker}, Enter(d, s, frame)
      PROVE  frame' = frame /\ ~IsSource(d)'
  BY <1>1, <1>2, EnterEffect DEF Idle, Listener, Talker
<1>3. ASSUME NEW g, Pass(g), g.k = frame.k, frame.k # "IFC"
      PROVE  frame'.k = frame.k /\ (IsSource(d)' => IsSource(d) /\ frame.k # "IFC")
  BY <1>3 DEF Pass, IsSource, Addressed, IsTalker, Is
<1>4. CASE Quiet(d, frame)
  <2>1. \/ Listen(d, frame) \/ Unlisten(d, frame) \/ Talk(d, frame) \/ Untalk(d, frame)
        \/ InterfaceClear(d, frame) \/ Unconfigure(d, frame) \/ TakeAddress(d, frame)
        \/ Ignore(d, frame)
    BY <1>4 DEF Quiet, NextIdByte, EndOfId, SendDone, NotReady, Identify, SendAid, SotKinds
  <2>2. CASE \/ Listen(d, frame) \/ Unlisten(d, frame) \/ Talk(d, frame) \/ Untalk(d, frame)
             \/ InterfaceClear(d, frame)
    BY <1>2, <2>2 DEF Listen, Unlisten, Talk, Untalk, InterfaceClear
  <2>3. CASE Unconfigure(d, frame) \/ TakeAddress(d, frame)
    <3>1. dev'[d].state = dev[d].state /\ frame.k \in {"AAU", "AAD"}
      BY <2>3 DEF Unconfigure, TakeAddress, Types, EngineOK, DevRecord
    <3>2. frame'.k = frame.k
      BY <2>3 DEF Unconfigure, TakeAddress, F
    <3> QED BY <1>1, <3>1, <3>2 DEF IsSource, Addressed, IsTalker, Is
  <2>4. CASE Ignore(d, frame)
    <3>1. Pass(frame) /\ frame.k # "IFC"
      BY <2>4 DEF Ignore, DoeKinds
    <3> QED BY <1>3, <3>1
  <2> QED BY <2>1, <2>2, <2>3, <2>4
<1>5. CASE Hear(d, frame) \/ Clear(d, frame) \/ Command(d, frame)
  <2>1. Pass(frame) /\ frame.k # "IFC"
    BY <1>5 DEF Hear, Clear, Command, DoeKinds
  <2> QED BY <1>3, <2>1
<1>6. ASSUME NEW b PROVE ~Send(d, frame, b) /\ ~Status(d, frame, b) /\ ~Status2(d, frame, b)
  BY DEF Send, SendFirst, SendNext, Status, Status2, SotKinds
<1>7. CASE \E q \in BOOLEAN : Poll(d, frame, q)
  <2>1. PICK g \in {frame, F("IDY", 1)} : Pass(g) /\ frame.k = "IDY"
    BY <1>7 DEF Poll
  <2> QED BY <1>3, <2>1, KindsOf
<1> QED BY <1>4, <1>5, <1>6, <1>7 DEF Turn

\* A hop by which nobody emits or hears.
LEMMA SilentHop ==
  ASSUME TransferHop, ~Emits(at), ~Hears(at)
  PROVE  UNCHANGED <<log, heard, audience, cut, sot, phase, held, inFrame>>
BY DEF TransferHop

LEMMA RestingHop ==
  ASSUME TransferTypes, AddressInv, Resting, TransferHop
  PROVE  Resting' /\ UNCHANGED <<audience, log, heard, cut>>
<1>a. PICK x \in Device : x = at
  BY HopIs DEF Hop
<1>0. /\ Device \subseteq Nat /\ at' = x + 1 /\ Turn(x, frame) /\ Types
  BY <1>a, HopIs, LoopAssumption DEF Hop, Device, TransferTypes
<1>1. frame.k \notin DoeKinds \cup SotKinds \cup {"NRD"}
  BY <1>a DEF Resting
<1>2. UNCHANGED <<log, heard, audience, cut, sot, phase, held, inFrame>>
  BY <1>1, SilentHop DEF Emits, Hears
<1>3. frame'.k = frame.k /\ (IsSource(x)' => IsSource(x) /\ frame.k # "IFC")
  BY <1>0, <1>1, NoNewSource
<1>4. \A d \in Device \ {x} : IsSource(d)' => IsSource(d)
  BY <1>a, HopIs DEF IsSource, Addressed, IsTalker, Is
<1>5. inFrame.k = "IFC" => frame.k = "IFC"
  BY DEF AddressInv, FrameKept, CmdKinds
<1>6. \A d \in Device : IsSource(d)' => inFrame'.k = "IFC" /\ d >= at'
  <2> SUFFICES ASSUME NEW d \in Device, IsSource(d)'
               PROVE  inFrame.k = "IFC" /\ d >= x + 1
    BY <1>0, <1>2
  <2>1. IsSource(d) /\ (d = x => frame.k # "IFC")
    BY <1>3, <1>4
  <2>2. inFrame.k = "IFC" /\ d >= x
    BY <1>a, <2>1 DEF Resting
  <2>3. d # x
    BY <1>5, <2>1, <2>2
  <2> QED BY <1>0, <2>2, <2>3
<1>7. HeardBut({})'
  BY <1>2, SameLate DEF Resting
<1> QED BY <1>1, <1>2, <1>3, <1>6, <1>7 DEF Resting

\* Nobody's turn changes who listens when the device stays what it was.
LEMMA SameRoles ==
  ASSUME UNCHANGED dev
  PROVE  /\ Listeners' = Listeners
         /\ NoSource' = NoSource
         /\ \A d \in Device : IsTalker(d)' = IsTalker(d) /\ IsSource(d)' = IsSource(d)
BY DEF Listeners, NoSource, IsListener, IsSource, IsTalker, Addressed, Is

\* A byte goes past a device that is not its source: a listener hears it.
LEMMA BytePasses ==
  ASSUME TransferTypes, TransferHop, NEW d, d = at,
         frame = Dab(LastByte), ~IsSource(d),
         log # <<>>, Len(log) < MaxHistory, audience \cap Device = Listeners,
         NEW late, HeardBut(late), d \in Listeners => d \in late
  PROVE  /\ UNCHANGED <<frame, dev, log, audience, cut, sot, phase, held, inFrame>>
         /\ HeardBut(late \ {d})'
         /\ Broadcast!Next \/ UNCHANGED <<audience, log, heard, cut>>
<1>0. /\ d \in Device /\ Turn(d, frame)
      /\ frame.k = "DAB" /\ frame.n = LastByte /\ "DAB" \notin SotKinds
  BY HopIs DEF Hop, Dab, F, SotKinds
<1>1. frame' = frame /\ dev' = dev
  BY <1>0, OthersPass DEF Pass
<1>2. ~Emits(d)
  BY <1>0 DEF Emits, IsSource
<1>3. UNCHANGED <<log, audience, cut, sot, phase, held, inFrame>>
  BY <1>2 DEF TransferHop
<1>4. CASE d \in Listeners
  <2>1. heard' = [heard EXCEPT ![d] = Noted(@, LastByte)]
    BY <1>0, <1>4 DEF TransferHop, Hears, Listeners, DoeKinds
  <2> QED BY <1>1, <1>3, <1>4, <2>1, LateHears
<1>5. CASE d \notin Listeners
  <2>1. UNCHANGED heard
    BY <1>0, <1>5 DEF TransferHop, Hears, Listeners
  <2>2. audience \cap late = audience \cap (late \ {d})
    BY <1>0, <1>5
  <2> QED BY <1>1, <1>3, <2>1, <2>2, SameLate
<1> QED BY <1>4, <1>5

-----------------------------------------------------------------------------
(***************************************************************************)
(* The talker's turn                                                       *)
(***************************************************************************)

\* on_send has no byte, or gives one.
SendsNothing(t) == Send(t, frame, NoByte)
SendsByte(t)    == \E b \in Payload : Send(t, frame, b)

\* The branches open to a talker that a ready frame reaches.
LEMMA TalkerTurn ==
  ASSUME TransferHop, NEW t, t = at, frame.k \in SotKinds
  PROVE  \/ ~IsTalker(t)
         \/ SendsNothing(t) \/ SendsByte(t)
         \/ \E s \in Payload : Status(t, frame, s)
         \/ Identify(t, frame) \/ SendAid(t, frame)
<1>1. CASE SendTurn(t)
  BY <1>1 DEF SendTurn, OnSend, SendsNothing, SendsByte
<1>2. CASE OtherTurn(t)
  <2>1. ~Hear(t, frame) /\ ~Clear(t, frame) /\ ~Command(t, frame)
    BY DEF Hear, Clear, Command, DoeKinds, SotKinds
  <2>2. \A q \in BOOLEAN : ~Poll(t, frame, q)
    BY DEF Poll, SotKinds
  <2>3. \A s : ~Status2(t, frame, s)
    BY DEF Status2, DoeKinds, SotKinds
  <2>4. Quiet(t, frame) => Identify(t, frame) \/ SendAid(t, frame) \/ ~IsTalker(t)
    BY DEF Quiet, NextIdByte, EndOfId, SendDone, Listen, Unlisten, Talk, Untalk,
       InterfaceClear, Unconfigure, NotReady, TakeAddress, Ignore, DoeKinds, SotKinds
  <2> QED BY <1>2, <2>1, <2>2, <2>3, <2>4 DEF OtherTurn
<1> QED BY <1>1, <1>2 DEF TransferHop

\* And the branches open to a source that a byte reaches.
LEMMA SourceTurn ==
  ASSUME TransferHop, NEW t, t = at, frame.k = "DAB", IsSource(t)
  PROVE  \/ SendsNothing(t) \/ SendsByte(t)
         \/ NextIdByte(t, frame) \/ EndOfId(t, frame) \/ SendDone(t, frame)
         \/ \E s \in Payload : Status2(t, frame, s)
<1>1. CASE SendTurn(t)
  BY <1>1 DEF SendTurn, OnSend, SendsNothing, SendsByte
<1>2. CASE OtherTurn(t)
  <2>1. ~Hear(t, frame) /\ ~Clear(t, frame) /\ ~Command(t, frame)
    BY DEF Hear, Clear, Command, IsSource, IsListener
  <2>2. \A q \in BOOLEAN : ~Poll(t, frame, q)
    BY DEF Poll
  <2>3. \A s : ~Status(t, frame, s)
    BY DEF Status
  <2>4. Quiet(t, frame) => NextIdByte(t, frame) \/ EndOfId(t, frame) \/ SendDone(t, frame)
    BY DEF Quiet, Listen, Unlisten, Talk, Untalk, InterfaceClear, Unconfigure, NotReady,
       Identify, SendAid, TakeAddress, Ignore, IsSource
  <2> QED BY <1>2, <2>1, <2>2, <2>3, <2>4 DEF OtherTurn
<1> QED BY <1>1, <1>2 DEF TransferHop

\* No transfer is as long as the history may be.
LEMMA SentRoom ==
  ASSUME TransferTypes, NEW t \in Device, sot \in SotKinds, SentBy(t)
  PROVE  Len(log) \in Nat /\ Len(log) < MaxHistory
<1>1. Len(log) \in Nat /\ MaxLog \in Nat /\ MaxHistory \in Nat
  BY LenProperties, TransferAssumption DEF TransferTypes
<1>2. /\ MaxHistory > 2 /\ MaxHistory > MaxLog
      /\ Len(DeviceId[t]) \in Nat /\ Len(DeviceId[t]) <= MaxHistory
  BY <1>1, HistoryRoom, IdString
<1>3. CASE sot = "SDI" /\ dev[t].state = Identifying
  <2>1. dev[t].ptsdi \in 2 .. Len(DeviceId[t])
    BY <1>3 DEF TransferTypes, Types, EngineOK, SdiInBounds, Identifying
  <2>2. dev[t].ptsdi - 1 \in Nat /\ dev[t].ptsdi - 1 < Len(DeviceId[t])
    BY <1>2, <2>1
  <2>3. Len(SubSeq(DeviceId[t], 1, dev[t].ptsdi - 1)) = dev[t].ptsdi - 1
    BY <2>2, IdString, PrefixGrows
  <2>4. log = SubSeq(DeviceId[t], 1, dev[t].ptsdi - 1)
    BY <1>3 DEF SentBy, Identifying
  <2>5. Len(log) < Len(DeviceId[t])
    BY <2>2, <2>3, <2>4
  <2> QED BY <1>1, <1>2, <2>5
<1>4. CASE sot = "SAI"
  <2>1. log = <<Aid[t]>>
    BY <1>4 DEF SentBy
  <2> QED BY <1>1, <1>2, <2>1
<1>5. CASE sot = "SDA"
  <2>1. Len(log) <= MaxLog
    BY <1>5 DEF SentBy
  <2> QED BY <1>1, <1>2, <2>1
<1>6. CASE sot = "SST"
  <2>1. Len(log) = 1 \/ Len(log) <= 2
    BY <1>6 DEF SentBy
  <2>2. Len(log) = 1 => Len(log) <= 2
    OBVIOUS
  <2>3. Len(log) <= 2
    BY <2>1, <2>2
  <2> QED BY <1>1, <1>2, <2>3
<1>7. CASE sot = "SDI" /\ dev[t].state # Identifying
  <2>1. Len(log) < Len(DeviceId[t])
    BY <1>7 DEF SentBy
  <2> QED BY <1>1, <1>2, <2>1
<1> QED BY <1>3, <1>4, <1>5, <1>6, <1>7 DEF SotKinds

\* A byte that is emitted is added to the history as it is.
LEMMA EmitNotes ==
  ASSUME TransferTypes, TransferHop, Len(log) < MaxHistory, NEW t, t = at,
         NEW b \in Byte, frame' = Dab(b),
         \/ frame.k \in DoeKinds /\ IsSource(t)
         \/ frame.k \in SotKinds /\ IsTalker(t)
  PROVE  /\ log' = Append(log, b) /\ log' \in Seq(Byte)
         /\ Len(log) \in Nat /\ Len(log') = Len(log) + 1
         /\ LastByte' = b
         /\ UNCHANGED <<heard, audience, cut, sot, phase, held, inFrame>>
<1>1. Emits(t) /\ frame'.n = b /\ ~Hears(t)
  BY DEF Emits, Dab, F, Hears, IsSource, IsListener, DoeKinds, SotKinds
<1>2. log' = Append(log, b) /\ UNCHANGED <<heard, audience, cut, sot, phase, held, inFrame>>
  BY <1>1 DEF TransferHop, Noted
<1> QED BY <1>2, Appended DEF TransferTypes, LastByte

\* The end of a transfer is no byte.
LEMMA EndNotes ==
  ASSUME TransferHop, NEW t, t = at, frame' = Eto, IsTalker(t)
  PROVE  UNCHANGED <<log, heard, audience, cut, sot, phase, held, inFrame>>
<1>1. ~Emits(t) /\ ~Hears(t)
  BY KindsOf DEF Emits, Hears, IsListener
<1> QED BY <1>1, SilentHop

\* A byte that on_send gives is one, and not the sign that it has none.
LEMMA BytesGiven == \A b \in Payload : b \in Byte /\ b # NoByte
BY InputsAssumption DEF Byte, NoByte

\* The modes of a source, and what clearing a bit makes of them.
LEMMA SourceModes ==
  /\ \A s \in {Sending, LastByteOut, StatusPending, Identifying, Identifying \ {"sda"}} :
       "addressed" \in s /\ "talker" \in s
  /\ "talker" \in Talker /\ "addressed" \notin Talker
  /\ "sda" \in Sending /\ "sda" \in Identifying /\ "sdi" \notin Sending
  /\ "sda" \notin LastByteOut /\ "sda" \notin StatusPending /\ "sst" \notin LastByteOut
  /\ "sst" \notin Identifying /\ "sst" \notin Sending /\ "sst" \in StatusPending
  /\ "sdi" \in Identifying
  /\ Sending \ {"sda"} = LastByteOut /\ LastByteOut \ {"sda"} = LastByteOut
  /\ StatusPending \ {"sda"} = StatusPending
  /\ StatusPending \ {"sst"} = LastByteOut
BY DEF Sending, LastByteOut, StatusPending, Identifying, Talker

\* What a talker has made of itself and of the frame.
Emitting(t) ==
  \E b \in Byte :
    /\ frame' = Dab(b) /\ log' = Append(log, b) /\ LastByte' = b
    /\ IsSource(t)' /\ SentBy(t)'
Ending(t) == frame' = Eto /\ dev'[t].state = Talker /\ UNCHANGED log

\* The first byte of a transfer.
LEMMA FirstByte ==
  ASSUME TransferTypes, Asking, TransferHop, NEW t \in Device, t = at, IsTalker(t)
  PROVE  /\ UNCHANGED <<heard, audience, cut, sot, phase, held, inFrame>>
         /\ \/ Ending(t) /\ sot = "SDA"
            \/ Emitting(t) /\ (sot = "SDI" => dev'[t].state = Identifying)
<1>0. /\ frame.k = sot /\ sot \in SotKinds /\ log = <<>> /\ Len(log) = 0
      /\ Types /\ MaxHistory \in Nat /\ Len(log) < MaxHistory
  BY HistoryRoom, TransferAssumption DEF Asking, ReadingFor, F, TransferTypes
<1>1. IsSource(t)' <=> "addressed" \in dev'[t].state /\ "talker" \in dev'[t].state
  BY DEF IsSource, Addressed, IsTalker, Is
<1>2. ASSUME NEW b \in Byte, frame' = Dab(b)
      PROVE  /\ UNCHANGED <<heard, audience, cut, sot, phase, held, inFrame>>
             /\ log' = Append(log, b) /\ LastByte' = b /\ Len(log') = 1 /\ log' = <<b>>
  <2>1. /\ UNCHANGED <<heard, audience, cut, sot, phase, held, inFrame>>
        /\ log' = Append(log, b) /\ LastByte' = b /\ Len(log') = Len(log) + 1
    BY <1>0, <1>2, EmitNotes
  <2> QED BY <1>0, <2>1
<1>3. CASE SendsNothing(t)
  <2>1. Enter(t, Talker, Eto) /\ sot = "SDA"
    BY <1>0, <1>3 DEF SendsNothing, Send, SendFirst, SendNext, DoeKinds, SotKinds
  <2> QED BY <1>0, <2>1, EnterEffect, EndNotes DEF Ending
<1>4. ASSUME NEW b \in Payload, Send(t, frame, b)
      PROVE  /\ UNCHANGED <<heard, audience, cut, sot, phase, held, inFrame>>
             /\ Emitting(t) /\ sot # "SDI"
  <2>1. b \in Byte /\ b # NoByte
    BY BytesGiven
  <2>2. Enter(t, Sending, Dab(b)) /\ sot = "SDA"
    BY <1>0, <1>4, <2>1 DEF Send, SendFirst, SendNext, DoeKinds, SotKinds
  <2>3. dev'[t].state = Sending /\ frame' = Dab(b)
    BY <1>0, <2>2, EnterEffect
  <2>4. sot' = "SDA" /\ Len(log') = 1
    BY <1>2, <2>1, <2>2, <2>3
  <2>5. Len(log') <= MaxLog
    BY <2>4, TransferAssumption
  <2>6. SentBy(t)'
    BY <2>3, <2>4, <2>5 DEF SentBy
  <2> QED BY <1>1, <1>2, <2>1, <2>2, <2>3, <2>6, SourceModes DEF Emitting
<1>5. ASSUME NEW s \in Payload, Status(t, frame, s)
      PROVE  /\ UNCHANGED <<heard, audience, cut, sot, phase, held, inFrame>>
             /\ Emitting(t) /\ sot # "SDI"
  <2>1. s \in Byte /\ sot = "SST"
    BY <1>0, <1>5, InputsAssumption DEF Status
  <2>2. frame' = Dab(s) /\ dev'[t].state \in {StatusPending, LastByteOut}
    BY <1>0, <1>5, EnterEffect DEF Status
  <2>3. Len(log') = 1 /\ sot' = "SST"
    BY <1>2, <2>1, <2>2
  <2>4. SentBy(t)'
    BY <2>2, <2>3 DEF SentBy
  <2> QED BY <1>1, <1>2, <2>1, <2>2, <2>4, SourceModes DEF Emitting
<1>6. CASE Identify(t, frame)
  <2> DEFINE b == DeviceId[t][1]
  <2>1. /\ dev'[t].state = Identifying /\ dev'[t].ptsdi = 2
        /\ frame' = Dab(b) /\ sot = "SDI"
    BY <1>0, <1>6 DEF Identify, Types, EngineOK, DevRecord
  <2>2. b \in Byte /\ DeviceId[t] \in Seq(Byte) /\ 0 < Len(DeviceId[t])
    BY IdString
  <2>3. SubSeq(DeviceId[t], 1, 1) = Append(SubSeq(DeviceId[t], 1, 0), b)
    <3>1. SubSeq(DeviceId[t], 1, 0 + 1) = Append(SubSeq(DeviceId[t], 1, 0), DeviceId[t][0 + 1])
      BY <2>2, PrefixGrows
    <3> QED BY <3>1
  <2>4. SubSeq(DeviceId[t], 1, 0) = <<>>
    BY SubSeqEmpty
  <2>5. log' = SubSeq(DeviceId[t], 1, dev'[t].ptsdi - 1)
    <3>1. dev'[t].ptsdi - 1 = 1
      BY <2>1
    <3> QED BY <1>0, <1>2, <2>1, <2>2, <2>3, <2>4, <3>1
  <2>6. sot' = "SDI"
    BY <1>2, <2>1, <2>2
  <2>7. SentBy(t)'
    BY <2>1, <2>5, <2>6 DEF SentBy
  <2> QED BY <1>1, <1>2, <2>1, <2>2, <2>7, SourceModes DEF Emitting
<1>7. CASE SendAid(t, frame)
  <2>1. Aid[t] \in Byte
    BY LoopAssumption
  <2>2. dev'[t].state = LastByteOut /\ frame' = Dab(Aid[t]) /\ sot = "SAI"
    BY <1>0, <1>7, EnterEffect DEF SendAid
  <2>3. log' = <<Aid[t]>> /\ sot' = "SAI"
    BY <1>2, <2>1, <2>2
  <2>4. SentBy(t)'
    BY <2>2, <2>3 DEF SentBy
  <2> QED BY <1>1, <1>2, <2>1, <2>2, <2>4, SourceModes DEF Emitting
<1> QED BY <1>0, <1>3, <1>4, <1>5, <1>6, <1>7, TalkerTurn DEF SendsByte

\* The mode of a source tells what it is sending.
LEMMA ModeTells ==
  ASSUME NEW t \in Device, sot \in SotKinds, SentBy(t)
  PROVE  /\ Is(t, "sda") /\ ~Is(t, "sdi") => sot = "SDA" /\ dev[t].state = Sending
         /\ Is(t, "sda") /\ Is(t, "sdi") =>
              /\ sot = "SDI" /\ dev[t].state = Identifying
              /\ log = SubSeq(DeviceId[t], 1, dev[t].ptsdi - 1)
         /\ ~Is(t, "sda") /\ Is(t, "sst") =>
              sot = "SST" /\ dev[t].state = StatusPending /\ Len(log) = 1
<1>1. dev[t].state = Identifying \ {"sda"} => ~Is(t, "sda") /\ ~Is(t, "sst")
  BY SourceModes DEF Is
<1>2. CASE sot = "SDA"
  BY <1>2, SourceModes DEF SentBy, Is
<1>3. CASE sot = "SST"
  BY <1>3, SourceModes DEF SentBy, Is
<1>4. CASE sot = "SDI"
  BY <1>1, <1>4, SourceModes DEF SentBy, Is
<1>5. CASE sot = "SAI"
  BY <1>5, SourceModes DEF SentBy, Is
<1> QED BY <1>2, <1>3, <1>4, <1>5 DEF SotKinds

\* The bytes after it.
LEMMA NextByte ==
  ASSUME TransferTypes, NEW t \in Device, t = at, Carrying(t), TransferHop
  PROVE  /\ UNCHANGED <<heard, audience, cut, sot, phase, held, inFrame>>
         /\ \/ /\ Ending(t)
               /\ phase = "reading" /\ sot \in {"SDI", "SAI"} => log = Answer(t)
            \/ /\ Emitting(t)
               /\ phase = "reading" /\ sot = "SDI" => dev'[t].state = Identifying
               /\ phase = "released" => ~Is(t, "sda")' /\ sot = "SST"
<1>0. /\ frame.k = "DAB" /\ frame.k \in DoeKinds /\ sot \in SotKinds
      /\ IsSource(t) /\ IsTalker(t) /\ SentBy(t) /\ Types
      /\ log \in Seq(Byte) /\ Len(log) \in Nat /\ Len(log) < MaxHistory
  BY SentRoom DEF Carrying, ReadingFor, Dab, F, DoeKinds, IsSource, TransferTypes
<1>1. IsSource(t)' <=> "addressed" \in dev'[t].state /\ "talker" \in dev'[t].state
  BY DEF IsSource, Addressed, IsTalker, Is
<1>2. ASSUME NEW b \in Byte, frame' = Dab(b)
      PROVE  /\ UNCHANGED <<heard, audience, cut, sot, phase, held, inFrame>>
             /\ log' = Append(log, b) /\ LastByte' = b /\ Len(log') = Len(log) + 1
  BY <1>0, <1>2, EmitNotes
<1>3. ASSUME Enter(t, Talker, Eto)
      PROVE  Ending(t) /\ UNCHANGED <<heard, audience, cut, sot, phase, held, inFrame>>
  BY <1>0, <1>3, EnterEffect, EndNotes DEF Ending
<1>4. CASE SendsNothing(t)
  <2>1. Enter(t, Talker, Eto) /\ Is(t, "sda") /\ ~Is(t, "sdi")
    BY <1>0, <1>4 DEF SendsNothing, Send, SendFirst, SendNext
  <2>2. sot = "SDA"
    BY <1>0, <2>1, ModeTells
  <2> QED BY <1>3, <2>1, <2>2
<1>5. ASSUME NEW b \in Payload, Send(t, frame, b)
      PROVE  /\ UNCHANGED <<heard, audience, cut, sot, phase, held, inFrame>>
             /\ Emitting(t) /\ sot # "SDI" /\ phase # "released"
  <2>1. b \in Byte /\ b # NoByte
    BY BytesGiven
  <2>2. Pass(Dab(b)) /\ Is(t, "sda") /\ ~Is(t, "sdi")
    BY <1>0, <1>5, <2>1 DEF Send, SendFirst, SendNext
  <2>3. sot = "SDA" /\ dev'[t].state = Sending /\ frame' = Dab(b)
    BY <1>0, <2>2, ModeTells DEF Pass
  <2>4. phase = "reading" /\ ~(t < at)
    <3>1. phase # "released"
      BY <2>2 DEF Carrying
    <3>2. ~(t < t)
      BY PartiesOrdered
    <3> QED BY <3>1, <3>2 DEF Carrying, ReadingFor
  <2>5. Len(log') <= MaxLog
    <3>1. Len(log) < MaxLog
      BY <2>3, <2>4 DEF Carrying, Wants
    <3>2. Len(log') = Len(log) + 1
      BY <1>2, <2>1, <2>3
    <3> QED BY <1>0, <3>1, <3>2, TransferAssumption
  <2>6. sot' = "SDA"
    BY <1>2, <2>1, <2>3
  <2>7. SentBy(t)'
    BY <2>3, <2>5, <2>6 DEF SentBy
  <2>8. Emitting(t)
    BY <1>1, <1>2, <2>1, <2>3, <2>7, SourceModes DEF Emitting
  <2> QED BY <1>2, <2>1, <2>3, <2>4, <2>8
<1>6. CASE NextIdByte(t, frame)
  <2> DEFINE n == dev[t].ptsdi
             b == DeviceId[t][n]
  <2>1. Is(t, "sda") /\ Is(t, "sdi")
    BY <1>6 DEF NextIdByte
  <2>2. /\ sot = "SDI" /\ dev[t].state = Identifying
        /\ log = SubSeq(DeviceId[t], 1, n - 1)
    BY <1>0, <2>1, ModeTells
  <2>3. n \in 2 .. Len(DeviceId[t]) /\ Len(DeviceId[t]) \in Nat /\ b # CR
    BY <1>0, <1>6, <2>1, IdString DEF NextIdByte, Types, EngineOK, SdiInBounds, Is
  <2>4. n # Len(DeviceId[t]) /\ b \in Byte
    BY <2>3, IdString
  <2>5. /\ dev'[t].state = Identifying /\ dev'[t].ptsdi = n + 1
        /\ frame' = Dab(b)
    BY <1>0, <1>6, <2>2 DEF NextIdByte, Types, EngineOK, DevRecord
  <2>6. SubSeq(DeviceId[t], 1, n) = Append(SubSeq(DeviceId[t], 1, n - 1), b)
    <3>1. n - 1 \in Nat /\ n - 1 < Len(DeviceId[t]) /\ (n - 1) + 1 = n
      BY <2>3
    <3>2. SubSeq(DeviceId[t], 1, (n - 1) + 1)
            = Append(SubSeq(DeviceId[t], 1, n - 1), DeviceId[t][(n - 1) + 1])
      BY <3>1, IdString, PrefixGrows
    <3> QED BY <3>1, <3>2
  <2>7. dev'[t].ptsdi - 1 = n
    BY <2>3, <2>5
  <2> HIDE DEF n, b
  <2>8. /\ UNCHANGED <<heard, audience, cut, sot, phase, held, inFrame>>
        /\ log' = Append(log, b) /\ LastByte' = b
    BY <1>2, <2>4, <2>5
  <2>9. log' = SubSeq(DeviceId[t], 1, dev'[t].ptsdi - 1) /\ sot' = "SDI"
    BY <2>2, <2>6, <2>7, <2>8
  <2>10. SentBy(t)'
    BY <2>5, <2>9 DEF SentBy
  <2>11. Emitting(t)
    BY <1>1, <2>4, <2>5, <2>8, <2>10, SourceModes DEF Emitting
  <2>12. phase # "released"
    BY <2>1 DEF Carrying
  <2> QED BY <2>5, <2>8, <2>11, <2>12
<1>7. CASE EndOfId(t, frame)
  <2>1. Is(t, "sda") /\ Is(t, "sdi")
    BY <1>7 DEF EndOfId
  <2>2. /\ sot = "SDI" /\ dev[t].state = Identifying
        /\ log = SubSeq(DeviceId[t], 1, dev[t].ptsdi - 1)
    BY <1>0, <2>1, ModeTells
  <2>3. dev[t].ptsdi \in 2 .. Len(DeviceId[t]) /\ Len(DeviceId[t]) \in Nat
    BY <1>0, <2>1, IdString DEF Types, EngineOK, SdiInBounds, Is
  <2>4. dev[t].ptsdi = Len(DeviceId[t])
    BY <1>7, <2>3, IdString DEF EndOfId
  <2>5. log = Answer(t)
    BY <2>2, <2>4 DEF Answer, Characters
  <2>6. dev'[t].state = Talker /\ frame' = Eto
    BY <1>0, <1>7 DEF EndOfId, Types, EngineOK, DevRecord
  <2>7. UNCHANGED <<log, heard, audience, cut, sot, phase, held, inFrame>>
    BY <1>0, <2>6, EndNotes
  <2> QED BY <2>5, <2>6, <2>7 DEF Ending
<1>8. CASE SendDone(t, frame)
  <2>1. Enter(t, Talker, Eto) /\ ~Is(t, "sda")
    BY <1>8 DEF SendDone
  <2>2. phase = "reading" => sot # "SDI"
    BY <2>1, SourceModes DEF Carrying, Is
  <2>3. sot = "SAI" => log = Answer(t)
    BY <1>0 DEF SentBy, Answer
  <2> QED BY <1>3, <2>1, <2>2, <2>3
<1>9. ASSUME NEW s \in Payload, Status2(t, frame, s)
      PROVE  /\ UNCHANGED <<heard, audience, cut, sot, phase, held, inFrame>>
             /\ Emitting(t) /\ sot = "SST" /\ ~Is(t, "sda")'
  <2>1. /\ s \in Byte /\ ~Is(t, "sda") /\ Is(t, "sst")
        /\ Enter(t, dev[t].state \ {"sst"}, Dab(s))
    BY <1>9, InputsAssumption DEF Status2
  <2>2. sot = "SST" /\ dev[t].state = StatusPending /\ Len(log) = 1
    BY <1>0, <2>1, ModeTells
  <2>3. frame' = Dab(s) /\ dev'[t].state = LastByteOut
    BY <1>0, <2>1, <2>2, EnterEffect, SourceModes
  <2>4. /\ UNCHANGED <<heard, audience, cut, sot, phase, held, inFrame>>
        /\ log' = Append(log, s) /\ LastByte' = s /\ Len(log') = 2
    BY <1>2, <2>1, <2>2, <2>3
  <2>5. Len(log') <= 2 /\ sot' = "SST"
    BY <2>2, <2>4
  <2>6. SentBy(t)'
    BY <2>3, <2>5 DEF SentBy
  <2>7. ~Is(t, "sda")'
    BY <2>3, SourceModes DEF Is
  <2> QED BY <1>1, <2>1, <2>2, <2>3, <2>4, <2>6, <2>7, SourceModes DEF Emitting
<1> QED BY <1>0, <1>4, <1>5, <1>6, <1>7, <1>8, <1>9, SourceTurn DEF SendsByte

-----------------------------------------------------------------------------
(***************************************************************************)
(* The hops, stage by stage                                                *)
(***************************************************************************)
Heeded == Broadcast!Next \/ UNCHANGED <<audience, log, heard, cut>>

\* While data is read there is one talker at most.
LEMMA ReadingTalker ==
  ASSUME AddressInv, NEW phases, ReadingFor(phases)
  PROVE  OneTalker(Device)
BY DEF ReadingFor, AddressInv, TalkerStable, SotKinds

\* The talker's turn changes nobody's part but its own.
LEMMA RolesKept ==
  ASSUME NEW t \in Device, OneTalker(Device), IsTalker(t),
         \A d \in Device \ {t} : dev'[d] = dev[d],
         "talker" \in dev'[t].state
  PROVE  /\ Listeners' = Listeners /\ t \notin Listeners
         /\ \A d \in Device : IsTalker(d)' <=> d = t
         /\ "addressed" \notin dev'[t].state => NoSource'
<1>1. \A d \in Device : IsTalker(d) <=> d = t
  BY DEF OneTalker
<1>2. \A d \in Device : IsTalker(d)' <=> d = t
  BY <1>1 DEF IsTalker, Is
<1>3. Listeners' = Listeners /\ t \notin Listeners
  BY <1>1, <1>2 DEF Listeners, IsListener, Addressed, Is
<1>4. "addressed" \notin dev'[t].state => NoSource'
  BY <1>2 DEF NoSource, IsSource, Addressed, Is
<1> QED BY <1>2, <1>3, <1>4

LEMMA WritingHop ==
  ASSUME TransferTypes, AddressInv, Writing, TransferHop
  PROVE  Stages' /\ Heeded
<1>1. PICK d \in Device : d = at
  BY HopIs DEF Hop
<1>2. /\ at' = at + 1 /\ at \in Nat /\ ~Out
      /\ log # <<>> /\ frame = Dab(LastByte) /\ inFrame = frame /\ ~IsSource(d)
  BY <1>1, PartiesOrdered DEF TransferHop, Writing, NoSource, Out
<1>3. PICK late : late = {p \in Party : p >= at}
  OBVIOUS
<1>4. Len(log) < MaxHistory
  <2>1. Len(log) \in Nat /\ Len(log) <= MaxLog /\ MaxLog \in Nat /\ MaxHistory \in Nat
    BY LenProperties, TransferAssumption DEF TransferTypes, Writing
  <2>2. MaxHistory > MaxLog
    BY HistoryRoom
  <2> QED BY <2>1, <2>2
<1>5. audience \cap Device = Listeners /\ HeardBut(late) /\ d \in late
  BY <1>1, <1>2, <1>3, PartiesOrdered DEF Writing, Listeners
<1>6. /\ UNCHANGED <<frame, dev, log, audience, cut, sot, phase, held, inFrame>>
      /\ HeardBut(late \ {d})' /\ Heeded
  BY <1>1, <1>2, <1>4, <1>5, BytePasses DEF Heeded
<1>7. late \ {d} = {p \in Party : p >= at'}
  BY <1>1, <1>2, <1>3, PartiesOrdered
<1>8. HeardBut({p \in Party : p >= at})'
  BY <1>6, <1>7 DEF HeardBut
<1>9. LastByte' = LastByte
  BY <1>6 DEF LastByte
<1>10. Writing'
  BY <1>2, <1>6, <1>8, <1>9, SameRoles DEF Writing
<1> QED BY <1>6, <1>10 DEF Stages

LEMMA AskingHop ==
  ASSUME TransferTypes, AddressInv, Asking, TransferHop
  PROVE  Stages' /\ Heeded
<1>1. PICK t \in Device : t = at
  BY HopIs DEF Hop
<1>2. /\ at' = at + 1 /\ at \in Nat /\ Turn(t, frame) /\ Types
      /\ frame.k = sot /\ sot \in SotKinds /\ phase = "reading"
      /\ audience = Listeners \cup {Controller} /\ ~cut
      /\ inFrame.k \in SotKinds \cup {"DAB", "NRD"}
  BY <1>1, HopIs, PartiesOrdered DEF TransferHop, Hop, Asking, ReadingFor, F, TransferTypes
<1>3. OneTalker(Device)
  BY ReadingTalker DEF Asking
<1>4. CASE ~IsTalker(t)
  <2>1. frame' = frame /\ dev' = dev
    BY <1>2, <1>4, OthersPass DEF Pass, SotKinds, Asks
  <2>2. ~Emits(t) /\ ~Hears(t)
    BY <1>2, <1>4 DEF Emits, Hears, DoeKinds, SotKinds
  <2>3. UNCHANGED <<log, heard, audience, cut, sot, phase, held, inFrame>>
    BY <1>1, <2>2, SilentHop
  <2>4. \A d \in Device : d < at' => ~IsTalker(d)
    BY <1>1, <1>2, <1>4, PartiesOrdered DEF Asking
  <2>5. HeardBut({})'
    BY <2>3, SameLate DEF Asking
  <2>6. Asking'
    BY <2>1, <2>3, <2>4, <2>5, SameRoles DEF Asking, ReadingFor
  <2> QED BY <2>3, <2>6 DEF Stages, Heeded
<1>5. CASE IsTalker(t)
  <2>1. /\ UNCHANGED <<heard, audience, cut, sot, phase, held, inFrame>>
        /\ \/ Ending(t) /\ sot = "SDA"
           \/ Emitting(t) /\ (sot = "SDI" => dev'[t].state = Identifying)
    BY <1>1, <1>5, FirstByte
  <2>2. \A d \in Device \ {t} : dev'[d] = dev[d]
    BY <1>1, HopIs
  <2>3. CASE Ending(t) /\ sot = "SDA"
    <3>1. Listeners' = Listeners /\ NoSource' /\ frame' = Eto /\ UNCHANGED log
      BY <1>3, <1>5, <2>2, <2>3, RolesKept, SourceModes DEF Ending
    <3>2. HeardBut({})'
      BY <2>1, <3>1, SameLate DEF Asking
    <3>3. Len(log') < MaxHistory
      BY <3>1, HistoryRoom, TransferAssumption DEF Asking
    <3>4. ReadingFor({"reading", "released"})'
      BY <1>2, <2>1, <3>1 DEF ReadingFor
    <3>5. Over'
      BY <2>1, <2>3, <3>1, <3>2, <3>3, <3>4 DEF Over
    <3> QED BY <2>1, <3>1, <3>5 DEF Stages, Heeded
  <2>4. CASE Emitting(t) /\ (sot = "SDI" => dev'[t].state = Identifying)
    <3>1. PICK b \in Byte : /\ frame' = Dab(b) /\ log' = Append(log, b) /\ LastByte' = b
                            /\ IsSource(t)' /\ SentBy(t)'
      BY <2>4 DEF Emitting
    <3>2. Listeners' = Listeners /\ t \notin Listeners
      BY <1>3, <1>5, <2>2, <3>1, RolesKept DEF IsSource, IsTalker, Is
    <3>3. PICK after : after = {p \in Party : p < t \/ p >= t + 1}
      OBVIOUS
    <3>4. audience \subseteq after
      BY <1>1, <1>2, <3>2, <3>3, PartiesOrdered DEF Listeners
    <3>5. Heeded /\ HeardBut(after)'
      BY <1>2, <2>1, <3>1, <3>4, AllLate DEF Asking, Heeded
    <3>6. Reaching(t)' = after
      BY <1>1, <1>2, <3>3, PartiesOrdered DEF Reaching
    <3>7. HeardBut(Reaching(t))'
      BY <3>5, <3>6 DEF HeardBut
    <3>8. ReadingFor({"reading", "released"})' /\ phase' = "reading"
      BY <1>2, <2>1, <3>2 DEF ReadingFor
    <3>9. log' # <<>>
      BY <3>1, Appended DEF TransferTypes
    <3>10. t < at'
      BY <1>1, <1>2, PartiesOrdered
    <3>11. Carrying(t)'
      BY <2>1, <2>4, <3>1, <3>7, <3>8, <3>9, <3>10 DEF Carrying
    <3> QED BY <3>5, <3>11 DEF Stages
  <2> QED BY <2>1, <2>3, <2>4
<1> QED BY <1>4, <1>5

LEMMA CarryingHop ==
  ASSUME TransferTypes, AddressInv, NEW t \in Device, Carrying(t), TransferHop
  PROVE  Stages' /\ Heeded
<1>1. PICK d \in Device : d = at
  BY HopIs DEF Hop
<1>2. /\ at' = at + 1 /\ at \in Nat /\ Turn(d, frame) /\ Types
      /\ sot \in SotKinds /\ phase \in {"reading", "released"}
      /\ audience = Listeners \cup {Controller} /\ ~cut
      /\ inFrame.k \in SotKinds \cup {"DAB", "NRD"}
      /\ frame = Dab(LastByte) /\ log # <<>> /\ IsSource(t) /\ IsTalker(t) /\ SentBy(t)
  BY <1>1, HopIs, PartiesOrdered
  DEF TransferHop, Hop, Carrying, ReadingFor, TransferTypes, IsSource
<1>3. OneTalker(Device)
  BY ReadingTalker DEF Carrying
<1>4. Len(log) < MaxHistory
  BY <1>2, SentRoom
<1>5. \A e \in Device \ {d} : dev'[e] = dev[e]
  BY <1>1, HopIs
<1>6. PICK late : late = Reaching(t)
  OBVIOUS
<1>7. CASE d = t
  <2>1. audience \cap late = {} /\ HeardBut(late)
    <3>1. \A p \in Party : ~(at <= p /\ p < t)
      BY <1>1, <1>7, PartiesOrdered
    <3>2. late = {}
      <4>1. ~(t < at)
        BY <1>1, <1>7, PartiesOrdered
      <4>2. late = {p \in Party : at <= p /\ p < t}
        BY <1>6, <4>1 DEF Reaching
      <4> QED BY <3>1, <4>2
    <3> QED BY <1>6, <3>2 DEF Carrying
  <2>2. /\ UNCHANGED <<heard, audience, cut, sot, phase, held, inFrame>>
        /\ \/ /\ Ending(t)
              /\ phase = "reading" /\ sot \in {"SDI", "SAI"} => log = Answer(t)
           \/ /\ Emitting(t)
              /\ phase = "reading" /\ sot = "SDI" => dev'[t].state = Identifying
              /\ phase = "released" => ~Is(t, "sda")' /\ sot = "SST"
    BY <1>1, <1>7, NextByte
  <2>3. CASE /\ Ending(t)
             /\ phase = "reading" /\ sot \in {"SDI", "SAI"} => log = Answer(t)
    <3>1. /\ Listeners' = Listeners /\ NoSource' /\ frame' = Eto /\ UNCHANGED log
          /\ \A e \in Device : IsTalker(e)' <=> e = t
      BY <1>2, <1>3, <1>5, <1>7, <2>3, RolesKept, SourceModes DEF Ending
    <3>2. HeardBut({})'
      BY <2>1, <2>2, <3>1, SameLate
    <3>3. Len(log') < MaxHistory
      BY <1>4, <3>1
    <3>4. ReadingFor({"reading", "released"})'
      BY <1>2, <2>2, <3>1 DEF ReadingFor
    <3>5. phase' = "reading" /\ sot' \in {"SDI", "SAI"} =>
            \A e \in Device : IsTalker(e)' => log' = Answer(e)'
      BY <2>2, <2>3, <3>1 DEF Answer
    <3>6. Over'
      BY <3>1, <3>2, <3>3, <3>4, <3>5 DEF Over
    <3> QED BY <2>2, <3>1, <3>6 DEF Stages, Heeded
  <2>4. CASE /\ Emitting(t)
             /\ phase = "reading" /\ sot = "SDI" => dev'[t].state = Identifying
             /\ phase = "released" => ~Is(t, "sda")' /\ sot = "SST"
    <3>1. PICK b \in Byte : /\ frame' = Dab(b) /\ log' = Append(log, b) /\ LastByte' = b
                            /\ IsSource(t)' /\ SentBy(t)'
      BY <2>4 DEF Emitting
    <3>2. Listeners' = Listeners /\ t \notin Listeners
      BY <1>2, <1>3, <1>5, <1>7, <3>1, RolesKept DEF IsSource, IsTalker, Is
    <3>3. PICK after : after = {p \in Party : p < t \/ p >= t + 1}
      OBVIOUS
    <3>4. audience \subseteq after
      <4>1. \A p \in Party \ {t} : p < t \/ p >= t + 1
        BY PartiesOrdered
      <4>2. audience \subseteq Party \ {t}
        BY <1>2, <3>2, PartiesOrdered DEF Listeners
      <4> QED BY <3>3, <4>1, <4>2
    <3>5. Heeded /\ HeardBut(after)'
      BY <1>2, <2>1, <2>2, <3>1, <3>4, AllLate DEF Heeded
    <3>6. Reaching(t)' = after
      BY <1>1, <1>2, <1>7, <3>3, PartiesOrdered DEF Reaching
    <3>7. HeardBut(Reaching(t))'
      BY <3>5, <3>6 DEF HeardBut
    <3>8. ReadingFor({"reading", "released"})'
      BY <1>2, <2>2, <3>2 DEF ReadingFor
    <3>9. log' # <<>>
      BY <3>1, Appended DEF TransferTypes
    <3>10. t < at'
      BY <1>1, <1>2, <1>7, PartiesOrdered
    <3>11. Carrying(t)'
      BY <2>2, <2>4, <3>1, <3>7, <3>8, <3>9, <3>10 DEF Carrying
    <3> QED BY <3>5, <3>11 DEF Stages
  <2> QED BY <2>2, <2>3, <2>4
<1>8. CASE d # t
  <2>1. ~IsSource(d)
    BY <1>2, <1>3, <1>8 DEF OneTalker, IsSource
  <2>2. audience \cap Device = Listeners /\ HeardBut(late)
    BY <1>2, <1>6, PartiesOrdered DEF Listeners, Carrying
  <2>3. d \in late
    BY <1>1, <1>6, <1>8, PartiesOrdered DEF Reaching
  <2>4. /\ UNCHANGED <<frame, dev, log, audience, cut, sot, phase, held, inFrame>>
        /\ HeardBut(late \ {d})' /\ Heeded
    BY <1>1, <1>2, <1>4, <2>1, <2>2, <2>3, BytePasses DEF Heeded
  <2>5. Reaching(t)' = late \ {d}
    <3>1. CASE t < at
      <4>1. /\ t < at' /\ \A p \in Party : p < t => p # d
            /\ \A p \in Party : p >= at' <=> p >= at /\ p # d
        BY <1>1, <1>2, <3>1, PartiesOrdered
      <4>2. late = {p \in Party : p < t \/ p >= at}
        BY <1>6, <3>1 DEF Reaching
      <4>3. Reaching(t)' = {p \in Party : p < t \/ p >= at'}
        BY <4>1 DEF Reaching
      <4> QED BY <4>1, <4>2, <4>3
    <3>2. CASE at < t
      <4>1. /\ ~(t < at') /\ ~(t < at)
            /\ \A p \in Party : at' <= p <=> at <= p /\ p # d
        BY <1>1, <1>2, <3>2, PartiesOrdered
      <4>2. late = {p \in Party : at <= p /\ p < t}
        BY <1>6, <4>1 DEF Reaching
      <4>3. Reaching(t)' = {p \in Party : at' <= p /\ p < t}
        BY <4>1 DEF Reaching
      <4> QED BY <4>1, <4>2, <4>3
    <3> QED BY <1>1, <1>8, <3>1, <3>2, PartiesOrdered
  <2>6. HeardBut(Reaching(t))'
    BY <2>4, <2>5 DEF HeardBut
  <2>7. SentBy(t)'
    BY <1>2, <1>5, <1>8, <2>4 DEF SentBy
  <2>8. t < at' <=> t < at
    BY <1>1, <1>2, <1>8, PartiesOrdered
  <2>9. ReadingFor({"reading", "released"})' /\ IsSource(t)' /\ LastByte' = LastByte
    BY <1>2, <2>4, SameRoles DEF ReadingFor, LastByte
  <2>10. /\ Is(t, "sda")' <=> Is(t, "sda")
         /\ Wants => Wants'
    BY <2>4 DEF Is, Wants
  <2>11. Carrying(t)'
    BY <1>2, <2>4, <2>6, <2>7, <2>8, <2>9, <2>10 DEF Carrying
  <2> QED BY <2>4, <2>11 DEF Stages
<1> QED BY <1>7, <1>8

\* What NRD does to the talker.
LEMMA TalkerStops ==
  ASSUME TransferHop, NEW t, t = at, frame.k = "NRD", IsTalker(t)
  PROVE  NotReady(t, frame)
<1>1. \A b : ~Send(t, frame, b) /\ ~Status(t, frame, b) /\ ~Status2(t, frame, b)
  BY DEF Send, SendFirst, SendNext, Status, Status2, DoeKinds
<1>2. /\ ~Hear(t, frame) /\ ~Clear(t, frame) /\ ~Command(t, frame)
      /\ \A q \in BOOLEAN : ~Poll(t, frame, q)
  BY DEF Hear, Clear, Command, Poll, DoeKinds
<1>3. Quiet(t, frame) => NotReady(t, frame)
  BY DEF Quiet, NextIdByte, EndOfId, SendDone, Listen, Unlisten, Talk, Untalk,
     InterfaceClear, Unconfigure, Identify, SendAid, TakeAddress, Ignore, DoeKinds
<1> QED BY <1>1, <1>2, <1>3 DEF TransferHop, SendTurn, OtherTurn

\* A source that was stopped is one that has sent as much.
LEMMA StoppedSent ==
  ASSUME TransferTypes, NEW t \in Device, IsSource(t), sot \in SotKinds, SentBy(t),
         dev'[t].state = dev[t].state \ {"sda"},
         UNCHANGED <<log, sot>>
  PROVE  IsSource(t)' /\ SentBy(t)' /\ ~Is(t, "sda")'
<1>1. IsSource(t)' /\ ~Is(t, "sda")'
  BY DEF IsSource, Addressed, IsTalker, Is
<1>2. CASE sot = "SDI"
  <2>1. (Identifying \ {"sda"}) \ {"sda"} = Identifying \ {"sda"}
    OBVIOUS
  <2>2. dev'[t].state = Identifying \ {"sda"}
    BY <1>2, <2>1 DEF SentBy
  <2>3. Len(log) < Len(DeviceId[t])
    <3>1. CASE dev[t].state = Identifying
      <4>1. /\ dev[t].ptsdi \in 2 .. Len(DeviceId[t]) /\ Len(DeviceId[t]) \in Nat
            /\ dev[t].state # Identifying \ {"sda"}
        BY <3>1, IdString, SourceModes DEF TransferTypes, Types, EngineOK, SdiInBounds
      <4>2. dev[t].ptsdi - 1 \in Nat /\ dev[t].ptsdi - 1 < Len(DeviceId[t])
        BY <4>1
      <4>3. log = SubSeq(DeviceId[t], 1, dev[t].ptsdi - 1)
        BY <1>2, <4>1 DEF SentBy
      <4>4. Len(log) = dev[t].ptsdi - 1
        BY <4>2, <4>3, IdString, PrefixGrows
      <4> QED BY <4>2, <4>4
    <3> QED BY <1>2, <3>1 DEF SentBy
  <2> QED BY <1>1, <1>2, <2>2, <2>3 DEF SentBy
<1>3. CASE sot # "SDI"
  BY <1>1, <1>3, SourceModes DEF SentBy
<1> QED BY <1>2, <1>3

LEMMA StoppingHop ==
  ASSUME TransferTypes, AddressInv, NEW t \in Device, Stopping(t), TransferHop
  PROVE  Stages' /\ Heeded
<1>1. PICK d \in Device : d = at
  BY HopIs DEF Hop
<1>2. /\ at' = at + 1 /\ at \in Nat /\ Turn(d, frame) /\ Types
      /\ sot \in SotKinds /\ phase = "nrd"
      /\ audience = Listeners \cup {Controller} /\ ~cut
      /\ inFrame.k \in SotKinds \cup {"DAB", "NRD"}
      /\ frame = F("NRD", 0) /\ frame.k = "NRD"
      /\ held = Dab(LastByte) /\ log # <<>> /\ IsSource(t) /\ IsTalker(t) /\ SentBy(t)
  BY <1>1, HopIs, PartiesOrdered
  DEF TransferHop, Hop, Stopping, ReadingFor, TransferTypes, IsSource, F
<1>3. OneTalker(Device)
  BY ReadingTalker DEF Stopping
<1>4. UNCHANGED <<log, heard, audience, cut, sot, phase, held, inFrame>>
  <2>1. ~Emits(d) /\ ~Hears(d)
    BY <1>2 DEF Emits, Hears, DoeKinds, SotKinds
  <2> QED BY <1>1, <2>1, SilentHop
<1>5. \A e \in Device \ {d} : dev'[e] = dev[e]
  BY <1>1, HopIs
<1>6. Heeded /\ LastByte' = LastByte /\ HeardBut({p \in Party : Controller < p /\ p < t})'
  <2>1. HeardBut({p \in Party : Controller < p /\ p < t})
    BY DEF Stopping
  <2> QED BY <1>4, <2>1, SameLate DEF Heeded, LastByte
<1>7. CASE d = t
  <2>1. NotReady(t, frame)
    BY <1>1, <1>2, <1>7, TalkerStops
  <2>2. frame' = frame /\ dev'[t].state = dev[t].state \ {"sda"}
    BY <1>2, <2>1 DEF NotReady, Types, EngineOK, DevRecord
  <2>3. IsSource(t)' /\ SentBy(t)' /\ ~Is(t, "sda")'
    BY <1>2, <1>4, <2>1, <2>2, StoppedSent
  <2>4. Listeners' = Listeners
    BY <1>2, <1>3, <1>5, <1>7, <2>3, RolesKept DEF IsSource, IsTalker, Is
  <2>5. ReadingFor({"nrd"})'
    BY <1>2, <1>4, <2>4 DEF ReadingFor
  <2>6. Stopping(t)'
    BY <1>2, <1>4, <1>6, <2>2, <2>3, <2>5 DEF Stopping
  <2> QED BY <1>6, <2>6 DEF Stages
<1>8. CASE d # t
  <2>1. ~IsTalker(d)
    BY <1>2, <1>3, <1>8 DEF OneTalker
  <2>2. frame' = frame /\ dev' = dev
    BY <1>2, <2>1, OthersPass DEF Pass
  <2>3. SentBy(t)'
    BY <1>2, <1>4, <1>5, <1>8, <2>2 DEF SentBy
  <2>4. t < at' => t < at
    BY <1>1, <1>2, <1>8, PartiesOrdered
  <2>5. ReadingFor({"nrd"})' /\ IsSource(t)' /\ (Is(t, "sda")' <=> Is(t, "sda"))
    BY <1>2, <1>4, <2>2, SameRoles DEF ReadingFor, Is
  <2>6. Stopping(t)'
    BY <1>2, <1>4, <1>6, <2>2, <2>3, <2>4, <2>5 DEF Stopping
  <2> QED BY <1>6, <2>6 DEF Stages
<1> QED BY <1>7, <1>8

LEMMA OverHop ==
  ASSUME TransferTypes, AddressInv, Over, TransferHop
  PROVE  Stages' /\ Heeded
<1>1. PICK d \in Device : d = at
  BY HopIs DEF Hop
<1>2. Turn(d, frame) /\ frame = Eto /\ frame.k = "ETO"
  BY <1>1, HopIs DEF Hop, Over, Eto, F
<1>3. frame' = frame /\ dev' = dev
  BY <1>2, OthersPass DEF Pass
<1>4. UNCHANGED <<log, heard, audience, cut, sot, phase, held, inFrame>>
  <2>1. ~Emits(d) /\ ~Hears(d)
    BY <1>2 DEF Emits, Hears, DoeKinds, SotKinds
  <2> QED BY <1>1, <2>1, SilentHop
<1>5. HeardBut({})'
  BY <1>4, SameLate DEF Over
<1>6. ReadingFor({"reading", "released"})' /\ NoSource'
  BY <1>3, <1>4, SameRoles DEF Over, ReadingFor
<1>7. \A e \in Device : Answer(e)' = Answer(e) /\ IsTalker(e)' = IsTalker(e)
  BY <1>3, <1>4, SameRoles DEF Answer
<1>8. Over'
  BY <1>3, <1>4, <1>5, <1>6, <1>7 DEF Over
<1> QED BY <1>4, <1>8 DEF Stages, Heeded

LEMMA HopKeepsStages ==
  ASSUME TransferTypes, AddressInv, Stages, TransferHop
  PROVE  Stages' /\ Heeded
BY RestingHop, WritingHop, AskingHop, CarryingHop, StoppingHop, OverHop DEF Stages, Heeded

-----------------------------------------------------------------------------
(***************************************************************************)
(* The controller's steps                                                  *)
(***************************************************************************)

\* The phase and the frame tell the stage.
LEMMA StageOf ==
  ASSUME Stages
  PROVE  /\ phase = "idle" => Resting
         /\ phase = "writing" => Writing
         /\ phase = "nrd" => \E t \in Device : Stopping(t)
         /\ phase \in {"reading", "released"} =>
              IF frame.k = "DAB" THEN \E t \in Device : Carrying(t) ELSE Asking \/ Over
<1>1. Asking \/ Over => phase \in {"reading", "released"} /\ frame.k # "DAB"
  BY DEF Asking, Over, ReadingFor, F, Eto, SotKinds
<1>2. \A t \in Device : Carrying(t) => phase \in {"reading", "released"} /\ frame.k = "DAB"
  BY DEF Carrying, ReadingFor, F, Dab
<1>3. \A t \in Device : Stopping(t) => phase = "nrd"
  BY DEF Stopping, ReadingFor
<1>4. (Resting => phase = "idle") /\ (Writing => phase = "writing")
  BY DEF Resting, Writing
<1> QED BY <1>1, <1>2, <1>3, <1>4 DEF Stages

\* When the frame is out it has passed every device.
LEMMA OutPassed ==
  ASSUME Out
  PROVE  at \notin Device /\ \A d \in Device : d < at /\ ~(d >= at)
BY PartiesOrdered DEF Out, Device

\* A history that starts anew.
LEMMA NothingHeard ==
  ASSUME log' = <<>>, heard' = Silence, NEW late
  PROVE  HeardBut(late)'
<1>1. Earlier' = <<>>
  <2>1. Len(log') - 1 \in Int /\ Len(log') - 1 < 1
    OBVIOUS
  <2> QED BY <2>1, SubSeqEmpty DEF Earlier, Front
<1> QED BY <1>1 DEF HeardBut, Silence

\* A transfer that is forgotten has been heard by all, or is cut off.
LEMMA Forgets ==
  ASSUME ForgetTransfer, \/ ~cut /\ HeardBut({}) /\ audience \subseteq Party /\ UNCHANGED cut
                         \/ cut' = TRUE
  PROVE  Heeded /\ HeardBut({})'
<1>1. HeardBut({})'
  BY NothingHeard DEF ForgetTransfer
<1>2. Broadcast!Forget
  BY DEF ForgetTransfer, Broadcast!Forget, Broadcast!Silence, Silence
<1>3. HeardBut({}) /\ audience \subseteq Party => Broadcast!Complete
  BY DEF HeardBut, Broadcast!Complete
<1>4. Broadcast!End \/ Broadcast!Abort
  BY <1>2, <1>3 DEF Broadcast!End, Broadcast!Abort
<1> QED BY <1>1, <1>4 DEF Heeded, Broadcast!Next

LEMMA InstructKeepsStages ==
  ASSUME Stages, NEW f, Instruct(f)
  PROVE  Stages' /\ Heeded
<1>1. Resting /\ Out
  BY StageOf DEF Instruct, Inject
<1>2. /\ dev' = dev /\ frame' = f /\ f.k \notin DoeKinds \cup SotKinds \cup {"NRD"}
      /\ UNCHANGED <<phase, sot, audience, log, heard, cut>>
  BY DEF Instruct, Inject, history
<1>3. \A d \in Device : ~IsSource(d)'
  BY <1>1, <1>2, OutPassed, SameRoles DEF Resting
<1>4. HeardBut({})'
  BY <1>1, <1>2, SameLate DEF Resting
<1>5. Resting'
  BY <1>1, <1>2, <1>3, <1>4 DEF Resting
<1> QED BY <1>2, <1>5 DEF Stages, Heeded

\* A transfer begins when nobody is left of the one before.
LEMMA BeginIs ==
  ASSUME Stages, NEW parties \in SUBSET Party, NEW p, NEW k, Begin(parties, p, k)
  PROVE  /\ Heeded /\ Out /\ NoSource
         /\ log' = <<>> /\ heard' = Silence /\ ~cut'
<1>1. Resting /\ Out
  BY StageOf DEF Begin
<1>2. NoSource
  BY <1>1, OutPassed DEF Resting, NoSource
<1>3. Broadcast!Begin(parties)
  BY <1>1 DEF Begin, Broadcast!Begin, Broadcast!Nothing, Broadcast!Silence, Silence, Resting
<1> QED BY <1>1, <1>2, <1>3 DEF Begin, Heeded, Broadcast!Next

LEMMA StartsKeepStages ==
  ASSUME Stages, StartWriting \/ \E k \in SotKinds : StartReading(k)
  PROVE  Stages' /\ Heeded
<1>0. Listeners \in SUBSET Party /\ Listeners \cup {Controller} \in SUBSET Party
  BY PartiesOrdered DEF Listeners
<1>1. CASE StartWriting
  <2>1. Begin(Listeners, "writing", "none") /\ UNCHANGED <<dev, frame, at, inFrame>>
    BY <1>1 DEF StartWriting
  <2>2. Heeded /\ Out /\ NoSource /\ log' = <<>> /\ heard' = Silence /\ ~cut'
    BY <1>0, <2>1, BeginIs
  <2>3. Listeners' = Listeners /\ NoSource' /\ Out'
    BY <2>1, <2>2, SameRoles DEF Out
  <2>4. HeardBut({p \in Party : p >= at})'
    <3>1. PICK late : late = {p \in Party : p >= at}
      OBVIOUS
    <3>2. HeardBut(late)'
      BY <2>2, NothingHeard
    <3> QED BY <2>1, <3>1, <3>2 DEF HeardBut
  <2>5. Len(log') <= MaxLog
    BY <2>2, TransferAssumption
  <2>6. phase' = "writing" /\ sot' = "none" /\ audience' = Listeners
    BY <2>1 DEF Begin
  <2>7. Writing'
    BY <2>2, <2>3, <2>4, <2>5, <2>6 DEF Writing
  <2> QED BY <2>2, <2>7 DEF Stages
<1>2. ASSUME NEW k \in SotKinds, StartReading(k)
      PROVE  Stages' /\ Heeded
  <2>1. Begin(Listeners \cup {Controller}, "reading", k) /\ Inject(F(k, 0))
    BY <1>2 DEF StartReading
  <2>2. Heeded /\ Out /\ NoSource /\ log' = <<>> /\ heard' = Silence /\ ~cut'
    BY <1>0, <2>1, BeginIs
  <2>3. /\ dev' = dev /\ frame' = F(k, 0) /\ inFrame' = frame' /\ at' = 1
        /\ inFrame'.k = k
    BY <2>1 DEF Inject, F
  <2>4. Listeners' = Listeners /\ NoSource'
    BY <2>2, <2>3, SameRoles
  <2>5. \A d \in Device : ~(d < at')
    BY <2>3, PartiesOrdered
  <2>6. phase' = "reading" /\ sot' = k /\ audience' = Listeners' \cup {Controller}
    BY <2>1, <2>4 DEF Begin
  <2>7. HeardBut({})'
    BY <2>2, NothingHeard
  <2>8. Asking'
    BY <2>2, <2>3, <2>4, <2>5, <2>6, <2>7 DEF Asking, ReadingFor
  <2> QED BY <2>2, <2>8 DEF Stages
<1> QED BY <1>1, <1>2

\* The controller hears the byte that came back.
LEMMA ControllerTakes ==
  ASSUME TransferTypes, Stages, Reading, ControllerHears, UNCHANGED <<audience, log, cut>>
  PROVE  \E t \in Device :
           /\ Carrying(t) /\ Heeded
           /\ HeardBut({p \in Party : Controller < p /\ p < t})'
<1>1. PICK t \in Device : Carrying(t)
  BY StageOf DEF Reading
<1>2. Out /\ frame = Dab(LastByte) /\ frame.n = LastByte /\ log # <<>>
  BY <1>1 DEF Reading, Carrying, Dab, F
<1>3. PICK late : late = Reaching(t)
  OBVIOUS
<1>4. HeardBut(late) /\ Controller \in audience \cap late /\ Len(log) < MaxHistory
  <2>1. Len(log) < MaxHistory /\ Controller \in audience /\ Controller \in Party
    BY <1>1, SentRoom, PartiesOrdered DEF Carrying, ReadingFor
  <2>2. Controller < t
    BY PartiesOrdered
  <2> QED BY <1>1, <1>2, <1>3, <2>1, <2>2, OutPassed DEF Carrying, Reaching
<1>5. heard' = [heard EXCEPT ![Controller] = Noted(@, LastByte)]
  BY <1>2 DEF ControllerHears
<1>6. Broadcast!Next /\ HeardBut(late \ {Controller})'
  BY <1>2, <1>4, <1>5, LateHears
<1>7. late \ {Controller} = {p \in Party : Controller < p /\ p < t}
  <2>1. late = {p \in Party : p < t \/ p >= at}
    BY <1>2, <1>3, OutPassed DEF Reaching
  <2>2. \A p \in Party : ~(p >= at) /\ (Controller < p <=> p # Controller)
    BY <1>2, OutPassed, PartiesOrdered DEF Out
  <2> QED BY <2>1, <2>2
<1>8. HeardBut({p \in Party : Controller < p /\ p < t})'
  BY <1>6, <1>7
<1> QED BY <1>1, <1>6, <1>8 DEF Heeded

\* A byte sent from the start of the loop has the devices before t to reach.
LEMMA ReachingFromStart ==
  ASSUME NEW t \in Device, at' = 1
  PROVE  /\ Reaching(t)' = {p \in Party : Controller < p /\ p < t}
         /\ ~(t < at')
<1>1. ~(t < 1) /\ \A p \in Party : 1 <= p <=> Controller < p
  BY PartiesOrdered
<1> QED BY <1>1 DEF Reaching

LEMMA ContinueKeepsStages ==
  ASSUME TransferTypes, Stages, Continue
  PROVE  Stages' /\ Heeded
<1>1. /\ Reading /\ ControllerHears /\ Out /\ Wants
      /\ UNCHANGED <<audience, log, cut, sot, dev>> /\ frame' = frame /\ inFrame' = frame
      /\ at' = 1 /\ phase' = "reading"
  BY DEF Continue, Inject, Reading
<1>2. Wants'
  BY <1>1 DEF Wants
<1>3. PICK t \in Device : /\ Carrying(t) /\ Heeded
                          /\ HeardBut({p \in Party : Controller < p /\ p < t})'
  BY <1>1, ControllerTakes
<1>4. HeardBut(Reaching(t))' /\ ~(t < at')
  BY <1>1, <1>3, ReachingFromStart DEF HeardBut
<1>5. sot = "SDI" => dev[t].state = Identifying
  <2>1. t < at
    BY <1>1, OutPassed
  <2> QED BY <2>1, <1>3 DEF Carrying, ReadingFor
<1>6. ReadingFor({"reading", "released"})'
  BY <1>1, <1>3, SameRoles DEF Carrying, ReadingFor, Dab, F
<1>7. SentBy(t)' /\ IsSource(t)' /\ LastByte' = LastByte
  BY <1>1, <1>3, SameRoles DEF Carrying, SentBy, LastByte
<1>8. Carrying(t)'
  BY <1>1, <1>2, <1>3, <1>4, <1>5, <1>6, <1>7 DEF Carrying
<1> QED BY <1>3, <1>8 DEF Stages

LEMMA InterruptKeepsStages ==
  ASSUME TransferTypes, Stages, Interrupt
  PROVE  Stages' /\ Heeded
<1>1. /\ Reading /\ ControllerHears
      /\ UNCHANGED <<audience, log, cut, sot, dev>> /\ held' = frame
      /\ frame' = F("NRD", 0) /\ inFrame' = frame' /\ inFrame'.k = "NRD"
      /\ at' = 1 /\ phase' = "nrd"
  BY DEF Interrupt, Inject, F
<1>2. PICK t \in Device : /\ Carrying(t) /\ Heeded
                          /\ HeardBut({p \in Party : Controller < p /\ p < t})'
  BY <1>1, ControllerTakes
<1>3. ~(t < at')
  BY <1>1, ReachingFromStart
<1>4. ReadingFor({"nrd"})'
  BY <1>1, <1>2, SameRoles DEF Carrying, ReadingFor
<1>5. SentBy(t)' /\ IsSource(t)' /\ LastByte' = LastByte
  BY <1>1, <1>2, SameRoles DEF Carrying, SentBy, LastByte
<1>6. Stopping(t)'
  BY <1>1, <1>2, <1>3, <1>4, <1>5 DEF Stopping, Carrying
<1> QED BY <1>2, <1>6 DEF Stages

LEMMA ReleaseKeepsStages ==
  ASSUME TransferTypes, Stages, Release
  PROVE  Stages' /\ Heeded
<1>1. /\ phase = "nrd" /\ Out
      /\ UNCHANGED <<audience, log, heard, cut, sot, dev>>
      /\ frame' = held /\ inFrame' = held /\ at' = 1 /\ phase' = "released"
  BY DEF Release, Inject, history
<1>2. PICK t \in Device : Stopping(t)
  BY <1>1, StageOf
<1>3. held = Dab(LastByte) /\ held.k = "DAB" /\ log # <<>>
  BY <1>2 DEF Stopping, Dab, F
<1>4. ~Is(t, "sda")
  BY <1>1, <1>2, OutPassed DEF Stopping
<1>5. HeardBut({p \in Party : Controller < p /\ p < t})'
  <2>1. PICK late : late = {p \in Party : Controller < p /\ p < t}
    OBVIOUS
  <2>2. HeardBut(late)
    BY <1>2, <2>1 DEF Stopping
  <2>3. HeardBut(late)'
    BY <1>1, <2>2, SameLate
  <2> QED BY <2>1, <2>3
<1>6. HeardBut(Reaching(t))' /\ ~(t < at')
  BY <1>1, <1>5, ReachingFromStart DEF HeardBut
<1>7. ReadingFor({"reading", "released"})'
  BY <1>1, <1>2, <1>3, SameRoles DEF Stopping, ReadingFor
<1>8. SentBy(t)' /\ IsSource(t)' /\ LastByte' = LastByte /\ ~Is(t, "sda")'
  BY <1>1, <1>2, <1>4, SameRoles DEF Stopping, SentBy, LastByte, Is
<1>9. Carrying(t)'
  BY <1>1, <1>3, <1>6, <1>7, <1>8 DEF Carrying
<1> QED BY <1>1, <1>9 DEF Stages, Heeded

\* A transfer ends: nothing of it is left on the loop.
LEMMA EndsKeepStages ==
  ASSUME TransferTypes, Stages, Finish \/ StopWriting \/ AbortTransfer \/ TransferRestart
  PROVE  Stages' /\ Heeded
<1>1. ForgetTransfer /\ phase' = "idle"
  BY DEF Finish, StopWriting, AbortTransfer, TransferRestart
<1>2. Heeded /\ HeardBut({})' /\ sot' = "none" /\ audience' = {} /\ log' = <<>>
  <2>1. CASE Finish
    BY <1>1, <2>1, StageOf, Forgets
    DEF Finish, Asking, Over, ReadingFor, TransferTypes, ForgetTransfer
  <2>2. CASE StopWriting
    <3>1. Writing /\ Out /\ UNCHANGED cut
      BY <2>2, StageOf DEF StopWriting
    <3>2. PICK late : late = {p \in Party : p >= at}
      OBVIOUS
    <3>3. HeardBut(late) /\ audience \cap late = {}
      BY <3>1, <3>2, OutPassed DEF Writing, Listeners
    <3>4. HeardBut({})
      BY <3>3 DEF HeardBut
    <3> QED BY <1>1, <3>1, <3>4, Forgets DEF Writing, TransferTypes, ForgetTransfer
  <2>3. CASE AbortTransfer \/ TransferRestart
    BY <1>1, <2>3, Forgets DEF AbortTransfer, TransferRestart, ForgetTransfer
  <2> QED BY <2>1, <2>2, <2>3
<1>3. CASE Finish \/ StopWriting
  <2>1. Out /\ UNCHANGED <<dev, frame, at, inFrame>>
    BY <1>3 DEF Finish, StopWriting
  <2>2. NoSource
    BY <1>3, StageOf DEF Finish, StopWriting, Asking, Over, Writing
  <2>3. at' \notin Device /\ NoSource'
    BY <2>1, <2>2, OutPassed, SameRoles
  <2>4. Resting'
    BY <1>1, <1>2, <2>3 DEF Resting, NoSource
  <2> QED BY <1>2, <2>4 DEF Stages
<1>4. CASE AbortTransfer
  <2>1. frame'.k = "IFC" /\ inFrame'.k = "IFC" /\ at' = 1
    BY <1>4 DEF AbortTransfer, Inject, F
  <2>2. \A d \in Device : d >= at'
    BY <2>1, PartiesOrdered
  <2>3. Resting'
    BY <1>1, <1>2, <2>1, <2>2 DEF Resting, DoeKinds, SotKinds
  <2> QED BY <1>2, <2>3 DEF Stages
<1>5. CASE TransferRestart
  <2>1. at' \notin Device
    BY <1>5, LoopAssumption DEF TransferRestart, Restart, Device
  <2>2. \A d \in Device : dev'[d].state = Idle
    BY <1>5 DEF TransferRestart, Restart, PowerOn
  <2>3. NoSource'
    BY <2>2 DEF NoSource, IsSource, Addressed, Is, Idle
  <2>4. Resting'
    BY <1>1, <1>2, <2>1, <2>3 DEF Resting, NoSource
  <2> QED BY <1>2, <2>4 DEF Stages
<1> QED BY <1>3, <1>4, <1>5

LEMMA WriteKeepsStages ==
  ASSUME TransferTypes, Stages, NEW b \in Payload, Write(b)
  PROVE  Stages' /\ Heeded
<1>1. /\ Writing /\ Out /\ Len(log) < MaxLog /\ log' = Noted(log, b)
      /\ UNCHANGED <<phase, sot, audience, heard, cut, dev>>
      /\ frame' = Dab(b) /\ inFrame' = frame' /\ at' = 1
  BY StageOf DEF Write, Inject
<1>2. b \in Byte /\ Len(log) \in Nat /\ MaxLog \in Nat /\ MaxHistory \in Nat /\ MaxHistory > MaxLog
  BY InputsAssumption, HistoryRoom, TransferAssumption, LenProperties DEF TransferTypes
<1>3. Len(log) < MaxHistory /\ Len(log) + 1 <= MaxLog
  BY <1>1, <1>2
<1>4. log' = Append(log, b)
  BY <1>1, <1>3 DEF Noted
<1>5. /\ LastByte' = b /\ log' # <<>> /\ Len(log') = Len(log) + 1
  BY <1>2, <1>4, Appended DEF TransferTypes, LastByte
<1>6. PICK late : late = {p \in Party : p >= at}
  OBVIOUS
<1>7. PICK after : after = {p \in Party : p >= 1}
  OBVIOUS
<1>8. audience \cap late = {} /\ audience \subseteq after /\ HeardBut(late) /\ ~cut
  <2>1. audience \subseteq Device
    BY <1>1 DEF Writing, Listeners
  <2> QED BY <1>1, <1>6, <1>7, <2>1, OutPassed, PartiesOrdered DEF Writing
<1>9. Heeded /\ HeardBut(after)'
  BY <1>1, <1>2, <1>4, <1>8, AllLate DEF Heeded
<1>10. HeardBut({p \in Party : p >= at})'
  BY <1>1, <1>7, <1>9 DEF HeardBut
<1>11. Listeners' = Listeners /\ NoSource'
  BY <1>1, SameRoles DEF Writing
<1>12. Writing'
  BY <1>1, <1>3, <1>5, <1>10, <1>11 DEF Writing
<1> QED BY <1>9, <1>12 DEF Stages

LEMMA StutterKeepsStages ==
  ASSUME Stages, UNCHANGED transferVars
  PROVE  Stages' /\ Heeded
<1>1. UNCHANGED <<dev, frame, at, inFrame, phase, held, sot, audience, log, heard, cut>>
  BY DEF transferVars, history
<1>2. /\ Listeners' = Listeners /\ NoSource' = NoSource /\ Out' = Out /\ LastByte' = LastByte
      /\ \A d \in Device : IsTalker(d)' = IsTalker(d) /\ IsSource(d)' = IsSource(d)
      /\ \A d \in Device : Is(d, "sda")' = Is(d, "sda") /\ Answer(d)' = Answer(d)
      /\ \A d \in Device : SentBy(d)' = SentBy(d)
      /\ Wants' = Wants
  BY <1>1, SameRoles DEF Out, LastByte, Is, Answer, SentBy, Wants
<1>3. Earlier' = Earlier
  BY <1>1 DEF Earlier
<1>4. CASE Resting
  <2>1. Resting'
    BY <1>1, <1>2, <1>3, <1>4 DEF Resting, HeardBut
  <2> QED BY <1>1, <2>1 DEF Stages, Heeded
<1>5. CASE Writing
  <2>1. Writing'
    BY <1>1, <1>2, <1>3, <1>5 DEF Writing, HeardBut
  <2> QED BY <1>1, <2>1 DEF Stages, Heeded
<1>6. CASE Asking \/ Over
  <2>1. Asking' \/ Over'
    BY <1>1, <1>2, <1>3, <1>6 DEF Asking, Over, HeardBut, ReadingFor
  <2> QED BY <1>1, <2>1 DEF Stages, Heeded
<1>7. ASSUME NEW t \in Device, Carrying(t) \/ Stopping(t)
      PROVE  Stages' /\ Heeded
  <2>1. Carrying(t)' \/ Stopping(t)'
    BY <1>1, <1>2, <1>3, <1>7 DEF Carrying, Stopping, HeardBut, ReadingFor, Reaching
  <2> QED BY <1>1, <2>1 DEF Stages, Heeded
<1> QED BY <1>4, <1>5, <1>6, <1>7 DEF Stages

LEMMA StagesInductive ==
  ASSUME TransferTypes, AddressInv, Stages, [TransferNext]_transferVars
  PROVE  Stages' /\ Heeded
  BY StutterKeepsStages, HopKeepsStages, InstructKeepsStages, StartsKeepStages, ContinueKeepsStages,
     InterruptKeepsStages, ReleaseKeepsStages, EndsKeepStages, WriteKeepsStages
  DEF TransferNext, ControllerNext

-----------------------------------------------------------------------------
(***************************************************************************)
(* The theorems                                                            *)
(***************************************************************************)
LEMMA TransferStarts == TransferInit => TransferInv
<1> SUFFICES ASSUME TransferInit PROVE TransferInv
  OBVIOUS
<1>1. Init /\ Types /\ AddressInv
  BY PowerOnOK, StartAddresses DEF TransferInit
<1>2. TransferTypes
  BY <1>1, SilenceOK, FramesMade DEF TransferInit, TransferTypes, Phases
<1>3. Stages
  <2>1. at \notin Device
    BY <1>1, OutPassed DEF Init, Out
  <2>2. NoSource
    <3>1. \A d \in Device : dev[d].state = Idle
      BY <1>1 DEF Init, PowerOn
    <3> QED BY <3>1 DEF NoSource, IsSource, Addressed, Is, Idle
  <2>3. HeardBut({})
    BY DEF TransferInit, HeardBut, Silence
  <2> QED BY <2>1, <2>2, <2>3 DEF TransferInit, Resting, NoSource, Stages
<1> QED BY <1>1, <1>2, <1>3 DEF TransferInv

LEMMA TransferInductive == TransferInv /\ [TransferNext]_transferVars => TransferInv' /\ Heeded
BY LoopKept, TransferTypesKept, StagesInductive DEF TransferInv

THEOREM TransferHolds == TransferSpec => []TransferInv
BY TransferStarts, TransferInductive, PTL DEF TransferSpec

\* Each transfer is a broadcast (HpilBroadcast): every listener, wherever it
\* sits on the loop, and the controller hear each byte once, in order and
\* before the next is emitted, also across NRD; nobody else hears any of it
\* (ilbase.c:33-82, ilper7.c:35-45).
THEOREM TransfersBroadcast == TransferSpec => IsBroadcast
<1>1. TransferInit => Broadcast!Init
  BY DEF TransferInit, Broadcast!Init, Broadcast!Nothing, Broadcast!Silence, Silence
<1>2. TransferInv /\ [TransferNext]_transferVars => [Broadcast!Next]_<<audience, log, heard, cut>>
  BY TransferInductive DEF Heeded
<1> QED BY <1>1, <1>2, TransferHolds, PTL DEF TransferSpec, IsBroadcast, Broadcast!Spec

\* Every variable keeps its type, and the history is never cut.
THEOREM TransferTypeCorrect == TransferSpec => []TransferTypeOK
<1>1. TransferInv => TransferTypeOK
  <2> SUFFICES ASSUME TransferInv PROVE TransferTypeOK
    OBVIOUS
  <2>1. Len(log) < MaxHistory
    <3>1. Len(log) \in Nat /\ MaxLog \in Nat /\ MaxHistory \in Nat
          /\ MaxHistory > MaxLog /\ MaxHistory > 2
      BY LenProperties, TransferAssumption, HistoryRoom DEF TransferInv, TransferTypes
    <3>2. CASE Resting \/ Asking
      BY <3>1, <3>2 DEF Resting, Asking
    <3>3. CASE Writing
      BY <3>1, <3>3 DEF Writing
    <3>4. CASE Over
      BY <3>4 DEF Over
    <3>5. ASSUME NEW t \in Device, Carrying(t) \/ Stopping(t) PROVE Len(log) < MaxHistory
      BY <3>5, SentRoom DEF Carrying, Stopping, ReadingFor, TransferInv
    <3> QED BY <3>2, <3>3, <3>4, <3>5 DEF TransferInv, Stages
  <2> QED BY <2>1 DEF TransferInv, TransferTypes, Types, EngineOK, TransferTypeOK, TypeOK
<1> QED BY <1>1, TransferHolds, PTL

\* What the controller writes comes back to it unchanged (ilbase.c:73-76).
THEOREM EchoesUnchanged == TransferSpec => []EchoUnchanged
<1>1. TransferInv => EchoUnchanged
  BY StageOf DEF TransferInv, EchoUnchanged, Writing
<1> QED BY <1>1, TransferHolds, PTL

\* No transfer leaves a talker addressed, so that the test of the 0x80 bit
\* alone clears listeners only (ilbase.c:90).
THEOREM ClearsOnlyListeners == TransferSpec => []ClearsListeners
<1>1. TransferInv => ClearsListeners
  <2> SUFFICES ASSUME TransferInv, at \in Device, frame.k = "SDC"
               PROVE  ~IsSource(at)
    BY DEF ClearsListeners, IsSource
  <2>1. inFrame.k = "SDC"
    BY DEF TransferInv, AddressInv, FrameKept, CmdKinds
  <2>2. CASE phase = "idle"
    BY <2>1, <2>2, StageOf DEF TransferInv, Resting
  <2>3. CASE phase = "writing"
    BY <2>3, StageOf DEF TransferInv, Writing, NoSource
  <2>4. CASE phase \notin {"idle", "writing"}
    <3>1. PICK phases : ReadingFor(phases)
      BY <2>4 DEF TransferInv, Stages, Resting, Writing, Asking, Over, Carrying, Stopping
    <3> QED BY <2>1, <3>1 DEF ReadingFor, SotKinds
  <2> QED BY <2>2, <2>3, <2>4
<1> QED BY <1>1, TransferHolds, PTL

\* After NRD the byte that was held back is answered by ETO, except for a
\* status of two bytes (ilbase.c:66-69, :141-143).
THEOREM NrdEnds == TransferSpec => []NrdEndsData
<1>1. TransferInv => NrdEndsData
  <2> SUFFICES ASSUME TransferInv, phase = "released", Out, sot # "SST"
               PROVE  frame = Eto
    BY DEF NrdEndsData
  <2>1. \A t \in Device : ~Carrying(t)
    BY OutPassed DEF Carrying
  <2>2. Asking \/ Over
    BY <2>1, StageOf DEF TransferInv
  <2> QED BY <2>2 DEF Asking, Over, ReadingFor
<1> QED BY <1>1, TransferHolds, PTL

\* An identification or accessory ID that was not interrupted is read as the
\* device has it (ilbase.c:41-57, :148-158).
THEOREM IdentitiesRead == TransferSpec => []IdentityRead
<1>1. ASSUME TransferInv, Ended, sot \in {"SDI", "SAI"}, NEW d \in Device, IsTalker(d)
      PROVE  heard[Controller] = Answer(d)
  <2>1. phase = "reading" /\ frame = Eto /\ frame.k # "DAB" /\ frame.k = "ETO"
    BY <1>1 DEF Ended, Eto, F
  <2>2. Over
    BY <1>1, <2>1, StageOf DEF TransferInv, Asking, F, ReadingFor, SotKinds
  <2>3. log = Answer(d)
    BY <1>1, <2>1, <2>2 DEF Over
  <2>4. Controller \in audience /\ Controller \in Party
    BY <2>2, PartiesOrdered DEF Over, ReadingFor
  <2>5. heard[Controller] = log
    BY <2>2, <2>4 DEF Over, HeardBut
  <2> QED BY <2>3, <2>5
<1>2. ASSUME NEW d \in Device
      PROVE  Tells(Characters(d), Characters(d))
  <2>1. Len(Characters(d)) \in Nat
    <3>1. DeviceId[d] \in Seq(Byte) /\ DeviceId[d] # <<>>
      BY IdString
    <3>2. Front(DeviceId[d]) \in Seq(Byte)
      BY <3>1, LastApart
    <3> QED BY <3>2, LenProperties DEF Front, Characters
  <2> QED BY <2>1 DEF Tells
<1>3. TransferInv => IdentityRead
  BY <1>1, <1>2 DEF IdentityRead, Answer
<1> QED BY <1>3, TransferHolds, PTL
=============================================================================
