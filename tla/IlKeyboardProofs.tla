-------------------------- MODULE IlKeyboardProofs --------------------------
(***************************************************************************)
(* The keyboard implements the bounded queue KeyQueue, for every size of   *)
(* the ring and every set of characters.                                   *)
(***************************************************************************)
EXTENDS IlKeyboard, SequenceTheorems, TLAPS

-----------------------------------------------------------------------------
(***************************************************************************)
(* The ring against the sequence of the bytes that wait                    *)
(***************************************************************************)

\* An index in the ring.
At(a) == a % KbufSize

\* The bytes waiting in ring r; the tail is behind the last of them.
Held(r)   == [i \in 1 .. r.count |-> r.ch[At(r.head + i - 1)]]
RingOK(r) == r \in Ring /\ r.tail = At(r.head + r.count)

\* An index runs once over the end of the ring at most.
LEMMA Wrap ==
  ASSUME NEW a \in Nat, a < 2 * KbufSize
  PROVE  At(a) = IF a < KbufSize THEN a ELSE a - KbufSize
  BY KeyboardAssumption DEF At

LEMMA HeldSeq ==
  ASSUME NEW r, RingOK(r)
  PROVE  /\ Held(r) \in Seq(Byte) /\ Len(Held(r)) = r.count
         /\ \A i \in 1 .. r.count : Held(r)[i] = r.ch[At(r.head + i - 1)]
<1>1. r.count \in Nat /\ r.head \in 0 .. KbufSize - 1 /\ r.ch \in [0 .. KbufSize - 1 -> Byte]
      /\ KbufSize \in Nat \ {0} /\ r.count <= KbufSize
  BY KeyboardAssumption DEF RingOK, Ring
<1>2. ASSUME NEW i \in 1 .. r.count
      PROVE  r.ch[At(r.head + i - 1)] \in Byte
  <2>1. r.head + i - 1 \in Nat /\ r.head + i - 1 < 2 * KbufSize
    BY <1>1
  <2> QED BY <1>1, <2>1, Wrap
<1> QED BY <1>1, <1>2 DEF Held

\* hpil_kbuf_push puts a byte behind those that wait, or drops it.
LEMMA PushHeld ==
  ASSUME NEW r, RingOK(r), NEW c \in Byte
  PROVE  /\ RingOK(Push(r, c))
         /\ Held(Push(r, c)) = IF r.count < KbufSize THEN Append(Held(r), c) ELSE Held(r)
<1>1. CASE r.count >= KbufSize
  BY <1>1, KeyboardAssumption DEF Push, RingOK, Ring
<1>2. CASE r.count < KbufSize
  <2> DEFINE s == Push(r, c)
  <2>0. /\ r.count \in Nat /\ r.head \in 0 .. KbufSize - 1 /\ r.tail \in 0 .. KbufSize - 1
        /\ r.ch \in [0 .. KbufSize - 1 -> Byte]
        /\ r.tail = At(r.head + r.count)
        /\ KbufSize \in Nat \ {0}
    BY KeyboardAssumption DEF RingOK, Ring
  <2>1. s = [r EXCEPT !.ch = [@ EXCEPT ![r.tail] = c],
                      !.tail = At(@ + 1), !.count = @ + 1]
    BY <1>2 DEF Push, At
  <2>2. /\ s.ch = [r.ch EXCEPT ![r.tail] = c] /\ s.head = r.head
        /\ s.tail = At(r.tail + 1) /\ s.count = r.count + 1
    BY <2>1 DEF RingOK, Ring
  <2>3. r.tail = IF r.head + r.count < KbufSize THEN r.head + r.count
                 ELSE r.head + r.count - KbufSize
    BY <1>2, <2>0, Wrap
  <2>4. s.tail = At(s.head + s.count) /\ s.tail \in 0 .. KbufSize - 1
    <3>1. At(r.tail + 1) =
            IF r.tail + 1 < KbufSize THEN r.tail + 1 ELSE r.tail + 1 - KbufSize
      BY <2>0, Wrap
    <3>2. At(r.head + (r.count + 1)) =
            IF r.head + r.count + 1 < KbufSize THEN r.head + r.count + 1
            ELSE r.head + r.count + 1 - KbufSize
      BY <1>2, <2>0, Wrap
    <3>3. At(r.tail + 1) = At(r.head + (r.count + 1))
      <4>1. /\ r.head \in Nat /\ r.head < KbufSize /\ r.count \in Nat
            /\ r.count < KbufSize /\ KbufSize \in Nat
        BY <1>2, <2>0
      <4> QED BY <2>3, <3>1, <3>2, <4>1
    <3>4. At(r.tail + 1) \in 0 .. KbufSize - 1
      BY <2>0, <3>1
    <3> QED BY <2>2, <3>3, <3>4
  <2>5. s \in Ring
    <3>1. s.ch \in [0 .. KbufSize - 1 -> Byte] /\ s.count \in 0 .. KbufSize
      BY <1>2, <2>0, <2>2
    <3> QED BY <2>0, <2>1, <2>2, <2>4, <3>1 DEF RingOK, Ring
  <2>6. RingOK(s)
    BY <2>4, <2>5 DEF RingOK
  <2> HIDE DEF s
  <2>7. ASSUME NEW i \in 1 .. r.count + 1
        PROVE  Held(s)[i] = IF i <= r.count THEN Held(r)[i] ELSE c
    <3>1. Held(s)[i] = s.ch[At(r.head + i - 1)]
      <4>1. i \in 1 .. s.count
        BY <2>2
      <4>2. Held(s)[i] = s.ch[At(s.head + i - 1)]
        BY <2>6, <4>1, HeldSeq
      <4> QED BY <2>2, <4>2
    <3>2. At(r.head + i - 1) =
            IF r.head + i - 1 < KbufSize THEN r.head + i - 1 ELSE r.head + i - 1 - KbufSize
      <4>1. /\ r.head \in Nat /\ r.head < KbufSize /\ r.count \in Nat
            /\ r.count < KbufSize /\ KbufSize \in Nat
        BY <1>2, <2>0
      <4>2. i \in Nat /\ 1 <= i /\ i <= r.count + 1
        BY <2>0
      <4>3. r.head + i - 1 \in Nat /\ r.head + i - 1 < 2 * KbufSize
        BY <4>1, <4>2
      <4> QED BY <4>1, <4>2, <4>3, Wrap
    <3>3. CASE i <= r.count
      <4>1. At(r.head + i - 1) # r.tail
        <5>1. /\ r.head \in Nat /\ r.head < KbufSize /\ i \in Nat /\ 1 <= i
              /\ r.count \in Nat /\ KbufSize \in Nat
          BY <2>0
        <5>2. CASE r.head + r.count < KbufSize
          <6>1. r.tail = r.head + r.count /\ At(r.head + i - 1) = r.head + i - 1
            BY <2>3, <3>2, <3>3, <5>1, <5>2
          <6> QED BY <3>3, <5>1, <6>1
        <5>3. CASE ~(r.head + r.count < KbufSize)
          <6>1. r.tail = r.head + r.count - KbufSize
            BY <2>3, <5>3
          <6>2. \/ At(r.head + i - 1) = r.head + i - 1
                \/ At(r.head + i - 1) = r.head + i - 1 - KbufSize
            BY <3>2
          <6> QED BY <1>2, <3>3, <5>1, <6>1, <6>2
        <5> QED BY <5>2, <5>3
      <4>3. At(r.head + i - 1) \in 0 .. KbufSize - 1
        BY <1>2, <2>0, <3>2, <3>3
      <4>2. Held(r)[i] = r.ch[At(r.head + i - 1)]
        BY <3>3, HeldSeq
      <4> QED BY <2>0, <2>2, <3>1, <3>3, <4>1, <4>2, <4>3
    <3>4. CASE i = r.count + 1
      <4>1. At(r.head + i - 1) = r.tail
        BY <2>0, <2>3, <3>2, <3>4
      <4> QED BY <2>0, <2>2, <3>1, <3>4, <4>1
    <3> QED BY <2>0, <3>3, <3>4
  <2>8. /\ Append(Held(r), c) \in Seq(Byte) /\ Len(Append(Held(r), c)) = r.count + 1
        /\ \A i \in 1 .. r.count + 1 :
             Append(Held(r), c)[i] = IF i <= r.count THEN Held(r)[i] ELSE c
    <3>1. Held(r) \in Seq(Byte) /\ Len(Held(r)) = r.count
      BY HeldSeq
    <3> QED BY <2>0, <3>1
  <2>9. Held(s) = Append(Held(r), c)
    <3>1. Held(s) \in Seq(Byte) /\ Len(Held(s)) = r.count + 1
      BY <2>2, <2>6, HeldSeq
    <3>2. \A i \in 1 .. Len(Held(s)) : Held(s)[i] = Append(Held(r), c)[i]
      BY <2>7, <2>8, <3>1
    <3> QED BY <2>8, <3>1, <3>2, SeqEqual
  <2> QED BY <1>2, <2>6, <2>9 DEF s
<1>3. r.count < KbufSize \/ r.count >= KbufSize
  BY KeyboardAssumption DEF RingOK, Ring
<1> QED BY <1>1, <1>2, <1>3

\* From the next index on, n - 1 further ones lead where n did.
LEMMA NextIndex ==
  ASSUME NEW h \in 0 .. KbufSize - 1, NEW n \in 1 .. KbufSize
  PROVE  At(h + 1) \in 0 .. KbufSize - 1 /\ At(At(h + 1) + (n - 1)) = At(h + n)
<1>1. KbufSize \in Nat /\ KbufSize >= 1 /\ h \in Nat /\ h < KbufSize /\ n \in Nat /\ 1 <= n /\ n <= KbufSize
  BY KeyboardAssumption
<1>2. At(h + 1) = IF h + 1 < KbufSize THEN h + 1 ELSE h + 1 - KbufSize
  BY <1>1, Wrap
<1>3. At(h + n) = IF h + n < KbufSize THEN h + n ELSE h + n - KbufSize
  BY <1>1, Wrap
<1>4. CASE h + 1 < KbufSize
  <2>1. At(h + 1) = h + 1 /\ At(h + 1) + (n - 1) = h + n
    BY <1>1, <1>2, <1>4
  <2> QED BY <1>1, <1>4, <2>1
<1>5. CASE ~(h + 1 < KbufSize)
  <2>1. At(h + 1) = 0 /\ h + 1 = KbufSize
    BY <1>1, <1>2, <1>5
  <2>2. At(h + 1) + (n - 1) = n - 1 /\ n - 1 \in Nat /\ n - 1 < KbufSize
    BY <1>1, <2>1
  <2>3. At(n - 1) = n - 1
    BY <1>1, <2>2, Wrap
  <2>4. At(h + n) = n - 1
    BY <1>1, <1>3, <2>1
  <2> QED BY <1>1, <2>1, <2>2, <2>3, <2>4
<1> QED BY <1>4, <1>5

\* hpil_kbuf_pop takes the first byte.
LEMMA PopHeld ==
  ASSUME NEW r, RingOK(r), r.count > 0
  PROVE  /\ RingOK(Pop(r)) /\ Held(r) # <<>>
         /\ First(r) = Head(Held(r)) /\ First(r) \in Byte
         /\ Held(Pop(r)) = Tail(Held(r))
<1> DEFINE s == Pop(r)
<1>0. /\ r.count \in 1 .. KbufSize /\ r.head \in 0 .. KbufSize - 1
      /\ r.tail \in 0 .. KbufSize - 1
      /\ r.ch \in [0 .. KbufSize - 1 -> Byte] /\ r.tail = At(r.head + r.count)
      /\ KbufSize \in Nat \ {0}
  BY KeyboardAssumption DEF RingOK, Ring
<1>1. /\ s.ch = r.ch /\ s.head = At(r.head + 1)
      /\ s.tail = r.tail /\ s.count = r.count - 1
      /\ s = [r EXCEPT !.head = At(r.head + 1), !.count = r.count - 1]
  BY DEF Pop, RingOK, Ring, At
<1> HIDE DEF s
<1>3. RingOK(s)
  <2>1. At(s.head + s.count) = At(r.head + r.count)
    BY <1>0, <1>1, NextIndex
  <2>2. s.head \in 0 .. KbufSize - 1
    BY <1>0, <1>1, NextIndex
  <2>3. s.count \in 0 .. KbufSize
    BY <1>0, <1>1
  <2>4. s \in Ring
    BY <1>0, <1>1, <2>2, <2>3 DEF RingOK, Ring
  <2> QED BY <1>0, <1>1, <2>1, <2>4 DEF RingOK
<1>4. Held(r) \in Seq(Byte) /\ Len(Held(r)) = r.count /\ Held(r) # <<>>
  BY <1>0, HeldSeq
<1>5. First(r) = Held(r)[1]
  <2>1. r.head + 1 - 1 = r.head /\ r.count # 0 /\ 1 \in 1 .. r.count
    BY <1>0
  <2>2. At(r.head) = r.head
    BY <1>0, Wrap
  <2>3. Held(r)[1] = r.ch[At(r.head + 1 - 1)]
    BY <2>1, HeldSeq
  <2> QED BY <2>1, <2>2, <2>3 DEF First
<1>6. /\ Tail(Held(r)) \in Seq(Byte) /\ Len(Tail(Held(r))) = r.count - 1
      /\ \A i \in 1 .. r.count - 1 : Tail(Held(r))[i] = Held(r)[i + 1]
  BY <1>0, <1>4, HeadTailProperties
<1>7. ASSUME NEW i \in 1 .. r.count - 1
      PROVE  Held(s)[i] = Held(r)[i + 1]
  <2>1. i \in 1 .. s.count /\ i + 1 \in 1 .. r.count
    BY <1>0, <1>1
  <2>2. Held(s)[i] = s.ch[At(s.head + i - 1)]
    BY <1>3, <2>1, HeldSeq
  <2>3. Held(r)[i + 1] = r.ch[At(r.head + (i + 1) - 1)]
    BY <2>1, HeldSeq
  <2>4. At(At(r.head + 1) + (i - 1)) = At(r.head + i) /\ At(r.head + 1) \in Int
    BY <1>0, NextIndex
  <2>5. s.head + i - 1 = At(r.head + 1) + (i - 1) /\ r.head + (i + 1) - 1 = r.head + i
    BY <1>0, <1>1, <2>4
  <2> QED BY <1>1, <2>2, <2>3, <2>4, <2>5
<1>8. Held(s) = Tail(Held(r))
  <2>1. Held(s) \in Seq(Byte) /\ Len(Held(s)) = r.count - 1
    BY <1>1, <1>3, HeldSeq
  <2> QED BY <1>6, <1>7, <2>1, SeqEqual
<1>9. First(r) \in Byte
  BY <1>0, <1>4, <1>5
<1> QED BY <1>3, <1>4, <1>5, <1>8, <1>9 DEF s

-----------------------------------------------------------------------------
(***************************************************************************)
(* The conversation: a byte comes where the calculator takes one from the  *)
(* ring, and nowhere else.                                                 *)
(***************************************************************************)

\* While the calculator reads, the display sends data of the ring; no
\* identification and no status is ever under way.
KeyInv ==
  /\ TypeOK /\ RingOK(kbuf)
  /\ ctl \in {"poll", "read"} => dev[1].state \in {Idle, Talker}
  /\ ctl = "reading" => dev[1].state = Sending /\ frame.k = "DAB"
  /\ ctl = "nrd" => dev[1].state = LastByteOut /\ held.k = "DAB"

LEMMA FramesAre ==
  /\ \A b : Dab(b).k = "DAB" /\ Dab(b).n = b
  /\ \A b \in Byte : Dab(b) \in Frame
  /\ Eto \in Frame /\ Eto.k = "ETO"
  /\ \A k \in {"IDY", "TAD", "SDA", "NRD", "IFC"}, n \in 0 .. 31 :
       F(k, n).k = k /\ F(k, n).n = n /\ F(k, n) \in Frame
  BY DEF Dab, Eto, F, Frame, Kinds, DoeKinds, CmdKinds, RdyKinds, Byte

LEMMA StatesAre ==
  /\ {Idle, Talker, Sending, LastByteOut} \subseteq SUBSET Flags
  /\ Sending \ {"sda"} = LastByteOut
  /\ "talker" \notin Idle /\ "talker" \in Talker
  /\ "addressed" \in Sending /\ "talker" \in Sending /\ "sda" \in Sending /\ "sdi" \notin Sending
  /\ "addressed" \in LastByteOut /\ "talker" \in LastByteOut
  /\ "sda" \notin LastByteOut /\ "sst" \notin LastByteOut
  BY DEF Idle, Talker, Sending, LastByteOut, Flags

LEMMA OneDevice == Device = {1} /\ 1 \in Device
  BY KeyboardAssumption DEF Device

\* A new state of the display.
LEMMA EnterType ==
  ASSUME TypeOK, NEW s \in SUBSET Flags, NEW f, Enter(Display, s, f)
  PROVE  dev' \in [Device -> DevRecord] /\ dev'[1].state = s /\ frame' = f
  BY OneDevice DEF TypeOK, DevRecord, Enter, Display

\* Polls.
LEMMA PollStep ==
  ASSUME TypeOK, ILdisplay(F("IDY", 0))
  PROVE  UNCHANGED <<dev, kbuf>> /\ frame' \in Frame
<1>1. F("IDY", 0).k = "IDY"
  BY FramesAre
<1>2. Poll(Display, F("IDY", 0), Srq) /\ UNCHANGED kbuf
  BY <1>1 DEF ILdisplay, Send, SendFirst, SendNext, Quiet, NextIdByte, EndOfId, SendDone, Listen,
       Unlisten, Talk, Untalk, InterfaceClear, Unconfigure, NotReady, Identify, SendAid,
       TakeAddress, Ignore, DoeKinds
<1> QED BY <1>2, FramesAre DEF Poll, Pass

\* TAD, to the display or to nobody.
LEMMA TalkStep ==
  ASSUME TypeOK, NEW n \in 0 .. 31, ILdisplay(F("TAD", n)), n = dev[1].adr \/ IsTalker(Display)
  PROVE  /\ dev' \in [Device -> DevRecord] /\ frame' \in Frame /\ UNCHANGED kbuf
         /\ dev'[1].state \in {Idle, Talker}
<1>1. F("TAD", n).k = "TAD" /\ F("TAD", n).n = n /\ F("TAD", n) \in Frame
  BY FramesAre
<1>2. UNCHANGED kbuf
  BY <1>1 DEF ILdisplay, Send, SendFirst, SendNext, DoeKinds
<1>3. \/ Enter(Display, Talker, F("TAD", n))
      \/ Enter(Display, Idle, F("TAD", n))
  BY <1>1 DEF ILdisplay, Poll, Send, SendFirst, SendNext, Quiet, NextIdByte, EndOfId, SendDone,
       Listen, Unlisten, Talk, Untalk, InterfaceClear, Unconfigure, NotReady, Identify, SendAid,
       TakeAddress, Ignore, DoeKinds, Display
<1> QED BY <1>1, <1>2, <1>3, EnterType, StatesAre

\* IFC
LEMMA BreakStep ==
  ASSUME TypeOK, ILdisplay(F("IFC", 0))
  PROVE  /\ dev' \in [Device -> DevRecord] /\ frame' \in Frame /\ UNCHANGED kbuf
         /\ dev'[1].state = Idle
<1>1. F("IFC", 0).k = "IFC" /\ F("IFC", 0) \in Frame
  BY FramesAre
<1>2. UNCHANGED kbuf
  BY <1>1 DEF ILdisplay, Send, SendFirst, SendNext, DoeKinds
<1>3. Enter(Display, Idle, F("IFC", 0))
  BY <1>1 DEF ILdisplay, Poll, Send, SendFirst, SendNext, Quiet, NextIdByte, EndOfId, SendDone,
       Listen, Unlisten, Talk, Untalk, InterfaceClear, Unconfigure, NotReady, Identify, SendAid,
       TakeAddress, Ignore, DoeKinds
<1> QED BY <1>1, <1>2, <1>3, EnterType, StatesAre

\* NRD while the display sends.
LEMMA NrdStep ==
  ASSUME TypeOK, dev[1].state = Sending, ILdisplay(F("NRD", 0))
  PROVE  /\ dev' \in [Device -> DevRecord] /\ frame' \in Frame /\ UNCHANGED kbuf
         /\ dev'[1].state = LastByteOut
<1>1. F("NRD", 0).k = "NRD" /\ F("NRD", 0) \in Frame /\ IsTalker(Display)
  BY FramesAre, StatesAre DEF IsTalker, Is, Display
<1>2. UNCHANGED kbuf
  BY <1>1 DEF ILdisplay, Send, SendFirst, SendNext, DoeKinds
<1>3. NotReady(Display, F("NRD", 0))
  BY <1>1 DEF ILdisplay, Poll, Send, SendFirst, SendNext, Quiet, NextIdByte, EndOfId, SendDone,
       Listen, Unlisten, Talk, Untalk, InterfaceClear, Unconfigure, Identify, SendAid,
       TakeAddress, Ignore, DoeKinds
<1>4. dev' = [dev EXCEPT ![1] = [@ EXCEPT !.ptsdi = 0, !.state = LastByteOut]]
      /\ frame' = F("NRD", 0)
  BY <1>3, StatesAre DEF NotReady, Display
<1>5. dev[1] \in DevRecord /\ LastByteOut \in SUBSET Flags
  BY OneDevice, StatesAre DEF TypeOK
<1>6. [dev[1] EXCEPT !.ptsdi = 0, !.state = LastByteOut] \in DevRecord
  BY <1>5 DEF DevRecord
<1>7. dev'[1].state = LastByteOut /\ dev' \in [Device -> DevRecord]
  BY <1>4, <1>5, <1>6, OneDevice DEF TypeOK, DevRecord
<1> QED BY <1>1, <1>2, <1>4, <1>7

\* The display gives a byte of the ring, or ETO when there is none; on_send is
\* called once.
Gives ==
  /\ dev' \in [Device -> DevRecord] /\ frame' \in Frame
  /\ \/ /\ kbuf.count > 0 /\ kbuf' = Pop(kbuf)
        /\ frame' = Dab(First(kbuf)) /\ dev'[1].state = Sending
     \/ /\ kbuf.count = 0 /\ kbuf' = kbuf
        /\ frame' = Eto /\ dev'[1].state = Talker

LEMMA CountSplit ==
  ASSUME TypeOK PROVE kbuf.count > 0 \/ kbuf.count = 0
  BY KeyboardAssumption DEF TypeOK, Ring

LEMMA FirstIsByte ==
  ASSUME TypeOK, RingOK(kbuf), kbuf.count > 0
  PROVE  First(kbuf) \in Byte /\ First(kbuf) # NoByte /\ kbuf.count # 0
<1>1. First(kbuf) \in Byte
  BY PopHeld
<1>2. kbuf.count \in Int
  BY KeyboardAssumption DEF TypeOK, Ring
<1> QED BY <1>1, <1>2 DEF Byte, NoByte

\* SDA to the talker.
LEMMA FirstStep ==
  ASSUME TypeOK, RingOK(kbuf), IsTalker(Display), ILdisplay(F("SDA", 0))
  PROVE  Gives
<1>1. F("SDA", 0).k = "SDA"
  BY FramesAre
<1>2. SendFirst(Display, F("SDA", 0), First(kbuf)) /\ kbuf' = IF kbuf.count = 0 THEN kbuf ELSE Pop(kbuf)
  BY <1>1 DEF ILdisplay, Poll, Send, SendNext, Quiet, NextIdByte, EndOfId, SendDone,
       Listen, Unlisten, Talk, Untalk, InterfaceClear, Unconfigure, NotReady, Identify, SendAid,
       TakeAddress, Ignore, DoeKinds
<1>3. CASE kbuf.count > 0
  <2>1. First(kbuf) \in Byte /\ First(kbuf) # NoByte /\ kbuf.count # 0
    BY <1>3, FirstIsByte
  <2>2. Enter(Display, Sending, Dab(First(kbuf)))
    BY <1>2, <2>1 DEF SendFirst
  <2>3. dev' \in [Device -> DevRecord] /\ dev'[1].state = Sending /\ frame' = Dab(First(kbuf))
    <3>1. Sending \in SUBSET Flags
      BY StatesAre
    <3> QED BY <2>2, <3>1, EnterType
  <2>4. frame' \in Frame
    BY <2>1, <2>3, FramesAre
  <2> QED BY <1>2, <1>3, <2>1, <2>3, <2>4 DEF Gives
<1>4. CASE kbuf.count = 0
  <2>1. Enter(Display, Talker, Eto)
    BY <1>2, <1>4 DEF SendFirst, First
  <2>2. dev' \in [Device -> DevRecord] /\ dev'[1].state = Talker /\ frame' = Eto
    <3>1. Talker \in SUBSET Flags
      BY StatesAre
    <3> QED BY <2>1, <3>1, EnterType
  <2>3. frame' \in Frame
    BY <2>2, FramesAre
  <2> QED BY <1>2, <1>4, <2>2, <2>3 DEF Gives
<1> QED BY <1>3, <1>4, CountSplit

\* A byte comes back to the talker that sends.
LEMMA NextStep ==
  ASSUME TypeOK, RingOK(kbuf), dev[1].state = Sending, NEW f, f.k = "DAB", ILdisplay(f)
  PROVE  Gives
<1>0. /\ Is(Display, "addressed") /\ Is(Display, "talker") /\ Is(Display, "sda")
      /\ ~Is(Display, "sdi")
  BY StatesAre DEF Is, Display
<1>1. SendNext(Display, f, First(kbuf)) /\ kbuf' = IF kbuf.count = 0 THEN kbuf ELSE Pop(kbuf)
  BY <1>0 DEF ILdisplay, Poll, Send, SendFirst, Quiet, NextIdByte, EndOfId, SendDone,
       Listen, Unlisten, Talk, Untalk, InterfaceClear, Unconfigure, NotReady, Identify, SendAid,
       TakeAddress, Ignore, DoeKinds, Addressed
<1>2. CASE kbuf.count > 0
  <2>1. First(kbuf) \in Byte /\ First(kbuf) # NoByte /\ kbuf.count # 0
    BY <1>2, FirstIsByte
  <2>2. frame' = Dab(First(kbuf)) /\ dev' = dev
    BY <1>1, <2>1 DEF SendNext, Pass
  <2> QED BY <1>1, <1>2, <2>1, <2>2, FramesAre DEF Gives, TypeOK
<1>3. CASE kbuf.count = 0
  <2>1. Enter(Display, Talker, Eto)
    BY <1>1, <1>3 DEF SendNext, First
  <2>2. dev' \in [Device -> DevRecord] /\ dev'[1].state = Talker /\ frame' = Eto
    <3>1. Talker \in SUBSET Flags
      BY StatesAre
    <3> QED BY <2>1, <3>1, EnterType
  <2>3. frame' \in Frame
    BY <2>2, FramesAre
  <2> QED BY <1>1, <1>3, <2>2, <2>3 DEF Gives
<1> QED BY <1>2, <1>3, CountSplit

\* The byte held back comes to the talker that NRD has stopped.
LEMMA LastStep ==
  ASSUME TypeOK, dev[1].state = LastByteOut, NEW f, f.k = "DAB", ILdisplay(f)
  PROVE  /\ dev' \in [Device -> DevRecord] /\ UNCHANGED kbuf
         /\ frame' = Eto /\ dev'[1].state = Talker
<1>0. /\ Is(Display, "addressed") /\ Is(Display, "talker") /\ ~Is(Display, "sda")
      /\ ~Is(Display, "sst")
  BY StatesAre DEF Is, Display
<1>1. SendDone(Display, f) /\ kbuf' = kbuf
  BY <1>0 DEF ILdisplay, Poll, Send, SendFirst, SendNext, Quiet, NextIdByte, EndOfId,
       Listen, Unlisten, Talk, Untalk, InterfaceClear, Unconfigure, NotReady, Identify, SendAid,
       TakeAddress, Ignore, DoeKinds, Addressed
<1>2. Enter(Display, Talker, Eto)
  BY <1>1 DEF SendDone
<1> QED BY <1>1, <1>2, EnterType, StatesAre

-----------------------------------------------------------------------------
(***************************************************************************)
(* Keys                                                                    *)
(***************************************************************************)
LEMMA BytesOfKey ==
  ASSUME NEW key \in Keys
  PROVE  \/ Bytes(key) = <<>>
         \/ \E a \in Byte : Bytes(key) = <<a>>
         \/ \E a \in Byte, b \in Byte : Bytes(key) = <<a, b>>
<1>1. CASE key.k \in SpecialKeys
  <2>1. Bytes(key) = <<ESC, Code[key.k]>>
    <3>1. key.k # "enter" /\ key.k # "char"
      BY <1>1 DEF SpecialKeys
    <3> QED BY <1>1, <3>1, Zenon DEF Bytes
  <2>2. ESC \in Byte /\ Code[key.k] \in Byte
    BY <1>1 DEF ESC, Code, SpecialKeys, Byte
  <2> QED BY <2>1, <2>2
<1>2. CASE key.k = "enter"
  <2>1. key.k \notin SpecialKeys /\ CR \in Byte
    BY <1>2 DEF SpecialKeys, CR, Byte
  <2> QED BY <1>2, <2>1 DEF Bytes
<1>3. CASE key.k = "char"
  <2>1. key.k \notin SpecialKeys /\ key.c \in Byte
    BY <1>3, KeyboardAssumption DEF Keys, SpecialKeys
  <2> QED BY <1>3, <2>1 DEF Bytes
<1>4. CASE key.k \notin SpecialKeys \cup {"enter", "char"}
  BY <1>4 DEF Bytes
<1> QED BY <1>1, <1>2, <1>3, <1>4

\* A byte more, as a sequence.
LEMMA PushOne ==
  ASSUME NEW r, RingOK(r), NEW c \in Byte
  PROVE  /\ RingOK(Push(r, c)) /\ r.count \in 0 .. KbufSize
         /\ Held(r) \in Seq(Byte) /\ Len(Held(r)) = r.count
         /\ r.count < KbufSize => /\ Held(Push(r, c)) = Held(r) \o <<c>>
                                  /\ Push(r, c).count = r.count + 1
         /\ r.count = KbufSize => Push(r, c) = r
<1>1. r.count \in 0 .. KbufSize /\ KbufSize \in Nat
  BY KeyboardAssumption DEF RingOK, Ring
<1>2. Held(r) \in Seq(Byte) /\ Len(Held(r)) = r.count
  BY HeldSeq
<1>3. Append(Held(r), c) = Held(r) \o <<c>>
  BY <1>2, AppendIsConcat
<1>4. r.count < KbufSize => Push(r, c).count = r.count + 1
  BY <1>1 DEF Push, RingOK, Ring
<1>5. r.count = KbufSize => Push(r, c) = r
  <2>1. ~(KbufSize < KbufSize)
    BY <1>1
  <2> QED BY <2>1, Zenon DEF Push
<1> QED BY <1>1, <1>2, <1>3, <1>4, <1>5, PushHeld

\* Sequences of two bytes.
LEMMA TwoBytes ==
  ASSUME NEW a \in Byte, NEW b \in Byte
  PROVE  <<a>> \o <<b>> = <<a, b>> /\ SubSeq(<<a, b>>, 1, 1) = <<a>>
<1>0. /\ <<a>> \in Seq(Byte) /\ Len(<<a>>) = 1 /\ <<a>>[1] = a
      /\ <<b>> \in Seq(Byte) /\ Len(<<b>>) = 1 /\ <<b>>[1] = b
      /\ <<a, b>> \in Seq(Byte) /\ Len(<<a, b>>) = 2 /\ <<a, b>>[1] = a /\ <<a, b>>[2] = b
  OBVIOUS
<1>1. <<a>> \o <<b>> = <<a, b>>
  <2>1. /\ <<a>> \o <<b>> \in Seq(Byte) /\ Len(<<a>> \o <<b>>) = 2
        /\ (<<a>> \o <<b>>)[1] = a /\ (<<a>> \o <<b>>)[2] = b
    BY <1>0, ConcatProperties
  <2> DEFINE s == <<a>> \o <<b>>
             t == <<a, b>>
  <2>2. s \in Seq(Byte) /\ t \in Seq(Byte) /\ Len(s) = Len(t) /\ Len(s) = 2
        /\ s[1] = t[1] /\ s[2] = t[2]
    BY <1>0, <2>1
  <2> HIDE DEF s, t
  <2>3. \A i \in 1 .. Len(s) : s[i] = t[i]
    BY <2>2
  <2>4. s = t
    BY <2>2, <2>3, SeqEqual
  <2> QED BY <2>4 DEF s, t
<1>2. SubSeq(<<a, b>>, 1, 1) = <<a>>
  <2>1. \A i \in 1 .. 1 : <<a, b>>[i] \in Byte
    BY <1>0
  <2>2. /\ SubSeq(<<a, b>>, 1, 1) \in Seq(Byte) /\ Len(SubSeq(<<a, b>>, 1, 1)) = 1
        /\ SubSeq(<<a, b>>, 1, 1)[1] = a
    BY <1>0, <2>1, SubSeqProperties
  <2> DEFINE s == SubSeq(<<a, b>>, 1, 1)
             t == <<a>>
  <2>3. s \in Seq(Byte) /\ t \in Seq(Byte) /\ Len(s) = Len(t) /\ Len(s) = 1 /\ s[1] = t[1]
    BY <1>0, <2>2
  <2> HIDE DEF s, t
  <2>4. \A i \in 1 .. Len(s) : s[i] = t[i]
    BY <2>3
  <2>5. s = t
    BY <2>3, <2>4, SeqEqual
  <2> QED BY <2>5 DEF s, t
<1> QED BY <1>1, <1>2

\* What fits of the bytes of a key is put behind those that wait.
LEMMA PushAllHeld ==
  ASSUME NEW r, RingOK(r), NEW key \in Keys
  PROVE  /\ RingOK(PushAll(r, Bytes(key)))
         /\ Held(PushAll(r, Bytes(key))) =
              Held(r) \o IF Len(Bytes(key)) <= KbufSize - Len(Held(r)) THEN Bytes(key)
                         ELSE SubSeq(Bytes(key), 1, KbufSize - Len(Held(r)))
<1> DEFINE bytes == Bytes(key)
           room  == KbufSize - Len(Held(r))
           Goal  == /\ RingOK(PushAll(r, bytes))
                    /\ Held(PushAll(r, bytes)) =
                         Held(r) \o IF Len(bytes) <= room THEN bytes ELSE SubSeq(bytes, 1, room)
<1>0. /\ r.count \in 0 .. KbufSize /\ KbufSize \in Nat /\ KbufSize >= 1
      /\ Held(r) \in Seq(Byte) /\ Len(Held(r)) = r.count /\ Held(r) \o <<>> = Held(r)
  <2>1. r.count \in 0 .. KbufSize /\ KbufSize \in Nat /\ KbufSize >= 1
    BY KeyboardAssumption DEF RingOK, Ring
  <2>2. Held(r) \in Seq(Byte) /\ Len(Held(r)) = r.count
    BY HeldSeq
  <2> QED BY <2>1, <2>2, ConcatEmptySeq
<1>1. room = KbufSize - r.count /\ room \in Nat
  BY <1>0
<1>a. r.count < KbufSize \/ r.count = KbufSize
  BY <1>0
<1>b. r.count < KbufSize => r.count + 1 < KbufSize \/ r.count + 1 = KbufSize
  BY <1>0
<1> HIDE DEF room
<1>2. ASSUME bytes = <<>> PROVE Goal
  <2>1. PushAll(r, bytes) = r /\ Len(bytes) = 0 /\ Len(bytes) <= room
    BY <1>1, <1>2 DEF PushAll
  <2> QED BY <1>0, <1>2, <2>1
<1>3. ASSUME NEW a \in Byte, bytes = <<a>> PROVE Goal
  <2>1. PushAll(r, bytes) = Push(r, a) /\ Len(bytes) = 1
    BY <1>3 DEF PushAll
  <2>2. CASE r.count < KbufSize
    <3>1. Len(bytes) <= room
      BY <1>0, <1>1, <2>1, <2>2
    <3> QED BY <1>3, <2>1, <2>2, <3>1, PushOne
  <2>3. CASE r.count = KbufSize
    <3>1. ~(Len(bytes) <= room) /\ room = 0
      BY <1>0, <1>1, <2>1, <2>3
    <3>2. SubSeq(bytes, 1, room) = <<>>
      BY <3>1, SubSeqEmpty
    <3> QED BY <1>0, <2>1, <2>3, <3>1, <3>2, PushOne
  <2> QED BY <1>a, <2>2, <2>3, Zenon
<1>4. ASSUME NEW a \in Byte, NEW b \in Byte, bytes = <<a, b>> PROVE Goal
  <2>1. PushAll(r, bytes) = Push(Push(r, a), b) /\ Len(bytes) = 2
    BY <1>4 DEF PushAll
  <2> DEFINE s == Push(r, a)
  <2>2. CASE r.count = KbufSize
    <3>1. ~(Len(bytes) <= room) /\ room = 0
      BY <1>0, <1>1, <2>1, <2>2
    <3>2. SubSeq(bytes, 1, room) = <<>>
      BY <3>1, SubSeqEmpty
    <3>3. Push(Push(r, a), b) = r
      BY <2>2, PushOne
    <3> QED BY <1>0, <2>1, <3>1, <3>2, <3>3
  <2>3. CASE r.count < KbufSize
    <3>1. RingOK(s) /\ Held(s) = Held(r) \o <<a>> /\ s.count = r.count + 1
      BY <2>3, PushOne
    <3> HIDE DEF s
    <3>2. CASE r.count + 1 = KbufSize
      <4>1. ~(Len(bytes) <= room) /\ room = 1
        BY <1>0, <1>1, <2>1, <3>2
      <4>2. SubSeq(bytes, 1, room) = <<a>>
        BY <1>4, <4>1, TwoBytes
      <4>3. Push(s, b) = s
        BY <3>1, <3>2, PushOne
      <4> QED BY <2>1, <3>1, <4>1, <4>2, <4>3 DEF s
    <3>3. CASE r.count + 1 < KbufSize
      <4>1. Len(bytes) <= room
        BY <1>0, <1>1, <2>1, <3>3
      <4>2. RingOK(Push(s, b)) /\ Held(Push(s, b)) = Held(s) \o <<b>>
        BY <3>1, <3>3, PushOne
      <4>3. (Held(r) \o <<a>>) \o <<b>> = Held(r) \o (<<a>> \o <<b>>)
        BY <1>0, <<a>> \in Seq(Byte), <<b>> \in Seq(Byte), ConcatAssociative
      <4>4. <<a>> \o <<b>> = <<a, b>>
        BY TwoBytes
      <4> QED BY <1>4, <2>1, <3>1, <4>1, <4>2, <4>3, <4>4 DEF s
    <3> QED BY <1>b, <2>3, <3>2, <3>3, Zenon
  <2> QED BY <1>a, <2>2, <2>3, Zenon
<1> HIDE DEF Goal
<1>5. Goal
  BY <1>2, <1>3, <1>4, BytesOfKey
<1> QED BY <1>5 DEF room, Goal

-----------------------------------------------------------------------------
(***************************************************************************)
(* Induction, and every step mapped to one of the queue or to none.        *)
(***************************************************************************)

\* What a step of the calculator with a byte, or ETO, does to all of it.
LEMMA ReadStep ==
  ASSUME TypeOK, RingOK(kbuf), Gives,
         out' = IF frame'.k = "DAB" THEN frame'.n ELSE out,
         ctl' = IF frame' = Eto THEN "poll" ELSE "reading"
  PROVE  /\ RingOK(kbuf') /\ kbuf' \in Ring /\ out' \in Byte \cup {NoKey}
         /\ ctl' = "poll" => dev'[1].state = Talker
         /\ ctl' # "poll" => ctl' = "reading" /\ dev'[1].state = Sending /\ frame'.k = "DAB"
         /\ \/ Held(kbuf) # <<>> /\ out' = Head(Held(kbuf)) /\ Held(kbuf') = Tail(Held(kbuf))
            \/ UNCHANGED <<kbuf, out>>
<1>1. CASE /\ kbuf.count > 0 /\ kbuf' = Pop(kbuf)
           /\ frame' = Dab(First(kbuf)) /\ dev'[1].state = Sending
  <2>1. frame'.k = "DAB" /\ frame'.n = First(kbuf) /\ frame' # Eto
    BY <1>1, FramesAre
  <2>2. /\ RingOK(Pop(kbuf)) /\ Held(kbuf) # <<>>
        /\ First(kbuf) = Head(Held(kbuf)) /\ First(kbuf) \in Byte
        /\ Held(Pop(kbuf)) = Tail(Held(kbuf))
    BY <1>1, PopHeld
  <2>3. RingOK(kbuf') /\ kbuf' \in Ring
    BY <1>1, <2>2 DEF RingOK
  <2> QED BY <1>1, <2>1, <2>2, <2>3
<1>2. CASE /\ kbuf.count = 0 /\ kbuf' = kbuf
           /\ frame' = Eto /\ dev'[1].state = Talker
  <2>1. frame'.k # "DAB" /\ frame' = Eto
    BY <1>2, FramesAre
  <2>2. out' = out /\ ctl' = "poll"
    BY <2>1
  <2> QED BY <1>2, <2>2 DEF TypeOK
<1> QED BY <1>1, <1>2 DEF Gives

\* A step of the queue, or none.
Maps == [Queue!Next]_<<Waiting, out>>

LEMMA WaitingIsHeld == Waiting = Held(kbuf) /\ Waiting' = Held(kbuf')
  BY DEF Waiting, Held, At

LEMMA ReadMaps ==
  ASSUME Held(kbuf) # <<>>, out' = Head(Held(kbuf)), Held(kbuf') = Tail(Held(kbuf))
  PROVE  Maps
<1>1. Queue!Read
  BY WaitingIsHeld DEF Queue!Read
<1> QED BY <1>1 DEF Maps, Queue!Next

LEMMA NothingMaps == ASSUME UNCHANGED <<kbuf, out>> PROVE Maps
  BY WaitingIsHeld DEF Maps

LEMMA TypeKeyMaps ==
  ASSUME TypeOK, RingOK(kbuf), NEW key \in Keys, TypeKey(key)
  PROVE  RingOK(kbuf') /\ Maps
<1>1. kbuf' = PushAll(kbuf, Bytes(key)) /\ out' = out
  BY DEF TypeKey
<1>2. Waiting' = Waiting \o Queue!Fits(Bytes(key)) /\ RingOK(kbuf')
  BY <1>1, PushAllHeld, WaitingIsHeld DEF Queue!Fits
<1>3. Queue!Type(Bytes(key))
  BY <1>1, <1>2 DEF Queue!Type
<1> QED BY <1>2, <1>3 DEF Maps, Queue!Next

LEMMA KeyStart == Init => KeyInv /\ Queue!Init
<1> SUFFICES ASSUME Init PROVE KeyInv /\ Queue!Init
  OBVIOUS
<1>1. EmptyRing \in Ring /\ EmptyRing.count = 0 /\ EmptyRing.head = 0 /\ EmptyRing.tail = 0
  BY KeyboardAssumption DEF EmptyRing, Ring, Byte
<1>2. RingOK(kbuf)
  <2>1. At(0) = 0
    BY KeyboardAssumption, Wrap
  <2> QED BY <1>1, <2>1 DEF Init, RingOK
<1>3. PowerOn(1) \in DevRecord /\ PowerOn(1).state = Idle
  BY LoopAssumption, OneDevice, StatesAre DEF PowerOn, DevRecord
<1>4. dev \in [Device -> DevRecord] /\ dev[1].state = Idle
  BY <1>3, OneDevice DEF Init
<1>5. TypeOK
  BY <1>1, <1>4, FramesAre DEF Init, TypeOK
<1>6. Waiting = <<>>
  <2>1. Held(kbuf) \in Seq(Byte) /\ Len(Held(kbuf)) = 0
    BY <1>1, <1>2, HeldSeq DEF Init
  <2> QED BY <2>1, EmptySeq, WaitingIsHeld
<1> QED BY <1>2, <1>4, <1>5, <1>6 DEF Init, KeyInv, Queue!Init, NoKey

LEMMA KeyStep == KeyInv /\ [Next]_vars => KeyInv' /\ Maps
<1> SUFFICES ASSUME KeyInv, [Next]_vars PROVE KeyInv' /\ Maps
  OBVIOUS
<1>0. TypeOK /\ RingOK(kbuf)
  BY DEF KeyInv
<1>1. ASSUME NEW key \in Keys, TypeKey(key) PROVE KeyInv' /\ Maps
  <2>1. RingOK(kbuf') /\ Maps
    BY <1>0, <1>1, TypeKeyMaps
  <2> QED BY <1>1, <2>1 DEF TypeKey, KeyInv, TypeOK, RingOK
<1>2. CASE Identity
  <2>1. UNCHANGED <<dev, kbuf, out>> /\ frame' \in Frame
    BY <1>0, <1>2, PollStep DEF Identity, Asks
  <2> QED BY <1>2, <2>1, NothingMaps DEF Identity, KeyInv, TypeOK
<1>3. CASE MakeTalker
  <2>1. dev[1].adr \in 0 .. 31
    BY <1>0, OneDevice DEF TypeOK, DevRecord
  <2>2. /\ dev' \in [Device -> DevRecord] /\ frame' \in Frame /\ UNCHANGED kbuf
        /\ dev'[1].state \in {Idle, Talker}
    BY <1>0, <1>3, <2>1, TalkStep DEF MakeTalker, Asks, Display
  <2> QED BY <1>3, <2>2, NothingMaps DEF MakeTalker, Asks, KeyInv, TypeOK
<1>4. CASE StartRead
  <2>1. Gives
    BY <1>0, <1>4, FirstStep DEF StartRead, Reads
  <2> QED BY <1>0, <1>4, <2>1, ReadStep, ReadMaps, NothingMaps
          DEF StartRead, Reads, Gives, KeyInv, TypeOK
<1>5. CASE ReadOn
  <2>1. Gives
    BY <1>0, <1>5, NextStep DEF ReadOn, Reads, KeyInv
  <2> QED BY <1>0, <1>5, <2>1, ReadStep, ReadMaps, NothingMaps
          DEF ReadOn, Reads, Gives, KeyInv, TypeOK
<1>6. CASE StopReading
  <2>1. /\ dev' \in [Device -> DevRecord] /\ frame' \in Frame /\ UNCHANGED kbuf
        /\ dev'[1].state = LastByteOut
    BY <1>0, <1>6, NrdStep DEF StopReading, Asks, KeyInv
  <2> QED BY <1>0, <1>6, <2>1, NothingMaps DEF StopReading, Asks, KeyInv, TypeOK
<1>7. CASE Release
  <2>1. /\ dev' \in [Device -> DevRecord] /\ UNCHANGED kbuf
        /\ frame' = Eto /\ dev'[1].state = Talker
    BY <1>0, <1>7, LastStep DEF Release, Reads, KeyInv
  <2>2. out' = out /\ ctl' = "poll" /\ held' = Eto /\ Eto \in Frame
    BY <1>7, <2>1, FramesAre DEF Release, Reads
  <2> QED BY <1>0, <2>1, <2>2, NothingMaps DEF KeyInv, TypeOK
<1>8. CASE Untalking
  <2>1. /\ dev' \in [Device -> DevRecord] /\ frame' \in Frame /\ UNCHANGED kbuf
        /\ dev'[1].state \in {Idle, Talker}
    BY <1>0, <1>8, TalkStep DEF Untalking, Asks, NoAddress
  <2> QED BY <1>8, <2>1, NothingMaps DEF Untalking, Asks, KeyInv, TypeOK
<1>9. CASE Break
  <2>1. /\ dev' \in [Device -> DevRecord] /\ frame' \in Frame /\ UNCHANGED kbuf
        /\ dev'[1].state = Idle
    BY <1>0, <1>9, BreakStep DEF Break, Asks
  <2> QED BY <1>9, <2>1, NothingMaps, FramesAre DEF Break, Asks, KeyInv, TypeOK
<1>10. CASE UNCHANGED vars
  BY <1>10, NothingMaps DEF vars, KeyInv, TypeOK, RingOK
<1> QED BY <1>1, <1>2, <1>3, <1>4, <1>5, <1>6, <1>7, <1>8, <1>9, <1>10 DEF Next, Calculator

\* Every variable of the keyboard keeps its type.
THEOREM KeyboardTypeOK == Spec => []TypeOK
<1>1. KeyInv => TypeOK
  BY DEF KeyInv
<1> QED BY <1>1, KeyStart, KeyStep, PTL DEF Spec

\* The ring, the service request and the transfers together are a bounded
\* queue: the calculator reads the bytes in the order typed, once each, and a
\* full ring drops what is typed last (ildisp.c, hpil_kbuf_push and _pop).
THEOREM KeyboardIsQueue == Spec => IsQueue
<1>1. Maps => [Queue!Next]_<<Waiting, out>>
  BY DEF Maps
<1> QED BY <1>1, KeyStart, KeyStep, PTL DEF Spec, IsQueue, Queue!Spec
=============================================================================
