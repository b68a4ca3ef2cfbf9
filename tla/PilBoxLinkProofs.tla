-------------------------- MODULE PilBoxLinkProofs --------------------------
(***************************************************************************)
(* Proofs about the serial line, for any frames and any bound of the line: *)
(* the coding loses no bit of any frame, in either style of box, whichever *)
(* high byte was left out; every variable keeps its type; both ends agree  *)
(* on the last high byte; and the line is a call, also after stops,        *)
(* crashes and failed starts.                                              *)
(***************************************************************************)
EXTENDS PilBoxLink, SequenceTheorems, TLAPS

Frame11 == 0 .. 2047

\* Both bytes of a frame are bytes, and PILBox tells them apart (ilmain.c:196-206).
LEMMA BytesAreBytes ==
  ASSUME NEW f \in Frame11
  PROVE  /\ HighByte(f) \in Byte /\ IsHigh(HighByte(f)) /\ ~IsLow(HighByte(f))
         /\ LowByte(f) \in Byte /\ IsLow(LowByte(f)) /\ ~IsHigh(LowByte(f))
         /\ HighByte6(f) \in Byte /\ IsHigh(HighByte6(f)) /\ ~IsLow(HighByte6(f))
         /\ LowByte6(f) \in Byte /\ IsLow(LowByte6(f)) /\ ~IsHigh(LowByte6(f))
  BY DEF Frame11, HighByte, LowByte, HighByte6, LowByte6, IsHigh, IsLow, Byte

\* PILBox makes of the two bytes of a frame the frame, of a box of style 7 as
\* of one of style 6 (ilmain.c:175-176, :203-206).
THEOREM RoundTrip ==
  \A f \in Frame11 :
    /\ Decode(HighByte(f), LowByte(f)) = f
    /\ Decode(HighByte6(f), LowByte6(f)) = f
<1> TAKE f \in Frame11
<1>1. Decode(HighByte(f), LowByte(f)) = f
  BY DEF Frame11, Decode, HighByte, LowByte
<1>2. Decode(HighByte6(f), LowByte6(f)) = f
  BY DEF Frame11, Decode, HighByte6, LowByte6
<1> QED BY <1>1, <1>2

\* A frame sent with its high byte left out is understood by a receiver that
\* remembers the same last high byte, and both remember the same one after it
\* (ilmain.c:178-183); so it is with a frame whose high byte goes with it.
THEOREM LeavingOutIsLossless ==
  ASSUME NEW h \in Byte, NEW f \in Frame11
  PROVE  /\ Bytes(h, f) \in Seq(Byte) /\ Bytes(h, f) # <<>>
         /\ IsHigh(Bytes(h, f)[1]) =>
              /\ Len(Bytes(h, f)) = 2 /\ Bytes(h, f)[1] = HighByte(f)
              /\ Decode(Bytes(h, f)[1], Bytes(h, f)[2]) = f
         /\ ~IsHigh(Bytes(h, f)[1]) =>
              /\ Len(Bytes(h, f)) = 1 /\ h = HighByte(f)
              /\ Decode(h, Bytes(h, f)[1]) = f
<1>1. CASE HighByte(f) = h
  <2>1. Bytes(h, f) = <<LowByte(f)>>
    BY <1>1 DEF Bytes
  <2> QED
    BY <1>1, <2>1, BytesAreBytes, RoundTrip
<1>2. CASE HighByte(f) # h
  <2>1. Bytes(h, f) = <<HighByte(f), LowByte(f)>>
    BY <1>2 DEF Bytes
  <2> QED
    BY <2>1, BytesAreBytes, RoundTrip
<1> QED
  BY <1>1, <1>2

-----------------------------------------------------------------------------
(***************************************************************************)
(* Types                                                                   *)
(***************************************************************************)

LEMMA DecodeFrame ==
  ASSUME NEW h \in Byte, NEW b \in Byte
  PROVE  Decode(h, b) \in Frame11
  BY DEF Decode, Byte, Frame11

LEMMA FramesAreFrames ==
  /\ Frames \subseteq Frame11 /\ COFI \in Frame11 /\ TDIS \in Frame11
  BY LinkAssumption DEF Frame11, COFI, TDIS

LEMMA ShorterLine ==
  ASSUME NEW s \in Seq(Byte), s # <<>>
  PROVE  /\ Head(s) \in Byte /\ Tail(s) \in Seq(Byte) /\ Len(Tail(s)) = Len(s) - 1
         /\ Len(s) \in Nat \ {0}
  OBVIOUS

LEMMA ReadType ==
  ASSUME TypeOK, toProg # <<>>, Read
  PROVE  toProg' \in Seq(Byte) /\ echo' \in 0 .. Len(toProg')
<1>1. toProg \in Seq(Byte) /\ echo \in 0 .. Len(toProg)
  BY DEF TypeOK
<1>2. /\ Tail(toProg) \in Seq(Byte) /\ Len(Tail(toProg)) = Len(toProg) - 1
      /\ Len(toProg) \in Nat \ {0}
  BY <1>1, ShorterLine
<1> QED
  BY <1>1, <1>2 DEF Read

LEMMA SendType ==
  ASSUME TypeOK, NEW f \in Frame11, SendFrame(f)
  PROVE  toBox' \in Seq(Byte) /\ lasth' \in Byte
<1>1. Bytes(lasth, f) \in Seq(Byte)
  BY LeavingOutIsLossless DEF TypeOK
<1> QED
  BY <1>1, BytesAreBytes DEF TypeOK, SendFrame

LEMMA CommandType ==
  ASSUME TypeOK, NEW cmd \in Modes
  PROVE  toBox \o CommandBytes(cmd) \in Seq(Byte) /\ HighByte(cmd) \in Byte
<1>1. cmd \in Frame11 /\ 0 \in Byte
  BY FramesAreFrames DEF Modes, Byte
<1>2. CommandBytes(cmd) \in Seq(Byte)
  BY <1>1, LeavingOutIsLossless DEF CommandBytes
<1> QED
  BY <1>1, <1>2, BytesAreBytes DEF TypeOK

\* The program never leaves a frame half sent: the line to the box does not
\* end in a high byte, so the box finds a low byte behind every high one.
EndsLow == toBox # <<>> => ~IsHigh(toBox[Len(toBox)])

LinkInv == TypeOK /\ EndsLow

LEMMA AppendedLow ==
  ASSUME NEW s \in Seq(Byte), NEW t \in Seq(Byte), t # <<>>, ~IsHigh(t[Len(t)])
  PROVE  s \o t # <<>> /\ ~IsHigh((s \o t)[Len(s \o t)])
<1>1. Len(s) \in Nat /\ Len(t) \in Nat \ {0} /\ Len(s \o t) = Len(s) + Len(t)
  BY ShorterLine
<1>2. (s \o t)[Len(s) + Len(t)] = t[Len(t)]
  BY <1>1
<1> QED
  BY <1>1, <1>2

LEMMA BytesEndLow ==
  ASSUME NEW h \in Byte, NEW f \in Frame11
  PROVE  Bytes(h, f) # <<>> /\ ~IsHigh(Bytes(h, f)[Len(Bytes(h, f))])
<1>1. CASE HighByte(f) = h
  BY <1>1, BytesAreBytes DEF Bytes
<1>2. CASE HighByte(f) # h
  BY <1>2, BytesAreBytes DEF Bytes
<1> QED
  BY <1>1, <1>2

LEMMA RestEndsLow ==
  ASSUME NEW s \in Seq(Byte), NEW n \in 1 .. 2, s # <<>>, ~IsHigh(s[Len(s)])
  PROVE  /\ SubSeq(s, n + 1, Len(s)) \in Seq(Byte)
         /\ SubSeq(s, n + 1, Len(s)) # <<>> =>
              ~IsHigh(SubSeq(s, n + 1, Len(s))[Len(SubSeq(s, n + 1, Len(s)))])
<1>1. Len(s) \in Nat \ {0}
  BY ShorterLine
<1>2. \A i \in n + 1 .. Len(s) : s[i] \in Byte
  BY <1>1, ElementOfSeq
<1>3. CASE n < Len(s)
  <2>1. /\ SubSeq(s, n + 1, Len(s)) \in Seq(Byte)
        /\ Len(SubSeq(s, n + 1, Len(s))) = Len(s) - n
        /\ \A i \in 1 .. Len(s) - n : SubSeq(s, n + 1, Len(s))[i] = s[n + i]
    <3>1. /\ SubSeq(s, n + 1, Len(s)) \in Seq(Byte)
          /\ Len(SubSeq(s, n + 1, Len(s)))
               = IF n + 1 <= Len(s) THEN Len(s) - (n + 1) + 1 ELSE 0
          /\ \A i \in 1 .. Len(s) - (n + 1) + 1 :
               SubSeq(s, n + 1, Len(s))[i] = s[(n + 1) + i - 1]
      BY <1>1, <1>2, SubSeqProperties
    <3> QED
      BY <1>1, <1>3, <3>1
  <2>2. SubSeq(s, n + 1, Len(s))[Len(s) - n] = s[Len(s)]
    BY <1>1, <1>3, <2>1
  <2> QED
    BY <2>1, <2>2 DEF IsHigh
<1>4. CASE n >= Len(s)
  <2>1. SubSeq(s, n + 1, Len(s)) = <<>>
    BY <1>1, <1>4, SubSeqEmpty
  <2> QED
    BY <2>1, EmptySeq
<1>5. n < Len(s) \/ n >= Len(s)
  BY <1>1
<1> QED
  BY <1>3, <1>4, <1>5, Zenon

LEMMA SendEndsLow ==
  ASSUME TypeOK, NEW h \in Byte, NEW f \in Frame11
  PROVE  /\ toBox \o Bytes(h, f) \in Seq(Byte)
         /\ toBox \o Bytes(h, f) # <<>>
         /\ ~IsHigh((toBox \o Bytes(h, f))[Len(toBox \o Bytes(h, f))])
<1>1. toBox \in Seq(Byte) /\ Bytes(h, f) \in Seq(Byte)
  BY LeavingOutIsLossless DEF TypeOK
<1>2. Bytes(h, f) # <<>> /\ ~IsHigh(Bytes(h, f)[Len(Bytes(h, f))])
  BY BytesEndLow
<1>3. toBox \o Bytes(h, f) \in Seq(Byte)
  BY <1>1
<1> QED
  BY <1>1, <1>2, <1>3, AppendedLow

LEMMA CommandEndsLow ==
  ASSUME TypeOK, NEW cmd \in Modes
  PROVE  LET l == toBox \o CommandBytes(cmd) IN l # <<>> /\ ~IsHigh(l[Len(l)])
<1>1. cmd \in Frame11 /\ 0 \in Byte
  BY FramesAreFrames DEF Modes, Byte
<1> QED
  BY <1>1, SendEndsLow DEF CommandBytes

LEMMA AtLeastTwo ==
  ASSUME NEW n \in Nat \ {0}, n # 1
  PROVE  2 \in 1 .. n
  OBVIOUS

\* The message that GetReply and GetCommand read.
LEMMA MsgType ==
  ASSUME LinkInv, toBox # <<>>
  PROVE  /\ MsgHigh \in Byte /\ MsgLen \in 1 .. 2
         /\ toBox[MsgLen] \in Byte /\ Msg \in Frame11
<1>1. toBox \in Seq(Byte) /\ box.h \in Byte /\ Len(toBox) \in Nat \ {0}
  BY ShorterLine DEF LinkInv, TypeOK, BoxRecord
<1>2. MsgHigh \in Byte /\ MsgLen \in 1 .. 2
  BY <1>1 DEF MsgHigh, MsgLen
<1>3. IsHigh(Head(toBox)) => Len(toBox) # 1
  BY <1>1 DEF LinkInv, EndsLow
<1>4. MsgLen = 1 \/ (MsgLen = 2 /\ IsHigh(Head(toBox)))
  BY DEF MsgLen
<1>5. MsgLen \in 1 .. Len(toBox)
  <2>1. CASE MsgLen = 1
    BY <1>1, <2>1
  <2>2. CASE MsgLen = 2 /\ IsHigh(Head(toBox))
    <3>1. Len(toBox) # 1
      BY <1>3, <2>2
    <3>2. Len(toBox) \in Nat \ {0}
      BY <1>1
    <3>3. 2 \in 1 .. Len(toBox)
      BY <3>1, <3>2, AtLeastTwo, Zenon
    <3> QED
      BY <2>2, <3>3
  <2> QED
    BY <1>4, <2>1, <2>2
<1>6. toBox[MsgLen] \in Byte
  BY <1>1, <1>5
<1>7. Decode(MsgHigh, toBox[MsgLen]) \in Frame11
  BY <1>2, <1>6, DecodeFrame
<1> QED
  BY <1>2, <1>6, <1>7 DEF Msg

-----------------------------------------------------------------------------
(***************************************************************************)
(* The steps                                                               *)
(***************************************************************************)
Exchanged == {asked, taken, replied, received} \subseteq (0 .. 2047) \cup {NoFrame}

\* The invariant in its parts, before a step and after it.
LEMMA Before ==
  ASSUME LinkInv
  PROVE  /\ lasth \in Byte /\ prog \in {"off", "init", "on"} /\ box \in BoxRecord
         /\ toProg \in Seq(Byte) /\ toBox \in Seq(Byte) /\ EndsLow
         /\ Exchanged /\ echo \in 0 .. Len(toProg) /\ fooled \in BOOLEAN
BY DEF LinkInv, TypeOK, Exchanged

LEMMA After ==
  ASSUME lasth' \in Byte, prog' \in {"off", "init", "on"}, box' \in BoxRecord,
         toProg' \in Seq(Byte), toBox' \in Seq(Byte), EndsLow',
         Exchanged', echo' \in 0 .. Len(toProg'), fooled' \in BOOLEAN
  PROVE  LinkInv'
BY DEF LinkInv, TypeOK, Exchanged

LEMMA CallsKept ==
  ASSUME LinkInv, UNCHANGED calls
  PROVE  Exchanged'
BY Before DEF Exchanged, calls

LEMMA EndedKeepsInv ==
  ASSUME LinkInv, prog' = "off", lasth' = 0, echo' = 0,
         UNCHANGED <<box, toProg, toBox, calls, fooled>>
  PROVE  LinkInv'
<1>1. 0 \in Byte /\ 0 \in 0 .. Len(toProg)
  BY Before, LenProperties DEF Byte
<1>2. EndsLow'
  BY Before DEF EndsLow
<1>3. Exchanged'
  BY CallsKept
<1> QED BY <1>1, <1>2, <1>3, Before, After

LEMMA ProgramKeepsInv ==
  ASSUME LinkInv, Program
  PROVE  LinkInv'
<1> USE DEF LinkInv
<1>1. CASE Start
  <2>1. COFI \in Modes
    BY DEF Modes
  <2>2. toBox' \in Seq(Byte) /\ lasth' \in Byte
    BY <1>1, <2>1, CommandType DEF Start
  <2>3. toProg' \in Seq(Byte)
    BY <1>1 DEF Start, TypeOK
  <2>4. EndsLow'
    BY <1>1, <2>1, CommandEndsLow DEF Start, EndsLow
  <2>5. echo' \in 0 .. Len(toProg')
    BY <1>1, <2>3 DEF Start
  <2> QED
    <3>1. UNCHANGED <<box, calls, fooled>> /\ prog' = "init"
      BY <1>1 DEF Start
    <3> QED BY <2>2, <2>3, <2>4, <2>5, <3>1, Before, CallsKept, After
<1>2. CASE Answered
  <2>1. toProg' \in Seq(Byte) /\ echo' \in 0 .. Len(toProg')
    <3>1. CASE Read
      BY <1>2, <3>1, ReadType DEF Answered
    <3>2. CASE toProg' = Tail(toProg) /\ Ended
      BY <1>2, <3>2, ShorterLine DEF Answered, Ended, TypeOK
    <3> QED
      BY <1>2, <3>1, <3>2 DEF Answered
  <2>2. lasth' \in Byte
    <3>1. lasth' = lasth \/ lasth' = 0
      BY <1>2, Zenon DEF Answered, Ended
    <3>2. lasth \in Byte
      BY DEF TypeOK
    <3>3. 0 \in Byte
      BY DEF Byte
    <3> QED
      BY <3>1, <3>2, <3>3
  <2>3. prog' \in {"off", "init", "on"}
    BY <1>2 DEF Answered, Ended
  <2>4. fooled' \in BOOLEAN
    <3>1. fooled' = fooled \/ fooled' = (echo # 1)
      BY <1>2, Zenon DEF Answered
    <3>2. fooled \in BOOLEAN
      BY DEF TypeOK
    <3> QED
      BY <3>1, <3>2, Zenon
  <2> QED
    <3>1. UNCHANGED <<calls, box, toBox>>
      BY <1>2 DEF Answered
    <3>2. EndsLow'
      BY <3>1, Before DEF EndsLow
    <3> QED BY <2>1, <2>2, <2>3, <2>4, <3>1, <3>2, Before, CallsKept, After
<1>3. CASE NoAnswer
  <2>1. /\ prog' = "off" /\ lasth' = 0 /\ echo' = 0
        /\ UNCHANGED <<box, toProg, toBox, calls, fooled>>
    BY <1>3 DEF NoAnswer, Ended
  <2> QED BY <2>1, EndedKeepsInv
<1>4. CASE TakeHigh
  <2>1. toProg' \in Seq(Byte) /\ echo' \in 0 .. Len(toProg')
    BY <1>4, ReadType DEF TakeHigh
  <2>2. toBox \in Seq(Byte) /\ Ack \in Byte /\ ~IsHigh(Ack)
    BY DEF TypeOK, Ack, Byte, IsHigh
  <2>3. toBox' \in Seq(Byte) /\ EndsLow'
    BY <1>4, <2>2, AppendProperties DEF TakeHigh, EndsLow, IsHigh
  <2>4. lasth' \in Byte
    BY <1>4, ShorterLine DEF TakeHigh, TypeOK
  <2> QED
    <3>1. UNCHANGED <<prog, box, calls, fooled>>
      BY <1>4 DEF TakeHigh
    <3> QED BY <2>1, <2>3, <2>4, <3>1, Before, CallsKept, After
<1>5. CASE Reply
  <2>1. PICK g \in Frames : TakeLow(g)
    BY <1>5 DEF Reply
  <2>2. g \in Frame11
    BY <2>1, FramesAreFrames
  <2>3. toProg' \in Seq(Byte) /\ echo' \in 0 .. Len(toProg')
    BY <2>1, ReadType DEF TakeLow
  <2>4. toBox' \in Seq(Byte) /\ lasth' \in Byte
    BY <2>1, <2>2, SendType DEF TakeLow
  <2>5. EndsLow'
    <3>1. toBox' = toBox \o Bytes(lasth, g) /\ lasth \in Byte
      BY <2>1 DEF TakeLow, SendFrame, TypeOK
    <3> QED
      BY <2>2, <3>1, SendEndsLow DEF EndsLow, IsHigh
  <2>6. taken' \in Frame11
    BY <2>1, DecodeFrame, ShorterLine DEF TakeLow, TypeOK
  <2>7. UNCHANGED <<prog, box, asked, received, fooled>> /\ replied' = g
    BY <2>1 DEF TakeLow
  <2>8. Exchanged'
    BY <2>2, <2>6, <2>7, Before DEF Exchanged, Frame11
  <2> QED
    BY <2>3, <2>4, <2>5, <2>7, <2>8, Before, After
<1>6. CASE Stop
  <2>1. TDIS \in Modes
    BY DEF Modes
  <2>2. toBox' \in Seq(Byte) /\ EndsLow'
    BY <1>6, <2>1, CommandType, CommandEndsLow DEF Stop, EndsLow
  <2>3. toProg' \in Seq(Byte)
    <3>1. toProg \in Seq(Byte)
      BY DEF TypeOK
    <3>2. toProg # <<>> => Tail(toProg) \in Seq(Byte)
      BY <3>1, ShorterLine
    <3> QED
      BY <1>6, <3>1, <3>2 DEF Stop
  <2>4. echo' \in 0 .. Len(toProg')
    BY <1>6, <2>3, LenProperties DEF Stop, Ended
  <2> QED
    <3>1. prog' = "off" /\ lasth' = 0 /\ UNCHANGED <<box, calls, fooled>> /\ 0 \in Byte
      BY <1>6 DEF Stop, Ended, Byte
    <3> QED BY <2>2, <2>3, <2>4, <3>1, Before, CallsKept, After
<1>7. CASE Crash
  <2>1. prog' = "off" /\ lasth' = 0 /\ echo' = 0 /\ UNCHANGED <<box, toProg, toBox, calls, fooled>>
    BY <1>7 DEF Crash, Ended
  <2> QED BY <2>1, EndedKeepsInv
<1> QED
  BY <1>1, <1>2, <1>3, <1>4, <1>5, <1>6, <1>7 DEF Program

LEMMA BoxKeepsInv ==
  ASSUME LinkInv, BoxGets
  PROVE  LinkInv'
<1> USE DEF LinkInv
<1>1. toProg \in Seq(Byte) /\ toBox \in Seq(Byte) /\ box \in BoxRecord
  BY DEF TypeOK
<1>2. CASE GetAck
  <2>1. Tail(toBox) = SubSeq(toBox, 1 + 1, Len(toBox))
    BY <1>1, <1>2, TailIsSubSeq DEF GetAck
  <2>2. toBox' \in Seq(Byte) /\ EndsLow'
    BY <1>1, <1>2, <2>1, RestEndsLow DEF GetAck, EndsLow
  <2>3. toProg' \in Seq(Byte) /\ echo' \in 0 .. Len(toProg')
    <3>1. CASE box.low = NoByte
      BY <1>2, <3>1 DEF GetAck, TypeOK
    <3>2. CASE box.low # NoByte
      <4>1. box.low \in Byte
        BY <1>1, <3>2 DEF BoxRecord
      <4>2. /\ Append(toProg, box.low) \in Seq(Byte)
            /\ Len(Append(toProg, box.low)) = Len(toProg) + 1
        BY <1>1, <4>1, AppendProperties
      <4> QED
        BY <1>1, <1>2, <3>2, <4>2, LenProperties DEF GetAck, TypeOK
    <3> QED
      BY <3>1, <3>2
  <2>4. box' \in BoxRecord
    BY <1>1, <1>2 DEF GetAck, BoxRecord
  <2> QED
    <3>1. UNCHANGED <<lasth, prog, calls, fooled>>
      BY <1>2 DEF GetAck
    <3> QED BY <2>2, <2>3, <2>4, <3>1, Before, CallsKept, After
<1>3. CASE GetReply
  <2>1. MsgHigh \in Byte /\ MsgLen \in 1 .. 2 /\ Msg \in Frame11
    BY <1>3, MsgType DEF GetReply
  <2>2. toBox' \in Seq(Byte) /\ EndsLow'
    BY <1>1, <1>3, <2>1, RestEndsLow DEF GetReply, EndsLow
  <2>3. box' \in BoxRecord
    BY <1>1, <1>3, <2>1 DEF GetReply, BoxRecord
  <2>4. Exchanged'
    <3>1. CASE box.waiting
      BY <1>3, <2>1, <3>1 DEF GetReply, Frame11, Exchanged
    <3>2. CASE ~box.waiting
      BY <1>3, <3>2, CallsKept DEF GetReply
    <3> QED
      BY <3>1, <3>2
  <2>5. /\ lasth' \in Byte /\ prog' \in {"off", "init", "on"} /\ toProg' \in Seq(Byte)
        /\ echo' \in 0 .. Len(toProg') /\ fooled' \in BOOLEAN
    BY <1>3 DEF GetReply, TypeOK
  <2> QED
    BY <2>2, <2>3, <2>4, <2>5, After
<1>4. CASE GetCommand
  <2>1. MsgHigh \in Byte /\ MsgLen \in 1 .. 2 /\ toBox[MsgLen] \in Byte
    BY <1>4, MsgType DEF GetCommand
  <2>2. toBox' \in Seq(Byte) /\ EndsLow'
    BY <1>1, <1>4, <2>1, RestEndsLow DEF GetCommand, EndsLow
  <2>3. toProg' \in Seq(Byte) /\ Len(toProg') = Len(toProg) + 1
    BY <1>1, <1>4, <2>1, AppendProperties DEF GetCommand
  <2>4. echo' \in 0 .. Len(toProg') /\ fooled' \in BOOLEAN
    <3>1. Len(toProg) \in Nat /\ echo \in 0 .. Len(toProg) /\ fooled \in BOOLEAN
      BY <1>1, LenProperties DEF TypeOK
    <3>2. CASE OfThisStart
      <4>1. echo' = Len(toProg) + 1 /\ fooled' = FALSE
        BY <1>4, <3>2 DEF GetCommand
      <4>2. echo' = Len(toProg') /\ Len(toProg') \in Nat
        BY <2>3, <3>1, <4>1
      <4>3. echo' \in 0 .. Len(toProg')
        BY <4>2
      <4> QED
        BY <4>1, <4>3
    <3>3. CASE ~OfThisStart
      BY <1>4, <2>3, <3>1, <3>3 DEF GetCommand
    <3> QED
      BY <3>2, <3>3
  <2>5. box' \in BoxRecord
    <3>1. (Msg = COFI) \in BOOLEAN
      BY Zenon
    <3> QED
      BY <1>1, <1>4, <2>1, <3>1 DEF GetCommand, BoxRecord
  <2>6. Exchanged'
    BY <1>4 DEF GetCommand, Exchanged
  <2> QED
    <3>1. UNCHANGED <<lasth, prog>>
      BY <1>4 DEF GetCommand
    <3> QED BY <2>2, <2>3, <2>4, <2>5, <2>6, <3>1, Before, After
<1> QED
  BY <1>2, <1>3, <1>4 DEF BoxGets

LEMMA AskKeepsInv ==
  ASSUME LinkInv, NEW f \in Frames, Ask(f)
  PROVE  LinkInv'
<1> USE DEF LinkInv
<1>1. toProg \in Seq(Byte) /\ box \in BoxRecord /\ f \in Frame11
  BY FramesAreFrames DEF TypeOK
<1>2. High(f) \in Byte /\ Low(f) \in Byte
  BY <1>1, BytesAreBytes DEF High, Low
<1>3. toProg' \in Seq(Byte) /\ Len(toProg') \in {Len(toProg) + 1, Len(toProg) + 2}
  <2>1. CASE toProg' = Append(toProg, Low(f)) \/ toProg' = Append(toProg, High(f))
    BY <1>1, <1>2, <2>1, AppendProperties
  <2>2. CASE toProg' = toProg \o <<High(f), Low(f)>>
    BY <1>1, <1>2, <2>2
  <2> QED
    BY <2>1, <2>2 DEF Ask
<1>4. echo' \in 0 .. Len(toProg')
  BY <1>1, <1>3, LenProperties DEF Ask, TypeOK
<1>5. box' \in BoxRecord
  BY <1>1, <1>2 DEF Ask, BoxRecord
<1>6. Exchanged'
  <2>1. asked' = f /\ taken' = taken /\ replied' = replied /\ received' = NoFrame
    BY DEF Ask
  <2> QED BY <1>1, <2>1, Before DEF Frame11, Exchanged
<1>7. lasth' \in Byte /\ prog' \in {"off", "init", "on"} /\ fooled' \in BOOLEAN
  BY DEF Ask, TypeOK
<1>8. toBox' \in Seq(Byte) /\ EndsLow'
  BY DEF Ask, TypeOK, EndsLow
<1> QED
  BY <1>3, <1>4, <1>5, <1>6, <1>7, <1>8, After

LEMMA LinkInitially == Init => LinkInv
<1> SUFFICES ASSUME Init PROVE LinkInv
  OBVIOUS
<1>1. box \in BoxRecord
  BY LinkAssumption DEF Init, BoxRecord, Byte
<1>2. toProg \in Seq(Byte) /\ toBox \in Seq(Byte) /\ echo \in 0 .. Len(toProg)
  BY EmptySeq DEF Init
<1>3. lasth \in Byte
  BY DEF Init, Byte
<1>4. {asked, taken, replied, received} \subseteq (0 .. 2047) \cup {NoFrame}
  BY DEF Init
<1>5. prog \in {"off", "init", "on"} /\ EndsLow
  BY DEF Init, EndsLow
<1>6. fooled \in BOOLEAN
  BY DEF Init
<1>7. TypeOK
  BY <1>1, <1>2, <1>3, <1>4, <1>5, <1>6 DEF TypeOK
<1> QED
  BY <1>5, <1>7 DEF LinkInv

LEMMA LinkInductive == LinkInv /\ [Next]_vars => LinkInv'
<1> SUFFICES ASSUME LinkInv, [Next]_vars PROVE LinkInv'
  OBVIOUS
<1>1. CASE Program
  BY <1>1, ProgramKeepsInv
<1>2. CASE BoxGets
  BY <1>2, BoxKeepsInv
<1>3. CASE \E f \in Frames : Ask(f)
  BY <1>3, AskKeepsInv
<1>4. CASE UNCHANGED vars
  BY <1>4 DEF vars, calls, LinkInv, TypeOK, EndsLow
<1> QED
  BY <1>1, <1>2, <1>3, <1>4 DEF Next

\* Every variable keeps its type, and the box never waits for the second half
\* of a frame, for any frames, styles of box and any bound.
THEOREM LinkTypeOK == Spec => []TypeOK
<1>1. LinkInv => TypeOK
  BY DEF LinkInv
<1> QED
  BY <1>1, LinkInitially, LinkInductive, PTL DEF Spec

-----------------------------------------------------------------------------
(***************************************************************************)
(* What is on the line.  A question and its answer are never on their way  *)
(* together with another: the box waits, so while the program is on and    *)
(* was not fooled, line and both last high bytes are at one of the points  *)
(* of a conversation.  Behind a program that has ended lies what it had    *)
(* sent, and behind that there are commands of stops and starts alone.     *)
(***************************************************************************)

\* The line to the box consists of whole messages.
Messages(s) ==
  \A i \in 1 .. Len(s) :
    /\ IsHigh(s[i]) => i < Len(s) /\ s[i + 1] >= 128
    /\ s[i] = Ack \/ IsHigh(s[i]) \/ s[i] >= 128

CommandLows == {LowByte(COFI), LowByte(TDIS)}

\* Behind the first n bytes there are commands only.
CommandsAfter(s, n) ==
  /\ n \in 0 .. Len(s)
  /\ \A i \in n + 1 .. Len(s) :
       /\ s[i] = HighByte(COFI) => i < Len(s) /\ s[i + 1] \in CommandLows
       /\ s[i] # HighByte(COFI) => i > n + 1 /\ s[i - 1] = HighByte(COFI) /\ s[i] \in CommandLows

EndsInStart(s) ==
  Len(s) > 1 /\ s[Len(s) - 1] = HighByte(COFI) /\ s[Len(s)] = LowByte(COFI)

LEMMA CommandValues ==
  /\ HighByte(COFI) = 50 /\ HighByte(TDIS) = 50
  /\ LowByte(COFI) = 149 /\ LowByte(TDIS) = 148
  /\ \A cmd \in Modes : CommandBytes(cmd) = <<50, LowByte(cmd)>> /\ LowByte(cmd) \in {148, 149}
BY DEF HighByte, LowByte, COFI, TDIS, CommandBytes, Bytes, Modes

LEMMA Dropped ==
  ASSUME NEW s \in Seq(Byte), NEW n \in 0 .. Len(s)
  PROVE  LET t == SubSeq(s, n + 1, Len(s))
         IN  /\ t \in Seq(Byte) /\ Len(t) = Len(s) - n
             /\ \A i \in 1 .. Len(t) : t[i] = s[i + n]
<1> DEFINE t == SubSeq(s, n + 1, Len(s))
<1>1. Len(s) \in Nat /\ n + 1 \in Nat
  OBVIOUS
<1>2. \A i \in n + 1 .. Len(s) : s[i] \in Byte
  BY <1>1, ElementOfSeq
<1>3. /\ t \in Seq(Byte)
      /\ Len(t) = IF n + 1 <= Len(s) THEN Len(s) - (n + 1) + 1 ELSE 0
      /\ \A i \in 1 .. Len(s) - (n + 1) + 1 : t[i] = s[(n + 1) + i - 1]
  BY <1>1, <1>2, SubSeqProperties
<1>4. Len(t) = Len(s) - n
  BY <1>1, <1>3
<1>5. \A i \in 1 .. Len(t) : t[i] = s[i + n]
  <2> TAKE i \in 1 .. Len(t)
  <2>1. i \in 1 .. Len(s) - (n + 1) + 1 /\ (n + 1) + i - 1 = i + n
    BY <1>1, <1>4
  <2> QED BY <1>3, <2>1
<1> QED BY <1>3, <1>4, <1>5

LEMMA DropMessages ==
  ASSUME NEW s \in Seq(Byte), NEW n \in 0 .. Len(s), Messages(s)
  PROVE  Messages(SubSeq(s, n + 1, Len(s)))
BY Dropped DEF Messages, IsHigh, Byte

LEMMA Joined ==
  ASSUME NEW s \in Seq(Byte), NEW t \in Seq(Byte)
  PROVE  /\ s \o t \in Seq(Byte) /\ Len(s \o t) = Len(s) + Len(t)
         /\ \A i \in 1 .. Len(s) : (s \o t)[i] = s[i]
         /\ \A i \in 1 .. Len(t) : (s \o t)[Len(s) + i] = t[i]
         /\ \A i \in 1 .. Len(s \o t) :
              i \in 1 .. Len(s) \/ \E j \in 1 .. Len(t) : i = Len(s) + j
<1>1. /\ s \o t \in Seq(Byte) /\ Len(s \o t) = Len(s) + Len(t)
      /\ Len(s) \in Nat /\ Len(t) \in Nat
      /\ \A i \in 1 .. Len(s) : (s \o t)[i] = s[i]
      /\ \A i \in 1 .. Len(t) : (s \o t)[Len(s) + i] = t[i]
  OBVIOUS
<1>2. \A m, n \in Nat : \A i \in 1 .. m + n : i \in 1 .. m \/ (i - m \in 1 .. n /\ i = m + (i - m))
  OBVIOUS
<1>3. ASSUME NEW i \in 1 .. Len(s \o t)
      PROVE  i \in 1 .. Len(s) \/ \E j \in 1 .. Len(t) : i = Len(s) + j
  <2>1. i \in 1 .. Len(s) + Len(t)
    BY <1>1
  <2>2. i \in 1 .. Len(s) \/ (i - Len(s) \in 1 .. Len(t) /\ i = Len(s) + (i - Len(s)))
    BY <1>1, <1>2, <2>1, Zenon
  <2> QED BY <2>2
<1> QED BY <1>1, <1>3

LEMMA JoinMessages ==
  ASSUME NEW s \in Seq(Byte), NEW t \in Seq(Byte), Messages(s), Messages(t)
  PROVE  Messages(s \o t)
<1> DEFINE u == s \o t
<1>1. /\ Len(s) \in Nat /\ Len(t) \in Nat /\ Len(u) = Len(s) + Len(t)
      /\ \A i \in 1 .. Len(s) : u[i] = s[i]
      /\ \A i \in 1 .. Len(t) : u[Len(s) + i] = t[i]
      /\ \A i \in 1 .. Len(u) : i \in 1 .. Len(s) \/ \E j \in 1 .. Len(t) : i = Len(s) + j
  BY Joined
<1> HIDE DEF u
<1>2. \A i \in 1 .. Len(u) :
        /\ IsHigh(u[i]) => i < Len(u) /\ u[i + 1] >= 128
        /\ u[i] = Ack \/ IsHigh(u[i]) \/ u[i] >= 128
  <2> TAKE i \in 1 .. Len(u)
  <2>1. CASE i \in 1 .. Len(s)
    <3>1. u[i] = s[i] /\ (i < Len(s) => i + 1 \in 1 .. Len(s) /\ i < Len(u))
      BY <1>1, <2>1
    <3>2. i < Len(s) => u[i + 1] = s[i + 1]
      BY <1>1, <3>1
    <3> QED BY <2>1, <3>1, <3>2 DEF Messages
  <2>2. ASSUME NEW j \in 1 .. Len(t), i = Len(s) + j
        PROVE  /\ IsHigh(u[i]) => i < Len(u) /\ u[i + 1] >= 128
               /\ u[i] = Ack \/ IsHigh(u[i]) \/ u[i] >= 128
    <3>1. u[i] = t[j] /\ (j < Len(t) => u[i + 1] = t[j + 1] /\ i < Len(u))
      BY <1>1, <2>2
    <3> QED BY <3>1 DEF Messages, IsHigh
  <2> QED BY <1>1, <2>1, <2>2
<1> QED BY <1>2 DEF Messages, u

LEMMA BytesMessages ==
  ASSUME NEW h \in Byte, NEW f \in Frame11
  PROVE  Messages(Bytes(h, f)) /\ Bytes(h, f) \in Seq(Byte)
<1>1. HighByte(f) \in Byte /\ LowByte(f) \in 128 .. 255
  BY DEF Frame11, HighByte, LowByte, Byte
<1>2. IsHigh(HighByte(f)) /\ ~IsHigh(LowByte(f)) /\ LowByte(f) \in Byte
  BY BytesAreBytes
<1> QED BY <1>1, <1>2 DEF Messages, Bytes

LEMMA JoinCommand ==
  ASSUME NEW s \in Seq(Byte), NEW cmd \in Modes
  PROVE  /\ \A n : CommandsAfter(s, n) => CommandsAfter(s \o CommandBytes(cmd), n)
         /\ \A i \in 1 .. Len(s) : (s \o CommandBytes(cmd))[i] = s[i]
         /\ Len(s \o CommandBytes(cmd)) = Len(s) + 2
         /\ cmd = COFI => EndsInStart(s \o CommandBytes(cmd))
<1> DEFINE t == <<50, LowByte(cmd)>>
           u == s \o t
<1>1. CommandBytes(cmd) = t /\ LowByte(cmd) \in {148, 149} /\ CommandLows = {148, 149}
      /\ HighByte(COFI) = 50 /\ (cmd = COFI => LowByte(cmd) = 149)
  BY CommandValues DEF CommandLows
<1>2. t \in Seq(Byte) /\ Len(t) = 2 /\ t[1] = 50 /\ t[2] = LowByte(cmd)
  BY <1>1 DEF Byte
<1> HIDE DEF t
<1>3. /\ Len(s) \in Nat /\ Len(u) = Len(s) + 2
      /\ \A i \in 1 .. Len(s) : u[i] = s[i]
      /\ u[Len(s) + 1] = 50 /\ u[Len(s) + 2] = LowByte(cmd)
  <2>1. /\ Len(s) \in Nat /\ Len(u) = Len(s) + Len(t)
        /\ \A i \in 1 .. Len(s) : u[i] = s[i]
        /\ \A i \in 1 .. Len(t) : u[Len(s) + i] = t[i]
    <3>1. t \in Seq(Byte)
      BY <1>2
    <3> QED BY <3>1, Joined
  <2> HIDE DEF u
  <2> QED BY <1>2, <2>1
<1> HIDE DEF u
<1>4. ASSUME NEW n, CommandsAfter(s, n) PROVE CommandsAfter(u, n)
  <2>1. n \in 0 .. Len(u)
    BY <1>3, <1>4 DEF CommandsAfter
  <2>2. ASSUME NEW i \in n + 1 .. Len(u)
        PROVE  /\ u[i] = 50 => i < Len(u) /\ u[i + 1] \in {148, 149}
               /\ u[i] # 50 => i > n + 1 /\ u[i - 1] = 50 /\ u[i] \in {148, 149}
    <3>0. n \in Nat /\ n <= Len(s)
      BY <1>3, <1>4 DEF CommandsAfter
    <3>1. CASE i <= Len(s)
      <4>1. i \in n + 1 .. Len(s) /\ u[i] = s[i] /\ (i < Len(s) => u[i + 1] = s[i + 1])
            /\ (i > n + 1 => u[i - 1] = s[i - 1])
        BY <1>3, <2>2, <3>0, <3>1
      <4> QED BY <1>1, <1>3, <1>4, <3>0, <3>1, <4>1 DEF CommandsAfter
    <3>2. CASE i = Len(s) + 1
      BY <1>1, <1>3, <3>0, <3>2
    <3>3. CASE i = Len(s) + 2
      BY <1>1, <1>3, <3>0, <3>3
    <3> QED BY <1>3, <2>2, <3>0, <3>1, <3>2, <3>3
  <2> QED BY <1>1, <2>1, <2>2 DEF CommandsAfter
<1>5. cmd = COFI => EndsInStart(u)
  BY <1>1, <1>3 DEF EndsInStart
<1> QED BY <1>1, <1>3, <1>4, <1>5 DEF u

LEMMA DropCommands ==
  ASSUME NEW s \in Seq(Byte), NEW n \in 0 .. Len(s), NEW k \in 0 .. n, CommandsAfter(s, n)
  PROVE  CommandsAfter(SubSeq(s, k + 1, Len(s)), n - k)
<1> DEFINE t == SubSeq(s, k + 1, Len(s))
<1>1. Len(s) \in Nat /\ Len(t) = Len(s) - k /\ \A i \in 1 .. Len(t) : t[i] = s[i + k]
  BY Dropped
<1> HIDE DEF t
<1>2. n - k \in 0 .. Len(t)
  BY <1>1
<1>3. ASSUME NEW i \in n - k + 1 .. Len(t)
      PROVE  /\ t[i] = HighByte(COFI) => i < Len(t) /\ t[i + 1] \in CommandLows
             /\ t[i] # HighByte(COFI) => i > n - k + 1 /\ t[i - 1] = HighByte(COFI) /\ t[i] \in CommandLows
  <2>1. i + k \in n + 1 .. Len(s) /\ t[i] = s[i + k]
        /\ (i < Len(t) => t[i + 1] = s[i + k + 1]) /\ (i > n - k + 1 => t[i - 1] = s[i + k - 1])
    <3>0. k \in Nat /\ n \in Nat /\ k <= n /\ i \in Int /\ n - k + 1 <= i /\ i <= Len(s) - k
      BY <1>1, <1>2, <1>3
    <3>1. i + k \in n + 1 .. Len(s) /\ i \in 1 .. Len(t)
      BY <1>1, <3>0
    <3>2. i < Len(t) => i + 1 \in 1 .. Len(t) /\ (i + 1) + k = i + k + 1
      BY <1>1, <3>0
    <3>3. i > n - k + 1 => i - 1 \in 1 .. Len(t) /\ (i - 1) + k = i + k - 1
      BY <1>1, <3>0
    <3>4. t[i] = s[i + k]
      BY <1>1, <3>1
    <3>5. ASSUME i < Len(t) PROVE t[i + 1] = s[i + k + 1]
      <4>1. t[i + 1] = s[(i + 1) + k]
        BY <1>1, <3>2, <3>5
      <4> QED BY <3>2, <3>5, <4>1
    <3>6. ASSUME i > n - k + 1 PROVE t[i - 1] = s[i + k - 1]
      <4>1. t[i - 1] = s[(i - 1) + k]
        BY <1>1, <3>3, <3>6
      <4> QED BY <3>3, <3>6, <4>1
    <3> QED BY <3>1, <3>4, <3>5, <3>6
  <2>2. (i + k < Len(s) <=> i < Len(t)) /\ (i + k > n + 1 <=> i > n - k + 1)
    <3>0. k \in Nat /\ n \in Nat /\ i \in Int
      BY <1>1, <1>2, <1>3
    <3> QED BY <1>1, <3>0
  <2>3. /\ s[i + k] = HighByte(COFI) => i + k < Len(s) /\ s[i + k + 1] \in CommandLows
        /\ s[i + k] # HighByte(COFI) =>
             i + k > n + 1 /\ s[i + k - 1] = HighByte(COFI) /\ s[i + k] \in CommandLows
    <3> DEFINE j == i + k
    <3>1. j \in n + 1 .. Len(s)
      BY <2>1
    <3> HIDE DEF j
    <3>2. /\ s[j] = HighByte(COFI) => j < Len(s) /\ s[j + 1] \in CommandLows
          /\ s[j] # HighByte(COFI) =>
               j > n + 1 /\ s[j - 1] = HighByte(COFI) /\ s[j] \in CommandLows
      BY <3>1 DEF CommandsAfter
    <3> QED BY <3>2 DEF j
  <2> QED BY <2>1, <2>2, <2>3
<1> QED BY <1>2, <1>3 DEF CommandsAfter, t

\* The first of nothing but commands.
LEMMA FirstCommand ==
  ASSUME NEW s \in Seq(Byte), s # <<>>, CommandsAfter(s, 0)
  PROVE  /\ Len(s) > 1 /\ s[1] = 50 /\ s[2] \in {148, 149}
         /\ CommandsAfter(SubSeq(s, 3, Len(s)), 0)
<1>1. Len(s) \in Nat \ {0} /\ HighByte(COFI) = 50 /\ CommandLows = {148, 149}
  BY CommandValues, ShorterLine DEF CommandLows
<1>2. s[1] = 50 /\ Len(s) > 1 /\ s[2] \in {148, 149}
  BY <1>1 DEF CommandsAfter
<1>3. CommandsAfter(s, 2)
  <2>1. 2 \in 0 .. Len(s)
    BY <1>1, <1>2
  <2>2. ASSUME NEW i \in 3 .. Len(s)
        PROVE  /\ s[i] = 50 => i < Len(s) /\ s[i + 1] \in {148, 149}
               /\ s[i] # 50 => i > 3 /\ s[i - 1] = 50 /\ s[i] \in {148, 149}
    <3>1. i \in 1 .. Len(s) /\ i > 2
      BY <1>1
    <3>2. /\ s[i] = 50 => i < Len(s) /\ s[i + 1] \in {148, 149}
          /\ s[i] # 50 => s[i - 1] = 50 /\ s[i] \in {148, 149}
      BY <1>1, <3>1 DEF CommandsAfter
    <3>3. s[i] # 50 => i # 3
      BY <1>2, <3>2
    <3> QED BY <3>1, <3>2, <3>3
  <2> QED BY <1>1, <2>1, <2>2 DEF CommandsAfter
<1>4. 2 \in 0 .. Len(s) /\ 2 \in 0 .. 2
  BY <1>1, <1>2
<1>5. CommandsAfter(SubSeq(s, 2 + 1, Len(s)), 2 - 2)
  BY <1>3, <1>4, DropCommands
<1> QED BY <1>2, <1>5

\* A start's command stays at the end of the line until it is the only message.
LEMMA StartStays ==
  ASSUME NEW s \in Seq(Byte), Messages(s), EndsInStart(s), NEW n \in 0 .. Len(s),
         n = 0 \/ (n = 1 /\ ~IsHigh(s[1])) \/ (n = 2 /\ IsHigh(s[1])), n # Len(s)
  PROVE  EndsInStart(SubSeq(s, n + 1, Len(s)))
<1> DEFINE t == SubSeq(s, n + 1, Len(s))
<1>1. Len(s) \in Nat /\ Len(t) = Len(s) - n /\ \A i \in 1 .. Len(t) : t[i] = s[i + n]
  BY Dropped
<1> HIDE DEF t
<1>2. s[Len(s) - 1] = 50 /\ s[Len(s)] = 149 /\ Len(s) > 1 /\ IsHigh(50)
  BY CommandValues DEF EndsInStart, IsHigh
<1>3. n # Len(s) - 1
  <2>1. n = 1 => Len(s) # 2
    BY <1>2
  <2>2. n = 2 => Len(s) # 3
    <3> SUFFICES ASSUME n = 2, Len(s) = 3 PROVE FALSE
      OBVIOUS
    <3>1. s[2] = 50
      BY <1>2
    <3>2. 1 \in 1 .. Len(s) /\ IsHigh(s[1])
      BY <1>2
    <3>3. s[2] >= 128
      BY <3>2 DEF Messages
    <3> QED BY <3>1, <3>3
  <2> QED BY <1>1, <1>2, <2>1, <2>2
<1>4. Len(t) > 1 /\ t[Len(t)] = s[Len(s)] /\ t[Len(t) - 1] = s[Len(s) - 1]
  <2>1. n \in Nat /\ n <= Len(s) - 2
    BY <1>1, <1>3
  <2>2. Len(t) \in 1 .. Len(t) /\ Len(t) - 1 \in 1 .. Len(t) /\ Len(t) > 1
        /\ Len(t) + n = Len(s) /\ (Len(t) - 1) + n = Len(s) - 1
    BY <1>1, <2>1
  <2> QED BY <1>1, <2>2
<1> QED BY <1>4 DEF EndsInStart, t

-----------------------------------------------------------------------------
(***************************************************************************)
(* The points of a conversation                                            *)
(***************************************************************************)

\* The line to the box begins with n acknowledgements.
Acked(n) == n = 0 \/ (n = 1 /\ Len(toBox) > 0 /\ toBox[1] = Ack)

ReplyLen == IF HighByte(replied) = box.h THEN 1 ELSE 2

\* The answer is on the line behind a bytes, as the box understands it.
ReplyAt(a) ==
  IF HighByte(replied) = box.h
  THEN a < Len(toBox) /\ toBox[a + 1] = LowByte(replied)
  ELSE /\ a + 1 < Len(toBox)
       /\ toBox[a + 1] = HighByte(replied) /\ toBox[a + 2] = LowByte(replied)

\* n bytes are on their way to the program, behind the answer to its start.
Coming(n) == Len(toProg) = echo + n

Idle == ~box.waiting /\ box.low = NoByte /\ Coming(0) /\ toBox = <<>> /\ lasth = box.h

LowComes ==
  /\ box.waiting /\ box.low = NoByte /\ Coming(1) /\ taken = NoFrame
  /\ Len(toBox) <= 1 /\ Acked(Len(toBox)) /\ lasth = box.h
  /\ IsLow(toProg[echo + 1]) /\ Decode(lasth, toProg[echo + 1]) = asked

BothCome ==
  /\ box.waiting /\ box.low = NoByte /\ Coming(2) /\ taken = NoFrame /\ toBox = <<>>
  /\ IsHigh(box.h) /\ toProg[echo + 1] = box.h
  /\ IsLow(toProg[echo + 2]) /\ Decode(box.h, toProg[echo + 2]) = asked

HighComes ==
  /\ box.waiting /\ taken = NoFrame /\ Coming(1) /\ toBox = <<>>
  /\ IsHigh(box.h) /\ toProg[echo + 1] = box.h
  /\ IsLow(box.low) /\ Decode(box.h, box.low) = asked

Acknowledged ==
  /\ box.waiting /\ taken = NoFrame /\ Coming(0) /\ toBox = <<Ack>> /\ lasth = box.h
  /\ IsLow(box.low) /\ Decode(box.h, box.low) = asked

AnswerComes ==
  /\ box.low = NoByte /\ Coming(0)
  /\ box.waiting /\ taken = asked /\ replied \in Frames /\ lasth = HighByte(replied)
  /\ \E a \in 0 .. 1 : Acked(a) /\ ReplyAt(a) /\ Len(toBox) = a + ReplyLen

Conversation == Idle \/ LowComes \/ BothCome \/ HighComes \/ Acknowledged \/ AnswerComes

\* What a program that has ended left on the line to the box.
LeftUnanswered == taken = NoFrame /\ \E a \in 0 .. 1 : Acked(a) /\ CommandsAfter(toBox, a)
LeftAnswer ==
  /\ box.waiting /\ taken = asked /\ replied \in Frames
  /\ \E a \in 0 .. 1 : Acked(a) /\ ReplyAt(a) /\ CommandsAfter(toBox, a + ReplyLen)

\* The program talks, or the answer to its start is on its way.
Live == prog = "on" \/ echo > 0

Talk == ~fooled => IF Live THEN Conversation ELSE LeftUnanswered \/ LeftAnswer

Waits ==
  /\ asked \in Frames \cup {NoFrame} /\ (box.waiting <=> asked # NoFrame)
  /\ ~fooled => /\ ~box.waiting => taken = NoFrame
                /\ taken = NoFrame => replied = NoFrame

Places ==
  /\ prog = "off" \/ (prog = "on" /\ ~fooled) => echo = 0
  /\ prog = "init" => lasth = HighByte(COFI)
  /\ prog = "init" /\ echo = 0 => EndsInStart(toBox)
  /\ prog = "init" /\ echo > 0 => toBox = <<>> /\ ~fooled

LineInv == LinkInv /\ Messages(toBox) /\ Waits /\ Places /\ Talk

LEMMA LineTypes ==
  ASSUME LineInv
  PROVE  /\ TypeOK /\ toProg \in Seq(Byte) /\ toBox \in Seq(Byte) /\ lasth \in Byte
         /\ box \in BoxRecord /\ box.h \in Byte /\ box.low \in Byte \cup {NoByte}
         /\ box.waiting \in BOOLEAN /\ fooled \in BOOLEAN
         /\ Len(toProg) \in Nat /\ Len(toBox) \in Nat /\ echo \in Nat /\ echo <= Len(toProg)
         /\ asked \in Frames \cup {NoFrame} /\ NoFrame \notin Frames
         /\ prog \in {"off", "init", "on"}
<1>1. TypeOK
  BY DEF LineInv, LinkInv
<1>2. toProg \in Seq(Byte) /\ toBox \in Seq(Byte) /\ lasth \in Byte /\ box \in BoxRecord
      /\ echo \in 0 .. Len(toProg) /\ prog \in {"off", "init", "on"}
  BY <1>1 DEF TypeOK
<1>2a. fooled \in BOOLEAN
  BY <1>1 DEF TypeOK
<1>3. box.h \in Byte /\ box.low \in Byte \cup {NoByte} /\ box.waiting \in BOOLEAN
  BY <1>2 DEF BoxRecord
<1>4. Len(toProg) \in Nat /\ Len(toBox) \in Nat /\ echo \in Nat /\ echo <= Len(toProg)
  BY <1>2
<1>5. NoFrame \notin Frames
  BY LinkAssumption DEF NoFrame
<1> QED BY <1>1, <1>2, <1>2a, <1>3, <1>4, <1>5 DEF LineInv, Waits

-----------------------------------------------------------------------------
(***************************************************************************)
(* Calls.  Each step of the line is a step of FrameCall, or none.          *)
(***************************************************************************)
CallStep ==
  [Call!Next]_<<Seen(asked), Seen(taken), Seen(replied), Seen(received)>>

LEMMA NoCallStep ==
  ASSUME UNCHANGED <<calls, fooled>>
  PROVE  CallStep
<1>1. UNCHANGED <<Seen(asked), Seen(taken), Seen(replied), Seen(received)>>
  BY DEF calls, Seen
<1> QED BY <1>1 DEF CallStep

LEMMA GivenUp ==
  ASSUME \/ fooled'
         \/ asked' = NoFrame /\ taken' = NoFrame /\ replied' = NoFrame /\ received' = NoFrame
  PROVE  CallStep
<1>1. /\ Seen(asked)' = NoFrame /\ Seen(taken)' = NoFrame
      /\ Seen(replied)' = NoFrame /\ Seen(received)' = NoFrame
  BY Zenon DEF Seen
<1>2. Call!GiveUp
  BY <1>1 DEF Call!GiveUp, Call!NoCall
<1> QED BY <1>2 DEF CallStep, Call!Next

\* Whatever the program ends from, what it leaves behind is known.
LEMMA EndLeaves ==
  ASSUME LineInv, ~fooled
  PROVE  LeftUnanswered \/ LeftAnswer
<1>1. Len(toBox) \in Nat /\ CommandsAfter(toBox, Len(toBox))
  BY LineTypes DEF CommandsAfter
<1>2. CASE ~Live
  BY <1>2 DEF LineInv, Talk
<1>3. CASE Live
  <2>1. Conversation
    BY <1>3 DEF LineInv, Talk
  <2>2. CASE Idle
    BY <1>1, <2>2 DEF Idle, LineInv, Waits, LeftUnanswered, Acked
  <2>3. CASE LowComes
    BY <1>1, <2>3 DEF LowComes, LeftUnanswered
  <2>4. CASE BothCome \/ HighComes
    BY <1>1, <2>4 DEF BothCome, HighComes, LeftUnanswered, Acked
  <2>5. CASE Acknowledged
    <3>1. Len(toBox) = 1 /\ Acked(1) /\ taken = NoFrame
      BY <2>5 DEF Acknowledged, Acked
    <3> QED BY <1>1, <3>1 DEF LeftUnanswered
  <2>6. CASE AnswerComes
    BY <1>1, <2>6 DEF AnswerComes, LeftAnswer
  <2> QED BY <2>1, <2>2, <2>3, <2>4, <2>5, <2>6 DEF Conversation
<1> QED BY <1>2, <1>3

\* What is left behind stays so when a command is sent.
LEMMA LeftWithCommand ==
  ASSUME LineInv, NEW cmd \in Modes, LeftUnanswered \/ LeftAnswer,
         toBox' = toBox \o CommandBytes(cmd), UNCHANGED <<calls, box>>
  PROVE  (LeftUnanswered \/ LeftAnswer)'
<1>1. /\ \A n : CommandsAfter(toBox, n) => CommandsAfter(toBox', n)
      /\ \A i \in 1 .. Len(toBox) : toBox'[i] = toBox[i]
      /\ Len(toBox') = Len(toBox) + 2 /\ Len(toBox) \in Nat
  BY JoinCommand, LineTypes
<1>2. /\ taken' = taken /\ asked' = asked /\ replied' = replied /\ box' = box
  BY DEF calls
<1>3. ASSUME NEW a \in 0 .. 1, Acked(a) PROVE Acked(a)'
  BY <1>1, <1>3 DEF Acked
<1>4. ASSUME NEW a \in 0 .. 1, ReplyAt(a) PROVE ReplyAt(a)'
  <2>1. a \in Nat
    OBVIOUS
  <2>2. CASE HighByte(replied) = box.h
    <3>1. a + 1 \in 1 .. Len(toBox)
      BY <1>1, <1>4, <2>1, <2>2 DEF ReplyAt
    <3> QED BY <1>1, <1>2, <1>4, <2>1, <2>2, <3>1 DEF ReplyAt
  <2>3. CASE HighByte(replied) # box.h
    <3>1. a + 1 \in 1 .. Len(toBox) /\ a + 2 \in 1 .. Len(toBox)
      BY <1>1, <1>4, <2>1, <2>3 DEF ReplyAt
    <3> QED BY <1>1, <1>2, <1>4, <2>1, <2>3, <3>1 DEF ReplyAt
  <2> QED BY <2>2, <2>3
<1>5. CASE LeftUnanswered
  BY <1>1, <1>2, <1>3, <1>5 DEF LeftUnanswered
<1>6. CASE LeftAnswer
  <2>1. PICK a \in 0 .. 1 : Acked(a) /\ ReplyAt(a) /\ CommandsAfter(toBox, a + ReplyLen)
    BY <1>6 DEF LeftAnswer
  <2>2. ReplyLen' = ReplyLen
    BY <1>2 DEF ReplyLen
  <2>3. Acked(a)' /\ ReplyAt(a)' /\ CommandsAfter(toBox', a + ReplyLen')
    BY <1>1, <1>3, <1>4, <2>1, <2>2
  <2> QED BY <1>2, <1>6, <2>3 DEF LeftAnswer
<1> QED BY <1>5, <1>6

LEMMA LeftUntouched ==
  ASSUME LeftUnanswered \/ LeftAnswer, UNCHANGED <<calls, box, toBox>>
  PROVE  (LeftUnanswered \/ LeftAnswer)'
BY DEF calls, LeftUnanswered, LeftAnswer, Acked, ReplyAt, ReplyLen

-----------------------------------------------------------------------------
(***************************************************************************)
(* The steps of the program.  LinkInv is kept by the lemmas above.         *)
(***************************************************************************)
RestInv == Messages(toBox) /\ Waits /\ Places /\ Talk

LEMMA EmptyLine ==
  ASSUME NEW s \in Seq(Byte)
  PROVE  s = <<>> <=> Len(s) = 0
OBVIOUS

LEMMA HighOrLow ==
  ASSUME NEW b \in Byte
  PROVE  ~(IsHigh(b) /\ IsLow(b))
BY DEF IsHigh, IsLow, Byte

\* One byte is read, and with it goes one byte before what comes.
LEMMA ReadLine ==
  ASSUME LineInv, toProg # <<>>
  PROVE  /\ Head(toProg) = toProg[1] /\ Len(Tail(toProg)) = Len(toProg) - 1
         /\ \A i \in 1 .. Len(toProg) - 1 : Tail(toProg)[i] = toProg[i + 1]
BY LineTypes

LEMMA CommandMessages ==
  ASSUME LineInv, NEW cmd \in Modes
  PROVE  Messages(toBox \o CommandBytes(cmd))
<1>1. cmd \in Frame11 /\ 0 \in Byte
  BY FramesAreFrames DEF Modes, Byte
<1>2. Messages(CommandBytes(cmd)) /\ CommandBytes(cmd) \in Seq(Byte)
  BY <1>1, BytesMessages DEF CommandBytes
<1> QED BY <1>2, JoinMessages, LineTypes DEF LineInv

\* The program has ended: the rest of the invariant, given what is left.
LEMMA EndedInv ==
  ASSUME LineInv, Ended, UNCHANGED <<calls, box, fooled>>, Messages(toBox)',
         ~fooled => (LeftUnanswered \/ LeftAnswer)'
  PROVE  RestInv' /\ CallStep
<1>1. Waits'
  BY DEF LineInv, Waits, calls
<1>2. Places' /\ ~Live'
  BY DEF Ended, Places, Live
<1>3. Talk'
  BY <1>2 DEF Talk
<1> QED BY <1>1, <1>2, <1>3, NoCallStep DEF RestInv

LEMMA StartStep ==
  ASSUME LineInv, Start
  PROVE  RestInv' /\ CallStep
<1>1. /\ prog = "off" /\ prog' = "init" /\ echo' = 0 /\ lasth' = HighByte(COFI)
      /\ toBox' = toBox \o CommandBytes(COFI) /\ UNCHANGED <<box, calls, fooled>>
  BY DEF Start
<1>2. COFI \in Modes
  BY DEF Modes
<1>3. Messages(toBox)'
  BY <1>1, <1>2, CommandMessages
<1>4. Waits'
  BY <1>1 DEF LineInv, Waits, calls
<1>5. Places'
  BY <1>1, <1>2, JoinCommand, LineTypes DEF Places
<1>6. Talk'
  <2>1. ~fooled => (LeftUnanswered \/ LeftAnswer)'
    BY <1>1, <1>2, EndLeaves, LeftWithCommand
  <2> QED BY <1>1, <2>1 DEF Talk, Live
<1> QED BY <1>1, <1>3, <1>4, <1>5, <1>6, NoCallStep DEF RestInv

LEMMA EndStep ==
  ASSUME LineInv, NoAnswer \/ Stop \/ Crash
  PROVE  RestInv' /\ CallStep
<1>1. CASE NoAnswer \/ Crash
  <2>1. Ended /\ UNCHANGED <<calls, box, fooled, toBox>>
    BY <1>1 DEF NoAnswer, Crash
  <2> QED BY <2>1, EndLeaves, LeftUntouched, EndedInv DEF LineInv
<1>2. CASE Stop
  <2>1. Ended /\ UNCHANGED <<calls, box, fooled>> /\ toBox' = toBox \o CommandBytes(TDIS)
        /\ TDIS \in Modes
    BY <1>2 DEF Stop, Modes
  <2> QED BY <2>1, EndLeaves, LeftWithCommand, CommandMessages, EndedInv
<1> QED BY <1>1, <1>2

LEMMA AnsweredStep ==
  ASSUME LineInv, Answered
  PROVE  RestInv' /\ CallStep
<1>1. CASE Read /\ prog' = "on" /\ fooled' = (echo # 1) /\ UNCHANGED lasth
  <2>0. UNCHANGED <<box, toBox, calls>> /\ prog = "init" /\ toProg # <<>>
    BY DEF Answered
  <2>1. CASE echo # 1
    <3>1. fooled' /\ prog' = "on"
      BY <1>1, <2>1
    <3>2. Waits'
      BY <2>0, <3>1 DEF LineInv, Waits, calls
    <3>3. Places' /\ Talk'
      BY <3>1 DEF Places, Talk
    <3> QED BY <2>0, <3>1, <3>2, <3>3, GivenUp DEF RestInv, LineInv
  <2>2. CASE echo = 1
    <3>1. toBox = <<>> /\ ~fooled /\ Live
      BY <2>0, <2>2 DEF LineInv, Places, Live
    <3>2. echo' = 0 /\ ~fooled' /\ prog' = "on" /\ lasth' = lasth /\ toProg' = Tail(toProg)
      <4>1. echo' = 0 /\ toProg' = Tail(toProg)
        BY <1>1, <2>2 DEF Read
      <4>2. ~fooled'
        BY <1>1, <2>2
      <4> QED BY <1>1, <4>1, <4>2
    <3>3. /\ Len(toProg') = Len(toProg) - 1
          /\ \A i \in 1 .. Len(toProg) - 1 : toProg'[i] = toProg[i + 1]
      BY <2>0, <3>2, ReadLine
    <3>4. \A n \in 0 .. 2 : Coming(n) => Coming(n)'
      BY <2>2, <3>2, <3>3, LineTypes DEF Coming
    <3>5. /\ Coming(1) \/ Coming(2) => toProg'[echo' + 1] = toProg[echo + 1]
          /\ Coming(2) => toProg'[echo' + 2] = toProg[echo + 2]
      <4>1. echo + 1 = 2 /\ echo + 2 = 3 /\ echo' + 1 = 1 /\ echo' + 2 = 2
        BY <2>2, <3>2
      <4>2. /\ Coming(1) \/ Coming(2) => 1 \in 1 .. Len(toProg) - 1
            /\ Coming(2) => 2 \in 1 .. Len(toProg) - 1
        BY <2>2 DEF Coming
      <4>3. /\ 1 \in 1 .. Len(toProg) - 1 => toProg'[1] = toProg[2]
            /\ 2 \in 1 .. Len(toProg) - 1 => toProg'[2] = toProg[3]
        BY <3>3
      <4> QED BY <4>1, <4>2, <4>3
    <3>6. Conversation
      BY <3>1 DEF LineInv, Talk
    <3>7. UNCHANGED <<box, toBox, asked, taken, replied, lasth>>
      BY <2>0, <3>2 DEF calls
    <3>8. ASSUME Idle PROVE Conversation'
      BY <3>4, <3>7, <3>8 DEF Idle, Conversation
    <3>9. ASSUME LowComes PROVE Conversation'
      <4>1. Coming(1) /\ toProg'[echo' + 1] = toProg[echo + 1]
        BY <3>5, <3>9 DEF LowComes
      <4> QED BY <3>4, <3>7, <3>9, <4>1 DEF LowComes, Conversation, Acked
    <3>10. ASSUME BothCome PROVE Conversation'
      <4>1. Coming(2) /\ toProg'[echo' + 1] = toProg[echo + 1] /\ toProg'[echo' + 2] = toProg[echo + 2]
        BY <3>5, <3>10 DEF BothCome
      <4> QED BY <3>4, <3>7, <3>10, <4>1 DEF BothCome, Conversation
    <3>11. ASSUME HighComes PROVE Conversation'
      <4>1. Coming(1) /\ toProg'[echo' + 1] = toProg[echo + 1]
        BY <3>5, <3>11 DEF HighComes
      <4> QED BY <3>4, <3>7, <3>11, <4>1 DEF HighComes, Conversation
    <3>12. ~Acknowledged
      BY <3>1 DEF Acknowledged
    <3>13. ~AnswerComes
      BY <3>1 DEF AnswerComes, ReplyLen
    <3>14. Conversation'
      BY <3>6, <3>8, <3>9, <3>10, <3>11, <3>12, <3>13 DEF Conversation
    <3>15. Talk' /\ Places'
      BY <3>2, <3>14 DEF Talk, Live, Places
    <3>16. Waits' /\ Messages(toBox)'
      BY <3>1, <3>2, <3>7 DEF LineInv, Waits
    <3>17. CallStep
      <4>1. fooled = FALSE /\ fooled' = FALSE
        BY <1>1, <2>2, <3>1, LineTypes
      <4> QED BY <2>0, <4>1, NoCallStep
    <3> QED BY <3>15, <3>16, <3>17 DEF RestInv
  <2> QED BY <2>1, <2>2
<1>2. CASE Ended /\ UNCHANGED fooled
  <2>1. Ended /\ UNCHANGED <<calls, box, fooled, toBox>>
    BY <1>2 DEF Answered
  <2> QED BY <2>1, EndLeaves, LeftUntouched, EndedInv DEF LineInv
<1> QED BY <1>1, <1>2 DEF Answered

\* While the program was fooled nothing is promised but whole messages.
LEMMA FooledOn ==
  ASSUME LineInv, fooled, prog = "on", UNCHANGED <<prog, box, asked, fooled>>, Messages(toBox)'
  PROVE  RestInv' /\ CallStep
<1>1. Waits' /\ Places' /\ Talk'
  BY DEF LineInv, Waits, Places, Talk
<1> QED BY <1>1, GivenUp DEF RestInv

LEMMA TakeHighStep ==
  ASSUME LineInv, TakeHigh
  PROVE  RestInv' /\ CallStep
<1>1. /\ prog = "on" /\ toProg # <<>> /\ IsHigh(Head(toProg)) /\ Read
      /\ lasth' = Head(toProg) /\ toBox' = Append(toBox, Ack)
      /\ UNCHANGED <<prog, box, calls, fooled>>
  BY DEF TakeHigh
<1>2. Messages(toBox)'
  <2>1. toBox' = toBox \o <<Ack>> /\ <<Ack>> \in Seq(Byte) /\ Messages(<<Ack>>)
    BY <1>1, LineTypes DEF Ack, Byte, Messages, IsHigh
  <2> QED BY <2>1, JoinMessages, LineTypes DEF LineInv
<1>3. CASE fooled
  BY <1>1, <1>2, <1>3, FooledOn DEF calls
<1>4. CASE ~fooled
  <2>1. echo = 0 /\ echo' = 0 /\ Conversation /\ toProg' = Tail(toProg)
    BY <1>1, <1>4 DEF LineInv, Places, Talk, Live, Read
  <2>2. /\ Head(toProg) = toProg[1] /\ Len(toProg') = Len(toProg) - 1 /\ Len(toProg) # 0
        /\ \A i \in 1 .. Len(toProg) - 1 : toProg'[i] = toProg[i + 1]
    BY <1>1, <2>1, ReadLine, LineTypes
  <2>3. ~Idle /\ ~Acknowledged /\ ~AnswerComes
    BY <2>1, <2>2, LineTypes DEF Idle, Acknowledged, AnswerComes, Coming
  <2>4. ~LowComes
    <3>1. toProg[1] \in Byte /\ echo + 1 = 1
      BY <1>1, <2>1, <2>2, LineTypes, ShorterLine
    <3>2. ~IsLow(toProg[1])
      BY <1>1, <2>2, <3>1, HighOrLow
    <3> QED BY <3>1, <3>2 DEF LowComes
  <2>5. ASSUME BothCome PROVE Conversation'
    <3>1. toBox' = <<Ack>> /\ Len(toBox') = 1 /\ toBox'[1] = Ack
      BY <1>1, <2>5 DEF BothCome
    <3>2. toProg'[echo' + 1] = toProg[echo + 2] /\ Coming(1)' /\ lasth' = box'.h
      BY <1>1, <2>1, <2>2, <2>5, LineTypes DEF BothCome, Coming
    <3>3. LowComes'
      BY <1>1, <2>5, <3>1, <3>2 DEF BothCome, LowComes, Acked, calls
    <3> QED BY <3>3 DEF Conversation
  <2>6. ASSUME HighComes PROVE Conversation'
    <3>1. toBox' = <<Ack>> /\ lasth' = box'.h /\ Coming(0)'
      BY <1>1, <2>1, <2>2, <2>6, LineTypes DEF HighComes, Coming
    <3>2. Acknowledged'
      BY <1>1, <2>6, <3>1 DEF HighComes, Acknowledged, calls
    <3> QED BY <3>2 DEF Conversation
  <2>7. Conversation'
    BY <2>1, <2>3, <2>4, <2>5, <2>6 DEF Conversation
  <2>8. Talk' /\ Places'
    BY <1>1, <2>1, <2>7 DEF Talk, Places, Live
  <2>9. Waits'
    BY <1>1 DEF LineInv, Waits, calls
  <2> QED BY <1>1, <1>2, <2>8, <2>9, NoCallStep DEF RestInv
<1> QED BY <1>3, <1>4

LEMMA TakeLowStep ==
  ASSUME LineInv, NEW g \in Frames, TakeLow(g)
  PROVE  RestInv' /\ CallStep
<1>1. /\ prog = "on" /\ toProg # <<>> /\ IsLow(Head(toProg)) /\ Read
      /\ toBox' = toBox \o Bytes(lasth, g) /\ lasth' = HighByte(g)
      /\ taken' = Decode(lasth, Head(toProg)) /\ replied' = g
      /\ UNCHANGED <<prog, box, asked, received, fooled>>
  BY DEF TakeLow, SendFrame
<1>2. g \in Frame11
  BY FramesAreFrames
<1>3. Messages(toBox)'
  BY <1>1, <1>2, BytesMessages, JoinMessages, LineTypes DEF LineInv
<1>4. CASE fooled
  BY <1>1, <1>3, <1>4, FooledOn
<1>5. CASE ~fooled
  <2>1. echo = 0 /\ echo' = 0 /\ Conversation /\ toProg' = Tail(toProg)
    BY <1>1, <1>5 DEF LineInv, Places, Talk, Live, Read
  <2>2. Head(toProg) = toProg[1] /\ Len(toProg') = Len(toProg) - 1 /\ Len(toProg) # 0
    BY <1>1, <2>1, ReadLine, LineTypes
  <2>3. LowComes
    <3>1. ~Idle /\ ~Acknowledged /\ ~AnswerComes
      BY <2>1, <2>2, LineTypes DEF Idle, Acknowledged, AnswerComes, Coming
    <3>2. ~BothCome /\ ~HighComes
      <4>1. toProg[1] \in Byte /\ echo + 1 = 1
        BY <1>1, <2>1, <2>2, LineTypes, ShorterLine
      <4>2. ~IsHigh(toProg[1])
        BY <1>1, <2>2, <4>1, HighOrLow
      <4> QED BY <4>1, <4>2 DEF BothCome, HighComes
    <3> QED BY <2>1, <3>1, <3>2 DEF Conversation
  <2>4. taken' = asked /\ asked # NoFrame /\ taken = NoFrame /\ Len(toProg) = 1
        /\ lasth = box.h /\ box.waiting /\ box.low = NoByte /\ Len(toBox) \in 0 .. 1
    BY <1>1, <2>1, <2>2, <2>3, LineTypes DEF LowComes, Coming, LineInv, Waits
  <2>5. \E a \in 0 .. 1 : Acked(a)' /\ ReplyAt(a)' /\ Len(toBox') = a + ReplyLen'
    <3> DEFINE b == Bytes(lasth, g)
    <3>1. b \in Seq(Byte) /\ (HighByte(g) = box.h => b = <<LowByte(g)>>)
          /\ (HighByte(g) # box.h => b = <<HighByte(g), LowByte(g)>>)
      BY <1>2, <2>4, BytesMessages, LineTypes DEF Bytes
    <3> HIDE DEF b
    <3>2. Len(toBox') = Len(toBox) + Len(b) /\ (\A i \in 1 .. Len(toBox) : toBox'[i] = toBox[i])
          /\ (\A i \in 1 .. Len(b) : toBox'[Len(toBox) + i] = b[i])
      BY <1>1, <3>1, Joined, LineTypes DEF b
    <3>3. Acked(Len(toBox))
      BY <2>3 DEF LowComes
    <3>4. PICK a \in 0 .. 1 : a = Len(toBox)
      BY <2>4
    <3>5. (a = 1 => toBox[1] = Ack) /\ a \in Nat
      BY <3>3, <3>4 DEF Acked
    <3>6. Len(b) = ReplyLen' /\ Len(b) \in 1 .. 2
      BY <1>1, <3>1 DEF ReplyLen
    <3>7. Acked(a)'
      BY <3>2, <3>4, <3>5, <3>6 DEF Acked
    <3>8. ReplyAt(a)'
      <4>1. CASE HighByte(g) = box.h
        <5>1. Len(b) = 1 /\ b[1] = LowByte(g)
          BY <3>1, <4>1
        <5>2. Len(toBox') = a + 1 /\ toBox'[a + 1] = LowByte(g)
          BY <3>2, <3>4, <3>5, <5>1
        <5>3. a < a + 1
          BY <3>5
        <5> QED BY <1>1, <4>1, <5>2, <5>3 DEF ReplyAt
      <4>2. CASE HighByte(g) # box.h
        <5>1. Len(b) = 2 /\ b[1] = HighByte(g) /\ b[2] = LowByte(g)
          BY <3>1, <4>2
        <5>2. Len(toBox') = a + 2 /\ toBox'[a + 1] = HighByte(g) /\ toBox'[a + 2] = LowByte(g)
          BY <3>2, <3>4, <3>5, <5>1
        <5>3. a + 1 < a + 2
          BY <3>5
        <5> QED BY <1>1, <4>2, <5>2, <5>3 DEF ReplyAt
      <4> QED BY <4>1, <4>2
    <3>9. Len(toBox') = a + ReplyLen'
      BY <3>2, <3>4, <3>6
    <3> QED BY <3>7, <3>8, <3>9
  <2>6. Coming(0)'
    BY <2>1, <2>2, <2>4 DEF Coming
  <2>7. AnswerComes'
    BY <1>1, <2>4, <2>5, <2>6 DEF AnswerComes
  <2>8. Talk' /\ Places'
    BY <1>1, <2>1, <2>7 DEF Talk, Places, Live, Conversation
  <2>9. Waits'
    BY <1>1, <2>4 DEF LineInv, Waits
  <2>10. Call!Take(g)
    BY <1>1, <1>5, <2>4 DEF Call!Take, Seen
  <2>11. CallStep
    BY <2>10 DEF CallStep, Call!Next
  <2> QED BY <1>3, <2>8, <2>9, <2>11 DEF RestInv
<1> QED BY <1>4, <1>5

-----------------------------------------------------------------------------
(***************************************************************************)
(* The steps of the box                                                    *)
(***************************************************************************)
LEMMA AskStep ==
  ASSUME LineInv, NEW f \in Frames, Ask(f)
  PROVE  RestInv' /\ CallStep
<1>1. /\ ~box.waiting /\ asked' = f /\ received' = NoFrame
      /\ UNCHANGED <<lasth, prog, toBox, taken, replied, echo, fooled>>
  BY DEF Ask
<1>2. f \in Frame11 /\ High(f) \in Byte /\ Low(f) \in Byte /\ IsHigh(High(f)) /\ IsLow(Low(f))
  BY FramesAreFrames, BytesAreBytes DEF High, Low
<1>3. Decode(High(f), Low(f)) = f
  BY <1>2, RoundTrip DEF High, Low
<1>4. box'.waiting
  BY LineTypes DEF Ask, BoxRecord
<1>5. f # NoFrame /\ asked = NoFrame
  BY <1>1, LineTypes DEF LineInv, Waits
<1>6. Waits'
  BY <1>1, <1>4, <1>5 DEF LineInv, Waits
<1>7. Places'
  BY <1>1 DEF LineInv, Places
<1>8. CASE fooled
  BY <1>1, <1>6, <1>7, <1>8, GivenUp DEF RestInv, LineInv, Talk
<1>9. CASE ~fooled
  <2>1. taken = NoFrame
    BY <1>1, <1>9 DEF LineInv, Waits
  <2>2. Talk'
    <3>1. CASE Live
      <4>1. Conversation
        BY <1>9, <3>1 DEF LineInv, Talk
      <4>2. Idle
        BY <1>1, <4>1 DEF Conversation, LowComes, BothCome, HighComes, Acknowledged, AnswerComes
      <4>3. /\ toProg \in Seq(Byte) /\ Len(toProg) = echo /\ echo \in Nat
            /\ box.low = NoByte /\ toBox = <<>> /\ lasth = box.h /\ box \in BoxRecord
        BY <4>2, LineTypes DEF Idle, Coming
      <4>4. ASSUME High(f) = box.h /\ toProg' = Append(toProg, Low(f))
                   /\ box' = [box EXCEPT !.waiting = TRUE]
             PROVE  Conversation'
        <5>1. Len(toProg') = echo' + 1 /\ toProg'[echo' + 1] = Low(f)
          BY <1>1, <1>2, <4>3, <4>4
        <5>2. box'.h = box.h /\ box'.low = NoByte
          BY <4>3, <4>4 DEF BoxRecord
        <5>3. LowComes'
          BY <1>1, <1>2, <1>3, <1>4, <2>1, <4>3, <4>4, <5>1, <5>2 DEF LowComes, Coming, Acked
        <5> QED BY <5>3 DEF Conversation
      <4>5. ASSUME toProg' = toProg \o <<High(f), Low(f)>>
                   /\ box' = [box EXCEPT !.waiting = TRUE, !.h = High(f)]
             PROVE  Conversation'
        <5>1. Len(toProg') = echo' + 2 /\ toProg'[echo' + 1] = High(f) /\ toProg'[echo' + 2] = Low(f)
          BY <1>1, <1>2, <4>3, <4>5
        <5>2. box'.h = High(f) /\ box'.low = NoByte
          BY <4>3, <4>5 DEF BoxRecord
        <5>3. BothCome'
          BY <1>1, <1>2, <1>3, <1>4, <2>1, <4>3, <5>1, <5>2 DEF BothCome, Coming
        <5> QED BY <5>3 DEF Conversation
      <4>6. ASSUME toProg' = Append(toProg, High(f))
                   /\ box' = [box EXCEPT !.waiting = TRUE, !.h = High(f), !.low = Low(f)]
             PROVE  Conversation'
        <5>1. Len(toProg') = echo' + 1 /\ toProg'[echo' + 1] = High(f)
          BY <1>1, <1>2, <4>3, <4>6
        <5>2. box'.h = High(f) /\ box'.low = Low(f)
          BY <4>3, <4>6 DEF BoxRecord
        <5>3. HighComes'
          BY <1>1, <1>2, <1>3, <1>4, <2>1, <4>3, <5>1, <5>2 DEF HighComes, Coming
        <5> QED BY <5>3 DEF Conversation
      <4>7. Conversation'
        BY <4>4, <4>5, <4>6 DEF Ask
      <4> QED BY <1>1, <3>1, <4>7 DEF Talk, Live
    <3>2. CASE ~Live
      <4>1. LeftUnanswered
        BY <1>1, <1>9, <3>2 DEF LineInv, Talk, LeftAnswer
      <4>2. LeftUnanswered'
        BY <1>1, <4>1 DEF LeftUnanswered, Acked
      <4> QED BY <1>1, <3>2, <4>2 DEF Talk, Live
    <3> QED BY <3>1, <3>2
  <2>3. Call!Ask(f)
    BY <1>1, <1>5, <1>9 DEF Call!Ask, Seen
  <2>4. CallStep
    BY <2>3 DEF CallStep, Call!Next
  <2> QED BY <1>1, <1>6, <1>7, <2>2, <2>4 DEF RestInv, LineInv
<1> QED BY <1>8, <1>9

\* Where the next message on the line to the box lies.
LEMMA FirstMessage ==
  ASSUME LineInv, toBox # <<>>
  PROVE  /\ Len(toBox) \in Nat \ {0} /\ Head(toBox) = toBox[1]
         /\ IsHigh(toBox[1]) => Len(toBox) > 1
         /\ MsgLen \in 0 .. Len(toBox) /\ MsgLen \in 1 .. 2
<1>1. Len(toBox) \in Nat \ {0} /\ Head(toBox) = toBox[1]
  BY LineTypes, ShorterLine
<1>2. IsHigh(toBox[1]) => Len(toBox) > 1
  BY <1>1 DEF LineInv, Messages
<1> QED BY <1>1, <1>2 DEF MsgLen

\* The first message is the answer, or a command, when that is what comes.
LEMMA AnswerIsMessage ==
  ASSUME LineInv, toBox # <<>>, replied \in Frames, NEW a \in 0 .. 1, Acked(a), ReplyAt(a)
  PROVE  /\ Head(toBox) = Ack <=> a = 1
         /\ a = 0 => /\ MsgLen = ReplyLen /\ Msg = replied /\ MsgHigh = HighByte(replied)
                     /\ Msg \notin Modes
<1>1. replied \in Frame11 /\ replied \notin Modes
  BY FramesAreFrames, LinkAssumption
<1>2. /\ HighByte(replied) \in Byte /\ IsHigh(HighByte(replied))
      /\ LowByte(replied) \in 128 .. 255 /\ ~IsHigh(LowByte(replied))
  <2>1. LowByte(replied) \in 128 .. 255
    BY <1>1 DEF Frame11, LowByte
  <2> QED BY <1>1, <2>1, BytesAreBytes
<1>3. Head(toBox) = toBox[1]
  BY FirstMessage
<1>4. a = 1 => Head(toBox) = Ack
  BY <1>3 DEF Acked
<1>5. CASE a = 0
  <2>1. HighByte(replied) = box.h => toBox[1] = LowByte(replied)
    BY <1>5 DEF ReplyAt
  <2>2. HighByte(replied) # box.h => toBox[1] = HighByte(replied) /\ toBox[2] = LowByte(replied)
    BY <1>5 DEF ReplyAt
  <2>3. Head(toBox) # Ack
    <3>1. ~IsHigh(Ack) /\ Ack \notin 128 .. 255
      BY DEF Ack, IsHigh
    <3> QED BY <1>2, <1>3, <2>1, <2>2, <3>1
  <2>4. MsgLen = ReplyLen /\ MsgHigh = HighByte(replied) /\ toBox[MsgLen] = LowByte(replied)
    BY <1>2, <1>3, <2>1, <2>2 DEF MsgLen, MsgHigh, ReplyLen
  <2>5. Msg = replied
    BY <1>1, <2>4, RoundTrip DEF Msg
  <2> QED BY <1>1, <1>5, <2>3, <2>4, <2>5
<1>6. a = 0 \/ a = 1
  OBVIOUS
<1> QED BY <1>4, <1>5, <1>6

LEMMA CommandIsMessage ==
  ASSUME LineInv, toBox # <<>>, CommandsAfter(toBox, 0)
  PROVE  Head(toBox) # Ack /\ MsgLen = 2 /\ Msg \in Modes /\ MsgHigh = HighByte(COFI)
<1>1. toBox[1] = 50 /\ toBox[2] \in {148, 149} /\ IsHigh(50)
  BY FirstCommand, LineTypes DEF IsHigh
<1>2. Head(toBox) = 50 /\ MsgLen = 2 /\ MsgHigh = 50
  BY <1>1, FirstMessage DEF MsgLen, MsgHigh
<1>3. Msg \in {Decode(50, 148), Decode(50, 149)}
  BY <1>1, <1>2 DEF Msg
<1>4. Decode(50, 148) = TDIS /\ Decode(50, 149) = COFI
  BY DEF Decode, TDIS, COFI
<1> QED BY <1>2, <1>3, <1>4, CommandValues DEF Modes, Ack

\* A start's command that is the last message is read as what it is.
LEMMA StartIsMessage ==
  ASSUME LineInv, EndsInStart(toBox), MsgLen = Len(toBox)
  PROVE  MsgHigh = HighByte(COFI) /\ Msg = COFI
<1>1. Len(toBox) = 2 /\ toBox[1] = 50 /\ toBox[2] = 149 /\ toBox # <<>> /\ MsgLen = 2
  BY CommandValues, LineTypes DEF EndsInStart, MsgLen
<1>2. Head(toBox) = 50 /\ IsHigh(50) /\ Decode(50, 149) = COFI
  BY <1>1, FirstMessage DEF IsHigh, Decode, COFI
<1> QED BY <1>1, <1>2, CommandValues DEF Msg, MsgHigh

LEMMA PlacesAfter ==
  ASSUME LineInv, toBox # <<>>, NEW n \in 1 .. Len(toBox),
         toBox' = SubSeq(toBox, n + 1, Len(toBox)),
         (n = 1 /\ ~IsHigh(toBox[1])) \/ (n = 2 /\ IsHigh(toBox[1])),
         prog = "init" => n # Len(toBox),
         UNCHANGED <<lasth, prog, echo, fooled>>
  PROVE  Places'
<1>1. prog = "init" => echo = 0 /\ EndsInStart(toBox)
  BY LineTypes DEF LineInv, Places
<1>2. n \in 0 .. Len(toBox)
  OBVIOUS
<1>3. prog = "init" => EndsInStart(toBox')
  BY <1>1, <1>2, StartStays, LineTypes DEF LineInv
<1> QED BY <1>1, <1>3 DEF LineInv, Places

LEMMA GetAckStep ==
  ASSUME LineInv, GetAck
  PROVE  RestInv' /\ CallStep
<1>1. /\ toBox # <<>> /\ Head(toBox) = Ack /\ toBox' = Tail(toBox)
      /\ toProg' = IF box.low = NoByte THEN toProg ELSE Append(toProg, box.low)
      /\ box' = [box EXCEPT !.low = NoByte]
      /\ UNCHANGED <<lasth, prog, calls, echo, fooled>>
  BY DEF GetAck
<1>2. /\ toBox' = SubSeq(toBox, 1 + 1, Len(toBox)) /\ 1 \in 0 .. Len(toBox) /\ 1 \in 1 .. Len(toBox)
      /\ toBox[1] = Ack /\ ~IsHigh(toBox[1])
  BY <1>1, FirstMessage, LineTypes, TailIsSubSeq DEF Ack, IsHigh
<1>3. Messages(toBox)'
  BY <1>2, DropMessages, LineTypes DEF LineInv
<1>4. box'.h = box.h /\ box'.waiting = box.waiting /\ box'.low = NoByte
  BY <1>1, LineTypes DEF BoxRecord
<1>5. Waits'
  BY <1>1, <1>4 DEF LineInv, Waits, calls
<1>6. Places'
  <2>1. prog = "init" => 1 # Len(toBox)
    BY <1>1, LineTypes DEF LineInv, Places, EndsInStart
  <2> QED BY <1>1, <1>2, <2>1, PlacesAfter
<1>7. /\ Len(toBox') = Len(toBox) - 1 /\ \A i \in 1 .. Len(toBox') : toBox'[i] = toBox[i + 1]
  BY <1>2, Dropped, LineTypes
<1>8. ASSUME ReplyAt(1), replied \in Frames PROVE ReplyAt(0)'
  BY <1>1, <1>4, <1>7, <1>8, LineTypes DEF ReplyAt, calls
<1>9. ReplyLen' = ReplyLen /\ ReplyLen \in 1 .. 2
  BY <1>1, <1>4 DEF ReplyLen, calls
<1>10. CASE fooled
  BY <1>1, <1>3, <1>5, <1>6, <1>10, GivenUp DEF RestInv, Talk
<1>11. CASE ~fooled
  <2>1. CASE Live
    <3>1. prog = "on" /\ echo = 0 /\ Conversation
      BY <1>1, <1>11, <2>1, LineTypes DEF LineInv, Places, Talk, Live
    <3>2. ~Idle /\ ~BothCome /\ ~HighComes
      BY <1>1 DEF Idle, BothCome, HighComes
    <3>3. ASSUME LowComes PROVE Conversation'
      <4>1. toProg' = toProg /\ Len(toBox) = 1 /\ Len(toBox') = 0
        BY <1>1, <1>2, <1>7, <3>3, LineTypes DEF LowComes
      <4>2. LowComes'
        <5>1. Acked(Len(toBox))' /\ Len(toBox') <= 1
          BY <4>1 DEF Acked
        <5>2. UNCHANGED <<asked, taken, lasth, echo>>
          BY <1>1 DEF calls
        <5> QED BY <1>4, <3>3, <4>1, <5>1, <5>2 DEF LowComes, Coming
      <4> QED BY <4>2 DEF Conversation
    <3>4. ASSUME Acknowledged PROVE Conversation'
      <4>1. box.low \in Byte /\ box.low # NoByte /\ Len(toProg) = 0 /\ Len(toBox') = 0
        <5>1. box.low # NoByte
          BY <3>4 DEF Acknowledged, IsLow, NoByte
        <5>2. Len(toBox) = 1
          BY <3>4 DEF Acknowledged
        <5> QED BY <1>7, <3>1, <3>4, <5>1, <5>2, LineTypes DEF Acknowledged, Coming
      <4>2. Len(toProg') = 1 /\ toProg'[1] = box.low
        BY <1>1, <4>1, LineTypes
      <4>3. LowComes'
        BY <1>1, <1>4, <3>1, <3>4, <4>1, <4>2 DEF LowComes, Acknowledged, Coming, Acked, calls
      <4> QED BY <4>3 DEF Conversation
    <3>5. ASSUME AnswerComes PROVE Conversation'
      <4>1. PICK a \in 0 .. 1 : Acked(a) /\ ReplyAt(a) /\ Len(toBox) = a + ReplyLen
        BY <3>5 DEF AnswerComes
      <4>2. a = 1
        BY <1>1, <3>5, <4>1, AnswerIsMessage DEF AnswerComes
      <4>3. ReplyAt(0)' /\ Acked(0)' /\ Len(toBox') = 0 + ReplyLen'
        BY <1>7, <1>8, <1>9, <3>5, <4>1, <4>2 DEF Acked, AnswerComes
      <4>4. AnswerComes'
        BY <1>1, <1>4, <3>5, <4>3 DEF AnswerComes, Coming, calls
      <4> QED BY <4>4 DEF Conversation
    <3>6. Conversation'
      BY <3>1, <3>2, <3>3, <3>4, <3>5 DEF Conversation
    <3> QED BY <1>1, <1>3, <1>5, <1>6, <3>1, <3>6, NoCallStep DEF RestInv, Talk, Live
  <2>2. CASE ~Live
    <3>1. LeftUnanswered \/ LeftAnswer
      BY <1>11, <2>2 DEF LineInv, Talk
    <3>2. ASSUME LeftUnanswered PROVE LeftUnanswered'
      <4>1. PICK a \in 0 .. 1 : Acked(a) /\ CommandsAfter(toBox, a)
        BY <3>2 DEF LeftUnanswered
      <4>2. a = 1
        <5>1. a # 0
          BY <1>1, <4>1, CommandIsMessage
        <5> QED BY <5>1
      <4>3. 1 \in 0 .. 1 /\ CommandsAfter(SubSeq(toBox, 1 + 1, Len(toBox)), 1 - 1)
        BY <1>2, <4>1, <4>2, DropCommands, LineTypes
      <4>4. CommandsAfter(toBox', 0) /\ Acked(0)'
        BY <1>2, <4>3 DEF Acked
      <4> QED BY <1>1, <3>2, <4>4 DEF LeftUnanswered, calls
    <3>3. ASSUME LeftAnswer PROVE LeftAnswer'
      <4>1. PICK a \in 0 .. 1 : Acked(a) /\ ReplyAt(a) /\ CommandsAfter(toBox, a + ReplyLen)
        BY <3>3 DEF LeftAnswer
      <4>2. a = 1
        BY <1>1, <3>3, <4>1, AnswerIsMessage DEF LeftAnswer
      <4>3. 1 + ReplyLen \in 0 .. Len(toBox) /\ 1 \in 0 .. (1 + ReplyLen)
        BY <1>9, <4>1, <4>2 DEF CommandsAfter
      <4>4. CommandsAfter(SubSeq(toBox, 1 + 1, Len(toBox)), (1 + ReplyLen) - 1)
        BY <1>2, <4>1, <4>2, <4>3, DropCommands, LineTypes
      <4>5. (1 + ReplyLen) - 1 = 0 + ReplyLen'
        BY <1>9
      <4>6. CommandsAfter(toBox', 0 + ReplyLen') /\ ReplyAt(0)' /\ Acked(0)'
        BY <1>2, <1>8, <3>3, <4>1, <4>2, <4>4, <4>5 DEF Acked, LeftAnswer
      <4>7. box'.waiting /\ taken' = asked' /\ replied' \in Frames
        BY <1>1, <1>4, <3>3 DEF LeftAnswer, calls
      <4> QED BY <4>6, <4>7 DEF LeftAnswer
    <3>4. Talk'
      BY <1>1, <2>2, <3>1, <3>2, <3>3 DEF Talk, Live
    <3> QED BY <1>1, <1>3, <1>5, <1>6, <3>4, NoCallStep DEF RestInv
  <2> QED BY <2>1, <2>2
<1> QED BY <1>10, <1>11

LEMMA MessageGone ==
  ASSUME LineInv, toBox # <<>>, toBox' = SubSeq(toBox, MsgLen + 1, Len(toBox))
  PROVE  /\ Messages(toBox)' /\ MsgLen \in 1 .. Len(toBox) /\ Len(toBox') = Len(toBox) - MsgLen
         /\ toBox' \in Seq(Byte)
         /\ (MsgLen = 1 /\ ~IsHigh(toBox[1])) \/ (MsgLen = 2 /\ IsHigh(toBox[1]))
<1>1. MsgLen \in 0 .. Len(toBox) /\ MsgLen \in 1 .. 2 /\ Head(toBox) = toBox[1]
  BY FirstMessage
<1>2. (MsgLen = 1 /\ ~IsHigh(toBox[1])) \/ (MsgLen = 2 /\ IsHigh(toBox[1]))
  BY <1>1 DEF MsgLen
<1>3. Messages(SubSeq(toBox, MsgLen + 1, Len(toBox)))
  BY <1>1, DropMessages, LineTypes DEF LineInv
<1>4. Len(toBox') = Len(toBox) - MsgLen /\ toBox' \in Seq(Byte)
  BY <1>1, Dropped, LineTypes
<1>5. MsgLen \in 1 .. Len(toBox)
  BY <1>1
<1> QED BY <1>2, <1>3, <1>4, <1>5

\* Behind the first command, and behind the answer, there are commands only.
LEMMA CommandsLeft ==
  ASSUME LineInv, toBox # <<>>, toBox' = SubSeq(toBox, MsgLen + 1, Len(toBox)),
         \/ CommandsAfter(toBox, 0)
         \/ CommandsAfter(toBox, MsgLen)
  PROVE  CommandsAfter(toBox', 0) /\ Acked(0)'
<1>1. CASE CommandsAfter(toBox, 0)
  <2>1. CommandsAfter(SubSeq(toBox, 3, Len(toBox)), 0) /\ MsgLen = 2
    BY <1>1, FirstCommand, CommandIsMessage, LineTypes
  <2>2. SubSeq(toBox, MsgLen + 1, Len(toBox)) = SubSeq(toBox, 3, Len(toBox))
    BY <2>1
  <2> QED BY <2>1, <2>2 DEF Acked
<1>2. CASE CommandsAfter(toBox, MsgLen)
  <2>1. MsgLen \in 0 .. Len(toBox) /\ MsgLen \in 0 .. MsgLen
    BY FirstMessage
  <2>2. CommandsAfter(SubSeq(toBox, MsgLen + 1, Len(toBox)), MsgLen - MsgLen)
    BY <1>2, <2>1, DropCommands, LineTypes
  <2>3. MsgLen - MsgLen = 0
    BY <2>1
  <2> QED BY <2>2, <2>3 DEF Acked
<1> QED BY <1>1, <1>2

LEMMA GetReplyStep ==
  ASSUME LineInv, GetReply
  PROVE  RestInv' /\ CallStep
<1>1. /\ toBox # <<>> /\ Head(toBox) # Ack /\ Msg \notin Modes
      /\ toBox' = SubSeq(toBox, MsgLen + 1, Len(toBox))
      /\ box' = [box EXCEPT !.waiting = FALSE, !.h = MsgHigh]
      /\ UNCHANGED <<lasth, prog, toProg, echo, fooled>>
  BY DEF GetReply
<1>2. /\ box.waiting => /\ received' = Msg
                        /\ asked' = NoFrame /\ taken' = NoFrame /\ replied' = NoFrame
      /\ ~box.waiting => UNCHANGED calls
  BY DEF GetReply
<1>3. box'.h = MsgHigh /\ box'.waiting = FALSE /\ box'.low = box.low
  BY <1>1, LineTypes DEF BoxRecord
<1>4. asked' = NoFrame
  BY <1>2 DEF LineInv, Waits, calls
<1>5. ~fooled => taken' = NoFrame /\ replied' = NoFrame
  BY <1>2 DEF LineInv, Waits, calls
<1>6. Waits'
  BY <1>1, <1>3, <1>4, <1>5 DEF Waits
<1>7. Messages(toBox)'
  BY <1>1, MessageGone
<1>8. Places'
  <2>1. prog = "init" => MsgLen # Len(toBox)
    <3> SUFFICES ASSUME prog = "init", MsgLen = Len(toBox) PROVE FALSE
      OBVIOUS
    <3>1. EndsInStart(toBox)
      BY <1>1, LineTypes DEF LineInv, Places
    <3> QED BY <1>1, <3>1, StartIsMessage DEF Modes
  <2> QED BY <1>1, <2>1, MessageGone, PlacesAfter
<1>9. CASE fooled
  BY <1>1, <1>6, <1>7, <1>8, <1>9, GivenUp DEF RestInv, Talk
<1>10. CASE ~fooled
  <2>1. CASE Live
    <3>1. prog = "on" /\ echo = 0 /\ Conversation
      BY <1>1, <1>10, <2>1, LineTypes DEF LineInv, Places, Talk, Live
    <3>2. AnswerComes
      <4>1. ~Idle /\ ~BothCome /\ ~HighComes
        BY <1>1 DEF Idle, BothCome, HighComes
      <4>2. ~LowComes /\ ~Acknowledged
        BY <1>1, FirstMessage DEF LowComes, Acknowledged, Acked
      <4> QED BY <3>1, <4>1, <4>2 DEF Conversation
    <3>3. PICK a \in 0 .. 1 : Acked(a) /\ ReplyAt(a) /\ Len(toBox) = a + ReplyLen
      BY <3>2 DEF AnswerComes
    <3>4. replied \in Frames
      BY <3>2 DEF AnswerComes
    <3>5. a = 0
      BY <1>1, <3>3, <3>4, AnswerIsMessage
    <3>6. MsgLen = ReplyLen /\ Msg = replied /\ MsgHigh = HighByte(replied)
      BY <1>1, <3>3, <3>4, <3>5, AnswerIsMessage
    <3>7. Len(toBox) = MsgLen /\ toBox' = <<>>
      <4>1. Len(toBox) = MsgLen
        BY <3>3, <3>5, <3>6, FirstMessage, <1>1
      <4>2. Len(toBox') = 0 /\ toBox' \in Seq(Byte)
        BY <1>1, <4>1, MessageGone, LineTypes
      <4> QED BY <4>1, <4>2, EmptyLine
    <3>8. Idle'
      BY <1>1, <1>3, <3>2, <3>6, <3>7 DEF Idle, AnswerComes, Coming
    <3>9. Talk'
      BY <1>1, <2>1, <3>8 DEF Talk, Live, Conversation
    <3>10. box.waiting /\ taken = asked /\ asked # NoFrame
      BY <3>2 DEF AnswerComes, LineInv, Waits
    <3>11. Call!Receive
      BY <1>1, <1>2, <1>10, <3>6, <3>10 DEF Call!Receive, Seen
    <3> QED BY <1>6, <1>7, <1>8, <3>9, <3>11 DEF RestInv, CallStep, Call!Next
  <2>2. CASE ~Live
    <3>1. LeftUnanswered \/ LeftAnswer
      BY <1>10, <2>2 DEF LineInv, Talk
    <3>2. ~LeftUnanswered
      <4> SUFFICES ASSUME LeftUnanswered PROVE FALSE
        OBVIOUS
      <4>1. PICK a \in 0 .. 1 : Acked(a) /\ CommandsAfter(toBox, a)
        BY DEF LeftUnanswered
      <4>2. a = 0
        BY <1>1, <4>1, FirstMessage DEF Acked
      <4> QED BY <1>1, <4>1, <4>2, CommandIsMessage
    <3>3. LeftAnswer
      BY <3>1, <3>2
    <3>4. PICK a \in 0 .. 1 : Acked(a) /\ ReplyAt(a) /\ CommandsAfter(toBox, a + ReplyLen)
      BY <3>3 DEF LeftAnswer
    <3>5. replied \in Frames
      BY <3>3 DEF LeftAnswer
    <3>6. a = 0
      BY <1>1, <3>4, <3>5, AnswerIsMessage
    <3>7. MsgLen = ReplyLen /\ Msg = replied
      BY <1>1, <3>4, <3>5, <3>6, AnswerIsMessage
    <3>8. CommandsAfter(toBox, MsgLen)
      BY <3>4, <3>6, <3>7, FirstMessage, <1>1
    <3>9. CommandsAfter(toBox', 0) /\ Acked(0)'
      BY <1>1, <3>8, CommandsLeft
    <3>10. LeftUnanswered'
      BY <1>5, <1>10, <3>9 DEF LeftUnanswered
    <3>11. Talk'
      BY <1>1, <2>2, <3>10 DEF Talk, Live
    <3>12. box.waiting /\ taken = asked /\ asked # NoFrame
      BY <3>3 DEF LeftAnswer, LineInv, Waits
    <3>13. Call!Receive
      BY <1>1, <1>2, <1>10, <3>7, <3>12 DEF Call!Receive, Seen
    <3> QED BY <1>6, <1>7, <1>8, <3>11, <3>13 DEF RestInv, CallStep, Call!Next
  <2> QED BY <2>1, <2>2
<1> QED BY <1>9, <1>10

LEMMA GetCommandStep ==
  ASSUME LineInv, GetCommand
  PROVE  RestInv' /\ CallStep
<1>1. /\ toBox # <<>> /\ Head(toBox) # Ack /\ Msg \in Modes
      /\ toBox' = SubSeq(toBox, MsgLen + 1, Len(toBox))
      /\ toProg' = Append(toProg, toBox[MsgLen])
      /\ asked' = NoFrame /\ taken' = NoFrame /\ replied' = NoFrame /\ received' = NoFrame
      /\ UNCHANGED <<lasth, prog>>
  BY DEF GetCommand
<1>2. box'.h = MsgHigh /\ box'.waiting = FALSE /\ box'.low = NoByte
  BY LineTypes DEF GetCommand, BoxRecord
<1>3. CallStep
  BY <1>1, GivenUp
<1>4. Waits'
  BY <1>1, <1>2 DEF Waits
<1>5. Messages(toBox)'
  BY <1>1, MessageGone
<1>6. prog = "init" => echo = 0 /\ EndsInStart(toBox)
  BY <1>1, LineTypes DEF LineInv, Places
<1>7. CASE OfThisStart
  <2>1. prog = "init" /\ MsgLen = Len(toBox) /\ echo' = Len(toProg) + 1 /\ fooled' = FALSE
    BY <1>7 DEF OfThisStart, GetCommand
  <2>2. MsgHigh = HighByte(COFI) /\ lasth = HighByte(COFI)
    BY <1>6, <2>1, StartIsMessage DEF LineInv, Places
  <2>3. toBox' = <<>>
    <3>1. Len(toBox') = 0 /\ toBox' \in Seq(Byte)
      BY <1>1, <2>1, MessageGone, LineTypes
    <3> QED BY <3>1, EmptyLine
  <2>4. Len(toProg') = echo' + 0 /\ echo' > 0
    <3>1. Len(toProg') = Len(toProg) + 1 /\ Len(toProg) \in Nat
      BY <1>1, LineTypes
    <3> QED BY <2>1, <3>1
  <2>5. Idle'
    BY <1>1, <1>2, <2>2, <2>3, <2>4 DEF Idle, Coming
  <2>6. Talk'
    BY <2>1, <2>4, <2>5 DEF Talk, Live, Conversation
  <2>7. Places'
    BY <1>1, <2>1, <2>2, <2>3, <2>4 DEF Places
  <2> QED BY <1>3, <1>4, <1>5, <2>6, <2>7 DEF RestInv
<1>8. CASE ~OfThisStart
  <2>1. UNCHANGED <<echo, fooled>>
    BY <1>8 DEF GetCommand
  <2>2. prog = "init" => MsgLen # Len(toBox)
    BY <1>8 DEF OfThisStart
  <2>3. Places'
    BY <1>1, <2>1, <2>2, MessageGone, PlacesAfter
  <2>4. CASE fooled
    BY <1>3, <1>4, <1>5, <2>1, <2>3, <2>4 DEF RestInv, Talk
  <2>5. CASE ~fooled
    <3>1. ASSUME replied \in Frames, NEW a \in 0 .. 1, Acked(a), ReplyAt(a) PROVE FALSE
      BY <1>1, <3>1, AnswerIsMessage
    <3>2. ~Live
      <4> SUFFICES ASSUME Live PROVE FALSE
        OBVIOUS
      <4>1. Conversation
        BY <2>5 DEF LineInv, Talk
      <4>2. ~Idle /\ ~BothCome /\ ~HighComes
        BY <1>1 DEF Idle, BothCome, HighComes
      <4>3. ~LowComes /\ ~Acknowledged
        BY <1>1, FirstMessage DEF LowComes, Acknowledged, Acked
      <4>4. ~AnswerComes
        BY <3>1 DEF AnswerComes
      <4> QED BY <4>1, <4>2, <4>3, <4>4 DEF Conversation
    <3>3. LeftUnanswered
      BY <2>5, <3>1, <3>2 DEF LineInv, Talk, LeftAnswer
    <3>4. PICK a \in 0 .. 1 : Acked(a) /\ CommandsAfter(toBox, a)
      BY <3>3 DEF LeftUnanswered
    <3>5. a = 0
      BY <1>1, <3>4, FirstMessage DEF Acked
    <3>6. CommandsAfter(toBox', 0) /\ Acked(0)'
      BY <1>1, <3>4, <3>5, CommandsLeft
    <3>7. LeftUnanswered'
      BY <1>1, <3>6 DEF LeftUnanswered
    <3>8. Talk'
      BY <1>1, <2>1, <3>2, <3>7 DEF Talk, Live
    <3> QED BY <1>3, <1>4, <1>5, <2>3, <3>8 DEF RestInv
  <2> QED BY <2>4, <2>5
<1> QED BY <1>7, <1>8

-----------------------------------------------------------------------------
LEMMA LineInitially == Init => LineInv
<1> SUFFICES ASSUME Init PROVE LineInv
  OBVIOUS
<1>1. LinkInv
  BY LinkInitially
<1>2. box.waiting = FALSE /\ toBox = <<>> /\ toProg = <<>> /\ echo = 0 /\ prog = "off"
  BY DEF Init
<1>3. Messages(toBox)
  BY <1>2 DEF Messages
<1>4. Waits /\ Places
  BY <1>2 DEF Init, Waits, Places
<1>5. Talk
  BY <1>2 DEF Init, Talk, Live, LeftUnanswered, Acked, CommandsAfter
<1> QED BY <1>1, <1>3, <1>4, <1>5 DEF LineInv

LEMMA LineInductive == LineInv /\ [Next]_vars => LineInv' /\ CallStep
<1> SUFFICES ASSUME LineInv, [Next]_vars PROVE LineInv' /\ CallStep
  OBVIOUS
<1>1. LinkInv'
  BY LinkInductive DEF LineInv
<1>2. CASE Start
  BY <1>1, <1>2, StartStep DEF RestInv, LineInv
<1>3. CASE Answered
  BY <1>1, <1>3, AnsweredStep DEF RestInv, LineInv
<1>4. CASE NoAnswer \/ Stop \/ Crash
  BY <1>1, <1>4, EndStep DEF RestInv, LineInv
<1>5. CASE TakeHigh
  BY <1>1, <1>5, TakeHighStep DEF RestInv, LineInv
<1>6. CASE Reply
  BY <1>1, <1>6, TakeLowStep DEF RestInv, LineInv, Reply
<1>7. CASE GetAck
  BY <1>1, <1>7, GetAckStep DEF RestInv, LineInv
<1>8. CASE GetReply
  BY <1>1, <1>8, GetReplyStep DEF RestInv, LineInv
<1>9. CASE GetCommand
  BY <1>1, <1>9, GetCommandStep DEF RestInv, LineInv
<1>10. CASE \E f \in Frames : Ask(f)
  BY <1>1, <1>10, AskStep DEF RestInv, LineInv
<1>11. CASE UNCHANGED vars
  <2>1. CallStep
    BY <1>11, NoCallStep DEF vars
  <2>2. Messages(toBox)' /\ Waits' /\ Places'
    BY <1>11 DEF vars, calls, LineInv, Waits, Places
  <2>3. Talk'
    BY <1>11 DEF vars, calls, LineInv, Talk, Live, Conversation, Idle, LowComes, BothCome,
      HighComes, Acknowledged, AnswerComes, LeftUnanswered, LeftAnswer, Acked, ReplyAt,
      ReplyLen, Coming
  <2> QED BY <1>1, <2>1, <2>2, <2>3 DEF LineInv
<1> QED
  BY <1>2, <1>3, <1>4, <1>5, <1>6, <1>7, <1>8, <1>9, <1>10, <1>11
  DEF Next, Program, BoxGets

LEMMA LineHolds == Spec => []LineInv
BY LineInitially, LineInductive, PTL DEF Spec

\* ilmain.c:170-231: the line is a call (FrameCall) for any frames, either
\* style of box and any number of bytes on their way.  The program takes the
\* frame that was asked and the box the answer that was given, whatever high
\* bytes either side left out, and again after stops, crashes and failed
\* starts; as long as no byte left over was taken for the answer to a start.
THEOREM LineIsCall == Spec => IsCall
<1>1. Init => Call!NoCall
  BY DEF Init, Call!NoCall, Seen
<1>2. LineInv /\ [Next]_vars => CallStep
  BY LineInductive
<1> QED BY <1>1, <1>2, LineHolds, PTL DEF Spec, IsCall, Call!Spec, CallStep

\* lasth and the box's last high byte are equal whenever nothing is on its
\* way, although every byte seen or sent changes one of them (ilmain.c:178-206).
THEOREM EndsAgree == Spec => []InSync
<1>1. LineInv => InSync
  <2> SUFFICES ASSUME LineInv, prog = "on", ~fooled, toProg = <<>>, toBox = <<>>
               PROVE  lasth = box.h
    BY DEF InSync
  <2>1. echo = 0 /\ Len(toProg) = 0 /\ Len(toBox) = 0 /\ Conversation
    BY DEF LineInv, Places, Talk, Live
  <2>2. ~LowComes /\ ~BothCome /\ ~HighComes
    BY <2>1 DEF LowComes, BothCome, HighComes, Coming
  <2>3. ~Acknowledged /\ ~AnswerComes
    BY <2>1 DEF Acknowledged, AnswerComes, ReplyLen
  <2> QED BY <2>1, <2>2, <2>3 DEF Conversation, Idle
<1> QED BY <1>1, LineHolds, PTL
=============================================================================
