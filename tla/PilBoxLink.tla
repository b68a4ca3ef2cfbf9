----------------------------- MODULE PilBoxLink -----------------------------
(***************************************************************************)
(* The serial line between the program and the PILBox (ilmain.c).          *)
(*                                                                         *)
(* A frame of 11 bits crosses the line as a high byte 001x xxx0 and a low  *)
(* byte 1xxx xxxx.  The high byte is left out when it is the one that went *)
(* before, in either direction: both ends remember a single last high      *)
(* byte, the program in lasth, and every byte seen or sent changes it.     *)
(*                                                                         *)
(* The box is not part of the program.  It is modelled from how the        *)
(* program talks to it: it sends a frame of the HP-IL loop and waits for   *)
(* the frame to pass on, it may wait for the acknowledgement of a high     *)
(* byte before it sends the low one, and it obeys a mode command at any    *)
(* time and echoes its low byte.  A box of style 6 puts only six bits in   *)
(* the low byte.                                                           *)
(***************************************************************************)
EXTENDS Integers, Sequences

CONSTANTS Frames,   \* the frames of the loop
          Styles,   \* the styles of box, of 6 and 7
          MaxLine   \* bound: no start, and no frame of the loop, while
            \* more bytes are on their way

VARIABLES lasth,    \* the program's last high byte
          prog,     \* where the program is
          box,      \* the box, see BoxRecord
          toProg,   \* bytes on their way to the program
          toBox,    \* and to the box
          asked, taken, replied, received,  \* history, see FrameCall
          echo,     \* history: where in toProg the answer to the start is
          fooled    \* history: the program took another byte for the answer

calls == <<asked, taken, replied, received>>
vars  == <<lasth, prog, box, toProg, toBox, calls, echo, fooled>>

COFI == 1173  \* 0x495: identify frames are sent to the program too
TDIS == 1172  \* 0x494: the box stops sending frames
Modes == {COFI, TDIS}

NoFrame == -1
NoByte  == -1
Byte    == 0 .. 255
Ack     == 13

ASSUME LinkAssumption ==
  /\ Frames \subseteq 0 .. 2047 /\ Frames \cap Modes = {}
  /\ Styles \subseteq {6, 7} /\ MaxLine \in Nat

-----------------------------------------------------------------------------
(***************************************************************************)
(* The coding                                                              *)
(***************************************************************************)
HighByte(frame) == 32 + 2 * (frame \div 128)

\* Mutant: the low byte is not masked.
LowByteUnmasked(frame) == 128 + frame

LowByte(frame) == 128 + (frame % 128)

\* Of a box of style 6.
HighByte6(frame) == 32 + frame \div 64
LowByte6(frame)  == 64 + (frame % 64)

IsHigh(b) == b \div 32 = 1
IsLow(b)  == b >= 64

\* Mutant: the last bit of the high byte of a style 6 box is dropped.
DecodeEven(h, b) ==
  IF b >= 128 THEN ((h % 32) \div 2) * 128 + (b % 128)
              ELSE ((h % 32) \div 2) * 128 + (b % 64)

Decode(h, b) ==
  IF b >= 128 THEN ((h % 32) \div 2) * 128 + (b % 128)
              ELSE (h % 32) * 64 + (b % 64)

\* The bytes that SendFrame writes when h is the last high byte.
Bytes(h, frame) ==
  IF HighByte(frame) = h THEN <<LowByte(frame)>> ELSE <<HighByte(frame), LowByte(frame)>>

-----------------------------------------------------------------------------
(***************************************************************************)
(* The program                                                             *)
(***************************************************************************)

\* Mutant: lasth is changed by the high bytes that come in only.
SendFrameForgets(frame) == toBox' = toBox \o Bytes(lasth, frame) /\ lasth' = lasth

SendFrame(frame) ==
  toBox' = toBox \o Bytes(lasth, frame) /\ lasth' = HighByte(frame)

\* InitPILBox sends its command with lasth reset, so with the high byte.
CommandBytes(cmd) == Bytes(0, cmd)

\* One byte less is on its way to the program.
Read == toProg' = Tail(toProg) /\ echo' = IF echo = 0 THEN 0 ELSE echo - 1

\* The process is gone, and lasth with it.
Ended == prog' = "off" /\ lasth' = 0 /\ echo' = 0

\* start_emulation: the port is opened, what has arrived is thrown away, and
\* the box is told to send.
Start ==
  /\ prog = "off"
  /\ \E n \in 0 .. Len(toProg) : toProg' = SubSeq(toProg, n + 1, Len(toProg))
  /\ Len(toBox) + Len(toProg') <= MaxLine
  /\ toBox' = toBox \o CommandBytes(COFI) /\ lasth' = HighByte(COFI)
  /\ prog' = "init" /\ echo' = 0
  /\ UNCHANGED <<box, calls, fooled>>

\* The second half of InitPILBox: one byte is read, and compared in six bits.
Answered ==
  /\ prog = "init" /\ toProg # <<>>
  /\ \/ /\ Head(toProg) % 64 = COFI % 64
        /\ Read
        /\ prog' = "on" /\ fooled' = (echo # 1)
        /\ UNCHANGED lasth
     \/ /\ Head(toProg) % 64 # COFI % 64
        /\ toProg' = Tail(toProg) /\ Ended
        /\ UNCHANGED fooled
  /\ UNCHANGED <<box, toBox, calls>>

\* Nothing came within 50 ms, or a signal ended the waiting.
NoAnswer ==
  /\ prog = "init" /\ Ended
  /\ UNCHANGED <<box, toProg, toBox, calls, fooled>>

\* Mutant: the high byte is not acknowledged.
TakeHighSilently ==
  /\ prog = "on" /\ toProg # <<>> /\ IsHigh(Head(toProg))
  /\ Read
  /\ lasth' = Head(toProg)
  /\ UNCHANGED <<prog, box, toBox, calls, fooled>>

\* PILBox(byt) for the three sorts of bytes.
TakeHigh ==
  /\ prog = "on" /\ toProg # <<>> /\ IsHigh(Head(toProg))
  /\ Read
  /\ lasth' = Head(toProg) /\ toBox' = Append(toBox, Ack)
  /\ UNCHANGED <<prog, box, calls, fooled>>

\* g is what hpil_transmit makes of the frame.
TakeLow(g) ==
  /\ prog = "on" /\ toProg # <<>> /\ IsLow(Head(toProg))
  /\ Read
  /\ SendFrame(g)
  /\ taken' = Decode(lasth, Head(toProg)) /\ replied' = g
  /\ UNCHANGED <<prog, box, asked, received, fooled>>

\* stop_emulation: the box is told to stop; one byte is read, whatever it is,
\* if any comes in time.
Stop ==
  /\ prog = "on" /\ Ended
  /\ toBox' = toBox \o CommandBytes(TDIS)
  /\ \/ toProg # <<>> /\ toProg' = Tail(toProg)
     \/ UNCHANGED toProg
  /\ UNCHANGED <<box, calls, fooled>>

\* The program is killed, or has lost the port.
Crash ==
  /\ prog # "off" /\ Ended
  /\ UNCHANGED <<box, toProg, toBox, calls, fooled>>

Reply == \E g \in Frames : TakeLow(g)

Program == Start \/ Answered \/ NoAnswer \/ TakeHigh \/ Reply \/ Stop \/ Crash

-----------------------------------------------------------------------------
(***************************************************************************)
(* The box                                                                 *)
(***************************************************************************)
BoxRecord == [h       : Byte,              \* its last high byte
              on      : BOOLEAN,           \* it sends frames
              waiting : BOOLEAN,           \* a frame waits for its answer
              low     : Byte \cup {NoByte}, \* to send after an Ack
              style   : {6, 7}]

High(frame) == IF box.style = 6 THEN HighByte6(frame) ELSE HighByte(frame)
Low(frame)  == IF box.style = 6 THEN LowByte6(frame) ELSE LowByte(frame)

\* A frame of the loop reaches the box.
Ask(f) ==
  /\ box.on /\ ~box.waiting /\ Len(toBox) + Len(toProg) <= MaxLine
  /\ asked' = f /\ received' = NoFrame
  /\ \/ /\ High(f) = box.h
        /\ toProg' = Append(toProg, Low(f))
        /\ box' = [box EXCEPT !.waiting = TRUE]
     \/ /\ High(f) # box.h
        /\ toProg' = toProg \o <<High(f), Low(f)>>
        /\ box' = [box EXCEPT !.waiting = TRUE, !.h = High(f)]
     \/ /\ High(f) # box.h
        /\ toProg' = Append(toProg, High(f))
        /\ box' = [box EXCEPT !.waiting = TRUE, !.h = High(f), !.low = Low(f)]
  /\ UNCHANGED <<lasth, prog, toBox, taken, replied, echo, fooled>>

GetAck ==
  /\ toBox # <<>> /\ Head(toBox) = Ack
  /\ toBox' = Tail(toBox)
  /\ toProg' = IF box.low = NoByte THEN toProg ELSE Append(toProg, box.low)
  /\ box' = [box EXCEPT !.low = NoByte]
  /\ UNCHANGED <<lasth, prog, calls, echo, fooled>>

\* A message of the program, one low byte or a high and a low one: the last
\* high byte with it, its low byte, and its length.
MsgHigh == IF IsHigh(Head(toBox)) THEN Head(toBox) ELSE box.h
MsgLen  == IF IsHigh(Head(toBox)) THEN 2 ELSE 1
Msg     == Decode(MsgHigh, toBox[MsgLen])

\* The answer to the frame; it goes on along the loop.
GetReply ==
  /\ toBox # <<>> /\ Head(toBox) # Ack /\ Msg \notin Modes
  /\ toBox' = SubSeq(toBox, MsgLen + 1, Len(toBox))
  /\ box' = [box EXCEPT !.waiting = FALSE, !.h = MsgHigh]
  /\ IF box.waiting
     THEN /\ received' = Msg
          /\ asked' = NoFrame /\ taken' = NoFrame /\ replied' = NoFrame
     ELSE UNCHANGED calls
  /\ UNCHANGED <<lasth, prog, toProg, echo, fooled>>

\* The command of the start under way, and not of one before: the program
\* sends nothing else until it has its answer.
OfThisStart == prog = "init" /\ Len(toBox) = MsgLen

GetCommand ==
  /\ toBox # <<>> /\ Head(toBox) # Ack /\ Msg \in Modes
  /\ toBox' = SubSeq(toBox, MsgLen + 1, Len(toBox))
  /\ toProg' = Append(toProg, toBox[MsgLen])
  /\ box' = [box EXCEPT !.on = (Msg = COFI), !.h = MsgHigh,
                        !.waiting = FALSE, !.low = NoByte]
  /\ asked' = NoFrame /\ taken' = NoFrame /\ replied' = NoFrame /\ received' = NoFrame
  /\ IF OfThisStart
     THEN echo' = Len(toProg) + 1 /\ fooled' = FALSE
     ELSE UNCHANGED <<echo, fooled>>
  /\ UNCHANGED <<lasth, prog>>

BoxGets == GetAck \/ GetReply \/ GetCommand

-----------------------------------------------------------------------------
Init ==
  /\ lasth = 0 /\ prog = "off"
  /\ \E s \in Styles :
       box = [h |-> 0, on |-> FALSE, waiting |-> FALSE, low |-> NoByte, style |-> s]
  /\ toProg = <<>> /\ toBox = <<>>
  /\ asked = NoFrame /\ taken = NoFrame /\ replied = NoFrame /\ received = NoFrame
  /\ echo = 0 /\ fooled = FALSE

Next == Program \/ BoxGets \/ \E f \in Frames : Ask(f)

Spec == Init /\ [][Next]_vars

\* The main loop takes what has come, and the box what is sent to it.
FairSpec == Spec /\ WF_vars(TakeHigh \/ Reply) /\ WF_vars(BoxGets)

-----------------------------------------------------------------------------
(***************************************************************************)
(* Properties                                                              *)
(***************************************************************************)

\* Every variable has its type.
TypeOK ==
  /\ lasth \in Byte /\ prog \in {"off", "init", "on"} /\ box \in BoxRecord
  /\ toProg \in Seq(Byte) /\ toBox \in Seq(Byte)
  /\ {asked, taken, replied, received} \subseteq (0 .. 2047) \cup {NoFrame}
  /\ echo \in 0 .. Len(toProg) /\ fooled \in BOOLEAN

\* The program serves the frames that were asked and the box receives the
\* answers that were given, whatever high bytes were left out in either
\* direction, and again after a stop, a crash or a failed start; unless the
\* program took a byte left over from before for the answer to its start
\* (ilmain.c:170-231).
Seen(frame) == IF fooled THEN NoFrame ELSE frame
Call == INSTANCE FrameCall
          WITH Frame <- Frames, asked <- Seen(asked), taken <- Seen(taken),
               replied <- Seen(replied), received <- Seen(received)
IsCall == Call!Spec

\* When nothing is on its way both ends remember the same high byte.
InSync ==
  prog = "on" /\ ~fooled /\ toProg = <<>> /\ toBox = <<>> => lasth = box.h

\* A frame that was asked is answered, unless the program ends or was fooled.
IsServed == asked # NoFrame ~> (asked = NoFrame \/ prog # "on" \/ fooled)
=============================================================================
