----------------------------- MODULE IlKeyboard -----------------------------
(***************************************************************************)
(* The keyboard: the main loop (ilmain.c) turns keys into bytes and pushes *)
(* them into the ring of the display (ildisp.c); the calculator polls with *)
(* identify frames, sees the service request, makes the display talker     *)
(* once and reads with SDA.  Keys and frames are handled one after the     *)
(* other by the same loop, in any order.                                   *)
(*                                                                         *)
(* The display is the only device here (device 1 of HpilBase), so a frame  *)
(* sent and the answer to it are one step.                                 *)
(***************************************************************************)
EXTENDS HpilBase

CONSTANTS KbufSize,  \* KBUF_SIZE
          Chars      \* the characters typed as they are

VARIABLES kbuf,  \* the ring: kbuf, kbuf_head, kbuf_tail, kbuf_count
          ctl,   \* what the calculator does next
          held,  \* a byte it holds back while it sends NRD
          out    \* the byte the calculator took last

vars == <<dev, frame, kbuf, ctl, held, out>>

ASSUME KeyboardAssumption == KbufSize \in Nat \ {0} /\ Chars \subseteq Byte /\ N = 1

Display == 1
ESC     == 27
NoKey   == -1

-----------------------------------------------------------------------------
(***************************************************************************)
(* The ring                                                                *)
(***************************************************************************)
Ring == [ch    : [0 .. KbufSize - 1 -> Byte],
         head  : 0 .. KbufSize - 1,
         tail  : 0 .. KbufSize - 1,
         count : 0 .. KbufSize]

EmptyRing == [ch |-> [i \in 0 .. KbufSize - 1 |-> 0], head |-> 0, tail |-> 0, count |-> 0]

\* Mutant: a full ring is not noticed.
PushAlways(r, c) ==
  [r EXCEPT !.ch = [@ EXCEPT ![r.tail] = c],
            !.tail = (@ + 1) % KbufSize,
            !.count = IF @ < KbufSize THEN @ + 1 ELSE @]

Push(r, c) ==
  IF r.count < KbufSize
  THEN [r EXCEPT !.ch = [@ EXCEPT ![r.tail] = c],
                 !.tail = (@ + 1) % KbufSize,
                 !.count = @ + 1]
  ELSE r

\* Mutant: the ring wraps one too late.
PopLateWrap(r) ==
  [r EXCEPT !.head = IF @ = KbufSize THEN 0 ELSE @ + 1, !.count = @ - 1]

Pop(r) == [r EXCEPT !.head = (@ + 1) % KbufSize, !.count = @ - 1]

\* What on_send returns.
First(r) == IF r.count = 0 THEN NoByte ELSE r.ch[r.head]

-----------------------------------------------------------------------------
(***************************************************************************)
(* Keys.  A special key stands for two bytes; ^C and the keys ncurses      *)
(* numbers from 256 on, other than those named, for none.                  *)
(***************************************************************************)
SpecialKeys == {"up", "down", "right", "left", "escape", "backspace"}
Keys == [k : SpecialKeys \cup {"enter", "ctrl_c", "other"}] \cup [k : {"char"}, c : Chars]

Code == [up |-> 65, down |-> 66, right |-> 67, left |-> 68, escape |-> ESC, backspace |-> 105]

Bytes(key) ==
  CASE key.k \in SpecialKeys -> <<ESC, Code[key.k]>>
    [] key.k = "enter"       -> <<CR>>
    [] key.k = "char"        -> <<key.c>>
    [] OTHER                 -> <<>>

PushAll(r, bytes) ==
  CASE Len(bytes) = 0 -> r
    [] Len(bytes) = 1 -> Push(r, bytes[1])
    [] Len(bytes) = 2 -> Push(Push(r, bytes[1]), bytes[2])

TypeKey(key) ==
  /\ kbuf' = PushAll(kbuf, Bytes(key))
  /\ UNCHANGED <<dev, frame, ctl, held, out>>

-----------------------------------------------------------------------------
(***************************************************************************)
(* The display                                                             *)
(***************************************************************************)

\* Mutant: no request while the display is talker (the comment of
\* ildisp.c:472-475 tells of it).
SrqNotTalker == kbuf.count > 0 /\ ~IsTalker(Display)

Srq == kbuf.count > 0 /\ ~Is(Display, "sda")

\* ILdisplay(f)
ILdisplay(f) ==
  \/ Poll(Display, f, Srq) /\ UNCHANGED kbuf
  \/ Quiet(Display, f) /\ UNCHANGED kbuf
  \/ /\ Send(Display, f, First(kbuf))
     /\ kbuf' = IF kbuf.count = 0 THEN kbuf ELSE Pop(kbuf)

-----------------------------------------------------------------------------
(***************************************************************************)
(* The calculator                                                          *)
(***************************************************************************)

\* A frame that brings no byte.
Asks(f) == ILdisplay(f) /\ UNCHANGED out

\* A frame that may bring one.
Reads(f) ==
  /\ ILdisplay(f)
  /\ out' = IF frame'.k = "DAB" THEN frame'.n ELSE out
  /\ ctl' = IF frame' = Eto THEN "poll" ELSE "reading"

\* It polls until the request comes.
Identity ==
  /\ ctl = "poll" /\ Asks(F("IDY", 0))
  /\ ctl' = IF frame' = F("IDY", 1) THEN "read" ELSE "poll"
  /\ UNCHANGED held

\* The display is made talker when it is not (and only then).
MakeTalker ==
  /\ ctl = "read" /\ ~IsTalker(Display)
  /\ Asks(F("TAD", dev[Display].adr))
  /\ UNCHANGED <<ctl, held>>

StartRead ==
  /\ ctl = "read" /\ IsTalker(Display)
  /\ Reads(F("SDA", 0))
  /\ UNCHANGED held

ReadOn == ctl = "reading" /\ Reads(frame) /\ UNCHANGED held

\* Enough for now: NRD, and then the byte held back.
StopReading ==
  /\ ctl = "reading" /\ Asks(F("NRD", 0))
  /\ ctl' = "nrd" /\ held' = frame

Release == ctl = "nrd" /\ Reads(held) /\ held' = Eto

Calculator ==
  \/ Identity \/ MakeTalker \/ StartRead \/ ReadOn \/ StopReading \/ Release

\* Between polls it talks to other devices.
Untalking ==
  /\ ctl = "poll" /\ IsTalker(Display)
  /\ Asks(F("TAD", NoAddress))
  /\ UNCHANGED <<ctl, held>>

\* It breaks off at any time.
Break ==
  /\ ctl # "poll" /\ Asks(F("IFC", 0))
  /\ ctl' = "poll" /\ held' = Eto

Init ==
  /\ dev = [d \in Device |-> PowerOn(d)] /\ frame = Eto
  /\ kbuf = EmptyRing /\ out = NoKey
  /\ ctl = "poll" /\ held = Eto

Next == Calculator \/ Untalking \/ Break \/ \E key \in Keys : TypeKey(key)

Spec == Init /\ [][Next]_vars

\* The calculator polls and reads on, whatever is typed meanwhile.
FairSpec == Spec /\ WF_vars(Calculator)

\* ... and does not break off for ever.
PatientSpec == FairSpec /\ <>[][~Break]_vars

-----------------------------------------------------------------------------
(***************************************************************************)
(* Properties                                                              *)
(***************************************************************************)

\* Every variable has its type.
TypeOK ==
  /\ dev \in [Device -> DevRecord] /\ frame \in Frame /\ held \in Frame
  /\ kbuf \in Ring
  /\ ctl \in {"poll", "read", "reading", "nrd"}
  /\ out \in Byte \cup {NoKey}

\* The ring and the transfers together are a bounded queue: bytes reach the
\* calculator in the order typed, once each, through every wrap of the ring
\* and every interruption of a transfer.
Waiting == [i \in 1 .. kbuf.count |-> kbuf.ch[(kbuf.head + i - 1) % KbufSize]]
Queue == INSTANCE KeyQueue
           WITH Size <- KbufSize, pending <- Waiting, Typed <- {Bytes(k) : k \in Keys}
IsQueue == Queue!Spec

\* A byte that waits is read in the end, although the display stays talker
\* and keys go on being typed (ildisp.c:472-475).
Mark == CHOOSE c \in Chars : TRUE
MarkWaits == \E i \in DOMAIN Waiting : Waiting[i] = Mark
MarkRead  == MarkWaits ~> out = Mark

\* A key arrives as all of its bytes or not at all (README.md:152-157).
WholeKeys ==
  [][\A key \in Keys :
       TypeKey(key) => kbuf'.count - kbuf.count \in {0, Len(Bytes(key))}]_vars
=============================================================================
