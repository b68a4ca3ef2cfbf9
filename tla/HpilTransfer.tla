---------------------------- MODULE HpilTransfer ----------------------------
(***************************************************************************)
(* A controller that runs data transfers over the loop.                    *)
(*                                                                         *)
(* A device that is talker answers SDA, SST, SDI or SAI by its first byte. *)
(* The controller sends every byte that comes back out again: the          *)
(* listeners before the talker hear it then (those behind the talker heard *)
(* it as it passed), and the talker replaces it by its next byte, or by    *)
(* ETO.  The controller may hold a byte, send NRD, and then the held byte  *)
(* (hpil-frames-spec.md:325); it may abort with IFC; it may be the source  *)
(* itself.                                                                 *)
(*                                                                         *)
(* The devices' steps are those of HpilLoop.  on_send returns any byte or  *)
(* none: the display runs out of keys, a drive never runs out of sectors.  *)
(* So it is the controller that has enough at some time, and says so by    *)
(* NRD.                                                                    *)
(***************************************************************************)
EXTENDS HpilLoop

CONSTANTS Sources,  \* the devices that have an on_send with data
          MaxLog,   \* bound: bytes the controller reads by one SDA, or writes
          MaxHistory  \* bound: length of the history, which is never reached

ASSUME TransferAssumption ==
  Sources \subseteq Device /\ MaxLog \in Nat \ {0} /\ MaxHistory \in Nat

\* No transfer is as long as MaxHistory: neither one of data, nor a status of
\* two bytes, nor an identification without its CR.
ASSUME HistoryRoom ==
  /\ MaxHistory > MaxLog /\ MaxHistory > 2
  /\ \A d \in Device : MaxHistory >= Len(DeviceId[d])

VARIABLES phase,     \* what the controller is doing
          held,      \* the byte it held back to send NRD
          sot,       \* the ready frame that began the transfer, or "none"
          audience, log, heard, cut  \* history, see HpilBroadcast

history      == <<sot, audience, log, heard, cut>>
transferVars == <<dev, frame, at, inFrame, phase, held, history>>

Controller == 0
Party      == Device \cup {Controller}
Silence    == [p \in Party |-> <<>>]
SotKinds   == {"SDA", "SST", "SDI", "SAI"}
Phases     == {"idle", "reading", "nrd", "released", "writing"}

ForgetTransfer ==
  sot' = "none" /\ audience' = {} /\ log' = <<>> /\ heard' = Silence

TransferInit ==
  /\ Init
  /\ phase = "idle" /\ held = NoLap
  /\ sot = "none" /\ audience = {} /\ log = <<>> /\ heard = Silence /\ cut = FALSE

-----------------------------------------------------------------------------
(***************************************************************************)
(* The devices                                                             *)
(***************************************************************************)

\* What on_send may return.
OnSend(d) == {NoByte} \cup IF d \in Sources THEN Payload ELSE {}

SendTurn(d) == \E b \in OnSend(d) : Send(d, frame, b)

OtherTurn(d) ==
  \/ Quiet(d, frame) \/ Hear(d, frame) \/ Clear(d, frame) \/ Command(d, frame)
  \/ \E s \in Payload : Status(d, frame, s) \/ Status2(d, frame, s)
  \/ \E q \in BOOLEAN : Poll(d, frame, q)

\* The frame d hands on is a byte of its own.
Emits(d) ==
  /\ frame'.k = "DAB"
  /\ \/ frame.k \in DoeKinds /\ IsSource(d)
     \/ frame.k \in SotKinds /\ IsTalker(d)

\* A byte is added to a history.
Noted(h, b) == IF Len(h) < MaxHistory THEN Append(h, b) ELSE h

Hears(d) == frame.k \in DoeKinds /\ IsListener(d)

TransferHop ==
  /\ at \in Device
  /\ SendTurn(at) \/ OtherTurn(at)
  /\ at' = at + 1
  /\ log' = IF Emits(at) THEN Noted(log, frame'.n) ELSE log
  /\ heard' = IF Hears(at) THEN [heard EXCEPT ![at] = Noted(@, frame.n)] ELSE heard
  /\ UNCHANGED <<inFrame, phase, held, sot, audience, cut>>

TransferRestart ==
  /\ Restart
  /\ phase' = "idle" /\ held' = NoLap /\ ForgetTransfer /\ cut' = TRUE

-----------------------------------------------------------------------------
(***************************************************************************)
(* The controller                                                          *)
(***************************************************************************)

\* Any command, address or identify frame between transfers.
Instruct(f) ==
  /\ phase = "idle"
  /\ f.k \notin DoeKinds \cup SotKinds \cup {"NRD"}
  /\ Inject(f)
  /\ UNCHANGED <<phase, held, history>>

Begin(parties, p, k) ==
  /\ phase = "idle" /\ Out
  /\ phase' = p
  /\ sot' = k /\ audience' = parties
  /\ log' = <<>> /\ heard' = Silence /\ cut' = FALSE
  /\ UNCHANGED held

Listeners == {d \in Device : IsListener(d)}

StartReading(k) ==
  Begin(Listeners \cup {Controller}, "reading", k) /\ Inject(F(k, 0))

StartWriting ==
  Begin(Listeners, "writing", "none") /\ UNCHANGED <<dev, frame, at, inFrame>>

Reading == phase \in {"reading", "released"} /\ Out /\ frame.k = "DAB"
ControllerHears == heard' = [heard EXCEPT ![Controller] = Noted(@, frame.n)]

\* The controller reads MaxLog bytes of data at most; all else to its end.
Wants == sot = "SDA" => Len(log) < MaxLog

\* The byte that came back goes out again.
Continue ==
  /\ Reading /\ Wants /\ ControllerHears
  /\ Inject(frame)
  /\ phase' = "reading"
  /\ UNCHANGED <<held, sot, audience, log, cut>>

Interrupt ==
  /\ Reading /\ ControllerHears
  /\ phase = "reading"
  /\ held' = frame
  /\ Inject(F("NRD", 0))
  /\ phase' = "nrd"
  /\ UNCHANGED <<sot, audience, log, cut>>

Release ==
  /\ phase = "nrd" /\ Out
  /\ Inject(held)
  /\ phase' = "released"
  /\ held' = NoLap
  /\ UNCHANGED history

\* ETO, or the ready frame itself when there is no talker.
Finish ==
  /\ phase \in {"reading", "released"} /\ Out /\ frame.k # "DAB"
  /\ phase' = "idle" /\ ForgetTransfer
  /\ UNCHANGED <<dev, frame, at, inFrame, held, cut>>

Write(b) ==
  /\ phase = "writing"
  /\ Len(log) < MaxLog
  /\ Inject(Dab(b))
  /\ log' = Noted(log, b)
  /\ UNCHANGED <<phase, held, sot, audience, heard, cut>>

StopWriting ==
  /\ phase = "writing" /\ Out
  /\ phase' = "idle" /\ ForgetTransfer
  /\ UNCHANGED <<dev, frame, at, inFrame, held, cut>>

AbortTransfer ==
  /\ phase # "idle"
  /\ Inject(F("IFC", 0))
  /\ phase' = "idle" /\ held' = NoLap /\ ForgetTransfer /\ cut' = TRUE

ControllerNext ==
  \/ \E f \in Inputs : Instruct(f)
  \/ \E k \in SotKinds : StartReading(k)
  \/ StartWriting \/ Continue \/ Interrupt \/ Release \/ Finish
  \/ \E b \in Payload : Write(b)
  \/ StopWriting \/ AbortTransfer

TransferNext == TransferHop \/ ControllerNext \/ TransferRestart

TransferSpec == TransferInit /\ [][TransferNext]_transferVars

\* The emulator answers every frame, and the controller goes on with the
\* transfer it has begun: it reads on, or stops it by NRD, at the latest when it
\* has read as much as it wants.
TransferFairSpec ==
  /\ TransferSpec
  /\ WF_transferVars(TransferHop)
  /\ WF_transferVars(Continue \/ Interrupt \/ Release \/ Finish)

-----------------------------------------------------------------------------
(***************************************************************************)
(* Properties                                                              *)
(***************************************************************************)

\* Every variable has its type.
TransferTypeOK ==
  /\ TypeOK
  /\ phase \in Phases /\ held \in Frame
  /\ sot \in SotKinds \cup {"none"} /\ audience \subseteq Party
  /\ log \in Seq(Byte) /\ heard \in [Party -> Seq(Byte)]
  /\ cut \in BOOLEAN /\ Len(log) < MaxHistory

\* The transfers are broadcasts: each byte of the talker, or of the
\* controller, is heard once and in order by every listener, before or behind
\* the talker on the loop, and by the controller, before the next is emitted
\* or the transfer ends, also when NRD holds the last one back; no other device
\* hears any of it.  Only IFC and a restart of the emulator cut a transfer off.
Broadcast == INSTANCE HpilBroadcast WITH Datum <- Byte
IsBroadcast == Broadcast!Spec

\* A device cleared by SDC is a listener and no talker: the test of the 0x80
\* bit alone (ilbase.c:90) is enough because no transfer leaves it set in the
\* talker (hpil-frames-spec.md:445).
ClearsListeners ==
  at \in Device /\ frame.k = "SDC" /\ Addressed(at) => ~IsTalker(at)

\* After NRD the talker answers the held byte by ETO (hpil-frames-spec.md:325),
\* unless it was the first byte of a status of two (ilbase.c:141-143, :66-69).
NrdEndsData == phase = "released" /\ Out /\ sot # "SST" => frame = Eto

\* What the controller writes comes back to it unchanged.
EchoUnchanged == phase = "writing" /\ Out /\ log # <<>> => frame = inFrame

\* When an identification that was not interrupted ends, the controller has
\* read the characters of device_id, and of an accessory ID its one byte,
\* whatever was transferred or interrupted before.  What ends the string is
\* left open, CR and LF or nothing.
Characters(d) == SubSeq(DeviceId[d], 1, Len(DeviceId[d]) - 1)
Tells(s, text) ==
  /\ Len(s) >= Len(text) /\ \A i \in 1 .. Len(text) : s[i] = text[i]
  /\ \A i \in Len(text) + 1 .. Len(s) : s[i] \in {10, 13}
Ended == phase = "reading" /\ Out /\ frame = Eto
IdentityRead ==
  Ended =>
    \A d \in Device : IsTalker(d) =>
      /\ sot = "SDI" => Tells(heard[Controller], Characters(d))
      /\ sot = "SAI" => heard[Controller] = <<Aid[d]>>

\* A transfer that was begun ends: the talker runs out of bytes, or obeys the
\* NRD of a controller that has enough, however long it could go on.
TransferEnds == phase \in {"reading", "nrd", "released"} ~> phase = "idle"
=============================================================================
