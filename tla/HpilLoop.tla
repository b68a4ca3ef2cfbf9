------------------------------ MODULE HpilLoop ------------------------------
(***************************************************************************)
(* The loop: hpil_transmit (ilper7.c) hands a frame from the controller to *)
(* the active devices one after the other, in a fixed order, and returns   *)
(* to the controller what the last one hands on.  The controller is the    *)
(* calculator or computer behind the PILBox; here it may send any frame of *)
(* Inputs at any time, in any order, except that it does not auto-address  *)
(* a loop of which only some devices hold an AAD address                   *)
(* (hpil-frames-spec.md:29, it must send AAU first).                       *)
(*                                                                         *)
(* What the callbacks do is left open: on_send and the status callbacks    *)
(* return any byte of Payload, or on_send has none.                        *)
(***************************************************************************)
EXTENDS HpilBase, FiniteSets

CONSTANTS Inputs,    \* frames the controller may send
          Payload    \* bytes the callbacks may return

VARIABLES at,       \* the device that runs next; N + 1: the frame is out
          inFrame   \* the frame the controller sent

vars == <<dev, frame, at, inFrame>>

ASSUME InputsAssumption == Inputs \subseteq Frame /\ Payload \subseteq Byte

\* No default address among the addresses an AAD lap may end with.
ASSUME AddressRoom == \A d \in Device : DefAddr[d] + N <= 30

Out    == at = N + 1
NoLap  == F("IDY", 0)

-----------------------------------------------------------------------------

Init ==
  /\ dev = [d \in Device |-> PowerOn(d)]
  /\ frame = NoLap /\ inFrame = NoLap
  /\ at = N + 1

\* One device's turn.
Turn(d, f) ==
  \/ Quiet(d, f) \/ Hear(d, f) \/ Clear(d, f) \/ Command(d, f)
  \/ \E b \in Payload \cup {NoByte} : Send(d, f, b)
  \/ \E s \in Payload : Status(d, f, s) \/ Status2(d, f, s)
  \/ \E q \in BOOLEAN : Poll(d, f, q)

Hop ==
  /\ at \in Device
  /\ Turn(at, frame)
  /\ at' = at + 1
  /\ UNCHANGED inFrame

MayAddress ==
  \/ \A d \in Device : dev[d].aad
  \/ \A d \in Device : ~dev[d].aad

Inject(f) ==
  /\ Out
  /\ f.k = "AAD" => MayAddress
  /\ frame' = f /\ inFrame' = f
  /\ at' = 1
  /\ UNCHANGED dev

\* The emulator is stopped, or killed half-way through a frame, and started
\* again: nothing of the devices' state is kept.
Restart ==
  /\ dev' = [d \in Device |-> PowerOn(d)]
  /\ frame' = NoLap /\ inFrame' = NoLap
  /\ at' = N + 1

Next == Hop \/ Restart \/ \E f \in Inputs : Inject(f)

Spec == Init /\ [][Next]_vars

-----------------------------------------------------------------------------
(***************************************************************************)
(* Properties                                                              *)
(***************************************************************************)

\* Every variable has its type.
TypeOK ==
  /\ dev \in [Device -> DevRecord]
  /\ frame \in Frame /\ inFrame \in Frame
  /\ at \in 1 .. N + 1

\* The 32 combinations of the state bits: only these eight arise, whatever
\* frames come in (a test of one bit stands for a mode of the device).
EngineStates ==
  \A d \in Device :
    dev[d].state \in {Idle, Listener, Talker, LastByteOut, Sending, Identifying,
                      StatusPending, Identifying \ {"sda"}}

\* While the identification is being sent its pointer is inside the string:
\* device_id[ptsdi - 1] reads no memory beyond it (ilbase.c:44-50).
SdiInBounds ==
  \A d \in Device : {"sda", "sdi"} \subseteq dev[d].state
                      => dev[d].ptsdi \in 2 .. Len(DeviceId[d])

\* Between two frames no two devices have the same address, whatever mix of
\* AAU, AAD and restarts came before.
Unique == \A d, e \in Device : dev[d].adr = dev[e].adr => d = e
UniqueAddresses == Out => Unique

\* Between two frames at most one device is talker.
OneTalker(S) == \A d, e \in S : IsTalker(d) /\ IsTalker(e) => d = e
SingleTalker == Out => OneTalker(Device)

\* The devices that hold AAD addresses are the first ones of the loop, their
\* addresses are consecutive in its order, and the frame of the AAD m lap that
\* gave them comes back with m plus their number: it tells the controller how
\* many devices there are (hpil-frames-spec.md:13).
Taken == {d \in Device : dev[d].aad}
AadCounts ==
  Out =>
    /\ \E k \in 0 .. N : Taken = 1 .. k
    /\ \A d, e \in Taken : dev[d].adr - dev[e].adr = d - e
    /\ inFrame.k = "AAD" /\ frame # inFrame =>
         dev[1].adr = inFrame.n /\ frame.n = inFrame.n + Cardinality(Taken)

\* When the frame of an AAD lap comes back with 30 or less, every device has
\* taken an address (hpil-frames-spec.md:13 and :189).
AadComplete ==
  Out /\ inFrame.k = "AAD" /\ frame.n <= 30 => \A d \in Device : dev[d].aad

\* A ready frame that asks for data comes back as it was exactly when no
\* device is talker: the controller learns from it that nobody is there.
ReadyAnswered ==
  Out /\ inFrame.k \in {"SDA", "SST", "SDI", "SAI"} =>
    (frame = inFrame <=> \A d \in Device : ~IsTalker(d))

\* An address taken from AAD stays until AAU or a restart.
AddressKept ==
  [][\A d \in Device :
       dev[d].aad /\ dev'[d].adr # dev[d].adr => frame.k = "AAU" \/ Restart]_vars
=============================================================================
