------------------------------ MODULE HpilBase ------------------------------
(***************************************************************************)
(* The protocol engine every virtual device runs (ilbase.c).  A device     *)
(* takes a frame from the loop, may change its own protocol state, and     *)
(* hands a frame on; what makes the device a display, a drive or a printer *)
(* is behind callbacks.                                                    *)
(*                                                                         *)
(* hpil_dev_process is one action here for every branch of it.  An action  *)
(* takes the device d and the frame f that reaches it; frame' is the frame *)
(* the device hands on.  The actions are grouped by the callback the       *)
(* branch makes, so that a device's module adds the effect of a callback   *)
(* by conjoining it: Quiet makes none, Hear calls on_receive, Send calls   *)
(* on_send and Status2 on_status2 (the value the callback returns is the   *)
(* parameter), Status calls on_status, Clear on_clear, Command on_cmd and  *)
(* Poll answers an identify frame with the device's service request q.     *)
(***************************************************************************)
EXTENDS HpilFrames, Sequences

CONSTANTS N,         \* number of devices on the loop
          DefAddr,   \* defaddr: device -> address after AAU
          DeviceId,  \* device_id: device -> its characters, ended by CR
          Aid,       \* aid: device -> accessory ID
          TwoByte    \* the devices whose status has a second byte (on_status2)

VARIABLES dev,    \* device -> the fields of its hpil_dev_t
          frame   \* the frame handed on by the last device to run

Device == 1 .. N
CR     == 13
NoByte == -1

\* The bits of hpil_dev_t.state: 0x80, 0x40, 0x02, 0x01 and 0x04.
Flags == {"addressed", "talker", "sda", "sdi", "sst"}

Idle          == {}                                    \* 0x00
Listener      == {"addressed"}                         \* 0x80
Talker        == {"talker"}                            \* 0x40
LastByteOut   == {"addressed", "talker"}               \* 0xC0
Sending       == {"addressed", "talker", "sda"}        \* 0xC2
Identifying   == {"addressed", "talker", "sda", "sdi"} \* 0xC3
StatusPending == {"addressed", "talker", "sst"}        \* 0xC4

ASSUME LoopAssumption ==
  /\ N \in Nat \ {0}
  /\ DefAddr \in [Device -> 1 .. 30]
  /\ \A d, e \in Device : DefAddr[d] = DefAddr[e] => d = e
  /\ Aid \in [Device -> Byte]
  /\ TwoByte \subseteq Device

\* CR ends the identification string and is nowhere else in it.
ASSUME DeviceIdAssumption ==
  /\ DeviceId \in [Device -> Seq(Byte)]
  /\ \A d \in Device : /\ Len(DeviceId[d]) >= 2
                       /\ \A i \in 1 .. Len(DeviceId[d]) :
                            DeviceId[d][i] = CR <=> i = Len(DeviceId[d])

-----------------------------------------------------------------------------

\* aad is bit 7 of adr: the address was given by an AAD frame.
DevRecord == [adr   : 0 .. 30,
              aad   : BOOLEAN,
              state : SUBSET Flags,
              ptsdi : Nat]

PowerOn(d) == [adr |-> DefAddr[d], aad |-> FALSE, state |-> Idle, ptsdi |-> 0]

Is(d, flag)   == flag \in dev[d].state
Addressed(d)  == Is(d, "addressed")
IsTalker(d)   == Is(d, "talker")
IsListener(d) == Addressed(d) /\ ~IsTalker(d)

\* The source of the loop's data: the talker has been told to go on.
IsSource(d) == Addressed(d) /\ IsTalker(d)

Pass(f) == frame' = f /\ UNCHANGED dev

\* d enters protocol state s and hands on f.
Enter(d, s, f) == frame' = f /\ dev' = [dev EXCEPT ![d].state = s]

-----------------------------------------------------------------------------
(***************************************************************************)
(* Data frames (process_doe).  A talker replaces the frame by its next     *)
(* byte, or by ETO when it has none left; a listener takes it and passes   *)
(* it on.                                                                  *)
(***************************************************************************)
Hear(d, f) == f.k \in DoeKinds /\ IsListener(d) /\ Pass(f)

\* The next character of the identification; CR is not sent but ends it.
NextIdByte(d, f) ==
  /\ f.k \in DoeKinds /\ IsSource(d) /\ Is(d, "sda") /\ Is(d, "sdi")
  /\ dev[d].ptsdi > 0
  /\ DeviceId[d][dev[d].ptsdi] # CR
  /\ dev' = [dev EXCEPT ![d].ptsdi = @ + 1]
  /\ frame' = Dab(DeviceId[d][dev[d].ptsdi])

\* Mutant: the string ends without the state going back to talker.
EndOfIdKeepsState(d, f) ==
  /\ f.k \in DoeKinds /\ IsSource(d) /\ Is(d, "sda") /\ Is(d, "sdi")
  /\ dev[d].ptsdi > 0 => DeviceId[d][dev[d].ptsdi] = CR
  /\ dev' = [dev EXCEPT ![d].ptsdi = 0]
  /\ frame' = Eto

EndOfId(d, f) ==
  /\ f.k \in DoeKinds /\ IsSource(d) /\ Is(d, "sda") /\ Is(d, "sdi")
  /\ dev[d].ptsdi > 0 => DeviceId[d][dev[d].ptsdi] = CR
  /\ dev' = [dev EXCEPT ![d] = [@ EXCEPT !.ptsdi = 0, !.state = Talker]]
  /\ frame' = Eto

\* Mutant: the -1 of on_send goes out as a byte.
SendNextUnchecked(d, f, b) ==
  /\ f.k \in DoeKinds /\ IsSource(d) /\ Is(d, "sda") /\ ~Is(d, "sdi")
  /\ Pass(Dab(b))

\* Mutant: the last byte is not replaced by ETO.
SendNextNoEto(d, f, b) ==
  /\ f.k \in DoeKinds /\ IsSource(d) /\ Is(d, "sda") /\ ~Is(d, "sdi")
  /\ IF b # NoByte THEN Pass(Dab(b)) ELSE Enter(d, Talker, f)

SendNext(d, f, b) ==
  /\ f.k \in DoeKinds /\ IsSource(d) /\ Is(d, "sda") /\ ~Is(d, "sdi")
  /\ IF b # NoByte THEN Pass(Dab(b)) ELSE Enter(d, Talker, Eto)

Status2(d, f, s) ==
  /\ f.k \in DoeKinds /\ IsSource(d) /\ ~Is(d, "sda") /\ Is(d, "sst")
  /\ Enter(d, dev[d].state \ {"sst"}, Dab(s))

\* Mutant: the talker stays addressed after ETO.
SendDoneAddressed(d, f) ==
  /\ f.k \in DoeKinds /\ IsSource(d) /\ ~Is(d, "sda") /\ ~Is(d, "sst")
  /\ Enter(d, LastByteOut, Eto)

SendDone(d, f) ==
  /\ f.k \in DoeKinds /\ IsSource(d) /\ ~Is(d, "sda") /\ ~Is(d, "sst")
  /\ Enter(d, Talker, Eto)

-----------------------------------------------------------------------------
(***************************************************************************)
(* Commands (process_cmd).                                                 *)
(***************************************************************************)
Clear(d, f) ==
  /\ f.k = "DCL" \/ (f.k = "SDC" /\ Addressed(d))
  /\ Pass(f)

Listen(d, f) == f.k = "LAD" /\ f.n = dev[d].adr /\ Enter(d, Listener, f)

Unlisten(d, f) ==
  f.k = "LAD" /\ f.n = NoAddress /\ ~IsTalker(d) /\ Enter(d, Idle, f)

Talk(d, f) == f.k = "TAD" /\ f.n = dev[d].adr /\ Enter(d, Talker, f)

\* Mutant: a talker ignores the TAD of another device.
UntalkIgnored(d, f) ==
  f.k = "TAD" /\ f.n # dev[d].adr /\ IsTalker(d) /\ Pass(f)

Untalk(d, f) ==
  f.k = "TAD" /\ f.n # dev[d].adr /\ IsTalker(d) /\ Enter(d, Idle, f)

InterfaceClear(d, f) == f.k = "IFC" /\ Enter(d, Idle, f)

Unconfigure(d, f) ==
  /\ f.k = "AAU"
  /\ dev' = [dev EXCEPT ![d] = [@ EXCEPT !.adr = DefAddr[d], !.aad = FALSE]]
  /\ frame' = f

\* DDL, DDT and what the engine does not know: on_cmd, which never changes
\* the frame.  (The rest of group 0 reaches no callback; it is among CMD,
\* which every on_cmd ignores.)
Command(d, f) == f.k \in {"DDL", "DDT", "CMD"} /\ Pass(f)

-----------------------------------------------------------------------------
(***************************************************************************)
(* Ready frames (process_rdy).  Only a talker answers them, except AAD.    *)
(***************************************************************************)

\* Mutant: the 0x02 bit stays.
NotReadyIgnored(d, f) ==
  /\ f.k = "NRD" /\ IsTalker(d)
  /\ dev' = [dev EXCEPT ![d].ptsdi = 0]
  /\ frame' = f

\* Mutant: NRD is not left to the talker, the others leave the transfer too.
NotReadyAll(d, f) ==
  /\ f.k = "NRD" /\ frame' = f
  /\ dev' = [dev EXCEPT ![d] =
       [@ EXCEPT !.ptsdi = 0, !.state = IF IsTalker(d) THEN @ \ {"sda"} ELSE Idle]]

\* NRD stops the transfer: the 0x02 bit goes, the others stay.
NotReady(d, f) ==
  /\ f.k = "NRD" /\ IsTalker(d)
  /\ dev' = [dev EXCEPT ![d] = [@ EXCEPT !.ptsdi = 0, !.state = dev[d].state \ {"sda"}]]
  /\ frame' = f

\* Mutant: SDA comes back unanswered when there is no byte.
SendFirstSilent(d, f, b) ==
  /\ f.k = "SDA" /\ IsTalker(d)
  /\ IF b # NoByte THEN Enter(d, Sending, Dab(b)) ELSE Enter(d, Talker, f)

SendFirst(d, f, b) ==
  /\ f.k = "SDA" /\ IsTalker(d)
  /\ IF b # NoByte THEN Enter(d, Sending, Dab(b)) ELSE Enter(d, Talker, Eto)

\* Mutant: SST adds its bits to the state instead of replacing it.
StatusAdded(d, f, s) ==
  /\ f.k = "SST" /\ IsTalker(d)
  /\ Enter(d, dev[d].state \cup IF d \in TwoByte THEN StatusPending ELSE LastByteOut,
           Dab(s))

Status(d, f, s) ==
  /\ f.k = "SST" /\ IsTalker(d)
  /\ Enter(d, IF d \in TwoByte THEN StatusPending ELSE LastByteOut, Dab(s))

\* Mutant: the pointer is left where the last identification stopped.
IdentifyStale(d, f) ==
  /\ f.k = "SDI" /\ IsTalker(d)
  /\ dev' = [dev EXCEPT ![d].state = Identifying]
  /\ frame' = Dab(DeviceId[d][1])

Identify(d, f) ==
  /\ f.k = "SDI" /\ IsTalker(d)
  /\ dev' = [dev EXCEPT ![d] = [@ EXCEPT !.ptsdi = 2, !.state = Identifying]]
  /\ frame' = Dab(DeviceId[d][1])

SendAid(d, f) ==
  f.k = "SAI" /\ IsTalker(d) /\ Enter(d, LastByteOut, Dab(Aid[d]))

\* Mutant: any address is taken.
TakeAnyAddress(d, f) ==
  /\ f.k = "AAD" /\ ~dev[d].aad
  /\ dev' = [dev EXCEPT ![d] = [@ EXCEPT !.adr = f.n, !.aad = TRUE]]
  /\ frame' = F("AAD", f.n + 1)

\* Mutant: the address is not counted up.
TakeSameAddress(d, f) ==
  /\ f.k = "AAD" /\ f.n < 30 /\ ~dev[d].aad
  /\ dev' = [dev EXCEPT ![d] = [@ EXCEPT !.adr = f.n, !.aad = TRUE]]
  /\ frame' = f

\* Mutant: an address is taken again.
TakeAddressAgain(d, f) ==
  /\ f.k = "AAD" /\ f.n < 30
  /\ dev' = [dev EXCEPT ![d] = [@ EXCEPT !.adr = f.n, !.aad = TRUE]]
  /\ frame' = F("AAD", f.n + 1)

\* AAD n: take n if it is below 30 and no AAD frame came before; the next
\* device is offered n + 1.
TakeAddress(d, f) ==
  /\ f.k = "AAD" /\ f.n < 30 /\ ~dev[d].aad
  /\ dev' = [dev EXCEPT ![d] = [@ EXCEPT !.adr = f.n, !.aad = TRUE]]
  /\ frame' = F("AAD", f.n + 1)

-----------------------------------------------------------------------------

\* The frames a device passes on untouched.
Ignore(d, f) ==
  /\ \/ f.k \in DoeKinds /\ ~Addressed(d)
     \/ f.k = "SDC" /\ ~Addressed(d)
     \/ f.k = "LAD" /\ f.n # dev[d].adr /\ (f.n = NoAddress => IsTalker(d))
     \/ f.k = "TAD" /\ f.n # dev[d].adr /\ ~IsTalker(d)
     \/ f.k \in {"NRD", "SDA", "SST", "SDI", "SAI"} /\ ~IsTalker(d)
     \/ f.k \in {"ETO", "RDY"}
     \/ f.k = "AAD" /\ (f.n >= 30 \/ dev[d].aad)
  /\ Pass(f)

\* Identify frames: the service request sets the SRQ bit, and never clears
\* the one a device upstream has set.
Poll(d, f, q) ==
  f.k = "IDY" /\ Pass(IF q THEN F("IDY", 1) ELSE f)

\* The branches that make no callback.
Quiet(d, f) ==
  \/ NextIdByte(d, f) \/ EndOfId(d, f) \/ SendDone(d, f)
  \/ Listen(d, f) \/ Unlisten(d, f) \/ Talk(d, f) \/ Untalk(d, f)
  \/ InterfaceClear(d, f) \/ Unconfigure(d, f)
  \/ NotReady(d, f) \/ Identify(d, f) \/ SendAid(d, f) \/ TakeAddress(d, f)
  \/ Ignore(d, f)

\* The branches that call on_send.
Send(d, f, b) == SendFirst(d, f, b) \/ SendNext(d, f, b)
=============================================================================
