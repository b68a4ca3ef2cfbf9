---------------------------- MODULE HpilBroadcast ----------------------------
(***************************************************************************)
(* What the loop promises of one data transfer: a source emits a sequence  *)
(* of bytes, and every party of the audience hears each of them once, in   *)
(* order, and before the next one is emitted.  A transfer ends when the    *)
(* audience has heard all of it, the last byte too.  Only one that is cut  *)
(* off ends otherwise, and then cut says so.                               *)
(***************************************************************************)
EXTENDS Sequences, Integers

CONSTANTS Party, Datum

VARIABLES audience,  \* the parties the transfer is for
          log,       \* the bytes emitted so far
          heard,     \* party -> the bytes it has heard
          cut        \* the transfer before was cut off

Silence  == [p \in Party |-> <<>>]
Complete == \A p \in audience : heard[p] = log
Nothing  == audience = {} /\ log = <<>>

Forget == audience' = {} /\ log' = <<>> /\ heard' = Silence

Init == Nothing /\ heard = Silence /\ ~cut

Begin(A) ==
  Nothing /\ audience' = A /\ log' = <<>> /\ heard' = Silence /\ cut' = FALSE

Emit(b) ==
  ~cut /\ Complete /\ log' = Append(log, b) /\ UNCHANGED <<audience, heard, cut>>

Hear(p) ==
  /\ p \in audience /\ heard[p] # log
  /\ heard' = [heard EXCEPT ![p] = log]
  /\ UNCHANGED <<audience, log, cut>>

End == ~cut /\ Complete /\ Forget /\ UNCHANGED cut

Abort == Forget /\ cut' = TRUE

Next ==
  \/ \E A \in SUBSET Party : Begin(A)
  \/ \E b \in Datum : Emit(b)
  \/ \E p \in Party : Hear(p)
  \/ End \/ Abort

Spec == Init /\ [][Next]_<<audience, log, heard, cut>>
=============================================================================
