------------------------------ MODULE KeyQueue ------------------------------
(***************************************************************************)
(* What the keyboard promises the calculator: the bytes of the keys arrive *)
(* in the order they were typed, each once.  At most Size bytes wait;      *)
(* what is typed beyond that is lost, never what waits already.            *)
(***************************************************************************)
EXTENDS Integers, Sequences

CONSTANTS Size, Typed  \* Typed: the byte sequences a key may stand for

VARIABLES pending,  \* the bytes waiting, oldest first
          out       \* the byte read last

Init == pending = <<>> /\ out = -1

Fits(codes) ==
  IF Len(codes) <= Size - Len(pending)
  THEN codes
  ELSE SubSeq(codes, 1, Size - Len(pending))

Type(codes) == pending' = pending \o Fits(codes) /\ UNCHANGED out

Read == pending # <<>> /\ out' = Head(pending) /\ pending' = Tail(pending)

Next == Read \/ \E codes \in Typed : Type(codes)

Spec == Init /\ [][Next]_<<pending, out>>
=============================================================================
