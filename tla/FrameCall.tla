------------------------------ MODULE FrameCall ------------------------------
(***************************************************************************)
(* What the PILBox and the program promise each other: the box asks one    *)
(* frame at a time, the program takes the frame that was asked and answers *)
(* by another, and the box receives the frame that was answered.  A call   *)
(* may be given up at any point, when either side starts afresh.           *)
(***************************************************************************)
CONSTANTS Frame, NoFrame

VARIABLES asked,    \* the frame the box waits for, or NoFrame
          taken,    \* the frame the program took it for
          replied,  \* the frame the program answered by
          received  \* the frame the box took the last answer for

Ask(f) ==
  /\ asked = NoFrame
  /\ asked' = f /\ received' = NoFrame
  /\ UNCHANGED <<taken, replied>>

Take(g) ==
  /\ asked # NoFrame /\ taken = NoFrame
  /\ taken' = asked /\ replied' = g
  /\ UNCHANGED <<asked, received>>

Receive ==
  /\ taken # NoFrame
  /\ received' = replied
  /\ asked' = NoFrame /\ taken' = NoFrame /\ replied' = NoFrame

NoCall ==
  asked = NoFrame /\ taken = NoFrame /\ replied = NoFrame /\ received = NoFrame

GiveUp == NoCall'

Next ==
  \/ \E f \in Frame : Ask(f)
  \/ \E g \in Frame : Take(g)
  \/ Receive
  \/ GiveUp

Spec == NoCall /\ [][Next]_<<asked, taken, replied, received>>
=============================================================================
