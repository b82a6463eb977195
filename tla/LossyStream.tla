----------------------------- MODULE LossyStream -----------------------------
(***************************************************************************)
(* What the camera promises of its frames: frame 1, 2, 3, ... are recorded *)
(* in this order; the consumer gets recorded frames in order, each at most *)
(* once and unaltered; when the consumer lags it is the oldest waiting     *)
(* frame that is lost, never a newer one.                                  *)
(***************************************************************************)
EXTENDS Integers, Sequences

VARIABLES recorded,  \* how many frames the sensor has recorded
          waiting,   \* the recorded frames that wait for the consumer
          current    \* the frame the consumer took last, 0 before the first

vars == <<recorded, waiting, current>>

Init == recorded = 0 /\ waiting = <<>> /\ current = 0

Record ==
  /\ recorded' = recorded + 1
  /\ UNCHANGED <<waiting, current>>

(* A recorded frame is published once and in its order; the oldest waiting *)
(* frame may have to make room.                                            *)
Publish ==
  /\ \A k \in DOMAIN waiting : waiting[k] < recorded
  /\ current < recorded
  /\ \/ waiting' = Append(waiting, recorded)
     \/ waiting # <<>> /\ waiting' = Append(Tail(waiting), recorded)
  /\ UNCHANGED <<recorded, current>>

DropOldest ==
  /\ waiting # <<>>
  /\ waiting' = Tail(waiting)
  /\ UNCHANGED <<recorded, current>>

Consume ==
  /\ waiting # <<>>
  /\ current' = Head(waiting)
  /\ waiting' = Tail(waiting)
  /\ UNCHANGED recorded

Next == Record \/ Publish \/ DropOldest \/ Consume

Spec == Init /\ [][Next]_vars
=============================================================================
