------------------------------ MODULE TimedQueue ------------------------------
(***************************************************************************)
(* What the C++ ring buffer promises: a bounded queue.  put adds its       *)
(* argument unless the queue is full, putUnconditional makes room by       *)
(* dropping the oldest, get takes the oldest and peek shows it.  A put     *)
(* gives up only at a moment when the queue is full, and a get or a peek   *)
(* only when it is empty.                                                  *)
(***************************************************************************)
EXTENDS FifoQueue

CONSTANTS Items, MaxSize, NULL, DONE

VARIABLES queue,    \* the items, oldest first
          ended,    \* the last call to end: its method and its argument
          returned  \* what that call has returned, NULL if it gave up

Put(v) ==
  /\ Len(queue) < MaxSize /\ queue' = Append(queue, v)
  /\ ended' = <<"put", v>> /\ returned' = DONE

PutUnconditional(v) ==
  /\ queue' = Enqueued(queue, MaxSize, v)
  /\ ended' = <<"putUnconditional", v>> /\ returned' = DONE

Get ==
  /\ queue # <<>> /\ queue' = Tail(queue)
  /\ ended' = <<"get", NULL>> /\ returned' = Head(queue)

Peek ==
  /\ queue # <<>> /\ UNCHANGED queue
  /\ ended' = <<"peek", NULL>> /\ returned' = Head(queue)

Reset == queue' = <<>> /\ ended' = <<"reset", NULL>> /\ returned' = DONE

PutGivesUp(v) ==
  /\ Len(queue) = MaxSize /\ UNCHANGED queue
  /\ ended' = <<"put", v>> /\ returned' = NULL

GivesUpWithoutItem(method) ==
  /\ queue = <<>> /\ UNCHANGED queue
  /\ ended' = <<method, NULL>> /\ returned' = NULL

Init == queue = <<>> /\ ended = <<"none", NULL>> /\ returned = NULL

Next ==
  \/ \E v \in Items : Put(v) \/ PutUnconditional(v) \/ PutGivesUp(v)
  \/ Get \/ Peek \/ Reset
  \/ \E method \in {"get", "peek"} : GivesUpWithoutItem(method)

Spec == Init /\ [][Next]_<<queue, ended, returned>>
=============================================================================
