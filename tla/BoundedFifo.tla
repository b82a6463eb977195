----------------------------- MODULE BoundedFifo -----------------------------
(***************************************************************************)
(* What the C ring buffer promises its callers.  Pointers are either held  *)
(* by one party or queued; every call is one indivisible step that hands   *)
(* pointers over.                                                          *)
(***************************************************************************)
EXTENDS FifoQueue

CONSTANTS Threads,   \* the threads that call it, and who else holds pointers
          Pointers,  \* the pointers that travel through it
          Capacity,  \* rb->capacity
          NULL

VARIABLES queue,     \* the queued pointers, oldest first
          held,      \* held[t]: the pointers thread t may use
          busy       \* pointers the is_safe callback rejects

vars == <<queue, held, busy>>

Write(t, v) ==
  LET ejected == Ejected(queue, Capacity, NULL) IN
  /\ v \in held[t]
  /\ queue' = Enqueued(queue, Capacity, v)
  /\ held' = [held EXCEPT ![t] = (@ \ {v}) \cup ({ejected} \ {NULL})]
  /\ UNCHANGED busy

Read(t) ==
  /\ queue # <<>>
  /\ queue' = Tail(queue)
  /\ held' = [held EXCEPT ![t] = @ \cup {Head(queue)}]
  /\ UNCHANGED busy

Recycle(t) ==
  LET at == FirstSafe(queue, Pointers \ busy) IN
  /\ at # 0
  /\ queue' = RemoveAt(queue, at)
  /\ held' = [held EXCEPT ![t] = @ \cup {queue[at]}]
  /\ UNCHANGED busy

(* Only the thread that holds a pointer changes what the callback says of  *)
(* it, as both loops of the camera do.                                     *)
Mark(t, v) ==
  /\ v \in held[t]
  /\ busy' = IF v \in busy THEN busy \ {v} ELSE busy \cup {v}
  /\ UNCHANGED <<queue, held>>

(* Pointers also change hands by other ways than this queue.               *)
Exchange ==
  /\ held' \in [Threads -> SUBSET Pointers]
  /\ UNION Range(held') = UNION Range(held)
  /\ Disjoint(held')
  /\ UNCHANGED <<queue, busy>>

Init ==
  /\ queue = <<>>
  /\ busy = {}
  /\ held \in [Threads -> SUBSET Pointers]
  /\ UNION Range(held) = Pointers
  /\ Disjoint(held)

Next ==
  \/ Exchange
  \/ \E t \in Threads :
       \/ Read(t)
       \/ Recycle(t)
       \/ \E v \in Pointers : Write(t, v) \/ Mark(t, v)

Spec == Init /\ [][Next]_vars
=============================================================================
