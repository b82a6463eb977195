----------------------------- MODULE RingBuffer -----------------------------
(***************************************************************************)
(* The C ring buffer (modules/ring_buffer/C/ring_buffer.c) at the grain of *)
(* its slots: an array of pointers with two indices and a count, under one *)
(* mutex, called by several threads.  A thread may hand over only pointers *)
(* it holds, which is how the two loops of src/main.c use it.              *)
(*                                                                         *)
(* A step under the mutex is what another thread could tell apart if the   *)
(* mutex were missing; the last step of a call also releases the mutex.    *)
(* not_empty and not_full are signalled but never waited for, so they do   *)
(* not appear.                                                             *)
(***************************************************************************)
EXTENDS FifoQueue

CONSTANTS Threads,   \* the threads that call the ring buffer
          Pointers,  \* the pointers that travel through it
          Capacity,  \* the size passed to create_ring_buffer
          NULL

ASSUME CapacityAssumption == Capacity \in Nat \ {0}
ASSUME NullAssumption == NULL \notin Pointers /\ NULL \notin Threads

VARIABLES
  buffer, reader, writer, count,  \* the fields of ring_buffer_t
  lock,    \* the thread that owns rb->lock, or NULL
  pc,      \* pc[t]: where t is in its call
  arg,     \* arg[t]: dataptr of the call write_to_buffer
  ejected, \* ejected[t]: ejected_ptr
  i, j,    \* i[t], j[t]: the loop counters of get_stale_recycled
  held,    \* held[t]: the pointers t may use
  busy     \* the pointers is_safe_callback rejects

rb == <<buffer, reader, writer, count>>
locals == <<arg, ejected, i, j>>
vars == <<rb, lock, pc, locals, held, busy>>

Slots == 0 .. Capacity - 1
Blocked == {"lock_write", "lock_read", "lock_recycle"}
Inside == {"write", "push", "read", "scan", "shift"}

(* Indices wrap around.  Place(r, k) is k slots on from slot r, and        *)
(* Slot(k) where the k-th oldest pointer lies, counted from 0.             *)
AdvanceUnbounded(index) == index + 1
Advance(index) == (index + 1) % Capacity
RetreatNoWrap(index) == IF index = 0 THEN 0 ELSE index - 1
Retreat(index) == IF index = 0 THEN Capacity - 1 ELSE index - 1
Place(r, k) == (r + k) % Capacity
Slot(k) == Place(reader, k)

(* create_ring_buffer.  malloc leaves the slots unset; NULL stands for     *)
(* that, and nothing but a slot counted as used is ever read.              *)
InitRb ==
  /\ buffer = [s \in Slots |-> NULL]
  /\ reader = 0 /\ writer = 0 /\ count = 0
  /\ lock = NULL

Init ==
  /\ InitRb
  /\ pc = [t \in Threads |-> "idle"]
  /\ arg = [t \in Threads |-> NULL]
  /\ ejected = [t \in Threads |-> NULL]
  /\ i = [t \in Threads |-> 0]
  /\ j = [t \in Threads |-> 0]
  /\ busy = {}
  /\ held \in [Threads -> SUBSET Pointers]
  /\ UNION Range(held) = Pointers
  /\ Disjoint(held)

Goto(t, from, to) == pc[t] = from /\ pc' = [pc EXCEPT ![t] = to]
Keep(t, p) == held' = [held EXCEPT ![t] = @ \cup {p}]

(* Returning releases the mutex and ends the life of the call's locals.    *)
Return(t, from) ==
  /\ Goto(t, from, "idle")
  /\ lock' = NULL
  /\ arg' = [arg EXCEPT ![t] = NULL]
  /\ ejected' = [ejected EXCEPT ![t] = NULL]
  /\ i' = [i EXCEPT ![t] = 0]
  /\ j' = [j EXCEPT ![t] = 0]

-----------------------------------------------------------------------------
(* Entering a call, up to mtx_lock.                                        *)

CallWrite(t, v) ==
  /\ Goto(t, "idle", "lock_write")
  /\ v \in held[t]
  /\ arg' = [arg EXCEPT ![t] = v]
  /\ UNCHANGED <<rb, lock, ejected, i, j, held, busy>>

CallRead(t) ==
  /\ Goto(t, "idle", "lock_read")
  /\ UNCHANGED <<rb, lock, locals, held, busy>>

(* get_stale_recycled looks at the count before it takes the lock and      *)
(* returns at once when it reads 0.                                        *)
CallRecycle(t) ==
  /\ count # 0
  /\ Goto(t, "idle", "lock_recycle")
  /\ UNCHANGED <<rb, lock, locals, held, busy>>

LockFreeOrNot == TRUE
LockFree == lock = NULL

Acquire(t) ==
  /\ LockFree
  /\ lock' = t
  /\ \/ Goto(t, "lock_write", "write")
     \/ Goto(t, "lock_read", "read")
     \/ Goto(t, "lock_recycle", "scan")
  /\ UNCHANGED <<rb, locals, held, busy>>

-----------------------------------------------------------------------------
(* write_to_buffer                                                         *)

Eject(t) ==
  /\ Goto(t, "write", "push")
  /\ count = Capacity
  /\ ejected' = [ejected EXCEPT ![t] = buffer[reader]]
  /\ reader' = Advance(reader)
  /\ count' = count - 1
  /\ UNCHANGED <<buffer, writer, lock, arg, i, j, held, busy>>

(* The value write_to_buffer returns.                                      *)
NothingGivenBack(t) == {}
GivenBack(t) == {ejected[t]} \ {NULL}

Push(t) ==
  /\ \/ Return(t, "push")
     \/ Return(t, "write") /\ count # Capacity
  /\ buffer' = [buffer EXCEPT ![writer] = arg[t]]
  /\ writer' = Advance(writer)
  /\ count' = count + 1
  /\ held' = [held EXCEPT ![t] = (@ \ {arg[t]}) \cup GivenBack(t)]
  /\ UNCHANGED <<reader, busy>>

-----------------------------------------------------------------------------
(* read_from_buffer, which does not block: an empty buffer gives NULL.     *)

ReadNothing(t) ==
  /\ Return(t, "read")
  /\ count = 0
  /\ UNCHANGED <<rb, held, busy>>

ReadOldest(t) ==
  /\ Return(t, "read")
  /\ count # 0
  /\ Keep(t, buffer[reader])
  /\ reader' = Advance(reader)
  /\ count' = count - 1
  /\ UNCHANGED <<buffer, writer, busy>>

-----------------------------------------------------------------------------
(* get_stale_recycled                                                      *)

IsSafe(p) == p \notin busy

ScanSkip(t) ==
  /\ pc[t] = "scan" /\ i[t] < count
  /\ ~IsSafe(buffer[Slot(i[t])])
  /\ i' = [i EXCEPT ![t] = @ + 1]
  /\ UNCHANGED <<rb, lock, pc, arg, ejected, j, held, busy>>

ScanNothing(t) ==
  /\ Return(t, "scan")
  /\ i[t] >= count
  /\ UNCHANGED <<rb, held, busy>>

ScanFound(t) ==
  /\ Goto(t, "scan", "shift")
  /\ i[t] < count
  /\ IsSafe(buffer[Slot(i[t])])
  /\ ejected' = [ejected EXCEPT ![t] = buffer[Slot(i[t])]]
  /\ j' = [j EXCEPT ![t] = i[t]]
  /\ UNCHANGED <<rb, lock, arg, i, held, busy>>

ShiftFromLast(t) ==
  /\ pc[t] = "shift" /\ j[t] < count - 1
  /\ buffer' = [buffer EXCEPT ![Slot(j[t])] = buffer[Slot(count - 1)]]
  /\ j' = [j EXCEPT ![t] = count - 1]
  /\ UNCHANGED <<reader, writer, count, lock, pc, arg, ejected, i, held, busy>>

(* current_idx starts at the candidate's slot and steps along with j, so   *)
(* it is Slot(j).                                                          *)
Shift(t) ==
  /\ pc[t] = "shift" /\ j[t] < count - 1
  /\ buffer' = [buffer EXCEPT ![Slot(j[t])] = buffer[Advance(Slot(j[t]))]]
  /\ j' = [j EXCEPT ![t] = @ + 1]
  /\ UNCHANGED <<reader, writer, count, lock, pc, arg, ejected, i, held, busy>>

CloseGap(t) ==
  /\ Return(t, "shift")
  /\ j[t] >= count - 1
  /\ writer' = Retreat(writer)
  /\ count' = count - 1
  /\ Keep(t, ejected[t])
  /\ UNCHANGED <<buffer, reader, busy>>

-----------------------------------------------------------------------------
(* A thread changes the state of a buffer only between its calls and only  *)
(* while it holds it (the __atomic_store_n of both loops).                 *)
Mark(t, v) ==
  /\ pc[t] = "idle" /\ v \in held[t]
  /\ busy' = IF v \in busy THEN busy \ {v} ELSE busy \cup {v}
  /\ UNCHANGED <<rb, lock, pc, locals, held>>

(* Pointers also reach another thread by other ways than this buffer: in   *)
(* the camera through the other queue.  A thread in a call keeps its own.  *)
Exchange ==
  /\ held' \in [Threads -> SUBSET Pointers]
  /\ \A t \in Threads : pc[t] # "idle" => held'[t] = held[t]
  /\ UNION Range(held') = UNION Range(held)
  /\ Disjoint(held')
  /\ UNCHANGED <<rb, lock, pc, locals, busy>>

Work(t) ==
  \/ Eject(t) \/ Push(t)
  \/ ReadNothing(t) \/ ReadOldest(t)
  \/ ScanSkip(t) \/ ScanNothing(t) \/ ScanFound(t) \/ Shift(t) \/ CloseGap(t)

Next ==
  \/ Exchange
  \/ \E t \in Threads :
       \/ CallRead(t) \/ CallRecycle(t) \/ Acquire(t) \/ Work(t)
       \/ \E v \in Pointers : CallWrite(t, v) \/ Mark(t, v)

Spec == Init /\ [][Next]_vars

-----------------------------------------------------------------------------
TypeOK ==
  /\ buffer \in [Slots -> Pointers \cup {NULL}]
  /\ reader \in Slots /\ writer \in Slots /\ count \in 0 .. Capacity
  /\ lock \in Threads \cup {NULL}
  /\ pc \in [Threads -> {"idle"} \cup Blocked \cup Inside]
  /\ arg \in [Threads -> Pointers \cup {NULL}]
  /\ ejected \in [Threads -> Pointers \cup {NULL}]
  /\ i \in [Threads -> 0 .. Capacity]
  /\ j \in [Threads -> 0 .. Capacity]
  /\ held \in [Threads -> SUBSET Pointers]
  /\ busy \in SUBSET Pointers

(* The critical sections exclude each other: a thread is inside one        *)
(* exactly when it owns rb->lock.                                          *)
OnlyOwnerInside == \A t \in Threads : pc[t] \in Inside <=> lock = t

(* The two indices and the count always agree, also between the steps of a *)
(* call: the slots in use are the count slots from reader up to writer.    *)
IndicesAgree == writer = Slot(count)

(* A slot counted as used holds a pointer that was written, never what     *)
(* create_ring_buffer left there: what a read or a recycle hands out.      *)
UsedSlotsFilled == \A k \in 0 .. count - 1 : buffer[Slot(k)] \in Pointers

(* What the steps of a call rely on while the call lasts: the pointer to   *)
(* write, room to write it to, a scan and a shift within the used slots.   *)
CallsInOrder ==
  \A t \in Threads :
    /\ pc[t] \in {"lock_write", "write", "push"} => arg[t] \in Pointers
    /\ pc[t] = "push" => count < Capacity
    /\ pc[t] \in {"idle", "lock_recycle"} => i[t] = 0
    /\ pc[t] = "scan" => i[t] <= count
    /\ pc[t] = "shift" => i[t] <= j[t] /\ j[t] < count /\ ejected[t] \in Pointers

(* Together these are inductive.                                           *)
IInv ==
  TypeOK /\ OnlyOwnerInside /\ IndicesAgree /\ UsedSlotsFilled /\ CallsInOrder

(* The contents as the callers see them: a pointer write_to_buffer has     *)
(* already erased, or one get_stale_recycled is closing the gap over, is   *)
(* still queued until the call ends.                                       *)
Queue ==
  LET slots(n) == [k \in 1 .. n |-> buffer[Slot(k - 1)]]
      closed(t) == [k \in 1 .. count - 1 |->
                      buffer[Slot(IF k <= j[t] THEN k - 1 ELSE k)]]
  IN IF lock # NULL /\ pc[lock] = "push"
     THEN <<ejected[lock]>> \o slots(count)
     ELSE IF lock # NULL /\ pc[lock] = "shift"
          THEN InsertAt(closed(lock), i[lock] + 1, ejected[lock])
          ELSE slots(count)

(* No pointer is lost, duplicated or shared: at every moment, in whatever  *)
(* mix of calls, each is either held by exactly one thread or queued       *)
(* exactly once.                                                           *)
OnePlaceEach ==
  \A p \in Pointers :
    Cardinality({t \in Threads : p \in held[t]})
      + Cardinality({k \in DOMAIN Queue : Queue[k] = p}) = 1

Fifo == INSTANCE BoundedFifo WITH queue <- Queue

(* Every call takes effect as one step of the bounded first-in first-out   *)
(* queue: write drops the oldest when full, read takes the oldest, recycle *)
(* takes the first safe one and keeps the order of the rest.               *)
RefinesFifo == Fifo!Spec
=============================================================================
