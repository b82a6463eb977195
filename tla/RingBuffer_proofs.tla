------------------------- MODULE RingBuffer_proofs -------------------------
(***************************************************************************)
(* Proofs about RingBuffer.tla for every set of threads, every set of      *)
(* pointers and every capacity.                                            *)
(***************************************************************************)
EXTENDS RingBuffer, Sequence_proofs

-----------------------------------------------------------------------------
(* The arithmetic of the indices.  Nothing below depends on how they wrap. *)

LEMMA PlaceIsSlot ==
  ASSUME NEW r \in Slots, NEW k \in Nat
  PROVE  Place(r, k) \in Slots /\ Place(r, 0) = r
  BY CapacityAssumption DEF Slots, Place

LEMMA AdvanceIsSlot ==
  ASSUME NEW r \in Slots
  PROVE  Advance(r) \in Slots /\ Advance(r) = Place(r, 1)
  BY CapacityAssumption DEF Slots, Advance, Place

(* Counting on from the next slot is counting one further.                 *)
LEMMA PlaceFromNext ==
  ASSUME NEW r \in Slots, NEW k \in 0 .. Capacity - 1
  PROVE  Place(Advance(r), k) = Place(r, k + 1)
  BY CapacityAssumption DEF Slots, Advance, Place

(* The next and the previous slot of a place.                              *)
LEMMA AdvancePlace ==
  ASSUME NEW r \in Slots, NEW k \in 0 .. Capacity
  PROVE  Advance(Place(r, k)) = Place(r, k + 1)
  BY CapacityAssumption DEF Slots, Advance, Place

LEMMA RetreatPlace ==
  ASSUME NEW r \in Slots, NEW k \in 1 .. Capacity
  PROVE  Retreat(Place(r, k)) = Place(r, k - 1)
  BY CapacityAssumption DEF Slots, Retreat, Place

(* Once round the array is where one started.                              *)
LEMMA PlaceWraps ==
  ASSUME NEW r \in Slots
  PROVE  Place(r, Capacity) = r
  BY CapacityAssumption DEF Slots, Place

(* Positions less than the capacity apart are different slots.             *)
LEMMA PlaceInjective ==
  ASSUME NEW r \in Slots, NEW k \in 0 .. Capacity - 1, NEW l \in 0 .. Capacity - 1,
         Place(r, k) = Place(r, l)
  PROVE  k = l
  BY CapacityAssumption DEF Slots, Place

-----------------------------------------------------------------------------
LEMMA InitIInv == Init => IInv
  BY CapacityAssumption, NullAssumption, PlaceIsSlot
  DEF Init, InitRb, IInv, TypeOK, OnlyOwnerInside, IndicesAgree, UsedSlotsFilled,
      CallsInOrder, Slots, Slot, Place, Inside

(* A thread in a critical section is alone in it, so the fields it reads   *)
(* are the ones every conjunct of IInv speaks of.                          *)
LEMMA Alone ==
  ASSUME IInv, NEW t \in Threads, pc[t] \in Inside
  PROVE  lock = t /\ \A u \in Threads : u # t => pc[u] \notin Inside
  BY DEF IInv, OnlyOwnerInside

LEMMA EjectIInv ==
  ASSUME NEW t \in Threads, IInv, Eject(t)
  PROVE  IInv'
<1> USE CapacityAssumption, NullAssumption
<1>1. /\ pc[t] = "write" /\ pc' = [pc EXCEPT ![t] = "push"]
      /\ lock = t /\ \A u \in Threads : u # t => pc[u] \notin Inside
  BY Alone DEF Eject, Goto, Inside
<1>2. count' \in 0 .. Capacity - 1 /\ count' = count - 1
  BY DEF Eject, IInv, TypeOK
<1>3. reader \in Slots /\ reader' \in Slots /\ reader' = Advance(reader)
  BY AdvanceIsSlot DEF Eject, IInv, TypeOK
<1>4. buffer[reader] \in Pointers
  <2>1. Slot(0) = reader
    BY <1>3, PlaceIsSlot DEF Slot
  <2> QED
    BY <2>1, <1>2 DEF IInv, TypeOK, UsedSlotsFilled
<1>5. TypeOK'
  BY <1>1, <1>2, <1>3, <1>4 DEF Eject, IInv, TypeOK, Inside
<1>6. OnlyOwnerInside'
  BY <1>1 DEF Eject, IInv, TypeOK, OnlyOwnerInside, Inside
<1>7. \A k \in 0 .. Capacity - 1 : Slot(k)' = Slot(k + 1)
  BY <1>3, PlaceFromNext DEF Slot
<1>8. IndicesAgree'
  BY <1>2, <1>7 DEF Eject, IInv, IndicesAgree
<1>9. UsedSlotsFilled'
  <2> SUFFICES ASSUME NEW k \in 0 .. count' - 1
               PROVE  buffer'[Slot(k)'] \in Pointers
    BY DEF UsedSlotsFilled
  <2> QED
    BY <1>2, <1>7 DEF Eject, IInv, TypeOK, UsedSlotsFilled
<1>10. CallsInOrder'
  BY <1>1, <1>2 DEF Eject, IInv, TypeOK, CallsInOrder, Inside
<1> QED
  BY <1>5, <1>6, <1>8, <1>9, <1>10 DEF IInv

LEMMA PushIInv ==
  ASSUME NEW t \in Threads, IInv, Push(t)
  PROVE  IInv'
<1> USE CapacityAssumption, NullAssumption
<1>1. /\ pc[t] \in {"write", "push"} /\ pc' = [pc EXCEPT ![t] = "idle"]
      /\ lock = t /\ lock' = NULL /\ \A u \in Threads : u # t => pc[u] \notin Inside
  BY Alone DEF Push, Return, Goto, Inside
<1>2. count \in 0 .. Capacity - 1 /\ count' = count + 1 /\ arg[t] \in Pointers
  BY <1>1 DEF Push, Return, Goto, IInv, TypeOK, CallsInOrder
<1>3. /\ reader \in Slots /\ reader' = reader
      /\ writer = Slot(count) /\ writer \in Slots /\ writer' = Advance(writer)
  BY DEF Push, IInv, TypeOK, IndicesAgree
<1>4. writer' \in Slots /\ writer' = Slot(count')
  BY <1>2, <1>3, AdvanceIsSlot, AdvancePlace DEF Slot
<1>5. buffer' = [buffer EXCEPT ![writer] = arg[t]]
  BY DEF Push
<1>6. TypeOK'
  <2>1. held' \in [Threads -> SUBSET Pointers]
    BY <1>2 DEF Push, IInv, TypeOK, GivenBack
  <2>2. /\ arg' \in [Threads -> Pointers \cup {NULL}]
        /\ ejected' \in [Threads -> Pointers \cup {NULL}]
        /\ i' \in [Threads -> 0 .. Capacity] /\ j' \in [Threads -> 0 .. Capacity]
    BY DEF Push, Return, IInv, TypeOK
  <2>3. buffer' \in [Slots -> Pointers \cup {NULL}]
    BY <1>2, <1>5 DEF IInv, TypeOK
  <2>4. busy' = busy
    BY DEF Push
  <2>5. pc' \in [Threads -> {"idle"} \cup Blocked \cup Inside]
    BY <1>1 DEF IInv, TypeOK
  <2>6. reader' \in Slots /\ writer' \in Slots /\ count' \in 0 .. Capacity
    BY <1>2, <1>3, <1>4
  <2> QED
    BY <1>1, <2>1, <2>2, <2>3, <2>4, <2>5, <2>6 DEF IInv, TypeOK
<1>7. OnlyOwnerInside'
  BY <1>1 DEF IInv, TypeOK, OnlyOwnerInside, Inside
<1>8. IndicesAgree'
  BY <1>3, <1>4 DEF IndicesAgree, Slot
<1>9. UsedSlotsFilled'
  <2> SUFFICES ASSUME NEW k \in 0 .. count' - 1
               PROVE  buffer'[Slot(k)] \in Pointers
    BY <1>3 DEF UsedSlotsFilled, Slot
  <2>1. Slot(k) \in Slots
    BY <1>3, <1>2, PlaceIsSlot DEF Slot
  <2>2. CASE k = count
    BY <2>2, <1>2, <1>3, <1>5 DEF IInv, TypeOK
  <2>3. CASE k # count
    <3>1. k \in 0 .. count - 1
      BY <2>3, <1>2
    <3> QED
      BY <2>1, <3>1, <1>2, <1>5 DEF IInv, TypeOK, UsedSlotsFilled
  <2> QED
    BY <2>2, <2>3
<1>10. CallsInOrder'
  BY <1>1, <1>2 DEF Push, Return, IInv, TypeOK, CallsInOrder, Inside
<1> QED
  BY <1>6, <1>7, <1>8, <1>9, <1>10 DEF IInv

LEMMA ReadOldestIInv ==
  ASSUME NEW t \in Threads, IInv, ReadOldest(t)
  PROVE  IInv'
<1> USE CapacityAssumption, NullAssumption
<1>1. /\ pc[t] = "read" /\ pc' = [pc EXCEPT ![t] = "idle"]
      /\ lock = t /\ lock' = NULL /\ \A u \in Threads : u # t => pc[u] \notin Inside
  BY Alone DEF ReadOldest, Return, Goto, Inside
<1>2. count \in 1 .. Capacity /\ count' = count - 1
  BY DEF ReadOldest, IInv, TypeOK
<1>3. reader \in Slots /\ reader' \in Slots /\ reader' = Advance(reader)
  BY AdvanceIsSlot DEF ReadOldest, IInv, TypeOK
<1>4. buffer[reader] \in Pointers
  <2>1. Slot(0) = reader
    BY <1>3, PlaceIsSlot DEF Slot
  <2> QED
    BY <2>1, <1>2 DEF IInv, TypeOK, UsedSlotsFilled
<1>5. TypeOK'
  <2>1. held' \in [Threads -> SUBSET Pointers]
    BY <1>4 DEF ReadOldest, Keep, IInv, TypeOK
  <2>2. /\ arg' \in [Threads -> Pointers \cup {NULL}]
        /\ ejected' \in [Threads -> Pointers \cup {NULL}]
        /\ i' \in [Threads -> 0 .. Capacity] /\ j' \in [Threads -> 0 .. Capacity]
    BY DEF ReadOldest, Return, IInv, TypeOK
  <2>3. pc' \in [Threads -> {"idle"} \cup Blocked \cup Inside]
    BY <1>1 DEF IInv, TypeOK
  <2> QED
    BY <1>1, <1>2, <1>3, <2>1, <2>2, <2>3 DEF ReadOldest, IInv, TypeOK
<1>6. OnlyOwnerInside'
  BY <1>1 DEF IInv, TypeOK, OnlyOwnerInside, Inside
<1>7. \A k \in 0 .. Capacity - 1 : Slot(k)' = Slot(k + 1)
  BY <1>3, PlaceFromNext DEF Slot
<1>8. IndicesAgree'
  BY <1>2, <1>7 DEF ReadOldest, IInv, IndicesAgree
<1>9. UsedSlotsFilled'
  <2> SUFFICES ASSUME NEW k \in 0 .. count' - 1
               PROVE  buffer'[Slot(k)'] \in Pointers
    BY DEF UsedSlotsFilled
  <2> QED
    BY <1>2, <1>7 DEF ReadOldest, IInv, TypeOK, UsedSlotsFilled
<1>10. CallsInOrder'
  BY <1>1, <1>2 DEF ReadOldest, Return, IInv, TypeOK, CallsInOrder, Inside
<1> QED
  BY <1>5, <1>6, <1>8, <1>9, <1>10 DEF IInv

LEMMA ScanFoundIInv ==
  ASSUME NEW t \in Threads, IInv, ScanFound(t)
  PROVE  IInv'
<1> USE CapacityAssumption, NullAssumption
<1>1. /\ pc[t] = "scan" /\ pc' = [pc EXCEPT ![t] = "shift"]
      /\ lock = t /\ \A u \in Threads : u # t => pc[u] \notin Inside
  BY Alone DEF ScanFound, Goto, Inside
<1>2. i[t] \in 0 .. count - 1 /\ count \in 0 .. Capacity
  BY DEF ScanFound, IInv, TypeOK
<1>3. buffer[Slot(i[t])] \in Pointers
  BY <1>2 DEF IInv, UsedSlotsFilled
<1>4. UNCHANGED <<buffer, reader, writer, count, lock, held, busy>>
  BY DEF ScanFound, rb
<1>5. TypeOK'
  BY <1>1, <1>2, <1>3, <1>4 DEF ScanFound, IInv, TypeOK, Inside
<1>6. OnlyOwnerInside'
  BY <1>1, <1>4 DEF IInv, TypeOK, OnlyOwnerInside, Inside
<1>7. IndicesAgree' /\ UsedSlotsFilled'
  BY <1>4 DEF IInv, IndicesAgree, UsedSlotsFilled, Slot
<1>8. CallsInOrder'
  BY <1>1, <1>2, <1>3, <1>4 DEF ScanFound, IInv, TypeOK, CallsInOrder, Inside
<1> QED
  BY <1>5, <1>6, <1>7, <1>8 DEF IInv

LEMMA ShiftIInv ==
  ASSUME NEW t \in Threads, IInv, Shift(t)
  PROVE  IInv'
<1> USE CapacityAssumption, NullAssumption
<1>1. /\ pc[t] = "shift" /\ pc' = pc
      /\ lock = t /\ \A u \in Threads : u # t => pc[u] \notin Inside
  BY Alone DEF Shift, Inside
<1>2. j[t] \in 0 .. count - 2 /\ count \in 0 .. Capacity /\ reader \in Slots
  BY DEF Shift, IInv, TypeOK
<1>3. UNCHANGED <<reader, writer, count, lock, arg, ejected, i, held, busy>>
  BY DEF Shift
<1>4. Advance(Slot(j[t])) = Slot(j[t] + 1)
  BY <1>2, AdvancePlace DEF Slot
<1>5. buffer' = [buffer EXCEPT ![Slot(j[t])] = buffer[Slot(j[t] + 1)]]
  BY <1>4 DEF Shift
<1>6. buffer[Slot(j[t] + 1)] \in Pointers
  BY <1>2 DEF IInv, UsedSlotsFilled
<1>7. TypeOK'
  <2>1. buffer' \in [Slots -> Pointers \cup {NULL}]
    BY <1>5, <1>6 DEF IInv, TypeOK
  <2>2. j' \in [Threads -> 0 .. Capacity]
    BY <1>2 DEF Shift, IInv, TypeOK
  <2> QED
    BY <1>1, <1>3, <2>1, <2>2 DEF IInv, TypeOK
<1>8. OnlyOwnerInside' /\ IndicesAgree'
  BY <1>1, <1>3 DEF IInv, OnlyOwnerInside, IndicesAgree, Slot
<1>9. UsedSlotsFilled'
  <2> SUFFICES ASSUME NEW k \in 0 .. count - 1
               PROVE  buffer'[Slot(k)] \in Pointers
    BY <1>3 DEF UsedSlotsFilled, Slot
  <2>1. Slot(k) \in Slots
    BY <1>2, PlaceIsSlot DEF Slot
  <2> QED
    BY <2>1, <1>5, <1>6 DEF IInv, TypeOK, UsedSlotsFilled
<1>10. CallsInOrder'
  BY <1>1, <1>2, <1>3 DEF Shift, IInv, TypeOK, CallsInOrder, Inside
<1> QED
  BY <1>7, <1>8, <1>9, <1>10 DEF IInv

LEMMA CloseGapIInv ==
  ASSUME NEW t \in Threads, IInv, CloseGap(t)
  PROVE  IInv'
<1> USE CapacityAssumption, NullAssumption
<1>1. /\ pc[t] = "shift" /\ pc' = [pc EXCEPT ![t] = "idle"]
      /\ lock = t /\ lock' = NULL /\ \A u \in Threads : u # t => pc[u] \notin Inside
  BY Alone DEF CloseGap, Return, Goto, Inside
<1>2. count \in 1 .. Capacity /\ count' = count - 1 /\ ejected[t] \in Pointers
  BY <1>1 DEF CloseGap, IInv, TypeOK, CallsInOrder
<1>3. reader \in Slots /\ reader' = reader /\ buffer' = buffer
  BY DEF CloseGap, IInv, TypeOK
<1>4. writer' \in Slots /\ writer' = Slot(count')
  BY <1>2, <1>3, RetreatPlace, PlaceIsSlot DEF CloseGap, IInv, IndicesAgree, Slot
<1>5. TypeOK'
  <2>1. held' \in [Threads -> SUBSET Pointers]
    BY <1>2 DEF CloseGap, Keep, IInv, TypeOK
  <2>2. /\ arg' \in [Threads -> Pointers \cup {NULL}]
        /\ ejected' \in [Threads -> Pointers \cup {NULL}]
        /\ i' \in [Threads -> 0 .. Capacity] /\ j' \in [Threads -> 0 .. Capacity]
    BY DEF CloseGap, Return, IInv, TypeOK
  <2>3. pc' \in [Threads -> {"idle"} \cup Blocked \cup Inside]
    BY <1>1 DEF IInv, TypeOK
  <2> QED
    BY <1>1, <1>2, <1>3, <1>4, <2>1, <2>2, <2>3 DEF CloseGap, IInv, TypeOK
<1>6. OnlyOwnerInside'
  BY <1>1 DEF IInv, TypeOK, OnlyOwnerInside, Inside
<1>7. IndicesAgree'
  BY <1>3, <1>4 DEF IndicesAgree, Slot
<1>8. UsedSlotsFilled'
  BY <1>2, <1>3 DEF IInv, UsedSlotsFilled, Slot
<1>9. CallsInOrder'
  BY <1>1, <1>2 DEF CloseGap, Return, IInv, TypeOK, CallsInOrder, Inside
<1> QED
  BY <1>5, <1>6, <1>7, <1>8, <1>9 DEF IInv

LEMMA AcquireIInv ==
  ASSUME NEW t \in Threads, IInv, Acquire(t)
  PROVE  IInv'
<1> USE CapacityAssumption, NullAssumption
<1>1. lock = NULL /\ lock' = t
  BY DEF Acquire, LockFree
<1>2. UNCHANGED <<buffer, reader, writer, count, arg, ejected, i, j, held, busy>>
  BY DEF Acquire, rb, locals
<1>3. \A u \in Threads : pc[u] \notin Inside
  BY <1>1 DEF IInv, OnlyOwnerInside
<1>4. /\ pc' \in [Threads -> {"idle"} \cup Blocked \cup Inside]
      /\ pc'[t] \in {"write", "read", "scan"}
      /\ pc'[t] = "write" => pc[t] = "lock_write"
      /\ pc'[t] = "scan" => pc[t] = "lock_recycle"
      /\ \A u \in Threads : u # t => pc'[u] = pc[u]
  BY DEF Acquire, Goto, IInv, TypeOK, Inside
<1>5. TypeOK'
  BY <1>1, <1>2, <1>4 DEF IInv, TypeOK
<1>6. OnlyOwnerInside'
  BY <1>1, <1>3, <1>4 DEF OnlyOwnerInside, Inside
<1>7. IndicesAgree' /\ UsedSlotsFilled'
  BY <1>2 DEF IInv, IndicesAgree, UsedSlotsFilled, Slot
<1>8. CallsInOrder'
  BY <1>2, <1>3, <1>4 DEF IInv, TypeOK, CallsInOrder, Inside
<1> QED
  BY <1>5, <1>6, <1>7, <1>8 DEF IInv

(* The steps that leave the array and the indices alone.                   *)
LEMMA QuietIInv ==
  ASSUME NEW t \in Threads, IInv,
         \/ \E v \in Pointers : CallWrite(t, v) \/ Mark(t, v)
         \/ CallRead(t) \/ CallRecycle(t)
         \/ ReadNothing(t) \/ ScanSkip(t) \/ ScanNothing(t)
  PROVE  IInv'
<1> USE CapacityAssumption, NullAssumption
    DEF IInv, TypeOK, OnlyOwnerInside, IndicesAgree, UsedSlotsFilled, CallsInOrder,
        Slot, rb, locals, Inside, Blocked
<1>1. ASSUME NEW v \in Pointers, CallWrite(t, v) PROVE IInv'
  BY <1>1 DEF CallWrite, Goto
<1>2. ASSUME NEW v \in Pointers, Mark(t, v) PROVE IInv'
  BY <1>2 DEF Mark
<1>3. CASE CallRead(t)
  BY <1>3 DEF CallRead, Goto
<1>4. CASE CallRecycle(t)
  BY <1>4 DEF CallRecycle, Goto
<1>5. CASE ReadNothing(t)
  BY <1>5 DEF ReadNothing, Return, Goto
<1>6. CASE ScanSkip(t)
  BY <1>6 DEF ScanSkip
<1>7. CASE ScanNothing(t)
  BY <1>7 DEF ScanNothing, Return, Goto
<1> QED
  BY <1>1, <1>2, <1>3, <1>4, <1>5, <1>6, <1>7

LEMMA ExchangeIInv == IInv /\ Exchange => IInv'
  BY DEF IInv, TypeOK, OnlyOwnerInside, IndicesAgree, UsedSlotsFilled, CallsInOrder,
         Slot, Exchange, rb, locals

LEMMA NextIInv == IInv /\ [Next]_vars => IInv'
<1> SUFFICES ASSUME IInv, [Next]_vars PROVE IInv'
  OBVIOUS
<1>1. CASE UNCHANGED vars
  BY <1>1 DEF vars, rb, locals, IInv, TypeOK, OnlyOwnerInside, IndicesAgree,
     UsedSlotsFilled, CallsInOrder, Slot
<1>2. CASE Exchange
  BY <1>2, ExchangeIInv
<1>3. CASE Next /\ ~Exchange
  <2>1. PICK t \in Threads :
          \/ CallRead(t) \/ CallRecycle(t) \/ Acquire(t) \/ Work(t)
          \/ \E v \in Pointers : CallWrite(t, v) \/ Mark(t, v)
    BY <1>3 DEF Next
  <2> QED
    BY <2>1, AcquireIInv, EjectIInv, PushIInv, ReadOldestIInv, ScanFoundIInv,
       ShiftIInv, CloseGapIInv, QuietIInv DEF Work
<1> QED
  BY <1>1, <1>2, <1>3

LEMMA SpecIInv == Spec => []IInv
  BY InitIInv, NextIInv, PTL DEF Spec

-----------------------------------------------------------------------------
(* The ring buffer stays in its types: the indices in the array and the    *)
(* count within the capacity, also between the steps of a call.            *)
THEOREM TypeCorrect == Spec => []TypeOK
  BY SpecIInv, PTL DEF IInv

(* rb->lock makes the critical sections of write_to_buffer,                *)
(* read_from_buffer and get_stale_recycled exclude each other.             *)
THEOREM MutualExclusion == Spec => []OnlyOwnerInside
  BY SpecIInv, PTL DEF IInv

(* writer stays count slots ahead of reader, whichever calls moved them:   *)
(* in particular the shift of get_stale_recycled takes writer back to the  *)
(* slot it has freed.                                                      *)
THEOREM IndicesCorrect == Spec => []IndicesAgree
  BY SpecIInv, PTL DEF IInv

(* What read_from_buffer and get_stale_recycled hand out was written       *)
(* before: no slot in use is one that create_ring_buffer left unset.       *)
THEOREM NoUnsetSlotUsed == Spec => []UsedSlotsFilled
  BY SpecIInv, PTL DEF IInv

-----------------------------------------------------------------------------
(* Every call is one step of the bounded first-in first-out queue.  The    *)
(* queue as its callers see it, place by place: with IInv and what a call  *)
(* knows of its own locals, Queue is the used slots with the pointer in    *)
(* the writer's or the recycler's hands put back where it was.             *)
CallLocals ==
  \A t \in Threads :
    /\ pc[t] \in {"lock_write", "write", "push"} => arg[t] \in held[t]
    /\ pc[t] = "push" => count = Capacity - 1 /\ ejected[t] \in Pointers
    /\ pc[t] \notin {"push", "shift"} => ejected[t] = NULL
    /\ pc[t] \in {"scan", "shift"} => \A k \in 0 .. i[t] - 1 : buffer[Slot(k)] \in busy
    /\ pc[t] = "shift" => ejected[t] \notin busy

QueuePlaces ==
  /\ Queue \in Seq(Pointers)
  /\ (\A t \in Threads : pc[t] \notin {"push", "shift"}) =>
       Len(Queue) = count /\ \A k \in 1 .. count : Queue[k] = buffer[Slot(k - 1)]
  /\ \A t \in Threads :
       /\ pc[t] = "push" =>
            /\ Len(Queue) = count + 1 /\ Queue[1] = ejected[t]
            /\ \A k \in 1 .. count : Queue[k + 1] = buffer[Slot(k - 1)]
       /\ pc[t] = "shift" =>
            /\ Len(Queue) = count
            /\ \A k \in 1 .. count :
                 Queue[k] = IF k <= i[t] THEN buffer[Slot(k - 1)]
                            ELSE IF k = i[t] + 1 THEN ejected[t]
                            ELSE IF k <= j[t] + 1 THEN buffer[Slot(k - 2)]
                            ELSE buffer[Slot(k - 1)]

LEMMA QueueView == IInv /\ CallLocals => QueuePlaces
<1> SUFFICES ASSUME IInv, CallLocals PROVE QueuePlaces
  OBVIOUS
<1> USE CapacityAssumption, NullAssumption
<1> DEFINE slots == [k \in 1 .. count |-> buffer[Slot(k - 1)]]
<1>1. /\ count \in Nat /\ count <= Capacity
      /\ \A k \in 0 .. count - 1 : buffer[Slot(k)] \in Pointers
  BY DEF IInv, TypeOK, UsedSlotsFilled
<1>2. /\ slots \in Seq(Pointers) /\ Len(slots) = count
      /\ \A k \in 1 .. count : slots[k] = buffer[Slot(k - 1)]
  <2>1. slots \in [1 .. count -> Pointers]
    BY <1>1
  <2>2. \A k \in 1 .. count : slots[k] = buffer[Slot(k - 1)]
    OBVIOUS
  <2> HIDE DEF slots
  <2>3. slots \in Seq(Pointers)
    BY <1>1, <2>1, SeqDef
  <2> QED
    BY <1>1, <2>1, <2>2, <2>3, LenProperties
<1> HIDE DEF slots
<1>3. ASSUME \A t \in Threads : pc[t] \notin {"push", "shift"} PROVE QueuePlaces
  <2>1. Queue = slots
    BY <1>3 DEF Queue, slots, IInv, TypeOK
  <2> QED
    BY <1>2, <1>3, <2>1 DEF QueuePlaces
<1>4. ASSUME NEW t \in Threads, pc[t] = "push" PROVE QueuePlaces
  <2>1. lock = t /\ t # NULL /\ \A u \in Threads : u # t => pc[u] \notin {"push", "shift"}
    BY <1>4, Alone DEF Inside
  <2>2. ejected[t] \in Pointers
    BY <1>4 DEF CallLocals
  <2> DEFINE e == <<ejected[t]>>
             q == e \o slots
  <2>3. Queue = q
    BY <1>4, <2>1 DEF Queue, slots
  <2>4. e \in Seq(Pointers) /\ Len(e) = 1 /\ e[1] = ejected[t]
    BY <2>2
  <2> HIDE DEF e
  <2>5. /\ q \in Seq(Pointers) /\ Len(q) = Len(e) + Len(slots)
        /\ \A k \in 1 .. Len(e) + Len(slots) :
             q[k] = IF k <= Len(e) THEN e[k] ELSE slots[k - Len(e)]
    <3>1. slots \in Seq(Pointers) /\ e \in Seq(Pointers)
      BY <1>2, <2>4
    <3> HIDE DEF slots
    <3> QED
      BY <3>1, ConcatProperties
  <2> HIDE DEF q
  <2>6. /\ Len(q) = count + 1 /\ q[1] = ejected[t]
        /\ \A k \in 1 .. count : q[k + 1] = buffer[Slot(k - 1)]
    BY <1>1, <1>2, <2>4, <2>5
  <2> QED
    BY <1>4, <2>1, <2>3, <2>5, <2>6 DEF QueuePlaces
<1>5. ASSUME NEW t \in Threads, pc[t] = "shift" PROVE QueuePlaces
  <2>1. lock = t /\ t # NULL /\ \A u \in Threads : u # t => pc[u] \notin {"push", "shift"}
    BY <1>5, Alone DEF Inside
  <2>2. /\ ejected[t] \in Pointers /\ i[t] \in Nat /\ j[t] \in Nat
        /\ i[t] <= j[t] /\ j[t] < count
    BY <1>5 DEF IInv, TypeOK, CallsInOrder
  <2> DEFINE closed == [k \in 1 .. count - 1 |->
                          buffer[Slot(IF k <= j[t] THEN k - 1 ELSE k)]]
             e == ejected[t]
             at == i[t] + 1
             q == InsertAt(closed, at, e)
  <2>3. Queue = q
    BY <1>5, <2>1 DEF Queue
  <2>4. /\ closed \in Seq(Pointers) /\ Len(closed) = count - 1
        /\ \A k \in 1 .. count - 1 :
             closed[k] = buffer[Slot(IF k <= j[t] THEN k - 1 ELSE k)]
    <3>1. closed \in [1 .. count - 1 -> Pointers]
      BY <1>1, <2>2
    <3>2. \A k \in 1 .. count - 1 :
             closed[k] = buffer[Slot(IF k <= j[t] THEN k - 1 ELSE k)]
      OBVIOUS
    <3> HIDE DEF closed
    <3>3. count - 1 \in Nat
      BY <1>1, <2>2
    <3>4. closed \in Seq(Pointers)
      BY <3>1, <3>3, SeqDef
    <3> QED
      BY <3>1, <3>2, <3>3, <3>4, LenProperties
  <2> HIDE DEF closed
  <2>5. at \in 1 .. Len(closed) + 1 /\ e \in Pointers
    BY <1>1, <2>2, <2>4
  <2> HIDE DEF at, e
  <2>6. /\ q \in Seq(Pointers) /\ Len(q) = Len(closed) + 1
        /\ \A k \in 1 .. Len(closed) + 1 :
             q[k] = IF k < at THEN closed[k] ELSE IF k = at THEN e ELSE closed[k - 1]
    <3>1. closed \in Seq(Pointers) /\ at \in 1 .. Len(closed) + 1 /\ e \in Pointers
      BY <2>4, <2>5
    <3>2. ASSUME NEW c \in Seq(Pointers), NEW n \in 1 .. Len(c) + 1, NEW x \in Pointers
          PROVE  /\ InsertAt(c, n, x) \in Seq(Pointers) /\ Len(InsertAt(c, n, x)) = Len(c) + 1
                 /\ \A k \in 1 .. Len(c) + 1 :
                      InsertAt(c, n, x)[k] = IF k < n THEN c[k]
                                             ELSE IF k = n THEN x ELSE c[k - 1]
      BY InsertAtSeq
    <3>3. /\ InsertAt(closed, at, e) \in Seq(Pointers)
          /\ Len(InsertAt(closed, at, e)) = Len(closed) + 1
          /\ \A k \in 1 .. Len(closed) + 1 :
               InsertAt(closed, at, e)[k] = IF k < at THEN closed[k]
                                            ELSE IF k = at THEN e ELSE closed[k - 1]
      BY <3>1, <3>2
    <3> QED
      BY <3>3
  <2> USE DEF at, e
  <2> HIDE DEF q
  <2>7. Len(q) = count
    BY <1>1, <2>4, <2>6
  <2>8. ASSUME NEW k \in 1 .. count
        PROVE  q[k] = IF k <= i[t] THEN buffer[Slot(k - 1)]
                      ELSE IF k = i[t] + 1 THEN ejected[t]
                      ELSE IF k <= j[t] + 1 THEN buffer[Slot(k - 2)]
                      ELSE buffer[Slot(k - 1)]
    <3>1. CASE k <= i[t]
      <4>1. k \in 1 .. count - 1 /\ k <= j[t] /\ k < at /\ k \in 1 .. Len(closed) + 1
        BY <1>1, <2>2, <2>4, <3>1
      <4> QED
        BY <1>1, <2>2, <2>4, <2>6, <3>1, <4>1
    <3>2. CASE k = i[t] + 1
      BY <1>1, <2>2, <2>4, <2>6, <3>2
    <3>3. CASE k > i[t] + 1
      <4>1. k - 1 \in 1 .. count - 1 /\ k \in 1 .. Len(closed) + 1
        BY <1>1, <2>2, <2>4, <3>3
      <4>2. q[k] = closed[k - 1]
        BY <2>2, <2>6, <3>3, <4>1
      <4>3. closed[k - 1] = buffer[Slot(IF k - 1 <= j[t] THEN k - 2 ELSE k - 1)]
        BY <2>4, <4>1
      <4> QED
        BY <2>2, <3>3, <4>2, <4>3
    <3> QED
      BY <2>2, <3>1, <3>2, <3>3
  <2> QED
    BY <1>5, <2>1, <2>3, <2>6, <2>7, <2>8 DEF QueuePlaces
<1> QED
  BY <1>3, <1>4, <1>5

LEMMA QueueViewNext == IInv' /\ CallLocals' => QueuePlaces'
  BY QueueView, PTL

-----------------------------------------------------------------------------
(* The queue's own promise: every pointer is held by exactly one thread or *)
(* queued exactly once.  It is an invariant of BoundedFifo, whatever state *)
(* the queue is read off from.                                             *)
Owned ==
  /\ Queue \in DistinctSeq(Pointers)
  /\ held \in [Threads -> SUBSET Pointers]
  /\ \A s, t \in Threads : s # t => held[s] \cap held[t] = {}
  /\ \A t \in Threads : held[t] \cap ToSet(Queue) = {}
  /\ \A p \in Pointers : p \in ToSet(Queue) \/ \E t \in Threads : p \in held[t]

(* BoundedFifo's copies of the operators of FifoQueue.                     *)
LEMMA FifoOperators ==
  ASSUME NEW q, NEW c, NEW v, NEW at, NEW safe
  PROVE  /\ Fifo!Enqueued(q, c, v) = Enqueued(q, c, v)
         /\ Fifo!Ejected(q, c, v) = Ejected(q, c, v)
         /\ Fifo!RemoveAt(q, at) = RemoveAt(q, at)
         /\ Fifo!FirstSafe(q, safe) = FirstSafe(q, safe)
<1>1. /\ Fifo!Enqueued(q, c, v) = Enqueued(q, c, v)
      /\ Fifo!Ejected(q, c, v) = Ejected(q, c, v)
  BY DEF Fifo!Enqueued, Enqueued, Fifo!Ejected, Ejected
<1>2. Fifo!RemoveAt(q, at) = RemoveAt(q, at)
  BY DEF Fifo!RemoveAt, RemoveAt
<1>3. Fifo!FirstSafe(q, safe) = FirstSafe(q, safe)
  BY DEF Fifo!FirstSafe, FirstSafe, Fifo!SelectInSeq, SelectInSeq, Fifo!Min, Min
<1> QED
  BY <1>1, <1>2, <1>3

LEMMA FifoHeld ==
  ASSUME NEW h
  PROVE  UNION Fifo!Range(h) = UNION Range(h) /\ (Fifo!Disjoint(h) <=> Disjoint(h))
  BY DEF Fifo!Range, Range, Fifo!Disjoint, Disjoint

LEMMA HeldBySomeone ==
  ASSUME NEW h \in [Threads -> SUBSET Pointers], NEW p
  PROVE  p \in UNION Range(h) <=> \E t \in Threads : p \in h[t]
  BY DEF Range

LEMMA WriteOwned ==
  ASSUME Owned, NEW t \in Threads, NEW v \in Pointers, Fifo!Write(t, v) PROVE Owned'
<1> USE CapacityAssumption, NullAssumption
<1> DEFINE e == Ejected(Queue, Capacity, NULL)
<1>1. /\ v \in held[t] /\ v \notin ToSet(Queue)
      /\ Queue' = Enqueued(Queue, Capacity, v)
      /\ held' = [held EXCEPT ![t] = (@ \ {v}) \cup ({e} \ {NULL})]
  BY FifoOperators DEF Fifo!Write, Owned
<1>2. CASE Len(Queue) # Capacity
  <2>1. /\ Queue' \in DistinctSeq(Pointers) /\ ToSet(Queue') = ToSet(Queue) \cup {v}
        /\ e = NULL
    BY <1>1, <1>2, EnqueuedWithRoom DEF Owned
  <2> HIDE DEF e
  <2> QED
    BY <1>1, <2>1 DEF Owned
<1>3. CASE Len(Queue) = Capacity
  <2>1. /\ Queue' \in DistinctSeq(Pointers)
        /\ ToSet(Queue') = (ToSet(Queue) \ {e}) \cup {v}
        /\ e \in Pointers /\ e \in ToSet(Queue)
    BY <1>1, <1>3, EnqueuedWhenFull DEF Owned
  <2> HIDE DEF e
  <2>2. e # NULL
    BY <2>1
  <2> QED
    BY <1>1, <2>1, <2>2 DEF Owned
<1> QED
  BY <1>2, <1>3

(* What a reader and a recycler do to the queue: one pointer leaves it.    *)
LEMMA TakenOwned ==
  ASSUME Owned, NEW t \in Threads, NEW p \in ToSet(Queue), p \in Pointers,
         Queue' \in DistinctSeq(Pointers), ToSet(Queue') = ToSet(Queue) \ {p},
         held' = [held EXCEPT ![t] = @ \cup {p}]
  PROVE  Owned'
  BY DEF Owned

LEMMA FifoKeepsOwned == Owned /\ [Fifo!Next]_(Fifo!vars) => Owned'
<1> SUFFICES ASSUME Owned, [Fifo!Next]_(Fifo!vars) PROVE Owned'
  OBVIOUS
<1>1. ASSUME NEW t \in Threads, Fifo!Read(t) PROVE Owned'
  BY <1>1, TailDistinct, TakenOwned DEF Fifo!Read, Owned
<1>2. ASSUME NEW t \in Threads, Fifo!Recycle(t) PROVE Owned'
  <2> DEFINE at == FirstSafe(Queue, Pointers \ busy)
  <2>1. /\ at # 0 /\ Queue' = RemoveAt(Queue, at)
        /\ held' = [held EXCEPT ![t] = @ \cup {Queue[at]}]
    BY <1>2, FifoOperators DEF Fifo!Recycle
  <2>2. at \in 1 .. Len(Queue)
    BY <2>1, FirstSafePlace DEF Owned, DistinctSeq
  <2> HIDE DEF at
  <2> QED
    BY <2>1, <2>2, RemoveAtDistinct, TakenOwned DEF Owned
<1>3. ASSUME NEW t \in Threads, NEW v \in Pointers, Fifo!Mark(t, v) PROVE Owned'
  BY <1>3 DEF Fifo!Mark, Owned
<1>4. CASE UNCHANGED Fifo!vars
  BY <1>4 DEF Fifo!vars, Owned
<1>5. CASE Fifo!Exchange
  <2>1. /\ held' \in [Threads -> SUBSET Pointers] /\ Queue' = Queue
        /\ UNION Range(held') = UNION Range(held) /\ Disjoint(held')
    BY <1>5, FifoHeld DEF Fifo!Exchange
  <2>2. \A s, t \in Threads : s # t => held'[s] \cap held'[t] = {}
    BY <2>1 DEF Disjoint
  <2>3. \A p \in Pointers :
          (\E t \in Threads : p \in held'[t]) <=> (\E t \in Threads : p \in held[t])
    BY <2>1, HeldBySomeone DEF Owned
  <2> QED
    BY <2>1, <2>2, <2>3 DEF Owned
<1> QED
  BY <1>1, <1>2, <1>3, <1>4, <1>5, WriteOwned DEF Fifo!Next

-----------------------------------------------------------------------------
(* What the queue gives to a call: none of the pointers it scans, and not  *)
(* the one it has picked, is held by a thread, so no callback changes its  *)
(* mind about them.                                                        *)
LEMMA ScannedQueued ==
  ASSUME IInv, CallLocals, NEW t \in Threads, pc[t] \in {"scan", "shift"}
  PROVE  /\ \A k \in 0 .. i[t] - 1 : buffer[Slot(k)] \in ToSet(Queue)
         /\ pc[t] = "shift" => ejected[t] \in ToSet(Queue)
<1>1. /\ QueuePlaces /\ count \in Nat /\ i[t] \in Nat
      /\ pc[t] = "scan" => i[t] <= count
      /\ pc[t] = "shift" => i[t] < count
  BY QueueView DEF IInv, TypeOK, CallsInOrder
<1>2. \A u \in Threads : u # t => pc[u] \notin Inside
  BY Alone DEF Inside
<1>3. Len(Queue) = count /\ \A k \in 1 .. count : k <= i[t] => Queue[k] = buffer[Slot(k - 1)]
  BY <1>1, <1>2 DEF QueuePlaces, Inside
<1>4. \A k \in 1 .. count : Queue[k] \in ToSet(Queue)
  BY <1>1, <1>3, LenProperties DEF QueuePlaces, ToSet
<1>5. ASSUME NEW k \in 0 .. i[t] - 1 PROVE buffer[Slot(k)] \in ToSet(Queue)
  <2>1. k + 1 \in 1 .. count /\ k + 1 <= i[t] /\ (k + 1) - 1 = k
    BY <1>1
  <2> QED
    BY <1>3, <1>4, <2>1
<1>6. ASSUME pc[t] = "shift" PROVE ejected[t] \in ToSet(Queue)
  <2>1. i[t] + 1 \in 1 .. count /\ ~(i[t] + 1 <= i[t])
    BY <1>1, <1>6
  <2>2. Queue[i[t] + 1] = ejected[t]
    BY <1>1, <1>6, <2>1 DEF QueuePlaces
  <2> QED
    BY <1>4, <2>1, <2>2
<1> QED
  BY <1>5, <1>6

LEMMA MarkLocals ==
  ASSUME IInv, CallLocals, Owned, NEW t \in Threads, NEW v \in Pointers, Mark(t, v)
  PROVE  CallLocals'
<1> SUFFICES ASSUME NEW u \in Threads
             PROVE  /\ pc[u] \in {"lock_write", "write", "push"} => arg[u] \in held[u]
                    /\ pc[u] = "push" => count = Capacity - 1 /\ ejected[u] \in Pointers
                    /\ pc[u] \notin {"push", "shift"} => ejected[u] = NULL
                    /\ pc[u] \in {"scan", "shift"} =>
                         \A k \in 0 .. i[u] - 1 : buffer[Slot(k)] \in busy'
                    /\ pc[u] = "shift" => ejected[u] \notin busy'
  BY DEF Mark, rb, locals, CallLocals, Slot
<1>1. \A p \in ToSet(Queue) : p \in busy' <=> p \in busy
  BY DEF Mark, Owned
<1>2. ASSUME pc[u] \in {"scan", "shift"}
      PROVE  /\ \A k \in 0 .. i[u] - 1 : buffer[Slot(k)] \in busy'
             /\ pc[u] = "shift" => ejected[u] \notin busy'
  BY <1>1, <1>2, ScannedQueued DEF CallLocals
<1> QED
  BY <1>2 DEF CallLocals

(* The other steps.  What they change is either under the mutex, where a   *)
(* scan or a shift of another thread cannot be under way, or their own.    *)
LEMMA NextLocals ==
  ASSUME IInv, CallLocals, Owned, [Next]_vars
  PROVE  CallLocals'
<1> USE CapacityAssumption, NullAssumption DEF IInv, TypeOK, CallLocals
<1>1. CASE UNCHANGED vars
  BY <1>1 DEF vars, rb, locals, Slot
<1>2. ASSUME NEW t \in Threads, NEW v \in Pointers, CallWrite(t, v) PROVE CallLocals'
  BY <1>2 DEF CallWrite, Goto, rb, Slot
<1>3. ASSUME NEW t \in Threads, CallRead(t) \/ CallRecycle(t) PROVE CallLocals'
  BY <1>3 DEF CallRead, CallRecycle, Goto, rb, locals, Slot
<1>4. ASSUME NEW t \in Threads, Acquire(t) PROVE CallLocals'
  BY <1>4 DEF Acquire, Goto, rb, locals, Slot, CallsInOrder
<1>5. ASSUME NEW t \in Threads, pc[t] \in Inside
      PROVE  \A u \in Threads : u # t => pc[u] \notin Inside
  BY <1>5, Alone
<1>6. ASSUME NEW t \in Threads, Eject(t) PROVE CallLocals'
  <2>1. \A u \in Threads : u # t => pc[u] \notin Inside
    BY <1>5, <1>6 DEF Eject, Goto, Inside
  <2>2. buffer[reader] \in Pointers /\ count = Capacity
    <3>1. Slot(0) = reader
      BY PlaceIsSlot DEF Slot
    <3> QED
      BY <1>6, <3>1 DEF Eject, UsedSlotsFilled
  <2> QED
    BY <1>6, <2>1, <2>2 DEF Eject, Goto, Inside
<1>7. ASSUME NEW t \in Threads, Push(t) PROVE CallLocals'
  <2>1. /\ \A u \in Threads : u # t => pc[u] \notin Inside
        /\ pc' = [pc EXCEPT ![t] = "idle"] /\ ejected' = [ejected EXCEPT ![t] = NULL]
        /\ arg' = [arg EXCEPT ![t] = NULL] /\ \A u \in Threads : u # t => held'[u] = held[u]
    BY <1>5, <1>7 DEF Push, Return, Goto, Inside
  <2> QED
    BY <2>1 DEF Inside
<1>8. ASSUME NEW t \in Threads, ReadOldest(t) PROVE CallLocals'
  <2>1. /\ \A u \in Threads : u # t => pc[u] \notin Inside
        /\ pc' = [pc EXCEPT ![t] = "idle"] /\ ejected' = [ejected EXCEPT ![t] = NULL]
        /\ arg' = [arg EXCEPT ![t] = NULL] /\ \A u \in Threads : held[u] \subseteq held'[u]
    BY <1>5, <1>8 DEF ReadOldest, Return, Goto, Keep, Inside
  <2> QED
    BY <2>1 DEF Inside
<1>9. ASSUME NEW t \in Threads, CloseGap(t) PROVE CallLocals'
  <2>1. /\ \A u \in Threads : u # t => pc[u] \notin Inside
        /\ pc' = [pc EXCEPT ![t] = "idle"] /\ ejected' = [ejected EXCEPT ![t] = NULL]
        /\ arg' = [arg EXCEPT ![t] = NULL] /\ \A u \in Threads : held[u] \subseteq held'[u]
    BY <1>5, <1>9 DEF CloseGap, Return, Goto, Keep, Inside
  <2> QED
    BY <2>1 DEF Inside
<1>10. ASSUME NEW t \in Threads, ReadNothing(t) \/ ScanNothing(t) PROVE CallLocals'
  <2>1. /\ pc' = [pc EXCEPT ![t] = "idle"] /\ ejected' = [ejected EXCEPT ![t] = NULL]
        /\ arg' = [arg EXCEPT ![t] = NULL] /\ i' = [i EXCEPT ![t] = 0]
        /\ UNCHANGED <<buffer, reader, count, held, busy>>
    BY <1>10 DEF ReadNothing, ScanNothing, Return, Goto, rb
  <2> QED
    BY <2>1 DEF Slot
<1>11. ASSUME NEW t \in Threads, ScanSkip(t) PROVE CallLocals'
  <2>1. /\ pc[t] = "scan" /\ i' = [i EXCEPT ![t] = @ + 1] /\ i[t] \in Nat
        /\ buffer[Slot(i[t])] \in busy
        /\ UNCHANGED <<buffer, reader, count, pc, arg, ejected, held, busy>>
    BY <1>11 DEF ScanSkip, IsSafe, rb
  <2>2. \A k \in 0 .. i'[t] - 1 : k \in 0 .. i[t] - 1 \/ k = i[t]
    BY <2>1
  <2> QED
    BY <2>1, <2>2 DEF Slot
<1>12. ASSUME NEW t \in Threads, ScanFound(t) PROVE CallLocals'
  BY <1>12 DEF ScanFound, Goto, IsSafe, rb, Slot
<1>13. ASSUME NEW t \in Threads, Shift(t) PROVE CallLocals'
  <2>1. /\ pc[t] = "shift" /\ \A u \in Threads : u # t => pc[u] \notin Inside
        /\ i[t] \in Nat /\ j[t] \in Nat /\ i[t] <= j[t] /\ j[t] < count /\ count <= Capacity
        /\ count \in Nat /\ reader \in Slots
    BY <1>5, <1>13 DEF Shift, Inside, CallsInOrder
  <2>2. \A k \in 0 .. i[t] - 1 : buffer'[Slot(k)] = buffer[Slot(k)]
    <3> TAKE k \in 0 .. i[t] - 1
    <3>1. Slot(k) # Slot(j[t])
      BY <2>1, PlaceInjective DEF Slot
    <3> QED
      BY <1>13, <3>1 DEF Shift
  <2> QED
    BY <1>13, <2>1, <2>2 DEF Shift, Inside, Slot
<1>15. CASE Exchange
  <2>1. \A t \in Threads : pc[t] \in {"lock_write", "write", "push"} => held'[t] = held[t]
    BY <1>15 DEF Exchange
  <2>2. UNCHANGED <<buffer, reader, count, pc, arg, ejected, i, busy>>
    BY <1>15 DEF Exchange, rb, locals
  <2> QED
    BY <2>1, <2>2 DEF Slot
<1>14. CASE Next /\ ~Exchange
  <2>1. PICK t \in Threads :
          \/ CallRead(t) \/ CallRecycle(t) \/ Acquire(t) \/ Work(t)
          \/ \E v \in Pointers : CallWrite(t, v) \/ Mark(t, v)
    BY <1>14 DEF Next
  <2> QED
    BY <1>2, <1>3, <1>4, <1>6, <1>7, <1>8, <1>9, <1>10, <1>11, <1>12, <1>13, <2>1,
       MarkLocals DEF Work
<1> QED
  BY <1>1, <1>14, <1>15

-----------------------------------------------------------------------------
(* The steps that change the contents for the callers: the last ones of a  *)
(* call.                                                                   *)
LEMMA PushWrites ==
  ASSUME IInv, CallLocals, IInv', CallLocals', NEW t \in Threads, Push(t)
  PROVE  arg[t] \in Pointers /\ Fifo!Write(t, arg[t])
<1> USE CapacityAssumption, NullAssumption
<1>1. /\ pc[t] \in {"write", "push"} /\ pc' = [pc EXCEPT ![t] = "idle"]
      /\ \A u \in Threads : u # t => pc[u] \notin Inside
      /\ pc[t] = "write" => count # Capacity
  BY Alone DEF Push, Return, Goto, Inside
<1>2. /\ QueuePlaces /\ QueuePlaces'
  BY QueueView, QueueViewNext
<1>3. /\ count \in Nat /\ count < Capacity /\ reader \in Slots /\ buffer \in [Slots -> Pointers \cup {NULL}]
      /\ writer = Slot(count) /\ writer \in Slots
      /\ arg[t] \in Pointers /\ arg[t] \in held[t]
      /\ pc[t] = "push" => count = Capacity - 1 /\ ejected[t] \in Pointers
      /\ pc[t] = "write" => ejected[t] = NULL
  BY <1>1 DEF IInv, TypeOK, IndicesAgree, CallsInOrder, CallLocals
<1>4. /\ buffer' = [buffer EXCEPT ![writer] = arg[t]] /\ reader' = reader
      /\ count' = count + 1 /\ busy' = busy
      /\ held' = [held EXCEPT ![t] = (@ \ {arg[t]}) \cup ({ejected[t]} \ {NULL})]
  BY DEF Push, GivenBack
<1>5. \A k \in 0 .. count - 1 : buffer'[Slot(k)] = buffer[Slot(k)]
  <2> TAKE k \in 0 .. count - 1
  <2>1. Slot(k) \in Slots /\ Slot(k) # Slot(count)
    BY <1>3, PlaceIsSlot, PlaceInjective DEF Slot
  <2> QED
    BY <1>3, <1>4, <2>1
<1>6. buffer'[Slot(count)] = arg[t]
  BY <1>3, <1>4
<1>7. /\ Queue' \in Seq(Pointers) /\ Len(Queue') = count + 1
      /\ \A k \in 1 .. count + 1 : Queue'[k] = buffer'[Slot(k - 1)]
  <2>1. \A u \in Threads : pc'[u] \notin {"push", "shift"}
    BY <1>1 DEF IInv, TypeOK, Inside
  <2> QED
    BY <1>2, <1>4, <2>1 DEF QueuePlaces, Slot
<1> DEFINE kept == IF Len(Queue) = Capacity THEN Tail(Queue) ELSE Queue
<1>8. /\ kept \in Seq(Pointers) /\ Len(kept) = count
      /\ \A k \in 1 .. count : kept[k] = buffer[Slot(k - 1)]
      /\ Ejected(Queue, Capacity, NULL) = ejected[t]
  <2>1. CASE pc[t] = "push"
    <3>1. /\ Queue \in Seq(Pointers) /\ Len(Queue) = Capacity /\ Queue[1] = ejected[t]
          /\ \A k \in 1 .. count : Queue[k + 1] = buffer[Slot(k - 1)]
          /\ Queue # <<>>
      BY <1>2, <1>3, <2>1, EmptySeq DEF QueuePlaces
    <3>2. /\ Head(Queue) = Queue[1] /\ Tail(Queue) \in Seq(Pointers)
          /\ Len(Tail(Queue)) = Capacity - 1
          /\ \A k \in 1 .. Capacity - 1 : Tail(Queue)[k] = Queue[k + 1]
      BY <3>1, HeadTailProperties
    <3> QED
      BY <1>3, <2>1, <3>1, <3>2 DEF Ejected
  <2>2. CASE pc[t] = "write"
    <3>1. \A u \in Threads : pc[u] \notin {"push", "shift"}
      BY <1>1, <2>2 DEF Inside
    <3>2. /\ Queue \in Seq(Pointers) /\ Len(Queue) = count
          /\ \A k \in 1 .. count : Queue[k] = buffer[Slot(k - 1)]
      BY <1>2, <3>1 DEF QueuePlaces
    <3> QED
      BY <1>1, <1>3, <2>2, <3>2 DEF Ejected
  <2> QED
    BY <1>1, <2>1, <2>2
<1>9. Enqueued(Queue, Capacity, arg[t]) = Append(kept, arg[t])
  BY DEF Enqueued
<1> HIDE DEF kept
<1>10. Queue' = Append(kept, arg[t])
  <2> DEFINE a == Append(kept, arg[t])
  <2>1. /\ a \in Seq(Pointers) /\ Len(a) = count + 1
        /\ \A k \in 1 .. count : a[k] = kept[k]
        /\ a[count + 1] = arg[t]
    BY <1>3, <1>8, AppendProperties
  <2> HIDE DEF a
  <2>2. ASSUME NEW k \in 1 .. count + 1 PROVE Queue'[k] = a[k]
    <3>1. CASE k = count + 1
      BY <1>3, <1>6, <1>7, <2>1, <3>1
    <3>2. CASE k # count + 1
      <4>1. k \in 1 .. count /\ k - 1 \in 0 .. count - 1
        BY <1>3, <3>2
      <4> QED
        BY <1>5, <1>7, <1>8, <2>1, <4>1
    <3> QED
      BY <3>1, <3>2
  <2> QED
    BY <1>7, <2>1, <2>2, SeqEqual DEF a
<1> QED
  <2>1. /\ Queue' = Fifo!Enqueued(Queue, Capacity, arg[t])
        /\ Fifo!Ejected(Queue, Capacity, NULL) = ejected[t]
    BY <1>8, <1>9, <1>10, FifoOperators
  <2> QED
    BY <1>3, <1>4, <2>1 DEF Fifo!Write

LEMMA ReadReads ==
  ASSUME IInv, CallLocals, IInv', CallLocals', NEW t \in Threads, ReadOldest(t)
  PROVE  Fifo!Read(t)
<1> USE CapacityAssumption, NullAssumption
<1>1. /\ pc[t] = "read" /\ pc' = [pc EXCEPT ![t] = "idle"]
      /\ \A u \in Threads : u # t => pc[u] \notin Inside
  BY Alone DEF ReadOldest, Return, Goto, Inside
<1>2. /\ count \in 1 .. Capacity /\ reader \in Slots
      /\ count' = count - 1 /\ reader' = Advance(reader) /\ buffer' = buffer /\ busy' = busy
      /\ held' = [held EXCEPT ![t] = @ \cup {buffer[reader]}]
  BY DEF ReadOldest, Keep, IInv, TypeOK
<1>3. \A k \in 0 .. Capacity - 1 : Slot(k)' = Slot(k + 1)
  BY <1>2, PlaceFromNext DEF Slot
<1>4. /\ Queue \in Seq(Pointers) /\ Len(Queue) = count
      /\ \A k \in 1 .. count : Queue[k] = buffer[Slot(k - 1)]
  <2>1. \A u \in Threads : pc[u] \notin {"push", "shift"}
    BY <1>1 DEF Inside
  <2> QED
    BY <2>1, QueueView DEF QueuePlaces
<1>5. /\ Queue' \in Seq(Pointers) /\ Len(Queue') = count - 1
      /\ \A k \in 1 .. count - 1 : Queue'[k] = buffer[Slot(k)]
  <2>1. \A u \in Threads : pc'[u] \notin {"push", "shift"}
    BY <1>1 DEF IInv, TypeOK, Inside
  <2>2. /\ Queue' \in Seq(Pointers) /\ Len(Queue') = count'
        /\ \A k \in 1 .. count' : Queue'[k] = buffer'[Slot(k - 1)']
    BY <2>1, QueueViewNext DEF QueuePlaces
  <2>3. \A k \in 1 .. count - 1 : k - 1 \in 0 .. Capacity - 1 /\ Slot(k - 1)' = Slot(k)
    BY <1>2, <1>3
  <2> QED
    BY <1>2, <2>2, <2>3
<1>6. /\ Queue # <<>> /\ Head(Queue) = Queue[1] /\ Tail(Queue) \in Seq(Pointers)
      /\ Len(Tail(Queue)) = count - 1
      /\ \A k \in 1 .. count - 1 : Tail(Queue)[k] = Queue[k + 1]
  <2>1. Queue # <<>>
    BY <1>2, <1>4, EmptySeq
  <2> QED
    BY <1>4, <2>1, HeadTailProperties
<1>7. Head(Queue) = buffer[reader]
  <2>1. Slot(0) = reader /\ 1 \in 1 .. count
    BY <1>2, PlaceIsSlot DEF Slot
  <2> QED
    BY <1>4, <1>6, <2>1
<1>8. Queue' = Tail(Queue)
  <2>1. ASSUME NEW k \in 1 .. count - 1 PROVE Queue'[k] = Tail(Queue)[k]
    <3>1. k + 1 \in 1 .. count /\ (k + 1) - 1 = k
      BY <1>2
    <3>2. Tail(Queue)[k] = Queue[k + 1]
      BY <1>6
    <3>3. Queue[k + 1] = buffer[Slot(k)]
      BY <1>4, <3>1
    <3>4. Queue'[k] = buffer[Slot(k)]
      BY <1>5
    <3> QED
      BY <3>2, <3>3, <3>4
  <2> QED
    BY <1>5, <1>6, <2>1, SeqEqual
<1> QED
  BY <1>2, <1>6, <1>7, <1>8 DEF Fifo!Read

LEMMA CloseGapRecycles ==
  ASSUME IInv, CallLocals, IInv', CallLocals', NEW t \in Threads, CloseGap(t)
  PROVE  Fifo!Recycle(t)
<1> USE CapacityAssumption, NullAssumption
<1>1. /\ pc[t] = "shift" /\ pc' = [pc EXCEPT ![t] = "idle"]
      /\ \A u \in Threads : u # t => pc[u] \notin Inside
  BY Alone DEF CloseGap, Return, Goto, Inside
<1>2. /\ count \in 1 .. Capacity /\ reader \in Slots
      /\ count' = count - 1 /\ UNCHANGED <<buffer, reader, busy>>
      /\ held' = [held EXCEPT ![t] = @ \cup {ejected[t]}]
      /\ i[t] \in Nat /\ j[t] \in Nat /\ i[t] <= j[t] /\ j[t] = count - 1
      /\ ejected[t] \in Pointers /\ ejected[t] \notin busy
      /\ \A k \in 0 .. i[t] - 1 : buffer[Slot(k)] \in busy
  <2>1. /\ count' = count - 1 /\ UNCHANGED <<buffer, reader, busy>>
        /\ held' = [held EXCEPT ![t] = @ \cup {ejected[t]}]
        /\ j[t] >= count - 1
    BY DEF CloseGap, Keep
  <2>2. /\ count \in 0 .. Capacity /\ reader \in Slots /\ i[t] \in Nat /\ j[t] \in Nat
    BY DEF IInv, TypeOK
  <2>3. /\ i[t] <= j[t] /\ j[t] < count
    BY <1>1 DEF IInv, CallsInOrder
  <2>4. /\ ejected[t] \notin busy
        /\ \A k \in 0 .. i[t] - 1 : buffer[Slot(k)] \in busy
    BY <1>1 DEF CallLocals
  <2>5. ejected[t] \in Pointers
    BY <1>1 DEF IInv, CallsInOrder
  <2> QED
    BY <2>1, <2>2, <2>3, <2>4, <2>5
<1>3. /\ Queue \in Seq(Pointers) /\ Len(Queue) = count
      /\ \A k \in 1 .. count :
           Queue[k] = IF k <= i[t] THEN buffer[Slot(k - 1)]
                      ELSE IF k = i[t] + 1 THEN ejected[t]
                      ELSE IF k <= j[t] + 1 THEN buffer[Slot(k - 2)]
                      ELSE buffer[Slot(k - 1)]
  BY <1>1, QueueView DEF QueuePlaces
<1>4. /\ Queue' \in Seq(Pointers) /\ Len(Queue') = count - 1
      /\ \A k \in 1 .. count - 1 : Queue'[k] = buffer[Slot(k - 1)]
  <2>1. \A u \in Threads : pc'[u] \notin {"push", "shift"}
    BY <1>1 DEF IInv, TypeOK, Inside
  <2> QED
    BY <1>2, <2>1, QueueViewNext DEF QueuePlaces, Slot
<1> DEFINE at == i[t] + 1
           first == FirstSafe(Queue, Pointers \ busy)
<1>5. /\ at \in 1 .. count /\ Queue[at] = ejected[t]
      /\ \A k \in 1 .. at - 1 : Queue[k] \in busy
  <2>1. at \in 1 .. count /\ ~(at <= i[t])
    BY <1>2
  <2>2. ASSUME NEW k \in 1 .. at - 1 PROVE Queue[k] \in busy
    <3>1. k \in 1 .. count /\ k <= i[t] /\ k - 1 \in 0 .. i[t] - 1
      BY <1>2
    <3> QED
      BY <1>2, <1>3, <3>1
  <2> QED
    BY <1>3, <2>1, <2>2
<1>6. first = at
  <2>1. \/ /\ first \in 1 .. count
           /\ Queue[first] \in Pointers \ busy
           /\ \A k \in 1 .. first - 1 : Queue[k] \notin Pointers \ busy
        \/ /\ first = 0
           /\ \A k \in 1 .. count : Queue[k] \notin Pointers \ busy
    BY <1>3, FirstSafePlace
  <2> HIDE DEF first, at
  <2>2. Queue[at] \in Pointers \ busy
    BY <1>2, <1>5
  <2> QED
    BY <1>2, <1>5, <2>1, <2>2
<1> HIDE DEF first, at
<1>7. /\ RemoveAt(Queue, at) \in Seq(Pointers) /\ Len(RemoveAt(Queue, at)) = count - 1
      /\ \A k \in 1 .. count - 1 :
           RemoveAt(Queue, at)[k] = IF k < at THEN Queue[k] ELSE Queue[k + 1]
  BY <1>3, <1>5, RemoveAtSeq
<1>8. ASSUME NEW k \in 1 .. count - 1 PROVE Queue'[k] = RemoveAt(Queue, at)[k]
  <2>1. k \in 1 .. count /\ k + 1 \in 1 .. count /\ (k + 1) - 2 = k - 1
    BY <1>2
  <2>2. CASE k < at
    <3>1. k <= i[t]
      BY <1>2, <2>2 DEF at
    <3> QED
      BY <1>3, <1>4, <1>7, <2>1, <2>2, <3>1
  <2>3. CASE ~(k < at)
    <3>1. ~(k + 1 <= i[t]) /\ k + 1 # i[t] + 1 /\ k + 1 <= j[t] + 1
      BY <1>2, <2>3 DEF at
    <3>2. Queue[k + 1] = buffer[Slot(k - 1)]
      BY <1>3, <2>1, <3>1
    <3> QED
      BY <1>4, <1>7, <2>3, <3>2
  <2> QED
    BY <2>2, <2>3
<1>9. Queue' = RemoveAt(Queue, at)
  BY <1>4, <1>7, <1>8, SeqEqual
<1>10. first # 0
  BY <1>5, <1>6
<1> QED
  BY <1>2, <1>5, <1>6, <1>9, <1>10, FifoOperators DEF Fifo!Recycle, first

(* The steps in between: what they move is still in its place for the      *)
(* callers.                                                                *)
LEMMA SameQueue ==
  ASSUME Queue \in Seq(Pointers), Queue' \in Seq(Pointers), Len(Queue') = Len(Queue),
         \A k \in 1 .. Len(Queue) : Queue'[k] = Queue[k]
  PROVE  Queue' = Queue
  BY SeqEqual

LEMMA EjectKeeps ==
  ASSUME IInv, CallLocals, IInv', CallLocals', NEW t \in Threads, Eject(t)
  PROVE  Queue' = Queue
<1> USE CapacityAssumption, NullAssumption
<1>1. /\ pc[t] = "write" /\ pc' = [pc EXCEPT ![t] = "push"] /\ pc'[t] = "push"
      /\ \A u \in Threads : u # t => pc[u] \notin Inside
  BY Alone DEF Eject, Goto, Inside, IInv, TypeOK
<1>2. /\ count = Capacity /\ count \in Nat \ {0} /\ reader \in Slots
      /\ count' = count - 1 /\ reader' = Advance(reader) /\ buffer' = buffer
      /\ ejected'[t] = buffer[reader]
  BY DEF Eject, IInv, TypeOK
<1>3. \A k \in 0 .. Capacity - 1 : Slot(k)' = Slot(k + 1)
  BY <1>2, PlaceFromNext DEF Slot
<1>4. /\ Queue \in Seq(Pointers) /\ Len(Queue) = count
      /\ \A k \in 1 .. count : Queue[k] = buffer[Slot(k - 1)]
  <2>1. \A u \in Threads : pc[u] \notin {"push", "shift"}
    BY <1>1 DEF Inside
  <2> QED
    BY <2>1, QueueView DEF QueuePlaces
<1>5. /\ Queue' \in Seq(Pointers) /\ Len(Queue') = count' + 1 /\ Queue'[1] = ejected'[t]
      /\ \A k \in 1 .. count' : Queue'[k + 1] = buffer'[Slot(k - 1)']
  BY <1>1, QueueViewNext DEF QueuePlaces
<1>6. ASSUME NEW k \in 1 .. count PROVE Queue'[k] = Queue[k]
  <2>1. CASE k = 1
    <3>1. Slot(0) = reader
      BY <1>2, PlaceIsSlot DEF Slot
    <3> QED
      BY <1>2, <1>4, <1>5, <2>1, <3>1
  <2>2. CASE k # 1
    <3>1. k - 1 \in 1 .. count' /\ (k - 1) + 1 = k /\ (k - 1) - 1 \in 0 .. Capacity - 1
          /\ ((k - 1) - 1) + 1 = k - 1
      BY <1>2, <2>2
    <3>2. Queue'[k] = buffer[Slot((k - 1) - 1)']
      BY <1>2, <1>5, <3>1
    <3>3. Slot((k - 1) - 1)' = Slot(k - 1)
      BY <1>3, <3>1
    <3> QED
      BY <1>4, <3>2, <3>3
  <2> QED
    BY <2>1, <2>2
<1> QED
  BY <1>2, <1>4, <1>5, <1>6, SameQueue

LEMMA ScanFoundKeeps ==
  ASSUME IInv, CallLocals, IInv', CallLocals', NEW t \in Threads, ScanFound(t)
  PROVE  Queue' = Queue
<1> USE CapacityAssumption, NullAssumption
<1>1. /\ pc[t] = "scan" /\ pc' = [pc EXCEPT ![t] = "shift"] /\ pc'[t] = "shift"
      /\ \A u \in Threads : u # t => pc[u] \notin Inside
  BY Alone DEF ScanFound, Goto, Inside, IInv, TypeOK
<1>2. /\ count \in Nat /\ i[t] \in Nat /\ i[t] < count
      /\ UNCHANGED <<buffer, reader, count, i>>
      /\ ejected'[t] = buffer[Slot(i[t])] /\ j'[t] = i[t]
  BY DEF ScanFound, rb, IInv, TypeOK
<1>3. /\ Queue \in Seq(Pointers) /\ Len(Queue) = count
      /\ \A k \in 1 .. count : Queue[k] = buffer[Slot(k - 1)]
  <2>1. \A u \in Threads : pc[u] \notin {"push", "shift"}
    BY <1>1 DEF Inside
  <2> QED
    BY <2>1, QueueView DEF QueuePlaces
<1>4. /\ Queue' \in Seq(Pointers) /\ Len(Queue') = count
      /\ \A k \in 1 .. count :
           Queue'[k] = IF k <= i[t] THEN buffer[Slot(k - 1)]
                       ELSE IF k = i[t] + 1 THEN ejected'[t]
                       ELSE IF k <= j'[t] + 1 THEN buffer[Slot(k - 2)]
                       ELSE buffer[Slot(k - 1)]
  BY <1>1, <1>2, QueueViewNext DEF QueuePlaces, Slot
<1>5. ASSUME NEW k \in 1 .. count PROVE Queue'[k] = Queue[k]
  <2>1. CASE k = i[t] + 1
    BY <1>2, <1>3, <1>4, <2>1
  <2>2. CASE k # i[t] + 1
    <3>1. k <= i[t] \/ ~(k <= j'[t] + 1)
      BY <1>2, <2>2
    <3> QED
      BY <1>3, <1>4, <2>2, <3>1
  <2> QED
    BY <2>1, <2>2
<1> QED
  BY <1>3, <1>4, <1>5, SameQueue

LEMMA ShiftKeeps ==
  ASSUME IInv, CallLocals, IInv', CallLocals', NEW t \in Threads, Shift(t)
  PROVE  Queue' = Queue
<1> USE CapacityAssumption, NullAssumption
<1>1. pc[t] = "shift" /\ pc' = pc
  BY DEF Shift
<1>2. /\ count \in Nat /\ count <= Capacity /\ reader \in Slots
      /\ buffer \in [Slots -> Pointers \cup {NULL}]
      /\ i[t] \in Nat /\ j[t] \in Nat /\ i[t] <= j[t] /\ j[t] < count - 1
      /\ UNCHANGED <<reader, count, i, ejected>>
      /\ j'[t] = j[t] + 1
  BY <1>1 DEF Shift, IInv, TypeOK, CallsInOrder
<1>3. buffer' = [buffer EXCEPT ![Slot(j[t])] = buffer[Slot(j[t] + 1)]]
  <2>1. Advance(Slot(j[t])) = Slot(j[t] + 1)
    BY <1>2, AdvancePlace DEF Slot
  <2> QED
    BY <2>1 DEF Shift
<1>4. ASSUME NEW k \in 0 .. count - 1
      PROVE  buffer'[Slot(k)] = IF k = j[t] THEN buffer[Slot(j[t] + 1)] ELSE buffer[Slot(k)]
  <2>1. /\ k \in Nat /\ k \in 0 .. Capacity - 1
        /\ j[t] \in Nat /\ j[t] \in 0 .. Capacity - 1
    BY <1>2
  <2>2. Slot(k) \in Slots /\ Slot(j[t]) \in Slots
    BY <1>2, <2>1, PlaceIsSlot DEF Slot
  <2>3. k # j[t] => Slot(k) # Slot(j[t])
    BY <1>2, <2>1, PlaceInjective DEF Slot
  <2> QED
    BY <1>2, <1>3, <2>2, <2>3
<1>5. /\ Queue \in Seq(Pointers) /\ Len(Queue) = count
      /\ \A k \in 1 .. count :
           Queue[k] = IF k <= i[t] THEN buffer[Slot(k - 1)]
                      ELSE IF k = i[t] + 1 THEN ejected[t]
                      ELSE IF k <= j[t] + 1 THEN buffer[Slot(k - 2)]
                      ELSE buffer[Slot(k - 1)]
  BY <1>1, QueueView DEF QueuePlaces
<1>6. /\ Queue' \in Seq(Pointers) /\ Len(Queue') = count
      /\ \A k \in 1 .. count :
           Queue'[k] = IF k <= i[t] THEN buffer'[Slot(k - 1)]
                       ELSE IF k = i[t] + 1 THEN ejected[t]
                       ELSE IF k <= j'[t] + 1 THEN buffer'[Slot(k - 2)]
                       ELSE buffer'[Slot(k - 1)]
  BY <1>1, <1>2, QueueViewNext DEF QueuePlaces, Slot
<1>7. ASSUME NEW k \in 1 .. count PROVE Queue'[k] = Queue[k]
  <2>1. CASE k <= i[t]
    <3>1. k - 1 \in 0 .. count - 1 /\ k - 1 # j[t]
      BY <1>2, <2>1
    <3>2. buffer'[Slot(k - 1)] = buffer[Slot(k - 1)]
      BY <1>4, <3>1
    <3> QED
      BY <1>5, <1>6, <2>1, <3>2
  <2>2. CASE k = i[t] + 1
    BY <1>2, <1>5, <1>6, <2>2
  <2>3. CASE ~(k <= i[t]) /\ k # i[t] + 1 /\ k <= j[t] + 1
    <3>1. k - 2 \in 0 .. count - 1 /\ k - 2 # j[t] /\ k <= j'[t] + 1
      BY <1>2, <2>3
    <3>2. buffer'[Slot(k - 2)] = buffer[Slot(k - 2)]
      BY <1>4, <3>1
    <3> QED
      BY <1>5, <1>6, <2>3, <3>1, <3>2
  <2>4. CASE k = j[t] + 2
    <3>1. /\ k - 2 \in 0 .. count - 1 /\ k - 2 = j[t] /\ k - 1 = j[t] + 1
          /\ ~(k <= i[t]) /\ k # i[t] + 1 /\ k <= j'[t] + 1 /\ ~(k <= j[t] + 1)
      BY <1>2, <2>4
    <3>2. buffer'[Slot(k - 2)] = buffer[Slot(k - 1)]
      BY <1>4, <3>1
    <3> QED
      BY <1>5, <1>6, <3>1, <3>2
  <2>5. CASE k > j[t] + 2
    <3>1. /\ k - 1 \in 0 .. count - 1 /\ k - 1 # j[t]
          /\ ~(k <= i[t]) /\ k # i[t] + 1 /\ ~(k <= j'[t] + 1) /\ ~(k <= j[t] + 1)
      BY <1>2, <2>5
    <3>2. buffer'[Slot(k - 1)] = buffer[Slot(k - 1)]
      BY <1>4, <3>1
    <3> QED
      BY <1>5, <1>6, <3>1, <3>2
  <2> QED
    BY <1>2, <2>1, <2>2, <2>3, <2>4, <2>5
<1> QED
  BY <1>5, <1>6, <1>7, SameQueue

LEMMA QuietKeeps ==
  ASSUME IInv, CallLocals, IInv', CallLocals', NEW t \in Threads,
         \/ CallRead(t) \/ CallRecycle(t) \/ Acquire(t)
         \/ ReadNothing(t) \/ ScanSkip(t) \/ ScanNothing(t)
         \/ \E v \in Pointers : CallWrite(t, v) \/ Mark(t, v)
  PROVE  Queue' = Queue
<1>1. UNCHANGED <<buffer, reader, count>>
  BY DEF CallRead, CallRecycle, Acquire, ReadNothing, ScanSkip, ScanNothing, CallWrite, Mark, rb
<1>2. CASE \A u \in Threads : pc[u] \notin {"push", "shift"}
  <2>1. \A u \in Threads : pc'[u] \notin {"push", "shift"}
    BY <1>2 DEF CallRead, CallRecycle, Acquire, ReadNothing, ScanSkip, ScanNothing, CallWrite,
                Mark, Goto, Return, IInv, TypeOK
  <2>2. /\ Queue \in Seq(Pointers) /\ Len(Queue) = count
        /\ \A k \in 1 .. count : Queue[k] = buffer[Slot(k - 1)]
    BY <1>2, QueueView DEF QueuePlaces
  <2>3. /\ Queue' \in Seq(Pointers) /\ Len(Queue') = count
        /\ \A k \in 1 .. count : Queue'[k] = buffer[Slot(k - 1)]
    BY <1>1, <2>1, QueueViewNext DEF QueuePlaces, Slot
  <2> QED
    BY <2>2, <2>3, SameQueue
<1>3. ASSUME NEW u \in Threads, pc[u] \in {"push", "shift"} PROVE Queue' = Queue
  <2>1. u # t /\ lock = u /\ lock # NULL /\ lock' = lock
    BY <1>3, NullAssumption, Alone
    DEF CallRead, CallRecycle, Acquire, LockFree, ReadNothing, ScanSkip, ScanNothing, CallWrite,
        Mark, Goto, Return, Inside
  <2>2. /\ UNCHANGED <<i[u], j[u], pc[u], ejected[u]>>
    BY <2>1 DEF CallRead, CallRecycle, Acquire, LockFree, ReadNothing, ScanSkip, ScanNothing,
        CallWrite, Mark, Goto, Return, locals, IInv, TypeOK
  <2> QED
    BY <1>1, <2>1, <2>2 DEF Queue, Slot
<1> QED
  BY <1>2, <1>3

-----------------------------------------------------------------------------
(* At first everything is held and the queue is empty.                     *)
LEMMA InitRest == Init => CallLocals /\ Owned /\ Fifo!Init
<1> SUFFICES ASSUME Init PROVE CallLocals /\ Owned /\ Fifo!Init
  OBVIOUS
<1>1. CallLocals
  BY DEF Init, CallLocals
<1>2. Queue = <<>>
  <2>1. QueuePlaces
    BY <1>1, InitIInv, QueueView
  <2>2. Queue \in Seq(Pointers) /\ Len(Queue) = 0
    BY <2>1 DEF QueuePlaces, Init, InitRb
  <2> QED
    BY <2>2, EmptySeq
<1>3. ToSet(Queue) = {} /\ Queue \in DistinctSeq(Pointers)
  BY <1>2 DEF ToSet, DistinctSeq, IsInjective
<1>4. /\ held \in [Threads -> SUBSET Pointers] /\ busy = {}
      /\ UNION Range(held) = Pointers /\ Disjoint(held)
  BY DEF Init
<1>5. Fifo!Init
  BY <1>2, <1>4, FifoHeld DEF Fifo!Init
<1>6. \A s, t \in Threads : s # t => held[s] \cap held[t] = {}
  BY <1>4 DEF Disjoint
<1>7. \A p \in Pointers : \E t \in Threads : p \in held[t]
  BY <1>4, HeldBySomeone
<1> QED
  BY <1>1, <1>3, <1>4, <1>5, <1>6, <1>7 DEF Owned

(* Every step of the array is a step of the queue, or none.                *)
LEMMA StepRefines ==
  ASSUME IInv, CallLocals, Owned, [Next]_vars
  PROVE  IInv' /\ CallLocals' /\ [Fifo!Next]_(Fifo!vars)
<1>1. IInv' /\ CallLocals'
  BY NextIInv, NextLocals
<1>2. ASSUME NEW t \in Threads, Push(t) PROVE Fifo!Next
  BY <1>1, <1>2, PushWrites DEF Fifo!Next
<1>3. ASSUME NEW t \in Threads, ReadOldest(t) PROVE Fifo!Next
  BY <1>1, <1>3, ReadReads DEF Fifo!Next
<1>4. ASSUME NEW t \in Threads, CloseGap(t) PROVE Fifo!Next
  BY <1>1, <1>4, CloseGapRecycles DEF Fifo!Next
<1>5. ASSUME NEW t \in Threads, NEW v \in Pointers, Mark(t, v) PROVE Fifo!Next
  <2>1. Queue' = Queue
    BY <1>1, <1>5, QuietKeeps
  <2>2. Fifo!Mark(t, v)
    BY <1>5, <2>1 DEF Mark, Fifo!Mark
  <2> QED
    BY <2>2 DEF Fifo!Next
<1>6. ASSUME NEW t \in Threads, Eject(t) \/ ScanFound(t) \/ Shift(t) PROVE UNCHANGED Fifo!vars
  <2>1. Queue' = Queue
    BY <1>1, <1>6, EjectKeeps, ScanFoundKeeps, ShiftKeeps
  <2> QED
    BY <1>6, <2>1 DEF Eject, ScanFound, Shift, Fifo!vars
<1>7. ASSUME NEW t \in Threads,
             \/ CallRead(t) \/ CallRecycle(t) \/ Acquire(t)
             \/ ReadNothing(t) \/ ScanSkip(t) \/ ScanNothing(t)
             \/ \E v \in Pointers : CallWrite(t, v)
      PROVE  UNCHANGED Fifo!vars
  <2>1. Queue' = Queue
    BY <1>1, <1>7, QuietKeeps
  <2> QED
    BY <1>7, <2>1
    DEF CallRead, CallRecycle, Acquire, ReadNothing, ScanSkip, ScanNothing, CallWrite, Fifo!vars
<1>8. ASSUME UNCHANGED vars PROVE UNCHANGED Fifo!vars
  <2>1. UNCHANGED <<buffer, reader, count, lock, pc, ejected, i, j, held, busy>>
    BY <1>8 DEF vars, rb, locals
  <2>2. Queue' = Queue
    BY <2>1 DEF Queue, Slot
  <2> QED
    BY <2>1, <2>2 DEF Fifo!vars
<1>9. ASSUME Exchange PROVE Fifo!Next
  <2>1. UNCHANGED <<buffer, reader, count, lock, pc, ejected, i, j>>
    BY <1>9 DEF Exchange, rb, locals
  <2>2. Queue' = Queue
    BY <2>1 DEF Queue, Slot
  <2>3. Fifo!Exchange
    BY <1>9, <2>2, FifoHeld DEF Exchange, Fifo!Exchange
  <2> QED
    BY <2>3 DEF Fifo!Next
<1> QED
  BY <1>1, <1>2, <1>3, <1>4, <1>5, <1>6, <1>7, <1>8, <1>9 DEF Next, Work

LEMMA SpecOwned == Spec => [](IInv /\ CallLocals /\ Owned)
<1>1. Init => IInv /\ CallLocals /\ Owned
  BY InitIInv, InitRest
<1>2. IInv /\ CallLocals /\ Owned /\ [Next]_vars => (IInv /\ CallLocals /\ Owned)'
  BY StepRefines, FifoKeepsOwned
<1> QED
  BY <1>1, <1>2, PTL DEF Spec

(* Every call takes effect as one step of the bounded first-in first-out   *)
(* queue: a write into a full buffer gives back the oldest pointer, a read *)
(* takes the oldest, a recycle the oldest the callback accepts, closing    *)
(* the gap without disturbing the order of the rest.                       *)
THEOREM RingRefinesFifo == Spec => RefinesFifo
<1>1. Init => Fifo!Init
  BY InitRest
<1>2. IInv /\ CallLocals /\ Owned /\ [Next]_vars => [Fifo!Next]_(Fifo!vars)
  BY StepRefines
<1> QED
  BY <1>1, <1>2, SpecOwned, PTL DEF Spec, RefinesFifo, Fifo!Spec

(* No pointer is lost, duplicated or shared, between any two steps of any  *)
(* mix of calls: each is held by exactly one thread or queued exactly once.*)
THEOREM EachPointerOnce == Spec => []OnePlaceEach
<1>1. ASSUME Owned PROVE OnePlaceEach
  <2> SUFFICES ASSUME NEW p \in Pointers
               PROVE  Cardinality({t \in Threads : p \in held[t]})
                        + Cardinality({k \in DOMAIN Queue : Queue[k] = p}) = 1
    BY DEF OnePlaceEach
  <2> DEFINE holders == {t \in Threads : p \in held[t]}
             places == {k \in DOMAIN Queue : Queue[k] = p}
  <2>1. CASE p \in ToSet(Queue)
    <3>1. holders = {}
      BY <1>1, <2>1 DEF Owned
    <3>2. PICK k \in DOMAIN Queue : Queue[k] = p
      BY <2>1 DEF ToSet
    <3>3. \A l \in DOMAIN Queue : Queue[l] = p => l = k
      BY <1>1, <3>2 DEF Owned, DistinctSeq, IsInjective
    <3>4. places = {k}
      BY <3>2, <3>3
    <3>5. Cardinality(holders) = 0 /\ Cardinality(places) = 1
      BY <3>1, <3>4, FS_EmptySet, FS_Singleton
    <3> QED
      BY <3>5
  <2>2. CASE p \notin ToSet(Queue)
    <3>1. places = {}
      BY <2>2 DEF ToSet
    <3>2. PICK t \in Threads : p \in held[t]
      BY <1>1, <2>2 DEF Owned
    <3>3. \A u \in Threads : p \in held[u] => u = t
      BY <1>1, <3>2 DEF Owned
    <3>4. holders = {t}
      BY <3>2, <3>3
    <3>5. Cardinality(holders) = 1 /\ Cardinality(places) = 0
      BY <3>1, <3>4, FS_EmptySet, FS_Singleton
    <3> QED
      BY <3>5
  <2> QED
    BY <2>1, <2>2
<1> QED
  BY <1>1, SpecOwned, PTL
=============================================================================
