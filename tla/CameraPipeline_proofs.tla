------------------------ MODULE CameraPipeline_proofs ------------------------
(***************************************************************************)
(* Proofs about CameraPipeline.tla for every number of buffers, every      *)
(* capacity of the process queue and of the profile cache, and any number  *)
(* of iterations.  IInv is preserved conjunct by conjunct: each section    *)
(* below shows, action by action, that a step of the camera keeps one.     *)
(***************************************************************************)
EXTENDS CameraPipeline, Sequence_proofs

-----------------------------------------------------------------------------
(* Facts about single states.                                              *)

LEMMA ConstantFacts ==
  /\ Buffers \subseteq Nat /\ NULL \notin Buffers /\ NULL \notin Lenses
  /\ IsFiniteSet(Buffers) /\ Cardinality(Buffers) = BUFFER_COUNT
  /\ \A b \in Buffers : LensOf(b) \in Lenses
<1>1. /\ Buffers \subseteq Nat /\ NULL \notin Buffers /\ NULL \notin Lenses
      /\ \A b \in Buffers : LensOf(b) \in Lenses
  BY SizesAssumption, NullAssumption DEF Buffers, Lenses, LensOf
<1>2. IsFiniteSet(0 .. BUFFER_COUNT - 1)
      /\ Cardinality(0 .. BUFFER_COUNT - 1) = BUFFER_COUNT
  BY SizesAssumption, FS_Interval
<1> QED
  BY <1>1, <1>2 DEF Buffers

(* The two queues hold no buffer twice.                                    *)
LEMMA QueuesDistinct ==
  ASSUME IInv
  PROVE  /\ ready_to_write \in DistinctSeq(Buffers)
         /\ ready_to_process \in DistinctSeq(Buffers)
         /\ Len(ready_to_process) \in Nat
         /\ ToSet(ready_to_write) \subseteq Buffers
         /\ ToSet(ready_to_process) \subseteq Buffers
<1>1. ready_to_write \in Seq(Buffers) /\ ready_to_process \in Seq(Buffers)
  BY DEF IInv, TypeOK
<1> QED
  BY <1>1, ElementOfSeq, LenProperties DEF IInv, OneOwnerEach, DistinctSeq, ToSet

(* Whoever holds a buffer finds room for it in ready_to_write: the other   *)
(* buffers do not fill it.                                                 *)
LEMMA WriteQueueHasRoom ==
  ASSUME IInv, NEW b \in SensorOwns \cup IspOwns
  PROVE  /\ b \in Buffers /\ b \notin ToSet(ready_to_write)
         /\ b \notin ToSet(ready_to_process)
         /\ Len(ready_to_write) # WriteCapacity
<1>1. b \in Buffers /\ b \notin ToSet(ready_to_write) /\ b \notin ToSet(ready_to_process)
  BY DEF IInv, OneOwnerEach
<1>2. Len(ready_to_write) < Cardinality(Buffers)
  BY <1>1, QueuesDistinct, ConstantFacts, DistinctLen
<1>3. Len(ready_to_write) \in Nat
  BY QueuesDistinct, LenProperties DEF DistinctSeq
<1> QED
  BY <1>1, <1>2, <1>3, ConstantFacts, SizesAssumption DEF WriteCapacity

(* Which buffer each loop owns at each of its steps.                       *)
LEMMA Owners ==
  ASSUME IInv
  PROVE  /\ sensor_pc \in SensorHolding => SensorOwns = {sensor_buf} /\ sensor_buf \in Buffers
         /\ sensor_pc \notin SensorHolding => SensorOwns = {} /\ sensor_buf = NULL
         /\ isp_pc \in Processing => IspOwns = {isp_buf} /\ isp_buf \in Buffers
         /\ isp_pc \notin Processing => IspOwns = {}
         /\ isp_pc \in {"count", "report"} => isp_buf \in Buffers
         /\ isp_pc \notin Processing \cup {"count", "report"} => isp_buf = NULL
  BY DEF IInv, TypeOK, BuffersHeld, SensorOwns, IspOwns

(* The ISP looks up profiles of real lenses only.                          *)
LEMMA LensOfIspBuffer ==
  ASSUME IInv, isp_pc \in Processing
  PROVE  lens_id[isp_buf] = LensOf(isp_buf) /\ lens_id[isp_buf] \in Lenses
  BY Owners, ConstantFacts DEF IInv, LensAttached

(* Every buffer that waits for the ISP is READY, so get_stale_recycled     *)
(* finds one whenever its scan meets a queue that is not empty.            *)
LEMMA RecycleFinds ==
  ASSUME IInv, ready_to_process # <<>>
  PROVE  FirstSafe(ready_to_process, SafeToOverwrite) = 1
<1> DEFINE at == FirstSafe(ready_to_process, SafeToOverwrite)
<1>1. /\ ready_to_process \in Seq(Buffers) /\ Len(ready_to_process) \in Nat \ {0}
      /\ DOMAIN ready_to_process = 1 .. Len(ready_to_process)
  BY EmptySeq, LenProperties DEF IInv, TypeOK
<1>2. 1 \in 1 .. Len(ready_to_process)
  BY <1>1
<1>3. ready_to_process[1] \in ToSet(ready_to_process) /\ ready_to_process[1] \in Buffers
  BY <1>1, <1>2, ElementOfSeq DEF ToSet
<1>4. ready_to_process[1] \notin SensorOwns /\ ready_to_process[1] \notin IspOwns
  BY <1>3 DEF IInv, OneOwnerEach
<1>5. state[ready_to_process[1]] = "READY"
  <2>1. state[ready_to_process[1]] \in P_State
    BY <1>3 DEF IInv, TypeOK
  <2>2. state[ready_to_process[1]] # "BUSY_WRITING"
    BY <1>3, <1>4, Owners DEF IInv, StateMatchesOwner, SensorHolding
  <2>3. state[ready_to_process[1]] # "BUSY_PROCESSING"
    BY <1>3, <1>4, Owners DEF IInv, StateMatchesOwner, Processing
  <2> QED
    BY <2>1, <2>2, <2>3 DEF P_State
<1>6. ready_to_process[1] \in SafeToOverwrite
  BY <1>3, <1>5 DEF SafeToOverwrite, is_buffer_safe_to_overwrite
<1>7. \/ at \in 1 .. Len(ready_to_process)
         /\ \A k \in 1 .. at - 1 : ready_to_process[k] \notin SafeToOverwrite
      \/ at = 0 /\ \A k \in 1 .. Len(ready_to_process) :
                      ready_to_process[k] \notin SafeToOverwrite
  BY <1>1, FirstSafePlace
<1> HIDE DEF at
<1>8. at = 1
  BY <1>1, <1>2, <1>6, <1>7
<1> QED
  BY <1>8 DEF at

(* What the scan takes out of the queue.                                   *)
LEMMA RecycleTakes ==
  ASSUME IInv, SensorRecycle
  PROVE  \/ /\ ready_to_process # <<>> /\ sensor_pc' = "count_isp_drop"
            /\ sensor_buf' \in Buffers /\ sensor_buf' \in ToSet(ready_to_process)
            /\ ready_to_process' \in DistinctSeq(Buffers)
            /\ Len(ready_to_process') = Len(ready_to_process) - 1
            /\ ToSet(ready_to_process') = ToSet(ready_to_process) \ {sensor_buf'}
         \/ /\ ready_to_process = <<>> /\ sensor_pc' = "drop"
            /\ UNCHANGED <<sensor_buf, ready_to_process>>
<1> DEFINE at == FirstSafe(ready_to_process, SafeToOverwrite)
<1>1. CASE ready_to_process # <<>>
  <2>1. at = 1
    BY <1>1, RecycleFinds
  <2>2. 1 \in 1 .. Len(ready_to_process)
    BY <1>1, EmptySeq, LenProperties DEF IInv, TypeOK
  <2>3. /\ sensor_pc' = "count_isp_drop" /\ sensor_buf' = ready_to_process[1]
        /\ ready_to_process' = RemoveAt(ready_to_process, 1)
    BY <2>1 DEF SensorRecycle, SensorGoto
  <2> QED
    BY <1>1, <2>2, <2>3, QueuesDistinct, RemoveAtDistinct
<1>2. CASE ready_to_process = <<>>
  <2>1. Len(ready_to_process) = 0
    BY <1>2
  <2>2. at \in 1 .. Len(ready_to_process) \/ at = 0
    <3>1. ready_to_process \in Seq(Buffers)
      BY DEF IInv, TypeOK
    <3> QED
      BY <3>1, FirstSafePlace
  <2>3. at = 0
    <3> HIDE DEF at
    <3> QED
      BY <2>1, <2>2
  <2> QED
    BY <1>2, <2>3 DEF SensorRecycle, SensorGoto
<1> QED
  BY <1>1, <1>2

(* What writing a recorded frame does: with room it is added, and a full   *)
(* queue hands back its oldest buffer.                                     *)
LEMMA PublishMoves ==
  ASSUME IInv, SensorPublish
  PROVE  /\ ready_to_process' \in DistinctSeq(Buffers)
         /\ \/ /\ Len(ready_to_process) # PROCESS_CAPACITY
               /\ sensor_pc' = "loop" /\ sensor_buf' = NULL
               /\ Len(ready_to_process') = Len(ready_to_process) + 1
               /\ ToSet(ready_to_process') = ToSet(ready_to_process) \cup {sensor_buf}
            \/ /\ Len(ready_to_process) = PROCESS_CAPACITY
               /\ sensor_pc' = "give_back" /\ sensor_buf' \in Buffers
               /\ sensor_buf' \in ToSet(ready_to_process)
               /\ ToSet(ready_to_process')
                    = (ToSet(ready_to_process) \ {sensor_buf'}) \cup {sensor_buf}
<1>1. sensor_buf \in Buffers /\ sensor_buf \notin ToSet(ready_to_process)
  BY Owners, WriteQueueHasRoom DEF SensorPublish, SensorGoto, SensorHolding
<1>2. /\ ready_to_process' = Enqueued(ready_to_process, PROCESS_CAPACITY, sensor_buf)
      /\ sensor_buf' = Ejected(ready_to_process, PROCESS_CAPACITY, NULL)
      /\ sensor_pc' = IF sensor_buf' = NULL THEN "loop" ELSE "give_back"
  BY DEF SensorPublish, SensorGoto
<1>3. CASE Len(ready_to_process) # PROCESS_CAPACITY
  BY <1>1, <1>2, <1>3, QueuesDistinct, EnqueuedWithRoom
<1>4. CASE Len(ready_to_process) = PROCESS_CAPACITY
  BY <1>1, <1>2, <1>4, QueuesDistinct, EnqueuedWhenFull, SizesAssumption, ConstantFacts
<1> QED
  BY <1>3, <1>4

-----------------------------------------------------------------------------
(* The start of the camera.                                                *)
LEMMA InitIInv == Init => IInv
<1> SUFFICES ASSUME Init PROVE IInv
  OBVIOUS
<1>1. /\ DOMAIN ready_to_write = 1 .. BUFFER_COUNT
      /\ \A k \in 1 .. BUFFER_COUNT : ready_to_write[k] = k - 1
      /\ ready_to_write \in Seq(Buffers)
  <2>1. ready_to_write \in [1 .. BUFFER_COUNT -> Buffers]
    BY SizesAssumption DEF Init, Buffers
  <2> QED
    BY <2>1, SizesAssumption, SeqDef DEF Init
<1>2. ready_to_process = <<>> /\ ToSet(ready_to_process) = {} /\ IsInjective(ready_to_process)
  BY DEF Init, ToSet, IsInjective
<1>3. IsInjective(ready_to_write)
  BY <1>1, SizesAssumption DEF IsInjective
<1>4. ToSet(ready_to_write) = Buffers
  <2>1. ASSUME NEW b \in Buffers PROVE b \in ToSet(ready_to_write)
    <3>1. b + 1 \in 1 .. BUFFER_COUNT /\ ready_to_write[b + 1] = b
      BY <1>1, SizesAssumption DEF Buffers
    <3> QED
      BY <1>1, <3>1 DEF ToSet
  <2>2. ASSUME NEW b \in ToSet(ready_to_write) PROVE b \in Buffers
    BY <1>1, SizesAssumption DEF ToSet, Buffers
  <2> QED
    BY <2>1, <2>2
<1>5. TypeOK
  <2>1. lens_metadata_cache = <<>> /\ lens_metadata_cache \in Seq(Lenses)
        /\ Len(lens_metadata_cache) = 0
    BY DEF Init
  <2>2. ready_to_process \in Seq(Buffers) /\ Len(ready_to_process) = 0
    BY <1>2
  <2> QED
    BY <1>1, <2>1, <2>2, SizesAssumption DEF Init, TypeOK, P_State
<1>6. SensorOwns = {} /\ IspOwns = {}
  BY DEF Init, SensorOwns, IspOwns, Processing
<1>7. OneOwnerEach
  BY <1>2, <1>3, <1>4, <1>6 DEF OneOwnerEach
<1>8. BuffersHeld /\ FrameIntact /\ ProfileAlive /\ NoDropWhileFramesWait /\ JoinedInOrder
  BY DEF Init, BuffersHeld, SensorHolding, Processing, FrameIntact, ProfileAlive,
         NoDropWhileFramesWait, JoinedInOrder
<1>9. StateMatchesOwner /\ LensAttached
  BY <1>2, <1>6 DEF Init, StateMatchesOwner, LensAttached
<1> QED
  BY <1>5, <1>7, <1>8, <1>9 DEF IInv

-----------------------------------------------------------------------------
(* Types.                                                                  *)

LEMMA SensorKeepsTypes ==
  ASSUME IInv, SensorNext
  PROVE  TypeOK'
<1> USE DEF SensorGoto, control, queues, metadata, stats, device, sensor, isp
<1>1. CASE SensorLoop
  BY <1>1 DEF IInv, TypeOK, SensorLoop
<1>2. CASE SensorAcquire
  <2>1. CASE ready_to_write # <<>>
    <3>1. Head(ready_to_write) \in Buffers /\ Tail(ready_to_write) \in Seq(Buffers)
      BY <2>1, QueuesDistinct, TailDistinct DEF DistinctSeq
    <3>2. /\ sensor_pc' = "claim" /\ sensor_buf' \in Buffers
          /\ ready_to_write' \in Seq(Buffers)
      BY <1>2, <2>1, <3>1 DEF SensorAcquire
    <3> QED
      BY <1>2, <3>2 DEF IInv, TypeOK, SensorAcquire
  <2>2. CASE ready_to_write = <<>>
    BY <1>2, <2>2 DEF IInv, TypeOK, SensorAcquire
  <2> QED
    BY <2>1, <2>2
<1>3. CASE SensorLook
  BY <1>3 DEF IInv, TypeOK, SensorLook
<1>4. CASE SensorRecycle
  <2>1. /\ ready_to_process' \in Seq(Buffers)
        /\ Len(ready_to_process') <= PROCESS_CAPACITY
        /\ sensor_pc' \in {"count_isp_drop", "drop"}
        /\ sensor_buf' \in Buffers \cup {NULL}
    <3>1. /\ ready_to_process \in Seq(Buffers) /\ sensor_buf \in Buffers \cup {NULL}
          /\ Len(ready_to_process) \in Nat /\ Len(ready_to_process) <= PROCESS_CAPACITY
      BY QueuesDistinct DEF IInv, TypeOK
    <3> QED
      BY <1>4, <3>1, RecycleTakes, SizesAssumption DEF DistinctSeq
  <2> QED
    BY <1>4, <2>1 DEF IInv, TypeOK, SensorRecycle
<1>5. CASE SensorCountIspDrop
  BY <1>5 DEF IInv, TypeOK, SensorCountIspDrop
<1>6. CASE SensorClaim
  <2>1. state' \in [Buffers -> P_State]
    BY <1>6 DEF IInv, TypeOK, SensorClaim, P_State
  <2> QED
    BY <1>6, <2>1 DEF IInv, TypeOK, SensorClaim
<1>7. CASE SensorCapture
  <2>1. sensor_buf \in Buffers
    BY <1>7, Owners DEF SensorCapture, SensorHolding
  <2> QED
    BY <1>7, <2>1, ConstantFacts DEF IInv, TypeOK, SensorCapture
<1>8. CASE SensorReady
  <2>1. state' \in [Buffers -> P_State]
    BY <1>8 DEF IInv, TypeOK, SensorReady, P_State
  <2> QED
    BY <1>8, <2>1 DEF IInv, TypeOK, SensorReady
<1>9. CASE SensorPublish
  <2>1. /\ sensor_buf \in Buffers
        /\ ready_to_process' = Enqueued(ready_to_process, PROCESS_CAPACITY, sensor_buf)
    BY <1>9, Owners DEF SensorPublish, SensorHolding
  <2>2. /\ ready_to_process' \in Seq(Buffers)
        /\ Len(ready_to_process') <= PROCESS_CAPACITY
    BY <2>1, EnqueuedSeq, SizesAssumption DEF IInv, TypeOK
  <2>3. sensor_pc' \in {"loop", "give_back"} /\ sensor_buf' \in Buffers \cup {NULL}
    BY <1>9, PublishMoves
  <2> QED
    BY <1>9, <2>2, <2>3 DEF IInv, TypeOK, SensorPublish
<1>10. CASE SensorGiveBack
  <2>1. sensor_buf \in Buffers
    BY <1>10, Owners DEF SensorGiveBack, SensorHolding
  <2>2. ready_to_write' \in Seq(Buffers)
    BY <1>10, <2>1, EnqueuedSeq, SizesAssumption
    DEF IInv, TypeOK, SensorGiveBack, WriteCapacity
  <2> QED
    BY <1>10, <2>2 DEF IInv, TypeOK, SensorGiveBack
<1>11. CASE SensorCountDrop
  BY <1>11 DEF IInv, TypeOK, SensorCountDrop
<1> QED
  BY <1>1, <1>2, <1>3, <1>4, <1>5, <1>6, <1>7, <1>8, <1>9, <1>10, <1>11 DEF SensorNext

LEMMA IspKeepsTypes ==
  ASSUME IInv, IspNext
  PROVE  TypeOK'
<1> USE DEF IspGoto, control, queues, metadata, stats, device, sensor, isp
<1>1. CASE IspLoop
  BY <1>1 DEF IInv, TypeOK, IspLoop
<1>2. CASE IspTake
  <2>1. CASE ready_to_process # <<>>
    <3>1. /\ Head(ready_to_process) \in Buffers
          /\ Tail(ready_to_process) \in Seq(Buffers)
          /\ Len(Tail(ready_to_process)) = Len(ready_to_process) - 1
          /\ Len(ready_to_process) \in Nat
      BY <2>1, QueuesDistinct, TailDistinct DEF DistinctSeq
    <3>2. Len(Tail(ready_to_process)) <= PROCESS_CAPACITY
      BY <3>1, SizesAssumption DEF IInv, TypeOK
    <3>3. /\ isp_pc' = "claim" /\ isp_buf' \in Buffers
          /\ ready_to_process' = Tail(ready_to_process)
      BY <1>2, <2>1, <3>1 DEF IspTake
    <3>4. /\ ready_to_process' \in Seq(Buffers)
          /\ Len(ready_to_process') <= PROCESS_CAPACITY
      BY <3>1, <3>2, <3>3
    <3>5. isp_frame' \in Nat
      BY <1>2, <2>1, <3>1 DEF IInv, TypeOK, IspTake
    <3> QED
      BY <1>2, <3>3, <3>4, <3>5 DEF IInv, TypeOK, IspTake
  <2>2. CASE ready_to_process = <<>>
    BY <1>2, <2>2 DEF IInv, TypeOK, IspTake
  <2> QED
    BY <2>1, <2>2
<1>3. CASE IspClaim
  <2>1. state' \in [Buffers -> P_State]
    BY <1>3 DEF IInv, TypeOK, IspClaim, P_State
  <2> QED
    BY <1>3, <2>1 DEF IInv, TypeOK, IspClaim
<1>4. CASE IspHit
  <2>1. lens_id[isp_buf] \in Lenses
    BY <1>4, LensOfIspBuffer DEF IspHit, Processing
  <2>2. /\ lens_metadata_cache' \in Seq(Lenses)
        /\ Len(lens_metadata_cache') <= CACHE_CAPACITY
    BY <1>4, <2>1, TouchedFront DEF IInv, TypeOK, IspHit, Cached
  <2> QED
    BY <1>4, <2>1, <2>2 DEF IInv, TypeOK, IspHit
<1>5. CASE IspMiss
  BY <1>5 DEF IInv, TypeOK, IspMiss
<1>6. CASE IspLoad
  <2>1. lens_id[isp_buf] \in Lenses
    BY <1>6, LensOfIspBuffer DEF IspLoad, Processing
  <2>2. /\ lens_metadata_cache' \in Seq(Lenses)
        /\ Len(lens_metadata_cache') <= CACHE_CAPACITY
    BY <1>6, <2>1, InsertedFront, SizesAssumption DEF IInv, TypeOK, IspLoad
  <2> QED
    BY <1>6, <2>1, <2>2 DEF IInv, TypeOK, IspLoad
<1>7. CASE IspProcess
  <2>1. state' \in [Buffers -> P_State]
    BY <1>7 DEF IInv, TypeOK, IspProcess, P_State
  <2> QED
    BY <1>7, <2>1 DEF IInv, TypeOK, IspProcess
<1>8. CASE IspReturn
  <2>1. isp_buf \in Buffers
    BY <1>8, Owners DEF IspReturn, Processing
  <2>2. ready_to_write' \in Seq(Buffers)
    BY <1>8, <2>1, EnqueuedSeq, SizesAssumption
    DEF IInv, TypeOK, IspReturn, WriteCapacity
  <2> QED
    BY <1>8, <2>2 DEF IInv, TypeOK, IspReturn
<1>9. CASE IspCount
  BY <1>9 DEF IInv, TypeOK, IspCount
<1>10. CASE IspReport
  BY <1>10 DEF IInv, TypeOK, IspReport
<1> QED
  BY <1>1, <1>2, <1>3, <1>4, <1>5, <1>6, <1>7, <1>8, <1>9, <1>10 DEF IspNext

-----------------------------------------------------------------------------
(* Every buffer has one owner.                                             *)

(* A step that moves no buffer.                                            *)
LEMMA OwnersStay ==
  ASSUME IInv, UNCHANGED <<queues, SensorOwns, IspOwns>>
  PROVE  OneOwnerEach'
  BY DEF IInv, OneOwnerEach, queues

LEMMA SensorKeepsOwners ==
  ASSUME IInv, SensorNext
  PROVE  OneOwnerEach'
<1> USE DEF SensorGoto, control, queues, metadata, stats, device, sensor, isp
<1>1. UNCHANGED IspOwns
  BY DEF SensorNext, SensorLoop, SensorAcquire, SensorLook, SensorRecycle,
         SensorCountIspDrop, SensorClaim, SensorCapture, SensorReady, SensorPublish,
         SensorGiveBack, SensorCountDrop, IspOwns
<1>2. CASE SensorAcquire
  <2>1. CASE ready_to_write # <<>>
    <3>1. /\ SensorOwns = {} /\ SensorOwns' = {sensor_buf'}
          /\ sensor_buf' \in ToSet(ready_to_write)
          /\ IsInjective(ready_to_write') /\ UNCHANGED ready_to_process
          /\ ToSet(ready_to_write') = ToSet(ready_to_write) \ {sensor_buf'}
      <4>1. SensorOwns = {} /\ sensor_buf' = Head(ready_to_write)
            /\ ready_to_write' = Tail(ready_to_write) /\ UNCHANGED ready_to_process
        BY <1>2, <2>1, Owners DEF SensorAcquire, SensorHolding
      <4>2. /\ Head(ready_to_write) \in Buffers
            /\ Head(ready_to_write) \in ToSet(ready_to_write)
            /\ Tail(ready_to_write) \in DistinctSeq(Buffers)
            /\ ToSet(Tail(ready_to_write)) = ToSet(ready_to_write) \ {Head(ready_to_write)}
        BY <2>1, QueuesDistinct, TailDistinct
      <4> QED
        BY <4>1, <4>2, ConstantFacts DEF DistinctSeq, SensorOwns
    <3> QED
      BY <1>1, <3>1 DEF IInv, OneOwnerEach
  <2>2. CASE ready_to_write = <<>>
    BY <1>1, <1>2, <2>2, OwnersStay DEF SensorAcquire, SensorOwns
  <2> QED
    BY <2>1, <2>2
<1>3. CASE SensorRecycle
  <2>1. SensorOwns = {} /\ UNCHANGED ready_to_write
    BY <1>3, Owners DEF SensorRecycle, SensorHolding
  <2>2. CASE UNCHANGED <<sensor_buf, ready_to_process>>
    BY <1>1, <2>1, <2>2, OwnersStay DEF SensorOwns
  <2>3. CASE ~UNCHANGED <<sensor_buf, ready_to_process>>
    <3>1. /\ sensor_buf' \in Buffers /\ sensor_buf' \in ToSet(ready_to_process)
          /\ IsInjective(ready_to_process')
          /\ ToSet(ready_to_process') = ToSet(ready_to_process) \ {sensor_buf'}
      BY <1>3, <2>3, RecycleTakes DEF DistinctSeq
    <3>2. SensorOwns' = {sensor_buf'}
      BY <3>1, ConstantFacts DEF SensorOwns
    <3> QED
      BY <1>1, <2>1, <3>1, <3>2 DEF IInv, OneOwnerEach
  <2> QED
    BY <2>2, <2>3
<1>4. CASE SensorPublish
  <2>1. /\ SensorOwns = {sensor_buf} /\ UNCHANGED ready_to_write
        /\ IsInjective(ready_to_process')
    BY <1>4, Owners, PublishMoves DEF SensorPublish, SensorHolding, DistinctSeq
  <2>2. CASE sensor_buf' = NULL
    <3>1. /\ SensorOwns' = {}
          /\ ToSet(ready_to_process') = ToSet(ready_to_process) \cup {sensor_buf}
      BY <1>4, <2>2, PublishMoves, ConstantFacts DEF SensorOwns
    <3> QED
      BY <1>1, <2>1, <3>1 DEF IInv, OneOwnerEach
  <2>3. CASE sensor_buf' # NULL
    <3>1. /\ SensorOwns' = {sensor_buf'} /\ sensor_buf' \in ToSet(ready_to_process)
          /\ ToSet(ready_to_process')
               = (ToSet(ready_to_process) \ {sensor_buf'}) \cup {sensor_buf}
      BY <1>4, <2>3, PublishMoves DEF SensorOwns
    <3> QED
      BY <1>1, <2>1, <3>1 DEF IInv, OneOwnerEach
  <2> QED
    BY <2>2, <2>3
<1>5. CASE SensorGiveBack
  <2>1. /\ SensorOwns = {sensor_buf} /\ SensorOwns' = {}
        /\ UNCHANGED ready_to_process
        /\ ready_to_write' = Enqueued(ready_to_write, WriteCapacity, sensor_buf)
    BY <1>5, Owners DEF SensorGiveBack, SensorHolding, SensorOwns
  <2>2. /\ IsInjective(ready_to_write')
        /\ ToSet(ready_to_write') = ToSet(ready_to_write) \cup {sensor_buf}
    <3>1. /\ sensor_buf \in Buffers /\ sensor_buf \notin ToSet(ready_to_write)
          /\ Len(ready_to_write) # WriteCapacity
      BY <2>1, WriteQueueHasRoom
    <3>2. ready_to_write \in DistinctSeq(Buffers)
      BY QueuesDistinct
    <3>3. /\ ready_to_write' \in DistinctSeq(Buffers)
          /\ ToSet(ready_to_write') = ToSet(ready_to_write) \cup {sensor_buf}
      BY <2>1, <3>1, <3>2, EnqueuedWithRoom
    <3> QED
      BY <3>3 DEF DistinctSeq
  <2> QED
    BY <1>1, <2>1, <2>2 DEF IInv, OneOwnerEach
<1>6. CASE ~(SensorAcquire \/ SensorRecycle \/ SensorPublish \/ SensorGiveBack)
  <2>1. UNCHANGED <<queues, sensor_buf>>
    BY <1>6 DEF SensorNext, SensorLoop, SensorLook, SensorCountIspDrop, SensorClaim,
                SensorCapture, SensorReady, SensorCountDrop
  <2> QED
    BY <1>1, <2>1, OwnersStay DEF SensorOwns
<1> QED
  BY <1>2, <1>3, <1>4, <1>5, <1>6

LEMMA IspKeepsOwners ==
  ASSUME IInv, IspNext
  PROVE  OneOwnerEach'
<1> USE DEF IspGoto, control, queues, metadata, stats, device, sensor, isp
<1>1. UNCHANGED SensorOwns
  BY DEF IspNext, IspLoop, IspTake, IspClaim, IspHit, IspMiss, IspLoad, IspProcess,
         IspReturn, IspCount, IspReport, SensorOwns
<1>2. CASE IspTake
  <2>1. CASE ready_to_process # <<>>
    <3>1. /\ IspOwns = {} /\ IspOwns' = {isp_buf'} /\ UNCHANGED ready_to_write
          /\ isp_buf' = Head(ready_to_process)
          /\ ready_to_process' = Tail(ready_to_process)
      BY <1>2, <2>1, Owners DEF IspTake, IspOwns, Processing
    <3>2. /\ Head(ready_to_process) \in ToSet(ready_to_process)
          /\ Tail(ready_to_process) \in DistinctSeq(Buffers)
          /\ ToSet(Tail(ready_to_process))
               = ToSet(ready_to_process) \ {Head(ready_to_process)}
      BY <2>1, QueuesDistinct, TailDistinct
    <3>3. /\ isp_buf' \in ToSet(ready_to_process) /\ IsInjective(ready_to_process')
          /\ ToSet(ready_to_process') = ToSet(ready_to_process) \ {isp_buf'}
      BY <3>1, <3>2 DEF DistinctSeq
    <3> QED
      BY <1>1, <3>1, <3>3 DEF IInv, OneOwnerEach
  <2>2. CASE ready_to_process = <<>>
    BY <1>1, <1>2, <2>2, OwnersStay DEF IspTake, IspOwns, Processing
  <2> QED
    BY <2>1, <2>2
<1>3. CASE IspReturn
  <2>1. /\ IspOwns = {isp_buf} /\ IspOwns' = {} /\ UNCHANGED ready_to_process
        /\ ready_to_write' = Enqueued(ready_to_write, WriteCapacity, isp_buf)
    BY <1>3, Owners DEF IspReturn, Processing, IspOwns
  <2>2. /\ IsInjective(ready_to_write')
        /\ ToSet(ready_to_write') = ToSet(ready_to_write) \cup {isp_buf}
    <3>1. /\ isp_buf \in Buffers /\ isp_buf \notin ToSet(ready_to_write)
          /\ Len(ready_to_write) # WriteCapacity
      BY <2>1, WriteQueueHasRoom
    <3>2. ready_to_write \in DistinctSeq(Buffers)
      BY QueuesDistinct
    <3>3. /\ ready_to_write' \in DistinctSeq(Buffers)
          /\ ToSet(ready_to_write') = ToSet(ready_to_write) \cup {isp_buf}
      BY <2>1, <3>1, <3>2, EnqueuedWithRoom
    <3> QED
      BY <3>3 DEF DistinctSeq
  <2> QED
    BY <1>1, <2>1, <2>2 DEF IInv, OneOwnerEach
<1>4. CASE ~(IspTake \/ IspReturn)
  <2>1. UNCHANGED <<queues, IspOwns>>
    BY <1>4 DEF IspNext, IspLoop, IspClaim, IspHit, IspMiss, IspLoad, IspProcess,
                IspCount, IspReport, IspOwns, Processing
  <2> QED
    BY <1>1, <2>1, OwnersStay
<1> QED
  BY <1>2, <1>3, <1>4

-----------------------------------------------------------------------------
(* What the loops hold, and how far main has come.                         *)

LEMMA SensorKeepsHeld ==
  ASSUME IInv, SensorNext
  PROVE  BuffersHeld'
<1> USE DEF SensorGoto, isp, BuffersHeld, SensorHolding
<1>1. UNCHANGED <<isp_pc, isp_buf>>
  BY DEF SensorNext, SensorLoop, SensorAcquire, SensorLook, SensorRecycle,
         SensorCountIspDrop, SensorClaim, SensorCapture, SensorReady, SensorPublish,
         SensorGiveBack, SensorCountDrop
<1>2. sensor_buf' # NULL <=> sensor_pc' \in SensorHolding
  <2>1. CASE SensorAcquire
    <3>1. ready_to_write # <<>> => Head(ready_to_write) # NULL
      BY QueuesDistinct, TailDistinct, ConstantFacts
    <3> QED
      BY <2>1, <3>1 DEF SensorAcquire, IInv
  <2>2. CASE SensorRecycle
    BY <2>2, RecycleTakes, ConstantFacts DEF SensorRecycle, IInv
  <2>3. CASE SensorPublish
    BY <2>3, PublishMoves, ConstantFacts
  <2>4. CASE ~(SensorAcquire \/ SensorRecycle \/ SensorPublish)
    BY <2>4 DEF IInv, SensorNext, SensorLoop, SensorLook, SensorCountIspDrop, SensorClaim,
                SensorCapture, SensorReady, SensorGiveBack, SensorCountDrop
  <2> QED
    BY <2>1, <2>2, <2>3, <2>4
<1> QED
  BY <1>1, <1>2 DEF IInv

LEMMA IspKeepsHeld ==
  ASSUME IInv, IspNext
  PROVE  BuffersHeld'
<1> USE DEF IspGoto, sensor, BuffersHeld, Processing
<1>1. UNCHANGED <<sensor_pc, sensor_buf>>
  BY DEF IspNext, IspLoop, IspTake, IspClaim, IspHit, IspMiss, IspLoad, IspProcess,
         IspReturn, IspCount, IspReport
<1>2. isp_buf' # NULL <=> isp_pc' \in Processing \cup {"count", "report"}
  <2>1. CASE IspTake
    <3>1. ready_to_process # <<>> => Head(ready_to_process) # NULL
      BY QueuesDistinct, TailDistinct, ConstantFacts
    <3> QED
      BY <2>1, <3>1 DEF IspTake, IInv
  <2>2. CASE ~IspTake
    BY <2>2 DEF IInv, IspNext, IspLoop, IspClaim, IspHit, IspMiss, IspLoad, IspProcess,
                IspReturn, IspCount, IspReport
  <2> QED
    BY <2>1, <2>2
<1> QED
  BY <1>1, <1>2 DEF IInv

LEMMA ThreadsKeepJoinOrder ==
  ASSUME IInv, SensorNext \/ IspNext
  PROVE  JoinedInOrder'
<1>1. CASE SensorNext
  BY <1>1 DEF IInv, JoinedInOrder, control, isp, SensorNext, SensorLoop, SensorAcquire,
              SensorLook, SensorRecycle, SensorCountIspDrop, SensorClaim, SensorCapture,
              SensorReady, SensorPublish, SensorGiveBack, SensorCountDrop, SensorGoto
<1>2. CASE IspNext
  BY <1>2 DEF IInv, JoinedInOrder, control, sensor, IspNext, IspLoop, IspTake, IspClaim,
              IspHit, IspMiss, IspLoad, IspProcess, IspReturn, IspCount, IspReport, IspGoto
<1> QED
  BY <1>1, <1>2

-----------------------------------------------------------------------------
(* The state of a buffer and who owns it.                                  *)

LEMMA SensorKeepsStates ==
  ASSUME IInv, SensorNext
  PROVE  StateMatchesOwner'
<1> USE DEF SensorGoto, metadata, isp
<1>1. UNCHANGED <<isp_pc, isp_buf>>
  BY DEF SensorNext, SensorLoop, SensorAcquire, SensorLook, SensorRecycle,
         SensorCountIspDrop, SensorClaim, SensorCapture, SensorReady, SensorPublish,
         SensorGiveBack, SensorCountDrop
<1>2. state \in [Buffers -> P_State]
  BY DEF IInv, TypeOK
<1>3. isp_pc \in {"lookup", "load", "process"} => isp_buf \notin SensorOwns
  BY Owners DEF IInv, OneOwnerEach, Processing
<1>4. CASE SensorClaim
  <2>1. sensor_buf \in Buffers /\ SensorOwns = {sensor_buf}
    BY <1>4, Owners DEF SensorClaim, SensorHolding
  <2> QED
    BY <1>1, <1>2, <1>3, <1>4, <2>1 DEF IInv, StateMatchesOwner, SensorClaim
<1>5. CASE SensorReady
  <2>1. sensor_buf \in Buffers /\ SensorOwns = {sensor_buf}
    BY <1>5, Owners DEF SensorReady, SensorHolding
  <2> QED
    BY <1>1, <1>2, <1>3, <1>5, <2>1 DEF IInv, StateMatchesOwner, SensorReady
<1>6. CASE ~(SensorClaim \/ SensorReady)
  <2>1. /\ UNCHANGED state
        /\ sensor_pc' \in {"capture", "ready"} <=> sensor_pc \in {"capture", "ready"}
        /\ sensor_pc \in {"capture", "ready"} => UNCHANGED sensor_buf
    BY <1>6 DEF SensorNext, SensorLoop, SensorAcquire, SensorLook, SensorRecycle,
                SensorCountIspDrop, SensorCapture, SensorPublish, SensorGiveBack,
                SensorCountDrop, sensor
  <2> QED
    BY <1>1, <2>1 DEF IInv, StateMatchesOwner
<1> QED
  BY <1>4, <1>5, <1>6

LEMMA IspKeepsStates ==
  ASSUME IInv, IspNext
  PROVE  StateMatchesOwner'
<1> USE DEF IspGoto, metadata, sensor
<1>1. UNCHANGED <<sensor_pc, sensor_buf>>
  BY DEF IspNext, IspLoop, IspTake, IspClaim, IspHit, IspMiss, IspLoad, IspProcess,
         IspReturn, IspCount, IspReport
<1>2. state \in [Buffers -> P_State]
  BY DEF IInv, TypeOK
<1>3. sensor_pc \in {"capture", "ready"} => sensor_buf \notin IspOwns
  BY Owners DEF IInv, OneOwnerEach, SensorHolding
<1>4. CASE IspClaim
  <2>1. isp_buf \in Buffers /\ IspOwns = {isp_buf}
    BY <1>4, Owners DEF IspClaim, Processing
  <2> QED
    BY <1>1, <1>2, <1>3, <1>4, <2>1 DEF IInv, StateMatchesOwner, IspClaim
<1>5. CASE IspProcess
  <2>1. isp_buf \in Buffers /\ IspOwns = {isp_buf}
    BY <1>5, Owners DEF IspProcess, Processing
  <2> QED
    BY <1>1, <1>2, <1>3, <1>5, <2>1 DEF IInv, StateMatchesOwner, IspProcess
<1>6. CASE ~(IspClaim \/ IspProcess)
  <2>1. /\ UNCHANGED state
        /\ isp_pc' \in {"lookup", "load", "process"}
             <=> isp_pc \in {"lookup", "load", "process"}
        /\ isp_pc \in {"lookup", "load", "process"} => UNCHANGED isp_buf
    BY <1>6 DEF IspNext, IspLoop, IspTake, IspHit, IspMiss, IspLoad, IspReturn,
                IspCount, IspReport
  <2> QED
    BY <1>1, <2>1 DEF IInv, StateMatchesOwner
<1> QED
  BY <1>4, <1>5, <1>6

-----------------------------------------------------------------------------
(* The frame the ISP works on, its lens and its profile.                   *)

(* What the sensor writes into a buffer is not the ISP's.                  *)
LEMMA SensorWritesItsOwn ==
  ASSUME IInv, SensorNext
  PROVE  /\ UNCHANGED <<isp, lens_metadata_cache>>
         /\ \A b \in Buffers \ SensorOwns :
              timestamp_ns'[b] = timestamp_ns[b] /\ lens_id'[b] = lens_id[b]
<1>1. CASE SensorCapture
  <2>1. sensor_buf \in Buffers /\ SensorOwns = {sensor_buf}
    BY <1>1, Owners DEF SensorCapture, SensorGoto, SensorHolding
  <2> QED
    BY <1>1, <2>1 DEF SensorCapture, IInv, TypeOK, device
<1>2. CASE ~SensorCapture
  BY <1>2 DEF SensorNext, SensorLoop, SensorAcquire, SensorLook, SensorRecycle,
              SensorCountIspDrop, SensorClaim, SensorReady, SensorPublish,
              SensorGiveBack, SensorCountDrop, metadata, device
<1> QED
  BY <1>1, <1>2

LEMMA SensorKeepsFrame ==
  ASSUME IInv, SensorNext
  PROVE  FrameIntact' /\ ProfileAlive'
<1>1. isp_pc \in Processing => isp_buf \in Buffers \ SensorOwns
  BY Owners DEF IInv, OneOwnerEach
<1>2. UNCHANGED <<isp_pc, isp_buf, isp_frame, isp_profile, lens_metadata_cache>>
  BY SensorWritesItsOwn DEF isp
<1>3. isp_pc \in Processing => /\ timestamp_ns'[isp_buf] = timestamp_ns[isp_buf]
                               /\ lens_id'[isp_buf] = lens_id[isp_buf]
  BY <1>1, SensorWritesItsOwn
<1>4. FrameIntact'
  BY <1>2, <1>3 DEF IInv, FrameIntact
<1>5. ProfileAlive'
  BY <1>2, <1>3 DEF IInv, ProfileAlive, Cached, Processing
<1> QED
  BY <1>4, <1>5

LEMMA IspKeepsFrame ==
  ASSUME IInv, IspNext
  PROVE  FrameIntact' /\ ProfileAlive'
<1> USE DEF IspGoto, metadata
<1>1. UNCHANGED <<timestamp_ns, lens_id>>
  BY DEF IspNext, IspLoop, IspTake, IspClaim, IspHit, IspMiss, IspLoad, IspProcess,
         IspReturn, IspCount, IspReport
<1>2. FrameIntact'
  <2>1. CASE IspTake
    <3>1. ready_to_process # <<>> =>
            /\ Head(ready_to_process) \in ToSet(ready_to_process)
            /\ Head(ready_to_process) \in Buffers
      BY QueuesDistinct, TailDistinct
    <3>2. ready_to_process # <<>> =>
            lens_id[Head(ready_to_process)] = LensOf(Head(ready_to_process))
      BY <3>1 DEF IInv, LensAttached
    <3> QED
      BY <1>1, <2>1, <3>2 DEF IspTake, FrameIntact, Processing
  <2>2. CASE ~IspTake
    <3>1. isp_pc' \in Processing => /\ isp_pc \in Processing
                                    /\ UNCHANGED <<isp_buf, isp_frame>>
      BY <2>2 DEF IspNext, IspLoop, IspClaim, IspHit, IspMiss, IspLoad, IspProcess,
                  IspReturn, IspCount, IspReport, Processing
    <3> QED
      BY <1>1, <3>1 DEF IInv, FrameIntact
  <2> QED
    BY <2>1, <2>2
<1>3. ProfileAlive'
  <2>1. CASE IspHit
    <3>1. lens_id[isp_buf] \in Lenses
      BY <2>1, LensOfIspBuffer DEF IspHit, Processing
    <3>2. /\ 1 \in DOMAIN lens_metadata_cache'
          /\ lens_metadata_cache'[1] = lens_id[isp_buf]
      BY <2>1, <3>1, TouchedFront DEF IInv, TypeOK, IspHit, Cached
    <3> QED
      BY <1>1, <2>1, <3>2 DEF IspHit, ProfileAlive, Cached
  <2>2. CASE IspLoad
    <3>1. lens_id[isp_buf] \in Lenses
      BY <2>2, LensOfIspBuffer DEF IspLoad, Processing
    <3>2. /\ 1 \in DOMAIN lens_metadata_cache'
          /\ lens_metadata_cache'[1] = lens_id[isp_buf]
      BY <2>2, <3>1, InsertedFront, SizesAssumption DEF IInv, TypeOK, IspLoad
    <3> QED
      BY <1>1, <2>2, <3>2 DEF IspLoad, ProfileAlive, Cached
  <2>3. CASE ~(IspHit \/ IspLoad)
    BY <2>3 DEF ProfileAlive, IspNext, IspLoop, IspTake, IspClaim, IspMiss, IspProcess,
                IspReturn, IspCount, IspReport
  <2> QED
    BY <2>1, <2>2, <2>3
<1> QED
  BY <1>2, <1>3

LEMMA SensorKeepsLenses ==
  ASSUME IInv, SensorNext
  PROVE  LensAttached'
<1> DEFINE Carrying == IF sensor_pc \in {"ready", "publish"} THEN SensorOwns ELSE {}
<1>1. LensAttached <=> \A b \in Buffers :
        b \in ToSet(ready_to_process) \cup Carrying \cup IspOwns => lens_id[b] = LensOf(b)
  BY DEF LensAttached
<1>2. LensAttached' <=> \A b \in Buffers :
        b \in (ToSet(ready_to_process) \cup Carrying \cup IspOwns)'
          => lens_id'[b] = LensOf(b)
  BY DEF LensAttached
<1>3. UNCHANGED IspOwns
  BY SensorWritesItsOwn DEF isp, IspOwns
<1>4. CASE SensorCapture
  <2>1. /\ sensor_buf \in Buffers /\ SensorOwns = {sensor_buf}
        /\ UNCHANGED <<sensor_buf, ready_to_process>>
        /\ lens_id' = [lens_id EXCEPT ![sensor_buf] = LensOf(sensor_buf)]
    BY <1>4, Owners DEF SensorCapture, SensorGoto, SensorHolding, queues
  <2>2. SensorOwns' = SensorOwns
    BY <2>1 DEF SensorOwns
  <2>3. lens_id'[sensor_buf] = LensOf(sensor_buf)
    BY <2>1 DEF IInv, TypeOK
  <2> QED
    BY <1>1, <1>2, <1>3, <2>1, <2>2, <2>3, SensorWritesItsOwn DEF IInv
<1>5. CASE ~SensorCapture
  <2>1. UNCHANGED lens_id
    BY <1>5 DEF SensorNext, SensorLoop, SensorAcquire, SensorLook, SensorRecycle,
                SensorCountIspDrop, SensorClaim, SensorReady, SensorPublish,
                SensorGiveBack, SensorCountDrop, metadata
  <2>2. (ToSet(ready_to_process) \cup Carrying)'
           \subseteq ToSet(ready_to_process) \cup Carrying
    <3>1. CASE SensorPublish
      <4>1. Carrying = {sensor_buf} /\ Carrying' = {}
        BY <3>1, Owners DEF SensorPublish, SensorGoto, SensorHolding
      <4> QED
        BY <3>1, <4>1, PublishMoves
    <3>2. CASE SensorRecycle
      <4>1. Carrying' = {}
        BY <3>2, RecycleTakes
      <4> QED
        BY <3>2, <4>1, RecycleTakes
    <3>3. CASE ~(SensorPublish \/ SensorRecycle)
      <4>1. UNCHANGED ready_to_process
        BY <1>5, <3>3
        DEF SensorNext, SensorLoop, SensorAcquire, SensorLook, SensorCountIspDrop,
            SensorClaim, SensorReady, SensorGiveBack, SensorCountDrop, queues
      <4>2. sensor_pc' \in {"ready", "publish"} => /\ sensor_pc \in {"ready", "publish"}
                                                   /\ UNCHANGED sensor_buf
        BY <1>5, <3>3
        DEF SensorNext, SensorLoop, SensorAcquire, SensorLook, SensorCountIspDrop,
            SensorClaim, SensorReady, SensorGiveBack, SensorCountDrop, SensorGoto
      <4> QED
        BY <4>1, <4>2 DEF SensorOwns
    <3> QED
      BY <3>1, <3>2, <3>3
  <2> QED
    BY <1>1, <1>2, <1>3, <2>1, <2>2 DEF IInv
<1> QED
  BY <1>4, <1>5

LEMMA IspKeepsLenses ==
  ASSUME IInv, IspNext
  PROVE  LensAttached'
<1> USE DEF IspGoto
<1>1. UNCHANGED <<lens_id, sensor_pc, SensorOwns>>
  BY DEF IspNext, IspLoop, IspTake, IspClaim, IspHit, IspMiss, IspLoad, IspProcess,
         IspReturn, IspCount, IspReport, metadata, sensor, SensorOwns
<1>2. (ToSet(ready_to_process) \cup IspOwns)' \subseteq ToSet(ready_to_process) \cup IspOwns
  <2>1. CASE IspTake
    <3>1. CASE ready_to_process # <<>>
      <4>1. /\ Head(ready_to_process) \in ToSet(ready_to_process)
            /\ ToSet(Tail(ready_to_process))
                 = ToSet(ready_to_process) \ {Head(ready_to_process)}
        BY <3>1, QueuesDistinct, TailDistinct
      <4>2. /\ IspOwns' \subseteq {Head(ready_to_process)}
            /\ ready_to_process' = Tail(ready_to_process)
        BY <2>1, <3>1 DEF IspTake, IspOwns
      <4> QED
        BY <4>1, <4>2
    <3>2. CASE ready_to_process = <<>>
      BY <2>1, <3>2 DEF IspTake, IspOwns, Processing
    <3> QED
      BY <3>1, <3>2
  <2>2. CASE ~IspTake
    <3>1. UNCHANGED ready_to_process /\ IspOwns' \subseteq IspOwns
      BY <2>2 DEF IspNext, IspLoop, IspClaim, IspHit, IspMiss, IspLoad, IspProcess,
                  IspReturn, IspCount, IspReport, IspOwns, Processing, queues
    <3> QED
      BY <3>1
  <2> QED
    BY <2>1, <2>2
<1> QED
  BY <1>1, <1>2 DEF IInv, LensAttached

-----------------------------------------------------------------------------
(* A dropped frame.                                                        *)

LEMMA SensorKeepsNoDrop ==
  ASSUME IInv, SensorNext
  PROVE  NoDropWhileFramesWait'
<1> USE DEF SensorGoto
<1>1. CASE SensorRecycle
  BY <1>1, RecycleTakes DEF NoDropWhileFramesWait
<1>2. CASE SensorLook
  BY <1>2 DEF SensorLook, NoDropWhileFramesWait, queues
<1>3. CASE ~(SensorRecycle \/ SensorLook)
  <2>1. sensor_pc' # "drop"
    BY <1>3, PublishMoves
    DEF SensorNext, SensorLoop, SensorAcquire, SensorCountIspDrop, SensorClaim,
        SensorCapture, SensorReady, SensorPublish, SensorGiveBack, SensorCountDrop
  <2> QED
    BY <2>1 DEF NoDropWhileFramesWait
<1> QED
  BY <1>1, <1>2, <1>3

LEMMA IspKeepsNoDrop ==
  ASSUME IInv, IspNext
  PROVE  NoDropWhileFramesWait'
<1>1. UNCHANGED sensor_pc /\ (ready_to_process = <<>> => ready_to_process' = <<>>)
  BY DEF IspNext, IspLoop, IspTake, IspClaim, IspHit, IspMiss, IspLoad, IspProcess,
         IspReturn, IspCount, IspReport, sensor, queues
<1> QED
  BY <1>1 DEF IInv, NoDropWhileFramesWait

-----------------------------------------------------------------------------
(* main, and steps that change nothing.                                    *)

LEMMA MainKeepsIInv ==
  ASSUME IInv, MainNext
  PROVE  IInv'
<1>1. /\ UNCHANGED <<queues, metadata, stats, device, clock, sensor, isp>>
      /\ running' \in BOOLEAN
      /\ main_pc' \in {"getchar", "join_sensor", "join_isp", "deinit", "exit"}
  BY DEF MainNext, MainStop, MainJoin, MainDeinit, MainGoto, IInv, TypeOK
<1> USE DEF queues, metadata, stats, device, sensor, isp
<1>2. TypeOK'
  BY <1>1 DEF IInv, TypeOK
<1>3. UNCHANGED <<SensorOwns, IspOwns>>
  BY <1>1 DEF SensorOwns, IspOwns
<1>4. OneOwnerEach' /\ LensAttached'
  BY <1>1, <1>3 DEF IInv, OneOwnerEach, LensAttached
<1>5. /\ BuffersHeld' /\ StateMatchesOwner' /\ FrameIntact' /\ ProfileAlive'
      /\ NoDropWhileFramesWait'
  BY <1>1 DEF IInv, BuffersHeld, StateMatchesOwner, FrameIntact, ProfileAlive, Cached,
              NoDropWhileFramesWait
<1>6. JoinedInOrder'
  BY <1>1 DEF IInv, JoinedInOrder, MainNext, MainStop, MainJoin, MainDeinit, MainGoto
<1> QED
  BY <1>2, <1>4, <1>5, <1>6 DEF IInv

LEMMA StutterKeepsIInv ==
  ASSUME IInv, UNCHANGED vars
  PROVE  IInv'
<1> USE DEF vars, control, queues, metadata, stats, device, sensor, isp
<1>1. TypeOK'
  BY DEF IInv, TypeOK
<1>2. UNCHANGED <<SensorOwns, IspOwns>>
  BY DEF SensorOwns, IspOwns
<1>3. OneOwnerEach' /\ LensAttached'
  BY <1>2 DEF IInv, OneOwnerEach, LensAttached
<1>4. /\ BuffersHeld' /\ StateMatchesOwner' /\ FrameIntact' /\ ProfileAlive'
      /\ NoDropWhileFramesWait' /\ JoinedInOrder'
  BY DEF IInv, BuffersHeld, StateMatchesOwner, FrameIntact, ProfileAlive, Cached,
         NoDropWhileFramesWait, JoinedInOrder
<1> QED
  BY <1>1, <1>3, <1>4 DEF IInv

(* Every step of a thread, of main, or of nobody preserves IInv.           *)
LEMMA StepIInv == IInv /\ [Next]_vars => IInv'
<1> SUFFICES ASSUME IInv, [Next]_vars PROVE IInv'
  OBVIOUS
<1>1. CASE SensorNext
  BY <1>1, SensorKeepsTypes, SensorKeepsOwners, SensorKeepsHeld, SensorKeepsStates,
     SensorKeepsFrame, SensorKeepsLenses, SensorKeepsNoDrop, ThreadsKeepJoinOrder
  DEF IInv
<1>2. CASE IspNext
  BY <1>2, IspKeepsTypes, IspKeepsOwners, IspKeepsHeld, IspKeepsStates,
     IspKeepsFrame, IspKeepsLenses, IspKeepsNoDrop, ThreadsKeepJoinOrder
  DEF IInv
<1>3. CASE MainNext
  BY <1>3, MainKeepsIInv
<1>4. CASE UNCHANGED vars
  BY <1>4, StutterKeepsIInv
<1> QED
  BY <1>1, <1>2, <1>3, <1>4 DEF Next, Exited

(* The ownership of the buffers and everything that rests on it holds in   *)
(* every state the three threads can reach.                                *)
THEOREM Inductive == Spec => []IInv
<1> QED
  BY InitIInv, StepIInv, PTL DEF Spec

-----------------------------------------------------------------------------
(* The theorems.                                                           *)

(* Types hold for every size of pool, queue and cache, and the process     *)
(* queue and the profile cache never outgrow their capacities.             *)
THEOREM TypeCorrect == Spec => []TypeOK
<1> QED
  BY Inductive, PTL DEF IInv

(* However the two loops interleave, no buffer of the pool is lost,        *)
(* duplicated or shared: acquire, recycle, publish, give back and return   *)
(* hand every buffer to exactly one owner.                                 *)
THEOREM OneOwner == Spec => []OneOwnerEach
<1> QED
  BY Inductive, PTL DEF IInv

(* The state field tells who may touch the pixels, although the code       *)
(* stores it outside every lock.                                           *)
THEOREM StateTellsOwner == Spec => []StateMatchesOwner
<1> QED
  BY Inductive, PTL DEF IInv

(* The sensor never records over a frame the ISP is working on.            *)
THEOREM FramesStayIntact == Spec => []FrameIntact
<1> QED
  BY Inductive, PTL DEF IInv

(* The profile process_frame uses after the lock was released is the       *)
(* frame's own and is still cached, whatever the capacity of the cache.    *)
THEOREM ProfileStaysAlive == Spec => []ProfileAlive
<1> QED
  BY Inductive, PTL DEF IInv

(* The sensor drops a frame only when none waits for the ISP: the count    *)
(* get_stale_recycled reads without the mutex does no harm here, since     *)
(* only the sensor adds to that queue.                                     *)
THEOREM DropsOnlyWithoutFrames == Spec => []NoDropWhileFramesWait
<1> QED
  BY Inductive, PTL DEF IInv

(* When camera_deinit has freed the device, both threads are joined and    *)
(* every buffer it freed lay in a queue.                                   *)
THEOREM FreedAfterUse == Spec => []NothingUsedAfterFree
<1>1. ASSUME IInv PROVE NothingUsedAfterFree
  <2>1. CASE main_pc = "exit"
    <3>1. sensor_pc = "done" /\ isp_pc = "done"
      BY <1>1, <2>1 DEF IInv, JoinedInOrder
    <3>2. SensorOwns = {} /\ IspOwns = {}
      BY <1>1, <3>1, Owners DEF SensorHolding, Processing
    <3> QED
      BY <1>1, <3>1, <3>2 DEF IInv, OneOwnerEach, NothingUsedAfterFree
  <2>2. CASE main_pc # "exit"
    BY <2>2 DEF NothingUsedAfterFree
  <2> QED
    BY <2>1, <2>2
<1> QED
  BY <1>1, Inductive, PTL

-----------------------------------------------------------------------------
(* The account of the frames, when the process queue has room for the      *)
(* whole pool, as camera_init gives it.                                    *)

(* With such a queue write_to_buffer never ejects a frame.                 *)
LEMMA PublishHasRoom ==
  ASSUME IInv, SensorPublish, PROCESS_CAPACITY >= BUFFER_COUNT
  PROVE  /\ sensor_pc' = "loop"
         /\ Len(ready_to_process') = Len(ready_to_process) + 1
<1>1. sensor_buf \in Buffers /\ sensor_buf \notin ToSet(ready_to_process)
  BY Owners, WriteQueueHasRoom DEF SensorPublish, SensorGoto, SensorHolding
<1>2. Len(ready_to_process) < Cardinality(Buffers) /\ Len(ready_to_process) \in Nat
  BY <1>1, QueuesDistinct, ConstantFacts, DistinctLen
<1>3. Len(ready_to_process) # PROCESS_CAPACITY
  BY <1>2, ConstantFacts, SizesAssumption
<1> QED
  BY <1>3, PublishMoves

(* The terms of the account.                                               *)
LEMMA AccountTypes ==
  ASSUME IInv
  PROVE  /\ clock \in Nat /\ processed_count \in Nat /\ isp_dropped_frames \in Nat
         /\ Len(ready_to_process) \in Nat
  BY QueuesDistinct DEF IInv, TypeOK

LEMMA SensorKeepsAccount ==
  ASSUME IInv, FramesAccounted, SensorNext, PROCESS_CAPACITY >= BUFFER_COUNT
  PROVE  FramesAccounted'
<1> USE AccountTypes DEF SensorGoto, isp, FramesAccounted
<1>1. UNCHANGED <<isp_pc, processed_count>>
  BY DEF SensorNext, SensorLoop, SensorAcquire, SensorLook, SensorRecycle,
         SensorCountIspDrop, SensorClaim, SensorCapture, SensorReady, SensorPublish,
         SensorGiveBack, SensorCountDrop, stats
<1>2. CASE SensorRecycle
  <2>1. UNCHANGED <<clock, isp_dropped_frames>> /\ sensor_pc = "scan"
    BY <1>2 DEF SensorRecycle, stats
  <2> DEFINE AtIsp == IF isp_pc \in Processing \cup {"count"} THEN 1 ELSE 0
  <2>2. AtIsp \in Nat /\ AtIsp' = AtIsp
    BY <1>1
  <2>3. clock = processed_count + isp_dropped_frames + Len(ready_to_process) + 0 + AtIsp
    BY <2>1
  <2>4. CASE sensor_pc' = "count_isp_drop"
    <3>1. Len(ready_to_process') = Len(ready_to_process) - 1
      BY <1>2, <2>4, RecycleTakes
    <3>2. FramesAccounted' <=> clock' = processed_count' + isp_dropped_frames'
                                        + Len(ready_to_process') + 1 + AtIsp'
      BY <2>4
    <3> HIDE DEF AtIsp, FramesAccounted
    <3> QED
      BY <1>1, <2>1, <2>2, <2>3, <3>1, <3>2
  <2>5. CASE sensor_pc' = "drop" /\ UNCHANGED ready_to_process
    BY <1>1, <2>1, <2>5
  <2> QED
    BY <1>2, <2>4, <2>5, RecycleTakes
<1>3. CASE SensorCountIspDrop
  BY <1>1, <1>3 DEF SensorCountIspDrop, queues
<1>4. CASE SensorCapture
  BY <1>1, <1>4 DEF SensorCapture, queues, stats
<1>5. CASE SensorPublish
  <2>1. UNCHANGED <<clock, isp_dropped_frames>> /\ sensor_pc = "publish"
    BY <1>5 DEF SensorPublish, stats
  <2>2. sensor_pc' = "loop" /\ Len(ready_to_process') = Len(ready_to_process) + 1
    BY <1>5, PublishHasRoom
  <2> DEFINE AtIsp == IF isp_pc \in Processing \cup {"count"} THEN 1 ELSE 0
  <2>3. AtIsp \in Nat /\ AtIsp' = AtIsp
    BY <1>1
  <2>4. clock = processed_count + isp_dropped_frames + Len(ready_to_process) + 1 + AtIsp
    BY <2>1
  <2>5. FramesAccounted' <=> clock' = processed_count' + isp_dropped_frames'
                                      + Len(ready_to_process') + 0 + AtIsp'
    BY <2>2
  <2> HIDE DEF AtIsp, FramesAccounted
  <2> QED
    BY <1>1, <2>1, <2>2, <2>3, <2>4, <2>5
<1>6. CASE ~(SensorRecycle \/ SensorCountIspDrop \/ SensorCapture \/ SensorPublish)
  <2>1. /\ UNCHANGED <<clock, isp_dropped_frames, ready_to_process>>
        /\ sensor_pc' \in {"count_isp_drop", "ready", "publish"}
             <=> sensor_pc \in {"count_isp_drop", "ready", "publish"}
    BY <1>6 DEF SensorNext, SensorLoop, SensorAcquire, SensorLook, SensorClaim,
                SensorReady, SensorGiveBack, SensorCountDrop, stats, queues
  <2> QED
    BY <1>1, <2>1
<1> QED
  BY <1>2, <1>3, <1>4, <1>5, <1>6

LEMMA IspKeepsAccount ==
  ASSUME IInv, FramesAccounted, IspNext
  PROVE  FramesAccounted'
<1> USE AccountTypes DEF IspGoto, sensor, FramesAccounted, Processing
<1>1. UNCHANGED <<sensor_pc, clock, isp_dropped_frames>>
  BY DEF IspNext, IspLoop, IspTake, IspClaim, IspHit, IspMiss, IspLoad, IspProcess,
         IspReturn, IspCount, IspReport, stats
<1>2. CASE IspTake
  <2>1. UNCHANGED processed_count
    BY <1>2 DEF IspTake, stats
  <2>2. CASE ready_to_process # <<>>
    <3>1. Len(Tail(ready_to_process)) = Len(ready_to_process) - 1
      BY <2>2, QueuesDistinct, TailDistinct
    <3>2. /\ ready_to_process' = Tail(ready_to_process)
          /\ isp_pc = "take" /\ isp_pc' = "claim"
      BY <1>2, <2>2 DEF IspTake
    <3> DEFINE AtSensor ==
          IF sensor_pc \in {"count_isp_drop", "ready", "publish"} THEN 1 ELSE 0
    <3>3. AtSensor \in Nat /\ AtSensor' = AtSensor
      BY <1>1
    <3>4. clock = processed_count + isp_dropped_frames + Len(ready_to_process) + AtSensor + 0
      BY <3>2
    <3>5. FramesAccounted' <=> clock' = processed_count' + isp_dropped_frames'
                                        + Len(ready_to_process') + AtSensor' + 1
      BY <3>2
    <3>6. Len(ready_to_process') = Len(ready_to_process) - 1
      BY <3>1, <3>2
    <3> HIDE DEF AtSensor, FramesAccounted
    <3> QED
      BY <1>1, <2>1, <3>3, <3>4, <3>5, <3>6
  <2>3. CASE ready_to_process = <<>>
    BY <1>1, <1>2, <2>1, <2>3 DEF IspTake
  <2> QED
    BY <2>2, <2>3
<1>3. CASE IspCount
  <2>1. /\ isp_pc = "count" /\ isp_pc' \in {"report", "loop"}
        /\ processed_count' = processed_count + 1 /\ UNCHANGED ready_to_process
    BY <1>3 DEF IspCount, queues
  <2> QED
    BY <1>1, <2>1
<1>4. CASE ~(IspTake \/ IspCount)
  <2>1. /\ UNCHANGED <<processed_count, ready_to_process>>
        /\ isp_pc' \in Processing \cup {"count"} <=> isp_pc \in Processing \cup {"count"}
    BY <1>4 DEF IspNext, IspLoop, IspClaim, IspHit, IspMiss, IspLoad, IspProcess,
                IspReturn, IspReport, stats, queues
  <2> QED
    BY <1>1, <2>1
<1> QED
  BY <1>2, <1>3, <1>4

LEMMA InitAccount == Init => FramesAccounted
<1> SUFFICES ASSUME Init PROVE FramesAccounted
  OBVIOUS
<1>1. Len(ready_to_process) = 0
  BY DEF Init
<1> QED
  BY <1>1 DEF Init, FramesAccounted, Processing

(* Every recorded frame is processed, counted as dropped by the ISP, or    *)
(* still on its way: nothing vanishes without a count.                     *)
THEOREM AllFramesAccounted ==
  ASSUME PROCESS_CAPACITY >= BUFFER_COUNT
  PROVE  Spec => []FramesAccounted
<1>1. IInv /\ FramesAccounted /\ [Next]_vars => FramesAccounted'
  <2> SUFFICES ASSUME IInv, FramesAccounted, [Next]_vars PROVE FramesAccounted'
    OBVIOUS
  <2>1. CASE SensorNext
    BY <2>1, SensorKeepsAccount
  <2>2. CASE IspNext
    BY <2>2, IspKeepsAccount
  <2>3. CASE MainNext \/ UNCHANGED vars
    <3>1. UNCHANGED <<clock, processed_count, isp_dropped_frames, ready_to_process,
                      sensor_pc, isp_pc>>
      BY <2>3 DEF MainNext, MainStop, MainJoin, MainDeinit, vars, queues, stats,
                  sensor, isp
    <3> QED
      BY <3>1 DEF FramesAccounted
  <2> QED
    BY <2>1, <2>2, <2>3 DEF Next, Exited
<1> QED
  BY <1>1, InitAccount, Inductive, PTL DEF Spec

-----------------------------------------------------------------------------
(* The frames are a lossy stream in order.  The timestamps of a queue of   *)
(* buffers, and what writing and taking do to them.                        *)
Stamps(f, q) == [k \in DOMAIN q |-> f[q[k]]]

AreStamps(w, f, q) ==
  w \in Seq(Nat) /\ Len(w) = Len(q) /\ \A k \in 1 .. Len(q) : w[k] = f[q[k]]

LEMMA StampsSeq ==
  ASSUME NEW S, NEW f \in [S -> Nat], NEW q \in Seq(S)
  PROVE  AreStamps(Stamps(f, q), f, q)
<1>1. Len(q) \in Nat /\ DOMAIN q = 1 .. Len(q) /\ \A k \in 1 .. Len(q) : q[k] \in S
  BY LenProperties, ElementOfSeq
<1>2. Stamps(f, q) \in [1 .. Len(q) -> Nat]
  BY <1>1 DEF Stamps
<1> DEFINE w == Stamps(f, q)
<1>3. w \in [1 .. Len(q) -> Nat] /\ \A k \in 1 .. Len(q) : w[k] = f[q[k]]
  BY <1>1, <1>2 DEF Stamps
<1> HIDE DEF w
<1>4. w \in Seq(Nat)
  BY <1>1, <1>3, SeqDef
<1>5. Len(w) = Len(q)
  BY <1>1, <1>3, <1>4, LenProperties
<1> QED
  BY <1>3, <1>4, <1>5 DEF w, AreStamps

LEMMA StampsTail ==
  ASSUME NEW S, NEW f \in [S -> Nat], NEW q \in Seq(S), q # <<>>
  PROVE  /\ Stamps(f, q) # <<>> /\ Head(Stamps(f, q)) = f[Head(q)]
         /\ Stamps(f, Tail(q)) = Tail(Stamps(f, q))
<1> DEFINE w == Stamps(f, q)
           t == Tail(q)
           v == Stamps(f, t)
<1>1. /\ Len(q) \in Nat \ {0} /\ t \in Seq(S) /\ Len(t) = Len(q) - 1 /\ Head(q) = q[1]
      /\ \A k \in 1 .. Len(q) - 1 : t[k] = q[k + 1]
  BY EmptySeq, LenProperties, HeadTailProperties
<1> HIDE DEF t
<1>2. /\ w \in Seq(Nat) /\ Len(w) = Len(q)
      /\ \A k \in 1 .. Len(q) : w[k] = f[q[k]]
  BY StampsSeq DEF AreStamps
<1>3. /\ v \in Seq(Nat) /\ Len(v) = Len(t)
      /\ \A k \in 1 .. Len(t) : v[k] = f[t[k]]
  <2>1. AreStamps(v, f, t)
    BY <1>1, StampsSeq
  <2> QED
    BY <2>1 DEF AreStamps
<1> HIDE DEF w, v
<1>4. /\ w # <<>> /\ Head(w) = w[1] /\ Tail(w) \in Seq(Nat) /\ Len(Tail(w)) = Len(w) - 1
      /\ \A k \in 1 .. Len(w) - 1 : Tail(w)[k] = w[k + 1]
  <2>1. w # <<>>
    BY <1>1, <1>2, EmptySeq
  <2> QED
    BY <1>2, <2>1, HeadTailProperties
<1>5. \A k \in 1 .. Len(v) : v[k] = Tail(w)[k]
  <2> TAKE k \in 1 .. Len(v)
  <2>1. /\ k \in 1 .. Len(t) /\ k \in 1 .. Len(q) - 1 /\ k + 1 \in 1 .. Len(q)
        /\ k \in 1 .. Len(w) - 1
    BY <1>1, <1>2, <1>3
  <2>2. v[k] = f[t[k]] /\ t[k] = q[k + 1] /\ w[k + 1] = f[q[k + 1]] /\ Tail(w)[k] = w[k + 1]
    BY <1>1, <1>2, <1>3, <1>4, <2>1
  <2> QED
    BY <2>2
<1>6. v = Tail(w)
  BY <1>1, <1>2, <1>3, <1>4, <1>5, SeqEqual
<1>7. Head(w) = f[Head(q)]
  BY <1>1, <1>2, <1>4
<1> QED
  BY <1>4, <1>6, <1>7 DEF w, t, v

LEMMA StampsAppend ==
  ASSUME NEW S, NEW f \in [S -> Nat], NEW q \in Seq(S), NEW b \in S
  PROVE  Stamps(f, Append(q, b)) = Append(Stamps(f, q), f[b])
<1> DEFINE w == Stamps(f, q)
           a == Append(q, b)
           v == Stamps(f, a)
           r == Append(w, f[b])
<1>1. /\ Len(q) \in Nat /\ a \in Seq(S) /\ Len(a) = Len(q) + 1 /\ a[Len(q) + 1] = b
      /\ \A k \in 1 .. Len(q) : a[k] = q[k]
  BY LenProperties, AppendProperties
<1> HIDE DEF a
<1>2. /\ w \in Seq(Nat) /\ Len(w) = Len(q)
      /\ \A k \in 1 .. Len(q) : w[k] = f[q[k]]
  BY StampsSeq DEF AreStamps
<1>3. /\ v \in Seq(Nat) /\ Len(v) = Len(a)
      /\ \A k \in 1 .. Len(a) : v[k] = f[a[k]]
  <2>1. AreStamps(v, f, a)
    BY <1>1, StampsSeq
  <2> QED
    BY <2>1 DEF AreStamps
<1> HIDE DEF w, v
<1>4. /\ r \in Seq(Nat) /\ Len(r) = Len(w) + 1 /\ r[Len(w) + 1] = f[b]
      /\ \A k \in 1 .. Len(w) : r[k] = w[k]
  BY <1>2, AppendProperties
<1> HIDE DEF r
<1>5. \A k \in 1 .. Len(v) : v[k] = r[k]
  <2> TAKE k \in 1 .. Len(v)
  <2>1. k \in 1 .. Len(q) \/ k = Len(q) + 1
    BY <1>1, <1>3
  <2> QED
    BY <1>1, <1>2, <1>3, <1>4, <2>1
<1> QED
  BY <1>1, <1>2, <1>3, <1>4, <1>5, SeqEqual DEF v, a, w, r

(* Strictly increasing, newer than `low' and no newer than `high'.         *)
InOrder(w, low, high) ==
  /\ \A k \in 1 .. Len(w) : low < w[k] /\ w[k] <= high
  /\ \A k, l \in 1 .. Len(w) : k < l => w[k] < w[l]

LEMMA InOrderTail ==
  ASSUME NEW w \in Seq(Nat), w # <<>>, NEW low \in Nat, NEW high \in Int,
         InOrder(w, low, high)
  PROVE  /\ InOrder(Tail(w), low, high) /\ InOrder(Tail(w), Head(w), high)
         /\ Head(w) \in Nat /\ Head(w) <= high
<1>1. /\ Len(w) \in Nat \ {0} /\ Tail(w) \in Seq(Nat) /\ Len(Tail(w)) = Len(w) - 1
      /\ Head(w) = w[1] /\ \A k \in 1 .. Len(w) - 1 : Tail(w)[k] = w[k + 1]
      /\ \A k \in 1 .. Len(w) : w[k] \in Nat
  BY EmptySeq, LenProperties, HeadTailProperties, ElementOfSeq
<1>2. \A k \in 1 .. Len(Tail(w)) :
        /\ k + 1 \in 1 .. Len(w) /\ 1 \in 1 .. Len(w) /\ 1 < k + 1
        /\ Tail(w)[k] = w[k + 1]
  BY <1>1
<1> QED
  BY <1>1, <1>2 DEF InOrder

LEMMA InOrderAppend ==
  ASSUME NEW w \in Seq(Nat), NEW low \in Nat, NEW high \in Nat, low < high,
         InOrder(w, low, high - 1)
  PROVE  InOrder(Append(w, high), low, high)
<1> DEFINE r == Append(w, high)
<1>1. /\ Len(w) \in Nat /\ Len(r) = Len(w) + 1 /\ r[Len(w) + 1] = high
      /\ \A k \in 1 .. Len(w) : r[k] = w[k] /\ w[k] \in Nat
  BY LenProperties, AppendProperties, ElementOfSeq
<1> HIDE DEF r
<1>2. \A k \in 1 .. Len(r) : low < r[k] /\ r[k] <= high
  BY <1>1 DEF InOrder
<1>3. \A k, l \in 1 .. Len(r) : k < l => r[k] < r[l]
  <2> TAKE k, l \in 1 .. Len(r)
  <2> HAVE k < l
  <2>1. k \in 1 .. Len(w) /\ r[k] = w[k] /\ w[k] \in Nat /\ w[k] <= high - 1
    BY <1>1 DEF InOrder
  <2>2. CASE l = Len(w) + 1
    BY <1>1, <2>1, <2>2
  <2>3. CASE l # Len(w) + 1
    <3>1. l \in 1 .. Len(w)
      BY <1>1, <2>3
    <3>2. r[l] = w[l]
      BY <1>1, <3>1
    <3> QED
      BY <2>1, <3>1, <3>2 DEF InOrder
  <2> QED
    BY <2>2, <2>3
<1> QED
  BY <1>2, <1>3 DEF InOrder, r

(* What the steps of LossyStream need: nothing that was recorded is newer  *)
(* than the clock, the frame the sensor is about to publish is the newest, *)
(* and what waits is in order and newer than what the ISP took last.       *)
Waiting == Stamps(timestamp_ns, ready_to_process)
FramesInOrder ==
  /\ isp_frame <= clock /\ InOrder(Waiting, isp_frame, clock)
  /\ sensor_pc \in {"ready", "publish"} =>
       /\ timestamp_ns[sensor_buf] = clock
       /\ isp_frame < clock /\ InOrder(Waiting, isp_frame, clock - 1)

LEMMA StreamTypes ==
  ASSUME IInv
  PROVE  /\ ready_to_process \in Seq(Buffers) /\ timestamp_ns \in [Buffers -> Nat]
         /\ Waiting \in Seq(Nat) /\ clock \in Nat /\ clock - 1 \in Int /\ isp_frame \in Nat
<1>1. /\ ready_to_process \in Seq(Buffers) /\ timestamp_ns \in [Buffers -> Nat]
      /\ clock \in Nat /\ isp_frame \in Nat
  BY DEF IInv, TypeOK
<1> QED
  BY <1>1, StampsSeq DEF Waiting, AreStamps

(* What a step does to the frames: it records one, publishes the one it    *)
(* recorded, takes the oldest waiting one, or leaves the stream alone.     *)
FramesKept == UNCHANGED <<clock, ready_to_process, timestamp_ns, isp_frame>>
OldestGone ==
  /\ ready_to_process # <<>> /\ ready_to_process' = Tail(ready_to_process)
  /\ UNCHANGED <<clock, timestamp_ns>>

LEMMA SensorMovesFrames ==
  ASSUME IInv, SensorNext
  PROVE  \/ FramesKept /\ (sensor_pc' \in {"ready", "publish"} =>
                             sensor_pc \in {"ready", "publish"} /\ sensor_buf' = sensor_buf)
         \/ OldestGone /\ UNCHANGED isp_frame /\ sensor_pc' \notin {"ready", "publish"}
         \/ SensorCapture
         \/ SensorPublish
<1> USE DEF SensorGoto
<1>1. CASE SensorRecycle
  <2>1. CASE ready_to_process # <<>>
    <3>1. /\ ready_to_process' = RemoveAt(ready_to_process, 1)
          /\ sensor_pc' = "count_isp_drop" /\ UNCHANGED <<clock, timestamp_ns, isp_frame>>
      BY <1>1, <2>1, RecycleFinds DEF SensorRecycle, metadata, isp
    <3>2. /\ ready_to_process \in Seq(Buffers) /\ Len(ready_to_process) \in Nat \ {0}
          /\ 1 \in 1 .. Len(ready_to_process)
      BY <2>1, StreamTypes, EmptySeq, LenProperties
    <3>3. RemoveAt(ready_to_process, 1) = Tail(ready_to_process)
      <4> DEFINE r == RemoveAt(ready_to_process, 1)
                 t == Tail(ready_to_process)
      <4>1. /\ r \in Seq(Buffers) /\ Len(r) = Len(ready_to_process) - 1
            /\ \A k \in 1 .. Len(ready_to_process) - 1 : r[k] = ready_to_process[k + 1]
        BY <3>2, RemoveAtSeq
      <4>2. /\ t \in Seq(Buffers) /\ Len(t) = Len(ready_to_process) - 1
            /\ \A k \in 1 .. Len(ready_to_process) - 1 : t[k] = ready_to_process[k + 1]
        BY <2>1, <3>2, HeadTailProperties
      <4> HIDE DEF r, t
      <4>3. \A k \in 1 .. Len(r) : r[k] = t[k]
        BY <4>1, <4>2
      <4> QED
        BY <4>1, <4>2, <4>3, SeqEqual DEF r, t
    <3> QED
      BY <2>1, <3>1, <3>3 DEF OldestGone
  <2>2. CASE ready_to_process = <<>>
    BY <1>1, <2>2, RecycleTakes DEF SensorRecycle, FramesKept, metadata, isp
  <2> QED
    BY <2>1, <2>2
<1>2. CASE ~(SensorRecycle \/ SensorCapture \/ SensorPublish)
  BY <1>2 DEF SensorNext, SensorLoop, SensorAcquire, SensorLook, SensorCountIspDrop,
              SensorClaim, SensorReady, SensorGiveBack, SensorCountDrop, FramesKept,
              queues, metadata, isp
<1> QED
  BY <1>1, <1>2

LEMMA OthersMoveFrames ==
  ASSUME IInv, IspNext \/ MainNext \/ UNCHANGED vars
  PROVE  /\ UNCHANGED <<sensor_pc, sensor_buf>>
         /\ \/ FramesKept
            \/ OldestGone /\ isp_frame' = timestamp_ns[Head(ready_to_process)]
<1> USE DEF sensor, queues, metadata, isp, FramesKept
<1>1. CASE IspTake
  BY <1>1 DEF IspTake, OldestGone
<1>2. CASE IspNext /\ ~IspTake
  BY <1>2 DEF IspNext, IspLoop, IspClaim, IspHit, IspMiss, IspLoad, IspProcess,
              IspReturn, IspCount, IspReport
<1>3. CASE MainNext \/ UNCHANGED vars
  BY <1>3 DEF MainNext, MainStop, MainJoin, MainDeinit, vars
<1> QED
  BY <1>1, <1>2, <1>3

LEMMA OldestGoneTail ==
  ASSUME IInv, OldestGone
  PROVE  /\ Waiting # <<>> /\ Waiting' = Tail(Waiting)
         /\ Head(Waiting) = timestamp_ns[Head(ready_to_process)]
         /\ UNCHANGED <<clock, timestamp_ns>>
  BY StreamTypes, StampsTail DEF OldestGone, Waiting

LEMMA OldestGoneInOrder ==
  ASSUME IInv, FramesInOrder, OldestGone,
         \/ UNCHANGED isp_frame /\ sensor_pc' \notin {"ready", "publish"}
         \/ /\ isp_frame' = timestamp_ns[Head(ready_to_process)]
            /\ UNCHANGED <<sensor_pc, sensor_buf>>
  PROVE  FramesInOrder'
<1>1. /\ Waiting # <<>> /\ Waiting' = Tail(Waiting)
      /\ Head(Waiting) = timestamp_ns[Head(ready_to_process)]
      /\ UNCHANGED <<clock, timestamp_ns>>
  BY OldestGoneTail
<1>2. /\ isp_frame' <= clock' /\ InOrder(Waiting', isp_frame', clock')
  <2>1. /\ Waiting \in Seq(Nat) /\ isp_frame \in Nat /\ clock \in Nat
    BY StreamTypes
  <2>2. /\ isp_frame <= clock /\ InOrder(Waiting, isp_frame, clock)
    BY DEF FramesInOrder
  <2>3. /\ InOrder(Tail(Waiting), isp_frame, clock)
        /\ InOrder(Tail(Waiting), Head(Waiting), clock) /\ Head(Waiting) <= clock
    BY <1>1, <2>1, <2>2, InOrderTail
  <2>4. isp_frame' = isp_frame \/ isp_frame' = Head(Waiting)
    BY <1>1
  <2> QED
    BY <1>1, <2>2, <2>3, <2>4
<1>3. ASSUME sensor_pc' \in {"ready", "publish"}
      PROVE  /\ timestamp_ns'[sensor_buf'] = clock'
             /\ isp_frame' < clock' /\ InOrder(Waiting', isp_frame', clock' - 1)
  <2>1. /\ sensor_pc \in {"ready", "publish"} /\ UNCHANGED sensor_buf
        /\ isp_frame' = Head(Waiting)
    BY <1>1, <1>3
  <2>2. /\ InOrder(Tail(Waiting), Head(Waiting), clock - 1)
        /\ Head(Waiting) \in Nat /\ Head(Waiting) <= clock - 1
    BY <1>1, <2>1, StreamTypes, InOrderTail DEF FramesInOrder
  <2> QED
    BY <1>1, <2>1, <2>2, StreamTypes DEF FramesInOrder
<1> QED
  BY <1>1, <1>2, <1>3 DEF FramesInOrder

(* The buffer the sensor records into does not wait.                       *)
LEMMA CaptureInOrder ==
  ASSUME IInv, FramesInOrder, SensorCapture
  PROVE  /\ FramesInOrder' /\ Waiting' = Waiting
         /\ clock' = clock + 1 /\ UNCHANGED isp_frame
<1>1. /\ sensor_buf \in Buffers /\ sensor_buf \notin ToSet(ready_to_process)
      /\ clock' = clock + 1 /\ sensor_pc' = "ready"
      /\ timestamp_ns' = [timestamp_ns EXCEPT ![sensor_buf] = clock + 1]
      /\ UNCHANGED <<ready_to_process, sensor_buf, isp_frame>>
  BY Owners, WriteQueueHasRoom
  DEF SensorCapture, SensorGoto, SensorHolding, queues, isp
<1>2. timestamp_ns'[sensor_buf] = clock + 1
  BY <1>1, StreamTypes
<1>3. \A k \in DOMAIN ready_to_process :
        timestamp_ns'[ready_to_process[k]] = timestamp_ns[ready_to_process[k]]
  <2> TAKE k \in DOMAIN ready_to_process
  <2>1. ready_to_process[k] \in ToSet(ready_to_process)
    BY DEF ToSet
  <2> QED
    BY <1>1, <2>1, StreamTypes
<1>4. Waiting' = Waiting
  BY <1>1, <1>3 DEF Waiting, Stamps
<1>5. \A k \in 1 .. Len(Waiting) : Waiting[k] \in Nat
  BY StreamTypes, ElementOfSeq
<1>6. FramesInOrder'
  <2>1. clock \in Nat /\ isp_frame \in Nat /\ isp_frame <= clock
    BY StreamTypes DEF FramesInOrder
  <2>2. InOrder(Waiting, isp_frame, clock) /\ InOrder(Waiting, isp_frame, clock + 1)
    <3>1. InOrder(Waiting, isp_frame, clock)
      BY DEF FramesInOrder
    <3> HIDE DEF Waiting
    <3> QED
      BY <1>5, <2>1, <3>1 DEF InOrder
  <2>3. clock' - 1 = clock /\ isp_frame <= clock' /\ isp_frame < clock'
    BY <1>1, <2>1
  <2>4. /\ isp_frame' <= clock' /\ isp_frame' < clock'
        /\ InOrder(Waiting', isp_frame', clock') /\ InOrder(Waiting', isp_frame', clock' - 1)
    BY <1>1, <1>4, <2>2, <2>3
  <2>5. timestamp_ns'[sensor_buf'] = clock'
    BY <1>1, <1>2
  <2> QED
    BY <2>4, <2>5 DEF FramesInOrder
<1> QED
  BY <1>1, <1>4, <1>6

LEMMA PublishInOrder ==
  ASSUME IInv, FramesInOrder, SensorPublish
  PROVE  /\ FramesInOrder' /\ UNCHANGED <<clock, isp_frame>> /\ isp_frame < clock
         /\ \A k \in DOMAIN Waiting : Waiting[k] < clock
         /\ \/ Waiting' = Append(Waiting, clock)
            \/ Waiting # <<>> /\ Waiting' = Append(Tail(Waiting), clock)
<1>1. /\ sensor_buf \in Buffers /\ timestamp_ns[sensor_buf] = clock
      /\ ready_to_process'
           = Append(IF Len(ready_to_process) = PROCESS_CAPACITY THEN Tail(ready_to_process)
                    ELSE ready_to_process, sensor_buf)
      /\ sensor_pc' \in {"loop", "give_back"}
      /\ UNCHANGED <<clock, timestamp_ns, isp_frame>>
      /\ isp_frame < clock /\ InOrder(Waiting, isp_frame, clock - 1)
  BY Owners DEF SensorPublish, SensorGoto, SensorHolding, Enqueued, FramesInOrder, metadata, isp
<1>2. \A k \in DOMAIN Waiting : Waiting[k] < clock
  <2>1. DOMAIN Waiting = 1 .. Len(Waiting) /\ \A k \in 1 .. Len(Waiting) : Waiting[k] \in Nat
    BY StreamTypes, LenProperties, ElementOfSeq
  <2> QED
    BY <1>1, <2>1, StreamTypes DEF InOrder
<1>3. \/ Waiting' = Append(Waiting, clock)
      \/ Waiting # <<>> /\ Waiting' = Append(Tail(Waiting), clock)
  <2>1. CASE Len(ready_to_process) = PROCESS_CAPACITY
    <3>1. ready_to_process # <<>>
      BY <2>1, SizesAssumption, EmptySeq, StreamTypes
    <3>2. Tail(ready_to_process) \in Seq(Buffers)
      BY <3>1, StreamTypes, HeadTailProperties
    <3>3. Waiting' = Stamps(timestamp_ns, Append(Tail(ready_to_process), sensor_buf))
      BY <1>1, <2>1 DEF Waiting
    <3>4. Waiting' = Append(Stamps(timestamp_ns, Tail(ready_to_process)), clock)
      BY <1>1, <3>2, <3>3, StreamTypes, StampsAppend
    <3> QED
      BY <3>1, <3>4, StreamTypes, StampsTail DEF Waiting
  <2>2. CASE Len(ready_to_process) # PROCESS_CAPACITY
    <3>1. Waiting' = Stamps(timestamp_ns, Append(ready_to_process, sensor_buf))
      BY <1>1, <2>2 DEF Waiting
    <3> QED
      BY <1>1, <3>1, StreamTypes, StampsAppend DEF Waiting
  <2> QED
    BY <2>1, <2>2
<1>4. InOrder(Waiting', isp_frame, clock)
  <2>1. CASE Waiting' = Append(Waiting, clock)
    BY <1>1, <2>1, StreamTypes, InOrderAppend
  <2>2. CASE Waiting # <<>> /\ Waiting' = Append(Tail(Waiting), clock)
    <3>1. Tail(Waiting) \in Seq(Nat) /\ InOrder(Tail(Waiting), isp_frame, clock - 1)
      BY <1>1, <2>2, StreamTypes, InOrderTail, HeadTailProperties
    <3> QED
      BY <1>1, <2>2, <3>1, StreamTypes, InOrderAppend
  <2> QED
    BY <1>3, <2>1, <2>2
<1> QED
  BY <1>1, <1>2, <1>3, <1>4, StreamTypes DEF FramesInOrder

(* A step that moves no frame keeps the order.                             *)
LEMMA KeptInOrder ==
  ASSUME FramesInOrder, FramesKept,
         sensor_pc' \in {"ready", "publish"} =>
           sensor_pc \in {"ready", "publish"} /\ sensor_buf' = sensor_buf
  PROVE  FramesInOrder'
  BY DEF FramesInOrder, FramesKept, Waiting

LEMMA StreamStep ==
  ASSUME IInv, FramesInOrder, [Next]_vars
  PROVE  FramesInOrder' /\ [Stream!Next]_(Stream!vars)
<1> USE DEF Stream!Next, Stream!vars
<1>1. ASSUME OldestGone, UNCHANGED isp_frame PROVE Stream!DropOldest
  BY <1>1, OldestGoneTail DEF Stream!DropOldest, Waiting, Stamps
<1>2. ASSUME OldestGone, isp_frame' = timestamp_ns[Head(ready_to_process)]
      PROVE  Stream!Consume
  BY <1>2, OldestGoneTail DEF Stream!Consume, Waiting, Stamps
<1>3. ASSUME FramesKept PROVE UNCHANGED Stream!vars
  BY <1>3 DEF FramesKept
<1>4. CASE SensorNext
  <2>1. CASE SensorCapture
    BY <2>1, CaptureInOrder DEF Stream!Record, Waiting, Stamps
  <2>2. CASE SensorPublish
    BY <2>2, PublishInOrder DEF Stream!Publish, Waiting, Stamps
  <2>3. CASE ~(SensorCapture \/ SensorPublish)
    BY <1>1, <1>3, <1>4, <2>3, SensorMovesFrames, OldestGoneInOrder, KeptInOrder
  <2> QED
    BY <2>1, <2>2, <2>3
<1>5. CASE IspNext \/ MainNext \/ UNCHANGED vars
  BY <1>2, <1>3, <1>5, OthersMoveFrames, OldestGoneInOrder, KeptInOrder
<1> QED
  BY <1>4, <1>5 DEF Next, Exited

LEMMA InitInOrder == Init => FramesInOrder /\ Stream!Init
<1> SUFFICES ASSUME Init PROVE FramesInOrder /\ Stream!Init
  OBVIOUS
<1>1. ready_to_process = <<>> /\ DOMAIN ready_to_process = {}
  BY DEF Init
<1>2. Waiting = <<>>
  BY <1>1 DEF Waiting, Stamps
<1>3. InOrder(Waiting, 0, 0)
  BY <1>2 DEF InOrder
<1> QED
  BY <1>1, <1>2, <1>3 DEF Init, FramesInOrder, Stream!Init, Waiting, Stamps

(* The frames the ISP takes are a stream in order, each at most once, of   *)
(* which only the oldest waiting frames are dropped: each step of the      *)
(* three threads (main.c:225-373) is a step of LossyStream or none.        *)
THEOREM CameraRefinesStream == Spec => RefinesStream
<1>1. IInv /\ FramesInOrder /\ [Next]_vars => FramesInOrder' /\ [Stream!Next]_(Stream!vars)
  BY StreamStep
<1> QED
  BY <1>1, InitInOrder, Inductive, PTL DEF Spec, RefinesStream, Stream!Spec

(* The frames that wait are in order and newer than the one the ISP took   *)
(* last: the two loops never reorder or repeat a frame.                    *)
THEOREM WaitingFramesInOrder == Spec => []FramesInOrder
<1>1. IInv /\ FramesInOrder /\ [Next]_vars => FramesInOrder'
  BY StreamStep
<1> QED
  BY <1>1, InitInOrder, Inductive, PTL DEF Spec

(* The ISP never takes a frame twice or an older one after a newer one.    *)
THEOREM IspNeverGoesBack == Spec => [][isp_frame' # isp_frame => isp_frame' > isp_frame]_vars
<1>1. ASSUME IInv, FramesInOrder, [Next]_vars
      PROVE  isp_frame' # isp_frame => isp_frame' > isp_frame
  <2>1. CASE SensorNext
    BY <1>1, <2>1, SensorMovesFrames, CaptureInOrder, PublishInOrder DEF FramesKept
  <2>2. CASE IspNext \/ MainNext \/ UNCHANGED vars
    <3>1. CASE OldestGone /\ isp_frame' = timestamp_ns[Head(ready_to_process)]
      <4>1. isp_frame' = Head(Waiting) /\ Waiting \in Seq(Nat) /\ Waiting # <<>>
        BY <1>1, <3>1, OldestGoneTail, StreamTypes
      <4>2. Head(Waiting) = Waiting[1] /\ 1 \in 1 .. Len(Waiting)
        BY <4>1, EmptySeq, LenProperties, HeadTailProperties
      <4>3. isp_frame < Waiting[1] /\ Waiting[1] \in Nat /\ isp_frame \in Nat
        BY <1>1, <4>1, <4>2, StreamTypes, ElementOfSeq DEF FramesInOrder, InOrder
      <4> QED
        BY <4>1, <4>2, <4>3
    <3> QED
      BY <1>1, <2>2, <3>1, OthersMoveFrames DEF FramesKept
  <2> QED
    BY <1>1, <2>1, <2>2 DEF Next, Exited
<1> QED
  BY <1>1, WaitingFramesInOrder, Inductive, PTL DEF Spec

-----------------------------------------------------------------------------
(* The camera as a caller of its two queues.                               *)

(* The queues' own copies of the operators of FifoQueue.                   *)
LEMMA QueueOperators ==
  ASSUME NEW q, NEW c, NEW v, NEW at, NEW safe, NEW h
  PROVE  /\ ProcessQueue!Enqueued(q, c, v) = Enqueued(q, c, v)
         /\ ProcessQueue!Ejected(q, c, v) = Ejected(q, c, v)
         /\ ProcessQueue!RemoveAt(q, at) = RemoveAt(q, at)
         /\ ProcessQueue!FirstSafe(q, safe) = FirstSafe(q, safe)
         /\ UNION ProcessQueue!Range(h) = UNION Range(h)
         /\ ProcessQueue!Disjoint(h) <=> Disjoint(h)
         /\ WriteQueue!Enqueued(q, c, v) = Enqueued(q, c, v)
         /\ WriteQueue!Ejected(q, c, v) = Ejected(q, c, v)
         /\ UNION WriteQueue!Range(h) = UNION Range(h)
         /\ WriteQueue!Disjoint(h) <=> Disjoint(h)
<1>1. /\ ProcessQueue!Enqueued(q, c, v) = Enqueued(q, c, v)
      /\ ProcessQueue!Ejected(q, c, v) = Ejected(q, c, v)
      /\ WriteQueue!Enqueued(q, c, v) = Enqueued(q, c, v)
      /\ WriteQueue!Ejected(q, c, v) = Ejected(q, c, v)
  BY DEF ProcessQueue!Enqueued, WriteQueue!Enqueued, Enqueued,
         ProcessQueue!Ejected, WriteQueue!Ejected, Ejected
<1>2. ProcessQueue!RemoveAt(q, at) = RemoveAt(q, at)
  BY DEF ProcessQueue!RemoveAt, RemoveAt
<1>3. ProcessQueue!FirstSafe(q, safe) = FirstSafe(q, safe)
  BY DEF ProcessQueue!FirstSafe, FirstSafe, ProcessQueue!SelectInSeq, SelectInSeq,
         ProcessQueue!Min, Min
<1>4. /\ UNION ProcessQueue!Range(h) = UNION Range(h)
      /\ UNION WriteQueue!Range(h) = UNION Range(h)
  BY DEF ProcessQueue!Range, WriteQueue!Range, Range
<1>5. /\ ProcessQueue!Disjoint(h) <=> Disjoint(h)
      /\ WriteQueue!Disjoint(h) <=> Disjoint(h)
  BY DEF ProcessQueue!Disjoint, WriteQueue!Disjoint, Disjoint
<1> QED
  BY <1>1, <1>2, <1>3, <1>4, <1>5

(* The buffers of one party.                                               *)
LEMMA HeldParts ==
  ASSUME NEW s, NEW i, NEW e
  PROVE  LET h == [sensor |-> s, isp |-> i, elsewhere |-> e] IN
         /\ DOMAIN h = Parties
         /\ h["sensor"] = s /\ h["isp"] = i /\ h["elsewhere"] = e
         /\ \A x : /\ [h EXCEPT !["sensor"] = x] = [sensor |-> x, isp |-> i, elsewhere |-> e]
                   /\ [h EXCEPT !["isp"] = x] = [sensor |-> s, isp |-> x, elsewhere |-> e]
         /\ UNION Range(h) = s \cup i \cup e
         /\ Disjoint(h) <=> s \cap i = {} /\ s \cap e = {} /\ i \cap e = {}
         /\ \A S : s \subseteq S /\ i \subseteq S /\ e \subseteq S => h \in [Parties -> SUBSET S]
<1> DEFINE h == [sensor |-> s, isp |-> i, elsewhere |-> e]
<1>1. DOMAIN h = Parties /\ h["sensor"] = s /\ h["isp"] = i /\ h["elsewhere"] = e
  BY DEF Parties
<1>2. ASSUME NEW x
      PROVE  /\ [h EXCEPT !["sensor"] = x] = [sensor |-> x, isp |-> i, elsewhere |-> e]
             /\ [h EXCEPT !["isp"] = x] = [sensor |-> s, isp |-> x, elsewhere |-> e]
  <2>1. [h EXCEPT !.sensor = x] = [sensor |-> x, isp |-> i, elsewhere |-> e]
    OBVIOUS
  <2>2. [h EXCEPT !.isp = x] = [sensor |-> s, isp |-> x, elsewhere |-> e]
    OBVIOUS
  <2> QED
    BY <2>1, <2>2
<1>3. ASSUME NEW S, s \subseteq S, i \subseteq S, e \subseteq S
      PROVE  h \in [Parties -> SUBSET S]
  BY <1>3 DEF Parties
<1>4. \A t \in Parties : t = "sensor" \/ t = "isp" \/ t = "elsewhere"
  BY DEF Parties
<1> HIDE DEF h
<1>5. UNION Range(h) = s \cup i \cup e
  BY <1>1, <1>4 DEF Range, Parties
<1>6. Disjoint(h) <=> s \cap i = {} /\ s \cap e = {} /\ i \cap e = {}
  BY <1>1, <1>4 DEF Disjoint, Parties
<1> QED
  BY <1>1, <1>2, <1>3, <1>5, <1>6 DEF h

(* To each queue, what is not in it is held, by one party each.            *)
HeldRightly ==
  /\ HeldBeside(ready_to_write) \in [Parties -> SUBSET Buffers]
  /\ UNION Range(HeldBeside(ready_to_write)) = Buffers \ ToSet(ready_to_process)
  /\ Disjoint(HeldBeside(ready_to_write))
  /\ HeldBeside(ready_to_process) \in [Parties -> SUBSET Buffers]
  /\ UNION Range(HeldBeside(ready_to_process)) = Buffers \ ToSet(ready_to_write)
  /\ Disjoint(HeldBeside(ready_to_process))

LEMMA AllHeldRightly == IInv => HeldRightly
<1> SUFFICES ASSUME IInv PROVE HeldRightly
  OBVIOUS
<1>1. OneOwnerEach
  BY DEF IInv
<1>2. /\ SensorOwns \subseteq Buffers /\ IspOwns \subseteq Buffers
      /\ ToSet(ready_to_write) \subseteq Buffers /\ ToSet(ready_to_process) \subseteq Buffers
  BY <1>1 DEF OneOwnerEach
<1>3. /\ HeldBeside(ready_to_write) \in [Parties -> SUBSET Buffers]
      /\ UNION Range(HeldBeside(ready_to_write))
           = SensorOwns \cup IspOwns \cup ToSet(ready_to_write)
      /\ Disjoint(HeldBeside(ready_to_write))
  BY <1>1, <1>2, HeldParts DEF HeldBeside, OneOwnerEach
<1>4. /\ HeldBeside(ready_to_process) \in [Parties -> SUBSET Buffers]
      /\ UNION Range(HeldBeside(ready_to_process))
           = SensorOwns \cup IspOwns \cup ToSet(ready_to_process)
      /\ Disjoint(HeldBeside(ready_to_process))
  BY <1>1, <1>2, HeldParts DEF HeldBeside, OneOwnerEach
<1>5. /\ SensorOwns \cup IspOwns \cup ToSet(ready_to_write)
           = Buffers \ ToSet(ready_to_process)
      /\ SensorOwns \cup IspOwns \cup ToSet(ready_to_process)
           = Buffers \ ToSet(ready_to_write)
  BY <1>1 DEF OneOwnerEach
<1> QED
  BY <1>3, <1>4, <1>5 DEF HeldRightly

LEMMA AllHeldRightlyNext == IInv' => HeldRightly'
  BY AllHeldRightly, PTL

(* A step that leaves a queue and the marks alone only moves buffers       *)
(* between its parties.                                                    *)
LEMMA OutsideProcess ==
  ASSUME IInv, IInv', UNCHANGED <<ready_to_process, NotSafe>>
  PROVE  ProcessQueue!Next
<1>1. ProcessQueue!Exchange
  BY AllHeldRightly, AllHeldRightlyNext, QueueOperators DEF HeldRightly, ProcessQueue!Exchange
<1> QED
  BY <1>1 DEF ProcessQueue!Next

LEMMA OutsideWrite ==
  ASSUME IInv, IInv', UNCHANGED <<ready_to_write, NotSafe>>
  PROVE  WriteQueue!Next
<1>1. WriteQueue!Exchange
  BY AllHeldRightly, AllHeldRightlyNext, QueueOperators DEF HeldRightly, WriteQueue!Exchange
<1> QED
  BY <1>1 DEF WriteQueue!Next

(* What one of the loops holds after a call that hands it S.               *)
LEMMA SensorHolds ==
  ASSUME NEW S, NEW q, NEW r, SensorOwns' = S, UNCHANGED IspOwns, r = ToSet(q)
  PROVE  [sensor |-> SensorOwns', isp |-> IspOwns', elsewhere |-> r]
           = [HeldBeside(q) EXCEPT !["sensor"] = S]
<1>1. HeldBeside(q) = [sensor |-> SensorOwns, isp |-> IspOwns, elsewhere |-> r]
  BY DEF HeldBeside
<1> QED
  BY <1>1, HeldParts

LEMMA IspHolds ==
  ASSUME NEW S, NEW q, NEW r, IspOwns' = S, UNCHANGED SensorOwns, r = ToSet(q)
  PROVE  [sensor |-> SensorOwns', isp |-> IspOwns', elsewhere |-> r]
           = [HeldBeside(q) EXCEPT !["isp"] = S]
<1>1. HeldBeside(q) = [sensor |-> SensorOwns, isp |-> IspOwns, elsewhere |-> r]
  BY DEF HeldBeside
<1> QED
  BY <1>1, HeldParts

LEMMA HeldNow ==
  ASSUME NEW q
  PROVE  HeldBeside(q)["sensor"] = SensorOwns /\ HeldBeside(q)["isp"] = IspOwns
  BY DEF HeldBeside

LEMMA HeldThen ==
  /\ HeldBeside(ready_to_write)'
       = [sensor |-> SensorOwns', isp |-> IspOwns', elsewhere |-> ToSet(ready_to_write')]
  /\ HeldBeside(ready_to_process)'
       = [sensor |-> SensorOwns', isp |-> IspOwns', elsewhere |-> ToSet(ready_to_process')]
  BY DEF HeldBeside

(* A step that stores the state of the buffer its thread holds.            *)
LEMMA Marking ==
  ASSUME NEW b \in Buffers, NEW t \in Parties,
         (t = "sensor" /\ b \in SensorOwns) \/ (t = "isp" /\ b \in IspOwns),
         NotSafe' = IF b \in NotSafe THEN NotSafe \ {b} ELSE NotSafe \cup {b},
         UNCHANGED <<queues, SensorOwns, IspOwns>>
  PROVE  ProcessQueue!Next /\ WriteQueue!Next
<1>1. /\ b \in HeldBeside(ready_to_write)[t] /\ b \in HeldBeside(ready_to_process)[t]
      /\ UNCHANGED <<HeldBeside(ready_to_write), HeldBeside(ready_to_process)>>
  BY HeldParts DEF HeldBeside, queues
<1>2. ProcessQueue!Mark(t, b) /\ WriteQueue!Mark(t, b)
  BY <1>1 DEF ProcessQueue!Mark, WriteQueue!Mark, queues
<1> QED
  BY <1>2 DEF ProcessQueue!Next, WriteQueue!Next

LEMMA StoreMarks ==
  ASSUME IInv, NEW b \in Buffers, NEW s \in P_State, state' = [state EXCEPT ![b] = s],
         (state[b] = "READY") <=> (s # "READY")
  PROVE  NotSafe' = IF b \in NotSafe THEN NotSafe \ {b} ELSE NotSafe \cup {b}
<1>1. state \in [Buffers -> P_State]
  BY DEF IInv, TypeOK
<1>2. /\ NotSafe = {c \in Buffers : state[c] # "READY"}
      /\ NotSafe' = {c \in Buffers : state'[c] # "READY"}
  BY DEF NotSafe, SafeToOverwrite, is_buffer_safe_to_overwrite
<1>3. /\ state'[b] = s
      /\ \A c \in Buffers : c # b => state'[c] = state[c]
  BY <1>1
<1> QED
  BY <1>2, <1>3

(* Each store of a loop turns READY into busy or back.                     *)
LEMMA StoresMark ==
  ASSUME IInv, SensorClaim \/ SensorReady \/ IspClaim \/ IspProcess
  PROVE  ProcessQueue!Next /\ WriteQueue!Next
<1> USE DEF SensorGoto, IspGoto
<1>1. ASSUME SensorClaim \/ SensorReady
      PROVE  ProcessQueue!Next /\ WriteQueue!Next
  <2>1. /\ sensor_buf \in Buffers /\ sensor_buf \in SensorOwns /\ sensor_buf \notin IspOwns
    BY <1>1, Owners DEF SensorClaim, SensorReady, SensorHolding, IInv, OneOwnerEach
  <2>2. UNCHANGED <<queues, SensorOwns, IspOwns>>
    BY <1>1 DEF SensorClaim, SensorReady, SensorOwns, IspOwns, isp
  <2>3. \E s \in P_State : /\ state' = [state EXCEPT ![sensor_buf] = s]
                           /\ (state[sensor_buf] = "READY") <=> (s # "READY")
    <3>1. state[sensor_buf] \in P_State
      BY <2>1 DEF IInv, TypeOK
    <3>2. state[sensor_buf] # "BUSY_PROCESSING"
      BY <2>1, Owners DEF IInv, StateMatchesOwner, Processing
    <3>3. CASE SensorClaim
      <4>1. state[sensor_buf] # "BUSY_WRITING"
        BY <2>1, <3>3 DEF IInv, StateMatchesOwner, SensorClaim
      <4>2. state[sensor_buf] = "READY"
        BY <3>1, <3>2, <4>1 DEF P_State
      <4> QED
        BY <3>3, <4>2 DEF SensorClaim, P_State
    <3>4. CASE SensorReady
      <4>1. state[sensor_buf] = "BUSY_WRITING"
        BY <2>1, <3>4 DEF IInv, StateMatchesOwner, SensorReady
      <4> QED
        BY <3>4, <4>1 DEF SensorReady, P_State
    <3> QED
      BY <1>1, <3>3, <3>4
  <2>4. NotSafe' = IF sensor_buf \in NotSafe THEN NotSafe \ {sensor_buf}
                                             ELSE NotSafe \cup {sensor_buf}
    BY <2>1, <2>3, StoreMarks
  <2> QED
    BY <2>1, <2>2, <2>4, Marking DEF Parties
<1>2. ASSUME IspClaim \/ IspProcess
      PROVE  ProcessQueue!Next /\ WriteQueue!Next
  <2>1. /\ isp_buf \in Buffers /\ isp_buf \in IspOwns /\ isp_buf \notin SensorOwns
    BY <1>2, Owners DEF IspClaim, IspProcess, Processing, IInv, OneOwnerEach
  <2>2. UNCHANGED <<queues, SensorOwns, IspOwns>>
    BY <1>2 DEF IspClaim, IspProcess, Processing, SensorOwns, IspOwns, sensor
  <2>3. \E s \in P_State : /\ state' = [state EXCEPT ![isp_buf] = s]
                           /\ (state[isp_buf] = "READY") <=> (s # "READY")
    <3>1. state[isp_buf] \in P_State
      BY <2>1 DEF IInv, TypeOK
    <3>2. state[isp_buf] # "BUSY_WRITING"
      BY <2>1, Owners DEF IInv, StateMatchesOwner, SensorHolding
    <3>3. CASE IspClaim
      <4>1. state[isp_buf] # "BUSY_PROCESSING"
        BY <2>1, <3>3 DEF IInv, StateMatchesOwner, IspClaim
      <4>2. state[isp_buf] = "READY"
        BY <3>1, <3>2, <4>1 DEF P_State
      <4> QED
        BY <3>3, <4>2 DEF IspClaim, P_State
    <3>4. CASE IspProcess
      <4>1. state[isp_buf] = "BUSY_PROCESSING"
        BY <2>1, <3>4 DEF IInv, StateMatchesOwner, IspProcess
      <4> QED
        BY <3>4, <4>1 DEF IspProcess, P_State
    <3> QED
      BY <1>2, <3>3, <3>4
  <2>4. NotSafe' = IF isp_buf \in NotSafe THEN NotSafe \ {isp_buf}
                                          ELSE NotSafe \cup {isp_buf}
    BY <2>1, <2>3, StoreMarks
  <2> QED
    BY <2>1, <2>2, <2>4, Marking DEF Parties
<1> QED
  BY <1>1, <1>2

(* The other steps leave the marks alone.                                  *)
LEMMA MarksStay ==
  ASSUME [Next]_vars, ~(SensorClaim \/ SensorReady \/ IspClaim \/ IspProcess)
  PROVE  UNCHANGED NotSafe
<1>1. UNCHANGED state
  BY DEF Next, Exited, SensorNext, SensorLoop, SensorAcquire, SensorLook, SensorRecycle,
         SensorCountIspDrop, SensorCapture, SensorPublish, SensorGiveBack, SensorCountDrop,
         IspNext, IspLoop, IspTake, IspHit, IspMiss, IspLoad, IspReturn, IspCount, IspReport,
         MainNext, MainStop, MainJoin, MainDeinit, vars, metadata
<1> QED
  BY <1>1 DEF NotSafe, SafeToOverwrite, is_buffer_safe_to_overwrite

-----------------------------------------------------------------------------
(* The calls on ready_to_process_queue.                                    *)
LEMMA RecycleCalls ==
  ASSUME IInv, SensorRecycle, UNCHANGED NotSafe, ~UNCHANGED ready_to_process
  PROVE  ProcessQueue!Recycle("sensor")
<1> DEFINE at == FirstSafe(ready_to_process, SafeToOverwrite)
<1>1. /\ at # 0 /\ sensor_buf' = ready_to_process[at]
      /\ ready_to_process' = RemoveAt(ready_to_process, at)
      /\ UNCHANGED <<ready_to_write, IspOwns>>
  BY DEF SensorRecycle, queues, isp, IspOwns
<1>2. Buffers \ NotSafe = SafeToOverwrite
  BY DEF NotSafe, SafeToOverwrite
<1>3. SensorOwns = {} /\ sensor_buf' \in Buffers
  BY Owners, RecycleTakes DEF SensorRecycle, SensorGoto, SensorHolding
<1> HIDE DEF at
<1>4. SensorOwns' = SensorOwns \cup {ready_to_process[at]}
  BY <1>1, <1>3, ConstantFacts DEF SensorOwns
<1>5. HeldBeside(ready_to_write)'
        = [HeldBeside(ready_to_write) EXCEPT !["sensor"] = @ \cup {ready_to_process[at]}]
  BY <1>1, <1>4, SensorHolds, HeldNow, HeldThen
<1> QED
  BY <1>1, <1>2, <1>5, QueueOperators DEF ProcessQueue!Recycle, at

LEMMA PublishCalls ==
  ASSUME IInv, SensorPublish, UNCHANGED NotSafe
  PROVE  ProcessQueue!Write("sensor", sensor_buf) /\ sensor_buf \in Buffers
<1> DEFINE e == Ejected(ready_to_process, PROCESS_CAPACITY, NULL)
<1>1. /\ SensorOwns = {sensor_buf} /\ sensor_buf \in Buffers
  BY Owners DEF SensorPublish, SensorGoto, SensorHolding
<1>2. /\ ready_to_process' = Enqueued(ready_to_process, PROCESS_CAPACITY, sensor_buf)
      /\ sensor_buf' = e /\ UNCHANGED <<ready_to_write, IspOwns>>
  BY DEF SensorPublish, isp, IspOwns
<1> HIDE DEF e
<1>3. SensorOwns' = (SensorOwns \ {sensor_buf}) \cup ({e} \ {NULL})
  BY <1>1, <1>2 DEF SensorOwns
<1>4. /\ HeldBeside(ready_to_write)["sensor"] = SensorOwns
      /\ HeldBeside(ready_to_write)'
           = [HeldBeside(ready_to_write) EXCEPT
                !["sensor"] = (@ \ {sensor_buf}) \cup ({e} \ {NULL})]
  BY <1>2, <1>3, SensorHolds, HeldNow, HeldThen
<1> QED
  BY <1>1, <1>2, <1>4, QueueOperators DEF ProcessQueue!Write, e

LEMMA TakeCalls ==
  ASSUME IInv, IspTake, UNCHANGED NotSafe, ready_to_process # <<>>
  PROVE  ProcessQueue!Read("isp")
<1>1. /\ ready_to_process' = Tail(ready_to_process) /\ UNCHANGED <<ready_to_write, SensorOwns>>
      /\ IspOwns = {} /\ IspOwns' = {Head(ready_to_process)}
  BY Owners DEF IspTake, IspGoto, sensor, SensorOwns, IspOwns, Processing
<1> DEFINE b == Head(ready_to_process)
<1>2. IspOwns' = HeldBeside(ready_to_write)["isp"] \cup {b}
  BY <1>1, HeldNow
<1> HIDE DEF b
<1>3. HeldBeside(ready_to_write)'
        = [HeldBeside(ready_to_write) EXCEPT !["isp"] = @ \cup {b}]
  BY <1>1, <1>2, IspHolds, HeldThen
<1> QED
  BY <1>1, <1>3 DEF ProcessQueue!Read, b

(* The calls on ready_to_write_queue.                                      *)
LEMMA AcquireCalls ==
  ASSUME IInv, SensorAcquire, UNCHANGED NotSafe, ready_to_write # <<>>
  PROVE  WriteQueue!Read("sensor")
<1>1. /\ ready_to_write' = Tail(ready_to_write) /\ UNCHANGED <<ready_to_process, IspOwns>>
      /\ SensorOwns = {} /\ sensor_buf' = Head(ready_to_write)
  BY Owners DEF SensorAcquire, SensorGoto, SensorHolding, isp, IspOwns
<1>2. Head(ready_to_write) \in Buffers
  BY QueuesDistinct, TailDistinct
<1> DEFINE b == Head(ready_to_write)
<1>3. SensorOwns' = HeldBeside(ready_to_process)["sensor"] \cup {b}
  BY <1>1, <1>2, ConstantFacts, HeldNow DEF SensorOwns
<1> HIDE DEF b
<1>4. HeldBeside(ready_to_process)'
        = [HeldBeside(ready_to_process) EXCEPT !["sensor"] = @ \cup {b}]
  BY <1>1, <1>3, SensorHolds, HeldThen
<1> QED
  BY <1>1, <1>4 DEF WriteQueue!Read, b

(* Both ignore what write_to_buffer hands back: it is NULL, for a buffer   *)
(* one still holds is missing from the queue.                              *)
LEMMA NothingHandedBack ==
  ASSUME IInv, NEW b \in SensorOwns \cup IspOwns
  PROVE  Ejected(ready_to_write, WriteCapacity, NULL) = NULL
  BY WriteQueueHasRoom DEF Ejected

LEMMA GiveBackCalls ==
  ASSUME IInv, SensorGiveBack, UNCHANGED NotSafe
  PROVE  WriteQueue!Write("sensor", sensor_buf) /\ sensor_buf \in Buffers
<1>1. /\ SensorOwns = {sensor_buf} /\ sensor_buf \in Buffers
  BY Owners DEF SensorGiveBack, SensorGoto, SensorHolding
<1>2. /\ ready_to_write' = Enqueued(ready_to_write, WriteCapacity, sensor_buf)
      /\ SensorOwns' = {} /\ UNCHANGED <<ready_to_process, IspOwns>>
  BY DEF SensorGiveBack, SensorOwns, isp, IspOwns
<1>3. Ejected(ready_to_write, WriteCapacity, NULL) = NULL
  BY <1>1, NothingHandedBack
<1>4. SensorOwns' = (SensorOwns \ {sensor_buf}) \cup ({NULL} \ {NULL})
  BY <1>1, <1>2
<1>5. /\ HeldBeside(ready_to_process)["sensor"] = SensorOwns
      /\ HeldBeside(ready_to_process)'
           = [HeldBeside(ready_to_process) EXCEPT
                !["sensor"] = (@ \ {sensor_buf}) \cup ({NULL} \ {NULL})]
  BY <1>2, <1>4, SensorHolds, HeldNow, HeldThen
<1> QED
  BY <1>1, <1>2, <1>3, <1>5, QueueOperators DEF WriteQueue!Write

LEMMA ReturnCalls ==
  ASSUME IInv, IspReturn, UNCHANGED NotSafe
  PROVE  WriteQueue!Write("isp", isp_buf) /\ isp_buf \in Buffers
<1>1. /\ IspOwns = {isp_buf} /\ isp_buf \in Buffers
  BY Owners DEF IspReturn, IspGoto, Processing
<1>2. /\ ready_to_write' = Enqueued(ready_to_write, WriteCapacity, isp_buf)
      /\ IspOwns' = {} /\ UNCHANGED <<ready_to_process, SensorOwns>>
  BY DEF IspReturn, IspGoto, SensorOwns, sensor, IspOwns, Processing
<1>3. Ejected(ready_to_write, WriteCapacity, NULL) = NULL
  BY <1>1, NothingHandedBack
<1>4. IspOwns' = (IspOwns \ {isp_buf}) \cup ({NULL} \ {NULL})
  BY <1>1, <1>2
<1>5. /\ HeldBeside(ready_to_process)["isp"] = IspOwns
      /\ HeldBeside(ready_to_process)'
           = [HeldBeside(ready_to_process) EXCEPT
                !["isp"] = (@ \ {isp_buf}) \cup ({NULL} \ {NULL})]
  BY <1>2, <1>4, IspHolds, HeldNow, HeldThen
<1> QED
  BY <1>1, <1>2, <1>3, <1>5, QueueOperators DEF WriteQueue!Write

(* Only these calls touch a queue.                                         *)
LEMMA OnlyCallsTouch ==
  ASSUME [Next]_vars
  PROVE  /\ ~(SensorRecycle \/ SensorPublish \/ IspTake) => UNCHANGED ready_to_process
         /\ ~(SensorAcquire \/ SensorGiveBack \/ IspReturn) => UNCHANGED ready_to_write
  BY DEF Next, Exited, SensorNext, SensorLoop, SensorAcquire, SensorLook, SensorRecycle,
         SensorCountIspDrop, SensorClaim, SensorCapture, SensorReady, SensorPublish,
         SensorGiveBack, SensorCountDrop, IspNext, IspLoop, IspTake, IspClaim, IspHit,
         IspMiss, IspLoad, IspProcess, IspReturn, IspCount, IspReport,
         MainNext, MainStop, MainJoin, MainDeinit, vars, queues

LEMMA StepUses ==
  ASSUME IInv, [Next]_vars
  PROVE  ProcessQueue!Next /\ WriteQueue!Next
<1>1. CASE SensorClaim \/ SensorReady \/ IspClaim \/ IspProcess
  BY <1>1, StoresMark
<1>2. CASE ~(SensorClaim \/ SensorReady \/ IspClaim \/ IspProcess)
  <2>1. IInv' /\ UNCHANGED NotSafe
    BY <1>2, StepIInv, MarksStay
  <2>2. ASSUME ~UNCHANGED ready_to_process PROVE ProcessQueue!Next
    <3>1. SensorRecycle => ProcessQueue!Recycle("sensor")
      BY <2>1, <2>2, RecycleCalls
    <3>2. SensorPublish => ProcessQueue!Write("sensor", sensor_buf) /\ sensor_buf \in Buffers
      BY <2>1, PublishCalls
    <3>3. IspTake => ProcessQueue!Read("isp")
      <4>1. IspTake => ready_to_process # <<>>
        BY <2>2 DEF IspTake
      <4> QED
        BY <2>1, <4>1, TakeCalls
    <3>4. SensorRecycle \/ SensorPublish \/ IspTake
      BY <2>2, OnlyCallsTouch
    <3> QED
      BY <3>1, <3>2, <3>3, <3>4 DEF ProcessQueue!Next, Parties
  <2>3. ASSUME ~UNCHANGED ready_to_write PROVE WriteQueue!Next
    <3>1. SensorAcquire => WriteQueue!Read("sensor")
      <4>1. SensorAcquire => ready_to_write # <<>>
        BY <2>3 DEF SensorAcquire
      <4> QED
        BY <2>1, <4>1, AcquireCalls
    <3>2. SensorGiveBack => WriteQueue!Write("sensor", sensor_buf) /\ sensor_buf \in Buffers
      BY <2>1, GiveBackCalls
    <3>3. IspReturn => WriteQueue!Write("isp", isp_buf) /\ isp_buf \in Buffers
      BY <2>1, ReturnCalls
    <3>4. SensorAcquire \/ SensorGiveBack \/ IspReturn
      BY <2>3, OnlyCallsTouch
    <3> QED
      BY <3>1, <3>2, <3>3, <3>4 DEF WriteQueue!Next, Parties
  <2> QED
    BY <2>1, <2>2, <2>3, OutsideProcess, OutsideWrite
<1> QED
  BY <1>1, <1>2

(* The camera calls its two ring buffers as RingBuffer.tla assumes and its *)
(* own steps on them are the calls proved correct there: a loop writes     *)
(* only the buffer it holds, keeps whatever a call hands back, and changes *)
(* what is_buffer_safe_to_overwrite says of its own buffer alone           *)
(* (main.c:225-344).  So neither loop loses a buffer by ignoring the       *)
(* result of its write to ready_to_write_queue (main.c:268, 323).          *)
THEOREM QueuesUsedAsPromised == Spec => UsesQueues
<1>1. Init => ProcessQueue!Init
  <2> SUFFICES ASSUME Init PROVE ProcessQueue!Init
    OBVIOUS
  <2>1. ready_to_process = <<>> /\ ToSet(ready_to_process) = {}
    BY DEF Init, ToSet
  <2>2. NotSafe = {}
    BY DEF Init, NotSafe, SafeToOverwrite, is_buffer_safe_to_overwrite
  <2> QED
    BY <2>1, <2>2, InitIInv, AllHeldRightly, QueueOperators DEF HeldRightly, ProcessQueue!Init
<1>2. IInv /\ [Next]_vars
        => [ProcessQueue!Next]_(ProcessQueue!vars) /\ [WriteQueue!Next]_(WriteQueue!vars)
  BY StepUses
<1> QED
  BY <1>1, <1>2, Inductive, PTL DEF Spec, UsesQueues, ProcessQueue!Spec

-----------------------------------------------------------------------------
(* The lock of the device.  The two steps that keep it, the load of a      *)
(* profile and the report, wait for nothing and release it, so nobody      *)
(* waits for dev->lock while its holder waits for him, and the ISP never   *)
(* comes to a mtx_lock with the lock its own (main.c:307-316, 324-330).    *)
LockWithIsp == dev_lock = "isp" <=> isp_pc \in {"load", "report"}

THEOREM LockReleased == Spec => []LockWithIsp
<1>1. Init => LockWithIsp
  BY NullAssumption DEF Init, LockWithIsp
<1>2. IInv /\ LockWithIsp /\ [Next]_vars => LockWithIsp'
  <2> SUFFICES ASSUME IInv, LockWithIsp, [Next]_vars PROVE LockWithIsp'
    OBVIOUS
  <2>1. CASE UNCHANGED <<dev_lock, isp_pc>>
    BY <2>1 DEF LockWithIsp
  <2>2. CASE SensorNext \/ MainNext \/ UNCHANGED vars
    <3>1. UNCHANGED <<dev_lock, isp_pc>>
      BY <2>2 DEF SensorNext, SensorLoop, SensorAcquire, SensorLook, SensorRecycle,
         SensorCountIspDrop, SensorClaim, SensorCapture, SensorReady, SensorPublish,
         SensorGiveBack, SensorCountDrop, MainNext, MainStop, MainJoin, MainDeinit,
         vars, device, isp
    <3> QED
      BY <2>1, <3>1
  <2>3. CASE IspNext
    BY <2>3, NullAssumption
    DEF IspNext, IspLoop, IspTake, IspClaim, IspHit, IspMiss, IspLoad, IspProcess,
        IspReturn, IspCount, IspReport, IspGoto, LockFree, device, LockWithIsp
  <2> QED
    BY <2>2, <2>3 DEF Next, Exited
<1> QED
  BY <1>1, <1>2, Inductive, PTL DEF Spec
=============================================================================
