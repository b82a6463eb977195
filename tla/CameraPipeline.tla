--------------------------- MODULE CameraPipeline ---------------------------
(***************************************************************************)
(* The camera of src/main.c: a sensor thread that records frames into a    *)
(* fixed pool of buffers, an ISP thread that processes them, and the main  *)
(* thread that starts and stops both.  Two ring buffers carry the buffers  *)
(* round; one call on a ring buffer is one step (RingBuffer.tla shows that *)
(* its array and mutex make it so), except that get_stale_recycled reads   *)
(* the count before it takes the mutex, which is a step of its own.        *)
(*                                                                         *)
(* Frames are numbered 1, 2, 3, ... as they are recorded and timestamp_ns  *)
(* holds the number: CLOCK_MONOTONIC only grows and the sensor sleeps half *)
(* a second between two frames.  usleep only delays, so it is no step.     *)
(***************************************************************************)
EXTENDS FifoQueue, LruOrder

CONSTANTS
  BUFFER_COUNT,      \* buffers in the pool, and slots of ready_to_write_queue
  PROCESS_CAPACITY,  \* slots of ready_to_process_queue: BUFFER_COUNT in the code
  CACHE_CAPACITY,    \* profiles kept by lens_metadata_cache
  FRAMES_PER_LENS,   \* 10 in simulate_sensor_capture
  LENS_COUNT,        \* 5 in simulate_sensor_capture
  LOG_EVERY,         \* 30 in isp_thread_loop
  MaxIterations,     \* bound: iterations of sensor_thread_loop
  NULL

ASSUME SizesAssumption ==
  /\ BUFFER_COUNT \in Nat \ {0} /\ PROCESS_CAPACITY \in Nat \ {0}
  /\ CACHE_CAPACITY \in Nat \ {0}
  /\ FRAMES_PER_LENS \in Nat \ {0} /\ LENS_COUNT \in Nat \ {0}
  /\ LOG_EVERY \in Nat \ {0} /\ MaxIterations \in Nat
ASSUME NullAssumption == NULL \notin Nat /\ NULL # "isp"

VARIABLES
  running,               \* the flag both loops test
  main_pc,
  ready_to_write, ready_to_process,  \* the two queues, oldest buffer first
  state, timestamp_ns, lens_id,      \* per buffer: fields of FrameBuffer_t
  lens_metadata_cache,   \* lens ids with a cached profile, latest used first
  dev_lock,              \* dev->lock: NULL or "isp" (the sensor never keeps it
                         \* over a step)
  sensor_dropped_frames, isp_dropped_frames, processed_count,
  clock,                 \* frames recorded so far
  sensor_pc, sensor_buf, \* sensor_thread_loop and its variable buffer
  isp_pc, isp_buf,       \* isp_thread_loop and its variable buffer
  isp_profile,           \* the profile p points to, named by its lens
  isp_frame              \* history: the frame taken last from the queue

control == <<running, main_pc>>
queues == <<ready_to_write, ready_to_process>>
metadata == <<state, timestamp_ns, lens_id>>
stats == <<sensor_dropped_frames, isp_dropped_frames, processed_count>>
device == <<lens_metadata_cache, dev_lock>>
sensor == <<sensor_pc, sensor_buf>>
isp == <<isp_pc, isp_buf, isp_profile, isp_frame>>
vars == <<control, queues, metadata, stats, device, clock, sensor, isp>>

Buffers == 0 .. BUFFER_COUNT - 1
Lenses == 0 .. LENS_COUNT - 1
P_State == {"BUSY_WRITING", "BUSY_PROCESSING", "READY"}

WriteCapacityShort == BUFFER_COUNT - 1
WriteCapacity == BUFFER_COUNT

(* The lens simulate_sensor_capture attaches, from the id of the buffer.   *)
LensOfUnbounded(id) == id \div FRAMES_PER_LENS
LensOf(id) == (id \div FRAMES_PER_LENS) % LENS_COUNT

is_buffer_safe_to_overwrite(b) == state[b] = "READY"
SafeToOverwrite == {b \in Buffers : is_buffer_safe_to_overwrite(b)}

(* camera_init after every allocation succeeded.                           *)
Init ==
  /\ ready_to_write = [k \in 1 .. BUFFER_COUNT |-> k - 1]
  /\ ready_to_process = <<>>
  /\ state = [b \in Buffers |-> "READY"]
  /\ timestamp_ns = [b \in Buffers |-> 0]
  /\ lens_id = [b \in Buffers |-> NULL]
  /\ lens_metadata_cache = <<>> /\ dev_lock = NULL
  /\ sensor_dropped_frames = 0 /\ isp_dropped_frames = 0
  /\ processed_count = 0 /\ clock = 0
  /\ running = TRUE /\ main_pc = "getchar"
  /\ sensor_pc = "loop" /\ sensor_buf = NULL
  /\ isp_pc = "loop" /\ isp_buf = NULL
  /\ isp_profile = NULL /\ isp_frame = 0

SensorGoto(from, to) == sensor_pc = from /\ sensor_pc' = to
IspGoto(from, to) == isp_pc = from /\ isp_pc' = to

LockFreeIgnored == TRUE
LockFree == dev_lock = NULL

-----------------------------------------------------------------------------
(* sensor_thread_loop                                                      *)

SensorLoop ==
  /\ \/ /\ running
        /\ clock + sensor_dropped_frames < MaxIterations
        /\ SensorGoto("loop", "acquire")
     \/ ~running /\ SensorGoto("loop", "done")
  /\ UNCHANGED <<control, queues, metadata, stats, device, clock, sensor_buf, isp>>

SensorAcquire ==
  /\ \/ /\ ready_to_write # <<>>
        /\ SensorGoto("acquire", "claim")
        /\ sensor_buf' = Head(ready_to_write)
        /\ ready_to_write' = Tail(ready_to_write)
     \/ /\ ready_to_write = <<>>
        /\ SensorGoto("acquire", "look")
        /\ UNCHANGED <<sensor_buf, ready_to_write>>
  /\ UNCHANGED <<control, ready_to_process, metadata, stats, device, clock, isp>>

(* The count get_stale_recycled reads without the mutex.                   *)
SensorLook ==
  /\ \/ ready_to_process # <<>> /\ SensorGoto("look", "scan")
     \/ ready_to_process = <<>> /\ SensorGoto("look", "drop")
  /\ UNCHANGED <<control, queues, metadata, stats, device, clock, sensor_buf, isp>>

SensorRecycleUncounted ==
  LET at == FirstSafe(ready_to_process, SafeToOverwrite) IN
  /\ \/ /\ at # 0
        /\ SensorGoto("scan", "claim")
        /\ sensor_buf' = ready_to_process[at]
        /\ ready_to_process' = RemoveAt(ready_to_process, at)
     \/ /\ at = 0
        /\ SensorGoto("scan", "drop")
        /\ UNCHANGED <<sensor_buf, ready_to_process>>
  /\ UNCHANGED <<control, ready_to_write, metadata, stats, device, clock, isp>>

SensorRecycle ==
  LET at == FirstSafe(ready_to_process, SafeToOverwrite) IN
  /\ \/ /\ at # 0
        /\ SensorGoto("scan", "count_isp_drop")
        /\ sensor_buf' = ready_to_process[at]
        /\ ready_to_process' = RemoveAt(ready_to_process, at)
     \/ /\ at = 0
        /\ SensorGoto("scan", "drop")
        /\ UNCHANGED <<sensor_buf, ready_to_process>>
  /\ UNCHANGED <<control, ready_to_write, metadata, stats, device, clock, isp>>

SensorCountIspDrop ==
  /\ LockFree
  /\ SensorGoto("count_isp_drop", "claim")
  /\ isp_dropped_frames' = isp_dropped_frames + 1
  /\ UNCHANGED <<control, queues, metadata, sensor_dropped_frames,
                 processed_count, device, clock, sensor_buf, isp>>

SensorClaim ==
  /\ SensorGoto("claim", "capture")
  /\ state' = [state EXCEPT ![sensor_buf] = "BUSY_WRITING"]
  /\ UNCHANGED <<control, queues, timestamp_ns, lens_id, stats, device, clock,
                 sensor_buf, isp>>

(* simulate_sensor_capture                                                 *)
SensorCapture ==
  /\ SensorGoto("capture", "ready")
  /\ clock' = clock + 1
  /\ timestamp_ns' = [timestamp_ns EXCEPT ![sensor_buf] = clock + 1]
  /\ lens_id' = [lens_id EXCEPT ![sensor_buf] = LensOf(sensor_buf)]
  /\ UNCHANGED <<control, queues, state, stats, device, sensor_buf, isp>>

SensorReadyForgotten ==
  /\ SensorGoto("ready", "publish")
  /\ UNCHANGED <<control, queues, metadata, stats, device, clock, sensor_buf, isp>>

SensorReady ==
  /\ SensorGoto("ready", "publish")
  /\ state' = [state EXCEPT ![sensor_buf] = "READY"]
  /\ UNCHANGED <<control, queues, timestamp_ns, lens_id, stats, device, clock,
                 sensor_buf, isp>>

SensorPublishEarly ==
  LET recycled == Ejected(ready_to_process, PROCESS_CAPACITY, NULL) IN
  /\ SensorGoto("publish", IF recycled = NULL THEN "loop" ELSE "give_back")
  /\ ready_to_process' =
       <<sensor_buf>> \o IF recycled = NULL THEN ready_to_process
                                            ELSE Tail(ready_to_process)
  /\ sensor_buf' = recycled
  /\ UNCHANGED <<control, ready_to_write, metadata, stats, device, clock, isp>>

SensorPublishForgetting ==
  /\ SensorGoto("publish", "loop")
  /\ ready_to_process' = Enqueued(ready_to_process, PROCESS_CAPACITY, sensor_buf)
  /\ sensor_buf' = NULL
  /\ UNCHANGED <<control, ready_to_write, metadata, stats, device, clock, isp>>

SensorPublish ==
  LET recycled == Ejected(ready_to_process, PROCESS_CAPACITY, NULL) IN
  /\ SensorGoto("publish", IF recycled = NULL THEN "loop" ELSE "give_back")
  /\ ready_to_process' = Enqueued(ready_to_process, PROCESS_CAPACITY, sensor_buf)
  /\ sensor_buf' = recycled
  /\ UNCHANGED <<control, ready_to_write, metadata, stats, device, clock, isp>>

(* The result of this write_to_buffer is ignored.                          *)
SensorGiveBack ==
  /\ SensorGoto("give_back", "loop")
  /\ ready_to_write' = Enqueued(ready_to_write, WriteCapacity, sensor_buf)
  /\ sensor_buf' = NULL
  /\ UNCHANGED <<control, ready_to_process, metadata, stats, device, clock, isp>>

SensorCountDrop ==
  /\ LockFree
  /\ SensorGoto("drop", "loop")
  /\ sensor_dropped_frames' = sensor_dropped_frames + 1
  /\ UNCHANGED <<control, queues, metadata, isp_dropped_frames, processed_count,
                 device, clock, sensor_buf, isp>>

SensorNext ==
  \/ SensorLoop \/ SensorAcquire \/ SensorLook \/ SensorRecycle
  \/ SensorCountIspDrop \/ SensorClaim \/ SensorCapture \/ SensorReady
  \/ SensorPublish \/ SensorGiveBack \/ SensorCountDrop

-----------------------------------------------------------------------------
(* isp_thread_loop                                                         *)

IspLoop ==
  /\ \/ running /\ IspGoto("loop", "take")
     \/ ~running /\ IspGoto("loop", "done")
  /\ UNCHANGED <<control, queues, metadata, stats, device, clock, sensor,
                 isp_buf, isp_profile, isp_frame>>

IspTakeKeeping ==
  /\ ready_to_process # <<>>
  /\ IspGoto("take", "claim")
  /\ isp_buf' = Head(ready_to_process)
  /\ isp_frame' = timestamp_ns[Head(ready_to_process)]
  /\ UNCHANGED <<control, queues, metadata, stats, device, clock, sensor, isp_profile>>

IspTakeQuitting ==
  /\ \/ /\ ready_to_process # <<>>
        /\ IspGoto("take", "claim")
        /\ isp_buf' = Head(ready_to_process)
        /\ isp_frame' = timestamp_ns[Head(ready_to_process)]
        /\ ready_to_process' = Tail(ready_to_process)
     \/ /\ ready_to_process = <<>>
        /\ IspGoto("take", "done")
        /\ UNCHANGED <<isp_buf, isp_frame, ready_to_process>>
  /\ UNCHANGED <<control, ready_to_write, metadata, stats, device, clock, sensor,
                 isp_profile>>

IspTake ==
  /\ \/ /\ ready_to_process # <<>>
        /\ IspGoto("take", "claim")
        /\ isp_buf' = Head(ready_to_process)
        /\ isp_frame' = timestamp_ns[Head(ready_to_process)]
        /\ ready_to_process' = Tail(ready_to_process)
     \/ /\ ready_to_process = <<>>
        /\ IspGoto("take", "loop")
        /\ UNCHANGED <<isp_buf, isp_frame, ready_to_process>>
  /\ UNCHANGED <<control, ready_to_write, metadata, stats, device, clock, sensor,
                 isp_profile>>

IspClaim ==
  /\ IspGoto("claim", "lookup")
  /\ state' = [state EXCEPT ![isp_buf] = "BUSY_PROCESSING"]
  /\ UNCHANGED <<control, queues, timestamp_ns, lens_id, stats, device, clock,
                 sensor, isp_buf, isp_profile, isp_frame>>

Cached(lens) == \E k \in DOMAIN lens_metadata_cache : lens_metadata_cache[k] = lens

(* A hit locks and unlocks; a miss keeps the lock for the 20 ms of         *)
(* load_lens_params_from_eeprom.                                           *)
IspHit ==
  /\ IspGoto("lookup", "process")
  /\ LockFree
  /\ Cached(lens_id[isp_buf])
  /\ lens_metadata_cache' = Touched(lens_metadata_cache, lens_id[isp_buf])
  /\ isp_profile' = lens_id[isp_buf]
  /\ UNCHANGED <<control, queues, metadata, stats, dev_lock, clock, sensor, isp_buf,
                 isp_frame>>

IspMiss ==
  /\ IspGoto("lookup", "load")
  /\ LockFree
  /\ ~Cached(lens_id[isp_buf])
  /\ dev_lock' = "isp"
  /\ UNCHANGED <<control, queues, metadata, stats, lens_metadata_cache, clock, sensor,
                 isp_buf, isp_profile, isp_frame>>

IspLoadKeepingLock ==
  LET lens == lens_id[isp_buf] IN
  /\ IspGoto("load", "process")
  /\ lens_metadata_cache' = Inserted(lens_metadata_cache, CACHE_CAPACITY, lens)
  /\ isp_profile' = lens
  /\ UNCHANGED <<control, queues, metadata, stats, dev_lock, clock, sensor, isp_buf,
                 isp_frame>>

IspLoad ==
  LET lens == lens_id[isp_buf] IN
  /\ IspGoto("load", "process")
  /\ lens_metadata_cache' = Inserted(lens_metadata_cache, CACHE_CAPACITY, lens)
  /\ isp_profile' = lens
  /\ dev_lock' = NULL
  /\ UNCHANGED <<control, queues, metadata, stats, clock, sensor, isp_buf, isp_frame>>

(* processing and the store of STATE_READY after it.                       *)
IspProcessNotReady ==
  /\ IspGoto("process", "return")
  /\ isp_profile' = NULL
  /\ UNCHANGED <<control, queues, metadata, stats, device, clock, sensor, isp_buf,
                 isp_frame>>

IspProcess ==
  /\ IspGoto("process", "return")
  /\ state' = [state EXCEPT ![isp_buf] = "READY"]
  /\ isp_profile' = NULL
  /\ UNCHANGED <<control, queues, timestamp_ns, lens_id, stats, device, clock,
                 sensor, isp_buf, isp_frame>>

(* The result of this write_to_buffer is ignored.                          *)
IspReturn ==
  /\ IspGoto("return", "count")
  /\ ready_to_write' = Enqueued(ready_to_write, WriteCapacity, isp_buf)
  /\ UNCHANGED <<control, ready_to_process, metadata, stats, device, clock, sensor,
                 isp_buf, isp_profile, isp_frame>>

(* Every LOG_EVERY frames the lock is kept for a report on the buffer that *)
(* IspReturn has already handed back.                                      *)
IspCount ==
  /\ LockFree
  /\ processed_count' = processed_count + 1
  /\ \/ /\ processed_count' % LOG_EVERY = 0
        /\ IspGoto("count", "report")
        /\ dev_lock' = "isp"
        /\ UNCHANGED isp_buf
     \/ /\ processed_count' % LOG_EVERY # 0
        /\ IspGoto("count", "loop")
        /\ isp_buf' = NULL
        /\ UNCHANGED dev_lock
  /\ UNCHANGED <<control, queues, metadata, sensor_dropped_frames,
                 isp_dropped_frames, lens_metadata_cache, clock, sensor,
                 isp_profile, isp_frame>>

IspReportKeepingLock ==
  /\ IspGoto("report", "loop")
  /\ isp_buf' = NULL
  /\ UNCHANGED <<control, queues, metadata, stats, device, clock, sensor,
                 isp_profile, isp_frame>>

IspReport ==
  /\ IspGoto("report", "loop")
  /\ dev_lock' = NULL
  /\ isp_buf' = NULL
  /\ UNCHANGED <<control, queues, metadata, stats, lens_metadata_cache, clock,
                 sensor, isp_profile, isp_frame>>

IspNext ==
  \/ IspLoop \/ IspTake \/ IspClaim \/ IspHit \/ IspMiss \/ IspLoad
  \/ IspProcess \/ IspReturn \/ IspCount \/ IspReport

-----------------------------------------------------------------------------
(* main                                                                    *)

MainGoto(from, to) == main_pc = from /\ main_pc' = to

MainStop ==
  /\ MainGoto("getchar", "join_sensor")
  /\ running' = FALSE
  /\ UNCHANGED <<queues, metadata, stats, device, clock, sensor, isp>>

MainJoinSensorOnly ==
  /\ sensor_pc = "done" /\ MainGoto("join_sensor", "deinit")
  /\ UNCHANGED <<running, queues, metadata, stats, device, clock, sensor, isp>>

MainJoin ==
  /\ \/ sensor_pc = "done" /\ MainGoto("join_sensor", "join_isp")
     \/ isp_pc = "done" /\ MainGoto("join_isp", "deinit")
  /\ UNCHANGED <<running, queues, metadata, stats, device, clock, sensor, isp>>

(* camera_deinit: from here on the device is gone.                         *)
MainDeinit ==
  /\ MainGoto("deinit", "exit")
  /\ UNCHANGED <<running, queues, metadata, stats, device, clock, sensor, isp>>

MainNext == MainStop \/ MainJoin \/ MainDeinit

(* The end of the program is not a deadlock.                               *)
Exited == main_pc = "exit" /\ UNCHANGED vars

Next == SensorNext \/ IspNext \/ MainNext \/ Exited

Spec == Init /\ [][Next]_vars

(* The scheduler runs every thread; nobody has to press Enter.             *)
FairSpec ==
  /\ Spec
  /\ WF_vars(SensorNext) /\ WF_vars(IspNext)
  /\ WF_vars(MainJoin) /\ WF_vars(MainDeinit)
-----------------------------------------------------------------------------
TypeOK ==
  /\ running \in BOOLEAN
  /\ main_pc \in {"getchar", "join_sensor", "join_isp", "deinit", "exit"}
  /\ ready_to_write \in Seq(Buffers) /\ ready_to_process \in Seq(Buffers)
  /\ Len(ready_to_process) <= PROCESS_CAPACITY
  /\ state \in [Buffers -> P_State]
  /\ timestamp_ns \in [Buffers -> Nat]
  /\ lens_id \in [Buffers -> Lenses \cup {NULL}]
  /\ lens_metadata_cache \in Seq(Lenses)
  /\ Len(lens_metadata_cache) <= CACHE_CAPACITY
  /\ dev_lock \in {NULL, "isp"}
  /\ sensor_dropped_frames \in Nat /\ isp_dropped_frames \in Nat
  /\ processed_count \in Nat /\ clock \in Nat
  /\ sensor_pc \in {"loop", "acquire", "look", "scan", "count_isp_drop", "claim",
                    "capture", "ready", "publish", "give_back", "drop", "done"}
  /\ sensor_buf \in Buffers \cup {NULL}
  /\ isp_pc \in {"loop", "take", "claim", "lookup", "load", "process", "return",
                 "count", "report", "done"}
  /\ isp_buf \in Buffers \cup {NULL}
  /\ isp_profile \in Lenses \cup {NULL}
  /\ isp_frame \in Nat

(* Where a thread owns the buffer its variable points to: the sensor until *)
(* write_to_buffer, the ISP until it has handed the buffer back.  The ISP  *)
(* keeps the pointer longer than that, through its count and its report.   *)
Processing == {"claim", "lookup", "load", "process", "return"}
SensorOwns == {sensor_buf} \ {NULL}
IspOwns == IF isp_pc \in Processing THEN {isp_buf} ELSE {}

(* No buffer of the pool is lost, duplicated or shared, however the two    *)
(* loops interleave: each is in one place of one queue or with one thread. *)
OneOwnerEach ==
  /\ IsInjective(ready_to_write) /\ IsInjective(ready_to_process)
  /\ ToSet(ready_to_write) \cap ToSet(ready_to_process) = {}
  /\ SensorOwns \cap IspOwns = {}
  /\ (SensorOwns \cup IspOwns)
       \cap (ToSet(ready_to_write) \cup ToSet(ready_to_process)) = {}
  /\ SensorOwns \cup IspOwns \cup ToSet(ready_to_write) \cup ToSet(ready_to_process)
       = Buffers

(* The state of a buffer says who may touch its pixels: BUSY_WRITING only  *)
(* with the sensor, BUSY_PROCESSING only with the ISP, and everything that *)
(* is queued is READY.                                                     *)
StateMatchesOwner ==
  \A b \in Buffers :
    /\ state[b] = "BUSY_WRITING"
         <=> b = sensor_buf /\ sensor_pc \in {"capture", "ready"}
    /\ state[b] = "BUSY_PROCESSING"
         <=> b = isp_buf /\ isp_pc \in {"lookup", "load", "process"}

(* While the ISP works on a frame, from read_from_buffer to write_to_buffer, *)
(* the sensor does not record over it.                                     *)
FrameIntact ==
  isp_pc \in Processing =>
    timestamp_ns[isp_buf] = isp_frame /\ lens_id[isp_buf] = LensOf(isp_buf)

(* The profile processing uses is the one of the frame's lens and still in *)
(* the cache.  Only this thread calls the cache, so the one danger is its  *)
(* own lru_cache_put, which frees what it evicts: never what it has just   *)
(* inserted.                                                               *)
ProfileAlive ==
  isp_pc = "process" => isp_profile = lens_id[isp_buf] /\ Cached(isp_profile)

(* The sensor gives up on a frame only when no frame waits for the ISP,    *)
(* although get_stale_recycled reads the count without the mutex and the   *)
(* ISP takes frames in between.                                            *)
NoDropWhileFramesWait == sensor_pc = "drop" => ready_to_process = <<>>

(* Every recorded frame is accounted for: processed, counted as dropped by *)
(* the ISP, or still on its way.  Holds when PROCESS_CAPACITY has room for *)
(* the whole pool: what write_to_buffer ejects is counted nowhere.         *)
FramesAccounted ==
  clock = processed_count + isp_dropped_frames + Len(ready_to_process)
          + (IF sensor_pc \in {"count_isp_drop", "ready", "publish"} THEN 1 ELSE 0)
          + (IF isp_pc \in Processing \cup {"count"} THEN 1 ELSE 0)

(* After camera_deinit has freed the pool, the queues, the cache and the   *)
(* lock, neither thread runs and every buffer lies in a queue.             *)
NothingUsedAfterFree ==
  main_pc = "exit" =>
    /\ sensor_pc = "done" /\ isp_pc = "done"
    /\ ToSet(ready_to_write) \cup ToSet(ready_to_process) = Buffers

(* What the invariants above rest on, proved with them in                  *)
(* CameraPipeline_proofs.tla: where each loop holds a buffer, which frames *)
(* carry their lens, and that main joins both loops before it frees.       *)
SensorHolding ==
  {"count_isp_drop", "claim", "capture", "ready", "publish", "give_back"}
BuffersHeld ==
  /\ sensor_buf # NULL <=> sensor_pc \in SensorHolding
  /\ isp_buf # NULL <=> isp_pc \in Processing \cup {"count", "report"}

LensAttached ==
  \A b \in Buffers :
    \/ b \in ToSet(ready_to_process)
    \/ b \in SensorOwns /\ sensor_pc \in {"ready", "publish"}
    \/ b \in IspOwns
    => lens_id[b] = LensOf(b)

JoinedInOrder ==
  /\ main_pc \in {"join_isp", "deinit", "exit"} => sensor_pc = "done"
  /\ main_pc \in {"deinit", "exit"} => isp_pc = "done"

IInv ==
  /\ TypeOK /\ OneOwnerEach /\ BuffersHeld /\ StateMatchesOwner
  /\ LensAttached /\ FrameIntact /\ ProfileAlive
  /\ NoDropWhileFramesWait /\ JoinedInOrder

(* The frames the ISP sees are a lossy stream in order, of which only the  *)
(* oldest waiting frames are dropped.                                      *)
Stream == INSTANCE LossyStream WITH
  recorded <- clock,
  waiting <- [k \in DOMAIN ready_to_process |-> timestamp_ns[ready_to_process[k]]],
  current <- isp_frame
RefinesStream == Stream!Spec

(* Each queue is called as the ring buffer demands: a loop writes only a   *)
(* buffer it holds, takes over what a call hands back, and touches the     *)
(* state of its own buffer alone.  To either queue the buffers in the      *)
(* other one are elsewhere.  camera_init has filled ready_to_write.        *)
NotSafe == Buffers \ SafeToOverwrite
HeldBeside(other) ==
  [sensor |-> SensorOwns, isp |-> IspOwns, elsewhere |-> ToSet(other)]
Parties == {"sensor", "isp", "elsewhere"}

ProcessQueue == INSTANCE BoundedFifo WITH
  Threads <- Parties, Pointers <- Buffers, Capacity <- PROCESS_CAPACITY,
  queue <- ready_to_process, held <- HeldBeside(ready_to_write), busy <- NotSafe
WriteQueue == INSTANCE BoundedFifo WITH
  Threads <- Parties, Pointers <- Buffers, Capacity <- WriteCapacity,
  queue <- ready_to_write, held <- HeldBeside(ready_to_process), busy <- NotSafe

UsesQueues ==
  ProcessQueue!Spec /\ [][WriteQueue!Next]_(WriteQueue!vars)

(* Once Enter was pressed, main gets to the end: both loops see the flag,  *)
(* finish what they hold, and are joined.                                  *)
StopsWhenTold == ~running ~> main_pc = "exit"

(* A published frame does not wait for ever while the camera runs.         *)
FramesMoveOn ==
  \A b \in Buffers :
    running /\ b \in ToSet(ready_to_process)
      ~> b \notin ToSet(ready_to_process) \/ ~running

(* The sensor always gets dev->lock to count a drop, although mtx_plain    *)
(* promises no fairness and the ISP takes the lock twice for every frame:  *)
(* a waiting sensor starves the ISP of frames.                             *)
SensorGetsLock ==
  sensor_pc \in {"count_isp_drop", "drop"}
    ~> sensor_pc \notin {"count_isp_drop", "drop"}

-----------------------------------------------------------------------------
(* What the repository says of the program and the program does not do.    *)

(* README.md:9, "the 2 different ring buffers already handle exclusivity": *)
(* the ISP does not look at a buffer the sensor is recording into.         *)
ExclusiveBuffers ==
  ~(isp_pc = "report" /\ sensor_pc = "capture" /\ sensor_buf = isp_buf)
=============================================================================
