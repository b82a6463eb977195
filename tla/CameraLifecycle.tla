--------------------------- MODULE CameraLifecycle ---------------------------
(***************************************************************************)
(* The memory, the lock and the threads of the camera from camera_init to  *)
(* camera_deinit when malloc and thrd_create may fail (src/main.c, with    *)
(* create_ring_buffer, lru_cache_create and their counterparts).           *)
(* camera_init returns early when an allocation fails, main does not look  *)
(* at what thrd_create returns, and both go on; CameraDevice_t and the     *)
(* thread ids are locals of main, so what was not assigned holds garbage.  *)
(* The threads may take a turn from their creation until they have seen    *)
(* that `running' is FALSE.  What their turns do to the frames is          *)
(* CameraPipeline's subject; here it matters what they need to be there.   *)
(*                                                                         *)
(* A step that uses what is unset or null, or uses or frees what was       *)
(* freed, is undefined: the model notes which it was and stops.            *)
(***************************************************************************)
EXTENDS Integers, FiniteSets

CONSTANTS
  BUFFER_COUNT,
  Lenses,      \* the lens ids frames carry
  MayFail      \* TRUE if malloc and thrd_create may fail

(* The cache has room for BUFFER_COUNT profiles: none is evicted.          *)
ASSUME LifecycleAssumption ==
  /\ BUFFER_COUNT \in Nat \ {0} /\ MayFail \in BOOLEAN
  /\ IsFiniteSet(Lenses) /\ Cardinality(Lenses) <= BUFFER_COUNT

VARIABLES
  pc,          \* where main is
  i,           \* the loop counter of camera_init and camera_deinit
  queue,       \* the two queues of the device: unset, null or set
  pool, pixels,  \* pool[k] and pool[k]->virt_addr
  metadata,    \* lens_metadata_cache
  lock,        \* dev->lock: unset, set or destroyed
  profiles,    \* the lenses whose profile is cached
  thread,      \* the threads by their ids: unset, running or ended
  running,     \* what both threads look at before every turn
  live,        \* the heap blocks allocated and not freed
  failed,      \* TRUE once malloc or thrd_create has failed
  undefined    \* what was used: something "unset" or "freed", or "none"

dev == <<queue, pool, pixels, metadata, lock, profiles>>
threads == <<thread, running>>
vars == <<pc, i, dev, threads, live, failed, undefined>>

Frames == 1 .. BUFFER_COUNT
Queues == {"ready_to_process_queue", "ready_to_write_queue"}

QueueBlocks(q) == {<<"ring_buffer_t", q>>, <<"buffer", q>>}
ProfileBlocks(lens) == {<<"profile", lens>>, <<"Node", lens>>, <<"HashNode", lens>>}
CacheBlocks ==
  IF metadata = "set" THEN {<<"lru_cache_t", 0>>} \cup UNION {ProfileBlocks(l) : l \in profiles}
                      ELSE {}
FrameBlocks(k) ==
  (IF pool[k] = "set" THEN {<<"FrameBuffer_t", k>>} ELSE {})
    \cup (IF pixels[k] = "set" THEN {<<"pixels", k>>} ELSE {})

(* The blocks that the pointers of the device lead to.                     *)
Reachable ==
  (UNION {QueueBlocks(q) : q \in {q \in Queues : queue[q] = "set"}})
    \cup (UNION {FrameBlocks(k) : k \in Frames})
    \cup CacheBlocks

Init ==
  /\ pc = "process_queue" /\ i = 1
  /\ queue = [q \in Queues |-> "unset"]
  /\ pool = [k \in Frames |-> "unset"] /\ pixels = [k \in Frames |-> "unset"]
  /\ metadata = "unset" /\ lock = "unset" /\ profiles = {}
  /\ thread = [t \in {"sensor", "isp"} |-> "unset"] /\ running = FALSE
  /\ live = {} /\ failed = FALSE /\ undefined = "none"

Goto(from, to) == pc = from /\ pc' = to
Undefined(kind) == undefined' = kind /\ UNCHANGED <<pc, i, dev, threads, live>>
Succeeds(n, needed) ==
  /\ n = needed \/ MayFail
  /\ failed' = (failed \/ n < needed)

(* Freeing a block that was freed before is undefined.                     *)
Free(blocks) ==
  /\ live' = live \ blocks
  /\ undefined' = IF blocks \subseteq live THEN undefined ELSE "freed"

-----------------------------------------------------------------------------
(* camera_init.  n counts the allocations that succeed.                    *)

create_ring_buffer(q) ==
  \E n \in 0 .. 2 :
    /\ Succeeds(n, 2)
    /\ queue' = [queue EXCEPT ![q] = IF n = 2 THEN "set" ELSE "null"]
    /\ live' = IF n = 2 THEN live \cup QueueBlocks(q) ELSE live
    /\ UNCHANGED <<i, pool, pixels, metadata, lock, profiles, threads, undefined>>

CreateQueues ==
  \/ Goto("process_queue", "write_queue") /\ create_ring_buffer("ready_to_process_queue")
  \/ Goto("write_queue", "check") /\ create_ring_buffer("ready_to_write_queue")

CheckQueues ==
  /\ Goto("check", IF \A q \in Queues : queue[q] = "set" THEN "frame" ELSE "create_sensor")
  /\ UNCHANGED <<i, dev, threads, live, failed, undefined>>

AllocateFrame ==
  \E n \in 0 .. 1 :
    /\ Succeeds(n, 1)
    /\ Goto("frame", IF n = 1 THEN "pixels" ELSE "create_sensor")
    /\ pool' = [pool EXCEPT ![i] = IF n = 1 THEN "set" ELSE "null"]
    /\ live' = IF n = 1 THEN live \cup {<<"FrameBuffer_t", i>>} ELSE live
    /\ UNCHANGED <<i, queue, pixels, metadata, lock, profiles, threads, undefined>>

(* aligned_malloc, and the push into the write queue.                      *)
AllocatePixels ==
  \E n \in 0 .. 1 :
    /\ Succeeds(n, 1)
    /\ Goto("pixels", IF n = 0 THEN "create_sensor" ELSE IF i = BUFFER_COUNT THEN "cache" ELSE "frame")
    /\ pixels' = [pixels EXCEPT ![i] = IF n = 1 THEN "set" ELSE "null"]
    /\ live' = IF n = 1 THEN live \cup {<<"pixels", i>>} ELSE live
    /\ i' = IF n = 1 /\ i < BUFFER_COUNT THEN i + 1 ELSE i
    /\ UNCHANGED <<queue, pool, metadata, lock, profiles, threads, undefined>>

(* lru_cache_create does not look at what malloc returns.                  *)
lru_cache_create ==
  \/ /\ Goto("cache", "create_sensor") /\ Succeeds(1, 1)
     /\ metadata' = "set" /\ lock' = "set"
     /\ live' = live \cup {<<"lru_cache_t", 0>>}
     /\ UNCHANGED <<i, queue, pool, pixels, profiles, threads, undefined>>
  \/ pc = "cache" /\ Succeeds(0, 1) /\ Undefined("unset")

camera_init ==
  CreateQueues \/ CheckQueues \/ AllocateFrame \/ AllocatePixels \/ lru_cache_create

-----------------------------------------------------------------------------
(* main, once camera_init has returned.                                    *)

thrd_create(t) ==
  \E n \in 0 .. 1 :
    /\ Succeeds(n, 1)
    /\ thread' = [thread EXCEPT ![t] = IF n = 1 THEN "running" ELSE "unset"]
    /\ UNCHANGED <<i, dev, live, undefined>>

CreateThreads ==
  \/ Goto("create_sensor", "create_isp") /\ thrd_create("sensor") /\ running' = TRUE
  \/ Goto("create_isp", "getchar") /\ thrd_create("isp") /\ UNCHANGED running

Enter ==
  /\ Goto("getchar", "join_sensor") /\ running' = FALSE
  /\ UNCHANGED <<i, dev, thread, live, failed, undefined>>

thrd_join(t, from, to) ==
  \/ /\ Goto(from, to) /\ thread[t] = "ended"
     /\ UNCHANGED <<i, dev, threads, live, failed, undefined>>
  \/ pc = from /\ thread[t] = "unset" /\ Undefined("unset") /\ UNCHANGED failed

JoinSensorOnly == thrd_join("sensor", "join_sensor", "deinit")

JoinThreads ==
  thrd_join("sensor", "join_sensor", "join_isp") \/ thrd_join("isp", "join_isp", "deinit")

-----------------------------------------------------------------------------
(* The threads.  A null queue leaves their local `buffer' unset; a sensor  *)
(* that gets no buffer, or a recycled one, takes the lock to count a drop, *)
(* and the ISP takes it for every frame the sensor passes on.              *)

FramesQueued == \E k \in Frames : pixels[k] = "set"
FramesFlow == FramesQueued /\ thread["sensor"] # "unset"
Null(q) == queue[q] # "set"

(* Both threads may reach the whole device in a turn.                      *)
Dangling == lock = "destroyed" \/ ~(Reachable \subseteq live)

Turn(t, needsUnset) ==
  /\ thread[t] = "running"
  /\ \E kind \in {"unset", "freed"} :
       (IF kind = "unset" THEN needsUnset ELSE Dangling) /\ Undefined(kind)
  /\ UNCHANGED failed

SensorTurn == Turn("sensor", Null("ready_to_write_queue") \/ lock = "unset")
IspTurn ==
  Turn("isp", Null("ready_to_process_queue") \/ (FramesFlow /\ lock = "unset"))

(* A miss: the profile, its node and its entry in the table are allocated, *)
(* and nobody looks at what malloc returns.                                *)
LoadProfile(lens) ==
  /\ thread["isp"] = "running" /\ FramesFlow /\ lock = "set" /\ lens \notin profiles
  /\ \/ /\ Succeeds(3, 3)
        /\ profiles' = profiles \cup {lens}
        /\ live' = live \cup ProfileBlocks(lens)
        /\ UNCHANGED <<pc, i, queue, pool, pixels, metadata, lock, threads, undefined>>
     \/ \E n \in 0 .. 2 : Succeeds(n, 3) /\ Undefined("unset")

EndThread(t) ==
  /\ thread[t] = "running" /\ ~running
  /\ thread' = [thread EXCEPT ![t] = "ended"]
  /\ UNCHANGED <<pc, i, dev, running, live, failed, undefined>>

Threads ==
  \/ SensorTurn \/ IspTurn \/ \E lens \in Lenses : LoadProfile(lens)
  \/ \E t \in {"sensor", "isp"} : EndThread(t)

-----------------------------------------------------------------------------
(* camera_deinit.                                                          *)

(* Destroying an unset lock writes to the device at most (an outcome of    *)
(* the C library, where mtx_destroy is pthread_mutex_destroy).             *)
DestroyLock ==
  /\ Goto("deinit", "free_frames") /\ lock' = "destroyed" /\ i' = 1
  /\ UNCHANGED <<queue, pool, pixels, metadata, profiles, threads, live, failed, undefined>>

(* free_aligned accepts NULL; pool[i] is used without a look.              *)
FreeFrame ==
  /\ pc = "free_frames"
  /\ IF pool[i] = "set" /\ pixels[i] # "unset"
     THEN /\ Free(FrameBlocks(i))
          /\ pc' = IF i = BUFFER_COUNT THEN "free_queues" ELSE pc
          /\ i' = IF i = BUFFER_COUNT THEN i ELSE i + 1
          /\ UNCHANGED <<dev, threads>>
     ELSE Undefined("unset")
  /\ UNCHANGED failed

(* destroy_ring_buffer, for each queue that is not null.                   *)
FreeQueues ==
  /\ Goto("free_queues", "free_cache")
  /\ Free(UNION {QueueBlocks(q) : q \in {q \in Queues : queue[q] = "set"}})
  /\ UNCHANGED <<i, dev, threads, failed>>

FreeCacheAlone ==
  /\ Goto("free_cache", "done") /\ Free(CacheBlocks \cap {<<"lru_cache_t", 0>>})
  /\ UNCHANGED <<i, dev, threads, failed>>

(* lru_cache_free, unless the field is null: an unset one may be or not.   *)
FreeCache ==
  \/ /\ Goto("free_cache", "done") /\ Free(CacheBlocks)
     /\ UNCHANGED <<i, dev, threads, failed>>
  \/ pc = "free_cache" /\ metadata = "unset" /\ Undefined("unset") /\ UNCHANGED failed

camera_deinit == DestroyLock \/ FreeFrame \/ FreeQueues \/ FreeCache

Next ==
  /\ undefined = "none"
  /\ camera_init \/ CreateThreads \/ Enter \/ JoinThreads \/ Threads \/ camera_deinit

Spec == Init /\ [][Next]_vars

-----------------------------------------------------------------------------
(* Nothing is used or freed after it was freed or destroyed, whatever      *)
(* fails: both threads are joined before camera_deinit (main.c:362-365),   *)
(* which frees every block once.  And nothing is used before it is set     *)
(* unless malloc or thrd_create has failed: camera_init leaves no gap.     *)
UndefinedOnlyAfterFailure ==
  undefined # "freed" /\ (undefined = "unset" => failed)

(* Whatever failed on the way, no block is lost: until it is freed it can  *)
(* be reached from the device, also when camera_init has given up half way *)
(* (create_ring_buffer frees its half, ring_buffer.c:23), and when         *)
(* camera_deinit returns every block has been freed.                       *)
NoBlockLost == live \subseteq Reachable /\ (pc = "done" => live = {})
=============================================================================
