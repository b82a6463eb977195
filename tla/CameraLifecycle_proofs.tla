------------------------ MODULE CameraLifecycle_proofs ------------------------
(***************************************************************************)
(* Proofs about CameraLifecycle, for every BUFFER_COUNT, every finite set  *)
(* of lenses and for a malloc and a thrd_create that may or may not fail:  *)
(* nothing is used or freed after it was freed, nothing unset is used      *)
(* unless one of the two has failed, and no block is ever lost.            *)
(***************************************************************************)
EXTENDS CameraLifecycle, TLAPS

USE LifecycleAssumption

Pointer == {"unset", "null", "set"}

Setup == {"process_queue", "write_queue", "check", "frame", "pixels", "cache"}
Main == {"create_sensor", "create_isp", "getchar", "join_sensor", "join_isp"}
Teardown == {"deinit", "free_frames", "free_queues", "free_cache", "done"}

Typed ==
  /\ pc \in Setup \cup Main \cup Teardown
  /\ i \in Frames
  /\ queue \in [Queues -> Pointer]
  /\ pool \in [Frames -> Pointer] /\ pixels \in [Frames -> Pointer]
  /\ metadata \in {"unset", "set"} /\ lock \in {"unset", "set", "destroyed"}
  /\ profiles \in SUBSET Lenses
  /\ thread \in [{"sensor", "isp"} -> {"unset", "running", "ended"}]
  /\ failed \in BOOLEAN

(* What camera_init has not come to yet is not assigned, so nothing it     *)
(* assigns later overwrites the only pointer to a block.                   *)
Unassigned ==
  /\ pc = "process_queue" => queue["ready_to_process_queue"] = "unset"
  /\ pc \in {"process_queue", "write_queue"} => queue["ready_to_write_queue"] = "unset"
  /\ pc \in {"process_queue", "write_queue", "check"} => i = 1
  /\ pc \in Setup \ {"cache"} =>
       \A k \in Frames :
         /\ k > i \/ (k = i /\ pc # "pixels") => pool[k] = "unset"
         /\ k >= i => pixels[k] = "unset"

(* The frames whose buffer, and whose pixels, camera_init has come to.     *)
PoolDone ==
  CASE pc \in {"process_queue", "write_queue", "check"} -> {}
    [] pc = "frame"  -> {k \in Frames : k < i}
    [] pc = "pixels" -> {k \in Frames : k <= i}
    [] OTHER         -> Frames
PixelsDone ==
  CASE pc \in {"process_queue", "write_queue", "check"} -> {}
    [] pc \in {"frame", "pixels"} -> {k \in Frames : k < i}
    [] OTHER         -> Frames

(* As long as nothing has failed, what camera_init and main have come to   *)
(* is there.                                                               *)
Complete ==
  ~failed =>
    /\ pc # "process_queue" => queue["ready_to_process_queue"] = "set"
    /\ pc \notin {"process_queue", "write_queue"} => queue["ready_to_write_queue"] = "set"
    /\ \A k \in PoolDone : pool[k] = "set"
    /\ \A k \in PixelsDone : pixels[k] = "set"
    /\ pc \in Main \cup Teardown => metadata = "set"
    /\ pc \in Main => lock = "set"
    /\ pc \notin Setup \cup {"create_sensor"} => thread["sensor"] # "unset"
    /\ pc \notin Setup \cup {"create_sensor", "create_isp"} => thread["isp"] # "unset"

(* Profiles are only cached in a cache that was created.                   *)
CacheThere ==
  /\ lock = "set" => metadata = "set"
  /\ metadata = "unset" => profiles = {}

(* A thread runs from its creation to its join, so that none is left when  *)
(* camera_deinit begins to take the device apart.                          *)
Joined ==
  /\ pc \in Setup \cup {"create_sensor"} => thread["sensor"] = "unset"
  /\ pc \in Setup \cup {"create_sensor", "create_isp"} => thread["isp"] = "unset"
  /\ pc \in Teardown \cup {"join_isp"} => thread["sensor"] = "ended"
  /\ pc \in Teardown => thread["isp"] = "ended"
  /\ lock = "destroyed" => pc \in Teardown

(* What camera_deinit has freed so far is gone, and the rest is there.     *)
BlocksOf(k) == {<<"pixels", k>>, <<"FrameBuffer_t", k>>}
FramesFreed ==
  CASE pc = "free_frames" -> {k \in Frames : k < i}
    [] pc \in {"free_queues", "free_cache", "done"} -> Frames
    [] OTHER -> {}
QueuesFreed == IF pc \in {"free_cache", "done"} THEN Queues ELSE {}

Freed ==
  /\ \A k \in FramesFreed : live \cap BlocksOf(k) = {}
  /\ \A q \in QueuesFreed : live \cap QueueBlocks(q) = {}
  /\ pc = "done" => live = {}

Whole ==
  /\ \A k \in Frames \ FramesFreed : FrameBlocks(k) \subseteq live
  /\ \A q \in Queues \ QueuesFreed : queue[q] = "set" => QueueBlocks(q) \subseteq live
  /\ pc # "done" => CacheBlocks \subseteq live

IInv ==
  /\ Typed /\ Unassigned /\ Complete /\ CacheThere /\ Joined /\ Freed /\ Whole
  /\ live \subseteq Reachable
  /\ UndefinedOnlyAfterFailure

-----------------------------------------------------------------------------
LEMMA InitIInv == Init => IInv
<1> SUFFICES ASSUME Init PROVE IInv
    OBVIOUS
<1>1. Typed
  <2>1. pc \in Setup /\ i \in Frames
        BY DEF Init, Setup, Frames
  <2> QED BY <2>1 DEF Init, Typed, Pointer
<1>2. Unassigned /\ CacheThere /\ Joined
      BY DEF Init, Unassigned, CacheThere, Joined, Frames, Queues, Setup, Main, Teardown
<1>3. Complete
      BY DEF Init, Complete, Setup, Main, Teardown, PoolDone, PixelsDone
<1>4. Freed /\ live \subseteq Reachable /\ UndefinedOnlyAfterFailure
      BY DEF Init, Freed, FramesFreed, QueuesFreed, UndefinedOnlyAfterFailure
<1>5. Whole
      BY DEF Init, Whole, FrameBlocks, CacheBlocks
<1> QED BY <1>1, <1>2, <1>3, <1>4, <1>5 DEF IInv

(* A device that loses no pointer keeps every block reachable.             *)
Keeps ==
  /\ \A q \in Queues : queue[q] = "set" => queue'[q] = "set"
  /\ \A k \in Frames : pool[k] = "set" => pool'[k] = "set"
  /\ \A k \in Frames : pixels[k] = "set" => pixels'[k] = "set"
  /\ metadata = "set" => metadata' = "set"
  /\ profiles \subseteq profiles'

LEMMA ReachableGrows == Keeps => Reachable \subseteq Reachable'
<1> SUFFICES ASSUME Keeps PROVE Reachable \subseteq Reachable'
    OBVIOUS
<1>1. UNION {QueueBlocks(q) : q \in {q \in Queues : queue[q] = "set"}}
        \subseteq UNION {QueueBlocks(q) : q \in {q \in Queues : queue'[q] = "set"}}
      BY DEF Keeps
<1>2. CacheBlocks \subseteq CacheBlocks'
      BY DEF Keeps, CacheBlocks
<1>3. \A k \in Frames : FrameBlocks(k) \subseteq FrameBlocks(k)'
      BY DEF Keeps, FrameBlocks
<1>4. (UNION {FrameBlocks(k) : k \in Frames}) \subseteq (UNION {FrameBlocks(k) : k \in Frames})'
      BY <1>3
<1> QED BY <1>1, <1>2, <1>4 DEF Reachable

(* The blocks an allocation may add are reachable by the pointer that was  *)
(* assigned with it.                                                       *)
LEMMA AllocatedReachable ==
  /\ \A q \in Queues : queue'[q] = "set" => QueueBlocks(q) \subseteq Reachable'
  /\ \A k \in Frames : pool'[k] = "set" => <<"FrameBuffer_t", k>> \in Reachable'
  /\ \A k \in Frames : pixels'[k] = "set" => <<"pixels", k>> \in Reachable'
  /\ metadata' = "set" => <<"lru_cache_t", 0>> \in Reachable'
  /\ metadata' = "set" => \A lens \in profiles' : ProfileBlocks(lens) \subseteq Reachable'
<1>1. \A q \in Queues : queue'[q] = "set" => QueueBlocks(q) \subseteq Reachable'
  <2>1. \A q \in Queues : queue'[q] = "set" =>
          QueueBlocks(q) \subseteq UNION {QueueBlocks(p) : p \in {p \in Queues : queue'[p] = "set"}}
        OBVIOUS
  <2> QED BY <2>1 DEF Reachable
<1>2. CacheBlocks' \subseteq Reachable'
      BY DEF Reachable
<1>3. /\ metadata' = "set" => <<"lru_cache_t", 0>> \in CacheBlocks'
      /\ metadata' = "set" => \A lens \in profiles' : ProfileBlocks(lens) \subseteq CacheBlocks'
      BY DEF CacheBlocks
<1>4. \A k \in Frames : FrameBlocks(k)' \subseteq Reachable'
      BY DEF Reachable
<1>5. \A k \in Frames : /\ pool'[k] = "set" => <<"FrameBuffer_t", k>> \in FrameBlocks(k)'
                        /\ pixels'[k] = "set" => <<"pixels", k>> \in FrameBlocks(k)'
      BY DEF FrameBlocks
<1> QED BY <1>1, <1>2, <1>3, <1>4, <1>5

(* Before camera_deinit frees anything, the device is whole: none of its   *)
(* pointers dangles.                                                       *)
LEMMA NothingDangles ==
  ASSUME IInv, pc \notin Teardown
  PROVE  ~Dangling
<1>1. FramesFreed = {} /\ QueuesFreed = {} /\ pc # "done"
      BY DEF FramesFreed, QueuesFreed, Teardown
<1>2. (UNION {FrameBlocks(k) : k \in Frames}) \subseteq live /\ CacheBlocks \subseteq live
      BY <1>1 DEF IInv, Whole
<1>3. UNION {QueueBlocks(q) : q \in {q \in Queues : queue[q] = "set"}} \subseteq live
      BY <1>1 DEF IInv, Whole
<1> QED BY <1>2, <1>3 DEF Dangling, Reachable, IInv, Joined

(* An allocation leaves the device whole when the blocks of the pointers   *)
(* it sets are live after it.                                              *)
LEMMA WholeGrows ==
  ASSUME IInv, pc \notin Teardown, pc' \notin Teardown, live \subseteq live',
         \A k \in Frames : FrameBlocks(k)' \subseteq FrameBlocks(k) \cup live',
         \A q \in Queues : queue'[q] = "set" => queue[q] = "set" \/ QueueBlocks(q) \subseteq live',
         CacheBlocks' \subseteq CacheBlocks \cup live'
  PROVE  Whole' /\ Freed'
<1>1. /\ FramesFreed = {} /\ QueuesFreed = {} /\ pc # "done"
      /\ FramesFreed' = {} /\ QueuesFreed' = {} /\ pc' # "done"
      BY DEF FramesFreed, QueuesFreed, Teardown
<1> QED BY <1>1 DEF IInv, Whole, Freed

-----------------------------------------------------------------------------
LEMMA CreateQueuesIInv == ASSUME IInv, undefined = "none", CreateQueues PROVE IInv'
<1> PICK q \in Queues :
      /\ create_ring_buffer(q)
      /\ \/ Goto("process_queue", "write_queue") /\ q = "ready_to_process_queue"
         \/ Goto("write_queue", "check") /\ q = "ready_to_write_queue"
    BY DEF CreateQueues, Queues
<1> PICK n \in 0 .. 2 :
      /\ Succeeds(n, 2)
      /\ queue' = [queue EXCEPT ![q] = IF n = 2 THEN "set" ELSE "null"]
      /\ live' = IF n = 2 THEN live \cup QueueBlocks(q) ELSE live
      /\ UNCHANGED <<i, pool, pixels, metadata, lock, profiles, threads, undefined>>
    BY DEF create_ring_buffer
<1> USE DEF threads
<1>1. Typed'
      BY DEF IInv, Typed, Pointer, Queues, Setup, Goto, Succeeds
<1>2. Unassigned'
      BY DEF IInv, Typed, Unassigned, Queues, Setup, Goto, Frames
<1>3. Complete'
      BY <1>1 DEF IInv, Typed, Complete, Queues, Setup, Main, Teardown, Goto, Succeeds,
                  PoolDone, PixelsDone
<1>4. CacheThere' /\ Joined' /\ UndefinedOnlyAfterFailure'
      BY DEF IInv, CacheThere, Joined, UndefinedOnlyAfterFailure, Goto, Succeeds, Setup, Teardown
<1>5. queue[q] # "set"
      BY DEF IInv, Unassigned, Goto
<1>6. Keeps
      BY <1>5 DEF IInv, Typed, Keeps
<1>7. live' \subseteq Reachable'
      BY <1>6, ReachableGrows, AllocatedReachable DEF IInv, Typed
<1>8. Whole' /\ Freed'
  <2>1. pc \notin Teardown /\ pc' \notin Teardown /\ live \subseteq live'
        BY DEF Goto, Teardown
  <2>2. CacheBlocks' = CacheBlocks /\ \A k \in Frames : FrameBlocks(k)' = FrameBlocks(k)
        BY DEF CacheBlocks, FrameBlocks
  <2>3. \A p \in Queues : queue'[p] = "set" => queue[p] = "set" \/ QueueBlocks(p) \subseteq live'
        BY DEF IInv, Typed
  <2> QED BY <2>1, <2>2, <2>3, WholeGrows
<1> QED BY <1>1, <1>2, <1>3, <1>4, <1>7, <1>8 DEF IInv

LEMMA CheckQueuesIInv == ASSUME IInv, undefined = "none", CheckQueues PROVE IInv'
<1> USE DEF CheckQueues, dev, threads
<1>1. Typed'
      BY DEF IInv, Typed, Setup, Main, Goto
<1>2. Unassigned'
      BY DEF IInv, Unassigned, Setup, Goto, Frames
<1>3. Complete'
      BY DEF IInv, Typed, Unassigned, Complete, Queues, Setup, Main, Teardown, Goto,
             PoolDone, PixelsDone, Frames
<1>4. CacheThere' /\ Joined' /\ UndefinedOnlyAfterFailure'
      BY DEF IInv, CacheThere, Joined, UndefinedOnlyAfterFailure, Goto, Setup, Teardown
<1>5. live' \subseteq Reachable'
      BY DEF IInv, Reachable, FrameBlocks, CacheBlocks
<1>6. Whole' /\ Freed'
      BY DEF IInv, Whole, Freed, FramesFreed, QueuesFreed, FrameBlocks, CacheBlocks, Goto
<1> QED BY <1>1, <1>2, <1>3, <1>4, <1>5, <1>6 DEF IInv

LEMMA AllocateFrameIInv == ASSUME IInv, undefined = "none", AllocateFrame PROVE IInv'
<1> PICK n \in 0 .. 1 :
      /\ Succeeds(n, 1)
      /\ Goto("frame", IF n = 1 THEN "pixels" ELSE "create_sensor")
      /\ pool' = [pool EXCEPT ![i] = IF n = 1 THEN "set" ELSE "null"]
      /\ live' = IF n = 1 THEN live \cup {<<"FrameBuffer_t", i>>} ELSE live
      /\ UNCHANGED <<i, queue, pixels, metadata, lock, profiles, threads, undefined>>
    BY DEF AllocateFrame
<1> USE DEF threads
<1>1. Typed'
      BY DEF IInv, Typed, Pointer, Setup, Main, Goto, Succeeds
<1>2. Unassigned'
      BY DEF IInv, Typed, Unassigned, Setup, Goto, Frames
<1>3. Complete'
      BY DEF IInv, Typed, Complete, Setup, Main, Teardown, Goto, Succeeds, PoolDone, PixelsDone, Frames
<1>4. CacheThere' /\ Joined' /\ UndefinedOnlyAfterFailure'
      BY DEF IInv, CacheThere, Joined, UndefinedOnlyAfterFailure, Goto, Succeeds, Setup, Teardown
<1>5. pool[i] # "set"
      BY DEF IInv, Typed, Unassigned, Setup, Goto
<1>6. Keeps
      BY <1>5 DEF IInv, Typed, Keeps
<1>7. live' \subseteq Reachable'
      BY <1>6, ReachableGrows, AllocatedReachable DEF IInv, Typed
<1>8. Whole' /\ Freed'
  <2>1. pc \notin Teardown /\ pc' \notin Teardown /\ live \subseteq live'
        BY DEF Goto, Teardown
  <2>2. CacheBlocks' = CacheBlocks
        BY DEF CacheBlocks
  <2>3. \A k \in Frames : FrameBlocks(k)' \subseteq FrameBlocks(k) \cup live'
        BY DEF IInv, Typed, FrameBlocks
  <2> QED BY <2>1, <2>2, <2>3, WholeGrows
<1> QED BY <1>1, <1>2, <1>3, <1>4, <1>7, <1>8 DEF IInv

LEMMA AllocatePixelsIInv == ASSUME IInv, undefined = "none", AllocatePixels PROVE IInv'
<1> PICK n \in 0 .. 1 :
      /\ Succeeds(n, 1)
      /\ Goto("pixels", IF n = 0 THEN "create_sensor" ELSE IF i = BUFFER_COUNT THEN "cache" ELSE "frame")
      /\ pixels' = [pixels EXCEPT ![i] = IF n = 1 THEN "set" ELSE "null"]
      /\ live' = IF n = 1 THEN live \cup {<<"pixels", i>>} ELSE live
      /\ i' = IF n = 1 /\ i < BUFFER_COUNT THEN i + 1 ELSE i
      /\ UNCHANGED <<queue, pool, metadata, lock, profiles, threads, undefined>>
    BY DEF AllocatePixels
<1> USE DEF threads
<1>1. Typed'
      BY DEF IInv, Typed, Pointer, Setup, Main, Goto, Succeeds, Frames
<1>2. Unassigned'
      BY DEF IInv, Typed, Unassigned, Setup, Goto, Frames
<1>3. Complete'
      BY DEF IInv, Typed, Complete, Setup, Main, Teardown, Goto, Succeeds, PoolDone, PixelsDone, Frames
<1>4. CacheThere' /\ Joined' /\ UndefinedOnlyAfterFailure'
      BY DEF IInv, CacheThere, Joined, UndefinedOnlyAfterFailure, Goto, Succeeds, Setup, Teardown
<1>5. pixels[i] # "set"
      BY DEF IInv, Typed, Unassigned, Setup, Goto, Frames
<1>6. Keeps
      BY <1>5 DEF IInv, Typed, Keeps
<1>7. live' \subseteq Reachable'
      BY <1>6, ReachableGrows, AllocatedReachable DEF IInv, Typed
<1>8. Whole' /\ Freed'
  <2>1. pc \notin Teardown /\ pc' \notin Teardown /\ live \subseteq live'
        BY DEF Goto, Teardown
  <2>2. CacheBlocks' = CacheBlocks
        BY DEF CacheBlocks
  <2>3. \A k \in Frames : FrameBlocks(k)' \subseteq FrameBlocks(k) \cup live'
        BY DEF IInv, Typed, FrameBlocks
  <2> QED BY <2>1, <2>2, <2>3, WholeGrows
<1> QED BY <1>1, <1>2, <1>3, <1>4, <1>7, <1>8 DEF IInv

(* A step that is undefined stops the program where it is.                 *)
LEMMA UndefinedIInv ==
  ASSUME IInv, Undefined("unset"), failed', failed' \in BOOLEAN
  PROVE  IInv'
<1> USE DEF Undefined, dev, threads
<1>1. Typed' /\ Unassigned' /\ Complete' /\ CacheThere' /\ Joined'
      BY DEF IInv, Typed, Unassigned, Complete, CacheThere, Joined
<1>2. Freed' /\ Whole' /\ UndefinedOnlyAfterFailure'
      BY DEF IInv, Freed, Whole, FramesFreed, QueuesFreed, FrameBlocks, CacheBlocks,
             UndefinedOnlyAfterFailure
<1>3. live' \subseteq Reachable'
      BY DEF IInv, Reachable, FrameBlocks, CacheBlocks
<1> QED BY <1>1, <1>2, <1>3 DEF IInv

LEMMA LruCacheCreateIInv == ASSUME IInv, undefined = "none", lru_cache_create PROVE IInv'
<1>1. CASE /\ Goto("cache", "create_sensor") /\ Succeeds(1, 1)
           /\ metadata' = "set" /\ lock' = "set"
           /\ live' = live \cup {<<"lru_cache_t", 0>>}
           /\ UNCHANGED <<i, queue, pool, pixels, profiles, threads, undefined>>
  <2> USE <1>1 DEF threads
  <2>1. Typed' /\ Unassigned' /\ CacheThere' /\ Joined'
        BY DEF IInv, Typed, Unassigned, CacheThere, Joined, Setup, Main, Teardown, Goto, Succeeds
  <2>2. Complete'
        BY DEF IInv, Complete, Setup, Main, Teardown, Goto, Succeeds, PoolDone, PixelsDone
  <2>3. UndefinedOnlyAfterFailure'
        BY DEF IInv, UndefinedOnlyAfterFailure, Succeeds
  <2>4. Keeps
        BY DEF Keeps
  <2>5. live' \subseteq Reachable'
        BY <2>4, ReachableGrows, AllocatedReachable DEF IInv
  <2>6. Whole' /\ Freed'
    <3>1. pc \notin Teardown /\ pc' \notin Teardown /\ live \subseteq live'
          BY DEF Goto, Teardown
    <3>2. \A k \in Frames : FrameBlocks(k)' = FrameBlocks(k)
          BY DEF FrameBlocks
    <3>3. CacheBlocks' \subseteq CacheBlocks \cup live'
          BY DEF IInv, Typed, CacheThere, CacheBlocks
    <3> QED BY <3>1, <3>2, <3>3, WholeGrows
  <2> QED BY <2>1, <2>2, <2>3, <2>5, <2>6 DEF IInv
<1>2. CASE pc = "cache" /\ Succeeds(0, 1) /\ Undefined("unset")
  <2> DEFINE n == 0
  <2>1. n < 1 /\ Succeeds(n, 1)
        BY <1>2
  <2> HIDE DEF n
  <2>2. failed' = TRUE
        BY <2>1 DEF Succeeds
  <2> QED BY <1>2, <2>2, UndefinedIInv
<1> QED BY <1>1, <1>2 DEF lru_cache_create

-----------------------------------------------------------------------------
(* The threads.                                                            *)

(* What a step of main or of a thread that touches neither the device nor  *)
(* the heap leaves as it is.                                               *)
LEMMA DeviceKept ==
  ASSUME IInv, UNCHANGED <<dev, live>>, FramesFreed' = FramesFreed, QueuesFreed' = QueuesFreed,
         pc' = "done" <=> pc = "done"
  PROVE  CacheThere' /\ Freed' /\ Whole' /\ live' \subseteq Reachable'
<1> USE DEF dev
<1>1. \A k : FrameBlocks(k)' = FrameBlocks(k)
      BY DEF FrameBlocks
<1>2. CacheBlocks' = CacheBlocks
      BY DEF CacheBlocks
<1>3. Reachable' = Reachable
      BY <1>1, <1>2 DEF Reachable
<1> QED BY <1>1, <1>2, <1>3 DEF IInv, CacheThere, Freed, Whole

LEMMA CreateThreadsIInv == ASSUME IInv, undefined = "none", CreateThreads PROVE IInv'
<1> PICK t \in {"sensor", "isp"} :
      /\ thrd_create(t)
      /\ \/ Goto("create_sensor", "create_isp") /\ t = "sensor"
         \/ Goto("create_isp", "getchar") /\ t = "isp"
    BY DEF CreateThreads
<1> PICK n \in 0 .. 1 :
      /\ Succeeds(n, 1)
      /\ thread' = [thread EXCEPT ![t] = IF n = 1 THEN "running" ELSE "unset"]
      /\ UNCHANGED <<i, dev, live, undefined>>
    BY DEF thrd_create
<1>1. Typed'
      BY DEF IInv, Typed, Main, Goto, Succeeds, dev
<1>2. Unassigned'
      BY DEF Unassigned, Setup, Goto
<1>3. Complete'
      BY DEF IInv, Typed, Complete, Setup, Main, Teardown, Goto, Succeeds, PoolDone, PixelsDone, dev
<1>4. Joined'
      BY DEF IInv, Typed, Joined, Setup, Teardown, Goto, dev
<1>5. UndefinedOnlyAfterFailure'
      BY DEF IInv, Typed, UndefinedOnlyAfterFailure, Succeeds
<1>6. CacheThere' /\ Freed' /\ Whole' /\ live' \subseteq Reachable'
  <2>1. FramesFreed' = FramesFreed /\ QueuesFreed' = QueuesFreed /\ (pc' = "done" <=> pc = "done")
        BY DEF FramesFreed, QueuesFreed, Goto
  <2> QED BY <2>1, DeviceKept
<1> QED BY <1>1, <1>2, <1>3, <1>4, <1>5, <1>6 DEF IInv

LEMMA EnterIInv == ASSUME IInv, undefined = "none", Enter PROVE IInv'
<1> USE DEF Enter, Goto, dev
<1>1. Typed' /\ Unassigned' /\ Joined'
      BY DEF IInv, Typed, Unassigned, Joined, Setup, Main, Teardown
<1>2. Complete'
      BY DEF IInv, Complete, Setup, Main, Teardown, PoolDone, PixelsDone
<1>3. CacheThere' /\ Freed' /\ Whole' /\ live' \subseteq Reachable'
      BY DeviceKept DEF FramesFreed, QueuesFreed
<1>4. UndefinedOnlyAfterFailure'
      BY DEF IInv, UndefinedOnlyAfterFailure
<1> QED BY <1>1, <1>2, <1>3, <1>4 DEF IInv

LEMMA JoinThreadsIInv == ASSUME IInv, undefined = "none", JoinThreads PROVE IInv'
<1> PICK t \in {"sensor", "isp"}, from \in {"join_sensor", "join_isp"}, to \in {"join_isp", "deinit"} :
      /\ thrd_join(t, from, to)
      /\ \/ t = "sensor" /\ from = "join_sensor" /\ to = "join_isp"
         \/ t = "isp" /\ from = "join_isp" /\ to = "deinit"
    BY DEF JoinThreads
<1>1. CASE /\ Goto(from, to) /\ thread[t] = "ended"
           /\ UNCHANGED <<i, dev, threads, live, failed, undefined>>
  <2> USE <1>1 DEF Goto, dev, threads
  <2>1. Typed' /\ Unassigned' /\ Joined'
        BY DEF IInv, Typed, Unassigned, Joined, Setup, Main, Teardown
  <2>2. Complete'
        BY DEF IInv, Complete, Setup, Main, Teardown, PoolDone, PixelsDone
  <2>3. CacheThere' /\ Freed' /\ Whole' /\ live' \subseteq Reachable'
        BY DeviceKept DEF FramesFreed, QueuesFreed
  <2>4. UndefinedOnlyAfterFailure'
        BY DEF IInv, UndefinedOnlyAfterFailure
  <2> QED BY <2>1, <2>2, <2>3, <2>4 DEF IInv
<1>2. CASE pc = from /\ thread[t] = "unset" /\ Undefined("unset") /\ UNCHANGED failed
  <2>1. failed /\ failed \in BOOLEAN
        BY <1>2 DEF IInv, Typed, Complete, Setup
  <2> QED BY <1>2, <2>1, UndefinedIInv
<1> QED BY <1>1, <1>2 DEF thrd_join

(* A thread that runs finds the device whole, and finds it set up unless   *)
(* something has failed.                                                   *)
LEMMA ThreadTurnIInv ==
  ASSUME IInv, undefined = "none", SensorTurn \/ IspTurn PROVE IInv'
<1> PICK t \in {"sensor", "isp"}, needsUnset \in BOOLEAN :
      /\ Turn(t, needsUnset)
      /\ needsUnset => \/ Null("ready_to_write_queue") \/ Null("ready_to_process_queue")
                       \/ lock = "unset"
    BY DEF SensorTurn, IspTurn
<1>1. thread[t] = "running" /\ UNCHANGED failed
      BY DEF Turn
<1>2. pc \in Main
      BY <1>1 DEF IInv, Typed, Joined
<1>3. ~Dangling
      BY <1>2, NothingDangles DEF Main, Teardown
<1>4. needsUnset /\ Undefined("unset")
      BY <1>3 DEF Turn
<1>5. failed /\ failed \in BOOLEAN
      BY <1>2, <1>4 DEF IInv, Typed, Complete, Null, Main
<1> QED BY <1>1, <1>4, <1>5, UndefinedIInv

LEMMA LoadProfileIInv ==
  ASSUME IInv, undefined = "none", NEW lens \in Lenses, LoadProfile(lens) PROVE IInv'
<1>1. CASE /\ Succeeds(3, 3)
           /\ profiles' = profiles \cup {lens}
           /\ live' = live \cup ProfileBlocks(lens)
           /\ UNCHANGED <<pc, i, queue, pool, pixels, metadata, lock, threads, undefined>>
  <2> USE <1>1 DEF threads
  <2>1. thread["isp"] = "running" /\ lock = "set"
        BY DEF LoadProfile
  <2>2. Typed' /\ Unassigned' /\ CacheThere' /\ Joined'
        BY <2>1 DEF IInv, Typed, Unassigned, CacheThere, Joined, Succeeds
  <2>3. Complete'
        BY DEF IInv, Complete, Succeeds, PoolDone, PixelsDone
  <2>4. UndefinedOnlyAfterFailure'
        BY DEF IInv, UndefinedOnlyAfterFailure, Succeeds
  <2>5. Keeps /\ metadata' = "set"
        BY <2>1 DEF Keeps, IInv, CacheThere
  <2>6. live' \subseteq Reachable'
        BY <2>5, ReachableGrows, AllocatedReachable DEF IInv
  <2>7. Whole' /\ Freed'
    <3>1. pc \notin Teardown /\ pc' \notin Teardown /\ live \subseteq live'
          BY <2>1 DEF IInv, Joined
    <3>2. \A k \in Frames : FrameBlocks(k)' = FrameBlocks(k)
          BY DEF FrameBlocks
    <3>3. CacheBlocks' \subseteq CacheBlocks \cup live'
          BY DEF CacheBlocks
    <3> QED BY <3>1, <3>2, <3>3, WholeGrows
  <2> QED BY <2>2, <2>3, <2>4, <2>6, <2>7 DEF IInv
<1>2. CASE \E n \in 0 .. 2 : Succeeds(n, 3) /\ Undefined("unset")
  <2> PICK n \in 0 .. 2 : Succeeds(n, 3) /\ Undefined("unset")
      BY <1>2
  <2>1. n < 3 /\ failed' = TRUE
        BY DEF Succeeds
  <2> QED BY <2>1, UndefinedIInv
<1> QED BY <1>1, <1>2 DEF LoadProfile

LEMMA EndThreadIInv ==
  ASSUME IInv, undefined = "none", NEW t \in {"sensor", "isp"}, EndThread(t) PROVE IInv'
<1> USE DEF EndThread, dev
<1>1. Typed' /\ Unassigned' /\ Joined'
      BY DEF IInv, Typed, Unassigned, Joined
<1>2. Complete'
      BY DEF IInv, Typed, Complete, PoolDone, PixelsDone
<1>3. CacheThere' /\ Freed' /\ Whole' /\ live' \subseteq Reachable'
      BY DeviceKept DEF FramesFreed, QueuesFreed
<1>4. UndefinedOnlyAfterFailure'
      BY DEF IInv, UndefinedOnlyAfterFailure
<1> QED BY <1>1, <1>2, <1>3, <1>4 DEF IInv

-----------------------------------------------------------------------------
(* camera_deinit.                                                          *)

LEMMA DestroyLockIInv == ASSUME IInv, undefined = "none", DestroyLock PROVE IInv'
<1> USE DEF DestroyLock, Goto, threads
<1>1. Typed' /\ Unassigned' /\ CacheThere' /\ Joined'
      BY DEF IInv, Typed, Unassigned, CacheThere, Joined, Setup, Main, Teardown, Frames
<1>2. Complete'
      BY DEF IInv, Complete, Setup, Main, Teardown, PoolDone, PixelsDone
<1>3. UndefinedOnlyAfterFailure'
      BY DEF IInv, UndefinedOnlyAfterFailure
<1>4. /\ CacheBlocks' = CacheBlocks /\ Reachable' = Reachable
      /\ \A k \in Frames : FrameBlocks(k)' = FrameBlocks(k)
      BY DEF CacheBlocks, FrameBlocks, Reachable
<1>5. FramesFreed = {} /\ QueuesFreed = {} /\ FramesFreed' = {} /\ QueuesFreed' = {}
      BY DEF FramesFreed, QueuesFreed, Frames
<1>6. Whole' /\ Freed' /\ live' \subseteq Reachable'
      BY <1>4, <1>5 DEF IInv, Whole, Freed
<1> QED BY <1>1, <1>2, <1>3, <1>6 DEF IInv

(* The blocks of the frames, of the queues and of the cache are different. *)
LEMMA BlocksApart ==
  /\ \A k \in Frames : FrameBlocks(k) \subseteq BlocksOf(k)
  /\ \A k, l \in Frames : k # l => BlocksOf(k) \cap BlocksOf(l) = {}
  /\ \A k \in Frames, q \in Queues : BlocksOf(k) \cap QueueBlocks(q) = {}
  /\ \A k \in Frames : BlocksOf(k) \cap CacheBlocks = {}
  /\ \A q \in Queues : QueueBlocks(q) \cap CacheBlocks = {}
BY DEF FrameBlocks, BlocksOf, QueueBlocks, CacheBlocks, ProfileBlocks

LEMMA FreeFrameIInv == ASSUME IInv, undefined = "none", FreeFrame PROVE IInv'
<1>1. CASE pool[i] = "set" /\ pixels[i] # "unset"
  <2>1. /\ pc = "free_frames" /\ Free(FrameBlocks(i))
        /\ pc' = IF i = BUFFER_COUNT THEN "free_queues" ELSE pc
        /\ i' = IF i = BUFFER_COUNT THEN i ELSE i + 1
        /\ UNCHANGED <<dev, threads, failed>>
        BY <1>1 DEF FreeFrame
  <2> USE <2>1 DEF dev, threads
  <2>2. Typed' /\ Unassigned' /\ CacheThere' /\ Joined'
        BY DEF IInv, Typed, Unassigned, CacheThere, Joined, Setup, Teardown, Frames
  <2>3. Complete'
        BY DEF IInv, Complete, Setup, Main, Teardown, PoolDone, PixelsDone
  <2>4. i \in Frames /\ i \notin FramesFreed /\ FramesFreed' = FramesFreed \cup {i}
        BY DEF IInv, Typed, FramesFreed, Frames
  <2>5. FrameBlocks(i) \subseteq live
        BY <2>4 DEF IInv, Whole
  <2>6. live' = live \ FrameBlocks(i) /\ undefined' = undefined
        BY <2>5 DEF Free
  <2>7. UndefinedOnlyAfterFailure'
        BY <2>6 DEF IInv, UndefinedOnlyAfterFailure
  <2>8. /\ CacheBlocks' = CacheBlocks /\ Reachable' = Reachable
        /\ \A k \in Frames : FrameBlocks(k)' = FrameBlocks(k)
        BY DEF CacheBlocks, FrameBlocks, Reachable
  <2>9. QueuesFreed = {} /\ QueuesFreed' = {} /\ pc # "done" /\ pc' # "done"
        BY DEF QueuesFreed
  <2>10. Whole'
    <3>1. \A k \in Frames \ FramesFreed' : FrameBlocks(k) \subseteq live /\ FrameBlocks(k) \cap FrameBlocks(i) = {}
          BY <2>4, BlocksApart DEF IInv, Whole
    <3>2. CacheBlocks \subseteq live /\ CacheBlocks \cap FrameBlocks(i) = {}
          BY <2>4, <2>9, BlocksApart DEF IInv, Whole
    <3>3. \A q \in Queues : QueueBlocks(q) \cap FrameBlocks(i) = {}
          BY <2>4, BlocksApart
    <3> QED BY <2>6, <2>8, <2>9, <3>1, <3>2, <3>3 DEF IInv, Whole
  <2>11. Freed'
    <3>1. live \cap BlocksOf(i) \subseteq FrameBlocks(i)
      <4>1. \A b \in BlocksOf(i) : b \in live => b \in Reachable
            BY DEF IInv
      <4>2. \A b \in BlocksOf(i) : b \in Reachable => \E k \in Frames : b \in FrameBlocks(k)
            BY <2>4, BlocksApart DEF Reachable
      <4>3. \A b \in BlocksOf(i), k \in Frames : b \in FrameBlocks(k) => k = i
            BY <2>4, BlocksApart
      <4> QED BY <4>1, <4>2, <4>3
    <3> QED BY <2>4, <2>6, <2>9, <3>1 DEF IInv, Freed
  <2> QED BY <2>2, <2>3, <2>6, <2>7, <2>8, <2>10, <2>11 DEF IInv
<1>2. CASE ~(pool[i] = "set" /\ pixels[i] # "unset")
  <2>1. pc = "free_frames" /\ Undefined("unset") /\ UNCHANGED failed
        BY <1>2 DEF FreeFrame
  <2>2. failed /\ failed \in BOOLEAN
        BY <1>2, <2>1 DEF IInv, Typed, Complete, PoolDone, PixelsDone
  <2> QED BY <2>1, <2>2, UndefinedIInv
<1> QED BY <1>1, <1>2

LEMMA FreeQueuesIInv == ASSUME IInv, undefined = "none", FreeQueues PROVE IInv'
<1> DEFINE blocks == UNION {QueueBlocks(q) : q \in {q \in Queues : queue[q] = "set"}}
<1>1. /\ Goto("free_queues", "free_cache") /\ Free(blocks)
      /\ UNCHANGED <<i, dev, threads, failed>>
      BY DEF FreeQueues
<1> USE <1>1 DEF Goto, dev, threads
<1>2. Typed' /\ Unassigned' /\ CacheThere' /\ Joined'
      BY DEF IInv, Typed, Unassigned, CacheThere, Joined, Setup, Teardown
<1>3. Complete'
      BY DEF IInv, Complete, Setup, Main, Teardown, PoolDone, PixelsDone
<1>4. /\ FramesFreed = Frames /\ FramesFreed' = Frames /\ QueuesFreed = {}
      /\ QueuesFreed' = Queues /\ pc # "done" /\ pc' # "done"
      BY DEF FramesFreed, QueuesFreed
<1>5. blocks \subseteq live
      BY <1>4 DEF IInv, Whole
<1>6. live' = live \ blocks /\ undefined' = undefined
      BY <1>5 DEF Free
<1>7. /\ CacheBlocks' = CacheBlocks /\ Reachable' = Reachable
      BY DEF CacheBlocks, FrameBlocks, Reachable
<1>8. UndefinedOnlyAfterFailure'
      BY <1>6 DEF IInv, UndefinedOnlyAfterFailure
<1>9. \A q \in Queues : live' \cap QueueBlocks(q) = {}
  <2> SUFFICES ASSUME NEW q \in Queues, NEW b \in QueueBlocks(q), b \in live PROVE b \in blocks
      BY <1>6
  <2>1. b \in Reachable
        BY DEF IInv
  <2>2. b \notin CacheBlocks /\ \A k \in Frames : b \notin FrameBlocks(k)
        BY BlocksApart
  <2> QED BY <2>1, <2>2 DEF Reachable
<1>10. CacheBlocks \subseteq live /\ CacheBlocks \cap blocks = {}
  <2>1. \A q \in Queues : QueueBlocks(q) \cap CacheBlocks = {}
        BY BlocksApart
  <2> QED BY <1>4, <2>1 DEF IInv, Whole
<1> HIDE DEF blocks
<1>11. Whole' /\ Freed'
      BY <1>4, <1>6, <1>7, <1>9, <1>10 DEF IInv, Whole, Freed
<1> QED BY <1>2, <1>3, <1>6, <1>7, <1>8, <1>11 DEF IInv

LEMMA FreeCacheIInv == ASSUME IInv, undefined = "none", FreeCache PROVE IInv'
<1>1. CASE Goto("free_cache", "done") /\ Free(CacheBlocks) /\ UNCHANGED <<i, dev, threads, failed>>
  <2> USE <1>1 DEF Goto, dev, threads
  <2>1. Typed' /\ Unassigned' /\ CacheThere' /\ Joined'
        BY DEF IInv, Typed, Unassigned, CacheThere, Joined, Setup, Teardown
  <2>2. Complete'
        BY DEF IInv, Complete, Setup, Main, Teardown, PoolDone, PixelsDone
  <2>3. CacheBlocks \subseteq live
        BY DEF IInv, Whole
  <2>4. live' = live \ CacheBlocks /\ undefined' = undefined
        BY <2>3 DEF Free
  <2>5. live' = {}
    <3>1. FramesFreed = Frames /\ QueuesFreed = Queues
          BY DEF FramesFreed, QueuesFreed
    <3>2. \A k \in Frames : live \cap FrameBlocks(k) = {}
          BY <3>1, BlocksApart DEF IInv, Freed
    <3>3. \A q \in Queues : live \cap QueueBlocks(q) = {}
          BY <3>1 DEF IInv, Freed
    <3>4. live \subseteq CacheBlocks
          BY <3>2, <3>3 DEF IInv, Reachable
    <3> QED BY <2>4, <3>4
  <2>6. Freed' /\ Whole' /\ UndefinedOnlyAfterFailure' /\ live' \subseteq Reachable'
        BY <2>4, <2>5 DEF IInv, Freed, Whole, FramesFreed, QueuesFreed, UndefinedOnlyAfterFailure
  <2> QED BY <2>1, <2>2, <2>6 DEF IInv
<1>2. CASE pc = "free_cache" /\ metadata = "unset" /\ Undefined("unset") /\ UNCHANGED failed
  <2>1. failed /\ failed \in BOOLEAN
        BY <1>2 DEF IInv, Typed, Complete, Teardown
  <2> QED BY <1>2, <2>1, UndefinedIInv
<1> QED BY <1>1, <1>2 DEF FreeCache

-----------------------------------------------------------------------------
LEMMA NextIInv == IInv /\ [Next]_vars => IInv'
<1> SUFFICES ASSUME IInv, [Next]_vars PROVE IInv'
    OBVIOUS
<1>1. CASE UNCHANGED vars
  <2> USE <1>1 DEF vars, threads
  <2>1. Typed' /\ Unassigned' /\ Complete' /\ Joined' /\ UndefinedOnlyAfterFailure'
        BY DEF dev, IInv, Typed, Unassigned, Complete, Joined, PoolDone, PixelsDone,
           UndefinedOnlyAfterFailure
  <2>2. CacheThere' /\ Freed' /\ Whole' /\ live' \subseteq Reachable'
        BY DeviceKept DEF FramesFreed, QueuesFreed
  <2> QED BY <2>1, <2>2 DEF IInv
<1>2. CASE Next
      BY <1>2, CreateQueuesIInv, CheckQueuesIInv, AllocateFrameIInv, AllocatePixelsIInv,
         LruCacheCreateIInv, CreateThreadsIInv, EnterIInv, JoinThreadsIInv, ThreadTurnIInv,
         LoadProfileIInv, EndThreadIInv, DestroyLockIInv, FreeFrameIInv, FreeQueuesIInv,
         FreeCacheIInv
      DEF Next, camera_init, camera_deinit, Threads
<1> QED BY <1>1, <1>2

LEMMA SpecIInv == Spec => []IInv
      BY InitIInv, NextIInv, PTL DEF Spec

(* Nothing is used or freed after it was freed, whatever fails, for both   *)
(* threads are joined before camera_deinit (main.c:362-365) and it frees   *)
(* every block once; and nothing unset is used (camera_init, main.c:149)   *)
(* unless malloc or thrd_create has failed.                                *)
THEOREM SpecUndefinedOnlyAfterFailure == Spec => []UndefinedOnlyAfterFailure
<1>1. IInv => UndefinedOnlyAfterFailure
      BY DEF IInv
<1> QED BY <1>1, SpecIInv, PTL

(* No block is lost, whichever allocations fail: until it is freed it can  *)
(* be reached from the device, and camera_deinit leaves none.              *)
THEOREM SpecNoBlockLost == Spec => []NoBlockLost
<1>1. IInv => NoBlockLost
      BY DEF IInv, Freed, NoBlockLost
<1> QED BY <1>1, SpecIInv, PTL
=============================================================================
