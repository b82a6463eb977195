# A verification of LumaStream

LumaStream simulates a camera: a sensor thread records frames into a fixed pool
of buffers and an ISP thread processes them. Pointers to the buffers travel
through two ring buffers; an LRU cache keeps lens profiles; the buffers come
from an aligned allocator. Beside the C modules the camera is built from, the
repository has a ring buffer and an LRU cache in C++ with demos of their own.
This directory holds TLA+ models of all of them, TLC configurations that check
them, and TLAPS proofs. Paths below are relative to `src/` of the repository.

## Inventory

| part | state | operations | who calls it |
|---|---|---|---|
| C ring buffer, `modules/ring_buffer/C` | array of pointers, `reader`, `writer`, `count`, a mutex | `write_to_buffer` (ejects the oldest when full), `read_from_buffer` (does not block), `get_stale_recycled` (first pointer a callback accepts, closing the gap) | both loops |
| sensor loop, `src/main.c:232` | its buffer, two drop counters | take a free buffer, or recycle a waiting one, record, publish | thread |
| ISP loop, `src/main.c:293` | its buffer and profile, `processed_count` | take a frame, look up or load the profile, process, return the buffer, count, report | thread |
| main, `src/main.c:338` | `running` | init, start, wait for Enter, stop, join, deinit | |
| init and deinit, `src/main.c:145, 191` | the heap blocks of the device | allocate all or return early; free | main |
| C LRU cache, `modules/LRU_cache/C` | doubly linked list, hash chains, size | get, put, free | ISP loop, under `dev->lock`; a test suite |
| aligned allocator, `modules/aligned_malloc` | the heap, a hidden word per region | `aligned_malloc`, `free_aligned`, `is_aligned` | init, deinit |
| C++ ring buffer, `modules/ring_buffer/CPP` | array, indices, `full_`, mutex, two condition variables | put, get and peek with timeouts, putUnconditional, reset | a demo |
| C++ LRU cache, `modules/LRU_cache/CPP` | list with sentinels, map, mutex | get, put, print, destructor | test programs |

How they interact: the two loops share the two queues (each with its own mutex),
the fields of the buffers (handed over with the pointers; `state` by atomic
stores), and the device (`dev->lock` guards the cache and the counters). `main`
tells both loops to stop through the volatile flag `running`. Nothing in the
camera waits on a condition variable: the C ring buffer signals two of them, but
the wait is commented out (`ring_buffer.c:132`) and both loops poll. In the C++
ring buffer threads do wait, for a limited time.

What is hard here: the recycler and the ISP take from the same queue; the
recycler looks at the count before it locks; a gap is closed in the middle of a
wrapped array; ejected pointers are lost if a caller forgets them; the last report uses a buffer
that has been given back; shutdown has to wait for both threads; any allocation
and either `thrd_create` may fail and the rest of the program goes on; every notification wakes one
thread, which may be the wrong one or one whose time has just run out; nodes sit
in a list and a table that must be changed together; the only way back to
malloc's block is a word that lies among other people's data. `PROJECT.json`
lists these as hazards, each at its line with the properties that cover it.

## Modules

Camera:

* `FifoQueue` — what one call on a ring buffer does to its contents, seen as a
  sequence; used by `BoundedFifo`, `TimedQueue` and `CameraPipeline`.
* `BoundedFifo` — the promise of the C ring buffer: pointers are held by one
  party or queued, and each call is one indivisible step. A party is a thread or
  whoever else has pointers; these also change hands outside the queue
  (`Exchange`), as the camera's do through its other queue.
* `RingBuffer` — the C ring buffer at the grain of its slots, called by several
  threads. A call is: entry (`CallWrite`, `CallRead`, `CallRecycle`, the last
  with its unlocked look at the count), `Acquire`, then its steps under the
  mutex (`Eject`, `Push`; `ReadOldest`, `ReadNothing`; `ScanSkip`, `ScanFound`,
  `ScanNothing`, `Shift`, `CloseGap`). The last step of a call releases the
  mutex. A thread writes only pointers it holds, and pointers change hands beside the
  buffer except for those of a thread in a call: that is how both loops use it
  (`UsesQueues`).
* `MCRingBuffer` — adds the symmetry set for the run.
* `LossyStream` — the promise of the camera: recorded frames reach the consumer
  in order, each at most once, and only the oldest waiting frame is ever lost.
* `CameraPipeline` — both loops of `main.c`, the device lock, and main. A call
  on a ring buffer is one step (justified by `RefinesFifo`), except for the
  unlocked look at the count. `UsesQueues` states that both queues are used as
  `BoundedFifo` demands. Every other step is one access to shared state.
  Frames are numbered in the order of recording and `timestamp_ns` holds the
  number. The history variable `isp_frame` remembers which frame the ISP took.
* `CameraLifecycle` — `camera_init`, the threads and `camera_deinit` when any
  malloc and either `thrd_create` may fail: which fields of the device and which
  thread ids are set, which blocks are live, whether the lock is set or
  destroyed. A thread may take a turn from its creation until it has seen that
  `running` is FALSE, also while main is in `camera_deinit` if main did not wait
  for it. A step that uses something unset, or uses or frees something freed or
  destroyed, raises `undefined` and says which it was; the model stops there.

LRU caches:

* `LruOrder` — what get and put do to the recency order of the cached keys;
  used by `AbstractLru` and by `CameraPipeline`. `Follow` is what a loop over a
  linked list visits; both caches' lists are read with it.
* `AbstractLru` — the promise of an LRU cache: a put stores the value that was
  passed to it and a get finds the value stored last, at most `Capacity` keys are
  kept, and the one not used for longest goes first. The last call with its key
  and value is visible (`call`), so an implementation cannot do something else
  than what it was asked.
* `LruCache` — the C LRU cache pointer by pointer. The variable `cache` is the
  whole structure (head, tail, size, hash chains, and the heap of nodes, whose
  addresses are reused after a free); the C functions are operators of the same
  names from one cache to the next, and each call of a user is one action, split
  by its outcome: `GetHit`, `GetMiss`, `PutUpdate`, `PutNew`, `PutEvict`,
  `lru_cache_free`. The history variable `call` remembers the arguments of the
  last call. `live` is the set of heap blocks that were handed over as
  values and not freed. Keys have a width (`SignBit` is the weight of the highest bit),
  because `hash` casts them to `int`.
* `LruCacheOrder` — reads the recency order off the list (history variable
  `view`) and states that `LruCache` implements `AbstractLru`.
* `LruCacheTests` — the test suite `C/main.c` as scripts of calls on `LruCache`.
  It ties the model to the code: what the tests assert of the code holds of it.
* `LruCacheCpp` — the C++ cache: the list between its sentinels, the map, and
  the heap of nodes; `get` and `put` hold the mutex, so each is one step; `call`
  is as in `LruCache`. `print`
  takes one step per node and is modelled while nobody else calls.

Others:

* `AlignedMalloc` — requests, malloc's blocks, the hidden words and the regions
  of the callers, who fill them (which destroys the words the bytes overlap).
  Numbers wrap at `Modulus`. `malloc` is external: any free aligned place.
* `AlignedMallocBits` — the bit masks of the code against that arithmetic.
* `TimedQueue` — the promise of the C++ ring buffer: a bounded queue. A put adds
  its argument and gives up only at a moment when the queue is full
  (`PutGivesUp`), a get or a peek only when it is empty (`GivesUpWithoutItem`).
  The method and argument of the last call to end are visible (`ended`).
* `RingBufferCpp` — the C++ ring buffer. A method holds the mutex except while
  it waits, so every stretch between two waits is one step. A thread in a call
  is waiting, woken (by a notification or spuriously), or expired: it then looks
  a last time. A notification goes to any waiter. `methods` is the set of
  methods a program calls, `expiring` says whether its timeouts ever run out.
  The history variable `ended` is the method and argument of the last call that
  ended.
* `StreamDemo` — `ring_buffer.cpp`: a producer, a consumer that makes one get
  per word, and main's joins, on top of `RingBufferCpp`.

Proofs: `RingBuffer_proofs`, `CameraPipeline_proofs`, `CameraLifecycle_proofs`,
`LruCache_proofs`, `LruCacheCpp_proofs`, `RingBufferCpp_proofs` and
`AlignedMalloc_proofs` hold the theorems on the module in their name
  (`RingBufferCpp_proofs` also those on `StreamDemo`);
`Sequence_proofs` holds the lemmas on the operators of `FifoQueue` and
`LruOrder` that most of them cite.

Definitions whose name says what is wrong with them (`AdvanceUnbounded`,
`SensorReadyForgotten`, ...) are faulty variants of the definition that follows
them. They are not part of any specification: each shows that some property
notices that fault (`PROJECT.json`, "mutants").

## Runs

| run | bounds | what it shows |
|---|---|---|
| `ring` | 2 threads, 4 pointers, 3 slots, symmetry | types; the mutex excludes; indices and count agree at every step; no pointer is lost or duplicated; the array implements `BoundedFifo` |
| `pipeline_code` | the constants of `main.c`, 12 sensor iterations | every buffer has one owner; its state matches; no drop while frames wait; frames are accounted for; nothing is used after deinit |
| `pipeline_short` | 4 buffers, 3 process slots, 3 lenses, cache of 2, report every 2, 8 iterations | frames and profiles stay intact while in use, also when `write_to_buffer` ejects; the camera implements `LossyStream` and uses both queues as `BoundedFifo` demands; it stops when told, published frames move on, the sensor gets the lock |
| `lifecycle` | 6 buffers, 5 lenses, any allocation and either `thrd_create` may fail | nothing is used or freed after it was freed; nothing unset is used unless something failed; no block is lost |
| `c_lru` | keys that collide, one negative, one the most negative `int`; table of 3; capacity 3; 3 blocks; symmetry | list and table agree after every call; every value has one owner and is freed once; the structure implements `AbstractLru` |
| `c_lru_tests` | the scripts of the test suite | every assertion holds |
| `cpp_lru` | 4 keys with 0, 2 values, capacity 3 | list, map and heap agree; the structure implements `AbstractLru`, updates of a cached key included; what print shows |
| `cpp_ring` | 3 threads, 2 items, 2 slots; programs without `reset` and without `peek`; with and without timeouts | no notification is lost; the array and its flag implement `TimedQueue`: puts store their argument, a put gives up only on a full buffer and a get or peek only on an empty one; calls return; waiters are served |
| `stream` | the demo's 8 words and 4 slots, overwriting or not, with and without timeouts | the words received and buffered are in order, and nothing is lost but what gave up or was overwritten; main ends; the message arrives |
| `aligned` | 64 addresses, pointers of 2, sizes {0,1,5}, alignments {0,1,3,4,8}, 2 regions | regions are aligned and inside their blocks; hidden words survive; masks and arithmetic agree |
| `report_race`, `peek_takes_wakeup` | | see Findings |

Why the bounds are enough. The C ring buffer's behaviour depends on the position
of `reader`, on whether it is empty, full or between, and on where in the queue
the recycled pointer lies: three slots have a first, a middle and a last one,
and with four pointers the fourth write overflows. Two threads suffice for
every conflict under one mutex. `MaxIterations` bounds the turns of the sensor
loop: with six buffers, twelve turns fill the process queue, recycle from it,
let the ISP return buffers in between, and reach a counted drop. The report
after 30 frames is beyond that bound; `pipeline_short` sets it to 2.
`pipeline_short` uses parameters the code does not have (a process queue smaller
than the pool, as `DesignConsiderations.md:30` intends, and a lens that changes
with the buffer), because with the code's own constants `write_to_buffer` never
ejects and the cache never holds a second profile. So the give-back branch
(`main.c:265-269`) is dead code today, and frames lost there would not be
counted by any counter: `FramesAccounted` is checked for the code's constants
only, and says nothing about that branch. What it is about is the recycled
frame, which leaves the process queue in one step and is counted in a later one.
Only the ISP thread calls the cache, so no other thread evicts the profile it
works with: `ProfileAlive` says that an insertion at capacity never evicts the
profile just inserted.

The LRU caches have a head, a middle and a tail node with capacity 3, and chains
of several keys because the table has three places: so a node is removed at
every position of the list and of a chain, and evicted from a chain that holds
other keys. A user hands over a heap block once (that is how `isp_thread_loop`
uses the cache), and may pass NULL, so that the cache can be full while blocks
are free or with all three blocks in it. Numbers passed as values, which the
test suite uses, are not in this run, since freeing one is undefined; the proofs
allow them (`NotHeap`). The runs on the caches
may stop, after `lru_cache_free` or the destructor, and so may `lifecycle`,
after deinit or at an undefined step: these do not check deadlock.

Three threads on the C++ ring buffer are the fewest for a wake-up to go astray:
two that wait and one that notifies, or one that overtakes the woken one. All
programs of the repository call a subset of `put`, `putUnconditional`, `get`.
Liveness is checked of one thread, `Watched`, since all behave alike. In
`aligned`, the smallest power is below the pointer's size and the largest above
it, 3 and 0 are refused, and two regions are enough for one to overwrite the
other's word. The sizes of that run never wrap, so `RegionInBlock` and
`WordsIntact` say nothing of an overflow; `BitsAgree`, which goes through all
sizes below 64, and the theorem `WrapsGetTooLittle` do.

Fairness. `CameraPipeline`: weak fairness for each thread and for main's joins
(the scheduler runs them, and they poll), none for the user who presses Enter.
No strong fairness of the device lock is needed: a sensor that waits for the
lock publishes nothing, so the ISP runs out of frames and leaves the lock alone.
`RingBufferCpp`: weak fairness for a thread that was woken or whose time is over
(it gets the mutex at some time, since nobody keeps it) and for the timeouts of
programs that have them; nobody has to make a call. `StreamDemo`: weak fairness
for both threads, whose loops make their calls, and for the timeouts.

## Findings

* `report_race`: every 30th frame the ISP reports on a buffer it has already
  handed back (`main.c:323`, then `327`), while the sensor may be recording into
  it. `README.md:9` says the queues handle exclusivity.
* `peek_takes_wakeup`: `ring_buffer.h:196` says a get waits for the buffer to be
  not empty. A put notifies one thread; if that is a peek, the item stays, and a
  get beside it sleeps until its time is over. No program of the repository
  calls `peek`.

Where code and comments differ in a way the properties state exactly:

* The message "DROP! No buffers available" (`main.c:275`) may come with buffers
  available, if the ISP returns them between the sensor's two looks; but never
  while a frame waits (`NoDropWhileFramesWait`).
* `main.c:117` wants the lens to change every 10 frames but divides the buffer's
  fixed id, which is below 6: `lens_id` is always 0. `CameraPipeline` keeps the
  division (`LensOf`).
* `lru_cache.c:6` wants to handle negative keys; `abs` of the most negative
  `int` is not an `int`. `TableAgrees` says that this is the one key without a
  chain; what follows a call with it is undefined and not modelled.
* `lru_cache.c:196` wants to free a value only if it was allocated, but frees
  every value that is not NULL, also the numbers the tests store.
  `ValuesOwned` says that nothing else is freed wrongly: in the run, where every
  value is a block, nothing at all; `SpecValuesOwned` is about both kinds.
* `reset` (`ring_buffer.h:118`) makes room but wakes only those who wait for
  items: a waiting put relies on its timeout (`NoneStranded`, `WaitersServed`).
* `print` (`lru_cache_template.h:178`) stops at key 0, which a caller may use
  (`PrintShowsCache`), and takes no lock. Nothing calls it.
* `aligned_malloc.c:12` adds sizes without looking for overflow: `SumSuffices`
  says exactly which requests get a block that is too small.
  `is_aligned` takes alignments that are no powers of two: `MaskDecides` says
  that its answer is then not about multiples.
* `camera_init` (`main.c:157`) returns early and main goes on, and main does not
  look at what `thrd_create` returns (`main.c:350`) but joins both thread ids.
  Every use of something unset follows a failed allocation or a failed
  `thrd_create`, and even then nothing is used or freed after it was freed
  (`UndefinedOnlyAfterFailure`); what was allocated can still be reached
  (`NoBlockLost`).

## Proofs

### The C ring buffer (`RingBuffer_proofs`)

For every set of threads and pointers and every capacity above 0, from
`CapacityAssumption` (`create_ring_buffer` refuses 0) and `NullAssumption`:
`TypeCorrect`, `MutualExclusion`, `IndicesCorrect` and `NoUnsetSlotUsed` state
that `TypeOK`, `OnlyOwnerInside`, `IndicesAgree` and `UsedSlotsFilled` hold in
every behaviour of `Spec`.

The invariants are not inductive one by one. That the count stays below the
capacity when `Push` runs depends on what `Eject` left behind, and on nobody
having changed the count since, hence on mutual exclusion; that `CloseGap` puts
`writer` right depends on `IndicesAgree`; that `held` stays a set of pointers
depends on the used slots being filled. `CallsInOrder` says what each step of a
call relies on, and `IInv` is the conjunction. The arithmetic modulo the
capacity is confined to the lemmas on `Place`, `Advance` and `Retreat` at the
top; each action has a lemma, and `NextIInv` puts them together.

`EachPointerOnce` (`OnePlaceEach`) and `RingRefinesFifo` (`RefinesFifo`) need to
know what the array holds while a call is half done. `CallLocals` says what the
thread's locals are worth at each step: a pointer taken out of the
array is in the local `ejected` until the call returns it, and everything before
the place a recycler has come to is busy. The refinement mapping `Queue` is the array read from `reader`,
with the ejected pointer put back in front while `Push` is pending, and at the
gap while one is being closed; `QueuePlaces` says so place by place, for each
value of the program counter. In a gap that is half closed, one pointer lies in
two slots, and `Queue` counts it once. With that view `Push`, `ReadOldest`,
`ReadNothing`, `ScanNothing` and `CloseGap` are the steps of `BoundedFifo`, and
all others leave `Queue` and `held` alone. `OnePlaceEach` is `Owned` (the queue
and what the threads hold are disjoint and together all pointers), which the
steps of the abstract queue preserve, read back through the mapping. Pointers
that change hands beside the buffer (`Exchange`) leave every thread in a call its
own, so they disturb neither its locals nor the mapping.

### The camera (`CameraPipeline_proofs`)

For every size of the pool, of the process queue and of the profile cache, every
number of lenses, and every bound on the iterations, from `SizesAssumption` and
`NullAssumption`:

* `TypeCorrect`, `OneOwner`, `StateTellsOwner`, `FramesStayIntact`,
  `ProfileStaysAlive`, `DropsOnlyWithoutFrames`, `FreedAfterUse`: the safety
  properties of the runs `pipeline_code` and `pipeline_short`;
* `AllFramesAccounted`: the account of the frames, under the extra assumption
  that the process queue has room for the pool, as `camera_init` makes it.

The heart is `OneOwnerEach`. It needs `BuffersHeld`, which says at which steps a
loop's variable holds a buffer: then the queues, being without duplicates and
apart from what the loops hold, are never full when a buffer is given back
(`WriteQueueHasRoom`, from the pigeonhole lemma `DistinctLen`), so the ignored
result of `write_to_buffer` (`main.c:323`) is never a buffer. In turn
`OneOwnerEach` is what keeps the sensor's stores to `state`, `timestamp_ns` and
`lens_id` away from the ISP's buffer (`StateMatchesOwner`, `FrameIntact`), and
`StateMatchesOwner` is why the recycler always accepts the head of a queue that
is not empty (`RecycleFinds`), hence why a drop means an empty queue. `IInv` is
the conjunction; the module has one section for each conjunct, with one step per
action that can disturb it, and `StepIInv` puts the sections together.
`FramesAccounted` is kept out of `IInv` since it needs the extra assumption.

`CameraRefinesStream` states `RefinesStream`: every step of the camera is a step
of `LossyStream` or changes nothing it sees. The mapping reads the frame numbers
off the buffers of the process queue (`Waiting`), so it also has to be shown that
no store to `timestamp_ns` reaches a buffer that waits; that is `OneOwnerEach`
again. The guards of `LossyStream` need `FramesInOrder`: the waiting frames are
strictly increasing, newer than the frame the ISP took last, and older than the
one the sensor is about to publish, whichever buffers are recycled or ejected
between. It is stated as `WaitingFramesInOrder`; the action property
`IspNeverGoesBack` follows from it.

The theorems use the queues as sequences; that one call on the array behaves as
one step on the sequence is `RingRefinesFifo` above. That theorem holds of
callers who write only what they hold and who touch the state of their own
pointers only. `QueuesUsedAsPromised` (`UsesQueues`) shows that the camera's
loops are such callers, of the process queue and of the write queue: every step
of the camera is one step of the owner of a buffer in `BoundedFifo`, an
`Exchange` (what happens in one queue happens elsewhere for the other), or
nothing the queue sees. The write queue is stated from its first state in the
camera on, when `camera_init` has filled it. The proof rests on `OneOwnerEach` (a
buffer is nowhere twice, so what a loop writes is its own) and on
`WriteQueueHasRoom` (what the ISP ignores at `main.c:323` is never a buffer).

`LockReleased`: the ISP has `dev->lock` between two of its steps exactly at those
that load a profile and that report, so no path through its loop forgets to
unlock, and it never locks twice.

### Init and deinit (`CameraLifecycle_proofs`)

`SpecUndefinedOnlyAfterFailure` and `SpecNoBlockLost`, for every size of the pool
and every finite set of lenses (no more of them than buffers, so that nothing is
evicted), whether malloc and `thrd_create` may fail or not
(`LifecycleAssumption`). The invariant says how far `camera_init` has come: what
lies ahead is still unset (`Unassigned`), so no assignment loses a block; what
lies behind is set unless something failed (`Complete`), so nothing unset is
used. `Joined` says that a thread runs only between its creation and its join,
so none is left when `camera_deinit` begins; `Whole` says that every block a
pointer of the device leads to and that `camera_deinit` has not come to is
live. Together they exclude a use after free by a thread (`NothingDangles`) and a
double free by main, also after a failure: pointers that were freed are not
reset, so it matters that no free is repeated. `Freed` says that what lies behind
`camera_deinit` is gone, while all that is live can be reached from the device,
so that in the end nothing is left. `CacheThere` ties the profiles to the cache
they are in.

### The C LRU cache (`LruCache_proofs`)

`SpecTypeOK`, `SpecListLinked`, `SpecTableAgrees`, `SpecValuesOwned`, and
`CacheRefinesLru` (`RefinesLru`), for every capacity above 0, every table size,
every width of keys and every set of keys and values, from the assumptions of
`LruCache`: the highest bit is no multiple of the table's size and not below it
(as 2^31 and 100), which is what makes the most negative `int` the one key
without a chain; NULL is no address, key or value; a value is a heap block or
not, never both.

`Holds(c, l)` says that the links of a cache `c` lead through the list `l` in
both directions, and `TableHolds` that the chains have exactly one entry for each
node of `l`. Each C function has a lemma on what it does to `l`:
`remove_node` takes a place out of it, `add_to_front` puts one in front,
`hash_insert` and `hash_delete` add and take the entry. They hold at the points
inside a call too, where the heap has a node that is not on the list. A call is a
chain of these lemmas, and at its end the nodes on the heap are those of the list
and as many as `size` says (`Keeps`). `Owned` says that the live blocks are the
values of the nodes, no two of which share one. `IInv` is `Keeps` and `Owned`.

`ListLinked` speaks of walks along the links, not of `l`. `WalkFinds` connects
them: in a cache that holds `l`, following `next` from the head visits `l` and
following `prev` from the tail visits its reverse. `Follow` is a recursive
function, and the library's induction rule is out of the provers' reach;
`FollowFinds` in `Sequence_proofs` argues by the least number of steps at which
the walk would go wrong (`LeastNumber`). For the refinement `Shows` says what the
keys and values read off the list are, and each call's effect on the list is
translated into what `AbstractLru` does to its order and to its values: the value
a put was called with is the one found under its key, and all others stay. The
abstract cache sees the arguments through `call`.

### The C++ LRU cache (`LruCacheCpp_proofs`)

`SpecListLinked`, `SpecMapAgrees`, `CacheRefinesLru` and `SpecPrintShowsCache`,
for every capacity above 0, every set of integers as keys and every set of
values. The structure of the argument is the one above, with sentinels at both
ends (`HoldsList`), the map as the inverse of the keys of the list (`MapsList`),
and the same lemmas on walks. `DetachedIs` and `AttachedIs` say what the two
halves of a call do. `put` evicts by the size of the map and not of the list, so
`MapSize` shows, by cardinalities, that they are the same. `PrintInv` says how
far `print` has come on its way down the list: what was printed is the start of
the list's keys, none of them 0.

### The C++ ring buffer (`RingBufferCpp_proofs`)

For every finite set of threads, every set of items, every size above 0 and any
programs: `TypeCorrect` and `NoNotificationLost`. The invariant adds
`CallsKnown` (a thread in a call is in one of the program's blocking methods) to
`NoneStranded`. The argument counts: the size grows by at most one in a put, and
if a get waits then the put wakes one, so the threads on their way grow by one
as well (`notify_one` takes a waiter into `Awake`, and cardinalities follow); a
get takes one item and removes itself from `Awake` if it was there; a thread
that starts to wait for items, or gives up, has found none (`Unserved`). An
overtaking thread that never waited takes an item without having been counted,
which only helps. The lemmas on `Cardinality` come first, then one lemma per
method. `NeverAllAsleep` follows: when a thread waits for an item and another for
room, a thread is awake on its way to one of the two, because the items and the
free slots, which the threads awake are at least as many as, are together
`MaxSize`.

`RingRefinesQueue` states `RefinesQueue`. The mapping reads the items from
`remover` on, as many as `getSize` computes from the indices and the flag;
`ContentsInPlace` and the lemmas on `Place` say what an insertion, an overwriting
one and a removal do to it, at every position of the indices. That a put
gives up only when the buffer is full, and a get or a peek only when it is empty,
follows from the last look at the predicate of that method; `ended` shows which
method it was, with which argument.

### The demo (`RingBufferCpp_proofs`, second half)

From `DemoAssumption` alone (a producer and a consumer among the threads, the
words of the message among the items), whatever else the buffer is used for:

* `WordsIntact` (`StreamIntact`): the words received and then those buffered are
  in increasing order and are those sent without the dropped ones;
* `MessageInOrder` (`MessageSoFar`): with waits that never expire and nothing
  overwritten, the consumer's n-th get has returned the n-th word, so main
  prints the message as it was sent.

The demo makes only calls that any thread may make (`DemoIsProgram`), so the
invariant of the buffer holds of it. `DemoInv` adds to it `StreamIntact`, that
only words already sent were dropped, and, for a program that neither times out
nor overwrites, that no thread's wait has expired, nothing was dropped and every
turn has received one word. The lemmas on `Contents`, which the refinement
needs too, say what a put, an overwriting put and a get do to the buffered words:
a put appends the largest word so far, an overwriting one drops the oldest
buffered one. `MessageSoFar` follows because an increasing sequence of
all of `1 .. sent` counts up (`CountsUp`).

### The aligned allocator (`AlignedMalloc_proofs`)

For every width of addresses and sets of sizes and powers, under `NoOverflow`
(the sum of size, alignment and header does not wrap, which `aligned_malloc`
does not check): `RegionsInBlocks` and `WordsStayIntact`. The invariant adds
that blocks of malloc do not overlap (`BlocksApart`). A word lies in its own
block and below its region; so a store into one region, or a new word, can only
touch another's word if two blocks overlap. Rounding down is the one piece of
arithmetic, in the lemmas at the top. `WrapsGetTooLittle` (`SumSuffices`) shows
that `NoOverflow` is as weak as it can be: a request whose sum wraps always gets
a block too small for its region and word (`aligned_malloc.c:13`).

### Only model-checked

* `AssertionsHold`: a run of fixed scripts, with nothing to generalise.
* `BitsAgree`: the module `Bitwise` is outside the prover's reach. Its part
  without bit masks, `SumSuffices`, is proved.
* All liveness properties (`StopsWhenTold`, `FramesMoveOn`, `SensorGetsLock`,
  `CallsReturn`, `WaitersServed`, `DemoEnds`, `MessageArrives`): fairness and
  ENABLED are outside the prover's reach as well.
* Between the proofs and the code lies the grain of the models: that a call of the
  camera on a ring buffer is one step is proved (`RingRefinesFifo`), that a method
  under a mutex is one step is the usual argument and not a theorem.

## What is left

All components of the program's own logic have a model, every safety property
that a run checks is a theorem but for the two named above, and every refinement
is proved. Not proved are facts about the abstract specifications alone, such
as that `AbstractLru` never holds a key twice nor more than `Capacity` keys; the
proofs about the modules that implement them do not need these. That the steps of
`BoundedFifo` lose and duplicate no pointer is the lemma `FifoKeepsOwned`.

## Not modelled

* Failures of `mtx_init` and `cnd_init`, whose results nobody looks at, and what
  `thrd_join` returns. Joining a thread id that was never set, and whatever else
  is undefined, ends the behaviour in `CameraLifecycle`; what a program does
  after that is not modelled. A data race is not among what that module calls
  undefined: the one there is, at `main.c:327`, is the finding of `report_race`.
* Pixels and gains (no property depends on their values), the text of messages,
  the durations of sleeps (a sleep only delays, so every order of steps is
  possible), the wrap-around of the 32-bit counters and of the 64-bit clock.
* The queries of both ring buffers (`buffer_space_available`, `getSize`, ...), which change
  nothing; the print functions of the C cache.
* Capacity 0 of the caches: every put then ends at once in a NULL dereference
  (C) or frees a sentinel (C++); nobody in the repository asks for it.
* `lru_cache.cpp` and `multithreaded_main.cpp`: threads that put and get in
  loops. Both methods are atomic, so every order of their calls is a behaviour
  of `LruCacheCpp`, and the programs assert nothing about what a get returns.
  `multithreaded_main.cpp` does not compile (line 42 streams an optional).
* `ring_buffer/C/test_main.c`, written for an older interface, does not compile
  against the present one; `aligned_malloc.cpp` has empty bodies.
