---------------------------- MODULE LruCacheTests ----------------------------
(***************************************************************************)
(* The test suite of the C cache (modules/LRU_cache/C/main.c), run on the  *)
(* model of the cache: each test is a capacity and a script of calls with  *)
(* what its assertions expect.  The tests store numbers where the cache    *)
(* expects blocks it may free; here every number is a block of its own.    *)
(***************************************************************************)
EXTENDS SequencesExt, Integers

CONSTANTS SignBit, HASH_SIZE, NULL

VARIABLES cache, live, misfreed, freed, result,  \* of LruCache
          test,  \* the test that runs
          step   \* the calls it has made

cacheVars == <<cache, live, misfreed, freed, result>>
vars == <<cacheVars, test, step>>

put(k, v) == [op |-> "put", key |-> k, value |-> v]
get(k, v) == [op |-> "get", key |-> k, value |-> v]
size(n) == [op |-> "size", key |-> 0, value |-> n]
Script(capacity, calls) == [capacity |-> capacity, calls |-> calls]

(* -k as an unsigned key; i * 10 as a pointer, where 0 is the null pointer. *)
Minus(k) == 2 * SignBit - k
Tenfold(i) == IF i = 0 THEN NULL ELSE i * 10
Puts(from, to) == [n \in 1 .. to - from + 1 |-> put(from + n - 1, Tenfold(from + n - 1))]
Gets(from, to) == [n \in 1 .. to - from + 1 |-> get(from + n - 1, Tenfold(from + n - 1))]
Misses(from, to) == [n \in 1 .. to - from + 1 |-> get(from + n - 1, NULL)]

test_cache_creation == Script(5, <<size(0)>>)
test_single_element ==
  Script(3, <<put(1, 100), size(1), get(1, 100), get(999, NULL)>>)
test_multiple_insertions == Script(5, Puts(1, 3) \o <<size(3)>> \o Gets(1, 3))
test_lru_eviction == Script(3, Puts(1, 4) \o <<size(3), get(1, NULL), get(4, 40)>>)
test_get_updates_recency ==
  Script(3, Puts(1, 3) \o <<get(1, 10), put(4, 40), get(1, 10), get(2, NULL)>>)
test_update_existing_key ==
  Script(3, Puts(1, 3) \o <<put(1, 999), get(1, 999), size(3)>>)
Colliding == <<get(1, 10), get(101, 1010), get(201, 2010)>>
test_hash_collisions ==
  Script(10, <<put(1, 10), put(101, 1010), put(201, 2010)>> \o Colliding
             \o <<put(999, 9999)>> \o Colliding)
test_capacity_one ==
  Script(1, <<put(1, 10), get(1, 10), put(2, 20), get(1, NULL), get(2, 20)>>)
test_sequential_evictions == Script(3, Puts(1, 6) \o Misses(1, 3) \o Gets(4, 6))
test_alternating_access ==
  Script(2, Puts(1, 2) \o <<get(1, 10), get(2, 20), get(1, 10), put(3, 30),
                            get(1, 10), get(2, NULL), get(3, 30)>>)
test_negative_keys ==
  LET keys == <<Minus(1), Minus(100), Minus(999)>>
      values == <<10, 100, 999>>
  IN Script(3, [n \in 1 .. 3 |-> put(keys[n], values[n])]
               \o [n \in 1 .. 3 |-> get(keys[n], values[n])])
Many == 30  \* a bound: 500 in the code
test_large_capacity ==
  Script(2 * Many, Puts(0, Many - 1) \o <<size(Many)>> \o Gets(0, Many - 1))
test_stress_evictions ==
  Script(10, Puts(0, 99) \o <<size(10)>> \o Misses(0, 89) \o Gets(90, 99))

main ==
  <<test_cache_creation, test_single_element, test_multiple_insertions,
    test_lru_eviction, test_get_updates_recency, test_update_existing_key,
    test_hash_collisions, test_capacity_one, test_sequential_evictions,
    test_alternating_access, test_negative_keys, test_large_capacity,
    test_stress_evictions>>

Calls == main[test].calls
Keys == {call.key : call \in UNION {ToSet(main[n].calls) : n \in DOMAIN main}}

(* The cache a test creates; step tells which call was the last one.       *)
Cache(capacity) ==
  INSTANCE LruCache WITH
    Capacity <- capacity, Heap <- 1 .. 10000, NotHeap <- {}, call <- step

Init == test \in DOMAIN main /\ step = 0 /\ Cache(1)!lru_cache_create

Perform(call) ==
  \E capacity \in {main[test].capacity} :
    \/ /\ call.op = "put"
       /\ \/ Cache(capacity)!PutUpdate(call.key, call.value)
          \/ Cache(capacity)!PutNew(call.key, call.value)
          \/ Cache(capacity)!PutEvict(call.key, call.value)
    \/ /\ call.op = "get"
       /\ Cache(capacity)!GetHit(call.key) \/ Cache(capacity)!GetMiss(call.key)
    \/ call.op = "size" /\ UNCHANGED cacheVars

Advance ==
  /\ step < Len(Calls)
  /\ Perform(Calls[step + 1])
  /\ step' = step + 1
  /\ UNCHANGED test

Free ==
  /\ step = Len(Calls) /\ ~freed
  /\ \E capacity \in {main[test].capacity} : Cache(capacity)!lru_cache_free
  /\ UNCHANGED <<test, step>>

Finished == freed /\ UNCHANGED vars

Next == Advance \/ Free \/ Finished
Spec == Init /\ [][Next]_vars

-----------------------------------------------------------------------------
(* Every assertion of the suite holds.                                     *)
AssertionsHold ==
  step > 0 /\ ~freed => LET call == Calls[step] IN
    /\ call.op = "get" => result = call.value
    /\ call.op = "size" =>
         cache.size = call.value /\ (call.value < 2 => cache.head = cache.tail)
=============================================================================
