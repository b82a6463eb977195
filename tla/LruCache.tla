------------------------------ MODULE LruCache ------------------------------
(***************************************************************************)
(* The C LRU cache (modules/LRU_cache/C/lru_cache.c) with its pointers:    *)
(* nodes in a doubly linked list, last used first, and a hash table of     *)
(* chains that lead to them.  `cache' is the structure lru_cache_t, and    *)
(* the functions of the source are operators from one cache to the next.   *)
(* Chains are sequences of entries; the nodes of the list are on a heap of *)
(* addresses that are used again once they are freed.                      *)
(*                                                                         *)
(* The cache frees the values it drops, so it owns the heap block it is    *)
(* given: a caller hands over a block once, as isp_thread_loop does.       *)
(* Allocation does not fail here.                                          *)
(***************************************************************************)
EXTENDS LruOrder

CONSTANTS
  Keys,       \* the keys callers use, unsigned
  SignBit,    \* the weight of the highest bit of a key: 2^31 in the code
  HASH_SIZE,  \* 100 in the code
  Capacity,   \* the capacity passed to lru_cache_create
  Heap,       \* blocks a caller may allocate for a value
  NotHeap,    \* values that are no heap block, such as numbers cast to void*
  NULL

ASSUME CapacityAssumption == Capacity \in Nat \ {0}
ASSUME HashAssumption ==
  /\ HASH_SIZE \in Nat \ {0} /\ SignBit \in Nat \ {0}
  /\ Keys \subseteq 0 .. 2 * SignBit - 1
(* As 100 and 2^31 are: the index of the most negative int misses the table. *)
ASSUME OverflowAssumption == HASH_SIZE <= SignBit /\ SignBit % HASH_SIZE # 0
ASSUME NullAssumption == NULL \notin Heap \cup NotHeap \cup Nat /\ Heap \cap NotHeap = {}

VARIABLES
  cache,     \* lru_cache_t, and the nodes allocated for it
  live,      \* heap blocks of values allocated and not yet freed
  misfreed,  \* values freed that were not live
  freed,     \* TRUE after lru_cache_free
  result,    \* what the last call returned, NULL if it was no lru_cache_get
  call       \* history: the last call with its key and value

vars == <<cache, live, misfreed, freed, result, call>>

Addresses == 1 .. Capacity + 1
Indices == 0 .. HASH_SIZE - 1

(* abs takes the key as an int; abs(INT_MIN) is undefined and gives INT_MIN *)
(* on the machines at hand; the remainder has the sign of its left operand *)
(* and is turned back into an unsigned number.                             *)
ToInt(key) == IF key < SignBit THEN key ELSE key - 2 * SignBit
Abs(x) == IF x < 0 /\ x # -SignBit THEN -x ELSE x
hash(key) ==
  LET a == Abs(ToInt(key))
  IN IF a >= 0 THEN a % HASH_SIZE
               ELSE (2 * SignBit - ((-a) % HASH_SIZE)) % (2 * SignBit)

EmptyCache ==
  [head |-> NULL, tail |-> NULL, size |-> 0, nodes |-> <<>>,
   hash_table |-> [index \in Indices |-> <<>>]]

lru_cache_create ==
  /\ cache = EmptyCache
  /\ live = {} /\ misfreed = {} /\ freed = FALSE /\ result = NULL

-----------------------------------------------------------------------------
(* The list.                                                               *)

NewAddress(c) == CHOOSE a \in Addresses : a \notin DOMAIN c.nodes

create_node(c, key, value) ==
  LET node == NewAddress(c)
  IN [c EXCEPT !.nodes = [a \in DOMAIN @ \cup {node} |->
        IF a = node THEN [key |-> key, value |-> value, prev |-> NULL, next |-> NULL] ELSE @[a]]]

RemoveNodeKeepingTail(c, node) ==
  LET prev == c.nodes[node].prev
      next == c.nodes[node].next
      c1 == IF prev # NULL THEN [c EXCEPT !.nodes[prev].next = next]
                           ELSE [c EXCEPT !.head = next]
  IN IF next # NULL THEN [c1 EXCEPT !.nodes[next].prev = prev] ELSE c1

remove_node(c, node) ==
  LET prev == c.nodes[node].prev
      next == c.nodes[node].next
      c1 == IF prev # NULL THEN [c EXCEPT !.nodes[prev].next = next]
                           ELSE [c EXCEPT !.head = next]
  IN IF next # NULL THEN [c1 EXCEPT !.nodes[next].prev = prev]
                    ELSE [c1 EXCEPT !.tail = prev]

add_to_front(c, node) ==
  LET c1 == [c EXCEPT !.nodes[node].next = c.head, !.nodes[node].prev = NULL]
      c2 == IF c.head # NULL THEN [c1 EXCEPT !.nodes[c.head].prev = node] ELSE c1
  IN [c2 EXCEPT !.head = node, !.tail = IF @ = NULL THEN node ELSE @]

move_to_front(c, node) == add_to_front(remove_node(c, node), node)

free_node(c, node) == [c EXCEPT !.nodes = Restrict(@, DOMAIN @ \ {node})]

-----------------------------------------------------------------------------
(* The hash table.                                                         *)

EntryAt(c, key) ==
  SelectInSeq(c.hash_table[hash(key)], LAMBDA entry : entry.key = key)

hash_insert(c, key, node) ==
  [c EXCEPT !.hash_table[hash(key)] = <<[key |-> key, node |-> node]>> \o @]

hash_get(c, key) ==
  IF EntryAt(c, key) = 0 THEN NULL ELSE c.hash_table[hash(key)][EntryAt(c, key)].node

HashDeleteFirst(c, key) ==
  IF EntryAt(c, key) = 0 THEN c ELSE [c EXCEPT !.hash_table[hash(key)] = Tail(@)]

hash_delete(c, key) ==
  IF EntryAt(c, key) = 0 THEN c
  ELSE [c EXCEPT !.hash_table[hash(key)] = RemoveAt(@, EntryAt(c, key))]

-----------------------------------------------------------------------------
(* The calls.                                                              *)

(* free(old) while the caller hands over new.                              *)
Replace(old, new) ==
  /\ live' = (live \ {old}) \cup ({new} \cap Heap)
  /\ misfreed' = misfreed \cup ({old} \ (live \cup {NULL}))

GetHitInPlace(key) ==
  LET node == hash_get(cache, key) IN
  /\ node # NULL
  /\ result' = cache.nodes[node].value
  /\ UNCHANGED <<cache, live, misfreed, freed>>

GetHit(key) ==
  LET node == hash_get(cache, key) IN
  /\ node # NULL
  /\ cache' = move_to_front(cache, node)
  /\ result' = cache.nodes[node].value
  /\ UNCHANGED <<live, misfreed, freed>>

GetMiss(key) ==
  /\ hash_get(cache, key) = NULL
  /\ result' = NULL
  /\ UNCHANGED <<cache, live, misfreed, freed>>

PutUpdateLeaking(key, value) ==
  LET node == hash_get(cache, key) IN
  /\ node # NULL
  /\ Replace(NULL, value)
  /\ cache' = move_to_front([cache EXCEPT !.nodes[node].value = value], node)
  /\ result' = NULL /\ UNCHANGED freed

PutUpdate(key, value) ==
  LET node == hash_get(cache, key) IN
  /\ node # NULL
  /\ Replace(cache.nodes[node].value, value)
  /\ cache' = move_to_front([cache EXCEPT !.nodes[node].value = value], node)
  /\ result' = NULL /\ UNCHANGED freed

(* The end of lru_cache_put: the node it has created goes in.              *)
Linked(c, key, node) ==
  [hash_insert(add_to_front(c, node), key, node) EXCEPT !.size = @ + 1]

PutNew(key, value) ==
  /\ hash_get(cache, key) = NULL
  /\ cache.size # Capacity
  /\ cache' = Linked(create_node(cache, key, value), key, NewAddress(cache))
  /\ Replace(NULL, value)
  /\ result' = NULL /\ UNCHANGED freed

Evicted(c) ==
  LET lru == c.tail
  IN [free_node(remove_node(hash_delete(c, c.nodes[lru].key), lru), lru)
        EXCEPT !.size = @ - 1]

PutEvict(key, value) ==
  /\ hash_get(cache, key) = NULL
  /\ cache.size = Capacity
  /\ cache' = Linked(Evicted(create_node(cache, key, value)), key, NewAddress(cache))
  /\ Replace(cache.nodes[cache.tail].value, value)
  /\ result' = NULL /\ UNCHANGED freed

(* The nodes met from `from' along the links, until a link is NULL or      *)
(* leads to a freed node.                                                  *)
Walk(from, links) ==
  LET met == Follow(from, links, Capacity + 1)
  IN IF Last(met) = NULL THEN Front(met) ELSE met

Forward(c) == Walk(c.head, [a \in DOMAIN c.nodes |-> c.nodes[a].next])
Backward(c) == Walk(c.tail, [a \in DOMAIN c.nodes |-> c.nodes[a].prev])

ValuesOf(c) == {c.nodes[a].value : a \in ToSet(Forward(c))} \ {NULL}

lru_cache_free ==
  /\ freed' = TRUE
  /\ misfreed' = misfreed \cup (ValuesOf(cache) \ live)
  /\ live' = live \ ValuesOf(cache)
  /\ cache' =
       [EmptyCache EXCEPT !.nodes =
          Restrict(cache.nodes, DOMAIN cache.nodes \ ToSet(Forward(cache)))]
  /\ result' = NULL

(* With a key whose index lies outside the table what happens is undefined, *)
(* and not modelled: TableAgrees says which key that is.                   *)
Call(key) ==
  /\ hash(key) \in Indices
  /\ \/ (GetHit(key) \/ GetMiss(key)) /\ call' = <<"get", key>>
     \/ \E value \in (Heap \ live) \cup NotHeap \cup {NULL} :
          /\ PutUpdate(key, value) \/ PutNew(key, value) \/ PutEvict(key, value)
          /\ call' = <<"put", key, value>>

Next ==
  /\ ~freed
  /\ \/ \E key \in Keys : Call(key)
     \/ lru_cache_free /\ call' = <<"free">>

Init == lru_cache_create /\ call = <<"create">>
Spec == Init /\ [][Next]_vars
-----------------------------------------------------------------------------
Pointers == Addresses \cup {NULL}
AllValues == Heap \cup NotHeap \cup {NULL}

TypeOK ==
  /\ cache.head \in Pointers /\ cache.tail \in Pointers
  /\ cache.size \in 0 .. Capacity
  /\ DOMAIN cache.nodes \subseteq Addresses
  /\ \A a \in DOMAIN cache.nodes :
       cache.nodes[a] \in [key : Keys, value : AllValues, prev : Pointers, next : Pointers]
  /\ DOMAIN cache.hash_table = Indices
  /\ live \subseteq Heap /\ misfreed \subseteq AllValues
  /\ freed \in BOOLEAN /\ result \in AllValues

(* The list is one list whichever way it is walked, every allocated node   *)
(* is on it, size counts them, and no link leads to a freed node.          *)
ListLinked ==
  LET list == Forward(cache)
  IN /\ list = Reverse(Backward(cache))
     /\ IsInjective(list)
     /\ ToSet(list) = DOMAIN cache.nodes
     /\ Len(list) = cache.size

(* List and table agree: each listed node has exactly one entry, in the    *)
(* chain of its key, and there are no other entries; so a key is cached at *)
(* most once and no entry leads to a freed node.  lru_cache.c:6, "handle   *)
(* negative keys": every key has a chain but the most negative int.        *)
TableAgrees ==
  LET Entries(index) == ToSet(cache.hash_table[index])
  IN /\ \A key \in Keys : hash(key) \in Indices <=> key # SignBit
     /\ \A index \in Indices :
          /\ IsInjective(cache.hash_table[index])
          /\ Entries(index) =
               {[key |-> cache.nodes[a].key, node |-> a] :
                  a \in {b \in DOMAIN cache.nodes : hash(cache.nodes[b].key) = index}}
     /\ \A a, b \in DOMAIN cache.nodes :
          cache.nodes[a].key = cache.nodes[b].key => a = b

(* Values are neither leaked nor freed twice nor freed while cached: the   *)
(* live blocks are those of the listed nodes, one node each; after         *)
(* lru_cache_free no node and no block is left.  lru_cache.c:196, "Only    *)
(* free if dynamically allocated": what else is passed to free is a value  *)
(* that was never a block, as the tests of the directory store.            *)
ValuesOwned ==
  /\ misfreed \subseteq NotHeap
  /\ live = ValuesOf(cache) \cap Heap
  /\ \A a, b \in DOMAIN cache.nodes :
       a # b => cache.nodes[a].value \notin live \/ cache.nodes[a].value # cache.nodes[b].value
  /\ freed => DOMAIN cache.nodes = {}
=============================================================================
