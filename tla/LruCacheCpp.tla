----------------------------- MODULE LruCacheCpp -----------------------------
(***************************************************************************)
(* The C++ LRU cache (modules/LRU_cache/CPP/lru_cache_template.h): a       *)
(* doubly linked list between two sentinels, last used first, and a map    *)
(* from keys to nodes.  put and get hold the mutex from the first line to  *)
(* the last, so each is one step whatever thread calls it.  print takes no *)
(* mutex: it is one step per node, here while nobody else is in a call     *)
(* (beside a put it may stand at a freed node).  Freed addresses are used  *)
(* again.                                                                  *)
(*                                                                         *)
(* Node's constructor leaves prev and next unset, and the links of freed   *)
(* nodes are gone.  A step that would follow such a link is not taken: the *)
(* invariants say that there is none.                                      *)
(***************************************************************************)
EXTENDS LruOrder

CONSTANTS
  Keys,         \* the keys callers use, ints
  Values,       \* the values they store
  Capacity,     \* the argument of the constructor
  NULL, UNSET

ASSUME CapacityAssumption == Capacity \in Nat \ {0}
ASSUME KeysAssumption == Keys \subseteq Int
ASSUME NullAssumption == NULL \notin Values \cup Int /\ UNSET \notin Values \cup {NULL}

VARIABLES
  nodes,      \* the nodes allocated, sentinels included: address -> Node
  cache_map,  \* key -> address
  result,     \* what the last call has returned, NULL for nullopt and void
  call,       \* history: the last call with its key and value
  destroyed,  \* TRUE after the destructor
  curr,       \* the local of print, NULL while nobody prints
  printed,    \* the keys print has shown since it was called
  listed      \* history: the list as Walk finds it, computed once per state

vars == <<nodes, cache_map, result, call, destroyed, curr, printed, listed>>

Head0 == 0
Tail0 == Capacity + 2
Addresses == 1 .. Capacity + 1

Node(key, value) == [key |-> key, value |-> value, prev |-> UNSET, next |-> UNSET]
Added(f, x, v) == [y \in DOMAIN f \cup {x} |-> IF y = x THEN v ELSE f[y]]

Init ==
  /\ nodes = [a \in {Head0, Tail0} |->
                IF a = Head0 THEN [Node(0, NULL) EXCEPT !.next = Tail0]
                             ELSE [Node(0, NULL) EXCEPT !.prev = Head0]]
  /\ cache_map = <<>>
  /\ result = NULL /\ call = <<"create">> /\ destroyed = FALSE
  /\ curr = NULL /\ printed = <<>>
  /\ listed = <<>>

-----------------------------------------------------------------------------
(* The list: operators from one set of nodes to the next.                  *)

insertNodeForgettingPrev(heap, node) ==
  LET old_mru == heap[Head0].next
  IN [heap EXCEPT ![node].next = old_mru, ![old_mru].prev = node, ![Head0].next = node]

insertNode(heap, node) ==
  LET old_mru == heap[Head0].next
  IN [heap EXCEPT ![node].next = old_mru, ![old_mru].prev = node,
                  ![node].prev = Head0, ![Head0].next = node]

deleteNode(heap, node) ==
  LET prevv == heap[node].prev
      nextt == heap[node].next
  IN [heap EXCEPT ![prevv].next = nextt, ![nextt].prev = prevv]

(* The links deleteNode follows lead to nodes.                             *)
Removable(heap, node) ==
  node \in DOMAIN heap /\ {heap[node].prev, heap[node].next} \subseteq DOMAIN heap

Free(heap, node) == Restrict(heap, DOMAIN heap \ {node})
NewAddress == CHOOSE a \in Addresses : a \notin DOMAIN nodes

(* The nodes between the sentinels, last used first.                       *)
Walk(heap) ==
  Front(Follow(heap[Head0].next, [a \in Addresses \cap DOMAIN heap |-> heap[a].next],
               Capacity + 1))

-----------------------------------------------------------------------------
(* The methods.                                                            *)

GetHit(key) ==
  /\ key \in DOMAIN cache_map
  /\ LET node == cache_map[key] IN
     /\ Removable(nodes, node)
     /\ result' = nodes[node].value
     /\ nodes' = insertNode(deleteNode(nodes, node), node)
  /\ UNCHANGED <<cache_map, destroyed>>

GetMiss(key) ==
  /\ key \notin DOMAIN cache_map
  /\ result' = NULL
  /\ UNCHANGED <<nodes, cache_map, destroyed>>

EvictionDue(map) == Cardinality(DOMAIN map) > Capacity

(* The stages of put: the node leaves the list, or is allocated and        *)
(* entered; at capacity the last node goes; the node is put in front.      *)
NodeFor(key) == IF key \in DOMAIN cache_map THEN cache_map[key] ELSE NewAddress
Entered(key) == Added(cache_map, key, NodeFor(key))
Detached(key) ==
  IF key \in DOMAIN cache_map THEN deleteNode(nodes, NodeFor(key))
                              ELSE Added(nodes, NodeFor(key), Node(key, NULL))
Attached(heap, node, value) == insertNode([heap EXCEPT ![node].value = value], node)

PutForgettingValue(key, value) ==
  /\ key \in DOMAIN cache_map => Removable(nodes, NodeFor(key))
  /\ ~EvictionDue(Entered(key))
  /\ cache_map' = Entered(key)
  /\ nodes' = insertNode(Detached(key), NodeFor(key))
  /\ result' = NULL /\ UNCHANGED destroyed

PutKeepingOldValue(key, value) ==
  /\ key \in DOMAIN cache_map => Removable(nodes, NodeFor(key))
  /\ ~EvictionDue(Entered(key))
  /\ cache_map' = Entered(key)
  /\ nodes' = Attached(Detached(key), NodeFor(key),
                       IF key \in DOMAIN cache_map THEN nodes[NodeFor(key)].value ELSE value)
  /\ result' = NULL /\ UNCHANGED destroyed

PutNoEviction(key, value) ==
  /\ key \in DOMAIN cache_map => Removable(nodes, NodeFor(key))
  /\ ~EvictionDue(Entered(key))
  /\ cache_map' = Entered(key)
  /\ nodes' = Attached(Detached(key), NodeFor(key), value)
  /\ result' = NULL /\ UNCHANGED destroyed

Lru(key) == Detached(key)[Tail0].prev

PutEvict(key, value) ==
  /\ EvictionDue(Entered(key)) /\ Removable(Detached(key), Lru(key))
  /\ cache_map' = Restrict(Entered(key), DOMAIN Entered(key) \ {Detached(key)[Lru(key)].key})
  /\ nodes' = Attached(Free(deleteNode(Detached(key), Lru(key)), Lru(key)), NodeFor(key), value)
  /\ result' = NULL /\ UNCHANGED destroyed

Call(key) ==
  /\ \/ (GetHit(key) \/ GetMiss(key)) /\ call' = <<"get", key>>
     \/ \E value \in Values :
          /\ PutNoEviction(key, value) \/ PutEvict(key, value)
          /\ call' = <<"put", key, value>>
  /\ curr = NULL
  /\ UNCHANGED <<curr, printed>>

-----------------------------------------------------------------------------
(* print reads the node it stands at, then goes on to the next.            *)

PrintStart ==
  /\ curr = NULL
  /\ curr' = nodes[Head0].next
  /\ printed' = <<>>
  /\ UNCHANGED <<nodes, cache_map, result, destroyed>>

PrintNodeAfter ==
  /\ curr \in DOMAIN nodes /\ nodes[curr].key # 0
  /\ curr' = nodes[curr].next
  /\ printed' = IF nodes[curr'].key = 0 THEN printed ELSE Append(printed, nodes[curr'].key)
  /\ UNCHANGED <<nodes, cache_map, result, destroyed>>

PrintNode ==
  /\ curr \in DOMAIN nodes /\ nodes[curr].key # 0
  /\ printed' = Append(printed, nodes[curr].key)
  /\ curr' = nodes[curr].next
  /\ UNCHANGED <<nodes, cache_map, result, destroyed>>

PrintEnd ==
  /\ curr \in DOMAIN nodes /\ nodes[curr].key = 0
  /\ curr' = NULL
  /\ UNCHANGED <<nodes, cache_map, result, destroyed, printed>>

(* ~LRUCache deletes what lies between the sentinels, then the sentinels.  *)
Destroy ==
  /\ destroyed' = TRUE /\ curr = NULL
  /\ nodes' = Restrict(nodes, DOMAIN nodes \ (ToSet(listed) \cup {Head0, Tail0}))
  /\ cache_map' = <<>>
  /\ result' = NULL /\ UNCHANGED <<curr, printed>>

Next ==
  /\ ~destroyed
  /\ \/ \E key \in Keys : Call(key)
     \/ (PrintStart \/ PrintNode \/ PrintEnd) /\ UNCHANGED call
     \/ Destroy /\ call' = <<"free">>
  /\ listed' = IF destroyed' THEN <<>> ELSE Walk(nodes')

Spec == Init /\ [][Next]_vars

-----------------------------------------------------------------------------
KeysListed == [k \in DOMAIN listed |-> nodes[listed[k]].key]

(* No call would follow a link to nowhere: what is evicted is a node of    *)
(* the list, never a sentinel, and what a get or put moves is still there. *)
CallsStayInList ==
  \A key \in Keys :
    /\ key \in DOMAIN cache_map => Removable(nodes, cache_map[key])
    /\ EvictionDue(Entered(key)) => Removable(Detached(key), Lru(key))

(* Between two calls the list is one list in both directions, every node   *)
(* allocated is on it once, and no link is unset or leads to a freed node; *)
(* after the destructor nothing is left.                                   *)
ListLinked ==
  LET line == <<Head0>> \o listed \o <<Tail0>> IN
  IF destroyed THEN nodes = <<>>
  ELSE /\ IsInjective(line) /\ ToSet(line) = DOMAIN nodes
       /\ \A k \in 1 .. Len(line) - 1 :
            nodes[line[k]].next = line[k + 1] /\ nodes[line[k + 1]].prev = line[k]
       /\ CallsStayInList

(* List and map agree: the map leads from the key of every listed node to  *)
(* that node and has no other entries, so none leads to a freed node; and  *)
(* each listed node holds a value that was put.                            *)
MapAgrees ==
  /\ IsInjective(KeysListed) /\ DOMAIN cache_map = ToSet(KeysListed)
  /\ \A k \in DOMAIN listed :
       cache_map[KeysListed[k]] = listed[k] /\ nodes[listed[k]].value \in Values

(* lru_cache_template.h:51, "Prints current cache_map": print shows the    *)
(* cached keys, last used first, but takes key 0, which it may cache, for  *)
(* the end.                                                                *)
PrintShowsCache ==
  [][curr # NULL /\ curr' = NULL =>
       printed = SubSeq(KeysListed, 1, (SelectInSeq(KeysListed \o <<0>>, LAMBDA k : k = 0)) - 1)]_vars

(* The structure behaves as an LRU cache: a get finds the value that was   *)
(* put last under its key, a put stores the value it was called with, and  *)
(* what it evicts is the key that was not used for longest.                *)
Cached == INSTANCE AbstractLru WITH
  order <- KeysListed,
  stored <- [key \in DOMAIN cache_map |-> nodes[cache_map[key]].value]
RefinesLru == Cached!Spec
=============================================================================
