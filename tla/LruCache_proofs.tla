-------------------------- MODULE LruCache_proofs --------------------------
(***************************************************************************)
(* Proofs about LruCache.tla and LruCacheOrder.tla for every capacity,     *)
(* every number of chains and every set of keys and values: the list stays *)
(* one list, the hash table agrees with it, the values are owned by the    *)
(* cache, and the whole is an LRU cache.                                   *)
(***************************************************************************)
EXTENDS LruCacheOrder, Sequence_proofs

-----------------------------------------------------------------------------
(* The links.  A cache holds the list l if head and tail are its ends and  *)
(* the links of its places lead to the places next to them, NULL beyond    *)
(* the ends.  Other nodes may be on the heap D too.                        *)
Nodes == [key : Keys, value : AllValues, prev : Pointers, next : Pointers]
Entries == [key : Keys, node : Addresses]
Caches(D) ==
  [head : Pointers, tail : Pointers, size : Int, nodes : [D -> Nodes],
   hash_table : [Indices -> Seq(Entries)]]

At(l, k) == IF k \in 1 .. Len(l) THEN l[k] ELSE NULL

Holds(c, l) ==
  /\ l \in DistinctSeq(Addresses) /\ ToSet(l) \subseteq DOMAIN c.nodes
  /\ c.head = At(l, 1) /\ c.tail = At(l, Len(l))
  /\ \A k \in 1 .. Len(l) :
       c.nodes[l[k]].prev = At(l, k - 1) /\ c.nodes[l[k]].next = At(l, k + 1)

(* A cache is the same but for its links.                                  *)
SameData(c, other) ==
  /\ other.size = c.size /\ other.hash_table = c.hash_table
  /\ DOMAIN other.nodes = DOMAIN c.nodes
  /\ \A a \in DOMAIN c.nodes :
       other.nodes[a].key = c.nodes[a].key /\ other.nodes[a].value = c.nodes[a].value

LEMMA NoNode == NULL \notin Addresses /\ Addresses \subseteq Nat
  BY CapacityAssumption, NullAssumption DEF Addresses

LEMMA ListPlaces ==
  ASSUME NEW l \in DistinctSeq(Addresses)
  PROVE  /\ Len(l) \in Nat /\ DOMAIN l = 1 .. Len(l) /\ l \in Seq(Addresses)
         /\ \A k \in 1 .. Len(l) : l[k] \in Addresses /\ l[k] \in ToSet(l) /\ At(l, k) = l[k]
         /\ \A k \in Int : At(l, k) \in Pointers /\ (At(l, k) = NULL <=> k \notin 1 .. Len(l))
         /\ \A j, k \in 1 .. Len(l) : l[j] = l[k] => j = k
         /\ \A j, k \in Int : At(l, j) = At(l, k) => At(l, j) = NULL \/ j = k
         /\ \A a \in ToSet(l) : \E k \in 1 .. Len(l) : a = l[k]
<1>1. Len(l) \in Nat /\ DOMAIN l = 1 .. Len(l) /\ l \in Seq(Addresses)
  BY LenProperties DEF DistinctSeq
<1>2. \A k \in 1 .. Len(l) : l[k] \in Addresses /\ l[k] \in ToSet(l) /\ At(l, k) = l[k]
  BY <1>1, ElementOfSeq DEF ToSet, At
<1>3. \A j, k \in 1 .. Len(l) : l[j] = l[k] => j = k
  BY <1>1 DEF DistinctSeq, IsInjective
<1>4. \A k \in Int : At(l, k) \in Pointers /\ (At(l, k) = NULL <=> k \notin 1 .. Len(l))
  BY <1>2, NoNode DEF At, Pointers
<1>5. \A j, k \in Int : At(l, j) = At(l, k) => At(l, j) = NULL \/ j = k
  BY <1>2, <1>3, <1>4
<1>6. \A a \in ToSet(l) : \E k \in 1 .. Len(l) : a = l[k]
  BY <1>1 DEF ToSet
<1> QED
  BY <1>1, <1>2, <1>3, <1>4, <1>5, <1>6

(* One link set.                                                           *)
LEMMA PrevSet ==
  ASSUME NEW D, NEW c \in Caches(D), NEW at \in D, NEW p \in Pointers
  PROVE  LET d == [c EXCEPT !.nodes[at].prev = p] IN
         /\ d \in Caches(D) /\ d.size = c.size /\ d.hash_table = c.hash_table
         /\ d.head = c.head /\ d.tail = c.tail
         /\ \A a \in D : /\ d.nodes[a].prev = IF a = at THEN p ELSE c.nodes[a].prev
                         /\ d.nodes[a].next = c.nodes[a].next
                         /\ d.nodes[a].key = c.nodes[a].key /\ d.nodes[a].value = c.nodes[a].value
<1> DEFINE nodes == [c.nodes EXCEPT ![at].prev = p]
           d == [c EXCEPT !.nodes = nodes]
<1>1. c.nodes \in [D -> Nodes]
  BY DEF Caches
<1>2. /\ nodes \in [D -> Nodes]
      /\ \A a \in D : /\ nodes[a].prev = IF a = at THEN p ELSE c.nodes[a].prev
                      /\ nodes[a].next = c.nodes[a].next
                      /\ nodes[a].key = c.nodes[a].key /\ nodes[a].value = c.nodes[a].value
  BY <1>1 DEF Nodes
<1>3. [c EXCEPT !.nodes[at].prev = p] = d
  OBVIOUS
<1> HIDE DEF nodes
<1>4. /\ d \in Caches(D) /\ d.size = c.size /\ d.hash_table = c.hash_table
      /\ d.head = c.head /\ d.tail = c.tail /\ d.nodes = nodes
  BY <1>2 DEF Caches
<1> HIDE DEF d
<1> QED
  BY <1>2, <1>3, <1>4

LEMMA NextSet ==
  ASSUME NEW D, NEW c \in Caches(D), NEW at \in D, NEW p \in Pointers
  PROVE  LET d == [c EXCEPT !.nodes[at].next = p] IN
         /\ d \in Caches(D) /\ d.size = c.size /\ d.hash_table = c.hash_table
         /\ d.head = c.head /\ d.tail = c.tail
         /\ \A a \in D : /\ d.nodes[a].next = IF a = at THEN p ELSE c.nodes[a].next
                         /\ d.nodes[a].prev = c.nodes[a].prev
                         /\ d.nodes[a].key = c.nodes[a].key /\ d.nodes[a].value = c.nodes[a].value
<1> DEFINE nodes == [c.nodes EXCEPT ![at].next = p]
           d == [c EXCEPT !.nodes = nodes]
<1>1. c.nodes \in [D -> Nodes]
  BY DEF Caches
<1>2. /\ nodes \in [D -> Nodes]
      /\ \A a \in D : /\ nodes[a].next = IF a = at THEN p ELSE c.nodes[a].next
                      /\ nodes[a].prev = c.nodes[a].prev
                      /\ nodes[a].key = c.nodes[a].key /\ nodes[a].value = c.nodes[a].value
  BY <1>1 DEF Nodes
<1>3. [c EXCEPT !.nodes[at].next = p] = d
  OBVIOUS
<1> HIDE DEF nodes
<1>4. /\ d \in Caches(D) /\ d.size = c.size /\ d.hash_table = c.hash_table
      /\ d.head = c.head /\ d.tail = c.tail /\ d.nodes = nodes
  BY <1>2 DEF Caches
<1> HIDE DEF d
<1> QED
  BY <1>2, <1>3, <1>4

(* What the operations on the links do, node by node.                      *)
LEMMA RemoveNodeIs ==
  ASSUME NEW D, D \subseteq Addresses, NEW c \in Caches(D), NEW node \in D,
         NEW prev \in D \cup {NULL}, NEW next \in D \cup {NULL},
         c.nodes[node].prev = prev, c.nodes[node].next = next
  PROVE  /\ remove_node(c, node) \in Caches(D) /\ SameData(c, remove_node(c, node))
         /\ remove_node(c, node).head = IF prev = NULL THEN next ELSE c.head
         /\ remove_node(c, node).tail = IF next = NULL THEN prev ELSE c.tail
         /\ \A a \in D :
              LET new == remove_node(c, node).nodes[a] IN
              /\ new.next = IF a = prev THEN next ELSE c.nodes[a].next
              /\ new.prev = IF a = next THEN prev ELSE c.nodes[a].prev
<1> DEFINE c1 == IF prev # NULL THEN [c EXCEPT !.nodes[prev].next = next]
                                ELSE [c EXCEPT !.head = next]
           c2 == IF next # NULL THEN [c1 EXCEPT !.nodes[next].prev = prev]
                                ELSE [c1 EXCEPT !.tail = prev]
<1>1. remove_node(c, node) = c2
  BY DEF remove_node
<1>2. NULL \notin D /\ prev \in Pointers /\ next \in Pointers /\ D \subseteq Pointers
  BY NoNode DEF Pointers
<1>3. /\ c1 \in Caches(D) /\ c1.size = c.size /\ c1.hash_table = c.hash_table /\ c1.tail = c.tail
      /\ c1.head = IF prev = NULL THEN next ELSE c.head
      /\ \A a \in D : /\ c1.nodes[a].next = IF a = prev THEN next ELSE c.nodes[a].next
                      /\ c1.nodes[a].prev = c.nodes[a].prev
                      /\ c1.nodes[a].key = c.nodes[a].key /\ c1.nodes[a].value = c.nodes[a].value
  <2>1. CASE prev # NULL
    BY <1>2, <2>1, NextSet
  <2>2. CASE prev = NULL
    <3>1. c1 = [c EXCEPT !.head = next]
      BY <2>2
    <3>2. /\ c1 \in Caches(D) /\ c1.size = c.size /\ c1.hash_table = c.hash_table
          /\ c1.tail = c.tail /\ c1.nodes = c.nodes /\ c1.head = next
      BY <1>2, <3>1 DEF Caches
    <3> QED
      BY <1>2, <2>2, <3>2
  <2> QED
    BY <2>1, <2>2
<1> HIDE DEF c1
<1>4. /\ c2 \in Caches(D) /\ c2.size = c1.size /\ c2.hash_table = c1.hash_table /\ c2.head = c1.head
      /\ c2.tail = IF next = NULL THEN prev ELSE c1.tail
      /\ \A a \in D : /\ c2.nodes[a].prev = IF a = next THEN prev ELSE c1.nodes[a].prev
                      /\ c2.nodes[a].next = c1.nodes[a].next
                      /\ c2.nodes[a].key = c1.nodes[a].key /\ c2.nodes[a].value = c1.nodes[a].value
  <2>1. CASE next # NULL
    BY <1>2, <1>3, <2>1, PrevSet
  <2>2. CASE next = NULL
    <3>1. c2 = [c1 EXCEPT !.tail = prev]
      BY <2>2
    <3>2. /\ c2 \in Caches(D) /\ c2.size = c1.size /\ c2.hash_table = c1.hash_table
          /\ c2.head = c1.head /\ c2.nodes = c1.nodes /\ c2.tail = prev
      BY <1>2, <1>3, <3>1 DEF Caches
    <3> QED
      BY <1>2, <2>2, <3>2
  <2> QED
    BY <2>1, <2>2
<1> HIDE DEF c2
<1>5. DOMAIN c.nodes = D /\ DOMAIN c2.nodes = D
  BY <1>4 DEF Caches
<1> QED
  BY <1>1, <1>3, <1>4, <1>5 DEF SameData

LEMMA AddToFrontIs ==
  ASSUME NEW D, D \subseteq Addresses, NEW c \in Caches(D), NEW node \in D,
         NEW head \in D \cup {NULL}, c.head = head, head # node
  PROVE  /\ add_to_front(c, node) \in Caches(D) /\ SameData(c, add_to_front(c, node))
         /\ add_to_front(c, node).head = node
         /\ add_to_front(c, node).tail = IF c.tail = NULL THEN node ELSE c.tail
         /\ \A a \in D :
              LET new == add_to_front(c, node).nodes[a] IN
              /\ new.next = IF a = node THEN head ELSE c.nodes[a].next
              /\ new.prev = IF a = node THEN NULL ELSE IF a = head THEN node ELSE c.nodes[a].prev
<1> DEFINE c1 == [c EXCEPT !.nodes[node].next = head, !.nodes[node].prev = NULL]
           c2 == IF head # NULL THEN [c1 EXCEPT !.nodes[head].prev = node] ELSE c1
           c3 == [c2 EXCEPT !.head = node, !.tail = IF @ = NULL THEN node ELSE @]
<1>1. add_to_front(c, node) = c3
  BY DEF add_to_front
<1>2. NULL \notin D /\ head \in Pointers /\ node \in Pointers /\ NULL \in Pointers
  BY NoNode DEF Pointers
<1>3. /\ c1 \in Caches(D) /\ c1.size = c.size /\ c1.hash_table = c.hash_table
      /\ c1.tail = c.tail /\ c1.head = head
      /\ \A a \in D : /\ c1.nodes[a].next = IF a = node THEN head ELSE c.nodes[a].next
                      /\ c1.nodes[a].prev = IF a = node THEN NULL ELSE c.nodes[a].prev
                      /\ c1.nodes[a].key = c.nodes[a].key /\ c1.nodes[a].value = c.nodes[a].value
  <2> DEFINE c0 == [c EXCEPT !.nodes[node].next = head]
  <2>1. c1 = [c0 EXCEPT !.nodes[node].prev = NULL]
    OBVIOUS
  <2>2. /\ c0 \in Caches(D) /\ c0.size = c.size /\ c0.hash_table = c.hash_table
        /\ c0.tail = c.tail /\ c0.head = head
        /\ \A a \in D : /\ c0.nodes[a].next = IF a = node THEN head ELSE c.nodes[a].next
                        /\ c0.nodes[a].prev = c.nodes[a].prev
                        /\ c0.nodes[a].key = c.nodes[a].key /\ c0.nodes[a].value = c.nodes[a].value
    BY <1>2, NextSet
  <2> HIDE DEF c0, c1
  <2> QED
    BY <1>2, <2>1, <2>2, PrevSet
<1> HIDE DEF c1
<1>4. /\ c2 \in Caches(D) /\ c2.size = c.size /\ c2.hash_table = c.hash_table
      /\ c2.tail = c.tail /\ c2.head = head
      /\ \A a \in D : /\ c2.nodes[a].prev = IF a = head THEN node ELSE c1.nodes[a].prev
                      /\ c2.nodes[a].next = c1.nodes[a].next
                      /\ c2.nodes[a].key = c1.nodes[a].key /\ c2.nodes[a].value = c1.nodes[a].value
  <2>1. CASE head # NULL
    BY <1>2, <1>3, <2>1, PrevSet
  <2>2. CASE head = NULL
    BY <1>2, <1>3, <2>2
  <2> QED
    BY <2>1, <2>2
<1> HIDE DEF c2
<1>5. /\ c3 \in Caches(D) /\ c3.size = c.size /\ c3.hash_table = c.hash_table
      /\ c3.tail = (IF c.tail = NULL THEN node ELSE c.tail) /\ c3.head = node
      /\ c3.nodes = c2.nodes
  BY <1>2, <1>4 DEF Caches
<1> HIDE DEF c3
<1>6. DOMAIN c.nodes = D /\ DOMAIN c3.nodes = D
  BY <1>5 DEF Caches
<1>7. \A a \in D : c3.nodes[a].key = c.nodes[a].key /\ c3.nodes[a].value = c.nodes[a].value
  BY <1>3, <1>4, <1>5
<1>8. \A a \in D : 
        /\ c3.nodes[a].next = IF a = node THEN head ELSE c.nodes[a].next
        /\ c3.nodes[a].prev = IF a = node THEN NULL ELSE IF a = head THEN node ELSE c.nodes[a].prev
  BY <1>3, <1>4, <1>5
<1> QED
  BY <1>1, <1>5, <1>6, <1>7, <1>8 DEF SameData

-----------------------------------------------------------------------------
(* What they do to the list.                                               *)
LEMMA HeldPlaces ==
  ASSUME NEW D, NEW c \in Caches(D), NEW l, Holds(c, l)
  PROVE  /\ l \in DistinctSeq(Addresses) /\ ToSet(l) \subseteq D /\ DOMAIN c.nodes = D
         /\ c.head = At(l, 1) /\ c.tail = At(l, Len(l))
         /\ \A k \in Int : At(l, k) \in D \cup {NULL}
         /\ \A k \in 1 .. Len(l) :
              c.nodes[l[k]].prev = At(l, k - 1) /\ c.nodes[l[k]].next = At(l, k + 1)
<1>1. DOMAIN c.nodes = D
  BY DEF Caches
<1>2. l \in DistinctSeq(Addresses) /\ ToSet(l) \subseteq D
  BY <1>1 DEF Holds
<1>3. \A k \in Int : At(l, k) \in D \cup {NULL}
  BY <1>2, ListPlaces
<1> QED
  BY <1>1, <1>2, <1>3 DEF Holds

LEMMA RemovedHolds ==
  ASSUME NEW D, D \subseteq Addresses, NEW c \in Caches(D), NEW l, Holds(c, l),
         NEW p \in 1 .. Len(l)
  PROVE  /\ remove_node(c, l[p]) \in Caches(D) /\ SameData(c, remove_node(c, l[p]))
         /\ Holds(remove_node(c, l[p]), RemoveAt(l, p))
<1> DEFINE d == remove_node(c, l[p])
           r == RemoveAt(l, p)
           n == Len(l)
<1>1. /\ l \in DistinctSeq(Addresses) /\ ToSet(l) \subseteq D
      /\ c.head = At(l, 1) /\ c.tail = At(l, n)
      /\ \A k \in Int : At(l, k) \in D \cup {NULL}
      /\ \A k \in 1 .. n :
           c.nodes[l[k]].prev = At(l, k - 1) /\ c.nodes[l[k]].next = At(l, k + 1)
  BY HeldPlaces
<1>2. /\ n \in Nat /\ l \in Seq(Addresses)
      /\ \A k \in 1 .. n : l[k] \in Addresses /\ l[k] \in ToSet(l) /\ At(l, k) = l[k]
      /\ \A k \in Int : At(l, k) = NULL <=> k \notin 1 .. n
      /\ \A j, k \in Int : At(l, j) = At(l, k) => At(l, j) = NULL \/ j = k
  BY <1>1, ListPlaces
<1>3. p \in Int /\ p - 1 \in Int /\ p + 1 \in Int /\ l[p] \in D
  BY <1>1, <1>2
<1> DEFINE prev == At(l, p - 1)
           next == At(l, p + 1)
<1>4. /\ prev \in D \cup {NULL} /\ next \in D \cup {NULL}
      /\ c.nodes[l[p]].prev = prev /\ c.nodes[l[p]].next = next
  BY <1>1, <1>3
<1> HIDE DEF prev, next
<1>5. /\ d \in Caches(D) /\ SameData(c, d)
      /\ d.head = IF prev = NULL THEN next ELSE c.head
      /\ d.tail = IF next = NULL THEN prev ELSE c.tail
      /\ \A a \in D : /\ d.nodes[a].next = IF a = prev THEN next ELSE c.nodes[a].next
                      /\ d.nodes[a].prev = IF a = next THEN prev ELSE c.nodes[a].prev
  BY <1>3, <1>4, RemoveNodeIs
<1>6. /\ r \in DistinctSeq(Addresses) /\ Len(r) = n - 1 /\ ToSet(r) = ToSet(l) \ {l[p]}
      /\ \A k \in 1 .. n - 1 : r[k] = IF k < p THEN l[k] ELSE l[k + 1]
  <2>1. r \in DistinctSeq(Addresses) /\ Len(r) = n - 1 /\ ToSet(r) = ToSet(l) \ {l[p]}
    BY <1>1, RemoveAtDistinct
  <2>2. \A k \in 1 .. n - 1 : r[k] = IF k < p THEN l[k] ELSE l[k + 1]
    BY <1>2, RemoveAtSeq
  <2> QED
    BY <2>1, <2>2
<1> HIDE DEF d, r
<1>7. ASSUME NEW k \in Int PROVE At(r, k) = IF k < p THEN At(l, k) ELSE At(l, k + 1)
  <2>1. CASE k \in 1 .. n - 1
    <3>1. At(r, k) = r[k] /\ k \in 1 .. n /\ k + 1 \in 1 .. n
      BY <1>2, <1>6, <2>1 DEF At
    <3> QED
      BY <1>2, <1>6, <2>1, <3>1
  <2>2. CASE k \notin 1 .. n - 1
    <3>1. At(r, k) = NULL
      BY <1>6, <2>2 DEF At
    <3>2. IF k < p THEN k \notin 1 .. n ELSE k + 1 \notin 1 .. n
      BY <1>2, <2>2
    <3> QED
      BY <1>2, <3>1, <3>2
  <2> QED
    BY <2>1, <2>2
<1>8. d.head = At(r, 1)
  <2>1. CASE p = 1
    <3>1. prev = NULL /\ At(r, 1) = next
      BY <1>2, <1>7, <2>1 DEF prev, next
    <3> QED
      BY <1>5, <3>1
  <2>2. CASE p # 1
    <3>1. prev # NULL /\ At(r, 1) = At(l, 1)
      BY <1>2, <1>3, <1>7, <2>2 DEF prev
    <3> QED
      BY <1>1, <1>5, <3>1
  <2> QED
    BY <2>1, <2>2
<1>9. d.tail = At(r, Len(r))
  <2>1. CASE p = n
    <3>1. next = NULL /\ At(r, n - 1) = prev
      BY <1>2, <1>7, <2>1 DEF prev, next
    <3> QED
      BY <1>5, <1>6, <3>1
  <2>2. CASE p # n
    <3>1. next # NULL /\ At(r, n - 1) = At(l, n)
      <4>1. p + 1 \in 1 .. n /\ n - 1 \in Int /\ ~(n - 1 < p) /\ (n - 1) + 1 = n
        BY <1>2, <2>2
      <4> QED
        BY <1>2, <1>3, <1>7, <4>1 DEF next
    <3> QED
      BY <1>1, <1>5, <1>6, <3>1
  <2> QED
    BY <2>1, <2>2
<1>10. ASSUME NEW k \in 1 .. n - 1
       PROVE  d.nodes[r[k]].prev = At(r, k - 1) /\ d.nodes[r[k]].next = At(r, k + 1)
  <2> DEFINE j == IF k < p THEN k ELSE k + 1
  <2>1. j \in 1 .. n /\ j \in Int /\ j - 1 \in Int /\ j + 1 \in Int /\ k - 1 \in Int /\ k + 1 \in Int
    BY <1>2
  <2>2. r[k] = l[j] /\ l[j] \in D /\ l[j] = At(l, j) /\ l[j] # NULL
    BY <1>1, <1>2, <1>6, <2>1, NoNode
  <2>3. c.nodes[l[j]].prev = At(l, j - 1) /\ c.nodes[l[j]].next = At(l, j + 1)
    BY <1>1, <2>1
  <2>4. /\ d.nodes[l[j]].next = IF l[j] = prev THEN next ELSE At(l, j + 1)
        /\ d.nodes[l[j]].prev = IF l[j] = next THEN prev ELSE At(l, j - 1)
    BY <1>5, <2>2, <2>3
  <2>5. (l[j] = prev <=> j = p - 1) /\ (l[j] = next <=> j = p + 1)
    BY <1>2, <1>3, <2>1, <2>2 DEF prev, next
  <2>6. /\ At(r, k - 1) = IF k - 1 < p THEN At(l, k - 1) ELSE At(l, (k - 1) + 1)
        /\ At(r, k + 1) = IF k + 1 < p THEN At(l, k + 1) ELSE At(l, (k + 1) + 1)
    BY <1>7, <2>1
  <2>7. CASE k < p - 1
    <3>1. j = k /\ j # p - 1 /\ j # p + 1 /\ k - 1 < p /\ k + 1 < p
      BY <1>3, <2>7
    <3> QED
      BY <2>2, <2>4, <2>5, <2>6, <3>1
  <2>8. CASE k = p - 1
    <3>1. j = k /\ j = p - 1 /\ j # p + 1 /\ k - 1 < p /\ ~(k + 1 < p) /\ (k + 1) + 1 = p + 1
      BY <1>3, <2>8
    <3> QED
      BY <2>2, <2>4, <2>5, <2>6, <3>1 DEF next
  <2>9. CASE k = p
    <3>1. j = k + 1 /\ j # p - 1 /\ j = p + 1 /\ k - 1 < p /\ ~(k + 1 < p) /\ k - 1 = p - 1
          /\ (k + 1) + 1 = j + 1
      BY <1>3, <2>9
    <3> QED
      BY <2>2, <2>4, <2>5, <2>6, <3>1 DEF prev
  <2>10. CASE k > p
    <3>1. j = k + 1 /\ j # p - 1 /\ j # p + 1 /\ ~(k - 1 < p) /\ ~(k + 1 < p)
          /\ (k + 1) + 1 = j + 1 /\ (k - 1) + 1 = j - 1
      BY <1>3, <2>10
    <3> QED
      BY <2>2, <2>4, <2>5, <2>6, <3>1
  <2> QED
    BY <1>3, <2>7, <2>8, <2>9, <2>10
<1>11. ToSet(r) \subseteq DOMAIN d.nodes
  BY <1>1, <1>5, <1>6 DEF Caches
<1> QED
  BY <1>5, <1>6, <1>8, <1>9, <1>10, <1>11 DEF Holds, d, r

LEMMA FrontedHolds ==
  ASSUME NEW D, D \subseteq Addresses, NEW c \in Caches(D), NEW l, Holds(c, l),
         NEW node \in D, node \notin ToSet(l)
  PROVE  /\ add_to_front(c, node) \in Caches(D) /\ SameData(c, add_to_front(c, node))
         /\ Holds(add_to_front(c, node), Fronted(node, l))
<1> DEFINE d == add_to_front(c, node)
           f == Fronted(node, l)
           n == Len(l)
           head == At(l, 1)
<1>1. /\ l \in DistinctSeq(Addresses) /\ ToSet(l) \subseteq D
      /\ c.head = head /\ c.tail = At(l, n)
      /\ \A k \in Int : At(l, k) \in D \cup {NULL}
      /\ \A k \in 1 .. n :
           c.nodes[l[k]].prev = At(l, k - 1) /\ c.nodes[l[k]].next = At(l, k + 1)
  BY HeldPlaces
<1>2. /\ n \in Nat /\ l \in Seq(Addresses)
      /\ \A k \in 1 .. n : l[k] \in Addresses /\ l[k] \in ToSet(l) /\ At(l, k) = l[k]
      /\ \A k \in Int : At(l, k) = NULL <=> k \notin 1 .. n
      /\ \A j, k \in Int : At(l, j) = At(l, k) => At(l, j) = NULL \/ j = k
  BY <1>1, ListPlaces
<1>3. node \in Addresses /\ node # NULL /\ head \in D \cup {NULL} /\ head # node
  <2>1. 1 \in Int
    OBVIOUS
  <2>2. head = NULL \/ head \in ToSet(l)
    BY <1>2, <2>1
  <2> QED
    BY <1>1, <2>1, <2>2, NoNode
<1>4. /\ d \in Caches(D) /\ SameData(c, d) /\ d.head = node
      /\ d.tail = IF c.tail = NULL THEN node ELSE c.tail
      /\ \A a \in D :
           /\ d.nodes[a].next = IF a = node THEN head ELSE c.nodes[a].next
           /\ d.nodes[a].prev = IF a = node THEN NULL ELSE IF a = head THEN node ELSE c.nodes[a].prev
  <2> HIDE DEF head
  <2> QED
    BY <1>1, <1>3, AddToFrontIs
<1>5. /\ f \in DistinctSeq(Addresses) /\ Len(f) = n + 1 /\ f[1] = node
      /\ \A k \in 1 .. n : f[k + 1] = l[k]
      /\ ToSet(f) = ToSet(l) \cup {node}
  BY <1>1, <1>2, <1>3, InFront, InFrontPlaces, InFrontDistinct DEF Fronted
<1> HIDE DEF d, f
<1>6. At(f, 0) = NULL /\ At(f, 1) = node /\ \A k \in Int : k # 0 => At(f, k + 1) = At(l, k)
  <2>1. At(f, 0) = NULL /\ At(f, 1) = node
    BY <1>2, <1>5 DEF At
  <2>2. ASSUME NEW k \in Int, k # 0 PROVE At(f, k + 1) = At(l, k)
    <3>1. CASE k \in 1 .. n
      <4>1. k + 1 \in 1 .. Len(f)
        BY <1>2, <1>5, <3>1
      <4> QED
        BY <1>2, <1>5, <3>1, <4>1 DEF At
    <3>2. CASE k \notin 1 .. n
      <4>1. k + 1 \notin 1 .. Len(f)
        BY <1>2, <1>5, <2>2, <3>2
      <4> QED
        BY <3>2, <4>1 DEF At
    <3> QED
      BY <3>1, <3>2
  <2> QED
    BY <2>1, <2>2
<1>7. d.tail = At(f, Len(f))
  <2>1. CASE n = 0
    BY <1>1, <1>2, <1>4, <1>5, <1>6, <2>1
  <2>2. CASE n # 0
    <3>1. n \in 1 .. n /\ n \in Int /\ At(l, n) # NULL
      BY <1>2, <2>2
    <3> QED
      BY <1>1, <1>4, <1>5, <1>6, <2>2, <3>1
  <2> QED
    BY <2>1, <2>2
<1>8. ASSUME NEW k \in 1 .. n + 1
      PROVE  d.nodes[f[k]].prev = At(f, k - 1) /\ d.nodes[f[k]].next = At(f, k + 1)
  <2>1. CASE k = 1
    <3>1. k - 1 = 0 /\ f[k] = node /\ At(f, k + 1) = head
      BY <1>5, <1>6, <2>1
    <3> QED
      BY <1>4, <1>6, <3>1
  <2>2. CASE k # 1
    <3> DEFINE j == k - 1
    <3>1. j \in 1 .. n /\ j \in Int /\ j # 0 /\ k = j + 1 /\ k \in Int /\ k # 0 /\ j - 1 \in Int
          /\ j + 1 \in Int
      BY <1>2, <2>2
    <3> HIDE DEF j
    <3>2. f[k] = l[j] /\ l[j] \in D /\ l[j] # node /\ l[j] = At(l, j) /\ l[j] # NULL
      BY <1>1, <1>2, <1>5, <3>1, NoNode
    <3>3. At(f, k + 1) = At(l, j + 1)
      BY <1>6, <3>1
    <3>4. At(f, k - 1) = IF j = 1 THEN node ELSE At(l, j - 1)
      <4>1. CASE j = 1
        BY <1>6, <3>1, <4>1
      <4>2. CASE j # 1
        <5>1. j - 1 # 0 /\ k - 1 = (j - 1) + 1
          BY <3>1, <4>2
        <5> QED
          BY <1>6, <3>1, <4>2, <5>1
      <4> QED
        BY <4>1, <4>2
    <3>5. l[j] = head <=> j = 1
      BY <1>2, <3>1, <3>2
    <3>6. c.nodes[l[j]].prev = At(l, j - 1) /\ c.nodes[l[j]].next = At(l, j + 1)
      BY <1>1, <3>1
    <3>7. /\ d.nodes[l[j]].next = At(l, j + 1)
          /\ d.nodes[l[j]].prev = IF j = 1 THEN node ELSE At(l, j - 1)
      BY <1>4, <3>2, <3>5, <3>6
    <3> QED
      BY <3>2, <3>3, <3>4, <3>7
  <2> QED
    BY <2>1, <2>2
<1>9. ToSet(f) \subseteq DOMAIN d.nodes
  BY <1>1, <1>4, <1>5 DEF Caches
<1> QED
  BY <1>4, <1>5, <1>6, <1>7, <1>8, <1>9 DEF Holds, d, f

(* A cache that differs elsewhere only holds the same list: a node more or *)
(* less that is not on it, other values, another size or table.            *)
LEMMA SameLinksHold ==
  ASSUME NEW c, NEW d, NEW l, Holds(c, l), d.head = c.head, d.tail = c.tail,
         ToSet(l) \subseteq DOMAIN d.nodes,
         \A a \in ToSet(l) : d.nodes[a].prev = c.nodes[a].prev /\ d.nodes[a].next = c.nodes[a].next
  PROVE  Holds(d, l)
<1>1. \A k \in 1 .. Len(l) : l[k] \in ToSet(l)
  BY ListPlaces DEF Holds
<1> QED
  BY <1>1 DEF Holds

-----------------------------------------------------------------------------
(* Walking along the links finds the list, from either end.                *)
LEMMA WalkIs ==
  ASSUME NEW l \in DistinctSeq(Addresses), Len(l) <= Capacity, NEW links,
         ToSet(l) \subseteq DOMAIN links, NULL \notin DOMAIN links,
         \A k \in 1 .. Len(l) : links[l[k]] = At(l, k + 1)
  PROVE  Walk(At(l, 1), links) = l
<1> DEFINE S == Pointers
           n == Len(l)
           line == Append(l, NULL)
<1>1. /\ n \in Nat /\ l \in Seq(Addresses)
      /\ \A k \in 1 .. n : l[k] \in ToSet(l) /\ At(l, k) = l[k]
      /\ \A k \in Int : At(l, k) = NULL <=> k \notin 1 .. n
  BY ListPlaces
<1>2. l \in Seq(S) /\ NULL \in S
  <2>1. Addresses \subseteq S /\ NULL \in S
    BY DEF Pointers
  <2> QED
    BY <1>1, <2>1
<1> HIDE DEF S
<1>3. line[n + 1] = NULL /\ \A k \in 1 .. n : line[k] = l[k]
  BY <1>2, AppendProperties
<1> HIDE DEF line
<1>4. \A k \in 1 .. n + 1 : line[k] = At(l, k)
  <2> TAKE k \in 1 .. n + 1
  <2>1. k \in 1 .. n \/ (k = n + 1 /\ k \notin 1 .. n /\ k \in Int)
    BY <1>1
  <2> QED
    BY <1>1, <1>3, <2>1
<1>5. \A k \in 1 .. n : l[k] \in DOMAIN links /\ links[l[k]] = line[k + 1]
  <2> TAKE k \in 1 .. n
  <2>1. k + 1 \in 1 .. n + 1
    BY <1>1
  <2> QED
    BY <1>1, <1>4, <2>1
<1>6. Capacity + 1 \in Nat /\ n <= Capacity + 1
  BY <1>1, CapacityAssumption
<1>7. Follow(line[1], links, Capacity + 1) = line
  BY <1>1, <1>5, <1>6, FollowFinds DEF line
<1>8. line[1] = At(l, 1)
  <2>1. 1 \in 1 .. n + 1
    BY <1>1
  <2> QED
    BY <1>4, <2>1
<1>9. Front(line) = l /\ Last(line) = NULL
  BY <1>2, AppendFront DEF line
<1> QED
  BY <1>7, <1>8, <1>9 DEF Walk

LEMMA ReverseIs ==
  ASSUME NEW S, NEW l \in DistinctSeq(S)
  PROVE  /\ Reverse(l) \in DistinctSeq(S) /\ Len(Reverse(l)) = Len(l)
         /\ \A k \in 1 .. Len(l) : Reverse(l)[k] = l[Len(l) - k + 1]
         /\ ToSet(Reverse(l)) = ToSet(l) /\ Reverse(Reverse(l)) = l
<1> DEFINE r == Reverse(l)
           n == Len(l)
<1>1. /\ l \in Seq(S) /\ n \in Nat /\ DOMAIN l = 1 .. n
      /\ \A j, k \in 1 .. n : l[j] = l[k] => j = k
  BY LenProperties DEF DistinctSeq, IsInjective
<1>2. \A k \in 1 .. n : n - k + 1 \in 1 .. n /\ n - (n - k + 1) + 1 = k
  BY <1>1
<1>3. r = [k \in 1 .. n |-> l[n - k + 1]]
  BY DEF Reverse
<1> HIDE DEF r
<1>4. r \in [1 .. n -> S]
  BY <1>1, <1>2, <1>3, ElementOfSeq
<1> HIDE DEF n
<1>5. r \in Seq(S) /\ Len(r) = n /\ DOMAIN r = 1 .. n
  <2>1. r \in Seq(S)
    BY <1>1, <1>4, SeqDef
  <2> QED
    BY <1>1, <1>4, <2>1, LenProperties
<1>6. \A k \in 1 .. n : r[k] = l[n - k + 1]
  BY <1>3
<1>7. IsInjective(r)
  <2> SUFFICES ASSUME NEW j \in 1 .. n, NEW k \in 1 .. n, r[j] = r[k] PROVE j = k
    BY <1>5 DEF IsInjective
  <2>1. n - j + 1 = n - k + 1
    BY <1>1, <1>2, <1>6
  <2> QED
    BY <1>1, <2>1
<1>8. ToSet(r) = ToSet(l)
  BY <1>1, <1>2, <1>5, <1>6 DEF ToSet
<1>9. Reverse(r) = l
  <2> DEFINE s == Reverse(r)
  <2>1. s = [k \in 1 .. n |-> r[n - k + 1]]
    BY <1>5 DEF Reverse
  <2>2. \A k \in 1 .. n : r[n - k + 1] = l[k]
    BY <1>2, <1>6
  <2>3. s = [k \in 1 .. n |-> l[k]]
    BY <2>1, <2>2
  <2>4. l = [k \in 1 .. n |-> l[k]]
    BY <1>1, LenProperties DEF n
  <2> QED
    BY <2>3, <2>4
<1> QED
  BY <1>5, <1>6, <1>7, <1>8, <1>9 DEF DistinctSeq, r, n

LEMMA WalkFinds ==
  ASSUME NEW D, D \subseteq Addresses, NEW c \in Caches(D), NEW l, Holds(c, l),
         Len(l) <= Capacity
  PROVE  Forward(c) = l /\ Backward(c) = Reverse(l)
<1> DEFINE next == [a \in DOMAIN c.nodes |-> c.nodes[a].next]
           prev == [a \in DOMAIN c.nodes |-> c.nodes[a].prev]
           r == Reverse(l)
           n == Len(l)
<1>1. /\ l \in DistinctSeq(Addresses) /\ ToSet(l) \subseteq D /\ DOMAIN c.nodes = D
      /\ c.head = At(l, 1) /\ c.tail = At(l, n)
      /\ \A k \in 1 .. n :
           c.nodes[l[k]].prev = At(l, k - 1) /\ c.nodes[l[k]].next = At(l, k + 1)
  BY HeldPlaces
<1>2. n \in Nat /\ \A k \in 1 .. n : l[k] \in ToSet(l)
  BY <1>1, ListPlaces
<1>3. /\ r \in DistinctSeq(Addresses) /\ Len(r) = n /\ ToSet(r) = ToSet(l)
      /\ \A k \in 1 .. n : r[k] = l[n - k + 1]
  BY <1>1, ReverseIs
<1> HIDE DEF r, n
<1>4. NULL \notin DOMAIN next /\ NULL \notin DOMAIN prev
  BY <1>1, NoNode
<1>5. \A k \in 1 .. n : next[l[k]] = At(l, k + 1)
  BY <1>1, <1>2
<1>6. \A k \in Int : At(r, k) = At(l, n - k + 1)
  <2> TAKE k \in Int
  <2>1. CASE k \in 1 .. n
    <3>1. n - k + 1 \in 1 .. n
      BY <1>2, <2>1
    <3> QED
      BY <1>3, <2>1, <3>1 DEF At, n
  <2>2. CASE k \notin 1 .. n
    <3>1. n - k + 1 \notin 1 .. n
      BY <1>2, <2>2
    <3> QED
      BY <1>3, <2>2, <3>1 DEF At, n
  <2> QED
    BY <2>1, <2>2
<1>7. ASSUME NEW k \in 1 .. n PROVE prev[r[k]] = At(r, k + 1)
  <2> DEFINE j == n - k + 1
  <2>1. j \in 1 .. n /\ r[k] = l[j] /\ n - (k + 1) + 1 = j - 1 /\ k + 1 \in Int
    BY <1>2, <1>3
  <2> HIDE DEF j
  <2>2. prev[l[j]] = At(l, j - 1)
    BY <1>1, <1>2, <2>1
  <2> QED
    BY <1>6, <2>1, <2>2
<1>8. c.tail = At(r, 1)
  <2>1. 1 \in Int /\ n - 1 + 1 = n
    BY <1>2
  <2> QED
    BY <1>1, <1>6, <2>1
<1>9. DOMAIN next = D /\ DOMAIN prev = D
  BY <1>1
<1> HIDE DEF next, prev
<1>10. Walk(At(l, 1), next) = l
  BY <1>1, <1>4, <1>5, <1>9, WalkIs DEF n
<1>11. Walk(At(r, 1), prev) = r
  <2>1. Len(r) <= Capacity /\ \A k \in 1 .. Len(r) : prev[r[k]] = At(r, k + 1)
    BY <1>3, <1>7 DEF n
  <2>2. r \in DistinctSeq(Addresses) /\ ToSet(r) \subseteq DOMAIN prev
    BY <1>1, <1>3, <1>9
  <2> QED
    BY <1>4, <2>1, <2>2, WalkIs
<1> QED
  BY <1>1, <1>8, <1>10, <1>11 DEF Forward, Backward, next, prev, r

-----------------------------------------------------------------------------
(* The hash table.  The chain of an index has one entry for each listed    *)
(* node whose key has that index, and no other; no two listed nodes have   *)
(* the same key.                                                           *)
TableHolds(table, nodes, l) ==
  /\ \A index \in Indices :
       /\ table[index] \in DistinctSeq(Entries)
       /\ \A e \in Entries :
            e \in ToSet(table[index]) <=>
              e.node \in ToSet(l) /\ nodes[e.node].key = e.key /\ hash(e.key) = index
  /\ \A a \in ToSet(l) : hash(nodes[a].key) \in Indices
  /\ \A a, b \in ToSet(l) : nodes[a].key = nodes[b].key => a = b

(* Looking for a key in its chain.                                         *)
LEMMA EntryAtIs ==
  ASSUME NEW c, NEW key, c.hash_table[hash(key)] \in Seq(Entries)
  PROVE  \/ /\ EntryAt(c, key) \in 1 .. Len(c.hash_table[hash(key)])
            /\ c.hash_table[hash(key)][EntryAt(c, key)].key = key
         \/ /\ EntryAt(c, key) = 0
            /\ \A k \in 1 .. Len(c.hash_table[hash(key)]) : c.hash_table[hash(key)][k].key # key
<1> DEFINE chain == c.hash_table[hash(key)]
           I == {k \in 1 .. Len(chain) : chain[k].key = key}
<1>1. EntryAt(c, key) = IF I # {} THEN Min(I) ELSE 0
  BY DEF EntryAt, SelectInSeq
<1>2. Len(chain) \in Nat
  BY LenProperties
<1> HIDE DEF chain
<1>3. CASE I = {}
  BY <1>1, <1>3 DEF chain
<1>4. CASE I # {}
  <2>1. I \subseteq Nat
    BY <1>2
  <2>2. \E x \in I : \A y \in I : x <= y
    BY <1>4, <2>1, LeastNumber
  <2>3. Min(I) \in I
    BY <2>2 DEF Min
  <2>4. EntryAt(c, key) \in I
    BY <1>1, <1>4, <2>3
  <2> QED
    BY <2>4 DEF chain
<1> QED
  BY <1>3, <1>4

LEMMA HashGetIs ==
  ASSUME NEW D, NEW c \in Caches(D), NEW l, TableHolds(c.hash_table, c.nodes, l),
         NEW key \in Keys, hash(key) \in Indices
  PROVE  \/ /\ hash_get(c, key) \in ToSet(l) /\ hash_get(c, key) \in Addresses
            /\ c.nodes[hash_get(c, key)].key = key
            /\ EntryAt(c, key) \in 1 .. Len(c.hash_table[hash(key)])
            /\ c.hash_table[hash(key)][EntryAt(c, key)] = [key |-> key, node |-> hash_get(c, key)]
         \/ /\ hash_get(c, key) = NULL /\ EntryAt(c, key) = 0
            /\ \A a \in ToSet(l) \cap Addresses : c.nodes[a].key # key
<1> DEFINE chain == c.hash_table[hash(key)]
           at == EntryAt(c, key)
           n == Len(chain)
<1>1. /\ chain \in Seq(Entries) /\ n \in Nat /\ DOMAIN chain = 1 .. n
      /\ \A k \in 1 .. n : chain[k] \in Entries /\ chain[k] \in ToSet(chain)
  <2>1. chain \in Seq(Entries)
    BY DEF TableHolds, DistinctSeq
  <2> HIDE DEF chain
  <2>2. n \in Nat /\ DOMAIN chain = 1 .. n /\ \A k \in 1 .. n : chain[k] \in Entries
    BY <2>1, LenProperties, ElementOfSeq
  <2> QED
    BY <2>1, <2>2 DEF ToSet
<1>2. \A e \in Entries : e \in ToSet(chain) <=>
        e.node \in ToSet(l) /\ c.nodes[e.node].key = e.key /\ hash(e.key) = hash(key)
  BY DEF TableHolds
<1>3. \/ at \in 1 .. n /\ chain[at].key = key
      \/ at = 0 /\ \A k \in 1 .. n : chain[k].key # key
  BY <1>1, EntryAtIs
<1>4. hash_get(c, key) = IF at = 0 THEN NULL ELSE chain[at].node
  BY DEF hash_get
<1> HIDE DEF chain, at, n
<1>5. CASE at \in 1 .. n /\ chain[at].key = key
  <2>1. at # 0 /\ chain[at] \in Entries /\ chain[at] \in ToSet(chain)
    BY <1>1, <1>5
  <2>2. hash_get(c, key) = chain[at].node
    BY <1>4, <2>1
  <2>3. chain[at] = [key |-> key, node |-> hash_get(c, key)] /\ hash_get(c, key) \in Addresses
    BY <1>5, <2>1, <2>2 DEF Entries
  <2>4. hash_get(c, key) \in ToSet(l) /\ c.nodes[hash_get(c, key)].key = key
    BY <1>2, <1>5, <2>1, <2>2
  <2> QED
    BY <1>5, <2>3, <2>4 DEF at, chain, n
<1>6. CASE at = 0 /\ \A k \in 1 .. n : chain[k].key # key
  <2>1. ASSUME NEW a \in ToSet(l) \cap Addresses, c.nodes[a].key = key PROVE FALSE
    <3> DEFINE e == [key |-> key, node |-> a]
    <3>1. e \in Entries /\ e.node = a /\ e.key = key
      BY <2>1 DEF Entries
    <3> HIDE DEF e
    <3>2. e \in ToSet(chain)
      BY <1>2, <2>1, <3>1
    <3>3. PICK k \in 1 .. n : e = chain[k]
      BY <1>1, <3>2 DEF ToSet
    <3> QED
      BY <1>6, <3>1, <3>3
  <2>2. hash_get(c, key) = NULL
    BY <1>4, <1>6
  <2> QED
    BY <1>6, <2>1, <2>2 DEF at
<1> QED
  BY <1>3, <1>5, <1>6

(* hash_insert of a key that no listed node has.                           *)
LEMMA InsertedEntry ==
  ASSUME NEW D, NEW c \in Caches(D), NEW l \in Seq(Addresses), TableHolds(c.hash_table, c.nodes, l),
         NEW node \in Addresses, node \notin ToSet(l),
         NEW key \in Keys, c.nodes[node].key = key, hash(key) \in Indices,
         \A a \in ToSet(l) : c.nodes[a].key # key
  PROVE  LET d == hash_insert(c, key, node) IN
         /\ d \in Caches(D) /\ d.nodes = c.nodes /\ d.size = c.size
         /\ d.head = c.head /\ d.tail = c.tail
         /\ TableHolds(d.hash_table, c.nodes, Fronted(node, l))
<1> DEFINE e == [key |-> key, node |-> node]
           index == hash(key)
           chain == c.hash_table[index]
           new == <<e>> \o chain
           table == [c.hash_table EXCEPT ![index] = new]
           d == [c EXCEPT !.hash_table = table]
           f == Fronted(node, l)
<1>1. hash_insert(c, key, node) = d
  BY DEF hash_insert
<1>2. e \in Entries /\ e.key = key /\ e.node = node
  BY DEF Entries
<1>3. /\ index \in Indices /\ chain \in DistinctSeq(Entries)
      /\ \A x \in Entries : x \in ToSet(chain) <=>
           x.node \in ToSet(l) /\ c.nodes[x.node].key = x.key /\ hash(x.key) = index
  BY DEF TableHolds
<1> HIDE DEF e, index, chain
<1>4. /\ new \in DistinctSeq(Entries) /\ ToSet(new) = ToSet(chain) \cup {e}
  <2>1. e \notin ToSet(chain)
    BY <1>2, <1>3
  <2>2. chain \in Seq(Entries)
    BY <1>3 DEF DistinctSeq
  <2> QED
    BY <1>2, <1>3, <2>1, <2>2, InFrontPlaces, InFrontDistinct
<1>5. ToSet(f) = ToSet(l) \cup {node}
  BY InFrontPlaces DEF Fronted
<1> HIDE DEF new, f
<1>6. /\ c.hash_table \in [Indices -> Seq(Entries)]
      /\ table \in [Indices -> Seq(Entries)]
      /\ \A i \in Indices : table[i] = IF i = index THEN new ELSE c.hash_table[i]
  <2>1. c.hash_table \in [Indices -> Seq(Entries)]
    BY DEF Caches
  <2>2. new \in Seq(Entries)
    BY <1>4 DEF DistinctSeq
  <2> QED
    BY <1>3, <2>1, <2>2
<1> HIDE DEF table
<1>7. /\ d \in Caches(D) /\ d.nodes = c.nodes /\ d.size = c.size
      /\ d.head = c.head /\ d.tail = c.tail /\ d.hash_table = table
  BY <1>6 DEF Caches
<1> HIDE DEF d
<1>8. TableHolds(table, c.nodes, f)
  <2>1. ASSUME NEW i \in Indices
        PROVE  /\ table[i] \in DistinctSeq(Entries)
               /\ \A x \in Entries : x \in ToSet(table[i]) <=>
                    x.node \in ToSet(f) /\ c.nodes[x.node].key = x.key /\ hash(x.key) = i
    <3>1. CASE i = index
      <4>1. table[i] = new
        BY <1>6, <3>1
      <4>2. ASSUME NEW x \in Entries
            PROVE  x \in ToSet(new) <=>
                     x.node \in ToSet(f) /\ c.nodes[x.node].key = x.key /\ hash(x.key) = index
        <5>1. x = e <=> x.key = key /\ x.node = node
          BY <1>2 DEF Entries, e
        <5> QED
          BY <1>3, <1>4, <1>5, <5>1 DEF index
      <4> QED
        BY <1>4, <3>1, <4>1, <4>2
    <3>2. CASE i # index
      <4>1. table[i] = c.hash_table[i]
        BY <1>6, <3>2
      <4>2. /\ table[i] \in DistinctSeq(Entries)
            /\ \A x \in Entries : x \in ToSet(table[i]) <=>
                 x.node \in ToSet(l) /\ c.nodes[x.node].key = x.key /\ hash(x.key) = i
        BY <4>1 DEF TableHolds
      <4>3. ASSUME NEW x \in Entries, x.node = node, c.nodes[x.node].key = x.key, hash(x.key) = i
            PROVE  FALSE
        BY <3>2, <4>3 DEF index
      <4> QED
        BY <1>5, <4>2, <4>3
    <3> QED
      BY <3>1, <3>2
  <2>2. \A a \in ToSet(f) : hash(c.nodes[a].key) \in Indices
    BY <1>5 DEF TableHolds
  <2>3. \A a, b \in ToSet(f) : c.nodes[a].key = c.nodes[b].key => a = b
    BY <1>5 DEF TableHolds
  <2> QED
    BY <2>1, <2>2, <2>3 DEF TableHolds
<1> QED
  BY <1>1, <1>7, <1>8 DEF f

(* hash_delete of the key of a listed node, for the rest of the list.      *)
LEMMA DeletedEntry ==
  ASSUME NEW D, D \subseteq Addresses, NEW c \in Caches(D), NEW l, ToSet(l) \subseteq D,
         TableHolds(c.hash_table, c.nodes, l),
         NEW node \in ToSet(l), NEW r, ToSet(r) = ToSet(l) \ {node}
  PROVE  LET d == hash_delete(c, c.nodes[node].key) IN
         /\ d \in Caches(D) /\ d.nodes = c.nodes /\ d.size = c.size
         /\ d.head = c.head /\ d.tail = c.tail
         /\ TableHolds(d.hash_table, c.nodes, r)
<1> DEFINE key == c.nodes[node].key
           at == EntryAt(c, key)
           index == hash(key)
           chain == c.hash_table[index]
           new == RemoveAt(chain, at)
           table == [c.hash_table EXCEPT ![index] = new]
           d == [c EXCEPT !.hash_table = table]
<1>1. node \in D /\ key \in Keys
  <2>1. c.nodes \in [D -> Nodes] /\ node \in D
    BY DEF Caches
  <2> QED
    BY <2>1 DEF Nodes
<1>2. /\ index \in Indices /\ chain \in DistinctSeq(Entries)
      /\ \A x \in Entries : x \in ToSet(chain) <=>
           x.node \in ToSet(l) /\ c.nodes[x.node].key = x.key /\ hash(x.key) = index
  BY DEF TableHolds
<1>3. at \in 1 .. Len(chain) /\ chain[at] = [key |-> key, node |-> node]
  <2> DEFINE found == hash_get(c, key)
  <2> HIDE DEF key
  <2>1. \/ /\ found \in ToSet(l) /\ c.nodes[found].key = key
           /\ at \in 1 .. Len(chain) /\ chain[at] = [key |-> key, node |-> found]
        \/ \A a \in ToSet(l) \cap Addresses : c.nodes[a].key # key
    BY <1>1, <1>2, HashGetIs
  <2> HIDE DEF at, chain, found
  <2>2. found = node
    BY <1>1, <2>1 DEF TableHolds, key
  <2> QED
    BY <1>1, <2>1, <2>2 DEF key
<1>4. hash_delete(c, key) = d
  <2>1. at # 0
    BY <1>3
  <2> QED
    BY <2>1 DEF hash_delete
<1> HIDE DEF key, at, index, chain
<1> DEFINE e == [key |-> key, node |-> node]
<1>5. new \in DistinctSeq(Entries) /\ ToSet(new) = ToSet(chain) \ {e}
  BY <1>2, <1>3, RemoveAtDistinct
<1> HIDE DEF new, e
<1>6. /\ c.hash_table \in [Indices -> Seq(Entries)]
      /\ table \in [Indices -> Seq(Entries)]
      /\ \A i \in Indices : table[i] = IF i = index THEN new ELSE c.hash_table[i]
  <2>1. c.hash_table \in [Indices -> Seq(Entries)]
    BY DEF Caches
  <2>2. new \in Seq(Entries)
    BY <1>5 DEF DistinctSeq
  <2> QED
    BY <1>2, <2>1, <2>2
<1> HIDE DEF table
<1>7. /\ d \in Caches(D) /\ d.nodes = c.nodes /\ d.size = c.size
      /\ d.head = c.head /\ d.tail = c.tail /\ d.hash_table = table
  BY <1>6 DEF Caches
<1> HIDE DEF d
<1>8. TableHolds(table, c.nodes, r)
  <2>1. ASSUME NEW i \in Indices
        PROVE  /\ table[i] \in DistinctSeq(Entries)
               /\ \A x \in Entries : x \in ToSet(table[i]) <=>
                    x.node \in ToSet(r) /\ c.nodes[x.node].key = x.key /\ hash(x.key) = i
    <3>1. CASE i = index
      <4>1. table[i] = new
        BY <1>6, <3>1
      <4>2. ASSUME NEW x \in Entries
            PROVE  x \in ToSet(new) <=>
                     x.node \in ToSet(r) /\ c.nodes[x.node].key = x.key /\ hash(x.key) = index
        <5>1. x = e <=> x.key = key /\ x.node = node
          BY DEF Entries, e
        <5>2. x.node = node /\ c.nodes[x.node].key = x.key => x = e
          BY <5>1 DEF key
        <5> QED
          BY <1>2, <1>5, <5>1, <5>2
      <4> QED
        BY <1>5, <3>1, <4>1, <4>2
    <3>2. CASE i # index
      <4>1. table[i] = c.hash_table[i]
        BY <1>6, <3>2
      <4>2. /\ table[i] \in DistinctSeq(Entries)
            /\ \A x \in Entries : x \in ToSet(table[i]) <=>
                 x.node \in ToSet(l) /\ c.nodes[x.node].key = x.key /\ hash(x.key) = i
        BY <4>1 DEF TableHolds
      <4>3. ASSUME NEW x \in Entries, x.node = node, c.nodes[x.node].key = x.key, hash(x.key) = i
            PROVE  FALSE
        BY <3>2, <4>3 DEF index, key
      <4> QED
        BY <4>2, <4>3
    <3> QED
      BY <3>1, <3>2
  <2>2. \A a \in ToSet(r) : hash(c.nodes[a].key) \in Indices
    BY DEF TableHolds
  <2>3. \A a, b \in ToSet(r) : c.nodes[a].key = c.nodes[b].key => a = b
    BY DEF TableHolds
  <2> QED
    BY <2>1, <2>2, <2>3 DEF TableHolds
<1> QED
  BY <1>4, <1>7, <1>8 DEF key

(* Nodes that are not listed may come and go, and links and values change. *)
LEMMA SameKeysHold ==
  ASSUME NEW table, NEW nodes, NEW l, TableHolds(table, nodes, l), NEW other, NEW l2,
         ToSet(l2) = ToSet(l), \A a \in ToSet(l) : other[a].key = nodes[a].key
  PROVE  TableHolds(table, other, l2)
<1>1. ASSUME NEW index \in Indices
      PROVE  /\ table[index] \in DistinctSeq(Entries)
             /\ \A e \in Entries :
                  e \in ToSet(table[index]) <=>
                    e.node \in ToSet(l2) /\ other[e.node].key = e.key /\ hash(e.key) = index
  BY DEF TableHolds
<1> QED
  BY <1>1 DEF TableHolds

-----------------------------------------------------------------------------
(* The stages of the calls, on caches that hold a list and whose table     *)
(* agrees with it.                                                         *)
Linking(D, c, l) ==
  /\ D \subseteq Addresses /\ c \in Caches(D)
  /\ Holds(c, l) /\ TableHolds(c.hash_table, c.nodes, l)

SameNodes(c, other, D) ==
  \A a \in D : other.nodes[a].key = c.nodes[a].key /\ other.nodes[a].value = c.nodes[a].value

LEMMA LinkingPlaces ==
  ASSUME NEW D, NEW c, NEW l, Linking(D, c, l)
  PROVE  /\ D \subseteq Addresses /\ c \in Caches(D) /\ l \in DistinctSeq(Addresses)
         /\ l \in Seq(Addresses) /\ Len(l) \in Nat /\ DOMAIN c.nodes = D /\ ToSet(l) \subseteq D
         /\ \A a \in D : c.nodes[a] \in Nodes /\ c.nodes[a].key \in Keys /\ c.nodes[a].value \in AllValues
         /\ \A k \in 1 .. Len(l) : l[k] \in Addresses /\ l[k] \in ToSet(l) /\ l[k] \in D
<1>1. /\ D \subseteq Addresses /\ c \in Caches(D) /\ l \in DistinctSeq(Addresses)
      /\ DOMAIN c.nodes = D /\ ToSet(l) \subseteq D
  BY HeldPlaces DEF Linking
<1>2. \A a \in D : c.nodes[a] \in Nodes
  BY <1>1 DEF Caches
<1>3. /\ l \in Seq(Addresses) /\ Len(l) \in Nat
      /\ \A k \in 1 .. Len(l) : l[k] \in Addresses /\ l[k] \in ToSet(l)
  BY <1>1, ListPlaces
<1> QED
  BY <1>1, <1>2, <1>3 DEF Nodes

LEMMA RemovedIs ==
  ASSUME NEW S, NEW l \in DistinctSeq(S), NEW p \in 1 .. Len(l)
  PROVE  /\ RemoveAt(l, p) \in DistinctSeq(S) /\ Len(RemoveAt(l, p)) = Len(l) - 1
         /\ l[p] \in S /\ l[p] \in ToSet(l) /\ ToSet(RemoveAt(l, p)) = ToSet(l) \ {l[p]}
  BY RemoveAtDistinct

LEMMA FrontedIs ==
  ASSUME NEW S, NEW l \in DistinctSeq(S), NEW node \in S, node \notin ToSet(l)
  PROVE  /\ Fronted(node, l) \in DistinctSeq(S) /\ Len(Fronted(node, l)) = Len(l) + 1
         /\ ToSet(Fronted(node, l)) = ToSet(l) \cup {node}
  BY InFront, InFrontPlaces, InFrontDistinct DEF Fronted, DistinctSeq

(* A value is set.                                                         *)
LEMMA ValueSet ==
  ASSUME NEW D, NEW c, NEW l, Linking(D, c, l), NEW at \in D, NEW value \in AllValues
  PROVE  LET d == [c EXCEPT !.nodes[at].value = value] IN
         /\ Linking(D, d, l) /\ d.size = c.size
         /\ \A a \in D : /\ d.nodes[a].key = c.nodes[a].key
                         /\ d.nodes[a].value = IF a = at THEN value ELSE c.nodes[a].value
<1> DEFINE nodes == [c.nodes EXCEPT ![at].value = value]
           d == [c EXCEPT !.nodes = nodes]
<1>1. D \subseteq Addresses /\ c \in Caches(D) /\ c.nodes \in [D -> Nodes] /\ ToSet(l) \subseteq D
  BY LinkingPlaces DEF Caches
<1>2. /\ nodes \in [D -> Nodes]
      /\ \A a \in D : /\ nodes[a].next = c.nodes[a].next /\ nodes[a].prev = c.nodes[a].prev
                      /\ nodes[a].key = c.nodes[a].key
                      /\ nodes[a].value = IF a = at THEN value ELSE c.nodes[a].value
  BY <1>1 DEF Nodes
<1>3. [c EXCEPT !.nodes[at].value = value] = d
  OBVIOUS
<1> HIDE DEF nodes
<1>4. /\ d \in Caches(D) /\ d.size = c.size /\ d.hash_table = c.hash_table
      /\ d.head = c.head /\ d.tail = c.tail /\ d.nodes = nodes
  BY <1>1, <1>2 DEF Caches
<1> HIDE DEF d
<1>5. Holds(d, l)
  <2>1. ToSet(l) \subseteq DOMAIN d.nodes
    BY <1>1, <1>2, <1>4
  <2> QED
    BY <1>1, <1>2, <1>4, <2>1, SameLinksHold DEF Linking
<1>6. TableHolds(d.hash_table, d.nodes, l)
  BY <1>1, <1>2, <1>4, SameKeysHold DEF Linking
<1> QED
  BY <1>1, <1>2, <1>3, <1>4, <1>5, <1>6 DEF Linking

(* move_to_front.                                                          *)
LEMMA MoveIs ==
  ASSUME NEW D, NEW c, NEW l, Linking(D, c, l), NEW p \in 1 .. Len(l)
  PROVE  LET d == move_to_front(c, l[p])
             moved == Fronted(l[p], RemoveAt(l, p))
         IN /\ Linking(D, d, moved) /\ d.size = c.size /\ SameNodes(c, d, D)
            /\ moved \in DistinctSeq(Addresses) /\ Len(moved) = Len(l) /\ ToSet(moved) = ToSet(l)
<1> DEFINE r == RemoveAt(l, p)
           moved == Fronted(l[p], r)
           c1 == remove_node(c, l[p])
           d == add_to_front(c1, l[p])
<1>1. /\ D \subseteq Addresses /\ c \in Caches(D) /\ l \in DistinctSeq(Addresses) /\ Len(l) \in Nat
      /\ Holds(c, l) /\ TableHolds(c.hash_table, c.nodes, l)
      /\ DOMAIN c.nodes = D /\ ToSet(l) \subseteq D /\ l[p] \in D /\ l[p] \in Addresses
      /\ l[p] \in ToSet(l)
  BY LinkingPlaces DEF Linking
<1>2. /\ r \in DistinctSeq(Addresses) /\ Len(r) = Len(l) - 1 /\ ToSet(r) = ToSet(l) \ {l[p]}
  BY <1>1, RemovedIs
<1>3. c1 \in Caches(D) /\ SameData(c, c1) /\ Holds(c1, r)
  BY <1>1, RemovedHolds
<1>4. move_to_front(c, l[p]) = d
  BY DEF move_to_front
<1> HIDE DEF c1, r
<1>5. l[p] \notin ToSet(r)
  BY <1>2
<1>6. d \in Caches(D) /\ SameData(c1, d) /\ Holds(d, moved)
  BY <1>1, <1>3, <1>5, FrontedHolds
<1>7. /\ moved \in DistinctSeq(Addresses) /\ Len(moved) = Len(r) + 1
      /\ ToSet(moved) = ToSet(r) \cup {l[p]}
  BY <1>1, <1>2, <1>5, FrontedIs
<1>8. Len(moved) = Len(l) /\ ToSet(moved) = ToSet(l)
  BY <1>1, <1>2, <1>7
<1> HIDE DEF d, moved
<1>9. d.size = c.size /\ d.hash_table = c.hash_table /\ SameNodes(c, d, D)
  BY <1>1, <1>3, <1>6 DEF SameData, SameNodes, Caches
<1>10. TableHolds(d.hash_table, d.nodes, moved)
  BY <1>1, <1>8, <1>9, SameKeysHold DEF SameNodes
<1> QED
  BY <1>1, <1>4, <1>6, <1>7, <1>8, <1>9, <1>10 DEF Linking, d, moved, r

(* There is always an address left for one more node.                      *)
LEMMA AddressLeft ==
  ASSUME NEW l \in DistinctSeq(Addresses), Len(l) <= Capacity
  PROVE  \E a \in Addresses : a \notin ToSet(l)
<1>1. Len(l) \in Nat /\ DOMAIN l = 1 .. Len(l) /\ l \in [1 .. Len(l) -> Addresses]
  BY ListPlaces, LenProperties
<1>2. Capacity + 1 \in Nat /\ Len(l) < Capacity + 1
  BY <1>1, CapacityAssumption
<1>3. ASSUME \A a \in Addresses : a \in ToSet(l) PROVE FALSE
  <2>1. l \in Surjection(1 .. Len(l), Addresses)
    BY <1>1, <1>3 DEF Surjection, ToSet
  <2>2. /\ IsFiniteSet(1 .. Len(l)) /\ Cardinality(1 .. Len(l)) = Len(l)
        /\ Cardinality(Addresses) = Capacity + 1
    BY <1>1, <1>2, UpTo DEF Addresses
  <2>3. Cardinality(Addresses) <= Cardinality(1 .. Len(l))
    BY <2>1, <2>2, FS_Surjection
  <2> QED
    BY <1>1, <1>2, <2>2, <2>3
<1> QED
  BY <1>3

(* create_node.                                                            *)
LEMMA CreateIs ==
  ASSUME NEW c, NEW l, Linking(ToSet(l), c, l), Len(l) <= Capacity,
         NEW key \in Keys, NEW value \in AllValues
  PROVE  LET d == create_node(c, key, value)
             new == NewAddress(c)
         IN /\ new \in Addresses /\ new \notin ToSet(l)
            /\ Linking(ToSet(l) \cup {new}, d, l) /\ d.size = c.size /\ d.tail = c.tail
            /\ d.nodes[new].key = key /\ d.nodes[new].value = value
            /\ SameNodes(c, d, ToSet(l))
<1> DEFINE D == ToSet(l)
           new == NewAddress(c)
           E == D \cup {new}
           fresh == [key |-> key, value |-> value, prev |-> NULL, next |-> NULL]
           nodes == [a \in E |-> IF a = new THEN fresh ELSE c.nodes[a]]
           d == [c EXCEPT !.nodes = nodes]
<1>1. /\ D \subseteq Addresses /\ c \in Caches(D) /\ l \in DistinctSeq(Addresses)
      /\ DOMAIN c.nodes = D /\ c.nodes \in [D -> Nodes]
      /\ Holds(c, l) /\ TableHolds(c.hash_table, c.nodes, l)
  BY LinkingPlaces DEF Linking, Caches
<1>2. new \in Addresses /\ new \notin D
  BY <1>1, AddressLeft DEF NewAddress
<1>3. create_node(c, key, value) = d
  BY <1>1 DEF create_node
<1>4. fresh \in Nodes /\ fresh.key = key /\ fresh.value = value
  BY DEF Nodes, Pointers
<1> HIDE DEF D, new, fresh
<1>5. /\ nodes \in [E -> Nodes] /\ nodes[new] = fresh /\ DOMAIN nodes = E
      /\ \A a \in D : nodes[a] = c.nodes[a]
  BY <1>1, <1>2, <1>4
<1> HIDE DEF nodes, E
<1>6. /\ d \in Caches(E) /\ d.size = c.size /\ d.hash_table = c.hash_table
      /\ d.head = c.head /\ d.tail = c.tail /\ d.nodes = nodes
  BY <1>1, <1>5 DEF Caches
<1> HIDE DEF d
<1>7. Holds(d, l)
  <2>1. ToSet(l) \subseteq DOMAIN d.nodes
    BY <1>5, <1>6 DEF D, E
  <2>2. \A a \in ToSet(l) : d.nodes[a].prev = c.nodes[a].prev /\ d.nodes[a].next = c.nodes[a].next
    BY <1>5, <1>6 DEF D
  <2> QED
    BY <1>1, <1>6, <2>1, <2>2, SameLinksHold
<1>8. SameNodes(c, d, D)
  BY <1>5, <1>6 DEF SameNodes
<1>9. TableHolds(d.hash_table, d.nodes, l)
  BY <1>1, <1>6, <1>8, SameKeysHold DEF SameNodes, D
<1>10. E \subseteq Addresses
  BY <1>1, <1>2 DEF E
<1>11. Linking(E, d, l)
  BY <1>6, <1>7, <1>9, <1>10 DEF Linking
<1> QED
  BY <1>2, <1>3, <1>4, <1>5, <1>6, <1>8, <1>11 DEF D, E, new

(* The end of lru_cache_put.                                               *)
LEMMA LinkedIs ==
  ASSUME NEW D, NEW c, NEW l, Linking(D, c, l), NEW node \in D, node \notin ToSet(l),
         NEW key \in Keys, c.nodes[node].key = key, hash(key) \in Indices,
         \A a \in ToSet(l) : c.nodes[a].key # key
  PROVE  LET d == Linked(c, key, node) IN
         /\ Linking(D, d, Fronted(node, l)) /\ d.size = c.size + 1 /\ SameNodes(c, d, D)
<1> DEFINE c1 == add_to_front(c, node)
           c2 == hash_insert(c1, key, node)
           d == [c2 EXCEPT !.size = c2.size + 1]
           f == Fronted(node, l)
<1>1. /\ D \subseteq Addresses /\ c \in Caches(D) /\ l \in DistinctSeq(Addresses)
      /\ l \in Seq(Addresses) /\ Holds(c, l) /\ TableHolds(c.hash_table, c.nodes, l)
      /\ DOMAIN c.nodes = D /\ ToSet(l) \subseteq D
  BY LinkingPlaces DEF Linking
<1>2. Linked(c, key, node) = d
  BY DEF Linked
<1>3. c1 \in Caches(D) /\ SameData(c, c1) /\ Holds(c1, f)
  BY <1>1, FrontedHolds
<1> HIDE DEF c1
<1>4. /\ c1.nodes[node].key = key /\ \A a \in ToSet(l) : c1.nodes[a].key # key
      /\ TableHolds(c1.hash_table, c1.nodes, l)
  <2>1. \A a \in D : c1.nodes[a].key = c.nodes[a].key
    BY <1>1, <1>3 DEF SameData
  <2>2. \A a \in ToSet(l) : c1.nodes[a].key = c.nodes[a].key
    BY <1>1, <2>1
  <2>3. TableHolds(c.hash_table, c1.nodes, l)
    BY <1>1, <2>2, SameKeysHold
  <2> QED
    BY <1>3, <2>1, <2>2, <2>3 DEF SameData
<1>5. /\ c2 \in Caches(D) /\ c2.nodes = c1.nodes /\ c2.size = c1.size
      /\ c2.head = c1.head /\ c2.tail = c1.tail
      /\ TableHolds(c2.hash_table, c1.nodes, f)
  <2>1. node \in Addresses
    BY <1>1
  <2> QED
    BY <1>1, <1>3, <1>4, <2>1, InsertedEntry
<1> HIDE DEF c2, f
<1>6. /\ d \in Caches(D) /\ d.nodes = c2.nodes /\ d.size = c2.size + 1
      /\ d.head = c2.head /\ d.tail = c2.tail /\ d.hash_table = c2.hash_table
  BY <1>5 DEF Caches
<1> HIDE DEF d
<1>7. Holds(d, f)
  BY <1>3, <1>5, <1>6 DEF Holds
<1>8. d.size = c.size + 1 /\ SameNodes(c, d, D)
  BY <1>1, <1>3, <1>5, <1>6 DEF SameData, SameNodes
<1> QED
  BY <1>1, <1>2, <1>5, <1>6, <1>7, <1>8 DEF Linking, f

(* The eviction of the last node.                                          *)
LEMMA EvictedIs ==
  ASSUME NEW D, NEW c, NEW l, Linking(D, c, l), Len(l) # 0
  PROVE  LET d == Evicted(c)
             lru == l[Len(l)]
         IN /\ c.tail = lru
            /\ Linking(D \ {lru}, d, RemoveAt(l, Len(l))) /\ d.size = c.size - 1
            /\ SameNodes(c, d, D \ {lru})
<1> DEFINE n == Len(l)
           lru == l[n]
           r == RemoveAt(l, n)
           c1 == hash_delete(c, c.nodes[lru].key)
           c2 == remove_node(c1, lru)
           nodes == [a \in D \ {lru} |-> c2.nodes[a]]
           d == [c2 EXCEPT !.nodes = nodes, !.size = c2.size - 1]
<1>1. /\ D \subseteq Addresses /\ c \in Caches(D) /\ l \in DistinctSeq(Addresses) /\ n \in Nat
      /\ Holds(c, l) /\ TableHolds(c.hash_table, c.nodes, l)
      /\ DOMAIN c.nodes = D /\ ToSet(l) \subseteq D /\ n \in 1 .. n
      /\ lru \in ToSet(l) /\ lru \in D
  BY LinkingPlaces DEF Linking
<1>2. c.tail = lru
  BY <1>1 DEF Holds, At
<1>3. r \in DistinctSeq(Addresses) /\ ToSet(r) = ToSet(l) \ {lru}
  BY <1>1, RemovedIs
<1>4. /\ c1 \in Caches(D) /\ c1.nodes = c.nodes /\ c1.size = c.size
      /\ c1.head = c.head /\ c1.tail = c.tail
      /\ TableHolds(c1.hash_table, c.nodes, r)
  <2> HIDE DEF lru, r
  <2> QED
    BY <1>1, <1>3, DeletedEntry
<1> HIDE DEF c1
<1>5. Holds(c1, l)
  BY <1>1, <1>4 DEF Holds
<1>6. c2 \in Caches(D) /\ SameData(c1, c2) /\ Holds(c2, r)
  BY <1>1, <1>4, <1>5, RemovedHolds
<1> HIDE DEF c2, lru, r
<1>7. DOMAIN c2.nodes = D /\ c2.nodes \in [D -> Nodes]
  BY <1>6 DEF Caches
<1>8. Evicted(c) = d
  <2>1. Evicted(c) = [free_node(c2, lru) EXCEPT !.size = @ - 1]
    BY <1>2 DEF Evicted, c1, c2
  <2>2. free_node(c2, lru) = [c2 EXCEPT !.nodes = nodes]
    BY <1>7 DEF free_node, Restrict
  <2>3. [c2 EXCEPT !.nodes = nodes].size = c2.size
    BY <1>6 DEF Caches
  <2> QED
    BY <2>1, <2>2, <2>3
<1>9. nodes \in [D \ {lru} -> Nodes] /\ \A a \in D \ {lru} : nodes[a] = c2.nodes[a]
  BY <1>7
<1> HIDE DEF nodes
<1>10. /\ d \in Caches(D \ {lru}) /\ d.nodes = nodes /\ d.size = c2.size - 1
       /\ d.head = c2.head /\ d.tail = c2.tail /\ d.hash_table = c2.hash_table
  <2> DEFINE e == [c2 EXCEPT !.nodes = nodes]
  <2>1. /\ e \in Caches(D \ {lru}) /\ e.nodes = nodes /\ e.size = c2.size
        /\ e.head = c2.head /\ e.tail = c2.tail /\ e.hash_table = c2.hash_table
    BY <1>6, <1>9 DEF Caches
  <2>2. d = [e EXCEPT !.size = c2.size - 1]
    OBVIOUS
  <2> HIDE DEF e, d
  <2>3. c2.size - 1 \in Int
    BY <1>6 DEF Caches
  <2> QED
    BY <2>1, <2>2, <2>3 DEF Caches
<1> HIDE DEF d
<1>11. ToSet(r) \subseteq D \ {lru} /\ D \ {lru} \subseteq Addresses
  BY <1>1, <1>3
<1>12. Holds(d, r)
  <2>1. ToSet(r) \subseteq DOMAIN d.nodes
    BY <1>9, <1>10, <1>11
  <2>2. \A a \in ToSet(r) : d.nodes[a].prev = c2.nodes[a].prev /\ d.nodes[a].next = c2.nodes[a].next
    BY <1>9, <1>10, <1>11
  <2> QED
    BY <1>6, <1>10, <2>1, <2>2, SameLinksHold
<1>13. d.size = c.size - 1 /\ SameNodes(c, d, D \ {lru})
  BY <1>4, <1>6, <1>7, <1>9, <1>10 DEF SameData, SameNodes
<1>14. TableHolds(d.hash_table, d.nodes, r)
  <2>1. \A a \in ToSet(r) : d.nodes[a].key = c.nodes[a].key
    BY <1>11, <1>13 DEF SameNodes
  <2>2. d.hash_table = c1.hash_table
    BY <1>6, <1>10 DEF SameData
  <2> QED
    BY <1>4, <2>1, <2>2, SameKeysHold
<1> QED
  BY <1>2, <1>8, <1>10, <1>11, <1>12, <1>13, <1>14 DEF Linking, lru, r
-----------------------------------------------------------------------------
(* The inductive invariant.  The cache keeps the list l: the nodes on the  *)
(* heap are those of the list, which is as long as size says.              *)
Keeps(c, l) ==
  Linking(ToSet(l), c, l) /\ Len(l) = c.size /\ Len(l) <= Capacity

(* The blocks are the values of the nodes, and no two nodes share one.     *)
Owned(nodes, blocks) ==
  /\ blocks = {nodes[a].value : a \in DOMAIN nodes} \cap Heap
  /\ \A a, b \in DOMAIN nodes :
       a # b => nodes[a].value \notin blocks \/ nodes[a].value # nodes[b].value

IInv ==
  /\ Keeps(cache, Forward(cache))
  /\ Owned(cache.nodes, live) /\ misfreed \subseteq NotHeap
  /\ freed \in BOOLEAN /\ result \in AllValues
  /\ freed => DOMAIN cache.nodes = {}

LEMMA KeepsList ==
  ASSUME NEW c, NEW l, Keeps(c, l)
  PROVE  Forward(c) = l /\ Backward(c) = Reverse(l)
  BY WalkFinds DEF Keeps, Linking

(* What the calls do.  A get or a put of a cached key moves its node to    *)
(* the front of the list.                                                  *)
Moved(l, p) == Fronted(l[p], RemoveAt(l, p))

LEMMA KeyFound ==
  ASSUME NEW c, NEW l, Keeps(c, l), NEW key \in Keys, hash(key) \in Indices
  PROVE  \/ /\ hash_get(c, key) # NULL
            /\ \E p \in 1 .. Len(l) : hash_get(c, key) = l[p] /\ c.nodes[l[p]].key = key
         \/ /\ hash_get(c, key) = NULL
            /\ \A a \in ToSet(l) : c.nodes[a].key # key
<1>1. /\ c \in Caches(ToSet(l)) /\ TableHolds(c.hash_table, c.nodes, l)
      /\ l \in DistinctSeq(Addresses) /\ ToSet(l) \subseteq Addresses
  BY LinkingPlaces DEF Keeps, Linking
<1> DEFINE node == hash_get(c, key)
<1>2. \/ node \in ToSet(l) /\ node \in Addresses /\ c.nodes[node].key = key
      \/ node = NULL /\ \A a \in ToSet(l) \cap Addresses : c.nodes[a].key # key
  BY <1>1, HashGetIs
<1> HIDE DEF node
<1>3. CASE node \in ToSet(l) /\ node \in Addresses /\ c.nodes[node].key = key
  <2>1. \E p \in 1 .. Len(l) : node = l[p]
    BY <1>1, <1>3, ListPlaces
  <2> QED
    BY <1>3, <2>1, NoNode DEF node
<1>4. CASE node = NULL /\ \A a \in ToSet(l) \cap Addresses : c.nodes[a].key # key
  BY <1>1, <1>4 DEF node
<1> QED
  BY <1>2, <1>3, <1>4

LEMMA GetMoves ==
  ASSUME NEW l, Keeps(cache, l), NEW key \in Keys, hash(key) \in Indices, GetHit(key)
  PROVE  \E p \in 1 .. Len(l) :
           /\ cache.nodes[l[p]].key = key /\ result' = cache.nodes[l[p]].value
           /\ Keeps(cache', Moved(l, p)) /\ ToSet(Moved(l, p)) = ToSet(l)
           /\ SameNodes(cache, cache', ToSet(l))
<1>1. PICK p \in 1 .. Len(l) : hash_get(cache, key) = l[p] /\ cache.nodes[l[p]].key = key
  BY KeyFound DEF GetHit
<1>2. cache' = move_to_front(cache, l[p]) /\ result' = cache.nodes[l[p]].value
  BY <1>1 DEF GetHit
<1>3. /\ Linking(ToSet(l), cache', Moved(l, p)) /\ cache'.size = cache.size
      /\ SameNodes(cache, cache', ToSet(l))
      /\ Len(Moved(l, p)) = Len(l) /\ ToSet(Moved(l, p)) = ToSet(l)
  BY <1>2, MoveIs DEF Keeps, Moved
<1>4. Keeps(cache', Moved(l, p))
  BY <1>3 DEF Keeps
<1> QED
  BY <1>1, <1>2, <1>3, <1>4

LEMMA PutMoves ==
  ASSUME NEW l, Keeps(cache, l), NEW key \in Keys, hash(key) \in Indices,
         NEW value \in AllValues, PutUpdate(key, value)
  PROVE  \E p \in 1 .. Len(l) :
           /\ hash_get(cache, key) = l[p] /\ cache.nodes[l[p]].key = key
           /\ Keeps(cache', Moved(l, p)) /\ ToSet(Moved(l, p)) = ToSet(l)
           /\ \A a \in ToSet(l) :
                /\ cache'.nodes[a].key = cache.nodes[a].key
                /\ cache'.nodes[a].value = IF a = l[p] THEN value ELSE cache.nodes[a].value
<1>1. PICK p \in 1 .. Len(l) : hash_get(cache, key) = l[p] /\ cache.nodes[l[p]].key = key
  BY KeyFound DEF PutUpdate
<1> DEFINE c1 == [cache EXCEPT !.nodes[l[p]].value = value]
<1>2. cache' = move_to_front(c1, l[p])
  BY <1>1 DEF PutUpdate
<1>3. Linking(ToSet(l), cache, l) /\ l[p] \in ToSet(l)
  BY LinkingPlaces DEF Keeps
<1>4. /\ Linking(ToSet(l), c1, l) /\ c1.size = cache.size
      /\ \A a \in ToSet(l) :
           /\ c1.nodes[a].key = cache.nodes[a].key
           /\ c1.nodes[a].value = IF a = l[p] THEN value ELSE cache.nodes[a].value
  BY <1>3, ValueSet
<1> HIDE DEF c1
<1>5. /\ Linking(ToSet(l), cache', Moved(l, p)) /\ cache'.size = c1.size
      /\ SameNodes(c1, cache', ToSet(l))
      /\ Len(Moved(l, p)) = Len(l) /\ ToSet(Moved(l, p)) = ToSet(l)
  BY <1>2, <1>4, MoveIs DEF Moved
<1>6. Keeps(cache', Moved(l, p))
  BY <1>4, <1>5 DEF Keeps
<1> QED
  BY <1>1, <1>4, <1>5, <1>6 DEF SameNodes

(* A put of a new key adds a node in front; at capacity the last node of   *)
(* the list, which is the one not used for longest, goes.                  *)
LEMMA PutAdds ==
  ASSUME NEW l, Keeps(cache, l), NEW key \in Keys, hash(key) \in Indices,
         NEW value \in AllValues, PutNew(key, value)
  PROVE  \E new \in Addresses :
           /\ new \notin ToSet(l) /\ Len(l) # Capacity
           /\ \A a \in ToSet(l) : cache.nodes[a].key # key
           /\ Keeps(cache', Fronted(new, l)) /\ ToSet(Fronted(new, l)) = ToSet(l) \cup {new}
           /\ cache'.nodes[new].key = key /\ cache'.nodes[new].value = value
           /\ SameNodes(cache, cache', ToSet(l))
<1> DEFINE new == NewAddress(cache)
           D == ToSet(l) \cup {new}
           c1 == create_node(cache, key, value)
           f == Fronted(new, l)
<1>1. /\ Linking(ToSet(l), cache, l) /\ Len(l) = cache.size /\ Len(l) <= Capacity /\ Len(l) \in Nat
      /\ l \in DistinctSeq(Addresses)
  BY LinkingPlaces DEF Keeps
<1>2. /\ new \in Addresses /\ new \notin ToSet(l) /\ Linking(D, c1, l) /\ c1.size = cache.size
      /\ c1.nodes[new].key = key /\ c1.nodes[new].value = value /\ SameNodes(cache, c1, ToSet(l))
  BY <1>1, CreateIs
<1>3. cache' = Linked(c1, key, new) /\ cache.size # Capacity /\ hash_get(cache, key) = NULL
  BY DEF PutNew
<1>4. \A a \in ToSet(l) : cache.nodes[a].key # key
  BY <1>3, KeyFound
<1>5. f \in DistinctSeq(Addresses) /\ Len(f) = Len(l) + 1 /\ ToSet(f) = D
  BY <1>1, <1>2, FrontedIs
<1> HIDE DEF c1, new
<1>6. new \in D /\ \A a \in ToSet(l) : c1.nodes[a].key # key
  BY <1>2, <1>4 DEF SameNodes
<1> HIDE DEF D
<1>7. Linking(D, cache', f) /\ cache'.size = c1.size + 1 /\ SameNodes(c1, cache', D)
  BY <1>2, <1>3, <1>6, LinkedIs
<1> HIDE DEF f
<1>8. Len(f) = cache'.size /\ Len(f) <= Capacity
  BY <1>1, <1>2, <1>3, <1>5, <1>7, CapacityAssumption
<1>9. Keeps(cache', f)
  BY <1>5, <1>7, <1>8 DEF Keeps
<1>10. /\ cache'.nodes[new].key = key /\ cache'.nodes[new].value = value
       /\ SameNodes(cache, cache', ToSet(l))
  BY <1>2, <1>6, <1>7 DEF SameNodes, D
<1> QED
  BY <1>1, <1>2, <1>3, <1>4, <1>5, <1>9, <1>10 DEF D, f

LEMMA PutEvicts ==
  ASSUME NEW l, Keeps(cache, l), NEW key \in Keys, hash(key) \in Indices,
         NEW value \in AllValues, PutEvict(key, value)
  PROVE  \E new \in Addresses :
           LET r == RemoveAt(l, Capacity)
               lru == l[Capacity]
           IN
           /\ new \notin ToSet(l) /\ Len(l) = Capacity /\ cache.tail = lru
           /\ lru \in ToSet(l) /\ ToSet(r) = ToSet(l) \ {lru} /\ r \in DistinctSeq(Addresses)
           /\ \A a \in ToSet(l) : cache.nodes[a].key # key
           /\ Keeps(cache', Fronted(new, r)) /\ ToSet(Fronted(new, r)) = ToSet(r) \cup {new}
           /\ cache'.nodes[new].key = key /\ cache'.nodes[new].value = value
           /\ SameNodes(cache, cache', ToSet(r))
<1> DEFINE new == NewAddress(cache)
           D1 == ToSet(l) \cup {new}
           c1 == create_node(cache, key, value)
           c2 == Evicted(c1)
           r == RemoveAt(l, Capacity)
           lru == l[Capacity]
           D == D1 \ {lru}
           f == Fronted(new, r)
<1>1. /\ Linking(ToSet(l), cache, l) /\ Len(l) = cache.size /\ Len(l) <= Capacity /\ Len(l) \in Nat
      /\ l \in DistinctSeq(Addresses)
  BY LinkingPlaces DEF Keeps
<1>2. /\ new \in Addresses /\ new \notin ToSet(l) /\ Linking(D1, c1, l) /\ c1.size = cache.size
      /\ c1.tail = cache.tail
      /\ c1.nodes[new].key = key /\ c1.nodes[new].value = value /\ SameNodes(cache, c1, ToSet(l))
  <2> DEFINE d == create_node(cache, key, value)
             added == NewAddress(cache)
  <2>1. /\ added \in Addresses /\ added \notin ToSet(l)
        /\ Linking(ToSet(l) \cup {added}, d, l) /\ d.size = cache.size /\ d.tail = cache.tail
        /\ d.nodes[added].key = key /\ d.nodes[added].value = value /\ SameNodes(cache, d, ToSet(l))
    BY <1>1, CreateIs
  <2> QED
    BY <2>1
<1>3. cache' = Linked(c2, key, new) /\ cache.size = Capacity /\ hash_get(cache, key) = NULL
  BY DEF PutEvict
<1>4. \A a \in ToSet(l) : cache.nodes[a].key # key
  BY <1>3, KeyFound
<1>5. Len(l) = Capacity /\ Capacity \in 1 .. Len(l) /\ Len(l) # 0 /\ Capacity \in Nat
  BY <1>1, <1>3, CapacityAssumption
<1> HIDE DEF c1, new
<1>6. /\ c1.tail = lru /\ Linking(D, c2, r) /\ c2.size = c1.size - 1 /\ SameNodes(c1, c2, D)
  <2> HIDE DEF D1
  <2>1. /\ c1.tail = l[Len(l)] /\ Linking(D1 \ {l[Len(l)]}, Evicted(c1), RemoveAt(l, Len(l)))
        /\ Evicted(c1).size = c1.size - 1 /\ SameNodes(c1, Evicted(c1), D1 \ {l[Len(l)]})
    <3> HIDE DEF c2, r, lru, D, f
    <3>1. Linking(D1, c1, l) /\ Len(l) # 0
      BY <1>2, <1>5
    <3> QED
      BY <3>1, EvictedIs
  <2> QED
    BY <1>5, <2>1
<1>7. /\ r \in DistinctSeq(Addresses) /\ Len(r) = Capacity - 1
      /\ ToSet(r) = ToSet(l) \ {lru} /\ lru \in ToSet(l)
  <2>1. l \in DistinctSeq(Addresses) /\ Capacity \in 1 .. Len(l)
    BY <1>1, <1>5
  <2>2. /\ r \in DistinctSeq(Addresses) /\ Len(r) = Len(l) - 1
        /\ ToSet(r) = ToSet(l) \ {lru} /\ lru \in ToSet(l)
    BY <2>1, RemovedIs
  <2> QED
    BY <1>5, <2>2
<1> HIDE DEF c2, r, lru
<1>8. /\ new \in D /\ new \notin ToSet(r) /\ ToSet(r) \cup {new} = D
      /\ \A a \in ToSet(r) : a \in ToSet(l) /\ a \in D
  BY <1>2, <1>7
<1>9. /\ c2.nodes[new].key = key /\ c2.nodes[new].value = value
      /\ SameNodes(cache, c2, ToSet(r)) /\ \A a \in ToSet(r) : c2.nodes[a].key # key
  BY <1>2, <1>4, <1>6, <1>8 DEF SameNodes
<1>10. f \in DistinctSeq(Addresses) /\ Len(f) = Len(r) + 1 /\ ToSet(f) = ToSet(r) \cup {new}
  BY <1>2, <1>7, <1>8, FrontedIs
<1> HIDE DEF D
<1>11. Linking(D, cache', f) /\ cache'.size = c2.size + 1 /\ SameNodes(c2, cache', D)
  BY <1>3, <1>6, <1>8, <1>9, LinkedIs
<1> HIDE DEF f
<1>12. Len(f) = cache'.size /\ Len(f) <= Capacity
  BY <1>2, <1>3, <1>5, <1>6, <1>7, <1>10, <1>11
<1>13. Keeps(cache', f)
  BY <1>8, <1>10, <1>11, <1>12 DEF Keeps
<1>14. /\ cache'.nodes[new].key = key /\ cache'.nodes[new].value = value
       /\ SameNodes(cache, cache', ToSet(r))
  BY <1>8, <1>9, <1>11 DEF SameNodes
<1> QED
  BY <1>2, <1>4, <1>5, <1>6, <1>7, <1>10, <1>13, <1>14 DEF f, r, lru
-----------------------------------------------------------------------------
(* The values.  A call frees the value of the node it drops, if any, and   *)
(* gives its own value to a node; the rest keep theirs.                    *)
LEMMA Exchanged ==
  ASSUME NEW nodes, NEW blocks, Owned(nodes, blocks),
         \A a \in DOMAIN nodes : nodes[a].value \in AllValues,
         NEW value \in (Heap \ blocks) \cup NotHeap \cup {NULL},
         NEW other, NEW drop, NEW node, NEW old,
         DOMAIN other = (DOMAIN nodes \ {drop}) \cup {node}, node \notin DOMAIN nodes \ {drop},
         other[node].value = value,
         \A a \in DOMAIN nodes \ {drop} : other[a].value = nodes[a].value,
         old = IF drop \in DOMAIN nodes THEN nodes[drop].value ELSE NULL
  PROVE  /\ Owned(other, (blocks \ {old}) \cup ({value} \cap Heap))
         /\ {old} \ (blocks \cup {NULL}) \subseteq NotHeap
<1> DEFINE rest == DOMAIN nodes \ {drop}
           new == (blocks \ {old}) \cup ({value} \cap Heap)
<1>1. NULL \notin Heap /\ Heap \cap NotHeap = {}
  BY NullAssumption
<1>2. /\ \A v : v \in blocks <=> v \in Heap /\ \E a \in DOMAIN nodes : v = nodes[a].value
      /\ \A a, b \in DOMAIN nodes :
           a # b => nodes[a].value \notin blocks \/ nodes[a].value # nodes[b].value
  BY DEF Owned
<1>3. \A a \in DOMAIN nodes :
        nodes[a].value \in Heap \/ nodes[a].value \in NotHeap \/ nodes[a].value = NULL
  BY DEF AllValues
<1>4. old \in blocks \/ old \in NotHeap \/ old = NULL
  BY <1>2, <1>3
<1>5. \A a \in rest : nodes[a].value \in blocks => nodes[a].value # old
  BY <1>1, <1>2
<1>6. value \notin blocks
  BY <1>1, <1>2
<1>7. ASSUME NEW v
      PROVE  v \in new <=> v \in Heap /\ \E a \in DOMAIN other : v = other[a].value
  <2>1. CASE v = value
    <3>1. v \in new <=> v \in Heap
      BY <1>2, <1>6, <2>1
    <3> QED
      BY <2>1, <3>1
  <2>2. CASE v # value
    <3>1. (\E a \in DOMAIN other : v = other[a].value) <=> \E a \in rest : v = nodes[a].value
      BY <2>2
    <3>2. v \in new <=> v \in blocks /\ v # old
      BY <2>2
    <3>3. ASSUME v \in blocks, v # old PROVE v \in Heap /\ \E a \in rest : v = nodes[a].value
      BY <1>2, <3>3
    <3>4. ASSUME v \in Heap, NEW a \in rest, v = nodes[a].value PROVE v \in blocks /\ v # old
      BY <1>2, <1>5, <3>4
    <3> QED
      BY <3>1, <3>2, <3>3, <3>4
  <2> QED
    BY <2>1, <2>2
<1>8. ASSUME NEW a \in DOMAIN other, NEW b \in DOMAIN other, a # b
      PROVE  other[a].value \notin new \/ other[a].value # other[b].value
  <2> SUFFICES ASSUME other[a].value = other[b].value, other[a].value \in new PROVE FALSE
    OBVIOUS
  <2>1. CASE a \in rest /\ b \in rest
    <3>1. nodes[a].value \in Heap /\ nodes[a].value = nodes[b].value
      BY <1>7, <2>1
    <3> QED
      BY <1>2, <1>8, <2>1, <3>1
  <2>2. CASE a = node /\ b \in rest
    <3>1. nodes[b].value = value /\ value \in Heap
      BY <1>7, <2>2
    <3> QED
      BY <1>2, <1>6, <2>2, <3>1
  <2>3. CASE a \in rest /\ b = node
    <3>1. nodes[a].value = value /\ value \in Heap
      BY <1>7, <2>3
    <3> QED
      BY <1>2, <1>6, <2>3, <3>1
  <2> QED
    BY <1>8, <2>1, <2>2, <2>3
<1>9. Owned(other, new)
  <2>1. new = {other[a].value : a \in DOMAIN other} \cap Heap
    BY <1>7
  <2> HIDE DEF new
  <2> QED
    BY <1>8, <2>1 DEF Owned
<1> QED
  BY <1>4, <1>9

LEMMA KeepsNodes ==
  ASSUME NEW c, NEW l, Keeps(c, l)
  PROVE  /\ DOMAIN c.nodes = ToSet(l) /\ l \in DistinctSeq(Addresses) /\ Len(l) \in Nat
         /\ \A a \in ToSet(l) :
              a \in Addresses /\ c.nodes[a].key \in Keys /\ c.nodes[a].value \in AllValues
         /\ \A k \in 1 .. Len(l) : l[k] \in ToSet(l)
  BY LinkingPlaces DEF Keeps

LEMMA NothingListed ==
  /\ DOMAIN << >> = {} /\ ToSet(<< >>) = {} /\ Len(<< >>) = 0
  /\ << >> \in DistinctSeq(Addresses)
  BY DEF DistinctSeq, IsInjective, ToSet

LEMMA EmptyKeeps ==
  ASSUME NEW nodes \in [{} -> Nodes]
  PROVE  Keeps([EmptyCache EXCEPT !.nodes = nodes], << >>)
<1> DEFINE c == [EmptyCache EXCEPT !.nodes = nodes]
           table == [index \in Indices |-> << >>]
<1>1. table \in [Indices -> Seq(Entries)] /\ \A index \in Indices : table[index] = << >>
  OBVIOUS
<1>2. << >> \in DistinctSeq(Entries)
  BY NothingListed DEF DistinctSeq
<1> HIDE DEF table
<1>3. /\ c.head = NULL /\ c.tail = NULL /\ c.size = 0 /\ c.nodes = nodes /\ c.hash_table = table
      /\ c \in Caches({})
  <2>1. c = [head |-> NULL, tail |-> NULL, size |-> 0, nodes |-> nodes, hash_table |-> table]
    BY DEF EmptyCache, table
  <2> HIDE DEF c
  <2> QED
    BY <1>1, <2>1 DEF Caches, Pointers
<1> HIDE DEF c
<1>4. Holds(c, << >>)
  BY <1>3, NothingListed DEF Holds, At
<1>5. TableHolds(c.hash_table, c.nodes, << >>)
  BY <1>1, <1>2, <1>3, NothingListed DEF TableHolds
<1>6. Linking(ToSet(<< >>), c, << >>)
  BY <1>3, <1>4, <1>5, NothingListed DEF Linking
<1> QED
  BY <1>3, <1>6, NothingListed, CapacityAssumption DEF Keeps, c

LEMMA InitIInv == Init => IInv
<1> SUFFICES ASSUME lru_cache_create PROVE IInv
  BY DEF Init
<1>1. << >> \in [{} -> Nodes] /\ EmptyCache.nodes = << >>
  BY NothingListed DEF EmptyCache
<1>2. cache = [EmptyCache EXCEPT !.nodes = << >>]
  BY <1>1 DEF lru_cache_create, EmptyCache
<1>3. Keeps(cache, << >>)
  BY <1>1, <1>2, EmptyKeeps
<1>4. Forward(cache) = << >>
  BY <1>3, KeepsList
<1>5. cache.nodes = << >>
  BY <1>1 DEF lru_cache_create
<1>6. Owned(cache.nodes, live)
  BY <1>5, NothingListed DEF lru_cache_create, Owned
<1> QED
  BY <1>3, <1>4, <1>6 DEF IInv, lru_cache_create, AllValues

(* A call keeps the invariant.                                             *)
LEMMA CallKeeps ==
  ASSUME IInv, NEW key \in Keys, Call(key)
  PROVE  /\ \E l : Keeps(cache', l)
         /\ Owned(cache'.nodes, live') /\ misfreed' \subseteq NotHeap
         /\ result' \in AllValues /\ freed' = freed
<1> DEFINE l == Forward(cache)
           nodes == cache.nodes
<1>1. /\ Keeps(cache, l) /\ Owned(nodes, live) /\ misfreed \subseteq NotHeap
      /\ hash(key) \in Indices
  BY DEF IInv, Call
<1>2. /\ DOMAIN nodes = ToSet(l) /\ Len(l) \in Nat
      /\ \A a \in ToSet(l) : nodes[a].value \in AllValues
      /\ \A p \in 1 .. Len(l) : l[p] \in ToSet(l)
  BY <1>1, KeepsNodes
<1> HIDE DEF l
<1>3. CASE GetHit(key)
  <2>1. PICK p \in 1 .. Len(l) :
          /\ result' = nodes[l[p]].value
          /\ Keeps(cache', Moved(l, p)) /\ ToSet(Moved(l, p)) = ToSet(l)
          /\ SameNodes(cache, cache', ToSet(l))
    BY <1>1, <1>3, GetMoves
  <2>2. DOMAIN cache'.nodes = ToSet(l)
    BY <2>1, KeepsNodes
  <2>3. Owned(cache'.nodes, live)
    BY <1>1, <1>2, <2>1, <2>2 DEF Owned, SameNodes
  <2>4. result' \in AllValues
    BY <1>2, <2>1
  <2> QED
    BY <1>1, <1>3, <2>1, <2>3, <2>4 DEF GetHit
<1>4. CASE GetMiss(key)
  BY <1>1, <1>4 DEF GetMiss, AllValues
<1>5. ASSUME NEW value \in (Heap \ live) \cup NotHeap \cup {NULL},
             PutUpdate(key, value) \/ PutNew(key, value) \/ PutEvict(key, value)
      PROVE  /\ \E l2 : Keeps(cache', l2)
             /\ Owned(cache'.nodes, live') /\ misfreed' \subseteq NotHeap
  <2>1. value \in AllValues
    BY DEF AllValues
  <2>2. PICK l2, old, drop, node :
          /\ Keeps(cache', l2) /\ Replace(old, value)
          /\ DOMAIN cache'.nodes = (DOMAIN nodes \ {drop}) \cup {node}
          /\ node \notin DOMAIN nodes \ {drop}
          /\ cache'.nodes[node].value = value
          /\ \A a \in DOMAIN nodes \ {drop} : cache'.nodes[a].value = nodes[a].value
          /\ old = IF drop \in DOMAIN nodes THEN nodes[drop].value ELSE NULL
    <3>1. CASE PutUpdate(key, value)
      <4>1. PICK p \in 1 .. Len(l) :
              /\ hash_get(cache, key) = l[p]
              /\ Keeps(cache', Moved(l, p)) /\ ToSet(Moved(l, p)) = ToSet(l)
              /\ \A a \in ToSet(l) :
                   cache'.nodes[a].value = IF a = l[p] THEN value ELSE nodes[a].value
        BY <1>1, <2>1, <3>1, PutMoves
      <4>2. DOMAIN cache'.nodes = ToSet(l) /\ l[p] \in ToSet(l)
        BY <1>2, <4>1, KeepsNodes
      <4>3. Replace(nodes[l[p]].value, value)
        BY <3>1, <4>1 DEF PutUpdate
      <4>4. WITNESS Moved(l, p), nodes[l[p]].value, l[p], l[p]
      <4> QED
        BY <1>2, <4>1, <4>2, <4>3
    <3>2. CASE PutNew(key, value)
      <4>1. PICK new \in Addresses :
              /\ new \notin ToSet(l)
              /\ Keeps(cache', Fronted(new, l)) /\ ToSet(Fronted(new, l)) = ToSet(l) \cup {new}
              /\ cache'.nodes[new].value = value
              /\ SameNodes(cache, cache', ToSet(l))
        BY <1>1, <2>1, <3>2, PutAdds
      <4>2. DOMAIN cache'.nodes = ToSet(l) \cup {new}
        BY <4>1, KeepsNodes
      <4>3. Replace(NULL, value)
        BY <3>2 DEF PutNew
      <4>4. WITNESS Fronted(new, l), NULL, new, new
      <4> QED
        BY <1>2, <4>1, <4>2, <4>3 DEF SameNodes
    <3>3. CASE PutEvict(key, value)
      <4> DEFINE r == RemoveAt(l, Capacity)
                 lru == l[Capacity]
      <4>1. PICK new \in Addresses :
              /\ new \notin ToSet(l) /\ cache.tail = lru
              /\ lru \in ToSet(l) /\ ToSet(r) = ToSet(l) \ {lru}
              /\ Keeps(cache', Fronted(new, r)) /\ ToSet(Fronted(new, r)) = ToSet(r) \cup {new}
              /\ cache'.nodes[new].value = value
              /\ SameNodes(cache, cache', ToSet(r))
        BY <1>1, <2>1, <3>3, PutEvicts
      <4>2. DOMAIN cache'.nodes = ToSet(r) \cup {new}
        BY <4>1, KeepsNodes
      <4>3. Replace(nodes[lru].value, value)
        BY <3>3, <4>1 DEF PutEvict
      <4> HIDE DEF r, lru
      <4>4. WITNESS Fronted(new, r), nodes[lru].value, lru, new
      <4> QED
        BY <1>2, <4>1, <4>2, <4>3 DEF SameNodes
    <3> QED
      BY <1>5, <3>1, <3>2, <3>3
  <2> DEFINE other == cache'.nodes
  <2>3. \A a \in DOMAIN nodes : nodes[a].value \in AllValues
    BY <1>2
  <2> HIDE DEF nodes, other
  <2>4. /\ Owned(other, (live \ {old}) \cup ({value} \cap Heap))
        /\ {old} \ (live \cup {NULL}) \subseteq NotHeap
    <3>1. /\ DOMAIN other = (DOMAIN nodes \ {drop}) \cup {node}
          /\ node \notin DOMAIN nodes \ {drop} /\ other[node].value = value
          /\ \A a \in DOMAIN nodes \ {drop} : other[a].value = nodes[a].value
          /\ old = IF drop \in DOMAIN nodes THEN nodes[drop].value ELSE NULL
      BY <2>2 DEF other
    <3> QED
      BY <1>1, <2>3, <3>1, Exchanged
  <2> QED
    BY <1>1, <2>2, <2>4 DEF Replace, other
<1>6. CASE \E value \in (Heap \ live) \cup NotHeap \cup {NULL} :
             PutUpdate(key, value) \/ PutNew(key, value) \/ PutEvict(key, value)
  <2>1. result' = NULL /\ freed' = freed
    BY <1>6 DEF PutUpdate, PutNew, PutEvict
  <2> QED
    BY <1>5, <1>6, <2>1 DEF AllValues
<1> QED
  BY <1>3, <1>4, <1>6 DEF Call

LEMMA FreeFreesAll ==
  ASSUME IInv, lru_cache_free
  PROVE  /\ Keeps(cache', << >>) /\ cache'.nodes = << >> /\ live' = {}
         /\ misfreed' \subseteq NotHeap
<1> DEFINE l == Forward(cache)
           nodes == Restrict(cache.nodes, DOMAIN cache.nodes \ ToSet(l))
<1>1. /\ Keeps(cache, l) /\ Owned(cache.nodes, live) /\ misfreed \subseteq NotHeap
  BY DEF IInv
<1>2. /\ DOMAIN cache.nodes = ToSet(l)
      /\ \A a \in ToSet(l) : cache.nodes[a].value \in AllValues
  BY <1>1, KeepsNodes
<1>3. nodes = [a \in {} |-> cache.nodes[a]]
  BY <1>2 DEF Restrict
<1>4. nodes = << >> /\ nodes \in [{} -> Nodes]
  <2>1. nodes \in [{} -> Nodes] /\ nodes \in [{} -> {}]
    BY <1>3
  <2>2. << >> \in [{} -> {}]
    BY NothingListed
  <2> QED
    BY <2>1, <2>2
<1>5. cache' = [EmptyCache EXCEPT !.nodes = nodes]
  BY DEF lru_cache_free
<1> HIDE DEF nodes, l
<1>6. Keeps(cache', << >>) /\ cache'.nodes = << >>
  <2>1. cache'.nodes = nodes
    BY <1>5 DEF EmptyCache
  <2> QED
    BY <1>4, <1>5, <2>1, EmptyKeeps
<1>7. ValuesOf(cache) = {cache.nodes[a].value : a \in DOMAIN cache.nodes} \ {NULL}
  BY <1>2 DEF ValuesOf, l
<1>8. \A v \in ValuesOf(cache) : v \in live \/ v \in NotHeap
  BY <1>1, <1>2, <1>7 DEF Owned, AllValues
<1>9. live \subseteq ValuesOf(cache)
  BY <1>1, <1>7, NullAssumption DEF Owned
<1> QED
  BY <1>1, <1>6, <1>8, <1>9 DEF lru_cache_free

LEMMA NextIInv == IInv /\ [Next]_vars => IInv'
<1> SUFFICES ASSUME IInv, [Next]_vars PROVE IInv'
  OBVIOUS
<1>1. CASE UNCHANGED vars
  <2>1. Forward(cache)' = Forward(cache)
    BY <1>1 DEF vars, Forward, Walk
  <2> QED
    BY <1>1, <2>1 DEF vars, IInv
<1>2. CASE Next
  <2>1. ASSUME NEW key \in Keys, Call(key) PROVE IInv'
    <3>1. PICK l : Keeps(cache', l)
      BY <2>1, CallKeeps
    <3>2. Forward(cache') = l
      BY <3>1, KeepsList
    <3>3. /\ Owned(cache'.nodes, live') /\ misfreed' \subseteq NotHeap
          /\ result' \in AllValues /\ freed' = FALSE
      BY <1>2, <2>1, CallKeeps DEF IInv, Next
    <3> QED
      BY <3>1, <3>2, <3>3 DEF IInv
  <2>2. CASE lru_cache_free
    <3>1. /\ Keeps(cache', << >>) /\ cache'.nodes = << >> /\ live' = {}
          /\ misfreed' \subseteq NotHeap
      BY <2>2, FreeFreesAll
    <3>2. Forward(cache') = << >>
      BY <3>1, KeepsList
    <3>3. Owned(cache'.nodes, live') /\ DOMAIN cache'.nodes = {}
      BY <3>1, NothingListed DEF Owned
    <3>4. freed' = TRUE /\ result' = NULL
      BY <2>2 DEF lru_cache_free
    <3> QED
      BY <3>1, <3>2, <3>3, <3>4 DEF IInv, AllValues
  <2> QED
    BY <1>2, <2>1, <2>2 DEF Next
<1> QED
  BY <1>1, <1>2

LEMMA SpecIInv == Spec => []IInv
  BY InitIInv, NextIInv, PTL DEF Spec
-----------------------------------------------------------------------------
(* What is left when no call runs.                                         *)

(* cache, live and the result of get stay of their types: size counts no   *)
(* more nodes than the capacity, and links lead to addresses or nowhere.   *)
THEOREM SpecTypeOK == Spec => []TypeOK
<1>1. IInv => TypeOK
  <2> SUFFICES ASSUME IInv PROVE TypeOK
    OBVIOUS
  <2> DEFINE l == Forward(cache)
  <2>1. Keeps(cache, l) /\ cache \in Caches(ToSet(l)) /\ ToSet(l) \subseteq Addresses
    BY DEF IInv, Keeps, Linking
  <2>2. DOMAIN cache.nodes = ToSet(l) /\ Len(l) \in Nat
    BY <2>1, KeepsNodes
  <2>3. cache.size \in 0 .. Capacity
    BY <2>1, <2>2, CapacityAssumption DEF Keeps
  <2> HIDE DEF l
  <2>4. /\ cache.head \in Pointers /\ cache.tail \in Pointers
        /\ \A a \in DOMAIN cache.nodes : cache.nodes[a] \in Nodes
        /\ DOMAIN cache.hash_table = Indices
    BY <2>1, <2>2 DEF Caches
  <2>5. live \subseteq Heap /\ misfreed \subseteq AllValues
    BY DEF IInv, Owned, AllValues
  <2> QED
    BY <2>1, <2>2, <2>3, <2>4, <2>5 DEF TypeOK, IInv, Nodes
<1> QED
  BY <1>1, SpecIInv, PTL

(* remove_node, add_to_front (lru_cache.c:46-94) and the eviction keep the *)
(* nodes one list whichever way it is walked, with every allocated node on *)
(* it once and as many as size says; no link leads to a freed node.        *)
THEOREM SpecListLinked == Spec => []ListLinked
<1>1. IInv => ListLinked
  <2> SUFFICES ASSUME IInv PROVE ListLinked
    OBVIOUS
  <2> DEFINE l == Forward(cache)
  <2>1. Keeps(cache, l) /\ Len(l) = cache.size
    BY DEF IInv, Keeps
  <2>2. DOMAIN cache.nodes = ToSet(l) /\ l \in DistinctSeq(Addresses)
    BY <2>1, KeepsNodes
  <2>3. Backward(cache) = Reverse(l)
    BY <2>1, KeepsList
  <2> HIDE DEF l
  <2>4. Reverse(Backward(cache)) = l
    BY <2>2, <2>3, ReverseIs
  <2> QED
    BY <2>1, <2>2, <2>4 DEF ListLinked, DistinctSeq, l
<1> QED
  BY <1>1, SpecIInv, PTL

(* Every key has an index but the most negative int: its abs is negative,  *)
(* and so is the remainder, which becomes a large unsigned number.         *)
LEMMA HashIs ==
  ASSUME NEW key \in Keys
  PROVE  hash(key) \in Indices <=> key # SignBit
<1>1. /\ HASH_SIZE \in Nat \ {0} /\ SignBit \in Nat \ {0} /\ key \in 0 .. 2 * SignBit - 1
      /\ HASH_SIZE <= SignBit /\ SignBit % HASH_SIZE # 0
  BY HashAssumption, OverflowAssumption
<1>2. CASE key # SignBit
  <2>1. Abs(ToInt(key)) \in Nat
    BY <1>1, <1>2 DEF Abs, ToInt
  <2>2. hash(key) = Abs(ToInt(key)) % HASH_SIZE
    BY <2>1 DEF hash
  <2>3. \A a \in Nat : a % HASH_SIZE \in 0 .. HASH_SIZE - 1
    BY <1>1
  <2> QED
    BY <1>2, <2>1, <2>2, <2>3 DEF Indices
<1>3. CASE key = SignBit
  <2> DEFINE m == SignBit % HASH_SIZE
  <2>1. m \in 1 .. HASH_SIZE - 1
    BY <1>1
  <2>2. Abs(ToInt(key)) = -SignBit /\ -(-SignBit) = SignBit /\ ~(-SignBit >= 0)
    BY <1>1, <1>3 DEF Abs, ToInt
  <2>3. hash(key) = (2 * SignBit - m) % (2 * SignBit)
    BY <2>2 DEF hash
  <2> HIDE DEF m
  <2>4. 2 * SignBit - m \in 0 .. 2 * SignBit - 1 /\ 2 * SignBit \in Nat \ {0}
    BY <1>1, <2>1
  <2>5. \A n \in Nat \ {0} : \A k \in 0 .. n - 1 : k % n = k
    OBVIOUS
  <2>6. hash(key) = 2 * SignBit - m
    BY <2>3, <2>4, <2>5
  <2> QED
    BY <1>1, <1>3, <2>1, <2>6 DEF Indices
<1> QED
  BY <1>2, <1>3

(* hash_insert and hash_delete (lru_cache.c:98-156) keep the chains in step *)
(* with the list through puts, updates and evictions: one entry for each   *)
(* listed node, in the chain of its key, and a key is cached once.         *)
THEOREM SpecTableAgrees == Spec => []TableAgrees
<1>1. IInv => TableAgrees
  <2> SUFFICES ASSUME IInv PROVE TableAgrees
    OBVIOUS
  <2> DEFINE l == Forward(cache)
             nodes == cache.nodes
  <2>1. Keeps(cache, l) /\ TableHolds(cache.hash_table, nodes, l)
    BY DEF IInv, Keeps, Linking
  <2>2. /\ DOMAIN nodes = ToSet(l)
        /\ \A a \in ToSet(l) : a \in Addresses /\ nodes[a].key \in Keys
    BY <2>1, KeepsNodes
  <2> HIDE DEF l, nodes
  <2>3. ASSUME NEW index \in Indices
        PROVE  /\ IsInjective(cache.hash_table[index])
               /\ ToSet(cache.hash_table[index]) =
                    {[key |-> nodes[a].key, node |-> a] :
                       a \in {b \in DOMAIN nodes : hash(nodes[b].key) = index}}
    <3> DEFINE chain == cache.hash_table[index]
               E == {[key |-> nodes[a].key, node |-> a] :
                       a \in {b \in DOMAIN nodes : hash(nodes[b].key) = index}}
    <3>1. /\ chain \in DistinctSeq(Entries)
          /\ \A e \in Entries : e \in ToSet(chain) <=>
               e.node \in ToSet(l) /\ nodes[e.node].key = e.key /\ hash(e.key) = index
      BY <2>1 DEF TableHolds
    <3>2. ToSet(chain) \subseteq Entries
      <4>1. chain \in Seq(Entries)
        BY <3>1 DEF DistinctSeq
      <4> HIDE DEF chain
      <4>2. DOMAIN chain = 1 .. Len(chain)
        BY <4>1, LenProperties
      <4> QED
        BY <4>1, <4>2, ElementOfSeq DEF ToSet
    <3> HIDE DEF chain
    <3>3. ASSUME NEW e \in ToSet(chain) PROVE e \in E
      <4>1. /\ e \in Entries /\ e.node \in DOMAIN nodes /\ nodes[e.node].key = e.key
            /\ hash(nodes[e.node].key) = index
        BY <2>2, <3>1, <3>2
      <4>2. e = [key |-> nodes[e.node].key, node |-> e.node]
        BY <4>1 DEF Entries
      <4> QED
        BY <4>1, <4>2
    <3>4. ASSUME NEW a \in DOMAIN nodes, hash(nodes[a].key) = index
          PROVE  [key |-> nodes[a].key, node |-> a] \in ToSet(chain)
      <4> DEFINE e == [key |-> nodes[a].key, node |-> a]
      <4>1. e \in Entries /\ e.key = nodes[a].key /\ e.node = a
        BY <2>2 DEF Entries
      <4> HIDE DEF e
      <4>2. e \in ToSet(chain)
        BY <2>2, <3>1, <3>4, <4>1
      <4> QED
        BY <4>2 DEF e
    <3> QED
      BY <3>1, <3>3, <3>4 DEF DistinctSeq, chain
  <2>4. \A a, b \in DOMAIN nodes : nodes[a].key = nodes[b].key => a = b
    BY <2>1, <2>2 DEF TableHolds
  <2> QED
    BY <2>3, <2>4, HashIs DEF TableAgrees, nodes
<1> QED
  BY <1>1, SpecIInv, PTL

(* The frees of lru_cache_put and lru_cache_free (lru_cache.c:178-253):    *)
(* the live blocks are the values of the listed nodes, one node each, none *)
(* is freed twice, and after lru_cache_free no node and no block is left.  *)
THEOREM SpecValuesOwned == Spec => []ValuesOwned
<1>1. IInv => ValuesOwned
  <2> SUFFICES ASSUME IInv PROVE ValuesOwned
    OBVIOUS
  <2>1. ToSet(Forward(cache)) = DOMAIN cache.nodes
    BY KeepsNodes DEF IInv
  <2>2. ValuesOf(cache) = {cache.nodes[a].value : a \in DOMAIN cache.nodes} \ {NULL}
    BY <2>1 DEF ValuesOf
  <2>3. live = ValuesOf(cache) \cap Heap
    BY <2>2, NullAssumption DEF IInv, Owned
  <2> QED
    BY <2>3 DEF ValuesOwned, IInv, Owned
<1> QED
  BY <1>1, SpecIInv, PTL
-----------------------------------------------------------------------------
(* LruCacheOrder.tla: the cache is an LRU cache.  What View reads off the  *)
(* list: the keys in their order, and under each the value of its node.    *)
Shows(c, l) ==
  LET keys == View(c).order
      stored == View(c).stored
  IN /\ keys = KeysOf(c.nodes, l) /\ keys \in Seq(Int)
     /\ Len(keys) = Len(l) /\ DOMAIN keys = 1 .. Len(l)
     /\ \A k \in 1 .. Len(l) : keys[k] = c.nodes[l[k]].key
     /\ \A j, k \in 1 .. Len(l) : keys[j] = keys[k] => j = k
     /\ \A key : key \in ToSet(keys) <=> \E a \in ToSet(l) : c.nodes[a].key = key
     /\ stored = [key \in ToSet(keys) |-> stored[key]]
     /\ \A a \in ToSet(l) : stored[c.nodes[a].key] = c.nodes[a].value

LEMMA Viewed ==
  ASSUME NEW c, NEW l, Keeps(c, l)
  PROVE  Shows(c, l)
<1> DEFINE keys == KeysOf(c.nodes, l)
           I(key) == {k \in 1 .. Len(keys) : keys[k] = key}
           at(key) == IF I(key) # {} THEN Min(I(key)) ELSE 0
           stored == View(c).stored
<1>1. /\ l \in DistinctSeq(Addresses) /\ TableHolds(c.hash_table, c.nodes, l)
      /\ \A a \in ToSet(l) : c.nodes[a].key \in Int
  <2>1. \A a \in ToSet(l) : c.nodes[a].key \in Keys
    BY KeepsNodes
  <2>2. Keys \subseteq Int
    BY HashAssumption
  <2> QED
    BY <2>1, <2>2, KeepsNodes DEF Keeps, Linking
<1>2. /\ Len(l) \in Nat /\ DOMAIN l = 1 .. Len(l) /\ l \in Seq(Addresses)
      /\ \A k \in 1 .. Len(l) : l[k] \in ToSet(l)
      /\ \A j, k \in 1 .. Len(l) : l[j] = l[k] => j = k
      /\ \A a \in ToSet(l) : \E k \in 1 .. Len(l) : a = l[k]
  BY <1>1, ListPlaces
<1>3. /\ keys \in Seq(Int) /\ Len(keys) = Len(l) /\ DOMAIN keys = 1 .. Len(l)
      /\ \A k \in 1 .. Len(l) : keys[k] = c.nodes[l[k]].key
  <2>1. /\ keys \in Seq(Int) /\ Len(keys) = Len(l)
        /\ \A k \in 1 .. Len(l) : keys[k] = c.nodes[l[k]].key
    BY <1>1, <1>2, KeysSeq
  <2> QED
    BY <1>2, <2>1, LenProperties
<1>4. Forward(c) = l
  BY KeepsList
<1>5. View(c).order = keys
  BY <1>4 DEF View, KeysOf
<1>6. stored = [key \in ToSet(keys) |-> c.nodes[l[at(key)]].value]
  <2>1. View(c) = [order |-> keys,
                   stored |-> [key \in ToSet(keys) |->
                                 c.nodes[l[SelectInSeq(keys, LAMBDA k : k = key)]].value]]
    BY <1>4 DEF View, KeysOf
  <2>2. stored = [key \in ToSet(keys) |->
                    c.nodes[l[SelectInSeq(keys, LAMBDA k : k = key)]].value]
    BY <2>1
  <2> HIDE DEF keys, stored
  <2> QED
    BY <2>2 DEF SelectInSeq
<1> HIDE DEF keys, stored, I
<1>7. \A j, k \in 1 .. Len(l) : keys[j] = keys[k] => j = k
  BY <1>1, <1>2, <1>3 DEF TableHolds
<1>8. \A key : key \in ToSet(keys) <=> \E a \in ToSet(l) : c.nodes[a].key = key
  BY <1>2, <1>3 DEF ToSet
<1>9. ASSUME NEW a \in ToSet(l) PROVE stored[c.nodes[a].key] = c.nodes[a].value
  <2>1. PICK p \in 1 .. Len(l) : a = l[p]
    BY <1>2
  <2>2. keys[p] = c.nodes[a].key /\ c.nodes[a].key \in ToSet(keys)
    BY <1>3, <1>8, <2>1
  <2>3. I(keys[p]) = {p}
    BY <1>3, <1>7 DEF I
  <2>4. at(keys[p]) = p
    BY <1>2, <2>3 DEF Min
  <2> QED
    BY <1>6, <2>1, <2>2, <2>4
<1>10. stored = [key \in ToSet(keys) |-> stored[key]]
  BY <1>6
<1> QED
  BY <1>3, <1>5, <1>7, <1>8, <1>9, <1>10 DEF Shows, keys, stored

(* A put stores its value under its key, the other keys that stay keep     *)
(* theirs.                                                                 *)
LEMMA PutStores ==
  ASSUME NEW c, NEW l, Keeps(c, l), NEW d, NEW l2, Keeps(d, l2),
         NEW node \in ToSet(l2), NEW key, d.nodes[node].key = key,
         NEW value, d.nodes[node].value = value,
         \A a \in ToSet(l2) \ {node} :
           a \in ToSet(l) /\ d.nodes[a].key = c.nodes[a].key /\ d.nodes[a].value = c.nodes[a].value
  PROVE  View(d).stored =
           [k \in ToSet(View(d).order) |-> IF k = key THEN value ELSE View(c).stored[k]]
<1> DEFINE keys == View(d).order
           s == View(d).stored
           t == View(c).stored
<1>0. Shows(c, l) /\ Shows(d, l2)
  BY Viewed
<1>1. /\ \A k : k \in ToSet(keys) <=> \E a \in ToSet(l2) : d.nodes[a].key = k
      /\ s = [k \in ToSet(keys) |-> s[k]]
      /\ \A a \in ToSet(l2) : s[d.nodes[a].key] = d.nodes[a].value
  BY <1>0 DEF Shows
<1>2. \A a \in ToSet(l) : t[c.nodes[a].key] = c.nodes[a].value
  BY <1>0 DEF Shows
<1> HIDE DEF keys, s, t
<1>3. ASSUME NEW k \in ToSet(keys) PROVE s[k] = IF k = key THEN value ELSE t[k]
  <2>1. CASE k = key
    BY <1>1, <2>1
  <2>2. CASE k # key
    <3>1. PICK a \in ToSet(l2) : d.nodes[a].key = k
      BY <1>1
    <3>2. a # node
      BY <2>2, <3>1
    <3> QED
      BY <1>1, <1>2, <2>2, <3>1, <3>2
  <2> QED
    BY <2>1, <2>2
<1> QED
  BY <1>1, <1>3 DEF keys, s, t

LEMMA GetStores ==
  ASSUME NEW c, NEW l, Keeps(c, l), NEW d, NEW l2, Keeps(d, l2), ToSet(l2) = ToSet(l),
         SameNodes(c, d, ToSet(l))
  PROVE  View(d).stored = View(c).stored
<1> DEFINE s == View(d).stored
           t == View(c).stored
           ks == ToSet(View(d).order)
           kt == ToSet(View(c).order)
<1>0. Shows(c, l) /\ Shows(d, l2)
  BY Viewed
<1>1. /\ \A k : k \in ks <=> \E a \in ToSet(l2) : d.nodes[a].key = k
      /\ s = [k \in ks |-> s[k]]
      /\ \A a \in ToSet(l2) : s[d.nodes[a].key] = d.nodes[a].value
  BY <1>0 DEF Shows
<1>2. /\ \A k : k \in kt <=> \E a \in ToSet(l) : c.nodes[a].key = k
      /\ t = [k \in kt |-> t[k]]
      /\ \A a \in ToSet(l) : t[c.nodes[a].key] = c.nodes[a].value
  BY <1>0 DEF Shows
<1> HIDE DEF ks, kt, s, t
<1>3. ks = kt
  BY <1>1, <1>2 DEF SameNodes
<1>4. \A k \in ks : s[k] = t[k]
  BY <1>1, <1>2 DEF SameNodes
<1> QED
  BY <1>1, <1>2, <1>3, <1>4 DEF s, t

(* A node that moves to the front takes its key there.                     *)
LEMMA KeyMoves ==
  ASSUME NEW c, NEW l, Keeps(c, l), NEW p \in 1 .. Len(l), NEW key, c.nodes[l[p]].key = key,
         NEW d, Keeps(d, Moved(l, p)), \A a \in ToSet(l) : d.nodes[a].key = c.nodes[a].key
  PROVE  /\ Contains(View(c).order, key)
         /\ View(d).order = Touched(View(c).order, key)
<1> DEFINE keys == KeysOf(c.nodes, l)
           r == RemoveAt(l, p)
<1>0. Shows(c, l) /\ Shows(d, Moved(l, p))
  BY Viewed
<1>1. /\ View(c).order = keys /\ DOMAIN keys = 1 .. Len(l)
      /\ \A k \in 1 .. Len(l) : keys[k] = c.nodes[l[k]].key
      /\ \A j, k \in 1 .. Len(l) : keys[j] = keys[k] => j = k
      /\ Len(keys) = Len(l)
  BY <1>0 DEF Shows
<1>2. View(d).order = KeysOf(d.nodes, Moved(l, p))
  BY <1>0 DEF Shows
<1>3. /\ l \in DistinctSeq(Addresses) /\ l \in Seq(Addresses) /\ l[p] \in ToSet(l)
      /\ l[p] \in Addresses /\ \A a \in ToSet(l) : c.nodes[a].key \in Int
  <2>1. l \in DistinctSeq(Addresses) /\ \A a \in ToSet(l) : c.nodes[a].key \in Keys
    BY KeepsNodes
  <2>2. Keys \subseteq Int
    BY HashAssumption
  <2> QED
    BY <2>1, <2>2, ListPlaces
<1>4. r \in Seq(Addresses) /\ ToSet(r) \subseteq ToSet(l)
  BY <1>3, RemovedIs DEF DistinctSeq
<1>5. RemoveAt(keys, p) = KeysOf(c.nodes, r)
  BY <1>3, KeysRemoved
<1> HIDE DEF keys, r
<1>6. Contains(keys, key)
  BY <1>1 DEF Contains
<1>7. (CHOOSE k \in DOMAIN keys : keys[k] = key) = p
  BY <1>1
<1>8. Touched(keys, key) = <<key>> \o RemoveAt(keys, p)
  BY <1>7 DEF Touched
<1>9. KeysOf(d.nodes, r) = KeysOf(c.nodes, r)
  BY <1>4, KeysSame
<1>10. /\ d.nodes[l[p]].key = key /\ key \in Int
       /\ \A a \in ToSet(r) : d.nodes[a].key \in Int
  BY <1>3, <1>4
<1>11. KeysOf(d.nodes, Fronted(l[p], r)) = <<key>> \o KeysOf(d.nodes, r)
  <2> DEFINE a == l[p]
  <2> HIDE DEF a
  <2>1. a \in Addresses /\ d.nodes[a].key = key
    BY <1>3, <1>10 DEF a
  <2>2. KeysOf(d.nodes, <<a>> \o r) = <<d.nodes[a].key>> \o KeysOf(d.nodes, r)
    BY <1>4, <1>10, <2>1, KeysInFront
  <2> QED
    BY <2>1, <2>2 DEF Fronted, a
<1> QED
  BY <1>1, <1>2, <1>5, <1>6, <1>8, <1>9, <1>11 DEF Moved, r

(* A node that is added brings its key.                                    *)
LEMMA KeyAdded ==
  ASSUME NEW c, NEW l \in Seq(Addresses), \A a \in ToSet(l) : c.nodes[a].key \in Int,
         NEW new \in Addresses, NEW d, Keeps(d, Fronted(new, l)),
         NEW key \in Int, d.nodes[new].key = key,
         \A a \in ToSet(l) : d.nodes[a].key = c.nodes[a].key
  PROVE  View(d).order = <<key>> \o KeysOf(c.nodes, l)
<1>0. Shows(d, Fronted(new, l))
  BY Viewed
<1>1. View(d).order = KeysOf(d.nodes, Fronted(new, l))
  BY <1>0 DEF Shows
<1>2. KeysOf(d.nodes, l) = KeysOf(c.nodes, l)
  BY KeysSame
<1>3. \A a \in ToSet(l) : d.nodes[a].key \in Int
  OBVIOUS
<1>4. KeysOf(d.nodes, <<new>> \o l) = <<d.nodes[new].key>> \o KeysOf(d.nodes, l)
  BY <1>3, KeysInFront
<1> QED
  BY <1>1, <1>2, <1>4 DEF Fronted
-----------------------------------------------------------------------------
(* The steps, read through the mapping.                                    *)
LEMMA LruOperators ==
  /\ \A order, key : Lru!Touched(order, key) = Touched(order, key)
  /\ \A order, c, key : Lru!Inserted(order, c, key) = Inserted(order, c, key)
  /\ \A order, key : Lru!Contains(order, key) <=> Contains(order, key)
  /\ \A order : Lru!ToSet(order) = ToSet(order)
<1>1. \A order, k : Lru!RemoveAt(order, k) = RemoveAt(order, k)
  BY DEF Lru!RemoveAt, RemoveAt
<1>2. \A order, key : Lru!Touched(order, key) = Touched(order, key)
  BY <1>1 DEF Lru!Touched, Touched
<1>3. \A order, c, key : Lru!Inserted(order, c, key) = Inserted(order, c, key)
  BY DEF Lru!Inserted, Inserted, Lru!Front, Front
<1>4. \A order, key : Lru!Contains(order, key) <=> Contains(order, key)
  BY DEF Lru!Contains, Contains
<1>5. \A order : Lru!ToSet(order) = ToSet(order)
  BY DEF Lru!ToSet, ToSet
<1> QED
  BY <1>2, <1>3, <1>4, <1>5

(* No listed node has the key.                                             *)
LEMMA KeyUnknown ==
  ASSUME NEW c, NEW l, Keeps(c, l), NEW key, \A a \in ToSet(l) : c.nodes[a].key # key
  PROVE  ~Contains(View(c).order, key)
<1>1. Shows(c, l)
  BY Viewed
<1>2. \A k \in ToSet(View(c).order) : \E a \in ToSet(l) : c.nodes[a].key = k
  BY <1>1 DEF Shows
<1> QED
  BY <1>2 DEF Contains, ToSet

LEMMA GetHitGets ==
  ASSUME NEW l, Keeps(cache, l), NEW key \in Keys, hash(key) \in Indices, GetHit(key),
         call' = <<"get", key>>, view = View(cache), view' = View(cache')
  PROVE  Lru!Get(key)
<1>1. PICK p \in 1 .. Len(l) :
         /\ cache.nodes[l[p]].key = key /\ result' = cache.nodes[l[p]].value
         /\ Keeps(cache', Moved(l, p)) /\ ToSet(Moved(l, p)) = ToSet(l)
         /\ SameNodes(cache, cache', ToSet(l))
  BY GetMoves
<1>2. \A a \in ToSet(l) : cache'.nodes[a].key = cache.nodes[a].key
  BY <1>1 DEF SameNodes
<1>3. Contains(view.order, key) /\ view'.order = Touched(view.order, key)
  BY <1>1, <1>2, KeyMoves
<1>4. view'.stored = view.stored
  BY <1>1, GetStores
<1>5. result' = view.stored[key]
  <2>1. Shows(cache, l) /\ l[p] \in ToSet(l)
    BY Viewed, KeepsNodes
  <2> QED
    BY <1>1, <2>1 DEF Shows
<1> QED
  BY <1>3, <1>4, <1>5, LruOperators DEF Lru!Get

LEMMA GetMissGets ==
  ASSUME NEW l, Keeps(cache, l), NEW key \in Keys, hash(key) \in Indices, GetMiss(key),
         call' = <<"get", key>>, view = View(cache), view' = View(cache')
  PROVE  Lru!Get(key)
<1>1. hash_get(cache, key) = NULL /\ cache' = cache /\ result' = NULL
  BY DEF GetMiss
<1>2. ~Contains(view.order, key)
  BY <1>1, KeyFound, KeyUnknown
<1> QED
  BY <1>1, <1>2, LruOperators DEF Lru!Get

LEMMA PutIs ==
  ASSUME NEW key, NEW value \in AllValues, call' = <<"put", key, value>>, result' = NULL,
         view'.order = IF Contains(view.order, key) THEN Touched(view.order, key)
                                                     ELSE Inserted(view.order, Capacity, key),
         view'.stored = [k \in ToSet(view'.order) |-> IF k = key THEN value ELSE view.stored[k]]
  PROVE  Lru!Put(key, value)
<1>1. view'.order = IF Lru!Contains(view.order, key)
                    THEN Lru!Touched(view.order, key)
                    ELSE Lru!Inserted(view.order, Capacity, key)
  BY LruOperators
<1>2. Lru!ToSet(view'.order) = ToSet(view'.order)
  BY LruOperators
<1>3. view'.stored =
        [k \in Lru!ToSet(view'.order) |-> IF k = key THEN value ELSE view.stored[k]]
  BY <1>2
<1> QED
  BY <1>1, <1>3 DEF Lru!Put

LEMMA PutUpdatePuts ==
  ASSUME NEW l, Keeps(cache, l), NEW key \in Keys, hash(key) \in Indices,
         NEW value \in AllValues, PutUpdate(key, value),
         call' = <<"put", key, value>>, view = View(cache), view' = View(cache')
  PROVE  Lru!Put(key, value)
<1>1. PICK p \in 1 .. Len(l) :
         /\ cache.nodes[l[p]].key = key
         /\ Keeps(cache', Moved(l, p)) /\ ToSet(Moved(l, p)) = ToSet(l)
         /\ \A a \in ToSet(l) :
              /\ cache'.nodes[a].key = cache.nodes[a].key
              /\ cache'.nodes[a].value = IF a = l[p] THEN value ELSE cache.nodes[a].value
  BY PutMoves
<1>2. Contains(view.order, key) /\ view'.order = Touched(view.order, key)
  BY <1>1, KeyMoves
<1>3. l[p] \in ToSet(l)
  BY KeepsNodes
<1>4. /\ l[p] \in ToSet(Moved(l, p))
      /\ cache'.nodes[l[p]].key = key /\ cache'.nodes[l[p]].value = value
      /\ \A a \in ToSet(Moved(l, p)) \ {l[p]} :
           /\ a \in ToSet(l) /\ cache'.nodes[a].key = cache.nodes[a].key
           /\ cache'.nodes[a].value = cache.nodes[a].value
  BY <1>1, <1>3
<1>5. view'.stored = [k \in ToSet(view'.order) |-> IF k = key THEN value ELSE view.stored[k]]
  BY <1>1, <1>4, PutStores
<1>6. result' = NULL
  BY DEF PutUpdate
<1> QED
  BY <1>2, <1>5, <1>6, PutIs

LEMMA PutNewPuts ==
  ASSUME NEW l, Keeps(cache, l), NEW key \in Keys, hash(key) \in Indices,
         NEW value \in AllValues, PutNew(key, value),
         call' = <<"put", key, value>>, view = View(cache), view' = View(cache')
  PROVE  Lru!Put(key, value)
<1>1. PICK new \in Addresses :
         /\ new \notin ToSet(l) /\ Len(l) # Capacity
         /\ \A a \in ToSet(l) : cache.nodes[a].key # key
         /\ Keeps(cache', Fronted(new, l)) /\ ToSet(Fronted(new, l)) = ToSet(l) \cup {new}
         /\ cache'.nodes[new].key = key /\ cache'.nodes[new].value = value
         /\ SameNodes(cache, cache', ToSet(l))
  BY PutAdds
<1>2. /\ view.order = KeysOf(cache.nodes, l) /\ Len(view.order) = Len(l)
      /\ l \in Seq(Addresses) /\ key \in Int /\ \A a \in ToSet(l) : cache.nodes[a].key \in Int
  <2>1. Shows(cache, l)
    BY Viewed
  <2>2. l \in DistinctSeq(Addresses) /\ \A a \in ToSet(l) : cache.nodes[a].key \in Keys
    BY KeepsNodes
  <2>3. Keys \subseteq Int
    BY HashAssumption
  <2> QED
    BY <2>1, <2>2, <2>3 DEF Shows, DistinctSeq
<1>3. \A a \in ToSet(l) : cache'.nodes[a].key = cache.nodes[a].key
  BY <1>1 DEF SameNodes
<1>4. view'.order = <<key>> \o view.order
  <2> DEFINE d == cache'
             shown == View(d).order
  <2>1. Keeps(d, Fronted(new, l)) /\ d.nodes[new].key = key
        /\ \A a \in ToSet(l) : d.nodes[a].key = cache.nodes[a].key
    BY <1>1, <1>3
  <2>2. view'.order = shown
    OBVIOUS
  <2> HIDE DEF d
  <2>3. shown = <<key>> \o KeysOf(cache.nodes, l)
    <3>1. /\ l \in Seq(Addresses) /\ new \in Addresses /\ key \in Int
          /\ \A a \in ToSet(l) : cache.nodes[a].key \in Int
      BY <1>2
    <3> HIDE DEF shown
    <3>2. View(d).order = <<key>> \o KeysOf(cache.nodes, l)
      BY <2>1, <3>1, KeyAdded
    <3> QED
      BY <3>2 DEF shown
  <2> QED
    BY <1>2, <2>2, <2>3
<1>5. ~Contains(view.order, key)
  BY <1>1, KeyUnknown
<1>6. view'.order = Inserted(view.order, Capacity, key)
  BY <1>1, <1>2, <1>4 DEF Inserted
<1>7. /\ new \in ToSet(Fronted(new, l))
      /\ \A a \in ToSet(Fronted(new, l)) \ {new} :
           /\ a \in ToSet(l) /\ cache'.nodes[a].key = cache.nodes[a].key
           /\ cache'.nodes[a].value = cache.nodes[a].value
  BY <1>1 DEF SameNodes
<1>8. view'.stored = [k \in ToSet(view'.order) |-> IF k = key THEN value ELSE view.stored[k]]
  BY <1>1, <1>7, PutStores
<1>9. result' = NULL
  BY DEF PutNew
<1> QED
  BY <1>5, <1>6, <1>8, <1>9, PutIs

LEMMA PutEvictPuts ==
  ASSUME NEW l, Keeps(cache, l), NEW key \in Keys, hash(key) \in Indices,
         NEW value \in AllValues, PutEvict(key, value),
         call' = <<"put", key, value>>, view = View(cache), view' = View(cache')
  PROVE  Lru!Put(key, value)
<1> DEFINE r == RemoveAt(l, Capacity)
<1>1. PICK new \in Addresses :
         /\ new \notin ToSet(l) /\ Len(l) = Capacity
         /\ ToSet(r) = ToSet(l) \ {l[Capacity]} /\ r \in DistinctSeq(Addresses)
         /\ \A a \in ToSet(l) : cache.nodes[a].key # key
         /\ Keeps(cache', Fronted(new, r)) /\ ToSet(Fronted(new, r)) = ToSet(r) \cup {new}
         /\ cache'.nodes[new].key = key /\ cache'.nodes[new].value = value
         /\ SameNodes(cache, cache', ToSet(r))
  BY PutEvicts
<1>2. /\ view.order = KeysOf(cache.nodes, l) /\ Len(view.order) = Len(l)
      /\ view.order \in Seq(Int)
      /\ l \in Seq(Addresses) /\ key \in Int /\ \A a \in ToSet(l) : cache.nodes[a].key \in Int
  <2>1. Shows(cache, l)
    BY Viewed
  <2>2. l \in DistinctSeq(Addresses) /\ \A a \in ToSet(l) : cache.nodes[a].key \in Keys
    BY KeepsNodes
  <2>3. Keys \subseteq Int
    BY HashAssumption
  <2> QED
    BY <2>1, <2>2, <2>3 DEF Shows, DistinctSeq
<1>3. Capacity \in 1 .. Len(l) /\ Capacity \in Nat \ {0}
  BY <1>1, CapacityAssumption
<1>4. KeysOf(cache.nodes, r) = Front(view.order)
  <2>1. KeysOf(cache.nodes, r) = RemoveAt(KeysOf(cache.nodes, l), Capacity)
    BY <1>2, <1>3, KeysRemoved
  <2>2. RemoveAt(view.order, Len(view.order)) = Front(view.order)
    BY <1>1, <1>2, <1>3, RemoveLast
  <2> QED
    BY <1>1, <1>2, <2>1, <2>2
<1> HIDE DEF r
<1>5. /\ r \in Seq(Addresses)
      /\ \A a \in ToSet(r) : a \in ToSet(l) /\ cache.nodes[a].key \in Int
                             /\ cache'.nodes[a].key = cache.nodes[a].key
                             /\ cache'.nodes[a].value = cache.nodes[a].value
  BY <1>1, <1>2 DEF DistinctSeq, SameNodes
<1>6. view'.order = <<key>> \o Front(view.order)
  <2> DEFINE d == cache'
             shown == View(d).order
  <2>1. Keeps(d, Fronted(new, r)) /\ d.nodes[new].key = key
        /\ \A a \in ToSet(r) : d.nodes[a].key = cache.nodes[a].key /\ cache.nodes[a].key \in Int
    BY <1>1, <1>5
  <2>2. view'.order = shown
    OBVIOUS
  <2> HIDE DEF d
  <2>3. shown = <<key>> \o KeysOf(cache.nodes, r)
    <3>1. /\ r \in Seq(Addresses) /\ new \in Addresses /\ key \in Int
          /\ \A a \in ToSet(r) : cache.nodes[a].key \in Int
      BY <1>2, <1>5
    <3> HIDE DEF shown
    <3>2. View(d).order = <<key>> \o KeysOf(cache.nodes, r)
      BY <2>1, <3>1, KeyAdded
    <3> QED
      BY <3>2 DEF shown
  <2> QED
    BY <1>4, <2>2, <2>3
<1>7. ~Contains(view.order, key)
  BY <1>1, KeyUnknown
<1>8. view'.order = Inserted(view.order, Capacity, key)
  BY <1>1, <1>2, <1>6 DEF Inserted
<1>9. /\ new \in ToSet(Fronted(new, r))
      /\ \A a \in ToSet(Fronted(new, r)) \ {new} :
           /\ a \in ToSet(l) /\ cache'.nodes[a].key = cache.nodes[a].key
           /\ cache'.nodes[a].value = cache.nodes[a].value
  BY <1>1, <1>5
<1>10. view'.stored = [k \in ToSet(view'.order) |-> IF k = key THEN value ELSE view.stored[k]]
  BY <1>1, <1>9, PutStores
<1>11. result' = NULL
  BY DEF PutEvict
<1> QED
  BY <1>7, <1>8, <1>10, <1>11, PutIs

LEMMA EmptyView ==
  ASSUME NEW c, Keeps(c, << >>)
  PROVE  View(c).order = << >> /\ View(c).stored = << >>
<1>1. Shows(c, << >>)
  BY Viewed
<1>2. View(c).order = << >>
  <2>1. View(c).order \in Seq(Int) /\ Len(View(c).order) = 0
    BY <1>1, NothingListed DEF Shows
  <2> QED
    BY <2>1, EmptySeq
<1>3. View(c).stored = [key \in {} |-> View(c).stored[key]]
  BY <1>1, <1>2, NothingListed DEF Shows
<1>4. View(c).stored = << >>
  <2>1. View(c).stored \in [{} -> {}]
    BY <1>3
  <2>2. << >> \in [{} -> {}]
    BY NothingListed
  <2> QED
    BY <2>1, <2>2
<1> QED
  BY <1>2, <1>4

LEMMA NextLru ==
  IInv /\ view = View(cache) /\ [ViewNext]_<<vars, view>> => [Lru!Next]_(Lru!vars)
<1> SUFFICES ASSUME IInv, view = View(cache), [ViewNext]_<<vars, view>>
             PROVE  [Lru!Next]_(Lru!vars)
  OBVIOUS
<1>1. CASE UNCHANGED <<vars, view>>
  BY <1>1 DEF vars, Lru!vars
<1>2. CASE ViewNext
  <2> DEFINE l == Forward(cache)
  <2>1. Keeps(cache, l) /\ view' = View(cache') /\ Next
    BY <1>2 DEF IInv, ViewNext
  <2> HIDE DEF l
  <2>2. ASSUME NEW key \in Keys, Call(key) PROVE Lru!Next
    <3>1. hash(key) \in Indices
      BY <2>2 DEF Call
    <3>2. CASE GetHit(key) /\ call' = <<"get", key>>
      BY <2>1, <3>1, <3>2, GetHitGets DEF Lru!Next
    <3>3. CASE GetMiss(key) /\ call' = <<"get", key>>
      BY <2>1, <3>1, <3>3, GetMissGets DEF Lru!Next
    <3>4. ASSUME NEW value \in (Heap \ live) \cup NotHeap \cup {NULL},
                 PutUpdate(key, value) \/ PutNew(key, value) \/ PutEvict(key, value),
                 call' = <<"put", key, value>>
          PROVE  Lru!Next
      <4>1. value \in AllValues /\ value \in (Heap \cup NotHeap) \cup {NULL}
        BY DEF AllValues
      <4>2. Lru!Put(key, value)
        BY <2>1, <3>1, <3>4, <4>1, PutUpdatePuts, PutNewPuts, PutEvictPuts
      <4> QED
        BY <4>1, <4>2 DEF Lru!Next
    <3> QED
      BY <2>2, <3>2, <3>3, <3>4 DEF Call
  <2>3. CASE lru_cache_free /\ call' = <<"free">>
    <3>1. Keeps(cache', << >>)
      BY <2>3, FreeFreesAll
    <3>2. view'.order = << >> /\ view'.stored = << >>
      BY <2>1, <3>1, EmptyView
    <3>3. result' = NULL
      BY <2>3 DEF lru_cache_free
    <3> QED
      BY <2>3, <3>2, <3>3 DEF Lru!Next, Lru!Clear
  <2> QED
    BY <2>1, <2>2, <2>3 DEF Next
<1> QED
  BY <1>1, <1>2

(* The linked list, the hash table and the eviction (lru_cache.c:98-204)   *)
(* are an LRU cache: a put or a get that hits makes its key the last used, *)
(* a put of a new key at capacity drops the one not used for longest, it   *)
(* stores the value it was called with, and a get returns the value last   *)
(* put under its key.                                                      *)
THEOREM CacheRefinesLru == ViewSpec => RefinesLru
<1>1. ViewInit => Lru!Init
  <2> SUFFICES ASSUME ViewInit PROVE Lru!Init
    OBVIOUS
  <2>1. Keeps(cache, << >>)
    <3>1. << >> \in [{} -> Nodes] /\ EmptyCache.nodes = << >>
      BY NothingListed DEF EmptyCache
    <3>2. cache = [EmptyCache EXCEPT !.nodes = << >>]
      BY <3>1 DEF ViewInit, Init, lru_cache_create, EmptyCache
    <3> QED
      BY <3>1, <3>2, EmptyKeeps
  <2>2. view.order = << >> /\ view.stored = << >> /\ result = NULL /\ call = <<"create">>
    BY <2>1, EmptyView DEF ViewInit, Init, lru_cache_create
  <2> QED
    BY <2>2 DEF Lru!Init
<1>2. ViewInit => IInv /\ view = View(cache)
  BY InitIInv DEF ViewInit
<1>3. IInv /\ view = View(cache) /\ [ViewNext]_<<vars, view>> => (IInv /\ view = View(cache))'
  <2> SUFFICES ASSUME IInv, view = View(cache), [ViewNext]_<<vars, view>>
               PROVE  IInv' /\ view' = View(cache')
    OBVIOUS
  <2>1. [Next]_vars
    BY DEF ViewNext
  <2>2. IInv'
    BY <2>1, NextIInv
  <2>3. view' = View(cache')
    <3>1. CASE UNCHANGED <<vars, view>>
      <4>1. cache' = cache /\ view' = view
        BY <3>1 DEF vars
      <4> QED
        BY <4>1
    <3>2. CASE ViewNext
      BY <3>2 DEF ViewNext
    <3> QED
      BY <3>1, <3>2
  <2> QED
    BY <2>2, <2>3
<1>4. IInv /\ view = View(cache) /\ [ViewNext]_<<vars, view>> => [Lru!Next]_(Lru!vars)
  BY NextLru
<1> QED
  BY <1>1, <1>2, <1>3, <1>4, PTL DEF ViewSpec, RefinesLru, Lru!Spec
=============================================================================
