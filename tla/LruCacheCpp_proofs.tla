------------------------- MODULE LruCacheCpp_proofs -------------------------
(***************************************************************************)
(* Proofs about LruCacheCpp.tla for every capacity, every set of keys and  *)
(* every set of values: the list stays one list whatever get and put do to *)
(* its links, it agrees with the map, and the whole is an LRU cache.       *)
(***************************************************************************)
EXTENDS LruCacheCpp, Sequence_proofs

-----------------------------------------------------------------------------
(* The links.  A heap of nodes holds the list l if the links lead from one *)
(* sentinel to the other through the places of l, in both directions;      *)
(* other nodes may be on the heap too.  Place 0 is the head, the one after *)
(* the last the tail.                                                      *)
Links == Int \cup {UNSET}
Nodes == [key : Int, value : Values \cup {NULL}, prev : Links, next : Links]

At(l, k) == IF k = 0 THEN Head0 ELSE IF k = Len(l) + 1 THEN Tail0 ELSE l[k]

HoldsList(heap, l) ==
  /\ l \in DistinctSeq(Addresses)
  /\ {Head0, Tail0} \cup ToSet(l) \subseteq DOMAIN heap
  /\ \A k \in 0 .. Len(l) :
       heap[At(l, k)].next = At(l, k + 1) /\ heap[At(l, k + 1)].prev = At(l, k)

LEMMA ListPlaces ==
  ASSUME NEW l \in DistinctSeq(Addresses)
  PROVE  /\ Len(l) \in Nat /\ DOMAIN l = 1 .. Len(l) /\ l \in Seq(Addresses)
         /\ \A k \in 1 .. Len(l) : l[k] \in Addresses /\ l[k] \in ToSet(l) /\ At(l, k) = l[k]
         /\ At(l, 0) = Head0 /\ At(l, Len(l) + 1) = Tail0
         /\ \A j, k \in 1 .. Len(l) : l[j] = l[k] => j = k
         /\ \A j, k \in 0 .. Len(l) + 1 : At(l, j) = At(l, k) => j = k
         /\ \A a \in ToSet(l) : \E k \in 1 .. Len(l) : a = l[k]
<1>1. Len(l) \in Nat /\ DOMAIN l = 1 .. Len(l) /\ l \in Seq(Addresses)
  BY LenProperties DEF DistinctSeq
<1>2. \A k \in 1 .. Len(l) : l[k] \in Addresses /\ l[k] \in ToSet(l)
  BY <1>1, ElementOfSeq DEF ToSet
<1>3. \A j, k \in 1 .. Len(l) : l[j] = l[k] => j = k
  BY <1>1 DEF DistinctSeq, IsInjective
<1>4. /\ At(l, 0) = Head0 /\ At(l, Len(l) + 1) = Tail0
      /\ \A k \in 1 .. Len(l) : At(l, k) = l[k]
  BY <1>1 DEF At
<1>5. Head0 \notin Addresses /\ Tail0 \notin Addresses /\ Head0 # Tail0
  BY CapacityAssumption DEF Head0, Tail0, Addresses
<1>6. ASSUME NEW j \in 0 .. Len(l) + 1, NEW k \in 0 .. Len(l) + 1, At(l, j) = At(l, k)
      PROVE  j = k
  <2>1. /\ j = 0 \/ j \in 1 .. Len(l) \/ j = Len(l) + 1
        /\ k = 0 \/ k \in 1 .. Len(l) \/ k = Len(l) + 1
    BY <1>1
  <2> QED
    BY <1>2, <1>3, <1>4, <1>5, <1>6, <2>1
<1>7. \A a \in ToSet(l) : \E k \in 1 .. Len(l) : a = l[k]
  BY <1>1 DEF ToSet
<1> QED
  BY <1>1, <1>2, <1>3, <1>4, <1>6, <1>7

(* What the two operations on the links do, node by node.                  *)
LEMMA DeleteNodeIs ==
  ASSUME NEW D, NEW heap \in [D -> Nodes], NEW node \in D,
         heap[node].prev \in D, heap[node].next \in D, heap[node].prev \in Links, heap[node].next \in Links
  PROVE  /\ deleteNode(heap, node) \in [D -> Nodes]
         /\ \A a \in D :
              LET new == deleteNode(heap, node)[a] IN
              /\ new.next = IF a = heap[node].prev THEN heap[node].next ELSE heap[a].next
              /\ new.prev = IF a = heap[node].next THEN heap[node].prev ELSE heap[a].prev
              /\ new.key = heap[a].key /\ new.value = heap[a].value
<1> DEFINE p == heap[node].prev
           n == heap[node].next
           h1 == [heap EXCEPT ![p].next = n]
           h2 == [h1 EXCEPT ![n].prev = p]
<1>1. deleteNode(heap, node) = h2
  BY DEF deleteNode
<1>2. p \in D /\ n \in D /\ p \in Links /\ n \in Links
  OBVIOUS
<1> HIDE DEF p, n
<1>3. /\ h1 \in [D -> Nodes]
      /\ \A a \in D : /\ h1[a].next = IF a = p THEN n ELSE heap[a].next
                      /\ h1[a].prev = heap[a].prev
                      /\ h1[a].key = heap[a].key /\ h1[a].value = heap[a].value
  BY <1>2 DEF Nodes
<1> HIDE DEF h1
<1>4. /\ h2 \in [D -> Nodes]
      /\ \A a \in D : /\ h2[a].prev = IF a = n THEN p ELSE h1[a].prev
                      /\ h2[a].next = h1[a].next
                      /\ h2[a].key = h1[a].key /\ h2[a].value = h1[a].value
  BY <1>2, <1>3 DEF Nodes
<1> HIDE DEF h2
<1>5. \A a \in D : /\ h2[a].next = IF a = p THEN n ELSE heap[a].next
                   /\ h2[a].prev = IF a = n THEN p ELSE heap[a].prev
                   /\ h2[a].key = heap[a].key /\ h2[a].value = heap[a].value
  BY <1>3, <1>4
<1> QED
  BY <1>1, <1>4, <1>5 DEF p, n

LEMMA InsertNodeIs ==
  ASSUME NEW D, NEW heap \in [D -> Nodes], NEW node \in D, node \in Links, node # Head0,
         Head0 \in D, heap[Head0].next \in D
  PROVE  /\ insertNode(heap, node) \in [D -> Nodes]
         /\ \A a \in D :
              LET new == insertNode(heap, node)[a]
                  old_mru == heap[Head0].next
              IN /\ new.next = IF a = Head0 THEN node ELSE IF a = node THEN old_mru ELSE heap[a].next
                 /\ new.prev = IF a = node THEN Head0 ELSE IF a = old_mru THEN node ELSE heap[a].prev
                 /\ new.key = heap[a].key /\ new.value = heap[a].value
<1> DEFINE old == heap[Head0].next
           h1 == [heap EXCEPT ![node].next = old]
           h2 == [h1 EXCEPT ![old].prev = node]
           h3 == [h2 EXCEPT ![node].prev = Head0]
           h4 == [h3 EXCEPT ![Head0].next = node]
<1>1. insertNode(heap, node) = h4
  BY DEF insertNode
<1>2. old \in D /\ old \in Links /\ Head0 \in Links
  BY DEF Nodes, Links, Head0
<1> HIDE DEF old
<1>3. /\ h1 \in [D -> Nodes]
      /\ \A a \in D : /\ h1[a].next = IF a = node THEN old ELSE heap[a].next
                      /\ h1[a].prev = heap[a].prev
                      /\ h1[a].key = heap[a].key /\ h1[a].value = heap[a].value
  BY <1>2 DEF Nodes
<1> HIDE DEF h1
<1>4. /\ h2 \in [D -> Nodes]
      /\ \A a \in D : /\ h2[a].prev = IF a = old THEN node ELSE h1[a].prev
                      /\ h2[a].next = h1[a].next
                      /\ h2[a].key = h1[a].key /\ h2[a].value = h1[a].value
  BY <1>2, <1>3 DEF Nodes
<1> HIDE DEF h2
<1>5. /\ h3 \in [D -> Nodes]
      /\ \A a \in D : /\ h3[a].prev = IF a = node THEN Head0 ELSE h2[a].prev
                      /\ h3[a].next = h2[a].next
                      /\ h3[a].key = h2[a].key /\ h3[a].value = h2[a].value
  BY <1>2, <1>4 DEF Nodes
<1> HIDE DEF h3
<1>6. /\ h4 \in [D -> Nodes]
      /\ \A a \in D : /\ h4[a].next = IF a = Head0 THEN node ELSE h3[a].next
                      /\ h4[a].prev = h3[a].prev
                      /\ h4[a].key = h3[a].key /\ h4[a].value = h3[a].value
  BY <1>2, <1>5 DEF Nodes
<1> HIDE DEF h4
<1>7. ASSUME NEW a \in D
      PROVE  /\ h4[a].next = IF a = Head0 THEN node ELSE IF a = node THEN old ELSE heap[a].next
             /\ h4[a].prev = IF a = node THEN Head0 ELSE IF a = old THEN node ELSE heap[a].prev
             /\ h4[a].key = heap[a].key /\ h4[a].value = heap[a].value
  BY <1>3, <1>4, <1>5, <1>6
<1> QED
  BY <1>1, <1>6, <1>7 DEF old

-----------------------------------------------------------------------------
(* What they do to the list.                                               *)
LEMMA HeldPlaces ==
  ASSUME NEW heap, NEW l, HoldsList(heap, l)
  PROVE  /\ l \in DistinctSeq(Addresses) /\ Len(l) \in Nat
         /\ \A k \in 0 .. Len(l) + 1 : At(l, k) \in DOMAIN heap
         /\ \A k \in 1 .. Len(l) :
              heap[l[k]].prev = At(l, k - 1) /\ heap[l[k]].next = At(l, k + 1)
<1>1. l \in DistinctSeq(Addresses)
  BY DEF HoldsList
<1>2. /\ Len(l) \in Nat
      /\ At(l, 0) = Head0 /\ At(l, Len(l) + 1) = Tail0
      /\ \A k \in 1 .. Len(l) : At(l, k) = l[k] /\ l[k] \in ToSet(l)
  BY <1>1, ListPlaces
<1>3. ASSUME NEW k \in 0 .. Len(l) + 1 PROVE At(l, k) \in DOMAIN heap
  <2>1. k = 0 \/ k \in 1 .. Len(l) \/ k = Len(l) + 1
    BY <1>2
  <2> QED
    BY <1>2, <2>1 DEF HoldsList
<1>4. ASSUME NEW k \in 1 .. Len(l)
      PROVE  heap[l[k]].prev = At(l, k - 1) /\ heap[l[k]].next = At(l, k + 1)
  <2>1. k - 1 \in 0 .. Len(l) /\ k \in 0 .. Len(l) /\ (k - 1) + 1 = k
    BY <1>2
  <2> QED
    BY <1>2, <2>1 DEF HoldsList
<1> QED
  BY <1>1, <1>2, <1>3, <1>4

LEMMA DeletedHolds ==
  ASSUME NEW D, NEW heap \in [D -> Nodes], NEW l, HoldsList(heap, l), NEW p \in 1 .. Len(l)
  PROVE  HoldsList(deleteNode(heap, l[p]), RemoveAt(l, p))
<1> DEFINE h == deleteNode(heap, l[p])
           r == RemoveAt(l, p)
           n == Len(l)
<1>1. /\ l \in DistinctSeq(Addresses) /\ n \in Nat
      /\ \A k \in 0 .. n + 1 : At(l, k) \in D
      /\ heap[l[p]].prev = At(l, p - 1) /\ heap[l[p]].next = At(l, p + 1)
  BY HeldPlaces
<1>2. /\ l \in Seq(Addresses)
      /\ \A k \in 1 .. n : At(l, k) = l[k]
      /\ At(l, n + 1) = Tail0 /\ At(l, 0) = Head0
      /\ \A j, k \in 0 .. n + 1 : At(l, j) = At(l, k) => j = k
  BY <1>1, ListPlaces
<1>3. /\ p - 1 \in 0 .. n + 1 /\ p + 1 \in 0 .. n + 1 /\ p \in 0 .. n + 1
  BY <1>1
<1>4. /\ At(l, p - 1) \in D /\ At(l, p + 1) \in D /\ l[p] \in D
      /\ heap[l[p]] \in Nodes
  BY <1>1, <1>2, <1>3
<1>5. /\ h \in [D -> Nodes]
      /\ \A a \in D : /\ h[a].next = IF a = At(l, p - 1) THEN At(l, p + 1) ELSE heap[a].next
                      /\ h[a].prev = IF a = At(l, p + 1) THEN At(l, p - 1) ELSE heap[a].prev
  <2>1. heap[l[p]].prev \in Links /\ heap[l[p]].next \in Links
    BY <1>4 DEF Nodes
  <2> QED
    BY <1>1, <1>4, <2>1, DeleteNodeIs
<1>6. /\ r \in DistinctSeq(Addresses) /\ Len(r) = n - 1 /\ ToSet(r) = ToSet(l) \ {l[p]}
      /\ \A k \in 1 .. n - 1 : r[k] = IF k < p THEN l[k] ELSE l[k + 1]
  <2>1. r \in DistinctSeq(Addresses) /\ Len(r) = n - 1 /\ ToSet(r) = ToSet(l) \ {l[p]}
    BY <1>1, RemoveAtDistinct
  <2>2. \A k \in 1 .. n - 1 : r[k] = IF k < p THEN l[k] ELSE l[k + 1]
    BY <1>2, RemoveAtSeq
  <2> QED
    BY <2>1, <2>2
<1> HIDE DEF h, r
<1>7. ASSUME NEW k \in 0 .. n PROVE At(r, k) = IF k < p THEN At(l, k) ELSE At(l, k + 1)
  <2>1. CASE k = 0
    BY <1>1, <1>2, <2>1 DEF At
  <2>2. CASE k = n
    <3>1. At(r, k) = Tail0
      BY <1>1, <1>6, <2>2 DEF At
    <3> QED
      BY <1>1, <1>2, <2>2, <3>1
  <2>3. CASE k # 0 /\ k # n
    <3>1. k \in 1 .. n - 1 /\ k \in 1 .. n /\ k + 1 \in 1 .. n
      BY <1>1, <2>3
    <3>2. At(r, k) = r[k]
      BY <1>1, <1>6, <2>3, <3>1 DEF At
    <3> QED
      BY <1>2, <1>6, <3>1, <3>2
  <2> QED
    BY <2>1, <2>2, <2>3
<1>8. \A k \in 0 .. n : heap[At(l, k)].next = At(l, k + 1) /\ heap[At(l, k + 1)].prev = At(l, k)
  BY DEF HoldsList
<1> HIDE DEF n
<1>9. ASSUME NEW k \in 0 .. n - 1
      PROVE  h[At(r, k)].next = At(r, k + 1) /\ h[At(r, k + 1)].prev = At(r, k)
  <2>1. k \in 0 .. n /\ k + 1 \in 0 .. n /\ k + 2 \in 0 .. n + 1 /\ k \in 0 .. n + 1 /\ k + 1 \in 0 .. n + 1
        /\ (k + 1) + 1 = k + 2
    BY <1>1
  <2>2. /\ At(l, k) \in D /\ At(l, k + 1) \in D /\ At(l, k + 2) \in D
        /\ heap[At(l, k)].next = At(l, k + 1) /\ heap[At(l, k + 1)].prev = At(l, k)
        /\ heap[At(l, k + 1)].next = At(l, k + 2) /\ heap[At(l, k + 2)].prev = At(l, k + 1)
    BY <1>1, <1>8, <2>1
  <2>3. CASE k + 1 < p
    <3>1. k < p /\ k # p - 1 /\ k + 1 # p + 1
      BY <1>1, <2>3
    <3>2. At(r, k) = At(l, k) /\ At(r, k + 1) = At(l, k + 1)
      BY <1>7, <2>1, <2>3, <3>1
    <3>3. At(l, k) # At(l, p - 1) /\ At(l, k + 1) # At(l, p + 1)
      BY <1>2, <1>3, <2>1, <3>1
    <3> QED
      BY <1>5, <2>2, <3>2, <3>3
  <2>4. CASE k + 1 = p
    <3>1. k < p /\ k = p - 1 /\ k + 2 = p + 1 /\ ~(k + 1 < p)
      BY <1>1, <2>4
    <3>2. At(r, k) = At(l, p - 1) /\ At(r, k + 1) = At(l, p + 1)
      BY <1>7, <2>1, <3>1
    <3> QED
      BY <1>4, <1>5, <3>2
  <2>5. CASE k + 1 > p
    <3>1. ~(k < p) /\ ~(k + 1 < p) /\ k + 1 # p - 1 /\ k + 2 # p + 1
      BY <1>1, <2>5
    <3>2. At(r, k) = At(l, k + 1) /\ At(r, k + 1) = At(l, k + 2)
      BY <1>7, <2>1, <3>1
    <3>3. At(l, k + 1) # At(l, p - 1) /\ At(l, k + 2) # At(l, p + 1)
      BY <1>2, <1>3, <2>1, <3>1
    <3> QED
      BY <1>5, <2>2, <3>2, <3>3
  <2> QED
    BY <1>1, <2>3, <2>4, <2>5
<1>10. {Head0, Tail0} \cup ToSet(r) \subseteq DOMAIN h
  BY <1>5, <1>6 DEF HoldsList
<1> QED
  BY <1>6, <1>9, <1>10 DEF HoldsList, h, r

LEMMA InsertedHolds ==
  ASSUME NEW D, NEW heap \in [D -> Nodes], NEW l, HoldsList(heap, l),
         NEW node \in Addresses, node \in D, node \notin ToSet(l)
  PROVE  HoldsList(insertNode(heap, node), <<node>> \o l)
<1> DEFINE h == insertNode(heap, node)
           f == <<node>> \o l
           n == Len(l)
<1>1. /\ l \in DistinctSeq(Addresses) /\ n \in Nat
      /\ \A k \in 0 .. n + 1 : At(l, k) \in D
  BY HeldPlaces
<1>2. /\ l \in Seq(Addresses)
      /\ \A k \in 1 .. n : At(l, k) = l[k] /\ l[k] \in ToSet(l)
      /\ At(l, n + 1) = Tail0 /\ At(l, 0) = Head0
      /\ \A j, k \in 0 .. n + 1 : At(l, j) = At(l, k) => j = k
  BY <1>1, ListPlaces
<1>3. node \in Links /\ node # Head0 /\ node # Tail0 /\ Head0 \in D
  BY CapacityAssumption DEF Addresses, Head0, Tail0, Links, HoldsList
<1>4. \A k \in 0 .. n : heap[At(l, k)].next = At(l, k + 1) /\ heap[At(l, k + 1)].prev = At(l, k)
  BY DEF HoldsList
<1>5. \A k \in 0 .. n + 1 : At(l, k) # node
  <2> TAKE k \in 0 .. n + 1
  <2>1. k = 0 \/ k \in 1 .. n \/ k = n + 1
    BY <1>1
  <2> QED
    BY <1>2, <1>3, <2>1
<1>6. heap[Head0].next = At(l, 1) /\ At(l, 1) \in D
  BY <1>1, <1>2, <1>4
<1>7. /\ h \in [D -> Nodes]
      /\ \A a \in D :
           /\ h[a].next = IF a = Head0 THEN node ELSE IF a = node THEN At(l, 1) ELSE heap[a].next
           /\ h[a].prev = IF a = node THEN Head0 ELSE IF a = At(l, 1) THEN node ELSE heap[a].prev
  BY <1>3, <1>6, InsertNodeIs
<1>8. /\ f \in DistinctSeq(Addresses) /\ Len(f) = n + 1 /\ f[1] = node
      /\ \A k \in 1 .. n : f[k + 1] = l[k]
      /\ ToSet(f) = ToSet(l) \cup {node}
  BY <1>1, <1>2, InFront, InFrontPlaces, InFrontDistinct
<1> HIDE DEF h, f, n
<1>9. /\ At(f, 0) = Head0 /\ At(f, 1) = node
      /\ \A k \in 1 .. n + 1 : At(f, k + 1) = At(l, k)
  <2>1. At(f, 0) = Head0 /\ At(f, 1) = node
    BY <1>1, <1>8 DEF At
  <2>2. ASSUME NEW k \in 1 .. n + 1 PROVE At(f, k + 1) = At(l, k)
    <3>1. CASE k = n + 1
      BY <1>1, <1>2, <1>8, <3>1 DEF At
    <3>2. CASE k # n + 1
      <4>1. k \in 1 .. n
        BY <1>1, <3>2
      <4>2. At(f, k + 1) = f[k + 1]
        BY <1>1, <1>8, <4>1 DEF At
      <4> QED
        BY <1>2, <1>8, <4>1, <4>2
    <3> QED
      BY <3>1, <3>2
  <2> QED
    BY <2>1, <2>2
<1>10. ASSUME NEW k \in 0 .. n + 1
       PROVE  h[At(f, k)].next = At(f, k + 1) /\ h[At(f, k + 1)].prev = At(f, k)
  <2>1. CASE k = 0
    BY <1>1, <1>3, <1>7, <1>9, <2>1
  <2>2. CASE k = 1
    <3>1. 1 \in 1 .. n + 1 /\ 1 \in 0 .. n + 1 /\ k + 1 = 1 + 1
      BY <1>1, <2>2
    <3>2. At(f, k) = node /\ At(f, k + 1) = At(l, 1) /\ At(l, 1) # node
      BY <1>5, <1>9, <2>2, <3>1
    <3> QED
      BY <1>3, <1>6, <1>7, <3>2
  <2>3. CASE k # 0 /\ k # 1
    <3>1. /\ k - 1 \in 1 .. n + 1 /\ k \in 1 .. n + 1 /\ (k - 1) + 1 = k
          /\ k - 1 \in 0 .. n /\ k - 1 \in 0 .. n + 1 /\ k - 1 # 0 /\ 0 \in 0 .. n + 1
          /\ k # 1 /\ 1 \in 0 .. n + 1
      BY <1>1, <2>3
    <3>2. At(f, k) = At(l, k - 1) /\ At(f, k + 1) = At(l, k)
      BY <1>9, <3>1
    <3>3. At(l, k - 1) # Head0 /\ At(l, k - 1) # node /\ At(l, k) # node /\ At(l, k) # At(l, 1)
      BY <1>2, <1>5, <3>1
    <3>4. heap[At(l, k - 1)].next = At(l, k) /\ heap[At(l, k)].prev = At(l, k - 1)
      BY <1>4, <3>1
    <3>5. At(l, k - 1) \in D /\ At(l, k) \in D
      BY <1>1, <3>1
    <3> QED
      BY <1>7, <3>2, <3>3, <3>4, <3>5
  <2> QED
    BY <2>1, <2>2, <2>3
<1>11. {Head0, Tail0} \cup ToSet(f) \subseteq DOMAIN h
  BY <1>7, <1>8 DEF HoldsList
<1> QED
  BY <1>8, <1>10, <1>11 DEF HoldsList, h, f

(* What leaves the links of the list alone leaves the list alone: a node   *)
(* more or less that is not on it, a value, a key.                         *)
LEMMA SameLinksHold ==
  ASSUME NEW heap, NEW other, NEW l, HoldsList(heap, l),
         {Head0, Tail0} \cup ToSet(l) \subseteq DOMAIN other,
         \A a \in {Head0, Tail0} \cup ToSet(l) :
           other[a].next = heap[a].next /\ other[a].prev = heap[a].prev
  PROVE  HoldsList(other, l)
<1>1. /\ l \in DistinctSeq(Addresses) /\ Len(l) \in Nat
      /\ \A k \in 1 .. Len(l) : At(l, k) = l[k] /\ l[k] \in ToSet(l)
      /\ At(l, Len(l) + 1) = Tail0 /\ At(l, 0) = Head0
  BY ListPlaces DEF HoldsList
<1>2. ASSUME NEW k \in 0 .. Len(l)
      PROVE  other[At(l, k)].next = At(l, k + 1) /\ other[At(l, k + 1)].prev = At(l, k)
  <2>1. /\ k = 0 \/ k \in 1 .. Len(l)
        /\ k + 1 \in 1 .. Len(l) \/ k + 1 = Len(l) + 1
    BY <1>1
  <2>2. {At(l, k), At(l, k + 1)} \subseteq {Head0, Tail0} \cup ToSet(l)
    BY <1>1, <2>1
  <2> QED
    BY <2>2 DEF HoldsList
<1> QED
  BY <1>1, <1>2 DEF HoldsList

-----------------------------------------------------------------------------
(* Walking along the links finds the list.                                 *)
LEMMA WalkFinds ==
  ASSUME NEW heap, NEW l, HoldsList(heap, l), Len(l) <= Capacity
  PROVE  Walk(heap) = l
<1> DEFINE links == [a \in Addresses \cap DOMAIN heap |-> heap[a].next]
           line == Append(l, Tail0)
           S == Addresses \cup {Tail0}
<1>1. /\ l \in DistinctSeq(Addresses) /\ Len(l) \in Nat /\ l \in Seq(Addresses)
      /\ \A k \in 1 .. Len(l) : At(l, k) = l[k] /\ l[k] \in Addresses /\ l[k] \in DOMAIN heap
                                /\ heap[l[k]].next = At(l, k + 1)
      /\ At(l, Len(l) + 1) = Tail0
  BY ListPlaces, HeldPlaces DEF HoldsList
<1>2. Tail0 \notin Addresses
  BY CapacityAssumption DEF Tail0, Addresses
<1>3. l \in Seq(S) /\ Tail0 \in S
  BY <1>1
<1>4. \A k \in 1 .. Len(l) + 1 : line[k] = At(l, k)
  <2>1. line[Len(l) + 1] = Tail0 /\ \A k \in 1 .. Len(l) : line[k] = l[k]
    BY <1>3, AppendProperties
  <2> HIDE DEF line
  <2>2. \A k \in 1 .. Len(l) + 1 : k \in 1 .. Len(l) \/ k = Len(l) + 1
    BY <1>1
  <2> QED
    BY <1>1, <2>1, <2>2
<1>5. heap[Head0].next = line[1]
  <2>1. 0 \in 0 .. Len(l) /\ At(l, 0) = Head0 /\ 0 + 1 = 1 /\ 1 \in 1 .. Len(l) + 1
    BY <1>1 DEF At
  <2> QED
    BY <1>4, <2>1 DEF HoldsList
<1>6. /\ Tail0 \notin DOMAIN links
      /\ \A k \in 1 .. Len(l) : l[k] \in DOMAIN links /\ links[l[k]] = line[k + 1]
  <2>1. \A k \in 1 .. Len(l) : k + 1 \in 1 .. Len(l) + 1
    BY <1>1
  <2> QED
    BY <1>1, <1>2, <1>4, <2>1
<1>7. Capacity + 1 \in Nat /\ Len(l) <= Capacity + 1
  BY <1>1, CapacityAssumption
<1> HIDE DEF links
<1>8. Follow(line[1], links, Capacity + 1) = line
  BY <1>1, <1>6, <1>7, FollowFinds
<1>9. Front(line) = l
  BY <1>3, AppendFront
<1> QED
  BY <1>5, <1>8, <1>9 DEF Walk, links

-----------------------------------------------------------------------------
(* The inductive invariant: the nodes allocated are the sentinels and the  *)
(* nodes of the list, and the map is the inverse of their keys.            *)
MapsList(heap, map, l) ==
  /\ map \in [DOMAIN map -> Addresses] /\ DOMAIN map \subseteq Keys
  /\ \A key \in DOMAIN map : map[key] \in ToSet(l) /\ heap[map[key]].key = key
  /\ \A a \in ToSet(l) :
       /\ heap[a].key \in DOMAIN map /\ map[heap[a].key] = a
       /\ heap[a].value \in Values

Cache(heap, map, l) ==
  /\ heap \in [{Head0, Tail0} \cup ToSet(l) -> Nodes]
  /\ HoldsList(heap, l) /\ Len(l) <= Capacity
  /\ MapsList(heap, map, l)

IInv ==
  /\ destroyed \in BOOLEAN
  /\ IF destroyed THEN nodes = <<>> /\ cache_map = <<>> /\ listed = <<>>
                  ELSE Cache(nodes, cache_map, listed)

(* The map has as many keys as the list has nodes.                         *)
LEMMA MapSize ==
  ASSUME NEW heap, NEW map, NEW l, Cache(heap, map, l)
  PROVE  IsFiniteSet(DOMAIN map) /\ Cardinality(DOMAIN map) = Len(l)
<1> DEFINE f == [k \in 1 .. Len(l) |-> heap[l[k]].key]
<1>1. /\ Len(l) \in Nat /\ \A k \in 1 .. Len(l) : l[k] \in ToSet(l)
      /\ \A j, k \in 1 .. Len(l) : l[j] = l[k] => j = k
      /\ \A a \in ToSet(l) : \E k \in 1 .. Len(l) : a = l[k]
  BY ListPlaces DEF Cache, HoldsList
<1>2. /\ \A key \in DOMAIN map : map[key] \in ToSet(l) /\ heap[map[key]].key = key
      /\ \A a \in ToSet(l) : heap[a].key \in DOMAIN map /\ map[heap[a].key] = a
  BY DEF Cache, MapsList
<1>3. f \in [1 .. Len(l) -> DOMAIN map]
  BY <1>1, <1>2
<1>4. ASSUME NEW j \in 1 .. Len(l), NEW k \in 1 .. Len(l), f[j] = f[k] PROVE j = k
  <2>1. heap[l[j]].key = heap[l[k]].key
    BY <1>4
  <2>2. l[j] = l[k]
    BY <1>1, <1>2, <2>1
  <2> QED
    BY <1>1, <2>2
<1>5. ASSUME NEW key \in DOMAIN map PROVE \E k \in 1 .. Len(l) : f[k] = key
  BY <1>1, <1>2
<1> HIDE DEF f
<1>6. f \in Bijection(1 .. Len(l), DOMAIN map)
  BY <1>3, <1>4, <1>5 DEF Bijection, Injection, Surjection, IsInjective
<1>7. IsFiniteSet(1 .. Len(l)) /\ Cardinality(1 .. Len(l)) = Len(l)
  BY <1>1, UpTo
<1>8. ExistsBijection(1 .. Len(l), DOMAIN map)
  BY <1>6 DEF ExistsBijection
<1> QED
  BY <1>7, <1>8, FS_Bijection

(* There is always an address left for one more node.                      *)
LEMMA AddressLeft ==
  ASSUME NEW l \in DistinctSeq(Addresses), Len(l) <= Capacity
  PROVE  \E a \in Addresses : a \notin {Head0, Tail0} \cup ToSet(l)
<1>1. \A a \in Addresses : a # Head0 /\ a # Tail0
  BY CapacityAssumption DEF Addresses, Head0, Tail0
<1>2. Len(l) \in Nat /\ DOMAIN l = 1 .. Len(l) /\ l \in [1 .. Len(l) -> Addresses]
  BY ListPlaces, LenProperties
<1>3. Capacity + 1 \in Nat /\ Len(l) < Capacity + 1
  BY <1>2, CapacityAssumption
<1>4. ASSUME \A a \in Addresses : a \in ToSet(l) PROVE FALSE
  <2>1. l \in Surjection(1 .. Len(l), Addresses)
    BY <1>2, <1>4 DEF Surjection, ToSet
  <2>2. /\ IsFiniteSet(1 .. Len(l)) /\ Cardinality(1 .. Len(l)) = Len(l)
        /\ Cardinality(Addresses) = Capacity + 1
    BY <1>2, <1>3, UpTo DEF Addresses
  <2>3. Cardinality(Addresses) <= Cardinality(1 .. Len(l))
    BY <2>1, <2>2, FS_Surjection
  <2> QED
    BY <1>3, <1>2, <2>2, <2>3
<1> QED
  BY <1>1, <1>4

(* The end of put: the node gets its value and goes to the front.          *)
LEMMA AttachedIs ==
  ASSUME NEW D, NEW heap \in [D -> Nodes], NEW l, HoldsList(heap, l),
         NEW node \in Addresses, node \in D, node \notin ToSet(l), NEW value \in Values
  PROVE  /\ Attached(heap, node, value) \in [D -> Nodes]
         /\ HoldsList(Attached(heap, node, value), <<node>> \o l)
         /\ \A a \in D :
              /\ Attached(heap, node, value)[a].key = heap[a].key
              /\ Attached(heap, node, value)[a].value = IF a = node THEN value ELSE heap[a].value
<1> DEFINE h == [heap EXCEPT ![node].value = value]
<1>1. /\ h \in [D -> Nodes]
      /\ \A a \in D : /\ h[a].next = heap[a].next /\ h[a].prev = heap[a].prev /\ h[a].key = heap[a].key
                      /\ h[a].value = IF a = node THEN value ELSE heap[a].value
  BY DEF Nodes
<1>2. Attached(heap, node, value) = insertNode(h, node)
  BY DEF Attached
<1> HIDE DEF h
<1>3. HoldsList(h, l)
  <2>1. {Head0, Tail0} \cup ToSet(l) \subseteq D
    BY DEF HoldsList
  <2> QED
    BY <1>1, <2>1, SameLinksHold
<1>4. HoldsList(insertNode(h, node), <<node>> \o l)
  BY <1>1, <1>3, InsertedHolds
<1>5. node \in Links /\ node # Head0 /\ Head0 \in D /\ h[Head0].next \in D
  <2>1. node \in Links /\ node # Head0
    BY CapacityAssumption DEF Addresses, Head0, Links
  <2>2. Len(l) \in Nat /\ \A k \in 0 .. Len(l) + 1 : At(l, k) \in D
    BY <1>1, <1>3, HeldPlaces
  <2>3. h[At(l, 0)].next = At(l, 1) /\ At(l, 0) = Head0 /\ At(l, 0) \in D /\ At(l, 1) \in D
    BY <1>3, <2>2 DEF HoldsList, At
  <2> QED
    BY <2>1, <2>3
<1>6. /\ insertNode(h, node) \in [D -> Nodes]
      /\ \A a \in D : /\ insertNode(h, node)[a].key = h[a].key
                      /\ insertNode(h, node)[a].value = h[a].value
  BY <1>1, <1>5, InsertNodeIs
<1> QED
  BY <1>1, <1>2, <1>4, <1>6

(* A node of the list is taken out of it.                                  *)
LEMMA DetachedIs ==
  ASSUME NEW D, NEW heap \in [D -> Nodes], NEW l, HoldsList(heap, l), NEW p \in 1 .. Len(l)
  PROVE  /\ Removable(heap, l[p])
         /\ deleteNode(heap, l[p]) \in [D -> Nodes]
         /\ HoldsList(deleteNode(heap, l[p]), RemoveAt(l, p))
         /\ \A a \in D : /\ deleteNode(heap, l[p])[a].key = heap[a].key
                         /\ deleteNode(heap, l[p])[a].value = heap[a].value
<1>1. /\ l \in DistinctSeq(Addresses) /\ Len(l) \in Nat
      /\ \A k \in 0 .. Len(l) + 1 : At(l, k) \in D
      /\ heap[l[p]].prev = At(l, p - 1) /\ heap[l[p]].next = At(l, p + 1)
  BY HeldPlaces
<1>2. l[p] \in D
  BY <1>1, ListPlaces DEF HoldsList
<1>3. p - 1 \in 0 .. Len(l) + 1 /\ p + 1 \in 0 .. Len(l) + 1
  BY <1>1
<1>4. heap[l[p]].prev \in D /\ heap[l[p]].next \in D
  BY <1>1, <1>3
<1>5. heap[l[p]].prev \in Links /\ heap[l[p]].next \in Links
  BY <1>2 DEF Nodes
<1> QED
  BY <1>2, <1>4, <1>5, DeleteNodeIs, DeletedHolds DEF Removable

-----------------------------------------------------------------------------
(* The stages of put.                                                      *)
LEMMA KeyPlace ==
  ASSUME NEW heap, NEW map, NEW l, Cache(heap, map, l), NEW key \in DOMAIN map
  PROVE  \E p \in 1 .. Len(l) : l[p] = map[key] /\ heap[l[p]].key = key
<1>1. map[key] \in ToSet(l) /\ heap[map[key]].key = key
  BY DEF Cache, MapsList
<1>2. \E p \in 1 .. Len(l) : map[key] = l[p]
  BY <1>1, ListPlaces DEF Cache, HoldsList
<1> QED
  BY <1>1, <1>2

LEMMA KnownKey ==
  ASSUME Cache(nodes, cache_map, listed), NEW key \in DOMAIN cache_map
  PROVE  /\ NodeFor(key) = cache_map[key] /\ Entered(key) = cache_map
         /\ ~EvictionDue(Entered(key))
         /\ Detached(key) = deleteNode(nodes, cache_map[key])
<1>1. /\ NodeFor(key) = cache_map[key]
      /\ Detached(key) = deleteNode(nodes, cache_map[key])
  BY DEF NodeFor, Detached
<1>2. cache_map \in [DOMAIN cache_map -> Addresses]
  BY DEF Cache, MapsList
<1>3. Entered(key) = cache_map
  <2>1. DOMAIN cache_map \cup {key} = DOMAIN cache_map
    OBVIOUS
  <2>2. Added(cache_map, key, cache_map[key]) = [y \in DOMAIN cache_map |-> cache_map[y]]
    BY <2>1 DEF Added
  <2> QED
    BY <1>1, <1>2, <2>2 DEF Entered
<1>4. Len(listed) \in Nat /\ Len(listed) <= Capacity /\ Cardinality(DOMAIN cache_map) = Len(listed)
  BY MapSize, ListPlaces DEF Cache, HoldsList
<1> QED
  BY <1>1, <1>3, <1>4, CapacityAssumption DEF EvictionDue

LEMMA NewKey ==
  ASSUME Cache(nodes, cache_map, listed), NEW key \in Keys, key \notin DOMAIN cache_map
  PROVE  /\ NodeFor(key) \in Addresses /\ NodeFor(key) \notin DOMAIN nodes
         /\ DOMAIN Entered(key) = DOMAIN cache_map \cup {key}
         /\ Entered(key)[key] = NodeFor(key)
         /\ \A k \in DOMAIN cache_map : Entered(key)[k] = cache_map[k]
         /\ EvictionDue(Entered(key)) <=> Len(listed) = Capacity
         /\ Detached(key) \in [DOMAIN nodes \cup {NodeFor(key)} -> Nodes]
         /\ Detached(key)[NodeFor(key)].key = key
         /\ \A a \in DOMAIN nodes : Detached(key)[a] = nodes[a]
         /\ HoldsList(Detached(key), listed)
<1> DEFINE new == NodeFor(key)
           heap == Detached(key)
<1>1. /\ listed \in DistinctSeq(Addresses) /\ Len(listed) <= Capacity /\ Len(listed) \in Nat
      /\ DOMAIN nodes = {Head0, Tail0} \cup ToSet(listed) /\ nodes \in [DOMAIN nodes -> Nodes]
      /\ HoldsList(nodes, listed) /\ MapsList(nodes, cache_map, listed)
  BY ListPlaces DEF Cache, HoldsList
<1>2. new \in Addresses /\ new \notin DOMAIN nodes
  <2>1. \E a \in Addresses : a \notin DOMAIN nodes
    BY <1>1, AddressLeft
  <2> QED
    BY <2>1 DEF NodeFor, NewAddress
<1>3. /\ DOMAIN Entered(key) = DOMAIN cache_map \cup {key}
      /\ Entered(key)[key] = new
      /\ \A k \in DOMAIN cache_map : Entered(key)[k] = cache_map[k]
  BY DEF Entered, Added
<1>4. EvictionDue(Entered(key)) <=> Len(listed) = Capacity
  <2>1. IsFiniteSet(DOMAIN cache_map) /\ Cardinality(DOMAIN cache_map) = Len(listed)
    BY MapSize
  <2>2. Cardinality(DOMAIN Entered(key)) = Len(listed) + 1
    BY <1>3, <2>1, FS_AddElement
  <2> QED
    BY <1>1, <2>2, CapacityAssumption DEF EvictionDue
<1>5. heap = Added(nodes, new, Node(key, NULL))
  BY DEF Detached
<1>6. Node(key, NULL) \in Nodes /\ Node(key, NULL).key = key
  BY KeysAssumption DEF Node, Nodes, Links
<1>7. /\ heap \in [DOMAIN nodes \cup {new} -> Nodes]
      /\ heap[new].key = key
      /\ \A a \in DOMAIN nodes : heap[a] = nodes[a]
  <2> HIDE DEF new, heap
  <2> QED
    BY <1>1, <1>2, <1>5, <1>6 DEF Added
<1> HIDE DEF new, heap
<1>8. HoldsList(heap, listed)
  BY <1>1, <1>7, SameLinksHold
<1> QED
  BY <1>2, <1>3, <1>4, <1>7, <1>8 DEF new, heap

(* At capacity it is the last node of the list that has to go.             *)
LEMMA LruIsLast ==
  ASSUME Cache(nodes, cache_map, listed), NEW key \in Keys, key \notin DOMAIN cache_map,
         Len(listed) = Capacity
  PROVE  /\ Capacity \in 1 .. Len(listed) /\ Lru(key) = listed[Capacity]
         /\ Removable(Detached(key), Lru(key))
<1>1. HoldsList(Detached(key), listed) /\ Detached(key) \in [DOMAIN nodes \cup {NodeFor(key)} -> Nodes]
  BY NewKey
<1>2. /\ Len(listed) \in Nat /\ Capacity \in 1 .. Len(listed)
      /\ At(listed, Capacity) = listed[Capacity] /\ At(listed, Capacity + 1) = Tail0
  BY <1>1, CapacityAssumption, ListPlaces DEF HoldsList
<1>3. Detached(key)[At(listed, Capacity + 1)].prev = At(listed, Capacity)
  <2>1. Capacity \in 0 .. Len(listed)
    BY <1>2
  <2> QED
    BY <1>1, <2>1 DEF HoldsList
<1>4. Lru(key) = listed[Capacity]
  BY <1>2, <1>3 DEF Lru
<1>5. Removable(Detached(key), listed[Capacity])
  BY <1>1, <1>2, DetachedIs
<1> QED
  BY <1>2, <1>4, <1>5

-----------------------------------------------------------------------------
(* What the methods do.  A get or a put of a cached key moves its node to  *)
(* the front of the list.                                                  *)
Moved(p) == Fronted(listed[p], RemoveAt(listed, p))

LEMMA MovedIs ==
  ASSUME Cache(nodes, cache_map, listed), NEW p \in 1 .. Len(listed)
  PROVE  /\ Moved(p) \in DistinctSeq(Addresses) /\ Len(Moved(p)) = Len(listed)
         /\ ToSet(Moved(p)) = ToSet(listed)
         /\ RemoveAt(listed, p) \in DistinctSeq(Addresses)
         /\ listed[p] \in Addresses /\ listed[p] \in DOMAIN nodes
         /\ listed[p] \notin ToSet(RemoveAt(listed, p))
<1> DEFINE r == RemoveAt(listed, p)
<1>1. /\ listed \in DistinctSeq(Addresses) /\ Len(listed) \in Nat
      /\ listed[p] \in Addresses /\ listed[p] \in ToSet(listed) /\ listed[p] \in DOMAIN nodes
  BY ListPlaces DEF Cache, HoldsList
<1>2. /\ r \in DistinctSeq(Addresses) /\ Len(r) = Len(listed) - 1
      /\ ToSet(r) = ToSet(listed) \ {listed[p]}
  BY <1>1, RemoveAtDistinct
<1>3. Moved(p) = <<listed[p]>> \o r
  BY DEF Moved, Fronted
<1> HIDE DEF r
<1>4. r \in Seq(Addresses) /\ listed[p] \notin ToSet(r)
  BY <1>2 DEF DistinctSeq
<1>5. /\ Moved(p) \in DistinctSeq(Addresses) /\ Len(Moved(p)) = Len(r) + 1
      /\ ToSet(Moved(p)) = ToSet(r) \cup {listed[p]}
  BY <1>1, <1>2, <1>3, <1>4, InFront, InFrontPlaces, InFrontDistinct
<1> QED
  BY <1>1, <1>2, <1>4, <1>5 DEF r

LEMMA GetMoves ==
  ASSUME Cache(nodes, cache_map, listed), NEW key, GetHit(key)
  PROVE  \E p \in 1 .. Len(listed) :
           /\ nodes[listed[p]].key = key /\ result' = nodes[listed[p]].value
           /\ Walk(nodes') = Moved(p) /\ Cache(nodes', cache_map', Moved(p))
           /\ cache_map' = cache_map
           /\ \A a \in DOMAIN nodes : nodes'[a].key = nodes[a].key /\ nodes'[a].value = nodes[a].value
<1>1. PICK p \in 1 .. Len(listed) : listed[p] = cache_map[key] /\ nodes[listed[p]].key = key
  BY KeyPlace DEF GetHit
<1> DEFINE D == DOMAIN nodes
           r == RemoveAt(listed, p)
           h == deleteNode(nodes, listed[p])
<1>2. /\ D = {Head0, Tail0} \cup ToSet(listed) /\ nodes \in [D -> Nodes]
      /\ HoldsList(nodes, listed) /\ Len(listed) <= Capacity
  BY DEF Cache
<1>3. /\ nodes' = insertNode(h, listed[p]) /\ result' = nodes[listed[p]].value
      /\ cache_map' = cache_map
  BY <1>1 DEF GetHit
<1>4. /\ h \in [D -> Nodes] /\ HoldsList(h, r)
      /\ \A a \in D : h[a].key = nodes[a].key /\ h[a].value = nodes[a].value
  <2>1. \A D0 : nodes \in [D0 -> Nodes] =>
          /\ deleteNode(nodes, listed[p]) \in [D0 -> Nodes]
          /\ HoldsList(deleteNode(nodes, listed[p]), RemoveAt(listed, p))
          /\ \A a \in D0 :
               /\ deleteNode(nodes, listed[p])[a].key = nodes[a].key
               /\ deleteNode(nodes, listed[p])[a].value = nodes[a].value
    <3> HIDE DEF D, r, h
    <3> QED
      BY <1>2, DetachedIs
  <2> QED
    BY <1>2, <2>1
<1>5. /\ Moved(p) = <<listed[p]>> \o r /\ Len(Moved(p)) = Len(listed)
      /\ ToSet(Moved(p)) = ToSet(listed)
      /\ listed[p] \in Addresses /\ listed[p] \in D /\ listed[p] \notin ToSet(r)
  BY MovedIs DEF Moved, Fronted
<1> HIDE DEF D, r, h
<1>6. HoldsList(nodes', Moved(p))
  BY <1>3, <1>4, <1>5, InsertedHolds
<1>7. listed[p] \in Links /\ listed[p] # Head0 /\ Head0 \in D /\ h[Head0].next \in D
  <2>1. listed[p] \in Links /\ listed[p] # Head0
    BY <1>5, CapacityAssumption DEF Addresses, Head0, Links
  <2>2. Len(r) \in Nat /\ \A k \in 0 .. Len(r) + 1 : At(r, k) \in D
    BY <1>4, HeldPlaces
  <2>3. h[At(r, 0)].next = At(r, 1) /\ At(r, 0) = Head0 /\ At(r, 0) \in D /\ At(r, 1) \in D
    BY <1>4, <2>2 DEF HoldsList, At
  <2> QED
    BY <2>1, <2>3
<1>8. /\ nodes' \in [D -> Nodes]
      /\ \A a \in D : nodes'[a].key = nodes[a].key /\ nodes'[a].value = nodes[a].value
  BY <1>3, <1>4, <1>5, <1>7, InsertNodeIs
<1>9. MapsList(nodes', cache_map', Moved(p))
  <2>1. MapsList(nodes, cache_map, listed)
    BY DEF Cache
  <2> QED
    BY <1>2, <1>3, <1>5, <1>8, <2>1 DEF MapsList
<1>10. Cache(nodes', cache_map', Moved(p))
  BY <1>2, <1>5, <1>6, <1>8, <1>9 DEF Cache
<1>11. Walk(nodes') = Moved(p)
  BY <1>2, <1>5, <1>6, WalkFinds
<1> QED
  BY <1>1, <1>3, <1>8, <1>10, <1>11 DEF D

LEMMA PutMoves ==
  ASSUME Cache(nodes, cache_map, listed), NEW key \in DOMAIN cache_map, NEW value \in Values,
         PutNoEviction(key, value)
  PROVE  \E p \in 1 .. Len(listed) :
           /\ nodes[listed[p]].key = key
           /\ Walk(nodes') = Moved(p) /\ Cache(nodes', cache_map', Moved(p))
           /\ cache_map' = cache_map
           /\ \A a \in DOMAIN nodes :
                /\ nodes'[a].key = nodes[a].key
                /\ nodes'[a].value = IF a = listed[p] THEN value ELSE nodes[a].value
<1>1. PICK p \in 1 .. Len(listed) : listed[p] = cache_map[key] /\ nodes[listed[p]].key = key
  BY KeyPlace
<1> DEFINE D == DOMAIN nodes
           r == RemoveAt(listed, p)
           h == deleteNode(nodes, listed[p])
<1>2. /\ D = {Head0, Tail0} \cup ToSet(listed) /\ nodes \in [D -> Nodes]
      /\ HoldsList(nodes, listed) /\ Len(listed) <= Capacity
  BY DEF Cache
<1>3. nodes' = Attached(h, listed[p], value) /\ cache_map' = cache_map
  BY <1>1, KnownKey DEF PutNoEviction
<1>4. /\ h \in [D -> Nodes] /\ HoldsList(h, r)
      /\ \A a \in D : h[a].key = nodes[a].key /\ h[a].value = nodes[a].value
  <2>1. /\ deleteNode(nodes, listed[p]) \in [DOMAIN nodes -> Nodes]
        /\ HoldsList(deleteNode(nodes, listed[p]), RemoveAt(listed, p))
        /\ \A a \in DOMAIN nodes :
             /\ deleteNode(nodes, listed[p])[a].key = nodes[a].key
             /\ deleteNode(nodes, listed[p])[a].value = nodes[a].value
    <3>1. \A D0 : nodes \in [D0 -> Nodes] =>
            /\ deleteNode(nodes, listed[p]) \in [D0 -> Nodes]
            /\ HoldsList(deleteNode(nodes, listed[p]), RemoveAt(listed, p))
            /\ \A a \in D0 :
                 /\ deleteNode(nodes, listed[p])[a].key = nodes[a].key
                 /\ deleteNode(nodes, listed[p])[a].value = nodes[a].value
      <4> HIDE DEF D, r, h
      <4> QED
        BY <1>2, DetachedIs
    <3> QED
      BY <1>2, <3>1
  <2> QED
    BY <2>1
<1>5. /\ Moved(p) = <<listed[p]>> \o r /\ Len(Moved(p)) = Len(listed)
      /\ ToSet(Moved(p)) = ToSet(listed)
      /\ listed[p] \in Addresses /\ listed[p] \in D /\ listed[p] \notin ToSet(r)
  BY MovedIs DEF Moved, Fronted
<1> HIDE DEF D, r, h
<1>6. /\ nodes' \in [D -> Nodes] /\ HoldsList(nodes', Moved(p))
      /\ \A a \in D : /\ nodes'[a].key = nodes[a].key
                      /\ nodes'[a].value = IF a = listed[p] THEN value ELSE nodes[a].value
  BY <1>3, <1>4, <1>5, AttachedIs
<1>7. MapsList(nodes', cache_map', Moved(p))
  <2>1. MapsList(nodes, cache_map, listed)
    BY DEF Cache
  <2>2. ToSet(Moved(p)) \subseteq D /\ cache_map' = cache_map
    BY <1>2, <1>3, <1>5
  <2>3. \A a \in ToSet(Moved(p)) : nodes'[a].key = nodes[a].key /\ nodes'[a].value \in Values
    BY <1>2, <1>5, <1>6, <2>1, <2>2 DEF MapsList
  <2> QED
    BY <1>5, <2>1, <2>2, <2>3 DEF MapsList
<1>8. Cache(nodes', cache_map', Moved(p))
  BY <1>2, <1>5, <1>6, <1>7 DEF Cache
<1>9. Walk(nodes') = Moved(p)
  BY <1>2, <1>5, <1>6, WalkFinds
<1> QED
  BY <1>1, <1>3, <1>6, <1>8, <1>9 DEF D

(* A put of a new key adds a node in front; at capacity the last node of   *)
(* the list, which is the one not used for longest, and its key go.        *)
LEMMA PutAdds ==
  ASSUME Cache(nodes, cache_map, listed), NEW key \in Keys, key \notin DOMAIN cache_map,
         NEW value \in Values, PutNoEviction(key, value)
  PROVE  \E new \in Addresses \ DOMAIN nodes :
           /\ Len(listed) < Capacity
           /\ nodes'[Head0].key = nodes[Head0].key /\ nodes'[Tail0].key = nodes[Tail0].key
           /\ Walk(nodes') = Fronted(new, listed) /\ Cache(nodes', cache_map', Fronted(new, listed))
           /\ nodes'[new].key = key /\ nodes'[new].value = value
           /\ \A a \in ToSet(listed) :
                nodes'[a].key = nodes[a].key /\ nodes'[a].value = nodes[a].value
<1> DEFINE new == NodeFor(key)
           D == DOMAIN nodes \cup {new}
           h == Detached(key)
           l2 == <<new>> \o listed
<1>1. /\ listed \in DistinctSeq(Addresses) /\ Len(listed) <= Capacity /\ Len(listed) \in Nat
      /\ DOMAIN nodes = {Head0, Tail0} \cup ToSet(listed) /\ nodes \in [DOMAIN nodes -> Nodes]
      /\ MapsList(nodes, cache_map, listed)
  BY ListPlaces DEF Cache, HoldsList
<1>2. /\ nodes' = Attached(h, new, value) /\ cache_map' = Entered(key)
      /\ ~EvictionDue(Entered(key))
  BY DEF PutNoEviction
<1>3. /\ new \in Addresses /\ new \notin DOMAIN nodes
      /\ DOMAIN cache_map' = DOMAIN cache_map \cup {key} /\ cache_map'[key] = new
      /\ \A k \in DOMAIN cache_map : cache_map'[k] = cache_map[k]
      /\ Len(listed) < Capacity
      /\ h \in [D -> Nodes] /\ h[new].key = key /\ HoldsList(h, listed)
      /\ \A a \in DOMAIN nodes : h[a] = nodes[a]
  <2>1. /\ new \in Addresses /\ new \notin DOMAIN nodes
        /\ DOMAIN Entered(key) = DOMAIN cache_map \cup {key} /\ Entered(key)[key] = new
        /\ \A k \in DOMAIN cache_map : Entered(key)[k] = cache_map[k]
        /\ h \in [D -> Nodes] /\ h[new].key = key /\ HoldsList(h, listed)
        /\ \A a \in DOMAIN nodes : h[a] = nodes[a]
    BY NewKey
  <2>2. Len(listed) # Capacity
    BY <1>2, NewKey
  <2>3. Len(listed) < Capacity
    BY <1>1, <2>2, CapacityAssumption
  <2> HIDE DEF h, new, D
  <2> QED
    BY <1>2, <2>1, <2>3
<1> HIDE DEF h, new
<1>4. /\ nodes' \in [D -> Nodes] /\ HoldsList(nodes', l2)
      /\ \A a \in D : /\ nodes'[a].key = h[a].key
                      /\ nodes'[a].value = IF a = new THEN value ELSE h[a].value
  <2>1. new \in D /\ new \notin ToSet(listed)
    BY <1>1, <1>3
  <2> HIDE DEF D
  <2> QED
    BY <1>2, <1>3, <2>1, AttachedIs
<1>5. /\ Len(l2) = Len(listed) + 1 /\ ToSet(l2) = ToSet(listed) \cup {new}
      /\ D = {Head0, Tail0} \cup ToSet(l2)
  BY <1>1, <1>3, InFront, InFrontPlaces DEF DistinctSeq
<1> HIDE DEF D, l2
<1>6. /\ nodes'[Head0].key = nodes[Head0].key /\ nodes'[Tail0].key = nodes[Tail0].key
      /\ nodes'[new].key = key /\ nodes'[new].value = value
      /\ \A a \in ToSet(listed) :
           nodes'[a].key = nodes[a].key /\ nodes'[a].value = nodes[a].value
  BY <1>1, <1>3, <1>4, <1>5
<1>7. MapsList(nodes', cache_map', l2)
  <2>1. cache_map' \in [DOMAIN cache_map' -> Addresses]
    <3>1. cache_map' = [k \in DOMAIN cache_map \cup {key} |-> cache_map'[k]]
      BY <1>2 DEF Entered, Added
    <3> QED
      BY <1>1, <1>3, <3>1 DEF MapsList
  <2> QED
    BY <1>1, <1>3, <1>5, <1>6, <2>1 DEF MapsList
<1>8. Len(l2) <= Capacity
  BY <1>1, <1>3, <1>5, CapacityAssumption
<1>9. Cache(nodes', cache_map', l2)
  BY <1>4, <1>5, <1>7, <1>8 DEF Cache
<1>10. Walk(nodes') = l2
  BY <1>4, <1>8, WalkFinds
<1> QED
  BY <1>1, <1>3, <1>6, <1>9, <1>10 DEF l2, Fronted

LEMMA PutEvicts ==
  ASSUME Cache(nodes, cache_map, listed), NEW key \in Keys,
         NEW value \in Values, PutEvict(key, value)
  PROVE  /\ key \notin DOMAIN cache_map /\ Len(listed) = Capacity
         /\ \E new \in Addresses \ DOMAIN nodes :
              LET l2 == Fronted(new, RemoveAt(listed, Capacity)) IN
              /\ nodes'[Head0].key = nodes[Head0].key /\ nodes'[Tail0].key = nodes[Tail0].key
              /\ Walk(nodes') = l2 /\ Cache(nodes', cache_map', l2)
              /\ nodes'[new].key = key /\ nodes'[new].value = value
              /\ \A a \in ToSet(RemoveAt(listed, Capacity)) :
                   nodes'[a].key = nodes[a].key /\ nodes'[a].value = nodes[a].value
<1>1. key \notin DOMAIN cache_map
  BY KnownKey DEF PutEvict
<1> DEFINE new == NodeFor(key)
           D1 == DOMAIN nodes \cup {new}
           lru == listed[Capacity]
           D == D1 \ {lru}
           h1 == Detached(key)
           h2 == deleteNode(h1, lru)
           h3 == Free(h2, lru)
           r == RemoveAt(listed, Capacity)
           l2 == <<new>> \o r
           gone == h1[lru].key
<1>2. /\ listed \in DistinctSeq(Addresses) /\ Len(listed) <= Capacity /\ Len(listed) \in Nat
      /\ DOMAIN nodes = {Head0, Tail0} \cup ToSet(listed) /\ nodes \in [DOMAIN nodes -> Nodes]
      /\ MapsList(nodes, cache_map, listed)
  BY ListPlaces DEF Cache, HoldsList
<1>3. Len(listed) = Capacity
  BY <1>1, NewKey DEF PutEvict
<1>4. /\ new \in Addresses /\ new \notin DOMAIN nodes
      /\ DOMAIN Entered(key) = DOMAIN cache_map \cup {key} /\ Entered(key)[key] = new
      /\ \A k \in DOMAIN cache_map : Entered(key)[k] = cache_map[k]
      /\ h1 \in [D1 -> Nodes] /\ h1[new].key = key /\ HoldsList(h1, listed)
      /\ \A a \in DOMAIN nodes : h1[a] = nodes[a]
  BY <1>1, NewKey
<1>5. Capacity \in 1 .. Len(listed) /\ Lru(key) = lru
  BY <1>1, <1>3, LruIsLast
<1>6. /\ nodes' = Attached(h3, new, value)
      /\ cache_map' = Restrict(Entered(key), DOMAIN Entered(key) \ {gone})
  BY <1>5 DEF PutEvict
<1>7. /\ lru \in Addresses /\ lru \in ToSet(listed) /\ lru # Head0 /\ lru # Tail0
  <2>1. lru \in Addresses /\ lru \in ToSet(listed)
    BY <1>2, <1>5, ListPlaces
  <2> QED
    BY <2>1, CapacityAssumption DEF Addresses, Head0, Tail0
<1> HIDE DEF h1, new
<1>8. /\ h2 \in [D1 -> Nodes] /\ HoldsList(h2, r)
      /\ \A a \in D1 : h2[a].key = h1[a].key /\ h2[a].value = h1[a].value
  <2> HIDE DEF D1
  <2> QED
    BY <1>4, <1>5, DetachedIs
<1>9. /\ r \in DistinctSeq(Addresses) /\ Len(r) = Capacity - 1
      /\ ToSet(r) = ToSet(listed) \ {lru}
  BY <1>2, <1>3, <1>5, RemoveAtDistinct
<1> HIDE DEF h2, r
<1>10. /\ h3 \in [D -> Nodes] /\ \A a \in D : h3[a] = h2[a]
  BY <1>8 DEF Free, Restrict
<1> HIDE DEF h3
<1>11. HoldsList(h3, r)
  <2>1. {Head0, Tail0} \cup ToSet(r) \subseteq D
    BY <1>2, <1>7, <1>9
  <2> QED
    BY <1>8, <1>10, <2>1, SameLinksHold
<1>12. new \in D /\ new \notin ToSet(r) /\ new \notin ToSet(listed)
  BY <1>2, <1>4, <1>7, <1>9
<1>13. /\ nodes' \in [D -> Nodes] /\ HoldsList(nodes', l2)
       /\ \A a \in D : /\ nodes'[a].key = h3[a].key
                       /\ nodes'[a].value = IF a = new THEN value ELSE h3[a].value
  <2> HIDE DEF D
  <2> QED
    BY <1>4, <1>6, <1>10, <1>11, <1>12, AttachedIs
<1>14. /\ Len(l2) = Capacity /\ ToSet(l2) = ToSet(r) \cup {new}
  <2>1. r \in Seq(Addresses)
    BY <1>9 DEF DistinctSeq
  <2>2. Len(l2) = Len(r) + 1 /\ ToSet(l2) = ToSet(r) \cup {new}
    BY <1>4, <2>1, InFront, InFrontPlaces
  <2> QED
    BY <1>9, <2>2, CapacityAssumption
<1> HIDE DEF l2
<1>15. D = {Head0, Tail0} \cup ToSet(l2)
  BY <1>2, <1>7, <1>9, <1>12, <1>14
<1>16. /\ nodes'[new].key = key /\ nodes'[new].value = value
       /\ \A a \in ToSet(r) :
            /\ nodes'[a].key = nodes[a].key /\ nodes'[a].value = nodes[a].value
            /\ a \in ToSet(listed) /\ a # lru
  <2>1. nodes'[new].key = key /\ nodes'[new].value = value
    BY <1>4, <1>8, <1>10, <1>12, <1>13
  <2>2. ASSUME NEW a \in ToSet(r)
        PROVE  /\ nodes'[a].key = nodes[a].key /\ nodes'[a].value = nodes[a].value
               /\ a \in ToSet(listed) /\ a # lru
    <3>1. a \in ToSet(listed) /\ a # lru /\ a \in DOMAIN nodes /\ a \in D /\ a \in D1 /\ a # new
      BY <1>2, <1>9, <1>12
    <3> QED
      BY <1>4, <1>8, <1>10, <1>13, <3>1
  <2> QED
    BY <2>1, <2>2
<1>17. /\ nodes'[Head0].key = nodes[Head0].key /\ nodes'[Tail0].key = nodes[Tail0].key
  <2>1. \A a \in {Head0, Tail0} : a \in DOMAIN nodes /\ a \in D1 /\ a \in D /\ a # new
    BY <1>2, <1>4, <1>7
  <2> QED
    BY <1>4, <1>8, <1>10, <1>13, <2>1
<1>18. gone = nodes[lru].key /\ gone \in DOMAIN cache_map /\ cache_map[gone] = lru
  BY <1>2, <1>4, <1>7 DEF MapsList
<1> HIDE DEF gone, D, D1
<1>19. /\ DOMAIN cache_map' = (DOMAIN cache_map \cup {key}) \ {gone}
       /\ \A k \in DOMAIN cache_map' : cache_map'[k] = IF k = key THEN new ELSE cache_map[k]
       /\ cache_map' = [k \in DOMAIN cache_map' |-> cache_map'[k]]
       /\ key # gone
  BY <1>1, <1>4, <1>6, <1>18 DEF Restrict
<1>20. MapsList(nodes', cache_map', l2)
  <2>1. /\ cache_map \in [DOMAIN cache_map -> Addresses] /\ DOMAIN cache_map \subseteq Keys
        /\ \A k \in DOMAIN cache_map : cache_map[k] \in ToSet(listed) /\ nodes[cache_map[k]].key = k
        /\ \A a \in ToSet(listed) :
             /\ nodes[a].key \in DOMAIN cache_map /\ cache_map[nodes[a].key] = a
             /\ nodes[a].value \in Values
    BY <1>2 DEF MapsList
  <2>2. cache_map' \in [DOMAIN cache_map' -> Addresses] /\ DOMAIN cache_map' \subseteq Keys
    BY <1>4, <1>19, <2>1
  <2>3. ASSUME NEW k \in DOMAIN cache_map'
        PROVE  cache_map'[k] \in ToSet(l2) /\ nodes'[cache_map'[k]].key = k
    <3>1. CASE k = key
      BY <1>14, <1>16, <1>19, <3>1
    <3>2. CASE k # key
      <4>1. k \in DOMAIN cache_map /\ k # gone /\ cache_map'[k] = cache_map[k]
        BY <1>19, <3>2
      <4>2. cache_map[k] \in ToSet(r)
        BY <1>9, <1>18, <2>1, <4>1
      <4> QED
        BY <1>14, <1>16, <2>1, <4>1, <4>2
    <3> QED
      BY <3>1, <3>2
  <2>4. ASSUME NEW a \in ToSet(l2)
        PROVE  /\ nodes'[a].key \in DOMAIN cache_map' /\ cache_map'[nodes'[a].key] = a
               /\ nodes'[a].value \in Values
    <3>1. CASE a = new
      BY <1>16, <1>19, <3>1
    <3>2. CASE a # new
      <4>1. a \in ToSet(r)
        BY <1>14, <3>2
      <4>2. /\ nodes'[a].key = nodes[a].key /\ nodes'[a].value = nodes[a].value
            /\ a \in ToSet(listed) /\ a # lru
        BY <1>16, <4>1
      <4>3. nodes[a].key # gone /\ nodes[a].key # key
        BY <1>1, <1>18, <2>1, <4>2
      <4> QED
        BY <1>19, <2>1, <4>2, <4>3
    <3> QED
      BY <3>1, <3>2
  <2> QED
    BY <2>2, <2>3, <2>4 DEF MapsList
<1>21. Cache(nodes', cache_map', l2)
  BY <1>13, <1>14, <1>15, <1>20, CapacityAssumption DEF Cache
<1>22. Walk(nodes') = l2
  BY <1>13, <1>14, WalkFinds, CapacityAssumption
<1> QED
  BY <1>1, <1>3, <1>4, <1>16, <1>21, <1>22, <1>17 DEF l2, r, Fronted
-----------------------------------------------------------------------------
(* The invariant is kept.                                                  *)
LEMMA NothingListed ==
  /\ DOMAIN << >> = {} /\ ToSet(<< >>) = {} /\ Len(<< >>) = 0
  /\ << >> \in DistinctSeq(Addresses)
  BY DEF DistinctSeq, IsInjective, ToSet

LEMMA InitIInv == Init => IInv
<1> SUFFICES ASSUME Init PROVE IInv
  OBVIOUS
<1>1. /\ DOMAIN << >> = {} /\ ToSet(<< >>) = {} /\ Len(<< >>) = 0
      /\ << >> \in DistinctSeq(Addresses)
  BY NothingListed
<1>2. Head0 # Tail0 /\ Head0 \in Int /\ Tail0 \in Int
  BY CapacityAssumption DEF Head0, Tail0
<1>3. /\ nodes \in [{Head0, Tail0} -> Nodes]
      /\ nodes[Head0].next = Tail0 /\ nodes[Tail0].prev = Head0
  BY <1>2 DEF Init, Node, Nodes, Links
<1>4. HoldsList(nodes, listed)
  <2>1. At(listed, 0) = Head0 /\ At(listed, 1) = Tail0 /\ \A k \in 0 .. Len(listed) : k = 0
    BY <1>1 DEF Init, At
  <2>2. DOMAIN nodes = {Head0, Tail0} /\ {Head0, Tail0} \cup ToSet(listed) \subseteq DOMAIN nodes
    BY <1>1, <1>3 DEF Init
  <2>3. \A k \in 0 .. Len(listed) :
          nodes[At(listed, k)].next = At(listed, k + 1) /\ nodes[At(listed, k + 1)].prev = At(listed, k)
    BY <1>3, <2>1
  <2> QED
    BY <1>1, <2>2, <2>3 DEF HoldsList, Init
<1>5. MapsList(nodes, cache_map, listed)
  <2>1. << >> \in [DOMAIN << >> -> Addresses]
    BY <1>1
  <2> QED
    BY <1>1, <2>1 DEF MapsList, Init
<1>6. Len(listed) <= Capacity /\ {Head0, Tail0} \cup ToSet(listed) = {Head0, Tail0}
  BY <1>1, CapacityAssumption DEF Init
<1> QED
  BY <1>3, <1>4, <1>5, <1>6 DEF IInv, Init, Cache

LEMMA CallKeeps ==
  ASSUME Cache(nodes, cache_map, listed), NEW key \in Keys, Call(key)
  PROVE  Cache(nodes', cache_map', Walk(nodes')) /\ destroyed' = destroyed
<1>1. CASE GetHit(key)
  BY <1>1, GetMoves DEF GetHit
<1>2. CASE GetMiss(key)
  <2>1. Walk(nodes) = listed
    BY WalkFinds DEF Cache
  <2> QED
    BY <1>2, <2>1 DEF GetMiss
<1>3. ASSUME NEW value \in Values, PutNoEviction(key, value)
      PROVE  Cache(nodes', cache_map', Walk(nodes')) /\ destroyed' = destroyed
  <2>1. CASE key \in DOMAIN cache_map
    BY <1>3, <2>1, PutMoves DEF PutNoEviction
  <2>2. CASE key \notin DOMAIN cache_map
    BY <1>3, <2>2, PutAdds DEF PutNoEviction
  <2> QED
    BY <2>1, <2>2
<1>4. ASSUME NEW value \in Values, PutEvict(key, value)
      PROVE  Cache(nodes', cache_map', Walk(nodes')) /\ destroyed' = destroyed
  BY <1>4, PutEvicts DEF PutEvict
<1> QED
  BY <1>1, <1>2, <1>3, <1>4 DEF Call

LEMMA DestroyFreesAll ==
  ASSUME Cache(nodes, cache_map, listed), Destroy
  PROVE  nodes' = << >> /\ cache_map' = << >>
<1>1. DOMAIN nodes \ (ToSet(listed) \cup {Head0, Tail0}) = {}
  BY DEF Cache
<1>2. nodes' = [a \in {} |-> nodes[a]]
  BY <1>1 DEF Destroy, Restrict
<1>3. nodes' = << >>
  <2>1. nodes' \in [{} -> {}]
    BY <1>2
  <2>2. << >> \in [{} -> {}]
    BY NothingListed
  <2> QED
    BY <2>1, <2>2
<1> QED
  BY <1>3 DEF Destroy

LEMMA NextIInv == IInv /\ [Next]_vars => IInv'
<1> SUFFICES ASSUME IInv, [Next]_vars PROVE IInv'
  OBVIOUS
<1>1. CASE UNCHANGED vars
  BY <1>1 DEF vars, IInv, Cache, MapsList, HoldsList, At
<1>2. CASE Next
  <2>1. destroyed = FALSE /\ Cache(nodes, cache_map, listed)
    BY <1>2 DEF IInv, Next
  <2>2. listed' = IF destroyed' THEN << >> ELSE Walk(nodes')
    BY <1>2 DEF Next
  <2>3. ASSUME NEW key \in Keys, Call(key) PROVE IInv'
    <3>1. Cache(nodes', cache_map', Walk(nodes')) /\ destroyed' = FALSE
      BY <2>1, <2>3, CallKeeps
    <3>2. Cache(nodes', cache_map', listed')
      BY <2>2, <3>1
    <3> QED
      BY <3>1, <3>2 DEF IInv
  <2>4. CASE PrintStart \/ PrintNode \/ PrintEnd
    <3>1. UNCHANGED <<nodes, cache_map, destroyed>>
      BY <2>4 DEF PrintStart, PrintNode, PrintEnd
    <3>2. Walk(nodes) = listed
      BY <2>1, WalkFinds DEF Cache
    <3>3. Cache(nodes', cache_map', listed')
      BY <2>1, <2>2, <3>1, <3>2
    <3> QED
      BY <2>1, <3>1, <3>3 DEF IInv
  <2>5. CASE Destroy
    BY <2>1, <2>2, <2>5, DestroyFreesAll DEF IInv, Destroy
  <2> QED
    BY <1>2, <2>3, <2>4, <2>5 DEF Next
<1> QED
  BY <1>1, <1>2

LEMMA SpecIInv == Spec => []IInv
  BY InitIInv, NextIInv, PTL DEF Spec
-----------------------------------------------------------------------------
(* The whole line of nodes, sentinels included.                            *)
LEMMA LineIs ==
  ASSUME NEW l \in DistinctSeq(Addresses)
  PROVE  LET line == <<Head0>> \o l \o <<Tail0>> IN
         /\ Len(line) = Len(l) + 2 /\ DOMAIN line = 1 .. Len(l) + 2
         /\ \A k \in 1 .. Len(l) + 2 : line[k] = At(l, k - 1)
<1> DEFINE S == Addresses \cup {Head0, Tail0}
           n == Len(l)
           front == <<Head0>> \o l
           last == <<Tail0>>
           line == front \o last
<1>1. /\ n \in Nat /\ l \in Seq(Addresses)
      /\ At(l, 0) = Head0 /\ At(l, n + 1) = Tail0 /\ \A k \in 1 .. n : At(l, k) = l[k]
  BY ListPlaces
<1>2. l \in Seq(S) /\ Head0 \in S
  BY <1>1
<1>3. /\ front \in Seq(S) /\ Len(front) = n + 1 /\ front[1] = Head0
      /\ \A k \in 1 .. n : front[k + 1] = l[k]
  BY <1>2, InFront, InFrontPlaces
<1>4. last \in Seq(S) /\ Len(last) = 1 /\ last[1] = Tail0
  OBVIOUS
<1> HIDE DEF front, last, n
<1>5. /\ line \in Seq(S) /\ Len(line) = Len(front) + Len(last)
      /\ \A k \in 1 .. Len(front) + Len(last) :
           line[k] = IF k <= Len(front) THEN front[k] ELSE last[k - Len(front)]
  <2> HIDE DEF S
  <2> QED
    BY <1>3, <1>4, ConcatProperties
<1> HIDE DEF line
<1>6. Len(line) = n + 2 /\ DOMAIN line = 1 .. n + 2
  BY <1>1, <1>3, <1>4, <1>5, LenProperties
<1>7. ASSUME NEW k \in 1 .. n + 2 PROVE line[k] = At(l, k - 1)
  <2>1. line[k] = IF k <= n + 1 THEN front[k] ELSE last[k - (n + 1)]
    BY <1>1, <1>3, <1>4, <1>5
  <2>2. CASE k = 1
    BY <1>1, <1>3, <2>1, <2>2
  <2>3. CASE k \in 2 .. n + 1
    <3>1. k - 1 \in 1 .. n /\ (k - 1) + 1 = k /\ k <= n + 1
      BY <1>1, <2>3
    <3> QED
      BY <1>1, <1>3, <2>1, <3>1
  <2>4. CASE k = n + 2
    <3>1. ~(k <= n + 1) /\ k - (n + 1) = 1 /\ k - 1 = n + 1
      BY <1>1, <2>4
    <3> QED
      BY <1>1, <1>4, <2>1, <3>1
  <2> QED
    BY <1>1, <2>2, <2>3, <2>4
<1> QED
  BY <1>6, <1>7 DEF line, front, last, n

LEMMA CacheListLinked ==
  ASSUME Cache(nodes, cache_map, listed), ~destroyed
  PROVE  ListLinked
<1> DEFINE line == <<Head0>> \o listed \o <<Tail0>>
           n == Len(listed)
<1>1. /\ listed \in DistinctSeq(Addresses) /\ n \in Nat
      /\ DOMAIN nodes = {Head0, Tail0} \cup ToSet(listed) /\ nodes \in [DOMAIN nodes -> Nodes]
      /\ HoldsList(nodes, listed)
  BY ListPlaces DEF Cache, HoldsList
<1>2. /\ At(listed, 0) = Head0 /\ At(listed, n + 1) = Tail0
      /\ \A k \in 1 .. n : At(listed, k) = listed[k] /\ listed[k] \in ToSet(listed)
      /\ \A j, k \in 0 .. n + 1 : At(listed, j) = At(listed, k) => j = k
      /\ \A a \in ToSet(listed) : \E k \in 1 .. n : a = listed[k]
  BY <1>1, ListPlaces
<1>3. /\ Len(line) = n + 2 /\ DOMAIN line = 1 .. n + 2
      /\ \A k \in 1 .. n + 2 : line[k] = At(listed, k - 1)
  BY <1>1, LineIs
<1>4. CallsStayInList
  <2> SUFFICES ASSUME NEW key \in Keys
               PROVE  /\ key \in DOMAIN cache_map => Removable(nodes, cache_map[key])
                      /\ EvictionDue(Entered(key)) => Removable(Detached(key), Lru(key))
    BY DEF CallsStayInList
  <2>1. ASSUME key \in DOMAIN cache_map
        PROVE  Removable(nodes, cache_map[key]) /\ ~EvictionDue(Entered(key))
    <3>1. PICK p \in 1 .. n : listed[p] = cache_map[key]
      BY <2>1, KeyPlace
    <3>2. Removable(nodes, listed[p])
      BY <1>1, DetachedIs
    <3> QED
      BY <2>1, <3>1, <3>2, KnownKey
  <2>2. ASSUME key \notin DOMAIN cache_map, EvictionDue(Entered(key))
        PROVE  Removable(Detached(key), Lru(key))
    <3>1. Len(listed) = Capacity
      BY <2>2, NewKey
    <3> QED
      BY <2>2, <3>1, LruIsLast
  <2> QED
    BY <2>1, <2>2
<1> HIDE DEF line, n
<1>5. IsInjective(line)
  <2> SUFFICES ASSUME NEW j \in 1 .. n + 2, NEW k \in 1 .. n + 2, line[j] = line[k]
               PROVE  j = k
    BY <1>3 DEF IsInjective
  <2>1. j - 1 \in 0 .. n + 1 /\ k - 1 \in 0 .. n + 1
    BY <1>1
  <2>2. j - 1 = k - 1
    BY <1>2, <1>3, <2>1
  <2> QED
    BY <2>2
<1>6. ToSet(line) = DOMAIN nodes
  <2>1. ASSUME NEW k \in 1 .. n + 2 PROVE line[k] \in DOMAIN nodes
    <3>1. k - 1 = 0 \/ k - 1 = n + 1 \/ k - 1 \in 1 .. n
      BY <1>1
    <3> QED
      BY <1>1, <1>2, <1>3, <3>1
  <2>2. ASSUME NEW a \in DOMAIN nodes PROVE \E k \in 1 .. n + 2 : line[k] = a
    <3>1. \E j \in 0 .. n + 1 : At(listed, j) = a
      <4>1. CASE a \in ToSet(listed)
        <5>1. PICK k \in 1 .. n : a = listed[k]
          BY <1>2, <4>1
        <5> QED
          BY <1>1, <1>2, <5>1
      <4>2. CASE a \in {Head0, Tail0}
        <5>1. 0 \in 0 .. n + 1 /\ n + 1 \in 0 .. n + 1
          BY <1>1
        <5> QED
          BY <1>2, <4>2, <5>1
      <4> QED
        BY <1>1, <4>1, <4>2
    <3>2. PICK j \in 0 .. n + 1 : At(listed, j) = a
      BY <3>1
    <3>3. j + 1 \in 1 .. n + 2 /\ (j + 1) - 1 = j
      BY <1>1
    <3> QED
      BY <1>3, <3>2, <3>3
  <2> QED
    BY <1>3, <2>1, <2>2 DEF ToSet
<1>7. ASSUME NEW k \in 1 .. Len(line) - 1
      PROVE  nodes[line[k]].next = line[k + 1] /\ nodes[line[k + 1]].prev = line[k]
  <2>1. /\ k \in 1 .. n + 2 /\ k + 1 \in 1 .. n + 2 /\ (k + 1) - 1 = (k - 1) + 1
        /\ k - 1 \in 0 .. n
    BY <1>1, <1>3
  <2>2. line[k] = At(listed, k - 1) /\ line[k + 1] = At(listed, (k - 1) + 1)
    BY <1>3, <2>1
  <2>3. \A j \in 0 .. n : /\ nodes[At(listed, j)].next = At(listed, j + 1)
                          /\ nodes[At(listed, j + 1)].prev = At(listed, j)
    BY <1>1 DEF HoldsList, n
  <2> QED
    BY <2>1, <2>2, <2>3
<1> QED
  BY <1>4, <1>5, <1>6, <1>7 DEF ListLinked, line

(* insertNode, deleteNode and eviction (lru_cache_template.h:113-175) keep *)
(* the nodes one list in both directions from sentinel to sentinel, with   *)
(* every allocated node on it once; no call follows a link that is unset   *)
(* or leads to a freed node, and the destructor leaves nothing behind.     *)
THEOREM SpecListLinked == Spec => []ListLinked
<1>1. IInv => ListLinked
  BY CacheListLinked DEF IInv, ListLinked
<1> QED
  BY <1>1, SpecIInv, PTL

LEMMA CacheKeys ==
  ASSUME NEW heap, NEW map, NEW l, Cache(heap, map, l)
  PROVE  /\ DOMAIN KeysOf(heap, l) = 1 .. Len(l) /\ Len(l) \in Nat
         /\ KeysOf(heap, l) \in Seq(Keys) /\ Len(KeysOf(heap, l)) = Len(l)
         /\ \A k \in 1 .. Len(l) :
              /\ KeysOf(heap, l)[k] = heap[l[k]].key /\ KeysOf(heap, l)[k] \in DOMAIN map
              /\ map[KeysOf(heap, l)[k]] = l[k] /\ heap[l[k]].value \in Values
         /\ IsInjective(KeysOf(heap, l)) /\ ToSet(KeysOf(heap, l)) = DOMAIN map
<1> DEFINE n == Len(l)
           keys == KeysOf(heap, l)
<1>1. /\ l \in DistinctSeq(Addresses) /\ n \in Nat /\ DOMAIN l = 1 .. n
      /\ \A k \in 1 .. n : l[k] \in ToSet(l)
      /\ \A j, k \in 1 .. n : l[j] = l[k] => j = k
      /\ \A a \in ToSet(l) : \E k \in 1 .. n : a = l[k]
  BY ListPlaces DEF Cache, HoldsList
<1>2. /\ DOMAIN map \subseteq Keys
      /\ \A key \in DOMAIN map : map[key] \in ToSet(l) /\ heap[map[key]].key = key
      /\ \A a \in ToSet(l) :
           /\ heap[a].key \in DOMAIN map /\ map[heap[a].key] = a
           /\ heap[a].value \in Values
  BY DEF Cache, MapsList
<1>3. DOMAIN keys = 1 .. n /\ \A k \in 1 .. n : keys[k] = heap[l[k]].key
  BY <1>1 DEF KeysOf
<1>4. keys = [k \in 1 .. n |-> keys[k]]
  BY <1>1 DEF KeysOf
<1> HIDE DEF keys, n
<1>5. \A k \in 1 .. n : /\ keys[k] \in DOMAIN map /\ keys[k] \in Keys
                        /\ map[keys[k]] = l[k] /\ heap[l[k]].value \in Values
  BY <1>1, <1>2, <1>3
<1>6. keys \in [1 .. n -> Keys]
  BY <1>4, <1>5
<1>7. keys \in Seq(Keys) /\ Len(keys) = n
  BY <1>1, <1>6, SeqDef, LenProperties
<1>8. IsInjective(keys)
  <2> SUFFICES ASSUME NEW j \in 1 .. n, NEW k \in 1 .. n, keys[j] = keys[k]
               PROVE  j = k
    BY <1>3 DEF IsInjective
  <2>1. l[j] = l[k]
    BY <1>5
  <2> QED
    BY <1>1, <2>1
<1>9. ToSet(keys) = DOMAIN map
  <2>1. ASSUME NEW key \in DOMAIN map PROVE \E k \in 1 .. n : keys[k] = key
    <3>1. PICK k \in 1 .. n : map[key] = l[k]
      BY <1>1, <1>2
    <3> QED
      BY <1>2, <1>3, <3>1
  <2> QED
    BY <1>3, <1>5, <2>1 DEF ToSet
<1> QED
  BY <1>1, <1>3, <1>5, <1>7, <1>8, <1>9 DEF keys, n

(* The map and the list agree after every put, get and eviction            *)
(* (lru_cache_template.h:133-175): the map holds the keys of the listed     *)
(* nodes and no others, each leading to its node, whose value was put.     *)
THEOREM SpecMapAgrees == Spec => []MapAgrees
<1>1. IInv => MapAgrees
  <2> SUFFICES ASSUME IInv PROVE MapAgrees
    OBVIOUS
  <2>1. CASE destroyed
    <3>1. DOMAIN listed = {} /\ DOMAIN cache_map = {}
      BY <2>1, NothingListed DEF IInv
    <3>2. DOMAIN KeysListed = {}
      BY <3>1 DEF KeysListed
    <3> QED
      BY <3>1, <3>2 DEF MapAgrees, IsInjective, ToSet
  <2>2. CASE ~destroyed
    <3>1. Cache(nodes, cache_map, listed) /\ DOMAIN listed = 1 .. Len(listed)
      BY <2>2, ListPlaces DEF IInv, Cache, HoldsList
    <3>2. KeysListed = KeysOf(nodes, listed)
      BY DEF KeysListed, KeysOf
    <3> QED
      BY <3>1, <3>2, CacheKeys DEF MapAgrees
  <2> QED
    BY <2>1, <2>2
<1> QED
  BY <1>1, SpecIInv, PTL
-----------------------------------------------------------------------------
(* The cache refines AbstractLru.  The values: a put stores its value      *)
(* under its key, the other keys that stay keep theirs.                    *)
StoredIn(heap, map) == [key \in DOMAIN map |-> heap[map[key]].value]

LEMMA PutStores ==
  ASSUME NEW heap, NEW map, NEW l, Cache(heap, map, l),
         NEW heap2, NEW map2, NEW l2, Cache(heap2, map2, l2),
         NEW node \in ToSet(l2), NEW value, heap2[node].value = value,
         \A a \in ToSet(l2) \ {node} :
           a \in ToSet(l) /\ heap2[a].key = heap[a].key /\ heap2[a].value = heap[a].value
  PROVE  StoredIn(heap2, map2) =
           [k \in ToSet(KeysOf(heap2, l2)) |->
              IF k = heap2[node].key THEN value ELSE StoredIn(heap, map)[k]]
<1>1. ToSet(KeysOf(heap2, l2)) = DOMAIN map2
  BY CacheKeys
<1>2. /\ \A k \in DOMAIN map2 : map2[k] \in ToSet(l2) /\ heap2[map2[k]].key = k
      /\ \A a \in ToSet(l2) : heap2[a].key \in DOMAIN map2 /\ map2[heap2[a].key] = a
      /\ \A a \in ToSet(l) : heap[a].key \in DOMAIN map /\ map[heap[a].key] = a
  BY DEF Cache, MapsList
<1>3. ASSUME NEW k \in DOMAIN map2
      PROVE  heap2[map2[k]].value = IF k = heap2[node].key THEN value ELSE StoredIn(heap, map)[k]
  <2>1. CASE k = heap2[node].key
    BY <1>2, <2>1
  <2>2. CASE k # heap2[node].key
    <3>1. map2[k] \in ToSet(l2) \ {node} /\ heap2[map2[k]].key = k
      BY <1>2, <2>2
    <3>2. map2[k] \in ToSet(l) /\ heap[map2[k]].key = k /\ heap2[map2[k]].value = heap[map2[k]].value
      BY <3>1
    <3>3. k \in DOMAIN map /\ map[k] = map2[k]
      BY <1>2, <3>2
    <3> QED
      BY <2>2, <3>2, <3>3 DEF StoredIn
  <2> QED
    BY <2>1, <2>2
<1> QED
  BY <1>1, <1>3 DEF StoredIn
-----------------------------------------------------------------------------
(* The steps, read through the mapping.                                    *)
LEMMA CachedOperators ==
  /\ \A order, key : Cached!Touched(order, key) = Touched(order, key)
  /\ \A order, c, key : Cached!Inserted(order, c, key) = Inserted(order, c, key)
  /\ \A order, key : Cached!Contains(order, key) <=> Contains(order, key)
  /\ \A order : Cached!ToSet(order) = ToSet(order)
<1>1. \A order, k : Cached!RemoveAt(order, k) = RemoveAt(order, k)
  BY DEF Cached!RemoveAt, RemoveAt
<1>2. \A order, key : Cached!Touched(order, key) = Touched(order, key)
  BY <1>1 DEF Cached!Touched, Touched
<1>3. \A order, c, key : Cached!Inserted(order, c, key) = Inserted(order, c, key)
  BY DEF Cached!Inserted, Inserted, Cached!Front, Front
<1>4. \A order, key : Cached!Contains(order, key) <=> Contains(order, key)
  BY DEF Cached!Contains, Contains
<1>5. \A order : Cached!ToSet(order) = ToSet(order)
  BY DEF Cached!ToSet, ToSet
<1> QED
  BY <1>2, <1>3, <1>4, <1>5

LEMMA Mapping ==
  /\ KeysListed = KeysOf(nodes, listed) /\ KeysListed' = KeysOf(nodes', listed')
  BY DEF KeysListed, KeysOf

(* What Cache says of the keys of the nodes.                               *)
LEMMA ListedKeys ==
  ASSUME NEW heap, NEW map, NEW l, Cache(heap, map, l)
  PROVE  /\ l \in Seq(Addresses)
         /\ \A a \in ToSet(l) : heap[a].key \in Int /\ heap[a].key \in DOMAIN map
                                /\ map[heap[a].key] = a /\ a \in DOMAIN heap
  BY ListPlaces, KeysAssumption DEF Cache, HoldsList, MapsList

(* A node that moves to the front takes its key there.                     *)
LEMMA KeyMoves ==
  ASSUME Cache(nodes, cache_map, listed), NEW p \in 1 .. Len(listed),
         NEW key, nodes[listed[p]].key = key,
         \A a \in DOMAIN nodes : nodes'[a].key = nodes[a].key
  PROVE  /\ Contains(KeysListed, key)
         /\ KeysOf(nodes', Moved(p)) = Touched(KeysListed, key)
<1> DEFINE keys == KeysOf(nodes, listed)
           r == RemoveAt(listed, p)
<1>1. /\ listed \in Seq(Addresses)
      /\ \A a \in ToSet(listed) : nodes[a].key \in Int /\ a \in DOMAIN nodes
  BY ListedKeys
<1>2. /\ DOMAIN keys = 1 .. Len(listed) /\ Len(keys) = Len(listed)
      /\ \A k \in 1 .. Len(listed) : keys[k] = nodes[listed[k]].key
      /\ \A j, k \in 1 .. Len(listed) : keys[j] = keys[k] => j = k
  BY CacheKeys DEF IsInjective
<1>3. keys[p] = key
  BY <1>2
<1>4. KeysListed = keys
  BY Mapping
<1>5. /\ r \in Seq(Addresses) /\ ToSet(r) \subseteq ToSet(listed)
      /\ listed[p] \in Addresses /\ listed[p] \in ToSet(listed)
  BY MovedIs, RemoveAtDistinct, ListPlaces DEF DistinctSeq, Cache, HoldsList
<1> HIDE DEF keys
<1>6. Contains(keys, key)
  BY <1>2, <1>3 DEF Contains
<1>7. (CHOOSE k \in DOMAIN keys : keys[k] = key) = p
  BY <1>2, <1>3
<1>8. Touched(keys, key) = <<key>> \o RemoveAt(keys, p)
  BY <1>7 DEF Touched
<1>9. RemoveAt(keys, p) = KeysOf(nodes, r)
  BY <1>1, KeysRemoved DEF keys
<1> HIDE DEF r
<1>10. KeysOf(nodes', r) = KeysOf(nodes, r)
  BY <1>1, <1>5, KeysSame
<1>11. \A a \in ToSet(r) : nodes'[a].key \in Int
  BY <1>1, <1>5
<1>12. nodes'[listed[p]].key = key /\ key \in Int
  BY <1>1, <1>5
<1>13. KeysOf(nodes', <<listed[p]>> \o r) = <<key>> \o KeysOf(nodes', r)
  BY <1>5, <1>11, <1>12, KeysInFront
<1> QED
  BY <1>4, <1>6, <1>8, <1>9, <1>10, <1>13 DEF Moved, Fronted, r

LEMMA GetHitGets ==
  ASSUME Cache(nodes, cache_map, listed), NEW key \in Keys, GetHit(key),
         call' = <<"get", key>>, listed' = Walk(nodes')
  PROVE  Cached!Get(key)
<1>1. PICK p \in 1 .. Len(listed) :
         /\ nodes[listed[p]].key = key /\ result' = nodes[listed[p]].value
         /\ Walk(nodes') = Moved(p) /\ Cache(nodes', cache_map', Moved(p))
         /\ cache_map' = cache_map
         /\ \A a \in DOMAIN nodes : nodes'[a].key = nodes[a].key /\ nodes'[a].value = nodes[a].value
  BY GetMoves
<1>2. Contains(KeysListed, key) /\ KeysListed' = Touched(KeysListed, key)
  BY <1>1, KeyMoves, Mapping
<1>3. key \in DOMAIN cache_map /\ result' = nodes[cache_map[key]].value
  BY DEF GetHit
<1>4. \A k \in DOMAIN cache_map : nodes'[cache_map'[k]].value = nodes[cache_map[k]].value
  <2>1. \A k \in DOMAIN cache_map : cache_map[k] \in DOMAIN nodes
    BY DEF Cache, MapsList
  <2> QED
    BY <1>1, <2>1
<1> QED
  BY <1>1, <1>2, <1>3, <1>4, CachedOperators DEF Cached!Get

LEMMA GetMissGets ==
  ASSUME Cache(nodes, cache_map, listed), NEW key \in Keys, GetMiss(key),
         call' = <<"get", key>>, listed' = Walk(nodes')
  PROVE  Cached!Get(key)
<1>1. Walk(nodes) = listed
  BY WalkFinds DEF Cache
<1>2. UNCHANGED <<nodes, cache_map, listed>> /\ result' = NULL /\ key \notin DOMAIN cache_map
  BY <1>1 DEF GetMiss
<1>3. ~Contains(KeysListed, key)
  <2>1. /\ ToSet(KeysOf(nodes, listed)) = DOMAIN cache_map /\ Len(listed) = Len(KeysOf(nodes, listed))
        /\ DOMAIN KeysOf(nodes, listed) = 1 .. Len(listed)
    BY CacheKeys
  <2> QED
    BY <1>2, <2>1, Mapping DEF Contains, ToSet
<1>4. KeysListed' = KeysListed
  BY <1>2 DEF KeysListed
<1> QED
  BY <1>2, <1>3, <1>4, CachedOperators DEF Cached!Get

LEMMA PutIs ==
  ASSUME NEW key, NEW value \in Values, call' = <<"put", key, value>>, result' = NULL,
         KeysListed' =
           IF Contains(KeysListed, key) THEN Touched(KeysListed, key)
                                         ELSE Inserted(KeysListed, Capacity, key),
         StoredIn(nodes', cache_map') =
           [k \in ToSet(KeysListed') |-> IF k = key THEN value ELSE StoredIn(nodes, cache_map)[k]]
  PROVE  Cached!Put(key, value)
<1>1. KeysListed' = IF Cached!Contains(KeysListed, key)
                    THEN Cached!Touched(KeysListed, key)
                    ELSE Cached!Inserted(KeysListed, Capacity, key)
  BY CachedOperators
<1>2. Cached!ToSet(KeysListed') = ToSet(KeysListed')
  BY CachedOperators
<1>3. [k \in DOMAIN cache_map' |-> nodes'[cache_map'[k]].value] =
        [k \in Cached!ToSet(KeysListed') |->
           IF k = key THEN value ELSE [j \in DOMAIN cache_map |-> nodes[cache_map[j]].value][k]]
  BY <1>2 DEF StoredIn
<1> QED
  BY <1>1, <1>3 DEF Cached!Put

LEMMA PutNoEvictionPuts ==
  ASSUME Cache(nodes, cache_map, listed), NEW key \in Keys, NEW value \in Values,
         PutNoEviction(key, value), call' = <<"put", key, value>>, listed' = Walk(nodes')
  PROVE  Cached!Put(key, value)
<1>1. result' = NULL
  BY DEF PutNoEviction
<1>2. CASE key \in DOMAIN cache_map
  <2>1. PICK p \in 1 .. Len(listed) :
           /\ nodes[listed[p]].key = key
           /\ Walk(nodes') = Moved(p) /\ Cache(nodes', cache_map', Moved(p))
           /\ \A a \in DOMAIN nodes :
                /\ nodes'[a].key = nodes[a].key
                /\ nodes'[a].value = IF a = listed[p] THEN value ELSE nodes[a].value
    BY <1>2, PutMoves
  <2>2. Contains(KeysListed, key) /\ KeysListed' = Touched(KeysListed, key)
    BY <2>1, KeyMoves, Mapping
  <2>3. /\ ToSet(Moved(p)) = ToSet(listed) /\ listed[p] \in ToSet(Moved(p)) /\ listed[p] \in DOMAIN nodes
        /\ ToSet(listed) \subseteq DOMAIN nodes
    BY MovedIs, ListPlaces DEF Cache, HoldsList
  <2>4. StoredIn(nodes', cache_map') =
          [k \in ToSet(KeysOf(nodes', Moved(p))) |->
             IF k = key THEN value ELSE StoredIn(nodes, cache_map)[k]]
    <3>1. /\ nodes'[listed[p]].value = value /\ nodes'[listed[p]].key = key
          /\ \A a \in ToSet(Moved(p)) \ {listed[p]} :
               /\ a \in ToSet(listed) /\ nodes'[a].key = nodes[a].key
               /\ nodes'[a].value = nodes[a].value
      BY <2>1, <2>3
    <3> QED
      BY <2>1, <2>3, <3>1, PutStores
  <2>5. KeysListed' = KeysOf(nodes', Moved(p))
    BY <2>1, Mapping
  <2>6. StoredIn(nodes', cache_map') =
          [k \in ToSet(KeysListed') |-> IF k = key THEN value ELSE StoredIn(nodes, cache_map)[k]]
    BY <2>4, <2>5
  <2>7. KeysListed' = IF Contains(KeysListed, key) THEN Touched(KeysListed, key)
                                               ELSE Inserted(KeysListed, Capacity, key)
    BY <2>2
  <2> QED
    BY <1>1, <2>6, <2>7, PutIs
<1>3. CASE key \notin DOMAIN cache_map
  <2>1. PICK new \in Addresses \ DOMAIN nodes :
           /\ Len(listed) < Capacity
           /\ Walk(nodes') = Fronted(new, listed) /\ Cache(nodes', cache_map', Fronted(new, listed))
           /\ nodes'[new].key = key /\ nodes'[new].value = value
           /\ \A a \in ToSet(listed) :
                nodes'[a].key = nodes[a].key /\ nodes'[a].value = nodes[a].value
    BY <1>3, PutAdds
  <2>2. /\ listed \in Seq(Addresses)
        /\ \A a \in ToSet(listed) : nodes[a].key \in Int
        /\ ToSet(KeysListed) = DOMAIN cache_map /\ Len(KeysListed) = Len(listed)
        /\ DOMAIN KeysListed = 1 .. Len(listed)
    BY ListedKeys, CacheKeys, Mapping
  <2>3. KeysListed' = <<key>> \o KeysListed
    <3>1. KeysOf(nodes', listed) = KeysOf(nodes, listed)
      BY <2>1, <2>2, KeysSame
    <3>2. /\ nodes'[new].key \in Int /\ new \in Addresses
          /\ \A a \in ToSet(listed) : nodes'[a].key \in Int
      BY <2>1, <2>2, KeysAssumption
    <3>3. KeysOf(nodes', Fronted(new, listed)) = <<nodes'[new].key>> \o KeysOf(nodes', listed)
      BY <2>2, <3>2, KeysInFront DEF Fronted
    <3> QED
      BY <2>1, <3>1, <3>3, Mapping
  <2>4. ~Contains(KeysListed, key)
    BY <1>3, <2>2 DEF Contains, ToSet
  <2>5. Inserted(KeysListed, Capacity, key) = <<key>> \o KeysListed
    <3>1. Len(listed) # Capacity
      BY <2>1, CapacityAssumption
    <3> QED
      BY <2>2, <3>1 DEF Inserted
  <2>6. StoredIn(nodes', cache_map') =
          [k \in ToSet(KeysOf(nodes', Fronted(new, listed))) |->
             IF k = key THEN value ELSE StoredIn(nodes, cache_map)[k]]
    <3>1. new \in Addresses /\ ToSet(Fronted(new, listed)) = ToSet(listed) \cup {new}
      BY <2>2, InFrontPlaces DEF Fronted
    <3>2. /\ new \in ToSet(Fronted(new, listed))
          /\ \A a \in ToSet(Fronted(new, listed)) \ {new} :
               /\ a \in ToSet(listed) /\ nodes'[a].key = nodes[a].key
               /\ nodes'[a].value = nodes[a].value
      BY <2>1, <3>1
    <3> QED
      BY <2>1, <3>2, PutStores
  <2>7. KeysListed' = KeysOf(nodes', Fronted(new, listed))
    BY <2>1, Mapping
  <2>8. StoredIn(nodes', cache_map') =
          [k \in ToSet(KeysListed') |-> IF k = key THEN value ELSE StoredIn(nodes, cache_map)[k]]
    BY <2>6, <2>7
  <2>9. KeysListed' = IF Contains(KeysListed, key) THEN Touched(KeysListed, key)
                                               ELSE Inserted(KeysListed, Capacity, key)
    BY <2>3, <2>4, <2>5
  <2> QED
    BY <1>1, <2>8, <2>9, PutIs
<1> QED
  BY <1>2, <1>3

LEMMA PutEvictPuts ==
  ASSUME Cache(nodes, cache_map, listed), NEW key \in Keys, NEW value \in Values,
         PutEvict(key, value), call' = <<"put", key, value>>, listed' = Walk(nodes')
  PROVE  Cached!Put(key, value)
<1> DEFINE r == RemoveAt(listed, Capacity)
<1>1. result' = NULL
  BY DEF PutEvict
<1>2. PICK new \in Addresses \ DOMAIN nodes :
         /\ Walk(nodes') = Fronted(new, r) /\ Cache(nodes', cache_map', Fronted(new, r))
         /\ nodes'[new].key = key /\ nodes'[new].value = value
         /\ \A a \in ToSet(r) :
              nodes'[a].key = nodes[a].key /\ nodes'[a].value = nodes[a].value
  BY PutEvicts
<1>3. key \notin DOMAIN cache_map /\ Len(listed) = Capacity
  BY PutEvicts
<1>4. /\ listed \in Seq(Addresses) /\ listed \in DistinctSeq(Addresses)
      /\ \A a \in ToSet(listed) : nodes[a].key \in Int
  BY ListedKeys DEF Cache, HoldsList
<1>5. /\ ToSet(KeysListed) = DOMAIN cache_map /\ Len(KeysListed) = Len(listed)
      /\ DOMAIN KeysListed = 1 .. Len(listed) /\ KeysListed \in Seq(Keys)
  BY CacheKeys, Mapping
<1>6. Capacity \in 1 .. Len(listed)
  BY <1>3, CapacityAssumption
<1>7. r \in Seq(Addresses) /\ ToSet(r) \subseteq ToSet(listed)
  BY <1>4, <1>6, RemoveAtDistinct DEF DistinctSeq
<1>8. KeysOf(nodes, r) = RemoveAt(KeysListed, Capacity)
  BY <1>4, <1>6, KeysRemoved, Mapping
<1> HIDE DEF r
<1>9. RemoveAt(KeysListed, Capacity) = Front(KeysListed)
  BY <1>3, <1>5, CapacityAssumption, RemoveLast
<1>10. KeysListed' = <<key>> \o Front(KeysListed)
  <2>1. KeysOf(nodes', r) = KeysOf(nodes, r)
    BY <1>2, <1>7, KeysSame
  <2>2. /\ nodes'[new].key \in Int /\ new \in Addresses
        /\ \A a \in ToSet(r) : nodes'[a].key \in Int
    BY <1>2, <1>4, <1>7, KeysAssumption
  <2>3. KeysOf(nodes', Fronted(new, r)) = <<nodes'[new].key>> \o KeysOf(nodes', r)
    BY <1>7, <2>2, KeysInFront DEF Fronted
  <2> QED
    BY <1>2, <1>8, <1>9, <2>1, <2>3, Mapping
<1>11. ~Contains(KeysListed, key)
  BY <1>3, <1>5 DEF Contains, ToSet
<1>12. Inserted(KeysListed, Capacity, key) = <<key>> \o Front(KeysListed)
  BY <1>3, <1>5 DEF Inserted
<1>13. StoredIn(nodes', cache_map') =
         [k \in ToSet(KeysOf(nodes', Fronted(new, r))) |->
            IF k = key THEN value ELSE StoredIn(nodes, cache_map)[k]]
  <2>1. new \in Addresses /\ ToSet(Fronted(new, r)) = ToSet(r) \cup {new}
    BY <1>7, InFrontPlaces DEF Fronted
  <2>2. /\ new \in ToSet(Fronted(new, r))
        /\ \A a \in ToSet(Fronted(new, r)) \ {new} :
             /\ a \in ToSet(listed) /\ nodes'[a].key = nodes[a].key
             /\ nodes'[a].value = nodes[a].value
    BY <1>2, <1>7, <2>1
  <2> QED
    BY <1>2, <2>2, PutStores
<1>14. KeysListed' = KeysOf(nodes', Fronted(new, r))
  BY <1>2, Mapping
<1>15. StoredIn(nodes', cache_map') =
        [k \in ToSet(KeysListed') |-> IF k = key THEN value ELSE StoredIn(nodes, cache_map)[k]]
  BY <1>13, <1>14
<1>16. KeysListed' = IF Contains(KeysListed, key) THEN Touched(KeysListed, key)
                                             ELSE Inserted(KeysListed, Capacity, key)
  BY <1>10, <1>11, <1>12
<1> QED
  BY <1>1, <1>15, <1>16, PutIs

LEMMA NextCached == IInv /\ [Next]_vars => [Cached!Next]_(Cached!vars)
<1> SUFFICES ASSUME IInv, [Next]_vars PROVE [Cached!Next]_(Cached!vars)
  OBVIOUS
<1>1. CASE UNCHANGED vars
  BY <1>1 DEF vars, Cached!vars, KeysListed
<1>2. CASE Next
  <2>1. Cache(nodes, cache_map, listed)
    BY <1>2 DEF IInv, Next
  <2>2. listed' = IF destroyed' THEN << >> ELSE Walk(nodes')
    BY <1>2 DEF Next
  <2>3. destroyed = FALSE
    BY <1>2 DEF IInv, Next
  <2>4. ASSUME NEW key \in Keys, Call(key) PROVE Cached!Next
    <3>1. listed' = Walk(nodes')
      BY <2>1, <2>2, <2>3, <2>4, CallKeeps
    <3>2. CASE GetHit(key) /\ call' = <<"get", key>>
      BY <2>1, <3>1, <3>2, GetHitGets DEF Cached!Next
    <3>3. CASE GetMiss(key) /\ call' = <<"get", key>>
      BY <2>1, <3>1, <3>3, GetMissGets DEF Cached!Next
    <3>4. ASSUME NEW value \in Values, PutNoEviction(key, value), call' = <<"put", key, value>>
          PROVE  Cached!Next
      BY <2>1, <3>1, <3>4, PutNoEvictionPuts DEF Cached!Next
    <3>5. ASSUME NEW value \in Values, PutEvict(key, value), call' = <<"put", key, value>>
          PROVE  Cached!Next
      BY <2>1, <3>1, <3>5, PutEvictPuts DEF Cached!Next
    <3> QED
      BY <2>4, <3>2, <3>3, <3>4, <3>5 DEF Call
  <2>5. CASE (PrintStart \/ PrintNode \/ PrintEnd) /\ UNCHANGED call
    <3>1. UNCHANGED <<nodes, cache_map, result, destroyed>>
      BY <2>5 DEF PrintStart, PrintNode, PrintEnd
    <3>2. Walk(nodes) = listed
      BY <2>1, WalkFinds DEF Cache
    <3>3. listed' = listed
      BY <2>2, <2>3, <3>1, <3>2
    <3> QED
      BY <2>5, <3>1, <3>3 DEF Cached!vars, KeysListed
  <2>6. CASE Destroy /\ call' = <<"free">>
    <3>1. nodes' = << >> /\ cache_map' = << >> /\ listed' = << >> /\ result' = NULL
      BY <2>1, <2>2, <2>6, DestroyFreesAll DEF Destroy
    <3>2. KeysListed' = << >>
      BY <3>1, NothingListed DEF KeysListed
    <3>3. [key \in DOMAIN cache_map' |-> nodes'[cache_map'[key]].value] = << >>
      BY <3>1, NothingListed
    <3> QED
      BY <2>6, <3>1, <3>2, <3>3 DEF Cached!Next, Cached!Clear
  <2> QED
    BY <1>2, <2>4, <2>5, <2>6 DEF Next
<1> QED
  BY <1>1, <1>2

(* The list, the map and their eviction (lru_cache_template.h:133-175) are *)
(* an LRU cache: a put or a get that hits makes its key the last used, a   *)
(* put of a new key at capacity drops the one not used for longest, it     *)
(* stores the value it was called with, and a get returns the value last   *)
(* put under its key.                                                      *)
THEOREM CacheRefinesLru == Spec => RefinesLru
<1>1. Init => Cached!Init
  <2> SUFFICES ASSUME Init PROVE Cached!Init
    OBVIOUS
  <2>1. KeysListed = << >>
    BY NothingListed DEF Init, KeysListed
  <2>2. [key \in DOMAIN cache_map |-> nodes[cache_map[key]].value] = << >>
    BY NothingListed DEF Init
  <2> QED
    BY <2>1, <2>2 DEF Init, Cached!Init
<1>2. IInv /\ [Next]_vars => [Cached!Next]_(Cached!vars)
  BY NextCached
<1> QED
  BY <1>1, <1>2, SpecIInv, PTL DEF Spec, RefinesLru, Cached!Spec
-----------------------------------------------------------------------------
(* print.  It tells the end of the list by the key of the tail, which is 0 *)
(* like that of the head; while it runs it has shown the keys up to the    *)
(* node it stands at, and none of them is 0.                               *)
SentinelKeys(heap) == heap[Head0].key = 0 /\ heap[Tail0].key = 0

Printing ==
  \E m \in 0 .. Len(listed) :
    /\ curr = At(listed, m + 1)
    /\ printed \in Seq(Int) /\ Len(printed) = m
    /\ \A k \in 1 .. m : printed[k] = KeysListed[k] /\ printed[k] # 0

PrintInv ==
  /\ ~destroyed => SentinelKeys(nodes)
  /\ curr # NULL => ~destroyed /\ Printing

LEMMA CallKeepsSentinels ==
  ASSUME Cache(nodes, cache_map, listed), SentinelKeys(nodes), NEW key \in Keys, Call(key)
  PROVE  SentinelKeys(nodes')
<1>1. Head0 \in DOMAIN nodes /\ Tail0 \in DOMAIN nodes
  BY DEF Cache
<1>2. CASE GetHit(key)
  BY <1>1, <1>2, GetMoves DEF SentinelKeys
<1>3. CASE GetMiss(key)
  BY <1>3 DEF GetMiss, SentinelKeys
<1>4. ASSUME NEW value \in Values, PutNoEviction(key, value) PROVE SentinelKeys(nodes')
  <2>1. CASE key \in DOMAIN cache_map
    BY <1>1, <1>4, <2>1, PutMoves DEF SentinelKeys
  <2>2. CASE key \notin DOMAIN cache_map
    BY <1>4, <2>2, PutAdds DEF SentinelKeys
  <2> QED
    BY <2>1, <2>2
<1>5. ASSUME NEW value \in Values, PutEvict(key, value) PROVE SentinelKeys(nodes')
  BY <1>5, PutEvicts DEF SentinelKeys
<1> QED
  BY <1>2, <1>3, <1>4, <1>5 DEF Call

(* The node print stands at, and the next one.                             *)
LEMMA PrintPlace ==
  ASSUME Cache(nodes, cache_map, listed), NEW m \in 0 .. Len(listed)
  PROVE  /\ Len(listed) \in Nat /\ At(listed, m + 1) \in Int /\ At(listed, m + 1) \in DOMAIN nodes
         /\ nodes[At(listed, m)].next = At(listed, m + 1)
         /\ m < Len(listed) => /\ m + 1 \in 1 .. Len(listed)
                               /\ At(listed, m + 1) = listed[m + 1]
                               /\ nodes[listed[m + 1]].key = KeysListed[m + 1]
                               /\ KeysListed[m + 1] \in Int
         /\ m = Len(listed) => At(listed, m + 1) = Tail0
<1> DEFINE n == Len(listed)
<1>1. HoldsList(nodes, listed) /\ listed \in DistinctSeq(Addresses)
  BY DEF Cache, HoldsList
<1>2. /\ n \in Nat /\ At(listed, n + 1) = Tail0
      /\ \A k \in 1 .. n : At(listed, k) = listed[k] /\ listed[k] \in Addresses
      /\ \A k \in 0 .. n + 1 : At(listed, k) \in DOMAIN nodes
  BY <1>1, ListPlaces, HeldPlaces DEF Cache
<1>3. Tail0 \in Int /\ Addresses \subseteq Int
  BY CapacityAssumption DEF Tail0, Addresses
<1>4. nodes[At(listed, m)].next = At(listed, m + 1)
  BY <1>1 DEF HoldsList
<1>5. \A k \in 1 .. n : KeysListed[k] = nodes[listed[k]].key /\ KeysListed[k] \in Int
  <2>1. /\ KeysOf(nodes, listed) \in Seq(Keys) /\ Len(KeysOf(nodes, listed)) = n
        /\ \A k \in 1 .. n : KeysOf(nodes, listed)[k] = nodes[listed[k]].key
    BY CacheKeys
  <2>2. \A k \in 1 .. n : KeysOf(nodes, listed)[k] \in Keys
    BY <2>1, ElementOfSeq
  <2> QED
    BY <2>1, <2>2, Mapping, KeysAssumption
<1> HIDE DEF n
<1>6. m \in 0 .. n /\ m + 1 \in 0 .. n + 1
  BY <1>2 DEF n
<1>7. CASE m < n
  <2>1. m + 1 \in 1 .. n /\ m # n
    BY <1>2, <1>6, <1>7
  <2> QED
    BY <1>2, <1>3, <1>4, <1>5, <1>6, <1>7, <2>1 DEF n
<1>8. CASE m = n
  <2>1. ~(m < n)
    BY <1>2, <1>8
  <2> QED
    BY <1>2, <1>3, <1>4, <1>6, <1>8, <2>1 DEF n
<1> QED
  BY <1>2, <1>6, <1>7, <1>8

LEMMA PrintNodeKeeps ==
  ASSUME Cache(nodes, cache_map, listed), SentinelKeys(nodes), Printing, PrintNode,
         listed' = listed
  PROVE  Printing' /\ curr' # NULL
<1> DEFINE n == Len(listed)
<1>1. PICK m \in 0 .. n :
        /\ curr = At(listed, m + 1)
        /\ printed \in Seq(Int) /\ Len(printed) = m
        /\ \A k \in 1 .. m : printed[k] = KeysListed[k] /\ printed[k] # 0
  BY DEF Printing
<1>2. /\ nodes[curr].key # 0 /\ printed' = Append(printed, nodes[curr].key)
      /\ curr' = nodes[curr].next /\ nodes' = nodes
  BY DEF PrintNode
<1>3. n \in Nat /\ m < n
  <2>1. m # n
    BY <1>1, <1>2, PrintPlace DEF SentinelKeys
  <2> QED
    BY <1>1, <2>1, PrintPlace
<1>4. /\ m + 1 \in 0 .. n /\ m \in Nat
      /\ nodes[curr].key = KeysListed[m + 1] /\ KeysListed[m + 1] \in Int
  BY <1>1, <1>3, PrintPlace
<1>5. curr' = At(listed, (m + 1) + 1) /\ curr' \in Int
  <2>1. nodes[At(listed, m + 1)].next = At(listed, (m + 1) + 1) /\ At(listed, (m + 1) + 1) \in Int
    BY <1>4, PrintPlace
  <2> QED
    BY <1>1, <1>2, <2>1
<1>6. KeysListed' = KeysListed
  BY <1>2 DEF KeysListed
<1>7. /\ printed' \in Seq(Int) /\ Len(printed') = m + 1
      /\ \A k \in 1 .. m : printed'[k] = printed[k]
      /\ printed'[m + 1] = KeysListed[m + 1]
  <2> DEFINE last == nodes[curr].key
  <2>1. last \in Int /\ last = KeysListed[m + 1] /\ printed' = Append(printed, last)
    BY <1>2, <1>4
  <2> HIDE DEF last
  <2> QED
    BY <1>1, <2>1, AppendProperties
<1>8. \A k \in 1 .. m + 1 : printed'[k] = KeysListed[k] /\ printed'[k] # 0
  <2> TAKE k \in 1 .. m + 1
  <2>1. k \in 1 .. m \/ k = m + 1
    BY <1>4
  <2> QED
    BY <1>1, <1>2, <1>4, <1>7, <2>1
<1>9. Printing'
  BY <1>4, <1>5, <1>6, <1>7, <1>8 DEF Printing
<1> QED
  BY <1>5, <1>9, NullAssumption

LEMMA PrintEnds ==
  ASSUME Cache(nodes, cache_map, listed), Printing, PrintEnd
  PROVE  printed = SubSeq(KeysListed, 1, (SelectInSeq(KeysListed \o <<0>>, LAMBDA k : k = 0)) - 1)
<1> DEFINE n == Len(listed)
           keys == KeysListed
           zero == <<0>>
           all == keys \o zero
<1>1. PICK m \in 0 .. n :
        /\ curr = At(listed, m + 1)
        /\ printed \in Seq(Int) /\ Len(printed) = m
        /\ \A k \in 1 .. m : printed[k] = keys[k] /\ printed[k] # 0
  BY DEF Printing
<1>2. nodes[At(listed, m + 1)].key = 0
  BY <1>1 DEF PrintEnd
<1>3. keys \in Seq(Int) /\ Len(keys) = n /\ n \in Nat
  <2>1. keys = KeysOf(nodes, listed) /\ listed \in Seq(Addresses)
        /\ \A a \in ToSet(listed) : nodes[a].key \in Int
    BY Mapping, ListedKeys
  <2> QED
    BY <2>1, KeysSeq
<1>4. zero \in Seq(Int) /\ Len(zero) = 1 /\ zero[1] = 0
  OBVIOUS
<1> HIDE DEF zero
<1>5. m < n => keys[m + 1] = 0
  BY <1>2, PrintPlace
<1> HIDE DEF keys
<1>6. /\ all \in Seq(Int) /\ Len(all) = n + 1
      /\ \A k \in 1 .. n + 1 : all[k] = IF k <= n THEN keys[k] ELSE zero[k - n]
  <2>1. /\ all \in Seq(Int) /\ Len(all) = Len(keys) + Len(zero)
        /\ \A k \in 1 .. Len(keys) + Len(zero) :
             all[k] = IF k <= Len(keys) THEN keys[k] ELSE zero[k - Len(keys)]
    <3> DEFINE S == Int
    <3>1. keys \in Seq(S) /\ zero \in Seq(S)
      BY <1>3, <1>4
    <3> HIDE DEF S
    <3>2. /\ keys \o zero \in Seq(S) /\ Len(keys \o zero) = Len(keys) + Len(zero)
          /\ \A k \in 1 .. Len(keys) + Len(zero) :
               (keys \o zero)[k] = IF k <= Len(keys) THEN keys[k] ELSE zero[k - Len(keys)]
      BY <3>1, ConcatProperties
    <3> QED
      BY <3>2 DEF S
  <2> HIDE DEF all
  <2> QED
    BY <1>3, <1>4, <2>1
<1> HIDE DEF all
<1>7. m + 1 \in 1 .. Len(all) /\ all[m + 1] = 0 /\ \A k \in 1 .. m : k \in 1 .. Len(all) /\ all[k] # 0
  <2>1. m + 1 \in 1 .. n + 1 /\ \A k \in 1 .. m : k \in 1 .. n + 1 /\ k <= n
    BY <1>1, <1>3
  <2>2. all[m + 1] = 0
    <3>1. CASE m < n
      <4>1. m + 1 <= n
        BY <1>1, <1>3, <3>1
      <4> QED
        BY <1>5, <1>6, <2>1, <3>1, <4>1
    <3>2. CASE m = n
      <4>1. ~(m + 1 <= n) /\ m + 1 - n = 1
        BY <1>1, <1>3, <3>2
      <4> QED
        BY <1>4, <1>6, <2>1, <4>1
    <3> QED
      BY <1>1, <1>3, <3>1, <3>2
  <2> QED
    BY <1>1, <1>6, <2>1, <2>2
<1>8. FirstSafe(all, {0}) = m + 1
  <2> DEFINE at == FirstSafe(all, {0})
  <2>1. \/ at \in 1 .. Len(all) /\ all[at] = 0 /\ \A k \in 1 .. at - 1 : all[k] # 0
        \/ at = 0 /\ \A k \in 1 .. Len(all) : all[k] # 0
    BY <1>6, FirstSafePlace
  <2> HIDE DEF at
  <2>2. at \in 1 .. Len(all) /\ all[at] = 0 /\ \A k \in 1 .. at - 1 : all[k] # 0
    BY <1>7, <2>1
  <2>3. ~(at <= m) /\ ~(m + 1 <= at - 1)
    <3>1. at <= m => at \in 1 .. m
      BY <1>1, <1>3, <1>6, <2>2
    <3>2. m + 1 <= at - 1 => m + 1 \in 1 .. at - 1
      BY <1>1, <1>3, <1>6, <2>2
    <3> QED
      BY <1>7, <2>2, <3>1, <3>2
  <2> QED
    BY <1>1, <1>3, <1>6, <2>2, <2>3 DEF at
<1>9. SelectInSeq(all, LAMBDA k : k = 0) = m + 1
  BY <1>8 DEF FirstSafe, SelectInSeq
<1>10. printed = SubSeq(keys, 1, m)
  <2> DEFINE one == 1
             part == SubSeq(keys, one, m)
  <2>1. one = 1 /\ one \in Int /\ m \in Int /\ m \in Nat /\ \A k \in one .. m : keys[k] \in Int
    <3>1. \A k \in 1 .. m : k \in 1 .. n
      BY <1>1, <1>3
    <3> QED
      BY <1>1, <1>3, <3>1, ElementOfSeq
  <2> HIDE DEF one
  <2>2. /\ part \in Seq(Int) /\ Len(part) = IF one <= m THEN m - one + 1 ELSE 0
        /\ \A k \in 1 .. m - one + 1 : part[k] = keys[one + k - 1]
    BY <2>1, SubSeqProperties
  <2> HIDE DEF part
  <2>3. Len(part) = m /\ \A k \in 1 .. m : part[k] = keys[k]
    <3>1. (IF one <= m THEN m - one + 1 ELSE 0) = m /\ m - one + 1 = m
      BY <2>1
    <3>2. \A k \in 1 .. m : one + k - 1 = k
      BY <2>1
    <3> QED
      BY <2>2, <3>1, <3>2
  <2>4. printed = part
    <3>1. printed \in Seq(Int) /\ Len(printed) = m /\ \A k \in 1 .. m : printed[k] = keys[k]
      BY <1>1
    <3>2. /\ part \in Seq(Int) /\ Len(printed) = Len(part)
          /\ \A k \in 1 .. Len(printed) : printed[k] = part[k]
      BY <2>2, <2>3, <3>1
    <3> QED
      BY <3>1, <3>2, SeqEqual
  <2> QED
    BY <2>1, <2>4 DEF part
<1>11. (m + 1) - 1 = m
  BY <1>1, <1>3
<1> QED
  BY <1>9, <1>10, <1>11 DEF all, keys, zero

LEMMA InitPrintInv == Init => PrintInv
<1> SUFFICES ASSUME Init PROVE PrintInv
  OBVIOUS
<1>1. Head0 # Tail0
  BY CapacityAssumption DEF Head0, Tail0
<1>2. SentinelKeys(nodes)
  BY <1>1 DEF Init, Node, SentinelKeys
<1> QED
  BY <1>2 DEF Init, PrintInv

LEMMA NextPrintInv == IInv /\ PrintInv /\ [Next]_vars => PrintInv'
<1> SUFFICES ASSUME IInv, PrintInv, [Next]_vars PROVE PrintInv'
  OBVIOUS
<1>1. CASE UNCHANGED vars
  <2>1. UNCHANGED <<nodes, listed, curr, printed, destroyed>>
    BY <1>1 DEF vars
  <2>2. SentinelKeys(nodes)' = SentinelKeys(nodes) /\ KeysListed' = KeysListed
    BY <2>1 DEF SentinelKeys, KeysListed
  <2>3. Printing' = Printing
    BY <2>1, <2>2 DEF Printing, At
  <2> QED
    BY <2>1, <2>2, <2>3 DEF PrintInv
<1>2. CASE Next
  <2>1. destroyed = FALSE /\ Cache(nodes, cache_map, listed) /\ SentinelKeys(nodes)
    BY <1>2 DEF IInv, Next, PrintInv
  <2>2. listed' = IF destroyed' THEN << >> ELSE Walk(nodes')
    BY <1>2 DEF Next
  <2>3. ASSUME NEW key \in Keys, Call(key) PROVE PrintInv'
    <3>1. curr' = NULL
      BY <2>3 DEF Call
    <3>2. SentinelKeys(nodes')
      BY <2>1, <2>3, CallKeepsSentinels
    <3>3. SentinelKeys(nodes)'
      BY <3>2 DEF SentinelKeys
    <3> QED
      BY <3>1, <3>3 DEF PrintInv
  <2>4. ASSUME UNCHANGED <<nodes, cache_map, result, destroyed>>
        PROVE  /\ listed' = listed /\ KeysListed' = KeysListed /\ destroyed' = FALSE
               /\ SentinelKeys(nodes)'
    <3>1. Walk(nodes) = listed
      BY <2>1, WalkFinds DEF Cache
    <3>2. listed' = listed
      BY <2>1, <2>2, <2>4, <3>1
    <3> QED
      BY <2>1, <2>4, <3>2 DEF KeysListed, SentinelKeys
  <2>5. CASE PrintStart
    <3>1. curr' = nodes[Head0].next /\ printed' = << >>
      BY <2>5 DEF PrintStart
    <3>2. /\ listed' = listed /\ destroyed' = FALSE /\ SentinelKeys(nodes)'
          /\ KeysListed' = KeysListed
      BY <2>4, <2>5 DEF PrintStart
    <3>3. At(listed, 0) = Head0 /\ Len(listed) \in Nat
      BY <2>1, ListPlaces DEF Cache, HoldsList
    <3>4. curr' = At(listed, 0 + 1)
      <4>1. 0 \in 0 .. Len(listed)
        BY <3>3
      <4> QED
        BY <2>1, <3>1, <3>3, <4>1, PrintPlace
    <3>5. Printing'
      <4>1. 0 \in 0 .. Len(listed') /\ curr' = At(listed', 0 + 1)
        BY <3>2, <3>3, <3>4
      <4>2. printed' \in Seq(Int) /\ Len(printed') = 0 /\ 1 .. 0 = {}
        BY <3>1
      <4>3. \E m \in 0 .. Len(listed') :
              /\ curr' = At(listed', m + 1)
              /\ printed' \in Seq(Int) /\ Len(printed') = m
              /\ \A k \in 1 .. m : printed'[k] = KeysListed'[k] /\ printed'[k] # 0
        BY <4>1, <4>2
      <4> QED
        BY <4>3 DEF Printing, At
    <3> QED
      BY <3>2, <3>5 DEF PrintInv
  <2>6. CASE PrintNode
    <3>1. /\ listed' = listed /\ destroyed' = FALSE /\ SentinelKeys(nodes)'
      BY <2>4, <2>6 DEF PrintNode
    <3>2. curr # NULL
      <4>1. curr \in Int
        BY <2>1, <2>6, CapacityAssumption, ListedKeys DEF PrintNode, Cache, Head0, Tail0, Addresses, HoldsList, DistinctSeq
      <4> QED
        BY <4>1, NullAssumption
    <3>3. Printing'
      BY <2>1, <2>6, <3>1, <3>2, PrintNodeKeeps DEF PrintInv
    <3> QED
      BY <3>1, <3>3 DEF PrintInv
  <2>7. CASE PrintEnd
    <3>1. curr' = NULL /\ SentinelKeys(nodes)'
      BY <2>4, <2>7 DEF PrintEnd
    <3> QED
      BY <3>1 DEF PrintInv
  <2>8. CASE Destroy
    BY <2>8 DEF Destroy, PrintInv
  <2> QED
    BY <1>2, <2>3, <2>5, <2>6, <2>7, <2>8 DEF Next
<1> QED
  BY <1>1, <1>2

(* lru_cache_template.h:178-188: print shows the cached keys, last used    *)
(* first, and stops before a cached key 0, which it takes for the tail.    *)
THEOREM SpecPrintShowsCache == Spec => PrintShowsCache
<1> DEFINE Shown ==
      curr # NULL /\ curr' = NULL =>
        printed = SubSeq(KeysListed, 1, (SelectInSeq(KeysListed \o <<0>>, LAMBDA k : k = 0)) - 1)
<1>1. IInv /\ PrintInv /\ [Next]_vars => [Shown]_vars
  <2> SUFFICES ASSUME IInv, PrintInv, Next, curr # NULL, curr' = NULL PROVE Shown
    BY DEF vars
  <2>1. Cache(nodes, cache_map, listed) /\ SentinelKeys(nodes) /\ Printing
    BY DEF IInv, Next, PrintInv
  <2>2. PrintNode \/ PrintEnd
    BY DEF Next, Call, PrintStart, Destroy
  <2>3. ~PrintNode
    <3> SUFFICES ASSUME PrintNode PROVE FALSE
      OBVIOUS
    <3>1. Walk(nodes) = listed
      BY <2>1, WalkFinds DEF Cache
    <3>2. listed' = listed
      BY <3>1 DEF Next, PrintNode
    <3> QED
      BY <2>1, <3>2, PrintNodeKeeps
  <2> QED
    BY <2>1, <2>2, <2>3, PrintEnds
<1>2. Spec => []PrintInv
  BY InitPrintInv, NextPrintInv, SpecIInv, PTL DEF Spec
<1> QED
  BY <1>1, <1>2, SpecIInv, PTL DEF Spec, PrintShowsCache
=============================================================================
