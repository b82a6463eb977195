-------------------------- MODULE Sequence_proofs --------------------------
(***************************************************************************)
(* What the operators of FifoQueue.tla and LruOrder.tla do to a sequence,  *)
(* for all the modules that keep their contents in one.                    *)
(***************************************************************************)
EXTENDS FifoQueue, LruOrder, FiniteSetTheorems, SequenceTheorems, WellFoundedInduction, TLAPS

(* A queue of pointers from S, none of them twice.                         *)
DistinctSeq(S) == {q \in Seq(S) : IsInjective(q)}

(* Reading takes the head and leaves the rest.                             *)
LEMMA TailDistinct ==
  ASSUME NEW S, NEW q \in DistinctSeq(S), q # <<>>
  PROVE  /\ Head(q) \in S /\ Head(q) \in ToSet(q)
         /\ Tail(q) \in DistinctSeq(S) /\ Len(Tail(q)) = Len(q) - 1
         /\ ToSet(Tail(q)) = ToSet(q) \ {Head(q)}
<1>1. q \in Seq(S) /\ Len(q) \in Nat \ {0} /\ DOMAIN q = 1 .. Len(q)
  BY EmptySeq, LenProperties DEF DistinctSeq
<1>2. /\ Head(q) = q[1] /\ Tail(q) \in Seq(S) /\ Len(Tail(q)) = Len(q) - 1
      /\ \A k \in 1 .. Len(q) - 1 : Tail(q)[k] = q[k + 1]
      /\ DOMAIN Tail(q) = 1 .. Len(q) - 1
  BY <1>1, HeadTailProperties, LenProperties
<1>3. \A k, l \in 1 .. Len(q) : q[k] = q[l] => k = l
  BY <1>1 DEF DistinctSeq, IsInjective
<1>4. IsInjective(Tail(q))
  BY <1>1, <1>2, <1>3 DEF IsInjective
<1>5. ToSet(Tail(q)) = ToSet(q) \ {Head(q)}
  <2>1. ASSUME NEW k \in 2 .. Len(q)
        PROVE  k - 1 \in 1 .. Len(q) - 1 /\ Tail(q)[k - 1] = q[k]
    BY <1>1, <1>2
  <2>2. ASSUME NEW x \in ToSet(q) \ {Head(q)} PROVE x \in ToSet(Tail(q))
    <3>1. PICK k \in 1 .. Len(q) : x = q[k]
      BY <1>1 DEF ToSet
    <3>2. k \in 2 .. Len(q)
      BY <1>1, <1>2, <3>1
    <3>3. k - 1 \in DOMAIN Tail(q) /\ Tail(q)[k - 1] = x
      BY <2>1, <3>1, <3>2, <1>2
    <3> QED
      BY <3>3 DEF ToSet
  <2>3. ASSUME NEW x \in ToSet(Tail(q)) PROVE x \in ToSet(q) \ {Head(q)}
    <3>1. PICK k \in 1 .. Len(q) - 1 : x = Tail(q)[k]
      BY <1>2 DEF ToSet
    <3>2. x = q[k + 1] /\ k + 1 \in 2 .. Len(q)
      BY <1>1, <1>2, <3>1
    <3> QED
      BY <1>1, <1>2, <1>3, <3>2 DEF ToSet
  <2> QED
    BY <2>2, <2>3
<1>6. Head(q) \in S /\ Head(q) \in ToSet(q)
  BY <1>1, <1>2, ElementOfSeq DEF ToSet
<1>7. Tail(q) \in DistinctSeq(S)
  BY <1>2, <1>4 DEF DistinctSeq
<1> QED
  BY <1>2, <1>5, <1>6, <1>7

(* Writing a pointer that is not queued yet.                               *)
LEMMA AppendDistinct ==
  ASSUME NEW S, NEW q \in DistinctSeq(S), NEW v \in S, v \notin ToSet(q)
  PROVE  /\ Append(q, v) \in DistinctSeq(S) /\ Len(Append(q, v)) = Len(q) + 1
         /\ ToSet(Append(q, v)) = ToSet(q) \cup {v}
<1>1. q \in Seq(S) /\ Len(q) \in Nat /\ DOMAIN q = 1 .. Len(q)
  BY LenProperties DEF DistinctSeq
<1>2. /\ Append(q, v) \in Seq(S) /\ Len(Append(q, v)) = Len(q) + 1
      /\ \A k \in 1 .. Len(q) : Append(q, v)[k] = q[k]
      /\ Append(q, v)[Len(q) + 1] = v
      /\ DOMAIN Append(q, v) = 1 .. Len(q) + 1
  BY <1>1, AppendProperties, LenProperties
<1>3. \A k \in 1 .. Len(q) : q[k] # v
  BY <1>1 DEF ToSet
<1>4. IsInjective(Append(q, v))
  BY <1>1, <1>2, <1>3 DEF DistinctSeq, IsInjective
<1>5. ToSet(Append(q, v)) = ToSet(q) \cup {v}
  <2>1. ASSUME NEW x \in ToSet(q) PROVE x \in ToSet(Append(q, v))
    BY <1>1, <1>2 DEF ToSet
  <2>2. v \in ToSet(Append(q, v))
    BY <1>1, <1>2 DEF ToSet
  <2>3. ASSUME NEW x \in ToSet(Append(q, v)) PROVE x \in ToSet(q) \cup {v}
    BY <1>1, <1>2 DEF ToSet
  <2> QED
    BY <2>1, <2>2, <2>3
<1> QED
  BY <1>2, <1>4, <1>5 DEF DistinctSeq

(* Writing any pointer, to a queue that may be full.                       *)
LEMMA EnqueuedSeq ==
  ASSUME NEW S, NEW q \in Seq(S), NEW v \in S, NEW c \in Nat \ {0}
  PROVE  /\ Enqueued(q, c, v) \in Seq(S)
         /\ Len(q) <= c => Len(Enqueued(q, c, v)) <= c
<1>1. Len(q) \in Nat
  BY LenProperties
<1>2. CASE Len(q) = c
  <2>1. Tail(q) \in Seq(S) /\ Len(Tail(q)) = Len(q) - 1
    BY <1>1, <1>2, EmptySeq, HeadTailProperties
  <2>2. Append(Tail(q), v) \in Seq(S) /\ Len(Append(Tail(q), v)) = Len(Tail(q)) + 1
    BY <2>1, AppendProperties
  <2> QED
    BY <1>1, <1>2, <2>1, <2>2 DEF Enqueued
<1>3. CASE Len(q) # c
  <2>1. Append(q, v) \in Seq(S) /\ Len(Append(q, v)) = Len(q) + 1
    BY AppendProperties
  <2> QED
    BY <1>1, <1>3, <2>1 DEF Enqueued
<1> QED
  BY <1>2, <1>3

(* Writing a pointer that is not queued yet to a queue that has room.      *)
LEMMA EnqueuedWithRoom ==
  ASSUME NEW S, NEW q \in DistinctSeq(S), NEW v \in S, v \notin ToSet(q),
         NEW c, Len(q) # c
  PROVE  /\ Enqueued(q, c, v) \in DistinctSeq(S)
         /\ Len(Enqueued(q, c, v)) = Len(q) + 1
         /\ ToSet(Enqueued(q, c, v)) = ToSet(q) \cup {v}
         /\ \A none : Ejected(q, c, none) = none
<1>1. Enqueued(q, c, v) = Append(q, v)
  BY DEF Enqueued
<1> QED
  BY <1>1, AppendDistinct DEF Ejected

(* Writing it to a full queue: the oldest pointer leaves.                  *)
LEMMA EnqueuedWhenFull ==
  ASSUME NEW S, NEW q \in DistinctSeq(S), NEW v \in S, v \notin ToSet(q),
         NEW c \in Nat \ {0}, Len(q) = c
  PROVE  /\ Enqueued(q, c, v) \in DistinctSeq(S)
         /\ ToSet(Enqueued(q, c, v)) = (ToSet(q) \ {Head(q)}) \cup {v}
         /\ Head(q) \in S /\ Head(q) \in ToSet(q)
         /\ \A none : Ejected(q, c, none) = Head(q)
<1>1. Enqueued(q, c, v) = Append(Tail(q), v)
  BY DEF Enqueued
<1>2. q # <<>>
  OBVIOUS
<1>3. /\ Head(q) \in S /\ Head(q) \in ToSet(q)
      /\ Tail(q) \in DistinctSeq(S) /\ ToSet(Tail(q)) = ToSet(q) \ {Head(q)}
  BY <1>2, TailDistinct
<1>4. /\ Append(Tail(q), v) \in DistinctSeq(S)
      /\ ToSet(Append(Tail(q), v)) = ToSet(Tail(q)) \cup {v}
  BY <1>3, AppendDistinct
<1> QED
  BY <1>1, <1>3, <1>4 DEF Ejected

(* Taking a pointer out of the middle.                                     *)
LEMMA RemoveAtSeq ==
  ASSUME NEW S, NEW q \in Seq(S), NEW at \in 1 .. Len(q)
  PROVE  /\ RemoveAt(q, at) \in Seq(S) /\ Len(RemoveAt(q, at)) = Len(q) - 1
         /\ \A k \in 1 .. Len(q) - 1 :
              RemoveAt(q, at)[k] = IF k < at THEN q[k] ELSE q[k + 1]
<1>1. Len(q) \in Nat
  BY LenProperties
<1>2. /\ SubSeq(q, 1, at - 1) \in Seq(S) /\ Len(SubSeq(q, 1, at - 1)) = at - 1
      /\ \A k \in 1 .. at - 1 : SubSeq(q, 1, at - 1)[k] = q[k]
  BY <1>1, SubSeqProperties
<1>3. /\ SubSeq(q, at + 1, Len(q)) \in Seq(S)
      /\ Len(SubSeq(q, at + 1, Len(q))) = Len(q) - at
      /\ \A k \in 1 .. Len(q) - at : SubSeq(q, at + 1, Len(q))[k] = q[at + k]
  BY <1>1, SubSeqProperties
<1> DEFINE a == SubSeq(q, 1, at - 1)
           b == SubSeq(q, at + 1, Len(q))
           c == a \o b
<1>4. RemoveAt(q, at) = c
  BY DEF RemoveAt
<1>5. /\ a \in Seq(S) /\ Len(a) = at - 1 /\ \A k \in 1 .. at - 1 : a[k] = q[k]
      /\ b \in Seq(S) /\ Len(b) = Len(q) - at
      /\ \A k \in 1 .. Len(q) - at : b[k] = q[at + k]
  BY <1>2, <1>3
<1> HIDE DEF a, b
<1>6. /\ c \in Seq(S) /\ Len(c) = Len(a) + Len(b)
      /\ \A k \in 1 .. Len(a) + Len(b) :
           c[k] = IF k <= Len(a) THEN a[k] ELSE b[k - Len(a)]
  BY <1>5, ConcatProperties
<1> HIDE DEF c
<1>7. ASSUME NEW k \in 1 .. Len(q) - 1
      PROVE  c[k] = IF k < at THEN q[k] ELSE q[k + 1]
  <2>1. k \in 1 .. Len(a) + Len(b)
    BY <1>1, <1>5
  <2>2. CASE k < at
    BY <1>1, <1>5, <1>6, <2>1, <2>2
  <2>3. CASE ~(k < at)
    <3>1. k - Len(a) \in 1 .. Len(q) - at /\ at + (k - Len(a)) = k + 1
      BY <1>1, <1>5, <2>3
    <3>2. b[k - Len(a)] = q[k + 1]
      BY <1>5, <3>1
    <3>3. ~(k <= Len(a))
      BY <1>1, <1>5, <2>3
    <3> QED
      BY <1>6, <2>1, <2>3, <3>2, <3>3
  <2> QED
    BY <2>2, <2>3
<1>8. Len(c) = Len(q) - 1
  BY <1>1, <1>5, <1>6
<1> QED
  BY <1>4, <1>6, <1>7, <1>8

(* Putting a pointer into the middle: what get_stale_recycled still counts *)
(* as queued while it closes the gap.                                      *)
LEMMA InsertAtSeq ==
  ASSUME NEW S, NEW q \in Seq(S), NEW at \in 1 .. Len(q) + 1, NEW e \in S
  PROVE  /\ InsertAt(q, at, e) \in Seq(S) /\ Len(InsertAt(q, at, e)) = Len(q) + 1
         /\ \A k \in 1 .. Len(q) + 1 :
              InsertAt(q, at, e)[k] = IF k < at THEN q[k]
                                      ELSE IF k = at THEN e ELSE q[k - 1]
<1> DEFINE a == SubSeq(q, 1, at - 1)
           m == <<e>>
           b == SubSeq(q, at, Len(q))
           am == a \o m
           c == am \o b
<1>1. Len(q) \in Nat
  BY LenProperties
<1>2. /\ a \in Seq(S) /\ Len(a) = at - 1 /\ \A k \in 1 .. at - 1 : a[k] = q[k]
  BY <1>1, SubSeqProperties
<1>3. /\ b \in Seq(S) /\ Len(b) = Len(q) - at + 1
      /\ \A k \in 1 .. Len(q) - at + 1 : b[k] = q[at + k - 1]
  BY <1>1, SubSeqProperties
<1>4. m \in Seq(S) /\ Len(m) = 1 /\ m[1] = e
  OBVIOUS
<1>5. InsertAt(q, at, e) = c
  BY DEF InsertAt
<1> HIDE DEF a, m, b
<1>6. /\ am \in Seq(S) /\ Len(am) = at
      /\ \A k \in 1 .. at - 1 : am[k] = q[k]
      /\ am[at] = e
  <2>1. /\ am \in Seq(S) /\ Len(am) = Len(a) + Len(m)
        /\ \A k \in 1 .. Len(a) + Len(m) :
             am[k] = IF k <= Len(a) THEN a[k] ELSE m[k - Len(a)]
    BY <1>2, <1>4, ConcatProperties
  <2>2. at - Len(a) = 1 /\ Len(am) = at
    BY <1>1, <1>2, <1>4, <2>1
  <2> QED
    BY <1>1, <1>2, <1>4, <2>1, <2>2
<1> HIDE DEF am
<1>7. /\ c \in Seq(S) /\ Len(c) = Len(am) + Len(b)
      /\ \A k \in 1 .. Len(am) + Len(b) :
           c[k] = IF k <= Len(am) THEN am[k] ELSE b[k - Len(am)]
  BY <1>3, <1>6, ConcatProperties
<1> HIDE DEF c
<1>8. Len(c) = Len(q) + 1
  BY <1>1, <1>3, <1>6, <1>7
<1>9. ASSUME NEW k \in 1 .. Len(q) + 1
      PROVE  c[k] = IF k < at THEN q[k] ELSE IF k = at THEN e ELSE q[k - 1]
  <2>1. k \in 1 .. Len(am) + Len(b)
    BY <1>1, <1>3, <1>6
  <2>2. CASE k <= at
    BY <1>1, <1>6, <1>7, <2>1, <2>2
  <2>3. CASE ~(k <= at)
    <3>1. k - at \in 1 .. Len(q) - at + 1 /\ at + (k - at) - 1 = k - 1
      BY <1>1, <2>3
    <3>2. b[k - at] = q[k - 1]
      BY <1>3, <3>1
    <3> QED
      BY <1>1, <1>6, <1>7, <2>1, <2>3, <3>2
  <2> QED
    BY <2>2, <2>3
<1> QED
  BY <1>5, <1>7, <1>8, <1>9

(* A queue without duplicates stays one when a pointer leaves it.         *)
LEMMA RemoveAtDistinct ==
  ASSUME NEW S, NEW q \in DistinctSeq(S), NEW at \in 1 .. Len(q)
  PROVE  /\ q[at] \in S /\ q[at] \in ToSet(q)
         /\ RemoveAt(q, at) \in DistinctSeq(S) /\ Len(RemoveAt(q, at)) = Len(q) - 1
         /\ ToSet(RemoveAt(q, at)) = ToSet(q) \ {q[at]}
<1> DEFINE r == RemoveAt(q, at)
<1>1. q \in Seq(S) /\ Len(q) \in Nat /\ DOMAIN q = 1 .. Len(q)
  BY LenProperties DEF DistinctSeq
<1>2. /\ r \in Seq(S) /\ Len(r) = Len(q) - 1 /\ DOMAIN r = 1 .. Len(q) - 1
      /\ \A k \in 1 .. Len(q) - 1 : r[k] = IF k < at THEN q[k] ELSE q[k + 1]
  <2>1. /\ r \in Seq(S) /\ Len(r) = Len(q) - 1
        /\ \A k \in 1 .. Len(q) - 1 : r[k] = IF k < at THEN q[k] ELSE q[k + 1]
    BY <1>1, RemoveAtSeq
  <2> HIDE DEF r
  <2> QED
    BY <2>1, LenProperties
<1> HIDE DEF r
<1>3. \A k, l \in 1 .. Len(q) : q[k] = q[l] => k = l
  BY <1>1 DEF DistinctSeq, IsInjective
<1>4. IsInjective(r)
  <2>1. SUFFICES ASSUME NEW k \in 1 .. Len(q) - 1, NEW l \in 1 .. Len(q) - 1,
                        r[k] = r[l]
                 PROVE  k = l
    BY <1>2 DEF IsInjective
  <2> DEFINE kk == IF k < at THEN k ELSE k + 1
             ll == IF l < at THEN l ELSE l + 1
  <2>2. kk \in 1 .. Len(q) /\ ll \in 1 .. Len(q)
    BY <1>1
  <2>3. r[k] = q[kk] /\ r[l] = q[ll]
    BY <1>2
  <2>4. kk = ll
    BY <1>3, <2>1, <2>2, <2>3
  <2> QED
    BY <1>1, <2>4
<1>5. ASSUME NEW x \in ToSet(q) \ {q[at]} PROVE x \in ToSet(r)
  <2>1. PICK k \in 1 .. Len(q) : x = q[k]
    BY <1>1 DEF ToSet
  <2>2. CASE k < at
    BY <1>1, <1>2, <2>1, <2>2 DEF ToSet
  <2>3. CASE k > at
    <3>1. k - 1 \in 1 .. Len(q) - 1 /\ r[k - 1] = q[k]
      BY <1>1, <1>2, <2>3
    <3> QED
      BY <1>2, <2>1, <3>1 DEF ToSet
  <2> QED
    BY <1>1, <2>1, <2>2, <2>3
<1>6. ASSUME NEW x \in ToSet(r) PROVE x \in ToSet(q) \ {q[at]}
  <2>1. PICK k \in 1 .. Len(q) - 1 : x = r[k]
    BY <1>2 DEF ToSet
  <2>2. PICK l \in 1 .. Len(q) : l # at /\ x = q[l]
    BY <1>1, <1>2, <2>1
  <2> QED
    BY <1>1, <1>3, <2>2 DEF ToSet
<1>7. q[at] \in S /\ q[at] \in ToSet(q)
  BY <1>1, ElementOfSeq DEF ToSet
<1> QED
  BY <1>2, <1>4, <1>5, <1>6, <1>7 DEF DistinctSeq, r

(* A queue without duplicates is no longer than its pointers are many, and *)
(* shorter when one of them is elsewhere.                                  *)
LEMMA DistinctLen ==
  ASSUME NEW S, IsFiniteSet(S), NEW q \in DistinctSeq(S)
  PROVE  /\ Len(q) <= Cardinality(S)
         /\ \A v \in S : v \notin ToSet(q) => Len(q) < Cardinality(S)
<1>1. q \in Seq(S) /\ Len(q) \in Nat /\ q \in [1 .. Len(q) -> S]
  BY LenProperties DEF DistinctSeq
<1>2. q \in Injection(1 .. Len(q), S)
  BY <1>1 DEF Injection, DistinctSeq, IsInjective
<1>3. Cardinality(1 .. Len(q)) = Len(q)
  BY <1>1, FS_Interval
<1>4. Cardinality(S) \in Nat
  BY FS_CardinalityType
<1>5. /\ Len(q) <= Cardinality(S)
      /\ Len(q) = Cardinality(S) => q \in Surjection(1 .. Len(q), S)
  BY <1>2, <1>3, FS_Injection
<1>6. ASSUME NEW v \in S, v \notin ToSet(q) PROVE Len(q) # Cardinality(S)
  BY <1>1, <1>5, <1>6 DEF Surjection, ToSet
<1> QED
  BY <1>1, <1>4, <1>5, <1>6

LEMMA UpTo ==
  ASSUME NEW n \in Nat
  PROVE  IsFiniteSet(1 .. n) /\ Cardinality(1 .. n) = n
  BY FS_Interval

(* Induction over the numbers, for a set of them.                          *)
LEMMA LeastNumber ==
  ASSUME NEW I \in SUBSET Nat, I # {}
  PROVE  \E x \in I : \A y \in I : x <= y
<1>1. PICK x \in I : \A y \in I : ~(<<y, x>> \in OpToRel(<, Nat))
  BY NatLessThanWellFounded, WFMin
<1>2. ASSUME NEW y \in I PROVE x <= y
  <2>1. x \in Nat /\ y \in Nat
    OBVIOUS
  <2>2. y < x => <<y, x>> \in OpToRel(<, Nat)
    BY <2>1 DEF OpToRel
  <2>3. ~(y < x)
    BY <1>1, <2>2
  <2> QED
    BY <2>1, <2>3
<1> QED
  BY <1>2

LEMMA AllNumbers ==
  ASSUME NEW I, 0 \in I, \A k \in Nat : k \in I => k + 1 \in I
  PROVE  Nat \subseteq I
<1> SUFFICES ASSUME Nat \ I # {} PROVE FALSE
  OBVIOUS
<1>1. PICK x \in Nat \ I : \A y \in Nat \ I : x <= y
  BY LeastNumber
<1>2. x - 1 \in Nat /\ (x - 1) + 1 = x
  BY <1>1
<1>3. x - 1 \in I
  BY <1>1, <1>2
<1> QED
  BY <1>1, <1>2, <1>3

(* The recycler takes its pointer from a place of the queue whose pointer  *)
(* is safe, or finds that none is.                                         *)
LEMMA FirstSafePlace ==
  ASSUME NEW S, NEW q \in Seq(S), NEW safe
  PROVE  \/ /\ FirstSafe(q, safe) \in 1 .. Len(q)
            /\ q[FirstSafe(q, safe)] \in safe
            /\ \A k \in 1 .. FirstSafe(q, safe) - 1 : q[k] \notin safe
         \/ /\ FirstSafe(q, safe) = 0
            /\ \A k \in 1 .. Len(q) : q[k] \notin safe
<1> DEFINE I == {k \in 1 .. Len(q) : q[k] \in safe}
<1>1. Len(q) \in Nat
  BY LenProperties
<1>2. FirstSafe(q, safe) = IF I # {} THEN Min(I) ELSE 0
  BY DEF FirstSafe, SelectInSeq
<1>3. CASE I = {}
  BY <1>2, <1>3
<1>4. CASE I # {}
  <2>1. I \subseteq Nat
    BY <1>1
  <2>2. \E x \in I : \A y \in I : x <= y
    BY <1>4, <2>1, LeastNumber
  <2>3. Min(I) \in I /\ \A y \in I : Min(I) <= y
    BY <2>2 DEF Min
  <2>4. FirstSafe(q, safe) = Min(I)
    BY <1>2, <1>4
  <2> DEFINE m == Min(I)
  <2> HIDE DEF m
  <2>6. m \in 1 .. Len(q) /\ q[m] \in safe
    BY <2>3 DEF m
  <2>7. \A k \in 1 .. m - 1 : q[k] \notin safe
    <3>1. SUFFICES ASSUME NEW k \in 1 .. m - 1, q[k] \in safe PROVE FALSE
      OBVIOUS
    <3>2. k \in I
      BY <1>1, <2>6, <3>1
    <3>3. m <= k
      BY <2>3, <3>2 DEF m
    <3> QED
      BY <1>1, <2>6, <3>1, <3>3
  <2> QED
    BY <2>4, <2>6, <2>7 DEF m
<1> QED
  BY <1>3, <1>4

-----------------------------------------------------------------------------
(* Recency orders.                                                          *)
(* A name of its own keeps concatenations out of the proofs.               *)
Fronted(x, order) == <<x>> \o order

(* A key put in front of an order.                                         *)
LEMMA InFront ==
  ASSUME NEW S, NEW order \in Seq(S), NEW key \in S
  PROVE  /\ <<key>> \o order \in Seq(S) /\ Len(<<key>> \o order) = Len(order) + 1
         /\ 1 \in DOMAIN (<<key>> \o order) /\ (<<key>> \o order)[1] = key
<1>1. <<key>> \in Seq(S) /\ Len(<<key>>) = 1 /\ <<key>>[1] = key
  OBVIOUS
<1>2. Len(order) \in Nat
  BY LenProperties
<1> DEFINE one == <<key>>
           front == one \o order
<1>3. one \in Seq(S) /\ Len(one) = 1 /\ one[1] = key
  BY <1>1
<1> HIDE DEF one
<1>4. /\ front \in Seq(S) /\ Len(front) = 1 + Len(order)
      /\ \A k \in 1 .. 1 + Len(order) :
           front[k] = IF k <= 1 THEN one[k] ELSE order[k - 1]
  <2>1. /\ front \in Seq(S) /\ Len(front) = Len(one) + Len(order)
        /\ \A k \in 1 .. Len(one) + Len(order) :
             front[k] = IF k <= Len(one) THEN one[k] ELSE order[k - Len(one)]
    BY <1>3, ConcatProperties
  <2> HIDE DEF front
  <2> QED
    BY <1>3, <2>1
<1> HIDE DEF front
<1>5. DOMAIN front = 1 .. 1 + Len(order) /\ 1 \in 1 .. 1 + Len(order)
  BY <1>2, <1>4, LenProperties
<1>6. front[1] = key
  BY <1>3, <1>4, <1>5
<1>7. front \in Seq(S) /\ Len(front) = Len(order) + 1 /\ 1 \in DOMAIN front /\ front[1] = key
  BY <1>2, <1>4, <1>5, <1>6
<1> QED
  BY <1>7 DEF front, one

(* The same, place by place; a new key leaves an order without duplicates. *)
LEMMA InFrontPlaces ==
  ASSUME NEW S, NEW order \in Seq(S), NEW key \in S
  PROVE  /\ DOMAIN (<<key>> \o order) = 1 .. Len(order) + 1
         /\ \A k \in 1 .. Len(order) : (<<key>> \o order)[k + 1] = order[k]
         /\ ToSet(<<key>> \o order) = ToSet(order) \cup {key}
<1> DEFINE front == <<key>> \o order
           n == Len(order)
<1>1. n \in Nat /\ DOMAIN order = 1 .. n
  BY LenProperties
<1>2. front \in Seq(S) /\ Len(front) = n + 1 /\ front[1] = key
  BY InFront
<1>3. \A k \in 1 .. n : front[k + 1] = order[k]
  <2> DEFINE one == <<key>>
  <2>1. one \in Seq(S) /\ Len(one) = 1
    OBVIOUS
  <2> HIDE DEF one
  <2>2. \A k \in 1 .. Len(one) + Len(order) :
          (one \o order)[k] = IF k <= Len(one) THEN one[k] ELSE order[k - Len(one)]
    BY <2>1, ConcatProperties
  <2>3. one \o order = front
    BY DEF one
  <2> HIDE DEF front
  <2> TAKE k \in 1 .. n
  <2>4. k + 1 \in 1 .. Len(one) + Len(order) /\ ~(k + 1 <= Len(one)) /\ k + 1 - Len(one) = k
    BY <1>1, <2>1
  <2> QED
    BY <2>2, <2>3, <2>4
<1> HIDE DEF front, n
<1>4. DOMAIN front = 1 .. n + 1
  BY <1>2, LenProperties
<1>5. ASSUME NEW x \in ToSet(front) PROVE x \in ToSet(order) \cup {key}
  <2>1. PICK k \in 1 .. n + 1 : x = front[k]
    BY <1>4 DEF ToSet
  <2>2. CASE k = 1
    BY <1>2, <2>1, <2>2
  <2>3. CASE k # 1
    <3>1. k - 1 \in 1 .. n /\ (k - 1) + 1 = k
      BY <1>1, <2>3
    <3>2. x = order[k - 1]
      BY <1>3, <2>1, <3>1
    <3> QED
      BY <1>1, <3>1, <3>2 DEF ToSet
  <2> QED
    BY <2>2, <2>3
<1>6. key \in ToSet(front)
  <2>1. 1 \in DOMAIN front
    BY <1>1, <1>4
  <2> QED
    BY <1>2, <2>1 DEF ToSet
<1>7. ASSUME NEW x \in ToSet(order) PROVE x \in ToSet(front)
  <2>1. PICK k \in 1 .. n : x = order[k]
    BY <1>1, <1>7 DEF ToSet
  <2>2. k + 1 \in DOMAIN front
    BY <1>1, <1>4, <2>1
  <2> QED
    BY <1>3, <2>1, <2>2 DEF ToSet
<1>8. ToSet(front) = ToSet(order) \cup {key}
  BY <1>5, <1>6, <1>7
<1> QED
  BY <1>3, <1>4, <1>8 DEF front, n

LEMMA InFrontDistinct ==
  ASSUME NEW S, NEW order \in DistinctSeq(S), NEW key \in S, key \notin ToSet(order)
  PROVE  <<key>> \o order \in DistinctSeq(S)
<1> DEFINE front == <<key>> \o order
           n == Len(order)
<1>1. order \in Seq(S) /\ n \in Nat /\ DOMAIN order = 1 .. n
      /\ \A k, l \in 1 .. n : order[k] = order[l] => k = l
  BY LenProperties DEF DistinctSeq, IsInjective
<1>2. /\ front \in Seq(S) /\ front[1] = key /\ DOMAIN front = 1 .. n + 1
      /\ \A k \in 1 .. n : front[k + 1] = order[k]
  BY <1>1, InFront, InFrontPlaces
<1> HIDE DEF front, n
<1>3. \A k \in 2 .. n + 1 : k - 1 \in 1 .. n /\ front[k] = order[k - 1] /\ front[k] # key
  <2> TAKE k \in 2 .. n + 1
  <2>1. k - 1 \in 1 .. n /\ (k - 1) + 1 = k
    BY <1>1
  <2>2. order[k - 1] \in ToSet(order)
    BY <1>1, <2>1 DEF ToSet
  <2> QED
    BY <1>2, <2>1, <2>2
<1>4. ASSUME NEW k \in 1 .. n + 1, NEW l \in 1 .. n + 1, front[k] = front[l]
      PROVE  k = l
  <2>1. CASE k = 1 /\ l = 1
    BY <2>1
  <2>2. CASE k = 1 /\ l # 1
    <3>1. l \in 2 .. n + 1
      BY <1>1, <2>2
    <3> QED
      BY <1>2, <1>3, <1>4, <2>2, <3>1
  <2>3. CASE k # 1 /\ l = 1
    <3>1. k \in 2 .. n + 1
      BY <1>1, <2>3
    <3> QED
      BY <1>2, <1>3, <1>4, <2>3, <3>1
  <2>4. CASE k # 1 /\ l # 1
    <3>1. k \in 2 .. n + 1 /\ l \in 2 .. n + 1
      BY <1>1, <2>4
    <3>2. k - 1 \in 1 .. n /\ l - 1 \in 1 .. n /\ order[k - 1] = order[l - 1]
      BY <1>3, <1>4, <3>1
    <3>3. k - 1 = l - 1
      BY <1>1, <3>2
    <3> QED
      BY <3>1, <3>3
  <2> QED
    BY <2>1, <2>2, <2>3, <2>4
<1> QED
  BY <1>2, <1>4 DEF DistinctSeq, IsInjective, front

(* To remove the last is what Front does.                                  *)
LEMMA RemoveLast ==
  ASSUME NEW S, NEW order \in Seq(S), Len(order) # 0
  PROVE  RemoveAt(order, Len(order)) = Front(order)
<1> DEFINE n == Len(order)
           r == RemoveAt(order, n)
           f == Front(order)
<1>1. n \in Nat /\ n \in 1 .. n
  BY LenProperties
<1>2. /\ r \in Seq(S) /\ Len(r) = n - 1
      /\ \A k \in 1 .. n - 1 : r[k] = IF k < n THEN order[k] ELSE order[k + 1]
  BY <1>1, RemoveAtSeq
<1>3. /\ f \in Seq(S) /\ Len(f) = n - 1 /\ \A k \in 1 .. n - 1 : f[k] = order[k]
  <2>1. \A k \in 1 .. n - 1 : k \in 1 .. n /\ 1 + k - 1 = k
    BY <1>1
  <2>2. f = SubSeq(order, 1, n - 1)
    BY DEF Front
  <2> HIDE DEF f
  <2>3. /\ SubSeq(order, 1, n - 1) \in Seq(S) /\ Len(SubSeq(order, 1, n - 1)) = n - 1
        /\ \A k \in 1 .. n - 1 : SubSeq(order, 1, n - 1)[k] = order[1 + k - 1]
    <3> DEFINE m == n - 1
               one == 1
    <3>1. m \in Int /\ one \in Int /\ \A k \in one .. m : order[k] \in S
      BY <1>1, <2>1, ElementOfSeq
    <3>2. m \in Nat /\ one = 1 /\ (IF one <= m THEN m - one + 1 ELSE 0) = m /\ m - one + 1 = m
      <4>1. m \in Nat /\ one = 1
        BY <1>1
      <4> HIDE DEF m, one
      <4>2. one <= m \/ m = 0
        BY <4>1
      <4> QED
        BY <4>1, <4>2
    <3> HIDE DEF m, one
    <3>3. /\ SubSeq(order, one, m) \in Seq(S)
          /\ Len(SubSeq(order, one, m)) = IF one <= m THEN m - one + 1 ELSE 0
          /\ \A k \in 1 .. m - one + 1 : SubSeq(order, one, m)[k] = order[one + k - 1]
      BY <3>1, SubSeqProperties
    <3> QED
      BY <3>2, <3>3 DEF m
  <2> QED
    BY <2>1, <2>2, <2>3
<1> HIDE DEF n, r, f
<1>4. \A k \in 1 .. n - 1 : r[k] = f[k]
  BY <1>1, <1>2, <1>3
<1>5. r = f
  BY <1>2, <1>3, <1>4, SeqEqual
<1> QED
  BY <1>5 DEF r, f, n

(* A hit keeps the number of keys and leaves the key in front.             *)
LEMMA TouchedFront ==
  ASSUME NEW S, NEW order \in Seq(S), NEW key \in S,
         \E k \in DOMAIN order : order[k] = key
  PROVE  /\ Touched(order, key) \in Seq(S) /\ Len(Touched(order, key)) = Len(order)
         /\ 1 \in DOMAIN Touched(order, key) /\ Touched(order, key)[1] = key
<1> DEFINE at == CHOOSE k \in DOMAIN order : order[k] = key
<1>1. Len(order) \in Nat /\ DOMAIN order = 1 .. Len(order)
  BY LenProperties
<1>2. at \in 1 .. Len(order)
  BY <1>1
<1> HIDE DEF at
<1> DEFINE rest == RemoveAt(order, at)
<1>3. rest \in Seq(S) /\ Len(rest) = Len(order) - 1
  BY <1>2, RemoveAtSeq
<1>4. Touched(order, key) = <<key>> \o rest
  BY DEF Touched, at
<1> HIDE DEF rest
<1>5. Len(rest) + 1 = Len(order)
  BY <1>1, <1>3
<1> DEFINE new == <<key>> \o rest
<1>6. /\ new \in Seq(S) /\ Len(new) = Len(order)
      /\ 1 \in DOMAIN new /\ new[1] = key
  BY <1>3, <1>5, InFront
<1> HIDE DEF new
<1>7. Touched(order, key) = new
  BY <1>4 DEF new
<1> QED
  BY <1>6, <1>7

(* A put never leaves more keys than the capacity, and the key in front.   *)
LEMMA InsertedFront ==
  ASSUME NEW S, NEW order \in Seq(S), NEW key \in S, NEW c \in Nat \ {0},
         Len(order) <= c
  PROVE  /\ Inserted(order, c, key) \in Seq(S) /\ Len(Inserted(order, c, key)) <= c
         /\ 1 \in DOMAIN Inserted(order, c, key) /\ Inserted(order, c, key)[1] = key
<1> DEFINE rest == IF Len(order) = c THEN Front(order) ELSE order
<1>1. Len(order) \in Nat
  BY LenProperties
<1>2. rest \in Seq(S) /\ Len(rest) \in Nat /\ Len(rest) + 1 <= c
  <2>1. CASE Len(order) = c
    <3>1. /\ SubSeq(order, 1, Len(order) - 1) \in Seq(S)
          /\ Len(SubSeq(order, 1, Len(order) - 1)) = Len(order) - 1
      BY <1>1, <2>1, SubSeqProperties
    <3> QED
      BY <1>1, <2>1, <3>1 DEF Front
  <2>2. CASE Len(order) # c
    BY <1>1, <2>2
  <2> QED
    BY <2>1, <2>2
<1>3. Inserted(order, c, key) = <<key>> \o rest
  BY DEF Inserted
<1> HIDE DEF rest
<1> QED
  BY <1>2, <1>3, InFront

-----------------------------------------------------------------------------
(* Linked lists: following the links of a list from its first place finds  *)
(* its places and then `end', where the links stop.                        *)
LEMMA FollowFinds ==
  ASSUME NEW S, NEW l \in Seq(S), NEW end, NEW links, end \notin DOMAIN links,
         \A k \in 1 .. Len(l) :
           /\ l[k] \in DOMAIN links
           /\ links[l[k]] = Append(l, end)[k + 1],
         NEW steps \in Nat, Len(l) <= steps
  PROVE  Follow(Append(l, end)[1], links, steps) = Append(l, end)
<1> DEFINE
     a == Append(l, end)
     Step(f) == [k \in Nat |->
                   IF k = 0 THEN <<a[1]>>
                   ELSE LET before == f[k - 1]
                        IN IF Last(before) \in DOMAIN links
                           THEN Append(before, links[Last(before)]) ELSE before]
     path == CHOOSE f : f = Step(f)
     n == Len(l)
     T == S \cup {end}
     met(k) == IF k < n THEN k + 1 ELSE n + 1
     first(m) == [j \in 1 .. m |-> a[j]]
     w == [k \in Nat |-> first(met(k))]
<1>1. Follow(a[1], links, steps) = path[steps]
  BY DEF Follow
<1>2. n \in Nat /\ l \in Seq(T) /\ end \in T
  BY LenProperties
<1>3. /\ a \in Seq(T) /\ Len(a) = n + 1 /\ a[n + 1] = end
      /\ \A k \in 1 .. n : a[k] = l[k]
      /\ \A k \in 1 .. n + 1 : a[k] \in T
  <2>1. /\ a \in Seq(T) /\ Len(a) = n + 1 /\ a[n + 1] = end /\ \A k \in 1 .. n : a[k] = l[k]
    BY <1>2, AppendProperties
  <2> HIDE DEF a, T
  <2>2. \A k \in 1 .. n + 1 : a[k] \in T
    BY <2>1, ElementOfSeq
  <2> QED
    BY <2>1, <2>2
<1>4. \A k \in 1 .. n : a[k] \in DOMAIN links /\ links[a[k]] = a[k + 1]
  BY <1>3
<1> HIDE DEF a, n, T
<1>5. ASSUME NEW m \in 1 .. n + 1
      PROVE  /\ first(m) \in Seq(T) /\ Len(first(m)) = m
             /\ \A j \in 1 .. m : first(m)[j] = a[j]
             /\ Last(first(m)) = a[m]
  <2>1. m \in Nat /\ \A j \in 1 .. m : a[j] \in T
    BY <1>2, <1>3
  <2> DEFINE f == first(m)
  <2>2. f \in [1 .. m -> T] /\ \A j \in 1 .. m : f[j] = a[j]
    BY <2>1
  <2> HIDE DEF f
  <2>3. f \in Seq(T)
    BY <2>1, <2>2, SeqDef
  <2>4. Len(f) = m
    BY <2>1, <2>2, <2>3, LenProperties
  <2>5. Last(f) = a[m]
    BY <2>1, <2>2, <2>4 DEF Last
  <2> QED
    BY <2>2, <2>3, <2>4, <2>5 DEF f
<1> HIDE DEF first
(* One link further.                                                       *)
<1>6. ASSUME NEW k \in Nat
      PROVE  IF Last(first(met(k))) \in DOMAIN links
             THEN Append(first(met(k)), links[Last(first(met(k)))]) = first(met(k + 1))
             ELSE first(met(k)) = first(met(k + 1))
  <2>1. CASE k < n
    <3> DEFINE g == Append(first(k + 1), a[k + 2])
    <3>1. /\ k + 1 \in 1 .. n + 1 /\ k + 1 \in 1 .. n /\ k + 2 \in 1 .. n + 1
          /\ (k + 1) + 1 = k + 2 /\ met(k) = k + 1 /\ met(k + 1) = k + 2
      BY <1>2, <2>1
    <3>2. /\ first(k + 1) \in Seq(T) /\ Len(first(k + 1)) = k + 1
          /\ \A j \in 1 .. k + 1 : first(k + 1)[j] = a[j]
          /\ Last(first(k + 1)) = a[k + 1]
      BY <1>5, <3>1
    <3>3. /\ first(k + 2) \in Seq(T) /\ Len(first(k + 2)) = k + 2
          /\ \A j \in 1 .. k + 2 : first(k + 2)[j] = a[j]
      BY <1>5, <3>1
    <3>4. a[k + 2] \in T
      BY <1>3, <3>1
    <3>5. /\ g \in Seq(T) /\ Len(g) = k + 2 /\ g[k + 2] = a[k + 2]
          /\ \A j \in 1 .. k + 1 : g[j] = a[j]
      BY <3>1, <3>2, <3>4, AppendProperties
    <3> HIDE DEF g
    <3>6. \A j \in 1 .. k + 2 : g[j] = first(k + 2)[j]
      <4> TAKE j \in 1 .. k + 2
      <4>1. j \in 1 .. k + 1 \/ j = k + 2
        OBVIOUS
      <4> QED
        BY <3>3, <3>5, <4>1
    <3>7. g = first(k + 2)
      BY <3>3, <3>5, <3>6, SeqEqual
    <3>8. Last(first(met(k))) \in DOMAIN links /\ links[Last(first(met(k)))] = a[k + 2]
      BY <1>4, <3>1, <3>2
    <3> QED
      BY <3>1, <3>7, <3>8 DEF g
  <2>2. CASE ~(k < n)
    <3>1. met(k) = n + 1 /\ met(k + 1) = n + 1 /\ n + 1 \in 1 .. n + 1
      BY <1>2, <2>2
    <3>2. Last(first(met(k))) = end
      BY <1>3, <1>5, <3>1
    <3> QED
      BY <3>1, <3>2
  <2> QED
    BY <2>1, <2>2
<1>7. first(met(0)) = <<a[1]>>
  <2>1. met(0) = 1 /\ 1 \in 1 .. n + 1
    BY <1>2
  <2> DEFINE one == <<a[1]>>
  <2>2. a[1] \in T
    BY <1>3, <2>1
  <2>3. /\ first(1) \in Seq(T) /\ Len(first(1)) = 1
        /\ \A j \in 1 .. 1 : first(1)[j] = a[j]
    BY <1>5, <2>1
  <2>4. one \in Seq(T) /\ Len(one) = 1 /\ one[1] = a[1]
    BY <2>2
  <2> HIDE DEF one
  <2>5. first(1) = one
    BY <2>3, <2>4, SeqEqual
  <2> QED
    BY <2>1, <2>5 DEF one
<1> HIDE DEF met
<1>8. w = Step(w)
  <2>1. \A k \in Nat : w[k] = first(met(k))
    OBVIOUS
  <2>2. ASSUME NEW k \in Nat PROVE w[k] = Step(w)[k]
    <3>1. CASE k = 0
      BY <1>7, <2>1, <3>1
    <3>2. CASE k # 0
      <4>1. k - 1 \in Nat /\ (k - 1) + 1 = k
        BY <3>2
      <4>2. w[k - 1] = first(met(k - 1)) /\ w[k] = first(met((k - 1) + 1))
        BY <2>1, <4>1
      <4> HIDE DEF w
      <4>3. Step(w)[k] = IF Last(w[k - 1]) \in DOMAIN links
                         THEN Append(w[k - 1], links[Last(w[k - 1])]) ELSE w[k - 1]
        BY <3>2
      <4> QED
        BY <1>6, <4>1, <4>2, <4>3
    <3> QED
      BY <3>1, <3>2
  <2> QED
    BY <2>2
<1>9. path = Step(path)
  BY <1>8
<1> HIDE DEF path
<1>10. \A k \in Nat : path[k] = first(met(k))
  <2> DEFINE I == {k \in Nat : path[k] = first(met(k))}
  <2>1. 0 \in I
    <3>1. path[0] = Step(path)[0]
      BY <1>9
    <3> QED
      BY <1>7, <3>1
  <2>2. ASSUME NEW k \in Nat, k \in I PROVE k + 1 \in I
    <3>1. k + 1 \in Nat /\ k + 1 # 0 /\ (k + 1) - 1 = k
      OBVIOUS
    <3>2. path[k + 1] = Step(path)[k + 1]
      BY <1>9
    <3>3. Step(path)[k + 1] = IF Last(path[k]) \in DOMAIN links
                              THEN Append(path[k], links[Last(path[k])]) ELSE path[k]
      BY <3>1
    <3>4. path[k] = first(met(k))
      BY <2>2
    <3>5. path[k + 1] = first(met(k + 1))
      BY <1>6, <3>2, <3>3, <3>4
    <3> QED
      BY <3>5
  <2> HIDE DEF I
  <2>3. Nat \subseteq I
    BY <2>1, <2>2, AllNumbers
  <2> QED
    BY <2>3 DEF I
<1>11. path[steps] = first(n + 1)
  <2>1. met(steps) = n + 1
    BY <1>2 DEF met, n
  <2> QED
    BY <1>10, <2>1
<1>12. first(n + 1) = a
  <2>1. /\ n + 1 \in 1 .. n + 1 /\ first(n + 1) \in Seq(T) /\ Len(first(n + 1)) = n + 1
        /\ \A j \in 1 .. n + 1 : first(n + 1)[j] = a[j]
    BY <1>2, <1>5
  <2> QED
    BY <1>3, <2>1, SeqEqual
<1> QED
  BY <1>1, <1>11, <1>12 DEF a

LEMMA AppendFront ==
  ASSUME NEW S, NEW l \in Seq(S), NEW end \in S
  PROVE  Front(Append(l, end)) = l /\ Last(Append(l, end)) = end
<1> DEFINE a == Append(l, end)
           n == Len(l)
           s == SubSeq(a, 1, n)
<1>1. n \in Nat
  BY LenProperties
<1>2. a \in Seq(S) /\ Len(a) = n + 1 /\ a[n + 1] = end /\ \A k \in 1 .. n : a[k] = l[k]
  BY AppendProperties
<1> HIDE DEF a
<1>3. Front(a) = s /\ Last(a) = end
  <2>1. Len(a) - 1 = n
    BY <1>1, <1>2
  <2> QED
    BY <1>2, <2>1 DEF Front, Last
<1>4. s \in Seq(S) /\ Len(s) = n /\ \A j \in 1 .. n : s[j] = a[j]
  <2> HIDE DEF n
  <2> QED
    BY <1>1, <1>2, SubSeqProperties
<1> HIDE DEF s
<1>5. s = l
  BY <1>2, <1>4, SeqEqual
<1> QED
  BY <1>3, <1>5 DEF a

(* The keys of a list of nodes follow the list through what happens to it. *)
KeysOf(heap, l) == [k \in DOMAIN l |-> heap[l[k]].key]

LEMMA KeysSame ==
  ASSUME NEW S, NEW l \in Seq(S), NEW heap, NEW heap2,
         \A a \in ToSet(l) : heap2[a].key = heap[a].key
  PROVE  KeysOf(heap2, l) = KeysOf(heap, l)
<1>1. \A k \in DOMAIN l : l[k] \in ToSet(l)
  BY DEF ToSet
<1> QED
  BY <1>1 DEF KeysOf

LEMMA KeysSeq ==
  ASSUME NEW S, NEW l \in Seq(S), NEW heap, \A a \in ToSet(l) : heap[a].key \in Int
  PROVE  /\ KeysOf(heap, l) \in Seq(Int) /\ Len(KeysOf(heap, l)) = Len(l) /\ Len(l) \in Nat
         /\ \A k \in 1 .. Len(l) : KeysOf(heap, l)[k] = heap[l[k]].key
<1>1. Len(l) \in Nat /\ DOMAIN l = 1 .. Len(l) /\ \A k \in 1 .. Len(l) : l[k] \in ToSet(l)
  BY LenProperties DEF ToSet
<1>2. KeysOf(heap, l) \in [1 .. Len(l) -> Int]
  BY <1>1 DEF KeysOf
<1>3. KeysOf(heap, l) \in Seq(Int)
  BY <1>1, <1>2, SeqDef
<1>4. Len(KeysOf(heap, l)) = Len(l)
  BY <1>1, <1>2, <1>3, LenProperties
<1> QED
  BY <1>1, <1>3, <1>4 DEF KeysOf

LEMMA KeysInFront ==
  ASSUME NEW S, NEW l \in Seq(S), NEW node \in S, NEW heap,
         heap[node].key \in Int, \A a \in ToSet(l) : heap[a].key \in Int
  PROVE  KeysOf(heap, <<node>> \o l) = <<heap[node].key>> \o KeysOf(heap, l)
<1> DEFINE f == <<node>> \o l
           keys == KeysOf(heap, l)
           key == heap[node].key
           g == <<key>> \o keys
           n == Len(l)
<1>1. keys \in Seq(Int) /\ Len(keys) = n /\ n \in Nat /\ \A k \in 1 .. n : keys[k] = heap[l[k]].key
  BY KeysSeq
<1>2. /\ f \in Seq(S) /\ Len(f) = n + 1 /\ f[1] = node /\ ToSet(f) = ToSet(l) \cup {node}
      /\ \A k \in 1 .. n : f[k + 1] = l[k]
  BY InFront, InFrontPlaces
<1>3. key \in Int
  OBVIOUS
<1> HIDE DEF keys, key, f
<1>4. /\ g \in Seq(Int) /\ Len(g) = n + 1 /\ g[1] = key
      /\ \A k \in 1 .. n : g[k + 1] = keys[k]
  BY <1>1, <1>3, InFront, InFrontPlaces
<1>5. \A a \in ToSet(f) : heap[a].key \in Int
  BY <1>2, <1>3 DEF key
<1>6. /\ KeysOf(heap, f) \in Seq(Int) /\ Len(KeysOf(heap, f)) = n + 1
      /\ \A k \in 1 .. n + 1 : KeysOf(heap, f)[k] = heap[f[k]].key
  BY <1>2, <1>5, KeysSeq
<1> HIDE DEF g, n
<1>7. ASSUME NEW k \in 1 .. n + 1 PROVE KeysOf(heap, f)[k] = g[k]
  <2>1. CASE k = 1
    BY <1>1, <1>2, <1>4, <1>6, <2>1 DEF key
  <2>2. CASE k # 1
    <3>1. k - 1 \in 1 .. n /\ (k - 1) + 1 = k
      BY <1>1, <2>2
    <3>2. f[k] = l[k - 1] /\ g[k] = keys[k - 1] /\ keys[k - 1] = heap[l[k - 1]].key
      BY <1>1, <1>2, <1>4, <3>1
    <3> QED
      BY <1>6, <3>2
  <2> QED
    BY <2>1, <2>2
<1>8. KeysOf(heap, f) = g
  BY <1>4, <1>6, <1>7, SeqEqual
<1> QED
  BY <1>8 DEF f, g, key, keys

LEMMA KeysRemoved ==
  ASSUME NEW S, NEW l \in Seq(S), NEW p \in 1 .. Len(l), NEW heap,
         \A a \in ToSet(l) : heap[a].key \in Int
  PROVE  KeysOf(heap, RemoveAt(l, p)) = RemoveAt(KeysOf(heap, l), p)
<1> DEFINE r == RemoveAt(l, p)
           keys == KeysOf(heap, l)
           g == RemoveAt(keys, p)
           n == Len(l)
<1>1. /\ keys \in Seq(Int) /\ Len(keys) = n /\ n \in Nat /\ p \in 1 .. n
      /\ \A k \in 1 .. n : keys[k] = heap[l[k]].key
  BY KeysSeq
<1>2. /\ r \in Seq(S) /\ Len(r) = n - 1
      /\ \A k \in 1 .. n - 1 : r[k] = IF k < p THEN l[k] ELSE l[k + 1]
  BY RemoveAtSeq
<1> HIDE DEF keys
<1>3. /\ g \in Seq(Int) /\ Len(g) = n - 1
      /\ \A k \in 1 .. n - 1 : g[k] = IF k < p THEN keys[k] ELSE keys[k + 1]
  BY <1>1, RemoveAtSeq
<1>4. DOMAIN l = 1 .. n
  BY LenProperties
<1> HIDE DEF r, g, n
<1>5. \A k \in 1 .. n - 1 : \E j \in 1 .. n : r[k] = l[j] /\ g[k] = keys[j]
  <2> TAKE k \in 1 .. n - 1
  <2>1. k \in 1 .. n /\ k + 1 \in 1 .. n
    BY <1>1
  <2> QED
    BY <1>2, <1>3, <2>1
<1>6. \A a \in ToSet(r) : heap[a].key \in Int
  <2>1. DOMAIN r = 1 .. n - 1
    BY <1>2, LenProperties
  <2> QED
    BY <1>4, <1>5, <2>1 DEF ToSet
<1>7. /\ KeysOf(heap, r) \in Seq(Int) /\ Len(KeysOf(heap, r)) = n - 1
      /\ \A k \in 1 .. n - 1 : KeysOf(heap, r)[k] = heap[r[k]].key
  BY <1>2, <1>6, KeysSeq
<1>8. ASSUME NEW k \in 1 .. n - 1 PROVE KeysOf(heap, r)[k] = g[k]
  <2>1. PICK j \in 1 .. n : r[k] = l[j] /\ g[k] = keys[j]
    BY <1>5
  <2>2. KeysOf(heap, r)[k] = heap[r[k]].key /\ keys[j] = heap[l[j]].key
    BY <1>1, <1>7
  <2> QED
    BY <2>1, <2>2
<1>9. KeysOf(heap, r) = g
  BY <1>3, <1>7, <1>8, SeqEqual
<1> QED
  BY <1>9 DEF r, g, keys
=============================================================================
