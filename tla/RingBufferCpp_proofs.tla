------------------------ MODULE RingBufferCpp_proofs ------------------------
(***************************************************************************)
(* No notification of the C++ ring buffer is lost, whatever the size of    *)
(* the buffer and the number of threads, in programs that do not peek      *)
(* (for items) and do not reset (for room); the buffer is a bounded queue; *)
(* and the demo that uses it delivers its words in order.  DemoAssumption  *)
(* is cited in the part on the demo only.                                  *)
(***************************************************************************)
EXTENDS StreamDemo, Sequence_proofs

(* A thread in a call has called one of the program's blocking methods.    *)
CallsKnown ==
  \A t \in Threads :
    IF phase[t] = "idle" THEN op[t] = "none" ELSE op[t] \in Blocking \cap methods

IInv == TypeOK /\ CallsKnown /\ NoneStranded

-----------------------------------------------------------------------------
(* The array.                                                              *)

LEMMA ModSmall ==
  ASSUME NEW m \in Nat \ {0}, NEW x \in 0 .. m - 1
  PROVE  x % m = x
BY SMT

LEMMA ModSelf ==
  ASSUME NEW m \in Nat \ {0}
  PROVE  m % m = 0
BY SMT

LEMMA FollowingIs ==
  ASSUME NEW index \in Slots
  PROVE  /\ Following(index) \in Slots
         /\ Following(index) = IF index + 1 = MaxSize THEN 0 ELSE index + 1
<1>1. CASE index + 1 = MaxSize
  BY <1>1, SizeAssumption, ModSelf DEF Following, Slots
<1>2. CASE index + 1 # MaxSize
  <2>1. index + 1 \in 0 .. MaxSize - 1
    BY <1>2, SizeAssumption DEF Slots
  <2> QED
    BY <1>2, <2>1, SizeAssumption, ModSmall DEF Following, Slots
<1> QED
  BY <1>1, <1>2

LEMMA SizeIs ==
  ASSUME TypeOK
  PROVE  /\ getSize \in 0 .. MaxSize
         /\ isEmpty <=> getSize = 0
         /\ full <=> getSize = MaxSize
<1>1. adder \in 0 .. MaxSize - 1 /\ remover \in 0 .. MaxSize - 1
      /\ full \in BOOLEAN /\ (full => adder = remover) /\ MaxSize \in Nat \ {0}
  BY SizeAssumption DEF TypeOK, Slots
<1>2. CASE full
  BY <1>1, <1>2 DEF getSize, isEmpty
<1>3. CASE ~full
  BY <1>1, <1>3 DEF getSize, isEmpty
<1> QED
  BY <1>1, <1>2, <1>3

LEMMA AddGrows ==
  ASSUME TypeOK, ~full, NEW v \in Items, Add(v),
         full' = (Following(adder) = remover), remover' = remover
  PROVE  /\ getSize' = getSize + 1
         /\ buf' \in [Slots -> Items \cup {NULL}] /\ adder' \in Slots
         /\ full' \in BOOLEAN /\ (full' => adder' = remover')
<1>1. adder \in Slots /\ remover \in Slots /\ buf \in [Slots -> Items \cup {NULL}]
  BY DEF TypeOK
<1>2. Following(adder) \in Slots
      /\ Following(adder) = IF adder + 1 = MaxSize THEN 0 ELSE adder + 1
  BY <1>1, FollowingIs
<1>3. adder' = Following(adder) /\ buf' = [buf EXCEPT ![adder] = v]
  BY DEF Add
<1> DEFINE next == IF adder + 1 = MaxSize THEN 0 ELSE adder + 1
<1>4. /\ adder \in 0 .. MaxSize - 1 /\ remover \in 0 .. MaxSize - 1 /\ MaxSize \in Nat \ {0}
      /\ adder' = next /\ remover' = remover
  BY <1>1, <1>2, <1>3, SizeAssumption DEF Slots
<1>5. getSize = IF adder >= remover THEN adder - remover ELSE adder - remover + MaxSize
  BY DEF getSize
<1>6. getSize' = IF full' THEN MaxSize
                 ELSE IF adder' >= remover' THEN adder' - remover' ELSE adder' - remover' + MaxSize
  BY DEF getSize
<1>7. getSize' = getSize + 1
  <2>1. CASE next = remover
    <3>1. full'
      BY <2>1, <1>2
    <3> QED
      BY <2>1, <3>1, <1>4, <1>5, <1>6
  <2>2. CASE next # remover
    <3>1. ~full'
      BY <2>2, <1>2
    <3> QED
      BY <2>2, <3>1, <1>4, <1>5, <1>6
  <2> QED
    BY <2>1, <2>2
<1> QED
  BY <1>1, <1>2, <1>3, <1>7

LEMMA TakeShrinks ==
  ASSUME TypeOK, ~isEmpty, remover' = Following(remover), full' = FALSE, adder' = adder
  PROVE  getSize' = getSize - 1 /\ remover' \in Slots
<1>1. adder \in Slots /\ remover \in Slots /\ (full => adder = remover)
  BY DEF TypeOK
<1>2. Following(remover) \in Slots
      /\ Following(remover) = IF remover + 1 = MaxSize THEN 0 ELSE remover + 1
  BY <1>1, FollowingIs
<1> QED
  BY <1>1, <1>2, SizeAssumption DEF getSize, isEmpty, Slots

-----------------------------------------------------------------------------
(* The waiting and the woken.                                              *)

GetsWaiting == {t \in Threads : op[t] \in {"get", "peek"} /\ phase[t] = "waiting"}
GetsAwake == {t \in Threads : op[t] \in {"get", "peek"} /\ phase[t] \in {"woken", "expired"}}
PutsWaiting == {t \in Threads : op[t] = "put" /\ phase[t] = "waiting"}
PutsAwake == {t \in Threads : op[t] = "put" /\ phase[t] \in {"woken", "expired"}}

LEMMA Sets ==
  /\ Waiting(not_empty) = GetsWaiting /\ Awake(not_empty) = GetsAwake
  /\ Waiting(not_full) = PutsWaiting /\ Awake(not_full) = PutsAwake
BY DEF Waiting, Awake, not_empty, not_full, GetsWaiting, GetsAwake, PutsWaiting, PutsAwake

LEMMA StrandedIs ==
  /\ NoGetStranded <=> (GetsWaiting # {} => getSize <= Cardinality(GetsAwake))
  /\ NoPutStranded <=> (PutsWaiting # {} => MaxSize - getSize <= Cardinality(PutsAwake))
BY Sets DEF NoGetStranded, NoPutStranded

LEMMA StrandedIsPrime ==
  /\ NoGetStranded' <=> (GetsWaiting' # {} => getSize' <= Cardinality(GetsAwake'))
  /\ NoPutStranded' <=> (PutsWaiting' # {} => MaxSize - getSize' <= Cardinality(PutsAwake'))
<1>1. /\ Waiting(not_empty)' = GetsWaiting' /\ Awake(not_empty)' = GetsAwake'
      /\ Waiting(not_full)' = PutsWaiting' /\ Awake(not_full)' = PutsAwake'
  BY DEF Waiting, Awake, not_empty, not_full, GetsWaiting, GetsAwake, PutsWaiting, PutsAwake
<1> QED
  BY <1>1 DEF NoGetStranded, NoPutStranded

LEMMA AwakeFinite ==
  /\ IsFiniteSet(GetsAwake) /\ IsFiniteSet(PutsAwake)
  /\ IsFiniteSet(GetsAwake') /\ IsFiniteSet(PutsAwake')
BY ThreadsAssumption, FS_Subset DEF GetsAwake, PutsAwake

(* A call that ends without a notification, or with one that meets nobody. *)
LEMMA EndsAlone ==
  ASSUME TypeOK, NEW t \in Threads, NEW method, NEW v, NEW value,
         Return(t, method, v, value, {{}}), phase[t] # "waiting"
  PROVE  /\ GetsWaiting' = GetsWaiting /\ GetsAwake' = GetsAwake \ {t}
         /\ PutsWaiting' = PutsWaiting /\ PutsAwake' = PutsAwake \ {t}
<1>1. /\ phase' = [s \in Threads |-> IF s = t THEN "idle" ELSE phase[s]]
      /\ op' = [op EXCEPT ![t] = "none"] /\ op \in [Threads -> Blocking \cup {"none"}]
  BY DEF Return, TypeOK
<1>2. phase'[t] = "idle" /\ op'[t] = "none"
      /\ \A s \in Threads \ {t} : phase'[s] = phase[s] /\ op'[s] = op[s]
  BY <1>1
<1> QED
  BY <1>2 DEF GetsWaiting, GetsAwake, PutsWaiting, PutsAwake

(* A call that ends and wakes thread w.                                    *)
LEMMA EndsWaking ==
  ASSUME TypeOK, NEW t \in Threads, NEW method, NEW v, NEW value, NEW w \in Threads,
         Return(t, method, v, value, {{w}}), phase[t] # "waiting", phase[w] = "waiting"
  PROVE  /\ op[w] \in {"get", "peek"} =>
              /\ GetsAwake' = (GetsAwake \ {t}) \cup {w}
              /\ PutsWaiting' = PutsWaiting /\ PutsAwake' = PutsAwake \ {t}
         /\ op[w] = "put" =>
              /\ PutsAwake' = (PutsAwake \ {t}) \cup {w}
              /\ GetsWaiting' = GetsWaiting /\ GetsAwake' = GetsAwake \ {t}
<1>1. /\ phase' = [s \in Threads |-> IF s = t THEN "idle" ELSE IF s = w THEN "woken" ELSE phase[s]]
      /\ op' = [op EXCEPT ![t] = "none"] /\ op \in [Threads -> Blocking \cup {"none"}]
  BY DEF Return, TypeOK
<1>2. /\ w # t /\ phase'[t] = "idle" /\ op'[t] = "none" /\ phase'[w] = "woken" /\ op'[w] = op[w]
      /\ \A s \in Threads \ {t, w} : phase'[s] = phase[s] /\ op'[s] = op[s]
  BY <1>1
<1> QED
  BY <1>2 DEF GetsWaiting, GetsAwake, PutsWaiting, PutsAwake

(* One notification: it meets nobody, or wakes one thread that waits.      *)
LEMMA OneNotified ==
  ASSUME NEW t, NEW method, NEW v, NEW value, NEW cv, Return(t, method, v, value, notify_one(cv))
  PROVE  \/ Waiting(cv) = {} /\ Return(t, method, v, value, {{}})
         \/ \E w \in Waiting(cv) : Return(t, method, v, value, {{w}})
<1>1. CASE Waiting(cv) = {}
  BY <1>1 DEF notify_one, Return
<1>2. CASE Waiting(cv) # {}
  <2>1. PICK woken \in {{w} : w \in Waiting(cv)} :
          phase' = [s \in Threads |-> IF s = t THEN "idle"
                                      ELSE IF s \in woken THEN "woken" ELSE phase[s]]
    BY <1>2 DEF notify_one, Return
  <2>2. PICK w \in Waiting(cv) : woken = {w}
    BY <2>1
  <2> QED
    BY <2>1, <2>2 DEF Return
<1> QED
  BY <1>1, <1>2

(* The two halves of NoneStranded, when the counts are known.              *)
LEMMA GetsServed ==
  ASSUME NoGetStranded, getSize \in Nat, getSize' \in Nat,
         GetsWaiting' # {} => GetsWaiting # {},
         GetsWaiting' # {} => Cardinality(GetsAwake') - getSize'
                                >= Cardinality(GetsAwake) - getSize
  PROVE  NoGetStranded'
<1>1. Cardinality(GetsAwake) \in Nat /\ Cardinality(GetsAwake') \in Nat
  BY AwakeFinite, FS_CardinalityType
<1> QED
  BY <1>1, StrandedIs, StrandedIsPrime

LEMMA PutsServed ==
  ASSUME NoPutStranded, getSize \in Nat, getSize' \in Nat,
         PutsWaiting' # {} => PutsWaiting # {},
         PutsWaiting' # {} => Cardinality(PutsAwake') + getSize'
                                >= Cardinality(PutsAwake) + getSize
  PROVE  NoPutStranded'
<1>1. Cardinality(PutsAwake) \in Nat /\ Cardinality(PutsAwake') \in Nat
  BY AwakeFinite, FS_CardinalityType
<1> QED
  BY <1>1, StrandedIs, StrandedIsPrime, SizeAssumption

(* A step that leaves at most one more item and notifies those who wait    *)
(* for items.                                                              *)
LEMMA MoreItems ==
  ASSUME TypeOK, NEW t \in Threads, NEW method, NEW v, NEW value,
         Return(t, method, v, value, notify_one(not_empty)),
         phase[t] # "waiting", t \notin GetsAwake, getSize \in Nat, getSize' \in Nat,
         getSize' <= getSize + 1, getSize' >= getSize,
         t \in PutsAwake => getSize' = getSize + 1
  PROVE  /\ NoGetStranded => NoGetStranded'
         /\ NoPutStranded => NoPutStranded'
<1>1. \/ GetsWaiting = {} /\ Return(t, method, v, value, {{}})
      \/ \E w \in GetsWaiting : Return(t, method, v, value, {{w}})
  BY OneNotified, Sets
<1>2. PutsWaiting' = PutsWaiting /\ PutsAwake' = PutsAwake \ {t}
  <2>1. CASE GetsWaiting = {} /\ Return(t, method, v, value, {{}})
    BY <2>1, EndsAlone
  <2>2. ASSUME NEW w \in GetsWaiting, Return(t, method, v, value, {{w}})
        PROVE  PutsWaiting' = PutsWaiting /\ PutsAwake' = PutsAwake \ {t}
    BY <2>2, EndsWaking DEF GetsWaiting
  <2> QED
    BY <2>1, <2>2, <1>1
<1>3. NoPutStranded => NoPutStranded'
  <2>1. Cardinality(PutsAwake') + getSize' >= Cardinality(PutsAwake) + getSize
    <3>1. Cardinality(PutsAwake) \in Nat
          /\ Cardinality(PutsAwake') =
               IF t \in PutsAwake THEN Cardinality(PutsAwake) - 1 ELSE Cardinality(PutsAwake)
      BY <1>2, AwakeFinite, FS_CardinalityType, FS_RemoveElement
    <3> QED
      BY <3>1
  <2> QED
    BY <1>2, <2>1, PutsServed
<1>4. NoGetStranded => NoGetStranded'
  <2>1. CASE GetsWaiting = {} /\ Return(t, method, v, value, {{}})
    <3>1. GetsWaiting' = {}
      BY <2>1, EndsAlone
    <3> QED
      BY <3>1, StrandedIsPrime
  <2>2. ASSUME NEW w \in GetsWaiting, Return(t, method, v, value, {{w}})
        PROVE  NoGetStranded => NoGetStranded'
    <3>1. GetsAwake' = GetsAwake \cup {w} /\ w \notin GetsAwake
      <4>1. w \in Threads /\ op[w] \in {"get", "peek"} /\ phase[w] = "waiting"
            /\ w \notin GetsAwake
        BY DEF GetsWaiting, GetsAwake
      <4>2. GetsAwake' = (GetsAwake \ {t}) \cup {w}
        BY <2>2, <4>1, EndsWaking
      <4> QED
        BY <4>1, <4>2
    <3>2. Cardinality(GetsAwake) \in Nat
          /\ Cardinality(GetsAwake') = Cardinality(GetsAwake) + 1
      BY <3>1, AwakeFinite, FS_CardinalityType, FS_AddElement
    <3> QED
      BY <3>2, GetsServed, <2>2
  <2> QED
    BY <2>1, <2>2, <1>1
<1> QED
  BY <1>3, <1>4

(* A step that takes an item and notifies those who wait for room.         *)
LEMMA FewerItems ==
  ASSUME TypeOK, NEW t \in Threads, NEW method, NEW v, NEW value,
         Return(t, method, v, value, notify_one(not_full)),
         phase[t] # "waiting", t \notin PutsAwake, getSize \in Nat, getSize' \in Nat,
         getSize' = getSize - 1
  PROVE  /\ NoGetStranded => NoGetStranded'
         /\ NoPutStranded => NoPutStranded'
<1>1. \/ PutsWaiting = {} /\ Return(t, method, v, value, {{}})
      \/ \E w \in PutsWaiting : Return(t, method, v, value, {{w}})
  BY OneNotified, Sets
<1>2. GetsWaiting' = GetsWaiting /\ GetsAwake' = GetsAwake \ {t}
  <2>1. CASE PutsWaiting = {} /\ Return(t, method, v, value, {{}})
    BY <2>1, EndsAlone
  <2>2. ASSUME NEW w \in PutsWaiting, Return(t, method, v, value, {{w}})
        PROVE  GetsWaiting' = GetsWaiting /\ GetsAwake' = GetsAwake \ {t}
    BY <2>2, EndsWaking DEF PutsWaiting
  <2> QED
    BY <2>1, <2>2, <1>1
<1>3. NoGetStranded => NoGetStranded'
  <2>1. Cardinality(GetsAwake') - getSize' >= Cardinality(GetsAwake) - getSize
    <3>1. Cardinality(GetsAwake) \in Nat
          /\ Cardinality(GetsAwake') =
               IF t \in GetsAwake THEN Cardinality(GetsAwake) - 1 ELSE Cardinality(GetsAwake)
      BY <1>2, AwakeFinite, FS_CardinalityType, FS_RemoveElement
    <3> QED
      BY <3>1
  <2> QED
    BY <1>2, <2>1, GetsServed
<1>4. NoPutStranded => NoPutStranded'
  <2>1. CASE PutsWaiting = {} /\ Return(t, method, v, value, {{}})
    <3>1. PutsWaiting' = {}
      BY <2>1, EndsAlone
    <3> QED
      BY <3>1, StrandedIsPrime
  <2>2. ASSUME NEW w \in PutsWaiting, Return(t, method, v, value, {{w}})
        PROVE  NoPutStranded => NoPutStranded'
    <3>1. PutsAwake' = PutsAwake \cup {w} /\ w \notin PutsAwake
      BY <2>2, EndsWaking DEF PutsWaiting, PutsAwake
    <3>2. Cardinality(PutsAwake) \in Nat
          /\ Cardinality(PutsAwake') = Cardinality(PutsAwake) + 1
      BY <3>1, AwakeFinite, FS_CardinalityType, FS_AddElement
    <3> QED
      BY <3>2, PutsServed, <2>2
  <2> QED
    BY <2>1, <2>2, <1>1
<1> QED
  BY <1>3, <1>4

-----------------------------------------------------------------------------
(* The steps.                                                              *)

(* A thread that has the mutex in a call of some method.                   *)
LEMMA HoldsIs ==
  ASSUME IInv, NEW t \in Threads, NEW method, NEW v, Holds(t, method, v)
  PROVE  /\ phase[t] # "waiting" /\ method \in methods
         /\ t \in GetsAwake => method \in {"get", "peek"}
         /\ t \in PutsAwake => method = "put"
BY DEF Holds, IInv, CallsKnown, GetsAwake, PutsAwake

(* What the end of a call leaves in its type.                              *)
LEMMA ReturnKept ==
  ASSUME IInv, NEW t \in Threads, NEW method, NEW v,
         NEW value \in Items \cup {NULL, DONE}, NEW notified,
         Return(t, method, v, value, notified), <<method, v>> \in EndedCalls,
         \A N \in notified : \A s \in N : s \in Threads /\ phase[s] = "waiting"
  PROVE  /\ phase' \in [Threads -> {"idle", "waiting", "woken", "expired"}]
         /\ op' \in [Threads -> Blocking \cup {"none"}]
         /\ item' \in [Threads -> Items \cup {NULL}]
         /\ ended' \in EndedCalls
         /\ returned' \in Items \cup {NULL, DONE}
         /\ methods' = methods /\ expiring' = expiring /\ methods \in Programs /\ expiring \in BOOLEAN
         /\ CallsKnown'
<1>1. PICK N \in notified :
        phase' = [s \in Threads |-> IF s = t THEN "idle"
                                    ELSE IF s \in N THEN "woken" ELSE phase[s]]
  BY DEF Return
<1>2. /\ op' = [op EXCEPT ![t] = "none"] /\ item' = [item EXCEPT ![t] = NULL]
      /\ ended' = <<method, v>> /\ returned' = value /\ methods' = methods /\ expiring' = expiring
  BY DEF Return, program
<1>3. /\ phase \in [Threads -> {"idle", "waiting", "woken", "expired"}]
      /\ op \in [Threads -> Blocking \cup {"none"}] /\ item \in [Threads -> Items \cup {NULL}]
      /\ methods \in Programs /\ expiring \in BOOLEAN
  BY DEF IInv, TypeOK
<1>4. CallsKnown'
  BY <1>1, <1>2, <1>3 DEF IInv, CallsKnown
<1> QED
  BY <1>1, <1>2, <1>3, <1>4

LEMMA CallsEnded ==
  /\ \A v \in Items : <<"put", v>> \in EndedCalls /\ <<"putUnconditional", v>> \in EndedCalls
  /\ \A method \in {"get", "peek", "reset"} : <<method, NULL>> \in EndedCalls
  /\ <<"none", NULL>> \in EndedCalls
BY DEF EndedCalls

LEMMA Notifications ==
  /\ \A N \in {{}} : \A s \in N : s \in Threads /\ phase[s] = "waiting"
  /\ \A N \in notify_one(not_empty) : \A s \in N : s \in Threads /\ phase[s] = "waiting"
  /\ \A N \in notify_one(not_full) : \A s \in N : s \in Threads /\ phase[s] = "waiting"
  /\ \A N \in notify_all(not_empty) : \A s \in N : s \in Threads /\ phase[s] = "waiting"
BY DEF notify_one, notify_all, Waiting, not_empty, not_full

LEMMA SizeNat ==
  ASSUME IInv
  PROVE  getSize \in Nat /\ getSize <= MaxSize /\ MaxSize \in Nat
<1>1. getSize \in 0 .. MaxSize
  BY SizeIs DEF IInv
<1> QED
  BY <1>1, SizeAssumption

LEMMA PutIInv ==
  ASSUME IInv, NEW t \in Threads, NEW v \in Items, put(t, v)
  PROVE  IInv'
<1>1. /\ Holds(t, "put", v) /\ ~full /\ Add(v) /\ full' = (Following(adder) = remover)
      /\ remover' = remover /\ Return(t, "put", v, DONE, notify_one(not_empty))
  BY DEF put, Predicate
<1>2. /\ getSize' = getSize + 1
      /\ buf' \in [Slots -> Items \cup {NULL}] /\ adder' \in Slots
      /\ full' \in BOOLEAN /\ (full' => adder' = remover')
  BY <1>1, AddGrows DEF IInv
<1>3. remover' \in Slots
  BY <1>1 DEF IInv, TypeOK
<1>4. TypeOK' /\ CallsKnown' /\ methods' = methods
  BY <1>1, <1>2, <1>3, ReturnKept, CallsEnded, Notifications DEF TypeOK
<1>5. (NoGetStranded => NoGetStranded') /\ (NoPutStranded => NoPutStranded')
  <2>1. phase[t] # "waiting" /\ t \notin GetsAwake
    BY <1>1, HoldsIs
  <2>2. getSize \in Nat /\ getSize' \in Nat /\ getSize' <= getSize + 1 /\ getSize' >= getSize
    BY <1>2, SizeNat
  <2> QED
    BY <1>1, <1>2, <2>1, <2>2, MoreItems DEF IInv
<1> QED
  BY <1>4, <1>5 DEF IInv, NoneStranded

LEMMA PutUnconditionalIInv ==
  ASSUME IInv, NEW t \in Threads, NEW v \in Items, putUnconditional(t, v)
  PROVE  IInv'
<1>1. /\ Holds(t, "putUnconditional", v) /\ Add(v)
      /\ remover' = IF full THEN Following(remover) ELSE remover
      /\ full' = (Following(adder) = remover')
      /\ Return(t, "putUnconditional", v, DONE, notify_one(not_empty))
  BY DEF putUnconditional
<1>2. /\ getSize' \in {getSize, getSize + 1} /\ remover' \in Slots
      /\ buf' \in [Slots -> Items \cup {NULL}] /\ adder' \in Slots
      /\ full' \in BOOLEAN /\ (full' => adder' = remover')
  <2>1. CASE full
    <3>1. adder \in Slots /\ adder = remover /\ buf \in [Slots -> Items \cup {NULL}]
      BY <2>1 DEF IInv, TypeOK
    <3>2. full' /\ full' \in BOOLEAN /\ adder' = Following(adder) /\ remover' = Following(adder)
      BY <1>1, <2>1, <3>1 DEF Add
    <3>3. getSize = MaxSize /\ getSize' = MaxSize
      BY <2>1, <3>2 DEF getSize
    <3>4. buf' \in [Slots -> Items \cup {NULL}]
      BY <1>1, <3>1 DEF Add
    <3> QED
      BY <3>1, <3>2, <3>3, <3>4, FollowingIs
  <2>2. CASE ~full
    <3>1. remover' = remover /\ full' = (Following(adder) = remover) /\ remover \in Slots
      BY <1>1, <2>2 DEF IInv, TypeOK
    <3> QED
      BY <1>1, <2>2, <3>1, AddGrows DEF IInv
  <2> QED
    BY <2>1, <2>2
<1>3. TypeOK' /\ CallsKnown' /\ methods' = methods
  BY <1>1, <1>2, ReturnKept, CallsEnded, Notifications DEF TypeOK
<1>4. (NoGetStranded => NoGetStranded') /\ (NoPutStranded => NoPutStranded')
  <2>1. phase[t] # "waiting" /\ t \notin GetsAwake /\ t \notin PutsAwake
    BY <1>1, HoldsIs
  <2>2. getSize \in Nat /\ getSize' \in Nat /\ getSize' <= getSize + 1 /\ getSize' >= getSize
    BY <1>2, SizeNat
  <2> QED
    BY <1>1, <2>1, <2>2, MoreItems DEF IInv
<1> QED
  BY <1>3, <1>4 DEF IInv, NoneStranded

LEMMA GetIInv ==
  ASSUME IInv, NEW t \in Threads, get(t)
  PROVE  IInv'
<1>1. /\ Holds(t, "get", NULL) /\ ~isEmpty /\ remover' = Following(remover) /\ full' = FALSE
      /\ buf' = buf /\ adder' = adder /\ Return(t, "get", NULL, buf[remover], notify_one(not_full))
  BY DEF get, Predicate
<1>2. getSize' = getSize - 1 /\ remover' \in Slots
  BY <1>1, TakeShrinks DEF IInv
<1>3. buf[remover] \in Items \cup {NULL, DONE} /\ adder \in Slots
      /\ buf \in [Slots -> Items \cup {NULL}]
  BY DEF IInv, TypeOK
<1>4. TypeOK' /\ CallsKnown' /\ methods' = methods
  BY <1>1, <1>2, <1>3, ReturnKept, CallsEnded, Notifications DEF TypeOK
<1>5. (NoGetStranded => NoGetStranded') /\ (NoPutStranded => NoPutStranded')
  <2>1. phase[t] # "waiting" /\ t \notin PutsAwake
    BY <1>1, HoldsIs
  <2>2. getSize \in Nat /\ getSize # 0
    BY <1>1, SizeNat, SizeIs DEF IInv
  <2>3. getSize' \in Nat
    BY <1>2, <2>2
  <2> QED
    BY <1>1, <1>2, <2>1, <2>2, <2>3, FewerItems DEF IInv
<1> QED
  BY <1>4, <1>5 DEF IInv, NoneStranded

LEMMA RingSame ==
  ASSUME IInv, UNCHANGED ring
  PROVE  /\ buf' \in [Slots -> Items \cup {NULL}]
         /\ adder' \in Slots /\ remover' \in Slots /\ full' \in BOOLEAN
         /\ full' => adder' = remover'
BY DEF IInv, TypeOK, ring

LEMMA PeekIInv ==
  ASSUME IInv, NEW t \in Threads, peek(t)
  PROVE  IInv'
<1>1. Holds(t, "peek", NULL) /\ Return(t, "peek", NULL, buf[remover], {{}}) /\ UNCHANGED ring
  BY DEF peek
<1>2. buf[remover] \in Items \cup {NULL, DONE}
  BY DEF IInv, TypeOK
<1>3. TypeOK' /\ CallsKnown' /\ methods' = methods
  <2>1. /\ buf' \in [Slots -> Items \cup {NULL}] /\ adder' \in Slots /\ remover' \in Slots
        /\ full' \in BOOLEAN /\ (full' => adder' = remover')
    BY <1>1, RingSame
  <2>2. Return(t, "peek", NULL, buf[remover], {{}}) /\ <<"peek", NULL>> \in EndedCalls
    BY <1>1, CallsEnded
  <2>3. /\ phase' \in [Threads -> {"idle", "waiting", "woken", "expired"}]
        /\ op' \in [Threads -> Blocking \cup {"none"}]
        /\ item' \in [Threads -> Items \cup {NULL}] /\ ended' \in EndedCalls
        /\ returned' \in Items \cup {NULL, DONE}
        /\ methods' = methods /\ expiring' = expiring /\ methods \in Programs /\ expiring \in BOOLEAN
        /\ CallsKnown'
    BY <1>2, <2>2, ReturnKept, Notifications
  <2> QED
    BY <2>1, <2>3 DEF TypeOK
<1>4. getSize' = getSize /\ getSize \in Nat
  BY <1>1, SizeNat DEF ring, getSize
<1>5. NoPutStranded => NoPutStranded'
  <2>1. t \notin PutsAwake /\ phase[t] # "waiting"
    BY <1>1, HoldsIs
  <2>2. PutsWaiting' = PutsWaiting /\ PutsAwake' = PutsAwake
    BY <1>1, <2>1, EndsAlone DEF IInv
  <2> QED
    BY <1>4, <2>2, StrandedIs, StrandedIsPrime
<1>6. "peek" \in methods
  BY <1>1, HoldsIs
<1> QED
  BY <1>3, <1>5, <1>6 DEF IInv, NoneStranded

LEMMA ResetIInv ==
  ASSUME IInv, NEW t \in Threads, reset(t)
  PROVE  IInv'
<1>1. /\ Holds(t, "reset", NULL) /\ adder' = 0 /\ remover' = 0 /\ full' = FALSE /\ buf' = buf
      /\ Return(t, "reset", NULL, DONE, notify_all(not_empty))
  BY DEF reset
<1>2. 0 \in Slots /\ buf \in [Slots -> Items \cup {NULL}]
  BY SizeAssumption DEF Slots, IInv, TypeOK
<1>3. TypeOK' /\ CallsKnown' /\ methods' = methods
  BY <1>1, <1>2, ReturnKept, CallsEnded, Notifications DEF TypeOK
<1>4. getSize' = 0
  BY <1>1 DEF getSize
<1>5. NoGetStranded'
  <2>1. Cardinality(GetsAwake') \in Nat
    BY AwakeFinite, FS_CardinalityType
  <2> QED
    BY <1>4, <2>1, StrandedIsPrime
<1>6. "reset" \in methods
  BY <1>1, HoldsIs
<1> QED
  BY <1>3, <1>5, <1>6 DEF IInv, NoneStranded

(* A call that cannot be served leaves the buffer as it is, and those of   *)
(* its own kind have nothing to wait for.                                  *)
LEMMA Unserved ==
  ASSUME IInv, NEW method \in Blocking, ~Predicate(method), UNCHANGED ring,
         method = "put" => GetsWaiting' = GetsWaiting /\ GetsAwake' = GetsAwake,
         method # "put" => PutsWaiting' = PutsWaiting /\ PutsAwake' = PutsAwake,
         methods' = methods
  PROVE  NoneStranded'
<1>1. getSize' = getSize /\ getSize \in Nat /\ MaxSize \in Nat
  BY SizeNat DEF ring, getSize
<1>2. Cardinality(GetsAwake') \in Nat /\ Cardinality(PutsAwake') \in Nat
  BY AwakeFinite, FS_CardinalityType
<1>3. CASE method = "put"
  <2>1. MaxSize - getSize' = 0
    BY <1>1, <1>3, SizeIs DEF Predicate, IInv
  <2>2. NoPutStranded'
    BY <2>1, <1>2, StrandedIsPrime
  <2>3. NoGetStranded => NoGetStranded'
    BY <1>1, <1>3, StrandedIs, StrandedIsPrime
  <2> QED
    BY <2>2, <2>3 DEF IInv, NoneStranded
<1>4. CASE method # "put"
  <2>1. getSize' = 0
    BY <1>1, <1>4, SizeIs DEF Predicate, IInv
  <2>2. NoGetStranded'
    BY <2>1, <1>2, StrandedIsPrime
  <2>3. NoPutStranded => NoPutStranded'
    BY <1>1, <1>4, StrandedIs, StrandedIsPrime
  <2> QED
    BY <2>2, <2>3 DEF IInv, NoneStranded
<1> QED
  BY <1>3, <1>4

LEMMA WaitIInv ==
  ASSUME IInv, NEW t \in Threads, NEW method \in Blocking, NEW v \in Items \cup {NULL},
         Wait(t, method, v)
  PROVE  IInv'
<1>1. /\ Holds(t, method, v) /\ ~Predicate(method) /\ UNCHANGED ring
      /\ phase' = [phase EXCEPT ![t] = "waiting"] /\ op' = [op EXCEPT ![t] = method]
      /\ item' = [item EXCEPT ![t] = v] /\ ended' = ended /\ returned' = returned
      /\ methods' = methods /\ expiring' = expiring
  BY DEF Wait, program
<1>2. /\ phase \in [Threads -> {"idle", "waiting", "woken", "expired"}]
      /\ op \in [Threads -> Blocking \cup {"none"}] /\ item \in [Threads -> Items \cup {NULL}]
  BY DEF IInv, TypeOK
<1>3. TypeOK'
  BY <1>1, <1>2 DEF IInv, TypeOK, ring
<1>4. method \in methods
  BY <1>1, HoldsIs
<1>5. CallsKnown'
  BY <1>1, <1>2, <1>4 DEF IInv, CallsKnown
<1>6. \A s \in Threads \ {t} : phase'[s] = phase[s] /\ op'[s] = op[s]
  BY <1>1, <1>2
<1>7. phase'[t] = "waiting" /\ op'[t] = method /\ (phase[t] = "idle" \/ op[t] = method)
      /\ phase[t] # "waiting" /\ (phase[t] = "idle" => op[t] = "none")
  BY <1>1, <1>2, HoldsIs DEF Holds, IInv, CallsKnown
<1>8. method = "put" => GetsWaiting' = GetsWaiting /\ GetsAwake' = GetsAwake
  BY <1>6, <1>7 DEF GetsWaiting, GetsAwake
<1>9. method # "put" => PutsWaiting' = PutsWaiting /\ PutsAwake' = PutsAwake
  BY <1>6, <1>7 DEF PutsWaiting, PutsAwake
<1>10. NoneStranded'
  BY <1>1, <1>8, <1>9, Unserved
<1> QED
  BY <1>3, <1>5, <1>10 DEF IInv

LEMMA GiveUpIInv ==
  ASSUME IInv, NEW t \in Threads, NEW method \in Blocking, NEW v, GiveUp(t, method, v),
         <<method, v>> \in EndedCalls
  PROVE  IInv'
<1>1. Holds(t, method, v) /\ ~Predicate(method) /\ UNCHANGED ring
      /\ Return(t, method, v, NULL, {{}})
  BY DEF GiveUp
<1>2. TypeOK' /\ CallsKnown' /\ methods' = methods
  <2>1. NULL \in Items \cup {NULL, DONE}
    OBVIOUS
  <2>2. /\ buf' \in [Slots -> Items \cup {NULL}] /\ adder' \in Slots /\ remover' \in Slots
        /\ full' \in BOOLEAN /\ (full' => adder' = remover')
    BY <1>1, RingSame
  <2>3. Return(t, method, v, NULL, {{}})
    BY <1>1
  <2>4. \A N \in {{}} : \A s \in N : s \in Threads /\ phase[s] = "waiting"
    OBVIOUS
  <2>5. /\ phase' \in [Threads -> {"idle", "waiting", "woken", "expired"}]
        /\ op' \in [Threads -> Blocking \cup {"none"}]
        /\ item' \in [Threads -> Items \cup {NULL}]
        /\ ended' \in EndedCalls
        /\ returned' \in Items \cup {NULL, DONE}
        /\ methods' = methods /\ expiring' = expiring /\ methods \in Programs /\ expiring \in BOOLEAN
        /\ CallsKnown'
    BY <2>1, <2>3, <2>4, ReturnKept
  <2> QED
    BY <2>2, <2>5 DEF TypeOK
<1>3. phase[t] # "waiting" /\ (method = "put" => t \notin GetsAwake)
      /\ (method # "put" => t \notin PutsAwake)
  BY <1>1, HoldsIs
<1>4. /\ method = "put" => GetsWaiting' = GetsWaiting /\ GetsAwake' = GetsAwake
      /\ method # "put" => PutsWaiting' = PutsWaiting /\ PutsAwake' = PutsAwake
  BY <1>1, <1>3, EndsAlone DEF IInv
<1>5. NoneStranded'
  BY <1>1, <1>2, <1>4, Unserved
<1> QED
  BY <1>2, <1>5 DEF IInv

(* A waiting thread that wakes by itself or by its timeout, or a woken one *)
(* whose time runs out, is one more on the way.                            *)
LEMMA AwakeIInv ==
  ASSUME IInv, NEW t \in Threads, Expire(t) \/ WakeSpuriously(t)
  PROVE  IInv'
<1>1. PICK to \in {"woken", "expired"} :
        phase[t] \in {"waiting", "woken"} /\ phase' = [phase EXCEPT ![t] = to]
  BY DEF Expire, WakeSpuriously
<1>2. UNCHANGED <<ring, op, item, ended, returned, methods, expiring>>
  BY DEF Expire, WakeSpuriously, program
<1>3. phase \in [Threads -> {"idle", "waiting", "woken", "expired"}]
  BY DEF IInv, TypeOK
<1>4. TypeOK' /\ CallsKnown'
  BY <1>1, <1>2, <1>3 DEF IInv, TypeOK, CallsKnown, ring
<1>5. /\ GetsWaiting' \subseteq GetsWaiting /\ GetsAwake \subseteq GetsAwake'
      /\ PutsWaiting' \subseteq PutsWaiting /\ PutsAwake \subseteq PutsAwake'
  BY <1>1, <1>2, <1>3 DEF GetsWaiting, GetsAwake, PutsWaiting, PutsAwake
<1>6. /\ Cardinality(GetsAwake) \in Nat /\ Cardinality(GetsAwake') \in Nat
      /\ Cardinality(PutsAwake) \in Nat /\ Cardinality(PutsAwake') \in Nat
      /\ Cardinality(GetsAwake') >= Cardinality(GetsAwake)
      /\ Cardinality(PutsAwake') >= Cardinality(PutsAwake)
  BY <1>5, AwakeFinite, FS_CardinalityType, FS_Subset
<1>7. getSize' = getSize /\ getSize \in Nat /\ MaxSize \in Nat
  BY <1>2, SizeNat DEF ring, getSize
<1>8. (NoGetStranded => NoGetStranded') /\ (NoPutStranded => NoPutStranded')
  BY <1>5, <1>6, <1>7, StrandedIs, StrandedIsPrime
<1> QED
  BY <1>2, <1>4, <1>8 DEF IInv, NoneStranded

-----------------------------------------------------------------------------
LEMMA InitIInv == Init => IInv
<1> SUFFICES ASSUME Init PROVE IInv
  OBVIOUS
<1>1. TypeOK
  <2>1. 0 \in Slots
    BY SizeAssumption DEF Slots
  <2> QED
    BY <2>1, CallsEnded DEF Init, TypeOK
<1>2. CallsKnown
  BY DEF Init, CallsKnown
<1>3. GetsWaiting = {} /\ PutsWaiting = {}
  BY DEF Init, GetsWaiting, PutsWaiting
<1> QED
  BY <1>1, <1>2, <1>3, StrandedIs DEF IInv, NoneStranded

LEMMA NextIInv == IInv /\ [Next]_vars => IInv'
<1> SUFFICES ASSUME IInv, [Next]_vars PROVE IInv'
  OBVIOUS
<1>1. CASE UNCHANGED vars
  BY <1>1 DEF vars, ring, calls, program, IInv, TypeOK, CallsKnown, NoneStranded,
     NoGetStranded, NoPutStranded, Waiting, Awake, not_empty, not_full, getSize
<1>2. ASSUME NEW t \in Threads, Step(t) PROVE IInv'
  <2>1. ASSUME NEW v \in Items, put(t, v) \/ Block(t, "put", v) \/ putUnconditional(t, v)
        PROVE  IInv'
    BY <2>1, PutIInv, PutUnconditionalIInv, WaitIInv, GiveUpIInv, CallsEnded DEF Block, Blocking
  <2>2. CASE get(t) \/ peek(t) \/ reset(t)
    BY <2>2, GetIInv, PeekIInv, ResetIInv
  <2>3. ASSUME NEW method \in {"get", "peek"}, Block(t, method, NULL)
        PROVE  IInv'
    BY <2>3, WaitIInv, GiveUpIInv, CallsEnded DEF Block, Blocking
  <2> QED
    BY <1>2, <2>1, <2>2, <2>3 DEF Step
<1>3. ASSUME NEW t \in Threads, Expire(t) \/ WakeSpuriously(t) PROVE IInv'
  BY <1>3, AwakeIInv
<1> QED
  BY <1>1, <1>2, <1>3 DEF Next

LEMMA Invariance == Spec => []IInv
BY InitIInv, NextIInv, PTL DEF Spec

(* The indices stay inside the array and the flag is up only when they     *)
(* meet (ring_buffer.h:166-206), for every size and number of threads.     *)
THEOREM TypeCorrect == Spec => []TypeOK
BY Invariance, PTL DEF IInv

(* One notification per call is enough (ring_buffer.h:171, 187, 206): as   *)
(* long as nobody peeks, every item has a waiting get on its way, and as   *)
(* long as nobody resets, every free slot a waiting put.                   *)
THEOREM NoNotificationLost == Spec => []NoneStranded
BY Invariance, PTL DEF IInv

(* Gets and puts never all wait for one another: with a thread waiting for *)
(* an item and one waiting for room, somebody is on the way to either, so  *)
(* a program that neither peeks nor resets does not hang between the two   *)
(* condition variables, even without timeouts.                             *)
SomebodyAwake ==
  /\ {"peek", "reset"} \cap methods = {}
  /\ Waiting(not_empty) # {} /\ Waiting(not_full) # {}
  => Awake(not_empty) \cup Awake(not_full) # {}

THEOREM NeverAllAsleep == Spec => []SomebodyAwake
<1>1. ASSUME IInv PROVE SomebodyAwake
  <2> SUFFICES ASSUME {"peek", "reset"} \cap methods = {},
                      Waiting(not_empty) # {}, Waiting(not_full) # {},
                      Awake(not_empty) = {}, Awake(not_full) = {}
               PROVE  FALSE
    BY DEF SomebodyAwake
  <2>1. Cardinality(Awake(not_empty)) = 0 /\ Cardinality(Awake(not_full)) = 0
    BY FS_EmptySet
  <2>2. getSize <= 0 /\ MaxSize - getSize <= 0
    BY <1>1, <2>1 DEF IInv, NoneStranded, NoGetStranded, NoPutStranded
  <2>3. getSize \in 0 .. MaxSize /\ MaxSize \in Nat \ {0}
    BY <1>1, SizeIs, SizeAssumption DEF IInv
  <2> QED
    BY <2>2, <2>3
<1> QED
  BY <1>1, Invariance, PTL

-----------------------------------------------------------------------------
(* The array is a queue.  Item k of the queue lies k - 1 slots on from     *)
(* remover; Place says which slot that is.                                 *)
Place(r, k) == (r + k) % MaxSize
Contents == [k \in 1 .. getSize |-> buf[(remover + k - 1) % MaxSize]]

ContentsInPlace ==
  /\ Contents \in Seq(Items \cup {NULL}) /\ Len(Contents) = getSize
  /\ \A k \in 1 .. getSize : Contents[k] = buf[Place(remover, k - 1)]

LEMMA PlaceIs ==
  ASSUME NEW r \in Slots, NEW k \in 0 .. MaxSize - 1
  PROVE  /\ Place(r, k) \in Slots
         /\ Place(r, k) = IF r + k < MaxSize THEN r + k ELSE r + k - MaxSize
  BY SizeAssumption DEF Slots, Place

LEMMA PlacesDiffer ==
  ASSUME NEW r \in Slots, NEW k \in 0 .. MaxSize - 1, NEW l \in 0 .. MaxSize - 1, k # l
  PROVE  Place(r, k) # Place(r, l)
<1>1. /\ Place(r, k) = IF r + k < MaxSize THEN r + k ELSE r + k - MaxSize
      /\ Place(r, l) = IF r + l < MaxSize THEN r + l ELSE r + l - MaxSize
  BY PlaceIs
<1> QED
  BY <1>1, SizeAssumption DEF Slots

(* Counting on from the slot that follows is counting one further.         *)
LEMMA PlaceFromFollowing ==
  ASSUME NEW r \in Slots, NEW k \in 0 .. MaxSize - 1
  PROVE  /\ k + 1 < MaxSize => Place(Following(r), k) = Place(r, k + 1)
         /\ k + 1 = MaxSize => Place(Following(r), k) = r
<1>1. /\ Following(r) \in Slots
      /\ Following(r) = IF r + 1 = MaxSize THEN 0 ELSE r + 1
  BY FollowingIs
<1>2. Place(Following(r), k) = IF Following(r) + k < MaxSize THEN Following(r) + k
                               ELSE Following(r) + k - MaxSize
  BY <1>1, PlaceIs
<1>3. k + 1 < MaxSize =>
        Place(r, k + 1) = IF r + (k + 1) < MaxSize THEN r + (k + 1) ELSE r + (k + 1) - MaxSize
  <2> SUFFICES ASSUME k + 1 < MaxSize
               PROVE  Place(r, k + 1) = IF r + (k + 1) < MaxSize THEN r + (k + 1)
                                        ELSE r + (k + 1) - MaxSize
    OBVIOUS
  <2>1. k + 1 \in 0 .. MaxSize - 1
    BY SizeAssumption
  <2> QED
    BY <2>1, PlaceIs
<1> QED
  BY <1>1, <1>2, <1>3, SizeAssumption DEF Slots

(* The slot to add to is the one after the newest item.                    *)
LEMMA AdderPlace ==
  ASSUME TypeOK, ~full
  PROVE  getSize \in 0 .. MaxSize - 1 /\ adder = Place(remover, getSize)
<1>1. /\ adder \in Slots /\ remover \in Slots /\ MaxSize \in Nat \ {0}
      /\ getSize = IF adder >= remover THEN adder - remover ELSE adder - remover + MaxSize
  BY SizeAssumption DEF TypeOK, getSize
<1>2. getSize \in 0 .. MaxSize - 1
  BY <1>1 DEF Slots
<1>3. Place(remover, getSize) = IF remover + getSize < MaxSize THEN remover + getSize
                                ELSE remover + getSize - MaxSize
  BY <1>1, <1>2, PlaceIs
<1> QED
  BY <1>1, <1>2, <1>3 DEF Slots

LEMMA ContentsView == TypeOK => ContentsInPlace
<1> SUFFICES ASSUME TypeOK PROVE ContentsInPlace
  OBVIOUS
<1>1. /\ getSize \in 0 .. MaxSize /\ MaxSize \in Nat \ {0} /\ remover \in Slots
      /\ buf \in [Slots -> Items \cup {NULL}]
  BY SizeIs, SizeAssumption DEF TypeOK
<1>2. ASSUME NEW k \in 1 .. getSize
      PROVE  /\ buf[(remover + k - 1) % MaxSize] = buf[Place(remover, k - 1)]
             /\ buf[Place(remover, k - 1)] \in Items \cup {NULL}
  <2>1. k - 1 \in 0 .. MaxSize - 1 /\ remover + k - 1 = remover + (k - 1)
    BY <1>1 DEF Slots
  <2>2. Place(remover, k - 1) \in Slots
    BY <1>1, <2>1, PlaceIs
  <2> QED
    BY <1>1, <2>1, <2>2 DEF Place
<1>3. /\ Contents \in [1 .. getSize -> Items \cup {NULL}]
      /\ \A k \in 1 .. getSize : Contents[k] = buf[Place(remover, k - 1)]
  BY <1>2 DEF Contents
<1>4. Contents \in Seq(Items \cup {NULL})
  BY <1>1, <1>3, SeqDef
<1> QED
  BY <1>1, <1>3, <1>4, LenProperties DEF ContentsInPlace

LEMMA ContentsViewNext == TypeOK' => ContentsInPlace'
  BY ContentsView, PTL

(* A method that adds an item while there is room appends it.              *)
LEMMA AddAppends ==
  ASSUME TypeOK, TypeOK', ~full, NEW v \in Items, Add(v),
         full' = (Following(adder) = remover), remover' = remover
  PROVE  Len(Contents) < MaxSize /\ Contents' = Append(Contents, v)
<1> DEFINE S == Items \cup {NULL}
           a == Append(Contents, v)
<1>1. /\ getSize \in 0 .. MaxSize - 1 /\ adder = Place(remover, getSize)
      /\ MaxSize \in Nat \ {0} /\ remover \in Slots /\ adder \in Slots
      /\ buf \in [Slots -> S]
  BY AdderPlace, SizeAssumption DEF TypeOK
<1>2. getSize' = getSize + 1 /\ buf' = [buf EXCEPT ![adder] = v]
  BY AddGrows DEF Add
<1>3. /\ Contents \in Seq(S) /\ Len(Contents) = getSize
      /\ \A k \in 1 .. getSize : Contents[k] = buf[Place(remover, k - 1)]
  BY ContentsView DEF ContentsInPlace
<1>4. /\ Contents' \in Seq(S) /\ Len(Contents') = getSize + 1
      /\ \A k \in 1 .. getSize + 1 : Contents'[k] = buf'[Place(remover, k - 1)]
  BY <1>2, ContentsViewNext DEF ContentsInPlace, Place
<1>5. /\ a \in Seq(S) /\ Len(a) = getSize + 1
      /\ \A k \in 1 .. getSize : a[k] = Contents[k]
      /\ a[getSize + 1] = v
  BY <1>1, <1>3, AppendProperties
<1> HIDE DEF a, S
<1>6. ASSUME NEW k \in 1 .. getSize + 1 PROVE Contents'[k] = a[k]
  <2>1. CASE k = getSize + 1
    <3>1. k - 1 = getSize
      BY <1>1, <2>1
    <3> QED
      BY <1>1, <1>2, <1>4, <1>5, <2>1, <3>1
  <2>2. CASE k # getSize + 1
    <3>1. k \in 1 .. getSize /\ k - 1 \in 0 .. MaxSize - 1 /\ k - 1 # getSize
          /\ getSize \in 0 .. MaxSize - 1
      BY <1>1, <2>2
    <3>2. Place(remover, k - 1) # adder /\ Place(remover, k - 1) \in Slots
      BY <1>1, <3>1, PlacesDiffer, PlaceIs
    <3> QED
      BY <1>1, <1>2, <1>3, <1>4, <1>5, <3>1, <3>2
  <2> QED
    BY <2>1, <2>2
<1>7. Contents' = a
  BY <1>4, <1>5, <1>6, SeqEqual
<1> QED
  BY <1>1, <1>3, <1>7 DEF a

LEMMA ReturnedIs ==
  ASSUME NEW t, NEW method, NEW v, NEW value, NEW notified, Return(t, method, v, value, notified)
  PROVE  ended' = <<method, v>> /\ returned' = value
  BY DEF Return

LEMMA PutPuts ==
  ASSUME TypeOK, TypeOK', NEW t \in Threads, NEW v \in Items, put(t, v)
  PROVE  Queue!Put(v)
<1>1. /\ Len(Contents) < MaxSize /\ Contents' = Append(Contents, v)
  BY AddAppends DEF put, Predicate
<1>2. ended' = <<"put", v>> /\ returned' = DONE
  BY ReturnedIs DEF put
<1> QED
  BY <1>1, <1>2 DEF Queue!Put, Contents

(* With a full buffer putUnconditional writes where the oldest item was    *)
(* and moves both indices on: the oldest is gone, the rest has moved up.   *)
LEMMA ReplaceDropsOldest ==
  ASSUME TypeOK, TypeOK', full, full', NEW v \in Items, Add(v), remover' = Following(remover)
  PROVE  Len(Contents) = MaxSize /\ Contents' = Append(Tail(Contents), v)
<1> DEFINE S == Items \cup {NULL}
           a == Append(Tail(Contents), v)
<1>1. /\ getSize = MaxSize /\ getSize' = MaxSize /\ MaxSize \in Nat \ {0}
      /\ adder = remover /\ remover \in Slots /\ buf \in [Slots -> S]
      /\ buf' = [buf EXCEPT ![remover] = v]
  BY SizeAssumption DEF TypeOK, getSize, Add
<1>2. /\ Contents \in Seq(S) /\ Len(Contents) = MaxSize
      /\ \A k \in 1 .. MaxSize : Contents[k] = buf[Place(remover, k - 1)]
  BY <1>1, ContentsView DEF ContentsInPlace
<1>3. /\ Contents' \in Seq(S) /\ Len(Contents') = MaxSize
      /\ \A k \in 1 .. MaxSize : Contents'[k] = buf'[Place(Following(remover), k - 1)]
  BY <1>1, ContentsViewNext DEF ContentsInPlace, Place
<1>4. /\ Tail(Contents) \in Seq(S) /\ Len(Tail(Contents)) = MaxSize - 1
      /\ \A k \in 1 .. MaxSize - 1 : Tail(Contents)[k] = Contents[k + 1]
  <2>1. Contents # <<>>
    BY <1>1, <1>2, EmptySeq
  <2> QED
    BY <1>2, <2>1, HeadTailProperties
<1>5. /\ a \in Seq(S) /\ Len(a) = MaxSize
      /\ \A k \in 1 .. MaxSize - 1 : a[k] = Tail(Contents)[k]
      /\ a[MaxSize] = v
  BY <1>1, <1>4, AppendProperties
<1> HIDE DEF a, S
<1>6. ASSUME NEW k \in 1 .. MaxSize PROVE Contents'[k] = a[k]
  <2>1. CASE k = MaxSize
    <3>1. k - 1 \in 0 .. MaxSize - 1 /\ (k - 1) + 1 = MaxSize
      BY <1>1, <2>1
    <3>2. Place(Following(remover), k - 1) = remover
      BY <1>1, <3>1, PlaceFromFollowing
    <3> QED
      BY <1>1, <1>3, <1>5, <2>1, <3>2
  <2>2. CASE k # MaxSize
    <3>1. /\ k \in 1 .. MaxSize - 1 /\ k - 1 \in 0 .. MaxSize - 1 /\ (k - 1) + 1 = k
          /\ k < MaxSize /\ k \in 0 .. MaxSize - 1 /\ k + 1 \in 1 .. MaxSize /\ (k + 1) - 1 = k
          /\ 0 \in 0 .. MaxSize - 1 /\ k # 0
      BY <1>1, <2>2
    <3>2. Place(Following(remover), k - 1) = Place(remover, k)
      BY <1>1, <3>1, PlaceFromFollowing
    <3>3. Place(remover, 0) = remover
      BY <1>1, <3>1, PlaceIs DEF Slots
    <3>4. Place(remover, k) # remover /\ Place(remover, k) \in Slots
      BY <1>1, <3>1, <3>3, PlacesDiffer, PlaceIs
    <3>5. Contents'[k] = buf[Place(remover, k)]
      BY <1>1, <1>3, <3>2, <3>4
    <3> QED
      BY <1>2, <1>4, <1>5, <3>1, <3>5
  <2> QED
    BY <2>1, <2>2
<1>7. Contents' = a
  BY <1>3, <1>5, <1>6, SeqEqual
<1> QED
  BY <1>2, <1>7 DEF a

LEMMA PutUnconditionalPuts ==
  ASSUME TypeOK, TypeOK', NEW t \in Threads, NEW v \in Items, putUnconditional(t, v)
  PROVE  Queue!PutUnconditional(v)
<1>1. /\ Add(v) /\ remover' = (IF full THEN Following(remover) ELSE remover)
      /\ full' = (Following(adder) = remover')
  BY DEF putUnconditional
<1>2. Contents' = Append(IF Len(Contents) = MaxSize THEN Tail(Contents) ELSE Contents, v)
  <2>1. CASE full
    <3>1. full' /\ remover' = Following(remover)
      BY <1>1, <2>1 DEF TypeOK
    <3> QED
      BY <1>1, <2>1, <3>1, ReplaceDropsOldest
  <2>2. CASE ~full
    <3>1. Len(Contents) < MaxSize /\ Contents' = Append(Contents, v)
      BY <1>1, <2>2, AddAppends
    <3>2. Len(Contents) \in 0 .. MaxSize
      BY ContentsView, SizeIs DEF ContentsInPlace
    <3> QED
      BY <3>1, <3>2, SizeAssumption
  <2> QED
    BY <2>1, <2>2
<1>3. ended' = <<"putUnconditional", v>> /\ returned' = DONE
  BY ReturnedIs DEF putUnconditional
<1> QED
  BY <1>2, <1>3 DEF Queue!PutUnconditional, Queue!Enqueued, Contents

(* The oldest item lies at remover.                                        *)
LEMMA OldestItem ==
  ASSUME TypeOK, ~isEmpty
  PROVE  /\ Contents # <<>> /\ Head(Contents) = buf[remover]
         /\ Tail(Contents) \in Seq(Items \cup {NULL}) /\ Len(Tail(Contents)) = getSize - 1
         /\ \A k \in 1 .. getSize - 1 : Tail(Contents)[k] = buf[Place(remover, k)]
<1>1. /\ getSize \in 1 .. MaxSize /\ MaxSize \in Nat \ {0} /\ remover \in Slots
  BY SizeIs, SizeAssumption DEF TypeOK
<1>2. /\ Contents \in Seq(Items \cup {NULL}) /\ Len(Contents) = getSize
      /\ \A k \in 1 .. getSize : Contents[k] = buf[Place(remover, k - 1)]
  BY ContentsView DEF ContentsInPlace
<1>3. Contents # <<>>
  BY <1>1, <1>2, EmptySeq
<1>4. /\ Head(Contents) = Contents[1]
      /\ Tail(Contents) \in Seq(Items \cup {NULL}) /\ Len(Tail(Contents)) = getSize - 1
      /\ \A k \in 1 .. getSize - 1 : Tail(Contents)[k] = Contents[k + 1]
  BY <1>2, <1>3, HeadTailProperties
<1>5. Head(Contents) = buf[remover]
  <2>1. 1 \in 1 .. getSize /\ 1 - 1 = 0 /\ 0 \in 0 .. MaxSize - 1
    BY <1>1
  <2>2. Place(remover, 0) = remover
    BY <1>1, <2>1, PlaceIs DEF Slots
  <2> QED
    BY <1>2, <1>4, <2>1, <2>2
<1>6. ASSUME NEW k \in 1 .. getSize - 1 PROVE Tail(Contents)[k] = buf[Place(remover, k)]
  <2>1. k + 1 \in 1 .. getSize /\ (k + 1) - 1 = k
    BY <1>1
  <2> QED
    BY <1>2, <1>4, <2>1
<1> QED
  BY <1>3, <1>4, <1>5, <1>6

LEMMA GetGets ==
  ASSUME TypeOK, TypeOK', NEW t \in Threads, get(t)
  PROVE  Queue!Get
<1>1. /\ ~isEmpty /\ remover' = Following(remover) /\ full' = FALSE
      /\ buf' = buf /\ adder' = adder /\ ended' = <<"get", NULL>> /\ returned' = buf[remover]
  BY ReturnedIs DEF get, Predicate
<1>2. getSize' = getSize - 1
  BY <1>1, TakeShrinks
<1>3. /\ getSize \in 1 .. MaxSize /\ MaxSize \in Nat \ {0} /\ remover \in Slots
  BY <1>1, SizeIs, SizeAssumption DEF TypeOK
<1>4. /\ Contents # <<>> /\ Head(Contents) = buf[remover]
      /\ Tail(Contents) \in Seq(Items \cup {NULL}) /\ Len(Tail(Contents)) = getSize - 1
      /\ \A k \in 1 .. getSize - 1 : Tail(Contents)[k] = buf[Place(remover, k)]
  BY <1>1, OldestItem
<1>5. /\ Contents' \in Seq(Items \cup {NULL}) /\ Len(Contents') = getSize - 1
      /\ \A k \in 1 .. getSize - 1 : Contents'[k] = buf[Place(Following(remover), k - 1)]
  BY <1>1, <1>2, ContentsViewNext DEF ContentsInPlace, Place
<1>6. ASSUME NEW k \in 1 .. getSize - 1 PROVE Contents'[k] = Tail(Contents)[k]
  <2>1. k - 1 \in 0 .. MaxSize - 1 /\ (k - 1) + 1 = k /\ k < MaxSize
    BY <1>3
  <2>2. Place(Following(remover), k - 1) = Place(remover, k)
    BY <1>3, <2>1, PlaceFromFollowing
  <2> QED
    BY <1>4, <1>5, <2>2
<1>7. Contents' = Tail(Contents)
  BY <1>4, <1>5, <1>6, SeqEqual
<1> QED
  BY <1>1, <1>4, <1>7 DEF Queue!Get, Contents

LEMMA PeekPeeks ==
  ASSUME TypeOK, NEW t \in Threads, peek(t)
  PROVE  Queue!Peek
<1>1. ~isEmpty /\ ended' = <<"peek", NULL>> /\ returned' = buf[remover] /\ UNCHANGED ring
  BY ReturnedIs DEF peek, Predicate
<1>2. Contents # <<>> /\ Head(Contents) = buf[remover]
  BY <1>1, OldestItem
<1>3. Contents' = Contents
  BY <1>1 DEF ring, Contents, getSize
<1> QED
  BY <1>1, <1>2, <1>3 DEF Queue!Peek, Contents

LEMMA ResetResets ==
  ASSUME TypeOK', NEW t \in Threads, reset(t)
  PROVE  Queue!Reset
<1>1. getSize' = 0 /\ ended' = <<"reset", NULL>> /\ returned' = DONE
  BY ReturnedIs DEF reset, getSize
<1>2. Contents' = <<>>
  BY <1>1, ContentsViewNext, EmptySeq DEF ContentsInPlace
<1> QED
  BY <1>1, <1>2 DEF Queue!Reset, Contents

(* A put gives up only when the buffer is full.                            *)
LEMMA PutGivesUp ==
  ASSUME TypeOK, NEW t \in Threads, NEW v, GiveUp(t, "put", v)
  PROVE  Queue!PutGivesUp(v)
<1>1. full /\ ended' = <<"put", v>> /\ returned' = NULL /\ UNCHANGED ring
  BY ReturnedIs DEF GiveUp, Predicate
<1>2. Len(Contents) = MaxSize
  BY <1>1, SizeIs, ContentsView DEF ContentsInPlace
<1>3. Contents' = Contents
  BY <1>1 DEF ring, Contents, getSize
<1> QED
  BY <1>1, <1>2, <1>3 DEF Queue!PutGivesUp, Contents

(* A get and a peek give up only when it is empty.                         *)
LEMMA OthersGiveUp ==
  ASSUME TypeOK, NEW t \in Threads, NEW method \in {"get", "peek"}, GiveUp(t, method, NULL)
  PROVE  Queue!GivesUpWithoutItem(method)
<1>1. isEmpty /\ ended' = <<method, NULL>> /\ returned' = NULL /\ UNCHANGED ring
  BY ReturnedIs DEF GiveUp, Predicate
<1>2. Contents = <<>>
  BY <1>1, SizeIs, ContentsView, EmptySeq DEF ContentsInPlace
<1>3. Contents' = Contents
  BY <1>1 DEF ring, Contents, getSize
<1> QED
  BY <1>1, <1>2, <1>3 DEF Queue!GivesUpWithoutItem, Contents

LEMMA QuietStep ==
  ASSUME UNCHANGED <<ring, ended, returned>>
  PROVE  UNCHANGED <<Contents, ended, returned>>
  BY DEF ring, Contents, getSize

LEMMA StepRefines ==
  ASSUME TypeOK, TypeOK', [Next]_vars
  PROVE  Queue!Next \/ UNCHANGED <<Contents, ended, returned>>
<1>1. ASSUME NEW t \in Threads, NEW v \in Items,
             put(t, v) \/ putUnconditional(t, v) \/ GiveUp(t, "put", v)
      PROVE  Queue!Next
  BY <1>1, PutPuts, PutUnconditionalPuts, PutGivesUp DEF Queue!Next
<1>2. ASSUME NEW t \in Threads, get(t) \/ peek(t) \/ reset(t) PROVE Queue!Next
  BY <1>2, GetGets, PeekPeeks, ResetResets DEF Queue!Next
<1>3. ASSUME NEW t \in Threads, NEW method \in {"get", "peek"}, GiveUp(t, method, NULL)
      PROVE  Queue!Next
  BY <1>3, OthersGiveUp DEF Queue!Next
<1>4. ASSUME NEW t \in Threads, NEW method, NEW v,
             Wait(t, method, v) \/ Expire(t) \/ WakeSpuriously(t)
      PROVE  UNCHANGED <<Contents, ended, returned>>
  BY <1>4, QuietStep DEF Wait, Expire, WakeSpuriously
<1>5. CASE UNCHANGED vars
  <2>1. UNCHANGED <<ring, ended, returned>>
    BY <1>5 DEF vars, calls
  <2> QED
    BY <2>1, QuietStep
<1>6. ASSUME NEW t \in Threads, Step(t)
      PROVE  Queue!Next \/ UNCHANGED <<Contents, ended, returned>>
  BY <1>1, <1>2, <1>3, <1>4, <1>6 DEF Step, Block
<1> QED
  BY <1>4, <1>5, <1>6 DEF Next

(* The C++ ring buffer is a bounded queue (ring_buffer.h:113-222), for     *)
(* every size, every number of threads and every mix of methods: put never *)
(* overwrites, putUnconditional drops the oldest item and no other, both   *)
(* store their argument, get returns the oldest, a put gives up only at a  *)
(* moment when the buffer is full, and a get or a peek only when it is     *)
(* empty.                                                                  *)
THEOREM RingRefinesQueue == Spec => RefinesQueue
<1>1. Init => Queue!Init
  <2> SUFFICES ASSUME Init PROVE Queue!Init
    OBVIOUS
  <2>1. TypeOK
    BY InitIInv DEF IInv
  <2>2. getSize = 0
    BY DEF Init, getSize
  <2>3. Contents = <<>>
    BY <2>1, <2>2, ContentsView, EmptySeq DEF ContentsInPlace
  <2> QED
    BY <2>3 DEF Init, Queue!Init, Contents
<1>2. TypeOK /\ TypeOK' /\ [Next]_vars
        => [Queue!Next]_<<[k \in 1 .. getSize |-> buf[(remover + k - 1) % MaxSize]], ended, returned>>
  BY StepRefines DEF Contents
<1> QED
  BY <1>1, <1>2, TypeCorrect, PTL DEF Spec, RefinesQueue, Queue!Spec

-----------------------------------------------------------------------------
(* The demo.  What its steps do to a sequence of words in order.           *)

LEMMA ConcatPlaces ==
  ASSUME NEW S, NEW p \in Seq(S), NEW q \in Seq(S)
  PROVE  /\ p \o q \in Seq(S) /\ Len(p \o q) = Len(p) + Len(q)
         /\ DOMAIN (p \o q) = 1 .. Len(p) + Len(q)
         /\ Len(p) \in Nat /\ Len(q) \in Nat
         /\ \A k \in 1 .. Len(p) : (p \o q)[k] = p[k]
         /\ \A k \in 1 .. Len(q) : (p \o q)[Len(p) + k] = q[k]
<1>1. /\ p \o q \in Seq(S) /\ Len(p \o q) = Len(p) + Len(q)
      /\ Len(p) \in Nat /\ Len(q) \in Nat
  BY ConcatProperties, LenProperties
<1>2. DOMAIN (p \o q) = 1 .. Len(p) + Len(q)
  BY <1>1, LenProperties
<1>3. \A k \in 1 .. Len(p) + Len(q) :
        (p \o q)[k] = IF k <= Len(p) THEN p[k] ELSE q[k - Len(p)]
  BY ConcatProperties
<1>4. ASSUME NEW k \in 1 .. Len(p) PROVE (p \o q)[k] = p[k]
  BY <1>1, <1>3
<1>5. ASSUME NEW k \in 1 .. Len(q) PROVE (p \o q)[Len(p) + k] = q[k]
  <2>1. /\ Len(p) + k \in 1 .. Len(p) + Len(q) /\ ~(Len(p) + k <= Len(p))
        /\ (Len(p) + k) - Len(p) = k
    BY <1>1
  <2> QED
    BY <1>3, <2>1
<1> QED
  BY <1>1, <1>2, <1>4, <1>5

(* The next word goes to the end.                                          *)
LEMMA WordAdded ==
  ASSUME NEW S, NEW w \in Seq(S), NEW n \in Nat, ToSet(w) \subseteq 1 .. n,
         Increasing(w), n + 1 \in S
  PROVE  /\ Increasing(Append(w, n + 1))
         /\ ToSet(Append(w, n + 1)) = ToSet(w) \cup {n + 1}
<1> DEFINE a == Append(w, n + 1)
<1>1. /\ Len(w) \in Nat /\ DOMAIN w = 1 .. Len(w)
      /\ \A k \in 1 .. Len(w) : w[k] \in 1 .. n
  BY LenProperties DEF ToSet
<1>2. /\ DOMAIN a = 1 .. Len(w) + 1 /\ a[Len(w) + 1] = n + 1
      /\ \A k \in 1 .. Len(w) : a[k] = w[k]
  BY AppendProperties, LenProperties
<1> HIDE DEF a
<1>3. Increasing(a)
  <2> SUFFICES ASSUME NEW k \in 1 .. Len(w) + 1, NEW l \in 1 .. Len(w) + 1, k < l
               PROVE  a[k] < a[l]
    BY <1>2 DEF Increasing
  <2>1. k \in 1 .. Len(w) /\ (l \in 1 .. Len(w) \/ l = Len(w) + 1)
    BY <1>1
  <2>2. CASE l \in 1 .. Len(w)
    BY <1>1, <1>2, <2>1, <2>2 DEF Increasing
  <2>3. CASE l = Len(w) + 1
    BY <1>1, <1>2, <2>1, <2>3
  <2> QED
    BY <2>1, <2>2, <2>3
<1>4. ToSet(a) = ToSet(w) \cup {n + 1}
  <2>1. \A k \in 1 .. Len(w) + 1 : k \in 1 .. Len(w) \/ k = Len(w) + 1
    BY <1>1
  <2>2. Len(w) + 1 \in 1 .. Len(w) + 1 /\ 1 .. Len(w) \subseteq 1 .. Len(w) + 1
    BY <1>1
  <2> QED
    BY <1>1, <1>2, <2>1, <2>2 DEF ToSet
<1> QED
  BY <1>3, <1>4 DEF a

(* A word in the middle goes.                                              *)
LEMMA WordLost ==
  ASSUME NEW S, NEW p \in Seq(S), NEW q \in Seq(S), q # <<>>, NEW n \in Nat,
         ToSet(p \o q) \subseteq 1 .. n, Increasing(p \o q)
  PROVE  /\ Increasing(p \o Tail(q))
         /\ ToSet(p \o Tail(q)) = ToSet(p \o q) \ {Head(q)}
         /\ Head(q) \in ToSet(p \o q)
<1> DEFINE w == p \o q
           v == p \o Tail(q)
           old(k) == IF k <= Len(p) THEN k ELSE k + 1
<1>1. /\ w \in Seq(S) /\ Len(p) \in Nat /\ Len(q) \in Nat \ {0}
      /\ DOMAIN w = 1 .. Len(p) + Len(q)
      /\ \A k \in 1 .. Len(p) : w[k] = p[k]
      /\ \A k \in 1 .. Len(q) : w[Len(p) + k] = q[k]
  BY ConcatPlaces, EmptySeq
<1>2. /\ Tail(q) \in Seq(S) /\ Len(Tail(q)) = Len(q) - 1 /\ Head(q) = q[1]
      /\ \A k \in 1 .. Len(q) - 1 : Tail(q)[k] = q[k + 1]
  BY HeadTailProperties
<1>3. /\ DOMAIN v = 1 .. Len(p) + (Len(q) - 1)
      /\ \A k \in 1 .. Len(p) : v[k] = p[k]
      /\ \A k \in 1 .. Len(q) - 1 : v[Len(p) + k] = Tail(q)[k]
  BY <1>2, ConcatPlaces
<1>4. \A k \in DOMAIN w : w[k] \in 1 .. n
  BY DEF ToSet
<1> HIDE DEF w, v
<1>5. Head(q) = w[Len(p) + 1] /\ Len(p) + 1 \in DOMAIN w
  BY <1>1, <1>2
<1>6. ASSUME NEW k \in DOMAIN v
      PROVE  v[k] = w[old(k)] /\ old(k) \in DOMAIN w /\ old(k) # Len(p) + 1
  <2>1. CASE k <= Len(p)
    BY <1>1, <1>3, <2>1
  <2>2. CASE ~(k <= Len(p))
    <3>1. /\ k - Len(p) \in 1 .. Len(q) - 1 /\ Len(p) + (k - Len(p)) = k
          /\ (k - Len(p)) + 1 \in 1 .. Len(q) /\ Len(p) + ((k - Len(p)) + 1) = k + 1
      BY <1>1, <1>3, <2>2
    <3>2. v[k] = q[(k - Len(p)) + 1]
      BY <1>2, <1>3, <3>1
    <3>3. w[k + 1] = q[(k - Len(p)) + 1]
      BY <1>1, <3>1
    <3>4. old(k) = k + 1 /\ k + 1 \in DOMAIN w /\ k + 1 # Len(p) + 1
      BY <1>1, <1>3, <2>2
    <3> QED
      BY <3>2, <3>3, <3>4
  <2> QED
    BY <2>1, <2>2
<1>7. ASSUME NEW l \in DOMAIN w, l # Len(p) + 1 PROVE \E k \in DOMAIN v : old(k) = l
  <2>1. CASE l <= Len(p)
    BY <1>1, <1>3, <1>7, <2>1
  <2>2. CASE ~(l <= Len(p))
    <3>1. l - 1 \in DOMAIN v /\ ~(l - 1 <= Len(p)) /\ (l - 1) + 1 = l
      BY <1>1, <1>3, <1>7, <2>2
    <3> QED
      BY <3>1
  <2> QED
    BY <2>1, <2>2
<1>8. \A k, l \in DOMAIN v : k < l => old(k) < old(l)
  BY <1>1, <1>3
<1>9. \A k \in DOMAIN w : w[k] = w[Len(p) + 1] => k = Len(p) + 1
  <2> TAKE k \in DOMAIN w
  <2>1. k < Len(p) + 1 \/ k > Len(p) + 1 \/ k = Len(p) + 1
    BY <1>1
  <2>2. k < Len(p) + 1 => w[k] < w[Len(p) + 1]
    BY <1>5 DEF Increasing, w
  <2>3. k > Len(p) + 1 => w[Len(p) + 1] < w[k]
    BY <1>1, <1>5 DEF Increasing, w
  <2> QED
    BY <1>4, <1>5, <2>1, <2>2, <2>3
<1> HIDE DEF old
<1>10. Increasing(v)
  <2> SUFFICES ASSUME NEW k \in DOMAIN v, NEW l \in DOMAIN v, k < l PROVE v[k] < v[l]
    BY DEF Increasing
  <2>1. old(k) < old(l) /\ old(k) \in DOMAIN w /\ old(l) \in DOMAIN w
    BY <1>6, <1>8
  <2>2. w[old(k)] < w[old(l)]
    BY <2>1 DEF Increasing, w
  <2> QED
    BY <1>6, <2>2
<1>11. ToSet(v) = ToSet(w) \ {Head(q)}
  BY <1>5, <1>6, <1>7, <1>9 DEF ToSet
<1>12. Head(q) \in ToSet(w)
  BY <1>5 DEF ToSet
<1> QED
  BY <1>10, <1>11, <1>12 DEF v, w

(* A word that is taken stays in its place in the stream.                  *)
LEMMA WordTaken ==
  ASSUME NEW S, NEW p \in Seq(S), NEW q \in Seq(S), q # <<>>
  PROVE  /\ Append(p, Head(q)) \in Seq(S) /\ Len(Append(p, Head(q))) = Len(p) + 1
         /\ Append(p, Head(q)) \o Tail(q) = p \o q
<1>1. Head(q) \in S /\ Tail(q) \in Seq(S)
  BY HeadTailProperties
<1>2. <<Head(q)>> \in Seq(S) /\ <<Head(q)>> \o Tail(q) = q
  <2> DEFINE h == <<Head(q)>>
             t == Tail(q)
             r == h \o t
  <2>1. h \in Seq(S) /\ Len(h) = 1 /\ h[1] = Head(q)
    BY <1>1
  <2>2. /\ Len(q) \in Nat \ {0} /\ Len(t) = Len(q) - 1 /\ Head(q) = q[1]
        /\ \A k \in 1 .. Len(q) - 1 : t[k] = q[k + 1]
    BY HeadTailProperties, LenProperties, EmptySeq
  <2>0. t \in Seq(S)
    BY <1>1
  <2> HIDE DEF h, t
  <2>3. /\ r \in Seq(S) /\ Len(r) = Len(h) + Len(t)
        /\ \A k \in 1 .. Len(h) : r[k] = h[k]
        /\ \A k \in 1 .. Len(t) : r[Len(h) + k] = t[k]
    <3>1. h \in Seq(S)
      BY <2>1
    <3> QED
      BY <2>0, <3>1, ConcatPlaces
  <2> HIDE DEF r
  <2>4. Len(r) = Len(q)
    BY <2>1, <2>2, <2>3
  <2>5. ASSUME NEW k \in 1 .. Len(q) PROVE r[k] = q[k]
    <3>1. CASE k = 1
      BY <2>1, <2>2, <2>3, <3>1
    <3>2. CASE k # 1
      <4>1. k - 1 \in 1 .. Len(t) /\ (k - 1) + 1 = k /\ Len(h) + (k - 1) = k
        BY <2>1, <2>2, <3>2
      <4>2. r[k] = t[k - 1]
        BY <2>3, <4>1
      <4> QED
        BY <2>2, <4>1, <4>2
    <3> QED
      BY <3>1, <3>2
  <2>6. r = q
    BY <2>3, <2>4, <2>5, SeqEqual
  <2> QED
    BY <2>1, <2>6 DEF h, t, r
<1>3. Append(p, Head(q)) = p \o <<Head(q)>>
  BY <1>1, AppendIsConcat
<1>4. (p \o <<Head(q)>>) \o Tail(q) = p \o (<<Head(q)>> \o Tail(q))
  BY <1>1, <1>2, ConcatAssociative
<1>5. Append(p, Head(q)) \in Seq(S) /\ Len(Append(p, Head(q))) = Len(p) + 1
  BY <1>1, AppendProperties
<1> QED
  BY <1>2, <1>3, <1>4, <1>5

LEMMA AppendLast ==
  ASSUME NEW S, NEW p \in Seq(S), NEW q \in Seq(S), NEW v \in S
  PROVE  p \o Append(q, v) = Append(p \o q, v)
<1>1. <<v>> \in Seq(S) /\ p \o q \in Seq(S)
  BY ConcatProperties
<1>2. Append(q, v) = q \o <<v>> /\ Append(p \o q, v) = (p \o q) \o <<v>>
  BY <1>1, AppendIsConcat
<1> QED
  BY <1>1, <1>2, ConcatAssociative

(* An increasing sequence of exactly the first n numbers counts to n.      *)
LEMMA CountsUp ==
  ASSUME NEW S, NEW w \in Seq(S), NEW n \in Nat, ToSet(w) = 1 .. n, Increasing(w)
  PROVE  \A k \in 1 .. Len(w) : w[k] = k
<1>1. /\ Len(w) \in Nat /\ DOMAIN w = 1 .. Len(w)
      /\ \A k \in 1 .. Len(w) : w[k] \in 1 .. n
      /\ \A m \in 1 .. n : \E k \in 1 .. Len(w) : w[k] = m
      /\ \A k, l \in 1 .. Len(w) : k < l => w[k] < w[l]
  <2>1. Len(w) \in Nat /\ DOMAIN w = 1 .. Len(w)
    BY LenProperties
  <2> QED
    BY <2>1 DEF ToSet, Increasing
<1> DEFINE Wrong == {k \in 1 .. Len(w) : w[k] # k}
<1> SUFFICES ASSUME Wrong # {} PROVE FALSE
  OBVIOUS
<1>2. Wrong \in SUBSET Nat
  BY <1>1
<1>3. PICK k \in Wrong : \A l \in Wrong : k <= l
  <2> HIDE DEF Wrong
  <2> QED
    BY <1>2, LeastNumber
<1>4. \A l \in 1 .. Len(w) : l < k => w[l] = l
  BY <1>1, <1>3
<1>5. k \in 1 .. Len(w) /\ w[k] # k /\ w[k] \in 1 .. n
  BY <1>1, <1>3
<1>6. w[k] > k
  <2>1. CASE k = 1
    BY <1>5, <2>1
  <2>2. CASE k # 1
    <3>1. k - 1 \in 1 .. Len(w) /\ k - 1 < k
      BY <1>1, <1>5, <2>2
    <3>2. w[k - 1] = k - 1 /\ w[k - 1] < w[k]
      BY <1>1, <1>4, <1>5, <3>1
    <3> QED
      BY <1>5, <3>1, <3>2
  <2> QED
    BY <2>1, <2>2
<1>7. k \in 1 .. n
  BY <1>1, <1>5, <1>6
<1>8. PICK m \in 1 .. Len(w) : w[m] = k
  BY <1>1, <1>7
<1>9. m < k \/ m = k \/ k < m
  BY <1>1, <1>5
<1>10. ~(m < k)
  BY <1>1, <1>4, <1>5, <1>8
<1>11. k < m => w[k] < w[m]
  BY <1>1, <1>5, <1>8
<1> QED
  BY <1>1, <1>5, <1>6, <1>8, <1>9, <1>10, <1>11

-----------------------------------------------------------------------------
(* The steps of the demo.                                                  *)

(* What makes StreamIntact inductive: whatever went missing was a word     *)
(* already sent.  The last part is for a program that neither times out    *)
(* nor overwrites: no call gives up, so nothing goes missing and the       *)
(* consumer gets a word on every turn.                                     *)
Undisturbed == ~expiring /\ ~overwriting
DemoInv ==
  /\ IInv /\ sent \in 0 .. Length /\ turns \in Nat
  /\ received \in Seq(Items \cup {NULL}) /\ dropped \subseteq 1 .. sent
  /\ StreamIntact
  /\ Undisturbed => /\ dropped = {} /\ Len(received) = turns
                    /\ \A t \in Threads : phase[t] # "expired"

(* The demo only makes calls that any thread may make.                     *)
LEMMA DemoIsProgram ==
  ASSUME DemoInv, [DemoNext]_demoVars
  PROVE  [Next]_vars
<1>1. CASE Producer
  <2>1. sent + 1 \in Items /\ producer \in Threads
    BY <1>1, DemoAssumption DEF DemoInv, Producer
  <2>2. \/ put(producer, sent + 1) \/ Block(producer, "put", sent + 1)
        \/ putUnconditional(producer, sent + 1)
    BY <1>1 DEF Producer, Offer, Overwrite
  <2> QED
    BY <2>1, <2>2 DEF Next, Step
<1>2. CASE Consumer
  BY <1>2, DemoAssumption DEF Consumer, Next, Step
<1>3. CASE main \/ UNCHANGED demoVars
  BY <1>3 DEF main, demoVars
<1>4. ASSUME NEW t \in Threads, Elapse(t) PROVE Next
  BY <1>4 DEF Elapse, Next
<1> QED
  BY <1>1, <1>2, <1>3, <1>4 DEF DemoNext

(* When a call of t ends and what it has returned.                         *)
LEMMA ReturnEnds ==
  ASSUME NEW t \in Threads, NEW method, NEW v, NEW value, NEW notified,
         Return(t, method, v, value, notified)
  PROVE  Ended(t) /\ returned' = value /\ UNCHANGED program
  BY DEF Return, Ended

LEMMA WaitGoesOn ==
  ASSUME TypeOK, NEW t \in Threads, NEW method, NEW v, Wait(t, method, v)
  PROVE  ~Ended(t) /\ UNCHANGED <<ring, program>>
  BY DEF TypeOK, Wait, Ended

(* Without timeouts nobody is ever expired.                                *)
LEMMA NobodyExpires ==
  ASSUME TypeOK, [Next]_vars, ~expiring, \A t \in Threads : phase[t] # "expired"
  PROVE  ~expiring' /\ \A t \in Threads : phase'[t] # "expired"
<1>1. ASSUME NEW t \in Threads, NEW method, NEW v, NEW value, NEW notified,
             Return(t, method, v, value, notified)
      PROVE  ~expiring' /\ \A s \in Threads : phase'[s] # "expired"
  BY <1>1 DEF Return, program
<1>2. ASSUME NEW t \in Threads, NEW method, NEW v, Block(t, method, v)
      PROVE  ~expiring' /\ \A s \in Threads : phase'[s] # "expired"
  BY <1>1, <1>2 DEF Block, Wait, GiveUp, program, TypeOK
<1>3. ASSUME NEW t \in Threads, Step(t)
      PROVE  ~expiring' /\ \A s \in Threads : phase'[s] # "expired"
  BY <1>1, <1>2, <1>3 DEF Step, put, putUnconditional, get, peek, reset
<1>4. ASSUME NEW t \in Threads, Expire(t) \/ WakeSpuriously(t)
      PROVE  ~expiring' /\ \A s \in Threads : phase'[s] # "expired"
  BY <1>4 DEF Expire, WakeSpuriously, program, TypeOK
<1>5. CASE UNCHANGED vars
  BY <1>5 DEF vars, calls, program
<1> QED
  BY <1>3, <1>4, <1>5 DEF Next

(* The words the consumer has got and those that still lie in the buffer.  *)
Words == received \o Contents

LEMMA IntactIs ==
  StreamIntact <=> Increasing(Words) /\ ToSet(Words) = (1 .. sent) \ dropped
  BY DEF StreamIntact, Words, Contents

LEMMA IntactIsNext ==
  StreamIntact' <=> Increasing(Words') /\ ToSet(Words') = (1 .. sent') \ dropped'
  BY DEF StreamIntact, Words, Contents

LEMMA ContentsSeq == TypeOK => Contents \in Seq(Items \cup {NULL})
  BY ContentsView DEF ContentsInPlace

(* What the producer's calls do to the contents.                           *)
LEMMA ProducerContents ==
  ASSUME DemoInv, TypeOK', Producer
  PROVE  \/ /\ Contents' = Append(Contents, sent + 1)
            /\ sent' = sent + 1 /\ dropped' = dropped
         \/ /\ Contents # <<>> /\ Contents' = Append(Tail(Contents), sent + 1)
            /\ sent' = sent + 1 /\ dropped' = dropped \cup {Head(Contents)} /\ overwriting
         \/ /\ Contents' = Contents
            /\ sent' = sent + 1 /\ dropped' = dropped \cup {sent + 1}
            /\ phase[producer] = "expired"
         \/ /\ Contents' = Contents
            /\ sent' = sent /\ dropped' = dropped
<1>1. /\ TypeOK /\ producer \in Threads /\ sent + 1 \in Items
      /\ DONE # NULL /\ MaxSize \in Nat \ {0}
  BY DemoAssumption, ItemsAssumption, SizeAssumption DEF DemoInv, IInv, Producer
<1>2. CASE Offer
  <2>1. CASE put(producer, sent + 1)
    <3>1. Contents' = Append(Contents, sent + 1)
      BY <1>1, <2>1, AddAppends DEF put, Predicate
    <3>2. Ended(producer) /\ returned' = DONE
      BY <1>1, <2>1, ReturnEnds DEF put
    <3> QED
      BY <1>1, <1>2, <3>1, <3>2 DEF Offer, Producer
  <2>2. CASE Wait(producer, "put", sent + 1)
    <3>1. ~Ended(producer) /\ Contents' = Contents
      BY <1>1, <2>2, WaitGoesOn DEF ring, Contents, getSize
    <3> QED
      BY <1>2, <3>1 DEF Offer, Producer
  <2>3. CASE GiveUp(producer, "put", sent + 1)
    <3>1. Ended(producer) /\ returned' = NULL /\ phase[producer] = "expired"
      BY <1>1, <2>3, ReturnEnds DEF GiveUp
    <3>2. Contents' = Contents
      BY <2>3 DEF GiveUp, ring, Contents, getSize
    <3> QED
      BY <1>2, <3>1, <3>2 DEF Offer, Producer
  <2> QED
    BY <1>2, <2>1, <2>2, <2>3 DEF Offer, Block
<1>3. CASE Overwrite
  <2>1. /\ Add(sent + 1) /\ remover' = (IF full THEN Following(remover) ELSE remover)
        /\ full' = (Following(adder) = remover') /\ overwriting
    BY <1>3 DEF Overwrite, putUnconditional
  <2>2. Ended(producer)
    BY <1>1, <1>3, ReturnEnds DEF Overwrite, putUnconditional
  <2>3. CASE full
    <3>1. full' /\ remover' = Following(remover)
      BY <1>1, <2>1, <2>3 DEF TypeOK
    <3>2. Contents' = Append(Tail(Contents), sent + 1)
      BY <1>1, <2>1, <2>3, <3>1, ReplaceDropsOldest
    <3>3. ~isEmpty
      BY <2>3 DEF isEmpty
    <3>4. Contents # <<>> /\ Head(Contents) = buf[remover]
      BY <1>1, <3>3, OldestItem
    <3> QED
      BY <1>3, <2>1, <2>2, <2>3, <3>2, <3>4 DEF Overwrite, Producer
  <2>4. CASE ~full
    <3>1. Contents' = Append(Contents, sent + 1)
      BY <1>1, <2>1, <2>4, AddAppends
    <3> QED
      BY <1>3, <2>2, <2>4, <3>1 DEF Overwrite, Producer
  <2> QED
    BY <2>3, <2>4
<1> QED
  BY <1>2, <1>3 DEF Producer

(* A turn of the consumer.                                                 *)
LEMMA ConsumerContents ==
  ASSUME DemoInv, TypeOK', Consumer
  PROVE  /\ UNCHANGED <<overwriting, sent, dropped>>
         /\ \/ /\ Contents # <<>> /\ Contents' = Tail(Contents)
               /\ turns' = turns + 1
               /\ Head(Contents) # NULL => received' = Append(received, Head(Contents))
            \/ /\ Contents' = Contents /\ turns' = turns + 1 /\ received' = received
               /\ phase[consumer] = "expired"
            \/ /\ Contents' = Contents /\ turns' = turns /\ received' = received
<1>1. TypeOK /\ consumer \in Threads
  BY DemoAssumption DEF DemoInv, IInv
<1>2. UNCHANGED <<overwriting, sent, dropped>>
  BY DEF Consumer
<1>3. CASE get(consumer)
  <2>1. /\ Contents # <<>> /\ Contents' = Tail(Contents) /\ returned' = Head(Contents)
    BY <1>1, <1>3, GetGets DEF Queue!Get, Contents
  <2>2. Ended(consumer)
    BY <1>1, <1>3, ReturnEnds DEF get
  <2> QED
    BY <1>2, <2>1, <2>2 DEF Consumer
<1>4. CASE Wait(consumer, "get", NULL)
  <2>1. ~Ended(consumer) /\ Contents' = Contents
    BY <1>1, <1>4, WaitGoesOn DEF ring, Contents, getSize
  <2> QED
    BY <1>2, <2>1 DEF Consumer
<1>5. CASE GiveUp(consumer, "get", NULL)
  <2>1. Ended(consumer) /\ returned' = NULL /\ phase[consumer] = "expired"
    BY <1>1, <1>5, ReturnEnds DEF GiveUp
  <2>2. Contents' = Contents
    BY <1>5 DEF GiveUp, ring, Contents, getSize
  <2> QED
    BY <1>2, <2>1, <2>2 DEF Consumer
<1> QED
  BY <1>3, <1>4, <1>5 DEF Consumer, Block

LEMMA ProducerKeepsIntact ==
  ASSUME DemoInv, TypeOK', Producer
  PROVE  StreamIntact' /\ dropped' \subseteq 1 .. sent' /\ sent' \in 0 .. Length
<1> DEFINE S == Items \cup {NULL}
<1>1. /\ sent \in Nat /\ sent < Length /\ Length \in Nat /\ sent + 1 \in S
      /\ Contents \in Seq(S) /\ received \in Seq(S) /\ received' = received
      /\ dropped \subseteq 1 .. sent
  BY DemoAssumption, ContentsSeq DEF DemoInv, IInv, Producer
<1>2. Increasing(Words) /\ ToSet(Words) = (1 .. sent) \ dropped /\ Words \in Seq(S)
  BY <1>1, IntactIs, ConcatProperties DEF DemoInv, Words
<1>3. 1 .. sent + 1 = (1 .. sent) \cup {sent + 1} /\ sent + 1 \notin 1 .. sent
  BY <1>1
<1> HIDE DEF S
<1>4. CASE /\ Contents' = Append(Contents, sent + 1)
           /\ sent' = sent + 1 /\ dropped' = dropped
  <2>1. Words' = Append(Words, sent + 1)
    BY <1>1, <1>4, AppendLast DEF Words
  <2>2. ToSet(Words) \subseteq 1 .. sent
    BY <1>2
  <2>3. Increasing(Words') /\ ToSet(Words') = ToSet(Words) \cup {sent + 1}
    BY <1>1, <1>2, <2>1, <2>2, WordAdded
  <2>4. ToSet(Words') = (1 .. sent') \ dropped'
    BY <1>1, <1>2, <1>3, <1>4, <2>3
  <2> QED
    BY <1>1, <1>3, <1>4, <2>3, <2>4, IntactIsNext
<1>5. CASE /\ Contents # <<>> /\ Contents' = Append(Tail(Contents), sent + 1)
           /\ sent' = sent + 1 /\ dropped' = dropped \cup {Head(Contents)}
  <2> DEFINE less == received \o Tail(Contents)
  <2>1. Tail(Contents) \in Seq(S)
    BY <1>1, <1>5, HeadTailProperties
  <2>2. Words' = Append(less, sent + 1) /\ less \in Seq(S)
    BY <1>1, <1>5, <2>1, AppendLast, ConcatProperties DEF Words
  <2>3. received \o Contents = Words /\ ToSet(Words) \subseteq 1 .. sent
    BY <1>2 DEF Words
  <2>4. /\ Increasing(less) /\ ToSet(less) = ToSet(Words) \ {Head(Contents)}
        /\ Head(Contents) \in ToSet(Words)
    BY <1>1, <1>2, <1>5, <2>3, WordLost
  <2> HIDE DEF less
  <2>5. ToSet(less) \subseteq 1 .. sent
    BY <2>3, <2>4
  <2>6. Increasing(Words') /\ ToSet(Words') = ToSet(less) \cup {sent + 1}
    BY <1>1, <2>2, <2>4, <2>5, WordAdded
  <2>7. Head(Contents) \in 1 .. sent
    BY <2>3, <2>4
  <2>8. ToSet(Words') = (1 .. sent') \ dropped' /\ dropped' \subseteq 1 .. sent'
    BY <1>1, <1>2, <1>3, <1>5, <2>4, <2>6, <2>7
  <2> QED
    BY <1>1, <1>5, <2>6, <2>8, IntactIsNext
<1>6. CASE /\ Contents' = Contents
           /\ sent' = sent + 1 /\ dropped' = dropped \cup {sent + 1}
  <2>1. Words' = Words
    BY <1>1, <1>6 DEF Words
  <2>2. ToSet(Words') = (1 .. sent') \ dropped' /\ dropped' \subseteq 1 .. sent'
    BY <1>1, <1>2, <1>3, <1>6, <2>1
  <2> QED
    BY <1>1, <1>2, <1>6, <2>1, <2>2, IntactIsNext
<1>7. CASE Contents' = Contents /\ sent' = sent /\ dropped' = dropped
  <2>1. Words' = Words
    BY <1>1, <1>7 DEF Words
  <2> QED
    BY <1>1, <1>2, <1>7, <2>1, IntactIsNext
<1> QED
  BY <1>4, <1>5, <1>6, <1>7, ProducerContents

LEMMA ConsumerKeepsIntact ==
  ASSUME DemoInv, TypeOK', Consumer
  PROVE  StreamIntact' /\ received' \in Seq(Items \cup {NULL})
<1> DEFINE S == Items \cup {NULL}
<1>1. /\ sent \in Nat /\ Contents \in Seq(S) /\ received \in Seq(S)
      /\ UNCHANGED <<sent, dropped>> /\ sent <= Length
  BY DemoAssumption, ContentsSeq, ConsumerContents DEF DemoInv, IInv
<1>2. Increasing(Words) /\ ToSet(Words) = (1 .. sent) \ dropped
  BY IntactIs DEF DemoInv
<1>3. ASSUME Words' = Words PROVE StreamIntact'
  BY <1>1, <1>2, <1>3, IntactIsNext
<1>4. CASE Contents' = Contents /\ received' = received
  BY <1>1, <1>3, <1>4 DEF Words
<1>5. CASE /\ Contents # <<>> /\ Contents' = Tail(Contents)
           /\ Head(Contents) # NULL => received' = Append(received, Head(Contents))
  <2>1. Head(Contents) \in ToSet(Words)
    <3>1. received \o Contents = Words /\ ToSet(Words) \subseteq 1 .. sent
      BY <1>2 DEF Words
    <3> HIDE DEF S
    <3> QED
      BY <1>1, <1>2, <1>5, <3>1, WordLost
  <2>2. Head(Contents) \in Items /\ Head(Contents) # NULL
    BY <1>1, <1>2, <2>1, DemoAssumption, ItemsAssumption
  <2>3. received' = Append(received, Head(Contents))
    BY <1>5, <2>2
  <2> HIDE DEF S
  <2>4. received' \in Seq(S) /\ received' \o Tail(Contents) = received \o Contents
    BY <1>1, <1>5, <2>3, WordTaken
  <2>5. Words' = Words
    BY <1>5, <2>4 DEF Words
  <2> QED
    BY <1>3, <2>4, <2>5 DEF S
<1> QED
  BY <1>1, <1>4, <1>5, ConsumerContents

(* What an undisturbed step does to the account of the turns.              *)
LEMMA TurnsKept ==
  ASSUME DemoInv, TypeOK', [DemoNext]_demoVars, Undisturbed'
  PROVE  /\ dropped' = {} /\ Len(received') = turns'
         /\ \A t \in Threads : phase'[t] # "expired"
<1>1. Undisturbed
  <2>1. UNCHANGED overwriting
    BY DEF DemoNext, Producer, Consumer, main, Elapse, demoVars
  <2>2. UNCHANGED expiring
    <3>1. ASSUME NEW t \in Threads, Step(t) PROVE UNCHANGED program
      BY <3>1 DEF Step, put, putUnconditional, get, peek, reset, Block, Wait, GiveUp, Return
    <3>2. [Next]_vars
      BY DemoIsProgram
    <3> QED
      BY <3>1, <3>2 DEF Next, Expire, WakeSpuriously, vars, program
  <2> QED
    BY <2>1, <2>2 DEF Undisturbed
<1>2. /\ TypeOK /\ dropped = {} /\ Len(received) = turns
      /\ \A t \in Threads : phase[t] # "expired"
  BY <1>1 DEF DemoInv, IInv
<1>3. \A t \in Threads : phase'[t] # "expired"
  BY <1>1, <1>2, DemoIsProgram, NobodyExpires DEF Undisturbed
<1>4. CASE Producer
  BY <1>1, <1>2, <1>3, <1>4, ProducerContents, DemoAssumption DEF Producer, Undisturbed
<1>5. CASE Consumer
  <2>1. CASE received' = received /\ turns' = turns
    BY <1>2, <1>3, <1>5, <2>1, ConsumerContents
  <2>2. CASE ~(received' = received /\ turns' = turns)
    <3>1. phase[consumer] # "expired"
      BY <1>2, DemoAssumption
    <3>2. /\ Contents # <<>> /\ turns' = turns + 1 /\ UNCHANGED dropped
          /\ Head(Contents) # NULL => received' = Append(received, Head(Contents))
      BY <1>5, <2>2, <3>1, ConsumerContents
    <3>3. Contents \in Seq(Items \cup {NULL}) /\ received \in Seq(Items \cup {NULL})
      BY <1>2, ContentsSeq DEF DemoInv
    <3>4. Head(Contents) # NULL
      <4>1. received \o Contents = Words /\ ToSet(Words) = (1 .. sent) \ dropped
        BY IntactIs DEF DemoInv, Words
      <4>2. Increasing(Words) /\ sent \in Nat /\ sent <= Length
        BY IntactIs, DemoAssumption DEF DemoInv
      <4>3. ToSet(Words) \subseteq 1 .. sent
        BY <4>1
      <4>4. Head(Contents) \in ToSet(Words)
        BY <3>2, <3>3, <4>1, <4>2, <4>3, WordLost
      <4> QED
        BY <4>2, <4>3, <4>4, DemoAssumption, ItemsAssumption
    <3>5. Len(received') = turns'
      BY <1>2, <3>2, <3>3, <3>4, WordTaken
    <3> QED
      BY <1>2, <1>3, <3>2, <3>5
  <2> QED
    BY <2>1, <2>2
<1>6. CASE UNCHANGED <<turns, received, dropped>>
  BY <1>2, <1>3, <1>6
<1> QED
  BY <1>4, <1>5, <1>6 DEF DemoNext, main, Elapse, demoVars

LEMMA DemoStep == DemoInv /\ [DemoNext]_demoVars => DemoInv'
<1> SUFFICES ASSUME DemoInv, [DemoNext]_demoVars PROVE DemoInv'
  OBVIOUS
<1>1. IInv' /\ TypeOK'
  BY DemoIsProgram, NextIInv DEF DemoInv, IInv
<1>2. Undisturbed' => /\ dropped' = {} /\ Len(received') = turns'
                     /\ \A t \in Threads : phase'[t] # "expired"
  BY <1>1, TurnsKept
<1>3. /\ StreamIntact' /\ dropped' \subseteq 1 .. sent' /\ sent' \in 0 .. Length
      /\ received' \in Seq(Items \cup {NULL}) /\ turns' \in Nat
  <2>1. CASE Producer
    BY <1>1, <2>1, ProducerKeepsIntact DEF Producer, DemoInv
  <2>2. CASE Consumer
    <3>1. UNCHANGED <<sent, dropped>> /\ turns' \in {turns, turns + 1}
      BY <1>1, <2>2, ConsumerContents
    <3>2. turns' \in Nat /\ sent' \in 0 .. Length /\ dropped' \subseteq 1 .. sent'
      BY <3>1 DEF DemoInv
    <3> QED
      BY <1>1, <2>2, <3>2, ConsumerKeepsIntact
  <2>3. CASE UNCHANGED <<ring, sent, turns, received, dropped>>
    <3>1. Words' = Words
      BY <2>3 DEF ring, Words, Contents, getSize
    <3> QED
      BY <2>3, <3>1, IntactIs, IntactIsNext DEF DemoInv
  <2>4. CASE ~(Producer \/ Consumer)
    <3>1. UNCHANGED <<ring, sent, turns, received, dropped>>
      BY <2>4 DEF DemoNext, main, Elapse, Expire, WakeSpuriously, demoVars, vars
    <3> QED
      BY <2>3, <3>1
  <2> QED
    BY <2>1, <2>2, <2>4
<1> QED
  BY <1>1, <1>2, <1>3 DEF DemoInv

LEMMA DemoStart == DemoInit => DemoInv
<1> SUFFICES ASSUME DemoInit PROVE DemoInv
  OBVIOUS
<1>1. IInv /\ received = <<>> /\ sent = 0 /\ turns = 0 /\ dropped = {}
  BY InitIInv DEF DemoInit
<1>2. Contents = <<>>
  <2>1. getSize = 0
    BY DEF DemoInit, Init, getSize
  <2> QED
    BY <1>1, <2>1, ContentsView, EmptySeq DEF ContentsInPlace, IInv
<1>3. Words = <<>>
  BY <1>1, <1>2 DEF Words
<1>4. StreamIntact
  BY <1>1, <1>3, IntactIs DEF Increasing, ToSet
<1>5. \A t \in Threads : phase[t] # "expired"
  BY DEF DemoInit, Init
<1> QED
  BY <1>1, <1>4, <1>5, DemoAssumption DEF DemoInv

LEMMA DemoInvariance == DemoSpec => []DemoInv
  BY DemoStart, DemoStep, PTL DEF DemoSpec

(* Whatever times out and whatever is overwritten, the consumer of the     *)
(* demo gets the words in order and each at most once, and a word goes     *)
(* missing only if its put gave up or it was the oldest in a full buffer.  *)
THEOREM WordsIntact == DemoSpec => []StreamIntact
  BY DemoInvariance, PTL DEF DemoInv

(* When nothing times out and nothing is overwritten, the words received   *)
(* are the first words of the message, one for every turn: with turns at   *)
(* message.size() the whole of it, as the demo is meant to print it.       *)
MessageSoFar == Undisturbed => received = [k \in 1 .. turns |-> k]

THEOREM MessageInOrder == DemoSpec => []MessageSoFar
<1>1. ASSUME DemoInv PROVE MessageSoFar
  <2> SUFFICES ASSUME Undisturbed PROVE received = [k \in 1 .. turns |-> k]
    BY DEF MessageSoFar
  <2>1. /\ TypeOK /\ sent \in Nat /\ dropped = {} /\ Len(received) = turns
        /\ received \in Seq(Items \cup {NULL})
    BY <1>1, DemoAssumption DEF DemoInv, IInv
  <2>2. Contents \in Seq(Items \cup {NULL})
    BY <2>1, ContentsSeq
  <2>3. /\ Words \in Seq(Items \cup {NULL}) /\ Len(received) <= Len(Words)
        /\ \A k \in 1 .. Len(received) : Words[k] = received[k] /\ k \in 1 .. Len(Words)
    BY <2>1, <2>2, ConcatPlaces DEF Words
  <2>4. Increasing(Words) /\ ToSet(Words) = 1 .. sent
    BY <1>1, <2>1, IntactIs DEF DemoInv
  <2>5. \A k \in 1 .. Len(Words) : Words[k] = k
    BY <2>1, <2>3, <2>4, CountsUp
  <2>6. \A k \in 1 .. Len(received) : received[k] = k
    BY <2>3, <2>5
  <2>7. received = [k \in 1 .. Len(received) |-> received[k]]
    BY <2>1, LenProperties
  <2> QED
    BY <2>1, <2>6, <2>7
<1> QED
  BY <1>1, DemoInvariance, PTL
=============================================================================
