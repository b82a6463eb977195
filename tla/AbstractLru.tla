----------------------------- MODULE AbstractLru -----------------------------
(***************************************************************************)
(* What an LRU cache promises: the keys in the order of their last use, at *)
(* most Capacity of them, and the value last put under each.  The caller's *)
(* side of a call is visible: a get is about the key that was asked for,   *)
(* and a put stores the value that was passed.                             *)
(***************************************************************************)
EXTENDS LruOrder

CONSTANTS Keys, Values, Capacity, NULL

VARIABLES order,   \* the cached keys, last used first
          stored,  \* stored[key]: the value of a cached key
          call,    \* the last call: its name, key and value
          result   \* what it returned: NULL unless it was a get that hit

vars == <<order, stored, call, result>>

Init == order = <<>> /\ stored = <<>> /\ call = <<"create">> /\ result = NULL

Get(key) ==
  /\ call' = <<"get", key>>
  /\ \/ /\ Contains(order, key)
        /\ order' = Touched(order, key)
        /\ result' = stored[key]
        /\ UNCHANGED stored
     \/ /\ ~Contains(order, key)
        /\ result' = NULL
        /\ UNCHANGED <<order, stored>>

Put(key, value) ==
  /\ call' = <<"put", key, value>>
  /\ order' = IF Contains(order, key) THEN Touched(order, key)
                                      ELSE Inserted(order, Capacity, key)
  /\ stored' = [k \in ToSet(order') |-> IF k = key THEN value ELSE stored[k]]
  /\ result' = NULL

Clear == order' = <<>> /\ stored' = <<>> /\ call' = <<"free">> /\ result' = NULL

Next ==
  \/ Clear
  \/ \E key \in Keys : Get(key) \/ \E value \in Values \cup {NULL} : Put(key, value)

Spec == Init /\ [][Next]_vars
=============================================================================
