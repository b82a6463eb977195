------------------------------ MODULE LruOrder ------------------------------
(***************************************************************************)
(* What the calls on the LRU cache do to the recency order of its keys, a  *)
(* sequence with the most recently used key first; and how the linked list *)
(* that both caches keep it in is read.                                    *)
(***************************************************************************)
EXTENDS SequencesExt

(* move_to_front of a key that is cached.                                  *)
Touched(order, key) ==
  <<key>> \o RemoveAt(order, CHOOSE k \in DOMAIN order : order[k] = key)

(* lru_cache_put of a key that is not cached: at capacity the tail goes.   *)
InsertedThenEvicted(order, capacity, key) ==
  IF Len(order) = capacity THEN order ELSE <<key>> \o order
Inserted(order, capacity, key) ==
  <<key>> \o IF Len(order) = capacity THEN Front(order) ELSE order

(* The addresses met from `from' along the links, until one has no link:   *)
(* what a loop over a linked list visits, and the address it stops at.     *)
Follow(from, links, steps) ==
  LET path[k \in Nat] ==
        IF k = 0 THEN <<from>>
        ELSE LET before == path[k - 1]
             IN IF Last(before) \in DOMAIN links
                THEN Append(before, links[Last(before)]) ELSE before
  IN path[steps]
=============================================================================
