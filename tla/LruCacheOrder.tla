---------------------------- MODULE LruCacheOrder ----------------------------
(***************************************************************************)
(* The C LRU cache implements AbstractLru.  What the abstract cache calls  *)
(* order and stored is read off the list; the history variable `view'      *)
(* holds it, so that it is computed once for every state.                  *)
(***************************************************************************)
EXTENDS LruCache

VARIABLE view

View(c) ==
  LET list == Forward(c)
      keys == [k \in DOMAIN list |-> c.nodes[list[k]].key]
  IN [order  |-> keys,
      stored |-> [key \in ToSet(keys) |->
                    c.nodes[list[SelectInSeq(keys, LAMBDA k : k = key)]].value]]

ViewInit == Init /\ view = View(cache)
ViewNext == Next /\ view' = View(cache')
ViewSpec == ViewInit /\ [][ViewNext]_<<vars, view>>

(* A get finds the value that was put last under its key, a put stores the *)
(* value it was called with, and what it evicts is the key that was not    *)
(* used for longest.                                                       *)
Lru == INSTANCE AbstractLru WITH
  Values <- Heap \cup NotHeap,
  order <- view.order,
  stored <- view.stored
RefinesLru == Lru!Spec

(* The heap blocks are alike.                                              *)
Symmetry == Permutations(Heap)
=============================================================================
