------------------------------ MODULE FifoQueue ------------------------------
(***************************************************************************)
(* What one call on the C ring buffer does to its contents, seen as a      *)
(* sequence of pointers with the oldest at position 1.  RingBuffer.tla     *)
(* shows that the array implementation does exactly this; CameraPipeline   *)
(* uses these operators for its two queues.                                *)
(***************************************************************************)
EXTENDS SequencesExt

(* write_to_buffer on a full queue erases the oldest pointer to make room. *)
Enqueued(q, capacity, v) ==
  Append(IF Len(q) = capacity THEN Tail(q) ELSE q, v)

(* The pointer write_to_buffer hands back to its caller, `none' if no slot *)
(* had to be erased.                                                       *)
Ejected(q, capacity, none) ==
  IF Len(q) = capacity THEN Head(q) ELSE none

(* The place get_stale_recycled takes its pointer from: the first one the  *)
(* callback accepts, 0 if it accepts none.                                 *)
FirstSafe(q, safe) == SelectInSeq(q, LAMBDA p : p \in safe)

(* Pointers are in the hands of one thread at a time.                      *)
Disjoint(held) == \A s, t \in DOMAIN held : s # t => held[s] \cap held[t] = {}
=============================================================================
