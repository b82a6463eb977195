---------------------------- MODULE AlignedMalloc ----------------------------
(***************************************************************************)
(* The aligned allocator (modules/aligned_malloc/aligned_malloc.c).  It    *)
(* asks malloc for more than it was asked for, hands out the first aligned *)
(* address behind a hidden word, and keeps malloc's pointer in that word   *)
(* for free_aligned.  Numbers are unsigned and wrap at Modulus; the null   *)
(* pointer is 0.  malloc is external: it returns any free place that is    *)
(* aligned for a pointer.  That it may fail is modelled in CameraLifecycle.*)
(***************************************************************************)
EXTENDS Integers, Functions, FiniteSets

CONSTANTS
  Modulus,     \* 2^64 in the code
  PTR,         \* sizeof(void*)
  Sizes,       \* the sizes that are asked for
  Alignments,  \* the alignments that are asked for
  Powers,      \* the powers of two below Modulus
  MaxLive      \* a bound: how many regions are in use at once

ASSUME ModulusAssumption == Modulus \in Nat \ {0}
ASSUME PointerAssumption == PTR \in Powers
ASSUME PowersAssumption == Powers \subseteq 1 .. Modulus - 1
ASSUME RequestsAssumption ==
  Sizes \subseteq 0 .. Modulus - 1 /\ Alignments \subseteq 0 .. Modulus - 1

VARIABLES
  blocks,    \* blocks[raw]: the size of the block malloc has placed at raw
  words,     \* words[a]: the pointer stored in the word at a
  users,     \* the regions handed out and not given back
  misfreed   \* TRUE once free is called with no pointer of malloc's

vars == <<blocks, words, users, misfreed>>

Init == blocks = <<>> /\ words = <<>> /\ users = {} /\ misfreed = FALSE

-----------------------------------------------------------------------------
(* x & ~(a - 1), for a power of two.                                       *)
RoundDown(x, a) == x - (x % a)

total_sizeNoHeader(size, alignment) == (size + alignment) % Modulus
total_size(size, alignment) == (size + alignment + PTR) % Modulus
raw_addrNoHeader(raw) == raw
raw_addr(raw) == (raw + PTR) % Modulus
aligned_addr(raw, alignment) ==
  RoundDown((raw_addr(raw) + alignment - 1) % Modulus, alignment)

Span(from, length) == from .. from + length - 1
Overlap(S, T) == S \cap T # {}

(* What malloc may return for a block of some size.                        *)
Places(size) ==
  {raw \in PTR .. Modulus - 1 :
     /\ raw + size <= Modulus /\ raw % PTR = 0 /\ raw \notin DOMAIN blocks
     /\ \A other \in DOMAIN blocks : ~Overlap(Span(raw, size), Span(other, blocks[other]))}

(* Storing in memory destroys the words it overlaps.                       *)
Untouched(from, length) ==
  {at \in DOMAIN words : ~Overlap(Span(at, PTR), Span(from, length))}

Region(raw, size, alignment) ==
  [ptr |-> aligned_addr(raw, alignment), size |-> size, alignment |-> alignment, raw |-> raw]

aligned_malloc(size, alignment) ==
  /\ alignment \in Powers
  /\ Cardinality(users) < MaxLive
  /\ \E raw \in Places(total_size(size, alignment)) :
       LET user == Region(raw, size, alignment)
           stored_ptr == user.ptr - PTR
       IN /\ blocks' = [r \in DOMAIN blocks \cup {raw} |->
                          IF r = raw THEN total_size(size, alignment) ELSE blocks[r]]
          /\ words' = [at \in Untouched(stored_ptr, PTR) \cup {stored_ptr} |->
                         IF at = stored_ptr THEN raw ELSE words[at]]
          /\ users' = users \cup {user}
  /\ UNCHANGED misfreed

(* The caller fills its region, as simulate_sensor_capture does.           *)
Fill(user) ==
  /\ words' = Restrict(words, Untouched(user.ptr, user.size))
  /\ UNCHANGED <<blocks, users, misfreed>>

(* A word that was destroyed holds no pointer of malloc's.                 *)
free_aligned(user) ==
  LET stored_ptr == user.ptr - PTR
      known == stored_ptr \in DOMAIN words /\ words[stored_ptr] \in DOMAIN blocks
  IN /\ blocks' = IF known THEN Restrict(blocks, DOMAIN blocks \ {words[stored_ptr]})
                           ELSE blocks
     /\ misfreed' = (misfreed \/ ~known)
     /\ words' = Restrict(words, DOMAIN words \ {stored_ptr})
     /\ users' = users \ {user}

Next ==
  \/ \E size \in Sizes, alignment \in Alignments : aligned_malloc(size, alignment)
  \/ \E user \in users : Fill(user) \/ free_aligned(user)

Spec == Init /\ [][Next]_vars

-----------------------------------------------------------------------------
TypeOK ==
  /\ \A raw \in DOMAIN blocks : raw \in 1 .. Modulus - 1 /\ blocks[raw] \in 0 .. Modulus - 1
  /\ \A at \in DOMAIN words : at \in Int /\ words[at] \in 1 .. Modulus - 1
  /\ users \subseteq [ptr : PTR .. Modulus - 1, size : Sizes, alignment : Alignments, raw : 1 .. Modulus - 1]
  /\ misfreed \in BOOLEAN

(* The block is large enough for the region and the hidden word exactly    *)
(* for the requests whose sum does not wrap.                               *)
SumSuffices ==
  \A size \in 0 .. Modulus - 1, a \in Powers :
    total_size(size, a) >= size + PTR <=> size + a + PTR < Modulus

(* Every region is aligned as asked and lies in its block, behind the      *)
(* hidden word, which lies in the block too.  aligned_malloc.c:12 says     *)
(* "alloc total space".                                                    *)
RegionInBlock ==
  \A user \in users :
    /\ user.ptr % user.alignment = 0
    /\ user.raw \in DOMAIN blocks
    /\ user.raw <= user.ptr - PTR
    /\ user.ptr + user.size <= user.raw + blocks[user.raw]

(* Whatever is written into the regions, the hidden word of each still     *)
(* leads to its block, so that free_aligned frees that block; no two       *)
(* regions share a block, and a block lives as long as its region.         *)
WordsIntact ==
  /\ \A user \in users :
       user.ptr - PTR \in DOMAIN words /\ words[user.ptr - PTR] = user.raw
  /\ \A u, v \in users : u.raw = v.raw => u = v
  /\ DOMAIN blocks = {user.raw : user \in users}
  /\ ~misfreed
=============================================================================
