-------------------------- MODULE AlignedMallocBits --------------------------
(***************************************************************************)
(* The bit tricks of the allocator against the arithmetic AlignedMalloc    *)
(* uses for them.                                                          *)
(***************************************************************************)
EXTENDS AlignedMalloc, Bitwise

power_of_two(alignment) == alignment # 0 /\ (alignment & (alignment - 1)) = 0
masked_addrOffByOne(raw, alignment) == (raw + PTR + alignment - 1) & (Modulus - 1 - alignment)
masked_addr(raw, alignment) == (raw + PTR + alignment - 1) & (Modulus - alignment)
is_aligned(ptr, alignment) ==
  ptr # 0 /\ alignment # 0 /\ (ptr & (alignment - 1)) = 0

-----------------------------------------------------------------------------
(* is_aligned accepts the multiples of the alignment and nothing else, for *)
(* a power of two and for no other alignment (aligned_malloc.c:39, "Check  *)
(* for NULL pointer or invalid alignment", refuses 0 only).                *)
MaskDecides ==
  \A a \in Alignments \ {0} :
    a \in Powers <=>
      \A ptr \in 1 .. Modulus - 1 : is_aligned(ptr, a) <=> ptr % a = 0

(* aligned_malloc accepts exactly the powers of two, its mask rounds up to *)
(* a multiple of the alignment as RoundDown does, and is_aligned accepts   *)
(* what it returns.                                                        *)
BitsAgree ==
  /\ MaskDecides /\ SumSuffices
  /\ \A a \in Alignments : power_of_two(a) <=> a \in Powers
  /\ \A user \in users :
       /\ user.ptr = masked_addr(user.raw, user.alignment)
       /\ is_aligned(user.ptr, user.alignment)
=============================================================================
