------------------------ MODULE AlignedMalloc_proofs ------------------------
(***************************************************************************)
(* Every region lies aligned in its block, and its hidden word leads back  *)
(* to the block, for every width, size, alignment and number of regions,   *)
(* as long as no size that is asked for wraps.                             *)
(***************************************************************************)
EXTENDS AlignedMalloc, TLAPS

(* No request wraps (aligned_malloc.c:13): those that do get a block that  *)
(* is too small.                                                           *)
NoOverflow ==
  \A size \in Sizes, alignment \in Alignments :
    size + alignment + PTR < Modulus

Types ==
  /\ \A raw \in DOMAIN blocks :
       raw \in Nat /\ blocks[raw] \in Nat \ {0} /\ raw + blocks[raw] <= Modulus
  /\ users \subseteq [ptr : Nat, size : Nat, alignment : Nat, raw : Nat]

(* The blocks of malloc do not overlap.                                    *)
BlocksApart ==
  \A r, s \in DOMAIN blocks :
    r # s => r + blocks[r] <= s \/ s + blocks[s] <= r

(* Together these are inductive: what is written into one block leaves the *)
(* words in the others alone because blocks are apart and each holds its   *)
(* region and its word.                                                    *)
IInv == Types /\ BlocksApart /\ RegionInBlock /\ WordsIntact

-----------------------------------------------------------------------------
(* Arithmetic.                                                             *)

LEMMA ModSmall ==
  ASSUME NEW m \in Nat \ {0}, NEW x \in 0 .. m - 1
  PROVE  x % m = x
BY SMT

LEMMA RoundDownIsMultiple ==
  ASSUME NEW x \in Nat, NEW a \in Nat \ {0}
  PROVE  /\ RoundDown(x, a) \in Nat
         /\ RoundDown(x, a) <= x /\ x < RoundDown(x, a) + a
         /\ RoundDown(x, a) % a = 0
<1>1. x % a \in 0 .. a - 1 /\ x % a <= x
  BY SMT
<1>2. PICK q \in Nat : x - (x % a) = a * q
  <2>1. x - (x % a) = a * (x \div a) /\ x \div a \in Nat
    BY SMT
  <2> QED
    BY <2>1
<1>3. (a * q) % a = 0
  BY SMT
<1> QED
  BY <1>1, <1>2, <1>3 DEF RoundDown

(* Two stretches of memory are apart exactly when one ends before the      *)
(* other begins.                                                           *)
LEMMA Apart ==
  ASSUME NEW a \in Int, NEW n \in Nat, NEW b \in Int, NEW m \in Nat,
         a + n <= b \/ b + m <= a
  PROVE  ~Overlap(Span(a, n), Span(b, m))
BY DEF Overlap, Span

LEMMA NotApart ==
  ASSUME NEW a \in Int, NEW n \in Nat \ {0}, NEW b \in Int, NEW m \in Nat \ {0},
         ~Overlap(Span(a, n), Span(b, m))
  PROVE  a + n <= b \/ b + m <= a
<1>1. a \in Span(a, n) /\ b \in Span(b, m)
  BY DEF Span
<1>2. a \notin Span(b, m) /\ b \notin Span(a, n)
  BY <1>1 DEF Overlap
<1> QED
  BY <1>2 DEF Span

LEMMA Constants ==
  /\ Modulus \in Nat \ {0} /\ PTR \in Nat \ {0}
  /\ Powers \subseteq Nat \ {0}
  /\ Sizes \subseteq Nat /\ Alignments \subseteq Nat
BY ModulusAssumption, PointerAssumption, PowersAssumption, RequestsAssumption

(* What a request that does not wrap gets: an aligned region that lies in  *)
(* the block behind the word.                                              *)
LEMMA RegionFits ==
  ASSUME NEW size \in Nat, NEW alignment \in Nat \ {0}, NEW raw \in Nat,
         size + alignment + PTR < Modulus,
         raw + (size + alignment + PTR) <= Modulus
  PROVE  LET ptr == aligned_addr(raw, alignment) IN
         /\ total_size(size, alignment) = size + alignment + PTR
         /\ ptr \in Nat /\ ptr % alignment = 0
         /\ raw + PTR <= ptr /\ ptr + size <= raw + (size + alignment + PTR)
<1>1. total_size(size, alignment) = size + alignment + PTR
  BY Constants, ModSmall DEF total_size
<1>2. raw + PTR \in 0 .. Modulus - 1
      /\ raw + PTR + alignment - 1 \in 0 .. Modulus - 1
  BY Constants
<1>3. raw_addr(raw) = raw + PTR
  BY <1>2, Constants, ModSmall DEF raw_addr
<1>4. aligned_addr(raw, alignment) = RoundDown(raw + PTR + alignment - 1, alignment)
  BY <1>2, <1>3, Constants, ModSmall DEF aligned_addr
<1> DEFINE x == raw + PTR + alignment - 1
           ptr == RoundDown(x, alignment)
<1>5. x \in Nat
  BY <1>2
<1>6. ptr \in Nat /\ ptr <= x /\ x < ptr + alignment /\ ptr % alignment = 0
  BY <1>5, RoundDownIsMultiple
<1>7. raw + PTR <= ptr /\ ptr + size <= raw + (size + alignment + PTR)
  BY <1>6, Constants
<1> QED
  BY <1>1, <1>4, <1>6, <1>7

(* The word and the region of another user lie in another block.           *)
LEMMA OthersElsewhere ==
  ASSUME IInv, NEW u \in users, NEW v \in users, u # v
  PROVE  \/ u.raw + blocks[u.raw] <= v.raw
         \/ v.raw + blocks[v.raw] <= u.raw
<1>1. u.raw # v.raw /\ u.raw \in DOMAIN blocks /\ v.raw \in DOMAIN blocks
  BY DEF IInv, WordsIntact, RegionInBlock
<1> QED
  BY <1>1 DEF IInv, BlocksApart

LEMMA UserTypes ==
  ASSUME IInv, NEW u \in users
  PROVE  /\ u.ptr \in Nat /\ u.size \in Nat /\ u.alignment \in Nat /\ u.raw \in Nat
         /\ u.raw \in DOMAIN blocks /\ blocks[u.raw] \in Nat
         /\ u.raw <= u.ptr - PTR /\ u.ptr + u.size <= u.raw + blocks[u.raw]
         /\ u.ptr - PTR \in DOMAIN words /\ words[u.ptr - PTR] = u.raw
<1>1. u \in [ptr : Nat, size : Nat, alignment : Nat, raw : Nat]
  BY DEF IInv, Types
<1>2. u.ptr \in Nat /\ u.size \in Nat /\ u.alignment \in Nat /\ u.raw \in Nat
  BY <1>1
<1>3. u.raw \in DOMAIN blocks /\ u.raw <= u.ptr - PTR
      /\ u.ptr + u.size <= u.raw + blocks[u.raw]
  BY DEF IInv, RegionInBlock
<1>4. blocks[u.raw] \in Nat
  BY <1>3 DEF IInv, Types
<1>5. u.ptr - PTR \in DOMAIN words /\ words[u.ptr - PTR] = u.raw
  BY DEF IInv, WordsIntact
<1> QED
  BY <1>2, <1>3, <1>4, <1>5

-----------------------------------------------------------------------------
LEMMA FillIInv ==
  ASSUME IInv, NEW user \in users, Fill(user)
  PROVE  IInv'
<1>1. words' = Restrict(words, Untouched(user.ptr, user.size))
      /\ blocks' = blocks /\ users' = users /\ misfreed' = misfreed
  BY DEF Fill
<1>2. Types' /\ BlocksApart' /\ RegionInBlock'
  BY <1>1 DEF IInv, Types, BlocksApart, RegionInBlock
<1>3. ASSUME NEW u \in users
      PROVE  u.ptr - PTR \in Untouched(user.ptr, user.size)
  <2>1. u.ptr - PTR + PTR <= user.ptr \/ user.ptr + user.size <= u.ptr - PTR
    <3>1. CASE u = user
      BY <3>1, UserTypes, Constants
    <3>2. CASE u # user
      BY <3>2, UserTypes, OthersElsewhere, Constants
    <3> QED
      BY <3>1, <3>2
  <2>2. ~Overlap(Span(u.ptr - PTR, PTR), Span(user.ptr, user.size))
    BY <2>1, UserTypes, Apart, Constants
  <2> QED
    BY <2>2, UserTypes DEF Untouched
<1>4. ASSUME NEW u \in users
      PROVE  u.ptr - PTR \in DOMAIN words' /\ words'[u.ptr - PTR] = u.raw
  BY <1>1, <1>3, UserTypes DEF Restrict
<1>5. WordsIntact'
  BY <1>1, <1>4 DEF IInv, WordsIntact
<1> QED
  BY <1>2, <1>5 DEF IInv

LEMMA FreeIInv ==
  ASSUME IInv, NEW user \in users, free_aligned(user)
  PROVE  IInv'
<1> DEFINE at == user.ptr - PTR
<1>1. at \in DOMAIN words /\ words[at] = user.raw /\ user.raw \in DOMAIN blocks
  BY UserTypes
<1>2. /\ blocks' = Restrict(blocks, DOMAIN blocks \ {user.raw})
      /\ words' = Restrict(words, DOMAIN words \ {at})
      /\ users' = users \ {user} /\ ~misfreed'
  <2>1. ~misfreed
    BY DEF IInv, WordsIntact
  <2>2. at \in DOMAIN words /\ words[at] \in DOMAIN blocks
    BY <1>1
  <2>3. ~misfreed'
    BY <2>1, <2>2, Zenon DEF free_aligned
  <2> QED
    BY <1>1, <2>1, <2>2, <2>3 DEF free_aligned
<1>3. /\ DOMAIN blocks' = DOMAIN blocks \ {user.raw}
      /\ \A raw \in DOMAIN blocks' : blocks'[raw] = blocks[raw]
  BY <1>2 DEF Restrict
<1>4. Types' /\ BlocksApart'
  BY <1>2, <1>3 DEF IInv, Types, BlocksApart
<1>5. ASSUME NEW u \in users'
      PROVE  u \in users /\ u.raw # user.raw /\ u.ptr - PTR # at
             /\ u.raw \in DOMAIN blocks' /\ blocks'[u.raw] = blocks[u.raw]
  <2>1. u \in users /\ u # user
    BY <1>2
  <2>2. u.raw # user.raw
    BY <2>1 DEF IInv, WordsIntact
  <2>3. u.ptr # user.ptr
    BY <2>1, UserTypes, OthersElsewhere, Constants
  <2>4. u.ptr - PTR # at
    BY <2>1, <2>3, UserTypes, Constants
  <2> QED
    BY <2>1, <2>2, <2>4, <1>3, UserTypes
<1>6. RegionInBlock'
  BY <1>5 DEF IInv, RegionInBlock
<1>7. WordsIntact'
  <2>1. ASSUME NEW u \in users'
        PROVE  u.ptr - PTR \in DOMAIN words' /\ words'[u.ptr - PTR] = u.raw
    BY <1>2, <1>5, UserTypes DEF Restrict
  <2>2. \A u, v \in users' : u.raw = v.raw => u = v
    BY <1>5 DEF IInv, WordsIntact
  <2>3. DOMAIN blocks' = {u.raw : u \in users'}
    <3>1. DOMAIN blocks = {u.raw : u \in users}
      BY DEF IInv, WordsIntact
    <3>2. ASSUME NEW raw \in DOMAIN blocks' PROVE \E u \in users' : raw = u.raw
      BY <1>2, <1>3, <3>1
    <3>3. \A u \in users' : u.raw \in DOMAIN blocks'
      BY <1>5
    <3> QED
      BY <3>2, <3>3
  <2>4. ~misfreed'
    BY <1>2
  <2> QED
    BY <2>1, <2>2, <2>3, <2>4 DEF WordsIntact
<1> QED
  BY <1>4, <1>6, <1>7 DEF IInv

LEMMA MallocIInv ==
  ASSUME NoOverflow, IInv, NEW size \in Sizes, NEW alignment \in Alignments,
         aligned_malloc(size, alignment)
  PROVE  IInv'
<1> DEFINE total == size + alignment + PTR
<1>1. size \in Nat /\ alignment \in Nat \ {0} /\ total < Modulus /\ total \in Nat \ {0}
  <2>1. alignment \in Powers
    BY DEF aligned_malloc
  <2> QED
    BY <2>1, Constants DEF NoOverflow
<1>2. total_size(size, alignment) = total
  BY <1>1, Constants, ModSmall DEF total_size
<1>3. PICK raw \in Places(total) :
        LET user == Region(raw, size, alignment)
            stored_ptr == user.ptr - PTR
        IN /\ blocks' = [r \in DOMAIN blocks \cup {raw} |->
                           IF r = raw THEN total ELSE blocks[r]]
           /\ words' = [at \in Untouched(stored_ptr, PTR) \cup {stored_ptr} |->
                          IF at = stored_ptr THEN raw ELSE words[at]]
           /\ users' = users \cup {user}
  BY <1>2 DEF aligned_malloc
<1>4. misfreed' = misfreed
  BY DEF aligned_malloc
<1> DEFINE user == Region(raw, size, alignment)
           ptr == aligned_addr(raw, alignment)
<1>5. /\ raw \in Nat /\ raw + total <= Modulus /\ raw \notin DOMAIN blocks
      /\ \A other \in DOMAIN blocks : ~Overlap(Span(raw, total), Span(other, blocks[other]))
  BY Constants DEF Places
<1>6. /\ ptr \in Nat /\ ptr % alignment = 0
      /\ raw + PTR <= ptr /\ ptr + size <= raw + total
  BY <1>1, <1>5, RegionFits
<1>7. user.ptr = ptr /\ user.size = size /\ user.alignment = alignment /\ user.raw = raw
      /\ user \in [ptr : Nat, size : Nat, alignment : Nat, raw : Nat]
  BY <1>1, <1>5, <1>6 DEF Region
<1>8. /\ DOMAIN blocks' = DOMAIN blocks \cup {raw} /\ blocks'[raw] = total
      /\ \A r \in DOMAIN blocks : blocks'[r] = blocks[r]
  BY <1>3, <1>5
<1>9. users' = users \cup {user}
  BY <1>3
<1>10. /\ DOMAIN words' = Untouched(ptr - PTR, PTR) \cup {ptr - PTR}
       /\ words'[ptr - PTR] = raw
       /\ \A at \in Untouched(ptr - PTR, PTR) \ {ptr - PTR} : words'[at] = words[at]
  BY <1>3, <1>7
<1>11. Types'
  BY <1>1, <1>5, <1>7, <1>8, <1>9 DEF IInv, Types
<1>12. ASSUME NEW other \in DOMAIN blocks
       PROVE  raw + total <= other \/ other + blocks[other] <= raw
  <2>1. other \in Nat /\ blocks[other] \in Nat \ {0}
    BY DEF IInv, Types
  <2> QED
    BY <2>1, <1>1, <1>5, NotApart
<1>13. BlocksApart'
  BY <1>8, <1>12 DEF IInv, BlocksApart
<1>14. \A u \in users : u.raw # raw /\ blocks'[u.raw] = blocks[u.raw]
  BY <1>5, <1>8, UserTypes
<1>15. RegionInBlock'
  <2>1. ASSUME NEW u \in users
        PROVE  /\ u.ptr % u.alignment = 0 /\ u.raw \in DOMAIN blocks'
               /\ u.raw <= u.ptr - PTR /\ u.ptr + u.size <= u.raw + blocks'[u.raw]
    BY <1>8, <1>14, UserTypes DEF IInv, RegionInBlock
  <2>2. /\ user.ptr % user.alignment = 0 /\ user.raw \in DOMAIN blocks'
        /\ user.raw <= user.ptr - PTR /\ user.ptr + user.size <= user.raw + blocks'[user.raw]
    BY <1>5, <1>6, <1>7, <1>8, Constants
  <2> QED
    BY <2>1, <2>2, <1>9 DEF RegionInBlock
<1>16. ASSUME NEW u \in users
       PROVE  u.ptr - PTR \in DOMAIN words' /\ words'[u.ptr - PTR] = u.raw
  <2>1. u.ptr - PTR + PTR <= ptr - PTR \/ ptr - PTR + PTR <= u.ptr - PTR
    BY <1>1, <1>5, <1>6, <1>12, UserTypes, Constants
  <2>2. u.ptr - PTR # ptr - PTR
    BY <2>1, <1>6, UserTypes, Constants
  <2>3. ~Overlap(Span(u.ptr - PTR, PTR), Span(ptr - PTR, PTR))
    BY <2>1, <1>6, UserTypes, Apart, Constants
  <2>4. u.ptr - PTR \in Untouched(ptr - PTR, PTR)
    BY <2>3, UserTypes DEF Untouched
  <2> QED
    BY <2>2, <2>4, <1>10, UserTypes
<1>17. WordsIntact'
  <2>1. \A u \in users' : u.ptr - PTR \in DOMAIN words' /\ words'[u.ptr - PTR] = u.raw
    BY <1>7, <1>9, <1>10, <1>16
  <2>2. \A u, v \in users' : u.raw = v.raw => u = v
    BY <1>7, <1>9, <1>14 DEF IInv, WordsIntact
  <2>3. DOMAIN blocks' = {u.raw : u \in users'}
    BY <1>7, <1>8, <1>9 DEF IInv, WordsIntact
  <2> QED
    BY <2>1, <2>2, <2>3, <1>4 DEF IInv, WordsIntact
<1> QED
  BY <1>11, <1>13, <1>15, <1>17 DEF IInv

-----------------------------------------------------------------------------
LEMMA InitIInv == Init => IInv
BY DEF Init, IInv, Types, BlocksApart, RegionInBlock, WordsIntact

LEMMA NextIInv ==
  ASSUME NoOverflow
  PROVE  IInv /\ [Next]_vars => IInv'
<1> SUFFICES ASSUME IInv, [Next]_vars PROVE IInv'
  OBVIOUS
<1>1. ASSUME NEW size \in Sizes, NEW alignment \in Alignments,
             aligned_malloc(size, alignment)
      PROVE  IInv'
  BY <1>1, MallocIInv
<1>2. ASSUME NEW user \in users, Fill(user) PROVE IInv'
  BY <1>2, FillIInv
<1>3. ASSUME NEW user \in users, free_aligned(user) PROVE IInv'
  BY <1>3, FreeIInv
<1>4. CASE UNCHANGED vars
  BY <1>4 DEF vars, IInv, Types, BlocksApart, RegionInBlock, WordsIntact
<1> QED
  BY <1>1, <1>2, <1>3, <1>4 DEF Next

LEMMA Invariance ==
  ASSUME NoOverflow
  PROVE  Spec => []IInv
BY InitIInv, NextIInv, PTL DEF Spec

(* A region that is handed out is aligned as asked and lies in its block,  *)
(* behind its word (aligned_malloc.c:20), for every width of addresses and *)
(* all requests that do not wrap.                                          *)
THEOREM RegionsInBlocks ==
  ASSUME NoOverflow
  PROVE  Spec => []RegionInBlock
BY Invariance, PTL DEF IInv

(* However the regions are filled and given back, free_aligned             *)
(* (aligned_malloc.c:29) finds the word intact and frees the right block.  *)
THEOREM WordsStayIntact ==
  ASSUME NoOverflow
  PROVE  Spec => []WordsIntact
BY Invariance, PTL DEF IInv

-----------------------------------------------------------------------------
(* A sum that wraps loses at least the whole width.                        *)
LEMMA ModLoses ==
  ASSUME NEW m \in Nat \ {0}, NEW x \in Nat, x >= m
  PROVE  x % m <= x - m
<1>1. x = m * (x \div m) + (x % m) /\ x \div m \in Nat /\ x % m \in 0 .. m - 1
  <2>1. x - (x % m) = m * (x \div m) /\ x \div m \in Nat
    BY SMT
  <2>2. x % m \in 0 .. m - 1
    BY SMT
  <2> QED
    BY <2>1, <2>2
<1>2. x \div m >= 1
  <2>1. CASE x \div m = 0
    <3>1. m * (x \div m) = 0
      BY <2>1, SMT
    <3> QED
      BY <1>1, <3>1
  <2> QED
    BY <1>1, <2>1
<1>3. \A q \in Nat : q >= 1 => m * q >= m
  BY SMT
<1> QED
  BY <1>1, <1>2, <1>3

(* NoOverflow asks no more than it must: every request whose sum wraps     *)
(* gets a block without room for its region and the hidden word, at every  *)
(* width (aligned_malloc.c:13).                                            *)
THEOREM WrapsGetTooLittle == SumSuffices
<1> SUFFICES ASSUME NEW size \in 0 .. Modulus - 1, NEW a \in Powers
             PROVE  total_size(size, a) >= size + PTR <=> size + a + PTR < Modulus
  BY DEF SumSuffices
<1>1. /\ Modulus \in Nat \ {0} /\ PTR \in 1 .. Modulus - 1 /\ a \in 1 .. Modulus - 1
      /\ size + a + PTR \in Nat
  BY ModulusAssumption, PointerAssumption, PowersAssumption
<1>2. CASE size + a + PTR < Modulus
  <2>1. total_size(size, a) = size + a + PTR
    BY <1>1, <1>2, ModSmall DEF total_size
  <2> QED
    BY <1>1, <1>2, <2>1
<1>3. CASE ~(size + a + PTR < Modulus)
  <2>1. total_size(size, a) <= (size + a + PTR) - Modulus
    <3> DEFINE x == size + a + PTR
    <3>1. x \in Nat /\ x >= Modulus
      BY <1>1, <1>3
    <3> HIDE DEF x
    <3>2. x % Modulus <= x - Modulus
      BY <1>1, <3>1, ModLoses
    <3>3. total_size(size, a) = x % Modulus
      BY Zenon DEF total_size, x
    <3>4. x - Modulus = (size + a + PTR) - Modulus
      BY DEF x
    <3> QED
      BY <3>2, <3>3, <3>4
  <2>2. total_size(size, a) \in Int
    BY <1>1 DEF total_size
  <2> QED
    BY <1>1, <1>3, <2>1, <2>2
<1> QED
  BY <1>2, <1>3
=============================================================================
