---------------------------- MODULE MCRingBuffer ----------------------------
EXTENDS RingBuffer

Symmetry == Permutations(Threads) \cup Permutations(Pointers)
=============================================================================
