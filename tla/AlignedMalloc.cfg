CONSTANTS
  Modulus = 64
  PTR = 2
  Sizes = {0, 1, 5}
  Alignments = {0, 1, 3, 4, 8}
  Powers = {1, 2, 4, 8, 16, 32}
  MaxLive = 2
SPECIFICATION Spec
INVARIANTS RegionInBlock WordsIntact BitsAgree
