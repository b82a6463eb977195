\* A key of 30 bits is as good as one of 32 for the keys of the tests.
CONSTANTS
  SignBit = 536870912
  HASH_SIZE = 100
  NULL = NULL
SPECIFICATION Spec
INVARIANTS AssertionsHold
