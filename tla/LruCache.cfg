\* Keys 0 and 3 share a chain, and so do 1 and 15, which is -1; 8 is the most
\* negative int.  Every value but NULL is a heap block: freeing any other value,
\* as the test suite does, is undefined.
CONSTANTS
  Keys = {0, 1, 3, 8, 15}
  SignBit = 8
  HASH_SIZE = 3
  Capacity = 3
  Heap = {v1, v2, v3}
  NotHeap = {}
  NULL = NULL
SYMMETRY Symmetry
SPECIFICATION ViewSpec
CHECK_DEADLOCK FALSE
INVARIANTS ListLinked TableAgrees ValuesOwned
PROPERTIES RefinesLru
