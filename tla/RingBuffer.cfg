CONSTANTS
  Threads = {t1, t2}
  Pointers = {p1, p2, p3, p4}
  Capacity = 3
  NULL = NULL
SYMMETRY Symmetry
SPECIFICATION Spec
INVARIANTS TypeOK OnlyOwnerInside IndicesAgree OnePlaceEach
PROPERTIES RefinesFifo
