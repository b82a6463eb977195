CONSTANTS
  Keys = {0, 1, 2, 3}
  Values = {v1, v2}
  Capacity = 3
  NULL = NULL
  UNSET = UNSET
SPECIFICATION Spec
CHECK_DEADLOCK FALSE
INVARIANTS ListLinked MapAgrees
PROPERTIES RefinesLru PrintShowsCache
