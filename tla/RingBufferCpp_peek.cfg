CONSTANTS
  Threads = {t1, t2, t3}
  Items = {a}
  MaxSize = 2
  Programs = {{"put", "get", "peek"}}
  Watched = {}
  NULL = NULL
  DONE = DONE
SPECIFICATION Spec
INVARIANT GetWaitsForItem
