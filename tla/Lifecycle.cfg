SPECIFICATION Spec
CONSTANTS
  BUFFER_COUNT = 6
  Lenses = {0, 1, 2, 3, 4}
  MayFail = TRUE
INVARIANTS UndefinedOnlyAfterFailure NoBlockLost
CHECK_DEADLOCK FALSE
