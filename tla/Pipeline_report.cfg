CONSTANTS
  BUFFER_COUNT = 3
  PROCESS_CAPACITY = 3
  CACHE_CAPACITY = 3
  FRAMES_PER_LENS = 10
  LENS_COUNT = 5
  LOG_EVERY = 2
  MaxIterations = 6
  NULL = NULL
SPECIFICATION Spec
INVARIANTS ExclusiveBuffers
