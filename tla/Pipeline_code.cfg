\* The constants of src/main.c.
CONSTANTS
  BUFFER_COUNT = 6
  PROCESS_CAPACITY = 6
  CACHE_CAPACITY = 6
  FRAMES_PER_LENS = 10
  LENS_COUNT = 5
  LOG_EVERY = 30
  MaxIterations = 12
  NULL = NULL
SPECIFICATION Spec
INVARIANTS
  OneOwnerEach
  StateMatchesOwner
  NoDropWhileFramesWait
  FramesAccounted
  NothingUsedAfterFree
