\* The process queue of DesignConsiderations.md:30, one slot short of the pool,
\* and lenses that change with the buffer, so that write_to_buffer ejects
\* buffers and lru_cache_put evicts profiles.
CONSTANTS
  BUFFER_COUNT = 4
  PROCESS_CAPACITY = 3
  CACHE_CAPACITY = 2
  FRAMES_PER_LENS = 1
  LENS_COUNT = 3
  LOG_EVERY = 2
  MaxIterations = 8
  NULL = NULL
SPECIFICATION FairSpec
INVARIANTS
  TypeOK
  FrameIntact
  ProfileAlive
PROPERTIES RefinesStream StopsWhenTold FramesMoveOn SensorGetsLock UsesQueues
