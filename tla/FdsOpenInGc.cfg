SPECIFICATION Spec
CONSTANTS
  FS_CMD_QUEUE_SIZE = 2
  FS_CMD_MAX_RETRIES = 1
  FS_PAGE_SIZE_WORDS = 13
  FDS_MAX_PAGES = 2
  FDS_CMD_QUEUE_SIZE = 3
  FDS_CHUNK_QUEUE_SIZE = 2
  MaxId = 9
  Slots = {1, 2}
  Patient = FALSE
  Meddles = FALSE
  Erased = Erased
  Mixed = Mixed
  ChunkLists <- MCChunkLists
  Limit <- MCLimit
  Writes = 1
  Updates = 0
  Clears = 0
  ClearInsts = 0
  Gcs = 1
  Finds = 1
  Opens = 1
  Reserves = 0
  Faults = 0
  Losses = 0
  All = 4
INVARIANTS OpenRecordsStay
CHECK_DEADLOCK FALSE
