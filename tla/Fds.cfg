SPECIFICATION Spec
CONSTANTS
  FS_CMD_QUEUE_SIZE = 2
  FS_CMD_MAX_RETRIES = 1
  FS_PAGE_SIZE_WORDS = 14
  FDS_MAX_PAGES = 2
  FDS_CMD_QUEUE_SIZE = 3
  FDS_CHUNK_QUEUE_SIZE = 2
  MaxId = 9
  Slots = {1, 2}
  Patient = TRUE
  Meddles = FALSE
  Erased = Erased
  Mixed = Mixed
  ChunkLists <- MCChunkLists
  Limit <- MCLimit
  Writes = 2
  Updates = 1
  Clears = 1
  ClearInsts = 1
  Gcs = 1
  Finds = 1
  Opens = 1
  Reserves = 1
  Faults = 2
  Losses = 1
  All = 5
INVARIANTS TypeOK WrittenOnce SpaceAccounted SearchSeesAll OpenRecordsStay
PROPERTIES WrittenWhenReported StoreKept CommandsEnd
CHECK_DEADLOCK FALSE
