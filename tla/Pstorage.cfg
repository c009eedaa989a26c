SPECIFICATION Spec
CONSTANTS
  PSTORAGE_NUM_OF_PAGES = 3
  PSTORAGE_CMD_QUEUE_SIZE = 2
  SD_CMD_MAX_TRIES = 2
  PageSize = 3
  DataStart = 3
  SizeRange = 4
  Registrations <- MCRegistrations
  Chosen <- MCChosen
  Erased = Erased
  Mixed = Mixed
  MaxCommands = 2
  MaxOthers = 1
  MaxRestarts = 1
INVARIANTS TypeOK ErasesItsPages EventsAreAttributed
PROPERTIES StoreKept CommandEnds
CHECK_DEADLOCK FALSE
