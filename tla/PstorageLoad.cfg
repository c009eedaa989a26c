SPECIFICATION Spec
CONSTANTS
  PSTORAGE_NUM_OF_PAGES = 1
  PSTORAGE_CMD_QUEUE_SIZE = 2
  SD_CMD_MAX_TRIES = 3
  PageSize = 3
  DataStart = 3
  SizeRange = 4
  Registrations <- MCOnePage
  Chosen <- MCClear
  Erased = Erased
  Mixed = Mixed
  MaxCommands = 1
  MaxOthers = 0
  MaxRestarts = 0
INVARIANT LoadsWhatIsStored
CHECK_DEADLOCK FALSE
