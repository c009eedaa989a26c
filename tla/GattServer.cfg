SPECIFICATION Spec
CONSTANTS
  batt = batt lock = lock meta = meta
  v1 = v1 v2 = v2
  short = short base1 = base1 base2 = base2
  Characteristics <- MCCharacteristics
  NoChar = NoChar
  Properties <- MCProperties
  Descriptors <- MCDescriptors
  Services <- MCServices
  ShortUUID = short
  Values <- MCValues
  CCCDValues <- MCCCCDValues
  InitialValue = v1
  BLE_TOTAL_CHARACTERISTICS = 2
  BLE_TOTAL_DESCRIPTORS = 1
  UUID_TABLE_MAX_ENTRIES = 2
  TxBuffers = 2
  MaxAttributes = 5
  MaxEvents = 2
INVARIANTS TypeOK HandlesResolve ValueIsLastWritten ToldOfWrites SubscriptionsKnown DataSentExact
PROPERTY RequestsAnswered
