SPECIFICATION Spec
CONSTANTS
  BLE_DB_DISCOVERY_MAX_SRV = 2
  BLE_DB_DISCOVERY_MAX_CHAR_PER_SRV = 2
  SRV_DISC_END_HANDLE = 20
  ANY = "ANY"
  Peers <- SomePeers
  Filters <- SomeFilters
  MaxCount = 3
  MaxLaunches = 2
  Trouble = {}
INVARIANTS
  ReportsComplete
  EndsOnce
  AnswersMeetTheirIndex
PROPERTY
  DiscoveryEnds
