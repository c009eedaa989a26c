SPECIFICATION HangingSpec
CONSTANTS
  DISCONNECT_AFTER_SECONDS = 2
  RESET_AFTER_SECONDS = 4
  WDT_TICKS = 1
  NEVER = 99
  Seconds <- SomeSeconds
  MaxPending = 2
INVARIANTS
  TypeOK
  CntBounded
  PumpOverrunBounded
  PumpStateTruthful
  NoStrandedEvent
  ConnectionBounded
PROPERTIES
  NeverCutEarly
  PromiseKept
  PumpStops
  OnAirAgain
