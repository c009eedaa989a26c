SPECIFICATION InsideSpec
CONSTANTS
  MAX_PAYLOAD = 8
  Types <- SomeTypes
  ListTypes <- SomeListTypes
  Datas <- SomeDatas
INVARIANTS
  LengthIsOfData
  OnAirIsPayload
PROPERTY
  KeepsFields
