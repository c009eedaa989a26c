SPECIFICATION Spec
CONSTANTS
  MAX_PAYLOAD = 8
  Types <- SomeTypes
  ListTypes <- SomeListTypes
  Datas <- SomeDatas
INVARIANT
  LengthIsOfData
