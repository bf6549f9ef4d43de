SPECIFICATION Spec
CONSTANTS
  MaxSize = 4
  PipeCap = 3
INVARIANTS
  TypeOK
  BytesInOrder
  OkIsWhole
PROPERTY CallsReturn
