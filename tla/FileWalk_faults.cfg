CONSTANTS
  Node <- MCNode
  None = None
  Root = "/"
  Parent <- MCParent
  DType <- MCDType
  PathLen <- MCPathLen
  PathMax <- MCPathMax
  Present0 = {"/", "a", "b", "s", "d", "f", "g", "long"}
  Deniable = {"a", "b"}
  MayFail = {"alloc", "opendir", "readdir", "printf"}
  DefaultCapacity = 1
  MaxChurn = 2
SPECIFICATION FairSpec
INVARIANTS TypeOK RecordClosed RecordIsTree HeapExact SingleOwner VectorsInBounds
PROPERTIES WalkReturns QuietWalkRecordsAll
