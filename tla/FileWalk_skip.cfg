CONSTANTS
  Node <- MCNode
  None = None
  Root = "/"
  Parent <- MCParent
  DType <- MCDType
  PathLen <- MCPathLen
  PathMax <- MCPathMax
  Present0 = {"/", "a", "b"}
  Deniable = {"a"}
  MayFail = {}
  DefaultCapacity = 1
  MaxChurn = 0
SPECIFICATION FairSpec
PROPERTY SkipContinues
