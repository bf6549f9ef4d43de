SPECIFICATION Spec
CONSTANTS
  Word = 8
  SizeMod = 512
  DescArgs <- MCDescArgs
  HeaderDescs <- MCHeaderDescs
  Key = {"a", "b", "c", "d"}
  None = "none"
INVARIANTS
  BlocksApart
  BlocksAligned
  OffsetReversed
  ObjectsEvictedOnce
PROPERTY KeepsMostRecent
