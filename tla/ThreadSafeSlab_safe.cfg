SPECIFICATION Spec
CONSTANTS
  t1 = t1
  t2 = t2
  s1 = s1
  s2 = s2
  NoThread = NoThread
  Thread = {t1, t2}
  Slab = {s1, s2}
  ObjPerSlab = 3
  CacheCap = 2
  CacheAcquire = 2
  CacheRelease = 2
  RetireThreshold = 2
  PercentToRetire = 50
  SizeMod = 16
  Ops <- AllOps
SYMMETRY Symmetry
INVARIANTS
  TypeOK
  ObjectsInOnePlace
  SlabsOutlastObjects
  CountsExact
  SlabsAccountedFor
  CacheCountExact
  AssertsHold
