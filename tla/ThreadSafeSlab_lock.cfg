SPECIFICATION FairSpec
CONSTANTS
  t1 = t1
  t2 = t2
  s1 = s1
  s2 = s2
  NoThread = NoThread
  Thread = {t1, t2}
  Slab = {s1, s2}
  ObjPerSlab = 2
  CacheCap = 2
  CacheAcquire = 2
  CacheRelease = 2
  RetireThreshold = 1
  PercentToRetire = 50
  SizeMod = 16
  Ops <- AllOps
PROPERTY LockReleased
