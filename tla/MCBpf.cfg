SPECIFICATION PartsSpec
CONSTANTS
  m1 = m1
  m2 = m2
  m3 = m3
  Map = {m1, m2, m3}
  Elem = {e1, e2, e3}
  Reader = {r1, r2}
  CacheSize = 2
  ElemSize <- MCElemSize
  StorageSize = 8
  Null = Null
  NoKey = NoKey
  NoEnt = NoEnt
  MaxLinks = 2
  Kinds <- MCKinds
  MaxUsed = 3
  HashCase <- MCHashCase
  ArrayCase <- MCArrayCase
  AttrCase <- MCAttrCase
  OpsCase <- MCOpsCase
INVARIANTS
  CacheLinked
  UsageExact
  AccountingExact
  MemoryInBounds
  HooksRespected
  PrototypesSound
  PublishedIsWhole
PROPERTIES
  SharesOnlyWhenFull
  RefusedOnlyWhenFull
  LifetimesKept
CHECK_DEADLOCK FALSE
