SPECIFICATION LFairSpec
CONSTANTS
  a0 = a0
  a1 = a1
  h0 = h0
  h1 = h1
  Attr <- OneAttr
  EmptyAttr = a0
  NilAttr = nilAttr
  Ptr = {p1, p2}
  NoPtr = noPtr
  Hash <- MCHash
  hashAttributes <- Spread
  sliceSize <- ThreeBytes
  RefLimit = 32
  Rib = {r1}
  Thread = {t1}
  NoThread = noThread
  Prefix = {x1}
  PathID = {i1}
  Tree = {T1, T2}
  NoTree = noTree
  ChunkSize = 1
  ChunkThreshold = 0
  Reader = {u1, g1}
  Query = {u1}
  NoRib = noRib
  r1 = r1
  Logger = {g1}
  logged <- AllOfR1
INVARIANT StatsOfOneTable
PROPERTIES
  LoggerStops
  WritersServed
  QueriesReturn
