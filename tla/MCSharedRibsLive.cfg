SPECIFICATION FairSpec
CONSTANTS
  a0 = a0
  a1 = a1
  h0 = h0
  h1 = h1
  Attr <- OneAttr
  EmptyAttr = a0
  NilAttr = nilAttr
  Ptr = {p1}
  NoPtr = noPtr
  Hash <- MCHash
  hashAttributes <- Colliding
  sliceSize <- MCSliceSize
  RefLimit = 32
  Rib = {r1, r2}
  Thread = {t1, t2}
  NoThread = noThread
  Prefix = {x1}
  PathID = {i1}
  Tree = {T1, T2, T3}
  NoTree = noTree
  ChunkSize = 1
  ChunkThreshold = 0
PROPERTIES
  LocksReleased
  FlushCompletes
