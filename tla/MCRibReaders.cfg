SPECIFICATION RSpec
CONSTANTS
  a0 = a0
  a1 = a1
  h0 = h0
  h1 = h1
  Attr <- MCAttr
  EmptyAttr = a0
  NilAttr = nilAttr
  Ptr = {p1, p2, p3}
  NoPtr = noPtr
  Hash <- MCHash
  hashAttributes <- Spread
  sliceSize <- MCSliceSize
  RefLimit = 32
  Rib = {r1}
  Thread = {t1, t2}
  NoThread = noThread
  Prefix = {x1}
  PathID = {i1, i2}
  Tree = {T1, T2, T3}
  NoTree = noTree
  ChunkSize = 1
  ChunkThreshold = 1
  Reader = {u1}
  Query = {u1}
  NoRib = noRib
SYMMETRY ReaderSymmetry
INVARIANTS
  IInv
  StatsExact
  ReaderInv
  ReadsSnapshot
  WalkByPointer
