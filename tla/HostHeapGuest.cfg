\* A guest that passes only pointers it holds; three units of memory.
CONSTANTS
  PoolStart = 16
  Align = 8
  Header = 4
  Word = 128
  ScratchLen = 8
  MemGetLen = 20
  CtxInit = 5
  Dirs = {d1}
  NoDir = NoDir
  PoolLen = 24
  Sizes = {0, 5}
  DataSizes = {3}
  Stray = {}
SPECIFICATION Spec
INVARIANTS
  TypeOK
  FreeListCanonical
  NoOverlap
  NoLostByte
  PromisedBytesOwned
  BlocksLive
  MemoryWordsHonest
PROPERTIES
  PoolPromise
