\* A seek past the end of a packaged file, and a read.
CONSTANTS
  Names <- MCNames
  PathOf <- MCPathOf
  PackLen <- MCPackLen
  Exact <- MCExact
  FirstFd = 3
  LastFd = 3
  LastNode = 2
  MaxPos = 3
SPECIFICATION Spec
INVARIANTS
  ReadsDoNotPanic
CHECK_DEADLOCK FALSE
