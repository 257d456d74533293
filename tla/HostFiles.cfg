\* Two handles, two places on the disk, files of up to three bytes.
CONSTANTS
  Names <- MCNames
  PathOf <- MCPathOf
  PackLen <- MCPackLen
  Exact <- MCExact
  FirstFd = 3
  LastFd = 4
  LastNode = 2
  MaxPos = 3
SPECIFICATION Spec
INVARIANTS
  TypeOK
  ReadsFollow
  LookupsAgree
PROPERTIES
  HandlesLiveOnce
CHECK_DEADLOCK FALSE
