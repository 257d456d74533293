\* Two sockets, and peers that send two bytes on each stream.
CONSTANTS
  FirstHandle = 3
  MaxHandle = 4
  MaxBytes = 2
SPECIFICATION Spec
INVARIANTS
  TypeOK
  ReadsOneStream
  FailureWasTold
  SocketsPutBack
PROPERTIES
  HandlesLiveOnce
