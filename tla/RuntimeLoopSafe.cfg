\* A guest that arms, re-arms and stops its timer, a user and a guest that
\* both raise events, and a window that closes.
CONSTANTS
  None = None
  Stop = Stop
  StepLimit = 2
  Delays = {0, 1, 3}
  MaxSleep = 1
  BootStages = 1
  Windows = {"none", "open"}
  HasLimit = TRUE
  MaxMark = 2
  MaxQueue = 2
SPECIFICATION Spec
INVARIANTS
  TypeOK
  TimerAsCommanded
  OnlyLongTimersDropped
  EventsInOrder
  CloseIsTold
PROPERTIES
  NeverEarly
