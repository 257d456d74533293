\* Who is served in the end, and when the runner ends.
CONSTANTS
  None = None
  Stop = Stop
  StepLimit = 2
  Delays = {0, 1}
  MaxSleep = 1
  BootStages = 0
  Windows = {"none", "open"}
  HasLimit = FALSE
  MaxMark = 1
  MaxQueue = 2
SPECIFICATION FairSpec
PROPERTIES
  EventsServed
  ExitEnds
