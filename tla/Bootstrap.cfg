\* The three kinds of packages, any number of events.
CONSTANTS
  Kinds = {"legacy", "bridge", "plugin"}
  None = None
SPECIFICATION Spec
INVARIANTS
  TypeOK
  ReportEarned
  HelpersAsRegistered
