SPECIFICATION Spec
CONSTANTS
  RotateLines = 2
  MaxCalls = 4
  MaxFaults = 2
  MaxOutside = 1
  MaxCrash = 1
CHECK_DEADLOCK FALSE
INVARIANTS
  FileSeqsIncrease
  LossShowsInHealth
PROPERTIES
  ImplementsAuditLog
  RotationEnds
