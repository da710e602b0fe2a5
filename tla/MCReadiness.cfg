SPECIFICATION FairSpec
CONSTANTS
  Loops <- OneLoop
  ReprobeMax = 1
  ReconfirmMax = 1
  Setups <- Mixed
CHECK_DEADLOCK FALSE
INVARIANTS
  ReadyHasBridge
  RecoveringIsOwned
PROPERTIES
  QuietSilence
  NewestRunWrites
  AgentHeldBack
  PendingBounded
