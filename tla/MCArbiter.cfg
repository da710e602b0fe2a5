SPECIFICATION Spec
CONSTANTS
  a = a
  b = b
  h = h
  NoCmd = NoCmd
  Session = {s1}
  Cmd = {a, b, h}
  Human <- MCHuman
  Prio <- MCPrio
  Load <- MCLoad
  HistoryMax = 1
  MaxEpoch = 2
  MaxClock = 2
CHECK_DEADLOCK FALSE
INVARIANTS
  EndedRecordIsTrue
  SentAtMostOnce
  TicketsMatchCommands
  LimitsHold
  FifoPerPriority
PROPERTIES
  EveryCommandSettles
