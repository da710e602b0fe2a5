SPECIFICATION SvcSpec
CONSTANTS
  a = a
  h = h
  x = x
  o1 = o1
  o2 = o2
  k = k
  NoCmd = NoCmd
  NoOp = NoOp
  Session = {s1}
  Cmd = {a, h}
  Human <- MCHuman
  Prio <- MCPrio
  Load <- MCLoad
  HistoryMax = 1
  MaxEpoch = 1
  MaxClock = 1
  OpenOp = {o1, o2}
  CloseOp = {k}
  ExecOp = {x}
CHECK_DEADLOCK FALSE
INVARIANTS
  FreezeSticks
  HandoffLeavesNothingOpen
  RpcTicketsAreOwned
  GracefulStopLeavesNothingQueued
PROPERTY HandoffLeadsToStop
