SPECIFICATION Spec
CONSTANTS
  s1 = s1
  s2 = s2
  d1 = d1
  d2 = d2
  d3 = d3
  Device = {d1}
  Session = {s1}
  Home <- MCHome
  NeedsLogin = {s1}
  None = None
  Mixes = {{"release"}}
  MaxOps = 1
  MaxCalls = 1
  MaxPlugs = 0
CHECK_DEADLOCK FALSE
INVARIANT ReleasedMeansClosed
