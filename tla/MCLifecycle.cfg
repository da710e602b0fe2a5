SPECIFICATION FairSpec
CONSTANTS
  s1 = s1
  s2 = s2
  d1 = d1
  d2 = d2
  d3 = d3
  Device = {d1}
  Session = {s1}
  Home <- MCHome
  NeedsLogin = {s1}
  None = None
  Mixes = {{"release", "stop", "plug"}, {"release", "attach_device", "plug"}, {"clear", "attach_session", "flash", "plug"}, {"attach_device", "bind", "stop"}}
  MaxOps = 3
  MaxCalls = 2
  MaxPlugs = 1
CHECK_DEADLOCK FALSE
INVARIANTS
  ReleasedMeansUnused
  HandlesAreOwned
  FlashKeepsBridge
  
 
