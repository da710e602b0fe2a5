SPECIFICATION FairSpec
CONSTANTS
  Session = {s1}
  Orphan = {o1}
  Key = {k1}
  Thread = {m, r, p}
  Main = m
  Locked = {p}
  Teams = {{m, p}, {m, r}}
  None = None
  MaxOps = 3
  MaxFaults = 3
CHECK_DEADLOCK FALSE
INVARIANTS
  AckedReleaseSurvives
  UnsavedIsPending
PROPERTY WaitersAreAnswered
