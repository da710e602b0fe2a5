CONSTANTS
  Client = {c1, c2}
  Agent = agent
  None = none
  MaxInput = 3
  BufMax = 2
  Loads <- MCLoads
SPECIFICATION Spec
INVARIANTS
  TypedOnce
  SuspensionEnds
PROPERTIES
  OwnershipHeals
  NoStaleInput
  LineIsTheCommands
