CONSTANTS
  Client = {c1, c2}
  Agent = agent
  None = none
  MaxInput = 2
  BufMax = 1
  Loads <- MCSecond
SPECIFICATION Spec
PROPERTY SecondConsoleWaits
