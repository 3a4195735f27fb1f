CONSTANTS
  Threads = {1, 2}
  Width = 3
  Seeds = {2}
  Output <- MCOutput
  Salts = {0, 5}
  MaxDrawn = 5
SPECIFICATION Spec
INVARIANTS
  TypeOK
  StreamIsKept
  ResultsAreInRange
CHECK_DEADLOCK FALSE
