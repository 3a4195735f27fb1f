CONSTANTS
  a = a
  b = b
  Ssid = {a, b}
  Unsigned = {1, 2}
  Absent = Absent
  NULL = NULL
  ParsedMaps <- MCParsedMaps
  Client = {c}
  HWM = 1
  MaxRestarts = 1
SPECIFICATION SystemSpec
INVARIANTS
  HeardIsRight
  NoClientAborts
PROPERTIES
  RestIsShown
CHECK_DEADLOCK FALSE
