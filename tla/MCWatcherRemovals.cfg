CONSTANTS
  a = a
  b = b
  Ssid = {a, b}
  Unsigned = {1, 2}
  Absent = Absent
  NULL = NULL
  ParsedMaps <- MCParsedMaps
  Client = {c}
  HWM = 2
  MaxRestarts = 0
SPECIFICATION SystemSpec
INVARIANT RemovalsAreNotified
CHECK_DEADLOCK FALSE
