CONSTANTS
  Ssid = {a, b}
  Unsigned = {1, 2}
  Absent = Absent
  NULL = NULL
  MaxSize = 2
  OnlySNR = a
  OnlyChannel = b
  ParsedMaps <- MCParsedMaps
SPECIFICATION Spec
INVARIANT ChannelInSync
CHECK_DEADLOCK FALSE
