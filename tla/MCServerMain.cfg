CONSTANTS
  Ssid = {a, b, c}
  Unsigned = {1, 2}
  Absent = Absent
  NULL = NULL
  MaxSize = 2
  OnlySNR = a
  OnlyChannel = b
  ParsedMaps <- MCFewMaps
SPECIFICATION Spec
INVARIANTS
  TypeOK
  InSync
  OneMessagePerSsid
  ClientCanPrint
PROPERTIES
  ImplementsChangeFeed
  ParsedFileIsAnnounced
  DeletionEmptiesView
CHECK_DEADLOCK FALSE
