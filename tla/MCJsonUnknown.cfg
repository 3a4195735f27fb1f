CONSTANTS
  Ssid <- MCSsid
  Unsigned <- MCUnsigned
  Absent = Absent
  Cut <- MCCut
  Width = 2
  LONG_MAX = 7
  Docs <- MCDocs
  Overwritten <- MCOverwritten
  EXPECTED_TOKENS = 16
  NULL = NULL
SPECIFICATION Spec
INVARIANT
  ReturnsLastToken
CHECK_DEADLOCK FALSE
