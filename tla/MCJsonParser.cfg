CONSTANTS
  Ssid <- MCSsid
  Unsigned <- MCUnsigned
  Absent = Absent
  Cut <- MCCut
  Width = 2
  LONG_MAX = 7
  Docs <- MCDocs
  Overwritten <- MCOverwritten
  EXPECTED_TOKENS = 11
  NULL = NULL
SPECIFICATION Spec
INVARIANTS
  TypeOK
  KnownDocumentIsRead
  TornIsIgnored
  ReadsFilledTokens
CHECK_DEADLOCK FALSE
