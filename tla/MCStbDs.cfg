CONSTANTS
  a = a
  b = b
  c = c
  d = d
  e = e
  Ssid <- MCSsid
  Unsigned = {1, 2}
  Absent = Absent
  BucketLength = 4
  HashFunctions <- MCHashFunctions
  Points <- MCPoints
SPECIFICATION Spec
INVARIANTS
  FindsEveryKey
  SearchesEnd
  CountsAreRight
  KeysAreOwned
  FitsCapacity
PROPERTY ImplementsStringMap
CHECK_DEADLOCK FALSE
