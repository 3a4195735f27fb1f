CONSTANTS
  a1 = a1
  a2 = a2
  b1 = b1
  b2 = b2
  Chunk <- MCChunk
  Docs <- MCDocs
  Parsable <- MCParsable
  NULL = NULL
  Inode = {n1, n2}
  NoInode = NoInode
  BufEvents = 2
  MaxOps = 3
SPECIFICATION Spec
INVARIANTS
  TypeOK
  NoLostUpdate
PROPERTIES
  DeletedOnlyIfLost
  LastTextIsAdopted
  DeletionIsReported
CHECK_DEADLOCK FALSE
