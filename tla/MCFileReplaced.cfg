CONSTANTS
  a1 = a1
  a2 = a2
  b1 = b1
  b2 = b2
  Chunk <- MCChunk
  Docs <- MCDocs
  Parsable <- MCParsable
  NULL = NULL
  Inode = {n1, n2}
  NoInode = NoInode
  BufEvents = 2
  MaxOps = 1
SPECIFICATION Spec
INVARIANT DeletedMeansNoFile
CHECK_DEADLOCK FALSE
