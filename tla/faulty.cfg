CONSTANTS
  Files = {f1, f2}
  a = a
  b = b
  empty = empty
  tsql = tsql
  pgsql = pgsql
  Hashes = {a}
  Dialects = {tsql, pgsql}
  EmptyHash = EmptyHash
  NoEntry = NoEntry
  Deleted = Deleted
  NoLine = NoLine
  MaxChunks = 2
  Chunks <- ChunksByDialect
  Blank = {}
  DefaultDialect = tsql
  DeleteChunkSize = 2
  ParseAhead = 1
  PoolMaxFiles = 2
  PoolMaxChunks = 3
  BackgroundSaves = FALSE
  ReadsMayFail = TRUE
  NoFile = NoFile
  NoPoint = NoPoint
  NoSnapshot = NoSnapshot
  Unknown = Unknown
  NoPlan = NoPlan
SPECIFICATION Spec
SYMMETRY FileSymmetry
INVARIANTS NoOrphans
