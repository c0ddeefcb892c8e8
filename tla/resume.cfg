CONSTANTS
  Files = {f1, f2}
  a = a
  b = b
  empty = empty
  tsql = tsql
  pgsql = pgsql
  Hashes = {b}
  Dialects = {tsql}
  EmptyHash = EmptyHash
  NoEntry = NoEntry
  Deleted = Deleted
  NoLine = NoLine
  MaxChunks = 2
  Chunks <- ChunksOf
  Blank = {}
  DefaultDialect = tsql
  DeleteChunkSize = 1
  ParseAhead = 1
  PoolMaxFiles = 1
  PoolMaxChunks = 3
  BackgroundSaves = TRUE
  ReadsMayFail = FALSE
  NoFile = NoFile
  NoPoint = NoPoint
  NoSnapshot = NoSnapshot
  Unknown = Unknown
  NoPlan = NoPlan
SPECIFICATION QuietSpec
INVARIANTS IInv
PROPERTIES EventuallySynced
