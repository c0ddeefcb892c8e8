CONSTANTS
  Files = {f1, f2}
  a = a
  b = b
  empty = empty
  tsql = tsql
  pgsql = pgsql
  Hashes = {a, b}
  Dialects = {tsql}
  EmptyHash = EmptyHash
  NoEntry = NoEntry
  Deleted = Deleted
  NoLine = NoLine
  MaxChunks = 3
  Chunks <- ChunksOf
  Blank <- BlankOf
  DefaultDialect = tsql
  DeleteChunkSize = 1
  ParseAhead = 1
  PoolMaxFiles = 2
  PoolMaxChunks = 4
  BackgroundSaves = FALSE
  ReadsMayFail = FALSE
  NoFile = NoFile
  NoPoint = NoPoint
  NoSnapshot = NoSnapshot
  Unknown = Unknown
  NoPlan = NoPlan
SPECIFICATION Spec
SYMMETRY FileSymmetry
INVARIANTS Covered CleanRun
PROPERTIES WriteAhead KeepsFinishedWork ImplementsSourceMirror
