\* Claims the code does not keep, one invariant at a time; DescribesRead with
\* ReadsMayFail = TRUE.  The first is switched on.
CONSTANTS
  Files = {f1}
  a = a
  b = b
  empty = empty
  tsql = tsql
  pgsql = pgsql
  Hashes = {a}
  Dialects = {tsql, pgsql}
  EmptyHash = EmptyHash
  NoEntry = NoEntry
  Deleted = Deleted
  NoLine = NoLine
  MaxChunks = 2
  Chunks <- ChunksByDialect
  Blank = {}
  DefaultDialect = tsql
  DeleteChunkSize = 1
  ParseAhead = 1
  PoolMaxFiles = 2
  PoolMaxChunks = 3
  BackgroundSaves = FALSE
  ReadsMayFail = FALSE
  \* ReadsMayFail = TRUE
  NoFile = NoFile
  NoPoint = NoPoint
  NoSnapshot = NoSnapshot
  Unknown = Unknown
  NoPlan = NoPlan
SPECIFICATION Spec
INVARIANT DialectApplied
\* INVARIANT NoPartialFile
\* INVARIANT DescribesRead
