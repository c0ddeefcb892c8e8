CONSTANTS
  Corpora <- SmallCorpora
  Backends = {"tei", "local"}
  QueueSize = 1
  PoolMaxChunks = 2
  PoolMaxFiles = 2
  MiniBatch = 2
  UpsertPoints = 3
  UpsertBytes = 4
  Retries = 1
  NoVector = NoVector
SPECIFICATION FairSpec
INVARIANTS OwnVectors EntriesAreStored RunIsComplete InFlightIsBounded
PROPERTY EventuallyEnds
CHECK_DEADLOCK FALSE
