CONSTANTS
  Files = {f1, f2}
  Hashes = {a, b}
  EmptyHash = EmptyHash
  NoFile = NoFile
  NoEntry = NoEntry
  NoCommit = NoCommit
  Unscanned = Unscanned
  Unhashed = Unhashed
  Threshold = 50
  MaxTime = 1
  EditsShareSeconds = TRUE
  ReadsMayFail = FALSE
SPECIFICATION Spec
SYMMETRY FilesAndHashes
INVARIANTS EmptyHashReindexed
