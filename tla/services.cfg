CONSTANTS
  Procs = {"indexer", "server"}
  TeiModels = {"jina", "bge"}
  Qdrant = "qdrant"
  NoImage = "none"
  NoSpace = "nothing"
  NoQuant = "unset"
  Dim <- DimOf
  Files = {f1, f2}
  Versions = {1, 2}
  Worlds <- AllWorlds
  NoEntry = 0
  NoManifest = NoManifest
  NoColl = NoColl
  NoConfig = NoConfig
SPECIFICATION Spec
INVARIANTS RecordTellsTruth AnswersFit ListedIsStored OwnServer LengthFits
