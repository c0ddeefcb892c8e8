CONSTANTS
  RrfK = 1
  MaxRank = 4
  MaxScore = 9
  Unit = 120
  NoScore = NoScore
  Chunks <- SmallChunks
  Worlds <- TwoWorlds
  Facts <- SmallFacts
  Queries <- SmallQueries
  Overfetch = 2
  LookupK = 2
  Main = Main
  Overlay = Overlay
  NoBranch = NoBranch
  NoPath = NoPath
  NoDomain = NoDomain
  Unread = Unread
SPECIFICATION Spec
INVARIANTS OneVersionPerPath DominantFirst HitsNeedRules
CHECK_DEADLOCK FALSE
