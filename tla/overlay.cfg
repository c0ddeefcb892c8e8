CONSTANTS
  Files = {f1, f2}
  Contents = {c1, c2}
  Same = Same
  Gone = Gone
  None = None
  Partial = Partial
  NoSig = NoSig
  Kinds = {"branch", "tag"}
  Worlds <- ThreeWorlds
  MaxMoves = 2
  MaxFaults = 2
SPECIFICATION FairSpec
INVARIANTS VouchedIsStored VouchedIsLean StrayIsAnnounced
PROPERTIES ManifestGoesLast EventuallySettled
