\* Claims the code does not keep, each in its world: the n-th property with the
\* n-th Worlds.  The first pair is switched on.
CONSTANTS
  Files = {f1, f2}
  Contents = {c1, c2}
  Same = Same
  Gone = Gone
  None = None
  Partial = Partial
  NoSig = NoSig
  Kinds = {"tag"}
  Worlds <- Calm
  \* Worlds <- Cleared
  \* Worlds <- KilledAndMovedBack
  \* Worlds <- AllFaults
  \* Worlds <- NoRepository
  MaxMoves = 3
  MaxFaults = 1
SPECIFICATION FairSpec
INVARIANT VouchedIsServed
\* PROPERTY EventuallyReembedded
\* PROPERTY SkippedIsSame
\* INVARIANT VouchedIsWhole
\* PROPERTY EventuallyRemoved
