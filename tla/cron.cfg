CONSTANTS
  PidBounds <- ScriptPids
  MaxSkips = 3
SPECIFICATION QuietSpec
INVARIANTS OneIndexer KillsOnlySeen NoStartUnderPull
PROPERTIES HungReplaced
