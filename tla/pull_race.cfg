CONSTANTS
  PidBounds <- ScriptPids
  MaxSkips = 3
SPECIFICATION Spec
PROPERTIES TreeRests
