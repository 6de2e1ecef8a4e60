SPECIFICATION FirstBootSpec
CONSTANTS
  KeySets = {old, new}
  NoKeys = NoKeys
  MaxBootFaults = 0
  MaxBootCuts = 1
INVARIANT EngineReadsKeys
