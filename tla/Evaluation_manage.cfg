SPECIFICATION FairSpec
CONSTANTS
  Fingerprints = {"a"}
  MaxBars = 1
  MaxScenes = 2
  MaxOverrides = 1
  MaxSwitches = 1
  MaxFaults = 1
INVARIANTS SetupAskedOnce  StopsHold
PROPERTY PositionsManaged
