SPECIFICATION FairSpec
CONSTANTS
  Lots = 2
  HandLots = 1
  Clamp = 2
  MaxFaults = 2
  MaxMoves = 1
  MaxAi = 1
  MaxRestarts = 1
INVARIANTS ExitsOwned
PROPERTIES ExitsLeave IntentsSettle
