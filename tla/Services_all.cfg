SPECIFICATION ServicesSpec
CONSTANTS
  Environment <- RiskEnvironment
  Systems <- RiskSystems
  Profiles <- RiskProfiles
  Looks <- RiskLooks
  Price = 10
  Entries = {11}
  Risks = {1, 2}
  Rewards = {2, 3}
  Confidences = {60, 80}
  Allocations = {60}
  Equities = {100}
  Cashes = {25, 100}
  OtherSymbols = {0, 40}
  OwnLots = {0, 1}
  Protected = {0, 1}
  Regimes = {"HIGH_VOLATILITY", "DOWNTREND"}
  AccountIds = {"A", "B"}
  Qtys = {1, 2}
  Prices = {1, 3}
  Fee = 1
  MaxTrades = 3
  Settings <- LimitsSet
  Balances = {0, 40}
  Callers = {"c1", "c2"}
  MaxAttempts = 2
  Threshold = 2
  ProbeInterval = 2
  MaxToolRounds = 2
  MaxToolExecutions = 2
  MaxCallsPerRound = 3
  Horizons = {1, 2}
  Close = 3
  Delay = 1
  DefaultDelay = 2
  Grace = 1
  Samples <- Snapshots
  Target = 3
  Stop = 1
  End = 4
  Builtins = {"NORMAL", "HIGH"}
  Customs = {}
  Default = "NORMAL"
  Fields = {"size"}
  Values = {1, 2}
  Shipped <- ProfileLimits
  Spellings = {"exact"}
  Admins = {"a1", "a2"}
  MaxRequests = 2
INVARIANTS LossNotMissed ReplayIsMarkToMarket DecisionBounded  ResolvesStored
PROPERTIES Recovers  DeclinedLeaves EveryLayerHolds ExitNotShutOut 
CHECK_DEADLOCK FALSE
