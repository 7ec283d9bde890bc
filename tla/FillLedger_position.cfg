SPECIFICATION FairSpec
CONSTANTS
  r1 = r1
  r2 = r2
  e1 = e1
  e2 = e2
  a1 = a1
  a2 = a2
  k1 = k1
  k2 = k2
  NoAcc = NoAcc
  Rows = {r1, r2}
  ExecOf <- OwnExec
  SideOf <- BuySell
  AccOf <- SameAcc
  Accounts = {a1, a2}
  Lots = 2
  Reconcilers = {k1}
  MaxSyncs = 0
  MaxFaults = 2
  MaxSwitches = 1
  MaxHand = 1
INVARIANTS FillsAreReal
PROPERTIES QtyConverges FlatCloses
