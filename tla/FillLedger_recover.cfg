SPECIFICATION FairSpec
CONSTANTS
  r1 = r1
  r2 = r2
  e1 = e1
  e2 = e2
  a1 = a1
  a2 = a2
  k1 = k1
  k2 = k2
  NoAcc = NoAcc
  Rows = {r1}
  ExecOf <- SoloExec
  SideOf <- SoloBuy
  AccOf <- SoloAcc
  Accounts = {a1}
  Lots = 3
  Reconcilers = {k1}
  MaxSyncs = 1
  MaxFaults = 1
  MaxSwitches = 0
  MaxHand = 0
PROPERTIES FillsRecovered
