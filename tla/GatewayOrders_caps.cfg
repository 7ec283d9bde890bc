SPECIFICATION OrdersSpec
CONSTANTS
  r1 = r1
  r2 = r2
  r3 = r3
  r4 = r4
  Requests <- FourRequests
  SymOf <- Symbols
  SideOf <- Sides
  PerDay = 2
  PerSymbol = 1
  MaxRestarts = 1
  MaxRefusals = 1
INVARIANTS CapsHold NoStuckKey
CHECK_DEADLOCK FALSE
