SPECIFICATION FairSpec
CONSTANTS
  r1 = r1
  r2 = r2
  NoReq = NoReq
  Requests = {r1}
  SymOf <- SameSym
  SideOf <- AllBuy
  ShapeOf <- SameShape
  Qty = 2
  ExFinals = {"FILLED", "CANCELED"}
  MaxFaults = 1
  MaxStops = 0
  MaxLost = 1
  MaxInFlight = 2
INVARIANTS FilledNeverAhead CashCoversExposure
PROPERTY LedgerConverges
