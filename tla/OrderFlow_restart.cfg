SPECIFICATION Spec
CONSTANTS
  r1 = r1
  r2 = r2
  NoReq = NoReq
  Requests = {r1, r2}
  SymOf <- SameSym
  SideOf <- AllSell
  ShapeOf <- SameShape
  Qty = 1
  ExFinals = {"FILLED", "CANCELED"}
  MaxFaults = 1
  MaxStops = 1
  MaxLost = 0
  MaxInFlight = 1
INVARIANTS FinalIsTrue SentOnce OneLivePerKey
PROPERTY ImplementsBook
