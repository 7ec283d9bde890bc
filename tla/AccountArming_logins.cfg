SPECIFICATION FairSpec
CONSTANTS
  a1 = a1
  a2 = a2
  NoAcc = NoAcc
  Accounts = {a1, a2}
  First = {a1}
  Real = {a1, a2}
  MaxSwitches = 1
  MaxGwStarts = 1
  MaxSrvStarts = 1
  MaxArms = 1
INVARIANTS SendsAreAuthorised
PROPERTIES ArmedIsLive GatewayFollows
