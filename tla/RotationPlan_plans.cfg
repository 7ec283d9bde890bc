SPECIFICATION FairSpec
CONSTANTS
  Lots = 2
  MaxPlans = 2
  MaxOthers = 1
  MaxHand = 1
  MaxFaults = 1
INVARIANTS BuyOnceAfterSale EndedCleanly
PROPERTIES NoCompetingBuy PlansMove
