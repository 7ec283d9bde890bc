---------------------------- MODULE MCFillLedger ----------------------------
\* Small instances of FillLedger: two BUYs, a BUY and its SELL, or one BUY the
\* gateway reports under two rows.
EXTENDS FillLedger, TLC

CONSTANTS r1, r2, e1, e2, a1, a2, k1, k2

OwnExec   == (r1 :> e1) @@ (r2 :> e2)
OneExec   == (r1 :> e1) @@ (r2 :> e1)
TwoBuys   == (r1 :> "BUY") @@ (r2 :> "BUY")
BuySell   == (r1 :> "BUY") @@ (r2 :> "SELL")
SoloExec  == r1 :> e1
SoloBuy   == r1 :> "BUY"
SoloAcc   == r1 :> a1
SameAcc   == (r1 :> a1) @@ (r2 :> a1)
SecondRow == (r1 :> a1) @@ (r2 :> NoAcc)
=============================================================================
