------------------------- MODULE MCCashReservation -------------------------
\* Two dispatchers and two BUYs of different symbols: the smallest instance
\* where one sizes between another's reservation, fill and callback.
EXTENDS CashReservation, TLC

CONSTANTS r1, r2, r3, s1, s2, w1, w2

MCSymOf == (r1 :> s1) @@ (r2 :> s2)
MCSymOf3 == (r1 :> s1) @@ (r2 :> s2) @@ (r3 :> s1)
NoManual == [s \in {s1, s2} |-> 0]
=============================================================================
