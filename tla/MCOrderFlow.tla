----------------------------- MODULE MCOrderFlow -----------------------------
(***************************************************************************)
(* Small instances of OrderFlow.                                           *)
(***************************************************************************)
EXTENDS OrderFlow, TLC

CONSTANTS r1, r2

\* Two BUY orders of one symbol at one price.
SameSym   == [r \in Requests |-> "THYAO"]
AllBuy    == [r \in Requests |-> "BUY"]
AllSell   == [r \in Requests |-> "SELL"]
SameShape == [r \in Requests |-> 1]

\* A BUY and a SELL of one symbol, with the same lots and price.
BuyThenSell == [r \in Requests |-> IF r = r1 THEN "BUY" ELSE "SELL"]

Symmetry == Permutations(Requests)
=============================================================================
