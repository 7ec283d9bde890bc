---------------------------- MODULE MCGatewayOrders ----------------------------
(* Two orders of one symbol and one each of two others, in one day.              *)
EXTENDS GatewayOrders, TLC

CONSTANTS r1, r2, r3, r4

FourRequests == {r1, r2, r3, r4}
Symbols == r1 :> "THYAO" @@ r2 :> "THYAO" @@ r3 :> "AKBNK" @@ r4 :> "GARAN"
Sides == r1 :> "BUY" @@ r2 :> "SELL" @@ r3 :> "BUY" @@ r4 :> "BUY"
================================================================================
