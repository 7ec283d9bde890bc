----------------------------- MODULE RiskRules -----------------------------
(***************************************************************************)
(* What the server lets a decision of the model become: the three layers   *)
(* of limits and their strictest values, the risk engine, the sizing of a  *)
(* purchase, and the checks that dispatch repeats with the limits of that  *)
(* later moment.  Between the two the operator may change every setting.   *)
(*                                                                         *)
(* One symbol, which has at most one live order (OrderFlow), so nothing of *)
(* it is reserved when it is sized; the reservations and positions of the  *)
(* other symbols are one number.  Money is in units of one TL, the         *)
(* divisions of Decimal are products here.                                 *)
(***************************************************************************)
EXTENDS Integers

CONSTANTS
  Environment,  \* EnvironmentRiskLimits
  Systems,      \* SystemRiskConfig: what the operator may set
  Profiles,     \* trade profiles
  Price,        \* the market's; lots are valued at it
  Entries, Risks, Rewards, \* limit prices, and the way to the stop and the target
  Confidences, Allocations,
  Looks,        \* technical features
  Equities, Cashes,
  OtherSymbols,       \* TL committed to other symbols
  OwnLots,        \* the operator's own lots
  Protected,    \* lockedLongTermQty
  Regimes       \* of "NORMAL", "HIGH_VOLATILITY", "DOWNTREND"

\* RiskConfigLayer. budget is read from the system's layer only.
Layer == [riskPct : Nat, cashPct : Nat, symbolValue : Nat, orderValue : Nat, maxQty : Nat,
          minOrder : Nat, minStop : Nat, maxStop : Nat, minSlip : Nat, maxSlip : Nat, slip : Nat,
          minConf : Nat, sellConf : Nat, perDay : Nat, budget : Nat, enabled : BOOLEAN]

ASSUME LayersAssumption ==
  /\ Environment \in Layer /\ Systems \subseteq Layer /\ Profiles \subseteq Layer
ASSUME NumbersAssumption ==
  /\ Price \in Nat /\ Entries \subseteq Nat \ {0} /\ Risks \subseteq Nat /\ Rewards \subseteq Nat
  /\ Confidences \subseteq Nat /\ Allocations \subseteq Nat /\ Equities \subseteq Nat
  /\ Cashes \subseteq Nat /\ OtherSymbols \subseteq Nat /\ OwnLots \subseteq Nat /\ Protected \subseteq Nat

VARIABLES
  sys, prof,  \* the system's layer, the active profile
  listed,     \* "trade": allowed and on the active watch list; "allowed": not on it; "declined"
  locked,     \* in lockedLongTermSymbols, and the profile does not sell those
  regime,     \* of the index
  lots,       \* the bot's lots
  order,      \* the live order
  decision,   \* the response of the last evaluation
  count       \* the symbol's orders of the day

riskVars == <<sys, prof, listed, locked, regime, lots, order, decision, count>>
settings == <<sys, prof, listed, locked, regime>>

\* stop: what is at risk per lot.
None == [act |-> "NONE", qty |-> 0, limit |-> 0, stop |-> 0, conf |-> 0, alloc |-> 0]
Responses == [act : {"NONE", "BUY", "SELL"}, qty : Nat, limit : Nat, stop : Nat, conf : Nat, alloc : Nat]

RiskInit ==
  /\ sys \in Systems /\ prof \in Profiles
  /\ listed = "trade" /\ locked = FALSE /\ regime \in Regimes
  /\ lots = 0 /\ order = None /\ decision = None /\ count = 0

-----------------------------------------------------------------------------
(* EffectiveRiskConfigResolver.                                            *)

Lower(a, b) == IF a <= b THEN a ELSE b
Higher(a, b) == IF a >= b THEN a ELSE b

\* Mutation: the profile is asked for the value of an order, as for the number of the day.
EffectiveOfProfile(s, p) ==
  LET most(f)  == Lower(Environment[f], Lower(s[f], p[f]))
      least(f) == Higher(Environment[f], Higher(s[f], p[f]))
  IN  [riskPct |-> most("riskPct"), cashPct |-> most("cashPct"), symbolValue |-> most("symbolValue"),
       orderValue |-> p.orderValue, maxQty |-> most("maxQty"), maxStop |-> most("maxStop"),
       maxSlip |-> most("maxSlip"), perDay |-> most("perDay"),
       minOrder |-> least("minOrder"), minStop |-> least("minStop"), minSlip |-> least("minSlip"),
       minConf |-> least("minConf"), sellConf |-> least("sellConf"),
       slip |-> Lower(most("maxSlip"), Higher(least("minSlip"), least("slip"))),
       budget |-> s.budget, enabled |-> Environment.enabled /\ s.enabled /\ p.enabled]

\* The least of the maxima, the greatest of the minima, every permission.
Effective(s, p) ==
  LET most(f)  == Lower(Environment[f], Lower(s[f], p[f]))
      least(f) == Higher(Environment[f], Higher(s[f], p[f]))
  IN  [riskPct |-> most("riskPct"), cashPct |-> most("cashPct"), symbolValue |-> most("symbolValue"),
       orderValue |-> most("orderValue"), maxQty |-> most("maxQty"), maxStop |-> most("maxStop"),
       maxSlip |-> most("maxSlip"), perDay |-> most("perDay"),
       minOrder |-> least("minOrder"), minStop |-> least("minStop"), minSlip |-> least("minSlip"),
       minConf |-> least("minConf"), sellConf |-> least("sellConf"),
       slip |-> Lower(most("maxSlip"), Higher(least("minSlip"), least("slip"))),
       budget |-> s.budget, enabled |-> Environment.enabled /\ s.enabled /\ p.enabled]

\* resolve raises otherwise.
Consistent(s, p) ==
  LET l == Effective(s, p) IN l.minStop <= l.maxStop /\ l.minSlip <= l.maxSlip

-----------------------------------------------------------------------------
(* PositionSizingService.calculate_buy_size.                               *)

Account == [equity : Equities, cash : Cashes, others : OtherSymbols, own : OwnLots]
Capital(a, l) == Lower(a.equity, l.budget)

\* 100 times what a lot loses at its stop, slippage included.
LossOf(d, slip) == d.stop * 100 + d.limit * slip

\* The seven candidates: n lots are no more than each of them.
Fits(n, d, a, l) ==
  /\ n * LossOf(d, l.slip) <= Capital(a, l) * l.riskPct
  /\ n * d.limit * 100 <= a.cash * l.cashPct
  /\ n * d.limit + (lots + a.own) * Price <= l.symbolValue
  /\ n * d.limit + lots * Price + a.others <= Capital(a, l)
  /\ (n * d.limit + lots * Price) * 100 <= Capital(a, l) * d.alloc
  /\ n * d.limit <= l.orderValue
  /\ n <= l.maxQty

Sizable(d, l) ==
  /\ l.enabled
  /\ d.conf >= l.minConf
  /\ d.stop > 0 /\ d.stop < d.limit
  /\ d.stop * 100 >= l.minStop * d.limit
  /\ d.stop * 100 <= l.maxStop * d.limit

\* n is the least candidate, and enough for an order.
Sized(n, d, a, l) ==
  /\ Sizable(d, l)
  /\ n > 0 /\ Fits(n, d, a, l) /\ ~Fits(n + 1, d, a, l)
  /\ n * d.limit >= l.minOrder

-----------------------------------------------------------------------------
(* RiskEngine.evaluate.                                                    *)

Opposite == [BUY |-> "SELL", SELL |-> "BUY"]

\* bid_liquidity_block_reason: ready is "none" for a gateway without the rolling metric,
\* drops are the last ones beyond the profile's limit.
LiquidityGone(x) ==
  CASE x.ready = "none" -> x.legacy
    [] x.ready = "no" -> TRUE
    [] OTHER -> x.drops = <<TRUE, TRUE>> /\ x.legacy

\* _technical_feature_block_reason; book: what is beyond the profile's limits.
Danger(act, x) ==
  \/ act = "BUY" /\ (x.oldQuote \/ (x.reliable /\ x.book) \/ x.volatile \/ LiquidityGone(x))
  \/ x.trend = Opposite[act]

\* Mutation: only listed symbols are traded at all.
SymbolGateClosed(act) ==
  \/ act = "BUY" /\ listed = "trade"
  \/ act = "SELL" /\ listed # "declined"

\* What is lots may be sold although its symbol is not allowed any more.
SymbolGate(act) ==
  \/ act = "BUY" /\ listed = "trade"
  \/ act = "SELL" /\ (listed # "declined" \/ lots > 0)

\* demo: a verified demonstration account with the override of a falling market.
RegimeGate(act, demo) == (act = "BUY" /\ regime = "DOWNTREND") => demo

ConfidenceFloor(act) ==
  IF act = "SELL" THEN prof.sellConf
  ELSE prof.minConf + IF regime = "HIGH_VOLATILITY" THEN 15 ELSE 0

LockGate(act) == act = "SELL" => ~locked

Confident(act, conf) == conf >= ConfidenceFloor(act)

RulesPass(act, conf, x, demo) ==
  /\ SymbolGate(act) /\ RegimeGate(act, demo) /\ LockGate(act)
  /\ count < prof.perDay
  /\ ~Danger(act, x)
  /\ Confident(act, conf)

\* What the model may answer when it wants to buy.
Answers == [act : {"BUY"}, qty : {0}, limit : Entries, stop : Risks, conf : Confidences, alloc : Allocations]

\* A purchase needs a target at 1.5 times its risk, and a size; the static engine, which
\* decides where the layers cannot be resolved, has no budget to size with.
Proposed(d) ==
  /\ \E x \in Looks, demo \in BOOLEAN : RulesPass("BUY", d.conf, x, demo)
  /\ \E reward \in Rewards : 2 * reward >= 3 * d.stop
  /\ \E a \in Account, n \in 1..Effective(sys, prof).maxQty : Sized(n, d, a, Effective(sys, prof))

EvaluateBuy ==
  /\ decision = None
  /\ Consistent(sys, prof)
  /\ \E d \in Answers : Proposed(d) /\ decision' = d
  /\ UNCHANGED <<settings, lots, order, count>>

\* The lots of the bot that are not protected; without a configuration the environment's
\* own rules decide, which may let the rest pass.
Sellable == {Lower(lots, lots + own - protected) : own \in OwnLots, protected \in Protected} \ {0}

EvaluateSell ==
  /\ decision = None /\ lots > 0
  /\ IF Consistent(sys, prof)
     THEN \E conf \in Confidences, x \in Looks : RulesPass("SELL", conf, x, FALSE)
     ELSE count < Environment.perDay
  /\ \E n \in Sellable :
       /\ n > 0
       /\ decision' = [None EXCEPT !.act = "SELL", !.qty = n, !.limit = Price]
  /\ UNCHANGED <<settings, lots, order, count>>

-----------------------------------------------------------------------------
(* _maybe_send_order, as far as the limits go.                             *)

\* Stale, refused, or lost.
Dropped ==
  /\ decision # None
  /\ decision' = None
  /\ UNCHANGED <<settings, lots, order, count>>

\* reserve_sized_buy sizes again, with the account and the limits of now. Of the lists only
\* the watch list is asked again, where a declined symbol may still be.
DispatchBuy ==
  /\ decision.act = "BUY" /\ order = None
  /\ Consistent(sys, prof) /\ listed # "allowed"
  /\ \E a \in Account, n \in 1..Effective(sys, prof).maxQty :
       /\ Sized(n, decision, a, Effective(sys, prof))
       /\ order' = [decision EXCEPT !.qty = n]
  /\ decision' = None /\ count' = count + 1
  /\ UNCHANGED <<settings, lots>>

\* A sale is cut to an order's limits; one of no lot raises.
DispatchSell ==
  LET l == Effective(sys, prof)
  IN  /\ decision.act = "SELL" /\ order = None
      /\ Consistent(sys, prof) /\ ~locked
      /\ \E n \in 1..Lower(decision.qty, l.maxQty) :
           /\ n * decision.limit <= l.orderValue
           /\ n = Lower(decision.qty, l.maxQty) \/ (n + 1) * decision.limit > l.orderValue
           /\ order' = [decision EXCEPT !.qty = n]
      /\ decision' = None /\ count' = count + 1
      /\ UNCHANGED <<settings, lots>>

\* The exchange, all at once or not at all; the gateway sells no more than the bot owns.
Filled ==
  /\ order # None
  /\ lots' = IF order.act = "BUY" THEN lots + order.qty ELSE lots - Lower(lots, order.qty)
  /\ order' = None
  /\ UNCHANGED <<settings, decision, count>>
Sold == order.act = "SELL" /\ Filled
Cancelled ==
  /\ order # None
  /\ order' = None
  /\ UNCHANGED <<settings, lots, decision, count>>

-----------------------------------------------------------------------------
(* The operator, the index, the clock.                                     *)

Activate == prof' \in Profiles \ {prof} /\ UNCHANGED sys
SystemConfig == sys' \in Systems \ {sys} /\ UNCHANGED prof
Configured ==
  /\ \/ (Activate \/ SystemConfig) /\ UNCHANGED <<listed, locked, regime>>
     \/ listed' \in {"trade", "allowed", "declined"} \ {listed} /\ UNCHANGED <<sys, prof, locked, regime>>
     \/ locked' = ~locked /\ UNCHANGED <<sys, prof, listed, regime>>
     \/ regime' \in Regimes \ {regime} /\ UNCHANGED <<sys, prof, listed, locked>>
  /\ UNCHANGED <<lots, order, decision, count>>

NextDay ==
  /\ count > 0 /\ count' = 0
  /\ UNCHANGED <<settings, lots, order, decision>>

Ended == Filled \/ Cancelled
Evaluate == EvaluateBuy \/ EvaluateSell
DispatchNow == DispatchBuy \/ DispatchSell
RiskNext == Evaluate \/ DispatchNow \/ Dropped \/ Ended \/ Configured \/ NextDay

\* The model keeps finding reasons to sell, each tick, and the orders come to an end, now
\* and then with a fill; days pass.
RiskFairness ==
  /\ SF_riskVars(EvaluateSell) /\ SF_riskVars(DispatchSell) /\ SF_riskVars(Sold)
  /\ WF_riskVars(Ended) /\ WF_riskVars(Dropped) /\ WF_riskVars(NextDay)

RiskSpec == RiskInit /\ [][RiskNext]_riskVars /\ RiskFairness

-----------------------------------------------------------------------------
(* Properties.                                                             *)

RiskTypeOK ==
  /\ sys \in Systems /\ prof \in Profiles
  /\ lots \in Nat /\ count \in Nat
  /\ order \in Responses /\ decision \in Responses

\* What layer l by itself has to say of a new purchase o.
Permits(l, o) ==
  /\ l.enabled
  /\ o.conf >= l.minConf
  /\ o.qty <= l.maxQty
  /\ o.qty * o.limit <= l.orderValue
  /\ o.qty * o.limit >= l.minOrder
  /\ o.qty * o.limit + lots * Price <= l.symbolValue
  /\ o.stop * 100 >= l.minStop * o.limit /\ o.stop * 100 <= l.maxStop * o.limit
  /\ o.qty * LossOf(o, l.minSlip) <= sys.budget * l.riskPct

Bought == order = None /\ order'.act = "BUY"

\* Every purchase that is sent is one that each of the three layers, as it is when the order
\* goes out, permits by itself and within the bot's budget, whatever was configured when it was
\* decided: "a profile can therefore never relax a global safety boundary".
EveryLayerHolds ==
  [][Bought => /\ \A l \in {Environment, sys, prof} : Permits(l, order')
               /\ order'.qty * order'.limit + lots * Price <= sys.budget]_riskVars

\* What the bot holds of a symbol that may not be bought any more is sold: no list, regime,
\* number of the day nor earlier setting traps it, as long as the layers agree, the symbol
\* is not locked and a lot is within an order's limits (risk_config.py: "so holdings never
\* get trapped").
ExitNotShutOut ==
  <>[](/\ listed # "trade" /\ ~locked
       /\ Consistent(sys, prof) /\ Price <= Effective(sys, prof).orderValue)
    => []<>(lots = 0)
=============================================================================
