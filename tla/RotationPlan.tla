---------------------------- MODULE RotationPlan ----------------------------
(***************************************************************************)
(* The rotation plan: sell a weaker holding of the bot, wait until the     *)
(* account shows the sale, then buy a better symbol.                       *)
(*                                                                         *)
(* A plan is a row of rotation_plans.  Each scanner tick advances the      *)
(* active plan by at most one state before it trades, and may create a     *)
(* plan after it traded.  What the plan waits for happens elsewhere: its   *)
(* orders are executed and reported, the gateway reloads its positions,    *)
(* the owner trades by hand, an admin disables rotation, either process    *)
(* restarts.                                                               *)
(*                                                                         *)
(* One account, one source and one target symbol.  Reserving and sending   *)
(* an order is one step (OrderFlow has what may come between), and a       *)
(* report carries what the order executed.  `dispatch` and `evaluate` are  *)
(* parameters of advance_rotation_plan: a dispatch may refuse for reasons  *)
(* of its own, and the one the scanner passes refuses every SELL, since    *)
(* its audit gate asks for a row with allow_order (Audited in              *)
(* ExitDispatch) and a plan writes one without.                            *)
(***************************************************************************)
EXTENDS Integers, Sequences, FiniteSetsExt, Functions

CONSTANTS
  Lots,         \* lots of the source symbol the bot holds at first
  MaxPlans,     \* rotationMaxPerDay
  MaxOthers,    \* bound: orders of the evaluation, per side
  MaxHand,      \* bound: lots the owner buys by hand
  MaxFaults     \* bound: crashes, failed reads, restarts of the gateway, disablings

ASSUME ConstantsAssumption ==
  /\ {Lots, MaxPlans} \subseteq Nat \ {0}
  /\ {MaxOthers, MaxHand, MaxFaults} \subseteq Nat

ACTIVE == {"PLANNED", "SELL_PENDING", "SELL_FILLED_WAIT_REFRESH",
           "CASH_CONFIRMED", "BUY_PENDING", "MANUAL_REVIEW"}
ENDED  == {"ABORTED", "EXPIRED", "COMPLETED"}

VARIABLES
  plans,      \* rotation_plans: state, source_qty, fill generation, BUY ids so far, age
  rows,       \* order_logs by request id, with what the exchange executed
  account,    \* external: lots of the source symbol in the account
  gw,         \* gateway: its position snapshot and the snapshot's generation
  disabled,   \* portfolioRotationEnabled is off
  tick,       \* scanner: its step, and whether BUYs are blocked in this tick
  hand, faults

vars == <<plans, rows, account, gw, disabled, tick, hand, faults>>

\* plan 0 are the orders of the evaluation; a plan's SELL has one id, its BUYs
\* have the id of the decision they come from.
Id(p, side, n) == [plan |-> p, side |-> side, n |-> n]
SellOf(p)      == Id(p, "SELL", 1)
BuyOf(p)       == Id(p, "BUY", plans[p].buy)
NoId           == Id(0, "none", 0)
NoGen          == -1
FINAL          == {"FILLED", "CANCELED", "REJECTED"}

Pending(side) == \E id \in DOMAIN rows : id.side = side /\ rows[id].st = "PENDING"

\* load_bot_ownership of the source symbol.
Sells == {id \in DOMAIN rows : id.side = "SELL"}
Owned == Max({0, Lots - SumFunction([id \in Sells |-> rows[id].filled])})

\* _strict_source_qty: the account's lots are the bot's, all of them, and free.
StrictSource(qty) == qty > 0 /\ gw.loaded /\ gw.seen = qty /\ Owned = qty /\ ~Pending("SELL")

Active == {p \in DOMAIN plans : plans[p].st \in ACTIVE}
State(st) == {p \in Active : plans[p].st = st}

Init ==
  /\ plans = <<>> /\ rows = <<>> /\ account = Lots
  /\ gw = [gen |-> 1, seen |-> Lots, loaded |-> TRUE]
  /\ disabled = FALSE /\ tick = [step |-> "idle", blocked |-> FALSE, id |-> NoId]
  /\ hand = 0 /\ faults = 0

Fault == faults < MaxFaults /\ faults' = faults + 1
Trade(blocked) == tick' = [step |-> "trade", blocked |-> blocked, id |-> NoId]
Send(id) == tick' = [step |-> "dispatch", blocked |-> TRUE, id |-> id]

-----------------------------------------------------------------------------
(* advance_rotation_plan: one state per tick.                              *)

NoPlan ==
  /\ tick.step = "idle" /\ Active = {}
  /\ Trade(FALSE)
  /\ UNCHANGED <<plans, rows, account, gw, disabled, hand, faults>>

\* Whatever fails in the advance ends it; BUYs are blocked all the same.
\* Mutation: the tick goes on as if there were no plan.
RaisedUnblocked == Trade(FALSE)
Raised == Trade(TRUE)
AdvanceFails ==
  /\ tick.step = "idle" /\ Fault /\ Raised
  /\ UNCHANGED <<plans, rows, account, gw, disabled, hand>>

Set(p, st) == plans' = [plans EXCEPT ![p].st = st]
Settle(p, st) ==
  /\ tick.step = "idle" /\ Set(p, st) /\ Trade(TRUE)
  /\ UNCHANGED <<rows, account, gw, disabled, hand, faults>>

Over(p) == disabled \/ plans[p].age = "expired"

\* Only a plan without an order under way is stopped.
Stop ==
  \/ \E p \in State("PLANNED") : Over(p) /\ Settle(p, IF disabled THEN "ABORTED" ELSE "EXPIRED")
  \/ \E p \in State("CASH_CONFIRMED") : Over(p) /\ Settle(p, "MANUAL_REVIEW")
  \/ \E p \in State("SELL_PENDING") :
       SellOf(p) \notin DOMAIN rows /\ Over(p) /\ Settle(p, IF disabled THEN "ABORTED" ELSE "EXPIRED")

\* The source is checked and SELL_PENDING committed before the SELL is sent.
SellPlanned ==
  \E p \in State("PLANNED") :
    /\ tick.step = "idle" /\ plans[p].age = "due" /\ ~Over(p)
    /\ \/ Set(p, "ABORTED") /\ Trade(TRUE)
       \/ StrictSource(plans[p].qty) /\ Set(p, "SELL_PENDING") /\ Send(SellOf(p))
    /\ UNCHANGED <<rows, account, gw, disabled, hand, faults>>

\* A SELL that is not in the ledger was refused or never sent: once more.
SellAgain ==
  \E p \in State("SELL_PENDING") :
    /\ tick.step = "idle" /\ SellOf(p) \notin DOMAIN rows /\ ~Over(p)
    /\ Send(SellOf(p))
    /\ UNCHANGED <<plans, rows, account, gw, disabled, hand, faults>>

Sold(p) == rows[SellOf(p)].st = "FILLED" /\ rows[SellOf(p)].filled >= plans[p].qty

\* Mutation: an order without fills in the ledger aborts the plan.
SellEndedUnsold(p) == rows[SellOf(p)].filled = 0
SellEnded(p) == rows[SellOf(p)].st \in FINAL

SellSettles ==
  \E p \in State("SELL_PENDING") :
    /\ tick.step = "idle" /\ SellOf(p) \in DOMAIN rows
    /\ IF Sold(p)
       THEN plans' = [plans EXCEPT ![p].st = "SELL_FILLED_WAIT_REFRESH", ![p].gen = gw.gen]
       ELSE SellEnded(p) /\ Set(p, IF rows[SellOf(p)].filled > 0 THEN "MANUAL_REVIEW" ELSE "ABORTED")
    /\ Trade(TRUE)
    /\ UNCHANGED <<rows, account, gw, disabled, hand, faults>>

\* A later snapshot without the source, and an account read since.
Refreshed(p) == gw.loaded /\ gw.seen = 0 /\ Owned = 0 /\ gw.gen > plans[p].gen
ConfirmCash ==
  \E p \in State("SELL_FILLED_WAIT_REFRESH") : Refreshed(p) /\ Settle(p, "CASH_CONFIRMED")

\* The target is evaluated anew; its request id is committed before it is sent.
\* Mutation: sent first, committed with the next state.
BuySentFirst(p) == plans' = [plans EXCEPT ![p].buy = @ + 1]
BuyCommitted(p) == plans' = [plans EXCEPT ![p].st = "BUY_PENDING", ![p].buy = @ + 1]

BuyConfirmed ==
  \E p \in State("CASH_CONFIRMED") :
    /\ tick.step = "idle" /\ ~Over(p)
    /\ \/ Set(p, "MANUAL_REVIEW") /\ Trade(TRUE)
       \/ BuyCommitted(p) /\ Send(Id(p, "BUY", plans[p].buy + 1))
    /\ UNCHANGED <<rows, account, gw, disabled, hand, faults>>

\* Mutation: a BUY missing in the ledger is waited for.
BuyOutcomeWaits(id) == IF id \notin DOMAIN rows THEN "BUY_PENDING"
                       ELSE IF rows[id].st = "FILLED" THEN "COMPLETED" ELSE "MANUAL_REVIEW"
BuyOutcome(id) == IF id \in DOMAIN rows /\ rows[id].st = "FILLED" THEN "COMPLETED" ELSE "MANUAL_REVIEW"

BuySettles ==
  \E p \in State("BUY_PENDING") :
    /\ BuyOf(p) \in DOMAIN rows => rows[BuyOf(p)].st \in FINAL
    /\ Settle(p, BuyOutcome(BuyOf(p)))

\* The plan waits: for its time, its orders, the refresh, the target, a person.
Waits ==
  /\ tick.step = "idle" /\ Active # {} /\ Trade(TRUE)
  /\ \A p \in Active :
       \/ plans[p].st = "PLANNED" /\ plans[p].age = "early" /\ ~Over(p)
       \/ plans[p].st = "SELL_PENDING" /\ SellOf(p) \in DOMAIN rows /\ rows[SellOf(p)].st \notin FINAL
       \/ plans[p].st = "SELL_FILLED_WAIT_REFRESH" /\ ~Refreshed(p)
       \/ plans[p].st = "CASH_CONFIRMED" /\ ~Over(p)
       \/ plans[p].st = "BUY_PENDING" /\ BuyOf(p) \in DOMAIN rows /\ rows[BuyOf(p)].st \notin FINAL
       \/ plans[p].st = "MANUAL_REVIEW"
  /\ UNCHANGED <<plans, rows, account, gw, disabled, hand, faults>>

Advance ==
  \/ NoPlan \/ AdvanceFails \/ Stop \/ SellPlanned \/ SellAgain \/ SellSettles
  \/ ConfirmCash \/ BuyConfirmed \/ BuySettles \/ Waits

-----------------------------------------------------------------------------
(* Orders.                                                                 *)

Row(want) == [st |-> "PENDING", filled |-> 0, done |-> 0, want |-> want, over |-> FALSE]
Insert(id, want) ==
  /\ id \notin DOMAIN rows /\ ~Pending(id.side)
  /\ rows' = [i \in DOMAIN rows \union {id} |-> IF i = id THEN Row(want) ELSE rows[i]]

\* dispatch: refused by some gate, or reserved and sent.
Dispatch ==
  LET id == tick.id IN
  /\ tick.step = "dispatch" /\ Trade(TRUE)
  /\ \/ UNCHANGED rows
     \/ Insert(id, IF id.side = "SELL" THEN plans[id.plan].qty ELSE 1)
  /\ UNCHANGED <<plans, account, gw, disabled, hand, faults>>

\* The evaluation sells the source, or buys unless the plan blocks it.
EvaluationSells ==
  /\ tick.step = "trade" /\ Owned > 0
  /\ \E n \in 1..MaxOthers : Insert(Id(0, "SELL", n), Owned)
  /\ UNCHANGED <<plans, account, gw, disabled, tick, hand, faults>>
EvaluationBuys ==
  /\ tick.step = "trade" /\ ~tick.blocked
  /\ \E n \in 1..MaxOthers : Insert(Id(0, "BUY", n), 1)
  /\ UNCHANGED <<plans, account, gw, disabled, tick, hand, faults>>

Execute ==
  /\ \E id \in DOMAIN rows :
       /\ ~rows[id].over /\ rows[id].done < rows[id].want
       /\ id.side = "SELL" => account > 0
       /\ rows' = [rows EXCEPT ![id].done = @ + 1, ![id].over = @ \/ rows[id].done + 1 = rows[id].want]
       /\ account' = IF id.side = "SELL" THEN account - 1 ELSE account
  /\ UNCHANGED <<plans, gw, disabled, tick, hand, faults>>

\* Cancelled, rejected, or refused by the gateway.
EndOrder ==
  /\ \E id \in DOMAIN rows : ~rows[id].over /\ rows' = [rows EXCEPT ![id].over = TRUE]
  /\ UNCHANGED <<plans, account, gw, disabled, tick, hand, faults>>

Reported(r) == [r EXCEPT !.filled = r.done,
  !.st = IF ~r.over THEN "PENDING" ELSE IF r.done = r.want THEN "FILLED"
         ELSE IF r.done > 0 THEN "CANCELED" ELSE "REJECTED"]
Report ==
  /\ \E id \in DOMAIN rows : rows[id] # Reported(rows[id]) /\ rows' = [rows EXCEPT ![id] = Reported(@)]
  /\ UNCHANGED <<plans, account, gw, disabled, tick, hand, faults>>

-----------------------------------------------------------------------------
(* The end of the tick, and the rest.                                      *)

\* maybe_create_rotation_plan, under the account's advisory lock.
Create ==
  /\ tick.step = "trade" /\ ~tick.blocked /\ ~disabled
  /\ Active = {} /\ Len(plans) < MaxPlans /\ ~Pending("SELL") /\ ~Pending("BUY")
  /\ StrictSource(Owned)
  /\ plans' = Append(plans, [st |-> "PLANNED", qty |-> Owned, gen |-> NoGen, buy |-> 0, age |-> "early"])
  /\ tick' = [tick EXCEPT !.step = "idle"]
  /\ UNCHANGED <<rows, account, gw, disabled, hand, faults>>

TickEnd ==
  /\ tick.step = "trade" /\ tick' = [tick EXCEPT !.step = "idle"]
  /\ UNCHANGED <<plans, rows, account, gw, disabled, hand, faults>>

\* The gateway reloads its positions (one that brings nothing is left out).
Load ==
  /\ \/ gw.seen # account \/ ~gw.loaded
     \/ \E p \in State("SELL_FILLED_WAIT_REFRESH") : gw.gen <= plans[p].gen
  /\ gw' = [gen |-> gw.gen + 1, seen |-> account, loaded |-> TRUE]
  /\ UNCHANGED <<plans, rows, account, disabled, tick, hand, faults>>

GatewayRestart ==
  /\ Fault /\ gw' = [gen |-> 0, seen |-> 0, loaded |-> FALSE]
  /\ UNCHANGED <<plans, rows, account, disabled, tick, hand>>

ServerCrash ==
  /\ tick.step # "idle" /\ Fault /\ tick' = [step |-> "idle", blocked |-> FALSE, id |-> NoId]
  /\ UNCHANGED <<plans, rows, account, gw, disabled, hand>>

Disable ==
  /\ ~disabled /\ Fault /\ disabled' = TRUE
  /\ UNCHANGED <<plans, rows, account, gw, tick, hand>>

HandBuy ==
  /\ hand < MaxHand /\ hand' = hand + 1 /\ account' = account + 1
  /\ UNCHANGED <<plans, rows, gw, disabled, tick, faults>>

\* not_before, then expires_at.
Ages ==
  /\ \E p \in Active : plans[p].age # "expired" /\
       plans' = [plans EXCEPT ![p].age = IF @ = "early" THEN "due" ELSE "expired"]
  /\ UNCHANGED <<rows, account, gw, disabled, tick, hand, faults>>

Tick == Advance \/ Dispatch \/ EvaluationSells \/ EvaluationBuys \/ Create \/ TickEnd

Next ==
  \/ Tick \/ Execute \/ EndOrder \/ Report
  \/ Load \/ GatewayRestart \/ ServerCrash \/ Disable \/ HandBuy \/ Ages

Spec == Init /\ [][Next]_vars

\* The scanner ticks, orders are reported, positions are reloaded and time passes;
\* the exchange, the owner and the admin owe nothing.
FairSpec == Spec /\ WF_vars(Tick) /\ WF_vars(Report) /\ WF_vars(Load) /\ WF_vars(Ages)

-----------------------------------------------------------------------------
(* Properties.                                                             *)

\* Every variable has its type, and no two plans are active at once
\* (opportunity_rotation.py:425).
TypeOK ==
  /\ Len(plans) <= MaxPlans /\ Cardinality(Active) <= 1
  /\ \A p \in DOMAIN plans :
       plans[p].st \in ACTIVE \union ENDED /\ plans[p].qty \in 1..Lots /\ plans[p].buy \in Nat
  /\ \A id \in DOMAIN rows :
       rows[id].st \in FINAL \union {"PENDING"} /\ rows[id].filled \in 0..rows[id].want
  /\ account \in 0..Lots + MaxHand /\ gw.gen \in Nat

\* A plan's BUY is sent only after all of its source was sold, and once: a crash
\* or a refusal never makes the next tick send another
\* (opportunity_rotation.py:973-975).
BuyOnceAfterSale ==
  \A p \in DOMAIN plans :
    LET buys == {id \in DOMAIN rows : id.plan = p /\ id.side = "BUY"} IN
    /\ Cardinality(buys) <= 1
    /\ buys # {} => SellOf(p) \in DOMAIN rows /\ rows[SellOf(p)].done = plans[p].qty

\* A plan that ended without review sold nothing, or sold and bought
\* (opportunity_rotation.py:833-873).
EndedCleanly ==
  \A p \in DOMAIN plans :
    /\ plans[p].st \in {"ABORTED", "EXPIRED"} =>
         SellOf(p) \notin DOMAIN rows \/ (rows[SellOf(p)].over /\ rows[SellOf(p)].done = 0)
    /\ plans[p].st = "COMPLETED" => BuyOf(p) \in DOMAIN rows /\ rows[BuyOf(p)].done = 1

\* While a plan is active, no BUY other than its own is sent, also when the plan
\* could not be read (scanner.py:486).
NoCompetingBuy ==
  [][\A n \in 1..MaxOthers : LET id == Id(0, "BUY", n) IN
       id \in DOMAIN rows' /\ id \notin DOMAIN rows => Active = {}]_vars

\* A plan does not stay where it could go on: its order is over, its sale shows
\* in the account, its time is up (opportunity_rotation.py:683).
CouldMove(p) ==
  LET over(id) == id \notin DOMAIN rows \/ rows[id].st \in FINAL IN
  \/ plans[p].st \in {"PLANNED", "CASH_CONFIRMED"}
  \/ plans[p].st = "SELL_PENDING" /\ over(SellOf(p))
  \/ plans[p].st = "SELL_FILLED_WAIT_REFRESH" /\ account = 0
  \/ plans[p].st = "BUY_PENDING" /\ over(BuyOf(p))
PlansMove == \A p \in 1..MaxPlans : []<>~(p \in DOMAIN plans /\ CouldMove(p))
=============================================================================
