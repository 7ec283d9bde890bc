------------------------- MODULE RotationPlanProofs -------------------------
(***************************************************************************)
(* What holds of rotation plans for any holding, number of plans, orders   *)
(* of the evaluation, hand purchases and faults: a plan buys once and only *)
(* after all of its source was sold, one that ends without review has      *)
(* nothing half done, and no other BUY is sent while a plan is active.     *)
(*                                                                         *)
(* Each follows from what a plan's state says of its orders (PlanOK) and   *)
(* what an order's row says of its execution (RowOK).  That one plan is    *)
(* active at a time, and about lots the bot holds, needs the sum of the    *)
(* sales' fills: at the end of the module.                                 *)
(***************************************************************************)
EXTENDS RotationPlan, SumTheorems

Plan == [st : ACTIVE \union ENDED, qty : Nat, gen : Int, buy : {0, 1}, age : {"early", "due", "expired"}]
Order == [st : FINAL \union {"PENDING"}, filled : Nat, done : Nat, want : Nat, over : BOOLEAN]
Name == [plan : Nat, side : {"BUY", "SELL"}, n : Nat]

\* The orders of the evaluation (plan 0) matter for their names only.
TypeInv ==
  /\ plans \in Seq(Plan)
  /\ DOMAIN rows \subseteq Name
  /\ \A id \in DOMAIN rows : id.plan # 0 => rows[id] \in Order
  /\ gw.seen \in Nat /\ gw.gen \in Nat /\ account \in Nat

\* A row in a final state has all that was executed, and no more will be.
RowOK(r) ==
  /\ r.filled <= r.done /\ r.done <= r.want
  /\ r.st \in FINAL => r.over /\ r.filled = r.done
  /\ r.st = "FILLED" => r.done = r.want

\* What the state of plan p, as row r, says of its orders in rs.
PlanOK(p, r, rs) ==
  LET sell == SellOf(p)
      buy  == Id(p, "BUY", 1)
  IN
  /\ r.st \notin {"BUY_PENDING", "COMPLETED", "MANUAL_REVIEW"} => r.buy = 0
  /\ r.st \in {"BUY_PENDING", "COMPLETED"} => r.buy = 1
  /\ r.st = "PLANNED" => sell \notin DOMAIN rs
  /\ r.st \in {"SELL_FILLED_WAIT_REFRESH", "CASH_CONFIRMED"} \/ r.buy = 1 =>
       sell \in DOMAIN rs /\ rs[sell].done = r.qty
  /\ r.st \in {"ABORTED", "EXPIRED"} => sell \notin DOMAIN rs \/ (rs[sell].over /\ rs[sell].done = 0)
  /\ r.st = "COMPLETED" => buy \in DOMAIN rs /\ rs[buy].done = 1

PlansInv == \A p \in DOMAIN plans : PlanOK(p, plans[p], rows)

\* A plan's orders are its one SELL and its one BUY.
OrdersInv ==
  \A id \in DOMAIN rows : id.plan # 0 =>
    /\ id.plan \in DOMAIN plans /\ id.n = 1
    /\ id.side = "SELL" => rows[id].want = plans[id.plan].qty
    /\ id.side = "BUY" => plans[id.plan].buy = 1 /\ rows[id].want = 1
    /\ RowOK(rows[id])

\* What is dispatched was committed by its plan; BUYs are free while no plan is active.
TickInv ==
  /\ tick.step = "dispatch" =>
       \E p \in DOMAIN plans :
         \/ tick.id = SellOf(p) /\ plans[p].st = "SELL_PENDING"
         \/ tick.id = Id(p, "BUY", 1) /\ plans[p].st = "BUY_PENDING"
  /\ tick.step = "trade" /\ ~tick.blocked => Active = {}

Inv == TypeInv /\ PlansInv /\ OrdersInv /\ TickInv

-----------------------------------------------------------------------------
(* Plans, rows and ticks that change.                                      *)

\* The plans are a sequence, and each is a plan.
LEMMA PlansType ==
  ASSUME TypeInv
  PROVE  /\ Len(plans) \in Nat /\ DOMAIN plans = 1 .. Len(plans)
         /\ \A p \in DOMAIN plans : p \in Nat \ {0} /\ plans[p] \in Plan
BY DEF TypeInv

\* A plan moves; no row does.
LEMMA PlanMoves ==
  ASSUME Inv, NEW p \in DOMAIN plans, NEW r \in Plan, plans' = [plans EXCEPT ![p] = r],
         UNCHANGED <<rows, account, gw>>,
         r.qty = plans[p].qty, r.buy = 0 => plans[p].buy = 0, PlanOK(p, r, rows)
  PROVE  /\ TypeInv' /\ PlansInv' /\ OrdersInv'
         /\ DOMAIN plans' = DOMAIN plans /\ plans'[p] = r
         /\ \A q \in DOMAIN plans : q # p => plans'[q] = plans[q]
<1>. USE DEF Inv
<1>1. /\ DOMAIN plans' = DOMAIN plans /\ plans'[p] = r
      /\ \A q \in DOMAIN plans : q # p => plans'[q] = plans[q]
  BY DEF TypeInv
<1>2. plans' \in Seq(Plan)
  BY DEF TypeInv
<1>3. TypeInv'
  BY <1>2 DEF TypeInv
<1>4. PlansInv'
  BY <1>1 DEF PlansInv
<1>5. OrdersInv'
  <2>. SUFFICES ASSUME NEW id \in DOMAIN rows, id.plan # 0
                PROVE  /\ id.plan \in DOMAIN plans' /\ id.n = 1
                       /\ id.side = "SELL" => rows[id].want = plans'[id.plan].qty
                       /\ id.side = "BUY" => plans'[id.plan].buy = 1 /\ rows[id].want = 1
                       /\ RowOK(rows[id])
    BY DEF OrdersInv
  <2>1. id.plan \in DOMAIN plans
    BY DEF OrdersInv
  <2>2. plans[p].buy \in {0, 1} /\ r.buy \in {0, 1}
    BY PlansType DEF Plan
  <2>. QED BY <1>1, <2>1, <2>2 DEF OrdersInv
<1>. QED BY <1>1, <1>3, <1>4, <1>5

\* An order of a plan appears, or has news.
LEMMA RowMoves ==
  ASSUME Inv, NEW id \in Name, UNCHANGED plans, account' \in Nat, UNCHANGED gw,
         NEW r, id.plan # 0 => r \in Order /\ RowOK(r),
         rows' = [i \in DOMAIN rows \union {id} |-> IF i = id THEN r ELSE rows[i]],
         \* an order that was there
         id \in DOMAIN rows /\ id.plan # 0 =>
           /\ r.want = rows[id].want /\ r.done >= rows[id].done
           /\ rows[id].over => r.over /\ r.done = rows[id].done,
         \* one that was not
         id \notin DOMAIN rows /\ id.plan # 0 =>
           /\ id.plan \in DOMAIN plans /\ id.n = 1
           /\ id.side = "SELL" => plans[id.plan].st = "SELL_PENDING" /\ r.want = plans[id.plan].qty
           /\ id.side = "BUY" => plans[id.plan].st = "BUY_PENDING" /\ r.want = 1
  PROVE  TypeInv' /\ PlansInv' /\ OrdersInv'
<1>. USE DEF Inv
<1>1. TypeInv'
  BY DEF TypeInv
<1>2. OrdersInv'
  BY DEF OrdersInv, PlansInv, PlanOK
<1>3. ASSUME NEW p \in DOMAIN plans PROVE PlanOK(p, plans[p], rows')
  <2>1. PlanOK(p, plans[p], rows) /\ p # 0 /\ plans[p] \in Plan
    BY PlansType DEF PlansInv
  <2>2. CASE id # SellOf(p) /\ id # Id(p, "BUY", 1)
    BY <2>1, <2>2 DEF PlanOK
  <2>3. CASE id = SellOf(p)
    <3>1. id.plan = p /\ id.side = "SELL" /\ id # Id(p, "BUY", 1)
      BY <2>3 DEF SellOf, Id
    <3>2. CASE id \in DOMAIN rows
      <4>1. r.done <= r.want /\ r.want = plans[p].qty /\ r.done >= rows[id].done
            /\ (rows[id].over => r.over /\ r.done = rows[id].done)
        BY <2>1, <3>1, <3>2 DEF OrdersInv, RowOK
      <4>2. r.done \in Nat /\ rows[id].done \in Nat /\ r.want \in Nat
        BY <2>1, <3>1, <3>2 DEF TypeInv, Order
      <4>. QED BY <2>1, <2>3, <3>1, <3>2, <4>1, <4>2 DEF PlanOK
    <3>3. CASE id \notin DOMAIN rows
      BY <2>1, <2>3, <3>1, <3>3 DEF PlanOK
    <3>. QED BY <3>2, <3>3
  <2>4. CASE id = Id(p, "BUY", 1)
    <3>1. id.plan = p /\ id.side = "BUY" /\ id # SellOf(p)
      BY <2>4 DEF SellOf, Id
    <3>2. CASE id \in DOMAIN rows
      <4>1. r.done <= r.want /\ r.want = 1 /\ r.done >= rows[id].done
        BY <2>1, <3>1, <3>2 DEF OrdersInv, RowOK
      <4>2. r.done \in Nat /\ rows[id].done \in Nat
        BY <2>1, <3>1, <3>2 DEF TypeInv, Order
      <4>. QED BY <2>1, <2>4, <3>1, <3>2, <4>1, <4>2 DEF PlanOK
    <3>3. CASE id \notin DOMAIN rows
      BY <2>1, <2>4, <3>1, <3>3 DEF PlanOK
    <3>. QED BY <3>2, <3>3
  <2>. QED BY <2>2, <2>3, <2>4
<1>. QED BY <1>1, <1>2, <1>3 DEF PlansInv

-----------------------------------------------------------------------------
(* Every step.                                                             *)

\* The invariant holds at the start.
LEMMA InvInit == Init => Inv
<1>. SUFFICES ASSUME Init PROVE Inv
  OBVIOUS
<1>. USE ConstantsAssumption DEF Init
<1>1. TypeInv
  BY DEF TypeInv
<1>2. DOMAIN plans = {} /\ Active = {}
  BY DEF Active
<1>3. PlansInv /\ OrdersInv /\ TickInv
  BY <1>2 DEF PlansInv, OrdersInv, TickInv
<1>. QED BY <1>1, <1>3 DEF Inv

\* A tick in which BUYs are blocked, or that is over, promises nothing.
LEMMA Blocked ==
  ASSUME Trade(TRUE) \/ tick'.step = "idle"
  PROVE  TickInv'
BY DEF Trade, TickInv

\* The plan an active step is about.
LEMMA StateFacts ==
  ASSUME Inv, NEW st, NEW p \in State(st)
  PROVE  p \in DOMAIN plans /\ plans[p] \in Plan /\ plans[p].st = st /\ PlanOK(p, plans[p], rows)
BY PlansType DEF Inv, State, Active, PlansInv

\* A plan's state becomes st, its orders and its BUYs stay.
LEMMA SetMoves ==
  ASSUME Inv, NEW p \in DOMAIN plans, NEW st \in ACTIVE \union ENDED, Set(p, st),
         UNCHANGED <<rows, account, gw>>, PlanOK(p, [plans[p] EXCEPT !.st = st], rows)
  PROVE  TypeInv' /\ PlansInv' /\ OrdersInv' /\ DOMAIN plans' = DOMAIN plans /\ plans'[p].st = st
<1> DEFINE r == [plans[p] EXCEPT !.st = st]
<1>1. plans[p] \in Plan
  BY PlansType DEF Inv
<1>2. r \in Plan /\ r.qty = plans[p].qty /\ r.buy = plans[p].buy /\ r.st = st
  BY <1>1 DEF Plan
<1>3. plans' = [plans EXCEPT ![p] = r]
  BY DEF Set
<1>. HIDE DEF r
<1>4. PlanOK(p, r, rows)
  BY DEF r
<1>. QED BY <1>2, <1>3, <1>4, PlanMoves

\* Stopping keeps the invariant.
LEMMA StopStep == Inv /\ Stop => Inv'
<1>. SUFFICES ASSUME Inv, Stop PROVE Inv'
  OBVIOUS
<1>1. PICK p \in DOMAIN plans, st \in {"ABORTED", "EXPIRED", "MANUAL_REVIEW"} :
        /\ Settle(p, st) /\ plans[p] \in Plan /\ PlanOK(p, plans[p], rows)
        /\ \/ plans[p].st \in {"PLANNED", "SELL_PENDING"} /\ SellOf(p) \notin DOMAIN rows
           \/ plans[p].st = "CASH_CONFIRMED" /\ st = "MANUAL_REVIEW"
  <2>1. CASE \E p \in State("PLANNED") : Over(p) /\ Settle(p, IF disabled THEN "ABORTED" ELSE "EXPIRED")
    BY <2>1, StateFacts DEF PlanOK
  <2>2. CASE \E p \in State("CASH_CONFIRMED") : Over(p) /\ Settle(p, "MANUAL_REVIEW")
    BY <2>2, StateFacts
  <2>3. CASE \E p \in State("SELL_PENDING") :
               SellOf(p) \notin DOMAIN rows /\ Over(p) /\ Settle(p, IF disabled THEN "ABORTED" ELSE "EXPIRED")
    BY <2>3, StateFacts
  <2>. QED BY <2>1, <2>2, <2>3 DEF Stop
<1>2. PlanOK(p, [plans[p] EXCEPT !.st = st], rows)
  BY <1>1 DEF PlanOK, Plan
<1>3. st \in ACTIVE \union ENDED
  BY DEF ACTIVE, ENDED
<1>4. TypeInv' /\ PlansInv' /\ OrdersInv'
  BY <1>1, <1>2, <1>3, SetMoves DEF Settle
<1>5. TickInv'
  BY <1>1, Blocked DEF Settle
<1>. QED BY <1>4, <1>5 DEF Inv

\* Sending the sale of a plan keeps the invariant.
LEMMA SellPlannedStep == Inv /\ SellPlanned => Inv'
<1>. SUFFICES ASSUME Inv, NEW p \in State("PLANNED"), UNCHANGED <<rows, account, gw>>,
                     \/ Set(p, "ABORTED") /\ Trade(TRUE)
                     \/ Set(p, "SELL_PENDING") /\ Send(SellOf(p))
              PROVE  Inv'
  BY DEF SellPlanned
<1>1. p \in DOMAIN plans /\ plans[p] \in Plan /\ plans[p].st = "PLANNED" /\ PlanOK(p, plans[p], rows)
  BY StateFacts
<1>2. \A st \in {"ABORTED", "SELL_PENDING"} :
        PlanOK(p, [plans[p] EXCEPT !.st = st], rows) /\ st \in ACTIVE \union ENDED
  BY <1>1 DEF PlanOK, Plan, ACTIVE, ENDED
<1>3. CASE Set(p, "ABORTED") /\ Trade(TRUE)
  BY <1>1, <1>2, <1>3, SetMoves, Blocked DEF Inv
<1>4. CASE Set(p, "SELL_PENDING") /\ Send(SellOf(p))
  <2>1. /\ TypeInv' /\ PlansInv' /\ OrdersInv'
        /\ DOMAIN plans' = DOMAIN plans /\ plans'[p].st = "SELL_PENDING"
    BY <1>1, <1>2, <1>4, SetMoves
  <2>2. TickInv'
    BY <1>1, <1>4, <2>1 DEF TickInv, Send, SellOf
  <2>. QED BY <2>1, <2>2 DEF Inv
<1>. QED BY <1>3, <1>4

\* Reading the fills of the sale keeps the invariant.
LEMMA SellSettlesStep == Inv /\ SellSettles => Inv'
<1>. SUFFICES ASSUME Inv, NEW p \in State("SELL_PENDING"), UNCHANGED <<rows, account, gw>>, Trade(TRUE),
                     SellOf(p) \in DOMAIN rows,
                     IF Sold(p)
                     THEN plans' = [plans EXCEPT ![p].st = "SELL_FILLED_WAIT_REFRESH", ![p].gen = gw.gen]
                     ELSE SellEnded(p) /\ Set(p, IF rows[SellOf(p)].filled > 0 THEN "MANUAL_REVIEW" ELSE "ABORTED")
              PROVE  Inv'
  BY DEF SellSettles
<1> DEFINE row == rows[SellOf(p)]
<1>1. p \in DOMAIN plans /\ plans[p] \in Plan /\ plans[p].st = "SELL_PENDING" /\ PlanOK(p, plans[p], rows)
  BY StateFacts
<1>2. SellOf(p).plan # 0 /\ SellOf(p).plan = p /\ SellOf(p).side = "SELL"
  BY <1>1, PlansType DEF Inv, SellOf, Id
<1>3. row \in Order /\ RowOK(row) /\ row.want = plans[p].qty
  BY <1>2 DEF Inv, TypeInv, OrdersInv
<1>4. TickInv'
  BY Blocked
<1>5. CASE Sold(p)
  <2> DEFINE r == [plans[p] EXCEPT !.st = "SELL_FILLED_WAIT_REFRESH", !.gen = gw.gen]
  <2>1. r \in Plan /\ r.qty = plans[p].qty /\ r.buy = plans[p].buy /\ r.st = "SELL_FILLED_WAIT_REFRESH"
    <3>1. gw.gen \in Int
      BY DEF Inv, TypeInv
    <3>2. "SELL_FILLED_WAIT_REFRESH" \in ACTIVE \union ENDED
      BY DEF ACTIVE
    <3>. QED BY <1>1, <3>1, <3>2 DEF Plan
  <2>2. row.done = plans[p].qty
    BY <1>1, <1>3, <1>5 DEF Sold, RowOK, Order, Plan
  <2>3. PlanOK(p, r, rows)
    <3>. HIDE DEF r
    <3>. QED BY <1>1, <2>1, <2>2 DEF PlanOK
  <2>4. plans' = [plans EXCEPT ![p] = r]
    BY <1>5
  <2>. HIDE DEF r
  <2>5. TypeInv' /\ PlansInv' /\ OrdersInv'
    BY <1>1, <2>1, <2>3, <2>4, PlanMoves
  <2>. QED BY <1>4, <2>5 DEF Inv
<1>6. CASE ~Sold(p)
  <2>1. PICK st \in {"MANUAL_REVIEW", "ABORTED"} :
          Set(p, st) /\ row.st \in FINAL /\ (st = "ABORTED" => ~(row.filled > 0))
    BY <1>6 DEF SellEnded
  <2>2. st \in ACTIVE \union ENDED
    BY DEF ACTIVE, ENDED
  <2>3. st = "ABORTED" => row.over /\ row.done = 0
    BY <1>3, <2>1 DEF RowOK, Order
  <2>4. PlanOK(p, [plans[p] EXCEPT !.st = st], rows)
    BY <1>1, <2>3 DEF PlanOK, Plan
  <2>5. TypeInv' /\ PlansInv' /\ OrdersInv'
    BY <1>1, <2>1, <2>2, <2>4, SetMoves
  <2>. QED BY <1>4, <2>5 DEF Inv
<1>. QED BY <1>5, <1>6

\* Confirming the cash of the sale keeps the invariant.
LEMMA ConfirmCashStep == Inv /\ ConfirmCash => Inv'
<1>. SUFFICES ASSUME Inv, NEW p \in State("SELL_FILLED_WAIT_REFRESH"), Settle(p, "CASH_CONFIRMED")
              PROVE  Inv'
  BY DEF ConfirmCash
<1>1. p \in DOMAIN plans /\ plans[p] \in Plan /\ plans[p].st = "SELL_FILLED_WAIT_REFRESH"
      /\ PlanOK(p, plans[p], rows)
  BY StateFacts
<1>2. PlanOK(p, [plans[p] EXCEPT !.st = "CASH_CONFIRMED"], rows)
  BY <1>1 DEF PlanOK, Plan
<1>3. TypeInv' /\ PlansInv' /\ OrdersInv'
  BY <1>1, <1>2, SetMoves DEF Settle, ACTIVE
<1>. QED BY <1>3, Blocked DEF Inv, Settle

\* Sending the purchase of a plan keeps the invariant.
LEMMA BuyConfirmedStep == Inv /\ BuyConfirmed => Inv'
<1>. SUFFICES ASSUME Inv, NEW p \in State("CASH_CONFIRMED"), UNCHANGED <<rows, account, gw>>,
                     \/ Set(p, "MANUAL_REVIEW") /\ Trade(TRUE)
                     \/ BuyCommitted(p) /\ Send(Id(p, "BUY", plans[p].buy + 1))
              PROVE  Inv'
  BY DEF BuyConfirmed
<1>1. p \in DOMAIN plans /\ plans[p] \in Plan /\ plans[p].st = "CASH_CONFIRMED" /\ PlanOK(p, plans[p], rows)
  BY StateFacts
<1>2. plans[p].buy = 0
  BY <1>1 DEF PlanOK
<1>3. CASE Set(p, "MANUAL_REVIEW") /\ Trade(TRUE)
  <2>1. PlanOK(p, [plans[p] EXCEPT !.st = "MANUAL_REVIEW"], rows)
    BY <1>1 DEF PlanOK, Plan
  <2>. QED BY <1>1, <1>3, <2>1, SetMoves, Blocked DEF Inv, ACTIVE
<1>4. CASE BuyCommitted(p) /\ Send(Id(p, "BUY", plans[p].buy + 1))
  <2> DEFINE r == [plans[p] EXCEPT !.st = "BUY_PENDING", !.buy = 1]
  <2>1. r \in Plan /\ r.qty = plans[p].qty /\ r.buy = 1 /\ r.st = "BUY_PENDING"
    BY <1>1 DEF Plan, ACTIVE
  <2>2. plans' = [plans EXCEPT ![p] = r]
    <3>1. plans \in Seq(Plan)
      BY DEF Inv, TypeInv
    <3>2. plans' = [plans EXCEPT ![p] = [plans[p] EXCEPT !.st = "BUY_PENDING", !.buy = plans[p].buy + 1]]
      BY <1>1, <1>4, <3>1 DEF BuyCommitted, Plan
    <3>. QED BY <1>2, <3>2
  <2>. HIDE DEF r
  <2>3. PlanOK(p, r, rows)
    BY <1>1, <2>1 DEF PlanOK
  <2>4. TypeInv' /\ PlansInv' /\ OrdersInv' /\ DOMAIN plans' = DOMAIN plans /\ plans'[p] = r
    <3>1. r.buy = 0 => plans[p].buy = 0
      BY <2>1
    <3>. QED BY <1>1, <2>1, <2>2, <2>3, <3>1, PlanMoves
  <2>5. TickInv'
    BY <1>1, <1>2, <1>4, <2>1, <2>4 DEF TickInv, Send
  <2>. QED BY <2>4, <2>5 DEF Inv
<1>. QED BY <1>3, <1>4

\* Reading the fills of the purchase keeps the invariant.
LEMMA BuySettlesStep == Inv /\ BuySettles => Inv'
<1>. SUFFICES ASSUME Inv, NEW p \in State("BUY_PENDING"), Settle(p, BuyOutcome(BuyOf(p)))
              PROVE  Inv'
  BY DEF BuySettles
<1>1. p \in DOMAIN plans /\ plans[p] \in Plan /\ plans[p].st = "BUY_PENDING" /\ PlanOK(p, plans[p], rows)
  BY StateFacts
<1>2. plans[p].buy = 1 /\ BuyOf(p) = Id(p, "BUY", 1)
  BY <1>1 DEF PlanOK, BuyOf
<1>3. PICK st \in {"COMPLETED", "MANUAL_REVIEW"} :
        Settle(p, st) /\ (st = "COMPLETED" => BuyOf(p) \in DOMAIN rows /\ rows[BuyOf(p)].st = "FILLED")
  BY DEF BuyOutcome
<1>4. st = "COMPLETED" => rows[BuyOf(p)].done = 1
  <2>1. BuyOf(p).plan # 0 /\ BuyOf(p).side = "BUY"
    BY <1>1, <1>2, PlansType DEF Inv, Id
  <2>. QED BY <1>3, <2>1 DEF Inv, OrdersInv, RowOK
<1>5. PlanOK(p, [plans[p] EXCEPT !.st = st], rows)
  BY <1>1, <1>2, <1>3, <1>4 DEF PlanOK, Plan
<1>6. TypeInv' /\ PlansInv' /\ OrdersInv'
  BY <1>1, <1>3, <1>5, SetMoves DEF Settle, ACTIVE, ENDED
<1>. QED BY <1>3, <1>6, Blocked DEF Inv, Settle

\* The passing of a plan's time keeps the invariant.
LEMMA AgesStep == Inv /\ Ages => Inv'
<1>. SUFFICES ASSUME Inv, NEW p \in Active, plans[p].age # "expired",
                     plans' = [plans EXCEPT ![p].age = IF @ = "early" THEN "due" ELSE "expired"],
                     UNCHANGED <<rows, account, gw, tick>>
              PROVE  Inv'
  BY DEF Ages
<1> DEFINE a == IF plans[p].age = "early" THEN "due" ELSE "expired"
           r == [plans[p] EXCEPT !.age = a]
<1>1. p \in DOMAIN plans /\ plans[p] \in Plan /\ PlanOK(p, plans[p], rows)
  BY PlansType DEF Inv, Active, PlansInv
<1>2. r \in Plan /\ r.qty = plans[p].qty /\ r.buy = plans[p].buy /\ r.st = plans[p].st
  <2>1. a \in {"due", "expired"}
    OBVIOUS
  <2>. HIDE DEF a
  <2>. QED BY <1>1, <2>1 DEF Plan
<1>3. plans' = [plans EXCEPT ![p] = r]
  OBVIOUS
<1>. HIDE DEF r
<1>4. PlanOK(p, r, rows)
  BY <1>1, <1>2 DEF PlanOK
<1>5. /\ TypeInv' /\ PlansInv' /\ OrdersInv'
      /\ DOMAIN plans' = DOMAIN plans /\ plans'[p] = r
      /\ \A q \in DOMAIN plans : q # p => plans'[q] = plans[q]
  BY <1>1, <1>2, <1>3, <1>4, PlanMoves
<1>6. DOMAIN plans' = DOMAIN plans /\ \A q \in DOMAIN plans : plans'[q].st = plans[q].st
  BY <1>2, <1>5
<1>7. TickInv'
  BY <1>6 DEF Inv, TickInv, Active, SellOf
<1>. QED BY <1>5, <1>7 DEF Inv

\* Making a plan keeps the invariant.
LEMMA CreateStep == Inv /\ Create => Inv'
<1>. SUFFICES ASSUME Inv, Create PROVE Inv'
  OBVIOUS
<1> DEFINE r == [st |-> "PLANNED", qty |-> Owned, gen |-> NoGen, buy |-> 0, age |-> "early"]
<1>1. r \in Plan /\ r.st = "PLANNED" /\ r.buy = 0
  <2>1. Owned \in Nat
    BY DEF Create, StrictSource, Inv, TypeInv
  <2>2. NoGen \in Int
    BY DEF NoGen
  <2>. QED BY <2>1, <2>2 DEF Plan, ACTIVE
<1>2. plans' = Append(plans, r) /\ UNCHANGED <<rows, account, gw>> /\ tick'.step = "idle"
  BY DEF Create
<1>. HIDE DEF r
<1>3. plans \in Seq(Plan)
  BY DEF Inv, TypeInv
<1>4. /\ plans' \in Seq(Plan) /\ Len(plans') = Len(plans) + 1 /\ DOMAIN plans' = 1 .. Len(plans) + 1
      /\ plans'[Len(plans) + 1] = r
      /\ \A p \in DOMAIN plans : p \in DOMAIN plans' /\ plans'[p] = plans[p]
  BY <1>1, <1>2, <1>3
<1>5. TypeInv'
  BY <1>2, <1>4 DEF Inv, TypeInv
<1>6. OrdersInv'
  BY <1>2, <1>4 DEF Inv, OrdersInv
<1>7. PlansInv'
  <2>1. PlanOK(Len(plans) + 1, r, rows)
    <3>1. SellOf(Len(plans) + 1).plan = Len(plans) + 1 /\ Len(plans) + 1 # 0
          /\ Len(plans) + 1 \notin DOMAIN plans
      BY <1>3 DEF SellOf, Id
    <3>2. SellOf(Len(plans) + 1) \notin DOMAIN rows
      BY <3>1 DEF Inv, OrdersInv
    <3>. QED BY <1>1, <3>2 DEF PlanOK
  <2>2. ASSUME NEW p \in DOMAIN plans' PROVE p \in DOMAIN plans \/ p = Len(plans) + 1
    BY <1>3, <1>4
  <2>3. UNCHANGED rows
    BY <1>2
  <2>. QED BY <1>4, <2>1, <2>2, <2>3 DEF Inv, PlansInv
<1>. QED BY <1>2, <1>5, <1>6, <1>7, Blocked DEF Inv

-----------------------------------------------------------------------------

\* Dispatching an order of a plan keeps the invariant.
LEMMA DispatchStep == Inv /\ Dispatch => Inv'
<1>. SUFFICES ASSUME Inv, Dispatch PROVE Inv'
  OBVIOUS
<1>1. TickInv'
  BY Blocked DEF Dispatch
<1>2. UNCHANGED <<plans, account, gw>>
  BY DEF Dispatch
<1>3. CASE UNCHANGED rows
  BY <1>1, <1>2, <1>3 DEF Inv, TypeInv, PlansInv, OrdersInv
<1>4. CASE Insert(tick.id, IF tick.id.side = "SELL" THEN plans[tick.id.plan].qty ELSE 1)
  <2>1. PICK p \in DOMAIN plans :
          \/ tick.id = SellOf(p) /\ plans[p].st = "SELL_PENDING"
          \/ tick.id = Id(p, "BUY", 1) /\ plans[p].st = "BUY_PENDING"
    BY DEF Inv, TickInv, Dispatch
  <2>2. p \in Nat \ {0} /\ plans[p].qty \in Nat
    BY PlansType DEF Inv, Plan
  <2> DEFINE id == tick.id
             w == IF id.side = "SELL" THEN plans[id.plan].qty ELSE 1
             r == Row(w)
  <2>3. id \in Name /\ id.plan = p /\ id.n = 1
        /\ (id.side = "SELL" => plans[p].st = "SELL_PENDING" /\ w = plans[p].qty)
        /\ (id.side = "BUY" => plans[p].st = "BUY_PENDING" /\ w = 1)
        /\ w \in Nat
    BY <2>1, <2>2 DEF Name, SellOf, Id
  <2>4. rows' = [i \in DOMAIN rows \union {id} |-> IF i = id THEN r ELSE rows[i]] /\ id \notin DOMAIN rows
    BY <1>4 DEF Insert
  <2>5. r \in Order /\ RowOK(r) /\ r.want = w
    <3>. HIDE DEF w
    <3>. QED BY <2>3 DEF Row, Order, RowOK, FINAL
  <2>6. account' \in Nat
    BY <1>2 DEF Inv, TypeInv
  <2>. HIDE DEF id, w, r
  <2>7. TypeInv' /\ PlansInv' /\ OrdersInv'
    BY <1>2, <2>1, <2>2, <2>3, <2>4, <2>5, <2>6, RowMoves
  <2>. QED BY <1>1, <2>7 DEF Inv
<1>. QED BY <1>3, <1>4 DEF Dispatch

\* Orders of the evaluation belong to no plan.
LEMMA EvaluationStep == Inv /\ (EvaluationSells \/ EvaluationBuys) => Inv'
<1>. SUFFICES ASSUME Inv, EvaluationSells \/ EvaluationBuys PROVE Inv'
  OBVIOUS
<1>1. UNCHANGED <<plans, account, gw, tick>>
  BY DEF EvaluationSells, EvaluationBuys
<1>2. PICK n \in 1 .. MaxOthers, side \in {"BUY", "SELL"}, w \in {Owned, 1} : Insert(Id(0, side, n), w)
  BY DEF EvaluationSells, EvaluationBuys
<1> DEFINE id == Id(0, side, n)
           r == Row(w)
<1>3. id \in Name /\ id.plan = 0
  BY ConstantsAssumption DEF Name, Id
<1>4. rows' = [i \in DOMAIN rows \union {id} |-> IF i = id THEN r ELSE rows[i]]
  BY <1>2 DEF Insert
<1>5. account' \in Nat
  BY <1>1 DEF Inv, TypeInv
<1>. HIDE DEF id, r
<1>6. TypeInv' /\ PlansInv' /\ OrdersInv'
  BY <1>1, <1>3, <1>4, <1>5, RowMoves
<1>7. TickInv'
  BY <1>1 DEF Inv, TickInv, Active, SellOf
<1>. QED BY <1>6, <1>7 DEF Inv

\* An order that is there has news.
LEMMA NewsStep ==
  ASSUME Inv, NEW id \in DOMAIN rows, UNCHANGED <<plans, gw, tick>>, account' \in Nat,
         DOMAIN rows' = DOMAIN rows, rows' = [i \in DOMAIN rows' |-> rows'[i]],
         \A i \in DOMAIN rows : i # id => rows'[i] = rows[i],
         id.plan # 0 =>
           /\ rows'[id] \in Order /\ RowOK(rows'[id])
           /\ rows'[id].want = rows[id].want /\ rows'[id].done >= rows[id].done
           /\ rows[id].over => rows'[id].over /\ rows'[id].done = rows[id].done
  PROVE  Inv'
<1>1. id \in Name
  BY DEF Inv, TypeInv
<1>2. rows' = [i \in DOMAIN rows \union {id} |-> IF i = id THEN rows'[id] ELSE rows[i]]
  OBVIOUS
<1>3. TypeInv' /\ PlansInv' /\ OrdersInv'
  BY <1>1, <1>2, RowMoves
<1>4. TickInv'
  BY DEF Inv, TickInv, Active, SellOf
<1>. QED BY <1>3, <1>4 DEF Inv

\* A row of a plan is an order whose fills are within its lots.
LEMMA RowFacts ==
  ASSUME Inv, NEW id \in DOMAIN rows, id.plan # 0
  PROVE  rows[id] \in Order /\ RowOK(rows[id])
BY DEF Inv, TypeInv, OrdersInv

\* An execution keeps the invariant.
LEMMA ExecuteStep == Inv /\ Execute => Inv'
<1>. SUFFICES ASSUME Inv, NEW id \in DOMAIN rows, ~rows[id].over, rows[id].done < rows[id].want,
                     id.side = "SELL" => account > 0,
                     rows' = [rows EXCEPT ![id].done = @ + 1,
                                          ![id].over = @ \/ rows[id].done + 1 = rows[id].want],
                     account' = IF id.side = "SELL" THEN account - 1 ELSE account,
                     UNCHANGED <<plans, gw, tick>>
              PROVE  Inv'
  BY DEF Execute
<1>1. DOMAIN rows' = DOMAIN rows /\ rows' = [i \in DOMAIN rows' |-> rows'[i]]
      /\ \A i \in DOMAIN rows : i # id => rows'[i] = rows[i]
  OBVIOUS
<1>2. account' \in Nat
  BY DEF Inv, TypeInv
<1>3. ASSUME id.plan # 0
      PROVE  /\ rows'[id] \in Order /\ RowOK(rows'[id])
             /\ rows'[id].want = rows[id].want /\ rows'[id].done >= rows[id].done
  <2>1. rows[id] \in Order /\ RowOK(rows[id])
    BY <1>3, RowFacts
  <2>2. rows'[id] = [rows[id] EXCEPT !.done = rows[id].done + 1,
                                     !.over = rows[id].over \/ rows[id].done + 1 = rows[id].want]
    BY <2>1 DEF Order
  <2>3. /\ rows'[id] \in Order /\ rows'[id].done = rows[id].done + 1
        /\ rows'[id].st = rows[id].st /\ rows'[id].filled = rows[id].filled
        /\ rows'[id].want = rows[id].want
    BY <2>1, <2>2 DEF Order
  <2>4. rows[id].st \notin FINAL /\ rows[id].st # "FILLED"
    BY <2>1 DEF RowOK, FINAL
  <2>. QED BY <2>1, <2>3, <2>4 DEF RowOK, Order
<1>. QED BY <1>1, <1>2, <1>3, NewsStep

\* The end of an order keeps the invariant.
LEMMA EndOrderStep == Inv /\ EndOrder => Inv'
<1>. SUFFICES ASSUME Inv, NEW id \in DOMAIN rows, rows' = [rows EXCEPT ![id].over = TRUE],
                     UNCHANGED <<plans, account, gw, tick>>
              PROVE  Inv'
  BY DEF EndOrder
<1>1. DOMAIN rows' = DOMAIN rows /\ rows' = [i \in DOMAIN rows' |-> rows'[i]]
      /\ \A i \in DOMAIN rows : i # id => rows'[i] = rows[i]
  OBVIOUS
<1>2. account' \in Nat
  BY DEF Inv, TypeInv
<1>3. ASSUME id.plan # 0
      PROVE  /\ rows'[id] \in Order /\ RowOK(rows'[id])
             /\ rows'[id].want = rows[id].want /\ rows'[id].done >= rows[id].done
             /\ rows[id].over => rows'[id].over /\ rows'[id].done = rows[id].done
  <2>1. rows[id] \in Order /\ RowOK(rows[id])
    BY <1>3, RowFacts
  <2>2. /\ rows'[id] \in Order /\ rows'[id].over /\ rows'[id].done = rows[id].done
        /\ rows'[id].st = rows[id].st /\ rows'[id].filled = rows[id].filled
        /\ rows'[id].want = rows[id].want
    BY <2>1 DEF Order
  <2>. QED BY <2>1, <2>2 DEF RowOK, Order
<1>. QED BY <1>1, <1>2, <1>3, NewsStep

\* A report of an order keeps the invariant.
LEMMA ReportStep == Inv /\ Report => Inv'
<1>. SUFFICES ASSUME Inv, NEW id \in DOMAIN rows, rows' = [rows EXCEPT ![id] = Reported(@)],
                     UNCHANGED <<plans, account, gw, tick>>
              PROVE  Inv'
  BY DEF Report
<1>1. DOMAIN rows' = DOMAIN rows /\ rows' = [i \in DOMAIN rows' |-> rows'[i]]
      /\ \A i \in DOMAIN rows : i # id => rows'[i] = rows[i]
  OBVIOUS
<1>2. account' \in Nat
  BY DEF Inv, TypeInv
<1>3. ASSUME id.plan # 0
      PROVE  /\ rows'[id] \in Order /\ RowOK(rows'[id])
             /\ rows'[id].want = rows[id].want /\ rows'[id].done >= rows[id].done
             /\ rows[id].over => rows'[id].over /\ rows'[id].done = rows[id].done
  <2>1. rows[id] \in Order /\ RowOK(rows[id])
    BY <1>3, RowFacts
  <2>2. rows'[id] = Reported(rows[id])
    OBVIOUS
  <2> DEFINE st == IF ~rows[id].over THEN "PENDING" ELSE IF rows[id].done = rows[id].want THEN "FILLED"
                   ELSE IF rows[id].done > 0 THEN "CANCELED" ELSE "REJECTED"
  <2>3. rows'[id] = [rows[id] EXCEPT !.filled = rows[id].done, !.st = st]
    BY <2>2 DEF Reported
  <2>4. /\ st \in FINAL \union {"PENDING"} /\ (st \in FINAL => rows[id].over)
        /\ (st = "FILLED" => rows[id].done = rows[id].want)
    BY DEF FINAL
  <2>. HIDE DEF st
  <2>5. /\ rows'[id] \in Order /\ rows'[id].st = st /\ rows'[id].filled = rows[id].done
        /\ rows'[id].done = rows[id].done /\ rows'[id].want = rows[id].want /\ rows'[id].over = rows[id].over
    BY <2>1, <2>3, <2>4 DEF Order
  <2>. QED BY <2>1, <2>4, <2>5 DEF RowOK, Order
<1>. QED BY <1>1, <1>2, <1>3, NewsStep

-----------------------------------------------------------------------------

\* Every step keeps the invariant.
LEMMA InvStep == Inv /\ [Next]_vars => Inv'
<1>. SUFFICES ASSUME Inv, [Next]_vars PROVE Inv'
  OBVIOUS
<1>1. ASSUME UNCHANGED <<plans, rows>>, account' \in Nat, gw'.seen \in Nat, gw'.gen \in Nat, TickInv'
      PROVE  Inv'
  BY <1>1 DEF Inv, TypeInv, PlansInv, OrdersInv
<1>2. account \in Nat /\ gw.seen \in Nat /\ gw.gen \in Nat
  BY DEF Inv, TypeInv
<1>3. UNCHANGED <<plans, tick>> => TickInv'
  BY DEF Inv, TickInv, Active, SellOf
<1>4. CASE NoPlan
  <2>1. TickInv'
    BY <1>4 DEF NoPlan, Trade, TickInv, Active
  <2>. QED BY <1>1, <1>2, <1>4, <2>1 DEF NoPlan
<1>5. CASE AdvanceFails \/ Waits
  <2>1. TickInv'
    BY <1>5, Blocked DEF AdvanceFails, Raised, Waits
  <2>. QED BY <1>1, <1>2, <1>5, <2>1 DEF AdvanceFails, Waits
<1>6. CASE SellAgain
  <2>1. PICK p \in State("SELL_PENDING") : Send(SellOf(p)) /\ UNCHANGED <<plans, rows, account, gw>>
    BY <1>6 DEF SellAgain
  <2>2. p \in DOMAIN plans /\ plans[p].st = "SELL_PENDING"
    BY StateFacts
  <2>3. TickInv'
    BY <2>1, <2>2 DEF TickInv, Send, SellOf
  <2>. QED BY <1>1, <1>2, <2>1, <2>3
<1>7. CASE TickEnd \/ ServerCrash
  <2>1. tick'.step = "idle"
    <3>1. CASE TickEnd
      BY <3>1 DEF TickEnd
    <3>2. CASE ServerCrash
      BY <3>2 DEF ServerCrash
    <3>. QED BY <1>7, <3>1, <3>2
  <2>. QED BY <1>1, <1>2, <1>7, <2>1, Blocked DEF TickEnd, ServerCrash
<1>8. CASE Load \/ GatewayRestart \/ Disable \/ HandBuy
  <2>1. account' \in Nat /\ gw'.seen \in Nat /\ gw'.gen \in Nat
    BY <1>2, <1>8 DEF Load, GatewayRestart, Disable, HandBuy
  <2>. QED BY <1>1, <1>3, <1>8, <2>1 DEF Load, GatewayRestart, Disable, HandBuy
<1>9. CASE UNCHANGED vars
  BY <1>1, <1>2, <1>3, <1>9 DEF vars
<1>. QED
  BY <1>4, <1>5, <1>6, <1>7, <1>8, <1>9, StopStep, SellPlannedStep, SellSettlesStep, ConfirmCashStep,
     BuyConfirmedStep, BuySettlesStep, AgesStep, CreateStep, DispatchStep, EvaluationStep, ExecuteStep,
     EndOrderStep, ReportStep
     DEF Next, Tick, Advance

\* The invariant holds in every reachable state.
LEMMA Inductive == Spec => []Inv
BY InvInit, InvStep, PTL DEF Spec

\* opportunity_rotation.py:973-975: for any holding, number of plans and faults, a plan's BUY is
\* sent only after all of its source was sold, and once.
THEOREM BuysOnce == Spec => []BuyOnceAfterSale
<1>1. Inv => BuyOnceAfterSale
  <2>. SUFFICES ASSUME Inv, NEW p \in DOMAIN plans
                PROVE  LET buys == {id \in DOMAIN rows : id.plan = p /\ id.side = "BUY"} IN
                       /\ Cardinality(buys) <= 1
                       /\ buys # {} => SellOf(p) \in DOMAIN rows /\ rows[SellOf(p)].done = plans[p].qty
    BY DEF BuyOnceAfterSale
  <2> DEFINE buys == {id \in DOMAIN rows : id.plan = p /\ id.side = "BUY"}
  <2>1. p # 0
    BY PlansType DEF Inv
  <2>2. \A id \in buys : id = Id(p, "BUY", 1) /\ plans[p].buy = 1
    BY <2>1 DEF Inv, TypeInv, OrdersInv, Name, Id
  <2>3. buys = {} \/ buys = {Id(p, "BUY", 1)}
    BY <2>2
  <2>4. Cardinality(buys) <= 1
    <3>1. Cardinality({}) = 0 /\ Cardinality({Id(p, "BUY", 1)}) = 1
      BY FS_EmptySet, FS_Singleton
    <3>. HIDE DEF buys
    <3>. QED BY <2>3, <3>1
  <2>5. buys # {} => SellOf(p) \in DOMAIN rows /\ rows[SellOf(p)].done = plans[p].qty
    BY <2>2 DEF Inv, PlansInv, PlanOK
  <2>. QED BY <2>4, <2>5
<1>. QED BY Inductive, <1>1, PTL

\* opportunity_rotation.py:833-873: a plan that ends without review sold nothing, or sold and bought.
THEOREM EndsClean == Spec => []EndedCleanly
<1>1. Inv => EndedCleanly
  <2>. SUFFICES ASSUME Inv, NEW p \in DOMAIN plans
                PROVE  /\ plans[p].st \in {"ABORTED", "EXPIRED"} =>
                            SellOf(p) \notin DOMAIN rows \/ (rows[SellOf(p)].over /\ rows[SellOf(p)].done = 0)
                       /\ plans[p].st = "COMPLETED" => BuyOf(p) \in DOMAIN rows /\ rows[BuyOf(p)].done = 1
    BY DEF EndedCleanly
  <2>1. PlanOK(p, plans[p], rows)
    BY DEF Inv, PlansInv
  <2>2. plans[p].st = "COMPLETED" => BuyOf(p) = Id(p, "BUY", 1)
    BY <2>1 DEF PlanOK, BuyOf
  <2>. QED BY <2>1, <2>2 DEF PlanOK
<1>. QED BY Inductive, <1>1, PTL

\* scanner.py:486: while a plan is active no BUY other than its own is sent, also in a tick that
\* could not read the plan.
THEOREM NoOtherBuy == Spec => NoCompetingBuy
<1>1. Inv /\ [Next]_vars => [\A n \in 1 .. MaxOthers : LET id == Id(0, "BUY", n) IN
                               id \in DOMAIN rows' /\ id \notin DOMAIN rows => Active = {}]_vars
  <2>. SUFFICES ASSUME Inv, Next, NEW n \in 1 .. MaxOthers,
                       Id(0, "BUY", n) \in DOMAIN rows', Id(0, "BUY", n) \notin DOMAIN rows
                PROVE  Active = {}
    OBVIOUS
  <2>1. CASE EvaluationBuys
    BY <2>1 DEF EvaluationBuys, Inv, TickInv
  <2>2. CASE EvaluationSells
    BY <2>2 DEF EvaluationSells, Insert, Id
  <2>3. CASE Dispatch
    <3>1. PICK p \in DOMAIN plans : tick.id = SellOf(p) \/ tick.id = Id(p, "BUY", 1)
      BY <2>3 DEF Dispatch, Inv, TickInv
    <3>2. tick.id # Id(0, "BUY", n)
      BY <3>1, PlansType DEF Inv, SellOf, Id
    <3>. QED BY <2>3, <3>2 DEF Dispatch, Insert
  <2>4. CASE Execute \/ EndOrder \/ Report
    BY <2>4 DEF Execute, EndOrder, Report
  <2>5. CASE UNCHANGED rows
    BY <2>5
  <2>. QED
    BY <2>1, <2>2, <2>3, <2>4, <2>5
       DEF Next, Tick, Advance, NoPlan, AdvanceFails, Stop, Settle, SellPlanned, SellAgain, SellSettles,
           ConfirmCash, BuyConfirmed, BuySettles, Waits, Create, TickEnd, Load, GatewayRestart, ServerCrash,
           Disable, HandBuy, Ages
<1>. QED BY Inductive, <1>1, PTL DEF Spec, NoCompetingBuy

-----------------------------------------------------------------------------
(* The types, and one active plan at a time.                               *)

PlansBounded ==
  /\ Len(plans) <= MaxPlans
  /\ \A p \in DOMAIN plans : plans[p].qty \in 1..Lots
  /\ \A p, q \in Active : p = q

\* The orders of the evaluation too: their fills are what the source's quantity comes from.
RowsTyped ==
  /\ IsFiniteSet(DOMAIN rows)
  /\ \A id \in DOMAIN rows : rows[id] \in Order /\ rows[id].filled <= rows[id].done /\ rows[id].done <= rows[id].want

AccountBounded == hand \in 0..MaxHand /\ account <= Lots + hand

Bounded == Inv /\ PlansBounded /\ RowsTyped /\ AccountBounded

\* The source's quantity is what was bought less the fills of the sales, never negative.
LEMMA OwnedBounded == ASSUME RowsTyped PROVE Owned \in 0..Lots
<1> DEFINE f == [id \in Sells |-> rows[id].filled]
<1>1. IsFiniteSet(Sells) /\ \A id \in Sells : f[id] \in Nat
  <2>1. Sells \subseteq DOMAIN rows
    BY DEF Sells
  <2>2. IsFiniteSet(Sells)
    BY <2>1, FS_Subset DEF RowsTyped
  <2>. QED BY <2>1, <2>2 DEF RowsTyped, Order
<1>2. SumFunction(f) = SumFunctionOnSet(f, Sells)
  <2>1. DOMAIN f = Sells
    OBVIOUS
  <2>. HIDE DEF f
  <2>. QED BY <2>1, SumWhole
<1>3. SumFunction(f) \in Nat
  <2>. HIDE DEF f
  <2>. QED BY <1>1, <1>2, SumNat
<1>4. Owned = Max({0, Lots - SumFunction(f)})
  BY DEF Owned
<1>. HIDE DEF f
<1>. QED BY <1>3, <1>4, ConstantsAssumption DEF Max

\* An active plan changes all but its quantity.
LEMMA OnePlanMoves ==
  ASSUME Inv, PlansBounded, NEW p \in Active, NEW r, plans' = [plans EXCEPT ![p] = r], r.qty = plans[p].qty
  PROVE  PlansBounded'
<1>1. p \in DOMAIN plans /\ DOMAIN plans = 1..Len(plans) /\ Len(plans) \in Nat /\ plans \in Seq(Plan)
  BY PlansType DEF Active, Inv, TypeInv
<1>2. DOMAIN plans' = DOMAIN plans /\ Len(plans') = Len(plans)
  BY <1>1
<1>3. plans'[p] = r /\ \A q \in DOMAIN plans : q # p => plans'[q] = plans[q]
  BY <1>1
<1>4. Active' \subseteq Active
  BY <1>1, <1>2, <1>3 DEF Active
<1>. QED BY <1>1, <1>2, <1>3, <1>4 DEF PlansBounded

\* The same, for a plan whose state is set.
LEMMA OneStateSet ==
  ASSUME Inv, PlansBounded, NEW p \in Active, NEW st, Set(p, st)
  PROVE  PlansBounded'
<1> DEFINE r == [plans[p] EXCEPT !.st = st]
<1>1. plans[p] \in Plan
  BY PlansType DEF Active, Inv
<1>2. r.qty = plans[p].qty
  BY <1>1 DEF Plan
<1>3. plans' = [plans EXCEPT ![p] = r]
  BY DEF Set
<1>. HIDE DEF r
<1>. QED BY <1>2, <1>3, OnePlanMoves

\* Every step keeps one active plan, and the quantities within what is held.
LEMMA PlansStay == ASSUME Bounded, [Next]_vars PROVE PlansBounded'
<1>0. Inv /\ PlansBounded /\ RowsTyped
  BY DEF Bounded
<1>1. CASE UNCHANGED plans
  BY <1>0, <1>1 DEF PlansBounded, Active
<1>2. \A st : State(st) \subseteq Active
  BY DEF State
<1>3. CASE Stop
  BY <1>0, <1>2, <1>3, OneStateSet DEF Stop, Settle
<1>4. CASE SellPlanned
  BY <1>0, <1>2, <1>4, OneStateSet DEF SellPlanned
<1>5. CASE SellSettles
  <2>1. PICK p \in State("SELL_PENDING") :
          IF Sold(p)
          THEN plans' = [plans EXCEPT ![p].st = "SELL_FILLED_WAIT_REFRESH", ![p].gen = gw.gen]
          ELSE SellEnded(p) /\ Set(p, IF rows[SellOf(p)].filled > 0 THEN "MANUAL_REVIEW" ELSE "ABORTED")
    BY <1>5, Zenon DEF SellSettles
  <2>2. p \in Active /\ plans[p] \in Plan
    BY <1>0, <1>2, PlansType DEF Active, Inv
  <2>3. CASE Sold(p)
    <3> DEFINE r == [plans[p] EXCEPT !.st = "SELL_FILLED_WAIT_REFRESH", !.gen = gw.gen]
    <3>1. r.qty = plans[p].qty
      BY <2>2 DEF Plan
    <3>2. plans' = [plans EXCEPT ![p] = r]
      BY <2>1, <2>3
    <3>. HIDE DEF r
    <3>. QED BY <1>0, <2>2, <3>1, <3>2, OnePlanMoves
  <2>4. CASE ~Sold(p)
    BY <1>0, <2>1, <2>2, <2>4, OneStateSet
  <2>. QED BY <2>3, <2>4
<1>6. CASE ConfirmCash
  BY <1>0, <1>2, <1>6, OneStateSet DEF ConfirmCash, Settle
<1>7. CASE BuyConfirmed
  <2>1. PICK p \in State("CASH_CONFIRMED") : Set(p, "MANUAL_REVIEW") \/ BuyCommitted(p)
    BY <1>7 DEF BuyConfirmed
  <2>2. p \in Active /\ plans[p] \in Plan
    BY <1>0, <1>2, PlansType DEF Active, Inv
  <2>3. CASE BuyCommitted(p)
    <3> DEFINE r == [plans[p] EXCEPT !.st = "BUY_PENDING", !.buy = plans[p].buy + 1]
    <3>1. r.qty = plans[p].qty
      BY <2>2 DEF Plan
    <3>2. plans' = [plans EXCEPT ![p] = r]
      BY <2>2, <2>3 DEF BuyCommitted, Plan, Active
    <3>. HIDE DEF r
    <3>. QED BY <1>0, <2>2, <3>1, <3>2, OnePlanMoves
  <2>. QED BY <1>0, <2>1, <2>2, <2>3, OneStateSet
<1>8. CASE BuySettles
  BY <1>0, <1>2, <1>8, OneStateSet DEF BuySettles, Settle
<1>9. CASE Ages
  <2>1. PICK p \in Active : plans' = [plans EXCEPT ![p].age = IF @ = "early" THEN "due" ELSE "expired"]
    BY <1>9, Zenon DEF Ages
  <2> DEFINE a == IF plans[p].age = "early" THEN "due" ELSE "expired"
             r == [plans[p] EXCEPT !.age = a]
  <2>2. plans[p] \in Plan
    BY <1>0, PlansType DEF Active, Inv
  <2>3. r.qty = plans[p].qty
    BY <2>2 DEF Plan
  <2>4. plans' = [plans EXCEPT ![p] = r]
    BY <2>1
  <2>. HIDE DEF a, r
  <2>. QED BY <1>0, <2>3, <2>4, OnePlanMoves
<1>10. CASE Create
  <2> DEFINE r == [st |-> "PLANNED", qty |-> Owned, gen |-> NoGen, buy |-> 0, age |-> "early"]
  <2>1. plans' = Append(plans, r) /\ Active = {} /\ Len(plans) < MaxPlans /\ Owned > 0
    BY <1>10 DEF Create, StrictSource
  <2>2. r.qty \in 1..Lots
    BY <1>0, <2>1, OwnedBounded, ConstantsAssumption
  <2>3. plans \in Seq(Plan) /\ Len(plans) \in Nat /\ DOMAIN plans = 1..Len(plans)
    BY <1>0, PlansType DEF Inv, TypeInv
  <2>. HIDE DEF r
  <2>4. /\ Len(plans') = Len(plans) + 1 /\ DOMAIN plans' = 1..(Len(plans) + 1)
        /\ plans'[Len(plans) + 1] = r /\ \A p \in DOMAIN plans : plans'[p] = plans[p]
    BY <2>1, <2>3
  <2>5. Active' \subseteq {Len(plans) + 1}
    BY <2>1, <2>3, <2>4 DEF Active
  <2>. QED BY <1>0, <2>1, <2>2, <2>3, <2>4, <2>5, ConstantsAssumption DEF PlansBounded
<1>11. CASE NoPlan \/ AdvanceFails \/ SellAgain \/ Waits
  BY <1>1, <1>11 DEF NoPlan, AdvanceFails, SellAgain, Waits
<1>12. CASE Dispatch \/ EvaluationSells \/ EvaluationBuys \/ Execute \/ EndOrder \/ Report
  <2>1. CASE Dispatch \/ EvaluationSells \/ EvaluationBuys
    BY <1>1, <2>1 DEF Dispatch, EvaluationSells, EvaluationBuys
  <2>2. CASE Execute
    BY <1>1, <2>2, Zenon DEF Execute
  <2>3. CASE EndOrder
    BY <1>1, <2>3 DEF EndOrder
  <2>4. CASE Report
    BY <1>1, <2>4 DEF Report
  <2>. QED BY <1>12, <2>1, <2>2, <2>3, <2>4
<1>13. CASE TickEnd \/ Load \/ GatewayRestart \/ ServerCrash \/ Disable \/ HandBuy \/ UNCHANGED vars
  BY <1>1, <1>13 DEF TickEnd, Load, GatewayRestart, ServerCrash, Disable, HandBuy, vars
<1>. QED
  BY <1>3, <1>4, <1>5, <1>6, <1>7, <1>8, <1>9, <1>10, <1>11, <1>12, <1>13 DEF Next, Tick, Advance

\* An order appears, or one that is there has news.
LEMMA RowsTypedMove ==
  ASSUME RowsTyped, NEW id, NEW r \in Order, r.filled <= r.done, r.done <= r.want,
         rows' = [i \in DOMAIN rows \union {id} |-> IF i = id THEN r ELSE rows[i]]
  PROVE  RowsTyped'
<1>1. IsFiniteSet(DOMAIN rows \union {id})
  BY FS_AddElement DEF RowsTyped
<1>. QED BY <1>1 DEF RowsTyped

\* An order that was sent has its type.
LEMMA InsertTyped ==
  ASSUME RowsTyped, NEW id, NEW w \in Nat, Insert(id, w)
  PROVE  RowsTyped'
<1>1. Row(w) \in Order /\ Row(w).filled <= Row(w).done /\ Row(w).done <= Row(w).want
  BY DEF Row, Order
<1>2. rows' = [i \in DOMAIN rows \union {id} |-> IF i = id THEN Row(w) ELSE rows[i]]
  BY DEF Insert
<1>. QED BY <1>1, <1>2, RowsTypedMove

\* Every step keeps the rows' types.
LEMMA RowsStayTyped == ASSUME Bounded, [Next]_vars PROVE RowsTyped'
<1>0. Inv /\ RowsTyped
  BY DEF Bounded
<1>1. CASE UNCHANGED rows
  BY <1>0, <1>1 DEF RowsTyped
<1>2. CASE Dispatch
  <2>1. PICK p \in DOMAIN plans : tick.id = SellOf(p) \/ tick.id = Id(p, "BUY", 1)
    BY <1>0, <1>2 DEF Dispatch, Inv, TickInv
  <2> DEFINE w == IF tick.id.side = "SELL" THEN plans[tick.id.plan].qty ELSE 1
  <2>2. w \in Nat
    BY <1>0, <2>1, PlansType DEF Inv, Plan, SellOf, Id
  <2>3. UNCHANGED rows \/ Insert(tick.id, w)
    BY <1>2 DEF Dispatch
  <2>. HIDE DEF w
  <2>. QED BY <1>0, <1>1, <2>2, <2>3, InsertTyped
<1>3. CASE EvaluationSells \/ EvaluationBuys
  <2>1. PICK n \in 1..MaxOthers, side \in {"BUY", "SELL"}, w \in {Owned, 1} : Insert(Id(0, side, n), w)
    BY <1>3 DEF EvaluationSells, EvaluationBuys
  <2>. QED BY <1>0, <2>1, OwnedBounded, InsertTyped
<1>4. CASE Execute
  <2>1. PICK id \in DOMAIN rows :
          /\ ~rows[id].over /\ rows[id].done < rows[id].want
          /\ rows' = [rows EXCEPT ![id].done = @ + 1, ![id].over = @ \/ rows[id].done + 1 = rows[id].want]
    BY <1>4, Zenon DEF Execute
  <2> DEFINE o == rows[id].over \/ rows[id].done + 1 = rows[id].want
             r == [rows[id] EXCEPT !.done = rows[id].done + 1, !.over = o]
  <2>2. rows[id] \in Order /\ rows[id].filled <= rows[id].done /\ o \in BOOLEAN
    BY <1>0 DEF RowsTyped
  <2>3. rows' = [i \in DOMAIN rows \union {id} |-> IF i = id THEN r ELSE rows[i]]
    <3>0. rows[id] \in Order
      BY <2>2
    <3>1. rows'[id] = [rows[id] EXCEPT !.done = rows[id].done + 1,
                                       !.over = rows[id].over \/ rows[id].done + 1 = rows[id].want]
      <4>. HIDE DEF o, r
      <4>. QED BY <2>1, <3>0 DEF Order
    <3>2. DOMAIN rows' = DOMAIN rows /\ rows' = [i \in DOMAIN rows' |-> rows'[i]]
          /\ \A i \in DOMAIN rows : i # id => rows'[i] = rows[i]
      BY <2>1
    <3>3. rows'[id] = r
      BY <3>1
    <3>. HIDE DEF r
    <3>. QED BY <3>2, <3>3
  <2>. HIDE DEF o
  <2>4. r \in Order /\ r.filled = rows[id].filled /\ r.done = rows[id].done + 1 /\ r.want = rows[id].want
    <3> DEFINE d == rows[id].done + 1
    <3>1. rows[id] \in Order /\ d \in Nat /\ o \in BOOLEAN
      BY <2>2 DEF Order
    <3>. HIDE DEF d
    <3>2. \A b \in BOOLEAN : LET x == [rows[id] EXCEPT !.done = d, !.over = b]
                             IN  x \in Order /\ x.filled = rows[id].filled /\ x.done = d /\ x.want = rows[id].want
      BY <3>1 DEF Order
    <3>3. r = [rows[id] EXCEPT !.done = d, !.over = o] /\ d = rows[id].done + 1
      BY DEF d
    <3>. HIDE DEF r
    <3>. QED BY <3>1, <3>2, <3>3, Zenon
  <2>5. r.filled <= r.done /\ r.done <= r.want
    <3>1. rows[id].filled \in Nat /\ rows[id].done \in Nat /\ rows[id].want \in Nat
      BY <2>2 DEF Order
    <3>. HIDE DEF r
    <3>. QED BY <2>1, <2>2, <2>4, <3>1
  <2>. HIDE DEF r
  <2>. QED BY <1>0, <2>3, <2>4, <2>5, RowsTypedMove
<1>5. CASE EndOrder
  <2>1. PICK id \in DOMAIN rows : rows' = [rows EXCEPT ![id].over = TRUE]
    BY <1>5 DEF EndOrder
  <2> DEFINE r == [rows[id] EXCEPT !.over = TRUE]
  <2>2. r \in Order /\ r.filled <= r.done /\ r.done <= r.want
    BY <1>0 DEF RowsTyped, Order
  <2>3. rows' = [i \in DOMAIN rows \union {id} |-> IF i = id THEN r ELSE rows[i]]
    BY <2>1
  <2>. HIDE DEF r
  <2>. QED BY <1>0, <2>2, <2>3, RowsTypedMove
<1>6. CASE Report
  <2>1. PICK id \in DOMAIN rows : rows' = [rows EXCEPT ![id] = Reported(@)]
    BY <1>6 DEF Report
  <2> DEFINE s == IF ~rows[id].over THEN "PENDING" ELSE IF rows[id].done = rows[id].want THEN "FILLED"
                  ELSE IF rows[id].done > 0 THEN "CANCELED" ELSE "REJECTED"
             r == [rows[id] EXCEPT !.filled = rows[id].done, !.st = s]
  <2>2. s \in FINAL \union {"PENDING"} /\ rows[id] \in Order /\ rows[id].done <= rows[id].want
    BY <1>0 DEF FINAL, RowsTyped
  <2>3. Reported(rows[id]) = r
    BY DEF Reported
  <2>. HIDE DEF s
  <2>4. r \in Order /\ r.filled = rows[id].done /\ r.done = rows[id].done /\ r.want = rows[id].want
    BY <2>2 DEF Order
  <2>5. rows[id].done \in Nat /\ rows[id].want \in Nat
    BY <2>2 DEF Order
  <2>. HIDE DEF r
  <2>6. rows' = [i \in DOMAIN rows \union {id} |-> IF i = id THEN r ELSE rows[i]]
    BY <2>1, <2>3
  <2>7. r.filled <= r.done /\ r.done <= r.want
    BY <2>2, <2>4, <2>5
  <2>. QED BY <1>0, <2>4, <2>6, <2>7, RowsTypedMove
<1>. QED
  BY <1>1, <1>2, <1>3, <1>4, <1>5, <1>6
     DEF Next, Tick, Advance, vars, NoPlan, AdvanceFails, Stop, Settle, SellPlanned, SellAgain, SellSettles,
         ConfirmCash, BuyConfirmed, BuySettles, Waits, Create, TickEnd, Load, GatewayRestart, ServerCrash,
         Disable, HandBuy, Ages

\* Only the owner's purchases raise the account.
LEMMA AccountStays == ASSUME Bounded, [Next]_vars PROVE AccountBounded'
<1>0. account \in Nat /\ account <= Lots + hand /\ hand \in 0..MaxHand
  BY DEF Bounded, AccountBounded, Inv, TypeInv
<1>1. CASE Execute
  BY <1>0, <1>1, ConstantsAssumption DEF Execute, AccountBounded
<1>2. CASE HandBuy
  BY <1>0, <1>2, ConstantsAssumption DEF HandBuy, AccountBounded
<1>3. CASE UNCHANGED <<account, hand>>
  BY <1>0, <1>3 DEF AccountBounded
<1>. QED
  BY <1>1, <1>2, <1>3
     DEF Next, Tick, Advance, vars, NoPlan, AdvanceFails, Stop, Settle, SellPlanned, SellAgain, SellSettles,
         ConfirmCash, BuyConfirmed, BuySettles, Waits, Dispatch, EvaluationSells, EvaluationBuys, EndOrder,
         Report, Create, TickEnd, Load, GatewayRestart, ServerCrash, Disable, Ages

\* opportunity_rotation.py:425: no two plans are active at once, each is about lots the bot held when
\* it was made, and every row's fills are within its lots, whatever else is sold, bought or lost.
THEOREM PlansTyped == Spec => []TypeOK
<1>1. Init => Bounded
  <2>. SUFFICES ASSUME Init PROVE PlansBounded /\ RowsTyped /\ AccountBounded
    BY InvInit DEF Bounded
  <2>1. DOMAIN plans = {} /\ Len(plans) = 0 /\ DOMAIN rows = {} /\ Active = {}
    BY DEF Init, Active
  <2>. QED BY <2>1, FS_EmptySet, ConstantsAssumption
           DEF Init, PlansBounded, RowsTyped, AccountBounded
<1>2. Bounded /\ [Next]_vars => Bounded'
  <2>. SUFFICES ASSUME Bounded, [Next]_vars PROVE Bounded'
    OBVIOUS
  <2>1. Inv'
    BY InvStep DEF Bounded
  <2>. QED BY <2>1, PlansStay, RowsStayTyped, AccountStays DEF Bounded
<1>3. Bounded => TypeOK
  <2>. SUFFICES ASSUME Bounded PROVE TypeOK
    OBVIOUS
  <2>1. Cardinality(Active) <= 1
    <3>1. CASE Active = {}
      BY <3>1, FS_EmptySet
    <3>2. CASE Active # {}
      <4>1. PICK p \in Active : TRUE
        BY <3>2
      <4>2. Active = {p}
        BY <4>1 DEF Bounded, PlansBounded
      <4>3. Cardinality({p}) = 1
        BY FS_Singleton
      <4>. QED BY <4>2, <4>3
    <3>. QED BY <3>1, <3>2
  <2>2. \A p \in DOMAIN plans : plans[p].st \in ACTIVE \union ENDED /\ plans[p].qty \in 1..Lots /\ plans[p].buy \in Nat
    BY PlansType DEF Bounded, Inv, Plan, PlansBounded
  <2>3. \A id \in DOMAIN rows : rows[id].st \in FINAL \union {"PENDING"} /\ rows[id].filled \in 0..rows[id].want
    BY DEF Bounded, RowsTyped, Order
  <2>4. account \in 0..Lots + MaxHand /\ gw.gen \in Nat /\ Len(plans) <= MaxPlans
    BY ConstantsAssumption DEF Bounded, AccountBounded, PlansBounded, Inv, TypeInv
  <2>. QED BY <2>1, <2>2, <2>3, <2>4 DEF TypeOK
<1>. QED BY <1>1, <1>2, <1>3, PTL DEF Spec
=============================================================================
