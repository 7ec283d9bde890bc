----------------------------- MODULE DailyLoss -----------------------------
(***************************************************************************)
(* The day's profit and loss of one account, replayed from the fills of    *)
(* the ledger, and the guard that stops new buying on a loss.              *)
(*                                                                         *)
(* Trades come from the exchange with the order's row; the fill's row is   *)
(* written later, never, or with values that do not match its order.  The  *)
(* replay keeps one state per symbol and adds them up: one symbol is here. *)
(* Quantities and money are in units of 1/Scale, so that averages of the   *)
(* few lots are exact; the rounding of Decimal is left out.                *)
(***************************************************************************)
EXTENDS Integers, Sequences, FiniteSets, Functions

CONSTANTS
  AccountIds,
  Qtys, Prices, \* of a trade
  Fee,          \* commission and exchange fees of a fill
  Settings,     \* dailyMaxLossPct, dailyMaxLossTl, sizingTotalBotCapitalBudgetTl
  Balances,     \* what the terminal says the account is worth
  MaxTrades     \* bound: trades in the ledger

VARIABLE trades \* order_logs with a filled quantity, in the order of their fills

Scale == 60

\* today: filled since the start of the day; fill: its row is there and matches the order.
Trade == [acc : AccountIds, act : {"BUY", "SELL"}, qty : Qtys, price : Prices,
          today : BOOLEAN, fill : BOOLEAN]

DailyInit == trades = <<>>

\* The trades of an account, by their places in the ledger.
Of(acc) == {i \in DOMAIN trades : trades[i].acc = acc}
LotsOf(t) == IF t.act = "BUY" THEN t.qty ELSE -t.qty
Holding(acc) == SumFunction([i \in Of(acc) |-> LotsOf(trades[i])])

\* apply_callback writes the order's filled quantity and price.
Traded ==
  /\ Len(trades) < MaxTrades
  /\ \E acc \in AccountIds, act \in {"BUY", "SELL"}, q \in Qtys, p \in Prices :
       /\ act = "SELL" => q <= Holding(acc)
       /\ trades' = Append(trades, [acc |-> acc, act |-> act, qty |-> q, price |-> p,
                                    today |-> TRUE, fill |-> FALSE])

\* record_fill, at the callback or from a later reconciliation; one written with the
\* limit price, where the average was not known yet, still does not match its order.
FillWritten(i) ==
  /\ ~trades[i].fill
  /\ trades' = [trades EXCEPT ![i].fill = TRUE]

\* _day_start_utc moves.
NewDay ==
  /\ \E i \in DOMAIN trades : trades[i].today
  /\ trades' = [i \in DOMAIN trades |-> [trades[i] EXCEPT !.today = FALSE]]

DailyNext == Traded \/ NewDay \/ \E i \in DOMAIN trades : FillWritten(i)

DailySpec == DailyInit /\ [][DailyNext]_trades

-----------------------------------------------------------------------------
(* get_daily_pnl.                                                          *)

Nothing == [qty |-> 0, cost |-> 0, todayQty |-> 0, todayCost |-> 0, realized |-> 0, over |-> FALSE]

AfterPurchase(lot, t) ==
  LET today == IF t.today THEN t.qty * Scale ELSE 0
  IN  [lot EXCEPT !.qty = @ + t.qty * Scale, !.cost = @ + t.qty * t.price * Scale,
                  !.todayQty = @ + today, !.todayCost = @ + today * t.price]

SoldOf(lot, t) == IF t.qty * Scale <= lot.qty THEN t.qty * Scale ELSE lot.qty

\* Mutation: the lots of the day are thought to be there after their sale.
SoldTodayLast(lot, t) ==
  LET rest == lot.qty - SoldOf(lot, t)
      left(x) == (x * rest) \div lot.qty
      gain == t.price * SoldOf(lot, t) - (lot.cost - left(lot.cost))
  IN  IF lot.qty = 0 THEN [lot EXCEPT !.over = TRUE]
      ELSE [lot EXCEPT !.qty = rest, !.cost = left(@),
                       !.realized = @ + IF t.today THEN gain ELSE 0,
                       !.over = @ \/ SoldOf(lot, t) < t.qty * Scale]

\* A sale takes the same share of every lot, at the average cost at its time.
AfterSale(lot, t) ==
  LET rest == lot.qty - SoldOf(lot, t)
      left(x) == (x * rest) \div lot.qty
      gain == t.price * SoldOf(lot, t) - (lot.cost - left(lot.cost))
  IN  IF lot.qty = 0 THEN [lot EXCEPT !.over = TRUE]
      ELSE [lot EXCEPT !.qty = rest, !.cost = left(@),
                       !.todayQty = left(@), !.todayCost = left(@),
                       !.realized = @ + IF t.today THEN gain ELSE 0,
                       !.over = @ \/ SoldOf(lot, t) < t.qty * Scale]

\* The trades at the places ts, one after the other.
Replay(ts) ==
  LET lot[n \in 0..Len(trades)] ==
        IF n = 0 THEN Nothing
        ELSE IF n \notin ts THEN lot[n - 1]
        ELSE IF trades[n].act = "BUY" THEN AfterPurchase(lot[n - 1], trades[n]) ELSE AfterSale(lot[n - 1], trades[n])
  IN  lot[Len(trades)]

Fees(ts) == Fee * Scale * Cardinality({i \in ts : trades[i].today})

\* _scoped_fill_ledger_gaps: an order whose fills do not add up to it is left out.
Trusted(ts) == {i \in ts : trades[i].fill}

\* quote is 0 when no reliable price of the last 30 seconds is known.
Unpriced(lot, quote) == lot.todayQty > 0 /\ quote = 0
Unrealized(lot, quote) == IF quote = 0 THEN 0 ELSE quote * lot.todayQty - lot.todayCost

PnlOf(ts, quote) ==
  LET lot == Replay(ts)
      realized == lot.realized - Fees(ts)
  IN  [realized |-> realized, total |-> realized + Unrealized(lot, quote),
       gaps |-> lot.over \/ Unpriced(lot, quote)]

DailyPnl(acc, quote) ==
  LET pnl == PnlOf(Trusted(Of(acc)), quote)
  IN  [pnl EXCEPT !.gaps = @ \/ Trusted(Of(acc)) # Of(acc)]

-----------------------------------------------------------------------------
(* get_daily_loss_guard_status.                                            *)

\* What the gateway said: its verified account, and the account payload.
Health(acc, payload, equity) == [acc |-> acc, payload |-> payload, equity |-> equity]

\* _verified_account_equity: 0 when the payload is missing or unreliable.
Equity(g) == IF g.payload = g.acc THEN g.equity ELSE 0

GuardCapital(s, g) ==
  IF Equity(g) > 0 /\ (s.budget = 0 \/ Equity(g) <= s.budget) THEN Equity(g) ELSE s.budget

PctCap(s, g) == IF s.pct = 0 THEN 0 ELSE (GuardCapital(s, g) * s.pct * Scale) \div 100
TlCap(s) == s.tl * Scale
Caps(s, g) == {TlCap(s), PctCap(s, g)} \ {0}

\* Health has a verified account, and a payload that can be used is that account's.
Identified(g) == g.acc # "none" /\ g.payload \in {"none", g.acc}

\* Mutation: gaps do not stop.
GuardGapless(s, g, pnl) ==
  IF s.pct = 0 /\ s.tl = 0 THEN "DISABLED"
  ELSE IF ~Identified(g) \/ Caps(s, g) = {} THEN "UNAVAILABLE"
  ELSE IF \E cap \in Caps(s, g) : pnl.realized <= -cap \/ pnl.total <= -cap THEN "BREACHED"
  ELSE IF s.pct > 0 /\ PctCap(s, g) = 0 THEN "UNAVAILABLE"
  ELSE "AVAILABLE"

Guard(s, g, pnl) ==
  IF s.pct = 0 /\ s.tl = 0 THEN "DISABLED"
  ELSE IF ~Identified(g) \/ Caps(s, g) = {} THEN "UNAVAILABLE"
  ELSE IF \E cap \in Caps(s, g) : pnl.realized <= -cap THEN "BREACHED"
  ELSE IF pnl.gaps THEN "UNAVAILABLE"
  ELSE IF \E cap \in Caps(s, g) : pnl.total <= -cap THEN "BREACHED"
  ELSE IF s.pct > 0 /\ PctCap(s, g) = 0 THEN "UNAVAILABLE"
  ELSE "AVAILABLE"

\* apply_daily_loss_limit, and the dispatch's two readings: only buying is stopped.
BuyStopped(state) == state \in {"BREACHED", "UNAVAILABLE"}

-----------------------------------------------------------------------------
(* Properties.                                                             *)

Quotes == Prices \union {0}

\* Buying goes on only if the day's loss, counted over every trade the orders know of
\* and not only over the fills that made it to the ledger, is below each limit that is
\* set: no missing or damaged fill, no price that is too old and no payload of another
\* account makes a loss look smaller (daily_pnl.py: "Fail yönü").
LossNotMissed ==
  \A acc \in AccountIds \union {"none"}, quote \in Quotes :
    LET pnl == DailyPnl(acc, quote)
        all == PnlOf(Of(acc), quote).total
    IN  \A payload \in AccountIds \union {"none"}, equity \in Balances, s \in Settings :
          LET g == Health(acc, payload, equity)
          IN  s.pct + s.tl > 0 /\ ~BuyStopped(Guard(s, g, pnl)) =>
                /\ s.tl > 0 => all > -TlCap(s)
                /\ s.pct > 0 => PctCap(s, g) > 0 /\ all > -PctCap(s, g)

\* The replay is the books' own result: for an account that began the day flat, realized
\* and unrealized add up to the cash of its trades, its fees and the value of what it
\* holds, whatever the order of purchases and partial sales.
CashOf(t) == -LotsOf(t) * t.price * Scale
ReplayIsMarkToMarket ==
  \A acc \in AccountIds, quote \in Prices :
    (\A i \in Of(acc) : trades[i].today) =>
      PnlOf(Of(acc), quote).total =
        SumFunction([i \in Of(acc) |-> CashOf(trades[i]) - Fee * Scale]) + Holding(acc) * quote * Scale
=============================================================================
