--------------------------- MODULE GatewayOrders ---------------------------
(***************************************************************************)
(* The order endpoint of the gateway: daily order counts, idempotency      *)
(* table and pending keys, in the memory of a terminal that restarts, and  *)
(* the configuration poll that restores the counts from the server's rows. *)
(*                                                                         *)
(* One trading day.  _orderGate lets one request at a time through the     *)
(* gates; the poll, OnOrderUpdate and a restart come between its steps.    *)
(* What is decided from the login, the positions and the market is chosen  *)
(* (AccountArming and ExitDispatch have the first two).                    *)
(***************************************************************************)
EXTENDS Integers, FiniteSets, Functions

CONSTANTS
  Requests,     \* order requests of the day
  SymOf, SideOf, \* the symbol and the side of each
  PerDay, PerSymbol, \* MaxOrdersPerDay, MaxOrdersPerSymbolPerDay
  MaxRestarts,  \* bound: restarts of the terminal
  MaxRefusals   \* bound: changes of login at the send boundary

ASSUME OrdersAssumption ==
  /\ IsFiniteSet(Requests)
  /\ DOMAIN SymOf = Requests /\ DOMAIN SideOf = Requests
  /\ {PerDay, PerSymbol} \subseteq Nat \ {0}
  /\ {MaxRestarts, MaxRefusals} \subseteq Nat

VARIABLES
  row,    \* order_logs: the state of each request's row
  order,  \* external: the order at the exchange
  counts, \* _dailyTradeCountBySymbol
  pend,   \* _pendingOrdersBySymbolSide: the requests that hold their key
  config, \* "stale" before the first answer of the server and when it is too old
  poll,   \* the server's answer under way, with the counts in it
  gate,   \* the handler inside _orderGate: its step, request and the count it read
  queue,  \* requests waiting for _orderGate
  restarts, refusals

ordersVars == <<row, order, counts, pend, config, poll, gate, queue, restarts, refusals>>

Syms == {SymOf[r] : r \in Requests}
Key(r) == <<SymOf[r], SideOf[r]>>
For(s) == {r \in Requests : SymOf[r] = s}
Zero == [s \in Syms |-> 0]
NoPoll == [on |-> FALSE, counts |-> Zero]
Free == [step |-> "free", reqs |-> {}, count |-> 0]
Bounds == <<restarts, refusals>>

OrdersInit ==
  /\ row = [r \in Requests |-> "none"] /\ order = [r \in Requests |-> "none"]
  /\ counts = Zero /\ pend = {}
  /\ config = "stale" /\ poll = NoPoll
  /\ gate = Free /\ queue = {}
  /\ restarts = 0 /\ refusals = 0

-----------------------------------------------------------------------------
(* The server.                                                             *)

Pending == {"SEND_IN_PROGRESS", "SENT_PENDING", "SEND_UNKNOWN"}

\* The scanner commits the row, unless its key has one under way, and posts.
Post(r) ==
  /\ row[r] = "none"
  /\ ~\E q \in Requests : Key(q) = Key(r) /\ row[q] \in Pending
  /\ row' = [row EXCEPT ![r] = "SEND_IN_PROGRESS"]
  /\ queue' = queue \union {r}
  /\ UNCHANGED <<order, counts, pend, config, poll, gate, Bounds>>

\* mark_send_result: the last write, whatever a callback wrote before it.
Answered(r, status) == row' = [row EXCEPT ![r] = status]

\* get_today_order_count_maps counts every row that is not refused.
RowCounts == [s \in Syms |-> Cardinality({r \in For(s) : row[r] \notin {"none", "REJECTED"}})]

-----------------------------------------------------------------------------
(* FetchAndApplyServerConfigAsync.                                         *)

PollStart ==
  /\ ~poll.on
  /\ poll' = [on |-> TRUE, counts |-> RowCounts]
  /\ UNCHANGED <<row, order, counts, pend, config, gate, queue, Bounds>>

\* Counts are only raised: the rows may have been read before a send.
\* Mutation: the server's counts are taken over.
RestoredOver(mem, rows) == [s \in Syms |-> rows[s]]
Restored(mem, rows) == [s \in Syms |-> IF mem[s] >= rows[s] THEN mem[s] ELSE rows[s]]

PollApply ==
  /\ poll.on
  /\ counts' = Restored(counts, poll.counts)
  /\ config' = "fresh" /\ poll' = NoPoll
  /\ UNCHANGED <<row, order, pend, gate, queue, Bounds>>

PollFails ==
  /\ poll.on
  /\ poll' = NoPoll
  /\ UNCHANGED <<row, order, counts, pend, config, gate, queue, Bounds>>

\* IsConfigStale: three minutes without an answer.
ConfigAges ==
  /\ config = "fresh"
  /\ config' = "stale"
  /\ UNCHANGED <<row, order, counts, pend, poll, gate, queue, Bounds>>

-----------------------------------------------------------------------------
(* HandleOrderAsync.                                                       *)

Enter(r) ==
  /\ gate = Free /\ r \in queue
  /\ queue' = queue \ {r}
  /\ gate' = [Free EXCEPT !.step = "gates", !.reqs = {r}]
  /\ UNCHANGED <<row, order, counts, pend, config, poll, Bounds>>

DayCount == SumFunction(counts)    \* GetTotalDailyOrderCount

Passes(r) ==
  /\ config = "fresh"
  /\ DayCount < PerDay /\ counts[SymOf[r]] < PerSymbol
  /\ Key(r) \notin {Key(q) : q \in pend}

\* One of the gates refuses: those above, the login's, the position's, the market's.
Refuse ==
  /\ gate.step = "gates"
  /\ \E r \in gate.reqs : Answered(r, "REJECTED")
  /\ gate' = Free
  /\ UNCHANGED <<order, counts, pend, config, poll, queue, Bounds>>

Pass ==
  /\ gate.step = "gates"
  /\ \E r \in gate.reqs : Passes(r)
  /\ gate' = [gate EXCEPT !.step = "reserve"]
  /\ UNCHANGED <<row, order, counts, pend, config, poll, queue, Bounds>>

\* The request's slot of the day and its key.
ReserveSlot ==
  /\ gate.step = "reserve"
  /\ \E r \in gate.reqs :
       counts' = [counts EXCEPT ![SymOf[r]] = @ + 1] /\ pend' = pend \union {r}
  /\ gate' = [gate EXCEPT !.step = "boundary"]
  /\ UNCHANGED <<row, order, config, poll, queue, Bounds>>

\* The login changed at the send boundary.
BoundaryRefuses ==
  /\ gate.step = "boundary" /\ refusals < MaxRefusals
  /\ refusals' = refusals + 1
  /\ gate' = [gate EXCEPT !.step = "rollback"]
  /\ UNCHANGED <<row, order, counts, pend, config, poll, queue, restarts>>

\* RollbackOrderReservation frees the key and reads the count ...
\* Mutation: the key is kept.
KeyKept(r) == pend
KeyFreed(r) == pend \ {r}

Rollback ==
  /\ gate.step = "rollback"
  /\ \E r \in gate.reqs :
       /\ pend' = KeyFreed(r)
       /\ gate' = [gate EXCEPT !.step = "decrement", !.count = counts[SymOf[r]]]
  /\ UNCHANGED <<row, order, counts, config, poll, queue, Bounds>>

\* ... and writes one less than it read, whatever a poll has restored meanwhile.
Decrement ==
  /\ gate.step = "decrement"
  /\ \E r \in gate.reqs :
       /\ counts' = IF gate.count > 0 THEN [counts EXCEPT ![SymOf[r]] = gate.count - 1] ELSE counts
       /\ Answered(r, "REJECTED")
  /\ gate' = Free
  /\ UNCHANGED <<order, pend, config, poll, queue, Bounds>>

\* SendLimitOrder returns, or throws with the order placed or not.
SdkCall ==
  /\ gate.step = "boundary"
  /\ \E r \in gate.reqs, step \in {"sent", "unknown"} :
       /\ \/ order' = [order EXCEPT ![r] = "live"]
          \/ step = "unknown" /\ UNCHANGED order
       /\ gate' = [gate EXCEPT !.step = step]
  /\ UNCHANGED <<row, counts, pend, config, poll, queue, Bounds>>

\* The answer is written; a write that fails after the send says unknown.
Answer ==
  /\ gate.step \in {"sent", "unknown"}
  /\ \E r \in gate.reqs :
       \/ gate.step = "sent" /\ Answered(r, "SENT_PENDING")
       \/ Answered(r, "SEND_UNKNOWN")
  /\ gate' = Free
  /\ UNCHANGED <<order, counts, pend, config, poll, queue, Bounds>>

-----------------------------------------------------------------------------
(* The exchange and the terminal.                                          *)

\* OnOrderUpdate with a final status frees the key; the row follows.
OrderEnds(r) ==
  /\ order[r] = "live"
  /\ \E end \in {"FILLED", "REJECTED"} :
       order' = [order EXCEPT ![r] = end] /\ row' = [row EXCEPT ![r] = end]
  /\ pend' = KeyFreed(r)
  /\ UNCHANGED <<counts, config, poll, gate, queue, Bounds>>

\* The memory is lost; requests under way are not answered.
Restart ==
  /\ restarts < MaxRestarts /\ restarts' = restarts + 1
  /\ counts' = Zero /\ pend' = {}
  /\ config' = "stale" /\ poll' = NoPoll
  /\ gate' = Free /\ queue' = {}
  /\ row' = [r \in Requests |->
       IF r \in queue \union gate.reqs THEN "SEND_UNKNOWN" ELSE row[r]]
  /\ UNCHANGED <<order, refusals>>

OrdersNext ==
  \/ \E r \in Requests : Post(r) \/ Enter(r) \/ OrderEnds(r)
  \/ PollStart \/ PollApply \/ PollFails \/ ConfigAges
  \/ Refuse \/ Pass \/ ReserveSlot \/ BoundaryRefuses \/ Rollback \/ Decrement
  \/ SdkCall \/ Answer \/ Restart

OrdersSpec == OrdersInit /\ [][OrdersNext]_ordersVars

-----------------------------------------------------------------------------
(* Properties.                                                             *)

\* A request is counted at most twice, by its row and by its slot: a poll that is
\* applied while the request waits, or between its gates and its slot, has restored its
\* row already. One request is inside the gate.
OrdersTypeOK ==
  /\ row \in [Requests -> Pending \union {"none", "FILLED", "REJECTED"}]
  /\ order \in [Requests -> {"none", "live", "FILLED", "REJECTED"}]
  /\ \A s \in Syms : counts[s] \in 0 .. 2 * Cardinality(For(s)) /\ poll.counts[s] \in 0 .. Cardinality(For(s))
  /\ DOMAIN counts = Syms /\ DOMAIN poll.counts = Syms /\ poll.on \in BOOLEAN
  /\ pend \subseteq Requests /\ queue \subseteq Requests
  /\ config \in {"fresh", "stale"}
  /\ \/ gate = Free
     \/ /\ gate.step \in {"gates", "reserve", "boundary", "rollback", "decrement", "sent", "unknown"}
        /\ \E r \in Requests : gate.reqs = {r}
        /\ gate.count \in Nat

\* Orders of the day that the exchange has not refused.
Placed(s) == {r \in For(s) : order[r] \notin {"none", "REJECTED"}}

\* However often the terminal loses its memory, a poll reads rows that are older
\* than a send and a refusal at the boundary gives a slot back while a poll restores
\* it, a symbol never has more orders at the exchange than its limit.
SymbolCap == \A s \in Syms : Cardinality(Placed(s)) <= PerSymbol

\* The same for the limit of the day, which is a sum over counts that are restored
\* one by one (GetTotalDailyOrderCount).
DayCap == Cardinality(UNION {Placed(s) : s \in Syms}) <= PerDay

\* The limits of the day, of each symbol and over all.
CapsHold == SymbolCap /\ DayCap

\* A key is held only by a request inside the gate, by an order at the exchange or by
\* a send nobody knows the outcome of: no refusal, late answer or rollback leaves a
\* symbol and side that can never be traded again (_pendingOrdersBySymbolSide).
NoStuckKey ==
  \A r \in pend : r \in gate.reqs \/ order[r] = "live" \/ row[r] = "SEND_UNKNOWN"
=============================================================================
