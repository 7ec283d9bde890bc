--------------------------- MODULE CashReservation ---------------------------
(***************************************************************************)
(* Sizing a BUY against the broker's account: reserve_sized_buy run by     *)
(* several dispatchers that share the database.                            *)
(*                                                                         *)
(* A dispatcher fetches the account and the positions from the gateway     *)
(* (two concurrent requests), then opens a transaction, takes the account- *)
(* wide advisory lock, sums the cash the ledger reserves and the lots the  *)
(* bot owns, sizes the order and commits it.  Meanwhile orders reach the   *)
(* broker, are filled, and their callbacks change the ledger.              *)
(*                                                                         *)
(* Every price is 1, so cash and lots are counted in the same unit; the    *)
(* candidates of calculate_buy_size that do not depend on shared state are *)
(* one bound, Want.  OrderFlow has the life of one order in detail.        *)
(***************************************************************************)
EXTENDS Integers, FiniteSets, Functions

CONSTANTS
  Workers,    \* dispatchers
  Orders,     \* BUY requests they may send
  SymOf,      \* the symbol of each
  Handlings,  \* the values reservation_handling may have
  Cash,       \* the account's cash at first
  Budget,     \* capital_base: the smaller of equity and total bot budget
  Want,       \* the decision's quantity and the limits of one order
  Manual      \* lots of each symbol the account owner holds himself

Symbols == {SymOf[r] : r \in Orders}

ASSUME ConstantsAssumption ==
  /\ Handlings \subseteq {"BACKEND_DEDUCTED", "BROKER_ALREADY_DEDUCTED"}
  /\ IsFiniteSet(Orders)
  /\ {Cash, Budget, Want} \subseteq Nat /\ Manual \in [Symbols -> Nat]

VARIABLES
  handling,  \* reservation_handling, as configured for the account
  wk,        \* each dispatcher: where it is and what it has read
  lock,      \* the dispatcher that holds the advisory lock, or {}
  begun,     \* orders whose reservation has a created_at already
  ledger,    \* order_logs with its reservation: quantity, fills, still pending
  broker,    \* external: the order at the broker
  held       \* external: lots the gateway's position cache shows

vars == <<handling, wk, lock, begun, ledger, broker, held>>

Idle == [pc |-> "idle", req |-> {}, power |-> 0, seen |-> {}, pos |-> Manual, got |-> {},
         reserved |-> 0, frozen |-> {}]

Init ==
  /\ handling \in Handlings
  /\ wk = [w \in Workers |-> Idle]
  /\ lock = {} /\ begun = {}
  /\ ledger = [r \in Orders |-> [qty |-> 0, filled |-> 0, open |-> FALSE]]
  /\ broker = [r \in Orders |-> [open |-> FALSE, filled |-> 0]]
  /\ held = Manual

Of(s) == {r \in Orders : SymOf[r] = s}
Least(S) == CHOOSE n \in S : \A m \in S : n <= m

\* max(0, m - n)
Less(m, n) == IF m > n THEN m - n ELSE 0

\* sync_cash_reservation: the remaining lots of a pending order, else nothing.
Reserved == [r \in Orders |-> IF ledger[r].open THEN ledger[r].qty - ledger[r].filled ELSE 0]

\* load_bot_ownership: what the ledger knows to be filled.
Filled == [r \in Orders |-> ledger[r].filled]
Owned  == [s \in Symbols |-> SumFunctionOnSet(Filled, Of(s))]

Bought == [r \in Orders |-> broker[r].filled]

\* The buying power the broker reports, with open orders deducted or not.
BuyingPower ==
  LET spent == SumFunction(Bought)
      open  == SumFunctionOnSet([r \in Orders |-> ledger[r].qty - broker[r].filled],
                                {r \in Orders : broker[r].open})
  IN IF handling = "BROKER_ALREADY_DEDUCTED" THEN Less(Cash, spent + open) ELSE Less(Cash, spent)

-----------------------------------------------------------------------------
\* A decision to buy reaches its dispatch.
Dispatch(w, r) ==
  /\ wk[w].pc = "idle" /\ ledger[r].qty = 0 /\ \A v \in Workers : r \notin wk[v].req
  /\ wk' = [wk EXCEPT ![w] = [Idle EXCEPT !.pc = "fetch", !.req = {r}]]
  /\ UNCHANGED <<lock, begun, ledger, broker, held>>

\* fetch_fresh_account_inputs gathers /account and /positions in any order.
FetchAccount(w) ==
  /\ wk[w].pc = "fetch" /\ "account" \notin wk[w].got
  /\ wk' = [wk EXCEPT ![w].power = BuyingPower, ![w].seen = begun, ![w].got = @ \union {"account"}]
  /\ UNCHANGED <<lock, begun, ledger, broker, held>>
FetchPositions(w) ==
  /\ wk[w].pc = "fetch" /\ "positions" \notin wk[w].got
  /\ wk' = [wk EXCEPT ![w].pos = held, ![w].got = @ \union {"positions"}]
  /\ UNCHANGED <<lock, begun, ledger, broker, held>>

\* The transaction starts with the configuration reads, before the lock; its
\* start is the created_at of what it will insert.
Begin(w) ==
  /\ wk[w].pc = "fetch" /\ wk[w].got = {"account", "positions"}
  /\ wk' = [wk EXCEPT ![w].pc = "begun"]
  /\ begun' = begun \union wk[w].req
  /\ UNCHANGED <<lock, ledger, broker, held>>

\* Mutation: the advisory lock is not taken.
LockNothing(w) ==
  /\ wk[w].pc = "begun"
  /\ wk' = [wk EXCEPT ![w].pc = "locked", ![w].reserved = SumFunction(Reserved)]
  /\ UNCHANGED <<lock, begun, ledger, broker, held>>

\* pg_advisory_xact_lock, then calculate_backend_reserved_cash, which leaves
\* the reservation of every pending order locked FOR UPDATE.
Lock(w) ==
  /\ wk[w].pc = "begun" /\ lock = {}
  /\ lock' = {w}
  /\ wk' = [wk EXCEPT ![w].pc = "locked",
                      ![w].reserved = SumFunction(Reserved),
                      ![w].frozen = {r \in Orders : ledger[r].open}]
  /\ UNCHANGED <<begun, ledger, broker, held>>

\* Mutation: only what is reserved counts against the bot's capital.
SizeByReserved(w) ==
  Least({Want, Less(wk[w].power, wk[w].reserved), Less(Budget, wk[w].reserved)})

\* Cash left after open orders: all of them when the broker does not deduct,
\* those newer than the account snapshot when it does.
EffectiveCash(w) ==
  Less(wk[w].power,
       IF handling = "BACKEND_DEDUCTED" THEN wk[w].reserved
       ELSE SumFunctionOnSet(Reserved, Orders \ wk[w].seen))

\* calculate_buy_size; an account whose positions lack lots the bot owns is
\* unreliable and buys nothing.
Size(w) ==
  IF \E s \in Symbols : Owned[s] > wk[w].pos[s] THEN 0
  ELSE Least({Want, EffectiveCash(w), Less(Budget, SumFunction(Owned) + wk[w].reserved)})

\* reserve_order refuses while another BUY of the symbol is pending.
Allowed(w) ==
  /\ Size(w) > 0
  /\ \A r \in wk[w].req, q \in Orders : SymOf[q] = SymOf[r] => ~ledger[q].open

\* The order, SEND_IN_PROGRESS and the reservation commit together, or the
\* order is refused; either way the locks are released.
Commit(w) ==
  /\ wk[w].pc = "locked"
  /\ \/ /\ Allowed(w)
        /\ \E r \in wk[w].req :
             ledger' = [ledger EXCEPT ![r] = [qty |-> Size(w), filled |-> 0, open |-> TRUE]]
        /\ wk' = [wk EXCEPT ![w] = [Idle EXCEPT !.pc = "send", !.req = wk[w].req]]
     \/ /\ ~Allowed(w)
        /\ wk' = [wk EXCEPT ![w] = Idle]
        /\ UNCHANGED ledger
  /\ lock' = lock \ {w}
  /\ UNCHANGED <<begun, broker, held>>

\* POST /order: the broker takes the order, or the gateway rejects it.
Send(w) ==
  /\ wk[w].pc = "send"
  /\ \E r \in wk[w].req, taken \in BOOLEAN :
       /\ taken \/ \A v \in Workers : r \notin wk[v].frozen
       /\ broker' = [broker EXCEPT ![r].open = taken]
       /\ ledger' = [ledger EXCEPT ![r].open = taken]
  /\ wk' = [wk EXCEPT ![w] = Idle]
  /\ UNCHANGED <<lock, begun, held>>

-----------------------------------------------------------------------------
\* External: the broker fills an order or ends it, and Matriks reports the
\* position some time after.
Fill(r) ==
  /\ broker[r].open
  /\ \E n \in (broker[r].filled + 1)..ledger[r].qty :
       broker' = [broker EXCEPT ![r] = [filled |-> n, open |-> n < ledger[r].qty]]
  /\ UNCHANGED <<wk, lock, begun, ledger, held>>
End(r) ==
  /\ broker[r].open
  /\ broker' = [broker EXCEPT ![r].open = FALSE]
  /\ UNCHANGED <<wk, lock, begun, ledger, held>>
PositionEvent(s) ==
  LET lots == Manual[s] + SumFunctionOnSet(Bought, Of(s))
  IN /\ held[s] # lots
     /\ held' = [held EXCEPT ![s] = lots]
     /\ UNCHANGED <<wk, lock, begun, ledger, broker>>

\* A callback writes the order and its reservation in one commit, for which it
\* needs the reservation's row lock; none comes for an order not yet sent.
Callback(r) ==
  /\ ledger[r].open /\ \A w \in Workers : r \notin wk[w].frozen /\ wk[w].req # {r}
  /\ ledger' = [ledger EXCEPT ![r].filled = broker[r].filled, ![r].open = broker[r].open]
  /\ ledger' # ledger
  /\ UNCHANGED <<wk, lock, begun, broker, held>>

Next ==
  /\ \/ \E w \in Workers, r \in Orders : Dispatch(w, r)
     \/ \E w \in Workers :
          FetchAccount(w) \/ FetchPositions(w) \/ Begin(w) \/ Lock(w) \/ Commit(w) \/ Send(w)
     \/ \E r \in Orders : Fill(r) \/ End(r) \/ Callback(r)
     \/ \E s \in Symbols : PositionEvent(s)
  /\ UNCHANGED handling

Spec == Init /\ [][Next]_vars

-----------------------------------------------------------------------------
\* The dispatchers, the ledger and the broker have their types.
TypeOK ==
  /\ wk \in [Workers -> [pc : {"idle", "fetch", "begun", "locked", "send"}, req : SUBSET Orders,
                         power : 0..Cash, seen : SUBSET Orders, pos : [Symbols -> Nat],
                         got : SUBSET {"account", "positions"}, reserved : Nat,
                         frozen : SUBSET Orders]]
  /\ lock \in SUBSET Workers /\ begun \in SUBSET Orders
  /\ ledger \in [Orders -> [qty : 0..Want, filled : 0..Want, open : BOOLEAN]]
  /\ broker \in [Orders -> [open : BOOLEAN, filled : 0..Want]]
  /\ held \in [Symbols -> Nat]

\* What an order has cost the account or may still cost it.
Committed ==
  [r \in Orders |-> IF broker[r].open \/ ledger[r].open THEN ledger[r].qty ELSE broker[r].filled]

\* The capital the bot has put into orders, open and filled together, never
\* exceeds its budget, however dispatchers, fills and callbacks interleave.
BudgetKept == SumFunction(Committed) <= Budget

\* Where the backend deducts open orders, the reservations of all dispatchers
\* together never claim more cash than the account ever had.
OpenWithinCash == handling = "BACKEND_DEDUCTED" => SumFunction(Reserved) <= Cash

\* What the reservation code and its tests claim: two BUYs never spend the
\* same cash.
NoCashReused == SumFunction(Committed) <= Cash
=============================================================================
