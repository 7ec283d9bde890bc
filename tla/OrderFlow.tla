------------------------------ MODULE OrderFlow ------------------------------
(***************************************************************************)
(* One order from the scanner's reservation to the exchange and back.      *)
(*                                                                         *)
(*   server    the order ledger (order_logs), the cash reservation of a    *)
(*             BUY, the scanner task that sends orders and asks for        *)
(*             timeouts to be cancelled, the order synchroniser task, and  *)
(*             the /api/order-result handler                               *)
(*   gateway   the Matriks IQ algo: idempotency table, pending-order       *)
(*             indexes, cached order states, outbox; all of it in memory   *)
(*   exchange  external: orders move forward only                          *)
(*                                                                         *)
(* Every action is one database commit of the server, one gateway handler, *)
(* one exchange update with the OnOrderUpdate it triggers, or one fault.   *)
(* All requests have the same quantity Qty; ShapeOf tells two limit prices *)
(* apart, which together is the "shape" the gateway matches updates by.    *)
(***************************************************************************)
EXTENDS OrderStates, Sequences, FiniteSets

CONSTANTS
  Requests,       \* request ids the scanner may dispatch
  NoReq,          \* "no request" / "no order id"
  SymOf, SideOf,  \* symbol and side of each request
  ShapeOf,        \* rounded limit price class of each request
  Qty,            \* lots of each request
  ExFinals,       \* the final states the exchange uses
  MaxFaults,      \* bound: server crashes and aborted scanner ticks
  MaxStops,       \* bound: gateway stops
  MaxLost,        \* bound: callbacks that never reach the database
  MaxInFlight     \* bound: callback POSTs the server holds at once

\* The request id OnOrderUpdate makes up for an order it cannot place.
Ghost(r) == <<"MATRIKS", r>>
Ghosts == {Ghost(r) : r \in Requests}
Ids == Requests \union Ghosts
OrderOf(id) == IF id \in Requests THEN id ELSE id[2]
Side(id) == SideOf[OrderOf(id)]
Key(id) == <<SymOf[OrderOf(id)], Side(id)>>

ASSUME ConstantsAssumption ==
  /\ IsFiniteSet(Requests)
  /\ SideOf \in [Requests -> {"BUY", "SELL"}]
  /\ DOMAIN SymOf = Requests /\ DOMAIN ShapeOf = Requests
  /\ Qty \in Nat \ {0}
  /\ "FILLED" \in ExFinals /\ ExFinals \subseteq FINAL
  /\ Requests \intersect Ghosts = {} /\ NoReq \notin Ids
  /\ \A n \in {MaxFaults, MaxStops, MaxLost, MaxInFlight} : n \in Nat

VARIABLES
  rows,      \* order_logs: [Ids -> status, cumulative filled, order_id]
  reserved,  \* order_cash_reservations: lots held for a BUY
  pc, cur,   \* the scanner task and the request it is sending
  reply,     \* the gateway's answer (or SEND_UNKNOWN) it has in hand
  mirror,    \* the pending BUY rows reserve_sized_buy loaded
  canc,      \* rows the timeout check loaded before awaiting the gateway
  syncPc,    \* the synchroniser task
  snap,      \* the /orders/active answer it holds
  copy,      \* the ORM copies of the pending rows it loaded
  gwUp,      \* the gateway algo is running
  sentIds,   \* _sentRequestIds
  pendReq,   \* _pendingOrdersByRequestId
  pendKey,   \* _pendingOrdersBySymbolSide
  byOrder,   \* _pendingOrdersByOrderId
  recent,    \* _recentOrderStatesByOrderId
  lastRep,   \* _lastReportedStatusByKey
  queue,     \* _orderResultQueue
  wire,      \* the POST /order of each request
  posted,    \* callback POSTs on their way into the server
  ex,        \* the exchange: SDK sends per request, order state
  faults, stops, lost

scanVars == <<pc, cur, reply, mirror, canc>>
syncVars == <<syncPc, snap, copy>>
gwVars   == <<gwUp, sentIds, pendReq, pendKey, byOrder, recent, lastRep, queue>>
bounds   == <<faults, stops, lost>>
vars == <<rows, reserved, scanVars, syncVars, gwVars, wire, posted, ex, bounds>>

AbsentRow == [status |-> ABSENT, filled |-> 0, oid |-> NoReq]
NoSnap    == [id |-> NoReq, status |-> ABSENT, filled |-> 0]
Keys == {Key(r) : r \in Requests}

\* The exchange's view of one request: how often the SDK sent it, its status
\* ("NONE" before the first send, "SENT" before the first update), its fills.
ExStates == {"NONE", "SENT", "NEW", "PARTIALLY_FILLED"} \union ExFinals
Live(r) == ex[r].status \notin {"NONE"} \union FINAL

Init ==
  /\ rows = [id \in Ids |-> AbsentRow]
  /\ reserved = [id \in Ids |-> 0]
  /\ pc = "idle" /\ cur = NoReq /\ reply = ABSENT /\ canc = {}
  /\ mirror = [id \in Ids |-> AbsentRow]
  /\ syncPc = "idle"
  /\ snap = [r \in Requests |-> NoSnap]
  /\ copy = [id \in Ids |-> AbsentRow]
  /\ gwUp = TRUE /\ sentIds = {} /\ pendReq = {}
  /\ pendKey = [k \in Keys |-> NoReq]
  /\ byOrder = [r \in Requests |-> NoReq]
  /\ recent = [r \in Requests |-> NoSnap]
  /\ lastRep = [id \in Ids |-> ABSENT]
  /\ queue = <<>>
  /\ wire = [r \in Requests |-> "none"]
  /\ posted = {}
  /\ ex = [r \in Requests |-> [sends |-> 0, status |-> "NONE", filled |-> 0]]
  /\ faults = 0 /\ stops = 0 /\ lost = 0

-----------------------------------------------------------------------------
(* The ledger and its reservation mirror.                                  *)

\* One status write with sync_cash_reservation in the same commit.
SetStatus(id, s) ==
  /\ rows' = [rows EXCEPT ![id].status = s]
  /\ reserved' = IF Side(id) = "BUY"
                 THEN [reserved EXCEPT ![id] = ReservedAfter(s, rows[id].filled, Qty, @)]
                 ELSE reserved

\* Mutation: a send of unknown outcome no longer blocks its symbol and side.
NoPendingKnown(r) ==
  \A id \in Ids : Key(id) = Key(r) => rows[id].status \notin PENDING_STATES \ {"SEND_UNKNOWN"}

\* reserve_order refuses while any row of the symbol and side is pending.
NoPending(r) == \A id \in Ids : Key(id) = Key(r) => rows[id].status \notin PENDING_STATES

\* calculate_backend_reserved_cash raises while a BUY of unknown account is
\* pending; only the rows a callback inserted have no account.
BuyOwnersKnown ==
  \A g \in Ghosts : Side(g) = "BUY" => rows[g].status \notin PENDING_STATES /\ reserved[g] = 0

\* To sum what is reserved, the sizing of a BUY (in its evaluation and again in
\* reserve_sized_buy) loads every pending BUY row ...
SizeBuy ==
  /\ pc = "idle" /\ BuyOwnersKnown
  /\ mirror' = [id \in Ids |-> IF Side(id) = "BUY" /\ rows[id].status \in PENDING_STATES
                               THEN rows[id] ELSE AbsentRow]
  /\ pc' = "sizing"
  /\ UNCHANGED <<rows, reserved, cur, reply, canc, syncVars, gwVars, wire, posted, ex, bounds>>

\* ... and mirrors what it loaded into the reservations, whatever became of
\* the rows meanwhile.
Mirrored(id) ==
  IF mirror[id].status = ABSENT THEN reserved[id]
  ELSE ReservedAfter(mirror[id].status, mirror[id].filled, Qty, reserved[id])
NoMirror == [id \in Ids |-> AbsentRow]

\* The reservation and SEND_IN_PROGRESS are committed together with the
\* mirrored reservations,
ReserveBuy(r) ==
  /\ pc = "sizing" /\ Side(r) = "BUY" /\ rows[r].status = ABSENT /\ NoPending(r)
  /\ rows' = [rows EXCEPT ![r].status = "SEND_IN_PROGRESS"]
  /\ reserved' = [id \in Ids |-> IF id = r THEN Qty ELSE Mirrored(id)]
  /\ pc' = "started" /\ cur' = r /\ mirror' = NoMirror
  /\ UNCHANGED <<reply, canc, syncVars, gwVars, wire, posted, ex, bounds>>

\* and so are the latter alone at the end of an evaluation, or when the sizing
\* or the ledger refuses.
BuyRefused ==
  /\ pc = "sizing"
  /\ reserved' = [id \in Ids |-> Mirrored(id)]
  /\ pc' = "idle" /\ mirror' = NoMirror
  /\ UNCHANGED <<rows, cur, reply, canc, syncVars, gwVars, wire, posted, ex, bounds>>

\* A deterministic exit commits the reservation and SEND_IN_PROGRESS together.
ReserveExit(r) ==
  /\ pc = "idle" /\ rows[r].status = ABSENT /\ NoPending(r)
  /\ Side(r) = "SELL"
  /\ SetStatus(r, "SEND_IN_PROGRESS")
  /\ pc' = "started" /\ cur' = r
  /\ UNCHANGED <<reply, canc, mirror, syncVars, gwVars, wire, posted, ex, bounds>>

\* Any other SELL commits RESERVED first (reserve_order) ...
ReserveSell(r) ==
  /\ pc = "idle" /\ rows[r].status = ABSENT /\ NoPending(r)
  /\ Side(r) = "SELL"
  /\ SetStatus(r, "RESERVED")
  /\ pc' = "reserved" /\ cur' = r
  /\ UNCHANGED <<mirror, reply, canc, syncVars, gwVars, wire, posted, ex, bounds>>

\* ... and SEND_IN_PROGRESS in a commit of its own (mark_send_started).
MarkSendStarted ==
  /\ pc = "reserved"
  /\ SetStatus(cur, "SEND_IN_PROGRESS")
  /\ pc' = "started"
  /\ UNCHANGED <<mirror, cur, reply, canc, syncVars, gwVars, wire, posted, ex, bounds>>

\* _reject_reserved_order: account reference or final daily-loss check failed.
PreSendReject ==
  /\ pc = "started"
  /\ SetStatus(cur, "REJECTED")
  /\ pc' = "idle" /\ cur' = NoReq
  /\ UNCHANGED <<mirror, reply, canc, syncVars, gwVars, wire, posted, ex, bounds>>

SendOrder ==
  /\ pc = "started"
  /\ pc' = "sending"
  /\ wire' = [wire EXCEPT ![cur] = IF gwUp THEN "inflight" ELSE "gone"]
  /\ UNCHANGED <<mirror, rows, reserved, cur, reply, canc, syncVars, gwVars, posted, ex, bounds>>

\* Mutations: a failed POST is taken for a rejection; its outcome is dropped;
\* it is tried again.
SendFailsRejects ==
  /\ pc = "sending"
  /\ pc' = "replied" /\ reply' = "REJECTED"
  /\ UNCHANGED <<mirror, rows, reserved, cur, canc, syncVars, gwVars, wire, posted, ex, bounds>>
SendFailsRetries ==
  /\ pc = "sending"
  /\ pc' = "started"
  /\ UNCHANGED <<mirror, rows, reserved, cur, reply, canc, syncVars, gwVars, wire, posted, ex, bounds>>

\* GatewayUnavailable / GatewayError: the outcome is uncertain, never retried.
SendFails ==
  /\ pc = "sending"
  /\ pc' = "replied" /\ reply' = "SEND_UNKNOWN"
  /\ UNCHANGED <<mirror, rows, reserved, cur, canc, syncVars, gwVars, wire, posted, ex, bounds>>

\* mark_send_result: no transition() and no row lock.
MarkSendResult ==
  /\ pc = "replied"
  /\ SetStatus(cur, reply)
  /\ pc' = "marked"
  /\ UNCHANGED <<mirror, cur, reply, canc, syncVars, gwVars, wire, posted, ex, bounds>>

\* _persist_order_outcome: writes the same outcome once more, status only.
PersistOutcome ==
  /\ pc = "marked"
  /\ rows' = [rows EXCEPT ![cur].status = reply]
  /\ pc' = "idle" /\ cur' = NoReq /\ reply' = ABSENT
  /\ UNCHANGED <<mirror, reserved, canc, syncVars, gwVars, wire, posted, ex, bounds>>

\* cancel_timed_out_orders loads the stale rows, awaits the gateway for each,
TimeoutLoad ==
  /\ pc = "idle"
  /\ canc' = {id \in Ids : /\ rows[id].status \in {"SENT_PENDING", "NEW", "PARTIALLY_FILLED"}
                           /\ rows[id].oid # NoReq}
  /\ canc' # {}
  /\ pc' = "cancel"
  /\ UNCHANGED <<mirror, rows, reserved, cur, reply, syncVars, gwVars, wire, posted, ex, bounds>>

\* Mutation: an accepted cancel request is taken for the cancellation.
TimeoutCommitCancels ==
  /\ pc = "cancel"
  /\ \E accepted \in SUBSET canc :
       /\ gwUp \/ accepted = {}
       /\ rows' = [id \in Ids |-> IF id \in accepted
                                  THEN [rows[id] EXCEPT !.status = "CANCELED"]
                                  ELSE rows[id]]
  /\ pc' = "idle" /\ canc' = {}
  /\ UNCHANGED <<mirror, reserved, cur, reply, syncVars, gwVars, wire, posted, ex, bounds>>

\* and commits CANCEL_REQUESTED for the accepted ones in one commit.
TimeoutCommit ==
  /\ pc = "cancel"
  /\ \E accepted \in SUBSET canc :
       /\ gwUp \/ accepted = {}
       /\ rows' = [id \in Ids |-> IF id \in accepted
                                  THEN [rows[id] EXCEPT !.status = "CANCEL_REQUESTED"]
                                  ELSE rows[id]]
  /\ pc' = "idle" /\ canc' = {}
  /\ UNCHANGED <<mirror, reserved, cur, reply, syncVars, gwVars, wire, posted, ex, bounds>>

-----------------------------------------------------------------------------
(* apply_callback, shared by the HTTP callback and the synchroniser.       *)

\* on_conflict_do_nothing insert of a RESERVED row when there is none.
Inserted(row) == IF row.status = ABSENT THEN [row EXCEPT !.status = "RESERVED"] ELSE row

\* `base` is the ORM object the session works on, `next` what apply_callback
\* makes of it.  Only the columns that differ from `base` are written.
Written(row, base, next) ==
  [status |-> IF next.status # base.status THEN next.status ELSE row.status,
   filled |-> IF next.filled # base.filled THEN next.filled ELSE row.filled,
   oid    |-> IF next.oid # base.oid THEN next.oid ELSE row.oid]

\* Mutation: the cumulative filled quantity is taken for a delta.
ApplyDelta(id, base, e) ==
  LET next == [status |-> e.status, filled |-> base.filled + e.filled, oid |-> e.oid]
  IN IF Transition(base.status, e.status, base.filled, e.filled)
     THEN /\ rows' = [rows EXCEPT ![id] = Written(Inserted(rows[id]), base, next)]
          /\ reserved' = IF Side(id) = "BUY"
                         THEN [reserved EXCEPT ![id] = ReservedAfter(e.status, next.filled, Qty, @)]
                         ELSE reserved
     ELSE UNCHANGED <<rows, reserved>>

Apply(id, base, e) ==
  LET fills == IF e.filled > base.filled THEN e.filled ELSE base.filled
      next  == [status |-> e.status, filled |-> fills, oid |-> e.oid]
  IN IF Transition(base.status, e.status, base.filled, e.filled)
     THEN /\ rows' = [rows EXCEPT ![id] = Written(Inserted(rows[id]), base, next)]
          /\ reserved' = IF Side(id) = "BUY"
                         THEN [reserved EXCEPT ![id] = ReservedAfter(e.status, fills, Qty, @)]
                         ELSE reserved
     ELSE UNCHANGED <<rows, reserved>>

\* POST /api/order-result in a session of its own: the row is read fresh
\* under its lock.
DeliverCallback(e) ==
  /\ e \in posted
  /\ Apply(e.id, Inserted(rows[e.id]), e)
  /\ posted' = posted \ {e}
  /\ UNCHANGED <<scanVars, syncVars, gwVars, wire, ex, bounds>>

\* HTTP 503, a refused connection or a timeout: the gateway logs and goes on.
LoseCallback(e) ==
  /\ e \in posted /\ lost < MaxLost
  /\ posted' = posted \ {e}
  /\ lost' = lost + 1
  /\ UNCHANGED <<rows, reserved, scanVars, syncVars, gwVars, wire, ex, faults, stops>>

-----------------------------------------------------------------------------
(* reconcile_orders: fetch, load every pending row once, apply row by row. *)

\* Mutation: an order leaves the cached states when it is final.
ActiveOrdersWorking(listed) ==
  [r \in Requests |->
     IF recent[r].status \notin {ABSENT} \union FINAL THEN recent[r]
     ELSE IF listed /\ ex[r].status \in {"NEW", "PARTIALLY_FILLED"} \union FINAL
          THEN [id |-> byOrder[r], status |-> ex[r].status, filled |-> ex[r].filled]
          ELSE NoSnap]

\* /orders/active: the exchange's list overlaid by the cached states.  An
\* order only the exchange knows carries a request id if it has a context.
ActiveOrders(listed) ==
  [r \in Requests |->
     IF recent[r].status # ABSENT THEN recent[r]
     ELSE IF listed /\ ex[r].status \in {"NEW", "PARTIALLY_FILLED"} \union FINAL
          THEN [id |-> byOrder[r], status |-> ex[r].status, filled |-> ex[r].filled]
          ELSE NoSnap]

SyncFetch ==
  /\ syncPc = "idle" /\ gwUp
  /\ \E listed \in BOOLEAN : snap' = ActiveOrders(listed)
  /\ syncPc' = "fetched"
  /\ UNCHANGED <<rows, reserved, scanVars, copy, gwVars, wire, posted, ex, bounds>>

SyncLoad ==
  /\ syncPc = "fetched"
  /\ syncPc' = "applying"
  /\ copy' = [id \in Ids |-> IF rows[id].status \in PENDING_STATES THEN rows[id] ELSE AbsentRow]
  /\ UNCHANGED <<rows, reserved, scanVars, snap, gwVars, wire, posted, ex, bounds>>

\* The order a loaded row is matched to: by order id, else by request id.
Matches(id) ==
  LET byId == {r \in Requests : snap[r].status # ABSENT /\ r = copy[id].oid}
  IN IF byId # {} THEN byId
     ELSE {r \in Requests : snap[r].status # ABSENT /\ snap[r].id = id}

\* The session's identity map answers apply_callback's SELECT FOR UPDATE with
\* the object it already holds, so the check runs on the loaded copy.
SyncApply(id) ==
  /\ syncPc = "applying" /\ copy[id].status # ABSENT
  /\ \/ /\ Matches(id) = {}
        /\ UNCHANGED <<rows, reserved>>
     \/ \E r \in Matches(id) :
          Apply(id, copy[id], [status |-> snap[r].status, filled |-> snap[r].filled, oid |-> r])
  /\ copy' = [copy EXCEPT ![id] = AbsentRow]
  /\ UNCHANGED <<scanVars, syncPc, snap, gwVars, wire, posted, ex, bounds>>

SyncDone ==
  /\ syncPc = "applying" /\ \A id \in Ids : copy[id].status = ABSENT
  /\ syncPc' = "idle" /\ snap' = [r \in Requests |-> NoSnap]
  /\ UNCHANGED <<rows, reserved, scanVars, copy, gwVars, wire, posted, ex, bounds>>

-----------------------------------------------------------------------------
(* The gateway.                                                            *)

\* The scanner hears the answer if it still waits and the response arrives.
Answer(r, s) ==
  \/ /\ pc = "sending" /\ cur = r
     /\ pc' = "replied" /\ reply' = s
     /\ UNCHANGED <<mirror, cur, canc>>
  \/ UNCHANGED scanVars

\* HandleOrderAsync, a gate of the chain refuses (or the account changed at
\* the send boundary, after which RollbackOrderReservation clears its entries).
GwReject(r) ==
  /\ wire[r] = "inflight" /\ gwUp
  /\ wire' = [wire EXCEPT ![r] = "done"]
  /\ Answer(r, "REJECTED")
  /\ UNCHANGED <<rows, reserved, syncVars, gwVars, posted, ex, bounds>>

\* HandleOrderAsync under _orderGate up to the SDK's SendLimitOrder.  The SDK
\* may raise before or after the broker took the order; the indexes stay.
GwSend(r) ==
  /\ wire[r] = "inflight" /\ gwUp
  /\ r \notin sentIds /\ r \notin pendReq /\ pendKey[Key(r)] = NoReq
  /\ wire' = [wire EXCEPT ![r] = "done"]
  /\ sentIds' = sentIds \union {r}
  /\ pendReq' = pendReq \union {r}
  /\ pendKey' = [pendKey EXCEPT ![Key(r)] = r]
  /\ \/ /\ ex' = [ex EXCEPT ![r] = [sends |-> @.sends + 1, status |-> "SENT", filled |-> @.filled]]
        /\ Answer(r, "SENT_PENDING") \/ Answer(r, "SEND_UNKNOWN")
     \/ /\ Answer(r, "SEND_UNKNOWN")
        /\ UNCHANGED ex
  /\ UNCHANGED <<rows, reserved, syncVars, gwUp, byOrder, recent, lastRep, queue, posted, bounds>>

\* ResolvePendingOrderContext: by order id, by symbol and side when the shape
\* agrees, by symbol when exactly one pending order has the shape.
Resolve(r) ==
  LET bySide   == pendKey[Key(r)]
      bySymbol == {q \in Requests : /\ \E k \in Keys : pendKey[k] = q
                                    /\ SymOf[q] = SymOf[r] /\ ShapeOf[q] = ShapeOf[r]}
  IN CASE byOrder[r] # NoReq -> byOrder[r]
       [] byOrder[r] = NoReq /\ bySide # NoReq
            -> IF ShapeOf[bySide] = ShapeOf[r] THEN bySide ELSE Ghost(r)
       [] OTHER -> IF \E q \in Requests : bySymbol = {q}
                   THEN CHOOSE q \in Requests : bySymbol = {q} ELSE Ghost(r)

\* GetOrderStatusRank of the statuses an update can carry.
GwRank(s) == CASE s \in FINAL -> 100 [] s = "PARTIALLY_FILLED" -> 40 [] s = "NEW" -> 20 [] OTHER -> 0

\* EnqueueOrderResult drops a repeated status, anything after a final one and
\* a lower rank, whatever the filled quantity says.
Suppressed(id, s) ==
  lastRep[id] # ABSENT /\ (lastRep[id] = s \/ lastRep[id] \in FINAL \/ GwRank(s) < GwRank(lastRep[id]))

OnOrderUpdate(r, s, f) ==
  LET id == Resolve(r)
      e  == [id |-> id, status |-> s, filled |-> f, oid |-> r]
  IN /\ recent' = [recent EXCEPT ![r] = [id |-> id, status |-> s, filled |-> f]]
     /\ IF Suppressed(id, s)
        THEN UNCHANGED <<lastRep, queue>>
        ELSE /\ lastRep' = [lastRep EXCEPT ![id] = s]
             /\ queue' = Append(queue, e)
     /\ byOrder' = [byOrder EXCEPT ![r] = IF s \in FINAL THEN NoReq ELSE id]
     /\ pendReq' = IF s \in FINAL THEN pendReq \ {id} ELSE pendReq
     /\ pendKey' = [k \in Keys |-> IF s \in FINAL /\ pendKey[k] = id THEN NoReq ELSE pendKey[k]]
     /\ UNCHANGED <<gwUp, sentIds>>

\* ProcessOrderResultQueueAsync posts one item and awaits the server; after a
\* timeout the next one may overtake it.
ReportNext ==
  /\ gwUp /\ queue # <<>> /\ Cardinality(posted) < MaxInFlight
  /\ posted' = posted \union {Head(queue)}
  /\ queue' = Tail(queue)
  /\ UNCHANGED <<rows, reserved, scanVars, syncVars, gwUp, sentIds, pendReq, pendKey,
                 byOrder, recent, lastRep, wire, ex, bounds>>

-----------------------------------------------------------------------------
(* The exchange and the faults.                                            *)

\* What the exchange may report next of an order with state o.
Successors(o) ==
  [status : {"NEW"}, filled : {0}] \union [status : {"PARTIALLY_FILLED"}, filled : 1..Qty - 1]
  \union [status : {"FILLED"}, filled : {Qty}]
  \union [status : ExFinals \ {"FILLED"}, filled : {o.filled} \ {Qty}]

Forward(o, n) ==
  /\ o.status \notin {"NONE"} \union FINAL
  /\ n.filled >= o.filled
  /\ n.status = "NEW" => o.status = "SENT"
  /\ n.status = "PARTIALLY_FILLED" => n.filled > o.filled

ExchangeUpdate(r) ==
  /\ \E n \in Successors(ex[r]) :
       /\ Forward(ex[r], n)
       /\ ex' = [ex EXCEPT ![r] = [sends |-> @.sends, status |-> n.status, filled |-> n.filled]]
       /\ IF gwUp THEN OnOrderUpdate(r, n.status, n.filled) ELSE UNCHANGED gwVars
  /\ UNCHANGED <<rows, reserved, scanVars, syncVars, wire, posted, bounds>>

\* The server process dies and is started again: its tasks start afresh, the
\* callbacks it was handling fail, its requests on the wire may still arrive.
ServerCrash ==
  /\ faults < MaxFaults
  /\ faults' = faults + 1
  /\ pc' = "idle" /\ cur' = NoReq /\ reply' = ABSENT /\ canc' = {} /\ mirror' = NoMirror
  /\ syncPc' = "idle" /\ snap' = [r \in Requests |-> NoSnap]
  /\ copy' = [id \in Ids |-> AbsentRow]
  /\ posted' = {}
  /\ UNCHANGED <<rows, reserved, gwVars, wire, ex, stops, lost>>

\* Any other exception ends the scanner's tick where it stands.
TickRaises ==
  /\ faults < MaxFaults /\ pc # "idle"
  /\ faults' = faults + 1
  /\ pc' = "idle" /\ cur' = NoReq /\ reply' = ABSENT /\ canc' = {} /\ mirror' = NoMirror
  /\ UNCHANGED <<rows, reserved, syncVars, gwVars, wire, posted, ex, stops, lost>>

\* The algo stops: every table of the gateway is gone.
GatewayStop ==
  /\ gwUp /\ stops < MaxStops
  /\ stops' = stops + 1
  /\ gwUp' = FALSE /\ sentIds' = {} /\ pendReq' = {} /\ queue' = <<>>
  /\ pendKey' = [k \in Keys |-> NoReq]
  /\ byOrder' = [r \in Requests |-> NoReq]
  /\ recent' = [r \in Requests |-> NoSnap]
  /\ lastRep' = [id \in Ids |-> ABSENT]
  /\ wire' = [r \in Requests |-> IF wire[r] = "inflight" THEN "gone" ELSE wire[r]]
  /\ UNCHANGED <<rows, reserved, scanVars, syncVars, posted, ex, faults, lost>>

GatewayStart ==
  /\ ~gwUp /\ gwUp' = TRUE
  /\ UNCHANGED <<rows, reserved, scanVars, syncVars, sentIds, pendReq, pendKey, byOrder,
                 recent, lastRep, queue, wire, posted, ex, bounds>>

-----------------------------------------------------------------------------
Scanner ==
  \/ \E r \in Requests : ReserveBuy(r) \/ ReserveExit(r) \/ ReserveSell(r)
  \/ SizeBuy \/ BuyRefused
  \/ MarkSendStarted \/ PreSendReject \/ SendOrder \/ SendFails
  \/ MarkSendResult \/ PersistOutcome
  \/ TimeoutLoad \/ TimeoutCommit

Synchroniser == SyncFetch \/ SyncLoad \/ (\E id \in Ids : SyncApply(id)) \/ SyncDone

Gateway ==
  \/ \E r \in Requests : GwReject(r) \/ GwSend(r)
  \/ ReportNext

Faults ==
  \/ \E e \in posted : LoseCallback(e)
  \/ ServerCrash \/ TickRaises \/ GatewayStop \/ GatewayStart

Next ==
  \/ Scanner \/ Synchroniser \/ Gateway \/ Faults
  \/ \E e \in posted : DeliverCallback(e)
  \/ \E r \in Requests : ExchangeUpdate(r)

Spec == Init /\ [][Next]_vars

\* The synchroniser is a loop of the server process that runs for ever.
FairSpec == Spec /\ WF_vars(Synchroniser)
-----------------------------------------------------------------------------
(* What must hold.                                                         *)

Reported == {"NEW", "PARTIALLY_FILLED"} \union FINAL
Row   == [status : States \union {ABSENT}, filled : 0..Qty, oid : Requests \union {NoReq}]
Snap  == [id : Ids \union {NoReq}, status : Reported \union {ABSENT}, filled : 0..Qty]
Event == [id : Ids, status : Reported, filled : 0..Qty, oid : Requests]
Order == [sends : Nat, status : ExStates, filled : 0..Qty]

LedgerTypeOK == rows \in [Ids -> Row] /\ reserved \in [Ids -> 0..Qty]
ScanTypeOK ==
  /\ pc \in {"idle", "sizing", "reserved", "started", "sending", "replied", "marked", "cancel"}
  /\ cur \in Requests \union {NoReq}
  /\ pc \in {"reserved", "started", "sending", "replied", "marked"} => cur \in Requests
  /\ reply \in {ABSENT, "SENT_PENDING", "SEND_UNKNOWN", "REJECTED"}
  /\ pc \in {"replied", "marked"} => reply # ABSENT
  /\ mirror \in [Ids -> Row] /\ canc \subseteq Ids
SyncTypeOK ==
  /\ syncPc \in {"idle", "fetched", "applying"}
  /\ snap \in [Requests -> Snap] /\ copy \in [Ids -> Row]
GwTypeOK ==
  /\ gwUp \in BOOLEAN /\ sentIds \subseteq Requests /\ pendReq \subseteq Requests
  /\ pendKey \in [Keys -> Requests \union {NoReq}]
  /\ byOrder \in [Requests -> Ids \union {NoReq}]
  /\ recent \in [Requests -> Snap]
  /\ lastRep \in [Ids -> Reported \union {ABSENT}]
  /\ queue \in Seq(Event)
NetTypeOK ==
  /\ posted \subseteq Event
  /\ wire \in [Requests -> {"none", "inflight", "done", "gone"}]
  /\ ex \in [Requests -> Order]
  /\ faults \in 0..MaxFaults /\ stops \in 0..MaxStops /\ lost \in 0..MaxLost

\* Every variable keeps the shape the code gives it; the scanner has a
\* request and an answer in hand wherever it is about to write them.
TypeOK == LedgerTypeOK /\ ScanTypeOK /\ SyncTypeOK /\ GwTypeOK /\ NetTypeOK

\* No crash, lost answer or restart makes the SDK send a request twice:
\* "An uncertain transport result is never retried as an order".
SentOnce == \A r \in Requests : ex[r].sends <= 1

\* Why: a request is put on the wire at most once, from a row that was
\* inserted for it, and the SDK call consumes what was on the wire.
Preparing(r) == cur = r /\ pc \in {"reserved", "started"}
SendInv ==
  \A r \in Requests :
    /\ ex[r].sends = 0 \/ (ex[r].sends = 1 /\ wire[r] = "done")
    /\ wire[r] # "none" \/ Preparing(r) => rows[r].status # ABSENT
    /\ Preparing(r) => wire[r] = "none"

\* The ledger's and the gateway's pending checks together keep at most one
\* order of a symbol and side working at the exchange.
OneLivePerKey ==
  \A r, q \in Requests : r # q /\ Key(r) = Key(q) => ~(Live(r) /\ Live(q))

\* A row the ledger closed stands for an order that is not working and will
\* not be: only then may its symbol and its cash be used again.
FinalIsTrue ==
  \A r \in Requests : rows[r].status \in FINAL => ~Live(r) /\ wire[r] # "inflight"

\* The ledger never books lots the exchange did not execute.
FilledNeverAhead == \A r \in Requests : rows[r].filled <= ex[r].filled

\* A BUY that is, or may still come to be, at the exchange has cash held for
\* every lot it can still execute.
CashCoversExposure ==
  \A r \in Requests :
    Side(r) = "BUY" /\ (Live(r) \/ wire[r] = "inflight") => reserved[r] + ex[r].filled >= Qty

\* Whatever callbacks are lost, suppressed or overtaken and whatever late
\* write undid them, the synchroniser ends up with the exchange's final word.
LedgerConverges ==
  \A r \in Requests : <>[](ex[r].status \in FINAL => rows[r].status = ex[r].status
                                                     /\ rows[r].filled = ex[r].filled)

\* The scanner's own writes (send result, outcome, timeout cancel) leave a
\* final row alone, as one "monotonic order lifecycle transition authority"
\* would have it.
ScannerKeepsFinal ==
  [][pc' # pc => \A id \in Ids : rows[id].status \in FINAL => rows'[id].status = rows[id].status]_vars

\* The synchroniser's pass through apply_callback moves no row backwards
\* ("Concurrent-safe callback persistence").
SyncNeverRegresses ==
  [][copy' # copy => \A id \in Ids : /\ rows[id].status \in FINAL => rows'[id].status = rows[id].status
                                     /\ rows'[id].filled >= rows[id].filled]_vars

\* A BUY that is over gives its cash back in the end: the reservation mirrors
\* the ledger row.
CashEventuallyReleased ==
  \A r \in Requests : <>[](rows[r].status \in FINAL => reserved[r] = 0)

\* An exchange update the gateway places at all it places at the request the
\* order was sent for: the match by shape is "unambiguous".
MatchedToItsOwn == \A r \in Requests : recent[r].id \in Requests => recent[r].id = r

\* The abstract order book, seen through the ledger and the exchange.
Belief(s) == IF s = ABSENT THEN "none" ELSE IF s \in FINAL THEN "closed" ELSE "open"
Phase(s)  == IF s = "NONE" THEN "new" ELSE IF s \in FINAL THEN "done" ELSE "live"
Book == INSTANCE OrderBook WITH
          KeyOf    <- [r \in Requests |-> Key(r)],
          belief   <- [r \in Requests |-> Belief(rows[r].status)],
          phase    <- [r \in Requests |-> Phase(ex[r].status)],
          executed <- [r \in Requests |-> ex[r].filled]

\* The whole flow implements the order book.
ImplementsBook == Book!Spec
=============================================================================
