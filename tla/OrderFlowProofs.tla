-------------------------- MODULE OrderFlowProofs --------------------------
(***************************************************************************)
(* Theorems about OrderFlow for every set of requests, every quantity and  *)
(* every bound on faults.                                                  *)
(***************************************************************************)
EXTENDS OrderFlow, TLAPS

-----------------------------------------------------------------------------
(* The vocabulary.                                                         *)

\* A callback can only move a lifecycle forward: what transition() lets
\* through never lowers the rank, and never leaves a final state.
LEMMA TransitionMonotone ==
  ASSUME NEW a \in States, NEW b \in States, NEW m \in Nat, NEW n \in Nat,
         Transition(a, b, m, n)
  PROVE  RANK[b] >= RANK[a] /\ n >= m /\ (a \in FINAL => b = a)
BY DEF Transition

\* The reservation of a BUY never exceeds its order.
LEMMA ReservedAfterType ==
  ASSUME NEW s, NEW f \in 0..Qty, NEW h \in 0..Qty
  PROVE  ReservedAfter(s, f, Qty, h) \in 0..Qty
<1>1. Qty \in Nat
  BY ConstantsAssumption
<1>. QED BY <1>1 DEF ReservedAfter

\* Requests and their ghosts are ids, each of the order of its request, and none of them is NoReq.
LEMMA IdsFacts ==
  /\ \A r \in Requests : Ghost(r) \in Ids /\ r \in Ids /\ OrderOf(r) = r
  /\ \A r \in Requests : Key(r) \in Keys
  /\ NoReq \notin Ids
  /\ Requests \subseteq Ids
BY ConstantsAssumption DEF Ids, Ghosts, Keys, OrderOf

-----------------------------------------------------------------------------
(* Type correctness.                                                       *)

\* Writing a status keeps the ledger's types.
LEMMA SetStatusType ==
  ASSUME LedgerTypeOK, NEW id \in Ids, NEW s \in States, SetStatus(id, s)
  PROVE  LedgerTypeOK'
<1>1. rows' \in [Ids -> Row]
  BY DEF LedgerTypeOK, SetStatus, Row
<1>2. ReservedAfter(s, rows[id].filled, Qty, reserved[id]) \in 0..Qty
  BY ReservedAfterType DEF LedgerTypeOK, Row
<1>3. reserved' \in [Ids -> 0..Qty]
  BY <1>2 DEF LedgerTypeOK, SetStatus
<1>. QED BY <1>1, <1>3 DEF LedgerTypeOK

\* Applying an update to a row keeps the ledger's types.
LEMMA ApplyType ==
  ASSUME LedgerTypeOK, NEW id \in Ids, NEW base \in Row,
         NEW e, e.status \in States, e.filled \in 0..Qty, e.oid \in Requests,
         Apply(id, base, e)
  PROVE  LedgerTypeOK'
<1> DEFINE fills == IF e.filled > base.filled THEN e.filled ELSE base.filled
           next  == [status |-> e.status, filled |-> fills, oid |-> e.oid]
<1>1. CASE ~Transition(base.status, e.status, base.filled, e.filled)
  BY <1>1 DEF Apply, LedgerTypeOK
<1>2. CASE Transition(base.status, e.status, base.filled, e.filled)
  <2>1. fills \in 0..Qty
    BY DEF Row
  <2>2. next \in Row
    BY <2>1 DEF Row
  <2>3. Inserted(rows[id]) \in Row
    BY DEF LedgerTypeOK, Row, Inserted, States, PENDING_STATES
  <2>4. Written(Inserted(rows[id]), base, next) \in Row
    BY <2>2, <2>3 DEF Row, Written
  <2>5. rows' = [rows EXCEPT ![id] = Written(Inserted(rows[id]), base, next)]
    BY <1>2 DEF Apply
  <2>6. ReservedAfter(e.status, fills, Qty, reserved[id]) \in 0..Qty
    BY <2>1, ReservedAfterType DEF LedgerTypeOK
  <2>7. reserved' \in [Ids -> 0..Qty]
    BY <1>2, <2>6 DEF Apply, LedgerTypeOK
  <2>. QED BY <2>4, <2>5, <2>7 DEF LedgerTypeOK
<1>. QED BY <1>1, <1>2

\* The gateway resolves an order to an id of the ledger.
LEMMA ResolveType ==
  ASSUME GwTypeOK, NEW r \in Requests
  PROVE  Resolve(r) \in Ids
<1> DEFINE bySide   == pendKey[Key(r)]
           bySymbol == {q \in Requests : /\ \E k \in Keys : pendKey[k] = q
                                         /\ SymOf[q] = SymOf[r] /\ ShapeOf[q] = ShapeOf[r]}
           unique   == CHOOSE q \in Requests : bySymbol = {q}
<1>1. (\E q \in Requests : bySymbol = {q}) => unique \in Requests
  OBVIOUS
<1>2. bySide \in Requests \union {NoReq} /\ byOrder[r] \in Ids \union {NoReq}
  BY IdsFacts DEF GwTypeOK
<1>3. CASE byOrder[r] # NoReq
  BY <1>2, <1>3 DEF Resolve
<1>4. CASE byOrder[r] = NoReq /\ bySide # NoReq
  BY <1>2, <1>4, IdsFacts DEF Resolve
<1>5. CASE byOrder[r] = NoReq /\ bySide = NoReq
  <2>1. Resolve(r) = IF \E q \in Requests : bySymbol = {q} THEN unique ELSE Ghost(r)
    BY <1>5 DEF Resolve
  <2>. QED BY <2>1, <1>1, IdsFacts
<1>. QED BY <1>3, <1>4, <1>5

\* An order update keeps the gateway's types.
LEMMA OnOrderUpdateType ==
  ASSUME GwTypeOK, NEW r \in Requests, NEW s \in Reported, NEW f \in 0..Qty,
         OnOrderUpdate(r, s, f)
  PROVE  GwTypeOK'
<1> DEFINE id == Resolve(r)
           e  == [id |-> id, status |-> s, filled |-> f, oid |-> r]
<1>1. id \in Ids
  BY ResolveType
<1>2. e \in Event
  BY <1>1 DEF Event
<1>3. recent' \in [Requests -> Snap]
  BY <1>1 DEF OnOrderUpdate, GwTypeOK, Snap
<1>4. lastRep' \in [Ids -> Reported \union {ABSENT}] /\ queue' \in Seq(Event)
  <2>1. CASE Suppressed(id, s)
    BY <2>1 DEF OnOrderUpdate, GwTypeOK
  <2>2. CASE ~Suppressed(id, s)
    <3>1. lastRep' = [lastRep EXCEPT ![id] = s] /\ queue' = Append(queue, e)
      BY <2>2 DEF OnOrderUpdate
    <3>2. lastRep' \in [Ids -> Reported \union {ABSENT}]
      BY <3>1, <1>1 DEF GwTypeOK
    <3>3. queue \in Seq(Event)
      BY DEF GwTypeOK
    <3>4. queue' \in Seq(Event)
      BY <3>1, <3>3, <1>2
    <3>. QED BY <3>2, <3>4
  <2>. QED BY <2>1, <2>2
<1>5. byOrder' \in [Requests -> Ids \union {NoReq}]
  BY <1>1 DEF OnOrderUpdate, GwTypeOK
<1>6. pendKey' \in [Keys -> Requests \union {NoReq}]
  BY DEF OnOrderUpdate, GwTypeOK
<1>7. pendReq' \subseteq Requests /\ sentIds' \subseteq Requests /\ gwUp' \in BOOLEAN
  BY DEF OnOrderUpdate, GwTypeOK
<1>. QED BY <1>3, <1>4, <1>5, <1>6, <1>7 DEF GwTypeOK

\* The active orders the gateway reports are snapshots of orders.
LEMMA ActiveOrdersType ==
  ASSUME GwTypeOK, NetTypeOK, NEW listed \in BOOLEAN
  PROVE  ActiveOrders(listed) \in [Requests -> Snap]
<1>1. NoSnap \in Snap
  BY ConstantsAssumption DEF NoSnap, Snap
<1>2. ASSUME NEW r \in Requests, ex[r].status \in {"NEW", "PARTIALLY_FILLED"} \union FINAL
      PROVE  [id |-> byOrder[r], status |-> ex[r].status, filled |-> ex[r].filled] \in Snap
  BY <1>2 DEF GwTypeOK, NetTypeOK, Snap, Order, Reported
<1>3. \A r \in Requests : recent[r] \in Snap
  BY DEF GwTypeOK
<1>. QED BY <1>1, <1>2, <1>3 DEF ActiveOrders

\* The types hold at the start.
LEMMA InitType == Init => TypeOK
<1>. SUFFICES ASSUME Init PROVE TypeOK
  OBVIOUS
<1>1. AbsentRow \in Row /\ NoSnap \in Snap /\ 0 \in 0..Qty
  BY ConstantsAssumption DEF AbsentRow, NoSnap, Row, Snap
<1>2. LedgerTypeOK
  BY <1>1 DEF Init, LedgerTypeOK
<1>3. ScanTypeOK
  BY <1>1 DEF Init, ScanTypeOK
<1>4. SyncTypeOK
  BY <1>1 DEF Init, SyncTypeOK
<1>5. GwTypeOK
  BY <1>1 DEF Init, GwTypeOK
<1>6. NetTypeOK
  BY <1>1, ConstantsAssumption DEF Init, NetTypeOK, Order, ExStates
<1>. QED BY <1>2, <1>3, <1>4, <1>5, <1>6 DEF TypeOK

\* Every step of the scanner keeps the types.
LEMMA ScannerType ==
  ASSUME TypeOK, Scanner
  PROVE  TypeOK'
<1>. USE DEF TypeOK
<1>1. ASSUME NEW r \in Requests, ReserveExit(r) \/ ReserveSell(r)
      PROVE  TypeOK'
  <2>1. LedgerTypeOK'
    BY <1>1, IdsFacts, SetStatusType DEF ReserveExit, ReserveSell, States, PENDING_STATES
  <2>2. ScanTypeOK'
    BY <1>1 DEF ReserveExit, ReserveSell, ScanTypeOK
  <2>. QED BY <1>1, <2>1, <2>2 DEF ReserveExit, ReserveSell, SyncTypeOK, GwTypeOK, NetTypeOK,
                                   syncVars, gwVars, bounds
<1>2. ASSUME MarkSendStarted \/ PreSendReject \/ MarkSendResult
      PROVE  TypeOK'
  <2>1. cur \in Ids
    BY <1>2, IdsFacts DEF MarkSendStarted, PreSendReject, MarkSendResult, ScanTypeOK
  <2>2. \E s \in States : SetStatus(cur, s)
    BY <1>2 DEF MarkSendStarted, PreSendReject, MarkSendResult, ScanTypeOK, States,
                PENDING_STATES, FINAL
  <2>3. LedgerTypeOK'
    BY <2>1, <2>2, SetStatusType
  <2>4. ScanTypeOK'
    BY <1>2 DEF MarkSendStarted, PreSendReject, MarkSendResult, ScanTypeOK
  <2>. QED BY <1>2, <2>3, <2>4 DEF MarkSendStarted, PreSendReject, MarkSendResult, SyncTypeOK,
                                   GwTypeOK, NetTypeOK, syncVars, gwVars, bounds
<1>3. CASE SendOrder
  <2>1. wire' \in [Requests -> {"none", "inflight", "done", "gone"}]
    BY <1>3 DEF SendOrder, NetTypeOK
  <2>2. ScanTypeOK'
    BY <1>3 DEF SendOrder, ScanTypeOK
  <2>. QED BY <1>3, <2>1, <2>2 DEF SendOrder, LedgerTypeOK, SyncTypeOK, GwTypeOK, NetTypeOK,
                                   syncVars, gwVars, bounds
<1>4. CASE SendFails
  <2>1. ScanTypeOK'
    BY <1>4 DEF SendFails, ScanTypeOK, ABSENT
  <2>. QED BY <1>4, <2>1 DEF SendFails, LedgerTypeOK, SyncTypeOK, GwTypeOK, NetTypeOK,
                             syncVars, gwVars, bounds
<1>5. CASE PersistOutcome
  <2>1. cur \in Ids /\ reply \in States
    BY <1>5, IdsFacts DEF PersistOutcome, ScanTypeOK, States, PENDING_STATES, FINAL
  <2>2. LedgerTypeOK'
    BY <1>5, <2>1 DEF PersistOutcome, LedgerTypeOK, Row
  <2>3. ScanTypeOK'
    BY <1>5 DEF PersistOutcome, ScanTypeOK
  <2>. QED BY <1>5, <2>2, <2>3 DEF PersistOutcome, SyncTypeOK, GwTypeOK, NetTypeOK,
                                   syncVars, gwVars, bounds
<1>6. CASE TimeoutLoad
  <2>1. ScanTypeOK'
    BY <1>6 DEF TimeoutLoad, ScanTypeOK
  <2>. QED BY <1>6, <2>1 DEF TimeoutLoad, LedgerTypeOK, SyncTypeOK, GwTypeOK, NetTypeOK,
                             syncVars, gwVars, bounds
<1>7. CASE TimeoutCommit
  <2>1. LedgerTypeOK'
    BY <1>7 DEF TimeoutCommit, LedgerTypeOK, Row, States, PENDING_STATES
  <2>2. ScanTypeOK'
    BY <1>7 DEF TimeoutCommit, ScanTypeOK
  <2>. QED BY <1>7, <2>1, <2>2 DEF TimeoutCommit, SyncTypeOK, GwTypeOK, NetTypeOK,
                                   syncVars, gwVars, bounds
<1>0. AbsentRow \in Row /\ NoMirror \in [Ids -> Row]
  BY ConstantsAssumption DEF AbsentRow, NoMirror, Row
<1>8. CASE SizeBuy
  <2>1. ScanTypeOK'
    BY <1>0, <1>8 DEF SizeBuy, ScanTypeOK, LedgerTypeOK
  <2>. QED BY <1>8, <2>1 DEF SizeBuy, LedgerTypeOK, SyncTypeOK, GwTypeOK, NetTypeOK,
                             syncVars, gwVars, bounds
<1>9. \A id \in Ids : Mirrored(id) \in 0..Qty
  BY ReservedAfterType DEF Mirrored, ScanTypeOK, LedgerTypeOK, Row
<1>10. ASSUME NEW r \in Requests, ReserveBuy(r)
       PROVE  TypeOK'
  <2>1. rows' \in [Ids -> Row]
    BY <1>10, IdsFacts DEF ReserveBuy, LedgerTypeOK, Row, States, PENDING_STATES
  <2>2. reserved' \in [Ids -> 0..Qty]
    BY <1>9, <1>10, ConstantsAssumption DEF ReserveBuy
  <2>3. ScanTypeOK'
    BY <1>0, <1>10 DEF ReserveBuy, ScanTypeOK
  <2>. QED BY <1>10, <2>1, <2>2, <2>3 DEF ReserveBuy, LedgerTypeOK, SyncTypeOK, GwTypeOK,
                                          NetTypeOK, syncVars, gwVars, bounds
<1>11. CASE BuyRefused
  <2>1. reserved' \in [Ids -> 0..Qty]
    BY <1>9, <1>11 DEF BuyRefused
  <2>2. ScanTypeOK'
    BY <1>0, <1>11 DEF BuyRefused, ScanTypeOK
  <2>. QED BY <1>11, <2>1, <2>2 DEF BuyRefused, LedgerTypeOK, SyncTypeOK, GwTypeOK,
                                    NetTypeOK, syncVars, gwVars, bounds
<1>. QED BY <1>1, <1>2, <1>3, <1>4, <1>5, <1>6, <1>7, <1>8, <1>10, <1>11 DEF Scanner

\* Every step of the synchroniser keeps the types.
LEMMA SynchroniserType ==
  ASSUME TypeOK, Synchroniser
  PROVE  TypeOK'
<1>. USE DEF TypeOK
<1>0. AbsentRow \in Row /\ NoSnap \in Snap
  BY ConstantsAssumption DEF AbsentRow, NoSnap, Row, Snap
<1>1. CASE SyncFetch
  <2>1. SyncTypeOK'
    BY <1>1, ActiveOrdersType DEF SyncFetch, SyncTypeOK
  <2>. QED BY <1>1, <2>1 DEF SyncFetch, LedgerTypeOK, ScanTypeOK, GwTypeOK, NetTypeOK,
                             scanVars, gwVars, bounds
<1>2. CASE SyncLoad
  <2>1. SyncTypeOK'
    BY <1>0, <1>2 DEF SyncLoad, SyncTypeOK, LedgerTypeOK
  <2>. QED BY <1>2, <2>1 DEF SyncLoad, LedgerTypeOK, ScanTypeOK, GwTypeOK, NetTypeOK,
                             scanVars, gwVars, bounds
<1>3. ASSUME NEW id \in Ids, SyncApply(id)
      PROVE  TypeOK'
  <2>1. SyncTypeOK'
    BY <1>0, <1>3 DEF SyncApply, SyncTypeOK
  <2>2. LedgerTypeOK'
    <3>1. CASE UNCHANGED <<rows, reserved>>
      BY <3>1 DEF LedgerTypeOK
    <3>2. ASSUME NEW r \in Matches(id),
                 Apply(id, copy[id], [status |-> snap[r].status, filled |-> snap[r].filled, oid |-> r])
          PROVE  LedgerTypeOK'
      <4> DEFINE e == [status |-> snap[r].status, filled |-> snap[r].filled, oid |-> r]
      <4>1. r \in Requests /\ snap[r].status # ABSENT
        BY DEF Matches
      <4>2. e.status \in States /\ e.filled \in 0..Qty /\ e.oid \in Requests
        BY <4>1 DEF SyncTypeOK, Snap, Reported, States, PENDING_STATES
      <4>3. copy[id] \in Row
        BY DEF SyncTypeOK
      <4>. QED BY <3>2, <4>2, <4>3, ApplyType
    <3>. QED BY <1>3, <3>1, <3>2 DEF SyncApply
  <2>. QED BY <1>3, <2>1, <2>2 DEF SyncApply, ScanTypeOK, GwTypeOK, NetTypeOK,
                                   scanVars, gwVars, bounds
<1>4. CASE SyncDone
  <2>1. SyncTypeOK'
    BY <1>0, <1>4 DEF SyncDone, SyncTypeOK
  <2>. QED BY <1>4, <2>1 DEF SyncDone, LedgerTypeOK, ScanTypeOK, GwTypeOK, NetTypeOK,
                             scanVars, gwVars, bounds
<1>. QED BY <1>1, <1>2, <1>3, <1>4 DEF Synchroniser

\* An answer to the scanner keeps the types of what it waits for.
LEMMA AnswerType ==
  ASSUME ScanTypeOK, NEW r \in Requests,
         NEW s \in {"SENT_PENDING", "SEND_UNKNOWN", "REJECTED"}, Answer(r, s)
  PROVE  ScanTypeOK'
BY DEF Answer, ScanTypeOK, scanVars, ABSENT

\* Every step of the gateway keeps the types.
LEMMA GatewayType ==
  ASSUME TypeOK, Gateway
  PROVE  TypeOK'
<1>. USE DEF TypeOK
<1>1. ASSUME NEW r \in Requests, GwReject(r)
      PROVE  TypeOK'
  <2>1. ScanTypeOK'
    BY <1>1, AnswerType DEF GwReject
  <2>2. NetTypeOK'
    BY <1>1 DEF GwReject, NetTypeOK, bounds
  <2>. QED BY <1>1, <2>1, <2>2 DEF GwReject, LedgerTypeOK, SyncTypeOK, GwTypeOK, syncVars, gwVars
<1>2. ASSUME NEW r \in Requests, GwSend(r)
      PROVE  TypeOK'
  <2>1. ScanTypeOK'
    BY <1>2, AnswerType DEF GwSend
  <2>2. ex' \in [Requests -> Order]
    BY <1>2 DEF GwSend, NetTypeOK, Order, ExStates
  <2>3. NetTypeOK'
    BY <1>2, <2>2 DEF GwSend, NetTypeOK, bounds
  <2>4. GwTypeOK'
    BY <1>2 DEF GwSend, GwTypeOK
  <2>. QED BY <1>2, <2>1, <2>3, <2>4 DEF GwSend, LedgerTypeOK, SyncTypeOK, syncVars
<1>3. CASE ReportNext
  <2>1. queue \in Seq(Event) /\ queue # <<>>
    BY <1>3 DEF ReportNext, GwTypeOK
  <2>2. Head(queue) \in Event /\ Tail(queue) \in Seq(Event)
    BY <2>1
  <2>3. GwTypeOK' /\ NetTypeOK'
    BY <1>3, <2>2 DEF ReportNext, GwTypeOK, NetTypeOK, bounds
  <2>. QED BY <1>3, <2>3 DEF ReportNext, LedgerTypeOK, ScanTypeOK, SyncTypeOK, scanVars, syncVars
<1>. QED BY <1>1, <1>2, <1>3 DEF Gateway

\* Every fault keeps the types.
LEMMA FaultsType ==
  ASSUME TypeOK, Faults
  PROVE  TypeOK'
<1>. USE DEF TypeOK
<1>0. AbsentRow \in Row /\ NoSnap \in Snap
  BY ConstantsAssumption DEF AbsentRow, NoSnap, Row, Snap
<1>1. MaxFaults \in Nat /\ MaxStops \in Nat /\ MaxLost \in Nat
  BY ConstantsAssumption
<1>2. ASSUME NEW e \in posted, LoseCallback(e)
      PROVE  TypeOK'
  <2>1. NetTypeOK'
    BY <1>1, <1>2 DEF LoseCallback, NetTypeOK
  <2>. QED BY <1>2, <2>1 DEF LoseCallback, LedgerTypeOK, ScanTypeOK, SyncTypeOK, GwTypeOK,
                             scanVars, syncVars, gwVars
<1>3. CASE ServerCrash
  <2>1. NetTypeOK' /\ ScanTypeOK' /\ SyncTypeOK'
    BY <1>0, <1>1, <1>3 DEF ServerCrash, NoMirror, NetTypeOK, ScanTypeOK, SyncTypeOK
  <2>. QED BY <1>3, <2>1 DEF ServerCrash, LedgerTypeOK, GwTypeOK, gwVars
<1>4. CASE TickRaises
  <2>1. NetTypeOK' /\ ScanTypeOK'
    BY <1>0, <1>1, <1>4 DEF TickRaises, NoMirror, NetTypeOK, ScanTypeOK
  <2>. QED BY <1>4, <2>1 DEF TickRaises, LedgerTypeOK, SyncTypeOK, GwTypeOK, syncVars, gwVars
<1>5. CASE GatewayStop
  <2>1. wire' \in [Requests -> {"none", "inflight", "done", "gone"}]
    BY <1>5 DEF GatewayStop, NetTypeOK
  <2>2. NetTypeOK'
    BY <1>1, <1>5, <2>1 DEF GatewayStop, NetTypeOK
  <2>3. queue' \in Seq(Event)
    BY <1>5 DEF GatewayStop
  <2>4. recent' \in [Requests -> Snap] /\ lastRep' \in [Ids -> Reported \union {ABSENT}]
    BY <1>0, <1>5 DEF GatewayStop
  <2>5. pendKey' \in [Keys -> Requests \union {NoReq}] /\ byOrder' \in [Requests -> Ids \union {NoReq}]
    BY <1>5 DEF GatewayStop
  <2>6. GwTypeOK'
    BY <1>5, <2>3, <2>4, <2>5 DEF GatewayStop, GwTypeOK
  <2>. QED BY <1>5, <2>2, <2>6 DEF GatewayStop, LedgerTypeOK, ScanTypeOK, SyncTypeOK,
                                   scanVars, syncVars
<1>6. CASE GatewayStart
  BY <1>6 DEF GatewayStart, LedgerTypeOK, ScanTypeOK, SyncTypeOK, GwTypeOK, NetTypeOK,
              scanVars, syncVars, bounds
<1>. QED BY <1>2, <1>3, <1>4, <1>5, <1>6 DEF Faults

\* The delivery of a callback keeps the types.
LEMMA DeliverType ==
  ASSUME TypeOK, NEW e \in posted, DeliverCallback(e)
  PROVE  TypeOK'
<1>. USE DEF TypeOK
<1>1. e.id \in Ids /\ e.status \in States /\ e.filled \in 0..Qty /\ e.oid \in Requests
  BY DEF NetTypeOK, Event, Reported, States, PENDING_STATES
<1>2. Inserted(rows[e.id]) \in Row
  BY <1>1 DEF LedgerTypeOK, Inserted, Row, States, PENDING_STATES
<1>3. Apply(e.id, Inserted(rows[e.id]), e)
  BY DEF DeliverCallback
<1>4. LedgerTypeOK'
  BY <1>1, <1>2, <1>3, ApplyType
<1>. QED BY <1>4 DEF DeliverCallback, ScanTypeOK, SyncTypeOK, GwTypeOK, NetTypeOK,
                     scanVars, syncVars, gwVars, bounds

\* An update at the exchange keeps the types.
LEMMA ExchangeType ==
  ASSUME TypeOK, NEW r \in Requests, ExchangeUpdate(r)
  PROVE  TypeOK'
<1>. USE DEF TypeOK
<1>1. PICK n \in Successors(ex[r]) :
        /\ ex' = [ex EXCEPT ![r] = [sends |-> @.sends, status |-> n.status, filled |-> n.filled]]
        /\ IF gwUp THEN OnOrderUpdate(r, n.status, n.filled) ELSE UNCHANGED gwVars
  BY DEF ExchangeUpdate
<1>2. Qty \in Nat /\ ex[r].filled \in 0..Qty /\ ExFinals \subseteq FINAL /\ "FILLED" \in ExFinals
  BY ConstantsAssumption DEF NetTypeOK, Order
<1>3. n.filled \in 0..Qty /\ n.status \in Reported /\ n.status \in ExStates
  BY <1>2 DEF Successors, Reported, ExStates
<1>4. GwTypeOK'
  BY <1>1, <1>3, OnOrderUpdateType DEF gwVars, GwTypeOK
<1>5. ex' \in [Requests -> Order]
  BY <1>1, <1>3 DEF NetTypeOK, Order
<1>. QED BY <1>4, <1>5 DEF ExchangeUpdate, LedgerTypeOK, ScanTypeOK, SyncTypeOK, NetTypeOK,
                           scanVars, syncVars, bounds

\* Type correctness: whatever the interleaving and the faults, the rows, the
\* gateway's tables and the messages keep their shape, no reservation exceeds
\* its order and the scanner never writes without a request and an answer.
THEOREM TypeCorrect == Spec => []TypeOK
<1>1. Init => TypeOK
  BY InitType
<1>2. TypeOK /\ [Next]_vars => TypeOK'
  <2>. SUFFICES ASSUME TypeOK, [Next]_vars PROVE TypeOK'
    OBVIOUS
  <2>1. CASE UNCHANGED vars
    BY <2>1 DEF vars, TypeOK, LedgerTypeOK, ScanTypeOK, SyncTypeOK, GwTypeOK, NetTypeOK,
                scanVars, syncVars, gwVars, bounds
  <2>. QED BY <2>1, ScannerType, SynchroniserType, GatewayType, FaultsType, DeliverType,
              ExchangeType DEF Next
<1>. QED BY <1>1, <1>2, PTL DEF Spec

-----------------------------------------------------------------------------
(* A request is sent at most once.                                         *)

\* No write of the ledger removes a row.
LEMMA RowsStay ==
  ASSUME TypeOK, [Next]_vars
  PROVE  \A id \in Ids : rows[id].status # ABSENT => rows'[id].status # ABSENT
<1>. SUFFICES ASSUME NEW id \in Ids, rows[id].status # ABSENT, rows' # rows
              PROVE  rows'[id].status # ABSENT
  OBVIOUS
<1>. USE DEF TypeOK
<1>0. ABSENT \notin States /\ rows \in [Ids -> Row] /\ Requests \subseteq Ids
  BY IdsFacts DEF ABSENT, States, PENDING_STATES, FINAL, LedgerTypeOK
<1>1. ASSUME NEW x \in Ids, NEW s \in States, SetStatus(x, s)
      PROVE  rows'[id].status # ABSENT
  BY <1>0, <1>1 DEF SetStatus, Row
<1>2. ASSUME NEW x \in Ids, NEW base \in Row, base.status # ABSENT,
             NEW e, e.status \in States, Apply(x, base, e)
      PROVE  rows'[id].status # ABSENT
  <2> DEFINE fills == IF e.filled > base.filled THEN e.filled ELSE base.filled
             next  == [status |-> e.status, filled |-> fills, oid |-> e.oid]
  <2>1. rows' = [rows EXCEPT ![x] = Written(Inserted(rows[x]), base, next)]
    BY <1>2 DEF Apply
  <2>2. Inserted(rows[x]).status # ABSENT
    BY <1>0 DEF Inserted, Row, ABSENT
  <2>3. Written(Inserted(rows[x]), base, next).status # ABSENT
    BY <1>0, <2>2, <1>2 DEF Written
  <2>. QED BY <1>0, <2>1, <2>3
<1>3. CASE Scanner
  <2>1. CASE \E x \in Ids, s \in States : SetStatus(x, s)
    BY <2>1, <1>1
  <2>2. CASE PersistOutcome
    <3>1. cur \in Ids /\ reply \in States
      BY <2>2, <1>0 DEF PersistOutcome, ScanTypeOK, States, PENDING_STATES, FINAL
    <3>. QED BY <2>2, <3>1, <1>0 DEF PersistOutcome, Row
  <2>3. CASE TimeoutCommit
    BY <2>3, <1>0 DEF TimeoutCommit, Row, States, PENDING_STATES
  <2>4. ASSUME NEW r \in Requests, ReserveExit(r) \/ ReserveSell(r)
        PROVE  \E x \in Ids, s \in States : SetStatus(x, s)
    BY <2>4, <1>0 DEF ReserveExit, ReserveSell, States, PENDING_STATES
  <2>5. ASSUME MarkSendStarted \/ PreSendReject \/ MarkSendResult
        PROVE  \E x \in Ids, s \in States : SetStatus(x, s)
    <3>1. cur \in Ids
      BY <2>5, <1>0 DEF MarkSendStarted, PreSendReject, MarkSendResult, ScanTypeOK
    <3>2. \E s \in States : SetStatus(cur, s)
      BY <2>5 DEF MarkSendStarted, PreSendReject, MarkSendResult, ScanTypeOK, States,
                  PENDING_STATES, FINAL
    <3>. QED BY <3>1, <3>2
  <2>6. ASSUME NEW r \in Requests, ReserveBuy(r)
        PROVE  rows'[id].status # ABSENT
    BY <2>6, <1>0 DEF ReserveBuy, Row, ABSENT
  <2>. QED BY <1>3, <2>1, <2>2, <2>3, <2>4, <2>5, <2>6
           DEF Scanner, SendOrder, SendFails, TimeoutLoad, SizeBuy, BuyRefused
<1>4. CASE Synchroniser
  <2>1. PICK x \in Ids : SyncApply(x)
    BY <1>4 DEF Synchroniser, SyncFetch, SyncLoad, SyncDone
  <2>2. PICK r \in Matches(x) :
          Apply(x, copy[x], [status |-> snap[r].status, filled |-> snap[r].filled, oid |-> r])
    BY <2>1 DEF SyncApply
  <2>3. snap[r].status \in States
    BY DEF Matches, SyncTypeOK, Snap, Reported, States, PENDING_STATES
  <2>4. copy[x] \in Row /\ copy[x].status # ABSENT
    BY <2>1 DEF SyncApply, SyncTypeOK
  <2>. QED BY <1>2, <2>2, <2>3, <2>4
<1>5. ASSUME NEW e \in posted, DeliverCallback(e)
      PROVE  rows'[id].status # ABSENT
  <2>1. e.id \in Ids /\ e.status \in States
    BY DEF NetTypeOK, Event, Reported, States, PENDING_STATES
  <2>2. Inserted(rows[e.id]) \in Row /\ Inserted(rows[e.id]).status # ABSENT
    BY <1>0, <2>1 DEF Inserted, Row, States, PENDING_STATES, ABSENT
  <2>. QED BY <1>2, <1>5, <2>1, <2>2 DEF DeliverCallback
<1>6. ASSUME Gateway \/ Faults \/ (\E r \in Requests : ExchangeUpdate(r)) \/ UNCHANGED vars
      PROVE  FALSE
  BY <1>6 DEF Gateway, GwReject, GwSend, ReportNext, Faults, LoseCallback, ServerCrash, TickRaises,
              GatewayStop, GatewayStart, ExchangeUpdate, vars
<1>. QED BY <1>3, <1>4, <1>5, <1>6 DEF Next

\* Every step keeps a request from being on its way while its row is still unsent.
LEMMA SendInvStep ==
  ASSUME TypeOK, TypeOK', SendInv, [Next]_vars
  PROVE  SendInv'
<1>. USE DEF SendInv, Preparing
<1>1. \A id \in Requests : rows[id].status # ABSENT => rows'[id].status # ABSENT
  BY RowsStay, IdsFacts
<1>2. CASE UNCHANGED <<pc, cur, wire, ex>>
  BY <1>1, <1>2
<1>3. ASSUME NEW r \in Requests, ReserveBuy(r) \/ ReserveExit(r) \/ ReserveSell(r)
      PROVE  SendInv'
  <2>1. rows'[r].status # ABSENT
    BY <1>3, IdsFacts DEF ReserveBuy, ReserveExit, ReserveSell, SetStatus, TypeOK, LedgerTypeOK, Row,
                               ABSENT
  <2>. QED BY <1>1, <1>3, <2>1 DEF ReserveBuy, ReserveExit, ReserveSell
<1>4. CASE MarkSendStarted \/ PreSendReject \/ SendFails \/ MarkSendResult \/ PersistOutcome
           \/ TimeoutLoad \/ TimeoutCommit \/ SizeBuy \/ BuyRefused
  BY <1>1, <1>4 DEF MarkSendStarted, PreSendReject, SendFails, MarkSendResult, PersistOutcome,
                    TimeoutLoad, TimeoutCommit, SizeBuy, BuyRefused
<1>5. CASE SendOrder
  <2>1. cur \in Requests /\ wire \in [Requests -> {"none", "inflight", "done", "gone"}]
    BY <1>5 DEF SendOrder, TypeOK, ScanTypeOK, NetTypeOK
  <2>. QED BY <1>1, <1>5, <2>1 DEF SendOrder
<1>6. ASSUME NEW r \in Requests, GwReject(r)
      PROVE  SendInv'
  <2>1. wire \in [Requests -> {"none", "inflight", "done", "gone"}]
    BY DEF TypeOK, NetTypeOK
  <2>2. \A q \in Requests : Preparing(q)' => Preparing(q)
    BY <1>6 DEF GwReject, Answer, scanVars
  <2>. QED BY <1>1, <1>6, <2>1, <2>2 DEF GwReject
<1>7. ASSUME NEW r \in Requests, GwSend(r)
      PROVE  SendInv'
  <2>1. wire \in [Requests -> {"none", "inflight", "done", "gone"}] /\ ex \in [Requests -> Order]
    BY DEF TypeOK, NetTypeOK
  <2>2. \A q \in Requests : Preparing(q)' => Preparing(q)
    BY <1>7 DEF GwSend, Answer, scanVars
  <2>3. ex[r].sends = 0 /\ wire[r] = "inflight" /\ wire' = [wire EXCEPT ![r] = "done"]
    BY <1>7 DEF GwSend
  <2>4. \A q \in Requests : ex'[q].sends = ex[q].sends \/ (q = r /\ ex'[q].sends = 1)
    BY <1>7, <2>1, <2>3 DEF GwSend, Order
  <2>. QED BY <1>1, <2>1, <2>2, <2>3, <2>4
<1>8. ASSUME NEW r \in Requests, ExchangeUpdate(r)
      PROVE  SendInv'
  <2>1. \A q \in Requests : ex'[q].sends = ex[q].sends
    BY <1>8 DEF ExchangeUpdate, TypeOK, NetTypeOK, Order
  <2>. QED BY <1>1, <1>8, <2>1 DEF ExchangeUpdate, scanVars
<1>9. CASE ServerCrash \/ TickRaises
  BY <1>1, <1>9, ConstantsAssumption DEF ServerCrash, TickRaises
<1>10. CASE GatewayStop
  BY <1>1, <1>10 DEF GatewayStop, scanVars, TypeOK, NetTypeOK
<1>11. CASE Synchroniser \/ ReportNext \/ GatewayStart \/ (\E e \in posted : LoseCallback(e) \/ DeliverCallback(e))
            \/ UNCHANGED vars
  <2>1. UNCHANGED <<pc, cur, wire, ex>>
    BY <1>11 DEF Synchroniser, SyncFetch, SyncLoad, SyncApply, SyncDone, ReportNext, GatewayStart,
                 LoseCallback, DeliverCallback, scanVars, vars
  <2>. QED BY <2>1, <1>2
<1>. QED BY <1>3, <1>4, <1>5, <1>6, <1>7, <1>8, <1>9, <1>10, <1>11 DEF Next, Scanner, Gateway, Faults

\* No crash, timeout, lost answer or gateway restart makes the SDK send one
\* request twice: the row inserted for it is never removed, and
\* reserve_order sends only what it inserted.
THEOREM RequestSentOnce == Spec => []SentOnce
<1>1. Init => SendInv
  BY DEF Init, SendInv, Preparing
<1>2. TypeOK /\ TypeOK' /\ SendInv /\ [Next]_vars => SendInv'
  BY SendInvStep
<1>3. SendInv => SentOnce
  BY DEF SendInv, SentOnce
<1>. QED BY <1>1, <1>2, <1>3, TypeCorrect, PTL DEF Spec

-----------------------------------------------------------------------------
(***************************************************************************)
(* The order flow implements the order book, and what follows from the     *)
(* same invariant: for every set of requests, every quantity, any number   *)
(* of crashes, lost callbacks and restarts of the gateway.                 *)
(*                                                                         *)
(* After a restart the gateway places an update by the shape of its order. *)
(* The theorems assume that this is Unambiguous; OrderFlow_misattributed   *)
(* shows what happens when a BUY and a SELL have the same shape.           *)
(***************************************************************************)
Unambiguous ==
  MaxStops = 0 \/ \A r, q \in Requests :
                    SymOf[r] = SymOf[q] /\ ShapeOf[r] = ShapeOf[q] => SideOf[r] = SideOf[q]

\* The order may be working, may come to be, or holds its key at the gateway.
Active(r) == Preparing(r) \/ wire[r] = "inflight" \/ Live(r) \/ pendKey[Key(r)] = r

\* A request that is active has a pending row, and no other of its key is.
ActiveInv ==
  \A r \in Requests :
    /\ Active(r) => rows[r].status \in PENDING_STATES
    /\ \A q \in Requests : Active(r) /\ Active(q) /\ Key(r) = Key(q) => r = q

\* What a row, a copy of a row, an update or an entry of the order list says is
\* of its own order, and of something the exchange has already done.
Tells(r, status, filled) ==
  /\ filled <= ex[r].filled
  /\ status \in Reported => ex[r].status \notin {"NONE", "SENT"}
  /\ status \in FINAL => ex[r].status \in FINAL
RowTells(id, row) ==
  /\ row.filled <= ex[OrderOf(id)].filled
  /\ row.oid # NoReq => row.oid = OrderOf(id) /\ ex[OrderOf(id)].status # "NONE"
EventTells(e) == OrderOf(e.id) = e.oid /\ Tells(e.oid, e.status, e.filled)

RowsInv ==
  /\ \A id \in Ids : RowTells(id, rows[id]) /\ rows[id].status # "ERROR_RECONCILIATION_REQUIRED"
  /\ \A id \in Ids : RowTells(id, copy[id]) /\ copy[id].status \in PENDING_STATES \union {ABSENT}
  /\ \A id \in Ids : RowTells(id, mirror[id]) /\ mirror[id].status \in PENDING_STATES \union {ABSENT}
  /\ \A id \in canc : ex[OrderOf(id)].status # "NONE" /\ rows[id].status # ABSENT

ReportsInv ==
  /\ \A e \in posted : EventTells(e)
  /\ \A n \in DOMAIN queue : EventTells(queue[n])
  /\ \A r \in Requests :
       /\ snap[r].status # ABSENT =>
            snap[r].id \in {r, Ghost(r), NoReq} /\ Tells(r, snap[r].status, snap[r].filled)
       /\ recent[r].status # ABSENT =>
            recent[r].id \in {r, Ghost(r)} /\ Tells(r, recent[r].status, recent[r].filled)

\* The gateway knows its orders, or has been restarted since.
GwInv ==
  /\ ~gwUp => stops > 0 /\ \A k \in Keys : pendKey[k] = NoReq
  /\ \A k \in Keys : pendKey[k] # NoReq => Key(pendKey[k]) = k
  /\ \A r \in Requests :
       /\ byOrder[r] \in {NoReq, r, Ghost(r)}
       /\ byOrder[r] # NoReq => ex[r].status # "NONE"
       /\ pendKey[Key(r)] = r => wire[r] = "done" /\ ex[r].status \notin FINAL /\ byOrder[r] # Ghost(r)
       /\ stops = 0 /\ Live(r) => byOrder[r] = r \/ pendKey[Key(r)] = r

\* A row is closed before its order was placed only by the answer the scanner has.
ScanInv ==
  /\ pc \in {"sending", "replied", "marked"} => wire[cur] # "none"
  /\ pc \in {"replied", "marked"} /\ reply = "REJECTED" =>
       wire[cur] = "done" /\ ex[cur].status = "NONE" /\ pendKey[Key(cur)] # cur
  /\ \A r \in Requests :
       /\ ex[r].sends = 0 <=> ex[r].status = "NONE"
       /\ rows[r].status \in FINAL /\ ex[r].status = "NONE" /\ cur = r => pc = "marked" /\ reply = "REJECTED"

\* The cash of a BUY that is active covers what the exchange has not executed.
CashInv ==
  \A r \in Requests : Side(r) = "BUY" /\ Active(r) => reserved[r] + ex[r].filled >= Qty

Core == ActiveInv /\ RowsInv /\ ReportsInv /\ GwInv /\ ScanInv /\ CashInv
\* The inductive invariant.
FlowInv == Unambiguous /\ TypeOK /\ SendInv /\ Core

-----------------------------------------------------------------------------
(* Vocabulary.                                                             *)

\* How the names of states divide into pending, final and the rest.
LEMMA Words ==
  /\ \A s \in PENDING_STATES : s \notin FINAL /\ s \in States /\ s # ABSENT
                                /\ s # "ERROR_RECONCILIATION_REQUIRED"
  /\ \A s \in FINAL : s \in States /\ s \in Reported /\ s \notin {"NONE", "SENT", ABSENT}
                       /\ s # "ERROR_RECONCILIATION_REQUIRED"
  /\ \A s \in Reported : s \in PENDING_STATES \/ s \in FINAL
  /\ \A s \in States : s \in PENDING_STATES \/ s \in FINAL \/ s = "ERROR_RECONCILIATION_REQUIRED"
  /\ ABSENT \notin States /\ ABSENT \notin Reported
BY DEF PENDING_STATES, FINAL, States, Reported, ABSENT

\* Each id is of one request, and a request and its ghost are different ids.
LEMMA Owners ==
  /\ \A id \in Ids : OrderOf(id) \in Requests
  /\ \A r \in Requests : r \in Ids /\ Ghost(r) \in Ids /\ OrderOf(r) = r /\ OrderOf(Ghost(r)) = r
                          /\ r # NoReq /\ Ghost(r) # NoReq /\ r # Ghost(r) /\ Key(r) \in Keys
  /\ \A r, q \in Requests : Ghost(r) # q
BY ConstantsAssumption DEF Ids, Ghosts, Ghost, OrderOf, Keys

\* The types the invariant's steps use, taken from TypeOK.
LEMMA Variables ==
  ASSUME TypeOK
  PROVE  /\ rows \in [Ids -> Row] /\ copy \in [Ids -> Row] /\ mirror \in [Ids -> Row]
         /\ reserved \in [Ids -> 0..Qty] /\ ex \in [Requests -> Order]
         /\ wire \in [Requests -> {"none", "inflight", "done", "gone"}]
         /\ pendKey \in [Keys -> Requests \union {NoReq}] /\ Qty \in Nat
BY ConstantsAssumption DEF TypeOK, LedgerTypeOK, ScanTypeOK, SyncTypeOK, GwTypeOK, NetTypeOK

\* An order that is over is not active.
LEMMA OverInactive ==
  ASSUME FlowInv, NEW r \in Requests, ex[r].status \in FINAL
  PROVE  ~Active(r)
<1>1. ex[r].status # "NONE" /\ ~Live(r)
  BY Words DEF Live
<1>2. wire[r] = "done"
  BY <1>1 DEF FlowInv, Core, SendInv, ScanInv
<1>. QED BY <1>1, <1>2 DEF FlowInv, Core, Active, SendInv, GwInv

\* An order the exchange knows has a row.
LEMMA KnownHasRow ==
  ASSUME FlowInv, NEW r \in Requests, ex[r].status # "NONE"
  PROVE  rows[r].status # ABSENT /\ wire[r] = "done" /\ ~Preparing(r)
BY DEF FlowInv, Core, SendInv, ScanInv

\* What apply_callback writes of its order keeps the invariant.
LEMMA ApplyKeeps ==
  ASSUME FlowInv, NEW id \in Ids, NEW base \in Row, RowTells(id, base),
         NEW e, e.status \in Reported, e.filled \in 0..Qty, e.oid = OrderOf(id),
         Tells(e.oid, e.status, e.filled), Apply(id, base, e),
         UNCHANGED <<pc, cur, reply, canc, wire, ex, pendKey>>
  PROVE  /\ ActiveInv' /\ CashInv' /\ ScanInv'
         /\ \A i \in Ids : RowTells(i, rows[i])' /\ rows'[i].status # "ERROR_RECONCILIATION_REQUIRED"
                           /\ (rows[i].status # ABSENT => rows'[i].status # ABSENT)
<1> DEFINE fills == IF e.filled > base.filled THEN e.filled ELSE base.filled
           next  == [status |-> e.status, filled |-> fills, oid |-> e.oid]
           o == OrderOf(id)
<1>. USE DEF FlowInv, Core
<1>0. /\ rows \in [Ids -> Row] /\ reserved \in [Ids -> 0..Qty] /\ ex \in [Requests -> Order]
      /\ o \in Requests /\ Qty \in Nat
  BY Variables, Owners
<1>1. CASE UNCHANGED <<rows, reserved>>
  <2>1. ActiveInv' /\ CashInv' /\ ScanInv'
    BY <1>1 DEF ActiveInv, CashInv, ScanInv, Active, Preparing, Live
  <2>. QED BY <1>1, <2>1 DEF RowsInv, RowTells
<1>2. CASE ~UNCHANGED <<rows, reserved>>
  <2>1. /\ rows' = [rows EXCEPT ![id] = Written(Inserted(rows[id]), base, next)]
        /\ reserved' = IF Side(id) = "BUY"
                       THEN [reserved EXCEPT ![id] = ReservedAfter(e.status, fills, Qty, @)]
                       ELSE reserved
    BY <1>2 DEF Apply
  <2>2. fills \in 0..Qty /\ fills <= ex[o].filled
    BY DEF RowTells, Tells, Row
  <2>3. ex[o].status \notin {"NONE", "SENT"} /\ (e.status \in FINAL => ex[o].status \in FINAL)
    BY DEF Tells
  <2>4. \A i \in Ids : i # id => rows'[i] = rows[i] /\ reserved'[i] = reserved[i]
    BY <1>0, <2>1
  <2>5. /\ rows'[id].status \in {rows[id].status, "RESERVED", e.status}
        /\ rows[id].status # ABSENT => rows'[id].status \in {rows[id].status, e.status}
        /\ rows'[id].filled \in {rows[id].filled, fills} /\ rows'[id].oid \in {rows[id].oid, e.oid}
        /\ rows'[id].status # ABSENT
    <3>1. rows'[id] = Written(Inserted(rows[id]), base, next)
      BY <1>0, <2>1
    <3>2. e.status # ABSENT
      BY Words
    <3>. QED BY <1>0, <3>1, <3>2 DEF Written, Inserted, Row, ABSENT
  <2>6. \A i \in Ids : RowTells(i, rows[i])' /\ rows'[i].status # "ERROR_RECONCILIATION_REQUIRED"
                      /\ (rows[i].status # ABSENT => rows'[i].status # ABSENT)
    <3>1. e.status # "ERROR_RECONCILIATION_REQUIRED"
      BY Words
    <3>. QED BY <2>2, <2>3, <2>4, <2>5, <3>1 DEF RowsInv, RowTells
  <2>7. \A r \in Requests : Active(r)' <=> Active(r)
    BY DEF Active, Preparing, Live
  <2>8. ASSUME NEW r \in Requests, Active(r), r = id
        PROVE  /\ rows'[r].status \in PENDING_STATES
               /\ Side(r) = "BUY" => reserved'[r] + ex[r].filled >= Qty
    <3>1. OrderOf(id) = r
      BY <2>8, Owners
    <3>2. e.status \notin FINAL
      BY <2>3, <2>8, <3>1, OverInactive
    <3>3. e.status \in PENDING_STATES
      BY <3>2, Words
    <3>4. rows[id].status \in PENDING_STATES
      BY <2>8 DEF ActiveInv
    <3>5. rows'[r].status \in PENDING_STATES
      BY <2>5, <2>8, <3>3, <3>4, Words
    <3>6. Side(r) = "BUY" => reserved'[r] = IF fills < Qty THEN Qty - fills ELSE 0
      BY <1>0, <2>1, <2>8, <3>2, <3>3 DEF ReservedAfter
    <3>7. ex[r].filled \in 0..Qty
      BY <1>0 DEF Order
    <3>. QED BY <1>0, <2>2, <3>1, <3>5, <3>6, <3>7
  <2>9. ActiveInv'
    BY <2>4, <2>7, <2>8, Owners DEF ActiveInv, Key, Side
  <2>10. CashInv'
    BY <2>4, <2>7, <2>8, Owners DEF CashInv, Side
  <2>11. ScanInv'
    <3>1. \A r \in Requests : ex[r].status = "NONE" => rows'[r] = rows[r]
      BY <2>3, <2>4, Owners
    <3>. QED BY <3>1 DEF ScanInv
  <2>. QED BY <2>6, <2>9, <2>10, <2>11
<1>. QED BY <1>1, <1>2

\* What a status write of the scanner does, with its reservation.
LEMMA SetKeeps ==
  ASSUME FlowInv, NEW x \in Requests, NEW s \in PENDING_STATES \union {"REJECTED"},
         SetStatus(x, s), ex' = ex
  PROVE  /\ rows'[x].status = s
         /\ \A i \in Ids : i # x => rows'[i] = rows[i] /\ reserved'[i] = reserved[i]
         /\ \A i \in Ids : RowTells(i, rows[i])' /\ rows'[i].status # "ERROR_RECONCILIATION_REQUIRED"
                           /\ (rows[i].status # ABSENT => rows'[i].status # ABSENT)
         /\ Side(x) = "BUY" /\ s \in PENDING_STATES => reserved'[x] + ex[x].filled >= Qty
<1>. USE DEF FlowInv, Core
<1>0. /\ rows \in [Ids -> Row] /\ reserved \in [Ids -> 0..Qty] /\ ex \in [Requests -> Order]
      /\ x \in Ids /\ OrderOf(x) = x /\ Qty \in Nat
  BY Variables, Owners
<1>1. rows' = [rows EXCEPT ![x].status = s]
  BY DEF SetStatus
<1>2. \A i \in Ids : i # x => rows'[i] = rows[i] /\ reserved'[i] = reserved[i]
  BY <1>0, <1>1 DEF SetStatus
<1>3. rows'[x].status = s /\ rows'[x].filled = rows[x].filled /\ rows'[x].oid = rows[x].oid
  BY <1>0, <1>1 DEF Row
<1>4. s # "ERROR_RECONCILIATION_REQUIRED" /\ s # ABSENT
  BY Words DEF ABSENT
<1>5. \A i \in Ids : RowTells(i, rows[i])' /\ rows'[i].status # "ERROR_RECONCILIATION_REQUIRED"
                    /\ (rows[i].status # ABSENT => rows'[i].status # ABSENT)
  BY <1>2, <1>3, <1>4 DEF RowsInv, RowTells
<1>6. ASSUME Side(x) = "BUY", s \in PENDING_STATES
      PROVE  reserved'[x] + ex[x].filled >= Qty
  <2>1. s \notin FINAL
    BY <1>6, Words
  <2>2. reserved'[x] = IF rows[x].filled < Qty THEN Qty - rows[x].filled ELSE 0
    BY <1>0, <1>6, <2>1 DEF SetStatus, ReservedAfter
  <2>3. rows[x].filled \in 0..Qty /\ ex[x].filled \in 0..Qty /\ rows[x].filled <= ex[x].filled
    BY <1>0 DEF Row, Order, RowsInv, RowTells
  <2>. QED BY <1>0, <2>2, <2>3
<1>. QED BY <1>2, <1>3, <1>5, <1>6

\* The reservations written back from the rows the sizing loaded still cover.
LEMMA MirrorCovers ==
  ASSUME FlowInv, NEW r \in Requests, reserved[r] + ex[r].filled >= Qty
  PROVE  Mirrored(r) + ex[r].filled >= Qty
<1>. USE DEF FlowInv, Core
<1>0. /\ mirror \in [Ids -> Row] /\ ex \in [Requests -> Order]
      /\ r \in Ids /\ OrderOf(r) = r /\ Qty \in Nat
  BY Variables, Owners
<1>1. CASE mirror[r].status = ABSENT
  BY <1>1 DEF Mirrored
<1>2. CASE mirror[r].status # ABSENT
  <2>1. mirror[r].status \in PENDING_STATES /\ mirror[r].status \notin FINAL
    BY <1>0, <1>2, Words DEF RowsInv
  <2>2. Mirrored(r) = IF mirror[r].filled < Qty THEN Qty - mirror[r].filled ELSE 0
    BY <1>2, <2>1 DEF Mirrored, ReservedAfter
  <2>3. mirror[r].filled \in 0..Qty /\ ex[r].filled \in 0..Qty /\ mirror[r].filled <= ex[r].filled
    BY <1>0 DEF Row, Order, RowsInv, RowTells
  <2>. QED BY <1>0, <2>2, <2>3
<1>. QED BY <1>1, <1>2

\* The reports and the gateway's tables are not the scanner's.
LEMMA ReportsFrame ==
  ASSUME ReportsInv, UNCHANGED <<posted, queue, snap, recent, ex>>
  PROVE  ReportsInv'
BY DEF ReportsInv, EventTells, Tells

\* What the gateway knows stays true while its memory, the wire and the exchange stay.
LEMMA GwFrame ==
  ASSUME GwInv, UNCHANGED <<gwUp, stops, pendKey, byOrder, wire, ex>>
  PROVE  GwInv'
BY DEF GwInv, Live

\* Rows and their copies, where the exchange did not move.
LEMMA RowsFrame ==
  ASSUME RowsInv, UNCHANGED <<copy, ex>>, mirror' \in {mirror, NoMirror}, canc' \in {canc, {}},
         \A i \in Ids : RowTells(i, rows[i])' /\ rows'[i].status # "ERROR_RECONCILIATION_REQUIRED"
                       /\ (rows[i].status # ABSENT => rows'[i].status # ABSENT),
         TypeOK
  PROVE  RowsInv'
<1>1. \A i \in Ids : RowTells(i, copy[i])' <=> RowTells(i, copy[i])
  BY DEF RowTells
<1>2. ex \in [Requests -> Order] /\ (\A i \in Ids : OrderOf(i) \in Requests)
  BY Variables, Owners
<1>3. \A i \in Ids : RowTells(i, NoMirror[i])' /\ NoMirror[i].status = ABSENT
  BY <1>2 DEF RowTells, NoMirror, AbsentRow, Order
<1>4. \A i \in Ids : RowTells(i, mirror[i])' /\ mirror'[i].status \in PENDING_STATES \union {ABSENT}
  <2>1. CASE mirror' = mirror
    BY <2>1 DEF RowTells, RowsInv
  <2>2. CASE mirror' = NoMirror
    BY <2>2, <1>3 DEF RowTells
  <2>. QED BY <2>1, <2>2
<1>5. canc \subseteq Ids
  BY DEF TypeOK, ScanTypeOK
<1>. QED BY <1>1, <1>4, <1>5 DEF RowsInv

-----------------------------------------------------------------------------
(* The scanner.                                                            *)

\* Reserving an order keeps the core of the invariant.
LEMMA ReserveStep ==
  ASSUME FlowInv, NEW r \in Requests, ReserveBuy(r) \/ ReserveExit(r) \/ ReserveSell(r)
  PROVE  Core'
<1>. USE DEF FlowInv, Core
<1>0. /\ rows \in [Ids -> Row] /\ reserved \in [Ids -> 0..Qty] /\ ex \in [Requests -> Order]
      /\ Qty \in Nat /\ r \in Ids /\ Requests \subseteq Ids
  BY Variables, Owners
<1>1. /\ pc \in {"idle", "sizing"} /\ pc' \in {"started", "reserved"} /\ cur' = r
      /\ rows[r].status = ABSENT /\ NoPending(r)
      /\ UNCHANGED <<wire, ex, pendKey, reply, canc, copy, snap, recent, posted, queue, gwUp, stops, byOrder>>
      /\ mirror' \in {mirror, NoMirror}
  BY DEF ReserveBuy, ReserveExit, ReserveSell, syncVars, gwVars, bounds
<1>2. /\ rows'[r].status \in PENDING_STATES
      /\ \A i \in Ids : i # r => rows'[i] = rows[i]
      /\ \A i \in Ids : RowTells(i, rows[i])' /\ rows'[i].status # "ERROR_RECONCILIATION_REQUIRED"
                        /\ (rows[i].status # ABSENT => rows'[i].status # ABSENT)
  <2>1. CASE ReserveBuy(r)
    <3>1. rows' = [rows EXCEPT ![r].status = "SEND_IN_PROGRESS"]
      BY <2>1 DEF ReserveBuy
    <3>2. rows'[r].status = "SEND_IN_PROGRESS" /\ rows'[r].filled = rows[r].filled /\ rows'[r].oid = rows[r].oid
      BY <1>0, <3>1 DEF Row
    <3>. QED BY <1>0, <1>1, <3>1, <3>2 DEF RowsInv, RowTells, PENDING_STATES, ABSENT
  <2>2. ASSUME NEW s \in PENDING_STATES, SetStatus(r, s)
        PROVE  <1>2!1 /\ <1>2!2 /\ <1>2!3
    BY <1>1, <2>2, SetKeeps
  <2>. QED BY <2>1, <2>2 DEF ReserveExit, ReserveSell, PENDING_STATES
<1>3. ~Active(r) /\ \A q \in Requests : Active(q)' => Active(q) \/ q = r
  <2>1. rows[r].status \notin PENDING_STATES
    BY <1>1, Words
  <2>. QED BY <1>1, <2>1 DEF ActiveInv, Active, Preparing, Live
<1>4. \A q \in Requests : Active(q) => Key(q) # Key(r)
  BY <1>0, <1>1 DEF ActiveInv, NoPending
<1>5. ActiveInv'
  BY <1>0, <1>2, <1>3, <1>4 DEF ActiveInv
<1>6. ScanInv'
  BY <1>0, <1>1, <1>2, Words DEF ScanInv
<1>7. CashInv'
  <2>1. \A q \in Requests : q # r => reserved'[q] = reserved[q] \/ reserved'[q] = Mirrored(q)
    <3>1. CASE ReserveBuy(r)
      BY <1>0, <3>1 DEF ReserveBuy
    <3>2. CASE ~ReserveBuy(r)
      BY <1>0, <3>2, Owners DEF ReserveExit, ReserveSell, SetStatus
    <3>. QED BY <3>1, <3>2
  <2>2. Side(r) = "BUY" => reserved'[r] = Qty
    BY <1>0 DEF ReserveBuy, ReserveExit, ReserveSell
  <2>3. ex[r].filled \in Nat
    BY <1>0 DEF Order
  <2>. QED BY <1>0, <1>1, <1>3, <2>1, <2>2, <2>3, MirrorCovers DEF CashInv
<1>8. RowsInv'
  BY <1>1, <1>2, RowsFrame
<1>. QED BY <1>1, <1>5, <1>6, <1>7, <1>8, ReportsFrame, GwFrame

\* The scanner's answers and steps with the request it has in hand.
LEMMA WriteStep ==
  ASSUME FlowInv, MarkSendStarted \/ PreSendReject \/ MarkSendResult \/ PersistOutcome
  PROVE  Core'
<1>. USE DEF FlowInv, Core
<1> DEFINE s == IF pc = "reserved" THEN "SEND_IN_PROGRESS" ELSE IF pc = "started" THEN "REJECTED" ELSE reply
<1>0. /\ rows \in [Ids -> Row] /\ reserved \in [Ids -> 0..Qty] /\ ex \in [Requests -> Order]
      /\ cur \in Requests /\ cur \in Ids /\ OrderOf(cur) = cur /\ Requests \subseteq Ids /\ NoReq \notin Requests
  BY Variables, Owners DEF TypeOK, ScanTypeOK, MarkSendStarted, PreSendReject, MarkSendResult, PersistOutcome
<1>1. /\ UNCHANGED <<wire, ex, pendKey, mirror, canc, copy, snap, recent, posted, queue, gwUp, stops, byOrder>>
      /\ s \in PENDING_STATES \union {"REJECTED"}
  BY DEF MarkSendStarted, PreSendReject, MarkSendResult, PersistOutcome, TypeOK, ScanTypeOK, ABSENT,
         PENDING_STATES, syncVars, gwVars, bounds
<1>2. /\ rows'[cur].status = s
      /\ \A i \in Ids : i # cur => rows'[i] = rows[i] /\ reserved'[i] = reserved[i]
      /\ \A i \in Ids : RowTells(i, rows[i])' /\ rows'[i].status # "ERROR_RECONCILIATION_REQUIRED"
                        /\ (rows[i].status # ABSENT => rows'[i].status # ABSENT)
      /\ \/ reserved' = reserved
         \/ Side(cur) = "BUY" /\ s \in PENDING_STATES => reserved'[cur] + ex[cur].filled >= Qty
  <2>1. CASE PersistOutcome
    <3>1. rows' = [rows EXCEPT ![cur].status = s] /\ reserved' = reserved
      BY <2>1 DEF PersistOutcome
    <3>2. rows'[cur].status = s /\ rows'[cur].filled = rows[cur].filled /\ rows'[cur].oid = rows[cur].oid
      BY <1>0, <3>1 DEF Row
    <3>3. s # "ERROR_RECONCILIATION_REQUIRED" /\ s # ABSENT
      BY <1>1, Words DEF ABSENT
    <3>. QED BY <1>0, <1>1, <3>1, <3>2, <3>3 DEF RowsInv, RowTells
  <2>2. CASE ~PersistOutcome
    <3>1. SetStatus(cur, s)
      BY <2>2 DEF MarkSendStarted, PreSendReject, MarkSendResult
    <3>. QED BY <1>0, <1>1, <3>1, SetKeeps
  <2>. QED BY <2>1, <2>2
<1>3. \A r \in Requests : Active(r)' => Active(r)
  BY DEF Active, Preparing, Live, MarkSendStarted, PreSendReject, MarkSendResult, PersistOutcome,
         syncVars, gwVars, bounds
<1>4. ASSUME NEW x \in Requests, x = cur, s = "REJECTED"
      PROVE  ~Active(x)' /\ ex[x].status = "NONE"
  <2>1. wire[x] # "inflight" /\ ex[x].status = "NONE" /\ pendKey[Key(x)] # x
    <3>1. CASE pc = "started"
      <4>1. wire[x] = "none"
        BY <1>4, <3>1 DEF SendInv, Preparing
      <4>. QED BY <4>1 DEF SendInv, ScanInv, GwInv
    <3>2. CASE pc # "started"
      <4>1. pc \in {"replied", "marked"} /\ reply = "REJECTED"
        BY <1>4, <3>2 DEF MarkSendStarted, PreSendReject, MarkSendResult, PersistOutcome
      <4>. QED BY <1>4, <4>1 DEF ScanInv
    <3>. QED BY <3>1, <3>2
  <2>2. pc' \in {"idle", "marked"}
    BY <1>4 DEF MarkSendStarted, PreSendReject, MarkSendResult, PersistOutcome
  <2>. QED BY <1>1, <2>1, <2>2 DEF Active, Live, Preparing
<1>5. ActiveInv'
  BY <1>0, <1>1, <1>2, <1>3, <1>4 DEF ActiveInv
<1>6. CashInv'
  BY <1>0, <1>1, <1>2, <1>3, <1>4 DEF CashInv
<1>7. ScanInv'
  <2>1. \/ pc' = "started" /\ s \in PENDING_STATES /\ cur' = cur
        \/ pc' = "idle" /\ cur' = NoReq
        \/ pc' = "marked" /\ pc = "replied" /\ s = reply /\ reply' = reply /\ cur' = cur
    BY DEF MarkSendStarted, PreSendReject, MarkSendResult, PersistOutcome, PENDING_STATES
  <2>. QED BY <1>0, <1>1, <1>2, <2>1, Words DEF ScanInv
<1>8. RowsInv'
  BY <1>1, <1>2, RowsFrame
<1>. QED BY <1>1, <1>5, <1>6, <1>7, <1>8, ReportsFrame, GwFrame

\* Steps of the scanner that write no row.
LEMMA QuietStep ==
  ASSUME FlowInv, SizeBuy \/ BuyRefused \/ SendOrder \/ SendFails \/ TimeoutLoad
  PROVE  Core'
<1>. USE DEF FlowInv, Core
<1>0. /\ rows \in [Ids -> Row] /\ ex \in [Requests -> Order] /\ Requests \subseteq Ids /\ NoReq \notin Requests
      /\ wire \in [Requests -> {"none", "inflight", "done", "gone"}]
      /\ \A i \in Ids : OrderOf(i) \in Requests
  BY Variables, Owners
<1>1. UNCHANGED <<rows, ex, pendKey, copy, snap, recent, posted, queue, gwUp, stops, byOrder>>
  BY DEF SizeBuy, BuyRefused, SendOrder, SendFails, TimeoutLoad, syncVars, gwVars, bounds
<1>2. \A r \in Requests : Active(r)' => Active(r)
  <2>1. CASE SendOrder
    <3>1. cur \in Requests /\ wire' = [wire EXCEPT ![cur] = IF gwUp THEN "inflight" ELSE "gone"] /\ Preparing(cur)
      BY <2>1 DEF SendOrder, TypeOK, ScanTypeOK, Preparing
    <3>2. Active(cur)
      BY <3>1 DEF Active
    <3>3. \A r \in Requests : r # cur => wire'[r] = wire[r]
      BY <1>0, <3>1
    <3>. QED BY <1>1, <2>1, <3>2, <3>3 DEF SendOrder, Active, Preparing, Live
  <2>2. CASE ~SendOrder
    <3>1. wire' = wire
      BY <2>2 DEF SizeBuy, BuyRefused, SendFails, TimeoutLoad
    <3>2. \A r \in Requests : Preparing(r)' => Preparing(r)
      BY DEF Preparing, SizeBuy, BuyRefused, SendOrder, SendFails, TimeoutLoad
    <3>. QED BY <1>1, <3>1, <3>2 DEF Active, Live
  <2>. QED BY <2>1, <2>2
<1>3. ActiveInv'
  BY <1>1, <1>2 DEF ActiveInv
<1>4. CashInv'
  <2>1. \A r \in Requests : reserved'[r] = reserved[r] \/ reserved'[r] = Mirrored(r)
    BY <1>0 DEF SizeBuy, BuyRefused, SendOrder, SendFails, TimeoutLoad
  <2>. QED BY <1>1, <1>2, <2>1, MirrorCovers DEF CashInv
<1>5. GwInv'
  <2>1. CASE SendOrder
    <3>1. \A r \in Requests : wire[r] = "done" => wire'[r] = "done"
      BY <1>0, <2>1 DEF SendOrder, SendInv, Preparing
    <3>. QED BY <1>1, <3>1 DEF GwInv, Live
  <2>2. CASE ~SendOrder
    <3>1. wire' = wire
      BY <2>2 DEF SizeBuy, BuyRefused, SendFails, TimeoutLoad
    <3>. QED BY <1>1, <3>1, GwFrame
  <2>. QED BY <2>1, <2>2
<1>6. ScanInv'
  <2>1. CASE SendOrder
    <3>1. cur \in Requests /\ wire'[cur] # "none" /\ rows[cur].status \in PENDING_STATES
      <4>1. cur \in Requests /\ Active(cur)
        BY <2>1 DEF SendOrder, TypeOK, ScanTypeOK, Preparing, Active
      <4>. QED BY <1>0, <2>1, <4>1 DEF SendOrder, ActiveInv
    <3>. QED BY <1>1, <2>1, <3>1, Words DEF SendOrder, ScanInv
  <2>2. CASE SendFails
    BY <1>0, <1>1, <2>2 DEF SendFails, ScanInv
  <2>3. CASE SizeBuy \/ BuyRefused \/ TimeoutLoad
    BY <1>0, <1>1, <2>3 DEF SizeBuy, BuyRefused, TimeoutLoad, ScanInv
  <2>. QED BY <2>1, <2>2, <2>3
<1>7. RowsInv'
  <2>1. CASE SizeBuy
    <3>1. mirror' = [id \in Ids |-> IF Side(id) = "BUY" /\ rows[id].status \in PENDING_STATES
                                    THEN rows[id] ELSE AbsentRow] /\ canc' = canc
      BY <2>1 DEF SizeBuy
    <3>2. \A i \in Ids : RowTells(i, AbsentRow)' /\ AbsentRow.status = ABSENT
      BY <1>0, <1>1 DEF RowTells, AbsentRow, Order
    <3>3. \A i \in Ids : RowTells(i, mirror[i])' /\ mirror'[i].status \in PENDING_STATES \union {ABSENT}
      BY <1>0, <1>1, <3>1, <3>2 DEF RowsInv, RowTells
    <3>. QED BY <1>1, <3>1, <3>3 DEF RowsInv, RowTells
  <2>2. CASE TimeoutLoad
    <3>1. canc' = {id \in Ids : /\ rows[id].status \in {"SENT_PENDING", "NEW", "PARTIALLY_FILLED"}
                                /\ rows[id].oid # NoReq} /\ mirror' = mirror
      BY <2>2 DEF TimeoutLoad
    <3>2. \A id \in canc' : ex[OrderOf(id)].status # "NONE" /\ rows[id].status # ABSENT
      BY <3>1 DEF RowsInv, RowTells, ABSENT
    <3>. QED BY <1>1, <3>1, <3>2 DEF RowsInv, RowTells
  <2>3. CASE BuyRefused \/ SendOrder \/ SendFails
    <3>1. mirror' \in {mirror, NoMirror} /\ canc' = canc
      BY <2>3 DEF BuyRefused, SendOrder, SendFails
    <3>2. \A i \in Ids : RowTells(i, rows[i])' /\ rows'[i].status # "ERROR_RECONCILIATION_REQUIRED"
      BY <1>1 DEF RowsInv, RowTells
    <3>. QED BY <1>1, <3>1, <3>2, RowsFrame
  <2>. QED BY <2>1, <2>2, <2>3
<1>. QED BY <1>1, <1>3, <1>4, <1>5, <1>6, <1>7, ReportsFrame

\* CANCEL_REQUESTED for the orders whose cancel the gateway accepted.
LEMMA TimeoutStep ==
  ASSUME FlowInv, TimeoutCommit
  PROVE  Core'
<1>. USE DEF FlowInv, Core
<1>0. rows \in [Ids -> Row] /\ Requests \subseteq Ids /\ canc \subseteq Ids
  BY Variables, Owners DEF TypeOK, ScanTypeOK
<1>1. /\ UNCHANGED <<reserved, cur, reply, wire, ex, pendKey, mirror, copy, snap, recent, posted, queue, gwUp, stops, byOrder>>
      /\ pc = "cancel" /\ pc' = "idle" /\ canc' = {}
  BY DEF TimeoutCommit, syncVars, gwVars, bounds
<1>2. \A i \in Ids :
        /\ rows'[i].filled = rows[i].filled /\ rows'[i].oid = rows[i].oid
        /\ rows'[i] = rows[i] \/ rows'[i].status = "CANCEL_REQUESTED"
  BY <1>0 DEF TimeoutCommit, Row
<1>3. \A i \in Ids : RowTells(i, rows[i])' /\ rows'[i].status # "ERROR_RECONCILIATION_REQUIRED"
                     /\ (rows[i].status # ABSENT => rows'[i].status # ABSENT)
  BY <1>1, <1>2 DEF RowsInv, RowTells, ABSENT
<1>4. \A r \in Requests : Active(r)' => Active(r)
  BY <1>1 DEF Active, Preparing, Live
<1>5. "CANCEL_REQUESTED" \in PENDING_STATES /\ "CANCEL_REQUESTED" \notin FINAL
  BY DEF PENDING_STATES, FINAL
<1>6. ActiveInv' /\ CashInv' /\ ScanInv'
  BY <1>0, <1>1, <1>2, <1>4, <1>5 DEF ActiveInv, CashInv, ScanInv
<1>7. RowsInv'
  BY <1>1, <1>3, RowsFrame
<1>. QED BY <1>1, <1>6, <1>7, ReportsFrame, GwFrame

-----------------------------------------------------------------------------
(* The synchroniser and the callbacks.                                     *)

\* What is known of rows, the scanner and cash stays true while these stay.
LEMMA StillFrame ==
  ASSUME ActiveInv, ScanInv, CashInv, UNCHANGED <<rows, reserved, pc, cur, reply, wire, ex, pendKey>>
  PROVE  ActiveInv' /\ ScanInv' /\ CashInv'
BY DEF ActiveInv, ScanInv, CashInv, Active, Preparing, Live

\* What the synchroniser applies to a loaded row is of its own order.
LEMMA SyncReads ==
  ASSUME FlowInv, NEW id \in Ids, SyncApply(id)
  PROVE  \/ UNCHANGED <<rows, reserved>>
         \/ /\ copy[id] \in Row /\ RowTells(id, copy[id])
            /\ \E s \in Reported, f \in 0..Qty :
                 /\ Tells(OrderOf(id), s, f)
                 /\ Apply(id, copy[id], [status |-> s, filled |-> f, oid |-> OrderOf(id)])
<1>. SUFFICES ASSUME ~UNCHANGED <<rows, reserved>>
              PROVE  /\ copy[id] \in Row /\ RowTells(id, copy[id])
                     /\ \E s \in Reported, f \in 0..Qty :
                          /\ Tells(OrderOf(id), s, f)
                          /\ Apply(id, copy[id], [status |-> s, filled |-> f, oid |-> OrderOf(id)])
  OBVIOUS
<1>. USE DEF FlowInv, Core
<1>1. PICK r \in Matches(id) :
        Apply(id, copy[id], [status |-> snap[r].status, filled |-> snap[r].filled, oid |-> r])
  BY DEF SyncApply
<1>2. r \in Requests /\ snap[r].status # ABSENT /\ (r = copy[id].oid \/ snap[r].id = id)
  BY DEF Matches
<1>3. r = OrderOf(id)
  <2>1. CASE r = copy[id].oid
    BY <1>2, <2>1, Owners DEF RowsInv, RowTells
  <2>2. CASE snap[r].id = id
    <3>1. id \in {r, Ghost(r)}
      BY <1>2, <2>2, ConstantsAssumption DEF ReportsInv
    <3>. QED BY <1>2, <3>1, Owners
  <2>. QED BY <1>2, <2>1, <2>2
<1>4. snap[r].status \in Reported /\ snap[r].filled \in 0..Qty /\ Tells(r, snap[r].status, snap[r].filled)
  BY <1>2 DEF TypeOK, SyncTypeOK, Snap, ReportsInv
<1>5. copy[id] \in Row /\ RowTells(id, copy[id])
  BY Variables DEF RowsInv
<1>. QED BY <1>1, <1>3, <1>4, <1>5

\* So is what a callback brings, to the row it inserts or finds.
LEMMA DeliverReads ==
  ASSUME FlowInv, NEW e \in posted, DeliverCallback(e)
  PROVE  /\ e.id \in Ids /\ e.status \in Reported /\ e.filled \in 0..Qty
         /\ e.oid = OrderOf(e.id) /\ Tells(e.oid, e.status, e.filled)
         /\ Inserted(rows[e.id]) \in Row /\ RowTells(e.id, Inserted(rows[e.id]))
         /\ Apply(e.id, Inserted(rows[e.id]), e)
         /\ UNCHANGED <<pc, cur, reply, canc, wire, ex, pendKey>>
<1>. USE DEF FlowInv, Core
<1>1. rows \in [Ids -> Row] /\ e \in Event /\ EventTells(e)
  BY Variables DEF TypeOK, NetTypeOK, ReportsInv
<1>2. Inserted(rows[e.id]) \in Row /\ RowTells(e.id, Inserted(rows[e.id]))
  BY <1>1 DEF Event, Inserted, Row, States, PENDING_STATES, RowsInv, RowTells
<1>. QED BY <1>1, <1>2 DEF Event, EventTells, DeliverCallback, scanVars, gwVars

\* Every step of the synchroniser keeps the core of the invariant, the stale copy it writes from
\* included.
LEMMA SyncStep ==
  ASSUME FlowInv, Synchroniser
  PROVE  Core'
<1>. USE DEF FlowInv, Core
<1>0. /\ rows \in [Ids -> Row] /\ copy \in [Ids -> Row] /\ ex \in [Requests -> Order]
      /\ \A i \in Ids : OrderOf(i) \in Requests
      /\ snap \in [Requests -> Snap] /\ recent \in [Requests -> Snap]
  BY Variables, Owners DEF TypeOK, SyncTypeOK, GwTypeOK
<1>1. \A i \in Ids : RowTells(i, AbsentRow) /\ AbsentRow.status = ABSENT
  BY <1>0 DEF RowTells, AbsentRow, Order
<1>2. CASE SyncFetch
  <2>1. UNCHANGED <<rows, reserved, copy, pc, cur, reply, mirror, canc, wire, posted, ex, pendKey, recent,
                    queue, gwUp, stops, byOrder>>
    BY <1>2 DEF SyncFetch, scanVars, gwVars, bounds
  <2>2. PICK listed \in BOOLEAN : snap' = ActiveOrders(listed)
    BY <1>2 DEF SyncFetch
  <2>3. ASSUME NEW r \in Requests, snap'[r].status # ABSENT
        PROVE  snap'[r].id \in {r, Ghost(r), NoReq} /\ Tells(r, snap'[r].status, snap'[r].filled)
    <3>1. CASE recent[r].status # ABSENT
      BY <2>2, <3>1 DEF ActiveOrders, ReportsInv
    <3>2. CASE recent[r].status = ABSENT
      <4>1. /\ ex[r].status \in {"NEW", "PARTIALLY_FILLED"} \union FINAL
            /\ snap'[r] = [id |-> byOrder[r], status |-> ex[r].status, filled |-> ex[r].filled]
        BY <2>2, <2>3, <3>2 DEF ActiveOrders, NoSnap
      <4>2. ex[r].filled \in Nat /\ ex[r].status \notin {"NONE", "SENT"}
        BY <1>0, <4>1, Words DEF Order
      <4>. QED BY <4>1, <4>2 DEF GwInv, Tells
    <3>. QED BY <3>1, <3>2
  <2>4. ReportsInv'
    BY <2>1, <2>3 DEF ReportsInv, EventTells, Tells
  <2>5. RowsInv'
    BY <2>1 DEF RowsInv, RowTells
  <2>. QED BY <2>1, <2>4, <2>5, StillFrame, GwFrame
<1>3. CASE SyncLoad \/ SyncDone
  <2>1. UNCHANGED <<rows, reserved, pc, cur, reply, mirror, canc, wire, posted, ex, pendKey, recent,
                    queue, gwUp, stops, byOrder>>
    BY <1>3 DEF SyncLoad, SyncDone, scanVars, gwVars, bounds
  <2>2. snap' = snap \/ snap' = [r \in Requests |-> NoSnap]
    BY <1>3 DEF SyncLoad, SyncDone
  <2>3. ReportsInv'
    BY <2>1, <2>2 DEF ReportsInv, EventTells, Tells, NoSnap
  <2>4. \A i \in Ids : RowTells(i, copy'[i]) /\ copy'[i].status \in PENDING_STATES \union {ABSENT}
    BY <1>1, <1>3 DEF SyncLoad, SyncDone, RowsInv
  <2>5. RowsInv'
    BY <2>1, <2>4 DEF RowsInv, RowTells
  <2>. QED BY <2>1, <2>3, <2>5, StillFrame, GwFrame
<1>4. ASSUME NEW id \in Ids, SyncApply(id)
      PROVE  Core'
  <2>1. UNCHANGED <<pc, cur, reply, mirror, canc, wire, posted, ex, pendKey, recent, snap,
                    queue, gwUp, stops, byOrder>>
    BY <1>4 DEF SyncApply, scanVars, gwVars, bounds
  <2>2. /\ ActiveInv' /\ CashInv' /\ ScanInv'
        /\ \A i \in Ids : RowTells(i, rows[i])' /\ rows'[i].status # "ERROR_RECONCILIATION_REQUIRED"
                          /\ (rows[i].status # ABSENT => rows'[i].status # ABSENT)
    <3>1. CASE UNCHANGED <<rows, reserved>>
      <4>1. ActiveInv' /\ CashInv' /\ ScanInv'
        BY <2>1, <3>1, StillFrame
      <4>. QED BY <2>1, <3>1, <4>1 DEF RowsInv, RowTells
    <3>2. CASE ~UNCHANGED <<rows, reserved>>
      <4>1. PICK s \in Reported, f \in 0..Qty :
              /\ copy[id] \in Row /\ RowTells(id, copy[id]) /\ Tells(OrderOf(id), s, f)
              /\ Apply(id, copy[id], [status |-> s, filled |-> f, oid |-> OrderOf(id)])
        BY <1>4, <3>2, SyncReads
      <4>. QED BY ONLY FlowInv, <2>1, <4>1, ApplyKeeps
    <3>. QED BY <3>1, <3>2
  <2>3. \A i \in Ids : RowTells(i, copy'[i]) /\ copy'[i].status \in PENDING_STATES \union {ABSENT}
    BY <1>0, <1>1, <1>4 DEF SyncApply, RowsInv
  <2>4. RowsInv'
    <3>1. canc \subseteq Ids
      BY DEF TypeOK, ScanTypeOK
    <3>. QED BY <2>1, <2>2, <2>3, <3>1 DEF RowsInv, RowTells
  <2>. QED BY <2>1, <2>2, <2>4, ReportsFrame, GwFrame
<1>. QED BY <1>2, <1>3, <1>4 DEF Synchroniser

\* The delivery of a callback keeps the core of the invariant, however late it comes.
LEMMA DeliverStep ==
  ASSUME FlowInv, NEW e \in posted, DeliverCallback(e)
  PROVE  Core'
<1>. USE DEF FlowInv, Core
<1>1. /\ UNCHANGED <<pc, cur, reply, mirror, canc, copy, wire, ex, pendKey, recent, snap,
                     queue, gwUp, stops, byOrder>>
      /\ posted' \subseteq posted
  BY DEF DeliverCallback, scanVars, syncVars, gwVars, bounds
<1>2. /\ ActiveInv' /\ CashInv' /\ ScanInv'
      /\ \A i \in Ids : RowTells(i, rows[i])' /\ rows'[i].status # "ERROR_RECONCILIATION_REQUIRED"
                        /\ (rows[i].status # ABSENT => rows'[i].status # ABSENT)
  BY ONLY FlowInv, DeliverCallback(e), DeliverReads, ApplyKeeps
<1>3. RowsInv'
  BY <1>1, <1>2, RowsFrame
<1>4. ReportsInv'
  BY <1>1 DEF ReportsInv, EventTells, Tells
<1>. QED BY <1>1, <1>2, <1>3, <1>4, GwFrame

-----------------------------------------------------------------------------
(* The gateway and the faults.                                             *)

\* A refusal by the gateway keeps the core of the invariant.
LEMMA RejectStep ==
  ASSUME FlowInv, NEW r \in Requests, GwReject(r)
  PROVE  Core'
<1>. USE DEF FlowInv, Core
<1>0. wire \in [Requests -> {"none", "inflight", "done", "gone"}]
  BY Variables
<1>1. /\ UNCHANGED <<rows, reserved, copy, posted, ex, pendKey, recent, snap, mirror, canc, cur,
                     queue, gwUp, stops, byOrder>>
      /\ wire[r] = "inflight" /\ wire' = [wire EXCEPT ![r] = "done"]
      /\ (pc' = pc /\ reply' = reply) \/ (pc = "sending" /\ cur = r /\ pc' = "replied" /\ reply' = "REJECTED")
  BY DEF GwReject, Answer, scanVars, syncVars, gwVars, bounds
<1>2. \A q \in Requests : Active(q)' => Active(q)
  BY <1>0, <1>1 DEF Active, Preparing, Live
<1>3. ActiveInv' /\ CashInv'
  BY <1>1, <1>2 DEF ActiveInv, CashInv
<1>4. RowsInv' /\ ReportsInv'
  BY <1>1 DEF RowsInv, RowTells, ReportsInv, EventTells, Tells
<1>5. GwInv'
  BY <1>0, <1>1 DEF GwInv, Live
<1>6. ScanInv'
  <2>1. ex[r].status = "NONE" /\ pendKey[Key(r)] # r
    BY <1>1 DEF SendInv, ScanInv, GwInv
  <2>2. rows[r].status \notin FINAL
    BY <1>1, Words DEF ActiveInv, Active
  <2>3. pc \in {"sending", "replied", "marked"} => cur \in Requests
    BY DEF TypeOK, ScanTypeOK
  <2>. QED BY <1>0, <1>1, <2>1, <2>2, <2>3 DEF ScanInv
<1>. QED BY <1>3, <1>4, <1>5, <1>6

\* Sending an order to the exchange keeps the core of the invariant.
LEMMA SendStep ==
  ASSUME FlowInv, NEW r \in Requests, GwSend(r)
  PROVE  Core'
<1>. USE DEF FlowInv, Core
<1>0. /\ wire \in [Requests -> {"none", "inflight", "done", "gone"}] /\ ex \in [Requests -> Order]
      /\ pendKey \in [Keys -> Requests \union {NoReq}] /\ \A q \in Requests : Key(q) \in Keys /\ q # NoReq
  BY Variables, Owners
<1>1. /\ UNCHANGED <<rows, reserved, copy, posted, recent, snap, mirror, canc, cur,
                     queue, gwUp, stops, byOrder>>
      /\ gwUp /\ wire[r] = "inflight" /\ wire' = [wire EXCEPT ![r] = "done"]
      /\ pendKey[Key(r)] = NoReq /\ pendKey' = [pendKey EXCEPT ![Key(r)] = r]
      /\ (pc' = pc /\ reply' = reply)
         \/ (pc = "sending" /\ cur = r /\ pc' = "replied" /\ reply' \in {"SENT_PENDING", "SEND_UNKNOWN"})
      /\ ex' = ex \/ ex' = [ex EXCEPT ![r] = [sends |-> @.sends + 1, status |-> "SENT", filled |-> @.filled]]
  BY DEF GwSend, Answer, scanVars, syncVars, gwVars, bounds
<1>2. ex[r].status = "NONE" /\ ex[r].sends = 0
  BY <1>1 DEF SendInv, ScanInv
<1>3. /\ \A q \in Requests : q # r => ex'[q] = ex[q]
      /\ ex'[r].filled = ex[r].filled
      /\ (ex'[r].status = "NONE" /\ ex'[r].sends = 0) \/ (ex'[r].status = "SENT" /\ ex'[r].sends = 1)
  BY <1>0, <1>1, <1>2 DEF Order
<1>4. "SENT" \notin FINAL /\ "NONE" \notin FINAL
  BY Words
<1>5. Active(r) /\ \A q \in Requests : Active(q)' => Active(q)
  <2>1. Active(r)
    BY <1>1 DEF Active
  <2>2. \A q \in Requests : Preparing(q)' => Preparing(q)
    BY <1>1 DEF Preparing
  <2>3. \A q \in Requests : q # r => wire'[q] = wire[q] /\ ex'[q] = ex[q]
                                     /\ (pendKey'[Key(q)] = q => pendKey[Key(q)] = q)
    BY <1>0, <1>1, <1>3
  <2>. QED BY <2>1, <2>2, <2>3 DEF Active, Live
<1>6. ActiveInv'
  BY <1>1, <1>5 DEF ActiveInv
<1>7. CashInv'
  BY <1>1, <1>3, <1>5 DEF CashInv
<1>8. \A q \in Requests : \A st, n : Tells(q, st, n) => Tells(q, st, n)'
  BY <1>2, <1>3, <1>4 DEF Tells
<1>9. RowsInv'
  <2>1. \A i \in Ids : OrderOf(i) \in Requests /\ ex'[OrderOf(i)].filled = ex[OrderOf(i)].filled
                       /\ (ex[OrderOf(i)].status # "NONE" => ex'[OrderOf(i)].status # "NONE")
    BY <1>2, <1>3, Owners
  <2>2. canc \subseteq Ids
    BY DEF TypeOK, ScanTypeOK
  <2>. QED BY <1>1, <2>1, <2>2 DEF RowsInv, RowTells
<1>10. ReportsInv'
  <2>1. \A e \in posted : e.oid \in Requests
    BY DEF TypeOK, NetTypeOK, Event
  <2>2. \A n \in DOMAIN queue : queue[n].oid \in Requests
    <3>1. queue \in Seq(Event)
      BY DEF TypeOK, GwTypeOK
    <3>2. \A n \in DOMAIN queue : queue[n] \in Event
      BY <3>1
    <3>. QED BY <3>2 DEF Event
  <2>3. (\A e \in posted : EventTells(e)') /\ \A n \in DOMAIN queue : EventTells(queue[n])'
    <3>1. \A e \in posted : EventTells(e)'
      BY <1>8, <2>1 DEF ReportsInv, EventTells
    <3>2. ASSUME NEW n \in DOMAIN queue PROVE EventTells(queue[n])'
      <4>1. Tells(queue[n].oid, queue[n].status, queue[n].filled)
        BY DEF ReportsInv, EventTells
      <4>. QED BY <1>1, <1>2, <1>3, <1>4, <2>2, <4>1 DEF ReportsInv, EventTells, Tells
    <3>. QED BY <3>1, <3>2
  <2>4. \A q \in Requests :
          /\ snap[q].status # ABSENT => Tells(q, snap[q].status, snap[q].filled)'
          /\ recent[q].status # ABSENT => Tells(q, recent[q].status, recent[q].filled)'
    BY <1>1, <1>2, <1>3, <1>4 DEF ReportsInv, Tells
  <2>. QED BY <1>1, <2>3, <2>4 DEF ReportsInv
<1>11. GwInv'
  <2>1. \A q \in Requests : q # r => pendKey'[Key(q)] = pendKey[Key(q)] \/ (Key(q) = Key(r) /\ pendKey'[Key(q)] = r)
    BY <1>0, <1>1
  <2>2. byOrder[r] = NoReq
    BY <1>2 DEF GwInv
  <2>3. pendKey'[Key(r)] = r /\ wire'[r] = "done" /\ \A q \in Requests : wire[q] = "done" => wire'[q] = "done"
    BY <1>0, <1>1
  <2>4. \A k \in Keys : pendKey'[k] # NoReq => Key(pendKey'[k]) = k
    BY <1>0, <1>1 DEF GwInv
  <2>5. ASSUME NEW q \in Requests, q # r
        PROVE  /\ pendKey'[Key(q)] = q => wire'[q] = "done" /\ ex'[q].status \notin FINAL /\ byOrder[q] # Ghost(q)
               /\ stops = 0 /\ Live(q)' => byOrder[q] = q \/ pendKey'[Key(q)] = q
    <3>1. pendKey'[Key(q)] = q => pendKey[Key(q)] = q
      BY <2>1, <2>5
    <3>2. pendKey[Key(q)] = q => pendKey'[Key(q)] = q
      BY <1>0, <1>1, <2>1, <2>5
    <3>. QED BY <1>1, <1>3, <2>3, <2>5, <3>1, <3>2 DEF GwInv, Live
  <2>6. Ghost(r) # NoReq
    BY Owners
  <2>. QED BY <1>1, <1>3, <1>4, <2>2, <2>3, <2>4, <2>5, <2>6 DEF GwInv
<1>12. ScanInv'
  <2>1. rows[r].status \notin FINAL
    BY <1>5, Words DEF ActiveInv
  <2>2. pc \in {"sending", "replied", "marked"} => cur \in Requests
    BY DEF TypeOK, ScanTypeOK
  <2>3. pc \in {"replied", "marked"} /\ reply = "REJECTED" => cur # r /\ pendKey'[Key(cur)] # cur
    BY <1>0, <1>1, <2>2 DEF ScanInv
  <2>. QED BY <1>0, <1>1, <1>3, <2>1, <2>2, <2>3 DEF ScanInv
<1>. QED BY <1>6, <1>7, <1>9, <1>10, <1>11, <1>12

\* A report of the gateway to the server keeps the core of the invariant.
LEMMA ReportStep ==
  ASSUME FlowInv, ReportNext
  PROVE  Core'
<1>. USE DEF FlowInv, Core
<1>1. /\ UNCHANGED <<rows, reserved, pc, cur, reply, mirror, canc, copy, wire, ex, pendKey, recent, snap,
                     gwUp, stops, byOrder>>
      /\ queue # <<>> /\ posted' = posted \union {Head(queue)} /\ queue' = Tail(queue)
  BY DEF ReportNext, scanVars, syncVars, bounds
<1>2. queue \in Seq(Event)
  BY DEF TypeOK, GwTypeOK
<1>3. EventTells(Head(queue)) /\ \A n \in DOMAIN queue' : EventTells(queue'[n])
  <2>1. 1 \in DOMAIN queue /\ Head(queue) = queue[1]
    BY <1>1, <1>2
  <2>2. \A n \in DOMAIN queue' : n + 1 \in DOMAIN queue /\ queue'[n] = queue[n + 1]
    BY <1>1, <1>2
  <2>. QED BY <2>1, <2>2 DEF ReportsInv
<1>4. ReportsInv'
  <2>1. \A e : EventTells(e)' <=> EventTells(e)
    BY <1>1 DEF EventTells, Tells
  <2>2. \A e \in posted' : EventTells(e)'
    BY <1>1, <1>3, <2>1 DEF ReportsInv
  <2>3. \A n \in DOMAIN queue' : EventTells(queue[n])'
    BY <1>1, <1>3 DEF EventTells, Tells
  <2>. QED BY <1>1, <2>2, <2>3 DEF ReportsInv, Tells
<1>5. RowsInv'
  BY <1>1 DEF RowsInv, RowTells
<1>. QED BY <1>1, <1>4, <1>5, StillFrame, GwFrame

\* Crashes, restarts and lost callbacks keep the core of the invariant.
LEMMA FaultsStep ==
  ASSUME FlowInv, Faults
  PROVE  Core'
<1>. USE DEF FlowInv, Core
<1>0. /\ ex \in [Requests -> Order] /\ \A i \in Ids : OrderOf(i) \in Requests
      /\ wire \in [Requests -> {"none", "inflight", "done", "gone"}]
      /\ NoReq \notin Requests
  BY Variables, Owners
<1>1. UNCHANGED <<rows, reserved, ex>>
  BY DEF Faults, LoseCallback, ServerCrash, TickRaises, GatewayStop, GatewayStart
<1>2. \A i \in Ids : RowTells(i, AbsentRow)' /\ AbsentRow.status = ABSENT
  BY <1>0, <1>1 DEF RowTells, AbsentRow, Order
<1>3. ASSUME NEW e \in posted, LoseCallback(e)
      PROVE  Core'
  <2>1. /\ UNCHANGED <<pc, cur, reply, mirror, canc, copy, wire, pendKey, recent, snap, queue, gwUp, stops, byOrder>>
        /\ posted' \subseteq posted
    BY <1>3 DEF LoseCallback, scanVars, syncVars, gwVars
  <2>2. RowsInv' /\ ReportsInv'
    BY <1>1, <2>1 DEF RowsInv, RowTells, ReportsInv, EventTells, Tells
  <2>. QED BY <1>1, <2>1, <2>2, StillFrame, GwFrame
<1>4. CASE ServerCrash \/ TickRaises
  <2>1. /\ UNCHANGED <<wire, pendKey, recent, queue, gwUp, stops, byOrder>>
        /\ pc' = "idle" /\ cur' = NoReq /\ canc' = {} /\ mirror' = NoMirror
        /\ (snap' = snap /\ copy' = copy)
           \/ (snap' = [r \in Requests |-> NoSnap] /\ copy' = [id \in Ids |-> AbsentRow])
        /\ posted' \subseteq posted
    BY <1>4 DEF ServerCrash, TickRaises, syncVars, gwVars
  <2>2. \A r \in Requests : Active(r)' => Active(r)
    BY <1>1, <2>1 DEF Active, Preparing, Live
  <2>3. ActiveInv' /\ CashInv' /\ ScanInv'
    BY <1>0, <1>1, <2>1, <2>2 DEF ActiveInv, CashInv, ScanInv
  <2>4. RowsInv'
    <3>1. \A i \in Ids : RowTells(i, copy[i])' /\ copy'[i].status \in PENDING_STATES \union {ABSENT}
      BY <1>1, <1>2, <2>1 DEF RowsInv, RowTells
    <3>2. \A i \in Ids : RowTells(i, mirror[i])' /\ mirror'[i].status = ABSENT
      BY <1>2, <2>1 DEF NoMirror, RowTells
    <3>. QED BY <1>1, <2>1, <3>1, <3>2 DEF RowsInv, RowTells
  <2>5. ReportsInv'
    BY <1>1, <2>1 DEF ReportsInv, EventTells, Tells, NoSnap
  <2>. QED BY <1>1, <2>1, <2>3, <2>4, <2>5, GwFrame
<1>5. CASE GatewayStop
  <2>1. /\ UNCHANGED <<pc, cur, reply, mirror, canc, copy, snap, posted>>
        /\ stops' = stops + 1 /\ ~gwUp' /\ queue' = <<>>
        /\ pendKey' = [k \in Keys |-> NoReq] /\ byOrder' = [r \in Requests |-> NoReq]
        /\ recent' = [r \in Requests |-> NoSnap]
        /\ wire' = [r \in Requests |-> IF wire[r] = "inflight" THEN "gone" ELSE wire[r]]
    BY <1>5 DEF GatewayStop, scanVars, syncVars
  <2>2. stops \in Nat /\ \A r \in Requests : Key(r) \in Keys
    BY ConstantsAssumption, Owners DEF TypeOK, NetTypeOK
  <2>3. \A r \in Requests : Active(r)' => Active(r)
    BY <1>0, <1>1, <2>1, <2>2 DEF Active, Preparing, Live
  <2>4. ActiveInv' /\ CashInv'
    BY <1>1, <2>1, <2>3 DEF ActiveInv, CashInv
  <2>5. ScanInv'
    <3>1. pc \in {"sending", "replied", "marked"} => cur \in Requests
      BY DEF TypeOK, ScanTypeOK
    <3>. QED BY <1>0, <1>1, <2>1, <2>2, <3>1 DEF ScanInv
  <2>6. RowsInv' /\ ReportsInv'
    BY <1>1, <2>1 DEF RowsInv, RowTells, ReportsInv, EventTells, Tells, NoSnap
  <2>7. GwInv'
    BY <1>0, <1>1, <2>1, <2>2 DEF GwInv
  <2>. QED BY <2>4, <2>5, <2>6, <2>7
<1>6. CASE GatewayStart
  <2>1. /\ UNCHANGED <<pc, cur, reply, mirror, canc, copy, snap, posted, stops, queue, pendKey, byOrder, recent, wire>>
        /\ gwUp'
    BY <1>6 DEF GatewayStart, scanVars, syncVars, bounds
  <2>2. GwInv'
    BY <1>1, <2>1 DEF GwInv, Live
  <2>3. RowsInv'
    BY <1>1, <2>1 DEF RowsInv, RowTells
  <2>. QED BY <1>1, <2>1, <2>2, <2>3, StillFrame, ReportsFrame
<1>. QED BY <1>3, <1>4, <1>5, <1>6 DEF Faults

-----------------------------------------------------------------------------
(* The exchange.                                                           *)

\* An update is placed at its own order, or at nobody's; at nobody's only after a
\* restart, and not while the order holds its key.
LEMMA ResolveOwn ==
  ASSUME FlowInv, NEW r \in Requests, Live(r)
  PROVE  /\ Resolve(r) \in {r, Ghost(r)}
         /\ pendKey[Key(r)] = r \/ byOrder[r] = r \/ stops = 0 => Resolve(r) = r
<1>. USE DEF FlowInv, Core
<1> DEFINE bySide   == pendKey[Key(r)]
           bySymbol == {q \in Requests : /\ \E k \in Keys : pendKey[k] = q
                                         /\ SymOf[q] = SymOf[r] /\ ShapeOf[q] = ShapeOf[r]}
<1>0. /\ pendKey \in [Keys -> Requests \union {NoReq}] /\ Key(r) \in Keys /\ r # NoReq
      /\ \A q \in Requests : q # NoReq /\ OrderOf(q) = q
  BY Variables, Owners
<1>1. byOrder[r] \in {NoReq, r, Ghost(r)} /\ (bySide = r => byOrder[r] # Ghost(r))
  BY DEF GwInv
<1>2. CASE byOrder[r] # NoReq
  <2>1. Resolve(r) = byOrder[r]
    BY <1>2 DEF Resolve
  <2>2. stops = 0 => byOrder[r] = r \/ bySide = r
    BY DEF GwInv
  <2>. QED BY <1>1, <1>2, <2>1, <2>2
<1>3. CASE byOrder[r] = NoReq /\ bySide # NoReq
  <2>1. bySide \in Requests /\ Key(bySide) = Key(r)
    BY <1>0, <1>3 DEF GwInv
  <2>2. Active(r) /\ Active(bySide)
    BY <2>1 DEF Active
  <2>3. bySide = r
    BY <2>1, <2>2 DEF ActiveInv
  <2>4. Resolve(r) = IF ShapeOf[bySide] = ShapeOf[r] THEN bySide ELSE Ghost(r)
    BY <1>3 DEF Resolve
  <2>. QED BY <2>3, <2>4
<1>4. CASE byOrder[r] = NoReq /\ bySide = NoReq
  <2>1. stops # 0
    BY <1>0, <1>4 DEF GwInv
  <2>2. \A q, p \in Requests : SymOf[q] = SymOf[p] /\ ShapeOf[q] = ShapeOf[p] => SideOf[q] = SideOf[p]
    <3>1. MaxStops # 0
      BY <2>1 DEF TypeOK, NetTypeOK
    <3>. QED BY <3>1 DEF Unambiguous
  <2>3. ASSUME NEW q \in bySymbol
        PROVE  FALSE
    <3>1. PICK k \in Keys : pendKey[k] = q
      OBVIOUS
    <3>2. Key(q) = k /\ Key(q) = Key(r)
      BY <1>0, <2>2, <3>1 DEF GwInv, Key, Side
    <3>. QED BY <1>0, <1>4, <3>1, <3>2
  <2>4. Resolve(r) = IF \E q \in Requests : bySymbol = {q}
                     THEN CHOOSE q \in Requests : bySymbol = {q} ELSE Ghost(r)
    BY <1>4 DEF Resolve
  <2>5. Resolve(r) = Ghost(r)
    BY <2>3, <2>4
  <2>. QED BY <1>0, <1>4, <2>1, <2>5
<1>. QED BY <1>2, <1>3, <1>4

\* An update at the exchange keeps the core of the invariant.
LEMMA ExchangeStep ==
  ASSUME FlowInv, NEW r \in Requests, ExchangeUpdate(r)
  PROVE  Core'
<1>. USE DEF FlowInv, Core
<1>0. /\ ex \in [Requests -> Order] /\ pendKey \in [Keys -> Requests \union {NoReq}]
      /\ byOrder \in [Requests -> Ids \union {NoReq}]
      /\ recent \in [Requests -> Snap] /\ queue \in Seq(Event)
      /\ \A q \in Requests : /\ Key(q) \in Keys /\ q # NoReq /\ Ghost(q) # NoReq
                             /\ OrderOf(q) = q /\ OrderOf(Ghost(q)) = q
      /\ \A q, p \in Requests : Ghost(q) # p
      /\ \A i \in Ids : OrderOf(i) \in Requests
  BY Variables, Owners DEF TypeOK, GwTypeOK
<1>1. PICK n \in Successors(ex[r]) :
        /\ Forward(ex[r], n)
        /\ ex' = [ex EXCEPT ![r] = [sends |-> @.sends, status |-> n.status, filled |-> n.filled]]
        /\ IF gwUp THEN OnOrderUpdate(r, n.status, n.filled) ELSE UNCHANGED gwVars
  BY DEF ExchangeUpdate
<1>2. UNCHANGED <<rows, reserved, pc, cur, reply, mirror, canc, copy, snap, wire, posted, stops>>
  BY DEF ExchangeUpdate, scanVars, syncVars, bounds
<1>3. /\ Live(r) /\ ex[r].status # "NONE" /\ ex[r].status \notin FINAL
      /\ n.status \in Reported /\ n.status \notin {"NONE", "SENT", ABSENT}
      /\ n.filled \in Nat /\ ex[r].filled \in Nat /\ ex[r].filled <= n.filled
  <2>1. ex[r].filled \in 0..Qty /\ Qty \in Nat /\ ExFinals \subseteq FINAL
    BY <1>0, ConstantsAssumption DEF Order
  <2>. QED BY <1>1, <2>1, Words DEF Forward, Live, Successors, Reported, FINAL, ABSENT
<1>4. /\ ex'[r].status = n.status /\ ex'[r].filled = n.filled /\ ex'[r].sends = ex[r].sends
      /\ \A q \in Requests : q # r => ex'[q] = ex[q]
  BY <1>0, <1>1
<1>5. \A q \in Requests :
        /\ ex'[q].filled \in Nat /\ ex[q].filled \in Nat /\ ex[q].filled <= ex'[q].filled
        /\ ex'[q].sends = ex[q].sends
        /\ (ex[q].status = "NONE") <=> (ex'[q].status = "NONE")
        /\ ex[q].status \notin {"NONE", "SENT"} => ex'[q].status \notin {"NONE", "SENT"}
        /\ ex[q].status \in FINAL => ex'[q].status \in FINAL
  <2>1. \A q \in Requests : ex[q].filled \in Nat
    BY <1>0, ConstantsAssumption DEF Order
  <2>. QED BY <1>3, <1>4, <2>1
<1>6. \A q \in Requests : Live(q)' => Live(q)
  BY <1>5 DEF Live
<1>7. /\ \A k \in Keys : pendKey'[k] # NoReq => pendKey'[k] = pendKey[k]
      /\ gwUp' = gwUp
  BY <1>0, <1>1 DEF OnOrderUpdate, gwVars
<1>8. \A q \in Requests : Active(q)' => Active(q)
  BY <1>0, <1>2, <1>6, <1>7 DEF Active, Preparing
<1>9. ActiveInv'
  BY <1>2, <1>8 DEF ActiveInv
<1>10. CashInv'
  <2>1. ASSUME NEW q \in Requests, Side(q) = "BUY", Active(q)'
        PROVE  (reserved[q] + ex[q].filled >= Qty)'
    <3>1. reserved[q] + ex[q].filled >= Qty
      BY <1>8, <2>1 DEF CashInv
    <3>2. reserved[q] \in Nat /\ Qty \in Nat
      BY Variables, Owners
    <3>. QED BY <1>2, <1>5, <3>1, <3>2
  <2>. QED BY <2>1 DEF CashInv
<1>11. RowsInv'
  <2>1. ASSUME NEW row \in Row, NEW i \in Ids, RowTells(i, row)
        PROVE  RowTells(i, row)'
    <3>1. row.filled \in Nat /\ OrderOf(i) \in Requests
      BY <1>0, ConstantsAssumption DEF Row
    <3>. QED BY <1>5, <2>1, <3>1 DEF RowTells
  <2>2. \A i \in Ids : rows[i] \in Row /\ copy[i] \in Row /\ mirror[i] \in Row
    BY Variables
  <2>3. \A i \in Ids : RowTells(i, rows[i])' /\ RowTells(i, copy[i])' /\ RowTells(i, mirror[i])'
    BY <1>2, <2>1, <2>2 DEF RowsInv
  <2>4. \A i \in canc : ex'[OrderOf(i)].status # "NONE"
    BY <1>0, <1>5 DEF RowsInv, TypeOK, ScanTypeOK
  <2>. QED BY <1>2, <2>3, <2>4 DEF RowsInv
<1>12. ScanInv'
  <2>1. pc \in {"sending", "replied", "marked"} => cur \in Requests
    BY DEF TypeOK, ScanTypeOK
  <2>. QED BY <1>0, <1>2, <1>5, <1>7, <2>1 DEF ScanInv
<1>13. ASSUME NEW q \in Requests, NEW s, NEW f \in Nat, Tells(q, s, f)
       PROVE  Tells(q, s, f)'
  BY <1>5, <1>13 DEF Tells
<1>14. ASSUME NEW e \in Event, EventTells(e)
       PROVE  EventTells(e)'
  <2>1. e.oid \in Requests /\ e.filled \in Nat
    BY ConstantsAssumption DEF Event
  <2>. QED BY <1>13, <1>14, <2>1 DEF EventTells
<1>15. ASSUME NEW q \in Requests, NEW sn \in Snap, Tells(q, sn.status, sn.filled)
       PROVE  Tells(q, sn.status, sn.filled)'
  <2>1. sn.filled \in Nat
    BY ConstantsAssumption DEF Snap
  <2>. QED BY <1>13, <1>15, <2>1
<1>16. /\ posted \subseteq Event /\ snap \in [Requests -> Snap]
       /\ \A m \in DOMAIN queue : queue[m] \in Event
  BY <1>0 DEF TypeOK, NetTypeOK, SyncTypeOK
<1>17. CASE ~gwUp
  <2>1. UNCHANGED <<pendKey, byOrder, recent, queue>> /\ stops > 0 /\ \A k \in Keys : pendKey[k] = NoReq
    BY <1>1, <1>17 DEF gwVars, GwInv
  <2>2. GwInv'
    <3>1. stops # 0
      BY <2>1 DEF TypeOK, NetTypeOK
    <3>. QED BY <1>0, <1>2, <1>5, <1>7, <1>17, <2>1, <3>1 DEF GwInv
  <2>3. ReportsInv'
    <3>1. (\A e \in posted : EventTells(e)') /\ \A e \in posted' : EventTells(e)'
      BY <1>2, <1>14, <1>16 DEF ReportsInv
    <3>2. \A m \in DOMAIN queue' : EventTells(queue[m])'
      BY <2>1, <1>14, <1>16 DEF ReportsInv
    <3>3. \A q \in Requests :
            /\ snap[q].status # ABSENT => Tells(q, snap[q].status, snap[q].filled)'
            /\ recent[q].status # ABSENT => Tells(q, recent[q].status, recent[q].filled)'
      BY <1>0, <1>2, <1>15, <1>16, <2>1 DEF ReportsInv
    <3>. QED BY <1>2, <2>1, <3>1, <3>2, <3>3 DEF ReportsInv
  <2>. QED BY <1>9, <1>10, <1>11, <1>12, <2>2, <2>3
<1>18. CASE gwUp
  <2>0. PICK id \in Ids : id = Resolve(r)
    BY <1>0, <1>3, ResolveOwn, Owners
  <2> DEFINE e == [id |-> id, status |-> n.status, filled |-> n.filled, oid |-> r]
  <2>1. /\ recent' = [recent EXCEPT ![r] = [id |-> id, status |-> n.status, filled |-> n.filled]]
        /\ queue' = queue \/ queue' = Append(queue, e)
        /\ byOrder' = [byOrder EXCEPT ![r] = IF n.status \in FINAL THEN NoReq ELSE id]
        /\ pendKey' = [k \in Keys |-> IF n.status \in FINAL /\ pendKey[k] = id THEN NoReq ELSE pendKey[k]]
    BY <1>1, <1>18, <2>0 DEF OnOrderUpdate
  <2>2. id \in {r, Ghost(r)} /\ (pendKey[Key(r)] = r \/ byOrder[r] = r \/ stops = 0 => id = r)
    BY <1>3, <2>0, ResolveOwn
  <2>3. Tells(r, n.status, n.filled)'
    BY <1>0, <1>3, <1>4 DEF Tells, Order
  <2>4. GwInv'
    <3>1. \A q \in Requests :
            /\ byOrder'[q] \in {NoReq, q, Ghost(q)}
            /\ byOrder'[q] # NoReq => ex'[q].status # "NONE"
      BY <1>0, <1>3, <1>4, <2>1, <2>2 DEF GwInv
    <3>2. \A k \in Keys : pendKey'[k] # NoReq => Key(pendKey'[k]) = k
      BY <1>7 DEF GwInv
    <3>3. ASSUME NEW q \in Requests, pendKey'[Key(q)] = q
          PROVE  wire[q] = "done" /\ ex'[q].status \notin FINAL /\ byOrder'[q] # Ghost(q)
      <4>1. pendKey[Key(q)] = q
        BY <1>0, <1>7, <3>3
      <4>2. CASE q # r
        BY <1>0, <1>4, <2>1, <4>1, <4>2 DEF GwInv
      <4>3. CASE q = r
        <5>1. id = r
          BY <2>2, <4>1, <4>3
        <5>2. n.status \notin FINAL
          BY <1>0, <2>1, <3>3, <4>1, <4>3, <5>1
        <5>. QED BY <1>0, <1>4, <2>1, <4>1, <4>3, <5>1, <5>2 DEF GwInv
      <4>. QED BY <4>2, <4>3
    <3>4. ASSUME NEW q \in Requests, stops = 0, Live(q)'
          PROVE  byOrder'[q] = q \/ pendKey'[Key(q)] = q
      <4>1. CASE q = r
        <5>1. id = r /\ n.status \notin FINAL
          BY <1>4, <2>2, <3>4, <4>1 DEF Live
        <5>. QED BY <1>0, <2>1, <4>1, <5>1
      <4>2. CASE q # r
        <5>1. byOrder[q] = q \/ pendKey[Key(q)] = q
          BY <1>6, <3>4 DEF GwInv
        <5>2. id # q
          BY <1>0, <2>2, <4>2
        <5>. QED BY <1>0, <2>1, <4>2, <5>1, <5>2
      <4>. QED BY <4>1, <4>2
    <3>. QED BY <1>2, <1>7, <1>18, <3>1, <3>2, <3>3, <3>4 DEF GwInv
  <2>5. ReportsInv'
    <3>1. \A x \in posted' : EventTells(x)'
      BY <1>2, <1>14, <1>16 DEF ReportsInv
    <3>2. \A m \in DOMAIN queue' : EventTells(queue[m])'
      <4>1. EventTells(e)'
        <5>1. OrderOf(id) = r
          BY <1>0, <2>2
        <5>. QED BY <2>3, <5>1 DEF EventTells
      <4>2. \A m \in DOMAIN queue : EventTells(queue[m])
        BY DEF ReportsInv
      <4>3. ASSUME NEW m \in DOMAIN queue'
            PROVE  queue'[m] = e \/ (m \in DOMAIN queue /\ queue'[m] = queue[m])
        <5>1. CASE queue' = queue
          BY <5>1
        <5>2. CASE queue' = Append(queue, e)
          <6>. HIDE DEF e
          <6>1. Len(queue) \in Nat /\ DOMAIN queue = 1..Len(queue)
            BY <1>0
          <6>2. /\ DOMAIN queue' = 1..(Len(queue) + 1) /\ queue'[Len(queue) + 1] = e
                /\ \A j \in 1..Len(queue) : queue'[j] = queue[j]
            BY <1>0, <5>2
          <6>. QED BY <6>1, <6>2
        <5>. QED BY <2>1, <5>1, <5>2
      <4>. QED BY <1>14, <1>16, <4>1, <4>2, <4>3
    <3>3. \A q \in Requests :
            snap'[q].status # ABSENT =>
              snap'[q].id \in {q, Ghost(q), NoReq} /\ Tells(q, snap[q].status, snap[q].filled)'
      BY <1>0, <1>2, <1>15, <1>16 DEF ReportsInv
    <3>4. \A q \in Requests :
            recent'[q].status # ABSENT =>
              recent'[q].id \in {q, Ghost(q)} /\ Tells(q, recent[q].status, recent[q].filled)'
      <4>1. recent'[r] = [id |-> id, status |-> n.status, filled |-> n.filled]
        BY <1>0, <2>1
      <4>2. Tells(r, recent[r].status, recent[r].filled)' /\ recent'[r].id \in {r, Ghost(r)}
        BY <2>2, <2>3, <4>1
      <4>3. \A q \in Requests : q # r => recent'[q] = recent[q]
        BY <1>0, <2>1
      <4>. QED BY <1>0, <1>15, <4>2, <4>3 DEF ReportsInv
    <3>. QED BY <3>1, <3>2, <3>3, <3>4 DEF ReportsInv
  <2>. QED BY <1>9, <1>10, <1>11, <1>12, <2>4, <2>5
<1>. QED BY <1>17, <1>18

-----------------------------------------------------------------------------
(* The safety theorems.                                                    *)

\* The invariant holds at the start.
LEMMA FlowInvInit == Unambiguous /\ Init => FlowInv
<1>. SUFFICES ASSUME Unambiguous, Init PROVE FlowInv
  OBVIOUS
<1>1. TypeOK
  BY InitType
<1>2. SendInv
  BY DEF Init, SendInv, Preparing
<1>3. /\ \A r \in Requests : /\ ex[r] = [sends |-> 0, status |-> "NONE", filled |-> 0]
                             /\ wire[r] = "none" /\ pendKey[Key(r)] = NoReq /\ byOrder[r] = NoReq
                             /\ recent[r] = NoSnap /\ snap[r] = NoSnap
      /\ \A i \in Ids : rows[i] = AbsentRow /\ copy[i] = AbsentRow /\ mirror[i] = AbsentRow
      /\ \A r \in Requests : r # NoReq /\ Key(r) \in Keys
      /\ \A i \in Ids : OrderOf(i) \in Requests
      /\ gwUp /\ pc = "idle" /\ cur = NoReq /\ canc = {} /\ posted = {} /\ DOMAIN queue = {}
  BY Owners DEF Init
<1>4. \A r \in Requests : ~Active(r)
  BY <1>3 DEF Active, Preparing, Live
<1>5. ActiveInv /\ CashInv
  BY <1>4 DEF ActiveInv, CashInv
<1>6. RowsInv /\ ReportsInv
  BY <1>3 DEF RowsInv, RowTells, ReportsInv, AbsentRow, NoSnap, ABSENT
<1>7. GwInv
  <2>1. \A k \in Keys : pendKey[k] = NoReq
    BY DEF Init
  <2>. QED BY <1>3, <1>4, <2>1 DEF GwInv, Active
<1>8. ScanInv
  <2>1. \A r \in Requests : rows[r].status \notin FINAL
    BY <1>3, Owners DEF AbsentRow, FINAL, ABSENT
  <2>. QED BY <1>3, <2>1 DEF ScanInv
<1>. QED BY <1>1, <1>2, <1>5, <1>6, <1>7, <1>8 DEF FlowInv, Core

\* Every step keeps the invariant.
LEMMA FlowInvStep == FlowInv /\ [Next]_vars => FlowInv'
<1>. SUFFICES ASSUME FlowInv, [Next]_vars PROVE FlowInv'
  OBVIOUS
<1>1. Unambiguous' /\ TypeOK /\ SendInv /\ Core
  BY DEF FlowInv, Unambiguous
<1>2. TypeOK'
  <2>1. CASE UNCHANGED vars
    BY <1>1, <2>1 DEF vars, TypeOK, LedgerTypeOK, ScanTypeOK, SyncTypeOK, GwTypeOK, NetTypeOK,
                      scanVars, syncVars, gwVars, bounds
  <2>. QED BY <1>1, <2>1, ScannerType, SynchroniserType, GatewayType, FaultsType, DeliverType,
              ExchangeType DEF Next
<1>3. SendInv'
  BY <1>1, <1>2, SendInvStep
<1>4. Core'
  <2>1. CASE UNCHANGED vars
    <3>1. UNCHANGED <<rows, reserved, pc, cur, reply, mirror, canc, copy, snap, gwUp, pendKey, byOrder,
                      recent, queue, wire, posted, ex, stops>>
      BY <2>1 DEF vars, scanVars, syncVars, gwVars, bounds
    <3>2. RowsInv' /\ GwInv'
      BY <1>1, <3>1 DEF Core, RowsInv, RowTells, GwInv, Live
    <3>. QED BY <1>1, <3>1, <3>2, StillFrame, ReportsFrame DEF Core
  <2>2. CASE Scanner
    BY <2>2, ReserveStep, WriteStep, QuietStep, TimeoutStep DEF Scanner
  <2>3. CASE Gateway
    BY <2>3, RejectStep, SendStep, ReportStep DEF Gateway
  <2>. QED BY <2>1, <2>2, <2>3, SyncStep, FaultsStep, DeliverStep, ExchangeStep DEF Next
<1>. QED BY <1>1, <1>2, <1>3, <1>4 DEF FlowInv

\* The invariant holds in every reachable state.
LEMMA FlowInvAlways == Unambiguous /\ Spec => []FlowInv
<1>1. Unambiguous /\ Init => FlowInv
  BY FlowInvInit
<1>2. FlowInv /\ [Next]_vars => FlowInv'
  BY FlowInvStep
<1>. QED BY <1>1, <1>2, PTL DEF Spec

\* A row the ledger closed is of an order that is not working and will not be:
\* what apply_callback and mark_send_result write is never ahead of the exchange.
THEOREM ClosedIsOver == Unambiguous /\ Spec => []FinalIsTrue
<1>1. FlowInv => FinalIsTrue
  BY Words DEF FlowInv, Core, FinalIsTrue, ActiveInv, Active
<1>. QED BY <1>1, FlowInvAlways, PTL

\* The pending checks of reserve_order and of HandleOrderAsync keep at most one
\* order of a symbol and side working.
THEOREM OneOrderPerKey == Unambiguous /\ Spec => []OneLivePerKey
<1>1. FlowInv => OneLivePerKey
  BY DEF FlowInv, Core, OneLivePerKey, ActiveInv, Active
<1>. QED BY <1>1, FlowInvAlways, PTL

\* The ledger books no lots the exchange did not execute.
THEOREM FillsNotAhead == Unambiguous /\ Spec => []FilledNeverAhead
<1>1. FlowInv => FilledNeverAhead
  BY Owners DEF FlowInv, Core, FilledNeverAhead, RowsInv, RowTells
<1>. QED BY <1>1, FlowInvAlways, PTL

\* A BUY that may still execute has cash held for every lot of it, whichever
\* mirror of its row wrote the reservation last.
THEOREM ExposureCovered == Unambiguous /\ Spec => []CashCoversExposure
<1>1. FlowInv => CashCoversExposure
  BY DEF FlowInv, Core, CashCoversExposure, CashInv, Active
<1>. QED BY <1>1, FlowInvAlways, PTL

-----------------------------------------------------------------------------
(* The refinement: every commit, send and update is a step of the book.    *)

\* What neither opens nor closes a row, and places nothing, the book does not see.
LEMMA BookUnmoved ==
  ASSUME ex' = ex, \A r \in Requests : Belief(rows'[r].status) = Belief(rows[r].status)
  PROVE  UNCHANGED Book!bookVars
BY DEF Book!bookVars

\* Rows whose orders are over, or were refused unplaced, move between open and
\* closed: one of them either way, or several that are over are opened again.
LEMMA BookRewrites ==
  ASSUME FlowInv, FlowInv', NEW x \in Requests, ex' = ex,
         \A r \in Requests : r # x => rows'[r] = rows[r],
         rows[x].status # ABSENT, rows'[x].status # ABSENT,
         rows[x].status \in FINAL /\ ex[x].status = "NONE" => rows'[x].status \in FINAL
  PROVE  [Book!Next]_Book!bookVars
<1>1. CASE Belief(rows'[x].status) = Belief(rows[x].status)
  BY <1>1, BookUnmoved
<1>2. CASE rows[x].status \notin FINAL /\ rows'[x].status \in FINAL
  <2>1. ~Live(x)
    BY <1>2, Words DEF FlowInv, Core, ActiveInv, Active, Live
  <2>2. Book!Close(x)
    BY <1>2, <2>1 DEF Book!Close, Belief, Phase, Live
  <2>. QED BY <2>2 DEF Book!Next
<1>3. CASE rows[x].status \in FINAL /\ rows'[x].status \notin FINAL
  <2>1. ~Live(x)
    BY <1>3, Words DEF FlowInv, Core, ActiveInv, Active
  <2>2. ex[x].status \in FINAL
    BY <1>3, <2>1 DEF Live
  <2>3. Book!Reopen
    <3>1. {x} \in SUBSET {r \in Requests : Belief(rows[r].status) = "closed" /\ Phase(ex[r].status) = "done"}
      BY <1>3, <2>2, Words DEF Belief, Phase
    <3>2. [r \in Requests |-> Belief(rows'[r].status)]
            = [r \in Requests |-> IF r \in {x} THEN "open"
                                  ELSE [q \in Requests |-> Belief(rows[q].status)][r]]
      BY <1>3 DEF Belief
    <3>. QED BY <3>1, <3>2 DEF Book!Reopen
  <2>. QED BY <2>3 DEF Book!Next
<1>. QED BY <1>1, <1>2, <1>3 DEF Belief

\* Reserving an order is the book's Reserve.
LEMMA BookReserve ==
  ASSUME FlowInv, NEW r \in Requests, ReserveBuy(r) \/ ReserveExit(r) \/ ReserveSell(r)
  PROVE  Book!Reserve(r)
<1>1. /\ rows[r].status = ABSENT /\ NoPending(r) /\ ex' = ex
      /\ \E s \in PENDING_STATES : rows' = [rows EXCEPT ![r].status = s]
  BY DEF ReserveBuy, ReserveExit, ReserveSell, SetStatus, PENDING_STATES
<1>2. rows \in [Ids -> Row] /\ \A q \in Requests : q \in Ids
  BY Variables, Owners DEF FlowInv
<1>3. PICK s \in PENDING_STATES : rows' = [rows EXCEPT ![r].status = s]
  BY <1>1
<1>4. /\ rows'[r].status = s /\ s # ABSENT /\ s \notin FINAL
      /\ \A q \in Requests : q # r => rows'[q] = rows[q]
  BY <1>2, <1>3, Words DEF Row
<1>5. ASSUME NEW q \in Requests, Key(q) = Key(r)
      PROVE  Belief(rows[q].status) # "open"
  <2>1. rows[q].status \notin PENDING_STATES /\ rows[q].status # "ERROR_RECONCILIATION_REQUIRED"
    BY <1>1, <1>2, <1>5 DEF NoPending, FlowInv, Core, RowsInv
  <2>2. rows[q].status \in States \union {ABSENT}
    BY <1>2 DEF Row
  <2>. QED BY <2>1, <2>2, Words DEF Belief
<1>6. [q \in Requests |-> Belief(rows'[q].status)]
        = [[q \in Requests |-> Belief(rows[q].status)] EXCEPT ![r] = "open"]
  BY <1>4 DEF Belief
<1>. QED BY <1>1, <1>5, <1>6 DEF Book!Reserve, Belief

\* Applying an update to a row closes the book's entry, opens it again or leaves it.
LEMMA BookApply ==
  ASSUME FlowInv, FlowInv', NEW id \in Ids, NEW base \in Row, RowTells(id, base),
         NEW e, e.status \in Reported, e.filled \in 0..Qty, e.oid = OrderOf(id),
         Tells(e.oid, e.status, e.filled), Apply(id, base, e),
         UNCHANGED <<pc, cur, reply, canc, wire, ex, pendKey>>
  PROVE  [Book!Next]_Book!bookVars
<1>1. \A i \in Ids : rows[i].status # ABSENT => rows'[i].status # ABSENT
  BY ApplyKeeps
<1>2. \A i \in Ids : i # id => rows'[i] = rows[i]
  BY Variables DEF FlowInv, Apply
<1>3. \A r \in Requests : r \in Ids
  BY Owners
<1>4. CASE id \notin Requests
  BY <1>2, <1>3, <1>4, BookUnmoved
<1>5. CASE id \in Requests
  <2>1. ex[id].status # "NONE" /\ rows[id].status # ABSENT
    BY <1>5, Owners, KnownHasRow DEF Tells
  <2>. QED BY <1>1, <1>2, <1>3, <1>5, <2>1, BookRewrites
<1>. QED BY <1>4, <1>5

\* What the scanner writes of a dispatch closes an entry, opens one whose order is over or leaves it.
LEMMA BookWrites ==
  ASSUME FlowInv, FlowInv', MarkSendStarted \/ PreSendReject \/ MarkSendResult \/ PersistOutcome
  PROVE  [Book!Next]_Book!bookVars
<1>0. rows \in [Ids -> Row] /\ cur \in Requests /\ cur \in Ids /\ rows[cur].status # ABSENT /\ ex' = ex
  <2>1. rows \in [Ids -> Row] /\ cur \in Requests
    BY Variables DEF FlowInv, TypeOK, ScanTypeOK, MarkSendStarted, PreSendReject, MarkSendResult,
                     PersistOutcome
  <2>2. rows[cur].status # ABSENT
    BY <2>1 DEF FlowInv, Core, ScanInv, SendInv, Preparing, MarkSendStarted, PreSendReject,
                MarkSendResult, PersistOutcome
  <2>. QED BY <2>1, <2>2, Owners DEF MarkSendStarted, PreSendReject, MarkSendResult, PersistOutcome
<1>1. PICK x \in Requests : x = cur
  BY <1>0
<1>2. PICK s \in States : rows' = [rows EXCEPT ![x].status = s] /\ (pc = "marked" => s = reply)
  BY <1>1 DEF MarkSendStarted, PreSendReject, MarkSendResult, PersistOutcome, SetStatus, States,
              FINAL, PENDING_STATES, FlowInv, TypeOK, ScanTypeOK
<1>3. rows'[x].status = s /\ s # ABSENT /\ \A r \in Requests : r # x => rows'[r] = rows[r]
  BY <1>0, <1>1, <1>2, Words DEF Row
<1>4. rows[x].status \in FINAL /\ ex[x].status = "NONE" => s \in FINAL
  BY <1>1, <1>2 DEF FlowInv, Core, ScanInv, FINAL
<1>. QED BY <1>0, <1>1, <1>3, <1>4, BookRewrites

\* The late write of a timeout opens entries again whose orders are over: the book's Reopen.
LEMMA BookTimeout ==
  ASSUME FlowInv, TimeoutCommit
  PROVE  [Book!Next]_Book!bookVars
<1>1. PICK accepted \in SUBSET canc :
        rows' = [id \in Ids |-> IF id \in accepted THEN [rows[id] EXCEPT !.status = "CANCEL_REQUESTED"]
                                ELSE rows[id]]
  BY DEF TimeoutCommit
<1> DEFINE S == {r \in Requests : r \in accepted /\ rows[r].status \in FINAL}
<1>2. rows \in [Ids -> Row] /\ \A r \in Requests : r \in Ids /\ OrderOf(r) = r
  BY Variables, Owners DEF FlowInv
<1>3. ASSUME NEW r \in S
      PROVE  Belief(rows[r].status) = "closed" /\ Phase(ex[r].status) = "done"
  <2>1. ex[r].status # "NONE" /\ ~Live(r)
    BY <1>2, Words DEF FlowInv, Core, RowsInv, ActiveInv, Active
  <2>. QED BY <2>1, Words DEF Live, Belief, Phase
<1>4. ASSUME NEW r \in Requests
      PROVE  Belief(rows'[r].status) = IF r \in S THEN "open" ELSE Belief(rows[r].status)
  <2>1. CASE r \notin accepted
    BY <1>1, <1>2, <2>1
  <2>2. CASE r \in accepted
    <3>1. rows'[r].status = "CANCEL_REQUESTED" /\ rows[r].status # ABSENT
      BY <1>1, <1>2, <2>2 DEF Row, FlowInv, Core, RowsInv
    <3>2. Belief(rows'[r].status) = "open"
      BY <3>1 DEF Belief, FINAL, ABSENT
    <3>. QED BY <2>2, <3>1, <3>2 DEF Belief
  <2>. QED BY <2>1, <2>2
<1>5. Book!Reopen
  <2>1. S \in SUBSET {r \in Requests : Belief(rows[r].status) = "closed" /\ Phase(ex[r].status) = "done"}
    BY <1>3
  <2>2. [r \in Requests |-> Belief(rows'[r].status)]
          = [r \in Requests |-> IF r \in S THEN "open" ELSE [q \in Requests |-> Belief(rows[q].status)][r]]
    BY <1>4
  <2>3. ex' = ex
    BY DEF TimeoutCommit
  <2>. QED BY <2>1, <2>2, <2>3 DEF Book!Reopen
<1>. QED BY <1>5 DEF Book!Next

\* Sending an order to the exchange is the book's Place.
LEMMA BookSend ==
  ASSUME FlowInv, NEW r \in Requests, GwSend(r)
  PROVE  [Book!Next]_Book!bookVars
<1>1. ex \in [Requests -> Order] /\ rows' = rows /\ wire[r] = "inflight"
  BY Variables DEF FlowInv, GwSend
<1>2. CASE ex' = ex
  BY <1>1, <1>2, BookUnmoved
<1>3. CASE ex' = [ex EXCEPT ![r] = [sends |-> @.sends + 1, status |-> "SENT", filled |-> @.filled]]
  <2>1. ex[r].status = "NONE"
    BY <1>1 DEF FlowInv, Core, SendInv, ScanInv
  <2>2. rows[r].status \in PENDING_STATES
    BY <1>1 DEF FlowInv, Core, ActiveInv, Active
  <2>3. Belief(rows[r].status) = "open"
    BY <2>2, Words DEF Belief
  <2>4. /\ ex'[r].status = "SENT" /\ \A q \in Requests : ex'[q].filled = ex[q].filled
        /\ \A q \in Requests : q # r => ex'[q] = ex[q]
    BY <1>1, <1>3
  <2>5. [q \in Requests |-> Phase(ex'[q].status)]
          = [[q \in Requests |-> Phase(ex[q].status)] EXCEPT ![r] = "live"]
    BY <2>4 DEF Phase, FINAL
  <2>6. Book!Place(r)
    BY <1>1, <2>1, <2>3, <2>4, <2>5 DEF Book!Place, Phase
  <2>. QED BY <2>6 DEF Book!Next
<1>. QED BY <1>2, <1>3 DEF GwSend

\* An update at the exchange is the book's Execute.
LEMMA BookExecute ==
  ASSUME FlowInv, NEW r \in Requests, ExchangeUpdate(r)
  PROVE  Book!Execute(r)
<1>0. ex \in [Requests -> Order] /\ Qty \in Nat
  BY Variables DEF FlowInv
<1>1. PICK n \in Successors(ex[r]) :
        /\ Forward(ex[r], n)
        /\ ex' = [ex EXCEPT ![r] = [sends |-> @.sends, status |-> n.status, filled |-> n.filled]]
  BY DEF ExchangeUpdate
<1>2. /\ ex[r].status # "NONE" /\ ex[r].status \notin FINAL
      /\ n.filled \in ex[r].filled..Qty /\ n.status # "NONE"
  <2>1. ex[r].filled \in 0..Qty /\ ExFinals \subseteq FINAL
    BY <1>0, ConstantsAssumption DEF Order
  <2>. QED BY <1>0, <1>1, <2>1, Words DEF Forward, Successors
<1>3. /\ [q \in Requests |-> ex'[q].filled] = [[q \in Requests |-> ex[q].filled] EXCEPT ![r] = n.filled]
      /\ [q \in Requests |-> Phase(ex'[q].status)]
           = [[q \in Requests |-> Phase(ex[q].status)] EXCEPT ![r] = Phase(n.status)]
  BY <1>0, <1>1
<1>4. Phase(ex[r].status) = "live" /\ Phase(n.status) \in {"live", "done"}
  BY <1>2 DEF Phase
<1>5. rows' = rows
  BY DEF ExchangeUpdate
<1>. QED BY <1>2, <1>3, <1>4, <1>5 DEF Book!Execute

\* Every step of the synchroniser is a step of the book or none.
LEMMA BookSync ==
  ASSUME FlowInv, FlowInv', Synchroniser
  PROVE  [Book!Next]_Book!bookVars
<1>1. CASE UNCHANGED <<rows, ex>>
  BY <1>1, BookUnmoved
<1>2. ASSUME NEW id \in Ids, SyncApply(id)
      PROVE  [Book!Next]_Book!bookVars
  <2>1. UNCHANGED <<pc, cur, reply, canc, wire, ex, pendKey>>
    BY <1>2 DEF SyncApply, scanVars, gwVars
  <2>2. CASE UNCHANGED <<rows, reserved>>
    BY <1>1, <2>1, <2>2
  <2>3. CASE ~UNCHANGED <<rows, reserved>>
    <3>1. PICK s \in Reported, f \in 0..Qty :
            /\ copy[id] \in Row /\ RowTells(id, copy[id]) /\ Tells(OrderOf(id), s, f)
            /\ Apply(id, copy[id], [status |-> s, filled |-> f, oid |-> OrderOf(id)])
      BY <1>2, <2>3, SyncReads
    <3>. QED BY <2>1, <3>1, BookApply
  <2>. QED BY <2>2, <2>3
<1>. QED BY <1>1, <1>2 DEF Synchroniser, SyncFetch, SyncLoad, SyncDone

\* Every step of the flow is a step of the book or none.
LEMMA BookStep == FlowInv /\ FlowInv' /\ [Next]_vars => [Book!Next]_Book!bookVars
<1>. SUFFICES ASSUME FlowInv, FlowInv', [Next]_vars PROVE [Book!Next]_Book!bookVars
  OBVIOUS
<1>1. CASE UNCHANGED <<rows, ex>>
  BY <1>1, BookUnmoved
<1>2. CASE Scanner
  <2>1. ASSUME NEW r \in Requests, ReserveBuy(r) \/ ReserveExit(r) \/ ReserveSell(r)
        PROVE  [Book!Next]_Book!bookVars
    BY <2>1, BookReserve DEF Book!Next
  <2>2. CASE SizeBuy \/ BuyRefused \/ SendOrder \/ SendFails \/ TimeoutLoad
    BY <1>1, <2>2 DEF SizeBuy, BuyRefused, SendOrder, SendFails, TimeoutLoad
  <2>. QED BY <1>2, <2>1, <2>2, BookWrites, BookTimeout DEF Scanner
<1>3. CASE Gateway
  BY <1>1, <1>3, BookSend DEF Gateway, GwReject, ReportNext
<1>4. CASE Faults
  BY <1>1, <1>4 DEF Faults, LoseCallback, ServerCrash, TickRaises, GatewayStop, GatewayStart
<1>5. ASSUME NEW e \in posted, DeliverCallback(e)
      PROVE  [Book!Next]_Book!bookVars
  BY <1>5, DeliverReads, BookApply
<1>6. ASSUME NEW r \in Requests, ExchangeUpdate(r)
      PROVE  [Book!Next]_Book!bookVars
  BY <1>6, BookExecute DEF Book!Next
<1>7. CASE UNCHANGED vars
  BY <1>1, <1>7 DEF vars
<1>. QED BY <1>2, <1>3, <1>4, <1>5, <1>6, <1>7, BookSync DEF Next

\* Seen through the ledger and the exchange, every run of the flow is a run of
\* the order book: crashes, late writes and restarts included.
THEOREM FlowImplementsBook == Unambiguous /\ Spec => ImplementsBook
<1>1. Init => Book!Init
  <2>. SUFFICES ASSUME Init PROVE Book!Init
    OBVIOUS
  <2>1. \A r \in Requests : rows[r].status = ABSENT /\ ex[r].status = "NONE" /\ ex[r].filled = 0
    BY Owners DEF Init, AbsentRow
  <2>. QED BY <2>1 DEF Book!Init, Belief, Phase, FINAL
<1>2. FlowInv /\ FlowInv' /\ [Next]_vars => [Book!Next]_Book!bookVars
  BY BookStep
<1>. QED BY <1>1, <1>2, FlowInvAlways, PTL DEF Spec, ImplementsBook, Book!Spec

\* An order the ledger closed before the exchange knew it is never placed: no retry, late
\* request or restart sends what was refused (order_ledger.py, reserve_order).
THEOREM RefusedNeverPlaced == Unambiguous /\ Spec => Book!ClosedStaysUnplaced
<1> DEFINE belief == [r \in Requests |-> Belief(rows[r].status)]
           phase == [r \in Requests |-> Phase(ex[r].status)]
<1>1. ASSUME [Book!Next]_Book!bookVars, NEW r \in Requests, belief[r] = "closed", phase[r] = "new"
      PROVE  phase'[r] = "new"
  <2>1. ASSUME NEW q \in Requests, Book!Place(q) PROVE phase'[r] = "new"
    <3>1. phase' = [phase EXCEPT ![q] = "live"] /\ belief[q] = "open"
      BY <2>1 DEF Book!Place
    <3> HIDE DEF belief, phase
    <3> QED BY <1>1, <3>1
  <2>2. ASSUME NEW q \in Requests, Book!Execute(q) PROVE phase'[r] = "new"
    <3>1. phase[q] = "live" /\ \E p \in {"live", "done"} : phase' = [phase EXCEPT ![q] = p]
      BY <2>2 DEF Book!Execute
    <3> HIDE DEF belief, phase
    <3> QED BY <1>1, <3>1
  <2>3. ASSUME phase' = phase PROVE phase'[r] = "new"
    BY <1>1, <2>3
  <2>4. ASSUME NEW q \in Requests, Book!Reserve(q) \/ Book!Close(q) PROVE phase' = phase
    BY <2>4 DEF Book!Reserve, Book!Close
  <2>5. Book!Reopen => phase' = phase
    BY DEF Book!Reopen
  <2>6. UNCHANGED Book!bookVars => phase' = phase
    BY DEF Book!bookVars
  <2> HIDE DEF belief, phase
  <2> QED BY <1>1, <2>1, <2>2, <2>3, <2>4, <2>5, <2>6 DEF Book!Next
<1>2. [Book!Next]_Book!bookVars =>
        [\A r \in Requests : belief[r] = "closed" /\ phase[r] = "new" => phase'[r] = "new"]_Book!bookVars
  BY <1>1
<1>. QED BY <1>2, FlowImplementsBook, PTL DEF ImplementsBook, Book!Spec, Book!ClosedStaysUnplaced
=============================================================================
