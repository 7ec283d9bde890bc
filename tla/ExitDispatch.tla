---------------------------- MODULE ExitDispatch ----------------------------
(***************************************************************************)
(* Who closes a position of the bot, and by which order.                   *)
(*                                                                         *)
(* Three authorities send SELLs of one symbol through the same gates of    *)
(* _maybe_send_order: the stop-loss guard (a phase of the scanner's tick), *)
(* the evaluation of the symbol (a later phase), and the exit monitor (a   *)
(* task of its own, which replaces the guard when the process runs with    *)
(* deterministic_exit_enabled).  The guard judges from reads it repeats    *)
(* under the lifecycle's row lock; the evaluation sells what the gateway   *)
(* says the bot owns.                                                      *)
(*                                                                         *)
(* The bot has bought Lots of the symbol, the owner holds HandLots of it   *)
(* besides.  Prices are three levels: 1 breaches the initial stop, 2 is    *)
(* the average entry price, 3 reaches break-even threshold and target (the *)
(* monitor's trailing and time exits are left out).                        *)
(* Sending and the answer are one step (OrderFlow has what may come        *)
(* between).  A request id names its authority, its quantity and the 30 s  *)
(* bucket it was made in (other authorities put a time there); NextBucket  *)
(* ends the bucket and forgets the orders that are over, of which only the *)
(* lots they sold matter later.                                            *)
(***************************************************************************)
EXTENDS Integers, FiniteSetsExt, Functions

CONSTANTS
  Lots, HandLots,
  Clamp,        \* MaxQtyPerOrder
  MaxFaults,    \* bound: refusals, rejections, lost sends, failed measurements
  MaxMoves,     \* bound: price changes
  MaxAi,        \* bound: SELL decisions of the evaluation
  MaxRestarts   \* bound: restarts of the server or the gateway

ASSUME ConstantsAssumption ==
  /\ {Lots, Clamp} \subseteq Nat \ {0}
  /\ {HandLots, MaxFaults, MaxMoves, MaxAi, MaxRestarts} \subseteq Nat

VARIABLES
  price,      \* external: the market
  ex,         \* external: orders at the exchange, with the lots left and sold
  rows,       \* order_logs of the SELLs that are not forgotten
  past,       \* lots sold by the forgotten ones
  lc,         \* position_lifecycles: current_qty (0 when closed), active_stop_loss
  audit,      \* request ids with a decision audit row or a trigger event
  intents,    \* exit_intents: status, and whether the window is over
  snap,       \* gateway: BotOwnedQty of its last configuration poll
  known,      \* gateway: orders whose state it still has
  monitorOn,  \* the process runs with deterministic_exit_enabled
  task,       \* scanner and monitor: step, order under way, what the guard saw
  faults, moves, decided, restarts

market == <<price, moves>>
db     == <<rows, past, lc, audit, intents>>
gw     == <<snap, known>>
count  == <<faults, decided, restarts>>
vars   == <<market, ex, db, gw, monitorOn, task, count>>

Ids     == [src : {"SL", "TP", "AI", "MON"}, qty : 1..Lots]
Guard   == {id \in Ids : id.src \in {"SL", "TP"}}   \* is_deterministic_exit
Tasks   == {"scanner", "monitor"}
NoOrder == [src |-> "none", qty |-> 0]
At(step)     == [step |-> step, id |-> NoOrder, qty |-> 0, seen |-> 0, obs |-> 2]
With(id)     == [At("gates") EXCEPT !.id = id, !.qty = id.qty]
Working      == {id \in DOMAIN ex : ex[id].st = "working"}
PendingSell  == \E id \in DOMAIN rows : rows[id].st = "PENDING"
Sold         == past + SumFunction([id \in DOMAIN ex |-> ex[id].sold])

\* The function f with v at k.
Put(f, k, v) == [i \in DOMAIN f \union {k} |-> IF i = k THEN v ELSE f[i]]

\* load_bot_ownership: lots bought less lots sold, by the order rows.
\* Mutation: only rows that are FILLED count.
FilledLotsOfFilled(r) ==
  SumFunction([id \in {i \in DOMAIN r : r[i].st = "FILLED"} |-> r[id].filled])
FilledLots(r) == SumFunction([id \in DOMAIN r |-> r[id].filled])
Owned         == Lots - past - FilledLots(rows)

Due(p, stop) == p <= stop \/ p = 3

Init ==
  /\ price = 2 /\ moves = 0 /\ past = 0
  /\ ex = <<>> /\ rows = <<>> /\ audit = {} /\ intents = <<>>
  /\ lc = [qty |-> Lots, stop |-> 1]
  /\ snap = Lots /\ known = {}
  /\ monitorOn \in BOOLEAN
  /\ task = [t \in Tasks |-> At("idle")]
  /\ faults = 0 /\ decided = 0 /\ restarts = 0

Fault == faults < MaxFaults /\ faults' = faults + 1
Go(t, s) == task' = [task EXCEPT ![t] = s]

-----------------------------------------------------------------------------
(* The scanner's tick, and the guard.                                      *)

TickStart ==
  /\ task["scanner"].step = "idle"
  /\ Go("scanner", At(IF monitorOn THEN "evaluate" ELSE "guard"))
  /\ UNCHANGED <<market, ex, db, gw, monitorOn, count>>

\* Health, positions, lifecycles, ownership, pending SELL, snapshot.
GuardRead ==
  /\ task["scanner"].step = "guard"
  /\ Go("scanner", IF lc.qty > 0 /\ Owned = lc.qty /\ snap = lc.qty /\ ~PendingSell
                   THEN [At("revalidate") EXCEPT !.seen = lc.qty, !.obs = price]
                   ELSE At("evaluate"))
  /\ UNCHANGED <<market, ex, db, gw, monitorOn, count>>

\* Health and positions once more, after the snapshot was awaited.
GuardRevalidate ==
  /\ task["scanner"].step = "revalidate"
  /\ Go("scanner", IF snap = task["scanner"].seen
                   THEN [task["scanner"] EXCEPT !.step = "trigger"]
                   ELSE At("evaluate"))
  /\ UNCHANGED <<market, ex, db, gw, monitorOn, count>>

GuardId(obs, stop, qty) == [src |-> IF obs <= stop THEN "SL" ELSE "TP", qty |-> qty]

\* Under the lifecycle's lock: judge again, tighten the stop, record the trigger.
GuardTrigger ==
  LET s == task["scanner"]
      stop == IF s.obs = 3 THEN 2 ELSE lc.stop
      id == GuardId(s.obs, stop, s.seen)
      ok == lc.qty = s.seen /\ Owned = lc.qty /\ ~PendingSell
  IN
  /\ s.step = "trigger"
  /\ lc' = IF ok THEN [lc EXCEPT !.stop = stop] ELSE lc
  /\ IF ok /\ Due(s.obs, stop)
     THEN audit' = audit \union {id} /\ Go("scanner", With(id))
     ELSE Go("scanner", At("evaluate")) /\ UNCHANGED audit
  /\ UNCHANGED <<market, ex, rows, past, intents, gw, monitorOn, count>>

\* The evaluation decides to sell all the gateway says is the bot's, and
\* commits its audit row; or it does not.
Evaluate ==
  LET qty == Min({snap, HandLots + Lots - Sold})
      id == [src |-> "AI", qty |-> qty]
  IN
  /\ task["scanner"].step = "evaluate"
  /\ \/ Go("scanner", At("idle")) /\ UNCHANGED <<audit, decided>>
     \/ /\ decided < MaxAi /\ qty > 0 /\ id \notin audit
        /\ decided' = decided + 1 /\ audit' = audit \union {id}
        /\ Go("scanner", With(id))
  /\ UNCHANGED <<market, ex, rows, past, lc, intents, gw, monitorOn, faults, restarts>>

-----------------------------------------------------------------------------
(* The exit monitor.                                                       *)

\* Intents past their window are settled by what became of their order, all in
\* one commit.  (A pending one would be cancelled first; the monitor's orders
\* never get that far, see Audited.)
\* Mutation: the intent keeps its status.
StatusAfterKept(id) == intents[id].st
StatusAfter(id) ==
  IF id \notin DOMAIN rows THEN "FAILED"
  ELSE [FILLED |-> "FILLED", CANCELED |-> "FAILED",
        REJECTED |-> "FAILED", PENDING |-> "CANCELED"][rows[id].st]
Stale == {id \in DOMAIN intents : intents[id].st = "ACCEPTED" /\ intents[id].old}

Reprice ==
  /\ monitorOn /\ task["monitor"].step = "idle" /\ Stale # {}
  /\ intents' = [id \in DOMAIN intents |->
                   IF id \in Stale THEN [intents[id] EXCEPT !.st = StatusAfter(id)]
                   ELSE intents[id]]
  /\ UNCHANGED <<market, ex, rows, past, lc, audit, gw, monitorOn, task, count>>

\* A due position gets an intent and a SELL of all of it.  Neither ownership nor
\* an order under way is looked at.
Fire ==
  LET id == [src |-> "MON", qty |-> lc.qty] IN
  /\ monitorOn /\ task["monitor"].step = "idle"
  /\ Stale = {} /\ lc.qty > 0 /\ Due(price, lc.stop) /\ id \notin DOMAIN intents
  /\ intents' = Put(intents, id, [st |-> "ACCEPTED", old |-> FALSE])
  /\ Go("monitor", With(id))
  /\ UNCHANGED <<market, ex, rows, past, lc, audit, gw, monitorOn, count>>

-----------------------------------------------------------------------------
(* _maybe_send_order, run by either task.                                  *)

After(t) == At(IF task[t].id \in Guard THEN "evaluate" ELSE "idle")

\* Any gate may refuse; the audit gate refuses what has no row of its own.
Audited(id) == id \in audit

Gates(t) ==
  LET s == task[t] IN
  /\ s.step = "gates"
  /\ \/ Fault /\ Go(t, After(t))
     \/ /\ UNCHANGED faults
        /\ Go(t, IF Audited(s.id)
                 THEN [s EXCEPT !.step = "reserve", !.qty = Min({s.qty, Clamp})]
                 ELSE After(t))
  /\ UNCHANGED <<market, ex, db, gw, monitorOn, decided, restarts>>

\* reserve_order and mark_send_started; a guard's exit is checked once more
\* under the lifecycle's lock.
Reserve(t) ==
  LET s == task[t]
      ok == /\ s.id \notin DOMAIN rows /\ ~PendingSell
            /\ s.id \in Guard => s.qty <= lc.qty /\ Owned = lc.qty
  IN
  /\ s.step = "reserve"
  /\ IF ok
     THEN /\ rows' = Put(rows, s.id, [st |-> "PENDING", filled |-> 0])
          /\ Go(t, [s EXCEPT !.step = "send"])
     ELSE Go(t, After(t)) /\ UNCHANGED rows
  /\ UNCHANGED <<market, ex, past, lc, audit, intents, gw, monitorOn, count>>

Sellable == Min({snap, HandLots + Lots - Sold})    \* gateway: GetSellableQty

Placed(s) == /\ ex' = Put(ex, s.id, [st |-> "working", left |-> s.qty, sold |-> 0])
             /\ known' = known \union {s.id}
Refused(id) == rows' = [rows EXCEPT ![id].st = "REJECTED"] /\ UNCHANGED <<ex, known>>

\* POST /order and its outcome.  A lost request or answer leaves the row pending.
Send(t) ==
  LET s == task[t] IN
  /\ s.step = "send"
  /\ \/ s.qty <= Sellable /\ Placed(s) /\ UNCHANGED <<rows, faults>>
     \/ s.qty > Sellable /\ Refused(s.id) /\ UNCHANGED faults
     \/ Fault /\ Refused(s.id)
     \/ Fault /\ UNCHANGED <<ex, rows, known>>
  /\ Go(t, After(t))
  /\ UNCHANGED <<market, past, lc, audit, intents, snap, monitorOn, decided, restarts>>

-----------------------------------------------------------------------------
(* The exchange, what it reports, and the rest.                            *)

Fill ==
  /\ \E id \in Working : ex' = [ex EXCEPT
       ![id] = [st |-> IF @.left = 1 THEN "FILLED" ELSE "working",
                left |-> @.left - 1, sold |-> @.sold + 1]]
  /\ UNCHANGED <<market, db, gw, monitorOn, task, count>>

\* The timeout's cancel of an order that is too old, or one by the exchange.
Cancel ==
  /\ \E id \in Working : ex' = [ex EXCEPT ![id].st = "CANCELED", ![id].left = 0]
  /\ UNCHANGED <<market, db, gw, monitorOn, task, count>>

\* A callback or the synchroniser brings the row up to date; the lifecycle
\* follows in the same transaction unless its measurement fails.
Report(id) ==
  LET st == IF ex[id].st = "working" THEN "PENDING" ELSE ex[id].st
      new == [st |-> st, filled |-> ex[id].sold]
      less == [lc EXCEPT !.qty = Max({0, @ - (ex[id].sold - rows[id].filled)})]
  IN
  /\ id \in known /\ id \in DOMAIN ex /\ rows[id] # new
  /\ \/ lc' = less /\ UNCHANGED faults
     \/ ex[id].sold > rows[id].filled /\ Fault /\ UNCHANGED lc
  /\ rows' = [rows EXCEPT ![id] = new]
  /\ UNCHANGED <<market, ex, past, audit, intents, gw, monitorOn, task, decided, restarts>>

\* The measurement reconciliation recovers what a failed one left out.
Reconcile ==
  /\ lc.qty # Max({0, Owned}) /\ lc' = [lc EXCEPT !.qty = Max({0, Owned})]
  /\ UNCHANGED <<market, ex, rows, past, audit, intents, gw, monitorOn, task, count>>

\* The gateway's configuration poll.
Poll ==
  /\ snap # Max({0, Owned}) /\ snap' = Max({0, Owned})
  /\ UNCHANGED <<market, ex, db, known, monitorOn, task, count>>

GatewayRestart ==
  /\ restarts < MaxRestarts /\ restarts' = restarts + 1
  /\ snap' = 0 /\ known' = {}
  /\ UNCHANGED <<market, ex, db, monitorOn, task, faults, decided>>

\* The server restarts, perhaps with the other setting.
ServerRestart ==
  /\ restarts < MaxRestarts /\ restarts' = restarts + 1
  /\ monitorOn' \in BOOLEAN /\ task' = [t \in Tasks |-> At("idle")]
  /\ UNCHANGED <<market, ex, db, gw, faults, decided>>

PriceMoves ==
  /\ moves < MaxMoves /\ moves' = moves + 1 /\ price' \in 1..3 \ {price}
  /\ UNCHANGED <<ex, db, gw, monitorOn, task, count>>

\* Orders that are over (or were never placed) and intents that are settled are
\* forgotten, unless a task still holds the id; no later request has it.
\* Mutation: the ids of refused orders have no bucket and are never made again.
OverFilledOnly == {id \in DOMAIN rows : /\ rows[id].st \in {"FILLED", "CANCELED"}
                                       /\ \A t \in Tasks : task[t].id # id}
Over == {id \in DOMAIN rows : rows[id].st # "PENDING" /\ \A t \in Tasks : task[t].id # id}

NextBucket ==
  LET keep(f, S) == [k \in DOMAIN f \ S |-> f[k]]
      done == {id \in DOMAIN intents : intents[id].st # "ACCEPTED"}
  IN
  /\ rows' = keep(rows, Over) /\ ex' = keep(ex, Over) /\ known' = known \ Over
  /\ past' = past + FilledLots([id \in Over |-> rows[id]])
  /\ audit' = {id \in audit : id \in DOMAIN rows' \/ \E t \in Tasks : task[t].id = id}
  /\ intents' = [id \in DOMAIN intents \ done |-> [intents[id] EXCEPT !.old = TRUE]]
  /\ UNCHANGED <<market, lc, snap, monitorOn, task, count>>

Dispatch(t) == Gates(t) \/ Reserve(t) \/ Send(t)
Scanner == TickStart \/ GuardRead \/ GuardRevalidate \/ GuardTrigger \/ Evaluate \/ Dispatch("scanner")
Monitor == Reprice \/ Fire \/ Dispatch("monitor")
Repairs == (\E id \in DOMAIN rows : Report(id)) \/ Reconcile \/ Poll

Next ==
  \/ Scanner \/ Monitor \/ Repairs
  \/ Fill \/ Cancel \/ GatewayRestart \/ ServerRestart \/ PriceMoves \/ NextBucket

Spec == Init /\ [][Next]_vars

\* Both tasks run again and again, the periodic repairs too, and time passes in
\* whatever step (a bucket may end in a step that still holds its id).
\* Neither the exchange nor the market owes anything.
FairSpec ==
  /\ Spec
  /\ WF_vars(Scanner) /\ WF_vars(Reprice) /\ WF_vars(Dispatch("monitor"))
  /\ WF_vars(\E id \in DOMAIN rows : Report(id)) /\ WF_vars(Reconcile) /\ WF_vars(Poll)
  /\ SF_vars(NextBucket)

-----------------------------------------------------------------------------
(* Properties.                                                             *)

\* Every variable has its type (scanner.py, stop_loss_guard.py,
\* position_exit_monitor.py); a row is of an id some authority made.
TypeOK ==
  /\ price \in 1..3 /\ past \in 0..Lots + HandLots
  /\ DOMAIN ex \subseteq DOMAIN rows /\ DOMAIN rows \subseteq Ids /\ known \subseteq DOMAIN ex
  /\ \A id \in DOMAIN ex : ex[id].left + ex[id].sold \in 0..Lots
  /\ \A id \in DOMAIN rows : rows[id].st \in {"PENDING", "FILLED", "CANCELED", "REJECTED"}
  /\ lc \in [qty : 0..Lots, stop : 1..2] /\ snap \in 0..Lots
  /\ audit \subseteq Ids
  /\ \A id \in DOMAIN intents : intents[id].st \in {"ACCEPTED", "FILLED", "CANCELED", "FAILED"}
  /\ \A t \in Tasks : task[t].id \in Ids \union {NoOrder}

\* While an exit of the guard works at the exchange, what it may still sell and
\* what was sold before are lots the bot bought, whatever else sold, was
\* cancelled, failed to be measured or restarted (scanner.py:1369-1418).
ExitsOwned ==
  \A id \in Working \intersect Guard : Sold + ex[id].left <= Lots

\* A position of the bot at its stop or target does not stay without a SELL in
\* the ledger while the guard is the authority (stop_loss_guard.py:153).
ExitsLeave ==
  []<>(monitorOn \/ lc.qty = 0 \/ ~Due(price, lc.stop) \/ PendingSell)

\* The same whoever is the authority (position_exit_monitor.py:1-8).
MonitorExits ==
  []<>(lc.qty = 0 \/ ~Due(price, lc.stop) \/ PendingSell)

\* An intent whose window is over is settled, so that the position may fire
\* again (position_exit_monitor.py:363-367).
IntentsSettle ==
  \A id \in Ids : []<>(~monitorOn \/ id \notin DOMAIN intents \/ intents[id].st # "ACCEPTED")

\* The bot sells only lots it bought, by whichever authority (risk_engine.py:273).
SellsOwned == Sold + SumFunction([id \in Working |-> ex[id].left]) <= Lots

=============================================================================
