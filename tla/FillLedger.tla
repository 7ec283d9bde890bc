------------------------------ MODULE FillLedger ------------------------------
(***************************************************************************)
(* From an order's cumulative fills to the open position of its symbol.    *)
(*                                                                         *)
(* A callback writes the order row and, in a SAVEPOINT of the same         *)
(* transaction, one fill for the lots that are new and the position        *)
(* lifecycle; when that part fails the row is written without them.        *)
(* Reconcilers (the 300 s worker, or the same module run by hand) look for *)
(* rows with more lots than fills, add what is missing, and then correct   *)
(* the lifecycle's quantity from the fills.  The position synchroniser     *)
(* closes a lifecycle the order rows say nothing is left of.               *)
(*                                                                         *)
(* One symbol; every callback carries a price.  A transaction's writes     *)
(* become visible at its commit; reads take no lock unless said otherwise. *)
(* Time is counted in callbacks.                                           *)
(***************************************************************************)
EXTENDS Integers, Functions

CONSTANTS
  Rows,         \* order rows that may report fills
  ExecOf,       \* the exchange order behind each; after a restart the gateway
                \* reports one it forgot under a second row, "MATRIKS-<id>"
  SideOf,       \* BUY or SELL
  AccOf,        \* account_ref, NoAcc for a row only a callback inserted
  Accounts, NoAcc,
  Lots,         \* lots of each exchange order
  Reconcilers,  \* processes that run the reconciliation
  MaxSyncs,     \* bound: passes of the order synchroniser
  MaxFaults,    \* bound: failed measurements, aborted reconciliations
  MaxSwitches,  \* bound: logins to another account
  MaxHand       \* bound: positions sold by hand

Execs == {ExecOf[r] : r \in Rows}

ASSUME ConstantsAssumption ==
  /\ SideOf \in [Rows -> {"BUY", "SELL"}] /\ NoAcc \notin Accounts
  /\ AccOf \in [Rows -> Accounts \union {NoAcc}]
  /\ Lots \in Nat \ {0} /\ {MaxSyncs, MaxFaults, MaxSwitches, MaxHand} \subseteq Nat

VARIABLES
  exec,    \* external: lots of each order executed at the exchange
  hand,    \* external: lots its owner sold by hand
  acct,    \* external: the account logged in
  row,     \* order_logs: filled_qty, and when it was written last
  fills,   \* order_fills, with its unique fill_event_key: source, row, total
  life,    \* position_lifecycles: the latest one of the symbol
  clock,
  rec,     \* the reconcilers, each with what its transaction holds
  ps,      \* the position synchroniser
  osync,   \* the order synchroniser: the row copies and totals it holds
  syncs, faults, switches

measured == <<row, fills, life, clock>>
world    == <<exec, hand, acct>>
vars     == <<world, measured, rec, ps, osync, syncs, faults, switches>>

NoLife  == [id |-> 0, open |-> FALSE, qty |-> 0, opened |-> 0, acc |-> NoAcc]
IdleRec == [pc |-> "idle", copy |-> [r \in Rows |-> 0], at |-> [r \in Rows |-> 0],
            todo |-> {}, gap |-> {}, staged |-> {}, held |-> {}, seen |-> NoLife, sum |-> 0]
IdlePs  == [pc |-> "idle", acc |-> NoAcc, owned |-> FALSE, id |-> 0]
NoSync  == [todo |-> {}, copy |-> [r \in Rows |-> 0], total |-> [r \in Rows |-> 0]]

Init ==
  /\ exec = [e \in Execs |-> 0] /\ hand = 0 /\ acct \in Accounts
  /\ row = [r \in Rows |-> [filled |-> 0, at |-> 0]]
  /\ fills = {} /\ life = NoLife /\ clock = 0
  /\ rec = [k \in Reconcilers |-> IdleRec]
  /\ ps = IdlePs /\ osync = NoSync
  /\ syncs = 0 /\ faults = 0 /\ switches = 0

-----------------------------------------------------------------------------
Sum(S)  == SumFunction([f \in S |-> f.qty])
Side(d, S) == {f \in S : SideOf[f.row] = d}
Recorded(S, r) == Sum({f \in S : f.row = r})
RowLots(S) == SumFunction([r \in S |-> row[r].filled])

\* What is really held: lots bought less lots sold, by the bot or by hand.
Held ==
  LET side(d) == {e \in Execs : \E r \in Rows : ExecOf[r] = e /\ SideOf[r] = d}
      lots(d) == SumFunction([e \in side(d) |-> exec[e]])
  IN lots("BUY") - lots("SELL") - hand

\* load_bot_ownership: from the rows the bot reserved for this account.
OwnedBy(a) ==
  LET net == RowLots({r \in Rows : AccOf[r] = a /\ SideOf[r] = "BUY"})
               - RowLots({r \in Rows : AccOf[r] = a /\ SideOf[r] = "SELL"})
  IN IF net > 0 THEN net ELSE 0

\* compute_fill_derived_qty: every fill since the lifecycle opened.
Derived(l) ==
  LET since == {f \in fills : f.at >= l.opened}
  IN Sum(Side("BUY", since)) - Sum(Side("SELL", since))

\* A BUY fill opens a lifecycle or adds to the open one.
AfterBuy(l, f) ==
  IF l.open THEN [l EXCEPT !.qty = @ + f.qty]
  ELSE [id |-> l.id + 1, open |-> TRUE, qty |-> f.qty, opened |-> f.at, acc |-> AccOf[f.row]]

\* A SELL fill needs an open lifecycle, takes at most what is left and closes
\* it at zero.
AfterSell(l, f) ==
  IF ~l.open \/ l.qty <= 0 THEN l
  ELSE IF f.qty < l.qty THEN [l EXCEPT !.qty = @ - f.qty]
       ELSE [l EXCEPT !.qty = 0, !.open = FALSE]

AfterFill(l, f) == IF SideOf[f.row] = "BUY" THEN AfterBuy(l, f) ELSE AfterSell(l, f)

\* A reconciler holds the row lock of the open lifecycle it changed, or the
\* unique index entry of the one it is about to open.
Unlocked(f) ==
  \A k \in Reconcilers : rec[k].held = {} \/ (~life.open /\ SideOf[f.row] = "SELL")

-----------------------------------------------------------------------------
(* Callbacks.                                                              *)

\* apply_callback on a row believed to have `old` lots; a key already there
\* leaves fills and lifecycle alone, and so does a measurement that fails.
Measure(r, old, n) ==
  LET f == [src |-> "CALLBACK_DELTA", row |-> r, total |-> n, qty |-> n - old, at |-> clock + 1]
      known == \E g \in fills : g.src = f.src /\ g.row = r /\ g.total = n
  IN /\ row' = [row EXCEPT ![r] = [filled |-> n, at |-> clock + 1]]
     /\ clock' = clock + 1
     /\ \/ /\ ~known /\ Unlocked(f)
           /\ fills' = fills \union {f}
           /\ life' = AfterFill(life, f)
           /\ UNCHANGED faults
        \/ /\ known
           /\ UNCHANGED <<fills, life, faults>>
        \/ /\ faults < MaxFaults /\ faults' = faults + 1
           /\ UNCHANGED <<fills, life>>

\* POST /api/order-result with a total the exchange has reached; transition()
\* turns anything older away.
Callback(r) ==
  /\ \E n \in (row[r].filled + 1)..exec[ExecOf[r]] : Measure(r, row[r].filled, n)
  /\ UNCHANGED <<world, rec, ps, osync, syncs, switches>>

\* reconcile_orders loads the rows and holds them,
SyncLoad ==
  /\ syncs < MaxSyncs /\ osync.todo = {}
  /\ osync' = [todo |-> Rows, copy |-> [r \in Rows |-> row[r].filled],
               total |-> [r \in Rows |-> exec[ExecOf[r]]]]
  /\ syncs' = syncs + 1
  /\ UNCHANGED <<world, measured, rec, ps, faults, switches>>

\* and calls apply_callback, which sees its copies.
SyncApply(r) ==
  /\ r \in osync.todo
  /\ osync' = [osync EXCEPT !.todo = @ \ {r}]
  /\ IF osync.total[r] > osync.copy[r] THEN Measure(r, osync.copy[r], osync.total[r])
     ELSE UNCHANGED <<measured, faults>>
  /\ UNCHANGED <<world, rec, ps, syncs, switches>>

-----------------------------------------------------------------------------
(* run_once of the reconciliation.                                         *)

RecLoad(k) ==
  /\ rec[k].pc = "idle"
  /\ rec' = [rec EXCEPT ![k] = [IdleRec EXCEPT !.pc = "fills",
                 !.copy = [r \in Rows |-> row[r].filled], !.at = [r \in Rows |-> row[r].at],
                 !.todo = {r \in Rows : row[r].filled > 0}]]
  /\ UNCHANGED <<world, measured, ps, osync, syncs, faults, switches>>

\* Mutations: only inline fills count as recorded; an order is repaired once.
RecGapInline(k, r) ==
  LET mine    == fills \union rec[k].staged
      missing == rec[k].copy[r] - Recorded({f \in mine : f.src = "CALLBACK_DELTA"}, r)
      f == [src |-> "RECONCILIATION", row |-> r, total |-> rec[k].copy[r],
            qty |-> missing, at |-> rec[k].at[r]]
      known == \E g \in mine : g.src = f.src /\ g.row = r /\ g.total = f.total
  IN /\ rec[k].pc = "fills" /\ r \in rec[k].todo /\ rec[k].gap = {}
     /\ rec' = [rec EXCEPT ![k].todo = @ \ {r},
                           ![k].gap = IF missing > 0 /\ ~known THEN {f} ELSE {}]
     /\ UNCHANGED <<world, measured, ps, osync, syncs, faults, switches>>
RecGapOnce(k, r) ==
  LET mine    == fills \union rec[k].staged
      missing == rec[k].copy[r] - Recorded(mine, r)
      f == [src |-> "RECONCILIATION", row |-> r, total |-> rec[k].copy[r],
            qty |-> missing, at |-> rec[k].at[r]]
      known == \E g \in mine : g.src = f.src /\ g.row = r
  IN /\ rec[k].pc = "fills" /\ r \in rec[k].todo /\ rec[k].gap = {}
     /\ rec' = [rec EXCEPT ![k].todo = @ \ {r},
                           ![k].gap = IF missing > 0 /\ ~known THEN {f} ELSE {}]
     /\ UNCHANGED <<world, measured, ps, osync, syncs, faults, switches>>

\* record_reconciliation_fill: the loaded total less what is recorded by now,
\* stamped with the time the row was written; another transaction inserting
\* the same key is waited for.
RecGap(k, r) ==
  LET mine    == fills \union rec[k].staged
      missing == rec[k].copy[r] - Recorded(mine, r)
      f == [src |-> "RECONCILIATION", row |-> r, total |-> rec[k].copy[r],
            qty |-> missing, at |-> rec[k].at[r]]
      same(g) == g.src = f.src /\ g.row = r /\ g.total = f.total
  IN /\ rec[k].pc = "fills" /\ r \in rec[k].todo /\ rec[k].gap = {}
     /\ missing > 0 => \A j \in Reconcilers \ {k} : ~\E g \in rec[j].gap \union rec[j].staged : same(g)
     /\ rec' = [rec EXCEPT ![k].todo = @ \ {r},
                           ![k].gap = IF missing > 0 /\ ~\E g \in mine : same(g) THEN {f} ELSE {}]
     /\ UNCHANGED <<world, measured, ps, osync, syncs, faults, switches>>

\* The lifecycle as this transaction sees it.
Sees(k) == IF rec[k].held = {} THEN life ELSE CHOOSE l \in rec[k].held : TRUE

RecApply(k) ==
  /\ \A j \in Reconcilers \ {k} : rec[j].held = {}
  /\ \E f \in rec[k].gap :
       rec' = [rec EXCEPT ![k].gap = {}, ![k].staged = @ \union {f},
                          ![k].held = IF AfterFill(Sees(k), f) # Sees(k)
                                      THEN {AfterFill(Sees(k), f)} ELSE @]
  /\ UNCHANGED <<world, measured, ps, osync, syncs, faults, switches>>

RecCommit(k) ==
  /\ rec[k].pc = "fills" /\ rec[k].todo = {} /\ rec[k].gap = {}
  /\ fills' = fills \union rec[k].staged
  /\ life' = Sees(k)
  /\ rec' = [rec EXCEPT ![k] = [IdleRec EXCEPT !.pc = "qty"]]
  /\ UNCHANGED <<world, row, clock, ps, osync, syncs, faults, switches>>

\* reconcile_all_open_lifecycles loads the open lifecycle,
QtyLoad(k) ==
  /\ rec[k].pc = "qty"
  /\ rec' = [rec EXCEPT ![k].seen = life, ![k].pc = IF life.open THEN "sum" ELSE "idle"]
  /\ UNCHANGED <<world, measured, ps, osync, syncs, faults, switches>>

\* Mutation: a quantity is only ever corrected upwards.
QtySumUp(k) ==
  /\ rec[k].pc = "sum"
  /\ LET sum == Derived(rec[k].seen)
     IN rec' = [rec EXCEPT ![k] = IF sum > rec[k].seen.qty
                                  THEN [rec[k] EXCEPT !.sum = sum, !.pc = "write"] ELSE IdleRec]
  /\ UNCHANGED <<world, measured, ps, osync, syncs, faults, switches>>

\* sums its fills; a negative sum is escalated,
QtySum(k) ==
  /\ rec[k].pc = "sum"
  /\ LET sum == Derived(rec[k].seen)
     IN rec' = [rec EXCEPT ![k] = IF sum # rec[k].seen.qty /\ sum >= 0
                                  THEN [rec[k] EXCEPT !.sum = sum, !.pc = "write"] ELSE IdleRec]
  /\ UNCHANGED <<world, measured, ps, osync, syncs, faults, switches>>

\* any other is written by id, whatever became of the lifecycle.
QtyWrite(k) ==
  /\ rec[k].pc = "write" /\ \A j \in Reconcilers : rec[j].held = {}
  /\ life' = IF life.id = rec[k].seen.id THEN [life EXCEPT !.qty = rec[k].sum] ELSE life
  /\ rec' = [rec EXCEPT ![k] = IdleRec]
  /\ UNCHANGED <<world, row, fills, clock, ps, osync, syncs, faults, switches>>

\* The transaction, or the process, fails: nothing of it was visible.
RecAbort(k) ==
  /\ rec[k].pc # "idle" /\ faults < MaxFaults
  /\ faults' = faults + 1
  /\ rec' = [rec EXCEPT ![k] = IdleRec]
  /\ UNCHANGED <<world, measured, ps, osync, syncs, switches>>

-----------------------------------------------------------------------------
(* sync_positions_from_gateway: the snapshot and /health say which account *)
(* it is; what the bot holds comes from the order rows.                    *)

PsOwn ==
  /\ ps.pc = "idle"
  /\ ps' = [pc |-> "owned", acc |-> acct, owned |-> OwnedBy(acct) > 0, id |-> 0]
  /\ UNCHANGED <<world, measured, rec, osync, syncs, faults, switches>>

\* Mutation: a lifecycle that still shows lots is left open.
PsLoadEmptyOnly ==
  /\ ps.pc = "owned"
  /\ ps' = IF life.open /\ ~ps.owned /\ life.qty = 0
           THEN [ps EXCEPT !.pc = "close", !.id = life.id] ELSE IdlePs
  /\ UNCHANGED <<world, measured, rec, osync, syncs, faults, switches>>

\* reconcile_open_lifecycles_to_ownership loads what is open now,
PsLoad ==
  /\ ps.pc = "owned"
  /\ ps' = IF life.open /\ ~ps.owned THEN [ps EXCEPT !.pc = "close", !.id = life.id] ELSE IdlePs
  /\ UNCHANGED <<world, measured, rec, osync, syncs, faults, switches>>

\* and closes it by id.
PsClose ==
  /\ ps.pc = "close" /\ \A k \in Reconcilers : rec[k].held = {}
  /\ life' = IF life.id = ps.id THEN [life EXCEPT !.open = FALSE, !.qty = 0] ELSE life
  /\ ps' = IdlePs
  /\ UNCHANGED <<world, row, fills, clock, rec, osync, syncs, faults, switches>>

-----------------------------------------------------------------------------
\* External: the exchange executes lots (a SELL only lots that are held), the
\* owner sells the position by hand, or logs in to another account.
Execute(e) ==
  /\ exec[e] < Lots
  /\ (\E r \in Rows : ExecOf[r] = e /\ SideOf[r] = "SELL") => Held > 0
  /\ exec' = [exec EXCEPT ![e] = @ + 1]
  /\ UNCHANGED <<hand, acct, measured, rec, ps, osync, syncs, faults, switches>>
HandSell ==
  /\ hand < MaxHand /\ Held > 0
  /\ hand' = hand + Held
  /\ UNCHANGED <<exec, acct, measured, rec, ps, osync, syncs, faults, switches>>
Login ==
  /\ switches < MaxSwitches
  /\ acct' \in Accounts \ {acct}
  /\ switches' = switches + 1
  /\ UNCHANGED <<exec, hand, measured, rec, ps, osync, syncs, faults>>

Reconcile(k) ==
  \/ RecLoad(k) \/ RecApply(k) \/ RecCommit(k) \/ QtyLoad(k) \/ QtySum(k) \/ QtyWrite(k)
  \/ \E r \in Rows : RecGap(k, r)
PositionSync == PsOwn \/ PsLoad \/ PsClose

Next ==
  \/ \E e \in Execs : Execute(e)
  \/ HandSell \/ Login \/ SyncLoad \/ PositionSync
  \/ \E r \in Rows : Callback(r) \/ SyncApply(r)
  \/ \E k \in Reconcilers : Reconcile(k) \/ RecAbort(k)

Spec == Init /\ [][Next]_vars

\* The reconciliation worker and the position synchroniser are loops that run
\* as long as the server; callbacks may be lost.
FairSpec ==
  Spec /\ WF_vars(PositionSync) /\ \A k \in Reconcilers : WF_vars(Reconcile(k))

-----------------------------------------------------------------------------
Life == [id : Nat, open : BOOLEAN, qty : Nat, opened : 0..clock, acc : Accounts \union {NoAcc}]
Fill == [src : {"CALLBACK_DELTA", "RECONCILIATION"}, row : Rows, total : 1..Lots, qty : 1..Lots,
         at : 1..clock]

\* No fill is empty or larger than its order, no lifecycle sells more than it
\* has, and nothing is stamped with a time to come.
TypeOK ==
  /\ row \in [Rows -> [filled : 0..Lots, at : 0..clock]]
  /\ fills \subseteq Fill /\ life \in Life
  /\ \A k \in Reconcilers : /\ rec[k].pc \in {"idle", "fills", "qty", "sum", "write"}
                            /\ rec[k].staged \union rec[k].gap \subseteq Fill
                            /\ rec[k].held \subseteq Life /\ rec[k].sum \in Nat
  /\ ps \in [pc : {"idle", "owned", "close"}, acc : Accounts \union {NoAcc},
            owned : BOOLEAN, id : Nat]
  /\ osync.todo \subseteq Rows

\* Every fill stands for lots that were executed, each lot once, however
\* failed callbacks and their recovery interleave.
FillsAreReal == \A e \in Execs : Sum({f \in fills : ExecOf[f.row] = e}) <= exec[e]

\* A fill whose measurement failed is recorded in the end.
FillsRecovered == \A r \in Rows : <>[](Recorded(fills, r) >= row[r].filled)

\* The quantity of an open lifecycle becomes what its fills say, although it
\* is summed and written without a lock.
QtyConverges == <>[](life.open /\ Derived(life) >= 0 => life.qty = Derived(life))

\* Once the order rows say nothing is left, the lifecycle is closed for good:
\* no late recovery leaves a position open that the bot no longer has.
FlatCloses == <>[](OwnedBy(acct) = 0 => ~life.open)

\* What the reconciliation promises: once every fill is recorded, the
\* lifecycle holds the lots the order rows hold.
QtyIsOwned ==
  <>[](life.open /\ (\A r \in Rows : Recorded(fills, r) = row[r].filled) => life.qty = OwnedBy(acct))

\* What the position synchroniser promises: it closes a lifecycle only when
\* nothing is held,
SyncClosesOnlyFlat == [][ps' # ps /\ life.open /\ ~life'.open => Held <= 0]_vars

\* of the account whose snapshot it verified,
SyncClosesItsOwn == [][ps' # ps /\ life.open /\ ~life'.open => life.acc = ps.acc]_vars

\* and that a position sold by hand does not stay open for ever.
HandExitCloses == <>[](hand > 0 /\ Held = 0 => ~life.open)
=============================================================================
