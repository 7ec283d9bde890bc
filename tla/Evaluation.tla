----------------------------- MODULE Evaluation -----------------------------
(***************************************************************************)
(* The evaluation of a symbol: a scanner tick reads a snapshot, asks the   *)
(* gates, an admin's override or the model for a decision, and sends the   *)
(* order the decision allows.                                              *)
(*                                                                         *)
(* One symbol, evaluated twice in a tick at most: by the trade scan when   *)
(* it is on the watch list or has an override, and by the portfolio scan   *)
(* while the bot holds it.  Everything an evaluation awaits may find the   *)
(* world changed: the bar and the setup, the scene (what the significance  *)
(* detector compares: price, consensus, news, indicators), the position,   *)
(* the kill switch, the watch list and the override.                       *)
(*                                                                         *)
(* A setup is "weak" or known by its fingerprint; what the risk engine,    *)
(* the news lock, the daily loss limit, the price levels, the cooldowns    *)
(* and the order's preflight decide is chosen (OrderFlow has what follows  *)
(* a dispatch).  deterministic_entry_enabled is on.  `seen` is the         *)
(* position the snapshot and bot_positions show: it lags the account.      *)
(***************************************************************************)
EXTENDS Integers, FiniteSetsExt, TLC

CONSTANTS
  Fingerprints,  \* fingerprints of setups above the threshold
  MaxBars,       \* bound: bars
  MaxScenes,     \* bound: significant changes of the market
  MaxOverrides,  \* bound: overrides created
  MaxSwitches,   \* bound: changes of kill switch and watch list
  MaxFaults      \* bound: crashes, failed reads and inserts

ASSUME ConstantsAssumption ==
  /\ {MaxBars, MaxScenes} \subseteq Nat \ {0}
  /\ {MaxOverrides, MaxSwitches, MaxFaults} \subseteq Nat
  /\ "weak" \notin Fingerprints

VARIABLES
  market,  \* external: bar and scene
  admin,   \* kill switch, watch list, pending override (0: none), overrides and switches made
  pos,     \* position held, position seen, order under way
  claims,  \* ai_call_claims: pairs of bar and fingerprint
  base,    \* scanner memory: the scene of the detector's baseline, 0 without one
  tick,    \* the tick's step and the scene observed
  ev,      \* the evaluation under way: its step, what its snapshot showed, its decision
  asks,    \* ghost: how often the model was asked under each claim
  judged,  \* ghost: the last scene the model was asked about
  late,    \* ghost: orders sent since the kill switch or the list forbade them
  faults

vars == <<market, admin, pos, claims, base, tick, ev, asks, judged, late, faults>>

Keys == (1 .. MaxBars) \X Fingerprints
Idle == [step |-> "idle", scene |-> 0]
None == [at |-> "none", listed |-> FALSE, held |-> FALSE, scene |-> 0, key |-> <<0, "weak">>,
         claimed |-> FALSE, answered |-> FALSE, action |-> "WAIT", source |-> "none",
         audited |-> FALSE]

Init ==
  /\ market = [bar |-> 1, scene |-> 1]
  /\ admin \in [kill : {FALSE}, listed : BOOLEAN, over : {0}, made : {0}, switches : {0}]
  /\ \E held \in BOOLEAN : pos = [held |-> held, seen |-> held, order |-> "none"]
  /\ claims = {} /\ base = 0 /\ tick = Idle /\ ev = None
  /\ asks = [k \in Keys |-> 0] /\ judged = 0
  /\ late = 0 /\ faults = 0

Fault == faults < MaxFaults /\ faults' = faults + 1
Fine  == UNCHANGED faults
World == <<market, admin, pos>>
Ghosts == <<asks, judged, late>>

\* The evaluation goes on at a step, or has its raw decision.
Go(at) == ev' = [ev EXCEPT !.at = at]
Decide(action, source) ==
  ev' = [ev EXCEPT !.action = action, !.source = source,
                   !.at = IF action = "BUY" THEN "vetoes" ELSE "risk"]
Wait(source) == Decide("WAIT", source)

-----------------------------------------------------------------------------
(* _tick.                                                                  *)

\* The kill switch, a pause, the trading hours, a gateway that is down, positions
\* not loaded or an account that may not trade end the tick before it trades.  A
\* configuration that cannot be read counts as no kill switch.
TickStart ==
  /\ tick.step = "idle" /\ ev = None
  /\ \/ ~admin.kill /\ Fine
     \/ Fault
  /\ tick' = [Idle EXCEPT !.step = "scan"]
  /\ UNCHANGED <<World, claims, base, ev, Ghosts>>

TickSkipped == tick.step = "idle" /\ ev = None /\ UNCHANGED vars

\* The trade scan evaluates a listed symbol that is due, or one with an override.
ScanEvaluates ==
  /\ tick.step = "scan"
  /\ admin.listed \/ admin.over # 0
  /\ tick' = [tick EXCEPT !.step = "scanned"]
  /\ ev' = [None EXCEPT !.at = "snapshot"]
  /\ UNCHANGED <<World, claims, base, Ghosts, faults>>

ScanSkips ==
  /\ tick.step = "scan"
  /\ tick' = [tick EXCEPT !.step = "portfolio"]
  /\ UNCHANGED <<World, claims, base, ev, Ghosts, faults>>

\* Mutation: the kill switch was read when the tick started.
PermittedByTick == ev.action = "BUY" => admin.listed
Permitted == ~admin.kill /\ (ev.action = "BUY" => admin.listed)

\* _maybe_send_order, up to the reservation.  SELLs are sent as they are decided,
\* BUYs when all symbols were evaluated and only if rotation has no plan (RotationPlan).  The list
\* and the kill switch are read again, and a kill switch that cannot be read
\* refuses; so do the account, the preflight, a cooldown, a decision not stored.
Dispatch ==
  \/ ev' = None
  \/ ev.action # "WAIT" /\ Permitted /\ ev.audited /\ Go("send")

ScanDispatches ==
  /\ tick.step = "scanned" /\ ev.at = "decided"
  /\ Dispatch
  /\ tick' = [tick EXCEPT !.step = "portfolio"]
  /\ UNCHANGED <<World, claims, base, Ghosts, faults>>

\* _run_portfolio_scan is due and finds the position: it observes the symbol, or
\* fails to (scene 0) and evaluates it all the same.
PortfolioObserves ==
  /\ tick.step = "portfolio" /\ ev = None /\ pos.seen
  /\ \/ tick' = [tick EXCEPT !.step = "observed", !.scene = market.scene] /\ Fine
     \/ tick' = [tick EXCEPT !.step = "observed", !.scene = 0] /\ Fault
  /\ UNCHANGED <<World, claims, base, ev, Ghosts>>

\* SignificanceDetector.assess: no baseline, or the scene has changed since.
Significant == base = 0 \/ tick.scene # base

\* An unchanged scene is evaluated when the baseline is four hours old.
PortfolioEvaluates ==
  /\ tick.step = "observed"
  /\ \/ tick' = [tick EXCEPT !.step = "managing"] /\ ev' = [None EXCEPT !.at = "snapshot"]
     \/ ~Significant /\ tick' = Idle /\ ev' = None
  /\ UNCHANGED <<World, claims, base, Ghosts, faults>>

\* The observation becomes the baseline if the decision's source is the model.
\* Mutation: whatever decided.
BaselineAlways == tick.scene
Baseline == IF ev.source = "llm" /\ tick.scene # 0 THEN tick.scene ELSE base

PortfolioDispatches ==
  /\ tick.step = "managing" /\ ev.at = "decided"
  /\ base' = Baseline
  /\ Dispatch
  /\ tick' = Idle
  /\ UNCHANGED <<World, claims, Ghosts, faults>>

\* Nothing is left to do, or the gateway went away.
TickEnd ==
  /\ tick.step = "portfolio" /\ ev = None
  /\ tick' = Idle
  /\ UNCHANGED <<World, claims, base, ev, Ghosts, faults>>

-----------------------------------------------------------------------------
(* evaluate_symbol.                                                        *)

\* A rejected snapshot, one without a price or a context that cannot be read ends
\* the evaluation; a gateway that is down ends the scans of the tick too.
EvaluationFails ==
  /\ ev.at = "snapshot"
  /\ ev' = None
  /\ \/ tick' = Idle
     \/ tick.step = "scanned" /\ tick' = [tick EXCEPT !.step = "portfolio"]
  /\ UNCHANGED <<World, claims, base, Ghosts, faults>>

\* Controls that cannot be read are no kill switch, a watch list that cannot be
\* read lists nothing.
ControlsRead(listed, kill) ==
  \/ listed = admin.listed /\ kill = admin.kill /\ Fine
  \/ <<listed, kill>> # <<admin.listed, admin.kill>> /\ Fault

\* What the snapshot's signal request says of the symbol.
Shown(setup) == [ev EXCEPT !.held = pos.seen, !.scene = market.scene, !.key = <<market.bar, setup>>]

\* Snapshot, runtime controls, eligibility.  Unreliable data decides before the
\* override does.
Snapshot(reliable) ==
  /\ ev.at = "snapshot"
  /\ \E listed \in {admin.listed, FALSE}, kill \in {admin.kill, FALSE},
        setup \in Fingerprints \union {"weak"} :
       /\ ControlsRead(listed, kill)
       /\ ev' = [Shown(setup) EXCEPT !.at = IF kill \/ ~reliable THEN "risk" ELSE "override",
                 !.source = IF reliable THEN "none" ELSE "preflight-gate", !.listed = listed]
  /\ UNCHANGED <<World, claims, base, tick, Ghosts>>

\* consume_override reads the row ...
OverrideRead ==
  /\ ev.at = "override"
  /\ \/ admin.over # 0 /\ Fine /\ Go("consume")
     \/ ((admin.over = 0 /\ Fine) \/ Fault) /\ Go("gates")
  /\ UNCHANGED <<World, claims, base, tick, Ghosts>>

\* ... and deletes it by its key, whatever was written into it meanwhile.  A row
\* that had expired is not used.
OverrideConsume ==
  /\ ev.at = "consume"
  /\ admin' = [admin EXCEPT !.over = 0]
  /\ Go("gates") \/ \E action \in {"BUY", "SELL"} : Decide(action, "admin-override")
  /\ UNCHANGED <<market, pos, claims, base, tick, Ghosts, faults>>

\* preflight_wait_reason: what is neither listed nor held is not worth a call
\* while its indicators are neutral and no news is fresh.
\* Mutation: what is not listed is not.
NeutralUnlisted == ~ev.listed
Neutral == ~ev.listed /\ ~ev.held

NeutralGate ==
  /\ ev.at = "gates"
  /\ \/ Neutral /\ Wait("preflight-gate")
     \/ ev.held /\ Go("ask")
  /\ UNCHANGED <<World, claims, base, tick, Ghosts, faults>>

\* A weak setup is not asked about, nor one that was claimed in this bar.  The
\* claim is committed before the model is asked; if it fails, the model is asked
\* without.  A held position goes past this gate.
\* Mutation: the claim waits for the transaction that stores the decision.
ClaimedLater == claims
Claimed == claims \union {ev.key}

Worth == ev.key[2] # "weak"

SetupGate ==
  /\ ev.at = "gates" /\ ~ev.held
  /\ IF ~Worth THEN Wait("deterministic-setup-gate") /\ Fine /\ UNCHANGED claims
     ELSE \/ ev.key \in claims /\ Wait("ai-call-gate") /\ Fine /\ UNCHANGED claims
          \/ /\ ev.key \notin claims /\ claims' = Claimed /\ Fine
             /\ ev' = [ev EXCEPT !.at = "ask", !.claimed = TRUE]
          \/ Fault /\ Go("ask") /\ UNCHANGED claims
  /\ UNCHANGED <<World, base, tick, Ghosts>>

\* provider.decide: the model's answer, or the WAIT a provider that fails or is
\* degraded returns in its place.  The source is the same.
Ask ==
  /\ ev.at = "ask"
  /\ LET source == IF ev.held THEN "llm" ELSE "llm-veto" IN
     \E answered \in BOOLEAN, action \in {"BUY", "SELL", "WAIT"} :
       /\ answered \/ action = "WAIT"
       /\ ev' = [ev EXCEPT !.action = action, !.source = source, !.answered = answered,
                 !.at = IF action = "BUY" THEN "vetoes" ELSE "risk"]
  /\ judged' = ev.scene
  /\ asks' = IF ev.claimed THEN [asks EXCEPT ![ev.key] = Min({2, @ + 1})] ELSE asks
  /\ UNCHANGED <<World, claims, base, tick, late, faults>>

\* A BUY waits for the cooldown after an exit, adds to no position and to no BUY
\* under way, and needs levels.  What cannot be read vetoes nothing.
Vetoes ==
  /\ ev.at = "vetoes"
  /\ \/ Wait("reentry-cooldown") /\ Fine
     \/ (ev.held \/ pos.order = "BUY") /\ Wait("pyramiding-disabled") /\ Fine
     \/ Wait("deterministic-levels-unavailable") /\ Fine
     \/ /\ ~ev.held /\ Go("risk")
        /\ IF pos.order = "BUY" THEN Fault ELSE Fine
  /\ UNCHANGED <<World, claims, base, tick, Ghosts>>

\* persist_evaluation swallows its failure.
Stored(audited) ==
  \/ audited /\ Fine
  \/ ~audited /\ Fault

\* RiskEngine.evaluate, the news lock and the daily loss limit; then the decision
\* is stored, unless that fails.  Only a listed symbol is bought, only what the
\* snapshot showed is sold.
Risk ==
  /\ ev.at = "risk"
  /\ \E audited \in BOOLEAN :
       /\ Stored(audited)
       /\ \E action \in {"WAIT", ev.action} :
            /\ action = "BUY" => ev.listed
            /\ action = "SELL" => ev.held
            /\ ev' = [None EXCEPT !.at = "decided", !.action = action, !.source = ev.source,
                      !.answered = ev.answered, !.audited = audited]
  /\ UNCHANGED <<World, claims, base, tick, Ghosts>>

-----------------------------------------------------------------------------
(* The order, and the world.                                               *)

Send ==
  /\ ev.at = "send"
  /\ ev' = None
  /\ \/ /\ pos.order = "none" /\ pos' = [pos EXCEPT !.order = ev.action]
        /\ late' = IF admin.kill \/ (ev.action = "BUY" /\ ~admin.listed) THEN Min({2, late + 1}) ELSE 0
     \/ UNCHANGED <<pos, late>>
  /\ UNCHANGED <<market, admin, claims, base, tick, asks, judged, faults>>

OrderEnds ==
  /\ pos.order # "none"
  /\ \/ pos' = [pos EXCEPT !.order = "none"]
     \/ pos' = [pos EXCEPT !.order = "none", !.held = pos.order = "BUY"]
  /\ UNCHANGED <<market, admin, claims, base, tick, ev, Ghosts, faults>>

PositionSeen ==
  /\ pos.seen # pos.held /\ pos' = [pos EXCEPT !.seen = pos.held]
  /\ UNCHANGED <<market, admin, claims, base, tick, ev, Ghosts, faults>>

MarketMoves ==
  /\ \/ market.bar < MaxBars /\ market' = [market EXCEPT !.bar = @ + 1]
     \/ market.scene < MaxScenes /\ market' = [market EXCEPT !.scene = @ + 1]
  /\ UNCHANGED <<admin, pos, claims, base, tick, ev, Ghosts, faults>>

\* create_override replaces the symbol's pending one.
CreateOverride ==
  /\ admin.made < MaxOverrides
  /\ admin' = [admin EXCEPT !.made = @ + 1, !.over = admin.made + 1]
  /\ UNCHANGED <<market, pos, claims, base, tick, ev, Ghosts, faults>>

\* An admin turns the kill switch; the symbol is listed or taken off the list.
Switch ==
  /\ admin.switches < MaxSwitches
  /\ \/ admin' = [admin EXCEPT !.switches = @ + 1, !.kill = ~@]
     \/ admin' = [admin EXCEPT !.switches = @ + 1, !.listed = ~@]
  /\ late' = 0
  /\ UNCHANGED <<market, pos, claims, base, tick, ev, asks, judged, faults>>

\* Claims, overrides and orders are rows; the tick and the baseline are not.
Crash ==
  /\ Fault
  /\ tick' = Idle /\ ev' = None /\ base' = 0
  /\ UNCHANGED <<World, claims, Ghosts>>

Scanner ==
  \/ ScanEvaluates \/ ScanSkips \/ ScanDispatches \/ PortfolioObserves \/ PortfolioEvaluates
  \/ PortfolioDispatches \/ TickEnd \/ EvaluationFails \/ (\E reliable \in BOOLEAN : Snapshot(reliable)) \/ OverrideRead
  \/ OverrideConsume \/ NeutralGate \/ SetupGate \/ Ask \/ Vetoes \/ Risk \/ Send

Next ==
  \/ TickStart \/ TickSkipped \/ Scanner
  \/ OrderEnds \/ PositionSeen \/ MarketMoves \/ CreateOverride \/ Switch \/ Crash

Spec == Init /\ [][Next]_vars

\* The tick loop runs on.  The world lets a tick trade, answers an observation and
\* a snapshot, shows reliable data and a position again and again.
FairSpec ==
  /\ Spec
  /\ SF_vars(TickStart) /\ WF_vars(Scanner)
  /\ SF_vars(PortfolioObserves) /\ SF_vars(Snapshot(TRUE))

-----------------------------------------------------------------------------
(* Properties.                                                             *)

Steps == {"none", "snapshot", "override", "consume", "gates", "ask", "vetoes", "risk", "decided", "send"}

TypeOK ==
  /\ market \in [bar : 1 .. MaxBars, scene : 1 .. MaxScenes]
  /\ admin \in [kill : BOOLEAN, listed : BOOLEAN, over : 0 .. MaxOverrides,
                made : 0 .. MaxOverrides, switches : 0 .. MaxSwitches]
  /\ pos \in [held : BOOLEAN, seen : BOOLEAN, order : {"none", "BUY", "SELL"}]
  /\ claims \subseteq Keys /\ base \in 0 .. MaxScenes
  /\ tick \in [step : {"idle", "scan", "scanned", "portfolio", "observed", "managing"},
               scene : 0 .. MaxScenes]
  /\ ev.at \in Steps /\ ev.held \in BOOLEAN /\ ev.listed \in BOOLEAN /\ ev.audited \in BOOLEAN
  /\ ev.action \in {"BUY", "SELL", "WAIT"} /\ ev.scene \in 0 .. MaxScenes
  /\ (ev.claimed => ev.key \in Keys)
  /\ asks \in [Keys -> 0 .. 2] /\ judged \in 0 .. MaxScenes
  /\ late \in 0 .. 2 /\ faults \in 0 .. MaxFaults

\* The model is asked once about a setup in a bar, over restarts too.  (ai_call_gate:
\* the call can be claimed only once; an insert that fails excuses the call.)
SetupAskedOnce == \A k \in Keys : asks[k] <= 1

\* What the detector compares with was shown to the model: no gate and no override
\* hides a change of the market.  (scanner, Fix #6)
BaselineAsked == base <= judged

\* Comment scanner.py: the baseline is updated ONLY after a real LLM decision; the
\* WAIT of a provider that failed or is degraded must not make one.
BaselineAnswered == [][base' \notin {base, 0} => ev.answered]_vars

\* Once the kill switch is on, or a symbol is off the list, at most the order whose
\* gates had read it before still goes out.
StopsHold == late <= 1

\* A held position whose market has changed comes before the model, whatever the
\* gates that save calls would make of it.  (pipeline: an open position is always
\* managed)
PositionsManaged ==
  \A s \in 1 .. MaxScenes :
    (pos.seen /\ market.scene = s) ~> (judged >= s \/ ~pos.seen \/ admin.kill)
=============================================================================
