--------------------------- MODULE EvaluationProofs ---------------------------
(***************************************************************************)
(* What holds of an evaluation for any fingerprints, bars, scenes,         *)
(* overrides, switches and faults: its variables keep their types, the     *)
(* model is asked once about a setup in a bar, the detector's baseline was *)
(* shown to the model, and after a stop at most one order still goes out.  *)
(* None of the three is inductive: each needs what the evaluation under    *)
(* way has read and may still do (ClaimInv, SceneInv, StopInv).            *)
(*                                                                         *)
(* Then the profile an evaluation runs under (TradeProfiles), for any      *)
(* number of requests that interleave: it is one that is stored, and only  *)
(* a request whose read was overtaken takes the active one away.           *)
(***************************************************************************)
EXTENDS Evaluation, TradeProfiles, TLAPS

Sources == {"none", "preflight-gate", "admin-override", "deterministic-setup-gate", "ai-call-gate",
            "llm", "llm-veto", "reentry-cooldown", "pyramiding-disabled",
            "deterministic-levels-unavailable"}
Evaluations ==
  [at : Steps, listed : BOOLEAN, held : BOOLEAN, scene : 0 .. MaxScenes,
   key : (0 .. MaxBars) \X (Fingerprints \union {"weak"}), claimed : BOOLEAN, answered : BOOLEAN,
   action : {"BUY", "SELL", "WAIT"}, source : Sources, audited : BOOLEAN]

TypeInv ==
  /\ market \in [bar : 1 .. MaxBars, scene : 1 .. MaxScenes]
  /\ admin \in [kill : BOOLEAN, listed : BOOLEAN, over : 0 .. MaxOverrides,
                made : 0 .. MaxOverrides, switches : 0 .. MaxSwitches]
  /\ pos \in [held : BOOLEAN, seen : BOOLEAN, order : {"none", "BUY", "SELL"}]
  /\ claims \subseteq Keys /\ base \in 0 .. MaxScenes
  /\ tick \in [step : {"idle", "scan", "scanned", "portfolio", "observed", "managing"},
               scene : 0 .. MaxScenes]
  /\ ev \in Evaluations
  /\ asks \in [Keys -> 0 .. 2] /\ judged \in 0 .. MaxScenes
  /\ late \in 0 .. 2 /\ faults \in 0 .. MaxFaults

\* Where the snapshot was read and the model may still be asked.
Reading == ev.at \in {"override", "consume", "gates", "ask"}

\* What is read is of a bar, and what is sent is an order.
ReadInv ==
  /\ Reading => ev.key \in (1 .. MaxBars) \X (Fingerprints \union {"weak"})
  /\ ev.at = "send" => ev.action # "WAIT"

\* A claimed key is claimed for good, and asked about by none but the evaluation that claimed it.
ClaimInv ==
  /\ ev.at \in {"none", "snapshot", "override", "consume", "gates"} => ~ev.claimed
  /\ ev.claimed => ev.key \in claims
  /\ \A k \in Keys : asks[k] <= 1 /\ (k \notin claims => asks[k] = 0)
  /\ ev.at = "ask" /\ ev.claimed => asks[ev.key] = 0

\* Scenes only advance: the one an evaluation shows is no older than the one that was observed
\* before it, nor than any the model has seen.
SceneInv ==
  /\ base <= judged /\ judged <= market.scene /\ tick.scene <= market.scene
  /\ Reading => /\ judged <= ev.scene /\ ev.scene <= market.scene
                /\ tick.step = "managing" => tick.scene <= ev.scene
  /\ ev.source = "llm" /\ tick.step = "managing" => tick.scene <= judged

\* An order that is to go out after a late one was permitted as things stand.
StopInv == late <= 1 /\ (ev.at = "send" /\ late # 0 => Permitted)

-----------------------------------------------------------------------------

\* The provider's retry counter stays within two and its first failure counts one.
LEMMA MinType ==
  ASSUME NEW n \in 0 .. 2
  PROVE  /\ Min({2, n + 1}) \in 0 .. 2
         /\ n = 0 => Min({2, n + 1}) = 1
<1>1. \E x \in {2, n + 1} : \A y \in {2, n + 1} : x <= y
  <2>1. CASE n = 2
    BY <2>1
  <2>2. CASE n # 2
    <3>1. \A y \in {2, n + 1} : n + 1 <= y
      BY <2>2
    <3>. QED BY <3>1
  <2>. QED BY <2>1, <2>2
<1>2. Min({2, n + 1}) \in {2, n + 1} /\ \A y \in {2, n + 1} : Min({2, n + 1}) <= y
  BY <1>1 DEF Min
<1>. QED BY <1>2

\* No evaluation under way is an evaluation state.
LEMMA NoneType == None \in Evaluations
<1>1. <<0, "weak">> \in (0 .. MaxBars) \X (Fingerprints \union {"weak"})
  BY ConstantsAssumption
<1>. QED BY <1>1, ConstantsAssumption DEF None, Evaluations, Steps, Sources

\* The types hold at the start.
LEMMA TypeInit == Init => TypeInv
<1>. SUFFICES ASSUME Init PROVE TypeInv
  OBVIOUS
<1>. USE ConstantsAssumption DEF Init
<1>1. market \in [bar : 1 .. MaxBars, scene : 1 .. MaxScenes]
  OBVIOUS
<1>2. admin \in [kill : BOOLEAN, listed : BOOLEAN, over : 0 .. MaxOverrides,
                made : 0 .. MaxOverrides, switches : 0 .. MaxSwitches]
  <2>1. 0 \in 0 .. MaxOverrides /\ 0 \in 0 .. MaxSwitches
    OBVIOUS
  <2>2. PICK l \in BOOLEAN : admin = [kill |-> FALSE, listed |-> l, over |-> 0, made |-> 0, switches |-> 0]
    OBVIOUS
  <2>. QED BY <2>1, <2>2
<1>3. pos \in [held : BOOLEAN, seen : BOOLEAN, order : {"none", "BUY", "SELL"}]
  OBVIOUS
<1>4. tick \in [step : {"idle", "scan", "scanned", "portfolio", "observed", "managing"},
               scene : 0 .. MaxScenes]
  BY DEF Idle
<1>5. asks \in [Keys -> 0 .. 2]
  OBVIOUS
<1>. QED BY <1>1, <1>2, <1>3, <1>4, <1>5, NoneType DEF TypeInv

\* What Decide makes of an evaluation.
LEMMA DecideType ==
  ASSUME ev \in Evaluations, NEW a \in {"BUY", "SELL", "WAIT"}, NEW s \in Sources, Decide(a, s)
  PROVE  ev' \in Evaluations
  BY DEF Decide, Evaluations, Steps
\* Moving an evaluation to its next step keeps it an evaluation state.
LEMMA GoType ==
  ASSUME ev \in Evaluations, NEW at \in Steps, Go(at)
  PROVE  ev' \in Evaluations
  BY DEF Go, Evaluations

\* Every step keeps what is read that of a bar and what is sent an order.
LEMMA ReadStep == TypeInv /\ ReadInv /\ [Next]_vars => ReadInv'
<1>. SUFFICES ASSUME TypeInv, ReadInv, [Next]_vars PROVE ReadInv'
  OBVIOUS
<1>. USE DEF ReadInv, Reading
<1>1. CASE UNCHANGED ev
  BY <1>1
<1>2. CASE ev'.at \in {"none", "snapshot", "vetoes", "risk", "decided"}
  BY <1>2
<1>3. ASSUME NEW r \in BOOLEAN, Snapshot(r) PROVE ReadInv'
  <2>1. PICK l \in {admin.listed, FALSE}, s \in Fingerprints \union {"weak"}, k \in {admin.kill, FALSE} :
          ev' = [Shown(s) EXCEPT !.at = IF k \/ ~r THEN "risk" ELSE "override",
                   !.source = IF r THEN "none" ELSE "preflight-gate", !.listed = l]
    BY <1>3 DEF Snapshot
  <2>2. ev'.key = <<market.bar, s>> /\ ev'.at \in {"risk", "override"}
    BY <2>1 DEF TypeInv, Evaluations, Shown
  <2>3. market.bar \in 1 .. MaxBars
    BY DEF TypeInv
  <2>. QED BY <2>2, <2>3
<1>4. CASE \E at \in {"consume", "gates", "ask"} : Go(at) /\ Reading
  BY <1>4 DEF Go, TypeInv, Evaluations
<1>5. CASE Dispatch
  BY <1>5 DEF Dispatch, Go, None, TypeInv, Evaluations
<1>6. CASE SetupGate
  BY <1>6 DEF SetupGate, Wait, Decide, Go, TypeInv, Evaluations
<1>. QED
  <2>. USE DEF TypeInv, Evaluations
  <2>1. CASE TickStart \/ TickSkipped \/ ScanSkips \/ PortfolioObserves \/ TickEnd \/ UNCHANGED vars
    BY <2>1, <1>1 DEF TickStart, TickSkipped, ScanSkips, PortfolioObserves, TickEnd, vars
  <2>2. CASE ScanEvaluates \/ PortfolioEvaluates \/ EvaluationFails \/ Send \/ Crash
    BY <2>2, <1>2 DEF ScanEvaluates, PortfolioEvaluates, EvaluationFails, Send, Crash, None
  <2>3. CASE ScanDispatches \/ PortfolioDispatches
    BY <2>3, <1>5 DEF ScanDispatches, PortfolioDispatches
  <2>4. CASE OverrideRead
    BY <2>4, <1>4 DEF OverrideRead
  <2>5. CASE OverrideConsume
    BY <2>5, <1>2, <1>4 DEF OverrideConsume, Decide
  <2>6. CASE NeutralGate
    BY <2>6, <1>2, <1>4 DEF NeutralGate, Wait, Decide
  <2>7. CASE Ask
    BY <2>7, <1>2 DEF Ask
  <2>8. CASE Vetoes
    BY <2>8, <1>2 DEF Vetoes, Wait, Decide, Go
  <2>9. CASE Risk
    BY <2>9, <1>2 DEF Risk, None
  <2>10. CASE OrderEnds \/ PositionSeen \/ MarketMoves \/ CreateOverride \/ Switch
    BY <2>10, <1>1 DEF OrderEnds, PositionSeen, MarketMoves, CreateOverride, Switch
  <2>. QED
    BY <2>1, <2>2, <2>3, <2>4, <2>5, <2>6, <2>7, <2>8, <2>9, <2>10, <1>3, <1>6 DEF Next, Scanner

\* Every step keeps the types.
LEMMA TypeStep == TypeInv /\ ReadInv /\ [Next]_vars => TypeInv'
<1>. SUFFICES ASSUME TypeInv, ReadInv, [Next]_vars PROVE TypeInv'
  OBVIOUS
<1>. USE ConstantsAssumption DEF TypeInv
<1>1. CASE TickStart
  BY <1>1 DEF TickStart, World, Ghosts, Fine, Fault, Idle
<1>2. CASE TickSkipped
  BY <1>2 DEF TickSkipped, vars
<1>3. CASE ScanEvaluates \/ ScanSkips
  <2>1. [None EXCEPT !.at = "snapshot"] \in Evaluations
    BY NoneType DEF Evaluations, Steps
  <2>. QED BY <1>3, <2>1 DEF ScanEvaluates, ScanSkips, World, Ghosts
<1>4. CASE ScanDispatches
  <2>1. ev' \in Evaluations
    BY <1>4, NoneType, GoType DEF ScanDispatches, Dispatch, Steps
  <2>. QED BY <1>4, <2>1 DEF ScanDispatches, World, Ghosts
<1>5. CASE PortfolioObserves
  <2>1. tick' \in [step : {"idle", "scan", "scanned", "portfolio", "observed", "managing"},
                  scene : 0 .. MaxScenes]
    <3>1. market.scene \in 0 .. MaxScenes /\ 0 \in 0 .. MaxScenes
      OBVIOUS
    <3>2. CASE tick' = [tick EXCEPT !.step = "observed", !.scene = market.scene]
      BY <3>1, <3>2 DEF TypeInv
    <3>3. CASE tick' = [tick EXCEPT !.step = "observed", !.scene = 0]
      BY <3>1, <3>3
    <3>. QED BY <1>5, <3>2, <3>3 DEF PortfolioObserves
  <2>2. faults' \in 0 .. MaxFaults
    BY <1>5 DEF PortfolioObserves, Fine, Fault
  <2>. QED BY <1>5, <2>1, <2>2 DEF PortfolioObserves, World, Ghosts
<1>6. CASE PortfolioEvaluates
  <2>1. [None EXCEPT !.at = "snapshot"] \in Evaluations
    BY NoneType DEF Evaluations, Steps
  <2>. QED BY <1>6, <2>1, NoneType DEF PortfolioEvaluates, World, Ghosts, Idle
<1>7. CASE PortfolioDispatches
  <2>1. ev' \in Evaluations
    BY <1>7, NoneType, GoType DEF PortfolioDispatches, Dispatch, Steps
  <2>. QED BY <1>7, <2>1 DEF PortfolioDispatches, World, Ghosts, Baseline, Idle
<1>8. CASE TickEnd
  BY <1>8 DEF TickEnd, World, Ghosts, Idle
<1>9. CASE EvaluationFails
  BY <1>9, NoneType DEF EvaluationFails, World, Ghosts, Idle
<1>10. ASSUME NEW r \in BOOLEAN, Snapshot(r) PROVE TypeInv'
  <2>1. ev' \in Evaluations
    <3>1. PICK l \in {admin.listed, FALSE}, s \in Fingerprints \union {"weak"}, k \in {admin.kill, FALSE} :
            ev' = [Shown(s) EXCEPT !.at = IF k \/ ~r THEN "risk" ELSE "override",
                     !.source = IF r THEN "none" ELSE "preflight-gate", !.listed = l]
      BY <1>10 DEF Snapshot
    <3>2. <<market.bar, s>> \in (0 .. MaxBars) \X (Fingerprints \union {"weak"})
      OBVIOUS
    <3>3. Shown(s) \in Evaluations
      <4>1. pos.seen \in BOOLEAN /\ market.scene \in 0 .. MaxScenes
        OBVIOUS
      <4>. HIDE DEF TypeInv
      <4>. QED BY <3>2, <4>1 DEF TypeInv, Shown, Evaluations
    <3>4. (IF k \/ ~r THEN "risk" ELSE "override") \in Steps
      BY DEF Steps
    <3>5. (IF r THEN "none" ELSE "preflight-gate") \in Sources
      BY DEF Sources
    <3>6. l \in BOOLEAN
      OBVIOUS
    <3>. HIDE DEF TypeInv
    <3>. QED BY <3>1, <3>3, <3>4, <3>5, <3>6 DEF Evaluations
  <2>. QED BY <1>10, <2>1 DEF Snapshot, ControlsRead, World, Ghosts, Fine, Fault
<1>11. CASE OverrideRead
  <2>1. ev' \in Evaluations
    BY <1>11, GoType DEF OverrideRead, Steps
  <2>. QED BY <1>11, <2>1 DEF OverrideRead, World, Ghosts, Fine, Fault
<1>12. CASE OverrideConsume
  <2>1. ev' \in Evaluations
    BY <1>12, GoType, DecideType DEF OverrideConsume, Steps, Sources
  <2>. QED BY <1>12, <2>1 DEF OverrideConsume, Ghosts
<1>13. CASE NeutralGate
  <2>1. ev' \in Evaluations
    BY <1>13, GoType, DecideType DEF NeutralGate, Wait, Steps, Sources
  <2>. QED BY <1>13, <2>1 DEF NeutralGate, World, Ghosts
<1>14. CASE SetupGate
  <2>1. ev' \in Evaluations
    <3>1. CASE Wait("deterministic-setup-gate") \/ Wait("ai-call-gate")
      BY <3>1, DecideType DEF Wait, Sources
    <3>2. CASE Go("ask")
      BY <3>2, GoType DEF Steps
    <3>3. CASE ev' = [ev EXCEPT !.at = "ask", !.claimed = TRUE]
      BY <3>3 DEF Evaluations, Steps
    <3>. QED BY <1>14, <3>1, <3>2, <3>3 DEF SetupGate
  <2>2. claims' \subseteq Keys
    BY <1>14 DEF SetupGate, Claimed, Worth, ReadInv, Reading, Keys
  <2>. QED BY <1>14, <2>1, <2>2 DEF SetupGate, World, Ghosts, Fine, Fault
<1>15. CASE Ask
  <2>1. ev' \in Evaluations
    <3>1. PICK answered \in BOOLEAN, action \in {"BUY", "SELL", "WAIT"} :
            ev' = [ev EXCEPT !.action = action, !.source = IF ev.held THEN "llm" ELSE "llm-veto",
                             !.answered = answered, !.at = IF action = "BUY" THEN "vetoes" ELSE "risk"]
      BY <1>15 DEF Ask
    <3>2. (IF action = "BUY" THEN "vetoes" ELSE "risk") \in Steps
      BY DEF Steps
    <3>3. (IF ev.held THEN "llm" ELSE "llm-veto") \in Sources
      BY DEF Sources
    <3>. HIDE DEF TypeInv
    <3>. QED BY <3>1, <3>2, <3>3 DEF TypeInv, Evaluations
  <2>2. asks' \in [Keys -> 0 .. 2]
    BY <1>15, MinType DEF Ask
  <2>3. judged' \in 0 .. MaxScenes
    BY <1>15 DEF Ask, Evaluations
  <2>. QED BY <1>15, <2>1, <2>2, <2>3 DEF Ask, World
<1>16. CASE Vetoes
  <2>1. ev' \in Evaluations
    BY <1>16, GoType, DecideType DEF Vetoes, Wait, Steps, Sources
  <2>. QED BY <1>16, <2>1 DEF Vetoes, World, Ghosts, Fine, Fault
<1>17. CASE Risk
  <2>1. ev' \in Evaluations
    <3>1. PICK audited \in BOOLEAN, action \in {"WAIT", ev.action} :
            ev' = [None EXCEPT !.at = "decided", !.action = action, !.source = ev.source,
                               !.answered = ev.answered, !.audited = audited]
      BY <1>17 DEF Risk
    <3>2. action \in {"BUY", "SELL", "WAIT"} /\ ev.source \in Sources /\ ev.answered \in BOOLEAN
      BY DEF Evaluations
    <3>. HIDE DEF TypeInv
    <3>. QED BY <3>1, <3>2, NoneType DEF Evaluations, Steps
  <2>. QED BY <1>17, <2>1 DEF Risk, Stored, World, Ghosts, Fine, Fault
<1>18. CASE Send
  <2>1. ev.at = "send" => [pos EXCEPT !.order = ev.action] \in
                 [held : BOOLEAN, seen : BOOLEAN, order : {"none", "BUY", "SELL"}]
    <3>1. ev.at = "send" => ev.action \in {"none", "BUY", "SELL"}
      BY DEF ReadInv, Evaluations
    <3>. QED BY <3>1
  <2>2. late' \in 0 .. 2
    <3>1. Min({2, late + 1}) \in 0 .. 2
      BY MinType
    <3>2. late' \in {Min({2, late + 1}), 0, late}
      BY <1>18 DEF Send
    <3>. QED BY <3>1, <3>2
  <2>. QED BY <1>18, <2>1, <2>2, NoneType DEF Send
<1>19. CASE OrderEnds \/ PositionSeen
  BY <1>19 DEF OrderEnds, PositionSeen, Ghosts
<1>20. CASE MarketMoves
  BY <1>20 DEF MarketMoves, Ghosts
<1>21. CASE CreateOverride \/ Switch
  <2>1. admin' \in [kill : BOOLEAN, listed : BOOLEAN, over : 0 .. MaxOverrides,
                   made : 0 .. MaxOverrides, switches : 0 .. MaxSwitches]
    <3>1. CASE CreateOverride
      <4>1. admin.made + 1 \in 0 .. MaxOverrides
        BY <3>1 DEF CreateOverride
      <4>. QED BY <3>1, <4>1 DEF CreateOverride
    <3>2. CASE Switch
      <4>1. admin.switches + 1 \in 0 .. MaxSwitches /\ (~admin.kill) \in BOOLEAN /\ (~admin.listed) \in BOOLEAN
        BY <3>2 DEF Switch
      <4>2. CASE admin' = [admin EXCEPT !.switches = admin.switches + 1, !.kill = ~admin.kill]
        BY <4>1, <4>2
      <4>3. CASE admin' = [admin EXCEPT !.switches = admin.switches + 1, !.listed = ~admin.listed]
        BY <4>1, <4>3
      <4>. QED BY <3>2, <4>2, <4>3 DEF Switch
    <3>. QED BY <1>21, <3>1, <3>2
  <2>. QED BY <1>21, <2>1 DEF CreateOverride, Switch, Ghosts
<1>22. CASE Crash
  BY <1>22, NoneType DEF Crash, Fault, Idle, World, Ghosts
<1>23. CASE UNCHANGED vars
  BY <1>23 DEF vars
<1>. QED
  BY <1>1, <1>2, <1>3, <1>4, <1>5, <1>6, <1>7, <1>8, <1>9, <1>10, <1>11, <1>12, <1>13, <1>14,
     <1>15, <1>16, <1>17, <1>18, <1>19, <1>20, <1>21, <1>22, <1>23 DEF Next, Scanner

-----------------------------------------------------------------------------

\* Every step keeps a claimed key claimed, and asked about by none but the evaluation that claimed it.
LEMMA ClaimStep == TypeInv /\ ReadInv /\ ClaimInv /\ [Next]_vars => ClaimInv'
<1>. SUFFICES ASSUME TypeInv, ReadInv, ClaimInv, [Next]_vars PROVE ClaimInv'
  OBVIOUS
<1>. USE DEF ClaimInv
\* Nothing that was claimed is forgotten, and no evaluation becomes one that asks.
<1>1. CASE UNCHANGED <<claims, asks>> /\ (ev' = ev \/ ~ev'.claimed)
  BY <1>1
<1>2. CASE UNCHANGED <<claims, asks>> /\ ev'.claimed = ev.claimed /\ ev'.key = ev.key
           /\ (ev'.at \in {"vetoes", "risk", "decided", "send"} \/ ~ev.claimed)
  BY <1>2
<1>3. ASSUME NEW r \in BOOLEAN, Snapshot(r) PROVE ClaimInv'
  <2>1. PICK l \in {admin.listed, FALSE}, s \in Fingerprints \union {"weak"}, k \in {admin.kill, FALSE} :
          ev' = [Shown(s) EXCEPT !.at = IF k \/ ~r THEN "risk" ELSE "override",
                   !.source = IF r THEN "none" ELSE "preflight-gate", !.listed = l]
    BY <1>3 DEF Snapshot
  <2>2. ev'.claimed = ev.claimed
    BY <2>1 DEF TypeInv, Evaluations, Shown
  <2>. QED BY <1>1, <1>3, <2>2 DEF Snapshot, Ghosts
<1>4. CASE Dispatch /\ UNCHANGED <<claims, asks>>
  BY <1>1, <1>2, <1>4 DEF Dispatch, Go, None, TypeInv, Evaluations
\* A key is claimed that nobody has asked about.
<1>5. CASE SetupGate
  <2>1. UNCHANGED asks /\ ~ev.claimed
    BY <1>5 DEF SetupGate, Ghosts
  <2>2. CASE ~ev'.claimed /\ UNCHANGED claims
    BY <1>1, <2>1, <2>2
  <2>3. CASE ev.key \notin claims /\ claims' = claims \union {ev.key}
             /\ ev' = [ev EXCEPT !.at = "ask", !.claimed = TRUE] /\ Worth
    <3>1. ev'.at = "ask" /\ ev'.claimed /\ ev'.key = ev.key
      BY <2>3 DEF TypeInv, Evaluations
    <3>2. ev.key \in Keys
      BY <1>5, <2>3 DEF SetupGate, ReadInv, Reading, Worth, Keys
    <3>. QED BY <2>1, <2>3, <3>1, <3>2
  <2>. QED BY <1>5, <2>1, <2>2, <2>3
           DEF SetupGate, Claimed, Wait, Decide, Go, TypeInv, Evaluations
<1>6. CASE Ask
  <2>1. ev'.at \in {"vetoes", "risk"} /\ ev'.claimed = ev.claimed /\ ev'.key = ev.key /\ UNCHANGED claims
    BY <1>6 DEF Ask, TypeInv, Evaluations
  <2>2. CASE ~ev.claimed
    BY <1>6, <2>1, <2>2 DEF Ask
  <2>3. CASE ev.claimed
    <3>1. ev.key \in Keys /\ asks[ev.key] = 0
      BY <1>6, <2>3 DEF Ask, TypeInv
    <3>2. Min({2, asks[ev.key] + 1}) = 1
      BY <3>1, MinType
    <3>3. asks' = [asks EXCEPT ![ev.key] = 1]
      BY <1>6, <2>3, <3>2 DEF Ask
    <3>. QED BY <2>1, <2>3, <3>1, <3>3 DEF TypeInv
  <2>. QED BY <2>2, <2>3
<1>. QED
  <2>. USE DEF TypeInv, Evaluations, World, Ghosts
  <2>1. CASE TickStart \/ TickSkipped \/ ScanSkips \/ PortfolioObserves \/ TickEnd \/ UNCHANGED vars
    BY <2>1, <1>1 DEF TickStart, TickSkipped, ScanSkips, PortfolioObserves, TickEnd, vars
  <2>2. CASE ScanEvaluates \/ PortfolioEvaluates \/ EvaluationFails \/ Send \/ Crash
    BY <2>2, <1>1 DEF ScanEvaluates, PortfolioEvaluates, EvaluationFails, Send, Crash, None
  <2>3. CASE ScanDispatches \/ PortfolioDispatches
    BY <2>3, <1>4 DEF ScanDispatches, PortfolioDispatches
  <2>4. CASE OverrideRead
    BY <2>4, <1>2 DEF OverrideRead, Go
  <2>5. CASE OverrideConsume
    BY <2>5, <1>2 DEF OverrideConsume, Decide, Go
  <2>6. CASE NeutralGate
    <3>1. ~ev.claimed /\ UNCHANGED <<claims, asks>>
      BY <2>6 DEF NeutralGate
    <3>. QED BY <2>6, <3>1, <1>2 DEF NeutralGate, Wait, Decide, Go
  <2>7. CASE Vetoes
    BY <2>7, <1>2 DEF Vetoes, Wait, Decide, Go
  <2>8. CASE Risk
    BY <2>8, <1>1 DEF Risk, None
  <2>9. CASE OrderEnds \/ PositionSeen \/ MarketMoves \/ CreateOverride \/ Switch
    BY <2>9, <1>1 DEF OrderEnds, PositionSeen, MarketMoves, CreateOverride, Switch
  <2>. QED
    BY <2>1, <2>2, <2>3, <2>4, <2>5, <2>6, <2>7, <2>8, <2>9, <1>3, <1>5, <1>6 DEF Next, Scanner

-----------------------------------------------------------------------------

\* Every step keeps the scene an evaluation shows no older than the one observed before it.
LEMMA SceneStep == TypeInv /\ SceneInv /\ [Next]_vars => SceneInv'
<1>. SUFFICES ASSUME TypeInv, SceneInv, [Next]_vars PROVE SceneInv'
  OBVIOUS
<1>. USE ConstantsAssumption DEF SceneInv, Reading, TypeInv, Evaluations
\* No scene passes and nothing is shown to the model.
<1>1. CASE UNCHANGED <<market, base, judged, tick>> /\ ev'.source = ev.source /\ ev'.scene = ev.scene
           /\ (Reading' => Reading)
  BY <1>1
<1>2. CASE UNCHANGED <<market, base, judged, tick>> /\ ev'.source # "llm" /\ ev'.scene = ev.scene
           /\ (Reading' => Reading)
  BY <1>2
<1>3. CASE UNCHANGED <<market, base, judged>> /\ tick'.scene \in {tick.scene, market.scene, 0}
           /\ ~Reading' /\ ev'.source # "llm"
  BY <1>3
<1>4. CASE UNCHANGED <<market, base, judged>> /\ tick'.step # "managing" /\ tick'.scene \in {tick.scene, market.scene, 0}
           /\ (~Reading' \/ UNCHANGED ev)
  BY <1>4
<1>5. CASE MarketMoves
  <2>1. market'.scene \in {market.scene, market.scene + 1} /\ UNCHANGED <<base, judged, tick, ev>>
    BY <1>5 DEF MarketMoves, Ghosts
  <2>. QED BY <2>1
<1>6. ASSUME NEW r \in BOOLEAN, Snapshot(r) PROVE SceneInv'
  <2>1. PICK l \in {admin.listed, FALSE}, s \in Fingerprints \union {"weak"}, k \in {admin.kill, FALSE} :
          ev' = [Shown(s) EXCEPT !.at = IF k \/ ~r THEN "risk" ELSE "override",
                   !.source = IF r THEN "none" ELSE "preflight-gate", !.listed = l]
    <3>. HIDE DEF TypeInv, SceneInv, Evaluations, Reading
    <3>. QED BY <1>6 DEF Snapshot
  <2>2. ev'.scene = market.scene /\ ev'.source # "llm"
    BY <2>1 DEF Shown
  <2>. QED BY <1>6, <2>2 DEF Snapshot, World, Ghosts
<1>7. CASE Ask
  <2>1. ev'.at \in {"vetoes", "risk"} /\ judged' = ev.scene /\ UNCHANGED <<market, base, tick>>
    BY <1>7 DEF Ask, World
  <2>. QED BY <1>7, <2>1 DEF Ask
\* The observation of a scene the model has been asked about becomes the baseline.
<1>8. CASE PortfolioDispatches
  <2>1. base' = Baseline /\ ev.at = "decided" /\ tick.step = "managing" /\ tick' = Idle
        /\ UNCHANGED <<market, judged>>
    BY <1>8 DEF PortfolioDispatches, World, Ghosts
  <2>2. base' <= judged
    BY <2>1 DEF Baseline
  <2>3. ev'.at \in {"none", "send"}
    BY <1>8 DEF PortfolioDispatches, Dispatch, Go, None
  <2>. QED BY <2>1, <2>2, <2>3 DEF Idle
<1>9. CASE Crash
  BY <1>9 DEF Crash, World, Ghosts, Idle, None
<1>. QED
  <2>. USE DEF World, Ghosts, Idle, None
  <2>1. CASE TickSkipped \/ OrderEnds \/ PositionSeen \/ CreateOverride \/ Switch \/ UNCHANGED vars
    BY <2>1, <1>1 DEF TickSkipped, OrderEnds, PositionSeen, CreateOverride, Switch, vars
  <2>2. CASE TickStart \/ ScanEvaluates \/ ScanSkips \/ PortfolioObserves \/ PortfolioEvaluates \/ TickEnd \/ EvaluationFails
    <3>1. CASE ScanEvaluates \/ PortfolioEvaluates \/ EvaluationFails
      BY <3>1, <1>3 DEF ScanEvaluates, PortfolioEvaluates, EvaluationFails
    <3>2. CASE TickStart \/ ScanSkips \/ PortfolioObserves \/ TickEnd
      <4>1. UNCHANGED <<market, base, judged, ev>>
        BY <3>2 DEF TickStart, ScanSkips, PortfolioObserves, TickEnd
      <4>2. tick'.step # "managing" /\ tick'.scene \in {tick.scene, market.scene, 0}
        <5>1. tick' \in {[tick EXCEPT !.step = "portfolio"], [Idle EXCEPT !.step = "scan"], Idle,
                        [tick EXCEPT !.step = "observed", !.scene = market.scene],
                        [tick EXCEPT !.step = "observed", !.scene = 0]}
          BY <3>2 DEF TickStart, ScanSkips, PortfolioObserves, TickEnd
        <5>2. CASE tick' = [tick EXCEPT !.step = "observed", !.scene = market.scene]
          BY <5>2
        <5>3. CASE tick' = [tick EXCEPT !.step = "observed", !.scene = 0]
          BY <5>3
        <5>4. CASE tick' \in {[tick EXCEPT !.step = "portfolio"], [Idle EXCEPT !.step = "scan"], Idle}
          BY <5>4 DEF Idle
        <5>. QED BY <5>1, <5>2, <5>3, <5>4
      <4>. QED BY <1>4, <4>1, <4>2
    <3>. QED BY <2>2, <3>1, <3>2
  <2>3. CASE ScanDispatches
    BY <2>3, <1>4 DEF ScanDispatches, Dispatch, Go
  <2>4. CASE OverrideRead
    BY <2>4, <1>1 DEF OverrideRead, Go
  <2>5. CASE OverrideConsume
    BY <2>5, <1>1, <1>2 DEF OverrideConsume, Decide, Go
  <2>6. CASE NeutralGate
    BY <2>6, <1>1, <1>2 DEF NeutralGate, Wait, Decide, Go
  <2>7. CASE SetupGate
    BY <2>7, <1>1, <1>2 DEF SetupGate, Wait, Decide, Go
  <2>8. CASE Vetoes
    <3>1. ev'.scene = ev.scene /\ ev'.source \in {ev.source, "reentry-cooldown", "pyramiding-disabled",
                                                  "deterministic-levels-unavailable"}
          /\ ~Reading'
      <4>1. CASE \E source \in {"reentry-cooldown", "pyramiding-disabled",
                                "deterministic-levels-unavailable"} : Wait(source)
        BY <4>1 DEF Wait, Decide
      <4>2. CASE Go("risk")
        BY <4>2 DEF Go
      <4>. QED BY <2>8, <4>1, <4>2 DEF Vetoes
    <3>2. UNCHANGED <<market, base, judged, tick>>
      BY <2>8 DEF Vetoes
    <3>. QED BY <3>1, <3>2
  <2>9. CASE Risk
    <3>1. ev'.source = ev.source /\ ~Reading' /\ UNCHANGED <<market, base, judged, tick>>
      BY <2>9 DEF Risk
    <3>. QED BY <3>1
  <2>10. CASE Send
    BY <2>10, <1>3 DEF Send
  <2>. QED
    BY <2>1, <2>2, <2>3, <2>4, <2>5, <2>6, <2>7, <2>8, <2>9, <2>10, <1>5, <1>6, <1>7, <1>8, <1>9
       DEF Next, Scanner

-----------------------------------------------------------------------------

\* Every step keeps an order that goes out after a late one permitted as things stand.
LEMMA StopStep == TypeInv /\ StopInv /\ [Next]_vars => StopInv'
<1>. SUFFICES ASSUME TypeInv, StopInv, [Next]_vars PROVE StopInv'
  OBVIOUS
<1>. USE DEF StopInv, TypeInv, Evaluations
<1>1. CASE UNCHANGED late /\ ev'.at # "send"
  BY <1>1
<1>2. CASE UNCHANGED <<late, ev, admin>>
  BY <1>2 DEF Permitted
\* Dispatch reads the switch and the list.
<1>3. CASE Dispatch /\ UNCHANGED <<late, admin>>
  BY <1>3 DEF Dispatch, Go, None, Permitted
\* One order that was permitted when it was dispatched.
<1>4. CASE Send
  <2>1. Min({2, 0 + 1}) = 1
    BY MinType
  <2>2. late # 0 => ~(admin.kill \/ (ev.action = "BUY" /\ ~admin.listed))
    BY <1>4 DEF Send, Permitted
  <2>3. late' \in {late, 0} \/ (late = 0 /\ late' = 1)
    BY <1>4, <2>1, <2>2 DEF Send
  <2>. QED BY <1>4, <2>3 DEF Send, None
<1>5. CASE Switch
  BY <1>5 DEF Switch
<1>6. CASE OverrideConsume
  BY <1>1, <1>6 DEF OverrideConsume, Ghosts, Decide, Go
<1>7. CASE CreateOverride
  BY <1>7 DEF CreateOverride, Ghosts, Permitted
<1>8. ASSUME NEW r \in BOOLEAN, Snapshot(r) PROVE StopInv'
  <2>1. ev'.at \in {"risk", "override"}
    BY <1>8 DEF Snapshot, Shown
  <2>. QED BY <1>1, <1>8, <2>1 DEF Snapshot, Ghosts
<1>. QED
  <2>. USE DEF World, Ghosts, None
  <2>1. CASE TickStart \/ TickSkipped \/ ScanSkips \/ PortfolioObserves \/ TickEnd \/ UNCHANGED vars
    BY <2>1, <1>2 DEF TickStart, TickSkipped, ScanSkips, PortfolioObserves, TickEnd, vars
  <2>2. CASE ScanEvaluates \/ PortfolioEvaluates \/ EvaluationFails \/ Crash
    BY <2>2, <1>1 DEF ScanEvaluates, PortfolioEvaluates, EvaluationFails, Crash
  <2>3. CASE ScanDispatches \/ PortfolioDispatches
    BY <2>3, <1>3 DEF ScanDispatches, PortfolioDispatches
  <2>4. CASE OverrideRead \/ NeutralGate \/ SetupGate \/ Vetoes
    BY <2>4, <1>1 DEF OverrideRead, NeutralGate, SetupGate, Vetoes, Wait, Decide, Go
  <2>5. CASE Ask
    BY <2>5, <1>1 DEF Ask
  <2>6. CASE Risk
    BY <2>6, <1>1 DEF Risk
  <2>7. CASE OrderEnds \/ PositionSeen \/ MarketMoves
    BY <2>7, <1>2 DEF OrderEnds, PositionSeen, MarketMoves
  <2>. QED
    BY <2>1, <2>2, <2>3, <2>4, <2>5, <2>6, <2>7, <1>4, <1>5, <1>6, <1>7, <1>8 DEF Next, Scanner

-----------------------------------------------------------------------------

\* The parts of the invariant hold at the start.
LEMMA InvInit == Init => TypeInv /\ ReadInv /\ ClaimInv /\ SceneInv /\ StopInv
<1>. SUFFICES ASSUME Init PROVE ReadInv /\ ClaimInv /\ SceneInv /\ StopInv
  BY TypeInit
<1>. USE DEF Init, None, Reading
<1>1. ReadInv
  BY DEF ReadInv
<1>2. ClaimInv
  BY DEF ClaimInv
<1>3. SceneInv
  BY DEF SceneInv, Idle
<1>4. StopInv
  BY DEF StopInv
<1>. QED BY <1>1, <1>2, <1>3, <1>4

\* Every reachable state is one of the inductive invariant.
LEMMA Inductive == Spec => [](TypeInv /\ ReadInv /\ ClaimInv /\ SceneInv /\ StopInv)
<1>1. TypeInv /\ ReadInv /\ ClaimInv /\ SceneInv /\ StopInv /\ [Next]_vars
      => (TypeInv /\ ReadInv /\ ClaimInv /\ SceneInv /\ StopInv)'
  BY TypeStep, ReadStep, ClaimStep, SceneStep, StopStep
<1>. QED BY InvInit, <1>1, PTL DEF Spec

\* The variables of an evaluation, of the tick and of the world around them keep their types, and
\* what is claimed is a setup in a bar.
THEOREM TypeCorrect == Spec => []TypeOK
<1>1. TypeInv /\ ClaimInv => TypeOK
  BY DEF TypeInv, ClaimInv, Evaluations, TypeOK
<1>. QED BY Inductive, <1>1, PTL

\* ai_call_gate: whatever bars pass, processes crash and claims fail to be stored, no setup is
\* put to the model twice in a bar under a claim.
THEOREM SetupAsked == Spec => []SetupAskedOnce
<1>1. ClaimInv => SetupAskedOnce
  BY DEF ClaimInv, SetupAskedOnce
<1>. QED BY Inductive, <1>1, PTL

\* scanner, Fix #6: the scene the significance detector compares with is never newer than what
\* the model was asked about, so that no change of the market is taken for a judged one.
THEOREM BaselineShown == Spec => []BaselineAsked
<1>1. SceneInv => BaselineAsked
  BY DEF SceneInv, BaselineAsked
<1>. QED BY Inductive, <1>1, PTL

\* _maybe_send_order: after the kill switch or the watch list forbids it, at most the order that was
\* past its last reading of them is sent.
THEOREM StopsAreKept == Spec => []StopsHold
<1>1. StopInv => StopsHold
  BY DEF StopInv, StopsHold
<1>. QED BY Inductive, <1>1, PTL

-----------------------------------------------------------------------------
(* TradeProfiles.                                                          *)

ProfileTasks ==
  [step : {"idle", "read", "check", "commit"}, req : Requests \union {NoRequest},
   seen : Profile, ptr : Names \union {NoName}, stale : BOOLEAN]
Resolvings ==
  [at : {"idle", "seed", "pointer", "profile", "default", "done"}, missing : SUBSET Builtins,
   name : Names \union {NoName}, used : Profile]

\* One row is the default: shipped, enabled, there.
RowsInv ==
  /\ \A c \in Codes : stored[c] = NoProfile \/ stored[c].id \in 1..ids
  /\ stored[Default].id \in 1..ids
  /\ stored[Default].default /\ stored[Default].enabled /\ stored[Default].builtin
  /\ \A c \in Codes : stored[c].default => c = Default

\* What a request saw of its profile, and what it still is where no other has committed.
SeenInv ==
  \A a \in Admins :
    /\ task[a].step # "idle" => task[a].req \in Requests
    /\ task[a].step \in {"check", "commit"} =>
         /\ task[a].req.op \in {"disable", "delete"} => task[a].req.name[1] # Default
         /\ task[a].req.op = "activate" => task[a].seen.enabled
         /\ task[a].req.op # "create" => task[a].seen.id \in Nat \ {0}
         /\ task[a].req.op # "create" /\ ~task[a].stale =>
              stored[task[a].req.name[1]] = task[a].seen
    /\ task[a].step = "commit" /\ task[a].req.op \in {"disable", "delete"} /\ ~task[a].stale =>
         pointer # task[a].req.name

ResolveInv == Default \notin eval.missing /\ ResolvesStored

ProfilesInv == ProfilesTypeOK /\ RowsInv /\ SeenInv /\ ResolveInv

\* Rows, requests and readings that are new are of their types.
LEMMA ProfileTypes ==
  /\ NoProfile \in Profile /\ NoRequest \notin Requests /\ NoTask \in ProfileTasks
  /\ Resting \in Resolvings /\ Default \in Codes /\ NoName \notin Names
  /\ \A id \in Nat, l \in Limits : Row(id, l) \in Profile
  /\ \A id \in Nat, c \in Builtins : Built(c, id) \in Profile
<1>. USE ProfilesAssumption
<1>1. NoProfile \in Profile
  BY DEF NoProfile, Profile
<1>2. NoRequest \notin Requests
  BY DEF NoRequest, Requests
<1>3. NoName \notin Names
  BY DEF NoName, Names
<1>4. NoTask \in ProfileTasks
  BY <1>1 DEF NoTask, ProfileTasks
<1>5. Resting \in Resolvings
  BY <1>1 DEF Resting, Resolvings
<1>6. ASSUME NEW id \in Nat, NEW l \in Limits PROVE Row(id, l) \in Profile
  BY <1>6 DEF Row, Profile
<1>7. ASSUME NEW id \in Nat, NEW c \in Builtins PROVE Built(c, id) \in Profile
  <2>1. Shipped[c] \in Limits
    OBVIOUS
  <2>. QED BY <2>1 DEF Built, Profile
<1>. QED BY <1>1, <1>2, <1>3, <1>4, <1>5, <1>6, <1>7 DEF Codes

\* What the fields of a row that is shipped are, and of one that is new.
LEMMA BuiltFields ==
  /\ NoProfile.id = -1 /\ ~NoProfile.default /\ ~NoProfile.enabled
  /\ \A id, l : Row(id, l).id = id /\ ~Row(id, l).default
  /\ \A c, id : /\ Built(c, id).id = id /\ Built(c, id).enabled /\ Built(c, id).builtin
                /\ Built(c, id).default <=> c = Default
<1>1. ASSUME NEW c, NEW id PROVE Built(c, id).default <=> c = Default
  BY Zenon DEF Built
<1>. QED BY <1>1 DEF NoProfile, Row, Built

\* What a request makes of limits are limits.
LEMMA ChangedType ==
  ASSUME NEW l \in Limits, NEW ch \in Changes
  PROVE  Changed(l, ch) \in Limits
<1>1. PICK S \in SUBSET Fields : ch \in [S -> Values]
  BY DEF Changes
<1>. QED BY <1>1 DEF Changed, Limits

\* What a request says is of its types.
LEMMA RequestTypes ==
  ASSUME NEW q \in Requests
  PROVE  /\ q.to \in Codes /\ q.name \in Names \union {NoName} /\ q.name[1] \in Codes
         /\ q.op # "create" => q.name \in Names
         /\ q.op \in {"create", "update"} => q.changes \in Changes
         /\ q.op \in {"create", "update", "clone", "disable", "delete", "activate"}
BY ProfilesAssumption DEF Requests, Names, NoName, Codes

\* The invariant holds at the start.
LEMMA ProfilesInvInit == ProfilesInit => ProfilesInv
<1>. SUFFICES ASSUME ProfilesInit PROVE ProfilesInv
  OBVIOUS
<1>. USE ProfilesAssumption, ProfileTypes
<1>1. PICK S \in SUBSET Builtins :
        Default \in S /\ stored = [c \in Codes |-> IF c \in S THEN Built(c, 1) ELSE NoProfile]
  BY DEF ProfilesInit
<1>2. ids = 1 /\ asked = 0 /\ pointer = NoName /\ task = [a \in Admins |-> NoTask] /\ eval = Resting
  BY DEF ProfilesInit
<1>3. stored \in [Codes -> Profile]
  BY <1>1
<1>4. ProfilesTypeOK
  BY <1>2, <1>3 DEF ProfilesTypeOK, ProfileTasks, Resolvings
<1>5. RowsInv
  <2>1. \A c \in Codes : stored[c] = NoProfile \/ (c \in S /\ stored[c] = Built(c, 1))
    BY <1>1
  <2>2. stored[Default] = Built(Default, 1)
    BY <1>1
  <2>. QED BY <1>2, <2>1, <2>2, BuiltFields DEF RowsInv
<1>6. SeenInv
  BY <1>2 DEF SeenInv, NoTask
<1>7. ResolveInv
  BY <1>2 DEF ResolveInv, Resting, ResolvesStored
<1>. QED BY <1>4, <1>5, <1>6, <1>7 DEF ProfilesInv

\* A request that is answered or goes on from what it reads disturbs no other.
LEMMA AnswerKeeps ==
  ASSUME ProfilesInv, NEW a \in Admins, Answer(a), UNCHANGED <<stored, pointer, eval, ids, asked>>
  PROVE  ProfilesInv'
<1>. USE ProfileTypes DEF ProfilesInv, Answer
<1>1. ProfilesTypeOK'
  BY DEF ProfilesTypeOK, ProfileTasks
<1>2. RowsInv'
  BY DEF RowsInv
<1>3. SeenInv'
  BY DEF SeenInv, NoTask, ProfilesTypeOK
<1>4. ResolveInv'
  BY DEF ResolveInv, ResolvesStored
<1>. QED BY <1>1, <1>2, <1>3, <1>4

\* A commit makes stale what the others have seen, so that only the rows are left to be looked at.
LEMMA CommitKeeps ==
  ASSUME ProfilesInv, NEW a \in Admins, Commits(a), UNCHANGED <<eval, asked>>,
         stored' \in [Codes -> Profile], pointer' \in Names \union {NoName}, ids' \in Nat, RowsInv'
  PROVE  ProfilesInv'
<1>. USE ProfileTypes DEF ProfilesInv, Commits
<1>1. \A b \in Admins : task[b] \in ProfileTasks
  BY DEF ProfilesTypeOK, ProfileTasks
<1>2. \A b \in Admins \ {a} :
        /\ task'[b] \in ProfileTasks
        /\ task'[b].step = task[b].step /\ task'[b].req = task[b].req
        /\ task'[b].seen = task[b].seen /\ task'[b].ptr = task[b].ptr
        /\ task[b].step \in {"check", "commit"} => task'[b].stale
  BY <1>1 DEF ProfileTasks
<1>3. task'[a] = NoTask
  OBVIOUS
<1>4. ProfilesTypeOK'
  BY <1>2, <1>3 DEF ProfilesTypeOK, ProfileTasks
<1>5. SeenInv'
  <2>. SUFFICES ASSUME NEW b \in Admins
                PROVE  /\ task'[b].step # "idle" => task'[b].req \in Requests
                       /\ task'[b].step \in {"check", "commit"} =>
                            /\ task'[b].req.op \in {"disable", "delete"} => task'[b].req.name[1] # Default
                            /\ task'[b].req.op = "activate" => task'[b].seen.enabled
                            /\ task'[b].req.op # "create" => task'[b].seen.id \in Nat \ {0}
                            /\ task'[b].stale
    BY DEF SeenInv
  <2>1. CASE b = a
    BY <2>1, <1>3 DEF NoTask
  <2>2. CASE b # a
    <3>1. /\ task'[b].step = task[b].step /\ task'[b].req = task[b].req
          /\ task'[b].seen = task[b].seen
          /\ task[b].step \in {"check", "commit"} => task'[b].stale
      BY <2>2, <1>2
    <3>. QED BY <3>1 DEF SeenInv
  <2>. QED BY <2>1, <2>2
<1>6. ResolveInv'
  BY DEF ResolveInv, ResolvesStored
<1>. QED BY <1>4, <1>5, <1>6

\* A row that is inserted takes a free code and an id of its own.
LEMMA InsertKeeps ==
  ASSUME ProfilesInv, NEW a \in Admins, NEW limits \in Limits,
         task[a].step = "commit", Insert(a, limits)
  PROVE  ProfilesInv'
<1>. USE ProfileTypes DEF ProfilesInv, Insert
<1>. DEFINE c == task[a].req.to
<1>1. c \in Codes
  BY RequestTypes DEF SeenInv
<1>2. CASE Exists(stored[c])
  BY <1>2, AnswerKeeps DEF Fails
<1>3. CASE ~Exists(stored[c])
  <2>1. /\ stored' = [stored EXCEPT ![c] = Row(ids + 1, limits)] /\ ids' = ids + 1
        /\ Commits(a) /\ UNCHANGED <<pointer, eval, asked>>
    BY <1>3
  <2>2. stored \in [Codes -> Profile] /\ ids \in Nat /\ pointer \in Names \union {NoName}
    BY DEF ProfilesTypeOK
  <2>3. stored[c] = NoProfile
    BY <1>3 DEF Exists
  <2>4. c # Default
    BY <2>3, BuiltFields DEF RowsInv
  <2>5. Row(ids + 1, limits) \in Profile
    BY <2>2
  <2>6. RowsInv'
    BY <1>1, <2>1, <2>2, <2>4, BuiltFields DEF RowsInv
  <2>. QED BY <1>1, <2>1, <2>2, <2>5, <2>6, CommitKeeps
<1>. QED BY <1>2, <1>3

\* A row that is rewritten where it is keeps its id and whether it is the default, and the default
\* stays enabled.
LEMMA RewriteKeeps ==
  ASSUME ProfilesInv, NEW a \in Admins, Commits(a), UNCHANGED <<pointer, ids, eval, asked>>,
         NEW c \in Codes, NEW p \in Profile, stored' = [stored EXCEPT ![c] = p],
         p = NoProfile \/ (p.id = stored[c].id /\ p.default = stored[c].default),
         c = Default => p # NoProfile /\ p.default /\ p.enabled /\ p.builtin,
         stored[c] # NoProfile
  PROVE  ProfilesInv'
<1>. USE ProfileTypes DEF ProfilesInv
<1>1. /\ stored \in [Codes -> Profile] /\ stored' \in [Codes -> Profile] /\ ids \in Nat
      /\ pointer \in Names \union {NoName}
  BY DEF ProfilesTypeOK
<1>2. RowsInv'
  BY <1>1, BuiltFields DEF RowsInv
<1>. QED BY <1>1, <1>2, CommitKeeps

\* What a request that commits has seen.
LEMMA ReadyTypes ==
  ASSUME ProfilesInv, NEW a \in Admins, NEW op, Ready(a, op), op # "create"
  PROVE  /\ task[a].req \in Requests /\ task[a].req.op = op /\ task[a].req.name[1] \in Codes
         /\ task[a].seen \in Profile /\ task[a].seen.id \in Nat \ {0}
         /\ op \in {"disable", "delete"} => task[a].req.name[1] # Default
         /\ Same(a) => stored[task[a].req.name[1]] # NoProfile
<1>. USE DEF Ready
<1>1. task[a] \in ProfileTasks
  BY DEF ProfilesInv, ProfilesTypeOK, ProfileTasks
<1>2. task[a].req \in Requests /\ task[a].req.op = op
  BY DEF ProfilesInv, SeenInv
<1>3. /\ task[a].seen.id \in Nat \ {0}
      /\ op \in {"disable", "delete"} => task[a].req.name[1] # Default
  BY DEF ProfilesInv, SeenInv
<1>4. Same(a) => stored[task[a].req.name[1]] # NoProfile
  BY <1>3, BuiltFields DEF Same
<1>. QED BY <1>1, <1>2, <1>3, <1>4, RequestTypes DEF ProfileTasks

\* A row with another version and other limits is the row otherwise.
Rewritten(p, v, l) == [p EXCEPT !.version = v, !.limits = l]

\* What the fields of a row are that is rewritten so.
LEMMA RowRewritten ==
  ASSUME NEW p \in Profile, NEW v \in Nat, NEW l \in Limits
  PROVE  /\ Rewritten(p, v, l) \in Profile
         /\ Rewritten(p, v, l).id = p.id /\ Rewritten(p, v, l).default = p.default
         /\ Rewritten(p, v, l).version = v /\ Rewritten(p, v, l).limits = l
         /\ Rewritten(p, v, l).enabled = p.enabled /\ Rewritten(p, v, l).builtin = p.builtin
BY DEF Profile, Rewritten

\* An update writes version and limits, and nothing else of the row that it read.
LEMMA UpdateRow ==
  ASSUME ProfilesInv, NEW a \in Admins, UpdateProfile(a), Same(a)
  PROVE  \E l \in Limits :
           /\ stored' = [stored EXCEPT ![task[a].req.name[1]] =
                           Rewritten(stored[task[a].req.name[1]], task[a].seen.version + 1, l)]
           /\ Commits(a) /\ UNCHANGED <<pointer, ids, eval, asked>>
<1>. DEFINE c == task[a].req.name[1]
            seen == task[a].seen
            new == Changed(seen.limits, task[a].req.changes)
            lims == [f \in Fields |-> IF new[f] # seen.limits[f] THEN new[f] ELSE stored[c].limits[f]]
<1>1. Ready(a, "update")
  BY DEF UpdateProfile
<1>2. task[a].req \in Requests /\ task[a].req.op = "update" /\ c \in Codes /\ seen \in Profile
  BY <1>1, ReadyTypes
<1>3. stored \in [Codes -> Profile]
  BY DEF ProfilesInv, ProfilesTypeOK
<1>4. new \in Limits
  BY <1>2, RequestTypes, ChangedType DEF Profile
<1>5. lims \in Limits
  BY <1>2, <1>3, <1>4 DEF Limits, Profile
<1>6. stored' = [stored EXCEPT ![c] = Rewritten(stored[c], seen.version + 1, lims)]
  BY <1>2, <1>3 DEF UpdateProfile, Rewritten
<1>7. Commits(a) /\ UNCHANGED <<pointer, ids, eval, asked>>
  BY DEF UpdateProfile
<1>. QED BY <1>5, <1>6, <1>7

\* An update leaves which rows there are, and which is the default.
LEMMA UpdateKeeps ==
  ASSUME ProfilesInv, NEW a \in Admins, UpdateProfile(a)
  PROVE  ProfilesInv'
<1>1. Ready(a, "update") /\ UNCHANGED <<eval, asked>>
  BY DEF UpdateProfile
<1>2. CASE ~Same(a)
  BY <1>1, <1>2, AnswerKeeps DEF UpdateProfile, Fails
<1>3. CASE Same(a)
  <2>. DEFINE c == task[a].req.name[1]
              v == task[a].seen.version + 1
  <2>1. PICK l \in Limits :
          /\ stored' = [stored EXCEPT ![c] = Rewritten(stored[c], v, l)]
          /\ Commits(a) /\ UNCHANGED <<pointer, ids, eval, asked>>
    BY <1>3, UpdateRow
  <2>2. c \in Codes /\ stored[c] # NoProfile /\ v \in Nat
    BY <1>1, <1>3, ReadyTypes DEF Profile
  <2>3. stored[c] \in Profile
    BY <2>2 DEF ProfilesInv, ProfilesTypeOK
  <2>. DEFINE row == Rewritten(stored[c], v, l)
  <2>4. /\ row \in Profile /\ row.id = stored[c].id /\ row.default = stored[c].default
        /\ row.enabled = stored[c].enabled /\ row.builtin = stored[c].builtin
    BY <2>2, <2>3, RowRewritten
  <2>5. c = Default => row # NoProfile /\ row.default /\ row.enabled /\ row.builtin
    BY <2>4, BuiltFields DEF ProfilesInv, RowsInv
  <2>. HIDE DEF c, v
  <2>. QED BY <2>1, <2>2, <2>4, <2>5, RewriteKeeps
<1>. QED BY <1>2, <1>3

\* Disabling writes one field of a row that is not the default.
LEMMA DisableKeeps ==
  ASSUME ProfilesInv, NEW a \in Admins, DisableProfile(a)
  PROVE  ProfilesInv'
<1>. DEFINE c == task[a].req.name[1]
<1>1. Ready(a, "disable") /\ UNCHANGED <<eval, asked>>
  BY DEF DisableProfile
<1>2. CASE ~task[a].seen.enabled \/ ~Same(a)
  BY <1>1, <1>2, AnswerKeeps DEF DisableProfile, Fails
<1>3. CASE task[a].seen.enabled /\ Same(a)
  <2>1. c \in Codes /\ stored[c] # NoProfile /\ c # Default
    BY <1>1, <1>3, ReadyTypes
  <2>2. stored[c] \in Profile
    BY <2>1 DEF ProfilesInv, ProfilesTypeOK
  <2>. DEFINE row == [stored[c] EXCEPT !.enabled = FALSE]
  <2>3. row \in Profile /\ row.id = stored[c].id /\ row.default = stored[c].default
    BY <2>2 DEF Profile
  <2>4. stored' = [stored EXCEPT ![c] = row] /\ Commits(a) /\ UNCHANGED <<pointer, ids>>
    BY <1>3 DEF DisableProfile
  <2>. HIDE DEF row, c
  <2>. QED BY <1>1, <2>1, <2>3, <2>4, RewriteKeeps
<1>. QED BY <1>2, <1>3

\* What is deleted is not the default.
LEMMA DeleteKeeps ==
  ASSUME ProfilesInv, NEW a \in Admins, DeleteProfile(a)
  PROVE  ProfilesInv'
<1>. DEFINE c == task[a].req.name[1]
<1>1. Ready(a, "delete") /\ UNCHANGED <<eval, asked>>
  BY DEF DeleteProfile
<1>2. CASE ~Same(a)
  BY <1>1, <1>2, AnswerKeeps DEF DeleteProfile, Fails
<1>3. CASE Same(a)
  <2>1. c \in Codes /\ stored[c] # NoProfile /\ c # Default
    BY <1>1, <1>3, ReadyTypes
  <2>2. stored' = [stored EXCEPT ![c] = NoProfile] /\ Commits(a) /\ UNCHANGED <<pointer, ids>>
    BY <1>3 DEF DeleteProfile
  <2>. HIDE DEF c
  <2>. QED BY <1>1, <2>1, <2>2, RewriteKeeps, ProfileTypes
<1>. QED BY <1>2, <1>3

\* Activating writes the pointer only.
LEMMA ActivateKeeps ==
  ASSUME ProfilesInv, NEW a \in Admins, ActivateProfile(a)
  PROVE  ProfilesInv'
<1>1. Ready(a, "activate") /\ UNCHANGED <<eval, asked>>
  BY DEF ActivateProfile
<1>2. CASE Fails(a)
  BY <1>1, <1>2, AnswerKeeps DEF Fails
<1>3. CASE ~Fails(a)
  <2>1. pointer' = task[a].req.name /\ Commits(a) /\ UNCHANGED <<stored, ids>>
    BY <1>3 DEF ActivateProfile
  <2>2. pointer' \in Names
    BY <1>1, <2>1, ReadyTypes, RequestTypes
  <2>3. stored' \in [Codes -> Profile] /\ ids' \in Nat /\ RowsInv'
    BY <2>1 DEF ProfilesInv, ProfilesTypeOK, RowsInv
  <2>. QED BY <1>1, <2>1, <2>2, <2>3, CommitKeeps
<1>. QED BY <1>2, <1>3

\* A request that arrives, or goes on with what it has read, disturbs no other.
LEMMA ProceedKeeps ==
  ASSUME ProfilesInv, NEW a \in Admins, NEW t \in ProfileTasks, task' = [task EXCEPT ![a] = t],
         UNCHANGED <<stored, pointer, eval, ids>>, asked' \in 0..MaxRequests,
         t.step # "idle" => t.req \in Requests,
         t.step \in {"check", "commit"} =>
           /\ t.req.op \in {"disable", "delete"} => t.req.name[1] # Default
           /\ t.req.op = "activate" => t.seen.enabled
           /\ t.req.op # "create" => t.seen.id \in Nat \ {0}
           /\ t.req.op # "create" /\ ~t.stale => stored[t.req.name[1]] = t.seen,
         t.step = "commit" /\ t.req.op \in {"disable", "delete"} /\ ~t.stale => pointer # t.req.name
  PROVE  ProfilesInv'
<1>. USE DEF ProfilesInv
<1>1. ProfilesTypeOK'
  BY DEF ProfilesTypeOK, ProfileTasks
<1>2. RowsInv' /\ ResolveInv'
  BY DEF RowsInv, ResolveInv, ResolvesStored
<1>3. task'[a] = t /\ \A b \in Admins \ {a} : task'[b] = task[b]
  BY DEF ProfilesTypeOK
<1>4. SeenInv'
  BY <1>3 DEF SeenInv
<1>. QED BY <1>1, <1>2, <1>4

\* A task that goes on: where to, and with what it has read.
Advanced(k, step, p, ptr) == [k EXCEPT !.step = step, !.seen = p, !.ptr = ptr]

\* What its fields are.
LEMMA AdvancedTask ==
  ASSUME NEW k \in ProfileTasks, NEW step \in {"check", "commit"}, NEW p \in Profile,
         NEW ptr \in Names \union {NoName}
  PROVE  /\ Advanced(k, step, p, ptr) \in ProfileTasks
         /\ Advanced(k, step, p, ptr).step = step /\ Advanced(k, step, p, ptr).seen = p
         /\ Advanced(k, step, p, ptr).req = k.req /\ Advanced(k, step, p, ptr).ptr = ptr
         /\ Advanced(k, step, p, ptr).stale = k.stale
BY DEF Advanced, ProfileTasks

\* The first reading refuses what the rules on the row refuse.
LEMMA ReadKeeps ==
  ASSUME ProfilesInv, NEW a \in Admins, ReadProfile(a)
  PROVE  ProfilesInv'
<1>. DEFINE q == task[a].req
            p == stored[IF q.op = "create" THEN q.to ELSE q.name[1]]
<1>1. task[a].step = "read" /\ UNCHANGED <<stored, pointer, eval, ids, asked>>
  BY DEF ReadProfile
<1>2. q \in Requests
  BY <1>1 DEF ProfilesInv, SeenInv
<1>3. stored \in [Codes -> Profile] /\ asked \in 0..MaxRequests
  BY DEF ProfilesInv, ProfilesTypeOK
<1>4. p \in Profile
  BY <1>2, <1>3, RequestTypes
<1>5. CASE Answer(a)
  BY <1>1, <1>5, AnswerKeeps
<1>6. CASE ~Answer(a)
  <2>. DEFINE step == IF q.op \in {"create", "update"} THEN "commit" ELSE "check"
  <2>1. /\ Proceeds(a, step, p, NoName)
        /\ q.op # "create" => p # NoProfile
        /\ q.op = "disable" => ~p.default
        /\ q.op = "delete" => ~p.builtin
        /\ q.op = "activate" => p.enabled
    BY <1>6 DEF ReadProfile, Exists
  <2>. DEFINE t == Advanced(task[a], step, p, NoName)
  <2>2. /\ t \in ProfileTasks /\ task' = [task EXCEPT ![a] = t]
        /\ t.step = step /\ t.seen = p /\ t.req = q
    <3>1. step \in {"check", "commit"} /\ NoName \in Names \union {NoName}
      OBVIOUS
    <3>2. task[a] \in ProfileTasks
      BY DEF ProfilesInv, ProfilesTypeOK, ProfileTasks
    <3>3. task' = [task EXCEPT ![a] = t]
      BY <2>1 DEF Proceeds, Advanced
    <3>. HIDE DEF step, p
    <3>. QED BY <1>4, <3>1, <3>2, <3>3, AdvancedTask
  <2>3. q.op # "create" => p = stored[q.name[1]] /\ q.name[1] \in Codes
    BY <1>2, RequestTypes
  <2>4. q.op # "create" => p.id \in Nat \ {0}
    BY <2>1, <2>3 DEF ProfilesInv, RowsInv, ProfilesTypeOK
  <2>5. q.op \in {"disable", "delete"} => q.name[1] # Default
    BY <2>1, <2>3 DEF ProfilesInv, RowsInv
  <2>6. step = "commit" => q.op \notin {"disable", "delete"}
    OBVIOUS
  <2>. HIDE DEF q, p, step, t
  <2>. QED BY <1>1, <1>2, <1>3, <2>1, <2>2, <2>3, <2>4, <2>5, <2>6, ProceedKeeps
<1>. QED BY <1>5, <1>6

\* The second reading leaves what was seen, and adds what the pointer is.
LEMMA CheckKeeps ==
  ASSUME ProfilesInv, NEW a \in Admins, Check(a)
  PROVE  ProfilesInv'
<1>. DEFINE q == task[a].req
<1>1. task[a].step = "check" /\ UNCHANGED <<stored, pointer, eval, ids, asked>>
  BY DEF Check
<1>2. /\ q \in Requests /\ task[a].seen \in Profile
      /\ asked \in 0..MaxRequests /\ pointer \in Names \union {NoName}
  BY <1>1 DEF ProfilesInv, SeenInv, ProfilesTypeOK
<1>3. CASE Answer(a)
  BY <1>1, <1>3, AnswerKeeps
<1>4. CASE ~Answer(a)
  <2>1. /\ Proceeds(a, "commit", task[a].seen, pointer)
        /\ q.op \in {"disable", "delete"} => pointer # q.name
    BY <1>4 DEF Check, Guarded
  <2>. DEFINE t == Advanced(task[a], "commit", task[a].seen, pointer)
  <2>2. /\ t \in ProfileTasks /\ task' = [task EXCEPT ![a] = t]
        /\ t.step = "commit" /\ t.seen = task[a].seen /\ t.req = q /\ t.stale = task[a].stale
    <3>1. task[a] \in ProfileTasks
      BY DEF ProfilesInv, ProfilesTypeOK, ProfileTasks
    <3>2. task' = [task EXCEPT ![a] = t]
      BY <2>1 DEF Proceeds, Advanced
    <3>. QED BY <1>2, <3>1, <3>2, AdvancedTask
  <2>3. /\ q.op \in {"disable", "delete"} => q.name[1] # Default
        /\ q.op = "activate" => t.seen.enabled
        /\ q.op # "create" => t.seen.id \in Nat \ {0}
        /\ q.op # "create" /\ ~t.stale => stored[q.name[1]] = t.seen
    BY <1>1, <2>2 DEF ProfilesInv, SeenInv
  <2>. HIDE DEF q, t
  <2>. QED BY <1>1, <1>2, <2>1, <2>2, <2>3, ProceedKeeps
<1>. QED BY <1>3, <1>4

\* A request that arrives has seen nothing yet.
LEMMA ArrivesKeeps ==
  ASSUME ProfilesInv, NEW a \in Admins, NEW q \in Requests, Arrives(a, q)
  PROVE  ProfilesInv'
<1>. DEFINE t == [NoTask EXCEPT !.step = "read", !.req = q]
<1>1. t \in ProfileTasks /\ t.step = "read" /\ t.req = q
  BY ProfileTypes DEF NoTask, ProfileTasks
<1>2. task' = [task EXCEPT ![a] = t] /\ UNCHANGED <<stored, pointer, eval, ids>>
  BY DEF Arrives
<1>3. asked' \in 0..MaxRequests
  BY ProfilesAssumption DEF Arrives, ProfilesInv, ProfilesTypeOK
<1>. HIDE DEF t
<1>. QED BY <1>1, <1>2, <1>3, ProceedKeeps

\* An evaluation that reads leaves the table and the requests as they are.
LEMMA ResolveKeeps ==
  ASSUME ProfilesInv, UNCHANGED <<stored, pointer, task, ids, asked>>, eval' \in Resolvings, ResolveInv'
  PROVE  ProfilesInv'
<1>1. ProfilesTypeOK'
  BY DEF ProfilesInv, ProfilesTypeOK, Resolvings
<1>2. RowsInv' /\ SeenInv'
  BY DEF ProfilesInv, RowsInv, SeenInv
<1>. QED BY <1>1, <1>2 DEF ProfilesInv

\* The default is not among the missing, and the pointer is read as it is.
LEMMA ResolvingKeeps ==
  ASSUME ProfilesInv, StartResolving \/ ReadPointer
  PROVE  ProfilesInv'
<1>. USE ProfileTypes
<1>1. eval \in Resolvings /\ pointer \in Names \union {NoName}
  BY DEF ProfilesInv, ProfilesTypeOK, Resolvings
<1>2. CASE StartResolving
  <2>1. Exists(stored[Default])
    BY BuiltFields DEF ProfilesInv, RowsInv, Exists
  <2>2. eval' \in Resolvings /\ eval'.at # "done" /\ Default \notin eval'.missing
    BY <1>2, <2>1 DEF StartResolving, Resolvings, Resting
  <2>. QED BY <1>2, <2>2, ResolveKeeps DEF StartResolving, ResolveInv, ResolvesStored
<1>3. CASE ReadPointer
  <2>1. eval' \in Resolvings /\ eval'.at # "done" /\ eval'.missing = eval.missing
    BY <1>1, <1>3 DEF ReadPointer, Resolvings
  <2>. QED BY <1>3, <2>1, ResolveKeeps DEF ReadPointer, ResolveInv, ResolvesStored, ProfilesInv
<1>. QED BY <1>2, <1>3

\* The profile that is used is one of the table: the active one, or the one default.
LEMMA ReadingKeeps ==
  ASSUME ProfilesInv, ReadActive \/ ReadDefault
  PROVE  ProfilesInv'
<1>. USE ProfileTypes
<1>1. eval \in Resolvings /\ stored \in [Codes -> Profile]
  BY DEF ProfilesInv, ProfilesTypeOK, Resolvings
<1>2. CASE ReadActive
  <2>1. eval.name[1] \in Codes
    BY <1>1 DEF Resolvings, Names, NoName
  <2>. DEFINE p == stored[eval.name[1]]
  <2>2. p \in Profile /\ (p.enabled => p.id > 0)
    BY <1>1, <2>1, BuiltFields DEF ProfilesInv, RowsInv
  <2>3. eval' = IF p.enabled THEN [eval EXCEPT !.at = "done", !.used = p]
                ELSE [eval EXCEPT !.at = "default"]
    BY <1>2 DEF ReadActive
  <2>4. /\ eval' \in Resolvings /\ eval'.missing = eval.missing
        /\ eval'.at = "done" => eval'.used.id > 0 /\ eval'.used.enabled
    <3>. HIDE DEF p
    <3>1. CASE p.enabled
      BY <1>1, <2>2, <2>3, <3>1 DEF Resolvings
    <3>2. CASE ~p.enabled
      BY <1>1, <2>2, <2>3, <3>2 DEF Resolvings
    <3>. QED BY <3>1, <3>2
  <2>. QED BY <1>2, <2>4, ResolveKeeps DEF ReadActive, ResolveInv, ResolvesStored, ProfilesInv
<1>3. CASE ReadDefault
  <2>. DEFINE D == {c \in Codes : stored[c].default /\ stored[c].enabled}
  <2>1. D = {Default}
    BY DEF ProfilesInv, RowsInv
  <2>2. eval' = [eval EXCEPT !.at = "done", !.used = stored[Default]]
    BY <1>3, <2>1 DEF ReadDefault
  <2>3. stored[Default] \in Profile /\ stored[Default].id > 0 /\ stored[Default].enabled
    BY <1>1 DEF ProfilesInv, RowsInv
  <2>4. /\ eval' \in Resolvings /\ eval'.missing = eval.missing
        /\ eval'.used.id > 0 /\ eval'.used.enabled
    BY <1>1, <2>2, <2>3 DEF Resolvings
  <2>. QED BY <1>3, <2>4, ResolveKeeps DEF ReadDefault, ResolveInv, ResolvesStored, ProfilesInv
<1>. QED BY <1>2, <1>3

\* What is seeded was missing, so that no row that a request has seen is another now.
LEMMA SeedKeeps ==
  ASSUME ProfilesInv, Seed
  PROVE  ProfilesInv'
<1>. USE ProfileTypes
<1>1. /\ eval \in Resolvings /\ stored \in [Codes -> Profile] /\ ids \in Nat
      /\ eval.missing \subseteq Builtins /\ Default \notin eval.missing
  BY DEF ProfilesInv, ProfilesTypeOK, Resolvings, ResolveInv
<1>2. /\ eval' \in Resolvings /\ eval'.at # "done" /\ eval'.missing = {}
      /\ UNCHANGED <<pointer, task, asked>>
  BY <1>1 DEF Seed, Resolvings
<1>3. ResolveInv'
  BY <1>2 DEF ResolveInv, ResolvesStored
<1>4. CASE UNCHANGED <<stored, ids>>
  BY <1>2, <1>3, <1>4, ResolveKeeps
<1>5. CASE ~UNCHANGED <<stored, ids>>
  <2>1. /\ ids' = ids + 1
        /\ stored' = [c \in Codes |-> IF c \in eval.missing THEN Built(c, ids + 1) ELSE stored[c]]
        /\ \A c \in eval.missing : stored[c] = NoProfile
    BY <1>5 DEF Seed, Exists
  <2>2. \A c \in Codes \ eval.missing : stored'[c] = stored[c]
    BY <2>1
  <2>3. \A c \in eval.missing : stored'[c] = Built(c, ids + 1) /\ c # Default
    BY <1>1, <2>1 DEF Codes
  <2>4. stored' \in [Codes -> Profile]
    BY <1>1, <2>1
  <2>5. ProfilesTypeOK'
    BY <1>1, <1>2, <2>1, <2>4 DEF ProfilesInv, ProfilesTypeOK, ProfileTasks, Resolvings
  <2>6. RowsInv'
    BY <1>1, <2>1, <2>2, <2>3, BuiltFields DEF ProfilesInv, RowsInv
  <2>7. \A a \in Admins :
          task[a].step \in {"check", "commit"} /\ task[a].req.op # "create" /\ ~task[a].stale
            => stored'[task[a].req.name[1]] = stored[task[a].req.name[1]]
    <3>. SUFFICES ASSUME NEW a \in Admins, task[a].step \in {"check", "commit"},
                         task[a].req.op # "create", ~task[a].stale
                  PROVE  stored'[task[a].req.name[1]] = stored[task[a].req.name[1]]
      OBVIOUS
    <3>1. /\ task[a].req.name[1] \in Codes /\ stored[task[a].req.name[1]] = task[a].seen
          /\ task[a].seen.id \in Nat \ {0}
      BY RequestTypes DEF ProfilesInv, SeenInv
    <3>. QED BY <2>1, <2>2, <3>1, BuiltFields
  <2>8. SeenInv'
    BY <1>2, <2>7 DEF ProfilesInv, SeenInv
  <2>. QED BY <1>3, <2>5, <2>6, <2>8 DEF ProfilesInv
<1>. QED BY <1>4, <1>5

\* Every step keeps the invariant.
LEMMA ProfilesInvStep == ProfilesInv /\ [ProfilesNext]_profileVars => ProfilesInv'
<1>. SUFFICES ASSUME ProfilesInv, [ProfilesNext]_profileVars PROVE ProfilesInv'
  OBVIOUS
<1>1. CASE UNCHANGED profileVars
  BY <1>1 DEF profileVars, ProfilesInv, ProfilesTypeOK, RowsInv, SeenInv, ResolveInv, ResolvesStored
<1>2. ASSUME NEW a \in Admins, CreateProfile(a) PROVE ProfilesInv'
  <2>1. task[a].step = "commit" /\ task[a].req \in Requests /\ task[a].req.op = "create"
    BY <1>2 DEF CreateProfile, Ready, ProfilesInv, SeenInv
  <2>2. Changed(Shipped[Default], task[a].req.changes) \in Limits
    BY <2>1, RequestTypes, ChangedType, ProfilesAssumption
  <2>. QED BY <1>2, <2>1, <2>2, InsertKeeps DEF CreateProfile
<1>3. ASSUME NEW a \in Admins, CloneProfile(a) PROVE ProfilesInv'
  <2>1. task[a].step = "commit" /\ task[a].seen.limits \in Limits
    BY <1>3, ReadyTypes DEF CloneProfile, Ready, Profile
  <2>. QED BY <1>3, <2>1, InsertKeeps DEF CloneProfile
<1>4. ASSUME NEW a \in Admins, Request(a) PROVE ProfilesInv'
  BY <1>2, <1>3, <1>4, ArrivesKeeps, ReadKeeps, CheckKeeps, UpdateKeeps, DisableKeeps, DeleteKeeps,
     ActivateKeeps DEF Request
<1>. QED BY <1>1, <1>4, ResolvingKeeps, ReadingKeeps, SeedKeeps DEF ProfilesNext

\* Every reachable state is one of the invariant.
LEMMA ProfilesInductive == ProfilesSpec => []ProfilesInv
BY ProfilesInvInit, ProfilesInvStep, PTL DEF ProfilesSpec

\* The table, the pointer, the requests and the evaluation keep their types.
THEOREM ProfilesTyped == ProfilesSpec => []ProfilesTypeOK
<1>1. ProfilesInv => ProfilesTypeOK
  BY DEF ProfilesInv
<1>. QED BY ProfilesInductive, <1>1, PTL

\* get_active_profile ends at a row that is stored and enabled, for any number of requests that
\* are served at once and any spelling of the codes: the lookup of the default finds one row.
THEOREM ProfileResolved == ProfilesSpec => []ResolvesStored
<1>1. ProfilesInv => ResolvesStored
  BY DEF ProfilesInv, ResolveInv
<1>. QED BY ProfilesInductive, <1>1, PTL

\* disable_profile and delete_profile compare the pointer with the code as it was typed, which is
\* the profile it names only where codes are typed as they are stored.
OneSpelling == Spellings = {"exact"}

\* The rows that are enabled stay so but for the one that is disabled or deleted.
LEMMA ActiveStep ==
  ASSUME OneSpelling, ProfilesInv, ProfilesNext, InForce
  PROVE  InForce' \/ \E a \in Admins : task[a].stale /\ task'[a] = NoTask
<1>. DEFINE Excused == \E a \in Admins : task[a].stale /\ task'[a] = NoTask
            c == pointer[1]
<1>1. /\ stored \in [Codes -> Profile] /\ pointer \in Names /\ c \in Codes
      /\ stored[c].enabled /\ pointer = <<c, "exact">> /\ stored[c] # NoProfile
  BY BuiltFields DEF ProfilesInv, ProfilesTypeOK, InForce, OneSpelling, Names
<1>2. ASSUME pointer' = pointer, stored'[c] = stored[c] PROVE InForce'
  BY <1>1, <1>2 DEF InForce
<1>3. CASE Seed
  <2>1. c \notin eval.missing \/ UNCHANGED stored
    BY <1>1, <1>3 DEF Seed, Exists
  <2>. QED BY <1>1, <1>2, <1>3, <2>1 DEF Seed
<1>4. ASSUME NEW a \in Admins, NEW limits, Insert(a, limits) PROVE InForce'
  BY <1>1, <1>2, <1>4 DEF Insert, Fails, Exists
<1>5. ASSUME NEW a \in Admins, UpdateProfile(a) PROVE InForce'
  <2>1. CASE ~Same(a)
    BY <1>2, <1>5, <2>1 DEF UpdateProfile, Fails
  <2>2. CASE Same(a)
    <3>. DEFINE d == task[a].req.name[1]
                v == task[a].seen.version + 1
    <3>1. PICK l \in Limits :
            stored' = [stored EXCEPT ![d] = Rewritten(stored[d], v, l)] /\ UNCHANGED pointer
      BY <1>5, <2>2, UpdateRow
    <3>2. d \in Codes /\ v \in Nat
      <4>1. Ready(a, "update")
        BY <1>5 DEF UpdateProfile
      <4>. QED BY <4>1, ReadyTypes DEF Profile
    <3>3. Rewritten(stored[d], v, l).enabled = stored[d].enabled
      BY <1>1, <3>2, RowRewritten
    <3>. HIDE DEF d, v
    <3>4. stored'[c].enabled
      BY <1>1, <3>1, <3>2, <3>3
    <3>. QED BY <1>1, <3>1, <3>4 DEF InForce
  <2>. QED BY <2>1, <2>2
<1>6. ASSUME NEW a \in Admins, DisableProfile(a) \/ DeleteProfile(a) PROVE InForce' \/ Excused
  <2>. DEFINE q == task[a].req
  <2>1. PICK op \in {"disable", "delete"} : Ready(a, op)
    BY <1>6 DEF DisableProfile, DeleteProfile
  <2>2. q \in Requests /\ q.op = op /\ q.name \in Names /\ q.name[1] \in Codes
    BY <2>1, ReadyTypes, RequestTypes
  <2>3. CASE task[a].stale
    <3>1. task'[a] = NoTask
      BY <1>6 DEF DisableProfile, DeleteProfile, Fails, Answer, Commits, ProfilesInv, ProfilesTypeOK
    <3>. QED BY <2>3, <3>1
  <2>4. CASE ~task[a].stale
    <3>1. pointer # q.name
      BY <2>1, <2>2, <2>4 DEF Ready, ProfilesInv, SeenInv
    <3>2. q.name[1] # c
      BY <1>1, <2>2, <3>1 DEF OneSpelling, Names
    <3>3. pointer' = pointer /\ stored'[c] = stored[c]
      BY <1>1, <1>6, <3>2 DEF DisableProfile, DeleteProfile, Fails
    <3>. QED BY <1>2, <3>3
  <2>. QED BY <2>3, <2>4
<1>7. ASSUME NEW a \in Admins, ActivateProfile(a) PROVE InForce' \/ Excused
  <2>. DEFINE q == task[a].req
  <2>1. /\ Ready(a, "activate") /\ UNCHANGED stored
        /\ pointer' = pointer \/ pointer' = q.name
    BY <1>7 DEF ActivateProfile, Fails
  <2>2. q \in Requests /\ q.name \in Names /\ q.name[1] \in Codes
    BY <2>1, ReadyTypes, RequestTypes
  <2>3. CASE task[a].stale
    <3>1. task'[a] = NoTask
      BY <1>7 DEF ActivateProfile, Fails, Answer, Commits, ProfilesInv, ProfilesTypeOK
    <3>. QED BY <2>3, <3>1
  <2>4. CASE ~task[a].stale
    <3>1. stored[q.name[1]].enabled
      BY <2>1, <2>4 DEF Ready, ProfilesInv, SeenInv
    <3>2. CASE pointer' = pointer
      BY <1>2, <2>1, <3>2
    <3>3. CASE pointer' = q.name
      BY <2>1, <2>2, <3>1, <3>3, ProfileTypes DEF InForce
    <3>. QED BY <2>1, <3>2, <3>3
  <2>. QED BY <2>3, <2>4
<1>8. ASSUME NEW a \in Admins, Request(a) PROVE InForce' \/ Excused
  <2>1. CASE (\E q \in Requests : Arrives(a, q)) \/ ReadProfile(a) \/ Check(a)
    BY <1>2, <2>1 DEF Arrives, ReadProfile, Check
  <2>2. CASE CreateProfile(a) \/ CloneProfile(a)
    BY <1>4, <2>2 DEF CreateProfile, CloneProfile
  <2>. QED BY <1>5, <1>6, <1>7, <1>8, <2>1, <2>2 DEF Request
<1>9. CASE StartResolving \/ ReadPointer \/ ReadActive \/ ReadDefault
  BY <1>2, <1>9 DEF StartResolving, ReadPointer, ReadActive, ReadDefault
<1>. QED BY <1>3, <1>8, <1>9 DEF ProfilesNext

\* Where codes are typed as they are stored, the profile that is active is disabled or deleted by
\* no request but one that had looked before another committed.
THEOREM ActiveStays == OneSpelling /\ ProfilesSpec => ActiveKept
<1>. SUFFICES ASSUME OneSpelling PROVE ProfilesSpec => ActiveKept
  OBVIOUS
<1>1. ProfilesInv /\ [ProfilesNext]_profileVars =>
        [InForce => InForce' \/ \E a \in Admins : task[a].stale /\ task'[a] = NoTask]_profileVars
  BY ActiveStep
<1>. QED BY ProfilesInductive, <1>1, PTL DEF ProfilesSpec, ActiveKept

\* A step that changes limits where they are is an update, which gives them the version that follows
\* the one it read: a new one, where none has committed since it read.
LEMMA VersionStep ==
  ASSUME ProfilesInv, ProfilesNext, NEW c \in Codes,
         stored'[c].id = stored[c].id, stored'[c].limits # stored[c].limits
  PROVE  \/ stored'[c].version > stored[c].version
         \/ \E a \in Admins : task[a].stale /\ task'[a] = NoTask
<1>. DEFINE Excused == \E a \in Admins : task[a].stale /\ task'[a] = NoTask
<1>1. /\ stored \in [Codes -> Profile] /\ ids \in Nat /\ stored'[c] # stored[c]
      /\ stored[c] = NoProfile \/ stored[c].id \in 1..ids
  BY DEF ProfilesInv, ProfilesTypeOK, RowsInv
<1>2. ASSUME Seed PROVE FALSE
  BY <1>1, <1>2, BuiltFields DEF Seed, ProfilesInv, ProfilesTypeOK
<1>3. ASSUME NEW a \in Admins, NEW limits, Insert(a, limits) PROVE FALSE
  BY <1>1, <1>3, BuiltFields DEF Insert, Fails
<1>4. ASSUME NEW a \in Admins, UpdateProfile(a) PROVE stored'[c].version > stored[c].version \/ Excused
  <2>. DEFINE d == task[a].req.name[1]
              v == task[a].seen.version + 1
  <2>1. Ready(a, "update")
    BY <1>4 DEF UpdateProfile
  <2>2. Same(a)
    BY <1>1, <1>4 DEF UpdateProfile, Fails
  <2>3. PICK l \in Limits :
          stored' = [stored EXCEPT ![d] = Rewritten(stored[d], v, l)] /\ Commits(a)
    BY <1>4, <2>2, UpdateRow
  <2>4. d \in Codes /\ v \in Nat /\ task[a].seen.version \in Nat /\ task[a].req.op = "update"
    BY <2>1, ReadyTypes DEF Profile
  <2>5. d = c
    BY <1>1, <2>3
  <2>6. Rewritten(stored[d], v, l).version = v
    BY <1>1, <2>4, RowRewritten
  <2>7. stored'[c].version = v
    BY <1>1, <2>3, <2>5, <2>6
  <2>8. task[a].stale \/ stored[c] = task[a].seen
    BY <2>1, <2>4, <2>5 DEF Ready, ProfilesInv, SeenInv
  <2>9. task'[a] = NoTask
    BY <2>3 DEF Commits
  <2>. QED BY <2>4, <2>7, <2>8, <2>9
<1>5. ASSUME NEW a \in Admins, DisableProfile(a) PROVE FALSE
  <2>. DEFINE d == task[a].req.name[1]
  <2>1. stored' = stored \/ stored' = [stored EXCEPT ![d].enabled = FALSE]
    BY <1>5 DEF DisableProfile, Fails
  <2>2. d = c
    BY <1>1, <2>1
  <2>3. stored[c] \in Profile
    BY <1>1
  <2>4. [stored[c] EXCEPT !.enabled = FALSE].limits = stored[c].limits
    BY <2>3 DEF Profile
  <2>. QED BY <1>1, <2>1, <2>2, <2>4
<1>6. ASSUME NEW a \in Admins, DeleteProfile(a) PROVE FALSE
  <2>1. /\ stored' = [stored EXCEPT ![task[a].req.name[1]] = NoProfile]
        /\ stored'[c] = NoProfile
    BY <1>1, <1>6 DEF DeleteProfile, Fails
  <2>. QED BY <1>1, <2>1, BuiltFields
<1>7. ASSUME NEW a \in Admins, Request(a) PROVE stored'[c].version > stored[c].version \/ Excused
  <2>1. CASE (\E q \in Requests : Arrives(a, q)) \/ ReadProfile(a) \/ Check(a) \/ ActivateProfile(a)
    BY <1>1, <2>1 DEF Arrives, ReadProfile, Check, ActivateProfile, Fails
  <2>2. CASE CreateProfile(a) \/ CloneProfile(a)
    BY <1>3, <2>2 DEF CreateProfile, CloneProfile
  <2>. QED BY <1>4, <1>5, <1>6, <1>7, <2>1, <2>2 DEF Request
<1>8. CASE StartResolving \/ ReadPointer \/ ReadActive \/ ReadDefault
  BY <1>1, <1>8 DEF StartResolving, ReadPointer, ReadActive, ReadDefault
<1>. QED BY <1>2, <1>7, <1>8 DEF ProfilesNext

\* update_profile: limits that change get a version above the one they had, so that an audited
\* version tells the limits, but where a request had read before another committed.
THEOREM VersionsAreNew == ProfilesSpec => VersionsTell
<1>. DEFINE New == \A c \in Codes :
              stored'[c].id = stored[c].id /\ stored'[c].limits # stored[c].limits =>
                \/ stored'[c].version > stored[c].version
                \/ \E a \in Admins : task[a].stale /\ task'[a] = NoTask
<1>1. ProfilesInv /\ [ProfilesNext]_profileVars => [New]_profileVars
  BY VersionStep
<1>. QED BY ProfilesInductive, <1>1, PTL DEF ProfilesSpec, VersionsTell
=============================================================================
