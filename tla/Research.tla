------------------------------ MODULE Research ------------------------------
(***************************************************************************)
(* From a symbol the discovery scan finds to one the scanner may buy: the  *)
(* research candidate, its evaluations, the trade watch list, and the      *)
(* operator's pages, which write the same rows.  The rows of a symbol are  *)
(* touched by that symbol's operations only; of the others it meets just   *)
(* the places they take on the list, so one symbol is modelled.            *)
(*                                                                         *)
(* Rankings, scores and thresholds are one fact about it: while it is      *)
(* strong every scan finds it and every verdict is positive; while it is   *)
(* weak they may or may not.  Clocks are choices: of a candidate that no   *)
(* scan finds any more, of an answer too soon after the last one that      *)
(* counted, of a row's end of life.                                        *)
(***************************************************************************)
EXTENDS Naturals

CONSTANTS
  Passes,    \* promotionConsecutivePasses
  MaxActive, \* maxTradeWatchlistSize
  MaxAdmin   \* bound: what the operator does

VARIABLES
  strong,    \* of the market
  others,    \* how many other symbols are on the list
  auto,      \* autoPromotionEnabled
  declined,  \* in declineSymbols
  cand,      \* status of the ResearchCandidate row, "none" for no row
  passes,    \* its consecutive_pass_count; more than Passes is as good as Passes
  watch,     \* the TradeWatchlistSymbol row
  job,       \* the evaluation of this cycle
  admin      \* what the operator has done

vars == <<strong, others, auto, declined, cand, passes, watch, job, admin>>
settings == <<auto, declined>>
world == <<strong, others, admin>>

Status == {"none", "PENDING", "RESEARCHED", "QUALIFIED", "READY", "PROMOTED", "REJECTED", "EXPIRED"}
NoJob == [at |-> "none", auto |-> FALSE, declined |-> FALSE, room |-> FALSE]
NoRow == [active |-> FALSE, manual |-> FALSE, live |-> FALSE, fails |-> 0]

Init ==
  /\ strong \in BOOLEAN /\ auto \in BOOLEAN
  /\ others = 0 /\ declined = FALSE /\ admin = 0
  /\ cand = "none" /\ passes = 0
  /\ watch = NoRow /\ job = NoJob

\* is_trade_eligible, list_trade_eligible_symbols.
Eligible == watch.active /\ watch.live

-----------------------------------------------------------------------------
(* Discovery: discovery, research and maintenance follow each other in the *)
(* tick, the evaluations of a cycle end before it goes on.                 *)

Upserted == IF cand \in {"PROMOTED", "QUALIFIED"} THEN cand ELSE "PENDING"

\* run_discovery_scan finds the symbol: it passed the ranking and the screen.
Found ==
  /\ job = NoJob
  /\ cand' = Upserted
  /\ passes' = IF cand \in {"REJECTED", "EXPIRED"} THEN 0 ELSE passes
  /\ UNCHANGED <<world, settings, watch, job>>

\* _expire_stale_candidates.
Expired ==
  /\ job = NoJob /\ ~strong
  /\ cand \notin {"none", "PROMOTED", "EXPIRED"}
  /\ cand' = "EXPIRED"
  /\ UNCHANGED <<world, settings, passes, watch, job>>

-----------------------------------------------------------------------------
(* The research cycle.                                                     *)

\* run_research_cycle reads the settings once and asks about the candidates that are due.
Cycle ==
  /\ job = NoJob
  /\ cand \in {"PENDING", "RESEARCHED", "QUALIFIED"}
  /\ job' = [at |-> "asked", auto |-> auto, declined |-> declined, room |-> FALSE]
  /\ UNCHANGED <<world, settings, cand, passes, watch>>

\* The evaluation raises or has no result.
NoResult ==
  /\ job.at = "asked" /\ ~strong
  /\ job' = NoJob
  /\ UNCHANGED <<world, settings, cand, passes, watch>>

\* apply_research_result with a negative verdict.
Unqualified ==
  /\ job.at = "asked" /\ (job.declined \/ ~strong)
  /\ cand' = "RESEARCHED" /\ passes' = 0 /\ job' = NoJob
  /\ UNCHANGED <<world, settings, watch>>

\* A positive verdict too soon after the last one that counted (which a negative one
\* in between does not forget; the very first is let through as if it could be too soon).
TooSoon ==
  /\ job.at = "asked" /\ ~job.declined
  /\ cand' = "RESEARCHED" /\ job' = NoJob
  /\ UNCHANGED <<world, settings, passes, watch>>

Room == watch.active \/ others < MaxActive

\* A positive verdict that counts: one more is needed, or the operator's approval, or
\* a place on the list, which is looked up before the commit that takes it.
Qualified ==
  LET n == IF passes < Passes THEN passes + 1 ELSE Passes
  IN  /\ job.at = "asked" /\ ~job.declined
      /\ passes' = n
      /\ cand' = IF n = Passes /\ ~job.auto THEN "READY" ELSE "QUALIFIED"
      /\ job' = IF n = Passes /\ job.auto THEN [job EXCEPT !.at = "counted", !.room = Room] ELSE NoJob
      /\ UNCHANGED <<world, settings, watch>>

\* The transaction that counted the list commits.
PromotionCommit ==
  /\ job.at = "counted"
  /\ IF job.room
     THEN /\ watch' = [active |-> TRUE, manual |-> FALSE, live |-> TRUE, fails |-> 0]
          /\ cand' = "PROMOTED"
     ELSE UNCHANGED <<watch, cand>>
  /\ job' = NoJob
  /\ UNCHANGED <<world, settings, passes>>

-----------------------------------------------------------------------------
(* The trade watch list.                                                   *)

\* Mutation: the candidate keeps the status of its promotion.
RemovedKept == watch' = [watch EXCEPT !.active = FALSE] /\ UNCHANGED cand

\* _remove_watchlist_row.
Removed ==
  /\ watch' = [watch EXCEPT !.active = FALSE]
  /\ cand' = IF cand = "none" THEN "none" ELSE "RESEARCHED"

\* Mutation: an operator's row is never touched.
TakenOffByMarket == watch.active /\ ~watch.manual /\ (declined \/ ~watch.live \/ cand = "none" \/ ~strong)

\* Whether maintain_trade_watchlist takes the row off: declined; at the end of its life;
\* without research; with a score, a trend, a volume or a spread that went bad.
TakenOff == watch.active /\ (declined \/ (~watch.manual /\ (~watch.live \/ cand = "none" \/ ~strong)))

\* At the end of each research cycle; a weak symbol need not have failed its checks.
Maintain ==
  /\ job = NoJob
  /\ TakenOff
  /\ Removed
  /\ UNCHANGED <<world, settings, passes, job>>

\* record_trade_watchlist_decision: a weak BUY or score, or WAIT or SELL a second time,
\* takes the row off; another BUY clears the count.
TradeDecision ==
  /\ watch.active /\ ~watch.manual /\ job.at # "counted"
  /\ \/ Removed
     \/ \E n \in {0, 1} \ {watch.fails} : watch' = [watch EXCEPT !.fails = n] /\ UNCHANGED cand
  /\ UNCHANGED <<world, settings, passes, job>>

-----------------------------------------------------------------------------
(* The operator, who waits for a transaction on the candidate's row; the   *)
(* market and the clock.                                                   *)

ByHand == admin < MaxAdmin /\ admin' = admin + 1 /\ UNCHANGED <<strong, others>>

\* promote_research_candidate, of any symbol and whatever the size of the list.
AdminPromote ==
  /\ ByHand /\ job.at # "counted"
  /\ watch' = [watch EXCEPT !.active = TRUE, !.manual = TRUE, !.live = TRUE]
  /\ cand' = IF cand = "none" THEN "none" ELSE "PROMOTED"
  /\ UNCHANGED <<settings, passes, job>>

AdminReject ==
  /\ ByHand /\ job.at # "counted" /\ cand # "none"
  /\ cand' = "REJECTED"
  /\ UNCHANGED <<settings, passes, watch, job>>

AdminRemove ==
  /\ ByHand /\ job.at # "counted" /\ watch.active
  /\ Removed
  /\ UNCHANGED <<settings, passes, job>>

AdminConfig ==
  /\ ByHand
  /\ \/ auto' = ~auto /\ UNCHANGED declined
     \/ declined' = ~declined /\ UNCHANGED auto
  /\ UNCHANGED <<cand, passes, watch, job>>

Market ==
  /\ \/ strong' = ~strong /\ UNCHANGED others
     \/ others' \in (0..MaxActive) \ {others} /\ UNCHANGED strong
  /\ UNCHANGED <<settings, cand, passes, watch, job, admin>>

EndOfLife ==
  /\ Eligible /\ ~watch.manual
  /\ watch' = [watch EXCEPT !.live = FALSE]
  /\ UNCHANGED <<world, settings, cand, passes, job>>

-----------------------------------------------------------------------------

Discovery == Found \/ Expired
Result == NoResult \/ Unqualified \/ TooSoon \/ Qualified \/ PromotionCommit
Admin == AdminPromote \/ AdminReject \/ AdminRemove \/ AdminConfig
Next == Discovery \/ Cycle \/ Result \/ Maintain \/ TradeDecision \/ Admin \/ Market \/ EndOfLife

\* The tick runs discovery, research and maintenance in turn; a strong symbol is found
\* each time; the pauses between two evaluations and two answers that count end.
Fairness ==
  /\ SF_vars(Found) /\ SF_vars(Cycle) /\ SF_vars(Maintain)
  /\ WF_vars(Result) /\ SF_vars(Qualified)

-----------------------------------------------------------------------------

\* A symbol that stays strong is bought again and again while automatic promotion is
\* on and the list has room: no rejection, removal, expiry or end of life, and no
\* evaluation that was under way at that time, leaves its candidate in a status that
\* neither discovery nor research takes up.
StrongReturns ==
  <>[](strong /\ auto /\ ~declined /\ others < MaxActive) => []<>Eligible

\* A declined symbol leaves the watch list for good, also where the operator put it
\* there himself and where a promotion under the older setting is still under way.
DeclinedLeaves == <>[]declined => <>[](~Eligible)
=============================================================================
