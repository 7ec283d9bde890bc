----------------------------- MODULE MCServices -----------------------------
(***************************************************************************)
(* Small instances of the components that share no state with each other   *)
(* nor with the flow of orders, side by side: "part" says which of them    *)
(* moves, and the others rest in an initial state.                         *)
(***************************************************************************)
EXTENDS RiskRules, DailyLoss, AiProvider, Outcomes, TradeProfiles

VARIABLES
  part,
  strong, others, auto, declined, cand, passes, watch, job, admin     \* Research

List == INSTANCE Research WITH Passes <- 2, MaxActive <- 1, MaxAdmin <- 3

\* Each limit of the day's loss, set or not.
LimitsSet == [pct : {0, 10}, tl : {0, 3}, budget : {0, 60}]

\* A quote whose bar is not to be used, one with a bar of the last instant, and a bar that
\* spans target and stop without a quote.
Snapshots ==
  {[last |-> 2, quote |-> TRUE, high |-> 3, low |-> 1, ohlc |-> FALSE, since |-> 0],
   [last |-> 3, quote |-> TRUE, high |-> 3, low |-> 2, ohlc |-> TRUE, since |-> 1],
   [last |-> 1, quote |-> FALSE, high |-> 3, low |-> 1, ohlc |-> TRUE, since |-> 1]}

\* Three layers of limits: a second setting of the system, a loose, a strict (one lot is
\* too much for its orders) and an inconsistent profile.
RiskEnvironment ==
  [riskPct |-> 9, cashPct |-> 100, symbolValue |-> 45, orderValue |-> 22, maxQty |-> 3,
   minOrder |-> 10, minStop |-> 5, maxStop |-> 25, minSlip |-> 1, maxSlip |-> 10, slip |-> 5,
   minConf |-> 60, sellConf |-> 60, perDay |-> 2, budget |-> 0, enabled |-> TRUE]
RiskSystems == {[RiskEnvironment EXCEPT !.budget = 80],
                [RiskEnvironment EXCEPT !.budget = 60, !.symbolValue = 33, !.minStop = 15, !.slip = 2]}
RiskProfiles ==
  {[RiskEnvironment EXCEPT !.orderValue = 60, !.maxQty = 4, !.symbolValue = 60, !.riskPct = 12, !.perDay = 1],
   [RiskEnvironment EXCEPT !.orderValue = 8, !.minConf = 80, !.perDay = 1],
   [RiskEnvironment EXCEPT !.minSlip = 12]}
Look == [oldQuote |-> FALSE, reliable |-> TRUE, book |-> FALSE, volatile |-> FALSE,
         ready |-> "yes", drops |-> <<FALSE, TRUE>>, legacy |-> FALSE, trend |-> "WAIT"]
RiskLooks == {[Look EXCEPT !.ready = "none", !.trend = "BUY"],
              [Look EXCEPT !.reliable = FALSE, !.book = TRUE, !.legacy = TRUE],
              [Look EXCEPT !.drops = <<TRUE, TRUE>>, !.legacy = TRUE, !.trend = "SELL"]}

-----------------------------------------------------------------------------

listVars == <<strong, others, auto, declined, cand, passes, watch, job, admin>>

\* Two profiles are shipped, the second perhaps not yet when the database was made.
ProfileLimits == [c \in Builtins |-> [f \in Fields |-> 1]]

AiRest    == AiInit /\ up
ListRest  == List!Init /\ ~strong /\ ~auto
NoneMissing == ProfilesInit /\ \A c \in Codes : Exists(stored[c])
RiskRest  == RiskInit /\ sys.budget = 60 /\ prof.orderValue = 8 /\ regime = "DOWNTREND"

ServicesInit ==
  /\ DailyInit /\ AiInit /\ List!Init /\ LabelInit /\ RiskInit /\ ProfilesInit
  /\ part \in {"daily", "ai", "list", "label", "limits", "profiles"}
  /\ part # "ai" => AiRest
  /\ part # "list" => ListRest
  /\ part # "limits" => RiskRest
  /\ part # "profiles" => NoneMissing

DailyStep(A)  == part = "daily" /\ A /\ UNCHANGED <<part, aiVars, listVars, labelVars, riskVars, profileVars>>
AiStep(A)     == part = "ai" /\ A /\ UNCHANGED <<part, trades, listVars, labelVars, riskVars, profileVars>>
ListStep(A)   == part = "list" /\ A /\ UNCHANGED <<part, trades, aiVars, labelVars, riskVars, profileVars>>
LabelStep(A)  == part = "label" /\ A /\ UNCHANGED <<part, trades, aiVars, listVars, riskVars, profileVars>>
LimitsStep(A) == part = "limits" /\ A /\ UNCHANGED <<part, trades, aiVars, listVars, labelVars, profileVars>>
ProfilesStep(A) == part = "profiles" /\ A /\ UNCHANGED <<part, trades, aiVars, listVars, labelVars, riskVars>>

ServicesNext ==
  \/ DailyStep(DailyNext) \/ AiStep(AiNext) \/ ListStep(List!Next)
  \/ LabelStep(LabelNext) \/ LimitsStep(RiskNext)
  \/ ProfilesStep(ProfilesNext)

servicesVars == <<part, trades, aiVars, listVars, labelVars, riskVars, profileVars>>

\* The fairness each component states.  Only one part of a behaviour moves, so one formula
\* speaks of an action of each.
ServicesFairness ==
  /\ WF_servicesVars(AiStep(Tick) \/ ListStep(List!Result) \/ LimitsStep(Ended))
  /\ WF_servicesVars(AiStep(Decide("c1")) \/ LimitsStep(Dropped))
  /\ WF_servicesVars(AiStep(Decide("c2")) \/ LimitsStep(NextDay))
  /\ \A c \in {"c1", "c2"} : WF_servicesVars(AiStep(Answered(c)))
  /\ SF_servicesVars(ListStep(List!Found) \/ LimitsStep(EvaluateSell))
  /\ SF_servicesVars(ListStep(List!Cycle) \/ LimitsStep(DispatchSell))
  /\ SF_servicesVars(ListStep(List!Maintain) \/ LimitsStep(Sold))
  /\ SF_servicesVars(ListStep(List!Qualified))

ServicesSpec ==
  /\ ServicesInit
  /\ [][ServicesNext]_servicesVars
  /\ ServicesFairness

-----------------------------------------------------------------------------
\* The properties, each as its component states it.

\* Research: a strong symbol comes back to the list.
StrongReturns == List!StrongReturns
\* Research: a declined symbol leaves the list.
DeclinedLeaves == List!DeclinedLeaves
=============================================================================
