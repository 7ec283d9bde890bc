--------------------------- MODULE ServicesProofs ---------------------------
(***************************************************************************)
(* Proofs about the smaller components, each for every value of its        *)
(* constants.                                                              *)
(*                                                                         *)
(* RiskRules: for any three layers, any account and any order in which     *)
(* settings, evaluations, dispatches and fills follow each other, every    *)
(* purchase that goes out is one each layer permits.  The strictest value  *)
(* is no looser than the layer's own (Strictest), and a quantity that fits *)
(* the strictest limits fits looser ones (Sized is monotone: MulMono); the *)
(* invariant only keeps the numbers numbers.                               *)
(*                                                                         *)
(* OrderBook (as Book): the promise OrderFlow is shown to implement.       *)
(*                                                                         *)
(* AiProvider: the budget of one decision.                                 *)
(*                                                                         *)
(* FillLedger: no fill that was not executed.                              *)
(*                                                                         *)
(* Outcomes: a measurement says what the market did.                       *)
(*                                                                         *)
(* DailyLoss: the replay of a day's trades is their cash and what is held, *)
(* and no loss of the day is missed.                                       *)
(***************************************************************************)
EXTENDS RiskRules, FillLedger, DailyLoss, AiProvider, Outcomes, Sequences, SumTheorems

\* Products of numbers grow with either factor.
LEMMA MulMono ==
  ASSUME NEW a \in Nat, NEW b \in Nat, NEW c \in Nat, a <= b
  PROVE  c * a <= c * b /\ a * c <= b * c
  BY SMT

\* The effective limits are numbers.
LEMMA EffectiveType ==
  ASSUME NEW s \in Layer, NEW p \in Layer
  PROVE  LET e == Effective(s, p)
         IN  /\ e.riskPct \in Nat /\ e.symbolValue \in Nat /\ e.orderValue \in Nat /\ e.maxQty \in Nat
             /\ e.cashPct \in Nat /\ e.maxStop \in Nat /\ e.minOrder \in Nat /\ e.minStop \in Nat
             /\ e.minSlip \in Nat /\ e.maxSlip \in Nat /\ e.slip \in Nat /\ e.minConf \in Nat
             /\ e.budget \in Nat
  BY LayersAssumption DEF Effective, Layer, Lower, Higher

\* The lower of three limits is at most each of them.
LEMMA LowerOf ==
  ASSUME NEW a \in Nat, NEW b \in Nat, NEW c \in Nat
  PROVE  Lower(a, Lower(b, c)) <= a /\ Lower(a, Lower(b, c)) <= b /\ Lower(a, Lower(b, c)) <= c
  BY SMT DEF Lower

\* The higher of three limits is at least each of them.
LEMMA HigherOf ==
  ASSUME NEW a \in Nat, NEW b \in Nat, NEW c \in Nat
  PROVE  Higher(a, Higher(b, c)) >= a /\ Higher(a, Higher(b, c)) >= b /\ Higher(a, Higher(b, c)) >= c
  BY SMT DEF Higher

\* Where the layers can be resolved, no effective limit is looser than any of the three.
LEMMA Strictest ==
  ASSUME NEW s \in Layer, NEW p \in Layer, NEW l \in {Environment, s, p}, Consistent(s, p),
         NEW e, e = Effective(s, p)
  PROVE  /\ e.riskPct <= l.riskPct /\ e.symbolValue <= l.symbolValue
         /\ e.orderValue <= l.orderValue /\ e.maxQty <= l.maxQty /\ e.maxStop <= l.maxStop
         /\ e.minOrder >= l.minOrder /\ e.minStop >= l.minStop /\ e.minConf >= l.minConf
         /\ e.slip >= l.minSlip /\ (e.enabled => l.enabled)
         /\ e.budget = s.budget
<1>1. Environment \in Layer
  BY LayersAssumption
<1>2. /\ e.riskPct = Lower(Environment.riskPct, Lower(s.riskPct, p.riskPct))
      /\ e.symbolValue = Lower(Environment.symbolValue, Lower(s.symbolValue, p.symbolValue))
      /\ e.orderValue = Lower(Environment.orderValue, Lower(s.orderValue, p.orderValue))
      /\ e.maxQty = Lower(Environment.maxQty, Lower(s.maxQty, p.maxQty))
      /\ e.maxStop = Lower(Environment.maxStop, Lower(s.maxStop, p.maxStop))
      /\ e.maxSlip = Lower(Environment.maxSlip, Lower(s.maxSlip, p.maxSlip))
  BY Zenon DEF Effective
<1>3. /\ e.minOrder = Higher(Environment.minOrder, Higher(s.minOrder, p.minOrder))
      /\ e.minStop = Higher(Environment.minStop, Higher(s.minStop, p.minStop))
      /\ e.minConf = Higher(Environment.minConf, Higher(s.minConf, p.minConf))
      /\ e.minSlip = Higher(Environment.minSlip, Higher(s.minSlip, p.minSlip))
      /\ e.slip = Lower(e.maxSlip, Higher(e.minSlip, Higher(Environment.slip, Higher(s.slip, p.slip))))
      /\ e.enabled = (Environment.enabled /\ s.enabled /\ p.enabled)
      /\ e.budget = s.budget
  BY Zenon DEF Effective
<1>4. e.riskPct <= l.riskPct /\ e.symbolValue <= l.symbolValue
  BY <1>1, <1>2, LowerOf DEF Layer
<1>5. e.orderValue <= l.orderValue /\ e.maxQty <= l.maxQty /\ e.maxStop <= l.maxStop
  BY <1>1, <1>2, LowerOf DEF Layer
<1>6. e.minOrder >= l.minOrder /\ e.minStop >= l.minStop /\ e.minConf >= l.minConf
  BY <1>1, <1>3, HigherOf DEF Layer
<1>7. e.slip >= l.minSlip
  <2>1. e.minSlip \in Nat /\ e.maxSlip \in Nat /\ e.minSlip >= l.minSlip
    BY <1>1, <1>2, <1>3, HigherOf DEF Layer, Lower, Higher
  <2>2. e.minSlip <= e.maxSlip
    BY DEF Consistent
  <2>3. Higher(Environment.slip, Higher(s.slip, p.slip)) \in Nat
    BY <1>1 DEF Layer, Higher
  <2>4. l.minSlip \in Nat
    BY <1>1 DEF Layer
  <2>5. QED
    BY <1>3, <2>1, <2>2, <2>3, <2>4 DEF Lower, Higher
<1>8. e.enabled => l.enabled
  BY <1>3
<1>9. QED
  BY <1>3, <1>4, <1>5, <1>6, <1>7, <1>8

-----------------------------------------------------------------------------
(* Types.                                                                  *)

\* No answer yet is an answer of the engine.
LEMMA NoneType == None \in Responses
  BY DEF None, Responses

\* What the engine answers is an answer.
LEMMA AnswerType ==
  ASSUME NEW d \in Answers
  PROVE  d \in Responses
<1>1. /\ Entries \subseteq Nat /\ Risks \subseteq Nat /\ Confidences \subseteq Nat
      /\ Allocations \subseteq Nat /\ {0} \subseteq Nat
  BY NumbersAssumption
<1>2. /\ d = [act |-> d.act, qty |-> d.qty, limit |-> d.limit, stop |-> d.stop, conf |-> d.conf, alloc |-> d.alloc]
      /\ d.act = "BUY" /\ d.qty = 0 /\ d.limit \in Entries /\ d.stop \in Risks
      /\ d.conf \in Confidences /\ d.alloc \in Allocations
  BY DEF Answers
<1>3. /\ d.act \in {"NONE", "BUY", "SELL"} /\ d.qty \in Nat /\ d.limit \in Nat /\ d.stop \in Nat
      /\ d.conf \in Nat /\ d.alloc \in Nat
  BY <1>1, <1>2
<1>4. QED
  BY <1>2, <1>3, Zenon DEF Responses

\* The largest quantity in force is a number.
LEMMA MaxQtyType ==
  ASSUME RiskTypeOK
  PROVE  Effective(sys, prof).maxQty \in Nat
  BY LayersAssumption, EffectiveType DEF RiskTypeOK

\* The settings stay in their sets, quantities and counts stay numbers: a fill never takes
\* more lots than there are.
LEMMA TypeStep ==
  ASSUME RiskTypeOK, [RiskNext]_riskVars
  PROVE  RiskTypeOK'
<1> USE DEF RiskTypeOK
<1>1. CASE EvaluateBuy
  BY <1>1, AnswerType DEF EvaluateBuy, settings
<1>2. CASE EvaluateSell
  <2>1. PICK n \in Sellable : n > 0 /\ decision' = [None EXCEPT !.act = "SELL", !.qty = n, !.limit = Price]
    BY <1>2 DEF EvaluateSell
  <2>2. n \in Nat
    BY <2>1, NumbersAssumption DEF Sellable, Lower
  <2>3. decision' \in Responses
    BY <2>1, <2>2, NumbersAssumption DEF None, Responses
  <2>4. QED
    BY <1>2, <2>3 DEF EvaluateSell, settings
<1>3. CASE DispatchBuy
  <2>1. PICK n \in 1..Effective(sys, prof).maxQty : order' = [decision EXCEPT !.qty = n]
    BY <1>3 DEF DispatchBuy
  <2>2. order' \in Responses
    BY <2>1, MaxQtyType DEF Responses
  <2>3. QED
    BY <1>3, <2>2, NoneType DEF DispatchBuy, settings
<1>4. CASE DispatchSell
  <2>1. PICK n \in 1..Lower(decision.qty, Effective(sys, prof).maxQty) : order' = [decision EXCEPT !.qty = n]
    BY <1>4 DEF DispatchSell
  <2>2. n \in Nat
    BY <2>1, MaxQtyType DEF Responses, Lower
  <2>3. order' \in Responses
    BY <2>1, <2>2 DEF Responses
  <2>4. QED
    BY <1>4, <2>3, NoneType DEF DispatchSell, settings
<1>5. CASE Dropped
  BY <1>5, NoneType DEF Dropped, settings
<1>6. CASE Filled
  <2>1. order.qty \in Nat
    BY DEF Responses
  <2>2. lots' \in Nat
    BY <1>6, <2>1 DEF Filled, Lower
  <2>3. QED
    BY <1>6, <2>2, NoneType DEF Filled, settings
<1>7. CASE Cancelled
  BY <1>7, NoneType DEF Cancelled, settings
<1>8. CASE Configured
  BY <1>8 DEF Configured, Activate, SystemConfig
<1>9. CASE NextDay
  BY <1>9 DEF NextDay, settings
<1>10. CASE UNCHANGED riskVars
  BY <1>10 DEF riskVars
<1>11. QED
  BY <1>1, <1>2, <1>3, <1>4, <1>5, <1>6, <1>7, <1>8, <1>9, <1>10
     DEF RiskNext, Evaluate, DispatchNow, Ended

\* In every reachable state settings, quantities and counts are what they are declared.
THEOREM TypeInvariant == RiskSpec => []RiskTypeOK
<1>1. RiskInit => RiskTypeOK
  BY NoneType DEF RiskInit, RiskTypeOK
<1>2. RiskTypeOK /\ [RiskNext]_riskVars => RiskTypeOK'
  BY TypeStep
<1>3. QED
  BY <1>1, <1>2, PTL DEF RiskSpec

-----------------------------------------------------------------------------
(* The limits of a purchase.                                               *)

\* A size under strict limits is one under each looser limit.
LEMMA SizedPermitted ==
  ASSUME lots \in Nat, sys \in Layer, NEW e, NEW l \in Layer, NEW d \in Responses, NEW a \in Account, NEW n \in Nat,
         e.riskPct \in Nat, e.symbolValue \in Nat, e.orderValue \in Nat, e.maxQty \in Nat,
         e.maxStop \in Nat, e.minOrder \in Nat, e.minStop \in Nat, e.minConf \in Nat, e.slip \in Nat,
         e.budget = sys.budget,
         e.riskPct <= l.riskPct, e.symbolValue <= l.symbolValue, e.orderValue <= l.orderValue,
         e.maxQty <= l.maxQty, e.maxStop <= l.maxStop, e.minOrder >= l.minOrder,
         e.minStop >= l.minStop, e.minConf >= l.minConf, e.slip >= l.minSlip,
         e.enabled => l.enabled,
         Sized(n, d, a, e)
  PROVE  Permits(l, [d EXCEPT !.qty = n]) /\ n * d.limit + lots * Price <= sys.budget
<1> DEFINE o == [d EXCEPT !.qty = n]
<1>1. /\ o.qty = n /\ o.limit = d.limit /\ o.stop = d.stop /\ o.conf = d.conf
      /\ d.limit \in Nat /\ d.stop \in Nat /\ d.conf \in Nat
  BY DEF Responses
<1>2. /\ a.others \in Nat /\ a.own \in Nat /\ a.equity \in Nat /\ Price \in Nat
      /\ l.riskPct \in Nat /\ l.symbolValue \in Nat /\ l.orderValue \in Nat /\ l.maxQty \in Nat
      /\ l.maxStop \in Nat /\ l.minOrder \in Nat /\ l.minStop \in Nat /\ l.minConf \in Nat
      /\ l.minSlip \in Nat /\ sys.budget \in Nat
  BY NumbersAssumption DEF Account, Layer
<1>3. n * d.limit \in Nat /\ lots * Price \in Nat
  BY <1>1, <1>2
<1>4. Capital(a, e) \in Nat /\ Capital(a, e) <= sys.budget
  BY <1>2 DEF Capital, Lower
<1>5. l.enabled /\ d.conf >= l.minConf /\ n <= l.maxQty
  BY <1>1, <1>2 DEF Sized, Sizable, Fits
<1>6. n * d.limit <= l.orderValue /\ n * d.limit >= l.minOrder
  BY <1>2, <1>3 DEF Sized, Fits
<1>7. n * d.limit + lots * Price <= l.symbolValue
  <2>1. lots * Price <= (lots + a.own) * Price /\ (lots + a.own) * Price \in Nat
    <3>1. lots <= lots + a.own /\ lots + a.own \in Nat
      BY <1>2
    <3>2. QED
      BY <1>2, <3>1, MulMono
  <2>2. n * d.limit + (lots + a.own) * Price <= e.symbolValue
    BY DEF Sized, Fits
  <2>3. QED
    BY <1>2, <1>3, <2>1, <2>2
<1>8. d.stop * 100 >= l.minStop * d.limit /\ d.stop * 100 <= l.maxStop * d.limit
  <2>1. /\ l.minStop * d.limit <= e.minStop * d.limit
        /\ e.maxStop * d.limit <= l.maxStop * d.limit
    BY <1>1, <1>2, MulMono
  <2>2. d.stop * 100 >= e.minStop * d.limit /\ d.stop * 100 <= e.maxStop * d.limit
    BY DEF Sized, Sizable
  <2>3. /\ l.minStop * d.limit \in Nat /\ e.minStop * d.limit \in Nat
        /\ e.maxStop * d.limit \in Nat /\ l.maxStop * d.limit \in Nat /\ d.stop * 100 \in Nat
    BY <1>1, <1>2
  <2>4. QED
    BY <2>1, <2>2, <2>3
<1>9. n * LossOf(d, l.minSlip) <= sys.budget * l.riskPct
  <2> DEFINE L1 == LossOf(d, l.minSlip)
             L2 == LossOf(d, e.slip)
  <2>1. L1 \in Nat /\ L2 \in Nat /\ L1 <= L2
    <3>1. d.limit * l.minSlip <= d.limit * e.slip
      BY <1>1, <1>2, MulMono
    <3>2. d.limit * l.minSlip \in Nat /\ d.limit * e.slip \in Nat
      BY <1>1, <1>2
    <3>3. QED
      BY <1>1, <3>1, <3>2 DEF LossOf
  <2> HIDE DEF L1, L2
  <2>2. n * L1 <= n * L2 /\ n * L1 \in Nat /\ n * L2 \in Nat
    BY <2>1, MulMono
  <2>3. n * L2 <= Capital(a, e) * e.riskPct
    BY DEF Sized, Fits, L2
  <2>4. /\ Capital(a, e) * e.riskPct <= sys.budget * e.riskPct
        /\ sys.budget * e.riskPct <= sys.budget * l.riskPct
    BY <1>2, <1>4, MulMono
  <2>5. /\ Capital(a, e) * e.riskPct \in Nat /\ sys.budget * e.riskPct \in Nat
        /\ sys.budget * l.riskPct \in Nat
    BY <1>2, <1>4
  <2>6. n * L1 <= sys.budget * l.riskPct
    BY <2>2, <2>3, <2>4, <2>5
  <2>7. QED
    BY <2>6 DEF L1
<1>10. n * d.limit + lots * Price <= sys.budget
  <2>1. n * d.limit + lots * Price + a.others <= Capital(a, e)
    BY DEF Sized, Fits
  <2>2. QED
    BY <1>2, <1>3, <1>4, <2>1
<1>11. LossOf(o, l.minSlip) = LossOf(d, l.minSlip)
  BY <1>1 DEF LossOf
<1>12. Permits(l, o)
  BY <1>1, <1>5, <1>6, <1>7, <1>8, <1>9, <1>11 DEF Permits
<1>13. QED
  BY <1>10, <1>12

\* What dispatch sends, each of the three layers permits.
LEMMA DispatchPermitted ==
  ASSUME RiskTypeOK, DispatchBuy, NEW l \in {Environment, sys, prof}
  PROVE  Permits(l, order') /\ order'.qty * order'.limit + lots * Price <= sys.budget
<1> DEFINE e == Effective(sys, prof)
<1>1. sys \in Layer /\ prof \in Layer /\ l \in Layer
  BY LayersAssumption DEF RiskTypeOK
<1>2. PICK a \in Account, n \in 1..e.maxQty :
        Sized(n, decision, a, e) /\ order' = [decision EXCEPT !.qty = n]
  BY DEF DispatchBuy
<1>3. n \in Nat /\ decision \in Responses /\ lots \in Nat
  BY MaxQtyType DEF RiskTypeOK
<1>4. Consistent(sys, prof)
  BY DEF DispatchBuy
<1>5. order'.qty = n /\ order'.limit = decision.limit
  BY <1>2, <1>3 DEF Responses
<1>6. /\ e.riskPct \in Nat /\ e.symbolValue \in Nat /\ e.orderValue \in Nat /\ e.maxQty \in Nat
      /\ e.maxStop \in Nat /\ e.minOrder \in Nat /\ e.minStop \in Nat /\ e.minConf \in Nat /\ e.slip \in Nat
  BY <1>1, EffectiveType
<1>7. /\ e.riskPct <= l.riskPct /\ e.symbolValue <= l.symbolValue
      /\ e.orderValue <= l.orderValue /\ e.maxQty <= l.maxQty /\ e.maxStop <= l.maxStop
      /\ e.minOrder >= l.minOrder /\ e.minStop >= l.minStop /\ e.minConf >= l.minConf
      /\ e.slip >= l.minSlip /\ (e.enabled => l.enabled)
      /\ e.budget = sys.budget
  BY <1>1, <1>4, Strictest
<1> HIDE DEF e
<1>8. Permits(l, [decision EXCEPT !.qty = n]) /\ n * decision.limit + lots * Price <= sys.budget
  BY <1>1, <1>2, <1>3, <1>6, <1>7, SizedPermitted
<1>9. QED
  BY <1>2, <1>5, <1>8

\* Only a dispatch of a purchase makes one live.
LEMMA OnlyDispatchBuys ==
  ASSUME RiskTypeOK, RiskNext, Bought
  PROVE  DispatchBuy
<1>1. None.act = "NONE"
  BY DEF None
<1>2. ~DispatchSell
  <2>1. SUFFICES ASSUME DispatchSell PROVE FALSE
    OBVIOUS
  <2>2. PICK n : order' = [decision EXCEPT !.qty = n]
    BY <2>1 DEF DispatchSell
  <2>3. order'.act = "SELL"
    BY <2>1, <2>2 DEF DispatchSell, RiskTypeOK, Responses
  <2>4. QED
    BY <2>3 DEF Bought
<1>3. QED
  BY <1>1, <1>2
     DEF RiskNext, Bought, Evaluate, EvaluateBuy, EvaluateSell, DispatchNow, Dropped, Ended, Filled,
         Cancelled, Configured, NextDay

\* Every purchase that goes out is one each of the three layers permits by itself at that
\* moment, and within the bot's budget, whatever was configured when it was decided.
THEOREM LayersHold == RiskSpec => EveryLayerHolds
<1>1. RiskTypeOK /\ [RiskNext]_riskVars
        => [Bought => /\ \A l \in {Environment, sys, prof} : Permits(l, order')
                      /\ order'.qty * order'.limit + lots * Price <= sys.budget]_riskVars
  <2>1. SUFFICES ASSUME RiskTypeOK, RiskNext, Bought
                 PROVE  /\ \A l \in {Environment, sys, prof} : Permits(l, order')
                        /\ order'.qty * order'.limit + lots * Price <= sys.budget
    OBVIOUS
  <2>2. DispatchBuy
    BY <2>1, OnlyDispatchBuys
  <2>3. QED
    BY <2>1, <2>2, DispatchPermitted
<1>2. QED
  BY <1>1, TypeInvariant, PTL DEF RiskSpec, EveryLayerHolds

-----------------------------------------------------------------------------
(* The promise of the order book, for every set of requests.               *)

CONSTANTS Requests, KeyOf, Qty
VARIABLES belief, phase, executed

Book == INSTANCE OrderBook

\* A live order has an open entry, and a symbol and side has one open entry
\* unless the others were opened again after their orders were over.
BookInv ==
  /\ belief \in [Requests -> {"none", "open", "closed"}]
  /\ phase \in [Requests -> {"new", "live", "done"}]
  /\ \A r \in Requests : phase[r] = "live" => belief[r] = "open"
  /\ \A r, q \in Requests :
       r # q /\ KeyOf[r] = KeyOf[q] /\ belief[r] = "open" /\ belief[q] = "open"
         => phase[r] = "done" \/ phase[q] = "done"

\* The book's invariant holds at the start.
LEMMA BookInvInit == Book!Init => BookInv
BY DEF Book!Init, BookInv

\* Every step of the book keeps its invariant.
LEMMA BookInvStep == BookInv /\ [Book!Next]_Book!bookVars => BookInv'
<1>. SUFFICES ASSUME BookInv, [Book!Next]_Book!bookVars
              PROVE  BookInv'
  OBVIOUS
<1>. USE DEF BookInv
<1>1. ASSUME NEW r \in Requests, Book!Reserve(r)
      PROVE  BookInv'
  BY <1>1 DEF Book!Reserve
<1>2. ASSUME NEW r \in Requests, Book!Place(r)
      PROVE  BookInv'
  BY <1>2 DEF Book!Place
<1>3. ASSUME NEW r \in Requests, Book!Execute(r)
      PROVE  BookInv'
  BY <1>3 DEF Book!Execute
<1>4. ASSUME NEW r \in Requests, Book!Close(r)
      PROVE  BookInv'
  BY <1>4 DEF Book!Close
<1>5. CASE Book!Reopen
  BY <1>5 DEF Book!Reopen
<1>6. CASE UNCHANGED Book!bookVars
  BY <1>6 DEF Book!bookVars
<1>. QED BY <1>1, <1>2, <1>3, <1>4, <1>5, <1>6 DEF Book!Next

\* At most one order of a symbol and side works at a time, for every set of
\* requests: reserve_order's pending check is enough.
THEOREM BookOneLive == Book!Spec => []Book!OneLive
<1>1. BookInv => Book!OneLive
  BY DEF BookInv, Book!OneLive
<1>. QED BY <1>1, BookInvInit, BookInvStep, PTL DEF Book!Spec

\* An entry that was refused before it was placed is never placed.
THEOREM BookClosedStaysUnplaced == Book!Spec => Book!ClosedStaysUnplaced
<1>1. ASSUME BookInv, [Book!Next]_Book!bookVars, NEW r \in Requests, belief[r] = "closed", phase[r] = "new"
      PROVE  phase'[r] = "new"
  <2>. USE <1>1 DEF BookInv
  <2>1. ASSUME NEW q \in Requests, Book!Reserve(q) \/ Book!Place(q) \/ Book!Execute(q) \/ Book!Close(q)
        PROVE  phase'[r] = "new"
    BY <2>1 DEF Book!Reserve, Book!Place, Book!Execute, Book!Close
  <2>. QED BY <2>1 DEF Book!Next, Book!Reopen, Book!bookVars
<1>2. BookInv /\ [Book!Next]_Book!bookVars =>
        [\A r \in Requests : belief[r] = "closed" /\ phase[r] = "new" => phase'[r] = "new"]_Book!bookVars
  BY <1>1
<1>. QED BY <1>2, BookInvInit, BookInvStep, PTL DEF Book!Spec, Book!ClosedStaysUnplaced

-----------------------------------------------------------------------------
(* The budget of a decision, for any number of evaluations that ask at     *)
(* once, whatever the model asks for and whenever it answers.              *)

\* A decision may be tried, asked and helped at least once.
AiNumbers ==
  /\ {MaxAttempts, MaxToolRounds, MaxToolExecutions} \subseteq Nat \ {0}
  /\ {Threshold, ProbeInterval, MaxCallsPerRound} \subseteq Nat

\* A conversation that has tool calls open has asked one round fewer than it may.
AiInv ==
  /\ DecisionBounded /\ call \in [Callers -> Call]
  /\ \A c \in Callers : call[c].at = "tool" => call[c].n <= MaxToolRounds /\ call[c].asked > 0

\* What a step leaves in the call of c, when it keeps the counters.
LEMMA AiOne ==
  ASSUME AiInv, NEW c \in Callers, NEW k \in Call, call' = [call EXCEPT ![c] = k],
         failures' \in 0..Threshold, age' \in 0..ProbeInterval,
         k.at = "attempt" => k.n < MaxAttempts,
         k.at = "round" => k.n <= MaxToolRounds /\ (k.n = MaxToolRounds => k.force),
         k.at = "round" /\ k.execs = MaxToolExecutions => k.force,
         k.at = "tool" => k.n <= MaxToolRounds /\ k.asked > 0
  PROVE  AiInv'
<1>1. call' \in [Callers -> Call] /\ call'[c] = k /\ \A d \in Callers \ {c} : call'[d] = call[d]
  BY DEF AiInv
<1> QED BY <1>1 DEF AiInv, DecisionBounded

\* A round is forced to an answer when something is spent.
LEMMA AiAsks ==
  ASSUME AiNumbers, NEW k \in Call, k.n <= MaxToolRounds
  PROVE  LET r == AskRound(k)
         IN  /\ r \in Call /\ r.at = "round" /\ r.n = k.n
             /\ r.n = MaxToolRounds \/ r.execs = MaxToolExecutions => r.force
<1> DEFINE b == k.final \/ k.n >= MaxToolRounds \/ k.execs >= MaxToolExecutions \/ k.late
           r == [k EXCEPT !.at = "round", !.force = b]
<1>1. AskRound(k) = r
  BY DEF AskRound
<1>2. b \in BOOLEAN /\ (k.n = MaxToolRounds \/ k.execs = MaxToolExecutions => b)
  BY DEF AiNumbers, Call
<1> HIDE DEF b
<1>3. /\ r \in Call /\ r.at = "round" /\ r.n = k.n /\ r.execs = k.execs /\ r.force = b
  BY <1>2 DEF Call
<1> QED BY <1>1, <1>2, <1>3

\* The numbers of a call.
LEMMA AiFields ==
  ASSUME AiNumbers, NEW k \in Call
  PROVE  /\ k.n \in 0..(MaxToolRounds + MaxAttempts) /\ k.asked \in 0..MaxCallsPerRound
         /\ k.execs \in 0..MaxToolExecutions /\ k.at \in {"idle", "round", "tool", "attempt"}
         /\ k.force \in BOOLEAN /\ k.late \in BOOLEAN
BY DEF Call

\* An idle call.
LEMMA AiIdle ==
  ASSUME AiNumbers
  PROVE  Idle \in Call /\ Idle.at = "idle" /\ Idle.n = 0 /\ Idle.execs = 0
BY DEF AiNumbers, Idle, Call

\* Every step keeps the budgets.
LEMMA AiStep == ASSUME AiNumbers, AiInv, [AiNext]_aiVars PROVE AiInv'
<1>0. /\ failures \in 0..Threshold /\ age \in 0..ProbeInterval /\ call \in [Callers -> Call]
      /\ \A c \in Callers : call[c] \in Call
  BY DEF AiInv, DecisionBounded
<1>i. /\ Idle \in Call /\ Idle.at = "idle" /\ Idle.n = 0 /\ Idle.execs = 0
      /\ \A at \in {"round", "attempt"} :
           [Idle EXCEPT !.at = at] \in Call /\ [Idle EXCEPT !.at = at].at = at
           /\ [Idle EXCEPT !.at = at].n = 0 /\ [Idle EXCEPT !.at = at].execs = 0
  BY AiIdle DEF Call
<1>1. CASE Service
  BY <1>1 DEF Service, AiInv, DecisionBounded
<1>2. CASE Tick
  BY <1>0, <1>2 DEF Tick, AiInv, DecisionBounded, AiNumbers
<1>3. ASSUME NEW c \in Callers, call' = [call EXCEPT ![c] = Idle], failures' \in 0..Threshold,
             age' = age
      PROVE  AiInv'
  BY <1>0, <1>3, <1>i, AiOne
<1>4. 0 \in 0..Threshold /\ (~Degraded => failures + 1 \in 0..Threshold)
  BY <1>0 DEF AiNumbers, Degraded
<1>5. ASSUME NEW c \in Callers, Failed(c) \/ Succeeded(c) \/ Raised(c), age' = age
      PROVE  AiInv'
  BY <1>0, <1>3, <1>4, <1>5 DEF Failed, Succeeded, Raised
<1>6. ASSUME NEW c \in Callers, Decide(c)
      PROVE  AiInv'
  <2>1. CASE UNCHANGED <<age, call>>
    BY <1>6, <2>1 DEF Decide, AiInv, DecisionBounded
  <2>2. CASE age' = 0 /\ \E at \in {"round", "attempt"} : call' = [call EXCEPT ![c].at = at]
    <3>1. PICK at \in {"round", "attempt"} : call' = [call EXCEPT ![c] = [Idle EXCEPT !.at = at]]
      BY <1>6, <2>2 DEF Decide
    <3> DEFINE k == [Idle EXCEPT !.at = at]
    <3>2. k \in Call /\ k.at = at /\ k.n = 0 /\ k.execs = 0
      BY <1>i
    <3> HIDE DEF k
    <3>3. call' = [call EXCEPT ![c] = k]
      BY <3>1 DEF k
    <3>4. age' \in 0..ProbeInterval /\ failures' = failures
      BY <1>6, <2>2 DEF AiNumbers, Decide
    <3>5. /\ at = "attempt" => 0 < MaxAttempts
          /\ at = "round" => 0 <= MaxToolRounds /\ 0 # MaxToolRounds /\ 0 # MaxToolExecutions
          /\ at # "tool"
      BY DEF AiNumbers
    <3> QED BY <1>0, <3>2, <3>3, <3>4, <3>5, AiOne
  <2> QED BY <1>6, <2>1, <2>2 DEF Decide
<1>7. ASSUME NEW c \in Callers, Round(c)
      PROVE  AiInv'
  <2>0. /\ call[c].at = "round" /\ call[c] \in Call /\ call[c].n <= MaxToolRounds
        /\ ~call[c].force => call[c].n < MaxToolRounds
        /\ age' = age
    <3>1. call[c].at = "round" /\ call[c] \in Call /\ age' = age
      BY <1>0, <1>7 DEF Round
    <3>2. call[c].n <= MaxToolRounds /\ (call[c].n = MaxToolRounds => call[c].force)
      BY <3>1 DEF AiInv, DecisionBounded
    <3>3. call[c].n \in Nat /\ MaxToolRounds \in Nat
      BY <3>1, AiFields DEF AiNumbers
    <3> QED BY <3>1, <3>2, <3>3
  <2>1. CASE Succeeded(c) \/ Failed(c) \/ Raised(c)
    BY <1>5, <2>0, <2>1
  <2>2. ASSUME ~call[c].force, failures' = failures, NEW m \in 1..MaxCallsPerRound,
               call' = [call EXCEPT ![c].at = "tool", ![c].asked = m, ![c].n = call[c].n + 1]
        PROVE  AiInv'
    <3> DEFINE k == [call[c] EXCEPT !.at = "tool", !.asked = m, !.n = call[c].n + 1]
    <3>1. k \in Call /\ k.at = "tool" /\ k.asked = m /\ k.n = call[c].n + 1
      <4>1. call[c].n + 1 \in 0..(MaxToolRounds + MaxAttempts) /\ m \in 0..MaxCallsPerRound
        BY <2>0, <2>2, AiFields DEF AiNumbers
      <4> QED BY <2>0, <4>1 DEF Call
    <3>2. call' = [call EXCEPT ![c] = k]
      BY <1>0, <2>2
    <3> HIDE DEF k
    <3>3. k.n <= MaxToolRounds /\ k.asked > 0
      BY <2>0, <2>2, <3>1, AiFields DEF AiNumbers
    <3> QED BY <1>0, <2>0, <2>2, <3>1, <3>2, <3>3, AiOne
  <2>3. ASSUME ~call[c].force, failures' = failures,
               call' = [call EXCEPT ![c] = AskRound([call[c] EXCEPT !.n = call[c].n + 1, !.final = TRUE])]
        PROVE  AiInv'
    <3> DEFINE k == [call[c] EXCEPT !.n = call[c].n + 1, !.final = TRUE]
    <3>1. k \in Call /\ k.n <= MaxToolRounds
      <4>1. call[c].n + 1 \in 0..(MaxToolRounds + MaxAttempts) /\ call[c].n + 1 <= MaxToolRounds
        BY <2>0, <2>3, AiFields DEF AiNumbers
      <4> QED BY <2>0, <4>1 DEF Call
    <3> HIDE DEF k
    <3>2. call' = [call EXCEPT ![c] = AskRound(k)]
      BY <2>3 DEF k
    <3> QED BY <1>0, <2>0, <2>3, <3>1, <3>2, AiAsks, AiOne
  <2> QED BY <1>7, <2>1, <2>2, <2>3 DEF Round
<1>8. ASSUME NEW c \in Callers, Tool(c)
      PROVE  AiInv'
  <2> DEFINE spent == call[c].execs >= MaxToolExecutions \/ call[c].late
             left == [call[c] EXCEPT !.asked = call[c].asked - 1,
                                     !.execs = IF spent THEN call[c].execs ELSE call[c].execs + 1]
  <2>1. /\ call[c].at = "tool" /\ call[c] \in Call
        /\ call[c].n <= MaxToolRounds /\ call[c].asked > 0
        /\ UNCHANGED <<up, failures, age>>
        /\ call' = [call EXCEPT ![c] = IF left.asked = 0 THEN AskRound(left) ELSE left]
    BY <1>0, <1>8 DEF Tool, AiInv
  <2>2. /\ left \in Call /\ left.at = "tool" /\ left.n = call[c].n
        /\ left.asked = call[c].asked - 1
    <3>1. /\ call[c].asked - 1 \in 0..MaxCallsPerRound
          /\ (IF spent THEN call[c].execs ELSE call[c].execs + 1) \in 0..MaxToolExecutions
      BY <2>1, AiFields DEF AiNumbers
    <3> HIDE DEF spent
    <3> QED BY <2>1, <3>1 DEF Call
  <2> HIDE DEF left, spent
  <2>3. CASE left.asked = 0
    BY <1>0, <2>1, <2>2, <2>3, AiAsks, AiOne
  <2>4. CASE left.asked # 0
    <3>1. left.asked > 0
      <4>1. left.asked \in 0..MaxCallsPerRound
        BY <2>2 DEF Call
      <4> QED BY <2>4, <4>1 DEF AiNumbers
    <3>2. call' = [call EXCEPT ![c] = left]
      BY <2>1, <2>4
    <3> QED BY <1>0, <2>1, <2>2, <3>1, <3>2, AiOne
  <2> QED BY <2>3, <2>4
<1>9. ASSUME NEW c \in Callers, Attempt(c)
      PROVE  AiInv'
  <2>1. CASE Succeeded(c) \/ Failed(c) \/ Raised(c)
    BY <1>5, <1>9, <2>1 DEF Attempt
  <2>2. CASE call[c].n + 1 < MaxAttempts /\ call' = [call EXCEPT ![c].n = @ + 1] /\ failures' = failures
    <3> DEFINE k == [call[c] EXCEPT !.n = call[c].n + 1]
    <3>1. k \in Call /\ k.at = "attempt" /\ k.n = call[c].n + 1
      <4>1. call[c] \in Call /\ call[c].at = "attempt"
        BY <1>0, <1>9 DEF Attempt
      <4>2. call[c].n + 1 \in 0..(MaxToolRounds + MaxAttempts)
        BY <2>2, <4>1, AiFields DEF AiNumbers
      <4> QED BY <4>1, <4>2 DEF Call
    <3>2. call' = [call EXCEPT ![c] = k]
      BY <1>0, <2>2
    <3> HIDE DEF k
    <3> QED BY <1>0, <1>9, <2>2, <3>1, <3>2, AiOne DEF Attempt
  <2> QED BY <1>9, <2>1, <2>2 DEF Attempt
<1>10. ASSUME NEW c \in Callers, Late(c)
       PROVE  AiInv'
  <2> DEFINE k == [call[c] EXCEPT !.late = TRUE]
  <2>1. /\ k \in Call /\ k.at = call[c].at /\ k.n = call[c].n /\ k.execs = call[c].execs
        /\ k.force = call[c].force /\ k.asked = call[c].asked
    BY <1>0 DEF Call
  <2>2. call' = [call EXCEPT ![c] = k] /\ UNCHANGED <<up, failures, age>>
    BY <1>0, <1>10 DEF Late
  <2> HIDE DEF k
  <2> QED BY <1>0, <2>1, <2>2, AiOne DEF AiInv, DecisionBounded
<1>11. ASSUME NEW c \in Callers, TimedOut(c)
       PROVE  AiInv'
  BY <1>5, <1>11 DEF TimedOut
<1>12. CASE UNCHANGED aiVars
  BY <1>12 DEF aiVars, AiInv, DecisionBounded
<1> QED BY <1>1, <1>2, <1>6, <1>7, <1>8, <1>9, <1>10, <1>11, <1>12
        DEF AiNext, Step, Answered

\* A decision costs the rounds, attempts and tool calls it is allowed and no more,
\* for any budgets and any number of evaluations (ai_provider.py, _decide_with_tools).
THEOREM DecisionStaysBounded ==
  ASSUME AiNumbers
  PROVE  AiSpec => []DecisionBounded
<1>1. AiInit => AiInv
  <2> SUFFICES ASSUME AiInit PROVE AiInv
    OBVIOUS
  <2>1. Idle \in Call /\ Idle.at = "idle"
    BY DEF AiNumbers, Idle, Call
  <2> QED BY <2>1 DEF AiInit, AiInv, DecisionBounded, AiNumbers
<1>2. AiInv /\ [AiNext]_aiVars => AiInv'
  BY AiStep
<1>3. AiInv => DecisionBounded
  BY DEF AiInv
<1> QED BY <1>1, <1>2, <1>3, PTL DEF AiSpec

-----------------------------------------------------------------------------
(* The fills of the ledger are lots that were executed.                    *)
(*                                                                         *)
(* What is recorded of a row, together with what a reconciliation is about *)
(* to record, never exceeds the total of the row: a callback adds the lots *)
(* by which it raises that total, a reconciliation the difference to a     *)
(* total that has only grown since it was read.                            *)

\* One reconciliation runs, no row stands for another row's order, and the order
\* synchroniser applies no copies (each of the three alone breaks the property, in the
\* runs that show it).
OneWriter ==
  /\ \A j, k \in Reconcilers : j = k
  /\ \A r, q \in Rows : ExecOf[r] = ExecOf[q] => r = q
  /\ MaxSyncs = 0

FillRecords == [src : {"CALLBACK_DELTA", "RECONCILIATION"}, row : Rows, total : Nat, qty : Nat, at : Nat]
Lives == [id : Nat, open : BOOLEAN, qty : Int, opened : Nat, acc : Accounts \union {NoAcc}]
RecStates == [pc : {"idle", "fills", "qty", "sum", "write"}, copy : [Rows -> Nat], at : [Rows -> Nat],
              todo : SUBSET Rows, gap : SUBSET FillRecords, staged : SUBSET FillRecords,
              held : SUBSET Lives, seen : Lives, sum : Int]

\* What is recorded or about to be.
Claimed == fills \union UNION {rec[k].staged \union rec[k].gap : k \in Reconcilers}

FillShapes ==
  /\ exec \in [Execs -> Nat] /\ row \in [Rows -> [filled : Nat, at : Nat]] /\ clock \in Nat
  /\ fills \in SUBSET FillRecords /\ IsFiniteSet(fills) /\ life \in Lives
  /\ rec \in [Reconcilers -> RecStates]
  /\ \A k \in Reconcilers : IsFiniteSet(rec[k].staged) /\ IsFiniteSet(rec[k].gap)
  /\ osync.todo = {} /\ syncs = 0

FillBooks ==
  /\ \A r \in Rows : row[r].filled <= exec[ExecOf[r]]
  /\ \A k \in Reconcilers, r \in Rows : rec[k].copy[r] <= row[r].filled
  /\ \A r \in Rows : Recorded(Claimed, r) <= row[r].filled

FillInv == FillShapes /\ FillBooks

\* The lots of a finite set of fills: a natural, at least those of a part, and at
\* most one fill more when one is added.
LEMMA LotsOfFills ==
  ASSUME NEW S \in SUBSET FillRecords, IsFiniteSet(S)
  PROVE  /\ Sum(S) \in Nat
         /\ \A T \in SUBSET S : Sum(T) \in Nat /\ Sum(T) <= Sum(S)
         /\ \A f \in FillRecords : Sum(S \union {f}) <= Sum(S) + f.qty
<1> DEFINE q == [f \in FillRecords |-> f.qty]
<1>1. \A f \in FillRecords : q[f] = f.qty /\ q[f] \in Nat
  BY DEF FillRecords
<1>2. ASSUME NEW T \in SUBSET FillRecords, IsFiniteSet(T)
      PROVE  Sum(T) = SumFunctionOnSet(q, T)
  <2> DEFINE g == [f \in T |-> f.qty]
  <2>1. Sum(T) = SumFunctionOnSet(g, T)
    <3>1. Sum(T) = SumFunction(g)
      BY Zenon DEF Sum
    <3>2. DOMAIN g = T
      OBVIOUS
    <3> HIDE DEF g
    <3> QED BY <3>1, <3>2, SumWhole
  <2>2. \A f \in T : g[f] = q[f]
    BY <1>1
  <2> HIDE DEF g, q
  <2> QED BY <1>2, <2>1, <2>2, SumAgrees
<1> HIDE DEF q
<1>3. Sum(S) \in Nat
  <2>1. SumFunctionOnSet(q, S) \in Nat
    BY <1>1, SumNat
  <2> QED BY <1>2, <2>1
<1>4. ASSUME NEW T \in SUBSET S
      PROVE  Sum(T) \in Nat /\ Sum(T) <= Sum(S)
  <2>1. IsFiniteSet(T)
    BY FS_Subset
  <2>2. SumFunctionOnSet(q, T) \in Nat /\ SumFunctionOnSet(q, T) <= SumFunctionOnSet(q, S)
    BY <1>1, <2>1, SumNat, SumSubset
  <2>3. Sum(S) = SumFunctionOnSet(q, S) /\ Sum(T) = SumFunctionOnSet(q, T)
    BY <1>2, <2>1
  <2> QED BY <2>2, <2>3
<1>5. ASSUME NEW f \in FillRecords
      PROVE  Sum(S \union {f}) <= Sum(S) + f.qty
  <2>1. CASE f \in S
    <3>1. S \union {f} = S
      BY <2>1
    <3>2. f.qty \in Nat
      BY <1>1
    <3> DEFINE a == Sum(S)
    <3>3. Sum(S \union {f}) = a /\ a \in Nat
      BY <1>3, <3>1
    <3> HIDE DEF a
    <3>4. Sum(S \union {f}) <= a + f.qty
      BY <3>2, <3>3
    <3> QED BY <3>4 DEF a
  <2>2. CASE f \notin S
    <3> DEFINE U == S \union {f}
    <3>1. IsFiniteSet(U) /\ f \in U /\ U \ {f} = S /\ U \in SUBSET FillRecords
      BY <2>2, FS_AddElement
    <3> HIDE DEF U
    <3>2. SumFunctionOnSet(q, U) = q[f] + SumFunctionOnSet(q, S)
      <4>1. \A x \in U : q[x] \in Int
        BY <1>1, <3>1
      <4> QED BY <3>1, <4>1, SumRemove
    <3>3. Sum(U) = SumFunctionOnSet(q, U) /\ Sum(S) = SumFunctionOnSet(q, S)
      BY <1>2, <3>1
    <3>4. Sum(U) = f.qty + Sum(S) /\ f.qty \in Nat
      BY <1>1, <3>2, <3>3
    <3> QED BY <1>3, <3>4 DEF U
  <2> QED BY <2>1, <2>2
<1> QED BY <1>3, <1>4, <1>5

\* What is recorded of one row.
LEMMA RecordedFills ==
  ASSUME NEW S \in SUBSET FillRecords, IsFiniteSet(S), NEW r \in Rows
  PROVE  /\ Recorded(S, r) \in Nat
         /\ \A T \in SUBSET S : Recorded(T, r) \in Nat /\ Recorded(T, r) <= Recorded(S, r)
         /\ \A f \in FillRecords :
              Recorded(S \union {f}, r) <= Recorded(S, r) + (IF f.row = r THEN f.qty ELSE 0)
<1> DEFINE of(T) == {f \in T : f.row = r}
<1>1. of(S) \in SUBSET FillRecords /\ IsFiniteSet(of(S))
  BY FS_Subset
<1>2. \A T : Recorded(T, r) = Sum(of(T))
  BY DEF Recorded
<1>3. \A T \in SUBSET S : of(T) \in SUBSET of(S)
  OBVIOUS
<1>4. ASSUME NEW f \in FillRecords
      PROVE  of(S \union {f}) = IF f.row = r THEN of(S) \union {f} ELSE of(S)
  OBVIOUS
<1> HIDE DEF of
<1>5. /\ Sum(of(S)) \in Nat
      /\ \A T \in SUBSET of(S) : Sum(T) \in Nat /\ Sum(T) <= Sum(of(S))
      /\ \A f \in FillRecords : Sum(of(S) \union {f}) <= Sum(of(S)) + f.qty
  BY <1>1, LotsOfFills
<1>6. ASSUME NEW f \in FillRecords
      PROVE  Recorded(S \union {f}, r) <= Recorded(S, r) + (IF f.row = r THEN f.qty ELSE 0)
  <2>1. Recorded(S \union {f}, r) = Sum(IF f.row = r THEN of(S) \union {f} ELSE of(S))
    BY <1>2, <1>4
  <2> QED BY <1>2, <1>5, <2>1
<1> QED BY <1>2, <1>3, <1>5, <1>6

\* With one reconciliation the claims are the ledger's and its own.
LEMMA ClaimedIs ==
  ASSUME OneWriter, NEW k \in Reconcilers
  PROVE  /\ Claimed = fills \union rec[k].staged \union rec[k].gap
         /\ Claimed' = fills' \union rec'[k].staged \union rec'[k].gap
BY DEF Claimed, OneWriter

\* The claims are finitely many fills.
LEMMA ClaimedFinite ==
  ASSUME OneWriter, FillShapes
  PROVE  Claimed \in SUBSET FillRecords /\ IsFiniteSet(Claimed)
<1>1. CASE Reconcilers = {}
  BY <1>1 DEF Claimed, FillShapes
<1>2. ASSUME NEW k \in Reconcilers
      PROVE  Claimed \in SUBSET FillRecords /\ IsFiniteSet(Claimed)
  <2>1. rec[k].staged \in SUBSET FillRecords /\ rec[k].gap \in SUBSET FillRecords
    BY DEF FillShapes, RecStates
  <2>2. IsFiniteSet(fills) /\ IsFiniteSet(rec[k].staged) /\ IsFiniteSet(rec[k].gap)
    BY DEF FillShapes
  <2>3. IsFiniteSet((fills \union rec[k].staged) \union rec[k].gap)
    BY <2>2, FS_Union
  <2> QED BY <2>1, <2>3, ClaimedIs DEF FillShapes
<1> QED BY <1>1, <1>2

\* A fill moves a lifecycle to a lifecycle.
LEMMA AfterFillLives ==
  ASSUME NEW l \in Lives, NEW f \in FillRecords
  PROVE  AfterFill(l, f) \in Lives
<1>1. f.row \in Rows /\ f.qty \in Nat /\ f.at \in Nat /\ AccOf[f.row] \in Accounts \union {NoAcc}
  BY ConstantsAssumption DEF FillRecords
<1>2. AfterBuy(l, f) \in Lives
  <2>1. [id |-> l.id + 1, open |-> TRUE, qty |-> f.qty, opened |-> f.at, acc |-> AccOf[f.row]] \in Lives
    BY <1>1 DEF Lives
  <2>2. [l EXCEPT !.qty = @ + f.qty] \in Lives
    BY <1>1 DEF Lives
  <2> QED BY <2>1, <2>2 DEF AfterBuy
<1>3. AfterSell(l, f) \in Lives
  <2>1. [l EXCEPT !.qty = @ - f.qty] \in Lives
    BY <1>1 DEF Lives
  <2>2. [l EXCEPT !.qty = 0, !.open = FALSE] \in Lives
    <3>1. 0 \in Int /\ FALSE \in BOOLEAN
      OBVIOUS
    <3> QED BY <3>1 DEF Lives
  <2> QED BY <2>1, <2>2 DEF AfterSell
<1> QED BY <1>2, <1>3 DEF AfterFill

\* The transaction's lifecycle is one.
LEMMA SeesLives ==
  ASSUME FillShapes, NEW k \in Reconcilers
  PROVE  Sees(k) \in Lives
<1>1. rec[k].held \in SUBSET Lives /\ life \in Lives
  BY DEF FillShapes, RecStates
<1> QED BY <1>1 DEF Sees

\* The gap a reconciliation finds is the difference of the total it loaded and what
\* is recorded now.
LEMMA GapClaims ==
  ASSUME OneWriter, FillInv, NEW k \in Reconcilers, NEW r \in Rows, RecGap(k, r)
  PROVE  /\ rec' = [rec EXCEPT ![k].todo = @ \ {r}, ![k].gap = rec'[k].gap]
         /\ rec'[k].gap \in SUBSET FillRecords /\ IsFiniteSet(rec'[k].gap)
         /\ Recorded(Claimed', r) <= row[r].filled
         /\ \A q \in Rows \ {r} : Recorded(Claimed', q) <= row[q].filled
<1> DEFINE mine == fills \union rec[k].staged
           missing == rec[k].copy[r] - Recorded(mine, r)
           f == [src |-> "RECONCILIATION", row |-> r, total |-> rec[k].copy[r],
                 qty |-> missing, at |-> rec[k].at[r]]
<1>1. rec[k] \in RecStates /\ rec[k].gap = {}
  BY DEF RecGap, FillInv, FillShapes
<1>2. Claimed = mine /\ mine \in SUBSET FillRecords /\ IsFiniteSet(mine)
  <2>1. Claimed = mine
    BY <1>1, ClaimedIs
  <2> QED BY <2>1, ClaimedFinite DEF FillInv
<1>3. /\ Recorded(mine, r) \in Nat /\ rec[k].copy[r] \in Nat /\ rec[k].at[r] \in Nat
      /\ rec[k].copy[r] <= row[r].filled /\ row[r].filled \in Nat
  BY <1>1, <1>2, RecordedFills DEF RecStates, FillInv, FillBooks, FillShapes
<1>4. PICK G \in {{}, {f}} :
        /\ G = {f} => missing > 0
        /\ rec' = [rec EXCEPT ![k].todo = @ \ {r}, ![k].gap = G]
  BY DEF RecGap
<1> HIDE DEF mine, missing
<1>5. missing \in Int /\ missing = rec[k].copy[r] - Recorded(mine, r)
  BY <1>3 DEF missing
<1>6. missing > 0 => f \in FillRecords /\ f.row = r /\ f.qty = missing
  BY <1>3, <1>5 DEF FillRecords
<1>7. rec'[k].gap = G /\ rec'[k].staged = rec[k].staged /\ fills' = fills
  <2> DEFINE s == [rec[k] EXCEPT !.todo = rec[k].todo \ {r}, !.gap = G]
  <2>1. s.gap = G /\ s.staged = rec[k].staged
    BY <1>1 DEF RecStates
  <2> HIDE DEF s
  <2>2. rec' = [rec EXCEPT ![k] = s] /\ rec \in [Reconcilers -> RecStates]
    BY <1>4 DEF s, FillInv, FillShapes
  <2>3. fills' = fills
    BY DEF RecGap, measured
  <2> QED BY <2>1, <2>2, <2>3
<1>8. Claimed' = mine \union G
  BY <1>7, ClaimedIs DEF mine
<1>9. G \in SUBSET FillRecords /\ IsFiniteSet(G)
  <2>1. CASE G = {}
    BY <2>1, FS_EmptySet
  <2>2. CASE G = {f}
    <3>1. f \in FillRecords
      BY <1>4, <1>6, <2>2
    <3> HIDE DEF f
    <3> QED BY <2>2, <3>1, FS_Singleton
  <2> QED BY <1>4, <2>1, <2>2
<1>10. ASSUME NEW q \in Rows
       PROVE  Recorded(Claimed', q) <= row[q].filled
  <2>1. Recorded(mine, q) <= row[q].filled /\ row[q].filled \in Nat /\ Recorded(mine, q) \in Nat
    BY <1>2, RecordedFills DEF FillInv, FillBooks, FillShapes
  <2>2. CASE G = {}
    BY <1>8, <2>1, <2>2
  <2>3. CASE G = {f}
    <3>1. f \in FillRecords /\ f.row = r /\ f.qty = missing
      BY <1>4, <1>6, <2>3
    <3> HIDE DEF f
    <3>2. Recorded(mine \union {f}, q) <= Recorded(mine, q) + (IF r = q THEN missing ELSE 0)
      BY <1>2, <3>1, RecordedFills
    <3>3. Recorded(mine \union {f}, q) \in Nat
      <4>1. mine \union {f} \in SUBSET FillRecords /\ IsFiniteSet(mine \union {f})
        BY <1>2, <3>1, FS_AddElement
      <4> QED BY <4>1, RecordedFills
    <3> QED BY <1>3, <1>5, <1>8, <2>1, <2>3, <3>2, <3>3
  <2> QED BY <2>2, <2>3
<1> QED BY <1>4, <1>7, <1>9, <1>10

\* A callback's fill is the difference to the total the row had.
LEMMA MeasureStep ==
  ASSUME OneWriter, FillInv, NEW r \in Rows,
         NEW n \in (row[r].filled + 1)..exec[ExecOf[r]], Measure(r, row[r].filled, n),
         rec' = rec, exec' = exec, osync' = osync, syncs' = syncs
  PROVE  FillInv'
<1> DEFINE f == [src |-> "CALLBACK_DELTA", row |-> r, total |-> n, qty |-> n - row[r].filled, at |-> clock + 1]
<1>1. /\ row[r].filled \in Nat /\ exec[ExecOf[r]] \in Nat /\ clock \in Nat
      /\ n \in Nat /\ n > row[r].filled /\ n <= exec[ExecOf[r]]
  BY DEF FillInv, FillShapes, Execs
<1>2. f \in FillRecords /\ f.row = r /\ f.qty = n - row[r].filled
  BY <1>1 DEF FillRecords
<1>3. /\ row' = [row EXCEPT ![r] = [filled |-> n, at |-> clock + 1]] /\ clock' = clock + 1
      /\ \/ fills' = fills \union {f} /\ life' = AfterFill(life, f)
         \/ fills' = fills /\ life' = life
  BY DEF Measure
<1> HIDE DEF f
<1>4. /\ row' \in [Rows -> [filled : Nat, at : Nat]] /\ row'[r].filled = n
      /\ \A q \in Rows \ {r} : row'[q] = row[q]
  BY <1>1, <1>3 DEF FillInv, FillShapes
<1>5. FillShapes'
  <2>1. fills' \in SUBSET FillRecords /\ IsFiniteSet(fills') /\ life' \in Lives
    <3>1. fills \in SUBSET FillRecords /\ IsFiniteSet(fills) /\ life \in Lives
      BY DEF FillInv, FillShapes
    <3>2. IsFiniteSet(fills \union {f}) /\ AfterFill(life, f) \in Lives
      BY <1>2, <3>1, AfterFillLives, FS_AddElement
    <3> QED BY <1>2, <1>3, <3>1, <3>2
  <2>2. clock' \in Nat
    BY <1>1, <1>3
  <2> QED BY <1>4, <2>1, <2>2 DEF FillInv, FillShapes
<1>6. ASSUME NEW q \in Rows
      PROVE  /\ row'[q].filled <= exec'[ExecOf[q]]
             /\ \A k \in Reconcilers : rec'[k].copy[q] <= row'[q].filled
             /\ Recorded(Claimed', q) <= row'[q].filled
  <2>1. /\ row[q].filled <= exec[ExecOf[q]] /\ Recorded(Claimed, q) <= row[q].filled
        /\ \A k \in Reconcilers : rec[k].copy[q] <= row[q].filled /\ rec[k].copy[q] \in Nat
        /\ row[q].filled \in Nat
    BY DEF FillInv, FillBooks, FillShapes, RecStates
  <2>2. Claimed \in SUBSET FillRecords /\ IsFiniteSet(Claimed)
    BY ClaimedFinite DEF FillInv
  <2>3. Claimed' = Claimed \union {f} \/ Claimed' = Claimed
    BY <1>3 DEF Claimed
  <2>4. /\ Recorded(Claimed', q) <= Recorded(Claimed, q) + (IF r = q THEN n - row[r].filled ELSE 0)
        /\ Recorded(Claimed, q) \in Nat /\ Recorded(Claimed', q) \in Nat
    <3>1. Recorded(Claimed, q) \in Nat
      BY <2>2, RecordedFills
    <3>2. CASE Claimed' = Claimed
      BY <1>1, <3>1, <3>2
    <3>3. CASE Claimed' = Claimed \union {f}
      <4>1. Claimed \union {f} \in SUBSET FillRecords /\ IsFiniteSet(Claimed \union {f})
        BY <1>2, <2>2, FS_AddElement
      <4> QED BY <1>2, <2>2, <3>1, <3>3, <4>1, RecordedFills
    <3> QED BY <2>3, <3>2, <3>3
  <2>5. CASE q = r
    BY <1>1, <1>4, <2>1, <2>4, <2>5
  <2>6. CASE q # r
    BY <1>4, <2>1, <2>4, <2>6
  <2> QED BY <2>5, <2>6
<1> QED BY <1>5, <1>6 DEF FillInv, FillBooks

\* A step that claims nothing new and takes nothing back.
LEMMA ClaimLess ==
  ASSUME OneWriter, FillInv, FillShapes', row' = row, Claimed' \subseteq Claimed,
         \A e \in Execs : exec'[e] >= exec[e],
         \A k \in Reconcilers, r \in Rows : rec'[k].copy[r] <= row[r].filled
  PROVE  FillInv'
<1>1. ASSUME NEW r \in Rows
      PROVE  row[r].filled <= exec'[ExecOf[r]] /\ Recorded(Claimed', r) <= row[r].filled
  <2>1. /\ row[r].filled <= exec[ExecOf[r]] /\ Recorded(Claimed, r) <= row[r].filled
        /\ row[r].filled \in Nat /\ exec[ExecOf[r]] \in Nat /\ exec'[ExecOf[r]] \in Nat
        /\ exec'[ExecOf[r]] >= exec[ExecOf[r]]
    BY DEF FillInv, FillBooks, FillShapes, Execs
  <2>2. /\ Recorded(Claimed', r) <= Recorded(Claimed, r)
        /\ Recorded(Claimed', r) \in Nat /\ Recorded(Claimed, r) \in Nat
    BY ClaimedFinite, RecordedFills DEF FillInv
  <2> QED BY <2>1, <2>2
<1> QED BY <1>1 DEF FillInv, FillBooks

\* A step that only moves the reconciliation k, to a state that claims nothing new.
LEMMA RecMoves ==
  ASSUME OneWriter, FillInv, NEW k \in Reconcilers, NEW s \in RecStates,
         rec' = [rec EXCEPT ![k] = s], UNCHANGED <<exec, row, clock, osync, syncs>>,
         fills' \in SUBSET FillRecords, IsFiniteSet(fills'), life' \in Lives,
         IsFiniteSet(s.staged), IsFiniteSet(s.gap),
         fills' \union s.staged \union s.gap \subseteq fills \union rec[k].staged \union rec[k].gap,
         \A r \in Rows : s.copy[r] <= row[r].filled
  PROVE  FillInv'
<1>1. rec' \in [Reconcilers -> RecStates] /\ rec'[k] = s /\ \A j \in Reconcilers : j = k
  BY DEF OneWriter, FillInv, FillShapes
<1>2. FillShapes'
  BY <1>1 DEF FillInv, FillShapes
<1>3. Claimed' \subseteq Claimed
  BY <1>1, ClaimedIs
<1>4. \A e \in Execs : exec'[e] >= exec[e]
  BY DEF FillInv, FillShapes
<1> QED BY <1>1, <1>2, <1>3, <1>4, ClaimLess

\* The numbers of the lifecycle's fills.
LEMMA DerivedInt ==
  ASSUME FillShapes, NEW l
  PROVE  Derived(l) \in Int
<1>1. \A T \in SUBSET fills : Sum(T) \in Nat
  BY LotsOfFills DEF FillShapes
<1>2. \A d : Side(d, {g \in fills : g.at >= l.opened}) \in SUBSET fills
  BY DEF Side
<1> QED BY <1>1, <1>2 DEF Derived

\* The repair of an idle reconciliation.
LEMMA IdleState ==
  /\ IdleRec \in RecStates /\ IdleRec.staged = {} /\ IdleRec.gap = {}
  /\ \A r \in Rows : IdleRec.copy[r] = 0
<1>1. NoLife \in Lives
  BY DEF NoLife, Lives
<1> QED BY <1>1 DEF IdleRec, RecStates

\* Going idle claims nothing, whether the transaction failed or had nothing left to do.
LEMMA RecIdles ==
  ASSUME OneWriter, FillInv, NEW k \in Reconcilers,
         rec' = [rec EXCEPT ![k] = IdleRec], UNCHANGED <<exec, row, clock, osync, syncs, fills>>,
         life' \in Lives
  PROVE  FillInv'
<1> DEFINE s == IdleRec
<1>1. s \in RecStates /\ s.staged = {} /\ s.gap = {} /\ \A r \in Rows : s.copy[r] = 0
  BY IdleState
<1>2. IsFiniteSet(s.staged) /\ IsFiniteSet(s.gap)
  BY <1>1, FS_EmptySet
<1>3. fills' \in SUBSET FillRecords /\ IsFiniteSet(fills')
  BY DEF FillInv, FillShapes
<1>4. \A r \in Rows : s.copy[r] <= row[r].filled
  <2>1. \A r \in Rows : row[r].filled \in Nat
    BY DEF FillInv, FillShapes
  <2> QED BY <1>1, <2>1
<1>5. rec' = [rec EXCEPT ![k] = s]
  OBVIOUS
<1> HIDE DEF s
<1>6. fills' \union s.staged \union s.gap \subseteq fills \union rec[k].staged \union rec[k].gap
  BY <1>1
<1> QED BY <1>1, <1>2, <1>3, <1>4, <1>5, <1>6, RecMoves

\* A step that leaves claims, fills and the loaded totals alone.
LEMMA RecKeeps ==
  ASSUME OneWriter, FillInv, NEW k \in Reconcilers, NEW s \in RecStates,
         rec' = [rec EXCEPT ![k] = s], UNCHANGED <<exec, row, clock, osync, syncs, fills, life>>,
         s.staged = rec[k].staged, s.gap = rec[k].gap, s.copy = rec[k].copy
  PROVE  FillInv'
<1>1. fills' \in SUBSET FillRecords /\ IsFiniteSet(fills') /\ life' \in Lives
  BY DEF FillInv, FillShapes
<1>2. IsFiniteSet(s.staged) /\ IsFiniteSet(s.gap)
  BY DEF FillInv, FillShapes
<1>3. \A r \in Rows : s.copy[r] <= row[r].filled
  BY DEF FillInv, FillBooks
<1>4. fills' \union s.staged \union s.gap \subseteq fills \union rec[k].staged \union rec[k].gap
  OBVIOUS
<1> QED BY <1>1, <1>2, <1>3, <1>4, RecMoves

\* Every step keeps the books.
LEMMA FillStep ==
  ASSUME OneWriter, FillInv, [Next]_vars
  PROVE  FillInv'
<1>0. /\ FillShapes /\ \A k \in Reconcilers, r \in Rows : rec[k].copy[r] <= row[r].filled
      /\ \A k \in Reconcilers : rec[k] \in RecStates
      /\ \A r \in Rows : row[r].filled \in Nat /\ row[r].at \in Nat
  BY DEF FillInv, FillBooks, FillShapes
<1> USE DEF world, measured
<1>1. ASSUME NEW e \in Execs, Execute(e) PROVE FillInv'
  <2>1. exec' \in [Execs -> Nat] /\ \A d \in Execs : exec'[d] >= exec[d]
    BY <1>0, <1>1 DEF Execute, FillShapes
  <2>2. FillShapes'
    BY <1>0, <1>1, <2>1 DEF Execute, FillShapes
  <2>3. Claimed' = Claimed /\ rec' = rec /\ row' = row
    BY <1>1 DEF Execute, Claimed
  <2> QED BY <1>0, <2>1, <2>2, <2>3, ClaimLess
<1>2. ASSUME UNCHANGED <<exec, row, fills, clock, rec, osync, syncs>>, life' \in Lives PROVE FillInv'
  BY <1>2 DEF FillInv, FillShapes, FillBooks, Claimed
<1>3. CASE HandSell \/ Login \/ PsOwn \/ PsLoad
  BY <1>0, <1>2, <1>3 DEF HandSell, Login, PsOwn, PsLoad, FillShapes
<1>4. CASE PsClose
  <2>1. [life EXCEPT !.open = FALSE, !.qty = 0] \in Lives
    <3>1. life \in Lives /\ 0 \in Int /\ FALSE \in BOOLEAN
      BY <1>0 DEF FillShapes
    <3> QED BY <3>1 DEF Lives
  <2> QED BY <1>0, <1>2, <1>4, <2>1 DEF PsClose, FillShapes
<1>5. CASE SyncLoad
  BY <1>0, <1>5 DEF SyncLoad, FillShapes, OneWriter
<1>6. ASSUME NEW r \in Rows, SyncApply(r) PROVE FillInv'
  BY <1>0, <1>6 DEF SyncApply, FillShapes
<1>7. ASSUME NEW r \in Rows, Callback(r) PROVE FillInv'
  BY <1>7, MeasureStep DEF Callback
<1>8. ASSUME NEW k \in Reconcilers, RecLoad(k) PROVE FillInv'
  <2> DEFINE c == [r \in Rows |-> row[r].filled]
             s == [IdleRec EXCEPT !.pc = "fills", !.copy = c, !.at = [r \in Rows |-> row[r].at],
                                        !.todo = {r \in Rows : row[r].filled > 0}]
  <2>1. c \in [Rows -> Nat] /\ [r \in Rows |-> row[r].at] \in [Rows -> Nat] /\ \A r \in Rows : c[r] <= row[r].filled
    BY <1>0
  <2> HIDE DEF c
  <2>2. s \in RecStates /\ s.staged = {} /\ s.gap = {} /\ s.copy = c
    BY <2>1, IdleState DEF RecStates
  <2>3. rec' = [rec EXCEPT ![k] = s]
    BY <1>8 DEF RecLoad, c
  <2> HIDE DEF s
  <2>4. UNCHANGED <<exec, row, clock, osync, syncs>> /\ fills' = fills /\ life' = life
    BY <1>8 DEF RecLoad
  <2>5. fills' \in SUBSET FillRecords /\ IsFiniteSet(fills') /\ life' \in Lives
    BY <1>0, <2>4 DEF FillShapes
  <2>6. IsFiniteSet(s.staged) /\ IsFiniteSet(s.gap)
    BY <2>2, FS_EmptySet
  <2>7. fills' \union s.staged \union s.gap \subseteq fills \union rec[k].staged \union rec[k].gap
    BY <2>2, <2>4
  <2>8. \A r \in Rows : s.copy[r] <= row[r].filled
    BY <2>1, <2>2
  <2> QED BY <2>2, <2>3, <2>4, <2>5, <2>6, <2>7, <2>8, RecMoves
<1>9. ASSUME NEW k \in Reconcilers, NEW r \in Rows, RecGap(k, r) PROVE FillInv'
  <2> DEFINE s == [rec[k] EXCEPT !.todo = rec[k].todo \ {r}, !.gap = rec'[k].gap]
  <2>1. /\ rec' = [rec EXCEPT ![k] = s]
        /\ rec'[k].gap \in SUBSET FillRecords /\ IsFiniteSet(rec'[k].gap)
        /\ \A q \in Rows : Recorded(Claimed', q) <= row[q].filled
    BY <1>9, GapClaims
  <2>2. s \in RecStates /\ s.staged = rec[k].staged /\ s.gap = rec'[k].gap /\ s.copy = rec[k].copy
    <3> DEFINE G == rec'[k].gap
    <3> HIDE DEF G
    <3>1. [rec[k] EXCEPT !.todo = rec[k].todo \ {r}, !.gap = G].gap = G
          /\ [rec[k] EXCEPT !.todo = rec[k].todo \ {r}, !.gap = G] \in RecStates
          /\ [rec[k] EXCEPT !.todo = rec[k].todo \ {r}, !.gap = G].staged = rec[k].staged
          /\ [rec[k] EXCEPT !.todo = rec[k].todo \ {r}, !.gap = G].copy = rec[k].copy
      <4>1. G \in SUBSET FillRecords
        BY <2>1 DEF G
      <4> QED BY <1>0, <4>1 DEF RecStates
    <3> QED BY <3>1 DEF G
  <2> HIDE DEF s
  <2>3. /\ rec' \in [Reconcilers -> RecStates] /\ rec'[k] = s
        /\ \A j \in Reconcilers : j = k
    BY <1>0, <2>1, <2>2 DEF FillShapes, OneWriter
  <2>4. FillShapes'
    BY <1>0, <1>9, <2>1, <2>2, <2>3 DEF RecGap, FillShapes
  <2>5. FillBooks'
    BY <1>0, <1>9, <2>1, <2>2, <2>3 DEF RecGap, FillInv, FillBooks
  <2> QED BY <2>4, <2>5 DEF FillInv
<1>10. ASSUME NEW k \in Reconcilers, RecApply(k) PROVE FillInv'
  <2>1. PICK g \in rec[k].gap :
          rec' = [rec EXCEPT ![k].gap = {}, ![k].staged = @ \union {g},
                             ![k].held = IF AfterFill(Sees(k), g) # Sees(k)
                                         THEN {AfterFill(Sees(k), g)} ELSE @]
    BY <1>10 DEF RecApply
  <2>2. g \in FillRecords /\ rec[k].staged \union {g} \in SUBSET FillRecords /\ rec[k].held \in SUBSET Lives
        /\ AfterFill(Sees(k), g) \in Lives
    BY <1>0, SeesLives, AfterFillLives DEF RecStates
  <2> DEFINE h == IF AfterFill(Sees(k), g) # Sees(k)
                  THEN {AfterFill(Sees(k), g)} ELSE rec[k].held
             s == [rec[k] EXCEPT !.gap = {}, !.staged = rec[k].staged \union {g}, !.held = h]
  <2>3. rec' = [rec EXCEPT ![k] = s] /\ h \in SUBSET Lives
    BY <1>0, <2>1, <2>2 DEF FillShapes
  <2> HIDE DEF h
  <2>4. s \in RecStates /\ s.staged = rec[k].staged \union {g} /\ s.gap = {} /\ s.copy = rec[k].copy
    BY <1>0, <2>2, <2>3 DEF RecStates
  <2> HIDE DEF s
  <2>5. IsFiniteSet(s.staged) /\ IsFiniteSet(s.gap)
    <3>1. IsFiniteSet(rec[k].staged)
      BY <1>0 DEF FillShapes
    <3>2. IsFiniteSet(rec[k].staged \union {g})
      BY <3>1, FS_AddElement
    <3> QED BY <2>4, <3>2, FS_EmptySet
  <2>6. UNCHANGED <<exec, row, clock, osync, syncs>> /\ fills' = fills /\ life' = life
    BY <1>10 DEF RecApply
  <2>7. fills' \in SUBSET FillRecords /\ IsFiniteSet(fills') /\ life' \in Lives
    BY <1>0, <2>6 DEF FillShapes
  <2>8. fills' \union s.staged \union s.gap \subseteq fills \union rec[k].staged \union rec[k].gap
    BY <2>1, <2>4, <2>6
  <2>9. \A r \in Rows : s.copy[r] <= row[r].filled
    BY <1>0, <2>4
  <2> QED BY <2>3, <2>4, <2>5, <2>6, <2>7, <2>8, <2>9, RecMoves
<1>11. ASSUME NEW k \in Reconcilers, RecCommit(k) PROVE FillInv'
  <2> DEFINE s == [IdleRec EXCEPT !.pc = "qty"]
  <2>1. s \in RecStates /\ s.staged = {} /\ s.gap = {} /\ \A r \in Rows : s.copy[r] = 0
    BY IdleState DEF RecStates
  <2>2. rec' = [rec EXCEPT ![k] = s]
    BY <1>11 DEF RecCommit
  <2> HIDE DEF s
  <2>3. fills' \in SUBSET FillRecords /\ IsFiniteSet(fills') /\ life' \in Lives
    <3>1. fills' = fills \union rec[k].staged /\ life' = Sees(k)
      BY <1>11 DEF RecCommit
    <3>2. rec[k].staged \in SUBSET FillRecords /\ fills \in SUBSET FillRecords
      BY <1>0 DEF FillShapes, RecStates
    <3>3. IsFiniteSet(fills \union rec[k].staged)
      BY <1>0, FS_Union DEF FillShapes
    <3> QED BY <1>0, <3>1, <3>2, <3>3, SeesLives
  <2>4. UNCHANGED <<exec, row, clock, osync, syncs>> /\ fills' = fills \union rec[k].staged
    BY <1>11 DEF RecCommit
  <2>5. IsFiniteSet(s.staged) /\ IsFiniteSet(s.gap)
    BY <2>1, FS_EmptySet
  <2>6. fills' \union s.staged \union s.gap \subseteq fills \union rec[k].staged \union rec[k].gap
    BY <2>1, <2>4
  <2>7. \A r \in Rows : s.copy[r] <= row[r].filled
    BY <1>0, <2>1
  <2> QED BY <2>1, <2>2, <2>3, <2>4, <2>5, <2>6, <2>7, RecMoves
<1>12. ASSUME NEW k \in Reconcilers, QtyLoad(k) PROVE FillInv'
  <2> DEFINE pc == IF life.open THEN "sum" ELSE "idle"
             s == [rec[k] EXCEPT !.seen = life, !.pc = pc]
  <2>1. pc \in {"sum", "idle"} /\ life \in Lives
    BY <1>0 DEF FillShapes
  <2>2. rec' = [rec EXCEPT ![k] = s]
    BY <1>0, <1>12 DEF QtyLoad, FillShapes
  <2> HIDE DEF pc
  <2>3. s \in RecStates /\ s.staged = rec[k].staged /\ s.gap = rec[k].gap /\ s.copy = rec[k].copy
    BY <1>0, <2>1 DEF RecStates
  <2> HIDE DEF s
  <2>4. UNCHANGED <<exec, row, clock, osync, syncs, fills, life>>
    BY <1>12 DEF QtyLoad
  <2> QED BY <2>2, <2>3, <2>4, RecKeeps
<1>13. ASSUME NEW k \in Reconcilers, QtySum(k) PROVE FillInv'
  <2> DEFINE sum == Derived(rec[k].seen)
             s == [rec[k] EXCEPT !.sum = sum, !.pc = "write"]
  <2>1. sum \in Int
    BY <1>0, DerivedInt
  <2>2. PICK t \in {s, IdleRec} : rec' = [rec EXCEPT ![k] = t]
    BY <1>13 DEF QtySum
  <2> HIDE DEF sum
  <2>3. s \in RecStates /\ s.staged = rec[k].staged /\ s.gap = rec[k].gap /\ s.copy = rec[k].copy
    BY <1>0, <2>1 DEF RecStates
  <2> HIDE DEF s
  <2>4. UNCHANGED <<exec, row, clock, osync, syncs, fills, life>> /\ life' \in Lives
    BY <1>0, <1>13 DEF QtySum, FillShapes
  <2>5. CASE t = s
    BY <2>2, <2>3, <2>4, <2>5, RecKeeps
  <2>6. CASE t = IdleRec
    BY <2>2, <2>4, <2>6, RecIdles
  <2> QED BY <2>5, <2>6
<1>14. ASSUME NEW k \in Reconcilers, QtyWrite(k) PROVE FillInv'
  <2>1. [life EXCEPT !.qty = rec[k].sum] \in Lives
    <3>1. life \in Lives /\ rec[k].sum \in Int
      BY <1>0 DEF FillShapes, RecStates
    <3> QED BY <3>1 DEF Lives
  <2>2. life' \in Lives
    BY <1>0, <1>14, <2>1 DEF QtyWrite, FillShapes
  <2>3. UNCHANGED <<exec, row, clock, osync, syncs, fills>> /\ rec' = [rec EXCEPT ![k] = IdleRec]
    BY <1>14 DEF QtyWrite
  <2> QED BY <2>2, <2>3, RecIdles
<1>15. ASSUME NEW k \in Reconcilers, RecAbort(k) PROVE FillInv'
  <2>1. UNCHANGED <<exec, row, clock, osync, syncs, fills>> /\ rec' = [rec EXCEPT ![k] = IdleRec]
        /\ life' \in Lives
    BY <1>0, <1>15 DEF RecAbort, FillShapes
  <2> QED BY <2>1, RecIdles
<1>16. CASE UNCHANGED vars
  BY <1>0, <1>2, <1>16 DEF vars, FillShapes
<1> QED BY <1>1, <1>3, <1>4, <1>5, <1>6, <1>7, <1>8, <1>9, <1>10, <1>11, <1>12, <1>13, <1>14, <1>15, <1>16
        DEF Next, Reconcile, PositionSync

\* No lot is recorded that was not executed, or twice, however failed callbacks, their
\* recovery, aborted reconciliations and logins interleave, for any rows and lots: as long
\* as one reconciliation runs and the synchroniser applies no old copies
\* (measurement_reconciliation.py, record_reconciliation_fill).
THEOREM FillsStayReal ==
  ASSUME OneWriter
  PROVE  Spec => []FillsAreReal
<1>1. Init => FillInv
  <2> SUFFICES ASSUME Init PROVE FillInv
    OBVIOUS
  <2>1. NoLife \in Lives
    BY DEF NoLife, Lives
  <2>2. Claimed = {}
    BY IdleState DEF Init, Claimed
  <2>3. FillShapes
    BY <2>1, IdleState, FS_EmptySet DEF Init, FillShapes, NoSync
  <2>4. \A r \in Rows : Recorded({}, r) = 0
    <3>1. \A r : Recorded({}, r) = Sum({})
      BY DEF Recorded
    <3>2. Sum({}) = 0
      <4> DEFINE g == [f \in {} |-> f.qty]
      <4>1. Sum({}) = SumFunction(g)
        BY Zenon DEF Sum
      <4>2. DOMAIN g = {}
        OBVIOUS
      <4> HIDE DEF g
      <4> QED BY <4>1, <4>2, SumWhole, SumEmpty
    <3> QED BY <3>1, <3>2
  <2>5. \A r \in Rows : ExecOf[r] \in Execs
    BY DEF Execs
  <2> QED BY <2>2, <2>3, <2>4, <2>5, IdleState DEF Init, FillInv, FillBooks
<1>2. FillInv /\ [Next]_vars => FillInv'
  BY FillStep
<1>3. FillInv => FillsAreReal
  <2> SUFFICES ASSUME FillInv, NEW e \in Execs
               PROVE  Sum({f \in fills : ExecOf[f.row] = e}) <= exec[e]
    BY DEF FillsAreReal
  <2>1. PICK r \in Rows : e = ExecOf[r]
    BY DEF Execs
  <2>2. {f \in fills : ExecOf[f.row] = e} = {f \in fills : f.row = r}
    BY <2>1 DEF FillInv, FillShapes, FillRecords, OneWriter
  <2>3. Sum({f \in fills : ExecOf[f.row] = e}) = Recorded(fills, r)
    BY <2>2 DEF Recorded
  <2>4. /\ Recorded(fills, r) <= Recorded(Claimed, r)
        /\ Recorded(fills, r) \in Nat /\ Recorded(Claimed, r) \in Nat
    <3>1. fills \in SUBSET Claimed
      BY DEF Claimed
    <3> QED BY <3>1, ClaimedFinite, RecordedFills DEF FillInv
  <2>5. /\ Recorded(Claimed, r) <= row[r].filled /\ row[r].filled <= exec[ExecOf[r]]
        /\ row[r].filled \in Nat /\ exec[ExecOf[r]] \in Nat
    BY <2>1 DEF FillInv, FillBooks, FillShapes
  <2> QED BY <2>1, <2>3, <2>4, <2>5
<1> QED BY <1>1, <1>2, <1>3, PTL DEF Spec

-----------------------------------------------------------------------------
(* The types of the ledger, with any number of reconciliations, stale      *)
(* copies and made-up rows: what OneWriter rules out makes fills wrong,    *)
(* not empty, larger than their order or ahead of their time, and never    *)
(* leaves a lifecycle with less than nothing.                              *)

LifeAt(c) == [id : Nat, open : BOOLEAN, qty : Nat, opened : 0..c, acc : Accounts \union {NoAcc}]
FillAt(c) == [src : {"CALLBACK_DELTA", "RECONCILIATION"}, row : Rows, total : 1..Lots, qty : 1..Lots, at : 1..c]

\* What a reconciliation holds: totals of rows, each with the time it was written.
RecTyped(s, c) ==
  /\ s \in RecStates
  /\ s.copy \in [Rows -> 0..Lots] /\ s.at \in [Rows -> 0..c]
  /\ \A r \in s.todo : s.copy[r] > 0 /\ s.at[r] > 0
  /\ s.staged \in SUBSET FillAt(c) /\ s.gap \in SUBSET FillAt(c)
  /\ IsFiniteSet(s.staged) /\ IsFiniteSet(s.gap)
  /\ s.held \in SUBSET LifeAt(c) /\ s.sum \in Nat

PsTyped == ps \in [pc : {"idle", "owned", "close"}, acc : Accounts \union {NoAcc}, owned : BOOLEAN, id : Nat]
OsyncTyped == osync \in [todo : SUBSET Rows, copy : [Rows -> 0..Lots], total : [Rows -> 0..Lots]]

LedgerTyped(c) ==
  /\ row \in [Rows -> [filled : 0..Lots, at : 0..c]]
  /\ \A r \in Rows : row[r].filled > 0 => row[r].at > 0
  /\ fills \in SUBSET FillAt(c) /\ IsFiniteSet(fills) /\ life \in LifeAt(c)

FillTypes ==
  /\ clock \in Nat /\ exec \in [Execs -> 0..Lots] /\ acct \in Accounts
  /\ LedgerTyped(clock)
  /\ rec = [k \in Reconcilers |-> rec[k]] /\ \A k \in Reconcilers : RecTyped(rec[k], clock)
  /\ PsTyped /\ OsyncTyped

\* What has its type keeps it as time goes on.
LEMMA TypesLast ==
  ASSUME NEW c \in Nat
  PROVE  /\ LifeAt(c) \subseteq LifeAt(c + 1) /\ FillAt(c) \subseteq FillAt(c + 1)
         /\ \A s : RecTyped(s, c) => RecTyped(s, c + 1)
<1>1. 0..c \subseteq 0..(c + 1) /\ 1..c \subseteq 1..(c + 1)
  OBVIOUS
<1>2. LifeAt(c) \subseteq LifeAt(c + 1)
  BY <1>1 DEF LifeAt
<1>3. FillAt(c) \subseteq FillAt(c + 1)
  BY <1>1 DEF FillAt
<1>4. ASSUME NEW s, RecTyped(s, c) PROVE RecTyped(s, c + 1)
  <2>1. s.at \in [Rows -> 0..(c + 1)]
    BY <1>1, <1>4 DEF RecTyped
  <2>. QED BY <1>2, <1>3, <1>4, <2>1 DEF RecTyped
<1>. QED BY <1>2, <1>3, <1>4

\* Fills of the right type are fills, whose lots can be summed.
LEMMA TypedFills ==
  ASSUME NEW c \in Nat
  PROVE  FillAt(c) \subseteq FillRecords /\ LifeAt(c) \subseteq Lives
BY ConstantsAssumption DEF FillAt, FillRecords, LifeAt, Lives

\* A fill takes a lifecycle to one: a sale takes at most what is left.
LEMMA AfterFillTyped ==
  ASSUME NEW c \in Nat, NEW l \in LifeAt(c), NEW f \in FillAt(c)
  PROVE  AfterFill(l, f) \in LifeAt(c)
<1>1. /\ f.row \in Rows /\ f.qty \in Nat /\ f.at \in 0..c /\ AccOf[f.row] \in Accounts \union {NoAcc}
      /\ l.qty \in Nat /\ l.id + 1 \in Nat
  BY ConstantsAssumption DEF FillAt, LifeAt
<1>2. AfterBuy(l, f) \in LifeAt(c)
  <2>1. [id |-> l.id + 1, open |-> TRUE, qty |-> f.qty, opened |-> f.at, acc |-> AccOf[f.row]] \in LifeAt(c)
    BY <1>1 DEF LifeAt
  <2>2. [l EXCEPT !.qty = @ + f.qty] \in LifeAt(c)
    BY <1>1 DEF LifeAt
  <2>. QED BY <2>1, <2>2 DEF AfterBuy
<1>3. AfterSell(l, f) \in LifeAt(c)
  <2>1. f.qty < l.qty => [l EXCEPT !.qty = @ - f.qty] \in LifeAt(c)
    BY <1>1 DEF LifeAt
  <2>2. [l EXCEPT !.qty = 0, !.open = FALSE] \in LifeAt(c)
    <3>1. 0 \in Nat /\ FALSE \in BOOLEAN
      OBVIOUS
    <3>. QED BY <3>1 DEF LifeAt
  <2>. QED BY <2>1, <2>2 DEF AfterSell
<1>. QED BY <1>2, <1>3 DEF AfterFill

\* A measured callback, from whatever total was believed, is an instant of the ledger.
LEMMA MeasureTyped ==
  ASSUME FillTypes, NEW r \in Rows, NEW old \in 0..Lots, NEW n \in 0..Lots, old < n,
         Measure(r, old, n), UNCHANGED <<exec, acct, rec, ps>>, OsyncTyped'
  PROVE  FillTypes'
<1> DEFINE f == [src |-> "CALLBACK_DELTA", row |-> r, total |-> n, qty |-> n - old, at |-> clock + 1]
<1>1. clock \in Nat /\ LedgerTyped(clock) /\ clock' = clock + 1
  BY DEF FillTypes, Measure
<1>2. f \in FillAt(clock + 1)
  BY <1>1, ConstantsAssumption DEF FillAt
<1>3. /\ row' = [row EXCEPT ![r] = [filled |-> n, at |-> clock + 1]]
      /\ \/ fills' = fills \union {f} /\ life' = AfterFill(life, f)
         \/ UNCHANGED <<fills, life>>
  BY DEF Measure
<1>. HIDE DEF f
<1>4. fills \in SUBSET FillAt(clock + 1) /\ life \in LifeAt(clock + 1) /\ IsFiniteSet(fills)
  BY <1>1, TypesLast DEF LedgerTyped
<1>5. AfterFill(life, f) \in LifeAt(clock + 1) /\ IsFiniteSet(fills \union {f})
  BY <1>1, <1>2, <1>4, AfterFillTyped, FS_AddElement
<1>6. LedgerTyped(clock)'
  <2>1. row' \in [Rows -> [filled : 0..Lots, at : 0..(clock + 1)]]
    <3>1. [filled |-> n, at |-> clock + 1] \in [filled : 0..Lots, at : 0..(clock + 1)]
      BY <1>1
    <3>2. row \in [Rows -> [filled : 0..Lots, at : 0..(clock + 1)]]
      BY <1>1 DEF LedgerTyped
    <3>. QED BY <1>3, <3>1, <3>2
  <2>2. \A q \in Rows : row'[q].filled > 0 => row'[q].at > 0
    BY <1>1, <1>3 DEF LedgerTyped
  <2>. QED BY <1>1, <1>2, <1>3, <1>4, <1>5, <2>1, <2>2 DEF LedgerTyped
<1>7. \A k \in Reconcilers : RecTyped(rec'[k], clock + 1)
  BY <1>1, TypesLast DEF FillTypes
<1>. QED BY <1>1, <1>6, <1>7 DEF FillTypes, PsTyped

\* A step that moves the reconciliation k only, the ledger keeping its types.
LEMMA RecMovesTyped ==
  ASSUME FillTypes, NEW k \in Reconcilers, NEW s, RecTyped(s, clock), rec' = [rec EXCEPT ![k] = s],
         UNCHANGED <<clock, exec, acct, row, ps, osync>>,
         fills' \in SUBSET FillAt(clock), IsFiniteSet(fills'), life' \in LifeAt(clock)
  PROVE  FillTypes'
BY DEF FillTypes, LedgerTyped, PsTyped, OsyncTyped

\* An idle reconciliation has its type.
LEMMA IdleTyped == ASSUME FillTypes PROVE RecTyped(IdleRec, clock)
<1>1. clock \in Nat /\ Lots \in Nat
  BY ConstantsAssumption DEF FillTypes
<1>2. IsFiniteSet({})
  BY FS_EmptySet
<1>. QED BY <1>1, <1>2, IdleState DEF RecTyped, IdleRec

\* The lifecycle a reconciliation sees has its type.
LEMMA SeesTyped ==
  ASSUME FillTypes, NEW k \in Reconcilers
  PROVE  Sees(k) \in LifeAt(clock)
<1>1. rec[k].held \in SUBSET LifeAt(clock) /\ life \in LifeAt(clock)
  BY DEF FillTypes, RecTyped, LedgerTyped
<1>. QED BY <1>1 DEF Sees

\* The gap a reconciliation fills is a fill of the row's order, not empty and not larger.
LEMMA GapTyped ==
  ASSUME FillTypes, NEW k \in Reconcilers, NEW r \in Rows, RecGap(k, r)
  PROVE  FillTypes'
<1> DEFINE mine == fills \union rec[k].staged
           missing == rec[k].copy[r] - Recorded(mine, r)
           f == [src |-> "RECONCILIATION", row |-> r, total |-> rec[k].copy[r],
                 qty |-> missing, at |-> rec[k].at[r]]
<1>1. PICK G \in {{}, {f}} :
        /\ G = {f} => missing > 0
        /\ rec' = [rec EXCEPT ![k].todo = @ \ {r}, ![k].gap = G]
  BY DEF RecGap
<1>2. RecTyped(rec[k], clock) /\ LedgerTyped(clock) /\ clock \in Nat /\ r \in rec[k].todo
  <2>1. RecTyped(rec[k], clock) /\ LedgerTyped(clock) /\ clock \in Nat
    BY DEF FillTypes
  <2>2. r \in rec[k].todo
    BY DEF RecGap
  <2>. QED BY <2>1, <2>2
<1>3. mine \in SUBSET FillRecords /\ IsFiniteSet(mine)
  <2>1. mine \in SUBSET FillAt(clock)
    BY <1>2 DEF RecTyped, LedgerTyped
  <2>2. IsFiniteSet(mine)
    BY <1>2, FS_Union DEF RecTyped, LedgerTyped
  <2>. HIDE DEF mine
  <2>. QED BY <1>2, <2>1, <2>2, TypedFills
<1>4. Recorded(mine, r) \in Nat
  <2>. HIDE DEF mine
  <2>. QED BY <1>3, RecordedFills
<1>5. rec[k].copy[r] \in 1..Lots /\ rec[k].at[r] \in 1..clock
  <2>1. rec[k].copy[r] \in 0..Lots /\ rec[k].at[r] \in 0..clock /\ rec[k].copy[r] > 0 /\ rec[k].at[r] > 0
    BY <1>2 DEF RecTyped
  <2>. QED BY <1>2, <2>1, ConstantsAssumption
<1>. HIDE DEF mine
<1>6. missing > 0 => f \in FillAt(clock)
  <2>1. missing > 0 => missing \in 1..Lots
    BY <1>4, <1>5, ConstantsAssumption
  <2>. HIDE DEF missing
  <2>. QED BY <1>5, <2>1 DEF FillAt
<1>. HIDE DEF f, missing
<1>7. G \in SUBSET FillAt(clock) /\ IsFiniteSet(G)
  BY <1>1, <1>6, FS_EmptySet, FS_Singleton
<1> DEFINE s == [rec[k] EXCEPT !.todo = rec[k].todo \ {r}, !.gap = G]
<1>8. rec' = [rec EXCEPT ![k] = s]
  BY <1>1 DEF FillTypes
<1>9. RecTyped(s, clock)
  <2>1. rec[k] \in RecStates
    BY <1>2 DEF RecTyped
  <2>2. G \in SUBSET FillRecords
    BY <1>2, <1>7, TypedFills
  <2>3. s \in RecStates /\ s.copy = rec[k].copy /\ s.at = rec[k].at /\ s.staged = rec[k].staged
        /\ s.gap = G /\ s.held = rec[k].held /\ s.sum = rec[k].sum /\ s.todo \subseteq rec[k].todo
    BY <2>1, <2>2 DEF RecStates
  <2>. HIDE DEF s
  <2>. QED BY <1>2, <1>7, <2>3 DEF RecTyped
<1>. HIDE DEF s
<1>. QED BY <1>2, <1>8, <1>9, RecMovesTyped DEF RecGap, measured, world, LedgerTyped

\* What is recorded is finite, so that the sum of a lifecycle's fills is a number.
LEMMA SumsTyped ==
  ASSUME FillTypes, NEW l
  PROVE  Derived(l) \in Int
<1>1. fills \in SUBSET FillRecords /\ IsFiniteSet(fills)
  BY TypedFills DEF FillTypes, LedgerTyped
<1>2. \A T \in SUBSET fills : Sum(T) \in Nat
  BY <1>1, LotsOfFills
<1>3. \A d : Side(d, {g \in fills : g.at >= l.opened}) \in SUBSET fills
  BY DEF Side
<1>. QED BY <1>2, <1>3 DEF Derived

\* Every step keeps the types.
LEMMA FillTypesStep == ASSUME FillTypes, [Next]_vars PROVE FillTypes'
<1>0. /\ clock \in Nat /\ LedgerTyped(clock) /\ PsTyped /\ OsyncTyped
      /\ exec \in [Execs -> 0..Lots] /\ acct \in Accounts
      /\ \A k \in Reconcilers : RecTyped(rec[k], clock)
      /\ fills \in SUBSET FillAt(clock) /\ IsFiniteSet(fills) /\ life \in LifeAt(clock)
  BY DEF FillTypes, LedgerTyped
<1>. USE DEF world, measured
<1>1. ASSUME UNCHANGED <<row, fills, clock, rec>>, life' \in LifeAt(clock),
             exec' \in [Execs -> 0..Lots], acct' \in Accounts, PsTyped', OsyncTyped'
      PROVE  FillTypes'
  BY <1>1 DEF FillTypes, LedgerTyped
<1>2. ASSUME NEW e \in Execs, Execute(e) PROVE FillTypes'
  <2>1. exec' \in [Execs -> 0..Lots]
    BY <1>0, <1>2, ConstantsAssumption DEF Execute
  <2>. QED BY <1>0, <1>1, <1>2, <2>1 DEF Execute, PsTyped, OsyncTyped
<1>3. CASE HandSell \/ Login
  BY <1>0, <1>1, <1>3 DEF HandSell, Login, PsTyped, OsyncTyped
<1>4. CASE PsOwn \/ PsLoad
  <2>1. life.id \in Nat
    BY <1>0 DEF LifeAt
  <2>2. PsTyped'
    <3>1. CASE PsOwn
      <4> DEFINE o == OwnedBy(acct) > 0
      <4>1. ps' = [pc |-> "owned", acc |-> acct, owned |-> o, id |-> 0] /\ o \in BOOLEAN
        BY <3>1 DEF PsOwn
      <4>. HIDE DEF o
      <4>. QED BY <1>0, <4>1 DEF PsTyped
    <3>2. CASE PsLoad
      BY <1>0, <2>1, <3>2 DEF PsLoad, PsTyped, IdlePs
    <3>. QED BY <1>4, <3>1, <3>2
  <2>. QED BY <1>0, <1>1, <1>4, <2>2 DEF PsOwn, PsLoad, OsyncTyped
<1>5. CASE PsClose
  <2>1. [life EXCEPT !.open = FALSE, !.qty = 0] \in LifeAt(clock)
    BY <1>0 DEF LifeAt
  <2>2. PsTyped'
    BY <1>5 DEF PsClose, PsTyped, IdlePs
  <2>. QED BY <1>0, <1>1, <1>5, <2>1, <2>2 DEF PsClose, OsyncTyped
<1>6. CASE SyncLoad
  <2>1. OsyncTyped'
    BY <1>0, <1>6 DEF SyncLoad, OsyncTyped, LedgerTyped, Execs
  <2>. QED BY <1>0, <1>1, <1>6, <2>1 DEF SyncLoad, PsTyped
<1>7. ASSUME NEW r \in Rows, SyncApply(r) PROVE FillTypes'
  <2>1. osync.copy[r] \in 0..Lots /\ osync.total[r] \in 0..Lots /\ OsyncTyped'
    BY <1>0, <1>7 DEF SyncApply, OsyncTyped
  <2>2. CASE osync.total[r] > osync.copy[r]
    BY <1>7, <2>1, <2>2, MeasureTyped, ConstantsAssumption DEF SyncApply
  <2>3. CASE ~(osync.total[r] > osync.copy[r])
    BY <1>0, <1>1, <1>7, <2>1, <2>3 DEF SyncApply, PsTyped
  <2>. QED BY <2>2, <2>3
<1>8. ASSUME NEW r \in Rows, Callback(r) PROVE FillTypes'
  <2>1. PICK n \in (row[r].filled + 1)..exec[ExecOf[r]] : Measure(r, row[r].filled, n)
    BY <1>8 DEF Callback
  <2>2. row[r].filled \in 0..Lots /\ exec[ExecOf[r]] \in 0..Lots
    BY <1>0 DEF LedgerTyped, Execs
  <2>3. n \in 0..Lots /\ row[r].filled < n
    BY <2>1, <2>2, ConstantsAssumption
  <2>. QED BY <1>0, <1>8, <2>1, <2>2, <2>3, MeasureTyped DEF Callback, OsyncTyped
<1>9. ASSUME NEW k \in Reconcilers, RecLoad(k) PROVE FillTypes'
  <2> DEFINE c == [r \in Rows |-> row[r].filled]
             a == [r \in Rows |-> row[r].at]
             t == {r \in Rows : row[r].filled > 0}
             s == [IdleRec EXCEPT !.pc = "fills", !.copy = c, !.at = a, !.todo = t]
  <2>1. c \in [Rows -> 0..Lots] /\ a \in [Rows -> 0..clock] /\ t \subseteq Rows
        /\ \A r \in t : c[r] > 0 /\ a[r] > 0
    BY <1>0 DEF LedgerTyped
  <2>2. c \in [Rows -> Nat] /\ a \in [Rows -> Nat]
    BY <1>0, <2>1, ConstantsAssumption
  <2>3. rec' = [rec EXCEPT ![k] = s]
    BY <1>9 DEF RecLoad
  <2>. HIDE DEF c, a, t
  <2>4. RecTyped(s, clock)
    <3>1. s \in RecStates /\ s.copy = c /\ s.at = a /\ s.todo = t /\ s.staged = {} /\ s.gap = {} /\ s.held = {}
          /\ s.sum = 0
      BY <2>1, <2>2, IdleState DEF RecStates, IdleRec
    <3>. HIDE DEF s
    <3>. QED BY <2>1, <3>1, FS_EmptySet DEF RecTyped
  <2>. HIDE DEF s
  <2>5. UNCHANGED <<clock, exec, acct, row, ps, osync, fills, life>>
    BY <1>9 DEF RecLoad
  <2>. QED BY <1>0, <2>3, <2>4, <2>5, RecMovesTyped
<1>10. ASSUME NEW k \in Reconcilers, RecApply(k) PROVE FillTypes'
  <2>1. PICK g \in rec[k].gap :
          rec' = [rec EXCEPT ![k].gap = {}, ![k].staged = @ \union {g},
                             ![k].held = IF AfterFill(Sees(k), g) # Sees(k)
                                         THEN {AfterFill(Sees(k), g)} ELSE @]
    BY <1>10, Zenon DEF RecApply
  <2>2. RecTyped(rec[k], clock) /\ g \in FillAt(clock) /\ rec[k] \in RecStates
    BY <1>0 DEF RecTyped
  <2> DEFINE h == IF AfterFill(Sees(k), g) # Sees(k)
                  THEN {AfterFill(Sees(k), g)} ELSE rec[k].held
             st == rec[k].staged \union {g}
             s == [rec[k] EXCEPT !.gap = {}, !.staged = st, !.held = h]
  <2>3. rec' = [rec EXCEPT ![k] = s]
    BY <2>1 DEF FillTypes
  <2>4. h \in SUBSET LifeAt(clock)
    BY <1>0, <2>2, SeesTyped, AfterFillTyped DEF RecTyped
  <2>5. st \in SUBSET FillAt(clock) /\ IsFiniteSet(st)
    BY <2>2, FS_AddElement DEF RecTyped
  <2>. HIDE DEF h, st
  <2>6. RecTyped(s, clock)
    <3>1. h \in SUBSET Lives /\ st \in SUBSET FillRecords
      BY <1>0, <2>4, <2>5, TypedFills
    <3>2. s \in RecStates /\ s.copy = rec[k].copy /\ s.at = rec[k].at /\ s.todo = rec[k].todo
          /\ s.staged = st /\ s.gap = {} /\ s.held = h /\ s.sum = rec[k].sum
      BY <2>2, <3>1 DEF RecStates
    <3>. HIDE DEF s
    <3>. QED BY <2>2, <2>4, <2>5, <3>2, FS_EmptySet DEF RecTyped
  <2>. HIDE DEF s
  <2>. QED BY <1>0, <1>10, <2>3, <2>6, RecMovesTyped DEF RecApply
<1>11. ASSUME NEW k \in Reconcilers, NEW r \in Rows, RecGap(k, r) PROVE FillTypes'
  BY <1>11, GapTyped
<1>12. ASSUME NEW k \in Reconcilers, RecCommit(k) PROVE FillTypes'
  <2> DEFINE s == [IdleRec EXCEPT !.pc = "qty"]
  <2>1. RecTyped(s, clock)
    <3>1. s \in RecStates /\ s.copy = IdleRec.copy /\ s.at = IdleRec.at /\ s.todo = IdleRec.todo
          /\ s.staged = {} /\ s.gap = {} /\ s.held = IdleRec.held /\ s.sum = IdleRec.sum
      BY IdleState DEF RecStates
    <3>. HIDE DEF s
    <3>. QED BY <3>1, IdleTyped, FS_EmptySet DEF RecTyped
  <2>2. rec' = [rec EXCEPT ![k] = s] /\ fills' = fills \union rec[k].staged /\ life' = Sees(k)
    BY <1>12 DEF RecCommit
  <2>. HIDE DEF s
  <2>3. rec[k].staged \in SUBSET FillAt(clock) /\ IsFiniteSet(fills \union rec[k].staged)
    BY <1>0, FS_Union DEF RecTyped
  <2>. QED BY <1>0, <1>12, <2>1, <2>2, <2>3, SeesTyped, RecMovesTyped DEF RecCommit
<1>13. ASSUME NEW k \in Reconcilers, QtyLoad(k) PROVE FillTypes'
  <2> DEFINE pc == IF life.open THEN "sum" ELSE "idle"
             s == [rec[k] EXCEPT !.seen = life, !.pc = pc]
  <2>1. pc \in {"sum", "idle"} /\ life \in Lives
    BY <1>0, TypedFills
  <2>2. rec' = [rec EXCEPT ![k] = s]
    BY <1>13 DEF QtyLoad, FillTypes
  <2>. HIDE DEF pc
  <2>3. RecTyped(s, clock)
    <3>1. rec[k] \in RecStates /\ RecTyped(rec[k], clock)
      BY <1>0 DEF RecTyped
    <3>2. s \in RecStates /\ s.copy = rec[k].copy /\ s.at = rec[k].at /\ s.todo = rec[k].todo
          /\ s.staged = rec[k].staged /\ s.gap = rec[k].gap /\ s.held = rec[k].held /\ s.sum = rec[k].sum
      BY <2>1, <3>1 DEF RecStates
    <3>. HIDE DEF s
    <3>. QED BY <3>1, <3>2 DEF RecTyped
  <2>. HIDE DEF s
  <2>. QED BY <1>0, <1>13, <2>2, <2>3, RecMovesTyped DEF QtyLoad
<1>14. ASSUME NEW k \in Reconcilers, QtySum(k) PROVE FillTypes'
  <2> DEFINE sum == Derived(rec[k].seen)
             s == [rec[k] EXCEPT !.sum = sum, !.pc = "write"]
  <2>1. sum \in Int
    BY SumsTyped
  <2>2. PICK t \in {s, IdleRec} : rec' = [rec EXCEPT ![k] = t] /\ (t # IdleRec => sum >= 0)
    BY <1>14 DEF QtySum
  <2>. HIDE DEF sum
  <2>3. sum >= 0 => RecTyped(s, clock)
    <3>1. rec[k] \in RecStates /\ RecTyped(rec[k], clock)
      BY <1>0 DEF RecTyped
    <3>2. s \in RecStates /\ s.copy = rec[k].copy /\ s.at = rec[k].at /\ s.todo = rec[k].todo
          /\ s.staged = rec[k].staged /\ s.gap = rec[k].gap /\ s.held = rec[k].held /\ s.sum = sum
      BY <2>1, <3>1 DEF RecStates
    <3>. HIDE DEF s
    <3>. QED BY <2>1, <3>1, <3>2 DEF RecTyped
  <2>. HIDE DEF s
  <2>4. RecTyped(t, clock)
    BY <2>2, <2>3, IdleTyped
  <2>. QED BY <1>0, <1>14, <2>2, <2>4, RecMovesTyped DEF QtySum
<1>15. ASSUME NEW k \in Reconcilers, QtyWrite(k) PROVE FillTypes'
  <2>1. [life EXCEPT !.qty = rec[k].sum] \in LifeAt(clock)
    BY <1>0 DEF RecTyped, LifeAt
  <2>2. life' \in LifeAt(clock)
    BY <1>0, <1>15, <2>1 DEF QtyWrite
  <2>. QED BY <1>0, <1>15, <2>2, IdleTyped, RecMovesTyped DEF QtyWrite
<1>16. ASSUME NEW k \in Reconcilers, RecAbort(k) PROVE FillTypes'
  BY <1>0, <1>16, IdleTyped, RecMovesTyped DEF RecAbort
<1>17. CASE UNCHANGED vars
  BY <1>0, <1>1, <1>17 DEF vars, PsTyped, OsyncTyped
<1>. QED BY <1>2, <1>3, <1>4, <1>5, <1>6, <1>7, <1>8, <1>9, <1>10, <1>11, <1>12, <1>13, <1>14, <1>15, <1>16,
            <1>17 DEF Next, Reconcile, PositionSync

\* Every variable of the fill ledger has its type in every state, for any number of
\* reconciliations, stale copies and rows of one order: no fill is empty or larger than its
\* order or stamped ahead of the ledger, no lifecycle holds less than nothing
\* (position_tracker.py, measurement_reconciliation.py).
THEOREM FillsTyped == Spec => []TypeOK
<1>1. Init => FillTypes
  <2>. SUFFICES ASSUME Init PROVE FillTypes
    OBVIOUS
  <2>1. Lots \in Nat /\ clock = 0 /\ NoLife \in LifeAt(0)
    BY ConstantsAssumption DEF Init, NoLife, LifeAt
  <2>2. LedgerTyped(clock)
    BY <2>1, FS_EmptySet DEF Init, LedgerTyped
  <2>3. RecTyped(IdleRec, clock)
    BY <2>1, IdleState, FS_EmptySet DEF RecTyped, IdleRec
  <2>4. PsTyped /\ OsyncTyped
    BY <2>1 DEF Init, PsTyped, OsyncTyped, IdlePs, NoSync
  <2>. QED BY <2>1, <2>2, <2>3, <2>4 DEF Init, FillTypes
<1>2. FillTypes /\ [Next]_vars => FillTypes'
  BY FillTypesStep
<1>3. FillTypes => TypeOK
  <2>1. LifeAt(clock) = Life /\ FillAt(clock) = Fill
    BY DEF LifeAt, Life, FillAt, Fill
  <2>. QED BY <2>1 DEF FillTypes, LedgerTyped, RecTyped, RecStates, PsTyped, OsyncTyped, TypeOK
<1>. QED BY <1>1, <1>2, <1>3, PTL DEF Spec

-----------------------------------------------------------------------------
(***************************************************************************)
(* Outcomes: a measurement that is filled in pass by pass says what one    *)
(* look at all the observations says.                                      *)
(***************************************************************************)
\* The session's times and prices are numbers, and the horizons finitely many.
LabelNumbers ==
  /\ Horizons \subseteq Nat \ {0} /\ Horizons # {} /\ \E n \in Nat : \A h \in Horizons : h <= n
  /\ Close \in Nat /\ Delay \in Nat /\ DefaultDelay \in Nat
  /\ Samples \subseteq Sample

Fields == Horizons \union {0}
Seen   == [at : Nat, sample : Sample]
Labellings ==
  [at : Nat, act : {"BUY", "WAIT"}, priced : BOOLEAN,
   status : {"PENDING", "PARTIAL", "DATA_GAP", "COMPLETE", "AMBIGUOUS", "UNAVAILABLE"},
   return : [Fields -> Nat], high : Nat, low : Nat, first : {"unknown", "target", "stop", "both"}]

\* One observation an instant, none of a time to come.
SeenShapes ==
  /\ now \in Nat /\ seen \in SUBSET Seen
  /\ \A x \in seen : x.at <= now
  /\ \A x, y \in seen : x.at = y.at => x = y
  /\ \E n \in Nat : \A x \in seen : x.sample.last <= n /\ x.sample.high <= n

\* What an observation says of the extremes, and the ones a row is measured by.
Hi(o, x) == IF BarCounts(o, x) THEN x.sample.high ELSE x.sample.last
Lo(o, x) == IF BarCounts(o, x) THEN x.sample.low ELSE x.sample.last
Told(o) ==
  {x \in seen : /\ o.at <= x.at /\ x.at <= Close /\ x.at <= o.at + Last
                /\ BarCounts(o, x) \/ x.sample.quote}

\* A return that is there is the earliest of its window,
GoodReturns(o) ==
  \A f \in Fields : o.return[f] # 0 =>
    \E x \in seen : /\ x.sample.quote /\ x.sample.last = o.return[f]
                    /\ Due(o, f) <= x.at /\ x.at <= Due(o, f) + Delay
                    /\ \A y \in seen : y.sample.quote /\ y.at >= Due(o, f) => y.at >= x.at

\* what a row remembers comes from an observation,
GoodMemory(o) ==
  /\ Told(o) = {} => o.high = 0 /\ o.low = 0
  /\ o.first # "unknown" => /\ o.act = "BUY"
                            /\ \E x \in Told(o) : Hi(o, x) >= Target \/ Lo(o, x) <= Stop

\* and a finished row is right.
GoodResult(o) ==
  /\ o.status = "COMPLETE" =>
       /\ \A f \in Fields : o.return[f] # 0
       /\ \A x \in Told(o) : Hi(o, x) <= o.high /\ (o.low = 0 \/ o.low <= Lo(o, x))
       /\ Told(o) = {} \/ \E x \in Told(o) : Hi(o, x) >= o.high
       /\ o.first = "target" => \E x \in Told(o) : /\ Hi(o, x) >= Target
                                                   /\ \A y \in Told(o) : Lo(o, y) <= Stop => x.at < y.at
       /\ o.first = "stop" => \E x \in Told(o) : /\ Lo(o, x) <= Stop
                                                 /\ \A y \in Told(o) : Hi(o, y) >= Target => x.at < y.at
       /\ o.first = "unknown" => o.act # "BUY" \/ \A x \in Told(o) : ~(Hi(o, x) >= Target) /\ ~(Lo(o, x) <= Stop)
  /\ o.status = "AMBIGUOUS" => \E x \in Told(o) : Hi(o, x) >= Target /\ Lo(o, x) <= Stop

Good(o) == GoodReturns(o) /\ GoodMemory(o) /\ GoodResult(o)

LabelInv ==
  /\ SeenShapes
  /\ outcome = Unmeasured \/ outcome \in Labellings
  /\ outcome \in Labellings /\ read => Good(outcome)

\* The longest horizon is a number.
LEMMA LastNat == ASSUME LabelNumbers PROVE Last \in Nat
<1>1. \E m \in Horizons : \A h \in Horizons : h <= m
  BY LargestElement DEF LabelNumbers
<1> QED BY <1>1 DEF Last, LabelNumbers

\* A time a return is due at.
LEMMA DueNat ==
  ASSUME LabelNumbers, NEW o, o.at \in Nat, NEW f \in Fields
  PROVE  Due(o, f) \in Nat
BY DEF Due, Fields, LabelNumbers

\* The first of some timed things.
LEMMA EarliestIs ==
  ASSUME NEW xs, xs # {}, \A x \in xs : x.at \in Nat
  PROVE  Earliest(xs) \in xs /\ \A y \in xs : Earliest(xs).at <= y.at
<1> DEFINE T == {x.at : x \in xs}
<1>1. T \in SUBSET Nat /\ T # {}
  OBVIOUS
<1>2. PICK m \in T : \A k \in T : m <= k
  <2> HIDE DEF T
  <2> QED BY <1>1, SmallestElement
<1>3. \E x \in xs : \A y \in xs : x.at <= y.at
  BY <1>2
<1> QED BY <1>3 DEF Earliest

\* What an observation says are numbers.
LEMMA HiLoNat ==
  ASSUME SeenShapes, NEW o, NEW x \in seen
  PROVE  /\ Hi(o, x) \in Nat /\ Lo(o, x) \in Nat /\ x.at \in Nat
         /\ x.sample.last \in Nat \ {0} /\ x.sample.quote \in BOOLEAN
BY DEF SeenShapes, Seen, Sample, Hi, Lo

\* The points of a pass are what its observations say.
LEMMA PointIs ==
  ASSUME NEW o, NEW x
  PROVE  /\ Point(o, x).at = x.at /\ Point(o, x).high = Hi(o, x)
         /\ Point(o, x).low = Lo(o, x)
BY DEF Point, Hi, Lo

\* The observations of a pass, by what it knows of the close.
Used(o, known) ==
  {x \in seen : /\ o.at <= x.at /\ x.at <= MeasurementEnd(o, known)
                /\ BarCounts(o, x) \/ x.sample.quote}

\* The points of an outcome are those of the observations it uses, one for each.
LEMMA PointsAre ==
  ASSUME NEW o, NEW known
  PROVE  Points(o, known) = {Point(o, x) : x \in Used(o, known)}
BY DEF Points, Used

\* The pass could read its configuration.
Knows(known) == known = TRUE

\* Then these are the observations of the session after the decision.
LEMMA UsedIsTold ==
  ASSUME LabelNumbers, SeenShapes, NEW o, o.at \in Nat, NEW known \in BOOLEAN, Knows(known)
  PROVE  Used(o, known) = Told(o)
<1>1. \A x \in seen : x.at \in Nat
  BY HiLoNat
<1>2. \A x \in seen : x.at <= MeasurementEnd(o, known) <=> x.at <= Close /\ x.at <= o.at + Last
  <2>1. MeasurementEnd(o, known) = IF Close < o.at + Last THEN Close ELSE o.at + Last
    BY DEF MeasurementEnd, Knows
  <2>2. Last \in Nat /\ Close \in Nat
    BY LastNat DEF LabelNumbers
  <2> QED BY <1>1, <2>1, <2>2
<1> QED BY <1>2 DEF Used, Told

\* The extremes of a pass are the largest and the smallest number its observations say.
LEMMA ExtremesAre ==
  ASSUME SeenShapes, NEW o, o.high \in Nat, o.low \in Nat, NEW known, NEW pts, pts = Points(o, known)
  PROVE  /\ Highest(o, pts) \in Nat /\ Lowest(o, pts) \in Nat
         /\ pts = {} <=> Used(o, known) = {}
         /\ pts = {} => Highest(o, pts) = o.high /\ Lowest(o, pts) = o.low
         /\ \A x \in Used(o, known) : Hi(o, x) <= Highest(o, pts) /\ Lowest(o, pts) <= Lo(o, x)
         /\ pts # {} => \E x \in Used(o, known) : Hi(o, x) = Highest(o, pts)
<1> DEFINE U == Used(o, known)
<1>1. U \subseteq seen /\ \A x \in U : Hi(o, x) \in Nat /\ Lo(o, x) \in Nat
  BY HiLoNat DEF Used
<1>2. pts = {Point(o, x) : x \in U}
  BY PointsAre
<1>3. pts = {} <=> U = {}
  BY <1>2
<1>4. CASE pts = {}
  BY <1>3, <1>4 DEF Highest, Lowest
<1>5. CASE pts # {}
  <2> DEFINE H == {p.high : p \in pts}
             L == {p.low : p \in pts}
  <2>1. \A p \in pts : \E x \in U : p.high = Hi(o, x) /\ p.low = Lo(o, x)
    BY <1>2, PointIs
  <2>2. \A x \in U : \E p \in pts : p.high = Hi(o, x) /\ p.low = Lo(o, x)
    BY <1>2, PointIs
  <2>3. H \in SUBSET Nat /\ H # {} /\ L \in SUBSET Nat /\ L # {}
    BY <1>1, <1>5, <2>1
  <2>4. PICK n \in Nat : \A x \in seen : x.sample.last <= n /\ x.sample.high <= n
    BY DEF SeenShapes
  <2>5. \A k \in H : k <= n
    BY <1>1, <2>1, <2>4 DEF Hi
  <2>6. PICK h \in H : \A k \in H : k <= h
    <3> HIDE DEF H
    <3> QED BY <2>3, <2>5, LargestElement
  <2>7. PICK l \in L : \A k \in L : l <= k
    <3> HIDE DEF L
    <3> QED BY <2>3, SmallestElement
  <2>8. Highest(o, pts) \in H /\ \A p \in pts : p.high <= Highest(o, pts)
    <3>1. \A p \in pts : p.high <= h
      BY <2>6
    <3> QED BY <1>5, <2>6, <3>1 DEF Highest
  <2>9. Lowest(o, pts) \in L /\ \A p \in pts : Lowest(o, pts) <= p.low
    <3>1. \A p \in pts : l <= p.low
      BY <2>7
    <3> QED BY <1>5, <2>7, <3>1 DEF Lowest
  <2>10. \A x \in U : Hi(o, x) <= Highest(o, pts) /\ Lowest(o, pts) <= Lo(o, x)
    BY <2>2, <2>8, <2>9
  <2>11. \E x \in U : Hi(o, x) = Highest(o, pts)
    BY <2>1, <2>8
  <2> QED BY <1>3, <1>5, <2>3, <2>8, <2>9, <2>10, <2>11
<1> QED BY <1>4, <1>5

\* The returns a pass leaves are numbers, and those that were there stay.
LEMMA ReturnsType ==
  ASSUME LabelNumbers, SeenShapes, NEW o \in Labellings, NEW known \in BOOLEAN
  PROVE  Returns(o, known) \in [Fields -> Nat]
<1>1. ASSUME NEW f \in Fields, InWindow(o, f, known) # {}
      PROVE  Earliest(InWindow(o, f, known)).sample.last \in Nat
  <2> DEFINE W == InWindow(o, f, known)
  <2>1. W \in SUBSET seen
    BY DEF InWindow
  <2>2. \A x \in W : x.at \in Nat /\ x.sample.last \in Nat
    BY <2>1, HiLoNat
  <2> HIDE DEF W
  <2>3. W # {}
    BY <1>1 DEF W
  <2>4. Earliest(W) \in W
    BY <2>2, <2>3, EarliestIs
  <2> QED BY <2>2, <2>4 DEF W
<1>2. o.return \in [Fields -> Nat]
  BY DEF Labellings
<1> QED BY <1>1, <1>2 DEF Returns, Fields

\* A pass that knows its configuration leaves the earliest of each window.
LEMMA ReturnsGood ==
  ASSUME LabelNumbers, SeenShapes, NEW o \in Labellings, GoodReturns(o),
         NEW known \in BOOLEAN, Knows(known),
         NEW f \in Fields, NEW r, r = Returns(o, known)[f], r # 0
  PROVE  \E x \in seen : /\ x.sample.quote /\ x.sample.last = r
                         /\ Due(o, f) <= x.at /\ x.at <= Due(o, f) + Delay
                         /\ \A y \in seen : y.sample.quote /\ y.at >= Due(o, f) => y.at >= x.at
<1> DEFINE W == InWindow(o, f, known)
<1>1. r = IF o.return[f] = 0 /\ IsDue(o, f, known) /\ W # {}
          THEN Earliest(W).sample.last ELSE o.return[f]
  BY DEF Returns, Fields
<1>2. CASE o.return[f] = 0 /\ W # {} /\ r = Earliest(W).sample.last
  <2>1. \A x \in seen : x \in W <=> Due(o, f) <= x.at /\ x.at <= Due(o, f) + Delay /\ x.sample.quote
    BY DEF InWindow, Knows
  <2>2. W \in SUBSET seen /\ \A x \in seen : x.at \in Nat
    BY HiLoNat DEF InWindow
  <2>3. Due(o, f) \in Nat /\ Delay \in Nat
    BY DueNat DEF Labellings, LabelNumbers
  <2> HIDE DEF W
  <2>4. Earliest(W) \in W /\ \A y \in W : Earliest(W).at <= y.at
    BY <1>2, <2>2, EarliestIs
  <2> DEFINE e == Earliest(W)
  <2> HIDE DEF e
  <2>5. e \in W /\ (\A y \in W : e.at <= y.at) /\ r = e.sample.last
    BY <1>2, <2>4 DEF e
  <2>6. ASSUME NEW y \in seen, y.sample.quote, y.at >= Due(o, f) PROVE y.at >= e.at
    BY <2>1, <2>2, <2>3, <2>5, <2>6
  <2>7. e \in seen /\ e.sample.quote /\ Due(o, f) <= e.at /\ e.at <= Due(o, f) + Delay
    BY <2>1, <2>2, <2>5
  <2> QED BY <2>5, <2>6, <2>7
<1>3. CASE r = o.return[f]
  BY <1>3 DEF GoodReturns
<1> QED BY <1>1, <1>2, <1>3

\* What a pass says of target and stop, by the observations it uses.
LEMMA FirstIs ==
  ASSUME SeenShapes, NEW o \in Labellings, NEW known, NEW pts, pts = Points(o, known),
         NEW hit, hit = (\E x \in Used(o, known) : Hi(o, x) >= Target \/ Lo(o, x) <= Stop),
         NEW first, first = FirstHit(o, pts)
  PROVE  /\ first \in {"unknown", "target", "stop", "both"}
         /\ o.act # "BUY" \/ ~hit => first = o.first
         /\ o.act = "BUY" /\ hit =>
              /\ first # "unknown"
              /\ first = "target" =>
                   \E x \in Used(o, known) : /\ Hi(o, x) >= Target
                                             /\ \A y \in Used(o, known) : Lo(o, y) <= Stop => x.at < y.at
              /\ first = "stop" =>
                   \E x \in Used(o, known) : /\ Lo(o, x) <= Stop
                                             /\ \A y \in Used(o, known) : Hi(o, y) >= Target => x.at < y.at
              /\ first = "both" => \E x \in Used(o, known) : Hi(o, x) >= Target /\ Lo(o, x) <= Stop
<1> DEFINE U == Used(o, known)
           hits == {p \in pts : p.high >= Target}
           stops == {p \in pts : p.low <= Stop}
           h == Earliest(hits)
           s == Earliest(stops)
<1>1. U \in SUBSET seen /\ (\A x \in U : x.at \in Nat) /\ (\A x, y \in U : x.at = y.at => x = y)
  BY HiLoNat DEF Used, SeenShapes
<1>2. pts = {Point(o, x) : x \in U}
  BY PointsAre
<1>3. \A p \in pts : \E x \in U : p.at = x.at /\ p.high = Hi(o, x) /\ p.low = Lo(o, x)
  BY <1>2, PointIs
<1>4. \A x \in U : \E p \in pts : p.at = x.at /\ p.high = Hi(o, x) /\ p.low = Lo(o, x)
  BY <1>2, PointIs
<1>5. hit <=> hits \union stops # {}
  <2>1. hit => hits \union stops # {}
    BY <1>4
  <2>2. hits \union stops # {} => hit
    BY <1>3
  <2> QED BY <2>1, <2>2
<1>6. first = IF o.act # "BUY" \/ hits \union stops = {} THEN o.first
              ELSE IF stops = {} \/ (hits # {} /\ h.at < s.at) THEN "target"
              ELSE IF hits = {} \/ s.at < h.at THEN "stop" ELSE "both"
  BY DEF FirstHit
<1>7. \A p \in pts : p.at \in Nat
  BY <1>1, <1>3
<1>8. (\A p \in hits : p \in pts /\ p.high >= Target) /\ (\A p \in stops : p \in pts /\ p.low <= Stop)
  OBVIOUS
<1>9. \A x \in U : /\ Hi(o, x) >= Target => \E p \in hits : p.at = x.at
                   /\ Lo(o, x) <= Stop => \E p \in stops : p.at = x.at
  BY <1>4
<1>10. o.first \in {"unknown", "target", "stop", "both"}
  BY DEF Labellings
<1> HIDE DEF U, hits, stops, h, s
<1>22. o.act # "BUY" \/ hits \union stops = {} => first = o.first
  BY <1>6
<1>23. \/ o.act # "BUY" \/ hits \union stops = {}
       \/ first = "target" /\ (stops = {} \/ (hits # {} /\ h.at < s.at))
       \/ first = "stop" /\ stops # {} /\ (hits = {} \/ s.at < h.at)
       \/ first = "both" /\ hits # {} /\ stops # {} /\ ~(h.at < s.at) /\ ~(s.at < h.at)
  BY <1>6
<1> USE DEF h, s
<1>11. hits # {} => h \in hits /\ \A p \in hits : h.at <= p.at
  BY <1>7, <1>8, EarliestIs
<1>12. stops # {} => s \in stops /\ \A p \in stops : s.at <= p.at
  BY <1>7, <1>8, EarliestIs
<1> HIDE DEF h, s
<1>13. hits # {} => \E x \in U : x.at = h.at /\ Hi(o, x) >= Target
  BY <1>3, <1>8, <1>11
<1>14. stops # {} => \E x \in U : x.at = s.at /\ Lo(o, x) <= Stop
  BY <1>3, <1>8, <1>12
<1>15. (hits # {} => h.at \in Nat) /\ (stops # {} => s.at \in Nat)
  BY <1>7, <1>8, <1>11, <1>12
<1>16. CASE o.act # "BUY" \/ hits \union stops = {}
  BY <1>5, <1>10, <1>16, <1>22
<1>17. ASSUME o.act = "BUY", hits \union stops # {} PROVE first \in {"target", "stop", "both"}
  BY <1>17, <1>23
<1>18. ASSUME o.act = "BUY", hits \union stops # {}, first = "target"
       PROVE  \E x \in U : Hi(o, x) >= Target /\ \A y \in U : Lo(o, y) <= Stop => x.at < y.at
  <2>1. stops = {} \/ (hits # {} /\ h.at < s.at)
    BY <1>18, <1>23
  <2>2. hits # {}
    BY <1>18, <2>1
  <2>3. PICK x \in U : x.at = h.at /\ Hi(o, x) >= Target
    BY <1>13, <2>2
  <2>4. ASSUME NEW y \in U, Lo(o, y) <= Stop PROVE x.at < y.at
    <3>1. PICK p \in stops : p.at = y.at
      BY <1>9, <2>4
    <3>2. stops # {} /\ s.at <= p.at /\ h.at < s.at
      BY <1>12, <2>1, <3>1
    <3> QED BY <1>1, <1>15, <2>2, <2>3, <3>1, <3>2
  <2> QED BY <2>3, <2>4
<1>19. ASSUME o.act = "BUY", hits \union stops # {}, first = "stop"
       PROVE  \E x \in U : Lo(o, x) <= Stop /\ \A y \in U : Hi(o, y) >= Target => x.at < y.at
  <2>1. stops # {} /\ (hits = {} \/ s.at < h.at)
    BY <1>19, <1>23
  <2>2. PICK x \in U : x.at = s.at /\ Lo(o, x) <= Stop
    BY <1>14, <2>1
  <2>3. ASSUME NEW y \in U, Hi(o, y) >= Target PROVE x.at < y.at
    <3>1. PICK p \in hits : p.at = y.at
      BY <1>9, <2>3
    <3>2. hits # {} /\ h.at <= p.at /\ s.at < h.at
      BY <1>11, <2>1, <3>1
    <3> QED BY <1>1, <1>15, <2>1, <2>2, <3>1, <3>2
  <2> QED BY <2>2, <2>3
<1>20. ASSUME o.act = "BUY", hits \union stops # {}, first = "both"
       PROVE  \E x \in U : Hi(o, x) >= Target /\ Lo(o, x) <= Stop
  <2>1. stops # {} /\ hits # {} /\ ~(h.at < s.at) /\ ~(s.at < h.at)
    BY <1>20, <1>23
  <2>2. h.at = s.at
    BY <1>15, <2>1
  <2>3. PICK x \in U : x.at = h.at /\ Hi(o, x) >= Target
    BY <1>13, <2>1
  <2>4. PICK y \in U : y.at = s.at /\ Lo(o, y) <= Stop
    BY <1>14, <2>1
  <2> QED BY <1>1, <2>2, <2>3, <2>4
<1>21. CASE o.act = "BUY" /\ hits \union stops # {}
  BY <1>5, <1>17, <1>18, <1>19, <1>20, <1>21 DEF U
<1> QED BY <1>16, <1>21

\* The row a pass leaves, field by field.
LEMMA LabelledIs ==
  ASSUME LabelNumbers, SeenShapes, NEW o \in Labellings, NEW known \in BOOLEAN,
         NEW pts, pts = Points(o, known), NEW n, n = Labelled(o, known)
  PROVE  /\ n \in Labellings /\ n.at = o.at /\ n.act = o.act
         /\ n.return = Returns(o, known)
         /\ n.high = Highest(o, pts) /\ n.low = Lowest(o, pts)
         /\ n.first = FirstHit(o, pts)
         /\ n.status = "COMPLETE" => n.first # "both" /\ \A f \in Fields : n.return[f] # 0
         /\ n.status = "AMBIGUOUS" => n.first = "both"
<1> DEFINE ret == Returns(o, known)
           hi == Highest(o, pts)
           lo == Lowest(o, pts)
           fst == FirstHit(o, pts)
           m == [o EXCEPT !.return = ret, !.high = hi, !.low = lo, !.first = fst]
           st == Status(m, known)
<1>1. n = [m EXCEPT !.status = st]
  BY DEF Labelled
<1>2. ret \in [Fields -> Nat]
  BY ReturnsType
<1>3. hi \in Nat /\ lo \in Nat
  BY ExtremesAre DEF Labellings
<1>4. fst \in {"unknown", "target", "stop", "both"}
  BY FirstIs
<1> HIDE DEF ret, hi, lo, fst
<1>5. /\ m \in Labellings /\ m.at = o.at /\ m.act = o.act
      /\ m.return = ret /\ m.high = hi /\ m.low = lo /\ m.first = fst
  BY <1>2, <1>3, <1>4 DEF Labellings
<1> HIDE DEF m
<1>6. DOMAIN m.return = Fields
  BY <1>2, <1>5
<1>7. /\ st \in {"PENDING", "PARTIAL", "DATA_GAP", "COMPLETE", "AMBIGUOUS"}
      /\ st = "COMPLETE" => m.first # "both" /\ \A f \in Fields : m.return[f] # 0
      /\ st = "AMBIGUOUS" => m.first = "both"
  BY <1>6 DEF Status
<1> HIDE DEF st
<1>8. /\ n \in Labellings /\ n.status = st /\ n.at = m.at /\ n.act = m.act /\ n.return = m.return
      /\ n.high = m.high /\ n.low = m.low /\ n.first = m.first
  BY <1>1, <1>5, <1>7 DEF Labellings
<1> QED BY <1>5, <1>7, <1>8 DEF ret, hi, lo, fst

\* Which observations a row is measured by, and what they say, is a matter of its time.
LEMMA SameTime ==
  ASSUME NEW o, NEW n, n.at = o.at
  PROVE  /\ Told(n) = Told(o) /\ \A x : Hi(n, x) = Hi(o, x) /\ Lo(n, x) = Lo(o, x)
         /\ \A f : Due(n, f) = Due(o, f)
BY DEF Told, Hi, Lo, BarCounts, Due

\* A pass leaves a good row good.
LEMMA PassGood ==
  ASSUME LabelNumbers, SeenShapes, NEW o \in Labellings, GoodReturns(o), GoodMemory(o),
         NEW known \in BOOLEAN, Knows(known), NEW n, n = Labelled(o, known)
  PROVE  Good(n)
<1> DEFINE pts == Points(o, known)
           hit == \E x \in Told(o) : Hi(o, x) >= Target \/ Lo(o, x) <= Stop
<1>0. pts = Points(o, known)
  OBVIOUS
<1>14. o.high \in Nat /\ o.low \in Nat
  BY DEF Labellings
<1> HIDE DEF pts
<1>1. /\ n \in Labellings /\ n.at = o.at /\ n.act = o.act
      /\ n.return = Returns(o, known)
      /\ n.high = Highest(o, pts) /\ n.low = Lowest(o, pts)
      /\ n.first = FirstHit(o, pts)
      /\ n.status = "COMPLETE" => n.first # "both" /\ \A f \in Fields : n.return[f] # 0
      /\ n.status = "AMBIGUOUS" => n.first = "both"
  <2>1. n \in Labellings /\ n.at = o.at /\ n.act = o.act /\ n.return = Returns(o, known)
    BY <1>0, LabelledIs
  <2>2. n.high = Highest(o, pts) /\ n.low = Lowest(o, pts)
    BY <1>0, LabelledIs
  <2>3. n.first = FirstHit(o, pts)
    BY <1>0, LabelledIs
  <2>4. n.status = "COMPLETE" => n.first # "both" /\ \A f \in Fields : n.return[f] # 0
    BY <1>0, LabelledIs
  <2>5. n.status = "AMBIGUOUS" => n.first = "both"
    BY <1>0, LabelledIs
  <2> QED BY <2>1, <2>2, <2>3, <2>4, <2>5
<1>2. Used(o, known) = Told(o)
  BY UsedIsTold DEF Labellings
<1>3. /\ n.high \in Nat /\ n.low \in Nat /\ o.high \in Nat /\ o.low \in Nat
      /\ n.first \in {"unknown", "target", "stop", "both"}
  BY <1>1 DEF Labellings
<1>4. /\ Told(o) = {} => n.high = o.high /\ n.low = o.low
      /\ \A x \in Told(o) : Hi(o, x) <= n.high /\ n.low <= Lo(o, x)
      /\ Told(o) # {} => \E x \in Told(o) : Hi(o, x) = n.high
  <2>1. /\ pts = {} <=> Told(o) = {}
        /\ pts = {} => Highest(o, pts) = o.high /\ Lowest(o, pts) = o.low
    BY <1>0, <1>2, <1>14, ExtremesAre
  <2>2. \A x \in Told(o) : Hi(o, x) <= Highest(o, pts) /\ Lowest(o, pts) <= Lo(o, x)
    BY <1>0, <1>2, <1>14, ExtremesAre
  <2>3. pts # {} => \E x \in Told(o) : Hi(o, x) = Highest(o, pts)
    BY <1>0, <1>2, <1>14, ExtremesAre
  <2> QED BY <1>1, <2>1, <2>2, <2>3
<1>5. /\ o.act # "BUY" \/ ~hit => n.first = o.first
      /\ o.act = "BUY" /\ hit =>
           /\ n.first # "unknown"
           /\ n.first = "target" =>
                \E x \in Told(o) : Hi(o, x) >= Target /\ \A y \in Told(o) : Lo(o, y) <= Stop => x.at < y.at
           /\ n.first = "stop" =>
                \E x \in Told(o) : Lo(o, x) <= Stop /\ \A y \in Told(o) : Hi(o, y) >= Target => x.at < y.at
           /\ n.first = "both" => \E x \in Told(o) : Hi(o, x) >= Target /\ Lo(o, x) <= Stop
  <2>1. n.first = FirstHit(o, pts)
    BY <1>1
  <2>2. hit = (\E x \in Used(o, known) : Hi(o, x) >= Target \/ Lo(o, x) <= Stop)
    BY <1>2
  <2> HIDE DEF hit
  <2>3. o.act # "BUY" \/ ~hit => n.first = o.first
    BY <1>0, <2>1, <2>2, FirstIs
  <2>4. o.act = "BUY" /\ hit => n.first # "unknown"
    BY <1>0, <2>1, <2>2, FirstIs
  <2>5. o.act = "BUY" /\ hit /\ n.first = "target" =>
          \E x \in Used(o, known) : Hi(o, x) >= Target /\ \A y \in Used(o, known) : Lo(o, y) <= Stop => x.at < y.at
    BY <1>0, <2>1, <2>2, FirstIs
  <2>6. o.act = "BUY" /\ hit /\ n.first = "stop" =>
          \E x \in Used(o, known) : Lo(o, x) <= Stop /\ \A y \in Used(o, known) : Hi(o, y) >= Target => x.at < y.at
    BY <1>0, <2>1, <2>2, FirstIs
  <2>7. o.act = "BUY" /\ hit /\ n.first = "both" => \E x \in Used(o, known) : Hi(o, x) >= Target /\ Lo(o, x) <= Stop
    BY <1>0, <2>1, <2>2, FirstIs
  <2> QED BY <1>2, <2>3, <2>4, <2>5, <2>6, <2>7
<1>6. /\ Told(n) = Told(o) /\ \A x : Hi(n, x) = Hi(o, x) /\ Lo(n, x) = Lo(o, x)
      /\ \A f : Due(n, f) = Due(o, f)
  BY <1>1, SameTime
<1>7. o.first # "unknown" => o.act = "BUY" /\ hit
  BY DEF GoodMemory
<1>8. n.first # "unknown" => o.act = "BUY" /\ hit
  BY <1>5, <1>7
<1>9. GoodReturns(n)
  <2> SUFFICES ASSUME NEW f \in Fields, n.return[f] # 0
               PROVE  \E x \in seen :
                        /\ x.sample.quote /\ x.sample.last = n.return[f]
                        /\ Due(n, f) <= x.at /\ x.at <= Due(n, f) + Delay
                        /\ \A y \in seen : y.sample.quote /\ y.at >= Due(n, f) => y.at >= x.at
    BY DEF GoodReturns
  <2> DEFINE r == n.return[f]
  <2>1. r = Returns(o, known)[f] /\ r # 0
    BY <1>1
  <2> HIDE DEF r
  <2>2. \E x \in seen :
          /\ x.sample.quote /\ x.sample.last = r
          /\ Due(o, f) <= x.at /\ x.at <= Due(o, f) + Delay
          /\ \A y \in seen : y.sample.quote /\ y.at >= Due(o, f) => y.at >= x.at
    BY <2>1, ReturnsGood
  <2> QED BY <1>6, <2>2 DEF r
<1>10. GoodMemory(n)
  BY <1>1, <1>4, <1>6, <1>8 DEF GoodMemory
<1>11. n.status = "COMPLETE" =>
         /\ \A x \in Told(o) : Hi(o, x) <= n.high /\ (n.low = 0 \/ n.low <= Lo(o, x))
         /\ Told(o) = {} \/ \E x \in Told(o) : Hi(o, x) >= n.high
  BY <1>3, <1>4
<1>12. n.first = "unknown" => o.act # "BUY" \/ \A x \in Told(o) : ~(Hi(o, x) >= Target) /\ ~(Lo(o, x) <= Stop)
  BY <1>5
<1> HIDE DEF hit
<1>13. GoodResult(n)
  <2>1. n.status = "COMPLETE" => \A f \in Fields : n.return[f] # 0
    BY <1>1
  <2>2. n.first = "target" =>
          \E x \in Told(o) : Hi(o, x) >= Target /\ \A y \in Told(o) : Lo(o, y) <= Stop => x.at < y.at
    BY <1>5, <1>8
  <2>3. n.first = "stop" =>
          \E x \in Told(o) : Lo(o, x) <= Stop /\ \A y \in Told(o) : Hi(o, y) >= Target => x.at < y.at
    BY <1>5, <1>8
  <2>4. n.status = "AMBIGUOUS" => \E x \in Told(o) : Hi(o, x) >= Target /\ Lo(o, x) <= Stop
    BY <1>1, <1>5, <1>8
  <2>5. n.act = o.act
    BY <1>1
  <2> QED BY <1>6, <1>11, <1>12, <2>1, <2>2, <2>3, <2>4, <2>5 DEF GoodResult
<1> QED BY <1>9, <1>10, <1>13 DEF Good

\* A later observation takes nothing back.
LEMMA LaterGood ==
  ASSUME LabelNumbers, SeenShapes, SeenShapes', NEW o \in Labellings, Good(o),
         seen \subseteq seen', \A y \in seen' \ seen, x \in seen : x.at < y.at
  PROVE  Good(o)'
<1>1. /\ \A x : Hi(o, x)' = Hi(o, x) /\ Lo(o, x)' = Lo(o, x)
      /\ \A x : BarCounts(o, x)' = BarCounts(o, x)
      /\ \A f : Due(o, f)' = Due(o, f)
      /\ Last' = Last
  BY DEF Hi, Lo, BarCounts, Due, Last
<1>2. Told(o) \subseteq Told(o)' /\ Told(o)' \ Told(o) \subseteq seen' \ seen
  BY <1>1 DEF Told
<1>3. (\A x \in seen : x.at \in Nat) /\ (\A x \in seen' : x.at \in Nat)
  BY DEF SeenShapes, Seen
<1>4. GoodReturns(o)'
  <2> SUFFICES ASSUME NEW f \in Fields, o.return[f] # 0
               PROVE  \E x \in seen' :
                        /\ x.sample.quote /\ x.sample.last = o.return[f]
                        /\ Due(o, f) <= x.at /\ x.at <= Due(o, f) + Delay
                        /\ \A y \in seen' : y.sample.quote /\ y.at >= Due(o, f) => y.at >= x.at
    BY <1>1 DEF GoodReturns
  <2>1. PICK x \in seen :
          /\ x.sample.quote /\ x.sample.last = o.return[f]
          /\ Due(o, f) <= x.at /\ x.at <= Due(o, f) + Delay
          /\ \A y \in seen : y.sample.quote /\ y.at >= Due(o, f) => y.at >= x.at
    BY DEF Good, GoodReturns
  <2>2. \A y \in seen' \ seen : y.at >= x.at
    BY <1>3
  <2> QED BY <2>1, <2>2
<1>5. GoodMemory(o)'
  <2>1. Told(o)' = {} => Told(o) = {}
    BY <1>2
  <2> QED BY <1>1, <1>2, <2>1 DEF Good, GoodMemory
<1>6. CASE o.status = "COMPLETE"
  <2>1. 0 \in Fields /\ o.return[0] # 0
    BY <1>6 DEF Good, GoodResult, Fields
  <2>2. PICK x \in seen : x.at >= Close
    BY <2>1 DEF Good, GoodReturns, Due
  <2>3. \A y \in seen' \ seen : ~(y.at <= Close)
    BY <1>3, <2>2 DEF LabelNumbers
  <2>4. Told(o)' = Told(o)
    BY <1>2, <2>3 DEF Told
  <2> QED BY <1>1, <1>4, <1>5, <1>6, <2>4 DEF Good, GoodResult
<1>7. CASE o.status # "COMPLETE"
  BY <1>1, <1>2, <1>4, <1>5, <1>7 DEF Good, GoodResult
<1> QED BY <1>6, <1>7

\* A row is as good as the observations that are there.
LEMMA SameSeen ==
  ASSUME seen' = seen, NEW q
  PROVE  Good(q)' <=> Good(q)
<1>1. Told(q)' = Told(q) /\ \A x : Hi(q, x)' = Hi(q, x) /\ Lo(q, x)' = Lo(q, x)
  BY DEF Told, Hi, Lo, BarCounts, Last
<1>2. \A f : Due(q, f)' = Due(q, f)
  BY DEF Due
<1> QED BY <1>1, <1>2 DEF Good, GoodReturns, GoodMemory, GoodResult

\* The invariant of the next state.
LEMMA InvPrime ==
  ASSUME SeenShapes', outcome' = Unmeasured \/ outcome' \in Labellings,
         outcome' \in Labellings /\ read' => Good(outcome)'
  PROVE  LabelInv'
<1>1. Unmeasured' = Unmeasured /\ Labellings' = Labellings
  OBVIOUS
<1> QED BY <1>1 DEF LabelInv

\* Every step keeps a measurement that could read its configuration good.
LEMMA LabelStep ==
  ASSUME LabelNumbers, LabelInv, [LabelNext]_labelVars
  PROVE  LabelInv'
<1>0. /\ SeenShapes /\ (outcome = Unmeasured \/ outcome \in Labellings)
      /\ outcome \in Labellings /\ read => Good(outcome)
  BY DEF LabelInv
<1>1. CASE Observe
  <2>1. PICK s \in Samples, at \in 1..now :
          (\A x \in seen : x.at <= at) /\ seen' = Kept(s, at)
    BY <1>1 DEF Observe
  <2>2. now' = now /\ outcome' = outcome /\ read' = read
    BY <1>1 DEF Observe
  <2> DEFINE e == [at |-> at, sample |-> s]
  <2>3. e \in Seen /\ e.at = at /\ e.sample = s /\ at \in Nat /\ at <= now /\ s.last \in Nat /\ s.high \in Nat
    <3>1. at \in Nat /\ at <= now /\ s \in Sample
      BY <1>0 DEF SeenShapes, LabelNumbers
    <3>2. s.last \in Nat /\ s.high \in Nat
      BY <3>1 DEF Sample
    <3> QED BY <3>1, <3>2 DEF Seen
  <2>4. seen' = seen \/ (seen' = seen \union {e} /\ \A x \in seen : x.at # at)
    BY <2>1 DEF Kept
  <2> HIDE DEF e
  <2>5. SeenShapes' /\ \A y \in seen' \ seen, x \in seen : x.at < y.at
    <3>1. CASE seen' = seen
      BY <1>0, <2>2, <3>1 DEF SeenShapes
    <3>2. CASE seen' = seen \union {e} /\ \A x \in seen : x.at # at
      <4>1. seen \in SUBSET Seen /\ now \in Nat
        BY <1>0 DEF SeenShapes
      <4>2. \A x \in seen : x.at < at
        BY <2>1, <2>3, <3>2, <4>1 DEF Seen
      <4>3. PICK n \in Nat : \A x \in seen : x.sample.last <= n /\ x.sample.high <= n
        BY <1>0 DEF SeenShapes
      <4>4. \E m \in Nat : \A x \in seen' : x.sample.last <= m /\ x.sample.high <= m
        <5> DEFINE m == n + s.last + s.high
        <5>1. m \in Nat /\ s.last <= m /\ s.high <= m /\ n <= m
          BY <2>3
        <5> HIDE DEF m
        <5>2. \A x \in seen : x.sample.last \in Nat /\ x.sample.high \in Nat
          BY <4>1 DEF Seen, Sample
        <5>3. \A x \in seen : x.sample.last <= m /\ x.sample.high <= m
          BY <4>3, <5>1, <5>2
        <5> QED BY <2>3, <3>2, <5>1, <5>3
      <4>5. \A x \in seen' : x.at <= now
        BY <1>0, <2>3, <3>2 DEF SeenShapes
      <4>6. \A x, y \in seen' : x.at = y.at => x = y
        BY <1>0, <2>3, <3>2 DEF SeenShapes
      <4>7. seen' \in SUBSET Seen
        BY <2>3, <3>2, <4>1
      <4>8. \A y \in seen' \ seen, x \in seen : x.at < y.at
        BY <2>3, <3>2, <4>2
      <4> QED BY <2>2, <4>1, <4>4, <4>5, <4>6, <4>7, <4>8 DEF SeenShapes
    <3> QED BY <2>4, <3>1, <3>2
  <2>6. seen \subseteq seen'
    BY <2>4
  <2>7. outcome' \in Labellings /\ read' => Good(outcome)'
    <3> SUFFICES ASSUME outcome \in Labellings, read PROVE Good(outcome)'
      BY <2>2 DEF Labellings, Fields
    <3> DEFINE o == outcome
    <3>1. PICK q : q = outcome
      OBVIOUS
    <3>2. q \in Labellings /\ Good(q)
      BY <1>0, <3>1
    <3>3. Good(q)'
      BY <1>0, <2>5, <2>6, <3>2, LaterGood
    <3>4. q = outcome'
      BY <2>2, <3>1
    <3> QED BY <3>3, <3>4
  <2> QED BY <1>0, <2>2, <2>5, <2>7, InvPrime
<1>2. CASE Decided
  <2>1. PICK act \in {"BUY", "WAIT"}, priced \in BOOLEAN :
          outcome' = [at |-> now, act |-> act, priced |-> priced, status |-> "PENDING",
                      return |-> [f \in Horizons \cup {0} |-> 0], high |-> 0, low |-> 0, first |-> "unknown"]
    BY <1>2 DEF Decided
  <2>2. now' = now /\ seen' = seen /\ read' = read
    BY <1>2 DEF Decided
  <2>3. now \in Nat
    BY <1>0 DEF SeenShapes
  <2>4. PICK q : q = outcome'
    OBVIOUS
  <2>5. /\ q \in Labellings /\ q.high = 0 /\ q.low = 0 /\ q.first = "unknown" /\ q.status = "PENDING"
        /\ \A f \in Fields : q.return[f] = 0
    BY <2>1, <2>3, <2>4 DEF Labellings, Fields
  <2>6. Good(q)
    BY <2>5 DEF Good, GoodReturns, GoodMemory, GoodResult
  <2>7. SeenShapes'
    BY <1>0, <2>2 DEF SeenShapes
  <2>8. Good(q)' <=> Good(q)
    BY <2>2, SameSeen
  <2>9. Good(outcome)'
    BY <2>4, <2>6, <2>8
  <2> QED BY <2>4, <2>5, <2>7, <2>9, InvPrime
<1>3. CASE Label
  <2>1. PICK known \in BOOLEAN :
          /\ outcome' = IF Unavailable(outcome, known) THEN [outcome EXCEPT !.status = "UNAVAILABLE"]
                        ELSE Labelled(outcome, known)
          /\ read' = (read /\ known)
    BY <1>3 DEF Label
  <2>2. now' = now /\ seen' = seen /\ outcome.status \in {"PENDING", "PARTIAL", "DATA_GAP"}
    BY <1>3 DEF Label
  <2>3. outcome # Unmeasured
    BY <2>2 DEF Unmeasured
  <2>4. PICK o \in Labellings : o = outcome
    BY <1>0, <2>3
  <2>5. SeenShapes'
    BY <1>0, <2>2 DEF SeenShapes
  <2>6. read' => read /\ Knows(known) /\ Good(o)
    BY <1>0, <2>1, <2>4 DEF Knows
  <2>7. PICK q : q = outcome'
    OBVIOUS
  <2>8. CASE Unavailable(o, known)
    <3>1. q = [o EXCEPT !.status = "UNAVAILABLE"]
      BY <2>1, <2>4, <2>7, <2>8
    <3>2. /\ q \in Labellings /\ q.status = "UNAVAILABLE" /\ q.at = o.at /\ q.act = o.act /\ q.first = o.first
          /\ q.return = o.return /\ q.high = o.high /\ q.low = o.low
      BY <3>1 DEF Labellings
    <3>3. Good(o) => Good(q)
      BY <3>2, SameTime DEF Good, GoodReturns, GoodMemory, GoodResult
    <3>4. read' => Good(outcome)'
      BY <2>2, <2>6, <2>7, <3>3, SameSeen
    <3> QED BY <2>5, <2>7, <3>2, <3>4, InvPrime
  <2>9. CASE ~Unavailable(o, known)
    <3>1. q = Labelled(o, known)
      BY <2>1, <2>4, <2>7, <2>9
    <3>2. q \in Labellings
      <4> DEFINE pts == Points(o, known)
      <4>1. pts = Points(o, known)
        OBVIOUS
      <4> HIDE DEF pts
      <4> QED BY <1>0, <3>1, <4>1, LabelledIs
    <3>3. Knows(known) /\ Good(o) => Good(q)
      BY <1>0, <3>1, PassGood DEF Good
    <3>4. read' => Good(outcome)'
      BY <2>2, <2>6, <2>7, <3>3, SameSeen
    <3> QED BY <2>5, <2>7, <3>2, <3>4, InvPrime
  <2> QED BY <2>8, <2>9
<1>4. CASE TimePasses \/ UNCHANGED labelVars
  <2>1. seen' = seen /\ outcome' = outcome /\ read' = read /\ (now' = now \/ now' = now + 1)
    BY <1>4 DEF TimePasses, labelVars
  <2>2. SeenShapes'
    BY <1>0, <2>1 DEF SeenShapes, Seen
  <2>3. PICK q : q = outcome
    OBVIOUS
  <2>4. read' /\ outcome' \in Labellings => Good(outcome)'
    BY <1>0, <2>1, <2>3, SameSeen
  <2> QED BY <1>0, <2>1, <2>2, <2>4, InvPrime
<1> QED BY <1>1, <1>2, <1>3, <1>4 DEF LabelNext

\* In the property's own words: what rose or fell, and what was told.
LEMMA GoodIsMarkets ==
  ASSUME LabelNumbers, LabelInv
  PROVE  LabelIsTheMarkets
<1> SUFFICES ASSUME outcome.status \in {"COMPLETE", "AMBIGUOUS"}, read
             PROVE  LabelIsTheMarkets
  BY DEF LabelIsTheMarkets
<1>1. outcome # Unmeasured
  BY DEF Unmeasured
<1>2. PICK o \in Labellings : o = outcome
  BY <1>1 DEF LabelInv
<1>3. Good(o) /\ SeenShapes
  BY <1>2 DEF LabelInv
<1> DEFINE told == {x \in seen : After(o, x)}
           rose(x, p) == IF BarCounts(o, x) THEN x.sample.high >= p ELSE x.sample.quote /\ x.sample.last >= p
           fell(x, p) == IF BarCounts(o, x) THEN x.sample.low <= p ELSE x.sample.quote /\ x.sample.last <= p
<1>4. \A x \in seen : x \in Told(o) <=> x \in told /\ (BarCounts(o, x) \/ x.sample.quote)
  BY DEF Told, After
<1>5. \A x \in told : x \notin Told(o) => \A p : ~rose(x, p) /\ ~fell(x, p)
  BY <1>4
<1>6. \A x \in Told(o) : x \in told /\ \A p : (rose(x, p) <=> Hi(o, x) >= p) /\ (fell(x, p) <=> Lo(o, x) <= p)
  BY <1>4 DEF Told, Hi, Lo
<1>7. DOMAIN o.return = Fields /\ o.high \in Nat /\ o.low \in Nat
      /\ o.first \in {"unknown", "target", "stop", "both"}
  BY DEF Labellings
<1>8. ASSUME NEW f \in DOMAIN o.return, o.return[f] # 0
      PROVE  \E x \in seen :
               /\ x.sample.quote /\ x.sample.last = o.return[f]
               /\ x.at \in Due(o, f)..(Due(o, f) + Delay)
               /\ \A y \in seen : y.sample.quote /\ y.at >= Due(o, f) => y.at >= x.at
  <2>1. f \in Fields /\ Due(o, f) \in Nat /\ Delay \in Nat
    BY <1>7, <1>8, DueNat DEF Labellings, LabelNumbers
  <2>2. \A x \in seen : x.at \in Nat
    BY <1>3, HiLoNat
  <2>3. PICK x \in seen :
          /\ x.sample.quote /\ x.sample.last = o.return[f]
          /\ Due(o, f) <= x.at /\ x.at <= Due(o, f) + Delay
          /\ \A y \in seen : y.sample.quote /\ y.at >= Due(o, f) => y.at >= x.at
    BY <1>3, <1>8, <2>1 DEF Good, GoodReturns
  <2>4. x.at \in Due(o, f)..(Due(o, f) + Delay)
    BY <2>1, <2>2, <2>3
  <2> QED BY <2>3, <2>4
<1> HIDE DEF told, rose, fell
<1>9. ASSUME o.status = "COMPLETE"
      PROVE  /\ \A x \in told : ~rose(x, o.high + 1) /\ (o.low = 0 \/ ~fell(x, o.low - 1))
             /\ told = {} \/ o.high = 0 \/ \E x \in told : rose(x, o.high)
             /\ o.first = "target" => \E x \in told : rose(x, Target) /\ \A y \in told : fell(y, Stop) => x.at < y.at
             /\ o.first = "stop" => \E x \in told : fell(x, Stop) /\ \A y \in told : rose(y, Target) => x.at < y.at
             /\ o.first = "unknown" => o.act # "BUY" \/ \A x \in told : ~rose(x, Target) /\ ~fell(x, Stop)
  <2>1. /\ \A x \in Told(o) : Hi(o, x) <= o.high /\ (o.low = 0 \/ o.low <= Lo(o, x))
        /\ Told(o) = {} \/ \E x \in Told(o) : Hi(o, x) >= o.high
        /\ Told(o) = {} => o.high = 0
    BY <1>3, <1>9 DEF Good, GoodMemory, GoodResult
  <2>2. /\ o.first = "target" => \E x \in Told(o) : /\ Hi(o, x) >= Target
                                                   /\ \A y \in Told(o) : Lo(o, y) <= Stop => x.at < y.at
        /\ o.first = "stop" => \E x \in Told(o) : /\ Lo(o, x) <= Stop
                                                 /\ \A y \in Told(o) : Hi(o, y) >= Target => x.at < y.at
        /\ o.first = "unknown" => o.act # "BUY" \/ \A x \in Told(o) : ~(Hi(o, x) >= Target) /\ ~(Lo(o, x) <= Stop)
    BY <1>3, <1>9 DEF Good, GoodResult
  <2>3. \A x \in Told(o) : Hi(o, x) \in Nat /\ Lo(o, x) \in Nat
    BY <1>3, HiLoNat DEF Told
  <2>4. ASSUME NEW x \in told PROVE ~rose(x, o.high + 1) /\ (o.low = 0 \/ ~fell(x, o.low - 1))
    <3>1. CASE x \in Told(o)
      BY <1>6, <1>7, <2>1, <2>3, <3>1
    <3>2. CASE x \notin Told(o)
      BY <1>5, <3>2
    <3> QED BY <3>1, <3>2
  <2>5. told = {} \/ o.high = 0 \/ \E x \in told : rose(x, o.high)
    BY <1>6, <2>1
  <2>6. o.first = "target" => \E x \in told : rose(x, Target) /\ \A y \in told : fell(y, Stop) => x.at < y.at
    BY <1>5, <1>6, <2>2
  <2>7. o.first = "stop" => \E x \in told : fell(x, Stop) /\ \A y \in told : rose(y, Target) => x.at < y.at
    BY <1>5, <1>6, <2>2
  <2>8. o.first = "unknown" => o.act # "BUY" \/ \A x \in told : ~rose(x, Target) /\ ~fell(x, Stop)
    BY <1>5, <1>6, <2>2
  <2> QED BY <2>4, <2>5, <2>6, <2>7, <2>8
<1>10. o.status = "AMBIGUOUS" => \E x \in told : rose(x, Target) /\ fell(x, Stop)
  BY <1>3, <1>6 DEF Good, GoodResult
<1> QED BY <1>2, <1>8, <1>9, <1>10 DEF LabelIsTheMarkets, told, rose, fell

\* Whenever the labeler runs and whatever it has to go on, a finished row is what one look
\* at all the observations says, for any horizons, session, delays, samples and levels
\* (outcome_labeler.py, label_pending_outcomes).
THEOREM LabelsAreTheMarkets ==
  ASSUME LabelNumbers
  PROVE  LabelSpec => []LabelIsTheMarkets
<1>1. LabelInit => LabelInv
  BY DEF LabelInit, LabelInv, SeenShapes, Unmeasured, Labellings
<1>2. LabelInv /\ [LabelNext]_labelVars => LabelInv'
  BY LabelStep
<1>3. LabelInv => LabelIsTheMarkets
  BY GoodIsMarkets
<1> QED BY <1>1, <1>2, <1>3, PTL DEF LabelSpec

-----------------------------------------------------------------------------
(* The replay of a day, trade by trade, and the guard of its loss.         *)

\* Quantities, prices, fees and limits are numbers.
MoneyNumbers ==
  /\ Qtys \subseteq Nat \ {0} /\ Prices \subseteq Nat \ {0} /\ Fee \in Nat
  /\ Settings \subseteq [pct : Nat, tl : Nat, budget : Nat] /\ Balances \subseteq Nat

\* The replay as a function of how many trades were looked at.
LotAfter(ts, l, n) ==
  IF n \notin ts THEN l
  ELSE IF trades[n].act = "BUY" THEN AfterPurchase(l, trades[n]) ELSE AfterSale(l, trades[n])
IsReplay(g, ts) ==
  g = [n \in 0..Len(trades) |-> IF n = 0 THEN Nothing ELSE LotAfter(ts, g[n - 1], n)]

\* The replay of the trades is the last value of the function that replays them one by one.
LEMMA ReplayUnfold ==
  ASSUME NEW ts
  PROVE  Replay(ts) = (CHOOSE g : IsReplay(g, ts))[Len(trades)]
BY Zenon DEF Replay, IsReplay, LotAfter

\* There is such a function.
LEMMA ReplayExists ==
  ASSUME NEW ts, Len(trades) \in Nat
  PROVE  \E g : IsReplay(g, ts)
<1> DEFINE F(g, n) == IF n = 0 THEN Nothing ELSE LotAfter(ts, g[n - 1], n)
           Solves(g, m) == g = [n \in 0..m |-> F(g, n)]
           Open == {m \in Nat : ~\E g : Solves(g, m)}
<1>1. Open = {}
  <2> SUFFICES ASSUME Open # {} PROVE FALSE
    OBVIOUS
  <2>1. PICK m \in Open : \A k \in Open : m <= k
    <3>1. Open \in SUBSET Nat
      OBVIOUS
    <3> HIDE DEF Open
    <3> QED BY <3>1, SmallestElement
  <2>2. CASE m = 0
    <3> DEFINE g == [n \in 0..0 |-> Nothing]
    <3>1. Solves(g, 0)
      OBVIOUS
    <3>2. m \in Nat /\ ~\E e : Solves(e, m)
      BY <2>1
    <3> HIDE DEF Solves, g
    <3> QED BY <2>2, <3>1, <3>2
  <2>3. CASE m # 0
    <3>1. m \in Nat /\ m - 1 \in Nat /\ m - 1 \notin Open
      <4>1. m \in Nat
        BY <2>1
      <4>2. m - 1 \in Nat /\ ~(m <= m - 1)
        BY <2>3, <4>1
      <4> HIDE DEF Open
      <4> QED BY <2>1, <4>1, <4>2
    <3>2. PICK g : Solves(g, m - 1)
      <4> HIDE DEF Solves
      <4> QED BY <3>1
    <3> DEFINE h == [n \in 0..m |-> IF n = m THEN F(g, m) ELSE g[n]]
    <3>3. \A n \in 0..(m - 1) : g[n] = F(g, n)
      BY <3>2
    <3>4. \A n \in 0..m : h[n] = F(h, n)
      <4> SUFFICES ASSUME NEW n \in 0..m PROVE h[n] = F(h, n)
        OBVIOUS
      <4>1. n # 0 => n - 1 \in 0..m /\ n - 1 # m /\ h[n - 1] = g[n - 1]
        BY <3>1
      <4>2. F(h, n) = F(g, n)
        BY <4>1
      <4>3. h[n] = IF n = m THEN F(g, m) ELSE g[n]
        OBVIOUS
      <4>4. n # m => n \in 0..(m - 1)
        BY <3>1
      <4> QED BY <3>3, <4>2, <4>3, <4>4
    <3>5. Solves(h, m)
      <4>1. h = [n \in 0..m |-> h[n]]
        OBVIOUS
      <4> HIDE DEF h, F
      <4> QED BY <3>4, <4>1
    <3> QED BY <2>1, <3>5
  <2> QED BY <2>2, <2>3
<1>2. \E g : Solves(g, Len(trades))
  BY <1>1
<1> QED BY <1>2 DEF IsReplay

LotRecords == [qty : Nat, cost : Int, todayQty : Int, todayCost : Int, realized : Int, over : BOOLEAN]

\* A share of a whole that is exact.
LEMMA DivExact ==
  ASSUME NEW a \in Nat \ {0}, NEW b \in Nat
  PROVE  (a * b) \div a = b
BY SMT

\* A share of anything is a number.
LEMMA DivInt ==
  ASSUME NEW a \in Nat \ {0}, NEW b \in Int, NEW c \in Int
  PROVE  (b * c) \div a \in Int
BY SMT

\* What a trade says are numbers, and its lots and price are at least one.
LEMMA TradeNumbers ==
  ASSUME MoneyNumbers, NEW t \in Trade
  PROVE  /\ t.qty \in Nat \ {0} /\ t.price \in Nat \ {0} /\ t.today \in BOOLEAN /\ t.fill \in BOOLEAN
         /\ t.act \in {"BUY", "SELL"} /\ t.acc \in AccountIds
         /\ t.qty * Scale \in Nat \ {0} /\ Scale \in Nat \ {0}
         /\ t.price * (t.qty * Scale) \in Nat
<1>1. t.qty \in Nat \ {0} /\ t.price \in Nat \ {0}
  BY DEF Trade, MoneyNumbers
<1>2. Scale = 60
  BY DEF Scale
<1>3. t.qty * Scale \in Nat \ {0}
  BY <1>1, <1>2
<1>4. t.price * (t.qty * Scale) \in Nat
  <2> DEFINE x == t.qty * Scale
  <2>1. x \in Nat
    BY <1>3
  <2> HIDE DEF x
  <2>2. t.price * x \in Nat
    BY <1>1, <2>1
  <2> QED BY <2>2 DEF x
<1> QED BY <1>1, <1>2, <1>3, <1>4 DEF Trade

\* A purchase, field by field.
LEMMA BoughtIs ==
  ASSUME MoneyNumbers, NEW l \in LotRecords, NEW t \in Trade, NEW b, b = AfterPurchase(l, t)
  PROVE  /\ b \in LotRecords
         /\ b.qty = l.qty + t.qty * Scale
         /\ b.cost = l.cost + t.price * (t.qty * Scale)
         /\ t.today => /\ b.todayQty = l.todayQty + t.qty * Scale
                       /\ b.todayCost = l.todayCost + t.price * (t.qty * Scale)
         /\ b.realized = l.realized
<1> DEFINE x == t.qty * Scale
           today == IF t.today THEN x ELSE 0
           c == t.qty * t.price * Scale
           d == today * t.price
<1>1. /\ t.qty \in Nat /\ t.price \in Nat /\ x \in Nat /\ Scale \in Nat /\ t.today \in BOOLEAN
  BY TradeNumbers
<1>2. c = t.price * x /\ c \in Nat
  <2>1. \A a, e, k \in Nat : a * e * k = e * (a * k) /\ a * e * k \in Nat
    BY SMT
  <2> QED BY <1>1, <2>1
<1>3. today \in Nat /\ (t.today => today = x)
  BY <1>1
<1>4. d \in Nat /\ (t.today => d = t.price * x)
  <2> HIDE DEF today, x
  <2>1. \A a, e \in Nat : a * e \in Nat /\ a * e = e * a
    BY SMT
  <2> QED BY <1>1, <1>3, <2>1
<1> HIDE DEF x, today, c, d
<1>5. b = [l EXCEPT !.qty = @ + x, !.cost = @ + c, !.todayQty = @ + today, !.todayCost = @ + d]
  BY DEF AfterPurchase, x, today, c, d
<1>6. /\ b \in LotRecords /\ b.qty = l.qty + x /\ b.cost = l.cost + c
      /\ b.todayQty = l.todayQty + today /\ b.todayCost = l.todayCost + d /\ b.realized = l.realized
  <2> DEFINE q == l.qty + x
             k == l.cost + c
             m == l.todayQty + today
             e == l.todayCost + d
  <2>1. q \in Nat /\ k \in Int /\ m \in Int /\ e \in Int
    BY <1>1, <1>2, <1>3, <1>4 DEF LotRecords
  <2>2. b = [l EXCEPT !.qty = q, !.cost = k, !.todayQty = m, !.todayCost = e]
    BY <1>5
  <2> HIDE DEF q, k, m, e
  <2>3. b \in LotRecords /\ b.qty = q /\ b.cost = k /\ b.todayQty = m /\ b.todayCost = e /\ b.realized = l.realized
    BY <2>1, <2>2 DEF LotRecords
  <2> QED BY <2>3 DEF q, k, m, e
<1> QED BY <1>2, <1>3, <1>4, <1>6 DEF x

\* A sale, field by field; the lots of the day are all there are when every trade was
\* today's.
LEMMA SoldIs ==
  ASSUME MoneyNumbers, NEW l \in LotRecords, NEW t \in Trade, NEW s, s = AfterSale(l, t)
  PROVE  /\ s \in LotRecords
         /\ t.today /\ t.qty * Scale <= l.qty /\ l.todayQty = l.qty /\ l.todayCost = l.cost =>
              /\ s.qty = l.qty - t.qty * Scale
              /\ s.todayQty = s.qty /\ s.todayCost = s.cost
              /\ s.realized - s.cost = (l.realized - l.cost) + t.price * (t.qty * Scale)
<1> DEFINE x == t.qty * Scale
           sold == IF x <= l.qty THEN x ELSE l.qty
           rest == l.qty - sold
           left(y) == (y * rest) \div l.qty
           cost == left(l.cost)
           tq == left(l.todayQty)
           tc == left(l.todayCost)
           gain == t.price * sold - (l.cost - cost)
           plus == IF t.today THEN gain ELSE 0
           over == l.over \/ sold < x
<1>1. /\ x \in Nat \ {0} /\ t.price \in Nat /\ t.today \in BOOLEAN
      /\ l.qty \in Nat /\ l.cost \in Int /\ l.todayQty \in Int /\ l.todayCost \in Int /\ l.realized \in Int
      /\ l.over \in BOOLEAN
  BY TradeNumbers DEF LotRecords
<1> HIDE DEF x
<1>2. sold \in Nat /\ rest \in Nat /\ (x <= l.qty => sold = x /\ rest = l.qty - x)
  BY <1>1
<1>3. CASE l.qty = 0
  <2>1. s = [l EXCEPT !.over = TRUE]
    BY <1>3 DEF AfterSale
  <2>2. s \in LotRecords
    BY <1>1, <2>1 DEF LotRecords
  <2> QED BY <1>1, <1>3, <2>2 DEF x
<1>4. CASE l.qty # 0
  <2>1. s = [l EXCEPT !.qty = rest, !.cost = cost, !.todayQty = tq, !.todayCost = tc,
                      !.realized = @ + plus, !.over = over]
    BY <1>4 DEF AfterSale, SoldOf, x
  <2> HIDE DEF rest, sold
  <2>2. cost \in Int /\ tq \in Int /\ tc \in Int
    BY <1>1, <1>2, <1>4, DivInt
  <2>3. l.todayQty = l.qty => tq = rest
    BY <1>1, <1>2, <1>4, DivExact
  <2>4. l.todayCost = l.cost => tc = cost
    OBVIOUS
  <2> HIDE DEF cost, tq, tc
  <2>5. t.price * sold \in Int
    <3>1. \A a, e \in Nat : a * e \in Int
      BY SMT
    <3> QED BY <1>1, <1>2, <3>1
  <2>6. gain \in Int /\ plus \in Int /\ (t.today => plus = t.price * sold - (l.cost - cost))
    BY <1>1, <2>2, <2>5
  <2>7. over \in BOOLEAN
    OBVIOUS
  <2> HIDE DEF gain, plus, over
  <2>8. /\ s \in LotRecords /\ s.qty = rest /\ s.cost = cost /\ s.todayQty = tq /\ s.todayCost = tc
        /\ s.realized = l.realized + plus
    <3> DEFINE r == l.realized + plus
    <3>1. r \in Int /\ rest \in Nat
      BY <1>1, <1>2, <2>6
    <3>2. s = [l EXCEPT !.qty = rest, !.cost = cost, !.todayQty = tq, !.todayCost = tc,
                        !.realized = r, !.over = over]
      BY <2>1
    <3> HIDE DEF r
    <3>3. /\ s \in LotRecords /\ s.qty = rest /\ s.cost = cost /\ s.todayQty = tq /\ s.todayCost = tc
          /\ s.realized = r
      BY <2>2, <2>7, <3>1, <3>2 DEF LotRecords
    <3> QED BY <3>3 DEF r
  <2>9. ASSUME t.today, x <= l.qty, l.todayQty = l.qty, l.todayCost = l.cost
        PROVE  /\ s.qty = l.qty - x /\ s.todayQty = s.qty /\ s.todayCost = s.cost
               /\ s.realized - s.cost = (l.realized - l.cost) + t.price * x
    <3>1. sold = x /\ rest = l.qty - x /\ tq = rest /\ tc = cost
      BY <1>2, <2>3, <2>4, <2>9
    <3>2. plus = t.price * x - (l.cost - cost) /\ t.price * x \in Int
      BY <2>5, <2>6, <2>9, <3>1
    <3> QED BY <1>1, <2>2, <2>8, <3>1, <3>2
  <2> QED BY <2>8, <2>9 DEF x
<1> QED BY <1>3, <1>4

\* What holds before the first trade and is kept by each holds after all.
LEMMA ByTrades ==
  ASSUME NEW Q, Len(trades) \in Nat, 0 \in Q,
         \A n \in 1..Len(trades) : n - 1 \in Q => n \in Q
  PROVE  0..Len(trades) \subseteq Q
<1> DEFINE Bad == {n \in 0..Len(trades) : n \notin Q}
<1> SUFFICES ASSUME Bad # {} PROVE FALSE
  OBVIOUS
<1>1. PICK m \in Bad : \A k \in Bad : m <= k
  <2>1. Bad \in SUBSET Nat
    OBVIOUS
  <2> HIDE DEF Bad
  <2> QED BY <2>1, SmallestElement
<1>2. m \in 1..Len(trades) /\ m - 1 \in 0..Len(trades) /\ m - 1 \notin Bad
  BY <1>1
<1> QED BY <1>1, <1>2

\* The replay, trade by trade.
LEMMA ReplayIs ==
  ASSUME NEW ts, Len(trades) \in Nat
  PROVE  \E lot : /\ Replay(ts) = lot[Len(trades)] /\ lot[0] = Nothing
                  /\ \A n \in 1..Len(trades) : lot[n] = LotAfter(ts, lot[n - 1], n)
<1>1. PICK lot : IsReplay(lot, ts) /\ Replay(ts) = lot[Len(trades)]
  BY ReplayUnfold, ReplayExists
<1>2. lot[0] = Nothing
  BY <1>1 DEF IsReplay
<1>3. \A n \in 1..Len(trades) : lot[n] = LotAfter(ts, lot[n - 1], n)
  BY <1>1 DEF IsReplay
<1> QED BY <1>1, <1>2, <1>3

\* Nothing is a lot.
LEMMA NothingIs ==
  /\ Nothing \in LotRecords /\ Nothing.qty = 0 /\ Nothing.cost = 0
  /\ Nothing.todayQty = 0 /\ Nothing.todayCost = 0 /\ Nothing.realized = 0
BY DEF Nothing, LotRecords

\* A replay of any of the trades is a lot.
LEMMA ReplayTyped ==
  ASSUME MoneyNumbers, trades \in Seq(Trade), NEW ts
  PROVE  Replay(ts) \in LotRecords
<1>1. Len(trades) \in Nat /\ \A n \in 1..Len(trades) : trades[n] \in Trade
  OBVIOUS
<1>2. PICK lot : /\ Replay(ts) = lot[Len(trades)] /\ lot[0] = Nothing
                 /\ \A n \in 1..Len(trades) : lot[n] = LotAfter(ts, lot[n - 1], n)
  BY <1>1, ReplayIs
<1> DEFINE Q == {n \in Nat : lot[n] \in LotRecords}
<1>3. 0 \in Q
  BY <1>2, NothingIs
<1>4. ASSUME NEW n \in 1..Len(trades), n - 1 \in Q PROVE n \in Q
  <2>1. lot[n - 1] \in LotRecords /\ trades[n] \in Trade /\ n \in Nat
    BY <1>1, <1>4
  <2>2. /\ AfterPurchase(lot[n - 1], trades[n]) \in LotRecords
        /\ AfterSale(lot[n - 1], trades[n]) \in LotRecords
    BY <2>1, BoughtIs, SoldIs
  <2> QED BY <1>2, <2>1, <2>2 DEF LotAfter
<1>5. Len(trades) \in Q
  <2> HIDE DEF Q
  <2> QED BY <1>1, <1>3, <1>4, ByTrades
<1> QED BY <1>2, <1>5

\* The fees and the profit of any of the trades are numbers.
LEMMA PnlTyped ==
  ASSUME MoneyNumbers, trades \in Seq(Trade), NEW ts \in SUBSET DOMAIN trades, NEW quote \in Nat
  PROVE  /\ Fees(ts) \in Int /\ Unrealized(Replay(ts), quote) \in Int
         /\ PnlOf(ts, quote).total \in Int /\ PnlOf(ts, quote).realized \in Int
         /\ PnlOf(ts, quote).total =
              (Replay(ts).realized - Fees(ts)) + Unrealized(Replay(ts), quote)
<1> DEFINE lot == Replay(ts)
           fees == Fees(ts)
           un == Unrealized(lot, quote)
<1>1. lot \in LotRecords
  BY ReplayTyped
<1>2. fees \in Int
  <2> DEFINE D == {i \in ts : trades[i].today}
  <2>1. IsFiniteSet(DOMAIN trades)
    <3>1. DOMAIN trades = 1..Len(trades) /\ Len(trades) \in Nat
      OBVIOUS
    <3> QED BY <3>1, FS_Interval
  <2>2. D \in SUBSET DOMAIN trades
    OBVIOUS
  <2> HIDE DEF D
  <2>3. Cardinality(D) \in Nat
    BY <2>1, <2>2, FS_Subset, FS_CardinalityType
  <2>4. fees = Fee * Scale * Cardinality(D)
    BY Zenon DEF Fees, D, fees
  <2>5. \A a, b, c \in Nat : a * b * c \in Int
    BY SMT
  <2>6. Fee \in Nat /\ Scale \in Nat
    BY DEF MoneyNumbers, Scale
  <2> QED BY <2>3, <2>4, <2>5, <2>6
<1> HIDE DEF lot, fees
<1>3. un \in Int
  <2>1. lot.todayQty \in Int /\ lot.todayCost \in Int
    BY <1>1 DEF LotRecords
  <2>2. quote * lot.todayQty \in Int
    BY <2>1
  <2> QED BY <2>1, <2>2 DEF Unrealized
<1> HIDE DEF un
<1>4. PnlOf(ts, quote) =
        [realized |-> lot.realized - fees, total |-> (lot.realized - fees) + un,
         gaps |-> lot.over \/ Unpriced(lot, quote)]
  BY DEF PnlOf, lot, fees, un
<1>5. lot.realized \in Int
  BY <1>1 DEF LotRecords
<1> QED BY <1>2, <1>3, <1>4, <1>5 DEF lot, fees, un

\* Trades stay trades.
LEMMA TradesTyped ==
  ASSUME MoneyNumbers, trades \in Seq(Trade), [DailyNext]_trades
  PROVE  trades' \in Seq(Trade)
<1>1. CASE Traded
  <2>1. PICK acc \in AccountIds, act \in {"BUY", "SELL"}, q \in Qtys, p \in Prices :
          trades' = Append(trades, [acc |-> acc, act |-> act, qty |-> q, price |-> p,
                                    today |-> TRUE, fill |-> FALSE])
    BY <1>1 DEF Traded
  <2> DEFINE t == [acc |-> acc, act |-> act, qty |-> q, price |-> p, today |-> TRUE, fill |-> FALSE]
  <2>2. t \in Trade
    BY DEF Trade
  <2> HIDE DEF t
  <2> QED BY <2>1, <2>2 DEF t
<1>2. ASSUME NEW i \in DOMAIN trades, FillWritten(i) PROVE trades' \in Seq(Trade)
  <2> DEFINE t == [trades[i] EXCEPT !.fill = TRUE]
  <2>1. t \in Trade
    <3>1. trades[i] \in Trade
      OBVIOUS
    <3> QED BY <3>1 DEF Trade
  <2>2. trades' = [trades EXCEPT ![i] = t]
    BY <1>2 DEF FillWritten
  <2> HIDE DEF t
  <2> QED BY <2>1, <2>2
<1>3. CASE NewDay
  <2>1. trades' = [i \in DOMAIN trades |-> [trades[i] EXCEPT !.today = FALSE]]
    BY <1>3 DEF NewDay
  <2>2. DOMAIN trades = 1..Len(trades) /\ Len(trades) \in Nat
    OBVIOUS
  <2>3. \A i \in 1..Len(trades) : [trades[i] EXCEPT !.today = FALSE] \in Trade
    <3> SUFFICES ASSUME NEW i \in 1..Len(trades) PROVE [trades[i] EXCEPT !.today = FALSE] \in Trade
      OBVIOUS
    <3>1. trades[i] \in Trade
      OBVIOUS
    <3> QED BY <3>1 DEF Trade
  <2>4. trades' \in [1..Len(trades) -> Trade]
    BY <2>1, <2>2, <2>3
  <2> QED BY <2>2, <2>4
<1> QED BY <1>1, <1>2, <1>3 DEF DailyNext

\* The day's loss is not missed, whatever fills are missing, prices old or payloads
\* another account's (daily_pnl.py, get_daily_loss_guard_status).
LEMMA GuardSeesAll ==
  ASSUME MoneyNumbers, trades \in Seq(Trade)
  PROVE  LossNotMissed
<1> SUFFICES ASSUME NEW acc \in AccountIds \union {"none"}, NEW quote \in Quotes,
                    NEW payload \in AccountIds \union {"none"}, NEW equity \in Balances, NEW s \in Settings,
                    s.pct + s.tl > 0,
                    ~BuyStopped(Guard(s, Health(acc, payload, equity), DailyPnl(acc, quote)))
             PROVE  /\ s.tl > 0 => PnlOf(Of(acc), quote).total > -TlCap(s)
                    /\ s.pct > 0 =>
                         /\ PctCap(s, Health(acc, payload, equity)) > 0
                         /\ PnlOf(Of(acc), quote).total >
                              -PctCap(s, Health(acc, payload, equity))
  BY DEF LossNotMissed
<1> DEFINE g == Health(acc, payload, equity)
           pnl == DailyPnl(acc, quote)
           all == PnlOf(Of(acc), quote)
           tl == TlCap(s)
           pct == PctCap(s, g)
<1>1. s.pct \in Nat /\ s.tl \in Nat /\ s.budget \in Nat /\ equity \in Nat /\ quote \in Nat
  BY DEF MoneyNumbers, Quotes
<1>2. tl \in Nat /\ (s.tl > 0 => tl # 0)
  BY <1>1 DEF TlCap, Scale
<1>3. pct \in Nat
  <2> DEFINE c == GuardCapital(s, g)
  <2>1. c \in Nat
    BY <1>1 DEF GuardCapital, Equity, Health
  <2>2. pct = IF s.pct = 0 THEN 0 ELSE (c * s.pct * 60) \div 100
    BY DEF PctCap, Scale
  <2> HIDE DEF c, pct
  <2>3. c * s.pct * 60 \in Nat
    <3>1. \A a, b \in Nat : a * b * 60 \in Nat
      BY SMT
    <3> QED BY <1>1, <2>1, <3>1
  <2>4. \A a \in Nat : a \div 100 \in Nat
    OBVIOUS
  <2> QED BY <2>2, <2>3, <2>4
<1> HIDE DEF g, tl, pct, all, pnl
<1>4. Guard(s, g, pnl) \notin {"BREACHED", "UNAVAILABLE"}
  BY DEF BuyStopped, g, pnl
<1>5. ~(s.pct = 0 /\ s.tl = 0)
  BY <1>1
<1>6. /\ ~pnl.gaps /\ \A cap \in Caps(s, g) : ~(pnl.total <= -cap)
      /\ ~(s.pct > 0 /\ pct = 0)
  BY <1>4, <1>5 DEF Guard, pct
<1>7. pnl.total = all.total
  <2> DEFINE p == PnlOf(Trusted(Of(acc)), quote)
             differ == Trusted(Of(acc)) # Of(acc)
  <2>1. pnl = [p EXCEPT !.gaps = @ \/ differ]
    BY DEF pnl, DailyPnl
  <2>2. DOMAIN p = {"realized", "total", "gaps"}
    BY DEF PnlOf
  <2> HIDE DEF p, differ
  <2>3. pnl.total = p.total /\ (pnl.gaps <=> p.gaps \/ differ)
    BY <2>1, <2>2
  <2>4. ~differ
    BY <1>6, <2>3
  <2>5. p = all
    BY <2>4 DEF differ, p, all
  <2> QED BY <2>3, <2>5
<1>8. all.total \in Int
  BY <1>1, PnlTyped DEF all, Of
<1>9. /\ tl # 0 => tl \in Caps(s, g)
      /\ pct # 0 => pct \in Caps(s, g)
  BY DEF Caps, tl, pct
<1>10. s.tl > 0 => all.total > -tl
  BY <1>2, <1>6, <1>7, <1>8, <1>9
<1>11. s.pct > 0 => pct > 0 /\ all.total > -pct
  BY <1>1, <1>3, <1>6, <1>7, <1>8, <1>9
<1> QED BY <1>10, <1>11 DEF all, tl, pct, g

\* No loss of the day is missed by the guard, for any accounts, trades, limits, prices and
\* payloads (daily_pnl.py, get_daily_loss_guard_status).
THEOREM NoLossMissed ==
  ASSUME MoneyNumbers
  PROVE  DailySpec => []LossNotMissed
<1>1. DailyInit => trades \in Seq(Trade)
  BY DEF DailyInit
<1>2. trades \in Seq(Trade) /\ [DailyNext]_trades => (trades \in Seq(Trade))'
  BY TradesTyped
<1>3. trades \in Seq(Trade) => LossNotMissed
  BY GuardSeesAll
<1> QED BY <1>1, <1>2, <1>3, PTL DEF DailySpec

\* What an account holds, and the cash it has, after the first n trades of tr.
Placed(tr, acc, n) == {i \in 1..n : tr[i].acc = acc}
LotsIn(tr) == [i \in Nat |-> LotsOf(tr[i])]
CashOfAll(tr) == [i \in Nat |-> CashOf(tr[i])]
HeldIn(tr, acc, n) == SumFunctionOnSet(LotsIn(tr), Placed(tr, acc, n))
CashIn(tr, acc, n) == SumFunctionOnSet(CashOfAll(tr), Placed(tr, acc, n))

\* No account sold what it did not hold.
SellsHeld(tr) ==
  \A n \in 1..Len(tr) : tr[n].act = "SELL" => tr[n].qty <= HeldIn(tr, tr[n].acc, n - 1)

\* The places of one account among the first trades, and a sum over them, change only where the
\* next trade is the account's.
LEMMA PlacedMove ==
  ASSUME NEW tr, NEW acc, NEW n \in Nat \ {0}, NEW f, \A i \in 1..n : f[i] \in Int
  PROVE  /\ IsFiniteSet(Placed(tr, acc, n)) /\ Placed(tr, acc, 0) = {}
         /\ SumFunctionOnSet(f, Placed(tr, acc, n)) \in Int
         /\ SumFunctionOnSet(f, Placed(tr, acc, n)) =
              SumFunctionOnSet(f, Placed(tr, acc, n - 1)) + (IF tr[n].acc = acc THEN f[n] ELSE 0)
<1>1. IsFiniteSet(1..n)
  BY FS_Interval
<1>2. Placed(tr, acc, n) \in SUBSET (1..n) /\ Placed(tr, acc, n - 1) \in SUBSET (1..n)
  BY DEF Placed
<1>3. IsFiniteSet(Placed(tr, acc, n)) /\ IsFiniteSet(Placed(tr, acc, n - 1))
  BY <1>1, <1>2, FS_Subset
<1>4. \A i \in Placed(tr, acc, n) : f[i] \in Int
  BY <1>2
<1>5. SumFunctionOnSet(f, Placed(tr, acc, n)) \in Int /\ SumFunctionOnSet(f, Placed(tr, acc, n - 1)) \in Int
  BY <1>2, <1>3, <1>4, SumInt
<1>6. Placed(tr, acc, 0) = {}
  BY DEF Placed
<1>7. CASE tr[n].acc = acc
  <2>1. n \in Placed(tr, acc, n) /\ Placed(tr, acc, n) \ {n} = Placed(tr, acc, n - 1)
    BY <1>7 DEF Placed
  <2>2. SumFunctionOnSet(f, Placed(tr, acc, n)) = f[n] + SumFunctionOnSet(f, Placed(tr, acc, n) \ {n})
    BY <1>3, <1>4, <2>1, SumRemove
  <2>3. f[n] \in Int
    OBVIOUS
  <2> QED BY <1>3, <1>5, <1>6, <1>7, <2>1, <2>2, <2>3
<1>8. CASE tr[n].acc # acc
  <2>1. Placed(tr, acc, n) = Placed(tr, acc, n - 1)
    BY <1>8 DEF Placed
  <2> QED BY <1>3, <1>5, <1>6, <1>8, <2>1
<1> QED BY <1>7, <1>8

\* The lots and the cash of one trade.
LEMMA TradeMoves ==
  ASSUME MoneyNumbers, NEW t \in Trade
  PROVE  /\ LotsOf(t) \in Int /\ CashOf(t) \in Int
         /\ t.act = "BUY" => /\ LotsOf(t) = t.qty
                             /\ CashOf(t) = -(t.price * (t.qty * Scale))
         /\ t.act = "SELL" => /\ LotsOf(t) = -t.qty
                              /\ CashOf(t) = t.price * (t.qty * Scale)
<1>1. t.qty \in Nat /\ t.price \in Nat /\ t.act \in {"BUY", "SELL"} /\ Scale = 60
  BY TradeNumbers DEF Scale
<1>2. \A a, b \in Nat : /\ (-a) * b * 60 = -(b * (a * 60)) /\ (-(-a)) * b * 60 = b * (a * 60)
                        /\ b * (a * 60) \in Int
  BY SMT
<1>3. CASE t.act = "BUY"
  <2>1. LotsOf(t) = t.qty /\ CashOf(t) = (-t.qty) * t.price * 60
    BY <1>1, <1>3 DEF CashOf, LotsOf
  <2>2. (-t.qty) * t.price * 60 = -(t.price * (t.qty * 60)) /\ t.price * (t.qty * 60) \in Int
    BY <1>1, <1>2
  <2> QED BY <1>1, <1>3, <2>1, <2>2
<1>4. CASE t.act = "SELL"
  <2>1. LotsOf(t) = -t.qty /\ CashOf(t) = (-(-t.qty)) * t.price * 60
    BY <1>1, <1>4 DEF CashOf, LotsOf
  <2>2. (-(-t.qty)) * t.price * 60 = t.price * (t.qty * 60) /\ t.price * (t.qty * 60) \in Int
    BY <1>1, <1>2
  <2> QED BY <1>1, <1>4, <2>1, <2>2
<1> QED BY <1>1, <1>3, <1>4

\* Holdings move by a trade's lots, cash by its value.
LEMMA HeldMove ==
  ASSUME MoneyNumbers, NEW tr \in Seq(Trade), NEW acc, NEW n \in 1..Len(tr)
  PROVE  /\ HeldIn(tr, acc, n) \in Int /\ CashIn(tr, acc, n) \in Int
         /\ HeldIn(tr, acc, 0) = 0 /\ CashIn(tr, acc, 0) = 0
         /\ HeldIn(tr, acc, n) =
              HeldIn(tr, acc, n - 1) + (IF tr[n].acc = acc THEN LotsOf(tr[n]) ELSE 0)
         /\ CashIn(tr, acc, n) =
              CashIn(tr, acc, n - 1) + (IF tr[n].acc = acc THEN CashOf(tr[n]) ELSE 0)
<1>1. n \in Nat \ {0} /\ \A i \in 1..n : i \in Nat /\ tr[i] \in Trade
  OBVIOUS
<1>2. \A i \in 1..n : LotsIn(tr)[i] \in Int /\ CashOfAll(tr)[i] \in Int
  BY <1>1, TradeMoves DEF LotsIn, CashOfAll
<1>3. LotsIn(tr)[n] = LotsOf(tr[n]) /\ CashOfAll(tr)[n] = CashOf(tr[n])
  BY <1>1 DEF LotsIn, CashOfAll
<1>4. /\ HeldIn(tr, acc, n) \in Int
      /\ HeldIn(tr, acc, n) = HeldIn(tr, acc, n - 1) + (IF tr[n].acc = acc THEN LotsIn(tr)[n] ELSE 0)
  BY <1>1, <1>2, PlacedMove DEF HeldIn
<1>5. /\ CashIn(tr, acc, n) \in Int
      /\ CashIn(tr, acc, n) = CashIn(tr, acc, n - 1) + (IF tr[n].acc = acc THEN CashOfAll(tr)[n] ELSE 0)
  BY <1>1, <1>2, PlacedMove DEF CashIn
<1>6. HeldIn(tr, acc, 0) = 0 /\ CashIn(tr, acc, 0) = 0
  <2>1. Placed(tr, acc, 0) = {}
    BY DEF Placed
  <2> QED BY <2>1, SumEmpty DEF HeldIn, CashIn
<1> QED BY <1>3, <1>4, <1>5, <1>6

\* What is held depends on the accounts, sides and quantities of the trades so far.
LEMMA HeldSame ==
  ASSUME NEW tr, NEW ur, NEW acc, NEW n \in Nat,
         \A i \in 1..n : ur[i].acc = tr[i].acc /\ ur[i].act = tr[i].act /\ ur[i].qty = tr[i].qty
  PROVE  HeldIn(ur, acc, n) = HeldIn(tr, acc, n)
<1>1. Placed(ur, acc, n) = Placed(tr, acc, n) /\ Placed(tr, acc, n) \in SUBSET (1..n)
  BY DEF Placed
<1>2. IsFiniteSet(Placed(tr, acc, n))
  BY <1>1, FS_Interval, FS_Subset
<1>3. \A i \in Placed(tr, acc, n) : LotsIn(ur)[i] = LotsIn(tr)[i]
  BY <1>1 DEF LotsIn, LotsOf
<1> QED BY <1>1, <1>2, <1>3, SumAgrees DEF HeldIn

\* What the model calls the holding is what is held after all the trades.
LEMMA HoldingIs ==
  ASSUME trades \in Seq(Trade), NEW acc
  PROVE  Holding(acc) = HeldIn(trades, acc, Len(trades)) /\ Of(acc) = Placed(trades, acc, Len(trades))
<1>1. Of(acc) = Placed(trades, acc, Len(trades))
  BY DEF Of, Placed
<1> DEFINE S == Placed(trades, acc, Len(trades))
           f == [i \in S |-> LotsOf(trades[i])]
<1>2. S \in SUBSET (1..Len(trades)) /\ Len(trades) \in Nat
  BY DEF Placed
<1>3. IsFiniteSet(S)
  <2>1. IsFiniteSet(1..Len(trades))
    BY <1>2, FS_Interval
  <2> HIDE DEF S
  <2> QED BY <1>2, <2>1, FS_Subset
<1>4. Holding(acc) = SumFunction(f)
  <2>1. Holding(acc) = SumFunction([i \in Of(acc) |-> LotsOf(trades[i])])
    BY Zenon DEF Holding
  <2>2. Of(acc) = S
    BY <1>1
  <2> HIDE DEF S
  <2> QED BY Zenon, <2>1, <2>2
<1>5. DOMAIN f = S /\ \A i \in S : f[i] = LotsIn(trades)[i]
  BY <1>2 DEF LotsIn
<1> HIDE DEF f, S
<1>6. SumFunction(f) = SumFunctionOnSet(LotsIn(trades), S)
  BY <1>3, <1>5, SumWhole, SumAgrees
<1> QED BY <1>1, <1>4, <1>6 DEF HeldIn, S

\* Nobody holds less than nothing.
LEMMA HeldNat ==
  ASSUME MoneyNumbers, trades \in Seq(Trade), SellsHeld(trades), NEW acc, NEW n \in 0..Len(trades)
  PROVE  HeldIn(trades, acc, n) \in Nat
<1> DEFINE Q == {m \in Nat : HeldIn(trades, acc, m) \in Nat}
<1>1. HeldIn(trades, acc, 0) = 0
  <2>1. Placed(trades, acc, 0) = {}
    BY DEF Placed
  <2> QED BY <2>1, SumEmpty DEF HeldIn
<1>2. ASSUME NEW m \in 1..Len(trades), m - 1 \in Q PROVE m \in Q
  <2>1. trades[m] \in Trade /\ m \in Nat
    OBVIOUS
  <2>2. HeldIn(trades, acc, m) =
          HeldIn(trades, acc, m - 1) + (IF trades[m].acc = acc THEN LotsOf(trades[m]) ELSE 0)
    BY HeldMove
  <2>3. HeldIn(trades, acc, m - 1) \in Nat
    BY <1>2
  <2>4. trades[m].acc = acc => /\ trades[m].qty \in Nat /\ trades[m].act \in {"BUY", "SELL"}
                               /\ trades[m].act = "SELL" => trades[m].qty <= HeldIn(trades, acc, m - 1)
    BY <2>1, TradeNumbers DEF SellsHeld
  <2>5. /\ trades[m].act = "BUY" => LotsOf(trades[m]) = trades[m].qty
        /\ trades[m].act = "SELL" => LotsOf(trades[m]) = -trades[m].qty
    BY DEF LotsOf
  <2>6. HeldIn(trades, acc, m) \in Nat
    BY <2>2, <2>3, <2>4, <2>5
  <2> QED BY <2>1, <2>6
<1>3. 0 \in Q /\ Len(trades) \in Nat
  BY <1>1
<1> HIDE DEF Q
<1>4. 0..Len(trades) \subseteq Q
  BY <1>2, <1>3, ByTrades
<1> QED BY <1>4 DEF Q

\* What appending does.
LEMMA Appended ==
  ASSUME NEW T, NEW s \in Seq(T), NEW t \in T
  PROVE  /\ Len(Append(s, t)) = Len(s) + 1 /\ Append(s, t)[Len(s) + 1] = t
         /\ \A i \in 1..Len(s) : Append(s, t)[i] = s[i]
BY SMT

\* Only lots that are held are sold.
LEMMA SellsStep ==
  ASSUME MoneyNumbers, trades \in Seq(Trade), SellsHeld(trades), [DailyNext]_trades
  PROVE  SellsHeld(trades')
<1>0. Len(trades) \in Nat /\ DOMAIN trades = 1..Len(trades)
  OBVIOUS
<1>1. CASE Traded
  <2>1. PICK acc \in AccountIds, act \in {"BUY", "SELL"}, q \in Qtys, p \in Prices :
          /\ act = "SELL" => q <= Holding(acc)
          /\ trades' = Append(trades, [acc |-> acc, act |-> act, qty |-> q, price |-> p,
                                       today |-> TRUE, fill |-> FALSE])
    BY <1>1 DEF Traded
  <2> DEFINE t == [acc |-> acc, act |-> act, qty |-> q, price |-> p, today |-> TRUE, fill |-> FALSE]
             N == Len(trades)
  <2>2. t.acc = acc /\ t.act = act /\ t.qty = q /\ t \in Trade
    BY DEF Trade
  <2> HIDE DEF t
  <2>3. trades' = Append(trades, t)
    BY <2>1 DEF t
  <2>4. Len(trades') = N + 1 /\ trades'[N + 1] = t /\ \A i \in 1..N : trades'[i] = trades[i]
    <3> HIDE DEF N
    <3> QED BY <2>2, <2>3, Appended DEF N
  <2> DEFINE ur == trades'
  <2> HIDE DEF ur
  <2>5. \A a, n : n \in 0..N => HeldIn(ur, a, n) = HeldIn(trades, a, n)
    <3> SUFFICES ASSUME NEW a, NEW n \in 0..N PROVE HeldIn(ur, a, n) = HeldIn(trades, a, n)
      OBVIOUS
    <3>1. n \in Nat /\ \A i \in 1..n : ur[i].acc = trades[i].acc /\ ur[i].act = trades[i].act /\ ur[i].qty = trades[i].qty
      BY <1>0, <2>4 DEF ur
    <3> QED BY <3>1, HeldSame
  <2>6. Len(ur) = N + 1 /\ ur[N + 1] = t /\ \A i \in 1..N : ur[i] = trades[i]
    BY <2>4 DEF ur
  <2>7. ASSUME NEW n \in 1..Len(ur), ur[n].act = "SELL" PROVE ur[n].qty <= HeldIn(ur, ur[n].acc, n - 1)
    <3>1. CASE n = N + 1
      <4>1. act = "SELL" /\ q <= Holding(acc)
        BY <2>1, <2>2, <2>6, <2>7, <3>1
      <4>2. Holding(acc) = HeldIn(trades, acc, N)
        BY HoldingIs
      <4>3. HeldIn(ur, acc, N) = HeldIn(trades, acc, N)
        BY <1>0, <2>5
      <4>4. ur[n].qty = q /\ ur[n].acc = acc /\ n - 1 = N
        BY <1>0, <2>2, <2>6, <3>1
      <4> QED BY <4>1, <4>2, <4>3, <4>4
    <3>2. CASE n # N + 1
      <4>1. n \in 1..N /\ n - 1 \in 0..N /\ ur[n] = trades[n]
        BY <1>0, <2>6, <3>2
      <4> QED BY <2>5, <2>7, <4>1 DEF SellsHeld
    <3> QED BY <3>1, <3>2
  <2>8. SellsHeld(ur)
    BY <2>7 DEF SellsHeld
  <2> QED BY <2>8 DEF ur
<1>2. ASSUME Len(trades') = Len(trades),
             \A i \in 1..Len(trades) : /\ trades'[i].acc = trades[i].acc /\ trades'[i].act = trades[i].act
                                       /\ trades'[i].qty = trades[i].qty
      PROVE  SellsHeld(trades')
  <2> DEFINE ur == trades'
  <2>1. Len(ur) = Len(trades) /\ \A i \in 1..Len(trades) : /\ ur[i].acc = trades[i].acc /\ ur[i].act = trades[i].act
                                                           /\ ur[i].qty = trades[i].qty
    BY <1>2
  <2> HIDE DEF ur
  <2>2. ASSUME NEW n \in 1..Len(trades) PROVE HeldIn(ur, trades[n].acc, n - 1) = HeldIn(trades, trades[n].acc, n - 1)
    <3>1. n - 1 \in Nat /\ \A i \in 1..(n - 1) : i \in 1..Len(trades)
      BY <1>0
    <3> QED BY <2>1, <3>1, HeldSame
  <2>3. SellsHeld(ur)
    BY <2>1, <2>2 DEF SellsHeld
  <2> QED BY <2>3 DEF ur
<1>3. ASSUME NEW i \in DOMAIN trades, FillWritten(i) PROVE SellsHeld(trades')
  <2>1. trades' = [trades EXCEPT ![i] = [trades[i] EXCEPT !.fill = TRUE]]
    BY <1>3 DEF FillWritten
  <2>2. \A j \in 1..Len(trades) : trades[j] \in Trade
    OBVIOUS
  <2> DEFINE t == [trades[i] EXCEPT !.fill = TRUE]
  <2>3. t.acc = trades[i].acc /\ t.act = trades[i].act /\ t.qty = trades[i].qty
    BY <1>0, <2>2 DEF Trade
  <2> HIDE DEF t
  <2>4. trades' = [trades EXCEPT ![i] = t]
    BY <2>1 DEF t
  <2>5. Len(trades') = Len(trades) /\ \A j \in 1..Len(trades) : trades'[j] = IF j = i THEN t ELSE trades[j]
    BY <1>0, <2>4
  <2> QED BY <1>2, <2>3, <2>5
<1>4. CASE NewDay
  <2>1. trades' = [i \in 1..Len(trades) |-> [trades[i] EXCEPT !.today = FALSE]]
    BY <1>0, <1>4 DEF NewDay
  <2>2. \A j \in 1..Len(trades) : trades[j] \in Trade
    OBVIOUS
  <2>3. Len(trades') = Len(trades)
    BY <1>0, <2>1
  <2>4. \A j \in 1..Len(trades) : trades'[j] = [trades[j] EXCEPT !.today = FALSE]
    BY <2>1
  <2>5. \A j \in 1..Len(trades) : /\ trades'[j].acc = trades[j].acc /\ trades'[j].act = trades[j].act
                                  /\ trades'[j].qty = trades[j].qty
    BY <2>2, <2>4 DEF Trade
  <2> QED BY <1>2, <2>3, <2>5
<1>5. CASE UNCHANGED trades
  BY <1>5
<1> QED BY <1>1, <1>3, <1>4, <1>5 DEF DailyNext

\* An account all of whose trades are today's: its replayed lots are what it holds, all of
\* the day, and what it realized less what they cost is the cash of its trades.
LEMMA LotsAndCash ==
  ASSUME MoneyNumbers, trades \in Seq(Trade), SellsHeld(trades), NEW acc,
         \A i \in Of(acc) : trades[i].today
  PROVE  LET lot == Replay(Of(acc))
         IN  /\ lot \in LotRecords
             /\ lot.qty = HeldIn(trades, acc, Len(trades)) * Scale
             /\ lot.todayQty = lot.qty /\ lot.todayCost = lot.cost
             /\ lot.realized - lot.cost = CashIn(trades, acc, Len(trades))
<1> DEFINE ts == Of(acc)
           N == Len(trades)
           H(n) == HeldIn(trades, acc, n)
           C(n) == CashIn(trades, acc, n)
<1>1. N \in Nat /\ DOMAIN trades = 1..N /\ \A n \in 1..N : trades[n] \in Trade /\ n \in Nat
  OBVIOUS
<1>2. \A n \in 1..N : n \in ts <=> trades[n].acc = acc
  BY <1>1 DEF Of
<1>3. PICK lot : /\ Replay(ts) = lot[N] /\ lot[0] = Nothing
                 /\ \A n \in 1..N : lot[n] = LotAfter(ts, lot[n - 1], n)
  <2> HIDE DEF ts
  <2> QED BY <1>1, ReplayIs
<1> DEFINE TrueAt(n) == /\ lot[n] \in LotRecords /\ lot[n].qty = H(n) * Scale
                      /\ lot[n].todayQty = lot[n].qty /\ lot[n].todayCost = lot[n].cost
                      /\ lot[n].realized - lot[n].cost = C(n)
           Q == {n \in Nat : TrueAt(n)}
<1>4. H(0) = 0 /\ C(0) = 0
  <2>1. Placed(trades, acc, 0) = {}
    BY DEF Placed
  <2> QED BY <2>1, SumEmpty DEF HeldIn, CashIn
<1>5. 0 \in Q
  <2>1. 0 * Scale = 0
    BY DEF Scale
  <2> QED BY <1>3, <1>4, <2>1, NothingIs
<1>6. ASSUME NEW n \in 1..N, n - 1 \in Q PROVE n \in Q
  <2> DEFINE t == trades[n]
             l == lot[n - 1]
             x == t.qty * Scale
  <2>1. /\ l \in LotRecords /\ l.qty = H(n - 1) * Scale
        /\ l.todayQty = l.qty /\ l.todayCost = l.cost /\ l.realized - l.cost = C(n - 1)
    BY <1>6
  <2>2. t \in Trade /\ n - 1 \in 0..N /\ n \in Nat
    BY <1>1
  <2>3. H(n - 1) \in Nat
    BY <2>2, HeldNat
  <2>4. /\ H(n) = H(n - 1) + (IF t.acc = acc THEN LotsOf(t) ELSE 0)
        /\ C(n) = C(n - 1) + (IF t.acc = acc THEN CashOf(t) ELSE 0)
        /\ C(n) \in Int
    BY HeldMove
  <2>5. C(n - 1) \in Int
    BY <2>1 DEF LotRecords
  <2>6. lot[n] = LotAfter(ts, l, n)
    BY <1>3
  <2>7. /\ l.qty \in Nat /\ l.cost \in Int /\ l.realized \in Int
        /\ t.qty \in Nat /\ t.price \in Nat /\ Scale = 60 /\ t.price * x \in Nat
        /\ t.act \in {"BUY", "SELL"}
    BY <2>1, <2>2, TradeNumbers DEF LotRecords, Scale
  <2>8. CASE t.acc # acc
    <3>1. n \notin ts
      BY <1>2, <2>8
    <3>2. lot[n] = l
      <4> HIDE DEF ts, l
      <4> QED BY <2>6, <3>1 DEF LotAfter
    <3>3. H(n) = H(n - 1) /\ C(n) = C(n - 1)
      <4> HIDE DEF H, C
      <4> QED BY <2>3, <2>4, <2>5, <2>8
    <3>4. TrueAt(n)
      <4> HIDE DEF H, C
      <4> QED BY <2>1, <3>2, <3>3
    <3> QED BY <2>2, <3>4
  <2>9. CASE t.acc = acc /\ t.act = "BUY"
    <3>1. n \in ts /\ t.today
      BY <1>2, <2>9
    <3>2. lot[n] = AfterPurchase(l, t)
      BY <2>6, <2>9, <3>1 DEF LotAfter
    <3>3. /\ lot[n] \in LotRecords /\ lot[n].qty = l.qty + x /\ lot[n].cost = l.cost + t.price * x
          /\ lot[n].todayQty = l.todayQty + x /\ lot[n].todayCost = l.todayCost + t.price * x
          /\ lot[n].realized = l.realized
      <4>1. l \in LotRecords /\ t \in Trade /\ t.today
        BY <2>1, <2>2, <3>1
      <4> HIDE DEF l, t
      <4> QED BY <3>2, <4>1, BoughtIs
    <3>4. LotsOf(t) = t.qty /\ CashOf(t) = -(t.price * x)
      BY <2>2, <2>9, TradeMoves
    <3>5. H(n) = H(n - 1) + t.qty /\ C(n) = C(n - 1) - t.price * x
      <4> DEFINE v == t.price * x
      <4>1. v \in Nat /\ CashOf(t) = -v
        BY <2>7, <3>4
      <4> HIDE DEF v, H, C
      <4>2. H(n) = H(n - 1) + t.qty /\ C(n) = C(n - 1) - v
        BY <2>3, <2>4, <2>5, <2>7, <2>9, <3>4, <4>1
      <4> QED BY <4>2 DEF v
    <3>6. TrueAt(n)
      <4> DEFINE v == t.price * x
      <4>1. v \in Nat
        BY <2>7
      <4>2. lot[n].qty = H(n) * Scale
        <5> HIDE DEF H
        <5> QED BY <2>1, <2>3, <2>7, <3>3, <3>5
      <4>3. lot[n].todayQty = lot[n].qty /\ lot[n].todayCost = lot[n].cost
        BY <2>1, <3>3
      <4>4. lot[n].realized - lot[n].cost = C(n)
        <5>1. C(n) = C(n - 1) - v /\ lot[n].cost = l.cost + v /\ lot[n].realized = l.realized
          BY <3>3, <3>5
        <5>2. l.cost \in Int /\ l.realized \in Int /\ l.realized - l.cost = C(n - 1)
          BY <2>1, <2>7
        <5> HIDE DEF v, C, l
        <5> QED BY <2>5, <4>1, <5>1, <5>2
      <4> QED BY <3>3, <4>2, <4>3, <4>4
    <3> QED BY <2>2, <3>6
  <2>10. CASE t.acc = acc /\ t.act = "SELL"
    <3>1. n \in ts /\ t.today
      BY <1>2, <2>10
    <3>2. lot[n] = AfterSale(l, t)
      BY <2>6, <2>10, <3>1 DEF LotAfter
    <3>3. t.qty <= H(n - 1)
      BY <2>10 DEF SellsHeld
    <3>4. x <= l.qty
      <4> HIDE DEF H
      <4> QED BY <2>1, <2>3, <2>7, <3>3
    <3>5. /\ lot[n] \in LotRecords /\ lot[n].qty = l.qty - x
          /\ lot[n].todayQty = lot[n].qty /\ lot[n].todayCost = lot[n].cost
          /\ lot[n].realized - lot[n].cost = (l.realized - l.cost) + t.price * x
      BY <2>1, <2>2, <3>1, <3>2, <3>4, SoldIs
    <3>6. LotsOf(t) = -t.qty /\ CashOf(t) = t.price * x
      BY <2>2, <2>10, TradeMoves
    <3>7. H(n) = H(n - 1) - t.qty /\ C(n) = C(n - 1) + t.price * x
      <4> DEFINE v == t.price * x
      <4>1. v \in Nat /\ CashOf(t) = v
        BY <2>7, <3>6
      <4> HIDE DEF v, H, C
      <4>2. H(n) = H(n - 1) - t.qty /\ C(n) = C(n - 1) + v
        BY <2>3, <2>4, <2>5, <2>7, <2>10, <3>6, <4>1
      <4> QED BY <4>2 DEF v
    <3>8. lot[n].qty = H(n) * Scale
      <4> HIDE DEF H
      <4> QED BY <2>1, <2>3, <2>7, <3>5, <3>7
    <3>9. lot[n].realized - lot[n].cost = C(n)
      BY <2>1, <3>5, <3>7
    <3>10. TrueAt(n)
      BY <3>5, <3>8, <3>9
    <3> QED BY <2>2, <3>10
  <2> QED BY <2>7, <2>8, <2>9, <2>10
<1>7. N \in Q
  <2> HIDE DEF Q, N
  <2>1. 0..N \subseteq Q
    BY <1>1, <1>5, <1>6, ByTrades DEF N
  <2> QED BY <1>1, <2>1
<1> QED BY <1>3, <1>7

\* The fees of trades that are all of today.
LEMMA FeesOfAll ==
  ASSUME MoneyNumbers, trades \in Seq(Trade), NEW acc, \A i \in Of(acc) : trades[i].today
  PROVE  Fees(Of(acc)) = Fee * Scale * Cardinality(Of(acc))
<1> DEFINE ts == Of(acc)
           D == {i \in ts : trades[i].today}
<1>1. D = ts
  OBVIOUS
<1>2. Fees(ts) = Fee * Scale * Cardinality(D)
  BY Zenon DEF Fees, D
<1> QED BY <1>1, <1>2

\* The right-hand side of ReplayIsMarkToMarket, as cash and fees apart.
LEMMA CashLessFees ==
  ASSUME MoneyNumbers, trades \in Seq(Trade), NEW acc
  PROVE  /\ SumFunction([i \in Of(acc) |-> CashOf(trades[i]) - Fee * Scale])
              = CashIn(trades, acc, Len(trades)) - Fee * Scale * Cardinality(Of(acc))
         /\ CashIn(trades, acc, Len(trades)) \in Int
         /\ Fee * Scale * Cardinality(Of(acc)) \in Nat
<1> DEFINE S == Placed(trades, acc, Len(trades))
           k == Fee * Scale
           f == [i \in S |-> CashOf(trades[i]) - k]
           m == [i \in S |-> -k]
<1>1. Of(acc) = S
  BY HoldingIs
<1>2. S \in SUBSET (1..Len(trades)) /\ Len(trades) \in Nat
  BY DEF Placed
<1>3. IsFiniteSet(S)
  <2>1. IsFiniteSet(1..Len(trades))
    BY <1>2, FS_Interval
  <2> HIDE DEF S
  <2> QED BY <1>2, <2>1, FS_Subset
<1>4. SumFunction([i \in Of(acc) |-> CashOf(trades[i]) - k]) = SumFunction(f)
  <2>1. SumFunction([i \in Of(acc) |-> CashOf(trades[i]) - k]) =
          SumFunction([i \in Of(acc) |-> CashOf(trades[i]) - k])
    OBVIOUS
  <2> HIDE DEF S, k
  <2> QED BY Zenon, <1>1, <2>1
<1>5. k \in Nat
  BY DEF MoneyNumbers, Scale
<1> HIDE DEF k
<1>6. \A i \in S : trades[i] \in Trade /\ i \in Nat
  BY <1>2
<1>7. \A i \in S : CashOf(trades[i]) \in Int /\ CashOfAll(trades)[i] = CashOf(trades[i])
  BY <1>6, TradeMoves DEF CashOfAll
<1>8. \A i \in S : /\ CashOfAll(trades)[i] \in Int /\ m[i] \in Int
                   /\ f[i] = CashOfAll(trades)[i] + m[i]
  BY <1>5, <1>7
<1>9. DOMAIN f = S /\ -k \in Int /\ \A i \in S : m[i] = -k
  BY <1>5
<1>10. CashIn(trades, acc, Len(trades)) = SumFunctionOnSet(CashOfAll(trades), S)
  BY DEF CashIn
<1> HIDE DEF S, f, m
<1>11. SumFunction(f) = SumFunctionOnSet(CashOfAll(trades), S) + SumFunctionOnSet(m, S)
  BY <1>3, <1>8, <1>9, SumWhole, SumPlus
<1>12. SumFunctionOnSet(m, S) = (-k) * Cardinality(S)
  BY <1>3, <1>9, SumOfConstant
<1>13. SumFunctionOnSet(CashOfAll(trades), S) \in Int
  BY <1>3, <1>8, SumInt
<1>14. Cardinality(S) \in Nat
  BY <1>3, FS_CardinalityType
<1>15. (-k) * Cardinality(S) = -(k * Cardinality(S)) /\ k * Cardinality(S) \in Nat
  <2>1. \A a, b \in Nat : (-a) * b = -(a * b) /\ a * b \in Nat
    BY SMT
  <2> QED BY <1>5, <1>14, <2>1
<1>16. SumFunction(f) = SumFunctionOnSet(CashOfAll(trades), S) - k * Cardinality(S)
  BY <1>11, <1>12, <1>13, <1>15
<1> QED BY <1>1, <1>4, <1>10, <1>13, <1>15, <1>16 DEF k

\* Marking to market, in the state.
LEMMA MarksToMarket ==
  ASSUME MoneyNumbers, trades \in Seq(Trade), SellsHeld(trades)
  PROVE  ReplayIsMarkToMarket
<1> SUFFICES ASSUME NEW acc \in AccountIds, NEW quote \in Prices, \A i \in Of(acc) : trades[i].today
             PROVE  PnlOf(Of(acc), quote).total =
                      SumFunction([i \in Of(acc) |-> CashOf(trades[i]) - Fee * Scale])
                        + Holding(acc) * quote * Scale
  BY Zenon DEF ReplayIsMarkToMarket
<1> DEFINE ts == Of(acc)
           lot == Replay(ts)
           h == HeldIn(trades, acc, Len(trades))
           c == CashIn(trades, acc, Len(trades))
           fees == Fee * Scale * Cardinality(ts)
<1>1. /\ lot \in LotRecords /\ lot.qty = h * Scale /\ lot.todayQty = lot.qty /\ lot.todayCost = lot.cost
      /\ lot.realized - lot.cost = c
  BY LotsAndCash
<1>2. quote \in Nat /\ quote # 0 /\ Scale = 60 /\ h \in Nat
  <2>1. Len(trades) \in 0..Len(trades)
    OBVIOUS
  <2> QED BY <2>1, HeldNat DEF MoneyNumbers, Scale
<1>3. Unrealized(lot, quote) = quote * lot.todayQty - lot.todayCost
  BY <1>2 DEF Unrealized
<1>4. Fees(ts) = fees /\ fees \in Nat
  BY FeesOfAll, CashLessFees
<1>5. PnlOf(ts, quote).total = (lot.realized - Fees(ts)) + Unrealized(lot, quote)
  BY <1>2, PnlTyped DEF Of
<1>6. SumFunction([i \in ts |-> CashOf(trades[i]) - Fee * Scale]) = c - fees /\ c \in Int
  BY CashLessFees
<1>7. Holding(acc) = h
  BY HoldingIs
<1> HIDE DEF ts, lot, h, c, fees
<1>8. quote * lot.todayQty = h * quote * Scale /\ quote * lot.todayQty \in Int
  <2>1. \A a, b \in Nat : a * (b * 60) = b * a * 60 /\ a * (b * 60) \in Int
    BY SMT
  <2> QED BY <1>1, <1>2, <2>1
<1>9. PnlOf(ts, quote).total = (lot.realized - fees) + (h * quote * Scale - lot.cost)
  BY <1>1, <1>3, <1>4, <1>5, <1>8
<1> DEFINE v == h * quote * Scale
<1>10. v \in Int
  BY <1>8
<1> HIDE DEF v
<1>11. lot.realized \in Int /\ lot.cost \in Int
  BY <1>1 DEF LotRecords
<1>12. (lot.realized - fees) + (v - lot.cost) = (c - fees) + v
  BY <1>1, <1>4, <1>6, <1>10, <1>11
<1> QED BY <1>6, <1>7, <1>9, <1>12 DEF v, ts

\* The replay of a day that began flat is its cash, its fees and the value of what is held,
\* for any order of purchases and partial sales, however many (daily_pnl.py, get_daily_pnl).
THEOREM ReplayMarksToMarket ==
  ASSUME MoneyNumbers
  PROVE  DailySpec => []ReplayIsMarkToMarket
<1> DEFINE Inv == trades \in Seq(Trade) /\ SellsHeld(trades)
<1>1. DailyInit => Inv
  BY DEF DailyInit, SellsHeld
<1>2. Inv /\ [DailyNext]_trades => Inv'
  BY TradesTyped, SellsStep
<1>3. Inv => ReplayIsMarkToMarket
  BY MarksToMarket
<1> QED BY <1>1, <1>2, <1>3, PTL DEF DailySpec
=============================================================================
