------------------------------ MODULE Outcomes ------------------------------
(***************************************************************************)
(* How a decision is measured afterwards: the observations of its symbol's *)
(* price that other work leaves behind, and the labeler that fills, in as  *)
(* many passes as it takes, the returns after each horizon and at the      *)
(* close, the extremes of the price, and whether target or stop came first.*)
(*                                                                         *)
(* One decision of one symbol.  Time is a number, and so is a price, whose *)
(* return stands for itself; 0 is NULL.                                    *)
(***************************************************************************)
EXTENDS Integers

CONSTANTS
  Horizons,             \* of the returns, after the decision; finite, not empty, positive
  Close,                \* of the session of the decision's day
  Delay, DefaultDelay,  \* outcomeMaximumObservationDelaySeconds
  Grace,                \* _HORIZON_GRACE
  Samples,              \* what a snapshot of the gateway may tell
  Target, Stop,         \* prices of the response
  End                   \* bounds the clock

\* last and its quote's reliability, the extremes of the bar, if they are known, and how long
\* before the observation the bar began.
Sample == [last : Nat \ {0}, quote : BOOLEAN, high : Nat, low : Nat, ohlc : BOOLEAN, since : Nat]

VARIABLES
  now,
  seen,     \* MarketObservation rows: samples with their observed_at
  outcome,  \* the DecisionOutcome row, or Unmeasured
  read      \* history: every pass could read its configuration

labelVars == <<now, seen, outcome, read>>

Unmeasured == [status |-> "NONE"]

LabelInit == now = 1 /\ seen = {} /\ outcome = Unmeasured /\ read = TRUE

-----------------------------------------------------------------------------
(* Observations.                                                           *)

\* The unique key keeps the first observation of an instant.
Kept(s, at) ==
  IF \E x \in seen : x.at = at THEN seen ELSE seen \cup {[at |-> at, sample |-> s]}

\* A quote may be older than its snapshot, and is no older than one of an earlier snapshot.
Observe ==
  /\ \E s \in Samples, at \in 1..now :
       /\ \A x \in seen : x.at <= at
       /\ seen' = Kept(s, at)
  /\ UNCHANGED <<now, outcome, read>>

\* create_decision_outcome, once a request.
Decided ==
  /\ outcome = Unmeasured
  /\ \E act \in {"BUY", "WAIT"}, priced \in BOOLEAN :
       outcome' = [at |-> now, act |-> act, priced |-> priced, status |-> "PENDING",
                   return |-> [f \in Horizons \cup {0} |-> 0], high |-> 0, low |-> 0, first |-> "unknown"]
  /\ UNCHANGED <<now, seen, read>>

-----------------------------------------------------------------------------
(* label_pending_outcomes.  Field 0 is the return at the close.            *)

Last == CHOOSE h \in Horizons : \A g \in Horizons : g <= h

\* known: the configuration could be read.
Due(o, f) == IF f = 0 THEN Close ELSE o.at + f
IsDue(o, f, known) == (f = 0 => known) /\ Due(o, f) <= now

\* _select_observation_in_window
InWindow(o, f, known) ==
  {x \in seen : Due(o, f) <= x.at /\ x.at <= Due(o, f) + (IF known THEN Delay ELSE DefaultDelay) /\ x.sample.quote}
Earliest(xs) == CHOOSE x \in xs : \A y \in xs : x.at <= y.at

Returns(o, known) ==
  [f \in Horizons \cup {0} |->
     IF o.return[f] = 0 /\ IsDue(o, f, known) /\ InWindow(o, f, known) # {}
     THEN Earliest(InWindow(o, f, known)).sample.last
     ELSE o.return[f]]

\* Mutation: nothing stops at the close.
MeasurementEndOpen(o, known) == o.at + Last

MeasurementEnd(o, known) ==
  IF known /\ Close < o.at + Last THEN Close ELSE o.at + Last

\* _extract_extremes: a bar that began before the decision is only worth its tick.
BarCounts(o, x) == x.sample.ohlc /\ x.at - x.sample.since >= o.at
Point(o, x) ==
  IF BarCounts(o, x) THEN [at |-> x.at, high |-> x.sample.high, low |-> x.sample.low]
  ELSE [at |-> x.at, high |-> x.sample.last, low |-> x.sample.last]
Points(o, known) ==
  {Point(o, x) : x \in {y \in seen : /\ o.at <= y.at /\ y.at <= MeasurementEnd(o, known)
                                     /\ BarCounts(o, y) \/ y.sample.quote}}

Highest(o, ps) == IF ps = {} THEN o.high ELSE CHOOSE h \in {p.high : p \in ps} : \A p \in ps : p.high <= h
Lowest(o, ps)  == IF ps = {} THEN o.low ELSE CHOOSE l \in {p.low : p \in ps} : \A p \in ps : l <= p.low

\* _update_target_stop_order: what was said before stays when neither was hit.
FirstHit(o, ps) ==
  LET hits  == {p \in ps : p.high >= Target}
      stops == {p \in ps : p.low <= Stop}
  IN  IF o.act # "BUY" \/ hits \cup stops = {} THEN o.first
      ELSE IF stops = {} \/ (hits # {} /\ Earliest(hits).at < Earliest(stops).at) THEN "target"
      ELSE IF hits = {} \/ Earliest(stops).at < Earliest(hits).at THEN "stop"
      ELSE "both"

\* A missing return whose time is long past; n is the row as this pass leaves it.
GivenUp(n, known) ==
  \E f \in DOMAIN n.return : n.return[f] = 0 /\ IsDue(n, f, known) /\ now - Due(n, f) > Grace

Status(n, known) ==
  IF n.first = "both" THEN "AMBIGUOUS"
  ELSE IF \A f \in DOMAIN n.return : n.return[f] # 0 THEN "COMPLETE"
  ELSE IF GivenUp(n, known) THEN "DATA_GAP"
  ELSE IF \E f \in DOMAIN n.return : n.return[f] # 0 THEN "PARTIAL" ELSE "PENDING"

Labelled(o, known) ==
  LET ps == Points(o, known)
      n  == [o EXCEPT !.return = Returns(o, known), !.high = Highest(o, ps), !.low = Lowest(o, ps),
                      !.first = FirstHit(o, ps)]
  IN  [n EXCEPT !.status = Status(n, known)]

\* Without a price, or after the close, there is nothing to measure.
Unavailable(o, known) == ~o.priced \/ MeasurementEnd(o, known) < o.at

Label ==
  /\ outcome.status \in {"PENDING", "PARTIAL", "DATA_GAP"}
  /\ \E known \in BOOLEAN :
       /\ outcome' = IF Unavailable(outcome, known) THEN [outcome EXCEPT !.status = "UNAVAILABLE"]
                     ELSE Labelled(outcome, known)
       /\ read' = (read /\ known)
  /\ UNCHANGED <<now, seen>>

TimePasses == now < End /\ now' = now + 1 /\ UNCHANGED <<seen, outcome, read>>

LabelNext == Observe \/ Decided \/ Label \/ TimePasses

LabelSpec == LabelInit /\ [][LabelNext]_labelVars

-----------------------------------------------------------------------------
(* Properties.                                                             *)

\* x tells of the market after decision o and in its session.
After(o, x) == o.at <= x.at /\ x.at <= Close /\ x.at <= o.at + Last

\* What a finished row says is what one look at all observations, late ones included, says:
\* each return is the price of the first reliable quote of its own window, the extremes and
\* the first of target and stop are those of the session after the decision, whenever the
\* passes ran and whatever they had to go on ("Deterministic full re-scan each pass, so it is
\* naturally idempotent").  The passes must have read their configuration.
LabelIsTheMarkets ==
  outcome.status \in {"COMPLETE", "AMBIGUOUS"} /\ read =>
    LET o == outcome
        told == {x \in seen : After(o, x)}
        rose(x, p) == IF BarCounts(o, x) THEN x.sample.high >= p ELSE x.sample.quote /\ x.sample.last >= p
        fell(x, p) == IF BarCounts(o, x) THEN x.sample.low <= p ELSE x.sample.quote /\ x.sample.last <= p
    IN  /\ \A f \in DOMAIN o.return : o.return[f] # 0 =>
             \E x \in seen :
               /\ x.sample.quote /\ x.sample.last = o.return[f] /\ x.at \in Due(o, f)..(Due(o, f) + Delay)
               /\ \A y \in seen : y.sample.quote /\ y.at >= Due(o, f) => y.at >= x.at
        /\ o.status = "COMPLETE" =>
             /\ \A x \in told : ~rose(x, o.high + 1) /\ (o.low = 0 \/ ~fell(x, o.low - 1))
             /\ told = {} \/ o.high = 0 \/ \E x \in told : rose(x, o.high)
             /\ o.first = "target" => \E x \in told : rose(x, Target) /\ \A y \in told : fell(y, Stop) => x.at < y.at
             /\ o.first = "stop" => \E x \in told : fell(x, Stop) /\ \A y \in told : rose(y, Target) => x.at < y.at
             /\ o.first = "unknown" => o.act # "BUY" \/ \A x \in told : ~rose(x, Target) /\ ~fell(x, Stop)
        /\ o.status = "AMBIGUOUS" => \E x \in told : rose(x, Target) /\ fell(x, Stop)
=============================================================================
