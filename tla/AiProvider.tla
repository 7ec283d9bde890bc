----------------------------- MODULE AiProvider -----------------------------
(***************************************************************************)
(* The one DeepSeekProvider of the server process.  Several evaluations    *)
(* ask it at a time; between two awaits the event loop runs the others.    *)
(* A decision is made by one question that is repeated on a transient      *)
(* error, or by a conversation in which the model calls tools, within a    *)
(* budget of rounds, calls and time.  After Threshold failures in a row    *)
(* the provider is degraded and asks once in a probe interval.             *)
(***************************************************************************)
EXTENDS Integers

CONSTANTS
  Callers,
  MaxAttempts,       \* deepseek_max_attempts
  Threshold,         \* ai_degraded_threshold
  ProbeInterval,     \* ai_degraded_probe_interval_seconds, in ticks
  MaxToolRounds, MaxToolExecutions,
  MaxCallsPerRound   \* bound: tool calls in one message of the model

VARIABLES
  up,       \* the model's service answers, and in the form it was asked for
  failures, \* consecutive_failures; more than Threshold is as good as Threshold
  age,      \* ticks since last_attempt_at, ProbeInterval at most
  call      \* each evaluation's call of decide

aiVars == <<up, failures, age, call>>

\* n: rounds or attempts that were answered; force: this round is asked with
\* tool_choice "none"; final: force_json_final; late: the deadline has passed.
Idle == [at |-> "idle", n |-> 0, execs |-> 0, asked |-> 0, force |-> FALSE, final |-> FALSE, late |-> FALSE]
Call == [at : {"idle", "round", "tool", "attempt"}, n : 0..(MaxToolRounds + MaxAttempts),
         execs : 0..MaxToolExecutions, asked : 0..MaxCallsPerRound,
         force : BOOLEAN, final : BOOLEAN, late : BOOLEAN]

AiInit ==
  /\ up \in BOOLEAN
  /\ failures = 0
  /\ age = ProbeInterval
  /\ call = [c \in Callers |-> Idle]

Degraded == failures >= Threshold

\* The service, and the clock.
Service == up' = ~up /\ UNCHANGED <<failures, age, call>>
Tick == age < ProbeInterval /\ age' = age + 1 /\ UNCHANGED <<up, failures, call>>

\* Mutation: a decision that is answered without a call counts as an attempt.
DecideTouched(c) ==
  /\ call[c] = Idle
  /\ age' = 0
  /\ \/ Degraded /\ age < ProbeInterval /\ UNCHANGED call
     \/ /\ ~Degraded \/ age = ProbeInterval
        /\ \E at \in {"round", "attempt"} : call' = [call EXCEPT ![c].at = at]
  /\ UNCHANGED <<up, failures>>

\* decide: while degraded and before the next probe the answer is WAIT at once;
\* otherwise with tools, or (tools off, or only a veto) with one question.
Decide(c) ==
  /\ call[c] = Idle
  /\ \/ Degraded /\ age < ProbeInterval /\ UNCHANGED <<age, call>>
     \/ /\ ~Degraded \/ age = ProbeInterval
        /\ age' = 0
        /\ \E at \in {"round", "attempt"} : call' = [call EXCEPT ![c].at = at]
  /\ UNCHANGED <<up, failures>>

-----------------------------------------------------------------------------

Failed(c) ==
  /\ failures' = IF Degraded THEN failures ELSE failures + 1
  /\ call' = [call EXCEPT ![c] = Idle]
Succeeded(c) ==
  /\ failures' = 0
  /\ call' = [call EXCEPT ![c] = Idle]
\* JSON that is not an object: the exception leaves decide, nothing is counted.
Raised(c) ==
  /\ call' = [call EXCEPT ![c] = Idle]
  /\ UNCHANGED failures

\* The next round is forced to an answer by what is spent when it is asked.
AskRound(k) ==
  [k EXCEPT !.at = "round",
            !.force = k.final \/ k.n >= MaxToolRounds \/ k.execs >= MaxToolExecutions \/ k.late]

\* An answered round of _decide_with_tools.
Round(c) ==
  LET k == call[c]
      goOn(next) == call' = [call EXCEPT ![c] = AskRound(next)] /\ UNCHANGED failures
  IN  /\ k.at = "round"
      /\ \/ Succeeded(c)
         \/ ~up /\ (Failed(c) \/ Raised(c))
         \/ /\ ~k.force
            /\ \E m \in 1..MaxCallsPerRound : \* calls in a forced round are ignored
                 call' = [call EXCEPT ![c].at = "tool", ![c].asked = m, ![c].n = k.n + 1]
            /\ UNCHANGED failures
         \/ ~k.force /\ goOn([k EXCEPT !.n = k.n + 1, !.final = TRUE]) \* not JSON
      /\ UNCHANGED <<up, age>>

\* Mutation: the calls of one message all run.
ToolEager(c) ==
  LET k == call[c]
      left == [k EXCEPT !.asked = k.asked - 1, !.execs = k.execs + 1]
  IN  /\ k.at = "tool"
      /\ call' = [call EXCEPT ![c] = IF left.asked = 0 THEN AskRound(left) ELSE left]
      /\ UNCHANGED <<up, failures, age>>

\* One tool call of the message, or the error "tool budget exhausted" for it.
Tool(c) ==
  LET k == call[c]
      spent == k.execs >= MaxToolExecutions \/ k.late
      left == [k EXCEPT !.asked = k.asked - 1, !.execs = IF spent THEN k.execs ELSE k.execs + 1]
  IN  /\ k.at = "tool"
      /\ call' = [call EXCEPT ![c] = IF left.asked = 0 THEN AskRound(left) ELSE left]
      /\ UNCHANGED <<up, failures, age>>

\* The deadline passes during an await; asyncio.timeout then ends the conversation.
Late(c) ==
  /\ call[c].at \in {"round", "tool"} /\ ~call[c].late
  /\ call' = [call EXCEPT ![c].late = TRUE]
  /\ UNCHANGED <<up, failures, age>>
TimedOut(c) ==
  /\ call[c].late /\ ~up
  /\ Failed(c)
  /\ UNCHANGED <<up, age>>

\* An attempt of _call_with_retry: 5xx, a network error and a timeout are repeated; a
\* 4xx, an empty answer and one that is not JSON are not.
Attempt(c) ==
  /\ call[c].at = "attempt"
  /\ \/ Succeeded(c)
     \/ ~up /\ (Failed(c) \/ Raised(c))
     \/ /\ ~up /\ call[c].n + 1 < MaxAttempts
        /\ call' = [call EXCEPT ![c].n = @ + 1]
        /\ UNCHANGED failures
  /\ UNCHANGED <<up, age>>

Answered(c) == Round(c) \/ Tool(c) \/ Attempt(c)
Step(c) == Decide(c) \/ Answered(c) \/ Late(c) \/ TimedOut(c)
AiNext == Service \/ Tick \/ \E c \in Callers : Step(c)

AiSpec == AiInit /\ [][AiNext]_aiVars

\* The scanner keeps asking, a request ends by itself or by its timeout, time passes.
Fairness ==
  /\ WF_aiVars(Tick)
  /\ \A c \in Callers : WF_aiVars(Decide(c)) /\ WF_aiVars(Answered(c))

-----------------------------------------------------------------------------

\* A decision costs the rounds, attempts and tool calls it is allowed and no more,
\* whatever the model asks for; the last round is always one that must answer.
DecisionBounded ==
  /\ failures \in 0..Threshold /\ age \in 0..ProbeInterval
  /\ \A c \in Callers :
       LET k == call[c]
       IN  /\ k \in Call
           /\ k.at = "attempt" => k.n < MaxAttempts
           /\ k.at = "round" => k.n <= MaxToolRounds /\ (k.n = MaxToolRounds => k.force)
           /\ k.at = "round" /\ k.execs = MaxToolExecutions => k.force

\* A provider that is degraded finds out that the service is back: every evaluation
\* that is answered without a call would otherwise keep it from its next probe.
Recovers == <>[]up => <>[](failures = 0)
=============================================================================
