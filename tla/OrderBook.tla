------------------------------ MODULE OrderBook ------------------------------
(***************************************************************************)
(* What the order path promises, with no gateway, no messages and no       *)
(* faults: the ledger opens an entry for a request only while no other     *)
(* entry of the same symbol and side is open, an order is placed at most   *)
(* once and only under an open entry, and an entry is closed only when its *)
(* order is over or was never placed.  An entry may be opened again after  *)
(* the order is over (a late write does that), never before.               *)
(***************************************************************************)
EXTENDS Naturals

CONSTANTS Requests, KeyOf, Qty

VARIABLES belief,    \* the ledger entry: none, open, closed
          phase,     \* the order at the exchange: new, live, done
          executed   \* lots executed

bookVars == <<belief, phase, executed>>

Init ==
  /\ belief = [r \in Requests |-> "none"]
  /\ phase = [r \in Requests |-> "new"]
  /\ executed = [r \in Requests |-> 0]

Reserve(r) ==
  /\ belief[r] = "none"
  /\ \A q \in Requests : KeyOf[q] = KeyOf[r] => belief[q] # "open"
  /\ belief' = [belief EXCEPT ![r] = "open"]
  /\ UNCHANGED <<phase, executed>>

Place(r) ==
  /\ belief[r] = "open" /\ phase[r] = "new"
  /\ phase' = [phase EXCEPT ![r] = "live"]
  /\ UNCHANGED <<belief, executed>>

Execute(r) ==
  /\ phase[r] = "live"
  /\ \E n \in executed[r]..Qty, p \in {"live", "done"} :
       /\ executed' = [executed EXCEPT ![r] = n]
       /\ phase' = [phase EXCEPT ![r] = p]
  /\ UNCHANGED belief

Close(r) ==
  /\ belief[r] = "open" /\ phase[r] # "live"
  /\ belief' = [belief EXCEPT ![r] = "closed"]
  /\ UNCHANGED <<phase, executed>>

\* Late writes: entries whose orders are over are opened again.
Reopen ==
  /\ \E S \in SUBSET {r \in Requests : belief[r] = "closed" /\ phase[r] = "done"} :
       belief' = [r \in Requests |-> IF r \in S THEN "open" ELSE belief[r]]
  /\ UNCHANGED <<phase, executed>>

Next == Reopen \/ \E r \in Requests : Reserve(r) \/ Place(r) \/ Execute(r) \/ Close(r)

Spec == Init /\ [][Next]_bookVars

\* At most one order of a symbol and side works at a time.
OneLive ==
  \A r, q \in Requests : r # q /\ KeyOf[r] = KeyOf[q] => ~(phase[r] = "live" /\ phase[q] = "live")

\* An entry that was refused before it was placed is never placed.
ClosedStaysUnplaced ==
  [][\A r \in Requests : belief[r] = "closed" /\ phase[r] = "new" => phase'[r] = "new"]_bookVars
=============================================================================
