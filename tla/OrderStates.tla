----------------------------- MODULE OrderStates -----------------------------
(***************************************************************************)
(* The lifecycle vocabulary of one order and the transition check every    *)
(* callback goes through (src/app/services/order_state_machine.py), with   *)
(* the pending and final sets of the ledger (order_ledger.py) and of the   *)
(* BUY cash reservation (cash_reservation.py).                             *)
(*                                                                         *)
(* The model's quantities are whole lots; the code keeps them as floats    *)
(* and compares them the same way.                                         *)
(***************************************************************************)
EXTENDS Naturals

FINAL == {"FILLED", "REJECTED", "CANCELED", "CANCELLED", "EXPIRED"}

PENDING_STATES == {"RESERVED", "SEND_IN_PROGRESS", "SENT_PENDING", "SEND_UNKNOWN",
                   "NEW", "PARTIALLY_FILLED", "CANCEL_REQUESTED"}

States == PENDING_STATES \union FINAL \union {"ERROR_RECONCILIATION_REQUIRED"}

\* A row that does not exist; transition() reads a missing status as RESERVED.
ABSENT == "ABSENT"

RANK == [s \in States |->
           CASE s = "RESERVED"         -> 1
             [] s = "SEND_IN_PROGRESS" -> 5
             [] s = "SENT_PENDING"     -> 10
             [] s = "SEND_UNKNOWN"     -> 15
             [] s = "NEW"              -> 20
             [] s = "CANCEL_REQUESTED" -> 30
             [] s = "PARTIALLY_FILLED" -> 40
             [] s = "ERROR_RECONCILIATION_REQUIRED" -> 90
             [] s \in FINAL            -> 100]

\* transition(): a final state never changes, the rank and the cumulative
\* filled quantity never go back.
Transition(current, incoming, currentFilled, incomingFilled) ==
  /\ current \in FINAL => incoming = current
  /\ RANK[incoming] >= RANK[current]
  /\ incomingFilled >= currentFilled

\* Mutation: a send of unknown outcome releases its cash.
ReservedAfterReply(status, filled, qty, held) ==
  CASE status \in FINAL \union {"SEND_UNKNOWN"} -> 0
    [] status \in PENDING_STATES \ {"SEND_UNKNOWN"} -> IF filled < qty THEN qty - filled ELSE 0
    [] OTHER -> held

\* sync_cash_reservation: what the reservation row of a BUY holds, in lots,
\* after the ledger row became `status` with `filled` of `qty` lots.
ReservedAfter(status, filled, qty, held) ==
  CASE status \in FINAL          -> 0
    [] status \in PENDING_STATES -> IF filled < qty THEN qty - filled ELSE 0
    [] OTHER                     -> held
=============================================================================
