--------------------------- MODULE GatewayProofs ---------------------------
(***************************************************************************)
(* The gateway: how many orders it sends, and to which account.            *)
(*                                                                         *)
(* First the order endpoint (GatewayOrders): the limits of the symbol and  *)
(* of the day and the pending keys, for every set of requests, every limit *)
(* and any number of restarts.  The counts are an over-count of what they  *)
(* protect, but only while the terminal has its memory: Covered says that  *)
(* either every order that is placed or has a slot is counted, or the      *)
(* terminal has just restarted, no request can pass, and a poll under way  *)
(* brings the rows of all of them.                                         *)
(*                                                                         *)
(* Then the routing (AccountArming): where an order may go, for every set  *)
(* of accounts and every number of logins, restarts and requests.          *)
(***************************************************************************)
EXTENDS AccountArming, GatewayOrders, SumTheorems

Steps == {"free", "gates", "reserve", "boundary", "rollback", "decrement", "sent", "unknown"}
Slotted == {"boundary", "rollback", "decrement", "sent", "unknown"}
Rows == Pending \union {"none", "FILLED", "REJECTED"}
Orders == {"none", "live", "FILLED", "REJECTED"}

Types ==
  /\ row \in [Requests -> Rows] /\ order \in [Requests -> Orders]
  /\ counts \in [Syms -> Nat]
  /\ poll \in [on : BOOLEAN, counts : [Syms -> Nat]]
  /\ gate \in [step : Steps, reqs : SUBSET Requests, count : Nat]
  /\ pend \in SUBSET Requests /\ queue \in SUBSET Requests
  /\ gate.step # "free" => \E r \in Requests : gate.reqs = {r}
  /\ gate.step = "free" => gate.reqs = {}

\* What the handler inside the gate has a slot for.
Slots == IF gate.step \in Slotted THEN gate.reqs ELSE {}
Held(s) == Placed(s) \union (Slots \intersect For(s))

\* A request that was not sent yet, and what its row says.
Unsent ==
  /\ queue \intersect gate.reqs = {}
  /\ \A r \in queue : order[r] = "none" /\ row[r] = "SEND_IN_PROGRESS"
  /\ gate.step \in {"gates", "reserve", "boundary", "rollback", "decrement"} =>
       \A r \in gate.reqs : order[r] = "none" /\ row[r] = "SEND_IN_PROGRESS"
  /\ \A r \in gate.reqs \union pend : row[r] # "none"
  /\ \A r \in Requests : order[r] \in {"live", "FILLED"} => row[r] \notin {"none", "REJECTED"}
  /\ \A r \in Requests : row[r] = "none" => order[r] = "none"

Counted == \A s \in Syms : Cardinality(Held(s)) <= counts[s]
Blank ==
  /\ config = "stale" /\ gate.step \in {"free", "gates"}
  /\ poll.on => \A s \in Syms : Cardinality(Placed(s)) <= poll.counts[s]
Covered ==
  /\ Counted \/ Blank
  /\ gate.step = "decrement" => \A r \in gate.reqs : Cardinality(Held(SymOf[r])) <= gate.count

Capped ==
  /\ \A s \in Syms : Cardinality(Held(s)) <= PerSymbol
  /\ gate.step = "reserve" => Counted /\ \A r \in gate.reqs : Cardinality(Held(SymOf[r])) < PerSymbol

Keys ==
  \A r \in pend :
    \/ r \in gate.reqs /\ gate.step \in {"boundary", "rollback", "unknown"}
    \/ order[r] = "live"
    \/ row[r] = "SEND_UNKNOWN" /\ r \notin gate.reqs

\* All symbols together: what is placed or has a slot.
AllHeld == {r \in Requests : order[r] \notin {"none", "REJECTED"}} \union Slots
DayCapped ==
  /\ Cardinality(AllHeld) <= PerDay
  /\ gate.step = "reserve" => Cardinality(AllHeld) < PerDay

IInv == Types /\ Unsent /\ Covered /\ Capped /\ DayCapped /\ Keys

-----------------------------------------------------------------------------
(* Small facts.                                                            *)

\* The orders of a symbol, held and placed, are finite sets and the placed ones are among the held.
LEMMA FiniteSubsets ==
  ASSUME NEW s \in Syms
  PROVE  /\ IsFiniteSet(Held(s)) /\ IsFiniteSet(Placed(s))
         /\ Cardinality(Held(s)) \in Nat /\ Cardinality(Placed(s)) \in Nat
         /\ Cardinality(Placed(s)) <= Cardinality(Held(s))
<1>1. Held(s) \subseteq Requests /\ Placed(s) \subseteq Held(s)
  BY DEF Held, Placed, For
<1>2. IsFiniteSet(Requests)
  BY OrdersAssumption
<1>3. IsFiniteSet(Held(s)) /\ IsFiniteSet(Placed(s))
  BY <1>1, <1>2, FS_Subset
<1>. QED BY <1>1, <1>3, FS_Subset, FS_CardinalityType

\* What is held can only shrink when a set of requests is replaced by a part of it.
LEMMA Smaller ==
  ASSUME NEW A \in SUBSET Requests, NEW B \in SUBSET A
  PROVE  /\ Cardinality(A) \in Nat /\ Cardinality(B) \in Nat
         /\ Cardinality(B) <= Cardinality(A)
<1>1. IsFiniteSet(A)
  BY OrdersAssumption, FS_Subset
<1>. QED BY <1>1, FS_Subset, FS_CardinalityType

\* Adding a request to a set of them adds at most one to its size.
LEMMA OneMore ==
  ASSUME NEW A \in SUBSET Requests, NEW r \in Requests
  PROVE  Cardinality(A \union {r}) <= Cardinality(A) + 1
<1>1. IsFiniteSet(A)
  BY OrdersAssumption, FS_Subset
<1>. QED BY <1>1, FS_AddElement, FS_CardinalityType

\* Taking a request out of a set of them takes one from its size.
LEMMA OneLess ==
  ASSUME NEW A \in SUBSET Requests, NEW r \in A
  PROVE  Cardinality(A \ {r}) = Cardinality(A) - 1
<1>1. IsFiniteSet(A)
  BY OrdersAssumption, FS_Subset
<1>. QED BY <1>1, FS_RemoveElement

-----------------------------------------------------------------------------
(* The types.                                                              *)

\* Every step of the gateway keeps the types.
LEMMA TypesHold ==
  ASSUME Types, [OrdersNext]_ordersVars
  PROVE  Types'
<1>. USE DEF Types, Pending, Rows, Orders, Steps
<1>1. RowCounts \in [Syms -> Nat]
  <2>1. \A s \in Syms : Cardinality({r \in For(s) : row[r] \notin {"none", "REJECTED"}}) \in Nat
    BY OrdersAssumption, FS_Subset, FS_CardinalityType DEF For
  <2>. QED BY <2>1 DEF RowCounts
<1>2. \A r \in Requests : SymOf[r] \in Syms
  BY DEF Syms
<1>3. ASSUME NEW r \in Requests, Post(r) PROVE Types'
  BY <1>3 DEF Post, Bounds
<1>4. ASSUME NEW r \in Requests, Enter(r) PROVE Types'
  BY <1>4 DEF Enter, Free, Bounds
<1>5. ASSUME NEW r \in Requests, OrderEnds(r) PROVE Types'
  BY <1>5 DEF OrderEnds, KeyFreed, Bounds
<1>6. CASE PollStart
  BY <1>1, <1>6 DEF PollStart, Bounds
<1>7. CASE PollApply
  <2>1. Restored(counts, poll.counts) \in [Syms -> Nat]
    BY DEF Restored
  <2>. QED BY <1>7, <2>1 DEF PollApply, NoPoll, Zero, Bounds
<1>8. CASE PollFails
  BY <1>8 DEF PollFails, NoPoll, Zero, Bounds
<1>9. CASE ConfigAges
  BY <1>9 DEF ConfigAges, Bounds
<1>10. CASE Refuse
  BY <1>10 DEF Refuse, Answered, Free, Bounds
<1>11. CASE Pass
  BY <1>11 DEF Pass, Bounds
<1>12. CASE ReserveSlot
  BY <1>2, <1>12 DEF ReserveSlot, Bounds
<1>13. CASE BoundaryRefuses
  BY <1>13 DEF BoundaryRefuses
<1>14. CASE Rollback
  BY <1>2, <1>14 DEF Rollback, KeyFreed, Bounds
<1>15. CASE Decrement
  BY <1>2, <1>15 DEF Decrement, Answered, Free, Bounds
<1>16. CASE SdkCall
  BY <1>16 DEF SdkCall, Bounds
<1>17. CASE Answer
  BY <1>17 DEF Answer, Answered, Free, Bounds
<1>18. CASE Restart
  BY <1>18 DEF Restart, Zero, NoPoll, Free
<1>19. CASE UNCHANGED ordersVars
  BY <1>19 DEF ordersVars
<1>. QED BY <1>3, <1>4, <1>5, <1>6, <1>7, <1>8, <1>9, <1>10, <1>11, <1>12, <1>13, <1>14,
            <1>15, <1>16, <1>17, <1>18, <1>19 DEF OrdersNext

-----------------------------------------------------------------------------
(* The rows.                                                               *)

\* A request that was not sent stays unknown to the exchange.
LEMMA UnsentHolds ==
  ASSUME Types, Unsent, [OrdersNext]_ordersVars
  PROVE  Unsent'
<1>. USE DEF Types, Unsent
<1>1. ASSUME NEW r \in Requests, Post(r) PROVE Unsent'
  BY <1>1 DEF Post, Bounds
<1>2. ASSUME NEW r \in Requests, Enter(r) PROVE Unsent'
  BY <1>2 DEF Enter, Free, Bounds
<1>3. ASSUME NEW r \in Requests, OrderEnds(r) PROVE Unsent'
  BY <1>3 DEF OrderEnds, KeyFreed, Bounds, Orders
<1>4. CASE PollStart
  BY <1>4 DEF PollStart, Bounds
<1>5. CASE PollApply
  BY <1>5 DEF PollApply, Bounds
<1>6. CASE PollFails
  BY <1>6 DEF PollFails, Bounds
<1>7. CASE ConfigAges
  BY <1>7 DEF ConfigAges, Bounds
<1>8. CASE Refuse
  <2>1. gate.step = "gates" /\ gate' = Free /\ UNCHANGED <<order, pend, queue>>
    BY <1>8 DEF Refuse
  <2>2. PICK r \in gate.reqs : row' = [row EXCEPT ![r] = "REJECTED"]
    BY <1>8 DEF Refuse, Answered
  <2>3. r \in Requests /\ order[r] = "none" /\ r \notin queue
    BY <2>1
  <2>. QED BY <2>1, <2>2, <2>3 DEF Free
<1>9. CASE Pass
  BY <1>9 DEF Pass, Bounds
<1>10. CASE ReserveSlot
  BY <1>10 DEF ReserveSlot, Bounds
<1>11. CASE BoundaryRefuses
  BY <1>11 DEF BoundaryRefuses
<1>12. CASE Rollback
  BY <1>12 DEF Rollback, KeyFreed, Bounds
<1>13. CASE Decrement
  <2>1. gate.step = "decrement" /\ gate' = Free /\ UNCHANGED <<order, pend, queue>>
    BY <1>13 DEF Decrement
  <2>2. PICK r \in gate.reqs : row' = [row EXCEPT ![r] = "REJECTED"]
    BY <1>13 DEF Decrement, Answered
  <2>3. r \in Requests /\ order[r] = "none" /\ r \notin queue
    BY <2>1
  <2>. QED BY <2>1, <2>2, <2>3 DEF Free
<1>14. CASE SdkCall
  <2>1. PICK r \in gate.reqs, step \in {"sent", "unknown"} :
          /\ order' = [order EXCEPT ![r] = "live"] \/ order' = order
          /\ gate' = [gate EXCEPT !.step = step]
    BY <1>14 DEF SdkCall
  <2>2. gate.step = "boundary" /\ UNCHANGED <<row, pend, queue>>
    BY <1>14 DEF SdkCall
  <2>3. row[r] = "SEND_IN_PROGRESS" /\ r \in Requests /\ r \notin queue
    BY <2>2
  <2>. QED BY <2>1, <2>2, <2>3
<1>15. CASE Answer
  <2>1. PICK r \in gate.reqs, new \in {"SENT_PENDING", "SEND_UNKNOWN"} : row' = [row EXCEPT ![r] = new]
    BY <1>15 DEF Answer, Answered
  <2>2. gate' = Free /\ UNCHANGED <<order, pend, queue>>
    BY <1>15 DEF Answer
  <2>. QED BY <2>1, <2>2 DEF Free
<1>16. CASE Restart
  BY <1>16 DEF Restart, Free
<1>17. CASE UNCHANGED ordersVars
  BY <1>17 DEF ordersVars
<1>. QED BY <1>1, <1>2, <1>3, <1>4, <1>5, <1>6, <1>7, <1>8, <1>9, <1>10, <1>11, <1>12, <1>13,
            <1>14, <1>15, <1>16, <1>17 DEF OrdersNext

-----------------------------------------------------------------------------
(* The counts.                                                             *)

\* The rows of what is placed are all counted by the server.
LEMMA RowsCountPlaced ==
  ASSUME Types, Unsent, NEW s \in Syms
  PROVE  Cardinality(Placed(s)) <= RowCounts[s]
<1> DEFINE R == {r \in For(s) : row[r] \notin {"none", "REJECTED"}}
<1>1. Placed(s) \subseteq R /\ R \subseteq Requests
  BY DEF Placed, For, Types, Unsent, Orders
<1>2. Cardinality(Placed(s)) <= Cardinality(R)
  BY <1>1, Smaller
<1>3. RowCounts[s] = Cardinality(R)
  BY DEF RowCounts
<1>. QED BY <1>2, <1>3

\* Steps that leave orders and slots alone.
LEMMA SameHeld ==
  ASSUME order' = order, Slots' = Slots, NEW s \in Syms
  PROVE  Held(s)' = Held(s) /\ Placed(s)' = Placed(s)
BY DEF Held, Placed, For

\* Steps after which no more is held than before.
LEMMA LessHeld ==
  ASSUME NEW s \in Syms, Held(s)' \subseteq Held(s)
  PROVE  /\ Cardinality(Held(s)') \in Nat /\ Cardinality(Held(s)) \in Nat
         /\ Cardinality(Held(s)') <= Cardinality(Held(s))
<1>1. Held(s) \subseteq Requests
  BY DEF Held, Placed, For
<1>. QED BY <1>1, Smaller

\* Every request is of a symbol the gateway counts.
LEMMA SymsOfRequests == \A r \in Requests : SymOf[r] \in Syms
BY DEF Syms

\* The counters cover what is placed and stay within the limits: the reservation is taken before
\* the order is sent and given back only where it was refused.
LEMMA CoveredHolds ==
  ASSUME Types, Unsent, Covered, Capped, [OrdersNext]_ordersVars
  PROVE  Covered' /\ Capped'
<1>. USE SymsOfRequests
<1>0. \A s \in Syms : /\ Cardinality(Held(s)) \in Nat /\ Cardinality(Placed(s)) \in Nat
                      /\ Cardinality(Placed(s)) <= Cardinality(Held(s))
  BY FiniteSubsets
<1>1. ASSUME UNCHANGED <<order, gate, counts>>,
             (config' = config /\ poll' = poll) \/ PollStart \/ PollFails \/ ConfigAges
      PROVE  Covered' /\ Capped'
  <2>1. \A s \in Syms : Held(s)' = Held(s) /\ Placed(s)' = Placed(s)
    BY <1>1, SameHeld DEF Slots
  <2>2. Capped' /\ (Counted => Counted') /\ (gate.step = "decrement" =>
          \A r \in gate.reqs : Cardinality(Held(SymOf[r]))' <= gate.count)
    BY <1>1, <2>1 DEF Capped, Counted, Covered, Types
  <2>3. Blank => (Blank \/ Counted)'
    <3>1. CASE config' = config /\ poll' = poll
      BY <1>1, <2>1, <3>1 DEF Blank
    <3>2. CASE PollStart
      BY <1>1, <2>1, <3>2, RowsCountPlaced DEF Blank, PollStart
    <3>3. CASE PollFails
      BY <1>1, <2>1, <3>3 DEF Blank, PollFails, NoPoll
    <3>4. CASE ConfigAges
      BY <3>4 DEF Blank, ConfigAges
    <3>. QED BY <1>1, <3>1, <3>2, <3>3, <3>4
  <2>. QED BY <1>1, <2>2, <2>3 DEF Covered
<1>2. ASSUME UNCHANGED <<order, counts, config, poll>>, Slots' = Slots, gate'.step \notin {"decrement", "reserve"},
             gate'.step \in {"free", "gates"} \/ Counted
      PROVE  Covered' /\ Capped'
  <2>1. \A s \in Syms : Held(s)' = Held(s) /\ Placed(s)' = Placed(s)
    BY <1>2, SameHeld
  <2>. QED BY <1>2, <2>1 DEF Covered, Capped, Counted, Blank
<1>3. CASE PollApply
  <2>1. \A s \in Syms : Held(s)' = Held(s)
    BY <1>3, SameHeld DEF PollApply, Slots
  <2>2. Counted'
    <3>1. CASE Counted
      BY <1>0, <1>3, <2>1, <3>1 DEF PollApply, Restored, Counted, Types
    <3>2. CASE Blank
      <4>1. \A s \in Syms : Held(s) = Placed(s)
        BY <3>2 DEF Blank, Held, Slots, Slotted
      <4>. QED BY <1>0, <1>3, <2>1, <3>2, <4>1 DEF PollApply, Restored, Counted, Blank, Types
    <3>. QED BY <3>1, <3>2 DEF Covered
  <2>. QED BY <1>3, <2>1, <2>2 DEF Covered, Capped, PollApply, Types
<1>4. ASSUME NEW q \in Requests, Enter(q) PROVE Covered' /\ Capped'
  <2>1. gate'.step = "gates" /\ Slots' = Slots
    BY <1>4 DEF Enter, Free, Slots, Slotted
  <2>. QED BY <1>2, <1>4, <2>1 DEF Enter
<1>5. CASE Refuse
  <2>1. gate'.step = "free" /\ Slots' = Slots
    BY <1>5 DEF Refuse, Free, Slots, Slotted
  <2>. QED BY <1>2, <1>5, <2>1 DEF Refuse
<1>6. CASE BoundaryRefuses
  <2>1. gate'.step = "rollback" /\ Slots' = Slots /\ gate.step = "boundary"
    BY <1>6 DEF BoundaryRefuses, Types, Slots, Slotted
  <2>. QED BY <1>2, <1>6, <2>1 DEF BoundaryRefuses, Covered, Blank
<1>7. CASE Pass
  <2>1. gate.step = "gates" /\ gate'.step = "reserve" /\ gate'.reqs = gate.reqs
    BY <1>7 DEF Pass, Types
  <2>2. \A s \in Syms : Held(s)' = Held(s)
    BY <1>7, <2>1, SameHeld DEF Pass, Slots, Slotted
  <2>3. Counted /\ Counted'
    BY <1>7, <2>2 DEF Pass, Passes, Covered, Blank, Counted
  <2>4. \A r \in gate.reqs : Cardinality(Held(SymOf[r])) < PerSymbol
    <3>1. PICK q \in gate.reqs : Passes(q)
      BY <1>7 DEF Pass
    <3>2. q \in Requests /\ gate.reqs = {q}
      BY <2>1, <3>1 DEF Types
    <3>. QED BY <1>0, <2>3, <3>1, <3>2, OrdersAssumption DEF Passes, Counted, Types
  <2>. QED BY <2>1, <2>2, <2>3, <2>4 DEF Covered, Capped, Types
<1>8. CASE ReserveSlot
  <2>1. PICK q \in gate.reqs :
          counts' = [counts EXCEPT ![SymOf[q]] = @ + 1]
    BY <1>8 DEF ReserveSlot
  <2>2. /\ gate.step = "reserve" /\ gate'.step = "boundary" /\ order' = order
        /\ q \in Requests /\ gate.reqs = {q} /\ gate'.reqs = {q}
    BY <1>8 DEF ReserveSlot, Types
  <2>3. Held(SymOf[q])' = Held(SymOf[q]) \union {q}
    BY <2>2 DEF Held, Placed, For, Slots, Slotted
  <2>4. \A s \in Syms : s # SymOf[q] => Held(s)' = Held(s)
    BY <2>2 DEF Held, Placed, For, Slots, Slotted
  <2>5. Cardinality(Held(SymOf[q])') \in Nat /\ Cardinality(Held(SymOf[q])') <= Cardinality(Held(SymOf[q])) + 1
    <3>1. Held(SymOf[q]) \in SUBSET Requests
      BY DEF Held, Placed, For
    <3>2. Held(SymOf[q]) \union {q} \in SUBSET Requests
      BY <2>2, <3>1
    <3>. QED BY <2>2, <2>3, <3>1, <3>2, OneMore, Smaller
  <2>6. Counted /\ Cardinality(Held(SymOf[q])) < PerSymbol
    BY <2>2 DEF Capped
  <2>7. Counted'
    BY <1>0, <2>1, <2>2, <2>4, <2>5, <2>6 DEF Counted, Types
  <2>8. \A s \in Syms : Cardinality(Held(s)') <= PerSymbol
    BY <1>0, <2>2, <2>4, <2>5, <2>6, OrdersAssumption DEF Capped
  <2>. QED BY <2>2, <2>7, <2>8 DEF Covered, Capped
<1>9. CASE Rollback
  <2>1. PICK q \in gate.reqs : gate' = [gate EXCEPT !.step = "decrement", !.count = counts[SymOf[q]]]
    BY <1>9 DEF Rollback
  <2>2. gate.step = "rollback" /\ q \in Requests /\ gate.reqs = {q} /\ gate'.reqs = {q}
    BY <1>9, <2>1 DEF Rollback, Types
  <2>3. \A s \in Syms : Held(s)' = Held(s)
    BY <1>9, <2>1, <2>2, SameHeld DEF Rollback, Slots, Slotted, Types
  <2>4. Counted /\ Counted'
    BY <1>9, <2>2, <2>3 DEF Rollback, Covered, Blank, Counted
  <2>5. gate'.step = "decrement" /\ gate'.count = counts[SymOf[q]]
    BY <2>1 DEF Types
  <2>. QED BY <2>2, <2>3, <2>4, <2>5 DEF Covered, Capped, Counted
<1>10. CASE Decrement
  <2>1. PICK q \in gate.reqs :
          counts' = IF gate.count > 0 THEN [counts EXCEPT ![SymOf[q]] = gate.count - 1] ELSE counts
    BY <1>10 DEF Decrement
  <2>2. /\ gate.step = "decrement" /\ gate' = Free /\ order' = order
        /\ q \in Requests /\ gate.reqs = {q} /\ order[q] = "none"
    BY <1>10, <2>1 DEF Decrement, Types, Unsent
  <2>3. q \in Held(SymOf[q]) /\ Held(SymOf[q])' = Held(SymOf[q]) \ {q} /\ Held(SymOf[q]) \in SUBSET Requests
    BY <2>2 DEF Held, Placed, For, Slots, Slotted, Free
  <2>4. \A s \in Syms : s # SymOf[q] => Held(s)' = Held(s)
    BY <2>2 DEF Held, Placed, For, Slots, Slotted, Free
  <2>5. Cardinality(Held(SymOf[q])') = Cardinality(Held(SymOf[q])) - 1
    BY <2>3, OneLess
  <2>6. Counted /\ Cardinality(Held(SymOf[q])) <= gate.count
    BY <2>2 DEF Covered, Blank
  <2>7. Cardinality(Held(SymOf[q])) \in Nat /\ Cardinality(Held(SymOf[q])') \in Nat
    BY <2>3, Smaller
  <2>8. Counted'
    BY <1>0, <2>1, <2>2, <2>4, <2>5, <2>6, <2>7 DEF Counted, Types
  <2>9. \A s \in Syms : Cardinality(Held(s)') <= PerSymbol
    BY <1>0, <2>2, <2>4, <2>5, <2>7, OrdersAssumption DEF Capped
  <2>. QED BY <2>2, <2>8, <2>9 DEF Covered, Capped, Free
<1>11. CASE SdkCall
  <2>1. PICK q \in gate.reqs, step \in {"sent", "unknown"} :
          /\ order' = [order EXCEPT ![q] = "live"] \/ order' = order
          /\ gate' = [gate EXCEPT !.step = step]
    BY <1>11 DEF SdkCall
  <2>2. gate.step = "boundary" /\ gate'.step = step /\ gate'.reqs = gate.reqs /\ UNCHANGED <<counts, config, poll>>
    BY <1>11, <2>1 DEF SdkCall, Types
  <2>3. \A s \in Syms : Held(s)' = Held(s)
    BY <2>1, <2>2 DEF Held, Placed, For, Slots, Slotted, Types
  <2>. QED BY <2>1, <2>2, <2>3 DEF Covered, Capped, Counted, Blank
<1>12. CASE Answer
  <2>1. gate.step \in {"sent", "unknown"} /\ gate' = Free /\ UNCHANGED <<order, counts, config, poll>>
    BY <1>12 DEF Answer
  <2>2. \A s \in Syms : Held(s)' \subseteq Held(s)
    BY <2>1 DEF Held, Placed, For, Slots, Slotted, Free
  <2>3. \A s \in Syms : Cardinality(Held(s)') \in Nat /\ Cardinality(Held(s)') <= Cardinality(Held(s))
    BY <2>2, LessHeld
  <2>4. Counted /\ Counted'
    BY <1>0, <2>1, <2>3 DEF Covered, Counted, Blank, Types
  <2>5. \A s \in Syms : Cardinality(Held(s)') <= PerSymbol
    BY <1>0, <2>3, OrdersAssumption DEF Capped
  <2>. QED BY <2>1, <2>4, <2>5 DEF Covered, Capped, Free
<1>13. ASSUME NEW q \in Requests, OrderEnds(q) PROVE Covered' /\ Capped'
  <2>1. UNCHANGED <<counts, config, poll, gate>>
    BY <1>13 DEF OrderEnds
  <2>2. \A s \in Syms : Held(s)' \subseteq Held(s) /\ Placed(s)' \subseteq Placed(s)
    BY <1>13 DEF OrderEnds, Held, Placed, For, Slots, Types
  <2>3. \A s \in Syms : Cardinality(Held(s)') \in Nat /\ Cardinality(Held(s)') <= Cardinality(Held(s))
    BY <2>2, LessHeld
  <2>4. \A s \in Syms : Cardinality(Placed(s)') \in Nat /\ Cardinality(Placed(s)') <= Cardinality(Placed(s))
    <3>1. \A s \in Syms : Placed(s) \in SUBSET Requests
      BY DEF Placed, For
    <3>. QED BY <2>2, <3>1, Smaller
  <2>5. (Counted => Counted') /\ (Blank => Blank')
    BY <1>0, <2>1, <2>3, <2>4 DEF Counted, Blank, Types
  <2>6. gate.step = "decrement" => \A r \in gate.reqs : Cardinality(Held(SymOf[r])') <= gate.count
    BY <1>0, <2>3 DEF Covered, Types
  <2>7. \A s \in Syms : Cardinality(Held(s)') <= PerSymbol
    BY <1>0, <2>3, OrdersAssumption DEF Capped
  <2>8. gate.step = "reserve" => \A r \in gate.reqs : Cardinality(Held(SymOf[r])') < PerSymbol
    BY <1>0, <2>3, OrdersAssumption DEF Capped, Types
  <2>9. gate.step = "reserve" => Counted'
    BY <2>5 DEF Capped
  <2>10. Covered'
    BY <2>1, <2>5, <2>6 DEF Covered
  <2>. QED BY <2>1, <2>7, <2>8, <2>9, <2>10 DEF Capped
<1>14. CASE Restart
  <2>1. gate' = Free /\ order' = order /\ config' = "stale" /\ poll' = NoPoll
    BY <1>14 DEF Restart
  <2>2. \A s \in Syms : Held(s)' \subseteq Held(s)
    BY <2>1 DEF Held, Placed, For, Slots, Slotted, Free
  <2>3. \A s \in Syms : Cardinality(Held(s)') <= PerSymbol
    BY <1>0, <2>2, LessHeld, OrdersAssumption DEF Capped
  <2>. QED BY <2>1, <2>3 DEF Covered, Capped, Blank, Free, NoPoll
<1>15. ASSUME NEW q \in Requests, Post(q) PROVE Covered' /\ Capped'
  BY <1>1, <1>15 DEF Post
<1>16. CASE PollStart \/ PollFails \/ ConfigAges
  BY <1>1, <1>16 DEF PollStart, PollFails, ConfigAges
<1>17. CASE UNCHANGED ordersVars
  BY <1>1, <1>17 DEF ordersVars
<1>. QED BY <1>3, <1>4, <1>5, <1>6, <1>7, <1>8, <1>9, <1>10, <1>11, <1>12, <1>13, <1>14, <1>15,
            <1>16, <1>17 DEF OrdersNext

-----------------------------------------------------------------------------
(* The day.                                                                *)

\* The day has finitely many symbols.
LEMMA FinitelyManySyms == IsFiniteSet(Syms)
<1> DEFINE f == [r \in Requests |-> SymOf[r]]
<1>1. f \in Surjection(Requests, Syms)
  BY DEF Surjection, Syms
<1> QED BY <1>1, OrdersAssumption, FS_Surjection

\* What is held of all symbols is at most the sum of the counts, when each count
\* covers its symbol: taken symbol by symbol.
LEMMA SumCoversAll ==
  ASSUME Types, Counted
  PROVE  Cardinality(AllHeld) <= DayCount
<1> DEFINE part == [T \in SUBSET Syms |-> {r \in AllHeld : SymOf[r] \in T}]
           Q == {T \in SUBSET Syms : Cardinality(part[T]) <= SumFunctionOnSet(counts, T)}
<1>1. IsFiniteSet(Syms)
  BY FinitelyManySyms
<1>2. \A T \in SUBSET Syms : part[T] \in SUBSET Requests /\ IsFiniteSet(part[T]) /\ IsFiniteSet(T)
  <2>1. AllHeld \subseteq Requests
    BY DEF AllHeld, Slots, Types
  <2> QED BY <1>1, <2>1, OrdersAssumption, FS_Subset
<1>3. ASSUME NEW T \in SUBSET Syms, \A s \in T : T \ {s} \in Q
      PROVE  T \in Q
  <2>1. CASE T = {}
    <3>1. part[T] = {}
      BY <2>1
    <3> QED BY <2>1, <3>1, SumEmpty, FS_EmptySet
  <2>2. CASE T # {}
    <3>1. PICK s \in T : TRUE
      BY <2>2
    <3>2. Cardinality(part[T \ {s}]) <= SumFunctionOnSet(counts, T \ {s})
      BY <1>3, <3>1
    <3>3. part[T] = part[T \ {s}] \union Held(s)
      BY <3>1, SymsOfRequests DEF AllHeld, Held, Placed, For, Slots, Types
    <3>4. /\ Cardinality(part[T]) <= Cardinality(part[T \ {s}]) + Cardinality(Held(s))
          /\ {Cardinality(part[T]), Cardinality(part[T \ {s}]), Cardinality(Held(s))} \subseteq Nat
      <4>1. IsFiniteSet(part[T]) /\ IsFiniteSet(part[T \ {s}]) /\ IsFiniteSet(Held(s))
        BY <1>2, <3>1, FiniteSubsets
      <4> HIDE DEF part
      <4>2. Cardinality(part[T]) = Cardinality(part[T \ {s}]) + Cardinality(Held(s))
                                     - Cardinality(part[T \ {s}] \cap Held(s))
        BY <3>3, <4>1, FS_Union
      <4>3. IsFiniteSet(part[T \ {s}] \cap Held(s))
        BY <4>1, FS_Intersection
      <4> QED BY <4>1, <4>2, <4>3, FS_CardinalityType
    <3>5. Cardinality(Held(s)) <= counts[s] /\ \A x \in Syms : counts[x] \in Int
      BY <3>1 DEF Counted, Types
    <3>6. /\ SumFunctionOnSet(counts, T) = counts[s] + SumFunctionOnSet(counts, T \ {s})
          /\ SumFunctionOnSet(counts, T \ {s}) \in Int
      <4>1. IsFiniteSet(T) /\ IsFiniteSet(T \ {s}) /\ \A x \in T : counts[x] \in Int
        BY <1>2, <3>5
      <4>2. SumFunctionOnSet(counts, T) = counts[s] + SumFunctionOnSet(counts, T \ {s})
        BY <3>1, <4>1, SumRemove
      <4>3. SumFunctionOnSet(counts, T \ {s}) \in Int
        BY <4>1, SumInt
      <4> QED BY <4>2, <4>3
    <3> HIDE DEF part
    <3> QED BY <3>1, <3>2, <3>4, <3>5, <3>6
  <2> QED BY <2>1, <2>2
<1>4. Syms \in Q
  BY <1>1, <1>3, SubsetInduction
<1>5. part[Syms] = AllHeld
  BY SymsOfRequests DEF AllHeld, Slots, Types
<1> QED BY <1>4, <1>5, SumWhole DEF DayCount, Types

\* The gates compare the day's limit with that sum and the slot is taken before the
\* gate is left.
LEMMA DayCappedHolds ==
  ASSUME Types, Unsent, Covered, DayCapped, [OrdersNext]_ordersVars
  PROVE  DayCapped'
<1> USE DEF DayCapped
<1>0. AllHeld \in SUBSET Requests /\ Cardinality(AllHeld) \in Nat
  <2>1. AllHeld \in SUBSET Requests
    BY DEF AllHeld, Slots, Types
  <2> QED BY <2>1, Smaller
<1>1. ASSUME AllHeld' \subseteq AllHeld, gate'.step # "reserve" \/ gate' = gate
      PROVE  DayCapped'
  <2>1. Cardinality(AllHeld') \in Nat /\ Cardinality(AllHeld') <= Cardinality(AllHeld)
    BY <1>0, <1>1, Smaller
  <2> QED BY <1>0, <1>1, <2>1, OrdersAssumption
<1>2. CASE order' = order /\ gate' = gate
  BY <1>1, <1>2 DEF AllHeld, Slots
<1>3. CASE Pass
  <2>1. AllHeld' = AllHeld
    BY <1>3 DEF Pass, AllHeld, Slots, Slotted, Types
  <2>2. Counted /\ DayCount < PerDay
    BY <1>3 DEF Pass, Passes, Covered, Blank
  <2>3. DayCount \in Int
    BY FinitelyManySyms, SumInt, SumWhole DEF DayCount, Types
  <2>4. Cardinality(AllHeld) <= DayCount
    BY <2>2, SumCoversAll
  <2> QED BY <1>0, <2>1, <2>2, <2>3, <2>4, OrdersAssumption
<1>4. CASE ReserveSlot
  <2>1. PICK q \in Requests : gate.reqs = {q}
    BY <1>4 DEF ReserveSlot, Types
  <2>2. gate.step = "reserve" /\ gate'.step = "boundary" /\ gate'.reqs = {q} /\ order' = order
    BY <1>4, <2>1 DEF ReserveSlot, Types
  <2>3. AllHeld' = AllHeld \union {q}
    BY <2>2 DEF AllHeld, Slots, Slotted
  <2>4. Cardinality(AllHeld \union {q}) <= Cardinality(AllHeld) + 1
    BY <1>0, OneMore
  <2>5. Cardinality(AllHeld \union {q}) \in Nat
    BY <1>0, Smaller
  <2> QED BY <1>0, <2>2, <2>3, <2>4, <2>5, OrdersAssumption
<1>5. ASSUME NEW q \in Requests, OrderEnds(q) PROVE DayCapped'
  <2>1. AllHeld' \subseteq AllHeld /\ gate' = gate
    BY <1>5 DEF OrderEnds, AllHeld, Slots, Types
  <2> QED BY <1>1, <2>1
<1>6. CASE SdkCall
  <2>1. PICK q \in gate.reqs, step \in {"sent", "unknown"} :
          /\ order' = [order EXCEPT ![q] = "live"] \/ order' = order
          /\ gate' = [gate EXCEPT !.step = step]
    BY <1>6 DEF SdkCall
  <2>2. gate.step = "boundary" /\ gate'.step = step /\ gate'.reqs = gate.reqs
    BY <1>6, <2>1 DEF SdkCall, Types
  <2>3. AllHeld' \subseteq AllHeld
    BY <2>1, <2>2 DEF AllHeld, Slots, Slotted, Types
  <2> QED BY <1>1, <2>2, <2>3
<1>7. CASE Refuse \/ Decrement \/ Answer \/ Restart
  <2>1. gate' = Free /\ order' = order
    BY <1>7 DEF Refuse, Decrement, Answer, Restart
  <2> QED BY <1>1, <2>1 DEF AllHeld, Slots, Slotted, Free
<1>8. CASE BoundaryRefuses \/ Rollback
  <2>1. /\ gate'.step \in {"rollback", "decrement"} /\ gate.step \in Slotted
        /\ gate'.reqs = gate.reqs /\ order' = order
    BY <1>8 DEF BoundaryRefuses, Rollback, Types, Slotted
  <2> QED BY <1>1, <2>1 DEF AllHeld, Slots
<1>9. ASSUME NEW q \in Requests, Enter(q) PROVE DayCapped'
  <2>1. gate'.step = "gates" /\ order' = order
    BY <1>9 DEF Enter, Free
  <2> QED BY <1>1, <2>1 DEF AllHeld, Slots, Slotted
<1>10. ASSUME NEW q \in Requests, Post(q) PROVE DayCapped'
  BY <1>2, <1>10 DEF Post
<1>11. CASE PollStart \/ PollApply \/ PollFails \/ ConfigAges \/ UNCHANGED ordersVars
  BY <1>2, <1>11 DEF PollStart, PollApply, PollFails, ConfigAges, ordersVars
<1> QED BY <1>3, <1>4, <1>5, <1>6, <1>7, <1>8, <1>9, <1>10, <1>11 DEF OrdersNext

-----------------------------------------------------------------------------
(* The keys.                                                               *)

\* Every step keeps a pending key that of a request being sent, working or of unknown fate.
LEMMA KeysHold ==
  ASSUME Types, Unsent, Keys, [OrdersNext]_ordersVars
  PROVE  Keys'
<1>. USE DEF Keys, Types, Unsent
<1>1. ASSUME NEW r \in Requests, Post(r) PROVE Keys'
  BY <1>1 DEF Post
<1>2. ASSUME NEW r \in Requests, Enter(r) PROVE Keys'
  BY <1>2 DEF Enter, Free
<1>3. ASSUME NEW r \in Requests, OrderEnds(r) PROVE Keys'
  BY <1>3 DEF OrderEnds, KeyFreed
<1>4. CASE PollStart \/ PollApply \/ PollFails \/ ConfigAges
  BY <1>4 DEF PollStart, PollApply, PollFails, ConfigAges
<1>5. CASE Refuse
  BY <1>5 DEF Refuse, Answered, Free
<1>6. CASE Pass
  BY <1>6 DEF Pass
<1>7. CASE ReserveSlot
  BY <1>7 DEF ReserveSlot
<1>8. CASE BoundaryRefuses
  BY <1>8 DEF BoundaryRefuses
<1>9. CASE Rollback
  BY <1>9 DEF Rollback, KeyFreed
<1>10. CASE Decrement
  BY <1>10 DEF Decrement, Answered, Free
<1>11. CASE SdkCall
  BY <1>11 DEF SdkCall
<1>12. CASE Answer
  BY <1>12 DEF Answer, Answered, Free
<1>13. CASE Restart
  BY <1>13 DEF Restart
<1>14. CASE UNCHANGED ordersVars
  BY <1>14 DEF ordersVars
<1>. QED BY <1>1, <1>2, <1>3, <1>4, <1>5, <1>6, <1>7, <1>8, <1>9, <1>10, <1>11, <1>12, <1>13,
            <1>14 DEF OrdersNext

-----------------------------------------------------------------------------
(* The theorems.                                                           *)

\* The strengthened invariant holds at the start.
LEMMA InitIInv == OrdersInit => IInv
<1>. SUFFICES ASSUME OrdersInit PROVE IInv
  OBVIOUS
<1>1. Types /\ Unsent /\ Keys
  BY DEF OrdersInit, Types, Unsent, Keys, Zero, NoPoll, Free, Steps, Rows, Orders
<1>2. \A s \in Syms : Held(s) = {}
  BY DEF OrdersInit, Held, Placed, For, Slots, Slotted, Free
<1>3. Covered
  BY DEF OrdersInit, Covered, Blank, Free, NoPoll
<1>4. Capped
  BY <1>2, FS_EmptySet, OrdersAssumption DEF OrdersInit, Capped, Free
<1>5. DayCapped
  <2>1. AllHeld = {}
    BY DEF OrdersInit, AllHeld, Slots, Slotted, Free
  <2> QED BY <2>1, FS_EmptySet, OrdersAssumption DEF OrdersInit, DayCapped, Free
<1>. QED BY <1>1, <1>3, <1>4, <1>5 DEF IInv

\* Every step keeps the strengthened invariant.
LEMMA NextIInv == IInv /\ [OrdersNext]_ordersVars => IInv'
BY TypesHold, UnsentHolds, CoveredHolds, DayCappedHolds, KeysHold DEF IInv

\* The counters, the keys and the caps hold together in every reachable state of the gateway.
THEOREM Invariant == OrdersSpec => []IInv
BY InitIInv, NextIInv, PTL DEF OrdersSpec

\* A symbol never has more orders at the exchange than its limit: whatever restarts
\* the terminal makes, however old the rows of a poll are, wherever it is applied.
THEOREM SymbolCapHolds == OrdersSpec => []SymbolCap
<1>1. IInv => SymbolCap
  <2>. SUFFICES ASSUME IInv, NEW s \in Syms PROVE Cardinality(Placed(s)) <= PerSymbol
    BY DEF SymbolCap
  <2>. QED BY FiniteSubsets, OrdersAssumption DEF IInv, Capped
<1>. QED BY <1>1, Invariant, PTL

\* The day never has more orders at the exchange than its limit, which is compared
\* with a sum over counts that a poll restores one by one.
THEOREM DayCapHolds == OrdersSpec => []DayCap
<1>1. IInv => DayCap
  <2>. SUFFICES ASSUME IInv PROVE Cardinality(UNION {Placed(s) : s \in Syms}) <= PerDay
    BY DEF DayCap
  <2>1. UNION {Placed(s) : s \in Syms} \subseteq AllHeld /\ AllHeld \in SUBSET Requests
    BY DEF Placed, For, AllHeld, Slots, IInv, Types
  <2>2. /\ Cardinality(UNION {Placed(s) : s \in Syms}) <= Cardinality(AllHeld)
        /\ Cardinality(UNION {Placed(s) : s \in Syms}) \in Nat /\ Cardinality(AllHeld) \in Nat
    BY <2>1, Smaller
  <2>. QED BY <2>2, OrdersAssumption DEF IInv, DayCapped
<1>. QED BY <1>1, Invariant, PTL

\* A key is held by a request under way, a live order or an unknown send: none is lost
\* to a refusal, a rollback or an answer that comes after the order's end.
THEOREM NoStuckKeyHolds == OrdersSpec => []NoStuckKey
<1>1. IInv => NoStuckKey
  BY DEF IInv, Keys, NoStuckKey
<1>. QED BY <1>1, Invariant, PTL

\* Both limits hold in every state.
THEOREM CapsAreKept == OrdersSpec => []CapsHold
BY SymbolCapHolds, DayCapHolds, PTL DEF CapsHold

-----------------------------------------------------------------------------
(* The types: what the counts can reach.                                   *)

\* The requests that came past the reservation of a slot, or whose handler died before it.
PastSlot ==
  {r \in Requests : row[r] # "none" /\ r \notin queue /\ ~(gate.step \in {"gates", "reserve"} /\ r \in gate.reqs)}
Most(s) == Cardinality(For(s)) + Cardinality(PastSlot \intersect For(s))

\* A request is in a count by a row a poll read and by a slot of its own.
CountedTwice ==
  /\ \A s \in Syms : counts[s] <= Most(s) /\ poll.counts[s] <= Cardinality(For(s))
  /\ gate.step = "decrement" => \A r \in gate.reqs : gate.count <= Most(SymOf[r])

\* The bound of a count is a natural, between once and twice the requests of its symbol.
LEMMA MostIsBounded ==
  ASSUME NEW s \in Syms
  PROVE  /\ Cardinality(For(s)) \in Nat /\ Most(s) \in Nat
         /\ Cardinality(For(s)) <= Most(s) /\ Most(s) <= 2 * Cardinality(For(s))
<1>1. For(s) \in SUBSET Requests /\ PastSlot \intersect For(s) \in SUBSET For(s)
  BY DEF For
<1>2. /\ Cardinality(For(s)) \in Nat /\ Cardinality(PastSlot \intersect For(s)) \in Nat
      /\ Cardinality(PastSlot \intersect For(s)) <= Cardinality(For(s))
  BY <1>1, Smaller
<1>. QED BY <1>2 DEF Most

\* The bound grows with the requests that came past the reservation.
LEMMA MostGrows ==
  ASSUME PastSlot \subseteq PastSlot'
  PROVE  \A s \in Syms : Most(s) <= Most(s)' /\ Most(s)' \in Nat /\ For(s)' = For(s)
<1>. SUFFICES ASSUME NEW s \in Syms PROVE Most(s) <= Most(s)' /\ Most(s)' \in Nat /\ For(s)' = For(s)
  OBVIOUS
<1>1. /\ PastSlot' \intersect For(s) \in SUBSET Requests
      /\ PastSlot \intersect For(s) \in SUBSET (PastSlot' \intersect For(s))
  BY DEF For
<1>2. /\ Cardinality(PastSlot' \intersect For(s)) \in Nat
      /\ Cardinality(PastSlot \intersect For(s)) \in Nat
      /\ Cardinality(PastSlot \intersect For(s)) <= Cardinality(PastSlot' \intersect For(s))
  BY <1>1, Smaller
<1>3. For(s)' = For(s) /\ Cardinality(For(s)) \in Nat
  BY MostIsBounded DEF For
<1>. QED BY <1>2, <1>3 DEF Most

\* Every step keeps the bound.
LEMMA CountedTwiceHolds ==
  ASSUME Types, Unsent, CountedTwice, [OrdersNext]_ordersVars
  PROVE  CountedTwice'
<1>0. \A r \in Requests : SymOf[r] \in Syms
  BY SymsOfRequests
<1>1. \A s \in Syms : /\ counts[s] \in Nat /\ poll.counts[s] \in Nat
                      /\ Cardinality(For(s)) \in Nat /\ Most(s) \in Nat /\ Cardinality(For(s)) <= Most(s)
  BY MostIsBounded DEF Types
<1>2. CASE PastSlot \subseteq PastSlot' /\ ~ReserveSlot
  <2>0. \A s \in Syms : Most(s) <= Most(s)' /\ Most(s)' \in Nat /\ For(s)' = For(s)
    BY <1>2, MostGrows
  <2>1. CASE UNCHANGED <<counts, poll>> /\ (gate'.step = "decrement" => UNCHANGED gate)
    BY <1>0, <1>1, <2>0, <2>1 DEF CountedTwice, Types
  <2>2. CASE PollStart
    <3>1. \A s \in Syms : RowCounts[s] <= Cardinality(For(s))
      <4>. SUFFICES ASSUME NEW s \in Syms PROVE RowCounts[s] <= Cardinality(For(s))
        OBVIOUS
      <4>1. For(s) \in SUBSET Requests /\ {r \in For(s) : row[r] \notin {"none", "REJECTED"}} \in SUBSET For(s)
        BY DEF For
      <4>. QED BY <4>1, Smaller DEF RowCounts
    <3>. QED BY <1>0, <1>1, <2>0, <2>2, <3>1 DEF CountedTwice, PollStart, Types
  <2>3. CASE PollApply
    BY <1>0, <1>1, <2>0, <2>3 DEF CountedTwice, PollApply, Restored, NoPoll, Zero, Types
  <2>4. CASE PollFails \/ Restart
    BY <1>0, <1>1, <2>0, <2>4 DEF CountedTwice, PollFails, Restart, NoPoll, Zero, Free, Types
  <2>5. CASE Rollback
    BY <1>0, <1>1, <2>0, <2>5 DEF CountedTwice, Rollback, Types
  <2>6. CASE Decrement
    BY <1>0, <1>1, <2>0, <2>6 DEF CountedTwice, Decrement, Free, Types
  <2>7. CASE UNCHANGED ordersVars \/ ConfigAges \/ Refuse \/ Pass \/ BoundaryRefuses \/ SdkCall \/ Answer
    <3>1. UNCHANGED <<counts, poll>> /\ (gate'.step = "decrement" => UNCHANGED gate)
      BY <2>7 DEF ordersVars, ConfigAges, Refuse, Pass, BoundaryRefuses, SdkCall, Answer, Free, Types
    <3>. QED BY <2>1, <3>1
  <2>8. ASSUME NEW r \in Requests, Post(r) \/ Enter(r) \/ OrderEnds(r)
        PROVE  UNCHANGED <<counts, poll>> /\ (gate'.step = "decrement" => UNCHANGED gate)
    BY <2>8 DEF Post, Enter, OrderEnds, Free
  <2>. QED BY <1>2, <2>1, <2>2, <2>3, <2>4, <2>5, <2>6, <2>7, <2>8 DEF OrdersNext
<1>3. CASE ReserveSlot
  <2>1. PICK r \in Requests : gate.reqs = {r} /\ counts' = [counts EXCEPT ![SymOf[r]] = @ + 1]
    BY <1>3 DEF ReserveSlot, Types
  <2>2. r \in For(SymOf[r]) /\ r \notin PastSlot /\ PastSlot' = PastSlot \union {r}
    BY <1>3, <2>1 DEF ReserveSlot, PastSlot, Unsent, For, Types
  <2>3. /\ Most(SymOf[r])' = Most(SymOf[r]) + 1
        /\ \A s \in Syms : Most(s) <= Most(s)' /\ Most(s)' \in Nat /\ For(s)' = For(s)
    <3>1. \A s \in Syms : Most(s) <= Most(s)' /\ Most(s)' \in Nat /\ For(s)' = For(s)
      BY <2>2, MostGrows
    <3> DEFINE A == PastSlot \intersect For(SymOf[r])
               B == PastSlot' \intersect For(SymOf[r])
    <3>2. B \in SUBSET Requests /\ r \in B /\ B \ {r} = A
      BY <2>2 DEF For
    <3>3. Cardinality(A) = Cardinality(B) - 1 /\ Cardinality(A) \in Nat /\ Cardinality(B) \in Nat
      <4>1. B \ {r} \in SUBSET B
        OBVIOUS
      <4>. HIDE DEF A, B
      <4>. QED BY <3>2, <4>1, OneLess, Smaller
    <3>4. Most(SymOf[r]) = Cardinality(For(SymOf[r])) + Cardinality(A)
          /\ Most(SymOf[r])' = Cardinality(For(SymOf[r])) + Cardinality(B)
      BY DEF Most, For
    <3>. HIDE DEF A, B
    <3>. QED BY <1>0, <1>1, <3>1, <3>3, <3>4
  <2>. QED BY <1>0, <1>1, <1>3, <2>1, <2>3 DEF CountedTwice, ReserveSlot, Types
<1>4. PastSlot \subseteq PastSlot' \/ ReserveSlot
  <2>. SUFFICES ASSUME NEW q \in PastSlot, ~ReserveSlot PROVE q \in PastSlot'
    OBVIOUS
  <2>1. q \in Requests /\ row[q] # "none" /\ q \notin queue
        /\ (gate.step \in {"gates", "reserve"} => q \notin gate.reqs)
    BY DEF PastSlot
  <2>2. CASE PollStart \/ PollApply \/ PollFails \/ ConfigAges \/ UNCHANGED ordersVars
    BY <2>1, <2>2 DEF PollStart, PollApply, PollFails, ConfigAges, ordersVars, PastSlot
  <2>3. CASE Refuse \/ Decrement \/ Answer \/ Restart
    BY <2>1, <2>3 DEF Refuse, Decrement, Answer, Answered, Restart, Free, PastSlot, Types
  <2>4. CASE Pass \/ BoundaryRefuses \/ Rollback \/ SdkCall
    <3>1. UNCHANGED <<row, queue>> /\ gate'.reqs = gate.reqs
          /\ (gate'.step \in {"gates", "reserve"} => gate.step \in {"gates", "reserve"})
      <4>1. CASE SdkCall
        <5>1. PICK step \in {"sent", "unknown"} : gate' = [gate EXCEPT !.step = step]
          BY <4>1 DEF SdkCall
        <5>. QED BY <4>1, <5>1 DEF SdkCall, Types
      <4>2. CASE Rollback
        <5>1. PICK r \in Requests : gate.reqs = {r}
          BY <4>2 DEF Rollback, Types
        <5>2. gate' = [gate EXCEPT !.step = "decrement", !.count = counts[SymOf[r]]]
          BY <4>2, <5>1 DEF Rollback
        <5>. QED BY <4>2, <5>2 DEF Rollback, Types
      <4>. QED BY <2>4, <4>1, <4>2 DEF Pass, BoundaryRefuses, Types
    <3>. QED BY <2>1, <3>1 DEF PastSlot
  <2>5. ASSUME NEW r \in Requests, Post(r) PROVE q \in PastSlot'
    BY <2>1, <2>5 DEF Post, PastSlot, Types
  <2>6. ASSUME NEW r \in Requests, Enter(r) PROVE q \in PastSlot'
    BY <2>1, <2>6 DEF Enter, Free, PastSlot, Types
  <2>7. ASSUME NEW r \in Requests, OrderEnds(r) PROVE q \in PastSlot'
    BY <2>1, <2>7 DEF OrderEnds, PastSlot, Types
  <2>. QED BY <2>2, <2>3, <2>4, <2>5, <2>6, <2>7 DEF OrdersNext
<1>. QED BY <1>2, <1>3, <1>4

\* Every variable has its type, and no count exceeds twice the requests of its symbol:
\* what a poll restores is not added to what was counted, whenever the poll was read.
THEOREM OrdersTyped == OrdersSpec => []OrdersTypeOK
<1> DEFINE Known == config \in {"fresh", "stale"} /\ (gate.step = "free" => gate = Free)
<1>1. OrdersInit => IInv /\ CountedTwice /\ Known
  <2>. SUFFICES ASSUME OrdersInit PROVE CountedTwice /\ Known
    BY InitIInv
  <2>. QED BY MostIsBounded DEF OrdersInit, CountedTwice, Zero, NoPoll, Free
<1>2. IInv /\ CountedTwice /\ Known /\ [OrdersNext]_ordersVars => (IInv /\ CountedTwice /\ Known)'
  <2>. SUFFICES ASSUME IInv, CountedTwice, Known, [OrdersNext]_ordersVars
                PROVE  (IInv /\ CountedTwice /\ Known)'
    OBVIOUS
  <2>1. IInv' /\ CountedTwice'
    BY NextIInv, CountedTwiceHolds DEF IInv
  <2>2. CASE UNCHANGED <<config, gate>>
    BY <2>1, <2>2
  <2>3. CASE PollStart \/ PollApply \/ PollFails \/ ConfigAges \/ Restart
    BY <2>1, <2>3 DEF PollStart, PollApply, PollFails, ConfigAges, Restart, Free
  <2>4. CASE Refuse \/ Decrement \/ Answer
    BY <2>1, <2>4 DEF Refuse, Decrement, Answer, Free
  <2>5. CASE Pass \/ ReserveSlot \/ BoundaryRefuses \/ Rollback \/ SdkCall
    <3>1. UNCHANGED config /\ gate'.step # "free"
      <4>1. CASE SdkCall
        <5>1. PICK step \in {"sent", "unknown"} : gate' = [gate EXCEPT !.step = step]
          BY <4>1 DEF SdkCall
        <5>. QED BY <4>1, <5>1 DEF SdkCall, IInv, Types
      <4>2. CASE Rollback
        <5>1. PICK r \in Requests : gate.reqs = {r}
          BY <4>2 DEF Rollback, IInv, Types
        <5>2. gate' = [gate EXCEPT !.step = "decrement", !.count = counts[SymOf[r]]]
          BY <4>2, <5>1 DEF Rollback
        <5>. QED BY <4>2, <5>2 DEF Rollback, IInv, Types
      <4>. QED BY <2>5, <4>1, <4>2 DEF Pass, ReserveSlot, BoundaryRefuses, IInv, Types
    <3>. QED BY <2>1, <3>1
  <2>6. ASSUME NEW r \in Requests, Post(r) \/ Enter(r) \/ OrderEnds(r)
        PROVE  (IInv /\ CountedTwice /\ Known)'
    BY <2>1, <2>6 DEF Post, Enter, OrderEnds, Free
  <2>. QED BY <2>2, <2>3, <2>4, <2>5, <2>6 DEF OrdersNext, ordersVars
<1>3. IInv /\ CountedTwice /\ Known => OrdersTypeOK
  <2>. SUFFICES ASSUME IInv, CountedTwice, Known PROVE OrdersTypeOK
    OBVIOUS
  <2>1. Types
    BY DEF IInv
  <2>2. \A s \in Syms : counts[s] \in 0 .. 2 * Cardinality(For(s)) /\ poll.counts[s] \in 0 .. Cardinality(For(s))
    BY <2>1, MostIsBounded DEF CountedTwice, Types
  <2>3. gate.step # "free" => gate.step \in Steps \ {"free"} /\ (\E r \in Requests : gate.reqs = {r}) /\ gate.count \in Nat
    BY <2>1 DEF Types
  <2>. QED BY <2>1, <2>2, <2>3 DEF OrdersTypeOK, Types, Rows, Orders, Steps
<1>. QED BY <1>1, <1>2, <1>3, PTL DEF OrdersSpec

-----------------------------------------------------------------------------
(* The account an order reaches.                                           *)

-----------------------------------------------------------------------------
(* What the helpers return has its type.                                   *)

\* An account and a start of the gateway make a session.
LEMMA SessionOfAccount ==
  ASSUME active \in Accounts, epoch \in 0..MaxGwStarts
  PROVE  <<active, epoch>> \in Sessions
BY DEF Sessions

\* A session names an account or none.
LEMMA SessionNamesAccount ==
  ASSUME NEW s \in Sessions
  PROVE  s[1] \in AnyAcc
BY DEF Sessions, NoSession, AnyAcc

\* The records the system starts with are of their types.
LEMMA Initials ==
  /\ NoSession \in Sessions /\ FreshGw \in GwType /\ NoFetch \in FetchType
  /\ NoArm \in ArmType /\ NoWire \in WireType
  /\ [step |-> "idle", session |-> NoSession] \in ScanType
<1>1. NoSession \in Sessions
  BY DEF Sessions
<1>2. FreshGw \in GwType
  BY DEF FreshGw, GwType, AnyAcc
<1>3. NoFetch \in FetchType
  BY DEF NoFetch, FetchType, AnyAcc
<1>4. NoArm \in ArmType
  BY <1>1 DEF NoArm, ArmType
<1>5. NoWire \in WireType
  BY <1>1 DEF NoWire, WireType
<1>6. [step |-> "idle", session |-> NoSession] \in ScanType
  BY <1>1 DEF ScanType
<1>. QED BY <1>1, <1>2, <1>3, <1>4, <1>5, <1>6

\* A verification that succeeds names the live account, one that fails none
\* anew; either keeps the copy of the arming.
LEMMA VerificationType ==
  ASSUME active \in Accounts, gw \in GwType, NEW g \in {Verified(gw), Unverified(gw)}
  PROVE  /\ g \in GwType
         /\ g.fresh => g.ref = active
         /\ g.armedRef = gw.armedRef
<1>1. CASE g = Verified(gw)
  BY <1>1 DEF Verified, GwType, AnyAcc
<1>2. CASE g = Unverified(gw)
  BY <1>2 DEF Unverified, GwType, AnyAcc
<1>. QED BY <1>1, <1>2

-----------------------------------------------------------------------------
(* Type correctness.                                                       *)

\* A verification that succeeded names an account.
FreshNamesAccount == gw.fresh => gw.ref \in Accounts
TypeInv == TypeOK /\ FreshNamesAccount

\* The types hold at the start.
LEMMA TypeInvInit == Init => TypeInv
<1>. SUFFICES ASSUME Init PROVE TypeInv
  OBVIOUS
<1>1. FreshNamesAccount
  BY DEF Init, FreshGw, FreshNamesAccount
<1>2. db \in DbType
  BY Initials DEF Init, DbType, AnyAcc
<1>. QED
  BY <1>1, <1>2, Initials, ConstantsAssumption DEF Init, TypeInv, TypeOK, Disarmers

\* Every step keeps the types.
LEMMA TypeInvStep == TypeInv /\ [Next]_vars => TypeInv'
<1>. SUFFICES ASSUME TypeInv, [Next]_vars PROVE TypeInv'
  OBVIOUS
<1>. USE Initials, ConstantsAssumption DEF TypeInv, TypeOK, FreshNamesAccount, bounds, server
<1>1. CASE Login
  <2>1. wire' \in WireType
    BY <1>1 DEF Login, WireType
  <2>. QED BY <1>1, <2>1 DEF Login
<1>2. CASE Verify
  BY <1>2, VerificationType DEF Verify
<1>3. CASE VerifyFails
  BY <1>3, VerificationType DEF VerifyFails
<1>4. CASE LoadPositions
  <2>1. gw' \in GwType /\ gw'.ref = active
    BY <1>4 DEF LoadPositions, Verified, GwType, AnyAcc
  <2>. QED BY <1>4, <2>1 DEF LoadPositions
<1>5. CASE GwRestart
  <2>1. FreshNamesAccount'
    BY <1>5 DEF GwRestart, FreshGw
  <2>. QED BY <1>5, <2>1 DEF GwRestart
<1>6. CASE FetchStart
  <2>1. PICK g \in {Verified(gw), Unverified(gw)} :
          /\ gw' = g
          /\ fetch' = [NoFetch EXCEPT !.step = "sent", !.ref = g.ref]
    BY <1>6 DEF FetchStart
  <2>2. g \in GwType /\ FreshNamesAccount'
    BY <2>1, VerificationType
  <2>3. fetch' \in FetchType
    BY <2>1, <2>2 DEF NoFetch, FetchType, GwType, AnyAcc
  <2>. QED BY <1>6, <2>1, <2>2, <2>3 DEF FetchStart
<1>7. CASE FetchAnswer
  <2>1. fetch' \in FetchType
    BY <1>7 DEF FetchAnswer, FetchType, DbType
  <2>. QED BY <1>7, <2>1 DEF FetchAnswer
<1>8. CASE FetchApply
  <2>1. gw' \in GwType /\ gw'.ref = gw.ref
    BY <1>8 DEF FetchApply, GwType, FetchType
  <2>2. FreshNamesAccount'
    BY <1>8, <2>1 DEF FetchApply, AnyAcc, GwType
  <2>. QED BY <1>8, <2>1, <2>2 DEF FetchApply
<1>9. CASE FetchFail
  BY <1>9 DEF FetchFail
<1>10. CASE GatePass
  <2>1. wire' \in WireType
    BY <1>10 DEF GatePass, WireType
  <2>. QED BY <1>10, <2>1 DEF GatePass
<1>11. CASE FinalCheck
  <2>1. PICK g \in {Verified(gw), Unverified(gw)} :
          /\ gw' = g
          /\ wire' = IF SameAccount(g, wire.session)
                     THEN [wire EXCEPT !.step = "checked"] ELSE NoWire
    BY <1>11 DEF FinalCheck
  <2>2. gw' \in GwType /\ FreshNamesAccount'
    BY <2>1, VerificationType
  <2>3. [wire EXCEPT !.step = "checked"] \in WireType
    BY DEF WireType
  <2>. QED BY <1>11, <2>1, <2>2, <2>3 DEF FinalCheck
<1>12. CASE SdkSend
  <2>1. <<active, epoch>> \in Sessions
    BY SessionOfAccount
  <2>2. wire' \in WireType
    BY <1>12, <2>1 DEF SdkSend, WireType
  <2>. QED BY <1>12, <2>2 DEF SdkSend
<1>13. CASE GateRefuse
  BY <1>13 DEF GateRefuse
<1>14. CASE ArmRead
  <2>1. arm' \in ArmType
    BY <1>14, SessionOfAccount DEF ArmRead, ArmType
  <2>. QED BY <1>14, <2>1 DEF ArmRead
<1>15. CASE ArmWrite
  <2>1. arm.session[1] \in AnyAcc
    BY SessionNamesAccount DEF ArmType
  <2>2. db' \in DbType
    BY <1>15, <2>1 DEF ArmWrite, DbType, ArmType
  <2>3. arm' \in ArmType
    BY <1>15 DEF ArmWrite, ArmType
  <2>. QED BY <1>15, <2>2, <2>3 DEF ArmWrite
<1>16. CASE AdminDisarm
  <2>1. disarm' \in [Disarmers -> {"idle", "armed", "ref", "session"}]
    BY <1>16 DEF AdminDisarm
  <2>2. requests' \in 0..MaxArms
    BY <1>16 DEF AdminDisarm
  <2>. QED BY <1>16, <2>1, <2>2 DEF AdminDisarm
<1>17. ASSUME NEW d \in Disarmers, DisarmWrite(d)
       PROVE  TypeInv'
  <2>1. db' \in DbType
    BY <1>17 DEF DisarmWrite, DbType, AnyAcc
  <2>2. disarm' \in [Disarmers -> {"idle", "armed", "ref", "session"}]
    BY <1>17 DEF DisarmWrite
  <2>. QED BY <1>17, <2>1, <2>2 DEF DisarmWrite
<1>18. CASE ServerRestart
  BY <1>18 DEF ServerRestart
<1>19. CASE ReadHealth
  <2>1. <<gw.ref, epoch>> \in Sessions
    BY <1>19 DEF ReadHealth, Sessions
  <2>2. scan' \in ScanType
    BY <1>19, <2>1 DEF ReadHealth, ScanType
  <2>. QED BY <1>19, <2>2 DEF ReadHealth
<1>20. CASE Watch
  <2>1. scan' \in ScanType /\ seen' \in Sessions
    BY <1>20 DEF Watch, ScanType
  <2>2. disarm' \in [Disarmers -> {"idle", "armed", "ref", "session"}]
    BY <1>20 DEF Watch
  <2>. QED BY <1>20, <2>1, <2>2 DEF Watch
<1>21. CASE EndTick
  BY <1>21 DEF EndTick
<1>22. CASE Dispatch
  <2>1. wire' \in WireType
    BY <1>22 DEF Dispatch, NoWire, WireType, ScanType
  <2>. QED BY <1>22, <2>1 DEF Dispatch
<1>23. CASE UNCHANGED vars
  BY <1>23 DEF vars
<1>. QED
  BY <1>1, <1>2, <1>3, <1>4, <1>5, <1>6, <1>7, <1>8, <1>9, <1>10, <1>11, <1>12, <1>13, <1>14,
     <1>15, <1>16, <1>17, <1>18, <1>19, <1>20, <1>21, <1>22, <1>23 DEF Next

\* The arming rows, the requests that write them and the gateway's copies keep
\* their types for every set of accounts.
THEOREM TypeCorrect == Spec => []TypeOK
<1>1. TypeInv => TypeOK
  BY DEF TypeInv
<1>. QED BY <1>1, TypeInvInit, TypeInvStep, PTL DEF Spec

-----------------------------------------------------------------------------
(* The session an order reaches.                                           *)

\* A gate was passed for an account, and the last comparison found the live
\* session: a failed verification cannot, since it leaves no snapshot.
Passed   == {"gated", "checked", "sent"}
Compared ==
  /\ wire.step \in Passed => wire.session[1] \in Accounts
  /\ wire.step = "checked" /\ ~wire.raced => wire.session = <<active, epoch>>
RouteInv == TypeInv /\ Compared /\ SentToItsSession

\* Every step keeps what each party knows of the session it works for.
LEMMA RouteInvStep == RouteInv /\ TypeInv' /\ [Next]_vars => RouteInv'
<1>. SUFFICES ASSUME RouteInv, TypeInv', [Next]_vars PROVE Compared' /\ SentToItsSession'
  BY DEF RouteInv
<1>. USE DEF RouteInv, Compared, SentToItsSession, Passed, server
<1>1. CASE Login
  <2>1. wire \in WireType
    BY DEF TypeInv, TypeOK
  <2>2. /\ wire'.step = wire.step /\ wire'.session = wire.session /\ wire'.now = wire.now
        /\ wire'.raced = (wire.raced \/ wire.step = "checked")
    BY <1>1, <2>1 DEF Login, WireType
  <2>. QED BY <1>1, <2>2 DEF Login
<1>2. CASE GatePass
  <2>1. wire \in WireType
    BY DEF TypeInv, TypeOK
  <2>2. wire'.step = "gated" /\ wire'.session = wire.session
    BY <1>2, <2>1 DEF GatePass, WireType
  <2>3. wire.session[1] \in Accounts
    BY <1>2 DEF GatePass, Gates, TypeInv, FreshNamesAccount
  <2>. QED BY <1>2, <2>2, <2>3 DEF GatePass
<1>3. CASE FinalCheck
  <2>1. wire \in WireType /\ wire.session[1] \in Accounts /\ NoAcc \notin Accounts
    BY <1>3, ConstantsAssumption DEF FinalCheck, TypeInv, TypeOK
  <2>2. PICK g \in {Verified(gw), Unverified(gw)} :
          wire' = IF SameAccount(g, wire.session)
                  THEN [wire EXCEPT !.step = "checked"] ELSE NoWire
    BY <1>3 DEF FinalCheck
  <2>3. CASE SameAccount(g, wire.session)
    <3>1. /\ wire'.step = "checked" /\ wire'.session = wire.session
      BY <2>1, <2>2, <2>3 DEF WireType
    <3>2. gw \in GwType
      BY DEF TypeInv, TypeOK
    <3>3. g.ref = active
      <4>1. CASE g = Verified(gw)
        BY <3>2, <4>1 DEF Verified, GwType
      <4>2. CASE g = Unverified(gw)
        BY <2>1, <2>3, <3>2, <4>2 DEF Unverified, GwType, SameAccount
      <4>. QED BY <4>1, <4>2
    <3>. QED BY <1>3, <2>1, <2>3, <3>1, <3>3 DEF FinalCheck, SameAccount
  <2>4. CASE ~SameAccount(g, wire.session)
    BY <1>3, <2>2, <2>4 DEF FinalCheck, NoWire
  <2>. QED BY <2>3, <2>4
<1>4. CASE SdkSend
  <2>1. wire \in WireType
    BY DEF TypeInv, TypeOK
  <2>2. /\ wire'.step = "sent" /\ wire'.session = wire.session
        /\ wire'.now = <<active, epoch>> /\ wire'.raced = wire.raced
    BY <1>4, <2>1 DEF SdkSend, WireType
  <2>. QED BY <1>4, <2>2 DEF SdkSend
<1>5. CASE GateRefuse \/ GwRestart
  BY <1>5 DEF GateRefuse, GwRestart, NoWire
<1>6. CASE Dispatch
  BY <1>6 DEF Dispatch, NoWire
<1>7. CASE Verify \/ VerifyFails \/ LoadPositions \/ FetchStart \/ FetchAnswer \/ FetchApply
           \/ FetchFail
  BY <1>7 DEF Verify, VerifyFails, LoadPositions, FetchStart, FetchAnswer, FetchApply, FetchFail
<1>8. CASE ArmRead \/ ArmWrite \/ AdminDisarm \/ \E d \in Disarmers : DisarmWrite(d)
  BY <1>8 DEF ArmRead, ArmWrite, AdminDisarm, DisarmWrite
<1>9. CASE ServerRestart \/ ReadHealth \/ Watch \/ EndTick
  BY <1>9 DEF ServerRestart, ReadHealth, Watch, EndTick
<1>10. CASE UNCHANGED vars
  BY <1>10 DEF vars
<1>. QED
  BY <1>1, <1>2, <1>3, <1>4, <1>5, <1>6, <1>7, <1>8, <1>9, <1>10 DEF Next

\* No order crosses to another account or session than the one it was decided
\* for, unless the login changes during the SDK call itself.
THEOREM OrderKeepsItsSession == Spec => []SentToItsSession
<1>1. Init => RouteInv
  BY TypeInvInit DEF Init, RouteInv, Compared, SentToItsSession, NoWire, Passed
<1>2. RouteInv /\ [Next]_vars => RouteInv'
  BY TypeInvStep, RouteInvStep DEF RouteInv
<1>3. RouteInv => SentToItsSession
  BY DEF RouteInv
<1>. QED BY <1>1, <1>2, <1>3, PTL DEF Spec

-----------------------------------------------------------------------------
(* The REAL account an order reaches.                                      *)

\* A reference an arm request did not read is in no row, in no answer under way
\* and not in the gateway's copy, so that no gate lets its orders pass.
OnlyValidated ==
  /\ {db.ref, fetch.armedRef, gw.armedRef} \subseteq validated \union {NoAcc}
  /\ arm.step # "idle" => arm.session[1] \in validated
  /\ wire.step \in Passed /\ wire.session[1] \in Real => wire.session[1] \in validated
ArmInv == RouteInv /\ OnlyValidated /\ RealSendWasValidated

\* Every step keeps the arming to the account that was confirmed.
LEMMA ArmInvStep == ArmInv /\ RouteInv' /\ [Next]_vars => ArmInv'
<1>. SUFFICES ASSUME ArmInv, RouteInv', [Next]_vars
              PROVE  OnlyValidated' /\ RealSendWasValidated'
  BY DEF ArmInv
<1>. USE DEF ArmInv, OnlyValidated, RealSendWasValidated, Passed, server
<1>1. CASE Login
  <2>1. /\ wire'.step = wire.step /\ wire'.session = wire.session /\ wire'.now = wire.now
        /\ wire.step = "sent" => wire'.raced = wire.raced
    BY <1>1 DEF Login, RouteInv, TypeInv, TypeOK, WireType
  <2>. QED BY <1>1, <2>1 DEF Login
<1>2. CASE Verify \/ VerifyFails
  <2>1. gw'.armedRef = gw.armedRef
    BY <1>2 DEF Verify, VerifyFails, Verified, Unverified, RouteInv, TypeInv, TypeOK, GwType
  <2>. QED BY <1>2, <2>1 DEF Verify, VerifyFails
<1>3. CASE LoadPositions
  <2>1. gw'.armedRef = gw.armedRef
    BY <1>3 DEF LoadPositions, Verified, RouteInv, TypeInv, TypeOK, GwType
  <2>. QED BY <1>3, <2>1 DEF LoadPositions
<1>4. CASE FetchStart
  <2>1. PICK g \in {Verified(gw), Unverified(gw)} :
          /\ gw' = g
          /\ fetch' = [NoFetch EXCEPT !.step = "sent", !.ref = g.ref]
    BY <1>4 DEF FetchStart
  <2>2. gw'.armedRef = gw.armedRef
    BY <2>1, VerificationType DEF RouteInv, TypeInv, TypeOK
  <2>3. fetch'.armedRef = NoAcc
    BY <2>1 DEF NoFetch
  <2>. QED BY <1>4, <2>2, <2>3 DEF FetchStart
<1>5. CASE FetchAnswer
  <2>1. fetch'.armedRef = db.ref
    BY <1>5 DEF FetchAnswer, RouteInv, TypeInv, TypeOK, FetchType
  <2>. QED BY <1>5, <2>1 DEF FetchAnswer
<1>6. CASE FetchApply
  <2>1. gw'.armedRef = fetch.armedRef /\ fetch'.armedRef = NoAcc
    BY <1>6 DEF FetchApply, NoFetch, RouteInv, TypeInv, TypeOK, GwType
  <2>. QED BY <1>6, <2>1 DEF FetchApply
<1>7. CASE FetchFail
  BY <1>7 DEF FetchFail, NoFetch
<1>8. CASE GatePass
  <2>1. wire'.step = "gated" /\ wire'.session = wire.session
    BY <1>8 DEF GatePass, RouteInv, TypeInv, TypeOK, WireType
  <2>2. wire.session[1] = gw.ref /\ gw.ref \in Accounts
    BY <1>8 DEF GatePass, Gates, RouteInv, TypeInv, FreshNamesAccount
  <2>3. gw.ref \in Real => gw.ref \in validated
    BY <1>8, <2>2, ConstantsAssumption DEF GatePass, Gates
  <2>. QED BY <1>8, <2>1, <2>2, <2>3 DEF GatePass
<1>9. CASE FinalCheck
  <2>1. PICK g \in {Verified(gw), Unverified(gw)} :
          /\ gw' = g
          /\ wire' = IF SameAccount(g, wire.session)
                     THEN [wire EXCEPT !.step = "checked"] ELSE NoWire
    BY <1>9 DEF FinalCheck
  <2>2. gw'.armedRef = gw.armedRef
    BY <2>1, VerificationType DEF RouteInv, TypeInv, TypeOK
  <2>3. /\ wire'.step \in Passed => wire'.session = wire.session /\ wire.step \in Passed
        /\ wire'.step # "sent"
    BY <1>9, <2>1 DEF FinalCheck, NoWire, RouteInv, TypeInv, TypeOK, WireType
  <2>. QED BY <1>9, <2>2, <2>3 DEF FinalCheck
<1>10. CASE SdkSend
  <2>1. /\ wire'.step = "sent" /\ wire'.session = wire.session
        /\ wire'.now[1] = active /\ wire'.raced = wire.raced
    BY <1>10 DEF SdkSend, RouteInv, TypeInv, TypeOK, WireType
  <2>2. ~wire.raced => wire.session[1] = active
    BY <1>10 DEF SdkSend, RouteInv, Compared
  <2>. QED BY <1>10, <2>1, <2>2 DEF SdkSend
<1>11. CASE GateRefuse
  BY <1>11 DEF GateRefuse, NoWire
<1>12. CASE GwRestart
  BY <1>12 DEF GwRestart, NoWire, NoFetch, FreshGw
<1>13. CASE ArmRead
  BY <1>13 DEF ArmRead
<1>14. CASE ArmWrite
  <2>1. db'.ref \in {db.ref, arm.session[1]} /\ (db'.ref = db.ref \/ arm.step # "idle")
    BY <1>14 DEF ArmWrite, RouteInv, TypeInv, TypeOK, DbType
  <2>2. arm'.step # "idle" => arm'.session = arm.session /\ arm.step # "idle"
    BY <1>14 DEF ArmWrite, NoArm, RouteInv, TypeInv, TypeOK, ArmType
  <2>. QED BY <1>14, <2>1, <2>2 DEF ArmWrite
<1>15. ASSUME NEW d \in Disarmers, DisarmWrite(d)
       PROVE  OnlyValidated' /\ RealSendWasValidated'
  <2>1. db'.ref \in {db.ref, NoAcc}
    BY <1>15 DEF DisarmWrite, RouteInv, TypeInv, TypeOK, DbType
  <2>. QED BY <1>15, <2>1 DEF DisarmWrite
<1>16. CASE AdminDisarm
  BY <1>16 DEF AdminDisarm
<1>17. CASE ServerRestart
  BY <1>17 DEF ServerRestart, NoArm
<1>18. CASE Dispatch
  BY <1>18 DEF Dispatch, NoWire
<1>19. CASE ReadHealth \/ Watch \/ EndTick
  BY <1>19 DEF ReadHealth, Watch, EndTick
<1>20. CASE UNCHANGED vars
  BY <1>20 DEF vars
<1>. QED
  BY <1>1, <1>2, <1>3, <1>4, <1>5, <1>6, <1>7, <1>8, <1>9, <1>10, <1>11, <1>12, <1>13, <1>14,
     <1>15, <1>16, <1>17, <1>18, <1>19, <1>20 DEF Next

\* An order reaches a REAL account only if the admin's arm request has read it
\* as the live one, whatever was armed, disarmed or switched since.
THEOREM RealSendValidated == Spec => []RealSendWasValidated
<1>1. Init => ArmInv
  <2>1. Init => RouteInv
    BY TypeInvInit DEF Init, RouteInv, Compared, SentToItsSession, NoWire, Passed
  <2>2. Init => OnlyValidated
    BY DEF Init, OnlyValidated, FreshGw, NoFetch, NoArm, NoWire, Passed
  <2>3. Init => RealSendWasValidated
    BY ConstantsAssumption DEF Init, RealSendWasValidated, NoWire
  <2>. QED BY <2>1, <2>2, <2>3 DEF ArmInv
<1>2. ArmInv /\ [Next]_vars => ArmInv'
  BY TypeInvStep, RouteInvStep, ArmInvStep DEF ArmInv, RouteInv
<1>3. ArmInv => RealSendWasValidated
  BY DEF ArmInv
<1>. QED BY <1>1, <1>2, <1>3, PTL DEF Spec

\* An order reaches the account and session it was decided for, which a REAL account is only where an
\* arm request has read it, unless the login changes during the SDK call.
THEOREM SendsAuthorised == Spec => []SendsAreAuthorised
BY OrderKeepsItsSession, RealSendValidated, PTL DEF SendsAreAuthorised
=============================================================================
