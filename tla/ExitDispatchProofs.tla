------------------------- MODULE ExitDispatchProofs -------------------------
(***************************************************************************)
(* An exit of the guard sells only lots the bot bought, for every size of  *)
(* the position and of the owner's, and every number of faults, decisions, *)
(* price changes and restarts.                                             *)
(*                                                                         *)
(* The pending check of reserve_order leaves one row pending at a time, so *)
(* when the guard counts what is owned every other order is over and       *)
(* reported: what the rows say is what the exchange did.  From then until  *)
(* the exit is over nothing else can sell.                                 *)
(***************************************************************************)
EXTENDS ExitDispatch, SumTheorems

Row   == [st : {"PENDING", "FILLED", "CANCELED", "REJECTED"}, filled : 0..Lots]
Order == [st : {"working", "FILLED", "CANCELED"}, left : 0..Lots, sold : 0..Lots]
Steps == {"idle", "guard", "revalidate", "trigger", "evaluate", "gates", "reserve", "send"}
State == [step : Steps, id : Ids \union {NoOrder}, qty : 0..Lots, seen : 0..Lots, obs : 1..3]

\* The rows and the orders.
RowsShape ==
  /\ DOMAIN ex \subseteq DOMAIN rows /\ DOMAIN rows \subseteq Ids
  /\ rows \in [DOMAIN rows -> Row] /\ ex \in [DOMAIN ex -> Order]
  /\ \A id \in DOMAIN ex : /\ ex[id].left + ex[id].sold <= Lots
                           /\ ex[id].st = "working" => ex[id].left > 0

\* reserve_order lets one SELL be pending.
OnePending ==
  \A i, j \in DOMAIN rows : rows[i].st = "PENDING" /\ rows[j].st = "PENDING" => i = j

\* A row that is not pending says what the exchange did.
RowsSettled ==
  \A id \in DOMAIN rows :
    /\ id \notin DOMAIN ex => rows[id].filled = 0
    /\ id \in DOMAIN ex => rows[id].filled <= ex[id].sold
    /\ id \in DOMAIN ex /\ rows[id].st # "PENDING" =>
         ex[id].st # "working" /\ rows[id].filled = ex[id].sold

\* The tasks; what is about to be sent has its pending row and no order.
TasksHold ==
  /\ task \in [Tasks -> State]
  /\ \A t \in Tasks :
       /\ task[t].step \in {"revalidate", "trigger"} => task[t].seen > 0
       /\ task[t].step \in {"gates", "reserve", "send"} => task[t].id \in Ids /\ task[t].qty > 0
       /\ task[t].step = "send" =>
            /\ task[t].id \in DOMAIN rows \ DOMAIN ex /\ rows[task[t].id].st = "PENDING"
            /\ \A u \in Tasks : task[u].step = "send" => u = t

\* An exit of the guard that is on its way is covered by what the bot owns.
SendCovered ==
  \A t \in Tasks : task[t].step = "send" /\ task[t].id \in Guard => Sold + task[t].qty <= Lots

\* No order sells what nobody holds.
HeldCovers ==
  /\ past \in Nat /\ Sold <= Lots + HandLots
  /\ \A id \in Working : Sold + ex[id].left <= Lots + HandLots

\* The other tables.
RestShape ==
  /\ price \in 1..3 /\ snap \in 0..Lots /\ lc \in [qty : 0..Lots, stop : 1..2]
  /\ audit \subseteq Ids /\ known \subseteq DOMAIN ex
  /\ intents \in [DOMAIN intents -> [st : {"ACCEPTED", "FILLED", "CANCELED", "FAILED"}, old : BOOLEAN]]

IInv ==
  /\ RowsShape /\ OnePending /\ RowsSettled /\ TasksHold
  /\ SendCovered /\ HeldCovers /\ ExitsOwned /\ RestShape

-----------------------------------------------------------------------------
(* What the sums are sums of.                                              *)

\* The lots each order sold, and each row says were.
SoldOf   == [id \in Ids |-> IF id \in DOMAIN ex THEN ex[id].sold ELSE 0]
FilledOf == [id \in Ids |-> IF id \in DOMAIN rows THEN rows[id].filled ELSE 0]

\* There are finitely many request ids of a bucket.
LEMMA FinitelyManyIds == IsFiniteSet(Ids)
<1> DEFINE Srcs == {"SL", "TP", "AI", "MON"}
           Pairs == Srcs \X (1..Lots)
           f == [p \in Pairs |-> [src |-> p[1], qty |-> p[2]]]
<1>1. IsFiniteSet(1..Lots)
  BY FS_Interval, ConstantsAssumption
<1>2. IsFiniteSet(Srcs)
  <2>1. IsFiniteSet({"SL"}) /\ IsFiniteSet({"TP"}) /\ IsFiniteSet({"AI"}) /\ IsFiniteSet({"MON"})
    BY FS_Singleton
  <2>2. Srcs = (({"SL"} \cup {"TP"}) \cup {"AI"}) \cup {"MON"}
    OBVIOUS
  <2>3. IsFiniteSet((({"SL"} \cup {"TP"}) \cup {"AI"}) \cup {"MON"})
    BY <2>1, FS_Union
  <2> QED BY <2>2, <2>3
<1>3. IsFiniteSet(Pairs)
  BY <1>1, <1>2, FS_Product
<1>4. f \in Surjection(Pairs, Ids)
  <2>1. f \in [Pairs -> Ids]
    BY DEF Ids
  <2>2. ASSUME NEW id \in Ids PROVE \E p \in Pairs : f[p] = id
    <3>1. id = [src |-> id.src, qty |-> id.qty] /\ <<id.src, id.qty>> \in Pairs
      BY DEF Ids
    <3>2. f[<<id.src, id.qty>>] = [src |-> id.src, qty |-> id.qty]
      BY <3>1
    <3> QED BY <3>1, <3>2
  <2> QED BY <2>1, <2>2 DEF Surjection
<1> QED BY <1>3, <1>4, FS_Surjection

\* The lots sold and the lots the rows say were filled, as sums over all ids.
LEMMA SoldIsSum ==
  ASSUME RowsShape
  PROVE  /\ SoldOf \in [Ids -> Nat] /\ Sold = past + SumFunctionOnSet(SoldOf, Ids)
         /\ FilledOf \in [Ids -> Nat] /\ FilledLots(rows) = SumFunctionOnSet(FilledOf, Ids)
<1>1. SoldOf \in [Ids -> Nat] /\ FilledOf \in [Ids -> Nat]
  BY ConstantsAssumption DEF SoldOf, FilledOf, RowsShape, Row, Order
<1>2. SumFunction([id \in DOMAIN ex |-> ex[id].sold]) = SumFunctionOnSet(SoldOf, Ids)
  <2> DEFINE f == [id \in DOMAIN ex |-> ex[id].sold]
  <2>1. /\ DOMAIN f \subseteq Ids
        /\ \A id \in DOMAIN f : f[id] \in Int /\ SoldOf[id] = f[id]
        /\ \A id \in Ids \ DOMAIN f : SoldOf[id] = 0
    BY ConstantsAssumption DEF SoldOf, RowsShape, Order
  <2> HIDE DEF f
  <2>2. SumFunction(f) = SumFunctionOnSet(SoldOf, Ids)
    BY <2>1, FinitelyManyIds, SumExtend
  <2> QED BY <2>2 DEF f
<1>3. SumFunction([id \in DOMAIN rows |-> rows[id].filled]) = SumFunctionOnSet(FilledOf, Ids)
  <2> DEFINE f == [id \in DOMAIN rows |-> rows[id].filled]
  <2>1. /\ DOMAIN f \subseteq Ids
        /\ \A id \in DOMAIN f : f[id] \in Int /\ FilledOf[id] = f[id]
        /\ \A id \in Ids \ DOMAIN f : FilledOf[id] = 0
    BY ConstantsAssumption DEF FilledOf, RowsShape, Row
  <2> HIDE DEF f
  <2>2. SumFunction(f) = SumFunctionOnSet(FilledOf, Ids)
    BY <2>1, FinitelyManyIds, SumExtend
  <2> QED BY <2>2 DEF f
<1> QED BY <1>1, <1>2, <1>3 DEF Sold, FilledLots

\* The same of the next state.
LEMMA SoldIsSumNext ==
  ASSUME RowsShape'
  PROVE  SoldOf' \in [Ids -> Nat] /\ Sold' = past' + SumFunctionOnSet(SoldOf', Ids)
<1>1. SoldOf' \in [Ids -> Nat]
  BY ConstantsAssumption DEF SoldOf, RowsShape, Order
<1>2. SumFunction([id \in DOMAIN ex' |-> ex'[id].sold]) = SumFunctionOnSet(SoldOf', Ids)
  <2> DEFINE f == [id \in DOMAIN ex' |-> ex'[id].sold]
  <2>1. /\ DOMAIN f \subseteq Ids
        /\ \A id \in DOMAIN f : f[id] \in Int /\ SoldOf'[id] = f[id]
        /\ \A id \in Ids \ DOMAIN f : SoldOf'[id] = 0
    BY ConstantsAssumption DEF SoldOf, RowsShape, Order
  <2> HIDE DEF f
  <2>2. SumFunction(f) = SumFunctionOnSet(SoldOf', Ids)
    BY <2>1, FinitelyManyIds, SumExtend
  <2> QED BY <2>2 DEF f
<1> QED BY <1>1, <1>2 DEF Sold

\* The sums are naturals, so nobody owns more than was bought.
LEMMA SumsAreNatural ==
  ASSUME RowsShape, past \in Nat
  PROVE  Sold \in Nat /\ past <= Sold /\ FilledLots(rows) \in Nat /\ Owned \in Int /\ Owned <= Lots
<1>1. SumFunctionOnSet(SoldOf, Ids) \in Nat /\ SumFunctionOnSet(FilledOf, Ids) \in Nat
  BY SoldIsSum, FinitelyManyIds, SumNat
<1> QED BY <1>1, SoldIsSum, ConstantsAssumption DEF Owned

\* While no row is pending, the rows say all that was sold.
LEMMA OwnedIsUnsold ==
  ASSUME RowsShape, RowsSettled, past \in Nat, ~PendingSell
  PROVE  Owned = Lots - Sold
<1>1. \A id \in Ids : SoldOf[id] = FilledOf[id]
  BY DEF SoldOf, FilledOf, RowsSettled, RowsShape, PendingSell
<1>2. SumFunctionOnSet(SoldOf, Ids) = SumFunctionOnSet(FilledOf, Ids)
  BY <1>1, FinitelyManyIds, SumAgrees
<1>3. SumFunctionOnSet(SoldOf, Ids) \in Nat
  BY SoldIsSum, FinitelyManyIds, SumNat
<1> QED BY <1>2, <1>3, SoldIsSum, ConstantsAssumption DEF Owned

\* A step that changes what one order sold changes the lots sold by as much.
LEMMA SoldMoves ==
  ASSUME RowsShape, RowsShape', past' = past, past \in Nat, NEW i \in Ids, NEW n \in Int,
         SoldOf'[i] = SoldOf[i] + n, \A j \in Ids \ {i} : SoldOf'[j] = SoldOf[j]
  PROVE  Sold' = Sold + n
<1>1. /\ SoldOf \in [Ids -> Nat] /\ Sold = past + SumFunctionOnSet(SoldOf, Ids)
      /\ SoldOf' \in [Ids -> Nat] /\ Sold' = past' + SumFunctionOnSet(SoldOf', Ids)
  BY SoldIsSum, SoldIsSumNext
<1>2. SumFunctionOnSet(SoldOf', Ids) = SumFunctionOnSet(SoldOf, Ids) + (SoldOf'[i] - SoldOf[i])
  BY <1>1, FinitelyManyIds, SumChange
<1>3. SumFunctionOnSet(SoldOf, Ids) \in Nat
  BY <1>1, FinitelyManyIds, SumNat
<1>4. SoldOf[i] \in Nat
  BY <1>1
<1> QED BY <1>1, <1>2, <1>3, <1>4

-----------------------------------------------------------------------------
(* The rows and the orders.                                                *)

RowsInv == RowsShape /\ OnePending /\ RowsSettled

\* A reservation adds a pending row of its own, and only when there is none.
LEMMA ReserveRows ==
  ASSUME IInv, NEW t \in Tasks, Reserve(t)
  PROVE  RowsInv'
<1> USE DEF RowsInv, RowsShape, OnePending, RowsSettled
<1>0. RowsInv /\ TasksHold
  BY DEF IInv
<1>1. CASE rows' = rows
  BY <1>0, <1>1 DEF Reserve
<1>2. CASE rows' # rows
  <2> DEFINE i == task[t].id
  <2>1. /\ i \in Ids \ DOMAIN rows /\ ~PendingSell /\ ex' = ex
        /\ rows' = Put(rows, i, [st |-> "PENDING", filled |-> 0])
    BY <1>0, <1>2 DEF Reserve, TasksHold
  <2>2. [st |-> "PENDING", filled |-> 0] \in Row
    BY ConstantsAssumption DEF Row
  <2> HIDE DEF i
  <2>3. /\ DOMAIN rows' = DOMAIN rows \union {i} /\ rows' \in [DOMAIN rows' -> Row]
        /\ rows'[i] = [st |-> "PENDING", filled |-> 0]
        /\ \A j \in DOMAIN rows : rows'[j] = rows[j]
    BY <1>0, <2>1, <2>2 DEF Put
  <2> QED BY <1>0, <2>1, <2>3 DEF PendingSell
<1> QED BY <1>1, <1>2

\* What is sent has a pending row without an order; it gets one or is refused.
LEMMA SendRows ==
  ASSUME IInv, NEW t \in Tasks, Send(t)
  PROVE  RowsInv'
<1> USE DEF RowsInv, RowsShape, OnePending, RowsSettled
<1>0. RowsInv /\ TasksHold
  BY DEF IInv
<1> DEFINE i == task[t].id
<1>1. /\ i \in DOMAIN rows \ DOMAIN ex /\ rows[i].st = "PENDING" /\ i \in Ids
      /\ task[t].qty \in 1..Lots
  BY <1>0, ConstantsAssumption DEF Send, TasksHold, State
<1>2. CASE UNCHANGED <<rows, ex>>
  BY <1>0, <1>2
<1>3. CASE Placed(task[t]) /\ UNCHANGED rows
  <2> DEFINE o == [st |-> "working", left |-> task[t].qty, sold |-> 0]
  <2>1. o \in Order
    BY <1>1, ConstantsAssumption DEF Order
  <2>2. /\ DOMAIN ex' = DOMAIN ex \union {i} /\ ex'[i] = o
        /\ \A j \in DOMAIN ex : ex'[j] = ex[j]
    BY <1>1, <1>3 DEF Placed, Put
  <2>3. ex' \in [DOMAIN ex' -> Order]
    <3>1. ex' = [j \in DOMAIN ex' |-> ex'[j]]
      BY <1>3 DEF Placed, Put
    <3> QED BY <1>0, <2>1, <2>2, <3>1
  <2> QED BY <1>0, <1>1, <1>3, <2>2, <2>3, ConstantsAssumption
<1>4. CASE Refused(i)
  <2>1. /\ DOMAIN rows' = DOMAIN rows /\ ex' = ex /\ rows' \in [DOMAIN rows -> Row]
        /\ rows'[i] = [rows[i] EXCEPT !.st = "REJECTED"]
        /\ \A j \in DOMAIN rows \ {i} : rows'[j] = rows[j]
    BY <1>0, <1>1, <1>4 DEF Refused, Row
  <2>2. rows'[i].st = "REJECTED" /\ rows'[i].filled = rows[i].filled
    BY <1>0, <1>1, <2>1 DEF Row
  <2>3. rows[i].filled = 0 /\ rows' \in [DOMAIN rows' -> Row]
    BY <1>0, <1>1, <2>1
  <2>4. RowsInv
    BY <1>0
  <2> HIDE DEF i
  <2>5. OnePending'
    BY <2>1, <2>2, <2>4
  <2>6. RowsShape'
    BY <2>1, <2>3, <2>4
  <2>7. RowsSettled'
    <3>1. /\ i \notin DOMAIN ex' /\ rows'[i].filled = 0
      BY <1>1, <2>1, <2>2, <2>3
    <3>2. ASSUME NEW j \in DOMAIN rows \ {i}
          PROVE  /\ j \notin DOMAIN ex' => rows'[j].filled = 0
                 /\ j \in DOMAIN ex' => rows'[j].filled <= ex'[j].sold
                 /\ j \in DOMAIN ex' /\ rows'[j].st # "PENDING" =>
                      ex'[j].st # "working" /\ rows'[j].filled = ex'[j].sold
      BY <2>1, <2>4
    <3> QED BY <2>1, <3>1, <3>2
  <2> QED BY <2>5, <2>6, <2>7
<1> QED BY <1>2, <1>3, <1>4 DEF Send

\* The exchange sells a lot of a working order.
LEMMA FillRows ==
  ASSUME IInv, NEW i \in Working,
         ex' = [ex EXCEPT ![i] = [st |-> IF @.left = 1 THEN "FILLED" ELSE "working",
                                  left |-> @.left - 1, sold |-> @.sold + 1]],
         UNCHANGED rows
  PROVE  RowsInv'
<1> USE DEF RowsInv, RowsShape, OnePending, RowsSettled
<1>0. RowsInv
  BY DEF IInv
<1>1. /\ i \in DOMAIN ex /\ ex[i].st = "working" /\ ex[i].left \in 1..Lots /\ ex[i].sold \in 0..Lots
      /\ ex[i].left + ex[i].sold <= Lots
  BY <1>0, ConstantsAssumption DEF Working, Order
<1> DEFINE o == [st |-> IF ex[i].left = 1 THEN "FILLED" ELSE "working",
                 left |-> ex[i].left - 1, sold |-> ex[i].sold + 1]
<1>2. o \in Order
  BY <1>1, ConstantsAssumption DEF Order
<1>3. /\ DOMAIN ex' = DOMAIN ex /\ ex'[i] = o /\ ex' \in [DOMAIN ex -> Order]
      /\ \A j \in DOMAIN ex \ {i} : ex'[j] = ex[j]
  BY <1>0, <1>1, <1>2
<1>4. /\ ex'[i].left + ex'[i].sold <= Lots /\ ex'[i].sold = ex[i].sold + 1
      /\ ex'[i].st = "working" => ex'[i].left > 0
  BY <1>1, <1>3
<1>5. rows[i].st = "PENDING" /\ rows[i].filled <= ex[i].sold /\ rows[i].filled \in Int
  BY <1>0, <1>1, ConstantsAssumption DEF Row
<1> HIDE DEF o
<1> QED BY <1>0, <1>1, <1>3, <1>4, <1>5, ConstantsAssumption

\* The exchange cancels a working order.
LEMMA CancelRows ==
  ASSUME IInv, NEW i \in Working, ex' = [ex EXCEPT ![i].st = "CANCELED", ![i].left = 0],
         UNCHANGED rows
  PROVE  RowsInv'
<1> USE DEF RowsInv, RowsShape, OnePending, RowsSettled
<1>0. RowsInv
  BY DEF IInv
<1>1. i \in DOMAIN ex /\ ex[i].st = "working" /\ ex[i] \in Order
  BY <1>0 DEF Working
<1> DEFINE o == [ex[i] EXCEPT !.st = "CANCELED", !.left = 0]
<1>2. o \in Order /\ o.st = "CANCELED" /\ o.left = 0 /\ o.sold = ex[i].sold
  BY <1>1, ConstantsAssumption DEF Order
<1>3. ex' = [ex EXCEPT ![i] = o]
  BY <1>0, <1>1
<1> HIDE DEF o
<1>4. /\ DOMAIN ex' = DOMAIN ex /\ ex'[i] = o /\ ex' \in [DOMAIN ex -> Order]
      /\ \A j \in DOMAIN ex \ {i} : ex'[j] = ex[j]
  BY <1>0, <1>1, <1>2, <1>3
<1>5. o.left + o.sold <= Lots /\ rows[i].st = "PENDING"
  BY <1>0, <1>1, <1>2, ConstantsAssumption DEF Order
<1> QED BY <1>0, <1>1, <1>2, <1>4, <1>5

\* A report makes the row say what the exchange did.
LEMMA ReportRows ==
  ASSUME IInv, NEW i \in DOMAIN rows, Report(i)
  PROVE  RowsInv'
<1> USE DEF RowsInv, RowsShape, OnePending, RowsSettled
<1>0. RowsInv
  BY DEF IInv
<1> DEFINE new == [st |-> IF ex[i].st = "working" THEN "PENDING" ELSE ex[i].st, filled |-> ex[i].sold]
<1>1. i \in DOMAIN ex /\ ex' = ex /\ rows' = [rows EXCEPT ![i] = new]
  BY DEF Report
<1>2. new \in Row
  BY <1>0, <1>1 DEF Row, Order
<1>3. new.filled = ex[i].sold /\ (new.st = "PENDING" <=> ex[i].st = "working")
  BY <1>0, <1>1 DEF Order
<1> HIDE DEF new
<1>4. /\ DOMAIN rows' = DOMAIN rows /\ rows'[i] = new /\ rows' \in [DOMAIN rows -> Row]
      /\ \A j \in DOMAIN rows \ {i} : rows'[j] = rows[j]
  BY <1>0, <1>1, <1>2
<1>5. rows'[i].st = "PENDING" => rows[i].st = "PENDING"
  BY <1>0, <1>1, <1>3, <1>4
<1>6. ex[i].sold \in Int
  BY <1>0, <1>1, ConstantsAssumption DEF Order
<1> QED BY <1>0, <1>1, <1>3, <1>4, <1>5, <1>6

\* What the next bucket forgets is over and reported.
LEMMA BucketRows ==
  ASSUME IInv, NextBucket
  PROVE  RowsInv'
<1> USE DEF RowsInv, RowsShape, OnePending, RowsSettled
<1>0. RowsInv
  BY DEF IInv
<1>1. /\ rows' = [id \in DOMAIN rows \ Over |-> rows[id]]
      /\ ex' = [id \in DOMAIN ex \ Over |-> ex[id]]
  BY DEF NextBucket
<1>2. DOMAIN rows' = DOMAIN rows \ Over /\ DOMAIN ex' = DOMAIN ex \ Over
  BY <1>1
<1>3. /\ \A id \in DOMAIN rows' : rows'[id] = rows[id] /\ id \in DOMAIN rows
      /\ \A id \in DOMAIN ex' : ex'[id] = ex[id] /\ id \in DOMAIN ex
  BY <1>1
<1>4. rows' \in [DOMAIN rows' -> Row] /\ ex' \in [DOMAIN ex' -> Order]
  BY <1>0, <1>1
<1> QED BY <1>0, <1>2, <1>3, <1>4

\* Every step keeps the rows.
LEMMA RowsStep == IInv /\ [Next]_vars => RowsInv'
<1> SUFFICES ASSUME IInv, [Next]_vars PROVE RowsInv'
  OBVIOUS
<1>1. ASSUME NEW t \in Tasks, Reserve(t) \/ Send(t) PROVE RowsInv'
  BY <1>1, ReserveRows, SendRows
<1>2. CASE Fill
  BY <1>2, FillRows DEF Fill, db
<1>3. CASE Cancel
  BY <1>3, CancelRows DEF Cancel, db
<1>4. ASSUME NEW i \in DOMAIN rows, Report(i) PROVE RowsInv'
  BY <1>4, ReportRows
<1>5. CASE NextBucket
  BY <1>5, BucketRows
<1>6. CASE UNCHANGED <<rows, ex>>
  BY <1>6 DEF IInv, RowsInv, RowsShape, OnePending, RowsSettled
<1>7. ASSUME NEW t \in Tasks, Gates(t) PROVE RowsInv'
  BY <1>6, <1>7 DEF Gates, db
<1>8. CASE Scanner
  BY <1>1, <1>6, <1>7, <1>8
     DEF Scanner, Dispatch, Tasks, TickStart, GuardRead, GuardRevalidate, GuardTrigger, Evaluate, db
<1>9. CASE Monitor
  BY <1>1, <1>6, <1>7, <1>9 DEF Monitor, Dispatch, Tasks, Reprice, Fire
<1>10. CASE Repairs
  BY <1>4, <1>6, <1>10 DEF Repairs, Reconcile, Poll, db
<1>11. CASE GatewayRestart \/ ServerRestart \/ PriceMoves
  BY <1>6, <1>11 DEF GatewayRestart, ServerRestart, PriceMoves, db
<1>12. CASE UNCHANGED vars
  BY <1>6, <1>12 DEF vars, db
<1> QED BY <1>2, <1>3, <1>5, <1>8, <1>9, <1>10, <1>11, <1>12 DEF Next

-----------------------------------------------------------------------------
(* What is sold and what may still be.                                     *)

Covered == SendCovered /\ HeldCovers /\ ExitsOwned

\* The same orders sold the same.
LEMMA SoldKept ==
  ASSUME RowsShape, RowsShape', past' = past, \A id \in Ids : SoldOf'[id] = SoldOf[id]
  PROVE  Sold' = Sold
BY SoldIsSum, SoldIsSumNext, FinitelyManyIds, SumAgrees

\* Forgetting orders moves what they sold into past.
LEMMA BucketKeepsSold ==
  ASSUME RowsInv, RowsInv', past \in Nat, NextBucket
  PROVE  Sold' = Sold /\ past' \in Nat
<1> USE DEF RowsInv
<1> DEFINE f == [id \in Over |-> rows[id].filled]
           g == [id \in Ids |-> IF id \in Over THEN rows[id].filled ELSE 0]
<1>1. /\ ex' = [id \in DOMAIN ex \ Over |-> ex[id]]
      /\ past' = past + FilledLots([id \in Over |-> rows[id]])
  BY DEF NextBucket
<1>2. Over \subseteq DOMAIN rows /\ \A id \in Over : rows[id].st # "PENDING"
  BY DEF Over
<1>3. FilledLots([id \in Over |-> rows[id]]) = SumFunction(f)
  BY DEF FilledLots
<1>4. /\ DOMAIN f \subseteq Ids /\ \A id \in DOMAIN f : f[id] \in Int /\ g[id] = f[id]
      /\ \A id \in Ids \ DOMAIN f : g[id] = 0
  BY <1>2, ConstantsAssumption DEF RowsShape, Row
<1>5. \A id \in Ids : g[id] \in Nat
  BY <1>2, ConstantsAssumption DEF RowsShape, Row
<1>6. \A id \in Ids : SoldOf[id] = SoldOf'[id] + g[id]
  <2>1. \A id \in Over : SoldOf[id] = rows[id].filled /\ SoldOf'[id] = 0
    BY <1>1, <1>2 DEF RowsShape, RowsSettled, SoldOf
  <2>2. \A id \in Ids \ Over : SoldOf[id] = SoldOf'[id]
    BY <1>1 DEF SoldOf
  <2>3. SoldOf \in [Ids -> Nat]
    BY SoldIsSum
  <2>4. \A id \in Over : rows[id].filled \in Nat
    BY <1>2, ConstantsAssumption DEF RowsShape, Row
  <2> QED BY <2>1, <2>2, <2>3, <2>4
<1> HIDE DEF f, g
<1>7. SumFunction(f) = SumFunctionOnSet(g, Ids)
  BY <1>4, FinitelyManyIds, SumExtend
<1>8. SumFunctionOnSet(g, Ids) \in Nat
  BY <1>5, FinitelyManyIds, SumNat
<1>9. /\ SoldOf \in [Ids -> Nat] /\ Sold = past + SumFunctionOnSet(SoldOf, Ids)
      /\ SoldOf' \in [Ids -> Nat] /\ Sold' = past' + SumFunctionOnSet(SoldOf', Ids)
  BY SoldIsSum, SoldIsSumNext
<1>10. SumFunctionOnSet(SoldOf, Ids)
         = SumFunctionOnSet(SoldOf', Ids) + SumFunctionOnSet(g, Ids)
  BY <1>5, <1>6, <1>9, FinitelyManyIds, SumPlus
<1>11. SumFunctionOnSet(SoldOf', Ids) \in Nat
  BY <1>9, FinitelyManyIds, SumNat
<1> QED BY <1>1, <1>3, <1>7, <1>8, <1>9, <1>10, <1>11

\* A step that sells nothing, places nothing and readies nothing.
LEMMA CoveredKept ==
  ASSUME IInv, Sold' = Sold, past' \in Nat,
         \A i \in Working' : i \in Working /\ ex'[i].left = ex[i].left,
         \A t \in Tasks : task'[t].step = "send" => task'[t] = task[t]
  PROVE  Covered'
BY DEF IInv, Covered, SendCovered, HeldCovers, ExitsOwned

\* A guard's exit is reserved within what the bot owns.
LEMMA ReserveCovered ==
  ASSUME IInv, RowsInv', NEW t \in Tasks, Reserve(t)
  PROVE  Covered'
<1>0. RowsInv /\ TasksHold /\ Covered /\ past \in Nat
  BY DEF IInv, RowsInv, Covered, HeldCovers
<1>1. ex' = ex /\ past' = past /\ Working' = Working
  BY DEF Reserve, Working
<1>2. Sold' = Sold
  BY <1>1 DEF Sold
<1>3. \A u \in Tasks \ {t} : task'[u] = task[u]
  BY <1>0 DEF Reserve, Go, TasksHold
<1>4. task'[t].step = "send" =>
        /\ task'[t].id = task[t].id /\ task'[t].qty = task[t].qty /\ ~PendingSell
        /\ task[t].id \in Guard => task[t].qty <= lc.qty /\ Owned = lc.qty
  BY <1>0 DEF Reserve, Go, After, At, TasksHold, State
<1>5. ~PendingSell => Owned = Lots - Sold
  BY <1>0, OwnedIsUnsold DEF RowsInv
<1>6. Sold \in Nat /\ task[t].qty \in Nat
  BY <1>0, ConstantsAssumption, SumsAreNatural DEF RowsInv, TasksHold, State
<1>7. task'[t].step = "send" /\ task'[t].id \in Guard => Sold + task'[t].qty <= Lots
  BY <1>4, <1>5, <1>6, ConstantsAssumption
<1> QED BY <1>0, <1>1, <1>2, <1>3, <1>7 DEF Covered, SendCovered, HeldCovers, ExitsOwned

\* What is placed is covered as it was on its way, and the gateway lets no
\* order out for more than is held.
LEMMA SendCovers ==
  ASSUME IInv, RowsInv', NEW t \in Tasks, Send(t)
  PROVE  Covered'
<1>0. RowsInv /\ TasksHold /\ Covered /\ past \in Nat /\ RestShape
  BY DEF IInv, RowsInv, Covered, HeldCovers
<1> DEFINE i == task[t].id
<1>1. /\ i \in DOMAIN rows \ DOMAIN ex /\ rows[i].st = "PENDING" /\ task[t].qty \in Nat
      /\ task[t].step = "send"
  BY <1>0, ConstantsAssumption DEF Send, TasksHold, State
<1>2. \A u \in Tasks : task'[u].step = "send" => task'[u] = task[u]
  BY <1>0 DEF Send, Go, After, At, TasksHold
<1>3. past' = past
  BY DEF Send
<1>4. CASE ex' = ex
  <2>1. Sold' = Sold /\ Working' = Working
    BY <1>3, <1>4 DEF Sold, Working
  <2> QED BY <1>0, <1>2, <1>3, <1>4, <2>1, CoveredKept
<1>5. CASE Placed(task[t]) /\ task[t].qty <= Sellable
  <2>1. /\ DOMAIN ex' = DOMAIN ex \union {i}
        /\ ex'[i] = [st |-> "working", left |-> task[t].qty, sold |-> 0]
        /\ \A j \in DOMAIN ex : ex'[j] = ex[j]
    BY <1>1, <1>5 DEF Placed, Put
  <2>2. \A j \in Ids : SoldOf'[j] = SoldOf[j]
    BY <1>1, <2>1 DEF SoldOf
  <2>3. Sold' = Sold
    BY <1>0, <1>3, <2>2, SoldKept DEF RowsInv
  <2>4. \A j \in Working' : j # i => j \in Working /\ ex'[j].left = ex[j].left
    BY <2>1 DEF Working
  <2>5. Sold \in Nat
    BY <1>0, SumsAreNatural DEF RowsInv
  <2>6. task[t].qty <= HandLots + Lots - Sold
    <3>1. snap \in Int /\ HandLots + Lots - Sold \in Int
      BY <1>0, <2>5, ConstantsAssumption DEF RestShape
    <3>2. Sellable <= HandLots + Lots - Sold /\ Sellable \in Int
      BY <3>1 DEF Sellable, Min
    <3> QED BY <1>1, <1>5, <3>1, <3>2
  <2>7. ex'[i].left = task[t].qty /\ (i \in Guard => Sold + task[t].qty <= Lots)
    BY <1>0, <1>1, <2>1 DEF Covered, SendCovered
  <2>8. Sold + task[t].qty <= Lots + HandLots
    BY <1>1, <2>5, <2>6, ConstantsAssumption
  <2> HIDE DEF i
  <2> QED BY <1>0, <1>2, <1>3, <2>3, <2>4, <2>7, <2>8
          DEF Covered, SendCovered, HeldCovers, ExitsOwned
<1> QED BY <1>4, <1>5 DEF Send, Refused

\* A fill moves a lot of the one working order from left to sold.
LEMMA FillCovers ==
  ASSUME IInv, RowsInv', Fill
  PROVE  Covered'
<1>0. RowsInv /\ TasksHold /\ Covered /\ past \in Nat
  BY DEF IInv, RowsInv, Covered, HeldCovers
<1>1. PICK i \in Working : ex' = [ex EXCEPT
        ![i] = [st |-> IF @.left = 1 THEN "FILLED" ELSE "working",
                left |-> @.left - 1, sold |-> @.sold + 1]]
  BY DEF Fill
<1>2. /\ i \in DOMAIN ex /\ i \in Ids /\ ex[i].st = "working" /\ ex[i].sold \in Nat
      /\ ex[i].left \in Nat /\ ex[i].left > 0 /\ past' = past /\ task' = task
  BY <1>0, <1>1, ConstantsAssumption DEF Working, RowsInv, RowsShape, Order, Fill, db
<1>3. /\ DOMAIN ex' = DOMAIN ex /\ ex'[i].left = ex[i].left - 1 /\ ex'[i].sold = ex[i].sold + 1
      /\ \A j \in DOMAIN ex \ {i} : ex'[j] = ex[j]
  BY <1>1, <1>2
<1>4. Sold' = Sold + 1
  <2>1. SoldOf'[i] = SoldOf[i] + 1 /\ \A j \in Ids \ {i} : SoldOf'[j] = SoldOf[j]
    BY <1>2, <1>3 DEF SoldOf
  <2> QED BY <1>0, <1>2, <2>1, SoldMoves DEF RowsInv
<1>5. /\ \A j \in Working : j = i
      /\ \A t \in Tasks : task[t].step # "send"
  <2>1. \A j \in Working : j \in DOMAIN rows /\ rows[j].st = "PENDING"
    BY <1>0 DEF Working, RowsInv, RowsShape, RowsSettled
  <2>2. \A j \in DOMAIN rows : rows[j].st = "PENDING" => j = i
    BY <1>0, <1>1, <2>1 DEF RowsInv, OnePending
  <2> QED BY <1>0, <1>2, <2>1, <2>2 DEF TasksHold
<1>6. \A j \in Working' : j = i
  BY <1>3, <1>5 DEF Working
<1>7. Sold \in Nat
  BY <1>0, SumsAreNatural DEF RowsInv
<1>8. Sold + ex[i].left <= Lots + HandLots /\ (i \in Guard => Sold + ex[i].left <= Lots)
  BY <1>0, <1>1 DEF Covered, HeldCovers, ExitsOwned
<1>9. /\ Sold' <= Lots + HandLots /\ Sold' + ex'[i].left <= Lots + HandLots
      /\ i \in Guard => Sold' + ex'[i].left <= Lots
  BY <1>2, <1>3, <1>4, <1>7, <1>8, ConstantsAssumption
<1> QED BY <1>0, <1>2, <1>5, <1>6, <1>9 DEF Covered, SendCovered, HeldCovers, ExitsOwned

\* Every step keeps what is sold and what may be within what is owned and held.
LEMMA CoveredStep == IInv /\ [Next]_vars => Covered'
<1> SUFFICES ASSUME IInv, [Next]_vars PROVE Covered'
  OBVIOUS
<1>0. RowsInv /\ RowsInv' /\ TasksHold /\ past \in Nat
  BY RowsStep DEF IInv, RowsInv, HeldCovers
<1> DEFINE Still == \A t \in Tasks : task'[t].step = "send" => task'[t] = task[t]
<1>1. ASSUME ex' = ex, past' = past, Still PROVE Covered'
  <2>1. Sold' = Sold /\ Working' = Working
    BY <1>1 DEF Sold, Working
  <2> QED BY <1>0, <1>1, <2>1, CoveredKept
<1>2. ASSUME NEW t \in Tasks, Reserve(t) \/ Send(t) PROVE Covered'
  BY <1>0, <1>2, ReserveCovered, SendCovers
<1>3. CASE Fill
  BY <1>0, <1>3, FillCovers
<1>4. CASE Cancel
  <2>1. PICK i \in Working : ex' = [ex EXCEPT ![i].st = "CANCELED", ![i].left = 0]
    BY <1>4 DEF Cancel
  <2>2. \A j \in Ids : SoldOf'[j] = SoldOf[j]
    BY <1>0, <2>1 DEF SoldOf, RowsInv, RowsShape, Order
  <2>3. past' = past /\ task' = task
    BY <1>4 DEF Cancel, db
  <2>4. Sold' = Sold
    BY <1>0, <2>2, <2>3, SoldKept DEF RowsInv
  <2>5. \A j \in Working' : j \in Working /\ ex'[j].left = ex[j].left
    BY <1>0, <2>1 DEF Working, RowsInv, RowsShape, Order
  <2> QED BY <1>0, <2>3, <2>4, <2>5, CoveredKept
<1>5. CASE NextBucket
  <2>1. Sold' = Sold /\ past' \in Nat
    BY <1>0, <1>5, BucketKeepsSold
  <2>2. \A j \in Working' : j \in Working /\ ex'[j].left = ex[j].left
    BY <1>5 DEF NextBucket, Working
  <2> QED BY <1>5, <2>1, <2>2, CoveredKept DEF NextBucket
<1>a. ASSUME NEW t \in Tasks, NEW s, Go(t, s), s.step # "send" PROVE Still
  BY <1>0, <1>a DEF Go, TasksHold
<1>b. \A step : At(step).step = step
  BY DEF At
<1>c. \A id : With(id).step = "gates"
  BY DEF With, At
<1>d. \A t \in Tasks : task[t] \in State
  BY <1>0 DEF TasksHold
<1>6. ASSUME NEW t \in Tasks, Gates(t) PROVE Covered'
  <2>1. After(t).step # "send" /\ [task[t] EXCEPT !.step = "reserve", !.qty = Min({task[t].qty, Clamp})].step # "send"
    BY <1>b, <1>d DEF After, State
  <2>2. PICK s : Go(t, s) /\ s.step # "send"
    BY <1>6, <2>1 DEF Gates
  <2>3. Still
    BY <1>a, <2>2
  <2> QED BY <1>1, <1>6, <2>3 DEF Gates, db
<1>7. CASE TickStart \/ GuardRead \/ GuardRevalidate
  <2>1. Still
    <3>1. /\ [At("revalidate") EXCEPT !.seen = lc.qty, !.obs = price].step # "send"
          /\ [task["scanner"] EXCEPT !.step = "trigger"].step # "send"
      BY <1>d DEF At, State, Tasks
    <3>2. PICK s : Go("scanner", s) /\ s.step # "send"
      BY <1>7, <1>b, <3>1 DEF TickStart, GuardRead, GuardRevalidate
    <3> QED BY <1>a, <3>2 DEF Tasks
  <2> QED BY <1>1, <1>7, <2>1 DEF TickStart, GuardRead, GuardRevalidate, db
<1>8. CASE GuardTrigger \/ Evaluate
  <2>1. Still
    <3>1. PICK s : Go("scanner", s) /\ s.step # "send"
      BY <1>8, <1>b, <1>c DEF GuardTrigger, Evaluate
    <3> QED BY <1>a, <3>1 DEF Tasks
  <2> QED BY <1>1, <1>8, <2>1 DEF GuardTrigger, Evaluate
<1>9. CASE Reprice \/ Fire
  <2>1. Still
    BY <1>0, <1>9 DEF Reprice, Fire, Go, With, At, TasksHold, State, Tasks
  <2> QED BY <1>1, <1>9, <2>1 DEF Reprice, Fire
<1>10. CASE Repairs
  BY <1>1, <1>10 DEF Repairs, Report, Reconcile, Poll, db
<1>11. CASE GatewayRestart \/ ServerRestart \/ PriceMoves
  <2>1. Still
    BY <1>11 DEF GatewayRestart, ServerRestart, PriceMoves, At
  <2> QED BY <1>1, <1>11, <2>1 DEF GatewayRestart, ServerRestart, PriceMoves, db
<1>12. CASE UNCHANGED vars
  BY <1>1, <1>12 DEF vars, db
<1> QED BY <1>2, <1>3, <1>4, <1>5, <1>6, <1>7, <1>8, <1>9, <1>10, <1>11, <1>12
        DEF Next, Scanner, Monitor, Dispatch, Tasks

-----------------------------------------------------------------------------
(* The tasks and the other tables.                                         *)

\* A task that does not come to send anything.
Calm(s) ==
  /\ s \in State /\ s.step # "send"
  /\ s.step \in {"revalidate", "trigger"} => s.seen > 0
  /\ s.step \in {"gates", "reserve"} => s.id \in Ids /\ s.qty > 0

\* The states a task is put into.
LEMMA CalmStates ==
  ASSUME IInv
  PROVE  /\ \A step \in {"idle", "guard", "evaluate"} : Calm(At(step))
         /\ \A id \in Ids : Calm(With(id))
         /\ \A t \in Tasks : task[t].step \in {"revalidate", "trigger"} =>
              Calm(task[t]) /\ Calm([task[t] EXCEPT !.step = "trigger"])
         /\ \A t \in Tasks : task[t].step = "gates" =>
              Calm([task[t] EXCEPT !.step = "reserve", !.qty = Min({task[t].qty, Clamp})])
<1>0. TasksHold
  BY DEF IInv
<1>1. \A step \in {"idle", "guard", "evaluate"} : Calm(At(step))
  BY ConstantsAssumption DEF Calm, At, State, Steps
<1>2. ASSUME NEW id \in Ids PROVE Calm(With(id))
  <2>1. id.qty \in 0..Lots /\ id.qty > 0
    BY ConstantsAssumption DEF Ids
  <2> DEFINE r == At("gates")
  <2>2. r \in State /\ r.step = "gates" /\ r.seen = 0
    BY ConstantsAssumption DEF At, State, Steps
  <2>3. With(id) = [r EXCEPT !.id = id, !.qty = id.qty]
    BY DEF With
  <2> HIDE DEF r
  <2>4. With(id) \in State
    BY <2>1, <2>2, <2>3 DEF State
  <2>5. With(id).step = "gates" /\ With(id).id = id /\ With(id).qty = id.qty
    BY <2>2, <2>3 DEF State
  <2> QED BY <2>1, <2>4, <2>5 DEF Calm
<1>3. ASSUME NEW t \in Tasks, task[t].step \in {"revalidate", "trigger"}
      PROVE  Calm(task[t]) /\ Calm([task[t] EXCEPT !.step = "trigger"])
  BY <1>0, <1>3 DEF TasksHold, Calm, State, Steps
<1>4. ASSUME NEW t \in Tasks, task[t].step = "gates"
      PROVE  Calm([task[t] EXCEPT !.step = "reserve", !.qty = Min({task[t].qty, Clamp})])
  <2>1. task[t] \in State /\ task[t].qty \in 1..Lots /\ task[t].id \in Ids
    BY <1>0, <1>4, ConstantsAssumption DEF TasksHold, State
  <2>2. Min({task[t].qty, Clamp}) \in 1..Lots
    BY <2>1, ConstantsAssumption DEF Min
  <2> DEFINE q == Min({task[t].qty, Clamp})
             s == [task[t] EXCEPT !.step = "reserve", !.qty = q]
  <2>3. s \in State /\ s.step = "reserve" /\ s.id = task[t].id /\ s.qty = q
    <3>1. q \in 0..Lots
      BY <2>2
    <3> HIDE DEF q
    <3> QED BY <2>1, <3>1 DEF State, Steps
  <2> HIDE DEF s, q
  <2>4. q \in 1..Lots
    BY <2>2 DEF q
  <2>5. Calm(s)
    BY <2>1, <2>3, <2>4, ConstantsAssumption DEF Calm
  <2> QED BY <2>5 DEF s, q
<1> QED BY <1>1, <1>2, <1>3, <1>4

\* A task that moves calmly leaves the other with its row.
LEMMA CalmMove ==
  ASSUME IInv, NEW t \in Tasks, NEW s, Go(t, s), Calm(s),
         \A u \in Tasks \ {t} : task[u].step = "send" =>
           /\ task[u].id \in DOMAIN rows' \ DOMAIN ex' /\ rows'[task[u].id].st = "PENDING"
  PROVE  TasksHold'
BY DEF IInv, TasksHold, Go, Calm

\* A step that moves no task and takes no pending row.
LEMMA CalmStay ==
  ASSUME IInv, task' = task,
         \A u \in Tasks : task[u].step = "send" =>
           /\ task[u].id \in DOMAIN rows' \ DOMAIN ex' /\ rows'[task[u].id].st = "PENDING"
  PROVE  TasksHold'
BY DEF IInv, TasksHold

\* What was reserved is sent by the one task that reserved it.
LEMMA ReserveTasks ==
  ASSUME IInv, NEW t \in Tasks, Reserve(t)
  PROVE  TasksHold'
<1>0. TasksHold /\ RowsShape
  BY DEF IInv
<1> DEFINE i == task[t].id
           s == [task[t] EXCEPT !.step = "send"]
<1>1. /\ task[t] \in State /\ i \in Ids /\ task[t].qty > 0
  BY <1>0 DEF Reserve, TasksHold
<1>2. CASE Go(t, After(t)) /\ rows' = rows
  <2>1. Calm(After(t))
    BY CalmStates DEF After
  <2>2. ex' = ex
    BY DEF Reserve
  <2> QED BY <1>0, <1>2, <2>1, <2>2, CalmMove DEF TasksHold
<1>3. CASE /\ i \notin DOMAIN rows /\ ~PendingSell
           /\ rows' = Put(rows, i, [st |-> "PENDING", filled |-> 0]) /\ Go(t, s)
  <2>1. \A u \in Tasks : task[u].step # "send"
    BY <1>0, <1>3 DEF TasksHold, PendingSell
  <2>2. /\ s \in State /\ s.step = "send" /\ s.id = i /\ s.qty = task[t].qty
    BY <1>1 DEF State, Steps
  <2>3. /\ i \in DOMAIN rows' \ DOMAIN ex' /\ rows'[i].st = "PENDING"
    BY <1>0, <1>3 DEF Put, Reserve, RowsShape
  <2>4. /\ task' \in [Tasks -> State] /\ task'[t] = s
        /\ \A u \in Tasks \ {t} : task'[u] = task[u]
    BY <1>0, <1>3, <2>2 DEF Go, TasksHold
  <2> HIDE DEF s, i
  <2> QED BY <1>0, <1>1, <2>1, <2>2, <2>3, <2>4 DEF TasksHold
<1> QED BY <1>2, <1>3 DEF Reserve

\* Every step keeps the tasks.
LEMMA TasksStep == IInv /\ [Next]_vars => TasksHold'
<1> SUFFICES ASSUME IInv, [Next]_vars PROVE TasksHold'
  OBVIOUS
<1>0. /\ RowsShape /\ OnePending /\ RowsSettled /\ TasksHold /\ RestShape /\ past \in Nat
      /\ Owned \in Int /\ Owned <= Lots
  BY SumsAreNatural DEF IInv, HeldCovers
<1>a. \A u \in Tasks : task[u].step = "send" =>
        task[u].id \in DOMAIN rows \ DOMAIN ex /\ rows[task[u].id].st = "PENDING"
  BY <1>0 DEF TasksHold
<1>b. ASSUME NEW t \in Tasks, NEW s, Go(t, s), Calm(s), rows' = rows, ex' = ex PROVE TasksHold'
  BY <1>a, <1>b, CalmMove
<1>c. ASSUME task' = task, rows' = rows, ex' = ex PROVE TasksHold'
  BY <1>a, <1>c, CalmStay
<1>1. CASE TickStart
  <2>1. PICK s \in {At("evaluate"), At("guard")} : Go("scanner", s)
    BY <1>1 DEF TickStart
  <2> QED BY <1>1, <1>b, <2>1, CalmStates DEF TickStart, db, Tasks
<1>2. CASE GuardRead
  <2> DEFINE r == [At("revalidate") EXCEPT !.seen = lc.qty, !.obs = price]
  <2>1. At("revalidate") \in State /\ At("revalidate").step = "revalidate"
    BY ConstantsAssumption DEF At, State, Steps
  <2>2. lc.qty > 0 => Calm(r)
    <3> DEFINE a == At("revalidate")
    <3>1. /\ a \in State /\ a.step = "revalidate" /\ lc.qty \in 0..Lots /\ price \in 1..3
      BY <1>0, <2>1 DEF RestShape
    <3> HIDE DEF a
    <3>2. r = [a EXCEPT !.seen = lc.qty, !.obs = price]
      BY DEF a
    <3>3. r \in State /\ r.step = "revalidate" /\ r.seen = lc.qty
      BY <3>1, <3>2 DEF State
    <3> QED BY <3>3 DEF Calm
  <2> HIDE DEF r
  <2>3. PICK s : Go("scanner", s) /\ Calm(s)
    BY <1>2, <2>2, CalmStates DEF GuardRead, r
  <2> QED BY <1>2, <1>b, <2>3 DEF GuardRead, db, Tasks
<1>3. CASE GuardRevalidate
  <2>1. PICK s : Go("scanner", s) /\ Calm(s)
    BY <1>3, CalmStates DEF GuardRevalidate, Tasks
  <2> QED BY <1>3, <1>b, <2>1 DEF GuardRevalidate, db, Tasks
<1>4. CASE GuardTrigger
  <2>1. \A obs, stop : GuardId(obs, stop, task["scanner"].seen) \in Ids
    <3>1. task["scanner"].seen \in 1..Lots
      BY <1>0, <1>4, ConstantsAssumption DEF GuardTrigger, TasksHold, State, Tasks
    <3> QED BY <3>1 DEF GuardId, Ids
  <2>2. PICK s : Go("scanner", s) /\ Calm(s)
    BY <1>4, <2>1, CalmStates DEF GuardTrigger
  <2> QED BY <1>4, <1>b, <2>2 DEF GuardTrigger, Tasks
<1>5. CASE Evaluate
  <2> DEFINE qty == Min({snap, HandLots + Lots - Sold})
  <2>1. qty > 0 => [src |-> "AI", qty |-> qty] \in Ids
    <3>1. snap \in 0..Lots /\ HandLots + Lots - Sold \in Int
      BY <1>0, SumsAreNatural, ConstantsAssumption DEF RestShape
    <3>2. qty \in Int /\ qty <= snap
      BY <3>1, ConstantsAssumption DEF Min
    <3> HIDE DEF qty
    <3> QED BY <3>1, <3>2, ConstantsAssumption DEF Ids
  <2>2. PICK s : Go("scanner", s) /\ Calm(s)
    BY <1>5, <2>1, CalmStates DEF Evaluate
  <2> QED BY <1>5, <1>b, <2>2 DEF Evaluate, Tasks
<1>6. CASE Reprice
  BY <1>6, <1>c DEF Reprice
<1>7. CASE Fire
  <2>1. [src |-> "MON", qty |-> lc.qty] \in Ids
    BY <1>0, <1>7, ConstantsAssumption DEF Fire, RestShape, Ids
  <2>2. PICK s : Go("monitor", s) /\ Calm(s)
    BY <1>7, <2>1, CalmStates DEF Fire
  <2> QED BY <1>7, <1>b, <2>2 DEF Fire, Tasks
<1>8. ASSUME NEW t \in Tasks, Gates(t) PROVE TasksHold'
  <2>1. Calm(After(t))
    BY CalmStates DEF After
  <2>2. PICK s : Go(t, s) /\ Calm(s)
    BY <1>8, <2>1, CalmStates DEF Gates
  <2> QED BY <1>8, <1>b, <2>2 DEF Gates, db
<1>9. ASSUME NEW t \in Tasks, Reserve(t) PROVE TasksHold'
  BY <1>9, ReserveTasks
<1>10. ASSUME NEW t \in Tasks, Send(t) PROVE TasksHold'
  <2>1. Go(t, After(t)) /\ Calm(After(t))
    BY <1>10, CalmStates DEF Send, After
  <2>2. \A u \in Tasks \ {t} : task[u].step # "send"
    BY <1>0, <1>10 DEF Send, TasksHold
  <2> QED BY <2>1, <2>2, CalmMove
<1>11. CASE Fill \/ Cancel
  <2>1. rows' = rows /\ task' = task /\ DOMAIN ex' = DOMAIN ex
    BY <1>0, <1>11 DEF Fill, Cancel, db, RowsShape
  <2> QED BY <1>a, <2>1, CalmStay
<1>12. ASSUME NEW i \in DOMAIN rows, Report(i) PROVE TasksHold'
  <2>1. /\ i \in DOMAIN ex /\ ex' = ex /\ task' = task /\ DOMAIN rows' = DOMAIN rows
        /\ \A j \in DOMAIN rows \ {i} : rows'[j] = rows[j]
    BY <1>0, <1>12 DEF Report, RowsShape
  <2> QED BY <1>a, <2>1, CalmStay
<1>13. CASE Reconcile \/ Poll \/ GatewayRestart \/ PriceMoves
  BY <1>13, <1>c DEF Reconcile, Poll, GatewayRestart, PriceMoves, db
<1>14. CASE ServerRestart
  <2>1. \A t \in Tasks : task'[t] = At("idle")
    BY <1>14 DEF ServerRestart
  <2>2. task' \in [Tasks -> State]
    BY <1>14, CalmStates DEF ServerRestart, Calm
  <2> QED BY <2>1, <2>2 DEF TasksHold, At
<1>15. CASE NextBucket
  <2>1. /\ task' = task /\ DOMAIN rows' = DOMAIN rows \ Over /\ DOMAIN ex' = DOMAIN ex \ Over
        /\ \A j \in DOMAIN rows' : rows'[j] = rows[j]
    BY <1>15 DEF NextBucket
  <2>2. \A j \in Over : rows[j].st # "PENDING"
    BY DEF Over
  <2> QED BY <1>a, <2>1, <2>2, CalmStay
<1>16. CASE UNCHANGED vars
  BY <1>16, <1>c DEF vars, db
<1> QED BY <1>1, <1>2, <1>3, <1>4, <1>5, <1>6, <1>7, <1>8, <1>9, <1>10, <1>11, <1>12, <1>13,
           <1>14, <1>15, <1>16
        DEF Next, Scanner, Monitor, Repairs, Dispatch, Tasks

\* Every step keeps the other tables.
LEMMA RestStep == IInv /\ [Next]_vars => RestShape'
<1> SUFFICES ASSUME IInv, [Next]_vars PROVE RestShape'
  OBVIOUS
<1> USE DEF RestShape
<1>0. /\ RowsShape /\ RowsSettled /\ TasksHold /\ RestShape /\ past \in Nat
      /\ Owned \in Int /\ Owned <= Lots /\ Sold \in Nat
  BY SumsAreNatural DEF IInv, HeldCovers
<1>a. Lots \in Nat \ {0}
  BY ConstantsAssumption
<1>b. Max({0, Owned}) \in 0..Lots
  BY <1>0, <1>a DEF Max
<1>c. CASE UNCHANGED <<price, snap, lc, audit, known, ex, intents>>
  BY <1>0, <1>c
<1>1. CASE TickStart \/ GuardRead \/ GuardRevalidate
  BY <1>1, <1>c DEF TickStart, GuardRead, GuardRevalidate, market, db, gw
<1>2. CASE GuardTrigger
  <2>1. task["scanner"].seen \in 1..Lots /\ lc.stop \in 1..2
    BY <1>0, <1>2, <1>a DEF GuardTrigger, TasksHold, State, Tasks
  <2>2. \A obs, stop : GuardId(obs, stop, task["scanner"].seen) \in Ids
    BY <2>1 DEF GuardId, Ids
  <2>3. lc' \in [qty : 0..Lots, stop : 1..2]
    BY <1>0, <1>2, <2>1 DEF GuardTrigger
  <2>4. audit' \subseteq Ids
    BY <1>0, <1>2, <2>2 DEF GuardTrigger
  <2> QED BY <1>0, <1>2, <2>3, <2>4 DEF GuardTrigger, market, gw
<1>3. CASE Evaluate
  <2> DEFINE qty == Min({snap, HandLots + Lots - Sold})
  <2>1. qty > 0 => [src |-> "AI", qty |-> qty] \in Ids
    <3>1. snap \in 0..Lots /\ HandLots + Lots - Sold \in Int
      BY <1>0, <1>a, ConstantsAssumption
    <3>2. qty \in Int /\ qty <= snap
      <4>1. \A a, b \in Int : Min({a, b}) \in Int /\ Min({a, b}) <= a
        BY DEF Min
      <4>2. snap \in Int
        BY <3>1, <1>a
      <4> QED BY <3>1, <4>1, <4>2
    <3> HIDE DEF qty
    <3> QED BY <1>a, <3>1, <3>2 DEF Ids
  <2>2. audit' \subseteq Ids
    BY <1>0, <1>3, <2>1 DEF Evaluate
  <2> QED BY <1>0, <1>3, <2>2 DEF Evaluate, market, gw
<1>4. CASE Reprice
  <2>1. ASSUME NEW id \in DOMAIN intents
        PROVE  StatusAfter(id) \in {"FILLED", "FAILED", "CANCELED"}
    BY <1>0 DEF StatusAfter, RowsShape, Row
  <2>2. intents' \in [DOMAIN intents' -> [st : {"ACCEPTED", "FILLED", "CANCELED", "FAILED"}, old : BOOLEAN]]
    BY <1>0, <1>4, <2>1 DEF Reprice
  <2> QED BY <1>0, <1>4, <2>2 DEF Reprice, market, gw
<1>5. CASE Fire
  <2> DEFINE i == [src |-> "MON", qty |-> lc.qty]
             v == [st |-> "ACCEPTED", old |-> FALSE]
  <2>1. intents' = Put(intents, i, v)
    BY <1>5 DEF Fire
  <2>2. v \in [st : {"ACCEPTED", "FILLED", "CANCELED", "FAILED"}, old : BOOLEAN]
    OBVIOUS
  <2> HIDE DEF i, v
  <2>3. intents' \in [DOMAIN intents' -> [st : {"ACCEPTED", "FILLED", "CANCELED", "FAILED"}, old : BOOLEAN]]
    BY <1>0, <2>1, <2>2 DEF Put
  <2> QED BY <1>0, <1>5, <2>3 DEF Fire, market, gw
<1>6. ASSUME NEW t \in Tasks, Gates(t) \/ Reserve(t) PROVE RestShape'
  BY <1>6, <1>c DEF Gates, Reserve, market, db, gw
<1>7. ASSUME NEW t \in Tasks, Send(t) PROVE RestShape'
  BY <1>0, <1>7 DEF Send, Placed, Refused, Put, market
<1>8. CASE Fill \/ Cancel
  <2>1. DOMAIN ex' = DOMAIN ex
    BY <1>0, <1>8 DEF Fill, Cancel, RowsShape
  <2> QED BY <1>0, <1>8, <2>1 DEF Fill, Cancel, market, db, gw
<1>9. ASSUME NEW i \in DOMAIN rows, Report(i) PROVE RestShape'
  <2>1. i \in DOMAIN ex /\ rows[i].filled <= ex[i].sold
    BY <1>0, <1>9 DEF Report, RowsSettled
  <2>2. ex[i].sold \in Nat /\ rows[i].filled \in Nat /\ lc.qty \in 0..Lots
    BY <1>0, <1>a, <2>1 DEF RowsShape, Row, Order
  <2>3. Max({0, lc.qty - (ex[i].sold - rows[i].filled)}) \in 0..Lots
    BY <1>a, <2>1, <2>2 DEF Max
  <2>4. lc' \in [qty : 0..Lots, stop : 1..2]
    BY <1>0, <1>9, <2>3 DEF Report
  <2> QED BY <1>0, <1>9, <2>4 DEF Report, market, gw
<1>10. CASE Reconcile
  BY <1>0, <1>10, <1>b DEF Reconcile, market, gw
<1>11. CASE Poll
  BY <1>0, <1>11, <1>b DEF Poll, market, db
<1>12. CASE GatewayRestart
  BY <1>0, <1>12, <1>a DEF GatewayRestart, market, db
<1>13. CASE ServerRestart \/ UNCHANGED vars
  BY <1>13, <1>c DEF ServerRestart, vars, market, db, gw
<1>14. CASE PriceMoves
  BY <1>0, <1>14 DEF PriceMoves, db, gw
<1>15. CASE NextBucket
  <2>1. /\ DOMAIN ex' = DOMAIN ex \ Over /\ known' = known \ Over /\ audit' \subseteq audit
        /\ UNCHANGED <<price, lc, snap>>
    BY <1>15 DEF NextBucket, market
  <2>2. intents' \in [DOMAIN intents' -> [st : {"ACCEPTED", "FILLED", "CANCELED", "FAILED"}, old : BOOLEAN]]
    BY <1>0, <1>15 DEF NextBucket
  <2> QED BY <1>0, <2>1, <2>2
<1> QED BY <1>1, <1>2, <1>3, <1>4, <1>5, <1>6, <1>7, <1>8, <1>9, <1>10, <1>11, <1>12, <1>13,
           <1>14, <1>15
        DEF Next, Scanner, Monitor, Repairs, Dispatch, Tasks

-----------------------------------------------------------------------------
\* The initial state satisfies the invariant.
LEMMA InitHolds == Init => IInv
<1> SUFFICES ASSUME Init PROVE IInv
  OBVIOUS
<1>1. DOMAIN ex = {} /\ DOMAIN rows = {} /\ DOMAIN intents = {} /\ Working = {}
  BY DEF Init, Working
<1>2. RowsShape /\ OnePending /\ RowsSettled
  BY <1>1 DEF RowsShape, OnePending, RowsSettled, Init
<1>3. task \in [Tasks -> State] /\ \A t \in Tasks : task[t].step = "idle"
  BY ConstantsAssumption DEF Init, At, State, Steps
<1>4. Sold = 0
  <2>1. [id \in DOMAIN ex |-> ex[id].sold] = [id \in {} |-> ex[id].sold]
    BY <1>1
  <2>2. DOMAIN [id \in {} |-> ex[id].sold] = {}
    OBVIOUS
  <2> DEFINE f == [id \in DOMAIN ex |-> ex[id].sold]
  <2>3. SumFunction(f) = SumFunctionOnSet(f, {})
    BY <1>1, SumWhole
  <2> HIDE DEF f
  <2>4. SumFunction(f) = 0
    BY <2>3, SumEmpty
  <2> QED BY <2>4 DEF Sold, Init, f
<1>5. SendCovered /\ HeldCovers /\ ExitsOwned /\ TasksHold
  BY <1>1, <1>3, <1>4, ConstantsAssumption
     DEF SendCovered, HeldCovers, ExitsOwned, TasksHold, Init
<1>6. RestShape
  BY <1>1, ConstantsAssumption DEF RestShape, Init
<1> QED BY <1>2, <1>5, <1>6 DEF IInv

\* The invariant of the exits, for any position and any bounds.
THEOREM InvariantHolds == Spec => []IInv
<1>1. Init => IInv
  BY InitHolds
<1>2. IInv /\ [Next]_vars => IInv'
  BY RowsStep, CoveredStep, TasksStep, RestStep DEF IInv, RowsInv, Covered
<1> QED BY <1>1, <1>2, PTL DEF Spec

\* Every variable keeps its shape; no more is sold than the bot and the owner
\* had, whoever sends the orders.
THEOREM TypesHold == Spec => []TypeOK
<1>1. IInv => TypeOK
  <2> SUFFICES ASSUME IInv PROVE TypeOK
    OBVIOUS
  <2>1. past \in 0..Lots + HandLots
    BY SumsAreNatural, ConstantsAssumption DEF IInv, HeldCovers
  <2>2. \A id \in DOMAIN ex : ex[id].left + ex[id].sold \in 0..Lots
    BY ConstantsAssumption DEF IInv, RowsShape, Order
  <2>3. \A t \in Tasks : task[t].id \in Ids \union {NoOrder}
    BY DEF IInv, TasksHold, State
  <2>4. \A id \in DOMAIN rows : rows[id].st \in {"PENDING", "FILLED", "CANCELED", "REJECTED"}
    BY DEF IInv, RowsShape, Row
  <2> QED BY <2>1, <2>2, <2>3, <2>4 DEF IInv, RowsShape, RestShape, TypeOK
<1> QED BY <1>1, InvariantHolds, PTL

\* While an exit of the guard works at the exchange, what it may still sell
\* and what was sold before are lots the bot bought.
THEOREM GuardSellsItsOwn == Spec => []ExitsOwned
<1>1. IInv => ExitsOwned
  BY DEF IInv
<1> QED BY <1>1, InvariantHolds, PTL
=============================================================================
