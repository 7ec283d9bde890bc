----------------------- MODULE CashReservationProofs -----------------------
(***************************************************************************)
(* The bot's budget and the account's cash are kept by the sizing of any   *)
(* number of dispatchers and orders.                                       *)
(*                                                                         *)
(* What a dispatcher reads under the advisory lock stays true until it     *)
(* commits, because the lock keeps the other sizings out and the row locks *)
(* keep callbacks and rejections out: LockHeld.  With it, what all orders  *)
(* have cost or may cost is what the sizing has subtracted.                *)
(***************************************************************************)
EXTENDS CashReservation, SumTheorems

\* A ledger row against its order at the broker.
RowsHold ==
  \A r \in Orders :
    /\ ledger[r].filled <= broker[r].filled /\ broker[r].filled <= ledger[r].qty
    /\ broker[r].open => ledger[r].open
    /\ ledger[r].open => ledger[r].qty > 0
    /\ ~ledger[r].open => ledger[r].filled = broker[r].filled

\* A dispatcher at work has one order of its own, not yet sized, or sized and
\* not yet at the broker.
RequestsHold ==
  /\ \A w \in Workers : wk[w].pc = "idle" \/ \E r \in Orders : wk[w].req = {r}
  /\ \A w \in Workers : wk[w].pc = "idle" => wk[w].req = {}
  /\ \A v, w \in Workers : v # w => wk[v].req \cap wk[w].req = {}
  /\ \A w \in Workers : wk[w].pc \in {"fetch", "begun", "locked"} =>
       \A r \in wk[w].req : ledger[r].qty = 0
  /\ \A w \in Workers : wk[w].pc = "send" =>
       \A r \in wk[w].req : ledger[r].open /\ broker[r] = [open |-> FALSE, filled |-> 0]

\* What was read under the lock is still so.
LockHeld ==
  \A w \in Workers : wk[w].pc = "locked" =>
    /\ lock = {w}
    /\ wk[w].frozen = {r \in Orders : ledger[r].open}
    /\ wk[w].reserved = SumFunction(Reserved)

IInv ==
  /\ TypeOK /\ handling \in Handlings
  /\ RowsHold /\ RequestsHold /\ LockHeld
  /\ BudgetKept /\ OpenWithinCash

-----------------------------------------------------------------------------
\* There are finitely many orders, symbols and orders of a symbol.
LEMMA FinitelyMany ==
  IsFiniteSet(Orders) /\ IsFiniteSet(Symbols) /\ \A s \in Symbols : IsFiniteSet(Of(s))
<1>1. IsFiniteSet(Orders)
  BY ConstantsAssumption
<1>2. IsFiniteSet(Symbols)
  <2> DEFINE f == [r \in Orders |-> SymOf[r]]
  <2>1. f \in Surjection(Orders, Symbols)
    BY DEF Surjection, Symbols
  <2> QED BY <1>1, <2>1, FS_Surjection
<1>3. \A s \in Symbols : IsFiniteSet(Of(s))
  BY <1>1, FS_Subset DEF Of
<1> QED BY <1>1, <1>2, <1>3

\* Least is what its name says.
LEMMA LeastIsSmallest ==
  ASSUME NEW S \in SUBSET Nat, S # {}
  PROVE  Least(S) \in S /\ \A n \in S : Least(S) <= n
BY SmallestElement DEF Least

\* The functions that are summed, and their sums, are of natural numbers.
LEMMA SumsAreNatural ==
  ASSUME TypeOK, RowsHold
  PROVE  /\ Reserved \in [Orders -> Nat] /\ SumFunction(Reserved) \in Nat
         /\ Filled \in [Orders -> Nat] /\ SumFunctionOnSet(Filled, Orders) \in Nat
         /\ Bought \in [Orders -> Nat] /\ SumFunction(Bought) \in Nat
         /\ Committed \in [Orders -> Nat] /\ SumFunction(Committed) \in Nat
         /\ Owned \in [Symbols -> Nat] /\ SumFunction(Owned) \in Nat
<1>1. /\ Reserved \in [Orders -> Nat] /\ Filled \in [Orders -> Nat]
      /\ Bought \in [Orders -> Nat] /\ Committed \in [Orders -> Nat]
  BY DEF TypeOK, RowsHold, Reserved, Filled, Bought, Committed
<1>2. Owned \in [Symbols -> Nat]
  <2>1. \A s \in Symbols : SumFunctionOnSet(Filled, Of(s)) \in Nat
    <3>1. ASSUME NEW s \in Symbols PROVE SumFunctionOnSet(Filled, Of(s)) \in Nat
      <4>1. IsFiniteSet(Of(s)) /\ \A r \in Of(s) : Filled[r] \in Nat
        BY <1>1, FinitelyMany DEF Of
      <4> QED BY <4>1, SumNat
    <3> QED BY <3>1
  <2> QED BY <2>1 DEF Owned
<1>3. ASSUME NEW S, IsFiniteSet(S), NEW f \in [S -> Nat]
      PROVE  SumFunction(f) = SumFunctionOnSet(f, S) /\ SumFunctionOnSet(f, S) \in Nat
  BY <1>3, SumWhole, SumNat
<1> QED BY <1>1, <1>2, <1>3, FinitelyMany

\* What all orders have cost or may cost is what the ledger knows to be owned
\* and what it reserves: the two terms calculate_buy_size subtracts.
LEMMA LedgerCountsAll ==
  ASSUME TypeOK, RowsHold
  PROVE  SumFunction(Committed) = SumFunction(Owned) + SumFunction(Reserved)
<1>1. \A r \in Orders : Committed[r] = Filled[r] + Reserved[r]
  BY DEF TypeOK, RowsHold, Committed, Filled, Reserved
<1>2. SumFunctionOnSet(Committed, Orders)
        = SumFunctionOnSet(Filled, Orders) + SumFunctionOnSet(Reserved, Orders)
  BY <1>1, FinitelyMany, SumsAreNatural, SumPlus
<1>3. SumFunctionOnSet(Owned, Symbols) = SumFunctionOnSet(Filled, Orders)
  <2> DEFINE of == [s \in Symbols |-> Of(s)]
  <2>1. \A r \in Orders : Filled[r] \in Int
    BY SumsAreNatural
  <2>2. \A s \in Symbols : of[s] \in SUBSET Orders /\ Owned[s] = SumFunctionOnSet(Filled, of[s])
    BY DEF Owned, Of
  <2>3. \A r \in Orders : \E s \in Symbols : r \in of[s]
    BY DEF Symbols, Of
  <2>4. \A s, t \in Symbols : s # t => of[s] \cap of[t] = {}
    BY DEF Of
  <2>5. IsFiniteSet(Orders) /\ IsFiniteSet(Symbols)
    BY FinitelyMany
  <2> HIDE DEF of
  <2> QED BY <2>1, <2>2, <2>3, <2>4, <2>5, SumPartition
<1>4. /\ SumFunction(Committed) = SumFunctionOnSet(Committed, Orders)
      /\ SumFunction(Owned) = SumFunctionOnSet(Owned, Symbols)
      /\ SumFunction(Reserved) = SumFunctionOnSet(Reserved, Orders)
  BY SumWhole, SumsAreNatural
<1> QED BY <1>2, <1>3, <1>4

\* The broker never reports more buying power than the account had at first.
LEMMA PowerWithinCash ==
  ASSUME TypeOK, RowsHold
  PROVE  BuyingPower \in 0..Cash
<1> DEFINE open == {r \in Orders : broker[r].open}
           left == [r \in Orders |-> ledger[r].qty - broker[r].filled]
<1>1. SumFunction(Bought) \in Nat
  BY SumsAreNatural
<1>2. SumFunctionOnSet(left, open) \in Nat
  <2>1. IsFiniteSet(open) /\ \A r \in open : left[r] \in Nat
    BY FinitelyMany, FS_Subset DEF TypeOK, RowsHold
  <2> HIDE DEF open, left
  <2> QED BY <2>1, SumNat
<1>3. Cash \in Nat
  BY ConstantsAssumption
<1>4. BuyingPower \in {Less(Cash, SumFunction(Bought)),
                       Less(Cash, SumFunction(Bought) + SumFunctionOnSet(left, open))}
  BY DEF BuyingPower
<1> HIDE DEF left, open
<1> QED BY <1>1, <1>2, <1>3, <1>4 DEF Less

\* An order is sized within its own bound, within the budget that is left and,
\* where the backend deducts, within the cash that is left.
LEMMA SizeWithinLimits ==
  ASSUME TypeOK, RowsHold, NEW w \in Workers
  PROVE  /\ Size(w) \in 0..Want
         /\ Size(w) > 0 => /\ SumFunction(Owned) + wk[w].reserved + Size(w) <= Budget
                           /\ handling = "BACKEND_DEDUCTED" => wk[w].reserved + Size(w) <= Cash
<1> DEFINE owned == SumFunction(Owned)
           S == {Want, EffectiveCash(w), Less(Budget, owned + wk[w].reserved)}
<1>1. owned \in Nat /\ wk[w].reserved \in Nat /\ wk[w].power \in 0..Cash
  BY SumsAreNatural DEF TypeOK
<1>2. Want \in Nat /\ Budget \in Nat /\ Cash \in Nat
  BY ConstantsAssumption
<1>3. SumFunctionOnSet(Reserved, Orders \ wk[w].seen) \in Nat
  <2>1. IsFiniteSet(Orders \ wk[w].seen)
    BY FinitelyMany, FS_Subset
  <2> QED BY <2>1, SumsAreNatural, SumNat
<1>4. EffectiveCash(w) \in Nat
  BY <1>1, <1>2, <1>3 DEF EffectiveCash, Less
<1>5. S \in SUBSET Nat /\ S # {}
  BY <1>1, <1>2, <1>4 DEF Less
<1>6. Least(S) \in Nat /\ Least(S) <= Want /\ Least(S) <= EffectiveCash(w)
      /\ Least(S) <= Less(Budget, owned + wk[w].reserved)
  BY <1>5, LeastIsSmallest
<1>7. Size(w) = 0 \/ Size(w) = Least(S)
  BY DEF Size
<1> HIDE DEF S, owned
<1>8. handling = "BACKEND_DEDUCTED" => EffectiveCash(w) = Less(wk[w].power, wk[w].reserved)
  BY DEF EffectiveCash
<1>9. Size(w) \in 0..Want
  BY <1>2, <1>6, <1>7
<1>10. Size(w) > 0 => owned + wk[w].reserved + Size(w) <= Budget
  BY <1>1, <1>2, <1>6, <1>7 DEF Less
<1>11. Size(w) > 0 /\ handling = "BACKEND_DEDUCTED" => wk[w].reserved + Size(w) <= Cash
  BY <1>1, <1>2, <1>4, <1>6, <1>7, <1>8 DEF Less
<1> QED BY <1>9, <1>10, <1>11 DEF owned

-----------------------------------------------------------------------------
\* The initial state satisfies the invariant.
LEMMA InitHolds == Init => IInv
<1> SUFFICES ASSUME Init PROVE IInv
  OBVIOUS
<1>1. TypeOK /\ handling \in Handlings /\ RowsHold /\ RequestsHold /\ LockHeld
  BY ConstantsAssumption DEF Init, Idle, TypeOK, RowsHold, RequestsHold, LockHeld
<1>2. ASSUME NEW f \in [Orders -> Nat], \A r \in Orders : f[r] = 0
      PROVE  SumFunction(f) = 0
  BY <1>2, FinitelyMany, SumZero, SumWhole
<1>3. \A r \in Orders : Committed[r] = 0 /\ Reserved[r] = 0
  BY DEF Init, Committed, Reserved
<1>4. SumFunction(Committed) = 0 /\ SumFunction(Reserved) = 0
  BY <1>1, <1>2, <1>3, SumsAreNatural
<1> QED BY <1>1, <1>4, ConstantsAssumption DEF IInv, BudgetKept, OpenWithinCash

\* What a dispatcher has read.
Dispatcher == [pc : {"idle", "fetch", "begun", "locked", "send"}, req : SUBSET Orders,
               power : 0..Cash, seen : SUBSET Orders, pos : [Symbols -> Nat],
               got : SUBSET {"account", "positions"}, reserved : Nat, frozen : SUBSET Orders]

\* Every step keeps the types.
LEMMA TypeStep == IInv /\ [Next]_vars => TypeOK' /\ (handling \in Handlings)'
<1> SUFFICES ASSUME IInv, [Next]_vars PROVE TypeOK' /\ (handling \in Handlings)'
  OBVIOUS
<1> USE DEF TypeOK
<1>0. TypeOK /\ handling \in Handlings /\ RowsHold /\ RequestsHold
  BY DEF IInv
<1>a. handling' = handling
  BY DEF Next, vars
<1>b. Manual \in [Symbols -> Nat] /\ Cash \in Nat /\ Want \in Nat
  BY ConstantsAssumption
<1>c. ASSUME NEW w \in Workers, NEW d \in Dispatcher, wk' = [wk EXCEPT ![w] = d]
      PROVE  wk' \in [Workers -> Dispatcher]
  BY <1>0, <1>c DEF Dispatcher
<1>d. Idle \in Dispatcher /\ \A w \in Workers : wk[w] \in Dispatcher
  BY <1>0, <1>b DEF Idle, Dispatcher
<1>1. ASSUME NEW w \in Workers, NEW r \in Orders, Dispatch(w, r) PROVE TypeOK'
  <2>1. [Idle EXCEPT !.pc = "fetch", !.req = {r}] \in Dispatcher
    BY <1>d DEF Dispatcher
  <2>2. wk' \in [Workers -> Dispatcher]
    BY <1>1, <1>c, <2>1 DEF Dispatch
  <2> QED BY <1>0, <1>1, <2>2 DEF Dispatch, Dispatcher
<1>2. ASSUME NEW w \in Workers, FetchAccount(w) PROVE TypeOK'
  <2> DEFINE d == [wk[w] EXCEPT !.power = BuyingPower, !.seen = begun, !.got = @ \union {"account"}]
  <2>1. BuyingPower \in 0..Cash
    BY <1>0, PowerWithinCash
  <2>2. d \in Dispatcher
    BY <1>0, <1>d, <2>1 DEF Dispatcher
  <2>3. wk' = [wk EXCEPT ![w] = d]
    BY <1>0, <1>2 DEF FetchAccount
  <2>4. wk' \in [Workers -> Dispatcher]
    BY <1>c, <2>2, <2>3
  <2> QED BY <1>0, <1>2, <2>4 DEF FetchAccount, Dispatcher
<1>3. ASSUME NEW w \in Workers, FetchPositions(w) PROVE TypeOK'
  <2> DEFINE d == [wk[w] EXCEPT !.pos = held, !.got = @ \union {"positions"}]
  <2>1. d \in Dispatcher
    BY <1>0, <1>d DEF Dispatcher
  <2>2. wk' = [wk EXCEPT ![w] = d]
    BY <1>0, <1>3 DEF FetchPositions
  <2>3. wk' \in [Workers -> Dispatcher]
    BY <1>c, <2>1, <2>2
  <2> QED BY <1>0, <1>3, <2>3 DEF FetchPositions, Dispatcher
<1>4. ASSUME NEW w \in Workers, Begin(w) PROVE TypeOK'
  <2> DEFINE d == [wk[w] EXCEPT !.pc = "begun"]
  <2>1. d \in Dispatcher /\ wk[w].req \in SUBSET Orders
    BY <1>d DEF Dispatcher
  <2>2. wk' = [wk EXCEPT ![w] = d]
    BY <1>0, <1>4 DEF Begin
  <2>3. wk' \in [Workers -> Dispatcher]
    BY <1>c, <2>1, <2>2
  <2> QED BY <1>0, <1>4, <2>1, <2>3 DEF Begin, Dispatcher
<1>5. ASSUME NEW w \in Workers, Lock(w) PROVE TypeOK'
  <2> DEFINE d == [wk[w] EXCEPT !.pc = "locked", !.reserved = SumFunction(Reserved),
                                !.frozen = {r \in Orders : ledger[r].open}]
  <2>1. SumFunction(Reserved) \in Nat
    BY <1>0, SumsAreNatural
  <2>2. d \in Dispatcher
    BY <1>d, <2>1 DEF Dispatcher
  <2>3. wk' = [wk EXCEPT ![w] = d]
    BY <1>0, <1>5 DEF Lock
  <2>4. wk' \in [Workers -> Dispatcher]
    BY <1>c, <2>2, <2>3
  <2> QED BY <1>0, <1>5, <2>4 DEF Lock, Dispatcher
<1>6. ASSUME NEW w \in Workers, Commit(w) PROVE TypeOK'
  <2>1. Size(w) \in 0..Want
    BY <1>0, SizeWithinLimits
  <2>2. [Idle EXCEPT !.pc = "send", !.req = wk[w].req] \in Dispatcher
    BY <1>d DEF Dispatcher
  <2>3. wk' \in [Workers -> Dispatcher]
    BY <1>6, <1>c, <1>d, <2>2 DEF Commit
  <2>4. ledger' \in [Orders -> [qty : 0..Want, filled : 0..Want, open : BOOLEAN]]
    <3>1. [qty |-> Size(w), filled |-> 0, open |-> TRUE]
            \in [qty : 0..Want, filled : 0..Want, open : BOOLEAN]
      BY <1>b, <2>1
    <3>2. wk[w].req \subseteq Orders
      BY <1>0
    <3> QED BY <1>0, <1>6, <3>1, <3>2 DEF Commit
  <2> QED BY <1>0, <1>6, <2>3, <2>4 DEF Commit, Dispatcher
<1>7. ASSUME NEW w \in Workers, Send(w) PROVE TypeOK'
  <2>1. wk' \in [Workers -> Dispatcher]
    BY <1>7, <1>c, <1>d DEF Send
  <2>2. PICK r \in Orders, taken \in BOOLEAN : /\ broker' = [broker EXCEPT ![r].open = taken]
                                               /\ ledger' = [ledger EXCEPT ![r].open = taken]
    BY <1>0, <1>7 DEF Send
  <2>3. /\ ledger' \in [Orders -> [qty : 0..Want, filled : 0..Want, open : BOOLEAN]]
        /\ broker' \in [Orders -> [open : BOOLEAN, filled : 0..Want]]
    BY <1>0, <2>2
  <2> QED BY <1>0, <1>7, <2>1, <2>3 DEF Send, Dispatcher
<1>8. ASSUME NEW r \in Orders, Fill(r) PROVE TypeOK'
  <2>1. PICK n \in (broker[r].filled + 1)..ledger[r].qty :
          broker' = [broker EXCEPT ![r] = [filled |-> n, open |-> n < ledger[r].qty]]
    BY <1>8 DEF Fill
  <2>2. broker[r].filled \in 0..Want /\ ledger[r].qty \in 0..Want
    BY <1>0
  <2>3. [filled |-> n, open |-> n < ledger[r].qty] \in [open : BOOLEAN, filled : 0..Want]
    BY <1>b, <2>1, <2>2
  <2>4. broker' \in [Orders -> [open : BOOLEAN, filled : 0..Want]]
    BY <1>0, <2>1, <2>3
  <2> QED BY <1>0, <1>8, <2>4 DEF Fill
<1>9. ASSUME NEW r \in Orders, End(r) PROVE TypeOK'
  BY <1>0, <1>9 DEF End
<1>10. ASSUME NEW r \in Orders, Callback(r) PROVE TypeOK'
  <2> DEFINE row == [ledger[r] EXCEPT !.filled = broker[r].filled, !.open = broker[r].open]
  <2>1. row \in [qty : 0..Want, filled : 0..Want, open : BOOLEAN]
    BY <1>0
  <2>2. ledger' = [ledger EXCEPT ![r] = row]
    BY <1>0, <1>10 DEF Callback
  <2>3. ledger' \in [Orders -> [qty : 0..Want, filled : 0..Want, open : BOOLEAN]]
    BY <1>0, <2>1, <2>2
  <2> QED BY <1>0, <1>10, <2>3 DEF Callback
<1>11. ASSUME NEW s \in Symbols, PositionEvent(s) PROVE TypeOK'
  <2>1. IsFiniteSet(Of(s)) /\ \A r \in Of(s) : Bought[r] \in Nat
    BY <1>0, FinitelyMany, SumsAreNatural DEF Of
  <2>2. SumFunctionOnSet(Bought, Of(s)) \in Nat
    BY <2>1, SumNat
  <2>3. Manual[s] + SumFunctionOnSet(Bought, Of(s)) \in Nat
    BY <1>b, <2>2
  <2>4. held' = [held EXCEPT ![s] = Manual[s] + SumFunctionOnSet(Bought, Of(s))]
    BY <1>11 DEF PositionEvent
  <2>5. held' \in [Symbols -> Nat]
    BY <1>0, <2>3, <2>4
  <2> QED BY <1>0, <1>11, <2>5 DEF PositionEvent
<1>12. CASE UNCHANGED vars
  BY <1>0, <1>12 DEF vars
<1> QED BY <1>0, <1>a, <1>1, <1>2, <1>3, <1>4, <1>5, <1>6, <1>7, <1>8, <1>9, <1>10, <1>11, <1>12 DEF Next

\* Every step keeps rows and orders in step.
LEMMA RowsStep == IInv /\ [Next]_vars => RowsHold'
<1> SUFFICES ASSUME IInv, [Next]_vars PROVE RowsHold'
  OBVIOUS
<1> USE DEF RowsHold
<1>0. TypeOK /\ RowsHold /\ RequestsHold
  BY DEF IInv
<1>1. ASSUME NEW w \in Workers, Commit(w) PROVE RowsHold'
  <2>1. Size(w) \in Nat
    BY <1>0, SizeWithinLimits DEF TypeOK
  <2>2. \A r \in wk[w].req : r \in Orders /\ ledger[r].qty = 0
    BY <1>0, <1>1 DEF Commit, RequestsHold, TypeOK
  <2> QED BY <1>0, <1>1, <2>1, <2>2 DEF Commit, Allowed, TypeOK
<1>2. ASSUME NEW w \in Workers, Send(w) PROVE RowsHold'
  BY <1>0, <1>2 DEF Send, RequestsHold, TypeOK
<1>3. ASSUME NEW r \in Orders, Fill(r) PROVE RowsHold'
  BY <1>0, <1>3 DEF Fill, TypeOK
<1>4. ASSUME NEW r \in Orders, End(r) PROVE RowsHold'
  BY <1>0, <1>4 DEF End, TypeOK
<1>5. ASSUME NEW r \in Orders, Callback(r) PROVE RowsHold'
  BY <1>0, <1>5 DEF Callback, TypeOK
<1>6. CASE UNCHANGED <<ledger, broker>>
  BY <1>0, <1>6
<1> QED BY <1>1, <1>2, <1>3, <1>4, <1>5, <1>6
        DEF Next, vars, Dispatch, FetchAccount, FetchPositions, Begin, Lock, PositionEvent

\* Every step leaves each dispatcher an order of its own.
LEMMA RequestsStep == IInv /\ [Next]_vars => RequestsHold'
<1> SUFFICES ASSUME IInv, [Next]_vars PROVE RequestsHold'
  OBVIOUS
<1> USE DEF RequestsHold
<1>0. TypeOK /\ RowsHold /\ RequestsHold
  BY DEF IInv
<1>1. ASSUME NEW w \in Workers, NEW r \in Orders, Dispatch(w, r) PROVE RequestsHold'
  BY <1>0, <1>1 DEF Dispatch, Idle, TypeOK
<1>2. ASSUME NEW w \in Workers, FetchAccount(w) \/ FetchPositions(w) \/ Begin(w) \/ Lock(w)
      PROVE  RequestsHold'
  <2>1. /\ ledger' = ledger /\ broker' = broker /\ wk[w].pc \in {"fetch", "begun"}
        /\ wk'[w].req = wk[w].req /\ wk'[w].pc \in {"fetch", "begun", "locked"}
    BY <1>0, <1>2 DEF FetchAccount, FetchPositions, Begin, Lock, TypeOK
  <2>2. \A v \in Workers \ {w} : wk'[v] = wk[v]
    BY <1>0, <1>2 DEF FetchAccount, FetchPositions, Begin, Lock, TypeOK
  <2> QED BY <1>0, <2>1, <2>2
<1>3. ASSUME NEW w \in Workers, Commit(w) PROVE RequestsHold'
  <2>1. CASE Allowed(w)
    <3>1. PICK r \in wk[w].req :
            ledger' = [ledger EXCEPT ![r] = [qty |-> Size(w), filled |-> 0, open |-> TRUE]]
      BY <1>3, <2>1 DEF Commit
    <3>2. /\ wk' = [wk EXCEPT ![w] = [Idle EXCEPT !.pc = "send", !.req = wk[w].req]]
          /\ wk[w].pc = "locked" /\ broker' = broker
      BY <1>3, <2>1 DEF Commit
    <3>3. r \in Orders /\ wk[w].req = {r}
      <4>1. \E q \in Orders : wk[w].req = {q}
        BY <1>0, <3>2
      <4> QED BY <3>1, <4>1
    <3>4. ledger[r].qty = 0
      BY <1>0, <3>1, <3>2
    <3>5. broker[r] = [open |-> FALSE, filled |-> 0]
      BY <1>0, <3>3, <3>4 DEF RowsHold, TypeOK
    <3>6. wk'[w].pc = "send" /\ wk'[w].req = {r} /\ \A v \in Workers \ {w} : wk'[v] = wk[v]
      BY <1>0, <3>2, <3>3 DEF Idle, TypeOK
    <3>7. ledger'[r].open /\ \A q \in Orders \ {r} : ledger'[q] = ledger[q]
      BY <1>0, <3>1, <3>3 DEF TypeOK
    <3>8. \A v \in Workers : wk[v].req \subseteq Orders /\ (v # w => r \notin wk[v].req)
      BY <1>0, <3>1 DEF TypeOK
    <3> QED BY <1>0, <3>2, <3>3, <3>5, <3>6, <3>7, <3>8
  <2>2. CASE ~Allowed(w)
    <3>1. wk'[w].pc = "idle" /\ wk'[w].req = {} /\ \A v \in Workers \ {w} : wk'[v] = wk[v]
      BY <1>0, <1>3, <2>2 DEF Commit, Idle, TypeOK
    <3>2. ledger' = ledger /\ broker' = broker
      BY <1>3, <2>2 DEF Commit
    <3> QED BY <1>0, <3>1, <3>2
  <2> QED BY <2>1, <2>2
<1>4. ASSUME NEW w \in Workers, Send(w) PROVE RequestsHold'
  <2>1. PICK r \in wk[w].req, taken \in BOOLEAN : /\ broker' = [broker EXCEPT ![r].open = taken]
                                                  /\ ledger' = [ledger EXCEPT ![r].open = taken]
    BY <1>4 DEF Send
  <2>2. /\ wk[w].pc = "send" /\ wk' = [wk EXCEPT ![w] = Idle]
        /\ r \in Orders /\ ledger'[r].qty = ledger[r].qty
    BY <1>0, <1>4, <2>1 DEF Send, TypeOK
  <2>3. \A v \in Workers \ {w} : r \notin wk[v].req /\ wk'[v] = wk[v]
    BY <1>0, <2>1, <2>2 DEF TypeOK
  <2>4. wk'[w].pc = "idle" /\ wk'[w].req = {}
    BY <1>0, <2>2 DEF Idle, TypeOK
  <2>5. \A q \in Orders \ {r} : ledger'[q] = ledger[q] /\ broker'[q] = broker[q]
    BY <1>0, <2>1 DEF TypeOK
  <2>6. \A v \in Workers : wk[v].req \subseteq Orders
    BY <1>0 DEF TypeOK
  <2> QED BY <1>0, <2>3, <2>4, <2>5, <2>6
<1>5. ASSUME NEW r \in Orders, Fill(r) \/ End(r) PROVE RequestsHold'
  <2>1. broker[r].open /\ wk' = wk /\ ledger' = ledger /\ \A q \in Orders \ {r} : broker'[q] = broker[q]
    BY <1>0, <1>5 DEF Fill, End, TypeOK
  <2>2. \A w \in Workers : wk[w].req \subseteq Orders
    BY <1>0 DEF TypeOK
  <2> QED BY <1>0, <2>1, <2>2
<1>6. ASSUME NEW r \in Orders, Callback(r) PROVE RequestsHold'
  <2>1. /\ \A w \in Workers : wk[w].req # {r}
        /\ wk' = wk /\ broker' = broker /\ \A q \in Orders \ {r} : ledger'[q] = ledger[q]
        /\ ledger'[r].qty = ledger[r].qty
    BY <1>0, <1>6 DEF Callback, TypeOK
  <2>2. \A w \in Workers : r \notin wk[w].req /\ wk[w].req \subseteq Orders
    BY <1>0, <2>1 DEF TypeOK
  <2> QED BY <1>0, <2>1, <2>2
<1>7. CASE UNCHANGED <<wk, ledger, broker>>
  BY <1>0, <1>7
<1> QED BY <1>1, <1>2, <1>3, <1>4, <1>5, <1>6, <1>7 DEF Next, vars, PositionEvent

\* Every step leaves what is read under the lock true: nothing else that could
\* change it moves while a dispatcher holds it.
LEMMA LockStep == IInv /\ [Next]_vars => LockHeld'
<1> SUFFICES ASSUME IInv, [Next]_vars, NEW v \in Workers, wk'[v].pc = "locked"
             PROVE  /\ lock' = {v}
                    /\ wk'[v].frozen = {r \in Orders : ledger'[r].open}
                    /\ wk'[v].reserved = SumFunction(Reserved')
  BY DEF LockHeld
<1>0. TypeOK /\ RowsHold /\ RequestsHold /\ LockHeld
  BY DEF IInv
<1>a. ASSUME ledger' = ledger PROVE Reserved' = Reserved
  BY <1>a DEF Reserved
<1>1. ASSUME NEW w \in Workers,
             (\E r \in Orders : Dispatch(w, r)) \/ FetchAccount(w) \/ FetchPositions(w) \/ Begin(w)
      PROVE  v # w /\ wk'[v] = wk[v] /\ lock' = lock /\ ledger' = ledger
  <2>1. CASE \E r \in Orders : Dispatch(w, r)
    BY <1>0, <2>1 DEF Dispatch, Idle, TypeOK
  <2>2. CASE FetchAccount(w)
    BY <1>0, <2>2 DEF FetchAccount, TypeOK
  <2>3. CASE FetchPositions(w)
    BY <1>0, <2>3 DEF FetchPositions, TypeOK
  <2>4. CASE Begin(w)
    BY <1>0, <2>4 DEF Begin, TypeOK
  <2> QED BY <1>1, <2>1, <2>2, <2>3, <2>4
<1>2. ASSUME NEW w \in Workers, Lock(w)
      PROVE  /\ lock' = {v}
             /\ wk'[v].frozen = {r \in Orders : ledger'[r].open}
             /\ wk'[v].reserved = SumFunction(Reserved')
  <2>1. v = w
    BY <1>0, <1>2 DEF Lock, LockHeld, TypeOK
  <2> QED BY <1>0, <1>2, <1>a, <2>1 DEF Lock, TypeOK
<1>3. ASSUME NEW w \in Workers, Commit(w) PROVE FALSE
  <2>1. wk[w].pc = "locked" /\ wk'[w].pc # "locked" /\ (v # w => wk'[v] = wk[v])
    <3>1. CASE Allowed(w)
      <4>1. /\ wk[w].pc = "locked"
            /\ wk' = [wk EXCEPT ![w] = [Idle EXCEPT !.pc = "send", !.req = wk[w].req]]
        BY <1>3, <3>1 DEF Commit
      <4> QED BY <1>0, <4>1 DEF Idle, TypeOK
    <3>2. CASE ~Allowed(w)
      BY <1>0, <1>3, <3>2 DEF Commit, Idle, TypeOK
    <3> QED BY <3>1, <3>2
  <2>2. wk[v].pc = "locked" /\ v # w
    BY <2>1
  <2> QED BY <1>0, <2>1, <2>2 DEF LockHeld
<1>4. ASSUME NEW w \in Workers, Send(w)
      PROVE  wk'[v] = wk[v] /\ lock' = lock /\ ledger' = ledger
  <2>1. PICK r \in wk[w].req, taken \in BOOLEAN :
          /\ taken \/ \A u \in Workers : r \notin wk[u].frozen
          /\ ledger' = [ledger EXCEPT ![r].open = taken]
    BY <1>4 DEF Send
  <2>2. wk[w].pc = "send" /\ wk' = [wk EXCEPT ![w] = Idle] /\ lock' = lock
    BY <1>4 DEF Send
  <2>3. v # w /\ wk'[v] = wk[v]
    BY <1>0, <2>2 DEF Idle, TypeOK
  <2>4. r \in Orders /\ ledger[r].open
    BY <1>0, <2>1, <2>2 DEF RequestsHold, TypeOK
  <2>5. r \in wk[v].frozen
    BY <1>0, <2>3, <2>4 DEF LockHeld
  <2>6. taken = ledger[r].open
    BY <1>0, <2>1, <2>4, <2>5 DEF TypeOK
  <2>7. ledger' = ledger
    BY <1>0, <2>1, <2>4, <2>6 DEF TypeOK
  <2> QED BY <2>2, <2>3, <2>7
<1>5. ASSUME NEW r \in Orders, Callback(r) PROVE FALSE
  <2>1. ledger[r].open /\ r \notin wk[v].frozen /\ wk' = wk
    BY <1>5 DEF Callback
  <2> QED BY <1>0, <2>1 DEF LockHeld
<1>6. ASSUME wk'[v] = wk[v], lock' = lock, ledger' = ledger
      PROVE  /\ lock' = {v}
             /\ wk'[v].frozen = {r \in Orders : ledger'[r].open}
             /\ wk'[v].reserved = SumFunction(Reserved')
  BY <1>0, <1>6, <1>a DEF LockHeld
<1>7. ASSUME NEW r \in Orders, Fill(r) \/ End(r)
      PROVE  wk'[v] = wk[v] /\ lock' = lock /\ ledger' = ledger
  BY <1>7 DEF Fill, End
<1>8. ASSUME (\E s \in Symbols : PositionEvent(s)) \/ UNCHANGED vars
      PROVE  wk'[v] = wk[v] /\ lock' = lock /\ ledger' = ledger
  BY <1>8 DEF PositionEvent, vars
<1>9. \/ \E w \in Workers : Lock(w)
      \/ wk'[v] = wk[v] /\ lock' = lock /\ ledger' = ledger
  <2>1. CASE Next
    BY <1>1, <1>3, <1>4, <1>5, <1>7, <1>8, <2>1 DEF Next
  <2>2. CASE UNCHANGED vars
    BY <1>8, <2>2
  <2> QED BY <2>1, <2>2
<1> QED BY <1>2, <1>6, <1>9

-----------------------------------------------------------------------------
\* What a step other than a commit does to an order costs the account no more.
LEMMA OnlyCommitsCost ==
  ASSUME TypeOK, RowsHold, RequestsHold, [Next]_vars, \A w \in Workers : ~Commit(w)
  PROVE  \A r \in Orders : /\ Committed'[r] \in Nat /\ Committed'[r] <= Committed[r]
                           /\ Reserved'[r] \in Nat /\ Reserved'[r] <= Reserved[r]
<1> USE DEF Committed, Reserved
<1>1. ASSUME NEW w \in Workers, Send(w)
      PROVE  \A r \in Orders : /\ Committed'[r] \in Nat /\ Committed'[r] <= Committed[r]
                               /\ Reserved'[r] \in Nat /\ Reserved'[r] <= Reserved[r]
  BY <1>1 DEF Send, TypeOK, RowsHold, RequestsHold
<1>2. ASSUME NEW q \in Orders, Fill(q) \/ End(q)
      PROVE  \A r \in Orders : /\ Committed'[r] \in Nat /\ Committed'[r] <= Committed[r]
                               /\ Reserved'[r] \in Nat /\ Reserved'[r] <= Reserved[r]
  BY <1>2 DEF Fill, End, TypeOK, RowsHold
<1>3. ASSUME NEW q \in Orders, Callback(q)
      PROVE  \A r \in Orders : /\ Committed'[r] \in Nat /\ Committed'[r] <= Committed[r]
                               /\ Reserved'[r] \in Nat /\ Reserved'[r] <= Reserved[r]
  BY <1>3 DEF Callback, TypeOK, RowsHold
<1>4. ASSUME ledger' = ledger, broker' = broker
      PROVE  \A r \in Orders : /\ Committed'[r] \in Nat /\ Committed'[r] <= Committed[r]
                               /\ Reserved'[r] \in Nat /\ Reserved'[r] <= Reserved[r]
  BY <1>4 DEF TypeOK, RowsHold
<1> QED BY <1>1, <1>2, <1>3, <1>4
        DEF Next, vars, Dispatch, FetchAccount, FetchPositions, Begin, Lock, PositionEvent

\* A commit adds the size of the order to both sums, and nothing else.
LEMMA CommitAddsItsSize ==
  ASSUME IInv, NEW w \in Workers, Commit(w)
  PROVE  \/ ledger' = ledger /\ broker' = broker
         \/ /\ Size(w) > 0
            /\ SumFunction(Committed') = SumFunction(Committed) + Size(w)
            /\ SumFunction(Reserved') = SumFunction(Reserved) + Size(w)
<1>0. TypeOK /\ RowsHold /\ RequestsHold
  BY DEF IInv
<1>1. CASE ~Allowed(w)
  BY <1>1 DEF Commit
<1>2. CASE Allowed(w)
  <2>1. PICK r \in wk[w].req :
          ledger' = [ledger EXCEPT ![r] = [qty |-> Size(w), filled |-> 0, open |-> TRUE]]
    BY <1>2 DEF Commit
  <2>2. r \in Orders /\ ledger[r].qty = 0 /\ broker' = broker
    BY <1>0, <2>1 DEF Commit, RequestsHold, TypeOK
  <2>3. Size(w) \in Nat /\ Size(w) > 0
    BY <1>0, <1>2, SizeWithinLimits, ConstantsAssumption DEF Allowed
  <2>4. /\ ledger[r].filled = 0 /\ ~ledger[r].open /\ ~broker[r].open /\ broker[r].filled = 0
    BY <1>0, <2>2 DEF TypeOK, RowsHold
  <2>5. /\ Committed[r] = 0 /\ Committed'[r] = Size(w) /\ Reserved[r] = 0 /\ Reserved'[r] = Size(w)
    BY <1>0, <2>1, <2>2, <2>3, <2>4 DEF Committed, Reserved, TypeOK
  <2>6. \A q \in Orders \ {r} : Committed'[q] = Committed[q] /\ Reserved'[q] = Reserved[q]
    BY <1>0, <2>1, <2>2 DEF Committed, Reserved, TypeOK
  <2>7. /\ Committed \in [Orders -> Nat] /\ Reserved \in [Orders -> Nat]
        /\ SumFunction(Committed) \in Nat /\ SumFunction(Reserved) \in Nat
    BY <1>0, SumsAreNatural
  <2>8. DOMAIN Committed' = Orders /\ DOMAIN Reserved' = Orders
    BY DEF Committed, Reserved
  <2>9. \A q \in Orders : /\ Committed[q] \in Int /\ Committed'[q] \in Int
                          /\ Reserved[q] \in Int /\ Reserved'[q] \in Int
    BY <2>3, <2>5, <2>6, <2>7
  <2>10. SumFunctionOnSet(Committed', Orders)
           = SumFunctionOnSet(Committed, Orders) + (Committed'[r] - Committed[r])
    BY <2>2, <2>6, <2>9, FinitelyMany, SumChange
  <2>11. SumFunctionOnSet(Reserved', Orders)
           = SumFunctionOnSet(Reserved, Orders) + (Reserved'[r] - Reserved[r])
    BY <2>2, <2>6, <2>9, FinitelyMany, SumChange
  <2>12. /\ SumFunction(Committed) = SumFunctionOnSet(Committed, Orders)
         /\ SumFunction(Reserved) = SumFunctionOnSet(Reserved, Orders)
         /\ SumFunction(Committed') = SumFunctionOnSet(Committed', Orders)
         /\ SumFunction(Reserved') = SumFunctionOnSet(Reserved', Orders)
    BY <2>7, <2>8, SumWhole
  <2> QED BY <2>3, <2>5, <2>7, <2>10, <2>11, <2>12
<1> QED BY <1>1, <1>2

\* Every step keeps the bot's budget and, where the backend deducts, the cash.
LEMMA SumsStep == IInv /\ [Next]_vars => BudgetKept' /\ OpenWithinCash'
<1> SUFFICES ASSUME IInv, [Next]_vars
             PROVE  /\ SumFunction(Committed') <= Budget
                    /\ handling' = "BACKEND_DEDUCTED" => SumFunction(Reserved') <= Cash
  BY DEF BudgetKept, OpenWithinCash
<1>0. /\ TypeOK /\ RowsHold /\ RequestsHold /\ LockHeld /\ BudgetKept /\ OpenWithinCash
      /\ handling' = handling
  BY DEF IInv, Next, vars
<1>1. /\ Committed \in [Orders -> Nat] /\ Reserved \in [Orders -> Nat]
      /\ SumFunction(Committed) \in Nat /\ SumFunction(Reserved) \in Nat
      /\ SumFunction(Owned) \in Nat
  BY <1>0, SumsAreNatural
<1>2. Budget \in Nat /\ Cash \in Nat
  BY ConstantsAssumption
<1>3. /\ SumFunction(Committed) = SumFunctionOnSet(Committed, Orders)
      /\ SumFunction(Reserved) = SumFunctionOnSet(Reserved, Orders)
      /\ SumFunction(Committed') = SumFunctionOnSet(Committed', Orders)
      /\ SumFunction(Reserved') = SumFunctionOnSet(Reserved', Orders)
  <2>1. DOMAIN Committed' = Orders /\ DOMAIN Reserved' = Orders
    BY DEF Committed, Reserved
  <2> QED BY <1>1, <2>1, SumWhole
<1>4. ASSUME NEW w \in Workers, Commit(w)
      PROVE  /\ SumFunction(Committed') <= Budget
             /\ handling' = "BACKEND_DEDUCTED" => SumFunction(Reserved') <= Cash
  <2>1. CASE ledger' = ledger /\ broker' = broker
    <3>1. Committed' = Committed /\ Reserved' = Reserved
      BY <2>1 DEF Committed, Reserved
    <3> QED BY <1>0, <3>1 DEF BudgetKept, OpenWithinCash
  <2>2. CASE /\ Size(w) > 0
             /\ SumFunction(Committed') = SumFunction(Committed) + Size(w)
             /\ SumFunction(Reserved') = SumFunction(Reserved) + Size(w)
    <3>1. wk[w].reserved = SumFunction(Reserved)
      BY <1>0, <1>4 DEF Commit, LockHeld
    <3>2. SumFunction(Committed) = SumFunction(Owned) + SumFunction(Reserved)
      BY <1>0, LedgerCountsAll
    <3>3. /\ SumFunction(Owned) + wk[w].reserved + Size(w) <= Budget
          /\ handling = "BACKEND_DEDUCTED" => wk[w].reserved + Size(w) <= Cash
      BY <1>0, <2>2, SizeWithinLimits
    <3> QED BY <1>0, <2>2, <3>1, <3>2, <3>3
  <2> QED BY <1>4, <2>1, <2>2, CommitAddsItsSize
<1>5. CASE \A w \in Workers : ~Commit(w)
  <2>1. \A r \in Orders : /\ Committed'[r] \in Nat /\ Committed'[r] <= Committed[r]
                          /\ Reserved'[r] \in Nat /\ Reserved'[r] <= Reserved[r]
    BY <1>0, <1>5, OnlyCommitsCost
  <2>2. SumFunctionOnSet(Committed', Orders) <= SumFunctionOnSet(Committed, Orders)
    BY <1>1, <2>1, FinitelyMany, SumMonotone
  <2>3. SumFunctionOnSet(Reserved', Orders) <= SumFunctionOnSet(Reserved, Orders)
    BY <1>1, <2>1, FinitelyMany, SumMonotone
  <2>4. SumFunctionOnSet(Committed', Orders) \in Nat /\ SumFunctionOnSet(Reserved', Orders) \in Nat
    BY <2>1, FinitelyMany, SumNat
  <2> QED BY <1>0, <1>1, <1>2, <1>3, <2>2, <2>3, <2>4 DEF BudgetKept, OpenWithinCash
<1> QED BY <1>4, <1>5

-----------------------------------------------------------------------------
\* The invariant of the reservation, for any number of dispatchers and orders.
THEOREM InvariantHolds == Spec => []IInv
<1>1. Init => IInv
  BY InitHolds
<1>2. IInv /\ [Next]_vars => IInv'
  BY TypeStep, RowsStep, RequestsStep, LockStep, SumsStep DEF IInv
<1> QED BY <1>1, <1>2, PTL DEF Spec

\* Every variable keeps its shape; no dispatcher sees more buying power than
\* the account had, and no order is larger than its own bound.
THEOREM TypesHold == Spec => []TypeOK
<1>1. IInv => TypeOK
  BY DEF IInv
<1> QED BY <1>1, InvariantHolds, PTL

\* The capital in orders, open and filled, stays within the bot's budget,
\* however dispatchers, fills and callbacks interleave.
THEOREM BudgetIsKept == Spec => []BudgetKept
<1>1. IInv => BudgetKept
  BY DEF IInv
<1> QED BY <1>1, InvariantHolds, PTL

\* Where the backend deducts open orders, all reservations together stay
\* within the cash the account had.
THEOREM ReservedWithinCash == Spec => []OpenWithinCash
<1>1. IInv => OpenWithinCash
  BY DEF IInv
<1> QED BY <1>1, InvariantHolds, PTL
=============================================================================
