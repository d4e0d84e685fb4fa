-------------------------- MODULE FulfillmentProofs --------------------------
(***************************************************************************)
(* Theorems about Fulfillment, for any number of lines, requests and       *)
(* fulfillments.                                                           *)
(***************************************************************************)
EXTENDS Fulfillment, QuantityFacts

-----------------------------------------------------------------------------
(* The operators the actions are built from.                               *)

\* The units a request may ask for are amounts.
LEMMA ChoicesAmounts == Choices \subseteq Amounts
<1>1. SumOf(Ordered, Lines) \in Nat
  BY SumType, LinesAssumption, QuantitiesAssumption
<1> QED
  BY <1>1 DEF Choices, Amounts

\* A request that has finished, or not started, holds a value of its type.
LEMMA IdleType == Idle \in Requests
BY DEF Idle, Requests, Amounts, Zero, OrderStatuses, AllOperations,
       NoFulfillment

\* determine_order_status returns one of the statuses an open order may have.
LEMMA StatusType ==
    ASSUME NEW ful, NEW fs, NEW ls
    PROVE  /\ DetermineOrderStatus(ful, fs, ls) \in OrderStatuses
           /\ \A seen : status \in OrderStatuses
                        => StatusAfter(seen, ful, fs, ls) \in OrderStatuses
<1>1. DetermineOrderStatus(ful, fs, ls) \in OrderStatuses
  BY DEF DetermineOrderStatus, OrderStatuses
<1> QED
  BY <1>1 DEF StatusAfter

\* Deallocation leaves between nothing and what was allocated.
LEMMA DeallocateFacts ==
    ASSUME allocated \in Amounts, NEW units \in Amounts
    PROVE  /\ Deallocate(units) \in Amounts
           /\ \A l \in Lines : Deallocate(units)[l] <= allocated[l]
           /\ \A l \in Lines : units[l] = 0 => Deallocate(units)[l] = allocated[l]
BY DEF Deallocate, Amounts, Least

\* A fulfilled quantity is taken from the stock only if the units that stay
\* allocated are still there.
LEMMA DecreaseStocksFacts ==
    ASSUME allocated \in Amounts, onhand \in [Lines -> Int],
           AllocationsBacked, NEW units \in Amounts, DecreaseStocks(units)
    PROVE  /\ allocated' \in Amounts
           /\ onhand' \in [Lines -> Int]
           /\ AllocationsBacked'
<1>1. /\ Deallocate(units) \in Amounts
      /\ \A l \in Lines : units[l] = 0 => Deallocate(units)[l] = allocated[l]
  BY DeallocateFacts
<1> HIDE DEF Deallocate
<1>2. allocated' \in Amounts /\ onhand' \in [Lines -> Int]
  BY <1>1 DEF DecreaseStocks, Amounts
<1>3. ASSUME NEW l \in Lines PROVE allocated'[l] <= onhand'[l]
  <2>1. allocated'[l] = Deallocate(units)[l] /\ onhand'[l] = onhand[l] - units[l]
    BY DEF DecreaseStocks
  <2>2. CASE units[l] > 0
    BY <2>1, <2>2, <1>1 DEF DecreaseStocks, Asked, Amounts
  <2>3. CASE units[l] = 0
    BY <2>1, <2>3, <1>1 DEF AllocationsBacked, Amounts
  <2> QED
    BY <2>2, <2>3 DEF Amounts
<1> QED
  BY <1>2, <1>3 DEF AllocationsBacked

\* The fulfillments a refund or a return creates have a status and amounts.
LEMMA TargetsType ==
    ASSUME NEW r \in Requests, NEW i \in DOMAIN Targets(r)
    PROVE  /\ Targets(r)[i][1] \in FulfillmentStatuses
           /\ Targets(r)[i][2] \in Amounts
<1>1. /\ Sum2(r.ask, r.move) \in Amounts /\ Zero \in Amounts
      /\ r.ask \in Amounts /\ r.move \in Amounts
  BY DEF Sum2, Amounts, Zero, Requests
<1> HIDE DEF Sum2, Zero, Amounts
<1> QED
  BY <1>1 DEF Targets, FulfillmentStatuses

\* What a move leaves in the fulfillments are amounts, because it takes no
\* more than the request has read there.
LEMMA TakenFromType ==
    ASSUME NEW r \in Requests, lines \in [Fulfillments -> Amounts],
           \A l \in Lines : r.move[l] <= r.got[l]
    PROVE  TakenFrom(r) \in [Fulfillments -> Amounts]
BY DEF TakenFrom, Amounts, Requests

-----------------------------------------------------------------------------
(* Type correctness, and the stock behind the allocations.                 *)

(***************************************************************************)
(* A refund or a return takes from a fulfillment no more than it has read  *)
(* there, and an approval or a cancellation is about some fulfillment.     *)
(***************************************************************************)
Coherent(r) ==
    /\ r.op \in {"FulfillmentRefundProducts", "FulfillmentReturnProducts"}
       => \A l \in Lines : r.move[l] <= r.got[l]
    /\ r.op \in {"FulfillmentApprove", "FulfillmentCancel", "CancelWaiting"}
       => r.f \in Fulfillments

RequestsCoherent == \A p \in Staff : Coherent(request[p])

Safe == TypeOK /\ AllocationsBacked /\ RequestsCoherent

\* The records that requests are started with.
LEMMA StartFacts ==
    ASSUME Safe, NEW p \in Staff, NEW r \in Requests, Start(p, r),
           Coherent(r)
    PROVE  request' \in [Staff -> Requests] /\ RequestsCoherent'
BY DEF Safe, TypeOK, Start, RequestsCoherent

LEMMA FinishFacts ==
    ASSUME Safe, NEW p \in Staff, Finish(p)
    PROVE  request' \in [Staff -> Requests] /\ RequestsCoherent'
<1>1. Coherent(Idle)
  BY DEF Coherent, Idle, Zero
<1> QED
  BY <1>1, IdleType DEF Safe, TypeOK, Finish, RequestsCoherent

\* Requests that have locked their rows.
LEMMA LockedFacts ==
    ASSUME Safe, NEW p \in Staff,
           request' = [request EXCEPT ![p].phase = "loaded",
                                      ![p].order = status]
    PROVE  request' \in [Staff -> Requests] /\ RequestsCoherent'
<1> DEFINE r == request[p]
           t == [r EXCEPT !.phase = "loaded", !.order = status]
<1>1. r \in Requests /\ status \in OrderStatuses
  BY DEF Safe, TypeOK
<1>2. t \in Requests /\ (Coherent(r) => Coherent(t))
  BY <1>1 DEF Requests, Coherent
<1>3. request' = [request EXCEPT ![p] = t]
  OBVIOUS
<1> HIDE DEF t
<1> QED
  BY <1>2, <1>3 DEF Safe, TypeOK, RequestsCoherent

\* Requests that read and write nothing yet.
LEMMA ReadsSafe ==
    ASSUME Safe, NEW p \in Staff,
           UNCHANGED <<status, fulfilled, fstatus, lines, onhand, allocated>>,
           request' \in [Staff -> Requests], RequestsCoherent'
    PROVE  Safe'
BY DEF Safe, TypeOK, AllocationsBacked

\* Safe holds at the start: Ordered units are allocated and in stock.
LEMMA InitSafe == Init => Safe
<1> SUFFICES ASSUME Init PROVE Safe
  OBVIOUS
<1>1. TypeOK
  <2>1. Zero \in Amounts /\ \A f \in {Ordered, Stocked} : f \in Amounts
    BY QuantitiesAssumption DEF Zero, Amounts
  <2>2. Amounts \subseteq [Lines -> Int]
    BY DEF Amounts
  <2> QED
    BY <2>1, <2>2, IdleType
    DEF Init, TypeOK, OrderStatuses, FulfillmentStatuses
<1>2. AllocationsBacked
  BY QuantitiesAssumption DEF Init, AllocationsBacked
<1>3. RequestsCoherent
  BY DEF Init, RequestsCoherent, Coherent, Idle, Zero
<1> QED
  BY <1>1, <1>2, <1>3 DEF Safe

\* What a request may have read of a fulfillment's lines.
LEMMA LoadedType ==
    ASSUME TypeOK, NEW f \in Fulfillments \cup {NoFulfillment}
    PROVE  Loaded(f) \in Amounts
<1>1. Zero \in Amounts
  BY DEF Zero, Amounts
<1> QED
  BY <1>1 DEF TypeOK, Loaded

\* The steps of OrderFulfill.
LEMMA FulfillReadSafe ==
    ASSUME Safe, NEW p \in Staff, NEW ask \in Amounts, FulfillRead(p, ask)
    PROVE  Safe'
<1> DEFINE r == [Idle EXCEPT !.op = "OrderFulfill", !.phase = "read",
                             !.ask = ask, !.seen = fulfilled]
<1>1. r \in Requests
  BY IdleType DEF Safe, TypeOK, Requests, AllOperations
<1>2. Coherent(r)
  BY DEF Coherent, Idle, Zero
<1>3. Start(p, r)
  BY DEF FulfillRead
<1> HIDE DEF r
<1> QED
  BY <1>1, <1>2, <1>3, StartFacts, ReadsSafe DEF FulfillRead

LEMMA FulfillLockSafe ==
    ASSUME Safe, NEW p \in Staff, FulfillLock(p)
    PROVE  Safe'
BY LockedFacts, ReadsSafe DEF FulfillLock

\* Quantities written from what a request has read are integers.
LEMMA WrittenType ==
    ASSUME fulfilled \in [Lines -> Int], NEW units \in Amounts,
           NEW seen \in [Lines -> Int], NEW sign \in {1, -1}
    PROVE  Written(units, seen, sign) \in [Lines -> Int]
BY DEF Written, Amounts

LEMMA CreateFulfillmentsSafe ==
    ASSUME Safe, NEW p \in Staff, NEW f \in Fulfillments,
           CreateFulfillments(p, f)
    PROVE  Safe'
<1> DEFINE r == request[p]
<1>1. r.ask \in Amounts /\ r.seen \in [Lines -> Int]
  BY DEF Safe, TypeOK, Requests
<1>2. fulfilled' \in [Lines -> Int]
  BY <1>1, WrittenType
     DEF Safe, TypeOK, CreateFulfillments, CreateFulfillmentLines
<1>3. lines' \in [Fulfillments -> Amounts]
  BY <1>1 DEF Safe, TypeOK, CreateFulfillments, CreateFulfillmentLines
<1>4. request' \in [Staff -> Requests] /\ RequestsCoherent'
  BY FinishFacts DEF CreateFulfillments
<1>5. fstatus' \in [Fulfillments -> FulfillmentStatuses]
  BY DEF Safe, TypeOK, CreateFulfillments, FulfillmentStatuses
<1>6. CASE DecreaseStocks(r.ask) /\ OrderFulfilled(r)
  <2>1. status' \in OrderStatuses
    BY <1>6, StatusType DEF Safe, TypeOK, OrderFulfilled
  <2>2. /\ allocated' \in Amounts
        /\ onhand' \in [Lines -> Int]
        /\ AllocationsBacked'
    BY <1>1, <1>6, DecreaseStocksFacts DEF Safe, TypeOK
  <2> QED
    BY <1>2, <1>3, <1>4, <1>5, <2>1, <2>2 DEF Safe, TypeOK
<1>7. CASE UNCHANGED <<status, onhand, allocated>>
  BY <1>2, <1>3, <1>4, <1>5, <1>7 DEF Safe, TypeOK, AllocationsBacked
<1> QED
  BY <1>6, <1>7 DEF CreateFulfillments, CreateFulfillmentLines

\* The steps of FulfillmentApprove.
LEMMA ApproveReadSafe ==
    ASSUME Safe, NEW p \in Staff, NEW f \in Fulfillments, ApproveRead(p, f)
    PROVE  Safe'
<1> DEFINE r == [Idle EXCEPT !.op = "FulfillmentApprove", !.phase = "read",
                             !.f = f]
<1>1. r \in Requests
  BY IdleType DEF Requests, AllOperations
<1>2. Coherent(r)
  BY DEF Coherent, Idle, Zero
<1>3. Start(p, r)
  BY DEF ApproveRead
<1> HIDE DEF r
<1> QED
  BY <1>1, <1>2, <1>3, StartFacts, ReadsSafe DEF ApproveRead

LEMMA ApproveLockSafe ==
    ASSUME Safe, NEW p \in Staff, ApproveLock(p)
    PROVE  Safe'
BY LockedFacts, ReadsSafe DEF ApproveLock

LEMMA ApproveFulfillmentSafe ==
    ASSUME Safe, NEW p \in Staff, ApproveFulfillment(p)
    PROVE  Safe'
<1> DEFINE r == request[p]
<1>1. lines[r.f] \in Amounts
  BY DEF Safe, TypeOK, RequestsCoherent, Coherent, ApproveFulfillment
<1>2. /\ allocated' \in Amounts
      /\ onhand' \in [Lines -> Int]
      /\ AllocationsBacked'
  BY <1>1, DecreaseStocksFacts DEF Safe, TypeOK, ApproveFulfillment
<1>3. status' \in OrderStatuses
  BY StatusType DEF Safe, TypeOK, ApproveFulfillment, OrderFulfilled
<1>4. fstatus' \in [Fulfillments -> FulfillmentStatuses]
  BY DEF Safe, TypeOK, ApproveFulfillment, FulfillmentStatuses
<1>5. request' \in [Staff -> Requests] /\ RequestsCoherent'
  BY FinishFacts DEF ApproveFulfillment
<1> QED
  BY <1>2, <1>3, <1>4, <1>5 DEF Safe, TypeOK, ApproveFulfillment

\* The steps of FulfillmentCancel.
LEMMA CancelReadSafe ==
    ASSUME Safe, NEW p \in Staff, NEW f \in Fulfillments, CancelRead(p, f)
    PROVE  Safe'
<1> DEFINE op == IF fstatus[f] = "WAITING_FOR_APPROVAL"
                 THEN "CancelWaiting" ELSE "FulfillmentCancel"
           r == [Idle EXCEPT !.op = op, !.phase = "read", !.f = f]
<1>1. r \in Requests
  BY IdleType DEF Requests, AllOperations
<1>2. Coherent(r)
  BY DEF Coherent, Idle, Zero
<1>3. Start(p, r)
  BY DEF CancelRead
<1> HIDE DEF r
<1> QED
  BY <1>1, <1>2, <1>3, StartFacts, ReadsSafe DEF CancelRead

LEMMA CancelLoadSafe ==
    ASSUME Safe, NEW p \in Staff, CancelLoad(p)
    PROVE  Safe'
<1> DEFINE r == request[p]
           t == [r EXCEPT !.phase = "loaded", !.seen = fulfilled,
                          !.got = lines[r.f], !.order = status]
<1>1. /\ r \in Requests /\ Coherent(r)
      /\ r.op \in {"FulfillmentCancel", "CancelWaiting"}
      /\ status \in OrderStatuses /\ fulfilled \in [Lines -> Int]
  BY DEF Safe, TypeOK, RequestsCoherent, CancelLoad
<1>2. r.f \in Fulfillments /\ lines[r.f] \in Amounts
  BY <1>1 DEF Coherent, Safe, TypeOK
<1>3. t \in Requests
  BY <1>1, <1>2 DEF Requests
<1>4. Coherent(t)
  BY <1>1, <1>2 DEF Coherent, Requests
<1>5. request' = [request EXCEPT ![p] = t]
  BY DEF CancelLoad
<1> HIDE DEF t
<1>6. request' \in [Staff -> Requests] /\ RequestsCoherent'
  BY <1>3, <1>4, <1>5 DEF Safe, TypeOK, RequestsCoherent
<1> QED
  BY <1>6, ReadsSafe DEF CancelLoad

LEMMA CancelFulfillmentSafe ==
    ASSUME Safe, NEW p \in Staff, CancelFulfillment(p)
    PROVE  Safe'
<1> DEFINE r == request[p]
<1>1. r.got \in Amounts /\ r.seen \in [Lines -> Int]
  BY DEF Safe, TypeOK, Requests
<1>2. fulfilled' \in [Lines -> Int]
  BY <1>1, WrittenType
  DEF Safe, TypeOK, CancelFulfillment, RestockFulfillmentLines
<1>3. allocated' \in Amounts /\ onhand' \in [Lines -> Int]
  BY <1>1
  DEF Safe, TypeOK, Amounts, CancelFulfillment, RestockFulfillmentLines
<1>4. AllocationsBacked'
  BY <1>1 DEF Safe, TypeOK, Amounts, AllocationsBacked, CancelFulfillment,
              RestockFulfillmentLines
<1>5. fstatus' \in [Fulfillments -> FulfillmentStatuses]
  BY DEF Safe, TypeOK, CancelFulfillment, FulfillmentStatuses
<1>6. status' \in OrderStatuses
  BY StatusType DEF Safe, TypeOK, CancelFulfillment
<1>7. request' \in [Staff -> Requests] /\ RequestsCoherent'
  BY FinishFacts DEF CancelFulfillment
<1> QED
  BY <1>2, <1>3, <1>4, <1>5, <1>6, <1>7 DEF Safe, TypeOK, CancelFulfillment

LEMMA CancelWaitingFulfillmentSafe ==
    ASSUME Safe, NEW p \in Staff, CancelWaitingFulfillment(p)
    PROVE  Safe'
<1> DEFINE r == request[p]
<1>1. r.got \in Amounts /\ r.seen \in [Lines -> Int]
  BY DEF Safe, TypeOK, Requests
<1>2. fulfilled' \in [Lines -> Int]
  BY <1>1, WrittenType DEF Safe, TypeOK, CancelWaitingFulfillment
<1>3. Zero \in Amounts
  BY DEF Zero, Amounts
<1>4. /\ fstatus' \in [Fulfillments -> FulfillmentStatuses]
      /\ lines' \in [Fulfillments -> Amounts]
  BY <1>3 DEF Safe, TypeOK, CancelWaitingFulfillment, FulfillmentStatuses
<1>5. request' \in [Staff -> Requests] /\ RequestsCoherent'
  BY FinishFacts DEF CancelWaitingFulfillment
<1> QED
  BY <1>2, <1>4, <1>5
  DEF Safe, TypeOK, AllocationsBacked, CancelWaitingFulfillment

\* The steps of FulfillmentRefundProducts and FulfillmentReturnProducts.
LEMMA RefundReadSafe ==
    ASSUME Safe, NEW p \in Staff,
           NEW f \in Fulfillments \cup {NoFulfillment},
           NEW ask \in Amounts, NEW move \in Amounts,
           RefundRead(p, f, ask, move)
    PROVE  Safe'
<1> DEFINE r == [Idle EXCEPT !.op = "FulfillmentRefundProducts",
                             !.phase = "read", !.f = f, !.ask = ask,
                             !.move = move, !.seen = fulfilled,
                             !.got = Loaded(f)]
<1>1. r \in Requests
  BY IdleType, LoadedType DEF Safe, TypeOK, Requests, AllOperations
<1>2. \A l \in Lines : move[l] <= Loaded(f)[l]
  BY DEF RefundRead, MovesValid, Loaded, Zero
<1>3. Coherent(r)
  BY <1>2, IdleType DEF Coherent, Requests
<1>4. Start(p, r)
  BY DEF RefundRead
<1> HIDE DEF r
<1> QED
  BY <1>1, <1>3, <1>4, StartFacts, ReadsSafe DEF RefundRead

LEMMA ReturnReadSafe ==
    ASSUME Safe, NEW p \in Staff,
           NEW f \in Fulfillments \cup {NoFulfillment},
           NEW ask \in Amounts, NEW move \in Amounts,
           NEW refund \in BOOLEAN, NEW replace \in BOOLEAN,
           ReturnRead(p, f, ask, move, refund, replace)
    PROVE  Safe'
<1> DEFINE r == [Idle EXCEPT !.op = "FulfillmentReturnProducts",
                             !.phase = "read", !.f = f, !.ask = ask,
                             !.move = move, !.seen = fulfilled,
                             !.got = Loaded(f), !.order = status,
                             !.refund = refund, !.replace = replace]
<1>1. r \in Requests
  BY IdleType, LoadedType DEF Safe, TypeOK, Requests, AllOperations
<1>2. \A l \in Lines : move[l] <= Loaded(f)[l]
  BY DEF ReturnRead, MovesValid, Loaded, Zero
<1>3. Coherent(r)
  BY <1>2, IdleType DEF Coherent, Requests
<1>4. Start(p, r)
  BY DEF ReturnRead
<1> HIDE DEF r
<1> QED
  BY <1>1, <1>3, <1>4, StartFacts, ReadsSafe DEF ReturnRead

LEMMA MoveLinesSafe ==
    ASSUME Safe, NEW p \in Staff,
           \/ CreateRefundFulfillment(p)
           \/ CreateFulfillmentsForReturnedProducts(p)
    PROVE  Safe'
<1> DEFINE r    == request[p]
           to   == Targets(r)
           at   == [f \in Fulfillments |-> f - Created]
           made == {f \in Fulfillments : at[f] \in DOMAIN to}
           ls   == [f \in Fulfillments |->
                       IF f \in made THEN to[at[f]][2] ELSE TakenFrom(r)[f]]
           fs   == [f \in Fulfillments |->
                       IF f \in made THEN to[at[f]][1] ELSE fstatus[f]]
           done == [Idle EXCEPT !.op = r.op, !.phase = "committed",
                         !.order = IF r.replace THEN status ELSE r.order]
<1>1. /\ r \in Requests /\ Coherent(r)
      /\ r.op \in {"FulfillmentRefundProducts", "FulfillmentReturnProducts"}
      /\ r.ask \in Amounts /\ r.seen \in [Lines -> Int]
  BY DEF Safe, TypeOK, RequestsCoherent, Requests, CreateRefundFulfillment,
         CreateFulfillmentsForReturnedProducts
<1>2. TakenFrom(r) \in [Fulfillments -> Amounts]
  BY <1>1, TakenFromType DEF Coherent, Safe, TypeOK
<1>3. \A i \in DOMAIN to : /\ to[i][1] \in FulfillmentStatuses
                           /\ to[i][2] \in Amounts
  BY <1>1, TargetsType
<1> HIDE DEF to, at
<1>4. /\ ls \in [Fulfillments -> Amounts]
      /\ fs \in [Fulfillments -> FulfillmentStatuses]
  BY <1>2, <1>3 DEF Safe, TypeOK
<1>5. DeleteEmpty(fs, ls) \in [Fulfillments -> FulfillmentStatuses]
  BY <1>4 DEF DeleteEmpty, FulfillmentStatuses
<1>6. /\ fulfilled' = Written(r.ask, r.seen, 1)
      /\ allocated' = Deallocate(r.ask)
      /\ lines' = ls /\ fstatus' = DeleteEmpty(fs, ls)
      /\ UNCHANGED <<status, onhand>>
      /\ \/ Finish(p)
         \/ request' = [request EXCEPT ![p] = done]
  BY DEF CreateRefundFulfillment, CreateFulfillmentsForReturnedProducts,
         MoveLines, MoveOrderLines, to, at
<1>7. fulfilled' \in [Lines -> Int]
  BY <1>1, <1>6, WrittenType DEF Safe, TypeOK
<1>8. /\ allocated' \in Amounts
      /\ \A l \in Lines : allocated'[l] <= allocated[l]
  BY <1>1, <1>6, DeallocateFacts DEF Safe, TypeOK
<1>9. AllocationsBacked'
  BY <1>6, <1>8 DEF Safe, TypeOK, AllocationsBacked, Amounts
<1>10. done \in Requests /\ Coherent(done)
  <2>1. done \in Requests
    BY <1>1, IdleType DEF Safe, TypeOK, Requests
  <2>2. done.op = r.op /\ done.move = Zero /\ done.got = Zero
    BY DEF Idle
  <2> QED
    BY <1>1, <2>1, <2>2 DEF Coherent, Zero
<1>11. request' \in [Staff -> Requests] /\ RequestsCoherent'
  <2>1. CASE Finish(p)
    BY <2>1, FinishFacts
  <2>2. CASE request' = [request EXCEPT ![p] = done]
    <3> HIDE DEF done
    <3> QED
      BY <1>10, <2>2 DEF Safe, TypeOK, RequestsCoherent
  <2> QED
    BY <1>6, <2>1, <2>2
<1> HIDE DEF ls, fs
<1> QED
  BY <1>4, <1>5, <1>6, <1>7, <1>8, <1>9, <1>11 DEF Safe, TypeOK

\* The end of a return, OrderCancel, and requests that come to nothing.
LEMMA OrderReturnedSafe ==
    ASSUME Safe, NEW p \in Staff, OrderReturned(p)
    PROVE  Safe'
<1>1. status' \in OrderStatuses
  BY StatusType DEF Safe, TypeOK, OrderReturned
<1>2. request' \in [Staff -> Requests] /\ RequestsCoherent'
  BY FinishFacts DEF OrderReturned
<1> QED
  BY <1>1, <1>2 DEF Safe, TypeOK, AllocationsBacked, OrderReturned

LEMMA CancelOrderReadSafe ==
    ASSUME Safe, NEW p \in Staff, CancelOrderRead(p)
    PROVE  Safe'
<1> DEFINE r == [Idle EXCEPT !.op = "OrderCancel", !.phase = "read"]
<1>1. r \in Requests
  BY IdleType DEF Requests, AllOperations
<1>2. Coherent(r)
  BY DEF Coherent, Idle, Zero
<1>3. Start(p, r)
  BY DEF CancelOrderRead
<1> HIDE DEF r
<1> QED
  BY <1>1, <1>2, <1>3, StartFacts, ReadsSafe DEF CancelOrderRead

LEMMA CancelOrderSafe ==
    ASSUME Safe, NEW p \in Staff, CancelOrder(p)
    PROVE  Safe'
<1>1. allocated' \in Amounts /\ AllocationsBacked'
  BY DEF Safe, TypeOK, AllocationsBacked, Amounts, Zero, CancelOrder
<1>2. request' \in [Staff -> Requests] /\ RequestsCoherent'
  BY FinishFacts DEF CancelOrder
<1> QED
  BY <1>1, <1>2 DEF Safe, TypeOK, CancelOrder, OrderStatuses

LEMMA FailSafe ==
    ASSUME Safe, NEW p \in Staff, Fail(p)
    PROVE  Safe'
BY FinishFacts, ReadsSafe DEF Fail

\* Every step of every request keeps Safe.
LEMMA NextSafe == Safe /\ [Next]_vars => Safe'
<1>1. ASSUME Safe, Next PROVE Safe'
  <2>1. PICK p \in Staff :
           \/ \E ask \in Choices : FulfillRead(p, ask)
           \/ FulfillLock(p)
           \/ \E f \in Fulfillments : CreateFulfillments(p, f)
           \/ \E f \in Fulfillments : ApproveRead(p, f)
           \/ ApproveLock(p)
           \/ ApproveFulfillment(p)
           \/ \E f \in Fulfillments : CancelRead(p, f)
           \/ CancelLoad(p)
           \/ CancelFulfillment(p)
           \/ CancelWaitingFulfillment(p)
           \/ \E f \in Fulfillments \cup {NoFulfillment},
                 ask, move \in Choices : RefundRead(p, f, ask, move)
           \/ \E f \in Fulfillments \cup {NoFulfillment},
                 ask, move \in Choices, refund, replace \in BOOLEAN :
                 ReturnRead(p, f, ask, move, refund, replace)
           \/ CreateRefundFulfillment(p)
           \/ CreateFulfillmentsForReturnedProducts(p)
           \/ OrderReturned(p)
           \/ CancelOrderRead(p)
           \/ CancelOrder(p)
           \/ Fail(p)
    BY <1>1 DEF Next
  <2>2. CASE \E ask \in Choices : FulfillRead(p, ask)
    BY <1>1, <2>2, ChoicesAmounts, FulfillReadSafe
  <2>3. CASE FulfillLock(p) \/ \E f \in Fulfillments : CreateFulfillments(p, f)
    BY <1>1, <2>3, FulfillLockSafe, CreateFulfillmentsSafe
  <2>4. CASE \/ \E f \in Fulfillments : ApproveRead(p, f)
             \/ ApproveLock(p) \/ ApproveFulfillment(p)
    BY <1>1, <2>4, ApproveReadSafe, ApproveLockSafe, ApproveFulfillmentSafe
  <2>5. CASE \/ \E f \in Fulfillments : CancelRead(p, f)
             \/ CancelLoad(p)
    BY <1>1, <2>5, CancelReadSafe, CancelLoadSafe
  <2>6. CASE CancelFulfillment(p) \/ CancelWaitingFulfillment(p)
    BY <1>1, <2>6, CancelFulfillmentSafe, CancelWaitingFulfillmentSafe
  <2>7. CASE \E f \in Fulfillments \cup {NoFulfillment},
                ask, move \in Choices : RefundRead(p, f, ask, move)
    BY <1>1, <2>7, ChoicesAmounts, RefundReadSafe
  <2>8. CASE \E f \in Fulfillments \cup {NoFulfillment},
                ask, move \in Choices, refund, replace \in BOOLEAN :
                ReturnRead(p, f, ask, move, refund, replace)
    BY <1>1, <2>8, ChoicesAmounts, ReturnReadSafe
  <2>9. CASE \/ CreateRefundFulfillment(p)
             \/ CreateFulfillmentsForReturnedProducts(p)
             \/ OrderReturned(p)
    BY <1>1, <2>9, MoveLinesSafe, OrderReturnedSafe
  <2>10. CASE CancelOrderRead(p) \/ CancelOrder(p) \/ Fail(p)
    BY <1>1, <2>10, CancelOrderReadSafe, CancelOrderSafe, FailSafe
  <2> QED
    BY <2>1, <2>2, <2>3, <2>4, <2>5, <2>6, <2>7, <2>8, <2>9, <2>10
<1>2. ASSUME Safe, UNCHANGED vars PROVE Safe'
  BY <1>2 DEF Safe, TypeOK, AllocationsBacked, RequestsCoherent, Coherent, vars
<1> QED
  BY <1>1, <1>2

LEMMA AlwaysSafe == Spec => []Safe
BY InitSafe, NextSafe, PTL DEF Spec

(***************************************************************************)
(* Every reachable state is well typed: whatever stale values requests     *)
(* write back, no allocation and no fulfillment line becomes negative.     *)
(***************************************************************************)
THEOREM FulfillmentTypeCorrect == Spec => []TypeOK
<1>1. Safe => TypeOK
  BY DEF Safe
<1> QED
  BY <1>1, AlwaysSafe, PTL

(***************************************************************************)
(* The stock holds every unit that is allocated, whatever requests run at  *)
(* once and whatever they have read: decrease_stock compares under the row *)
(* lock what would remain with what is still allocated.                    *)
(***************************************************************************)
THEOREM StockBacksAllocations == Spec => []AllocationsBacked
<1>1. Safe => AllocationsBacked
  BY DEF Safe
<1> QED
  BY <1>1, AlwaysSafe, PTL

-----------------------------------------------------------------------------
(* Stale writes without cancellations.                                     *)

(***************************************************************************)
(* What a request wants of a line fits into the order on top of the        *)
(* quantity it has read, stale or not.                                     *)
(***************************************************************************)
Fits(r) ==
    /\ r.op \notin {"FulfillmentCancel", "CancelWaiting"}
    /\ \A l \in Lines : /\ 0 <= r.seen[l]
                        /\ r.ask[l] > 0 => r.seen[l] + r.ask[l] <= Ordered[l]

Within == NeverOverfulfilled /\ \A p \in Staff : Fits(request[p])

LEMMA IdleFits == Fits(Idle)
BY DEF Fits, Idle, Zero

\* A request that fits writes a quantity between zero and the one ordered.
LEMMA WrittenWithin ==
    ASSUME fulfilled \in [Lines -> Int], NeverOverfulfilled,
           NEW r \in Requests, Fits(r),
           fulfilled' = Written(r.ask, r.seen, 1)
    PROVE  NeverOverfulfilled'
<1> SUFFICES ASSUME NEW l \in Lines
             PROVE  0 <= fulfilled'[l] /\ fulfilled'[l] <= Ordered[l]
  BY DEF NeverOverfulfilled
<1>1. /\ r.ask[l] \in Nat /\ r.seen[l] \in Int
      /\ fulfilled[l] \in Int /\ Ordered[l] \in Nat
  BY QuantitiesAssumption DEF Requests, Amounts
<1>2. fulfilled'[l] = IF r.ask[l] > 0 THEN r.seen[l] + 1 * r.ask[l]
                                      ELSE fulfilled[l]
  BY DEF Written
<1> QED
  BY <1>1, <1>2 DEF Fits, NeverOverfulfilled

\* A step of p that leaves the quantities alone.
LEMMA UnwrittenWithin ==
    ASSUME Within, NEW p \in Staff, NEW t, Fits(t), UNCHANGED fulfilled,
           request \in [Staff -> Requests],
           request' = [request EXCEPT ![p] = t]
    PROVE  Within'
BY DEF Within, NeverOverfulfilled

\* Order lines are asked for within what is not fulfilled.
LEMMA AskedFits ==
    ASSUME TypeOK, NeverOverfulfilled, NEW ask \in Amounts, NEW r \in Requests,
           r.op \notin {"FulfillmentCancel", "CancelWaiting"},
           r.ask = ask, r.seen = fulfilled,
           \A l \in Lines : ask[l] > 0 => ask[l] <= Ordered[l] - fulfilled[l]
    PROVE  Fits(r)
<1> SUFFICES ASSUME NEW l \in Lines
             PROVE  /\ 0 <= r.seen[l]
                    /\ r.ask[l] > 0 => r.seen[l] + r.ask[l] <= Ordered[l]
  BY DEF Fits
<1>1. ask[l] \in Nat /\ fulfilled[l] \in Int /\ Ordered[l] \in Nat
  BY QuantitiesAssumption DEF TypeOK, Amounts
<1> QED
  BY <1>1 DEF NeverOverfulfilled

LEMMA FulfillWithin ==
    ASSUME Safe, Within, NEW p \in Staff
    PROVE  /\ \A ask \in Amounts : FulfillRead(p, ask) => Within'
           /\ FulfillLock(p) => Within'
           /\ \A f \in Fulfillments : CreateFulfillments(p, f) => Within'
<1>0. /\ request \in [Staff -> Requests] /\ request[p] \in Requests
      /\ fulfilled \in [Lines -> Int] /\ Fits(request[p])
  BY DEF Safe, TypeOK, Within
<1>1. ASSUME NEW ask \in Amounts, FulfillRead(p, ask) PROVE Within'
  <2> DEFINE r == [Idle EXCEPT !.op = "OrderFulfill", !.phase = "read",
                               !.ask = ask, !.seen = fulfilled]
  <2>1. r \in Requests
    BY IdleType DEF Safe, TypeOK, Requests, AllOperations
  <2>2. r.op = "OrderFulfill" /\ r.ask = ask /\ r.seen = fulfilled
    BY DEF Idle
  <2>3. request' = [request EXCEPT ![p] = r] /\ UNCHANGED fulfilled
    BY <1>1 DEF FulfillRead, Start
  <2> HIDE DEF r
  <2>4. Fits(r)
    BY <1>1, <2>1, <2>2, AskedFits
    DEF FulfillRead, Remaining, Asked, Safe, Within
  <2> QED
    BY <1>0, <2>3, <2>4, UnwrittenWithin
<1>2. ASSUME FulfillLock(p) PROVE Within'
  <2> DEFINE t == [request[p] EXCEPT !.phase = "loaded", !.order = status]
  <2>1. Fits(t)
    BY <1>0 DEF Fits, Requests
  <2>2. request' = [request EXCEPT ![p] = t] /\ UNCHANGED fulfilled
    BY <1>2 DEF FulfillLock
  <2> HIDE DEF t
  <2> QED
    BY <1>0, <2>1, <2>2, UnwrittenWithin
<1>3. ASSUME NEW f \in Fulfillments, CreateFulfillments(p, f) PROVE Within'
  <2>1. NeverOverfulfilled'
    BY <1>0, <1>3, WrittenWithin
       DEF CreateFulfillments, CreateFulfillmentLines, Within
  <2>2. request' = [request EXCEPT ![p] = Idle]
    BY <1>3 DEF CreateFulfillments, Finish
  <2> QED
    BY <1>0, <2>1, <2>2, IdleFits DEF Within
<1> QED
  BY <1>1, <1>2, <1>3

LEMMA ApproveWithin ==
    ASSUME Safe, Within, NEW p \in Staff
    PROVE  /\ \A f \in Fulfillments : ApproveRead(p, f) => Within'
           /\ ApproveLock(p) => Within'
           /\ ApproveFulfillment(p) => Within'
<1>0. /\ request \in [Staff -> Requests] /\ request[p] \in Requests
      /\ Fits(request[p])
  BY DEF Safe, TypeOK, Within
<1>1. ASSUME NEW f \in Fulfillments, ApproveRead(p, f) PROVE Within'
  <2> DEFINE r == [Idle EXCEPT !.op = "FulfillmentApprove", !.phase = "read",
                               !.f = f]
  <2>1. Fits(r)
    BY DEF Fits, Idle, Zero
  <2>2. request' = [request EXCEPT ![p] = r] /\ UNCHANGED fulfilled
    BY <1>1 DEF ApproveRead, Start
  <2> HIDE DEF r
  <2> QED
    BY <1>0, <2>1, <2>2, UnwrittenWithin
<1>2. ASSUME ApproveLock(p) PROVE Within'
  <2> DEFINE t == [request[p] EXCEPT !.phase = "loaded", !.order = status]
  <2>1. Fits(t)
    BY <1>0 DEF Fits, Requests
  <2>2. request' = [request EXCEPT ![p] = t] /\ UNCHANGED fulfilled
    BY <1>2 DEF ApproveLock
  <2> HIDE DEF t
  <2> QED
    BY <1>0, <2>1, <2>2, UnwrittenWithin
<1>3. ASSUME ApproveFulfillment(p) PROVE Within'
  BY <1>0, <1>3, IdleFits, UnwrittenWithin DEF ApproveFulfillment, Finish
<1> QED
  BY <1>1, <1>2, <1>3

LEMMA MoveWithin ==
    ASSUME Safe, Within, NEW p \in Staff
    PROVE  /\ \A f \in Fulfillments \cup {NoFulfillment} :
                 \A ask, move \in Amounts :
                    RefundRead(p, f, ask, move) => Within'
           /\ \A f \in Fulfillments \cup {NoFulfillment} :
                 \A ask, move \in Amounts : \A refund, replace \in BOOLEAN :
                    ReturnRead(p, f, ask, move, refund, replace) => Within'
           /\ CreateRefundFulfillment(p) => Within'
           /\ CreateFulfillmentsForReturnedProducts(p) => Within'
           /\ OrderReturned(p) => Within'
<1>0. /\ request \in [Staff -> Requests] /\ request[p] \in Requests
      /\ fulfilled \in [Lines -> Int] /\ Fits(request[p])
  BY DEF Safe, TypeOK, Within
<1>1. ASSUME NEW f \in Fulfillments \cup {NoFulfillment},
             NEW ask \in Amounts, NEW move \in Amounts,
             RefundRead(p, f, ask, move)
      PROVE  Within'
  <2> DEFINE r == [Idle EXCEPT !.op = "FulfillmentRefundProducts",
                               !.phase = "read", !.f = f, !.ask = ask,
                               !.move = move, !.seen = fulfilled,
                               !.got = Loaded(f)]
  <2>1. r \in Requests
    BY IdleType, LoadedType DEF Safe, TypeOK, Requests, AllOperations
  <2>2. /\ r.op = "FulfillmentRefundProducts"
        /\ r.ask = ask /\ r.seen = fulfilled
    BY DEF Idle
  <2>3. request' = [request EXCEPT ![p] = r] /\ UNCHANGED fulfilled
    BY <1>1 DEF RefundRead, Start
  <2> HIDE DEF r
  <2>4. Fits(r)
    BY <1>1, <2>1, <2>2, AskedFits
    DEF RefundRead, MovesValid, Remaining, Asked, Safe, Within
  <2> QED
    BY <1>0, <2>3, <2>4, UnwrittenWithin
<1>2. ASSUME NEW f \in Fulfillments \cup {NoFulfillment},
             NEW ask \in Amounts, NEW move \in Amounts,
             NEW refund \in BOOLEAN, NEW replace \in BOOLEAN,
             ReturnRead(p, f, ask, move, refund, replace)
      PROVE  Within'
  <2> DEFINE r == [Idle EXCEPT !.op = "FulfillmentReturnProducts",
                               !.phase = "read", !.f = f, !.ask = ask,
                               !.move = move, !.seen = fulfilled,
                               !.got = Loaded(f), !.order = status,
                               !.refund = refund, !.replace = replace]
  <2>1. r \in Requests
    BY IdleType, LoadedType DEF Safe, TypeOK, Requests, AllOperations
  <2>2. /\ r.op = "FulfillmentReturnProducts"
        /\ r.ask = ask /\ r.seen = fulfilled
    BY DEF Idle
  <2>3. request' = [request EXCEPT ![p] = r] /\ UNCHANGED fulfilled
    BY <1>2 DEF ReturnRead, Start
  <2> HIDE DEF r
  <2>4. Fits(r)
    BY <1>2, <2>1, <2>2, AskedFits
    DEF ReturnRead, MovesValid, Remaining, Asked, Safe, Within
  <2> QED
    BY <1>0, <2>3, <2>4, UnwrittenWithin
<1>3. ASSUME \/ CreateRefundFulfillment(p)
             \/ CreateFulfillmentsForReturnedProducts(p)
      PROVE  Within'
  <2> DEFINE r    == request[p]
             done == [Idle EXCEPT !.op = r.op, !.phase = "committed",
                           !.order = IF r.replace THEN status ELSE r.order]
  <2>1. /\ fulfilled' = Written(r.ask, r.seen, 1)
        /\ \/ request' = [request EXCEPT ![p] = Idle]
           \/ request' = [request EXCEPT ![p] = done]
    BY <1>3 DEF CreateRefundFulfillment, CreateFulfillmentsForReturnedProducts,
                MoveLines, MoveOrderLines, Finish
  <2>2. NeverOverfulfilled'
    BY <1>0, <2>1, WrittenWithin DEF Within
  <2>3. Fits(done)
    BY <1>0 DEF Fits, Idle, Zero
  <2> HIDE DEF done
  <2> QED
    BY <1>0, <2>1, <2>2, <2>3, IdleFits DEF Within
<1>4. ASSUME OrderReturned(p) PROVE Within'
  BY <1>0, <1>4, IdleFits, UnwrittenWithin DEF OrderReturned, Finish
<1> QED
  BY <1>1, <1>2, <1>3, <1>4

LEMMA CancelOrderWithin ==
    ASSUME Safe, Within, NEW p \in Staff
    PROVE  CancelOrderRead(p) \/ CancelOrder(p) \/ Fail(p) => Within'
<1>0. request \in [Staff -> Requests]
  BY DEF Safe, TypeOK
<1>1. ASSUME CancelOrderRead(p) PROVE Within'
  <2> DEFINE r == [Idle EXCEPT !.op = "OrderCancel", !.phase = "read"]
  <2>1. Fits(r)
    BY DEF Fits, Idle, Zero
  <2>2. request' = [request EXCEPT ![p] = r] /\ UNCHANGED fulfilled
    BY <1>1 DEF CancelOrderRead, Start
  <2> HIDE DEF r
  <2> QED
    BY <1>0, <2>1, <2>2, UnwrittenWithin
<1>2. ASSUME CancelOrder(p) \/ Fail(p) PROVE Within'
  BY <1>0, <1>2, IdleFits, UnwrittenWithin DEF CancelOrder, Fail, Finish
<1> QED
  BY <1>1, <1>2

LEMMA NextWithin ==
    ASSUME "FulfillmentCancel" \notin Operations
    PROVE  Safe /\ Within /\ [Next]_vars => Within'
<1>1. ASSUME Safe, Within, Next PROVE Within'
  <2>1. ASSUME NEW p \in Staff
        PROVE  /\ \A f \in Fulfillments : ~CancelRead(p, f)
               /\ ~CancelLoad(p)
               /\ ~CancelFulfillment(p) /\ ~CancelWaitingFulfillment(p)
    BY <1>1 DEF Within, Fits, CancelRead, CancelLoad, CancelFulfillment,
                CancelWaitingFulfillment
  <2>2. PICK p \in Staff :
           \/ \E ask \in Choices : FulfillRead(p, ask)
           \/ FulfillLock(p)
           \/ \E f \in Fulfillments : CreateFulfillments(p, f)
           \/ \E f \in Fulfillments : ApproveRead(p, f)
           \/ ApproveLock(p)
           \/ ApproveFulfillment(p)
           \/ \E f \in Fulfillments \cup {NoFulfillment},
                 ask, move \in Choices : RefundRead(p, f, ask, move)
           \/ \E f \in Fulfillments \cup {NoFulfillment},
                 ask, move \in Choices, refund, replace \in BOOLEAN :
                 ReturnRead(p, f, ask, move, refund, replace)
           \/ CreateRefundFulfillment(p)
           \/ CreateFulfillmentsForReturnedProducts(p)
           \/ OrderReturned(p)
           \/ CancelOrderRead(p)
           \/ CancelOrder(p)
           \/ Fail(p)
    BY <1>1, <2>1 DEF Next
  <2>3. CASE \/ \E ask \in Choices : FulfillRead(p, ask)
             \/ FulfillLock(p)
             \/ \E f \in Fulfillments : CreateFulfillments(p, f)
    BY <1>1, <2>3, ChoicesAmounts, FulfillWithin
  <2>4. CASE \/ \E f \in Fulfillments : ApproveRead(p, f)
             \/ ApproveLock(p) \/ ApproveFulfillment(p)
    BY <1>1, <2>4, ApproveWithin
  <2>5. CASE \E f \in Fulfillments \cup {NoFulfillment},
                ask, move \in Choices : RefundRead(p, f, ask, move)
    BY <1>1, <2>5, ChoicesAmounts, MoveWithin
  <2>6. CASE \E f \in Fulfillments \cup {NoFulfillment},
                ask, move \in Choices, refund, replace \in BOOLEAN :
                ReturnRead(p, f, ask, move, refund, replace)
    BY <1>1, <2>6, ChoicesAmounts, MoveWithin
  <2>7. CASE \/ CreateRefundFulfillment(p)
             \/ CreateFulfillmentsForReturnedProducts(p)
             \/ OrderReturned(p)
    BY <1>1, <2>7, MoveWithin
  <2>8. CASE CancelOrderRead(p) \/ CancelOrder(p) \/ Fail(p)
    BY <1>1, <2>8, CancelOrderWithin
  <2> QED
    BY <2>2, <2>3, <2>4, <2>5, <2>6, <2>7, <2>8
<1>2. ASSUME Within, UNCHANGED vars PROVE Within'
  BY <1>2 DEF Within, NeverOverfulfilled, vars
<1> QED
  BY <1>1, <1>2

(***************************************************************************)
(* Requests that write back a quantity_fulfilled read before the lock may  *)
(* lose each other's updates, but as long as nothing is cancelled they     *)
(* never write more than was ordered: each has checked the value it adds   *)
(* to.                                                                     *)
(***************************************************************************)
THEOREM StaleWritesWithinOrder ==
    ASSUME "FulfillmentCancel" \notin Operations
    PROVE  Spec => []NeverOverfulfilled
<1>1. Init => Within
  <2> SUFFICES ASSUME Init PROVE Within
    OBVIOUS
  <2>1. NeverOverfulfilled
    BY QuantitiesAssumption DEF Init, NeverOverfulfilled, Zero
  <2> QED
    BY <2>1, IdleFits DEF Init, Within
<1>2. Safe /\ Within /\ [Next]_vars => Within'
  BY NextWithin
<1>3. Within => NeverOverfulfilled
  BY DEF Within
<1> QED
  BY <1>1, <1>2, <1>3, AlwaysSafe, PTL DEF Spec
=============================================================================
