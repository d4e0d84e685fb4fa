---------------------- MODULE FulfillmentSequenceProofs ----------------------
(***************************************************************************)
(* Theorems about Fulfillment when requests follow each other: one request *)
(* at a time, any number of lines and fulfillments, any quantities.        *)
(***************************************************************************)
EXTENDS FulfillmentProofs

\* At most one request is in progress.
Sequential == \A p, q \in Staff : p = q

-----------------------------------------------------------------------------
(* Units in fulfillments.                                                  *)

\* What row f adds to UnitsIn.
Part(S, fs, ls, f, l) == IF fs[f] \in S THEN ls[f][l] ELSE 0

LEMMA FulfillmentsFinite == IsFiniteSet(Fulfillments)
BY FS_Interval, SettingsAssumption DEF Fulfillments

LEMMA UnitsType ==
    ASSUME NEW S, NEW fs, NEW ls \in [Fulfillments -> Amounts], NEW l \in Lines
    PROVE  UnitsIn(S, fs, ls, l) \in Nat
<1> DEFINE n == [f \in Fulfillments |-> IF fs[f] \in S THEN ls[f][l] ELSE 0]
<1>1. \A f \in Fulfillments : n[f] \in Int
  BY DEF Amounts
<1> HIDE DEF n
<1>2. SumOf(n, Fulfillments) \in Nat
  BY <1>1, FulfillmentsFinite, SumType
<1> QED
  BY <1>2 DEF UnitsIn, n

\* Rows that hold the same units of a line have the same sum.
LEMMA UnitsSame ==
    ASSUME NEW S, NEW fs, NEW ls, NEW gs, NEW ms, NEW l \in Lines,
           \A f \in Fulfillments : Part(S, gs, ms, f, l) = Part(S, fs, ls, f, l)
    PROVE  UnitsIn(S, gs, ms, l) = UnitsIn(S, fs, ls, l)
<1> DEFINE n == [f \in Fulfillments |-> IF fs[f] \in S THEN ls[f][l] ELSE 0]
           m == [f \in Fulfillments |-> IF gs[f] \in S THEN ms[f][l] ELSE 0]
<1>1. \A f \in Fulfillments : m[f] = n[f]
  BY DEF Part
<1> HIDE DEF m, n
<1>2. SumOf(m, Fulfillments) = SumOf(n, Fulfillments)
  BY <1>1, SumSame
<1> QED
  BY <1>2 DEF UnitsIn, m, n

\* One row that changes changes the sum by as much.
LEMMA UnitsChange ==
    ASSUME NEW S, NEW fs, NEW ls \in [Fulfillments -> Amounts],
           NEW gs, NEW ms \in [Fulfillments -> Amounts],
           NEW l \in Lines, NEW k \in Fulfillments,
           \A f \in Fulfillments \ {k} :
              Part(S, gs, ms, f, l) = Part(S, fs, ls, f, l)
    PROVE  UnitsIn(S, gs, ms, l) =
             UnitsIn(S, fs, ls, l) + (Part(S, gs, ms, k, l) - Part(S, fs, ls, k, l))
<1> DEFINE n == [f \in Fulfillments |-> IF fs[f] \in S THEN ls[f][l] ELSE 0]
           m == [f \in Fulfillments |-> IF gs[f] \in S THEN ms[f][l] ELSE 0]
<1>1. /\ \A f \in Fulfillments : m[f] \in Nat
      /\ \A f \in Fulfillments : n[f] \in Nat
  BY DEF Amounts
<1>2. /\ \A f \in Fulfillments : m[f] = Part(S, gs, ms, f, l)
      /\ \A f \in Fulfillments : n[f] = Part(S, fs, ls, f, l)
  BY DEF Part
<1> HIDE DEF m, n
<1>3. \A f \in Fulfillments \ {k} : m[f] = n[f]
  BY <1>2
<1>4. SumOf(m, Fulfillments) = SumOf(n, Fulfillments) + (m[k] - n[k])
  BY <1>1, <1>3, FulfillmentsFinite, SumChange
<1> QED
  BY <1>2, <1>4 DEF UnitsIn, m, n

\* A row holds no more than all of them.
LEMMA UnitsPart ==
    ASSUME NEW S, NEW fs, NEW ls \in [Fulfillments -> Amounts], NEW l \in Lines,
           NEW k \in Fulfillments
    PROVE  Part(S, fs, ls, k, l) <= UnitsIn(S, fs, ls, l)
<1> DEFINE n == [f \in Fulfillments |-> IF fs[f] \in S THEN ls[f][l] ELSE 0]
<1>1. \A f \in Fulfillments : n[f] \in Nat
  BY DEF Amounts
<1>2. n[k] = Part(S, fs, ls, k, l)
  BY DEF Part
<1> HIDE DEF n
<1>3. n[k] <= SumOf(n, Fulfillments)
  BY <1>1, FulfillmentsFinite, SumPart
<1> QED
  BY <1>2, <1>3 DEF UnitsIn, n

-----------------------------------------------------------------------------
(* The inductive invariant.                                                *)

Gone == {"ABSENT", "DELETED"}
Live == FulfillmentStatuses \ {"CANCELED"}

\* Rows are created in the order of their keys, and have no lines before
\* they are created and after they are deleted.
RowsInOrder ==
    \A f \in Fulfillments :
        /\ fstatus[f] \in Gone => lines[f] = Zero
        /\ \A g \in Fulfillments :
              g < f /\ fstatus[f] # "ABSENT" => fstatus[g] # "ABSENT"

\* The units asked for of order lines are still unfulfilled.
StillOpen(r) ==
    \A l \in Lines : r.ask[l] > 0 => r.ask[l] <= Ordered[l] - fulfilled[l]

\* What a request has read is what the database holds.
Current(r) ==
    /\ r.op = "OrderFulfill" =>
          /\ r.seen = fulfilled /\ StillOpen(r)
          /\ r.phase = "loaded" => r.order = status
    /\ r.op = "FulfillmentApprove" =>
          /\ fstatus[r.f] = "WAITING_FOR_APPROVAL"
          /\ r.phase = "loaded" => r.order = status
    /\ r.op = "CancelWaiting" => fstatus[r.f] = "WAITING_FOR_APPROVAL"
    /\ r.op = "FulfillmentCancel" =>
          fstatus[r.f] \notin Gone \cup {"CANCELED", "WAITING_FOR_APPROVAL"}
    /\ r.op \in {"CancelWaiting", "FulfillmentCancel"} /\ r.phase = "loaded" =>
          r.seen = fulfilled /\ r.got = lines[r.f] /\ r.order = status
    /\ r.op \in {"FulfillmentRefundProducts", "FulfillmentReturnProducts"}
       /\ r.phase = "read" =>
          /\ r.seen = fulfilled /\ StillOpen(r) /\ r.got = Loaded(r.f)
          /\ r.f # NoFulfillment => fstatus[r.f] \notin Gone \cup {"CANCELED"}
          /\ r.f = NoFulfillment => r.move = Zero
    /\ r.op = "FulfillmentReturnProducts" => r.order = status

Books ==
    /\ RowsInOrder
    /\ \A p \in Staff : Current(request[p])
    /\ FulfilledCounted
    /\ NeverOverfulfilled

LEMMA IdleCurrent == Current(Idle) /\ Current(Idle)'
BY DEF Current, Idle

\* A step that only reads.
LEMMA ReadsBooks ==
    ASSUME Sequential, Safe, Books, NEW p \in Staff, NEW r, Current(r),
           request' = [request EXCEPT ![p] = r],
           UNCHANGED <<status, fulfilled, fstatus, lines>>
    PROVE  Books'
<1>1. \A q \in Staff : request'[q] = r
  BY DEF Sequential, Safe, TypeOK
<1>2. Current(r)'
  BY DEF Current, StillOpen, Loaded
<1>3. \A q \in Staff : Current(request[q])'
  BY <1>1, <1>2
<1> QED
  BY <1>3 DEF Books, RowsInOrder, FulfilledCounted, NeverOverfulfilled

\* A step that ends the request.
LEMMA EndsBooks ==
    ASSUME Sequential, Safe, NEW p \in Staff, Finish(p),
           RowsInOrder', FulfilledCounted', NeverOverfulfilled'
    PROVE  Books'
<1>1. \A q \in Staff : request'[q] = Idle
  BY DEF Sequential, Safe, TypeOK, Finish
<1>2. \A q \in Staff : Current(request[q])'
  BY <1>1, IdleCurrent
<1> QED
  BY <1>2 DEF Books

LEMMA InitBooks == Init => Books
<1> SUFFICES ASSUME Init PROVE Books
  OBVIOUS
<1>1. RowsInOrder
  BY DEF Init, RowsInOrder
<1>2. \A p \in Staff : Current(request[p])
  BY IdleCurrent DEF Init
<1>3. ASSUME NEW l \in Lines
      PROVE  UnitsIn(Live, fstatus, lines, l) = 0
  <2> DEFINE n == [f \in Fulfillments |-> IF fstatus[f] \in Live THEN lines[f][l] ELSE 0]
  <2>1. \A f \in Fulfillments : n[f] = 0
    BY DEF Init, Zero
  <2> HIDE DEF n
  <2>2. SumOf(n, Fulfillments) = 0
    BY <2>1, SumZero
  <2> QED
    BY <2>2 DEF UnitsIn, n
<1>4. FulfilledCounted
  BY <1>3 DEF FulfilledCounted, Init, Zero, Live
<1>5. NeverOverfulfilled
  BY QuantitiesAssumption DEF NeverOverfulfilled, Init, Zero
<1> QED
  BY <1>1, <1>2, <1>4, <1>5 DEF Books

-----------------------------------------------------------------------------
(* The steps that read.                                                    *)

LEMMA FulfillReadBooks ==
    ASSUME Sequential, Safe, Books, NEW p \in Staff, NEW ask \in Amounts,
           FulfillRead(p, ask) \/ FulfillLock(p)
    PROVE  Books'
<1>1. CASE FulfillRead(p, ask)
  <2> DEFINE r == [Idle EXCEPT !.op = "OrderFulfill", !.phase = "read",
                               !.ask = ask, !.seen = fulfilled]
  <2>1. /\ r.op = "OrderFulfill" /\ r.phase = "read" /\ r.ask = ask
        /\ r.seen = fulfilled
    BY DEF Idle
  <2>2. request' = [request EXCEPT ![p] = r]
    BY <1>1 DEF FulfillRead, Start
  <2> HIDE DEF r
  <2>3. StillOpen(r)
    BY <1>1, <2>1 DEF FulfillRead, Remaining, Asked, StillOpen
  <2>4. Current(r)
    BY <2>1, <2>3 DEF Current
  <2> QED
    BY <1>1, <2>2, <2>4, ReadsBooks DEF FulfillRead
<1>2. CASE FulfillLock(p)
  <2> DEFINE r == request[p]
             t == [r EXCEPT !.phase = "loaded", !.order = status]
  <2>1. r \in Requests /\ Current(r) /\ r.op = "OrderFulfill"
    BY <1>2 DEF FulfillLock, Safe, TypeOK, Books
  <2>2. /\ t.op = "OrderFulfill" /\ t.order = status
        /\ t.seen = r.seen /\ t.ask = r.ask
    BY <2>1 DEF Requests
  <2>3. request' = [request EXCEPT ![p] = t]
    BY <1>2 DEF FulfillLock
  <2> HIDE DEF t
  <2>4. Current(t)
    BY <2>1, <2>2 DEF Current, StillOpen
  <2> QED
    BY <1>2, <2>3, <2>4, ReadsBooks DEF FulfillLock
<1> QED
  BY <1>1, <1>2

LEMMA ApproveReadBooks ==
    ASSUME Sequential, Safe, Books, NEW p \in Staff, NEW f \in Fulfillments,
           ApproveRead(p, f) \/ ApproveLock(p)
    PROVE  Books'
<1>1. CASE ApproveRead(p, f)
  <2> DEFINE r == [Idle EXCEPT !.op = "FulfillmentApprove", !.phase = "read",
                               !.f = f]
  <2>1. r.op = "FulfillmentApprove" /\ r.phase = "read" /\ r.f = f
    BY DEF Idle
  <2>2. request' = [request EXCEPT ![p] = r]
    BY <1>1 DEF ApproveRead, Start
  <2> HIDE DEF r
  <2>3. Current(r)
    BY <1>1, <2>1 DEF Current, ApproveRead
  <2> QED
    BY <1>1, <2>2, <2>3, ReadsBooks DEF ApproveRead
<1>2. CASE ApproveLock(p)
  <2> DEFINE r == request[p]
             t == [r EXCEPT !.phase = "loaded", !.order = status]
  <2>1. r \in Requests /\ Current(r) /\ r.op = "FulfillmentApprove"
    BY <1>2 DEF ApproveLock, Safe, TypeOK, Books
  <2>2. t.op = "FulfillmentApprove" /\ t.order = status /\ t.f = r.f
    BY <2>1 DEF Requests
  <2>3. request' = [request EXCEPT ![p] = t]
    BY <1>2 DEF ApproveLock
  <2> HIDE DEF t
  <2>4. Current(t)
    BY <2>1, <2>2 DEF Current
  <2> QED
    BY <1>2, <2>3, <2>4, ReadsBooks DEF ApproveLock
<1> QED
  BY <1>1, <1>2

LEMMA CancelReadBooks ==
    ASSUME Sequential, Safe, Books, NEW p \in Staff, NEW f \in Fulfillments,
           CancelRead(p, f) \/ CancelLoad(p)
    PROVE  Books'
<1>1. CASE CancelRead(p, f)
  <2> DEFINE op == IF fstatus[f] = "WAITING_FOR_APPROVAL"
                   THEN "CancelWaiting" ELSE "FulfillmentCancel"
             r == [Idle EXCEPT !.op = op, !.phase = "read", !.f = f]
  <2>1. r.op = op /\ r.phase = "read" /\ r.f = f
    BY DEF Idle
  <2>2. request' = [request EXCEPT ![p] = r]
    BY <1>1 DEF CancelRead, Start
  <2> HIDE DEF r
  <2>3. Current(r)
    BY <1>1, <2>1 DEF Current, CancelRead, Gone
  <2> QED
    BY <1>1, <2>2, <2>3, ReadsBooks DEF CancelRead
<1>2. CASE CancelLoad(p)
  <2> DEFINE r == request[p]
             t == [r EXCEPT !.phase = "loaded", !.seen = fulfilled,
                            !.got = lines[r.f], !.order = status]
  <2>1. /\ r \in Requests /\ Current(r)
        /\ r.op \in {"FulfillmentCancel", "CancelWaiting"}
    BY <1>2 DEF CancelLoad, Safe, TypeOK, Books
  <2>2. /\ t.op = r.op /\ t.phase = "loaded" /\ t.order = status /\ t.f = r.f
        /\ t.seen = fulfilled /\ t.got = lines[r.f]
    BY <2>1 DEF Requests
  <2>3. request' = [request EXCEPT ![p] = t]
    BY <1>2 DEF CancelLoad
  <2> HIDE DEF t
  <2>4. Current(t)
    BY <2>1, <2>2 DEF Current
  <2> QED
    BY <1>2, <2>3, <2>4, ReadsBooks DEF CancelLoad
<1> QED
  BY <1>1, <1>2

LEMMA MoveReadBooks ==
    ASSUME Sequential, Safe, Books, NEW p \in Staff,
           NEW f \in Fulfillments \cup {NoFulfillment},
           NEW ask \in Amounts, NEW move \in Amounts,
           NEW refund \in BOOLEAN, NEW replace \in BOOLEAN,
           \/ RefundRead(p, f, ask, move)
           \/ ReturnRead(p, f, ask, move, refund, replace)
    PROVE  Books'
<1> DEFINE q == [Idle EXCEPT !.op = "FulfillmentRefundProducts",
                             !.phase = "read", !.f = f, !.ask = ask,
                             !.move = move, !.seen = fulfilled,
                             !.got = Loaded(f)]
           r == [Idle EXCEPT !.op = "FulfillmentReturnProducts",
                             !.phase = "read", !.f = f, !.ask = ask,
                             !.move = move, !.seen = fulfilled,
                             !.got = Loaded(f), !.order = status,
                             !.refund = refund, !.replace = replace]
<1>1. /\ Remaining(ask)
      /\ f # NoFulfillment => fstatus[f] \notin Gone \cup {"CANCELED"}
      /\ f = NoFulfillment => move = Zero
  BY DEF RefundRead, ReturnRead, MovesValid, Gone
<1>2. /\ q.op = "FulfillmentRefundProducts" /\ q.phase = "read" /\ q.f = f
      /\ q.ask = ask /\ q.move = move /\ q.seen = fulfilled /\ q.got = Loaded(f)
  BY DEF Idle
<1>3. /\ r.op = "FulfillmentReturnProducts" /\ r.phase = "read" /\ r.f = f
      /\ r.ask = ask /\ r.move = move /\ r.seen = fulfilled /\ r.got = Loaded(f)
      /\ r.order = status
  BY DEF Idle
<1>4. \/ request' = [request EXCEPT ![p] = q]
      \/ request' = [request EXCEPT ![p] = r]
  BY DEF RefundRead, ReturnRead, Start
<1> HIDE DEF q, r
<1>5. StillOpen(q) /\ StillOpen(r)
  BY <1>1, <1>2, <1>3 DEF Remaining, Asked, StillOpen
<1>6. Current(q)
  BY <1>1, <1>2, <1>5 DEF Current
<1>7. Current(r)
  BY <1>1, <1>3, <1>5 DEF Current
<1> QED
  BY <1>4, <1>6, <1>7, ReadsBooks DEF RefundRead, ReturnRead

LEMMA CancelOrderBooks ==
    ASSUME Sequential, Safe, Books, NEW p \in Staff,
           \/ CancelOrderRead(p) \/ CancelOrder(p) \/ OrderReturned(p) \/ Fail(p)
    PROVE  Books'
<1>1. CASE CancelOrderRead(p)
  <2> DEFINE r == [Idle EXCEPT !.op = "OrderCancel", !.phase = "read"]
  <2>1. r.op = "OrderCancel"
    BY DEF Idle
  <2>2. request' = [request EXCEPT ![p] = r]
    BY <1>1 DEF CancelOrderRead, Start
  <2> HIDE DEF r
  <2>3. Current(r)
    BY <2>1 DEF Current
  <2> QED
    BY <1>1, <2>2, <2>3, ReadsBooks DEF CancelOrderRead
<1>2. CASE CancelOrder(p) \/ OrderReturned(p) \/ Fail(p)
  <2>1. UNCHANGED <<fulfilled, fstatus, lines>> /\ Finish(p)
    BY <1>2 DEF CancelOrder, OrderReturned, Fail
  <2>2. RowsInOrder' /\ FulfilledCounted' /\ NeverOverfulfilled'
    BY <2>1 DEF Books, RowsInOrder, FulfilledCounted, NeverOverfulfilled
  <2> QED
    BY <2>1, <2>2, EndsBooks
<1> QED
  BY <1>1, <1>2

-----------------------------------------------------------------------------
(* The steps that write.                                                   *)

\* The quantities a request writes that has read the current ones.
LEMMA WrittenCurrent ==
    ASSUME fulfilled \in [Lines -> Int], NEW units \in Amounts, NEW sign \in {1, -1}
    PROVE  \A l \in Lines :
              Written(units, fulfilled, sign)[l] = fulfilled[l] + sign * units[l]
BY DEF Written, Amounts

LEMMA CreateFulfillmentsBooks ==
    ASSUME Sequential, Safe, Books, NEW p \in Staff, NEW f \in Fulfillments,
           CreateFulfillments(p, f)
    PROVE  Books'
<1> DEFINE r == request[p]
<1>1. /\ r \in Requests /\ r.ask \in Amounts /\ fulfilled \in [Lines -> Int]
      /\ fstatus \in [Fulfillments -> FulfillmentStatuses]
      /\ lines \in [Fulfillments -> Amounts]
  BY DEF Safe, TypeOK, Requests
<1>2. r.seen = fulfilled /\ StillOpen(r)
  BY DEF CreateFulfillments, Books, Current
<1>3. /\ fstatus[f] = "ABSENT" /\ lines[f] = Zero
      /\ \A g \in Fulfillments : g < f => fstatus[g] # "ABSENT"
  BY DEF CreateFulfillments, NextRow, Books, RowsInOrder, Gone
<1>4. PICK s \in {"FULFILLED", "WAITING_FOR_APPROVAL"} :
         fstatus' = [fstatus EXCEPT ![f] = s]
  BY DEF CreateFulfillments
<1>5. lines' = [lines EXCEPT ![f] = r.ask] /\ fulfilled' = Written(r.ask, fulfilled, 1)
  BY <1>2 DEF CreateFulfillments, CreateFulfillmentLines
<1>6. lines' \in [Fulfillments -> Amounts]
  BY <1>1, <1>5
<1>7. RowsInOrder'
  <2> SUFFICES ASSUME NEW g \in Fulfillments
               PROVE  /\ fstatus'[g] \in Gone => lines'[g] = Zero
                      /\ \A h \in Fulfillments :
                            h < g /\ fstatus'[g] # "ABSENT" => fstatus'[h] # "ABSENT"
    BY DEF RowsInOrder
  <2>1. fstatus'[g] \in Gone => lines'[g] = Zero
    BY <1>1, <1>4, <1>5 DEF Books, RowsInOrder, Gone
  <2>2. ASSUME NEW h \in Fulfillments, h < g, fstatus'[g] # "ABSENT"
        PROVE  fstatus'[h] # "ABSENT"
    <3>1. CASE g = f
      BY <1>1, <1>3, <1>4, <2>2, <3>1
    <3>2. CASE g # f
      BY <1>1, <1>4, <2>2, <3>2 DEF Books, RowsInOrder
    <3> QED
      BY <3>1, <3>2
  <2> QED
    BY <2>1, <2>2
<1>8. \A l \in Lines : fulfilled'[l] = fulfilled[l] + r.ask[l]
  BY <1>1, <1>5, WrittenCurrent DEF Amounts
<1>9. ASSUME NEW l \in Lines
      PROVE  UnitsIn(Live, fstatus', lines', l) = UnitsIn(Live, fstatus, lines, l) + r.ask[l]
  <2>1. \A g \in Fulfillments \ {f} :
           Part(Live, fstatus', lines', g, l) = Part(Live, fstatus, lines, g, l)
    BY <1>1, <1>4, <1>5 DEF Part
  <2>2. /\ Part(Live, fstatus', lines', f, l) = r.ask[l]
        /\ Part(Live, fstatus, lines, f, l) = 0
    BY <1>1, <1>3, <1>4, <1>5 DEF Part, Live, FulfillmentStatuses, Zero
  <2>3. UnitsIn(Live, fstatus', lines', l) = UnitsIn(Live, fstatus, lines, l)
          + (Part(Live, fstatus', lines', f, l) - Part(Live, fstatus, lines, f, l))
    BY <1>1, <1>6, <2>1, UnitsChange
  <2>4. r.ask[l] \in Nat
    BY <1>1 DEF Amounts
  <2> QED
    BY <2>2, <2>3, <2>4
<1>10. FulfilledCounted'
  BY <1>8, <1>9 DEF Books, FulfilledCounted, Live
<1>11. NeverOverfulfilled'
  <2> SUFFICES ASSUME NEW l \in Lines
               PROVE  0 <= fulfilled'[l] /\ fulfilled'[l] <= Ordered[l]
    BY DEF NeverOverfulfilled
  <2>1. r.ask[l] \in Nat /\ fulfilled[l] \in Int /\ Ordered[l] \in Nat
    BY <1>1, QuantitiesAssumption DEF Amounts
  <2> QED
    BY <1>2, <1>8, <2>1 DEF Books, NeverOverfulfilled, StillOpen
<1>12. Finish(p)
  BY DEF CreateFulfillments
<1> QED
  BY <1>7, <1>10, <1>11, <1>12, EndsBooks

LEMMA ApproveFulfillmentBooks ==
    ASSUME Sequential, Safe, Books, NEW p \in Staff, ApproveFulfillment(p)
    PROVE  Books'
<1> DEFINE f == request[p].f
<1>1. /\ f \in Fulfillments /\ fstatus[f] = "WAITING_FOR_APPROVAL"
      /\ fstatus \in [Fulfillments -> FulfillmentStatuses]
  BY DEF ApproveFulfillment, Safe, TypeOK, RequestsCoherent, Coherent, Books, Current
<1>2. /\ fstatus' = [fstatus EXCEPT ![f] = "FULFILLED"]
      /\ UNCHANGED <<fulfilled, lines>> /\ Finish(p)
  BY DEF ApproveFulfillment
<1> HIDE DEF f
<1>3. RowsInOrder'
  BY <1>1, <1>2 DEF Books, RowsInOrder, Gone
<1>4. ASSUME NEW l \in Lines
      PROVE  UnitsIn(Live, fstatus', lines', l) = UnitsIn(Live, fstatus, lines, l)
  <2>1. \A g \in Fulfillments :
           Part(Live, fstatus', lines', g, l) = Part(Live, fstatus, lines, g, l)
    BY <1>1, <1>2 DEF Part, Live, FulfillmentStatuses
  <2> QED
    BY <2>1, UnitsSame
<1>5. FulfilledCounted' /\ NeverOverfulfilled'
  BY <1>2, <1>4 DEF Books, FulfilledCounted, NeverOverfulfilled, Live
<1> QED
  BY <1>2, <1>3, <1>5, EndsBooks

\* A fulfillment that is cancelled, or waited and is deleted.
LEMMA CancelFulfillmentBooks ==
    ASSUME Sequential, Safe, Books, NEW p \in Staff,
           CancelFulfillment(p) \/ CancelWaitingFulfillment(p)
    PROVE  Books'
<1> DEFINE r == request[p]
           f == r.f
<1>1. /\ r \in Requests /\ fulfilled \in [Lines -> Int]
      /\ fstatus \in [Fulfillments -> FulfillmentStatuses]
      /\ lines \in [Fulfillments -> Amounts] /\ f \in Fulfillments
  BY DEF CancelFulfillment, CancelWaitingFulfillment, Safe, TypeOK,
         RequestsCoherent, Coherent
<1>2. /\ r.seen = fulfilled /\ r.got = lines[f]
      /\ fstatus[f] \notin Gone \cup {"CANCELED"}
  BY DEF CancelFulfillment, CancelWaitingFulfillment, Books, Current, Gone
<1>3. lines[f] \in Amounts /\ Zero \in Amounts
  BY <1>1 DEF Amounts, Zero
<1>4. /\ fulfilled' = Written(lines[f], fulfilled, -1) /\ Finish(p)
      /\ \/ lines' = lines /\ fstatus' = [fstatus EXCEPT ![f] = "CANCELED"]
         \/ /\ lines' = [lines EXCEPT ![f] = Zero]
            /\ fstatus' = [fstatus EXCEPT ![f] = "DELETED"]
  BY <1>2 DEF CancelFulfillment, CancelWaitingFulfillment, RestockFulfillmentLines
<1> HIDE DEF f, r
<1>5. lines' \in [Fulfillments -> Amounts]
  BY <1>1, <1>3, <1>4
<1>6. RowsInOrder'
  BY <1>1, <1>2, <1>4 DEF Books, RowsInOrder, Gone
<1>7. \A l \in Lines : fulfilled'[l] = fulfilled[l] - lines[f][l]
  BY <1>1, <1>3, <1>4, WrittenCurrent DEF Amounts
<1>8. ASSUME NEW l \in Lines
      PROVE  UnitsIn(Live, fstatus', lines', l)
               = UnitsIn(Live, fstatus, lines, l) - lines[f][l]
  <2>1. \A g \in Fulfillments \ {f} :
           Part(Live, fstatus', lines', g, l) = Part(Live, fstatus, lines, g, l)
    BY <1>1, <1>4 DEF Part
  <2>2. /\ Part(Live, fstatus', lines', f, l) = 0
        /\ Part(Live, fstatus, lines, f, l) = lines[f][l]
    BY <1>1, <1>2, <1>4 DEF Part, Live, Zero
  <2>3. UnitsIn(Live, fstatus', lines', l) = UnitsIn(Live, fstatus, lines, l)
          + (Part(Live, fstatus', lines', f, l) - Part(Live, fstatus, lines, f, l))
    BY <1>1, <1>5, <2>1, UnitsChange
  <2>4. lines[f][l] \in Nat /\ UnitsIn(Live, fstatus, lines, l) \in Nat
    BY <1>1, <1>3, UnitsType DEF Amounts
  <2> QED
    BY <2>2, <2>3, <2>4
<1>9. FulfilledCounted'
  BY <1>7, <1>8 DEF Books, FulfilledCounted, Live
<1>10. NeverOverfulfilled'
  <2> SUFFICES ASSUME NEW l \in Lines
               PROVE  0 <= fulfilled'[l] /\ fulfilled'[l] <= Ordered[l]
    BY DEF NeverOverfulfilled
  <2>1. fulfilled'[l] = UnitsIn(Live, fstatus', lines', l)
    BY <1>9 DEF FulfilledCounted, Live
  <2>2. fulfilled'[l] \in Nat
    BY <1>5, <2>1, UnitsType
  <2>3. lines[f][l] \in Nat /\ fulfilled[l] \in Int /\ Ordered[l] \in Nat
    BY <1>1, <1>3, QuantitiesAssumption DEF Amounts
  <2> QED
    BY <1>7, <2>2, <2>3 DEF Books, NeverOverfulfilled
<1> QED
  BY <1>4, <1>6, <1>9, <1>10, EndsBooks

\* The rows that exist are the first ones.
LEMMA CreatedRows ==
    ASSUME Safe, RowsInOrder
    PROVE  /\ Created \in Nat
           /\ \A f \in Fulfillments : fstatus[f] # "ABSENT" <=> f <= Created
<1> DEFINE N == {f \in Fulfillments : fstatus[f] # "ABSENT"}
           A == {f \in Fulfillments : fstatus[f] = "ABSENT"}
<1>1. Fulfillments = 1 .. MaxFulfillments /\ MaxFulfillments \in Nat
  BY SettingsAssumption DEF Fulfillments
<1>2. PICK n \in Nat : N = 1 .. n
  <2>1. CASE A = {}
    <3>1. N = 1 .. MaxFulfillments
      BY <1>1, <2>1
    <3> QED
      BY <1>1, <3>1
  <2>2. CASE A # {}
    <3>1. A \in SUBSET Nat
      BY <1>1
    <3>2. PICK k \in A : \A m \in A : k <= m
      BY <2>2, <3>1, LeastNumber
    <3>3. k \in Fulfillments /\ k \in 1 .. MaxFulfillments
      BY <1>1, <3>2
    <3>4. \A f \in Fulfillments : f < k <=> f \in N
      <4> SUFFICES ASSUME NEW f \in Fulfillments PROVE f < k <=> f \in N
        OBVIOUS
      <4>1. f \in 1 .. MaxFulfillments
        BY <1>1
      <4>2. CASE f < k
        BY <1>1, <3>2, <3>3, <4>1, <4>2
      <4>3. CASE f = k
        BY <3>2, <3>3, <4>1, <4>3
      <4>4. CASE k < f
        BY <3>2, <3>3, <4>1, <4>4 DEF RowsInOrder
      <4> QED
        BY <1>1, <3>3, <4>1, <4>2, <4>3, <4>4
    <3>5. N = 1 .. (k - 1)
      <4>1. \A f : f \in N <=> f \in 1 .. (k - 1)
        BY <1>1, <3>3, <3>4
      <4> QED
        BY <4>1
    <3>6. k - 1 \in Nat
      BY <1>1, <3>3
    <3> QED
      BY <3>5, <3>6
  <2> QED
    BY <2>1, <2>2
<1>3. Created = n
  <2>1. Cardinality(1 .. n) = n
    BY FS_Interval
  <2> QED
    BY <1>2, <2>1 DEF Created
<1> QED
  BY <1>1, <1>2, <1>3

\* The fulfillments a refund or a return creates: one or two, which together
\* hold the units asked for.
LEMMA TargetsUnits ==
    ASSUME NEW r \in Requests
    PROVE  /\ \/ DOMAIN Targets(r) = {1} /\ Len(Targets(r)) = 1
              \/ DOMAIN Targets(r) = {1, 2} /\ Len(Targets(r)) = 2
           /\ \A i \in DOMAIN Targets(r) :
                 /\ Targets(r)[i][1] \in {"REFUNDED", "REPLACED", "RETURNED",
                                          "REFUNDED_AND_RETURNED"}
                 /\ Targets(r)[i][2] \in Amounts
           /\ \A l \in Lines :
                 /\ Len(Targets(r)) = 1 => Targets(r)[1][2][l] = r.ask[l] + r.move[l]
                 /\ Len(Targets(r)) = 2 =>
                       Targets(r)[1][2][l] + Targets(r)[2][2][l] = r.ask[l] + r.move[l]
<1> DEFINE both == Sum2(r.ask, r.move)
<1>1. /\ both \in Amounts /\ Zero \in Amounts
      /\ r.ask \in Amounts /\ r.move \in Amounts
      /\ \A l \in Lines : /\ both[l] = r.ask[l] + r.move[l]
                          /\ both[l] + Zero[l] = r.ask[l] + r.move[l]
  BY DEF Sum2, Amounts, Zero, Requests
<1>2. PICK s \in {"REFUNDED", "REPLACED", "RETURNED", "REFUNDED_AND_RETURNED"},
           t \in {"REFUNDED", "REPLACED", "RETURNED", "REFUNDED_AND_RETURNED"} :
         \/ Targets(r) = << <<s, both>> >>
         \/ Targets(r) = << <<s, both>>, <<t, Zero>> >>
         \/ Targets(r) = << <<s, r.ask>>, <<t, r.move>> >>
  BY DEF Targets
<1> HIDE DEF both
<1>3. CASE Targets(r) = << <<s, both>> >>
  BY <1>1, <1>3
<1>4. CASE Targets(r) = << <<s, both>>, <<t, Zero>> >>
  BY <1>1, <1>4
<1>5. CASE Targets(r) = << <<s, r.ask>>, <<t, r.move>> >>
  BY <1>1, <1>5
<1> QED
  BY <1>2, <1>3, <1>4, <1>5

\* What a move of a request leaves in the rows, when what it has read is
\* current: row C + i is target i, the others lose the units moved.
LEMMA MovedRows ==
    ASSUME Safe, Books, NEW p \in Staff, MoveLines(p),
           request[p].op \in {"FulfillmentRefundProducts", "FulfillmentReturnProducts"}
    PROVE  LET r == request[p]
               to == Targets(r)
           IN  /\ fulfilled' = Written(r.ask, fulfilled, 1)
               /\ Created + Len(to) <= MaxFulfillments
               /\ \A f \in Fulfillments :
                     /\ f - Created \in DOMAIN to =>
                           /\ lines'[f] = to[f - Created][2]
                           /\ fstatus'[f] = to[f - Created][1]
                     /\ f - Created \notin DOMAIN to =>
                           /\ \A l \in Lines :
                                 lines'[f][l] = lines[f][l]
                                   - (IF f = r.f THEN r.move[l] ELSE 0)
                           /\ \/ fstatus'[f] = fstatus[f]
                              \/ /\ fstatus'[f] = "DELETED" /\ lines'[f] = Zero
                                 /\ fstatus[f] \in {"FULFILLED", "WAITING_FOR_APPROVAL"}
               /\ fstatus' \in [Fulfillments -> FulfillmentStatuses]
               /\ lines' \in [Fulfillments -> Amounts]
               /\ r.f \in Fulfillments =>
                     fstatus[r.f] \notin Gone \cup {"CANCELED"}
               /\ r.f \notin Fulfillments => r.move = Zero
               /\ StillOpen(r) /\ UNCHANGED status
<1> DEFINE r    == request[p]
           to   == Targets(r)
           at   == [f \in Fulfillments |-> f - Created]
           made == {f \in Fulfillments : at[f] \in DOMAIN to}
           ls   == [f \in Fulfillments |->
                       IF f \in made THEN to[at[f]][2] ELSE TakenFrom(r)[f]]
           fs   == [f \in Fulfillments |->
                       IF f \in made THEN to[at[f]][1] ELSE fstatus[f]]
<1>1. /\ r \in Requests /\ r.move \in Amounts /\ r.phase = "read" /\ Coherent(r)
      /\ r.f \in Fulfillments \cup {NoFulfillment}
      /\ lines \in [Fulfillments -> Amounts]
      /\ fstatus \in [Fulfillments -> FulfillmentStatuses]
  BY DEF Safe, TypeOK, RequestsCoherent, MoveLines, Requests
<1>2. /\ r.seen = fulfilled /\ r.got = Loaded(r.f) /\ StillOpen(r)
      /\ r.f # NoFulfillment => fstatus[r.f] \notin Gone \cup {"CANCELED"}
      /\ r.f = NoFulfillment => r.move = Zero
  BY <1>1 DEF Books, Current
<1>3. /\ fulfilled' = Written(r.ask, fulfilled, 1) /\ UNCHANGED status
      /\ Created + Len(to) <= MaxFulfillments
      /\ lines' = ls /\ fstatus' = DeleteEmpty(fs, ls)
  BY <1>2 DEF MoveLines, MoveOrderLines
<1>4. \A i \in DOMAIN to :
         /\ to[i][1] \in {"REFUNDED", "REPLACED", "RETURNED", "REFUNDED_AND_RETURNED"}
         /\ to[i][2] \in Amounts
  BY <1>1, TargetsUnits
<1>5. NoFulfillment \notin Fulfillments
  BY SettingsAssumption DEF Fulfillments, NoFulfillment
<1>6. TakenFrom(r) \in [Fulfillments -> Amounts]
  BY <1>1, TakenFromType DEF Coherent
<1>7. ASSUME NEW f \in Fulfillments, NEW l \in Lines
      PROVE  TakenFrom(r)[f][l] = lines[f][l] - (IF f = r.f THEN r.move[l] ELSE 0)
  <2>1. lines[f][l] \in Nat /\ r.move[l] \in Nat
    BY <1>1 DEF Amounts
  <2>2. TakenFrom(r)[f][l] = IF f = r.f /\ r.move[l] > 0 /\ lines[f][l] > 0
                             THEN r.got[l] - r.move[l] ELSE lines[f][l]
    BY DEF TakenFrom
  <2>3. CASE f = r.f
    <3>1. r.got = lines[f] /\ r.move[l] <= r.got[l]
      BY <1>1, <1>2, <1>5, <2>3 DEF Loaded, Coherent
    <3> QED
      BY <2>1, <2>2, <2>3, <3>1
  <2>4. CASE f # r.f
    BY <2>1, <2>2, <2>4
  <2> QED
    BY <2>3, <2>4
<1> HIDE DEF to
<1>8. ls \in [Fulfillments -> Amounts]
  BY <1>4, <1>6
<1>9. \A f \in Fulfillments :
         /\ f - Created \in DOMAIN to =>
               ls[f] = to[f - Created][2] /\ fs[f] = to[f - Created][1]
         /\ f - Created \notin DOMAIN to =>
               ls[f] = TakenFrom(r)[f] /\ fs[f] = fstatus[f]
  OBVIOUS
<1>10. fs \in [Fulfillments -> FulfillmentStatuses]
  BY <1>1, <1>4 DEF FulfillmentStatuses
<1> HIDE DEF ls, fs
<1>11. \A f \in Fulfillments :
          fstatus'[f] = IF fs[f] \in {"FULFILLED", "WAITING_FOR_APPROVAL"}
                           /\ ls[f] = Zero
                        THEN "DELETED" ELSE fs[f]
  BY <1>3 DEF DeleteEmpty
<1>12. fstatus' \in [Fulfillments -> FulfillmentStatuses]
  BY <1>3, <1>10 DEF DeleteEmpty, FulfillmentStatuses
<1>13. ASSUME NEW f \in Fulfillments, f - Created \in DOMAIN to
       PROVE  lines'[f] = to[f - Created][2] /\ fstatus'[f] = to[f - Created][1]
  BY <1>3, <1>4, <1>9, <1>11, <1>13
<1>14. ASSUME NEW f \in Fulfillments, f - Created \notin DOMAIN to
       PROVE  /\ \A l \in Lines :
                    lines'[f][l] = lines[f][l] - (IF f = r.f THEN r.move[l] ELSE 0)
              /\ \/ fstatus'[f] = fstatus[f]
                 \/ /\ fstatus'[f] = "DELETED" /\ lines'[f] = Zero
                    /\ fstatus[f] \in {"FULFILLED", "WAITING_FOR_APPROVAL"}
  BY <1>3, <1>7, <1>9, <1>11, <1>14
<1>15. /\ r.f \in Fulfillments => fstatus[r.f] \notin Gone \cup {"CANCELED"}
       /\ r.f \notin Fulfillments => r.move = Zero
  BY <1>1, <1>2, <1>5
<1>16. lines' \in [Fulfillments -> Amounts]
  BY <1>3, <1>8
<1> QED
  BY <1>2, <1>3, <1>12, <1>13, <1>14, <1>15, <1>16 DEF to

LEMMA MoveLinesBooks ==
    ASSUME Sequential, Safe, Books, NEW p \in Staff,
           \/ CreateRefundFulfillment(p)
           \/ CreateFulfillmentsForReturnedProducts(p)
    PROVE  Books'
<1> DEFINE r    == request[p]
           to   == Targets(r)
           C    == Created
           done == [Idle EXCEPT !.op = r.op, !.phase = "committed",
                         !.order = IF r.replace THEN status ELSE r.order]
<1>1. /\ MoveLines(p) /\ r \in Requests
      /\ r.op \in {"FulfillmentRefundProducts", "FulfillmentReturnProducts"}
      /\ \/ Finish(p)
         \/ /\ r.op = "FulfillmentReturnProducts"
            /\ request' = [request EXCEPT ![p] = done]
  BY DEF CreateRefundFulfillment, CreateFulfillmentsForReturnedProducts, Safe, TypeOK
<1>2. /\ fulfilled' = Written(r.ask, fulfilled, 1)
      /\ C + Len(to) <= MaxFulfillments
      /\ fstatus' \in [Fulfillments -> FulfillmentStatuses]
      /\ lines' \in [Fulfillments -> Amounts]
      /\ r.f \in Fulfillments => fstatus[r.f] \notin Gone \cup {"CANCELED"}
      /\ r.f \notin Fulfillments => r.move = Zero
      /\ StillOpen(r) /\ UNCHANGED status
  BY <1>1, MovedRows
<1>3. \A f \in Fulfillments : f - C \in DOMAIN to =>
         lines'[f] = to[f - C][2] /\ fstatus'[f] = to[f - C][1]
  BY <1>1, MovedRows
<1>4. \A f \in Fulfillments : f - C \notin DOMAIN to =>
         /\ \A l \in Lines :
               lines'[f][l] = lines[f][l] - (IF f = r.f THEN r.move[l] ELSE 0)
         /\ \/ fstatus'[f] = fstatus[f]
            \/ /\ fstatus'[f] = "DELETED" /\ lines'[f] = Zero
               /\ fstatus[f] \in {"FULFILLED", "WAITING_FOR_APPROVAL"}
  BY <1>1, MovedRows
<1>5. /\ \/ DOMAIN to = {1} /\ Len(to) = 1
         \/ DOMAIN to = {1, 2} /\ Len(to) = 2
      /\ \A i \in DOMAIN to :
            /\ to[i][1] \in {"REFUNDED", "REPLACED", "RETURNED", "REFUNDED_AND_RETURNED"}
            /\ to[i][2] \in Amounts
      /\ \A l \in Lines :
            /\ Len(to) = 1 => to[1][2][l] = r.ask[l] + r.move[l]
            /\ Len(to) = 2 => to[1][2][l] + to[2][2][l] = r.ask[l] + r.move[l]
  BY <1>1, TargetsUnits
<1>6. C \in Nat /\ \A f \in Fulfillments : fstatus[f] # "ABSENT" <=> f <= C
  BY CreatedRows DEF Books
<1>7. /\ r.ask \in Amounts /\ r.move \in Amounts /\ fulfilled \in [Lines -> Int]
      /\ fstatus \in [Fulfillments -> FulfillmentStatuses]
      /\ lines \in [Fulfillments -> Amounts]
      /\ Fulfillments = 1 .. MaxFulfillments /\ MaxFulfillments \in Nat
  BY <1>1, SettingsAssumption DEF Safe, TypeOK, Requests, Fulfillments
<1> HIDE DEF to, C
<1>8. RowsInOrder'
  <2>1. \A f \in Fulfillments : fstatus'[f] # "ABSENT" <=> f <= C + Len(to)
    <3> SUFFICES ASSUME NEW f \in Fulfillments
                 PROVE  fstatus'[f] # "ABSENT" <=> f <= C + Len(to)
      OBVIOUS
    <3>1. f \in Nat /\ f > 0
      BY <1>7
    <3>2. CASE f - C \in DOMAIN to
      BY <1>3, <1>5, <1>6, <3>1, <3>2
    <3>3. CASE f - C \notin DOMAIN to
      <4>1. f <= C <=> f <= C + Len(to)
        <5>1. C \in Nat
          BY <1>6
        <5>2. CASE DOMAIN to = {1} /\ Len(to) = 1
          BY <3>1, <3>3, <5>1, <5>2
        <5>3. CASE DOMAIN to = {1, 2} /\ Len(to) = 2
          BY <3>1, <3>3, <5>1, <5>3
        <5> QED
          BY <1>5, <5>2, <5>3
      <4> QED
        BY <1>4, <1>6, <3>3, <4>1
    <3> QED
      BY <3>2, <3>3
  <2>2. ASSUME NEW f \in Fulfillments, fstatus'[f] \in Gone PROVE lines'[f] = Zero
    <3>1. f - C \notin DOMAIN to
      BY <1>3, <1>5, <2>2 DEF Gone
    <3>2. CASE fstatus'[f] = fstatus[f]
      <4>1. lines[f] = Zero /\ f # r.f
        BY <1>2, <2>2, <3>2 DEF Books, RowsInOrder
      <4>2. \A l \in Lines : lines'[f][l] = lines[f][l]
        <5>1. \A l \in Lines : lines[f][l] \in Nat
          BY <1>7 DEF Amounts
        <5> QED
          BY <1>4, <3>1, <4>1, <5>1
      <4>3. lines'[f] \in [Lines -> Nat] /\ \A l \in Lines : lines'[f][l] = 0
        BY <1>2, <4>1, <4>2 DEF Zero, Amounts
      <4> QED
        BY <4>3 DEF Zero
    <3> QED
      BY <1>4, <3>1, <3>2
  <2>3. \A f, g \in Fulfillments :
           g < f /\ fstatus'[f] # "ABSENT" => fstatus'[g] # "ABSENT"
    BY <1>5, <1>6, <1>7, <2>1
  <2> QED
    BY <2>2, <2>3 DEF RowsInOrder
<1>9. \A l \in Lines : fulfilled'[l] = fulfilled[l] + r.ask[l]
  <2>1. fulfilled' = Written(r.ask, fulfilled, 1)
    BY <1>2
  <2>2. r.ask \in Amounts /\ fulfilled \in [Lines -> Int]
    BY <1>7
  <2>3. \A l \in Lines : fulfilled'[l] = fulfilled[l] + 1 * r.ask[l]
    BY <2>1, <2>2, WrittenCurrent
  <2> QED
    BY <2>2, <2>3 DEF Amounts
<1>10. ASSUME NEW l \in Lines
       PROVE  UnitsIn(Live, fstatus', lines', l) = UnitsIn(Live, fstatus, lines, l) + r.ask[l]
  <2> DEFINE before == [f \in Fulfillments |-> IF fstatus[f] \in Live THEN lines[f][l] ELSE 0]
             after  == [f \in Fulfillments |-> IF fstatus'[f] \in Live THEN lines'[f][l] ELSE 0]
             minus  == [f \in Fulfillments |-> IF f = r.f THEN r.move[l] ELSE 0]
             plus   == [f \in Fulfillments |->
                          IF f - C \in DOMAIN to THEN to[f - C][2][l] ELSE 0]
             both   == [f \in Fulfillments |-> before[f] + plus[f]]
  <2>0. r.ask[l] \in Nat /\ r.move[l] \in Nat
    BY <1>7 DEF Amounts
  <2>1. /\ \A f \in Fulfillments : before[f] \in Nat
        /\ \A f \in Fulfillments : after[f] \in Nat
        /\ \A f \in Fulfillments : minus[f] \in Nat
        /\ \A f \in Fulfillments : plus[f] \in Nat
    <3>1. \A f \in Fulfillments : lines[f][l] \in Nat /\ lines'[f][l] \in Nat
      BY <1>2, <1>7 DEF Amounts
    <3>2. \A i \in DOMAIN to : to[i][2][l] \in Nat
      BY <1>5 DEF Amounts
    <3> QED
      BY <2>0, <3>1, <3>2
  <2>2. \A f \in Fulfillments : after[f] + minus[f] = before[f] + plus[f]
    <3> SUFFICES ASSUME NEW f \in Fulfillments
                 PROVE  after[f] + minus[f] = before[f] + plus[f]
      OBVIOUS
    <3>1. lines[f][l] \in Nat /\ lines'[f][l] \in Nat
      BY <1>2, <1>7 DEF Amounts
    <3>2. CASE f - C \in DOMAIN to
      <4>1. fstatus'[f] \in Live /\ lines'[f][l] = to[f - C][2][l]
        BY <1>3, <1>5, <3>2 DEF Live, FulfillmentStatuses
      <4>2. fstatus[f] = "ABSENT"
        BY <1>5, <1>6, <1>7, <3>2
      <4>3. f # r.f /\ lines[f][l] = 0
        BY <1>2, <4>2 DEF Books, RowsInOrder, Gone, Zero
      <4>4. after[f] = to[f - C][2][l] /\ minus[f] = 0 /\ before[f] = 0
            /\ plus[f] = to[f - C][2][l]
        BY <3>2, <4>1, <4>3
      <4> QED
        BY <2>1, <4>4
    <3>3. CASE f - C \notin DOMAIN to
      <4>1. fstatus'[f] \in Live <=> fstatus[f] \in Live
        BY <1>4, <1>7, <3>3 DEF Live, FulfillmentStatuses
      <4>2. lines'[f][l] = lines[f][l] - minus[f]
        BY <1>4, <3>3
      <4>3. CASE fstatus[f] \in Live
        <5>1. after[f] = lines[f][l] - minus[f] /\ before[f] = lines[f][l] /\ plus[f] = 0
          BY <3>3, <4>1, <4>2, <4>3
        <5> QED
          BY <2>1, <3>1, <5>1
      <4>4. CASE fstatus[f] \notin Live
        <5>1. f # r.f
          BY <1>2, <1>7, <4>4 DEF Live
        <5>2. after[f] = 0 /\ before[f] = 0 /\ plus[f] = 0 /\ minus[f] = 0
          BY <3>3, <4>1, <4>4, <5>1
        <5> QED
          BY <5>2
      <4> QED
        BY <4>3, <4>4
    <3> QED
      BY <3>2, <3>3
  <2>3. SumOf(minus, Fulfillments) = r.move[l]
    <3>1. CASE r.f \in Fulfillments
      <4>1. minus[r.f] = r.move[l] /\ \A f \in Fulfillments \ {r.f} : minus[f] = 0
        BY <3>1
      <4> HIDE DEF minus
      <4> QED
        BY <2>0, <3>1, <4>1, FulfillmentsFinite, SumSingle
    <3>2. CASE r.f \notin Fulfillments
      <4>1. r.move[l] = 0 /\ \A f \in Fulfillments : minus[f] = 0
        BY <1>2, <3>2 DEF Zero
      <4> HIDE DEF minus
      <4> QED
        BY <4>1, SumZero
    <3> QED
      BY <3>1, <3>2
  <2>4. SumOf(plus, Fulfillments) = r.ask[l] + r.move[l]
    <3>1. CASE DOMAIN to = {1} /\ Len(to) = 1
      <4>1. C + 1 \in Fulfillments /\ (C + 1) - C = 1
        BY <1>2, <1>6, <1>7, <3>1
      <4>2. plus[C + 1] = to[1][2][l] /\ \A f \in Fulfillments \ {C + 1} : plus[f] = 0
        BY <1>6, <1>7, <3>1, <4>1
      <4>3. plus[C + 1] \in Nat
        BY <2>1, <4>1
      <4> HIDE DEF plus
      <4>4. SumOf(plus, Fulfillments) = plus[C + 1]
        BY <4>1, <4>2, <4>3, FulfillmentsFinite, SumSingle
      <4> QED
        BY <1>5, <3>1, <4>2, <4>4
    <3>2. CASE DOMAIN to = {1, 2} /\ Len(to) = 2
      <4>1. /\ C + 1 \in Fulfillments /\ (C + 1) - C = 1
            /\ C + 2 \in Fulfillments /\ (C + 2) - C = 2 /\ C + 1 # C + 2
        BY <1>2, <1>6, <1>7, <3>2
      <4>2. /\ plus[C + 1] = to[1][2][l] /\ plus[C + 2] = to[2][2][l]
            /\ \A f \in Fulfillments \ {C + 1, C + 2} : plus[f] = 0
        BY <1>6, <1>7, <3>2, <4>1
      <4>3. plus[C + 1] \in Nat /\ plus[C + 2] \in Nat
        BY <2>1, <4>1
      <4> HIDE DEF plus
      <4>4. SumOf(plus, Fulfillments) = plus[C + 1] + plus[C + 2]
        BY <4>1, <4>2, <4>3, FulfillmentsFinite, SumPair
      <4> QED
        BY <1>5, <3>2, <4>2, <4>4
    <3> QED
      BY <1>5, <3>1, <3>2
  <2>5. \A f \in Fulfillments : both[f] = before[f] + plus[f]
    OBVIOUS
  <2>6. /\ UnitsIn(Live, fstatus, lines, l) = SumOf(before, Fulfillments)
        /\ UnitsIn(Live, fstatus', lines', l) = SumOf(after, Fulfillments)
    BY DEF UnitsIn
  <2> HIDE DEF before, after, minus, plus, both
  <2>7. \A f \in Fulfillments : both[f] = after[f] + minus[f]
    BY <2>2, <2>5
  <2>8. SumOf(both, Fulfillments) = SumOf(before, Fulfillments) + SumOf(plus, Fulfillments)
    BY <2>1, <2>5, FulfillmentsFinite, SumPlus
  <2>9. SumOf(both, Fulfillments) = SumOf(after, Fulfillments) + SumOf(minus, Fulfillments)
    BY <2>1, <2>7, FulfillmentsFinite, SumPlus
  <2>10. SumOf(before, Fulfillments) \in Nat /\ SumOf(after, Fulfillments) \in Nat
    BY <2>1, FulfillmentsFinite, SumType
  <2> QED
    BY <2>0, <2>3, <2>4, <2>6, <2>8, <2>9, <2>10
<1>11. FulfilledCounted'
  BY <1>9, <1>10 DEF Books, FulfilledCounted, Live
<1>12. NeverOverfulfilled'
  <2> SUFFICES ASSUME NEW l \in Lines
               PROVE  0 <= fulfilled'[l] /\ fulfilled'[l] <= Ordered[l]
    BY DEF NeverOverfulfilled
  <2>1. r.ask[l] \in Nat /\ fulfilled[l] \in Int /\ Ordered[l] \in Nat
    BY <1>7, QuantitiesAssumption DEF Amounts
  <2> QED
    BY <1>2, <1>9, <2>1 DEF Books, NeverOverfulfilled, StillOpen
<1>13. CASE Finish(p)
  BY <1>8, <1>11, <1>12, <1>13, EndsBooks
<1>14. CASE /\ r.op = "FulfillmentReturnProducts"
            /\ request' = [request EXCEPT ![p] = done]
  <2>1. /\ done.op = "FulfillmentReturnProducts" /\ done.phase = "committed"
        /\ done.order = status
    BY <1>14 DEF Idle, Books, Current
  <2>2. PICK d : /\ d.op = "FulfillmentReturnProducts" /\ d.phase = "committed"
                 /\ d.order = status /\ request' = [request EXCEPT ![p] = d]
    BY <1>14, <2>1
  <2>3. Current(d)'
    BY <1>2, <2>2 DEF Current
  <2>4. \A q \in Staff : request'[q] = d
    BY <2>2 DEF Sequential, Safe, TypeOK
  <2>5. \A q \in Staff : Current(request[q])'
    BY <2>3, <2>4
  <2> QED
    BY <1>8, <1>11, <1>12, <2>5 DEF Books
<1> QED
  BY <1>1, <1>13, <1>14

LEMMA NextBooks ==
    ASSUME Sequential
    PROVE  Safe /\ Books /\ [Next]_vars => Books'
<1>1. ASSUME Safe, Books, Next PROVE Books'
  <2>1. PICK p \in Staff :
           \/ \E ask \in Choices : FulfillRead(p, ask)
           \/ FulfillLock(p)
           \/ \E f \in Fulfillments : CreateFulfillments(p, f)
           \/ \E f \in Fulfillments : ApproveRead(p, f)
           \/ ApproveLock(p)
           \/ ApproveFulfillment(p)
           \/ \E f \in Fulfillments : CancelRead(p, f)
           \/ CancelLoad(p)
           \/ CancelFulfillment(p)
           \/ CancelWaitingFulfillment(p)
           \/ \E f \in Fulfillments \cup {NoFulfillment},
                 ask, move \in Choices : RefundRead(p, f, ask, move)
           \/ \E f \in Fulfillments \cup {NoFulfillment},
                 ask, move \in Choices, refund, replace \in BOOLEAN :
                 ReturnRead(p, f, ask, move, refund, replace)
           \/ CreateRefundFulfillment(p)
           \/ CreateFulfillmentsForReturnedProducts(p)
           \/ OrderReturned(p)
           \/ CancelOrderRead(p)
           \/ CancelOrder(p)
           \/ Fail(p)
    BY <1>1 DEF Next
  <2>2. CASE (\E ask \in Choices : FulfillRead(p, ask)) \/ FulfillLock(p)
    <3>1. Zero \in Amounts
      BY DEF Zero, Amounts
    <3> QED
      BY <1>1, <2>2, <3>1, ChoicesAmounts, FulfillReadBooks
  <2>3. CASE \E f \in Fulfillments : CreateFulfillments(p, f)
    BY <1>1, <2>3, CreateFulfillmentsBooks
  <2>4. CASE \E f \in Fulfillments : ApproveRead(p, f)
    BY <1>1, <2>4, ApproveReadBooks
  <2>5. CASE ApproveLock(p)
    <3>1. request[p].f \in Fulfillments
      BY <1>1, <2>5 DEF ApproveLock, Safe, RequestsCoherent, Coherent
    <3> QED
      BY <1>1, <2>5, <3>1, ApproveReadBooks
  <2>6. CASE ApproveFulfillment(p)
    BY <1>1, <2>6, ApproveFulfillmentBooks
  <2>7. CASE \E f \in Fulfillments : CancelRead(p, f)
    BY <1>1, <2>7, CancelReadBooks
  <2>8. CASE CancelLoad(p)
    <3>1. request[p].f \in Fulfillments
      BY <1>1, <2>8 DEF CancelLoad, Safe, RequestsCoherent, Coherent
    <3> QED
      BY <1>1, <2>8, <3>1, CancelReadBooks
  <2>9. CASE CancelFulfillment(p) \/ CancelWaitingFulfillment(p)
    BY <1>1, <2>9, CancelFulfillmentBooks
  <2>10. CASE \E f \in Fulfillments \cup {NoFulfillment},
                 ask, move \in Choices : RefundRead(p, f, ask, move)
    <3>1. PICK f \in Fulfillments \cup {NoFulfillment}, ask \in Choices,
               move \in Choices : RefundRead(p, f, ask, move)
      BY <2>10
    <3>2. ask \in Amounts /\ move \in Amounts
      BY ChoicesAmounts
    <3> QED
      BY <1>1, <3>1, <3>2, MoveReadBooks
  <2>11. CASE \E f \in Fulfillments \cup {NoFulfillment},
                 ask, move \in Choices, refund, replace \in BOOLEAN :
                 ReturnRead(p, f, ask, move, refund, replace)
    <3>1. PICK f \in Fulfillments \cup {NoFulfillment}, ask \in Choices,
               move \in Choices, refund \in BOOLEAN, replace \in BOOLEAN :
                 ReturnRead(p, f, ask, move, refund, replace)
      BY <2>11
    <3>2. ask \in Amounts /\ move \in Amounts
      BY ChoicesAmounts
    <3> QED
      BY <1>1, <3>1, <3>2, MoveReadBooks
  <2>12. CASE CreateRefundFulfillment(p) \/ CreateFulfillmentsForReturnedProducts(p)
    BY <1>1, <2>12, MoveLinesBooks
  <2>13. CASE \/ OrderReturned(p) \/ CancelOrderRead(p) \/ CancelOrder(p) \/ Fail(p)
    BY <1>1, <2>13, CancelOrderBooks
  <2> QED
    BY <2>1, <2>2, <2>3, <2>4, <2>5, <2>6, <2>7, <2>8, <2>9, <2>10, <2>11, <2>12, <2>13
<1>2. ASSUME Books, UNCHANGED vars PROVE Books'
  <2>1. \A p \in Staff : Current(request[p])'
    BY <1>2 DEF Books, Current, StillOpen, Loaded, vars
  <2>2. RowsInOrder' /\ FulfilledCounted' /\ NeverOverfulfilled'
    BY <1>2 DEF Books, RowsInOrder, FulfilledCounted, NeverOverfulfilled, vars
  <2> QED
    BY <2>1, <2>2 DEF Books
<1> QED
  BY <1>1, <1>2

LEMMA AlwaysBooks ==
    ASSUME Sequential
    PROVE  Spec => []Books
<1>1. Safe /\ Books /\ [Next]_vars => Books'
  BY NextBooks
<1> QED
  BY <1>1, InitBooks, AlwaysSafe, PTL DEF Spec

(***************************************************************************)
(* After any sequence of fulfillments, approvals, cancellations, refunds,  *)
(* returns and replacements that follow each other, quantity_fulfilled of  *)
(* every line is the number of its units in fulfillments that are not      *)
(* cancelled.                                                              *)
(***************************************************************************)
THEOREM SequenceCountsUnits ==
    ASSUME Sequential
    PROVE  Spec => []FulfilledCounted
<1>1. Books => FulfilledCounted
  BY DEF Books
<1> QED
  BY <1>1, AlwaysBooks, PTL

(***************************************************************************)
(* Such a sequence may also cancel fulfillments, and quantity_fulfilled    *)
(* stays between zero and the quantity ordered.                            *)
(***************************************************************************)
THEOREM SequenceWithinOrder ==
    ASSUME Sequential
    PROVE  Spec => []NeverOverfulfilled
<1>1. Books => NeverOverfulfilled
  BY DEF Books
<1> QED
  BY <1>1, AlwaysBooks, PTL

-----------------------------------------------------------------------------
(* Stock and allocations, without refunds and returns.                     *)

\* A row that gets status s and the units u.
LEMMA UnitsAfter ==
    ASSUME NEW fs, NEW ls \in [Fulfillments -> Amounts],
           NEW gs, NEW ms \in [Fulfillments -> Amounts],
           NEW f \in Fulfillments,
           \A g \in Fulfillments \ {f} : gs[g] = fs[g] /\ ms[g] = ls[g],
           NEW S, NEW l \in Lines
    PROVE  UnitsIn(S, gs, ms, l) = UnitsIn(S, fs, ls, l)
             + ((IF gs[f] \in S THEN ms[f][l] ELSE 0)
                - (IF fs[f] \in S THEN ls[f][l] ELSE 0))
<1>1. \A g \in Fulfillments \ {f} : Part(S, gs, ms, g, l) = Part(S, fs, ls, g, l)
  BY DEF Part
<1>2. UnitsIn(S, gs, ms, l)
        = UnitsIn(S, fs, ls, l) + (Part(S, gs, ms, f, l) - Part(S, fs, ls, f, l))
  BY <1>1, UnitsChange
<1> QED
  BY <1>2 DEF Part

\* Without refunds and returns: the stock lacks what is in fulfillments, and
\* unless the order is cancelled the rest of it is allocated.
Store ==
    /\ \A p \in Staff : request[p].op \notin {"FulfillmentRefundProducts",
                                              "FulfillmentReturnProducts"}
    /\ \A f \in Fulfillments :
          fstatus[f] \in Gone \cup {"WAITING_FOR_APPROVAL", "FULFILLED", "CANCELED"}
    /\ \A l \in Lines :
          onhand[l] = Stocked[l] - UnitsIn({"FULFILLED"}, fstatus, lines, l)
    /\ "OrderCancel" \notin Operations =>
          /\ \A p \in Staff : request[p].op # "OrderCancel"
          /\ OpenUnitsAllocated

\* A step that only reads, or comes to nothing.
LEMMA ReadsStore ==
    ASSUME Sequential, Safe, Store, NEW p \in Staff, NEW r,
           request' = [request EXCEPT ![p] = r],
           r.op \notin {"FulfillmentRefundProducts", "FulfillmentReturnProducts"},
           "OrderCancel" \in Operations \/ r.op # "OrderCancel",
           UNCHANGED <<fulfilled, fstatus, lines, onhand, allocated>>
    PROVE  Store'
<1>1. \A q \in Staff : request'[q] = r
  BY DEF Sequential, Safe, TypeOK
<1>2. OpenUnitsAllocated => OpenUnitsAllocated'
  BY DEF OpenUnitsAllocated
<1>3. \A l \in Lines :
         onhand'[l] = Stocked[l] - UnitsIn({"FULFILLED"}, fstatus', lines', l)
  BY DEF Store
<1>4. \A f \in Fulfillments :
         fstatus'[f] \in Gone \cup {"WAITING_FOR_APPROVAL", "FULFILLED", "CANCELED"}
  BY DEF Store
<1> QED
  BY <1>1, <1>2, <1>3, <1>4 DEF Store

\* A step that changes row f, with the effect that this has on the stock and
\* on the allocations.
LEMMA WritesStore ==
    ASSUME Sequential, Safe, Store, NEW p \in Staff, Finish(p),
           NEW f \in Fulfillments, lines' \in [Fulfillments -> Amounts],
           fstatus'[f] \in Gone \cup {"WAITING_FOR_APPROVAL", "FULFILLED", "CANCELED"},
           \A g \in Fulfillments \ {f} : fstatus'[g] = fstatus[g] /\ lines'[g] = lines[g],
           \A l \in Lines :
              onhand'[l] = onhand[l]
                + (IF fstatus[f] = "FULFILLED" THEN lines[f][l] ELSE 0)
                - (IF fstatus'[f] = "FULFILLED" THEN lines'[f][l] ELSE 0),
           OpenUnitsAllocated => \A l \in Lines :
              allocated'[l] + fulfilled'[l] = allocated[l] + fulfilled[l]
                - (IF fstatus[f] = "WAITING_FOR_APPROVAL" THEN lines[f][l] ELSE 0)
                + (IF fstatus'[f] = "WAITING_FOR_APPROVAL" THEN lines'[f][l] ELSE 0),
           allocated' \in Amounts, fulfilled' \in [Lines -> Int]
    PROVE  Store'
<1>1. \A q \in Staff : request'[q] = Idle
  BY DEF Sequential, Safe, TypeOK, Finish
<1>2. Idle.op = "none"
  BY DEF Idle
<1>3. /\ lines \in [Fulfillments -> Amounts]
      /\ onhand \in [Lines -> Int] /\ allocated \in [Lines -> Nat]
      /\ fulfilled \in [Lines -> Int]
  BY DEF Safe, TypeOK, Amounts
<1>4. \A g \in Fulfillments :
         fstatus'[g] \in Gone \cup {"WAITING_FOR_APPROVAL", "FULFILLED", "CANCELED"}
  BY DEF Store
<1>5. ASSUME NEW l \in Lines, NEW s
      PROVE  /\ UnitsIn({s}, fstatus', lines', l) = UnitsIn({s}, fstatus, lines, l)
                  + ((IF fstatus'[f] = s THEN lines'[f][l] ELSE 0)
                     - (IF fstatus[f] = s THEN lines[f][l] ELSE 0))
             /\ UnitsIn({s}, fstatus, lines, l) \in Nat
             /\ (IF fstatus'[f] = s THEN lines'[f][l] ELSE 0) \in Nat
             /\ (IF fstatus[f] = s THEN lines[f][l] ELSE 0) \in Nat
  <2>1. UnitsIn({s}, fstatus', lines', l) = UnitsIn({s}, fstatus, lines, l)
          + ((IF fstatus'[f] \in {s} THEN lines'[f][l] ELSE 0)
             - (IF fstatus[f] \in {s} THEN lines[f][l] ELSE 0))
    BY <1>3, UnitsAfter
  <2>2. UnitsIn({s}, fstatus, lines, l) \in Nat
    BY <1>3, UnitsType
  <2>3. lines[f][l] \in Nat /\ lines'[f][l] \in Nat
    BY <1>3 DEF Amounts
  <2> QED
    BY <2>1, <2>2, <2>3
<1>6. ASSUME NEW l \in Lines
      PROVE  onhand'[l] = Stocked[l] - UnitsIn({"FULFILLED"}, fstatus', lines', l)
  <2> DEFINE old == IF fstatus[f] = "FULFILLED" THEN lines[f][l] ELSE 0
             new == IF fstatus'[f] = "FULFILLED" THEN lines'[f][l] ELSE 0
  <2>1. /\ UnitsIn({"FULFILLED"}, fstatus', lines', l)
             = UnitsIn({"FULFILLED"}, fstatus, lines, l) + (new - old)
        /\ UnitsIn({"FULFILLED"}, fstatus, lines, l) \in Nat
        /\ new \in Nat /\ old \in Nat
    BY <1>5
  <2>2. onhand[l] = Stocked[l] - UnitsIn({"FULFILLED"}, fstatus, lines, l)
    BY DEF Store
  <2>3. onhand'[l] = onhand[l] + old - new /\ Stocked[l] \in Nat
    BY QuantitiesAssumption
  <2> HIDE DEF old, new
  <2> QED
    BY <2>1, <2>2, <2>3
<1>7. ASSUME OpenUnitsAllocated PROVE OpenUnitsAllocated'
  <2> SUFFICES ASSUME NEW l \in Lines
               PROVE  allocated'[l] = Ordered[l] - fulfilled'[l]
                        + UnitsIn({"WAITING_FOR_APPROVAL"}, fstatus', lines', l)
    BY DEF OpenUnitsAllocated
  <2> DEFINE old == IF fstatus[f] = "WAITING_FOR_APPROVAL" THEN lines[f][l] ELSE 0
             new == IF fstatus'[f] = "WAITING_FOR_APPROVAL" THEN lines'[f][l] ELSE 0
  <2>1. /\ UnitsIn({"WAITING_FOR_APPROVAL"}, fstatus', lines', l)
             = UnitsIn({"WAITING_FOR_APPROVAL"}, fstatus, lines, l) + (new - old)
        /\ UnitsIn({"WAITING_FOR_APPROVAL"}, fstatus, lines, l) \in Nat
        /\ new \in Nat /\ old \in Nat
    BY <1>5
  <2>2. allocated[l] = Ordered[l] - fulfilled[l]
          + UnitsIn({"WAITING_FOR_APPROVAL"}, fstatus, lines, l)
    BY <1>7 DEF OpenUnitsAllocated
  <2>3. /\ Ordered[l] \in Nat /\ fulfilled[l] \in Int /\ allocated[l] \in Nat
        /\ allocated'[l] \in Nat /\ fulfilled'[l] \in Int
    BY <1>3, QuantitiesAssumption DEF Amounts
  <2>4. allocated'[l] + fulfilled'[l] = allocated[l] + fulfilled[l] - old + new
    BY <1>7
  <2> DEFINE W == UnitsIn({"WAITING_FOR_APPROVAL"}, fstatus, lines, l)
             V == UnitsIn({"WAITING_FOR_APPROVAL"}, fstatus', lines', l)
  <2>5. V = W + (new - old) /\ W \in Nat /\ new \in Nat /\ old \in Nat
    BY <2>1
  <2>6. allocated[l] = Ordered[l] - fulfilled[l] + W
    BY <2>2
  <2> HIDE DEF old, new, V, W
  <2>7. allocated'[l] = Ordered[l] - fulfilled'[l] + V
    BY <2>3, <2>4, <2>5, <2>6
  <2> QED
    BY <2>7 DEF V
<1> QED
  BY <1>1, <1>2, <1>4, <1>6, <1>7 DEF Store

LEMMA CreateFulfillmentsStore ==
    ASSUME Sequential, Safe, Books, Store, NEW p \in Staff, NEW f \in Fulfillments,
           CreateFulfillments(p, f)
    PROVE  Store'
<1> DEFINE r == request[p]
<1>1. /\ r.ask \in Amounts /\ fulfilled \in [Lines -> Int] /\ allocated \in Amounts
      /\ onhand \in [Lines -> Int]
      /\ fstatus \in [Fulfillments -> FulfillmentStatuses]
      /\ lines \in [Fulfillments -> Amounts]
  BY DEF Safe, TypeOK, Requests
<1>2. r.seen = fulfilled /\ StillOpen(r) /\ fstatus[f] = "ABSENT"
  BY DEF CreateFulfillments, NextRow, Books, Current
<1>3. lines' = [lines EXCEPT ![f] = r.ask] /\ fulfilled' = Written(r.ask, fulfilled, 1)
  BY <1>2 DEF CreateFulfillments, CreateFulfillmentLines
<1>4. /\ lines' \in [Fulfillments -> Amounts] /\ lines'[f] = r.ask
      /\ \A g \in Fulfillments \ {f} : lines'[g] = lines[g]
  BY <1>1, <1>3
<1>5. \A l \in Lines : fulfilled'[l] = fulfilled[l] + r.ask[l]
  <2>1. \A l \in Lines : fulfilled'[l] = fulfilled[l] + 1 * r.ask[l]
    BY <1>1, <1>3, WrittenCurrent
  <2> QED
    BY <1>1, <2>1 DEF Amounts
<1>6. fulfilled' \in [Lines -> Int] /\ allocated' \in Amounts
  BY CreateFulfillmentsSafe DEF Safe, TypeOK
<1>7. Finish(p)
  BY DEF CreateFulfillments
<1>8. CASE AutoApprove
  <2>1. /\ fstatus' = [fstatus EXCEPT ![f] = "FULFILLED"]
        /\ allocated' = Deallocate(r.ask)
        /\ onhand' = [l \in Lines |-> onhand[l] - r.ask[l]]
    BY <1>8 DEF CreateFulfillments, CreateFulfillmentLines, DecreaseStocks
  <2>2. /\ fstatus'[f] = "FULFILLED"
        /\ \A g \in Fulfillments \ {f} : fstatus'[g] = fstatus[g]
    BY <1>1, <2>1
  <2>3. ASSUME NEW l \in Lines
        PROVE  onhand'[l] = onhand[l]
                 + (IF fstatus[f] = "FULFILLED" THEN lines[f][l] ELSE 0)
                 - (IF fstatus'[f] = "FULFILLED" THEN lines'[f][l] ELSE 0)
    <3>1. onhand[l] \in Int /\ r.ask[l] \in Nat
      BY <1>1 DEF Amounts
    <3> QED
      BY <1>2, <1>4, <2>1, <2>2, <3>1
  <2>4. ASSUME OpenUnitsAllocated, NEW l \in Lines
        PROVE  allocated'[l] + fulfilled'[l] = allocated[l] + fulfilled[l]
                 - (IF fstatus[f] = "WAITING_FOR_APPROVAL" THEN lines[f][l] ELSE 0)
                 + (IF fstatus'[f] = "WAITING_FOR_APPROVAL" THEN lines'[f][l] ELSE 0)
    <3>1. /\ allocated[l] \in Nat /\ r.ask[l] \in Nat /\ fulfilled[l] \in Int
          /\ Ordered[l] \in Nat
          /\ UnitsIn({"WAITING_FOR_APPROVAL"}, fstatus, lines, l) \in Nat
      BY <1>1, UnitsType, QuantitiesAssumption DEF Amounts
    <3>2. r.ask[l] <= allocated[l]
      BY <1>2, <2>4, <3>1 DEF OpenUnitsAllocated, StillOpen, Books, NeverOverfulfilled
    <3>3. allocated'[l] = allocated[l] - r.ask[l]
      BY <2>1, <3>1, <3>2 DEF Deallocate, Least
    <3> QED
      BY <1>2, <1>5, <2>2, <3>1, <3>3
  <2> QED
    BY <1>4, <1>6, <1>7, <2>2, <2>3, <2>4, WritesStore
<1>9. CASE ~AutoApprove
  <2>1. /\ fstatus' = [fstatus EXCEPT ![f] = "WAITING_FOR_APPROVAL"]
        /\ UNCHANGED <<onhand, allocated>>
    BY <1>9 DEF CreateFulfillments, CreateFulfillmentLines
  <2>2. /\ fstatus'[f] = "WAITING_FOR_APPROVAL"
        /\ \A g \in Fulfillments \ {f} : fstatus'[g] = fstatus[g]
    BY <1>1, <2>1
  <2>3. ASSUME NEW l \in Lines
        PROVE  /\ onhand'[l] = onhand[l]
                    + (IF fstatus[f] = "FULFILLED" THEN lines[f][l] ELSE 0)
                    - (IF fstatus'[f] = "FULFILLED" THEN lines'[f][l] ELSE 0)
               /\ allocated'[l] + fulfilled'[l] = allocated[l] + fulfilled[l]
                    - (IF fstatus[f] = "WAITING_FOR_APPROVAL" THEN lines[f][l] ELSE 0)
                    + (IF fstatus'[f] = "WAITING_FOR_APPROVAL" THEN lines'[f][l] ELSE 0)
    <3>1. /\ onhand[l] \in Int /\ r.ask[l] \in Nat /\ allocated[l] \in Nat
          /\ fulfilled[l] \in Int
      BY <1>1 DEF Amounts
    <3> QED
      BY <1>2, <1>4, <1>5, <2>1, <2>2, <3>1
  <2> QED
    BY <1>4, <1>6, <1>7, <2>2, <2>3, WritesStore
<1> QED
  BY <1>8, <1>9, SettingsAssumption

LEMMA ApproveFulfillmentStore ==
    ASSUME Sequential, Safe, Books, Store, NEW p \in Staff, ApproveFulfillment(p)
    PROVE  Store'
<1> DEFINE f == request[p].f
<1>1. /\ f \in Fulfillments /\ fstatus[f] = "WAITING_FOR_APPROVAL"
      /\ fulfilled \in [Lines -> Int] /\ allocated \in Amounts
      /\ onhand \in [Lines -> Int]
      /\ fstatus \in [Fulfillments -> FulfillmentStatuses]
      /\ lines \in [Fulfillments -> Amounts]
  BY DEF ApproveFulfillment, Safe, TypeOK, RequestsCoherent, Coherent, Books, Current
<1>2. /\ fstatus' = [fstatus EXCEPT ![f] = "FULFILLED"]
      /\ allocated' = Deallocate(lines[f])
      /\ onhand' = [l \in Lines |-> onhand[l] - lines[f][l]]
      /\ UNCHANGED <<fulfilled, lines>> /\ Finish(p)
  BY DEF ApproveFulfillment, DecreaseStocks
<1>3. fulfilled' \in [Lines -> Int] /\ allocated' \in Amounts
  BY ApproveFulfillmentSafe DEF Safe, TypeOK
<1> HIDE DEF f
<1>4. /\ fstatus'[f] = "FULFILLED"
      /\ \A g \in Fulfillments \ {f} : fstatus'[g] = fstatus[g]
  BY <1>1, <1>2
<1>5. ASSUME NEW l \in Lines
      PROVE  onhand'[l] = onhand[l]
               + (IF fstatus[f] = "FULFILLED" THEN lines[f][l] ELSE 0)
               - (IF fstatus'[f] = "FULFILLED" THEN lines'[f][l] ELSE 0)
  <2>1. onhand[l] \in Int /\ lines[f][l] \in Nat
    BY <1>1 DEF Amounts
  <2> QED
    BY <1>1, <1>2, <1>4, <2>1
<1>6. ASSUME OpenUnitsAllocated, NEW l \in Lines
      PROVE  allocated'[l] + fulfilled'[l] = allocated[l] + fulfilled[l]
               - (IF fstatus[f] = "WAITING_FOR_APPROVAL" THEN lines[f][l] ELSE 0)
               + (IF fstatus'[f] = "WAITING_FOR_APPROVAL" THEN lines'[f][l] ELSE 0)
  <2> DEFINE W == UnitsIn({"WAITING_FOR_APPROVAL"}, fstatus, lines, l)
  <2>1. /\ allocated[l] \in Nat /\ lines[f][l] \in Nat /\ fulfilled[l] \in Int
        /\ Ordered[l] \in Nat
    BY <1>1, QuantitiesAssumption DEF Amounts
  <2>2. W \in Nat
    BY <1>1, UnitsType
  <2>3. Part({"WAITING_FOR_APPROVAL"}, fstatus, lines, f, l) <= W
    BY <1>1, UnitsPart
  <2>4. lines[f][l] <= W
    BY <1>1, <2>3 DEF Part
  <2>5. allocated[l] = Ordered[l] - fulfilled[l] + W /\ fulfilled[l] <= Ordered[l]
    BY <1>6 DEF OpenUnitsAllocated, Books, NeverOverfulfilled
  <2> HIDE DEF W
  <2>6. lines[f][l] <= allocated[l]
    BY <2>1, <2>2, <2>4, <2>5
  <2>7. allocated'[l] = allocated[l] - lines[f][l]
    BY <1>2, <2>1, <2>6 DEF Deallocate, Least
  <2> QED
    BY <1>1, <1>2, <1>4, <2>1, <2>7
<1>7. lines' \in [Fulfillments -> Amounts] /\ \A g \in Fulfillments \ {f} : lines'[g] = lines[g]
  BY <1>1, <1>2
<1> QED
  BY <1>1, <1>2, <1>3, <1>4, <1>5, <1>6, <1>7, WritesStore

LEMMA CancelFulfillmentStore ==
    ASSUME Sequential, Safe, Books, Store, NEW p \in Staff,
           CancelFulfillment(p) \/ CancelWaitingFulfillment(p)
    PROVE  Store'
<1> DEFINE r == request[p]
           f == r.f
<1>1. /\ f \in Fulfillments /\ fulfilled \in [Lines -> Int] /\ allocated \in Amounts
      /\ onhand \in [Lines -> Int]
      /\ fstatus \in [Fulfillments -> FulfillmentStatuses]
      /\ lines \in [Fulfillments -> Amounts]
  BY DEF CancelFulfillment, CancelWaitingFulfillment, Safe, TypeOK,
         RequestsCoherent, Coherent
<1>2. r.seen = fulfilled /\ r.got = lines[f] /\ Finish(p)
  BY DEF CancelFulfillment, CancelWaitingFulfillment, Books, Current
<1>3. lines[f] \in Amounts /\ Zero \in Amounts
  BY <1>1 DEF Amounts, Zero
<1>4. fulfilled' = Written(lines[f], fulfilled, -1)
  BY <1>2 DEF CancelFulfillment, CancelWaitingFulfillment, RestockFulfillmentLines
<1>5. \A l \in Lines : fulfilled'[l] = fulfilled[l] - lines[f][l]
  BY <1>1, <1>3, <1>4, WrittenCurrent DEF Amounts
<1>6. /\ fulfilled' \in [Lines -> Int] /\ allocated' \in Amounts
      /\ lines' \in [Fulfillments -> Amounts]
  BY CancelFulfillmentSafe, CancelWaitingFulfillmentSafe DEF Safe, TypeOK
<1>7. CASE CancelFulfillment(p)
  <2>1. fstatus[f] = "FULFILLED"
    BY <1>1, <1>7 DEF CancelFulfillment, Books, Current, Store
  <2>2. /\ fstatus' = [fstatus EXCEPT ![f] = "CANCELED"] /\ lines' = lines
        /\ onhand' = [l \in Lines |-> onhand[l] + lines[f][l]]
        /\ allocated' = [l \in Lines |-> allocated[l] + lines[f][l]]
    BY <1>2, <1>7 DEF CancelFulfillment, RestockFulfillmentLines
  <2> HIDE DEF f
  <2>3. /\ fstatus'[f] = "CANCELED"
        /\ \A g \in Fulfillments \ {f} : fstatus'[g] = fstatus[g] /\ lines'[g] = lines[g]
    BY <1>1, <2>2
  <2>4. ASSUME NEW l \in Lines
        PROVE  /\ onhand'[l] = onhand[l]
                    + (IF fstatus[f] = "FULFILLED" THEN lines[f][l] ELSE 0)
                    - (IF fstatus'[f] = "FULFILLED" THEN lines'[f][l] ELSE 0)
               /\ allocated'[l] + fulfilled'[l] = allocated[l] + fulfilled[l]
                    - (IF fstatus[f] = "WAITING_FOR_APPROVAL" THEN lines[f][l] ELSE 0)
                    + (IF fstatus'[f] = "WAITING_FOR_APPROVAL" THEN lines'[f][l] ELSE 0)
    <3>1. /\ onhand[l] \in Int /\ lines[f][l] \in Nat /\ allocated[l] \in Nat
          /\ fulfilled[l] \in Int
      BY <1>1 DEF Amounts
    <3> QED
      BY <1>5, <2>1, <2>2, <2>3, <3>1
  <2> QED
    BY <1>1, <1>2, <1>6, <2>3, <2>4, WritesStore
<1>8. CASE CancelWaitingFulfillment(p)
  <2>1. fstatus[f] = "WAITING_FOR_APPROVAL"
    BY <1>8 DEF CancelWaitingFulfillment, Books, Current
  <2>2. /\ fstatus' = [fstatus EXCEPT ![f] = "DELETED"]
        /\ lines' = [lines EXCEPT ![f] = Zero]
        /\ UNCHANGED <<onhand, allocated>>
    BY <1>8 DEF CancelWaitingFulfillment
  <2> HIDE DEF f
  <2>3. /\ fstatus'[f] = "DELETED"
        /\ \A g \in Fulfillments \ {f} : fstatus'[g] = fstatus[g] /\ lines'[g] = lines[g]
    BY <1>1, <2>2
  <2>4. ASSUME NEW l \in Lines
        PROVE  /\ onhand'[l] = onhand[l]
                    + (IF fstatus[f] = "FULFILLED" THEN lines[f][l] ELSE 0)
                    - (IF fstatus'[f] = "FULFILLED" THEN lines'[f][l] ELSE 0)
               /\ allocated'[l] + fulfilled'[l] = allocated[l] + fulfilled[l]
                    - (IF fstatus[f] = "WAITING_FOR_APPROVAL" THEN lines[f][l] ELSE 0)
                    + (IF fstatus'[f] = "WAITING_FOR_APPROVAL" THEN lines'[f][l] ELSE 0)
    <3>1. /\ onhand[l] \in Int /\ lines[f][l] \in Nat /\ allocated[l] \in Nat
          /\ fulfilled[l] \in Int
      BY <1>1 DEF Amounts
    <3> QED
      BY <1>5, <2>1, <2>2, <2>3, <3>1
  <2>5. fstatus'[f] \in Gone
    BY <2>3 DEF Gone
  <2> QED
    BY <1>1, <1>2, <1>6, <2>3, <2>4, <2>5, WritesStore
<1> QED
  BY <1>7, <1>8

\* The steps that change no stock, no allocation and no fulfillment.
LEMMA OthersStore ==
    ASSUME Sequential, Safe, Store, NEW p \in Staff,
           \/ \E ask \in Amounts : FulfillRead(p, ask)
           \/ FulfillLock(p)
           \/ \E f \in Fulfillments : ApproveRead(p, f)
           \/ ApproveLock(p)
           \/ \E f \in Fulfillments : CancelRead(p, f)
           \/ CancelLoad(p) \/ CancelOrderRead(p) \/ Fail(p)
    PROVE  Store'
<1>1. request \in [Staff -> Requests] /\ request[p] \in Requests
  BY DEF Safe, TypeOK
<1>2. /\ request[p].op \notin {"FulfillmentRefundProducts", "FulfillmentReturnProducts"}
      /\ "OrderCancel" \in Operations \/ request[p].op # "OrderCancel"
  BY DEF Store
<1>3. UNCHANGED <<fulfilled, fstatus, lines, onhand, allocated>>
  BY DEF FulfillRead, FulfillLock, ApproveRead, ApproveLock, CancelRead, CancelLoad,
         CancelOrderRead, Fail
<1>4. PICK r : /\ request' = [request EXCEPT ![p] = r]
               /\ \/ r.op \in {"none", "OrderFulfill", "FulfillmentApprove",
                               "FulfillmentCancel", "CancelWaiting"}
                  \/ r.op = request[p].op
                  \/ r.op = "OrderCancel" /\ "OrderCancel" \in Operations
  <2>1. CASE \E ask \in Amounts : FulfillRead(p, ask)
    <3>1. PICK ask \in Amounts : FulfillRead(p, ask)
      BY <2>1
    <3> DEFINE t == [Idle EXCEPT !.op = "OrderFulfill", !.phase = "read",
                                 !.ask = ask, !.seen = fulfilled]
    <3>2. t.op = "OrderFulfill" /\ request' = [request EXCEPT ![p] = t]
      BY <3>1 DEF FulfillRead, Start, Idle
    <3> HIDE DEF t
    <3> QED
      BY <3>2
  <2>2. CASE FulfillLock(p) \/ ApproveLock(p)
    <3> DEFINE t == [request[p] EXCEPT !.phase = "loaded", !.order = status]
    <3>1. t.op = request[p].op /\ request' = [request EXCEPT ![p] = t]
      BY <1>1, <2>2 DEF FulfillLock, ApproveLock, Requests
    <3> HIDE DEF t
    <3> QED
      BY <3>1
  <2>3. CASE \E f \in Fulfillments : ApproveRead(p, f)
    <3>1. PICK f \in Fulfillments : ApproveRead(p, f)
      BY <2>3
    <3> DEFINE t == [Idle EXCEPT !.op = "FulfillmentApprove", !.phase = "read", !.f = f]
    <3>2. t.op = "FulfillmentApprove" /\ request' = [request EXCEPT ![p] = t]
      BY <3>1 DEF ApproveRead, Start, Idle
    <3> HIDE DEF t
    <3> QED
      BY <3>2
  <2>4. CASE \E f \in Fulfillments : CancelRead(p, f)
    <3>1. PICK f \in Fulfillments : CancelRead(p, f)
      BY <2>4
    <3> DEFINE op == IF fstatus[f] = "WAITING_FOR_APPROVAL"
                     THEN "CancelWaiting" ELSE "FulfillmentCancel"
               t == [Idle EXCEPT !.op = op, !.phase = "read", !.f = f]
    <3>2. t.op \in {"CancelWaiting", "FulfillmentCancel"}
      BY DEF Idle
    <3>3. request' = [request EXCEPT ![p] = t]
      BY <3>1 DEF CancelRead, Start
    <3> HIDE DEF t
    <3> QED
      BY <3>2, <3>3
  <2>5. CASE CancelLoad(p)
    <3> DEFINE t == [request[p] EXCEPT !.phase = "loaded", !.seen = fulfilled,
                           !.got = lines[request[p].f], !.order = status]
    <3>1. t.op = request[p].op /\ request' = [request EXCEPT ![p] = t]
      BY <1>1, <2>5 DEF CancelLoad, Requests
    <3> HIDE DEF t
    <3> QED
      BY <3>1
  <2>6. CASE CancelOrderRead(p)
    <3> DEFINE t == [Idle EXCEPT !.op = "OrderCancel", !.phase = "read"]
    <3>1. /\ t.op = "OrderCancel" /\ request' = [request EXCEPT ![p] = t]
          /\ "OrderCancel" \in Operations
      BY <2>6 DEF CancelOrderRead, Start, Idle
    <3> HIDE DEF t
    <3> QED
      BY <3>1
  <2>7. CASE Fail(p)
    <3>1. Idle.op = "none" /\ request' = [request EXCEPT ![p] = Idle]
      BY <2>7 DEF Fail, Finish, Idle
    <3> QED
      BY <3>1
  <2> QED
    BY <2>1, <2>2, <2>3, <2>4, <2>5, <2>6, <2>7
<1>5. /\ r.op \notin {"FulfillmentRefundProducts", "FulfillmentReturnProducts"}
      /\ "OrderCancel" \in Operations \/ r.op # "OrderCancel"
  BY <1>2, <1>4
<1> QED
  BY <1>3, <1>4, <1>5, ReadsStore

LEMMA CancelOrderStore ==
    ASSUME Sequential, Safe, Store, NEW p \in Staff, CancelOrder(p)
    PROVE  Store'
<1>1. \A q \in Staff : request'[q] = Idle
  BY DEF Sequential, Safe, TypeOK, CancelOrder, Finish
<1>2. Idle.op = "none"
  BY DEF Idle
<1>3. "OrderCancel" \in Operations
  BY DEF CancelOrder, Store
<1>4. UNCHANGED <<fstatus, lines, onhand>>
  BY DEF CancelOrder
<1> QED
  BY <1>1, <1>2, <1>3, <1>4 DEF Store

\* Refunds and returns are not in use.
Unmoved == Operations \cap {"FulfillmentRefundProducts", "FulfillmentReturnProducts"} = {}

LEMMA InitStore == Init => Store
<1> SUFFICES ASSUME Init PROVE Store
  OBVIOUS
<1>1. ASSUME NEW s, NEW l \in Lines
      PROVE  UnitsIn({s}, fstatus, lines, l) = 0
  <2> DEFINE n == [f \in Fulfillments |-> IF fstatus[f] \in {s} THEN lines[f][l] ELSE 0]
  <2>1. \A f \in Fulfillments : n[f] = 0
    BY DEF Init, Zero
  <2> HIDE DEF n
  <2>2. SumOf(n, Fulfillments) = 0
    BY <2>1, SumZero
  <2> QED
    BY <2>2 DEF UnitsIn, n
<1>2. \A p \in Staff : request[p].op = "none"
  BY DEF Init, Idle
<1>3. \A f \in Fulfillments : fstatus[f] \in Gone
  BY DEF Init, Gone
<1>4. \A l \in Lines :
         onhand[l] = Stocked[l] - UnitsIn({"FULFILLED"}, fstatus, lines, l)
  <2> SUFFICES ASSUME NEW l \in Lines
               PROVE  onhand[l] = Stocked[l] - UnitsIn({"FULFILLED"}, fstatus, lines, l)
    OBVIOUS
  <2>1. UnitsIn({"FULFILLED"}, fstatus, lines, l) = 0
    BY <1>1
  <2>2. onhand[l] = Stocked[l] /\ Stocked[l] \in Nat
    BY QuantitiesAssumption DEF Init
  <2> QED
    BY <2>1, <2>2
<1>5. OpenUnitsAllocated
  <2> SUFFICES ASSUME NEW l \in Lines
               PROVE  allocated[l] = Ordered[l] - fulfilled[l]
                        + UnitsIn({"WAITING_FOR_APPROVAL"}, fstatus, lines, l)
    BY DEF OpenUnitsAllocated
  <2>1. UnitsIn({"WAITING_FOR_APPROVAL"}, fstatus, lines, l) = 0
    BY <1>1
  <2>2. allocated[l] = Ordered[l] /\ Ordered[l] \in Nat /\ fulfilled[l] = 0
    BY QuantitiesAssumption DEF Init, Zero
  <2> QED
    BY <2>1, <2>2
<1> QED
  BY <1>2, <1>3, <1>4, <1>5 DEF Store

LEMMA NextStore ==
    ASSUME Sequential, Unmoved
    PROVE  Safe /\ Books /\ Store /\ [Next]_vars => Store'
<1>1. ASSUME Safe, Books, Store, Next PROVE Store'
  <2>1. PICK p \in Staff :
           \/ \E ask \in Choices : FulfillRead(p, ask)
           \/ FulfillLock(p)
           \/ \E f \in Fulfillments : CreateFulfillments(p, f)
           \/ \E f \in Fulfillments : ApproveRead(p, f)
           \/ ApproveLock(p)
           \/ ApproveFulfillment(p)
           \/ \E f \in Fulfillments : CancelRead(p, f)
           \/ CancelLoad(p)
           \/ CancelFulfillment(p)
           \/ CancelWaitingFulfillment(p)
           \/ CreateRefundFulfillment(p)
           \/ CreateFulfillmentsForReturnedProducts(p)
           \/ OrderReturned(p)
           \/ CancelOrderRead(p)
           \/ CancelOrder(p)
           \/ Fail(p)
    BY <1>1 DEF Next, Unmoved, RefundRead, ReturnRead
  <2>2. /\ ~CreateRefundFulfillment(p)
        /\ ~CreateFulfillmentsForReturnedProducts(p)
    BY <1>1 DEF Store, CreateRefundFulfillment, CreateFulfillmentsForReturnedProducts
  <2>3. CASE \/ \E ask \in Choices : FulfillRead(p, ask)
             \/ FulfillLock(p)
             \/ \E f \in Fulfillments : ApproveRead(p, f)
             \/ ApproveLock(p)
             \/ \E f \in Fulfillments : CancelRead(p, f)
             \/ CancelLoad(p) \/ CancelOrderRead(p) \/ Fail(p)
    BY <1>1, <2>3, ChoicesAmounts, OthersStore
  <2>4. CASE \E f \in Fulfillments : CreateFulfillments(p, f)
    BY <1>1, <2>4, CreateFulfillmentsStore
  <2>5. CASE ApproveFulfillment(p)
    BY <1>1, <2>5, ApproveFulfillmentStore
  <2>6. CASE CancelFulfillment(p) \/ CancelWaitingFulfillment(p)
    BY <1>1, <2>6, CancelFulfillmentStore
  <2>7. CASE CancelOrder(p)
    BY <1>1, <2>7, CancelOrderStore
  <2>8. CASE OrderReturned(p)
    <3>1. /\ UNCHANGED <<fulfilled, fstatus, lines, onhand, allocated>>
          /\ request' = [request EXCEPT ![p] = Idle] /\ Idle.op = "none"
      BY <2>8 DEF OrderReturned, Finish, Idle
    <3> QED
      BY <1>1, <3>1, ReadsStore
  <2> QED
    BY <2>1, <2>2, <2>3, <2>4, <2>5, <2>6, <2>7, <2>8
<1>2. ASSUME Store, UNCHANGED vars PROVE Store'
  BY <1>2 DEF Store, OpenUnitsAllocated, vars
<1> QED
  BY <1>1, <1>2

LEMMA AlwaysStore ==
    ASSUME Sequential, Unmoved
    PROVE  Spec => []Store
<1>1. Safe /\ Books /\ Store /\ [Next]_vars => Store'
  BY NextStore
<1>2. Spec => []Books
  BY AlwaysBooks
<1> QED
  BY <1>1, <1>2, InitStore, AlwaysSafe, PTL DEF Spec

(***************************************************************************)
(* Without refunds and returns, a sequence of fulfillments, approvals and  *)
(* cancellations gives back to the stock only what it took: a waiting      *)
(* fulfillment took nothing, a cancelled one gives nothing back twice.     *)
(***************************************************************************)
THEOREM SequenceRestocksTaken ==
    ASSUME Sequential, Unmoved
    PROVE  Spec => []NoPhantomStock
<1>1. Safe /\ Store => NoPhantomStock
  <2> SUFFICES ASSUME Safe, Store, NEW l \in Lines PROVE onhand[l] <= Stocked[l]
    BY DEF NoPhantomStock
  <2>1. UnitsIn({"FULFILLED"}, fstatus, lines, l) \in Nat
    BY UnitsType DEF Safe, TypeOK
  <2>2. onhand[l] = Stocked[l] - UnitsIn({"FULFILLED"}, fstatus, lines, l)
        /\ Stocked[l] \in Nat
    BY QuantitiesAssumption DEF Store
  <2> QED
    BY <2>1, <2>2
<1>2. Spec => []Store
  BY AlwaysStore
<1> QED
  BY <1>1, <1>2, AlwaysSafe, PTL

(***************************************************************************)
(* As long as the order is not cancelled either, exactly the units not yet *)
(* handed over stay allocated, those waiting for approval included.        *)
(***************************************************************************)
THEOREM SequenceKeepsAllocated ==
    ASSUME Sequential, Unmoved, "OrderCancel" \notin Operations
    PROVE  Spec => []OpenUnitsAllocated
<1>1. Store => OpenUnitsAllocated
  BY DEF Store
<1>2. Spec => []Store
  BY AlwaysStore
<1> QED
  BY <1>1, <1>2, PTL

-----------------------------------------------------------------------------
(* The order's status.                                                     *)

\* The stored status is the one that the quantities determine.
Shown ==
    \/ AllReplaced(fstatus, lines)
    \/ status = DetermineOrderStatus(fulfilled, fstatus, lines)

\* It may lag behind only between the commit of a return and order_returned.
Shows ==
    /\ \A p \in Staff :
          /\ request[p].op \notin {"FulfillmentRefundProducts", "OrderCancel"}
          /\ request[p].phase = "committed" => request[p].op = "FulfillmentReturnProducts"
    /\ (\A p \in Staff : request[p].phase # "committed") => Shown

\* The units of all lines in fulfillments are the sum over the lines.
LEMMA TotalInSame ==
    ASSUME NEW S, NEW fs, NEW ls, NEW gs, NEW ms,
           \A l \in Lines : UnitsIn(S, gs, ms, l) = UnitsIn(S, fs, ls, l)
    PROVE  TotalIn(S, gs, ms) = TotalIn(S, fs, ls)
<1> DEFINE n == [l \in Lines |-> UnitsIn(S, fs, ls, l)]
           m == [l \in Lines |-> UnitsIn(S, gs, ms, l)]
<1>1. \A l \in Lines : m[l] = n[l]
  OBVIOUS
<1> HIDE DEF m, n
<1>2. SumOf(m, Lines) = SumOf(n, Lines)
  BY <1>1, SumSame
<1> QED
  BY <1>2 DEF TotalIn, m, n

LEMMA TotalInType ==
    ASSUME NEW S, NEW fs, NEW ls \in [Fulfillments -> Amounts]
    PROVE  TotalIn(S, fs, ls) \in Nat
<1> DEFINE n == [l \in Lines |-> UnitsIn(S, fs, ls, l)]
<1>1. \A l \in Lines : n[l] \in Int
  <2> SUFFICES ASSUME NEW l \in Lines PROVE n[l] \in Int
    OBVIOUS
  <2>1. UnitsIn(S, fs, ls, l) \in Nat
    BY UnitsType
  <2> QED
    BY <2>1
<1> HIDE DEF n
<1>2. SumOf(n, Lines) \in Nat
  BY <1>1, LinesAssumption, SumType
<1> QED
  BY <1>2 DEF TotalIn, n

\* Rows other than f are as they were.
Elsewhere(f, fs, ls, gs, ms) ==
    \A g \in Fulfillments \ {f} : gs[g] = fs[g] /\ ms[g] = ls[g]

LEMMA UnitsElsewhere ==
    ASSUME NEW fs, NEW ls \in [Fulfillments -> Amounts],
           NEW gs, NEW ms \in [Fulfillments -> Amounts],
           NEW f \in Fulfillments, Elsewhere(f, fs, ls, gs, ms),
           NEW S, NEW l \in Lines
    PROVE  UnitsIn(S, gs, ms, l) = UnitsIn(S, fs, ls, l)
             + ((IF gs[f] \in S THEN ms[f][l] ELSE 0)
                - (IF fs[f] \in S THEN ls[f][l] ELSE 0))
BY UnitsAfter DEF Elsewhere

\* The units that enter and leave row f as long as it waits are counted.
WaitingCounted(f, fs, ls, ful, gs, ms, gul) ==
    \A l \in Lines :
       ful[l] + (IF gs[f] = "WAITING_FOR_APPROVAL" THEN ms[f][l] ELSE 0)
         = gul[l] + (IF fs[f] = "WAITING_FOR_APPROVAL" THEN ls[f][l] ELSE 0)

\* Units that enter and leave a waiting fulfillment count as fulfilled, but
\* not as sent.
LEMMA WaitingDetermines ==
    ASSUME NEW fs, NEW ls \in [Fulfillments -> Amounts],
           NEW gs, NEW ms \in [Fulfillments -> Amounts],
           NEW ful \in [Lines -> Nat], NEW gul \in [Lines -> Nat],
           NEW f \in Fulfillments,
           Elsewhere(f, fs, ls, gs, ms),
           fs[f] \in Gone \cup {"WAITING_FOR_APPROVAL"},
           gs[f] \in Gone \cup {"WAITING_FOR_APPROVAL"},
           WaitingCounted(f, fs, ls, ful, gs, ms, gul)
    PROVE  /\ AllReplaced(gs, ms) <=> AllReplaced(fs, ls)
           /\ DetermineOrderStatus(gul, gs, ms) = DetermineOrderStatus(ful, fs, ls)
<1> DEFINE Wait == {"WAITING_FOR_APPROVAL"}
           Back == {"RETURNED", "REFUNDED_AND_RETURNED"}
<1>1. /\ TotalIn({"REPLACED"}, gs, ms) = TotalIn({"REPLACED"}, fs, ls)
      /\ TotalIn(Back, gs, ms) = TotalIn(Back, fs, ls)
  <2>1. ASSUME NEW S, S = {"REPLACED"} \/ S = Back, NEW l \in Lines
        PROVE  UnitsIn(S, gs, ms, l) = UnitsIn(S, fs, ls, l)
    <3>1. fs[f] \notin S /\ gs[f] \notin S
      BY <2>1 DEF Gone
    <3>2. \A g \in Fulfillments : Part(S, gs, ms, g, l) = Part(S, fs, ls, g, l)
      BY <3>1 DEF Part, Elsewhere
    <3> QED
      BY <3>2, UnitsSame
  <2> HIDE DEF Back
  <2>2. /\ \A l \in Lines : UnitsIn({"REPLACED"}, gs, ms, l) = UnitsIn({"REPLACED"}, fs, ls, l)
        /\ \A l \in Lines : UnitsIn(Back, gs, ms, l) = UnitsIn(Back, fs, ls, l)
    BY <2>1
  <2> QED
    BY <2>2, TotalInSame
<1>2. AllReplaced(gs, ms) <=> AllReplaced(fs, ls)
  BY <1>1 DEF AllReplaced
<1>3. ASSUME NEW l \in Lines
      PROVE  /\ UnitsIn(Wait, gs, ms, l) \in Nat /\ UnitsIn(Wait, fs, ls, l) \in Nat
             /\ ful[l] + UnitsIn(Wait, gs, ms, l) = gul[l] + UnitsIn(Wait, fs, ls, l)
  <2> DEFINE V == UnitsIn(Wait, gs, ms, l)
             W == UnitsIn(Wait, fs, ls, l)
             new == IF gs[f] = "WAITING_FOR_APPROVAL" THEN ms[f][l] ELSE 0
             old == IF fs[f] = "WAITING_FOR_APPROVAL" THEN ls[f][l] ELSE 0
  <2>2. V \in Nat /\ W \in Nat
    BY UnitsType
  <2>3. ls[f][l] \in Nat /\ ms[f][l] \in Nat
    BY DEF Amounts
  <2>4. \A S : UnitsIn(S, gs, ms, l) = UnitsIn(S, fs, ls, l)
                 + ((IF gs[f] \in S THEN ms[f][l] ELSE 0)
                    - (IF fs[f] \in S THEN ls[f][l] ELSE 0))
    BY UnitsElsewhere
  <2>1. /\ V = W + (new - old) /\ new \in Nat /\ old \in Nat
        /\ V \in Nat /\ W \in Nat
    BY <2>2, <2>3, <2>4
  <2>5. ful[l] + new = gul[l] + old /\ ful[l] \in Nat /\ gul[l] \in Nat
    BY DEF WaitingCounted
  <2> HIDE DEF V, W, new, old
  <2>6. ful[l] + V = gul[l] + W
    BY <2>1, <2>5
  <2> QED
    BY <2>1, <2>6 DEF V, W
<1>4. Total(gul, Lines) - TotalIn(Wait, gs, ms) = Total(ful, Lines) - TotalIn(Wait, fs, ls)
  <2> DEFINE v == [l \in Lines |-> UnitsIn(Wait, gs, ms, l)]
             w == [l \in Lines |-> UnitsIn(Wait, fs, ls, l)]
             h == [l \in Lines |-> ful[l] + v[l]]
  <2>1. /\ \A l \in Lines : v[l] \in Nat
        /\ \A l \in Lines : w[l] \in Nat
        /\ \A l \in Lines : h[l] = ful[l] + v[l]
        /\ \A l \in Lines : h[l] = gul[l] + w[l]
    BY <1>3
  <2>2. TotalIn(Wait, gs, ms) = SumOf(v, Lines) /\ TotalIn(Wait, fs, ls) = SumOf(w, Lines)
    BY DEF TotalIn
  <2>3. /\ \A l \in Lines : ful[l] \in Nat
        /\ \A l \in Lines : gul[l] \in Nat
    OBVIOUS
  <2> HIDE DEF v, w, h
  <2>4. SumOf(h, Lines) = SumOf(ful, Lines) + SumOf(v, Lines)
    BY <2>1, <2>3, LinesAssumption, SumPlus
  <2>5. SumOf(h, Lines) = SumOf(gul, Lines) + SumOf(w, Lines)
    BY <2>1, <2>3, LinesAssumption, SumPlus
  <2>6. Total(ful, Lines) = SumOf(ful, Lines) /\ Total(gul, Lines) = SumOf(gul, Lines)
    BY <2>3, LinesAssumption, TotalOfNat
  <2>7. /\ SumOf(ful, Lines) \in Nat /\ SumOf(gul, Lines) \in Nat
        /\ SumOf(v, Lines) \in Nat /\ SumOf(w, Lines) \in Nat
    BY <2>1, <2>3, LinesAssumption, SumType
  <2> QED
    BY <2>2, <2>4, <2>5, <2>6, <2>7
<1>5. /\ Total(gul, Lines) \in Int /\ Total(ful, Lines) \in Int
  BY LinesAssumption, TotalType
<1>6. /\ TotalIn({"REPLACED"}, fs, ls) \in Int
      /\ TotalIn(Wait, fs, ls) \in Int /\ TotalIn(Wait, gs, ms) \in Int
  BY TotalInType
<1>7. Total(gul, Lines) - TotalIn({"REPLACED"}, gs, ms) - TotalIn(Wait, gs, ms)
        = Total(ful, Lines) - TotalIn({"REPLACED"}, fs, ls) - TotalIn(Wait, fs, ls)
  <2> DEFINE a == Total(gul, Lines)
             b == TotalIn(Wait, gs, ms)
             c == Total(ful, Lines)
             d == TotalIn(Wait, fs, ls)
             e == TotalIn({"REPLACED"}, fs, ls)
  <2>1. a - b = c - d /\ a \in Int /\ b \in Int /\ c \in Int /\ d \in Int /\ e \in Int
    BY <1>4, <1>5, <1>6
  <2> HIDE DEF a, b, c, d, e
  <2>2. a - e - b = c - e - d
    BY <2>1
  <2> QED
    BY <1>1, <2>2 DEF a, b, c, d, e
<1>8. DetermineOrderStatus(gul, gs, ms) = DetermineOrderStatus(ful, fs, ls)
  BY <1>1, <1>7 DEF DetermineOrderStatus
<1> QED
  BY <1>2, <1>8

-----------------------------------------------------------------------------
(* The steps and the order's status.                                       *)

\* Nothing is refunded and the order is not cancelled.
Settled == Operations \cap {"FulfillmentRefundProducts", "OrderCancel"} = {}

\* update_order_status with an Order object that has the current status.
LEMMA SavedShown ==
    ASSUME NEW s, s = status, status' = StatusAfter(s, fulfilled', fstatus', lines')
    PROVE  Shown'
BY DEF Shown, StatusAfter

\* A step after which no request is in progress.
LEMMA EndsShows ==
    ASSUME Sequential, Safe, NEW p \in Staff, Finish(p), Shown'
    PROVE  Shows'
<1>1. \A q \in Staff : request'[q] = Idle
  BY DEF Sequential, Safe, TypeOK, Finish
<1>2. Idle.op = "none" /\ Idle.phase = "idle"
  BY DEF Idle
<1> QED
  BY <1>1, <1>2 DEF Shows

\* A step that only reads, or comes to nothing.
LEMMA ReadsShows ==
    ASSUME Sequential, Safe, Shows, NEW p \in Staff, NEW r,
           request' = [request EXCEPT ![p] = r],
           request[p].phase # "committed", r.phase # "committed",
           r.op \notin {"FulfillmentRefundProducts", "OrderCancel"},
           UNCHANGED <<status, fulfilled, fstatus, lines>>
    PROVE  Shows'
<1>1. \A q \in Staff : q = p /\ request'[q] = r
  BY DEF Sequential, Safe, TypeOK
<1>2. Shown
  BY <1>1 DEF Shows
<1>3. Shown'
  BY <1>2 DEF Shown
<1> QED
  BY <1>1, <1>3 DEF Shows

LEMMA OthersShows ==
    ASSUME Sequential, ~Crashes, Settled, Safe, Shows, NEW p \in Staff,
           \/ \E ask \in Amounts : FulfillRead(p, ask)
           \/ FulfillLock(p)
           \/ \E f \in Fulfillments : ApproveRead(p, f)
           \/ ApproveLock(p)
           \/ \E f \in Fulfillments : CancelRead(p, f)
           \/ CancelLoad(p) \/ Fail(p)
    PROVE  Shows'
<1>1. request \in [Staff -> Requests] /\ request[p] \in Requests
  BY DEF Safe, TypeOK
<1>2. request[p].op \notin {"FulfillmentRefundProducts", "OrderCancel"}
  BY DEF Shows
<1>3. UNCHANGED <<status, fulfilled, fstatus, lines>>
  BY DEF FulfillRead, FulfillLock, ApproveRead, ApproveLock, CancelRead, CancelLoad, Fail
<1>4. Idle.op = "none" /\ Idle.phase = "idle"
  BY DEF Idle
<1>5. PICK r : /\ request' = [request EXCEPT ![p] = r]
               /\ request[p].phase # "committed" /\ r.phase # "committed"
               /\ r.op \notin {"FulfillmentRefundProducts", "OrderCancel"}
  <2>1. CASE \E ask \in Amounts : FulfillRead(p, ask)
    <3>1. PICK ask \in Amounts : FulfillRead(p, ask)
      BY <2>1
    <3> DEFINE t == [Idle EXCEPT !.op = "OrderFulfill", !.phase = "read",
                                 !.ask = ask, !.seen = fulfilled]
    <3>2. /\ t.op = "OrderFulfill" /\ t.phase = "read"
          /\ request' = [request EXCEPT ![p] = t] /\ request[p] = Idle
      BY <3>1 DEF FulfillRead, Start, Idle
    <3> HIDE DEF t
    <3> QED
      BY <1>4, <3>2
  <2>2. CASE FulfillLock(p) \/ ApproveLock(p)
    <3> DEFINE t == [request[p] EXCEPT !.phase = "loaded", !.order = status]
    <3>1. /\ t.op = request[p].op /\ t.phase = "loaded"
          /\ request' = [request EXCEPT ![p] = t] /\ request[p].phase = "read"
      BY <1>1, <2>2 DEF FulfillLock, ApproveLock, Requests
    <3> HIDE DEF t
    <3> QED
      BY <1>2, <3>1
  <2>3. CASE \E f \in Fulfillments : ApproveRead(p, f)
    <3>1. PICK f \in Fulfillments : ApproveRead(p, f)
      BY <2>3
    <3> DEFINE t == [Idle EXCEPT !.op = "FulfillmentApprove", !.phase = "read", !.f = f]
    <3>2. /\ t.op = "FulfillmentApprove" /\ t.phase = "read"
          /\ request' = [request EXCEPT ![p] = t] /\ request[p] = Idle
      BY <3>1 DEF ApproveRead, Start, Idle
    <3> HIDE DEF t
    <3> QED
      BY <1>4, <3>2
  <2>4. CASE \E f \in Fulfillments : CancelRead(p, f)
    <3>1. PICK f \in Fulfillments : CancelRead(p, f)
      BY <2>4
    <3> DEFINE op == IF fstatus[f] = "WAITING_FOR_APPROVAL"
                     THEN "CancelWaiting" ELSE "FulfillmentCancel"
               t == [Idle EXCEPT !.op = op, !.phase = "read", !.f = f]
    <3>2. t.op \in {"CancelWaiting", "FulfillmentCancel"} /\ t.phase = "read"
      BY DEF Idle
    <3>3. request' = [request EXCEPT ![p] = t] /\ request[p] = Idle
      BY <3>1 DEF CancelRead, Start
    <3> HIDE DEF t
    <3> QED
      BY <1>4, <3>2, <3>3
  <2>5. CASE CancelLoad(p)
    <3> DEFINE t == [request[p] EXCEPT !.phase = "loaded", !.seen = fulfilled,
                           !.got = lines[request[p].f], !.order = status]
    <3>1. /\ t.op = request[p].op /\ t.phase = "loaded"
          /\ request' = [request EXCEPT ![p] = t] /\ request[p].phase = "read"
      BY <1>1, <2>5 DEF CancelLoad, Requests
    <3> HIDE DEF t
    <3> QED
      BY <1>2, <3>1
  <2>6. CASE Fail(p)
    BY <1>4, <2>6 DEF Fail, Finish
  <2> QED
    BY <2>1, <2>2, <2>3, <2>4, <2>5, <2>6
<1> QED
  BY <1>3, <1>5, ReadsShows

\* A request to return products has read the status that the order has.
LEMMA ReturnReadShows ==
    ASSUME Sequential, Safe, Shows, NEW p \in Staff,
           NEW f \in Fulfillments \cup {NoFulfillment},
           NEW ask \in Amounts, NEW move \in Amounts,
           NEW refund \in BOOLEAN, NEW replace \in BOOLEAN,
           ReturnRead(p, f, ask, move, refund, replace)
    PROVE  Shows'
<1> DEFINE r == [Idle EXCEPT !.op = "FulfillmentReturnProducts",
                             !.phase = "read", !.f = f, !.ask = ask,
                             !.move = move, !.seen = fulfilled,
                             !.got = Loaded(f), !.order = status,
                             !.refund = refund, !.replace = replace]
<1>1. r.op = "FulfillmentReturnProducts" /\ r.phase = "read" /\ Idle.phase = "idle"
  BY DEF Idle
<1>2. /\ request[p] = Idle /\ request' = [request EXCEPT ![p] = r]
      /\ UNCHANGED <<status, fulfilled, fstatus, lines>>
  BY DEF ReturnRead, Start
<1> HIDE DEF r
<1> QED
  BY <1>1, <1>2, ReadsShows

\* Fulfillments that wait for approval do not change the status.
WaitingStep(f, fs, ls, ful, gs, ms, gul) ==
    /\ ls \in [Fulfillments -> Amounts] /\ ms \in [Fulfillments -> Amounts]
    /\ ful \in [Lines -> Nat] /\ gul \in [Lines -> Nat]
    /\ f \in Fulfillments /\ Elsewhere(f, fs, ls, gs, ms)
    /\ fs[f] \in Gone \cup {"WAITING_FOR_APPROVAL"}
    /\ gs[f] \in Gone \cup {"WAITING_FOR_APPROVAL"}
    /\ WaitingCounted(f, fs, ls, ful, gs, ms, gul)

LEMMA WaitingSame ==
    ASSUME NEW f, NEW fs, NEW ls, NEW ful, NEW gs, NEW ms, NEW gul,
           WaitingStep(f, fs, ls, ful, gs, ms, gul)
    PROVE  /\ AllReplaced(gs, ms) <=> AllReplaced(fs, ls)
           /\ DetermineOrderStatus(gul, gs, ms) = DetermineOrderStatus(ful, fs, ls)
BY WaitingDetermines DEF WaitingStep

LEMMA WaitingShows ==
    ASSUME Sequential, Safe, Books, Shows, NEW p \in Staff, Finish(p),
           request[p].phase # "committed", status' = status,
           NEW f \in Fulfillments,
           lines' \in [Fulfillments -> Amounts], fulfilled' \in [Lines -> Nat],
           Elsewhere(f, fstatus, lines, fstatus', lines'),
           fstatus[f] \in Gone \cup {"WAITING_FOR_APPROVAL"},
           fstatus'[f] \in Gone \cup {"WAITING_FOR_APPROVAL"},
           WaitingCounted(f, fstatus, lines, fulfilled, fstatus', lines', fulfilled')
    PROVE  Shows'
<1>1. lines \in [Fulfillments -> Amounts] /\ fulfilled \in [Lines -> Nat]
  BY QuantitiesAssumption DEF Safe, TypeOK, Books, NeverOverfulfilled
<1>2. WaitingStep(f, fstatus, lines, fulfilled, fstatus', lines', fulfilled')
  BY <1>1 DEF WaitingStep
<1>3. /\ AllReplaced(fstatus', lines') <=> AllReplaced(fstatus, lines)
      /\ DetermineOrderStatus(fulfilled', fstatus', lines')
           = DetermineOrderStatus(fulfilled, fstatus, lines)
  BY <1>2, WaitingSame
<1>4. Shown
  BY DEF Sequential, Shows
<1>5. Shown'
  BY <1>3, <1>4 DEF Shown
<1> QED
  BY <1>5, EndsShows

LEMMA CreateFulfillmentsShows ==
    ASSUME Sequential, Safe, Books, Shows, NEW p \in Staff, NEW f \in Fulfillments,
           CreateFulfillments(p, f)
    PROVE  Shows'
<1> DEFINE r == request[p]
<1>1. /\ r.ask \in Amounts /\ fulfilled \in [Lines -> Int]
      /\ fstatus \in [Fulfillments -> FulfillmentStatuses]
      /\ lines \in [Fulfillments -> Amounts]
  BY DEF Safe, TypeOK, Requests
<1>2. /\ r.op = "OrderFulfill" /\ r.phase = "loaded" /\ r.order = status
      /\ r.seen = fulfilled /\ fstatus[f] = "ABSENT" /\ Finish(p)
  BY DEF CreateFulfillments, NextRow, Books, Current
<1>3. CASE AutoApprove
  <2>1. status' = StatusAfter(r.order, fulfilled', fstatus', lines')
    BY <1>3 DEF CreateFulfillments, OrderFulfilled
  <2> QED
    BY <1>2, <2>1, SavedShown, EndsShows
<1>4. CASE ~AutoApprove
  <2>1. /\ fstatus' = [fstatus EXCEPT ![f] = "WAITING_FOR_APPROVAL"] /\ status' = status
        /\ lines' = [lines EXCEPT ![f] = r.ask]
        /\ fulfilled' = Written(r.ask, fulfilled, 1)
    BY <1>2, <1>4 DEF CreateFulfillments, CreateFulfillmentLines
  <2>2. /\ fstatus'[f] = "WAITING_FOR_APPROVAL" /\ lines'[f] = r.ask
        /\ lines' \in [Fulfillments -> Amounts]
        /\ Elsewhere(f, fstatus, lines, fstatus', lines')
    BY <1>1, <2>1 DEF Elsewhere
  <2>3. \A l \in Lines : fulfilled'[l] = fulfilled[l] + 1 * r.ask[l]
    BY <1>1, <2>1, WrittenCurrent
  <2>4. fulfilled' \in [Lines -> Nat]
    BY CreateFulfillmentsBooks, CreateFulfillmentsSafe DEF Books, NeverOverfulfilled, Safe, TypeOK
  <2>5. WaitingCounted(f, fstatus, lines, fulfilled, fstatus', lines', fulfilled')
    <3> SUFFICES ASSUME NEW l \in Lines
                 PROVE  fulfilled[l] + r.ask[l] = fulfilled'[l] + 0
      BY <1>2, <2>2 DEF WaitingCounted
    <3>1. fulfilled[l] \in Int /\ r.ask[l] \in Nat
      BY <1>1 DEF Amounts
    <3> QED
      BY <2>3, <3>1
  <2>6. /\ fstatus[f] \in Gone \cup {"WAITING_FOR_APPROVAL"}
        /\ fstatus'[f] \in Gone \cup {"WAITING_FOR_APPROVAL"}
        /\ r.phase # "committed"
    BY <1>2, <2>2 DEF Gone
  <2> QED
    BY <1>2, <2>1, <2>2, <2>4, <2>5, <2>6, WaitingShows
<1> QED
  BY <1>3, <1>4

LEMMA ApproveFulfillmentShows ==
    ASSUME Sequential, Safe, Books, NEW p \in Staff, ApproveFulfillment(p)
    PROVE  Shows'
<1>1. /\ request[p].order = status /\ Finish(p)
      /\ status' = StatusAfter(request[p].order, fulfilled', fstatus', lines')
  BY DEF ApproveFulfillment, OrderFulfilled, Books, Current
<1> QED
  BY <1>1, SavedShown, EndsShows

LEMMA CancelFulfillmentShows ==
    ASSUME Sequential, Safe, Books, Shows, NEW p \in Staff,
           CancelFulfillment(p) \/ CancelWaitingFulfillment(p)
    PROVE  Shows'
<1> DEFINE r == request[p]
           f == r.f
<1>1. /\ f \in Fulfillments /\ fulfilled \in [Lines -> Int]
      /\ fstatus \in [Fulfillments -> FulfillmentStatuses]
      /\ lines \in [Fulfillments -> Amounts]
  BY DEF CancelFulfillment, CancelWaitingFulfillment, Safe, TypeOK,
         RequestsCoherent, Coherent
<1>2. /\ r.seen = fulfilled /\ r.got = lines[f] /\ r.order = status
      /\ r.phase = "loaded" /\ Finish(p)
  BY DEF CancelFulfillment, CancelWaitingFulfillment, Books, Current
<1>3. CASE CancelFulfillment(p)
  <2>1. status' = StatusAfter(r.order, fulfilled', fstatus', lines')
    BY <1>3 DEF CancelFulfillment
  <2> QED
    BY <1>2, <2>1, SavedShown, EndsShows
<1>4. CASE CancelWaitingFulfillment(p)
  <2>1. /\ fstatus[f] = "WAITING_FOR_APPROVAL" /\ status' = status
        /\ fstatus' = [fstatus EXCEPT ![f] = "DELETED"]
        /\ lines' = [lines EXCEPT ![f] = Zero]
        /\ fulfilled' = Written(lines[f], fulfilled, -1)
    BY <1>2, <1>4 DEF CancelWaitingFulfillment, Books, Current
  <2> HIDE DEF f
  <2>2. lines[f] \in Amounts /\ Zero \in Amounts
    BY <1>1 DEF Amounts, Zero
  <2>3. /\ fstatus'[f] = "DELETED" /\ lines' \in [Fulfillments -> Amounts]
        /\ Elsewhere(f, fstatus, lines, fstatus', lines')
    BY <1>1, <2>1, <2>2 DEF Elsewhere
  <2>4. \A l \in Lines : fulfilled'[l] = fulfilled[l] + (-1) * lines[f][l]
    BY <1>1, <2>1, <2>2, WrittenCurrent
  <2>5. fulfilled' \in [Lines -> Nat]
    BY <1>4, CancelFulfillmentBooks, CancelWaitingFulfillmentSafe
       DEF Books, NeverOverfulfilled, Safe, TypeOK
  <2>6. WaitingCounted(f, fstatus, lines, fulfilled, fstatus', lines', fulfilled')
    <3> SUFFICES ASSUME NEW l \in Lines
                 PROVE  fulfilled[l] + 0 = fulfilled'[l] + lines[f][l]
      BY <2>1, <2>3 DEF WaitingCounted
    <3>1. fulfilled[l] \in Int /\ lines[f][l] \in Nat
      BY <1>1 DEF Amounts
    <3> QED
      BY <2>4, <3>1
  <2>7. /\ fstatus[f] \in Gone \cup {"WAITING_FOR_APPROVAL"}
        /\ fstatus'[f] \in Gone \cup {"WAITING_FOR_APPROVAL"}
        /\ r.phase # "committed"
    BY <1>2, <2>1, <2>3 DEF Gone
  <2> QED
    BY <1>1, <1>2, <2>1, <2>3, <2>5, <2>6, <2>7, WaitingShows
<1> QED
  BY <1>3, <1>4

\* Between the commit of a return and order_returned the status may lag.
LEMMA ReturnShows ==
    ASSUME Sequential, Safe, Books, Shows, NEW p \in Staff,
           CreateFulfillmentsForReturnedProducts(p) \/ OrderReturned(p)
    PROVE  Shows'
<1>1. CASE CreateFulfillmentsForReturnedProducts(p)
  <2> DEFINE t == [Idle EXCEPT !.op = request[p].op, !.phase = "committed",
                     !.order = IF request[p].replace THEN status ELSE request[p].order]
  <2>1. /\ t.op = "FulfillmentReturnProducts" /\ t.phase = "committed"
        /\ request' = [request EXCEPT ![p] = t]
    BY <1>1 DEF CreateFulfillmentsForReturnedProducts, Idle
  <2> HIDE DEF t
  <2>2. \A q \in Staff : request'[q] = t
    BY <2>1 DEF Sequential, Safe, TypeOK
  <2> QED
    BY <2>1, <2>2 DEF Shows
<1>2. CASE OrderReturned(p)
  <2>1. /\ request[p].order = status /\ Finish(p)
    BY <1>2 DEF OrderReturned, Shows, Books, Current
  <2>2. status' = StatusAfter(request[p].order, fulfilled', fstatus', lines')
    BY <1>2 DEF OrderReturned
  <2> QED
    BY <2>1, <2>2, SavedShown, EndsShows
<1> QED
  BY <1>1, <1>2

LEMMA InitShows == Init => Shows
<1> SUFFICES ASSUME Init PROVE Shows
  OBVIOUS
<1>1. \A p \in Staff : request[p].op = "none" /\ request[p].phase = "idle"
  BY DEF Init, Idle
<1>2. Total(fulfilled, Lines) = 0
  <2>1. \A l \in Lines : fulfilled[l] = 0
    BY DEF Init, Zero
  <2>2. SumOf(fulfilled, Lines) = 0
    BY <2>1, SumZero
  <2>3. Total(fulfilled, Lines) = SumOf(fulfilled, Lines)
    BY <2>1, LinesAssumption, TotalOfNat
  <2> QED
    BY <2>2, <2>3
<1>3. lines \in [Fulfillments -> Amounts]
  BY DEF Init, Zero, Amounts
<1>4. \A S : TotalIn(S, fstatus, lines) \in Nat
  BY <1>3, TotalInType
<1>5. Total(fulfilled, Lines) - TotalIn({"REPLACED"}, fstatus, lines)
        - TotalIn({"WAITING_FOR_APPROVAL"}, fstatus, lines) <= 0
  BY <1>2, <1>4
<1>6. DetermineOrderStatus(fulfilled, fstatus, lines) = "UNFULFILLED"
  BY <1>5 DEF DetermineOrderStatus
<1>7. Shown
  BY <1>6 DEF Shown, Init
<1> QED
  BY <1>1, <1>7 DEF Shows

LEMMA NextShows ==
    ASSUME Sequential, ~Crashes, Settled
    PROVE  Safe /\ Books /\ Shows /\ [Next]_vars => Shows'
<1>1. ASSUME Safe, Books, Shows, Next PROVE Shows'
  <2>1. PICK p \in Staff :
           \/ \E ask \in Choices : FulfillRead(p, ask)
           \/ FulfillLock(p)
           \/ \E f \in Fulfillments : CreateFulfillments(p, f)
           \/ \E f \in Fulfillments : ApproveRead(p, f)
           \/ ApproveLock(p)
           \/ ApproveFulfillment(p)
           \/ \E f \in Fulfillments : CancelRead(p, f)
           \/ CancelLoad(p)
           \/ CancelFulfillment(p)
           \/ CancelWaitingFulfillment(p)
           \/ \E f \in Fulfillments \cup {NoFulfillment},
                 ask, move \in Choices, refund, replace \in BOOLEAN :
                 ReturnRead(p, f, ask, move, refund, replace)
           \/ CreateRefundFulfillment(p)
           \/ CreateFulfillmentsForReturnedProducts(p)
           \/ OrderReturned(p)
           \/ CancelOrder(p)
           \/ Fail(p)
    BY <1>1 DEF Next, Settled, RefundRead, CancelOrderRead
  <2>2. ~CreateRefundFulfillment(p) /\ ~CancelOrder(p)
    BY <1>1 DEF Shows, CreateRefundFulfillment, CancelOrder
  <2>3. CASE \/ \E ask \in Choices : FulfillRead(p, ask)
             \/ FulfillLock(p)
             \/ \E f \in Fulfillments : ApproveRead(p, f)
             \/ ApproveLock(p)
             \/ \E f \in Fulfillments : CancelRead(p, f)
             \/ CancelLoad(p) \/ Fail(p)
    BY <1>1, <2>3, ChoicesAmounts, OthersShows
  <2>4. CASE \E f \in Fulfillments : CreateFulfillments(p, f)
    BY <1>1, <2>4, CreateFulfillmentsShows
  <2>5. CASE ApproveFulfillment(p)
    BY <1>1, <2>5, ApproveFulfillmentShows
  <2>6. CASE CancelFulfillment(p) \/ CancelWaitingFulfillment(p)
    BY <1>1, <2>6, CancelFulfillmentShows
  <2>7. CASE \E f \in Fulfillments \cup {NoFulfillment},
                ask, move \in Choices, refund, replace \in BOOLEAN :
                ReturnRead(p, f, ask, move, refund, replace)
    <3>1. PICK f \in Fulfillments \cup {NoFulfillment}, ask \in Choices,
               move \in Choices, refund \in BOOLEAN, replace \in BOOLEAN :
                 ReturnRead(p, f, ask, move, refund, replace)
      BY <2>7
    <3>2. ask \in Amounts /\ move \in Amounts
      BY ChoicesAmounts
    <3> QED
      BY <1>1, <3>1, <3>2, ReturnReadShows
  <2>8. CASE CreateFulfillmentsForReturnedProducts(p) \/ OrderReturned(p)
    BY <1>1, <2>8, ReturnShows
  <2> QED
    BY <2>1, <2>2, <2>3, <2>4, <2>5, <2>6, <2>7, <2>8
<1>2. ASSUME Shows, UNCHANGED vars PROVE Shows'
  BY <1>2 DEF Shows, Shown, vars
<1> QED
  BY <1>1, <1>2

(***************************************************************************)
(* Whenever no request is in progress, Order.status is the one that the    *)
(* quantities determine: fulfillments, approvals, cancellations and        *)
(* returns all end with update_order_status, and those that do not call it *)
(* move units that wait for approval, which do not count as sent.  A       *)
(* refund does not update the status, an order cancelled is past it, and a *)
(* process killed before order_returned leaves it behind.                  *)
(***************************************************************************)
THEOREM SequenceShowsStatus ==
    ASSUME Sequential, ~Crashes, Settled
    PROVE  Spec => []StatusCurrent
<1>1. Shows => StatusCurrent
  <2>1. Idle.phase = "idle"
    BY DEF Idle
  <2> QED
    BY <2>1 DEF Shows, Shown, StatusCurrent
<1>2. Safe /\ Books /\ Shows /\ [Next]_vars => Shows'
  BY NextShows
<1>3. Spec => []Books
  BY AlwaysBooks
<1> QED
  BY <1>1, <1>2, <1>3, InitShows, AlwaysSafe, PTL DEF Spec
==============================================================================
