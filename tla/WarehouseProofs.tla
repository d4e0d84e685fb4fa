--------------------------- MODULE WarehouseProofs ---------------------------
(***************************************************************************)
(* Theorems about Warehouse, for every set of stocks, orders and lines.    *)
(***************************************************************************)
EXTENDS Warehouse, QuantityFacts

Matrix == [Lines -> [Stocks -> Nat]]

-----------------------------------------------------------------------------
(* The operators the actions are built from.                               *)

\* The units allocated in a stock are a natural number.
LEMMA AllocatedType ==
    ASSUME NEW m \in Matrix, NEW s \in Stocks
    PROVE  AllocatedIn(m, s) \in Nat
<1> DEFINE f == [l \in Lines |-> m[l][s]]
<1>1. \A l \in Lines : f[l] \in Int
  BY DEF Matrix
<1> HIDE DEF f
<1>2. SumOf(f, Lines) \in Nat
  BY <1>1, SumType, LinesAssumption
<1> QED
  BY <1>2 DEF AllocatedIn, f

\* Allocations that are nowhere larger leave no more allocated in a stock.
LEMMA AllocatedMonotone ==
    ASSUME NEW m \in Matrix, NEW n \in Matrix, NEW s \in Stocks,
           \A l \in Lines : m[l][s] <= n[l][s]
    PROVE  AllocatedIn(m, s) <= AllocatedIn(n, s)
<1> DEFINE f == [l \in Lines |-> m[l][s]]
           g == [l \in Lines |-> n[l][s]]
<1>1. \A l \in Lines : f[l] \in Int /\ g[l] \in Int /\ f[l] <= g[l]
  BY DEF Matrix
<1> HIDE DEF f, g
<1>2. SumOf(f, Lines) <= SumOf(g, Lines)
  BY <1>1, SumMonotone, LinesAssumption
<1> QED
  BY <1>2 DEF AllocatedIn, f, g

\* When only the row of line k grows, the stock's sum grows by as much.
LEMMA AllocatedIncrease ==
    ASSUME NEW m \in Matrix, NEW n \in Matrix, NEW s \in Stocks,
           NEW k \in Lines, m[k][s] <= n[k][s],
           \A l \in Lines \ {k} : n[l][s] = m[l][s]
    PROVE  AllocatedIn(n, s) = AllocatedIn(m, s) + (n[k][s] - m[k][s])
<1> DEFINE f == [l \in Lines |-> m[l][s]]
           g == [l \in Lines |-> n[l][s]]
<1>1. /\ \A l \in Lines : f[l] \in Nat /\ g[l] \in Nat
      /\ \A l \in Lines \ {k} : g[l] = f[l]
      /\ f[k] = m[k][s] /\ g[k] = n[k][s]
  BY DEF Matrix
<1> HIDE DEF f, g
<1>2. SumOf(g, Lines) = SumOf(f, Lines) + (g[k] - f[k])
  BY <1>1, SumIncrease, LinesAssumption
<1> QED
  BY <1>1, <1>2 DEF AllocatedIn, f, g

\* Deallocation leaves rows that are not negative and not larger.
LEMMA DeallocatedFacts ==
    ASSUME NEW row \in [Stocks -> Nat], NEW n \in Int
    PROVE  /\ Deallocated(row, n) \in [Stocks -> Nat]
           /\ \A s \in Stocks : Deallocated(row, n)[s] <= row[s]
<1> DEFINE earlier == [s \in Stocks |-> {t \in Stocks : t < s}]
           taken == Greedy(n, row, earlier, Stocks)
<1>1. ASSUME NEW s \in Stocks
      PROVE  taken[s] \in Nat /\ taken[s] <= row[s]
  <2>1. earlier[s] \subseteq Stocks
    OBVIOUS
  <2>2. IsFiniteSet(Stocks) /\ \A x \in Stocks : row[x] \in Int
    BY StocksAssumption
  <2> HIDE DEF earlier
  <2>3. taken[s] \in Nat /\ taken[s] <= Pos(row[s])
    BY <2>1, <2>2, GreedyBounds
  <2> QED
    BY <2>3 DEF Pos
<1>2. Deallocated(row, n) = [s \in Stocks |-> row[s] - taken[s]]
  BY DEF Deallocated
<1> HIDE DEF taken
<1> QED
  BY <1>1, <1>2

\* A line is given units of its own variant only, and from no stock more
\* than the stock has available.
LEMMA PickedFacts ==
    ASSUME NEW l, NEW q \in Int, NEW avail \in [Stocks -> Int],
           NEW key, NEW point, stocks \subseteq Stocks
    PROVE  /\ Picked(l, q, avail, key, point) \in [Stocks -> Nat]
           /\ \A s \in Stocks :
                /\ Picked(l, q, avail, key, point)[s] <= Pos(avail[s])
                /\ StockVariant[s] # LineVariant[l]
                   => Picked(l, q, avail, key, point)[s] = 0
<1> DEFINE S == StocksOf(l)
           earlier == [s \in S |-> {t \in S : SortedBefore(key, point, t, s)}]
           taken == Greedy(q, avail, earlier, S)
<1>1. S \subseteq Stocks /\ IsFiniteSet(S)
  BY StocksAssumption, FS_Subset DEF StocksOf
<1>2. ASSUME NEW s \in S
      PROVE  taken[s] \in Nat /\ taken[s] <= Pos(avail[s])
  <2>1. earlier[s] \subseteq S
    OBVIOUS
  <2>2. \A x \in S : avail[x] \in Int
    BY <1>1
  <2> HIDE DEF earlier, S
  <2> QED
    BY <1>1, <2>1, <2>2, GreedyBounds
<1>3. Picked(l, q, avail, key, point)
        = [s \in Stocks |-> IF s \in S THEN taken[s] ELSE 0]
  BY DEF Picked
<1>4. \A s \in S : StockVariant[s] = LineVariant[l]
  BY DEF StocksOf
<1> HIDE DEF taken, S
<1>5. \A s \in Stocks : 0 <= Pos(avail[s])
  BY DEF Pos
<1> QED
  BY <1>1, <1>2, <1>3, <1>4, <1>5

\* The counters stay integers whichever of the changes the update applies.
LEMMA CounterType ==
    ASSUME TypeOK, NEW new \in Matrix, BulkUpdateCounter(new)
    PROVE  quantity_allocated' \in [Stocks -> Int]
<1>1. PICK first \in [Stocks -> Lines] :
        quantity_allocated' =
          [s \in Stocks |-> quantity_allocated[s]
                            + (new[first[s]][s] - allocation[first[s]][s])]
  BY DEF BulkUpdateCounter
<1>2. ASSUME NEW s \in Stocks
      PROVE  quantity_allocated[s]
                + (new[first[s]][s] - allocation[first[s]][s]) \in Int
  BY DEF TypeOK, Matrix
<1> QED
  BY <1>1, <1>2

-----------------------------------------------------------------------------
(* Type correctness.                                                       *)

\* Reservations seen by a request are natural numbers.
LEMMA ReservedType ==
    ASSUME TypeOK, NEW s \in Stocks, NEW own
    PROVE  ReservedByOthers(s, own) \in Nat
<1> DEFINE f == [l \in Lines |-> reservation[l][s]]
           S == {l \in Lines \ own : <<l, s>> \notin expired}
<1>1. IsFiniteSet(S) /\ \A l \in S : f[l] \in Int
  <2>1. S \subseteq Lines
    OBVIOUS
  <2>2. \A l \in S : f[l] \in Int
    BY DEF TypeOK
  <2> HIDE DEF S
  <2> QED
    BY <2>1, <2>2, LinesAssumption, FS_Subset
<1> HIDE DEF f, S
<1>2. SumOf(f, S) \in Nat
  BY <1>1, SumType
<1> QED
  BY <1>2 DEF ReservedByOthers, f, S

\* allocate_stocks keeps the types: what it picks is never negative.
LEMMA AllocateStocksType ==
    ASSUME TypeOK, NEW o \in Orders, NEW point,
           NEW req \in [LinesOf(o) -> 1 .. MaxQty], AllocateStocks(o, req, point)
    PROVE  TypeOK'
<1> DEFINE avail == [s \in Stocks |-> quantity[s] - AllocationsSeen(o)[s]
                                                - ReservationsSeen(o)[s]]
           key == SortKey([s \in Stocks |-> quantity[s] - AllocationsSeen(o)[s]])
           new == [l \in Lines |-> IF l \in LinesOf(o)
                                   THEN Picked(l, req[l], avail, key, point)
                                   ELSE allocation[l]]
<1>1. avail \in [Stocks -> Int]
  <2>1. ASSUME NEW s \in Stocks
        PROVE  AllocationsSeen(o)[s] \in Int /\ ReservationsSeen(o)[s] \in Int
    <3>1. Allocated(s) \in Nat
      BY AllocatedType DEF TypeOK, Allocated, Matrix
    <3> QED
      BY <3>1, ReservedType DEF AllocationsSeen, ReservationsSeen
  <2> QED
    BY <2>1 DEF TypeOK
<1>2. \A l \in LinesOf(o) : req[l] \in Nat
  BY BoundsAssumption
<1> HIDE DEF avail, key
<1>3. new \in Matrix
  <2>1. ASSUME NEW l \in LinesOf(o)
        PROVE  Picked(l, req[l], avail, key, point) \in [Stocks -> Nat]
    <3>1. req[l] \in Int /\ stocks \subseteq Stocks
      BY <1>2 DEF TypeOK
    <3> QED
      BY <1>1, <3>1, PickedFacts
  <2> QED
    BY <2>1 DEF TypeOK, Matrix
<1> HIDE DEF new
<1>4. /\ allocation' = new
      /\ rows' = rows \cup RowsWithUnits(LinesOf(o), new)
      /\ BulkUpdateCounter(new)
  BY DEF AllocateStocks, avail, key, new
<1>5. quantity_allocated' \in [Stocks -> Int]
  BY <1>3, <1>4, CounterType
<1>6. rows' \subseteq Lines \X Stocks
  BY <1>4 DEF TypeOK, RowsWithUnits, LinesOf
<1>7. status' \in [Orders -> OrderStatuses] /\ ordered' \in [Lines -> Nat]
  BY <1>2 DEF AllocateStocks, TypeOK, OrderStatuses
<1>8. reservation' \in [Lines -> [Stocks -> Nat]] /\ expired' \subseteq Lines \X Stocks
  BY DEF AllocateStocks, TypeOK, NoUnits
<1> QED
  BY <1>3, <1>4, <1>5, <1>6, <1>7, <1>8 DEF AllocateStocks, TypeOK, Matrix

\* increase_allocations keeps the types.
LEMMA IncreaseAllocationsType ==
    ASSUME TypeOK, NEW l \in Lines, NEW old \in Int, NEW new \in Int,
           IncreaseAllocations(l, old, new)
    PROVE  /\ allocation' \in Matrix
           /\ rows' \subseteq Lines \X Stocks
           /\ emptied' \subseteq Lines \X Stocks
           /\ quantity_allocated' \in [Stocks -> Int]
<1> DEFINE others == [allocation EXCEPT ![l] = NoUnits]
           avail == [s \in Stocks |-> quantity[s] - AllocatedIn(others, s)]
           total == (new - old) + SumOf(allocation[l], Stocks)
           picked == Picked(l, total, avail, SortKey(avail), NoPoint)
           matrix == [others EXCEPT ![l] = picked]
<1>1. others \in Matrix
  BY DEF TypeOK, Matrix, NoUnits
<1>2. avail \in [Stocks -> Int]
  <2> HIDE DEF others
  <2> QED
    BY <1>1, AllocatedType DEF TypeOK
<1>3. total \in Int
  <2>1. \A s \in Stocks : allocation[l][s] \in Int
    BY DEF TypeOK
  <2>2. SumOf(allocation[l], Stocks) \in Nat
    BY <2>1, SumType, StocksAssumption
  <2> QED
    BY <2>2
<1> HIDE DEF avail, total
<1>4. picked \in [Stocks -> Nat]
  BY <1>2, <1>3, PickedFacts DEF TypeOK
<1> HIDE DEF others, picked
<1>5. matrix \in Matrix
  BY <1>1, <1>4 DEF Matrix
<1> HIDE DEF matrix
<1>6. /\ allocation' = matrix
      /\ rows' = (rows \ ({l} \X Stocks)) \cup RowsWithUnits({l}, matrix)
      /\ emptied' = emptied \ ({l} \X Stocks)
      /\ BulkUpdateCounter(matrix)
  BY DEF IncreaseAllocations, matrix, others, picked, avail, total
<1>7. quantity_allocated' \in [Stocks -> Int]
  BY <1>5, <1>6, CounterType
<1>8. rows' \subseteq Lines \X Stocks /\ emptied' \subseteq Lines \X Stocks
  BY <1>6 DEF TypeOK, RowsWithUnits
<1> QED
  BY <1>5, <1>6, <1>7, <1>8

\* Deallocating n units of one line keeps the types of row and counter.
LEMMA DeallocateLineType ==
    ASSUME TypeOK, NEW l \in Lines, NEW n \in Int,
           BulkUpdateCounter([allocation EXCEPT ![l] = Deallocated(@, n)])
    PROVE  /\ [allocation EXCEPT ![l] = Deallocated(@, n)] \in Matrix
           /\ quantity_allocated' \in [Stocks -> Int]
<1> DEFINE matrix == [allocation EXCEPT ![l] = Deallocated(@, n)]
<1>1. matrix \in Matrix
  <2>1. Deallocated(allocation[l], n) \in [Stocks -> Nat]
    BY DeallocatedFacts DEF TypeOK
  <2> QED
    BY <2>1 DEF TypeOK, Matrix
<1>2. BulkUpdateCounter(matrix)
  OBVIOUS
<1> HIDE DEF matrix
<1>3. quantity_allocated' \in [Stocks -> Int]
  BY <1>1, <1>2, CounterType
<1> QED
  BY <1>1, <1>3 DEF matrix

\* An edit of an order line keeps the types, whatever quantity it has read.
LEMMA EditType ==
    ASSUME TypeOK, NEW l \in Lines, NEW old \in Nat, NEW new \in Nat,
           ChangeOrderLineQuantity(l, old, new) \/ DeleteOrderLine(l, old)
    PROVE  TypeOK'
<1>1. CASE ChangeOrderLineQuantity(l, old, new)
  <2>1. /\ allocation' \in Matrix
        /\ rows' \subseteq Lines \X Stocks
        /\ emptied' \subseteq Lines \X Stocks
        /\ quantity_allocated' \in [Stocks -> Int]
    <3>1. CASE IncreaseAllocations(l, old, new)
      BY <3>1, IncreaseAllocationsType
    <3>2. CASE DecreaseAllocations(l, old, new)
      <4>1. old - new \in Int
        OBVIOUS
      <4>2. /\ BulkUpdateCounter([allocation EXCEPT
                                    ![l] = Deallocated(@, old - new)])
            /\ allocation' = [allocation EXCEPT ![l] = Deallocated(@, old - new)]
            /\ UNCHANGED <<rows, emptied>>
        BY <3>2 DEF DecreaseAllocations
      <4> QED
        BY <4>1, <4>2, DeallocateLineType DEF TypeOK
    <3> QED
      BY <1>1, <3>1, <3>2 DEF ChangeOrderLineQuantity
  <2>2. /\ ordered' = [ordered EXCEPT ![l] = new]
        /\ UNCHANGED <<stockVars, status, shipped, reservationVars, mismatched>>
    BY <1>1 DEF ChangeOrderLineQuantity
  <2> QED
    BY <2>1, <2>2 DEF TypeOK, Matrix, stockVars, reservationVars
<1>2. CASE DeleteOrderLine(l, old)
  <2>1. quantity_allocated' \in [Stocks -> Int]
    <3>1. BulkUpdateCounter([allocation EXCEPT ![l] = Deallocated(@, old)])
      BY <1>2 DEF DeleteOrderLine
    <3> QED
      BY <3>1, DeallocateLineType
  <2>2. /\ ordered' \in [Lines -> Nat] /\ shipped' \in [Lines -> Nat]
        /\ allocation' \in Matrix
    BY <1>2 DEF DeleteOrderLine, TypeOK, NoUnits, Matrix
  <2> QED
    BY <1>2, <2>1, <2>2
       DEF DeleteOrderLine, TypeOK, Matrix, stockVars, reservationVars
<1> QED
  BY <1>1, <1>2

(***************************************************************************)
(* decrease_stock takes units out of a warehouse and deallocates the lines *)
(* of the fulfillment: the allocations stay natural numbers and none of    *)
(* them grows.                                                             *)
(***************************************************************************)
Fulfilled(o, req) ==
    [l \in Lines |-> IF l \in LinesOf(o) /\ req[l] > 0
                     THEN Deallocated(allocation[l], req[l])
                     ELSE allocation[l]]

Gone(o, w, req) ==
    [s \in Stocks |-> SumOf(req, {l \in LinesOf(o) : s \in StockIn(l, w)})]

\* The parts of decrease_stock that the other lemmas rely on.
LEMMA DecreaseStockParts ==
    ASSUME TypeOK, NEW o \in Orders, NEW w, NEW exceeded,
           NEW req \in [LinesOf(o) -> 0 .. MaxQty],
           DecreaseStock(o, w, req, exceeded)
    PROVE  /\ Gone(o, w, req) \in [Stocks -> Nat]
           /\ Fulfilled(o, req) \in Matrix
           /\ \A l \in Lines : \A s \in Stocks :
                 Fulfilled(o, req)[l][s] <= allocation[l][s]
           /\ allocation' = Fulfilled(o, req)
           /\ BulkUpdateCounter(Fulfilled(o, req))
           /\ quantity' = [s \in Stocks |-> quantity[s] - Gone(o, w, req)[s]]
           /\ exceeded \/ \A s \in Stocks :
                 Gone(o, w, req)[s] > 0 =>
                   quantity[s] - AllocatedIn(Fulfilled(o, req), s)
                     >= Gone(o, w, req)[s]
<1>1. \A l \in LinesOf(o) : req[l] \in Nat
  BY BoundsAssumption
<1>2. Gone(o, w, req) \in [Stocks -> Nat]
  <2>1. ASSUME NEW s \in Stocks
        PROVE  SumOf(req, {l \in LinesOf(o) : s \in StockIn(l, w)}) \in Nat
    <3> DEFINE S == {l \in LinesOf(o) : s \in StockIn(l, w)}
    <3>1. S \subseteq Lines /\ \A l \in S : req[l] \in Int
      BY <1>1 DEF LinesOf
    <3>2. IsFiniteSet(S)
      BY <3>1, LinesAssumption, FS_Subset
    <3> HIDE DEF S
    <3>3. SumOf(req, S) \in Nat
      BY <3>1, <3>2, SumType
    <3> QED
      BY <3>3 DEF S
  <2> QED
    BY <2>1 DEF Gone
<1>3. ASSUME NEW l \in Lines
      PROVE  /\ Fulfilled(o, req)[l] \in [Stocks -> Nat]
             /\ \A s \in Stocks : Fulfilled(o, req)[l][s] <= allocation[l][s]
  <2>1. allocation[l] \in [Stocks -> Nat]
    BY DEF TypeOK
  <2>2. CASE l \in LinesOf(o) /\ req[l] > 0
    <3>1. req[l] \in Int
      BY <1>1, <2>2
    <3>2. Fulfilled(o, req)[l] = Deallocated(allocation[l], req[l])
      BY <2>2 DEF Fulfilled
    <3> QED
      BY <2>1, <3>1, <3>2, DeallocatedFacts
  <2>3. CASE ~(l \in LinesOf(o) /\ req[l] > 0)
    <3>1. Fulfilled(o, req)[l] = allocation[l]
      BY <2>3 DEF Fulfilled
    <3> QED
      BY <2>1, <3>1
  <2> QED
    BY <2>2, <2>3
<1>4. Fulfilled(o, req) \in Matrix
  BY <1>3 DEF Fulfilled, Matrix
<1>5. /\ allocation' = Fulfilled(o, req)
      /\ BulkUpdateCounter(Fulfilled(o, req))
      /\ quantity' = [s \in Stocks |-> quantity[s] - Gone(o, w, req)[s]]
      /\ exceeded \/ \A s \in Stocks :
            Gone(o, w, req)[s] > 0 =>
              quantity[s] - AllocatedIn(Fulfilled(o, req), s)
                >= Gone(o, w, req)[s]
  BY DEF DecreaseStock, Fulfilled, Gone
<1> QED
  BY <1>2, <1>3, <1>4, <1>5

\* decrease_stock keeps the types: no line is fulfilled beyond its quantity.
LEMMA DecreaseStockType ==
    ASSUME TypeOK, NEW o \in Orders, NEW w, NEW exceeded,
           NEW req \in [LinesOf(o) -> 0 .. MaxQty],
           DecreaseStock(o, w, req, exceeded)
    PROVE  TypeOK'
<1>1. /\ Gone(o, w, req) \in [Stocks -> Nat]
      /\ Fulfilled(o, req) \in Matrix
      /\ allocation' = Fulfilled(o, req)
      /\ BulkUpdateCounter(Fulfilled(o, req))
      /\ quantity' = [s \in Stocks |-> quantity[s] - Gone(o, w, req)[s]]
  BY DecreaseStockParts
<1>2. quantity_allocated' \in [Stocks -> Int]
  BY <1>1, CounterType
<1>3. quantity' \in [Stocks -> Int]
  BY <1>1 DEF TypeOK
<1>4. \A l \in LinesOf(o) : req[l] \in Nat
  BY BoundsAssumption
<1>5. shipped' \in [Lines -> Nat]
  BY <1>4 DEF DecreaseStock, TypeOK
<1>6. status' \in [Orders -> OrderStatuses]
  BY DEF DecreaseStock, TypeOK, OrderStatuses
<1> QED
  BY <1>1, <1>2, <1>3, <1>5, <1>6
     DEF DecreaseStock, TypeOK, Matrix, reservationVars, taskVars

\* The other order operations keep the types: a restock takes back no more
\* units than were fulfilled.
LEMMA OrderStepType ==
    ASSUME TypeOK, OrderNext
    PROVE  TypeOK'
<1>1. CASE \E o \in Orders, point \in CollectionPoints :
             \E req \in [LinesOf(o) -> 1 .. MaxQty] : AllocateStocks(o, req, point)
  BY <1>1, AllocateStocksType
<1>2. CASE \E o \in Orders : ConfirmOrder(o)
  BY <1>2 DEF ConfirmOrder, TypeOK, OrderStatuses, stockVars, reservationVars,
              taskVars
<1>3. 0 .. MaxQty \subseteq Nat /\ 1 .. MaxQty \subseteq Nat
  BY BoundsAssumption
<1>4. CASE \E l \in Lines, old \in 0 .. MaxQty, new \in 1 .. MaxQty :
             ChangeOrderLineQuantity(l, old, new)
  BY <1>3, <1>4, EditType
<1>5. CASE \E l \in Lines, old \in 0 .. MaxQty : DeleteOrderLine(l, old)
  BY <1>3, <1>5, EditType
<1>6. CASE \E o \in Orders, w \in Warehouses, exceeded \in AllowExceeded :
             \E req \in [LinesOf(o) -> 0 .. MaxQty] :
                 DecreaseStock(o, w, req, exceeded)
  BY <1>6, DecreaseStockType
<1>7. CASE \E l \in Lines, s \in Stocks, n \in 1 .. MaxQty :
             IncreaseStock(l, s, n)
  <2>1. PICK l \in Lines, s \in Stocks, n \in 1 .. MaxQty : IncreaseStock(l, s, n)
    BY <1>7
  <2>2. n \in Nat
    BY BoundsAssumption
  <2>3. allocation' \in Matrix
    BY <2>1, <2>2 DEF IncreaseStock, TypeOK, Matrix
  <2>4. /\ stocks' \subseteq Stocks
        /\ rows' \subseteq Lines \X Stocks
        /\ quantity' \in [Stocks -> Int]
        /\ quantity_allocated' \in [Stocks -> Int]
        /\ shipped' \in [Lines -> Nat]
    BY <2>1, <2>2 DEF IncreaseStock, TypeOK
  <2> QED
    BY <2>1, <2>3, <2>4
       DEF IncreaseStock, TypeOK, Matrix, reservationVars, taskVars
<1>8. ASSUME NEW closing \in SUBSET Orders, DeallocateStockForOrders(closing)
      PROVE  TypeOK'
  <2> DEFINE new == [l \in Lines |-> IF LineOrder[l] \in closing
                                     THEN NoUnits ELSE allocation[l]]
  <2>1. new \in Matrix
    BY DEF TypeOK, Matrix, NoUnits
  <2>2. BulkUpdateCounter(new) /\ allocation' = new
    BY <1>8 DEF DeallocateStockForOrders
  <2> HIDE DEF new
  <2>3. quantity_allocated' \in [Stocks -> Int]
    BY <2>1, <2>2, CounterType
  <2>4. status' \in [Orders -> OrderStatuses]
    BY <1>8 DEF DeallocateStockForOrders, TypeOK, OrderStatuses
  <2> QED
    BY <1>8, <2>1, <2>2, <2>3, <2>4
       DEF DeallocateStockForOrders, TypeOK, Matrix, stockVars,
           reservationVars, taskVars
<1>9. CASE \E o \in Orders : CancelOrder(o)
  BY <1>8, <1>9 DEF CancelOrder
<1>10. CASE \E batch \in SUBSET Orders : ExpireOrders(batch)
  BY <1>8, <1>10 DEF ExpireOrders
<1> QED
  BY <1>1, <1>2, <1>3, <1>4, <1>5, <1>6, <1>7, <1>9, <1>10 DEF OrderNext

\* The two ways to reserve, and the end of a reservation, keep the types.
LEMMA ReservationStepType ==
    ASSUME TypeOK, ReservationNext
    PROVE  TypeOK'
<1>1. ASSUME NEW o \in CheckoutOrders, NEW reserving \in BOOLEAN,
             NEW edited \in SUBSET LinesOf(o), NEW req \in [edited -> 0 .. MaxQty],
             AddVariantsToCheckout(o, req, reserving)
      PROVE  TypeOK'
  <2> DEFINE avail == Reservable(edited)
             key == SortKey([s \in Stocks |-> Free(s)])
             row(l) == Picked(l, req[l], avail, key, NoPoint)
  <2>1. avail \in [Stocks -> Int]
    <3>1. ASSUME NEW s \in Stocks
          PROVE  Free(s) - ReservedByOthers(s, edited) \in Int
      <4>1. Allocated(s) \in Nat
        BY AllocatedType DEF TypeOK, Allocated, Matrix
      <4> QED
        BY <4>1, ReservedType DEF Free, TypeOK
    <3> QED
      BY <3>1 DEF Reservable
  <2> HIDE DEF avail, key
  <2>2. ASSUME NEW l \in edited
        PROVE  row(l) \in [Stocks -> Nat]
    <3>1. req[l] \in Int /\ stocks \subseteq Stocks
      BY BoundsAssumption DEF TypeOK
    <3> QED
      BY <2>1, <3>1, PickedFacts
  <2>3. DOMAIN req = edited
    OBVIOUS
  <2>4. reservation' = [l \in Lines |-> IF l \notin edited THEN reservation[l]
                                         ELSE IF req[l] = 0 THEN NoUnits ELSE row(l)]
    BY <1>1, <2>3 DEF AddVariantsToCheckout, ReserveStocks, avail, key
  <2> HIDE DEF row
  <2>5. reservation' \in [Lines -> [Stocks -> Nat]]
    BY <2>2, <2>4 DEF TypeOK, NoUnits
  <2>6. expired' \subseteq Lines \X Stocks
    BY <1>1 DEF AddVariantsToCheckout, TypeOK
  <2> QED
    BY <1>1, <2>5, <2>6
       DEF AddVariantsToCheckout, TypeOK, stockVars, orderVars, taskVars
<1>2. ASSUME NEW o \in CheckoutOrders, NEW req \in [LinesOf(o) -> 1 .. MaxQty],
             ReserveStocksWithoutAvailabilityCheck(o, req)
      PROVE  TypeOK'
  <2>1. \A l \in LinesOf(o) : req[l] \in Nat
    BY BoundsAssumption
  <2>2. reservation' \in [Lines -> [Stocks -> Nat]]
    BY <1>2, <2>1 DEF ReserveStocksWithoutAvailabilityCheck, TypeOK
  <2> QED
    BY <1>2, <2>2
       DEF ReserveStocksWithoutAvailabilityCheck, TypeOK, stockVars, orderVars, taskVars
<1>3. ASSUME NEW l \in Lines, NEW s \in Stocks, ReservationExpires(l, s)
      PROVE  TypeOK'
  BY <1>3 DEF ReservationExpires, TypeOK, stockVars, orderVars, taskVars
<1>4. CASE DeleteExpiredReservations
  BY <1>4 DEF DeleteExpiredReservations, TypeOK, stockVars, orderVars, taskVars
<1> QED
  BY <1>1, <1>2, <1>3, <1>4 DEF ReservationNext

\* A reservation, or its end, touches no stock and no order.
LEMMA ReservationStepFrame ==
    ASSUME ReservationNext
    PROVE  /\ UNCHANGED stockVars /\ UNCHANGED orderVars /\ UNCHANGED taskVars
           /\ UNCHANGED <<quantity_allocated, rows, allocation>>
BY DEF ReservationNext, AddVariantsToCheckout, ReserveStocksWithoutAvailabilityCheck,
       ReservationExpires, DeleteExpiredReservations

\* Staff operations and the periodic tasks keep the types.
LEMMA OtherStepType ==
    ASSUME TypeOK, StaffNext \/ TaskNext
    PROVE  TypeOK'
<1>1. CASE \E s \in Stocks, q \in StaffQuantities : UpdateStock(s, q)
  BY <1>1, BoundsAssumption
     DEF UpdateStock, TypeOK, orderVars, reservationVars, taskVars
<1>2. CASE \E s \in DeletableStocks : DeleteStock(s)
  <2>1. PICK s \in DeletableStocks : DeleteStock(s)
    BY <1>2
  <2>2. /\ allocation' \in [Lines -> [Stocks -> Nat]]
        /\ reservation' \in [Lines -> [Stocks -> Nat]]
    BY <2>1 DEF DeleteStock, TypeOK
  <2>3. mismatched' \in [Stocks -> Nat \cup {NotRead}]
    BY <2>1 DEF DeleteStock, TypeOK
  <2> QED
    BY <2>1, <2>2, <2>3 DEF DeleteStock, TypeOK, orderVars
<1>3. CASE ReadMismatched
  <2>1. \A s \in Stocks : Allocated(s) \in Nat
    BY AllocatedType DEF TypeOK, Allocated, Matrix
  <2>2. mismatched' \in [Stocks -> Nat \cup {NotRead}]
    BY <1>3, <2>1 DEF ReadMismatched
  <2> QED
    BY <1>3, <2>2
       DEF ReadMismatched, TypeOK, stockVars, orderVars, reservationVars
<1>4. CASE WriteMismatched
  <2>1. quantity_allocated' \in [Stocks -> Int]
    BY <1>4 DEF WriteMismatched, TypeOK, NotRead
  <2> QED
    BY <1>4, <2>1
       DEF WriteMismatched, TypeOK, stockVars, orderVars, reservationVars
<1>5. CASE ReadEmptyAllocations
  BY <1>5 DEF ReadEmptyAllocations, TypeOK, stockVars, orderVars, reservationVars
<1>6. CASE DeleteAllocations
  <2>1. allocation' \in [Lines -> [Stocks -> Nat]]
    BY <1>6 DEF DeleteAllocations, TypeOK
  <2> QED
    BY <1>6, <2>1
       DEF DeleteAllocations, TypeOK, stockVars, orderVars, reservationVars
<1> QED
  BY <1>1, <1>2, <1>3, <1>4, <1>5, <1>6 DEF StaffNext, TaskNext

(***************************************************************************)
(* Every state of the stock component is well typed: no allocation,        *)
(* reservation or fulfilled quantity is ever negative (for the first two   *)
(* the column is a PositiveIntegerField and the database would refuse).    *)
(***************************************************************************)
THEOREM TypeCorrect == Spec => []TypeOK
<1>1. Init => TypeOK
  BY StocksAssumption DEF Init, TypeOK, NoUnits, OrderStatuses, NotRead
<1>2. ASSUME TypeOK, [Next]_vars
      PROVE  TypeOK'
  <2>1. CASE OrderNext
    BY <2>1, <1>2, OrderStepType
  <2>2. CASE ReservationNext
    BY <2>2, <1>2, ReservationStepType
  <2>3. CASE StaffNext \/ TaskNext
    BY <2>3, <1>2, OtherStepType
  <2>4. CASE UNCHANGED vars
    BY <2>4, <1>2 DEF vars, TypeOK
  <2> QED
    BY <1>2, <2>1, <2>2, <2>3, <2>4 DEF Next
<1> QED
  BY <1>1, <1>2, PTL DEF Spec

-----------------------------------------------------------------------------
(* No overselling.                                                         *)

\* What the step must not do to stock s.
Kept(s) == Free(s)' >= 0 \/ Free(s)' >= Free(s) \/ Override(s)

\* Free units, before and after a step, in terms of the allocations.
LEMMA FreeFacts ==
    ASSUME TypeOK, TypeOK', NEW s \in Stocks
    PROVE  /\ Free(s) = quantity[s] - AllocatedIn(allocation, s)
           /\ Free(s)' = quantity'[s] - AllocatedIn(allocation', s)
           /\ allocation \in Matrix /\ allocation' \in Matrix
           /\ AllocatedIn(allocation, s) \in Nat
           /\ AllocatedIn(allocation', s) \in Nat
           /\ quantity[s] \in Int /\ quantity'[s] \in Int
<1>1. allocation \in Matrix /\ allocation' \in Matrix
  BY DEF TypeOK, Matrix
<1>2. /\ AllocatedIn(allocation, s) \in Nat
      /\ AllocatedIn(allocation', s) \in Nat
  BY <1>1, AllocatedType
<1> QED
  BY <1>1, <1>2 DEF Free, Allocated, AllocatedIn, TypeOK

\* A step that takes nothing out of a stock and adds no allocation in it, as
\* every deallocation, frees units only.
LEMMA DeallocationKeeps ==
    ASSUME TypeOK, TypeOK', NEW s \in Stocks, quantity'[s] >= quantity[s],
           \A l \in Lines : allocation'[l][s] <= allocation[l][s]
    PROVE  Kept(s)
<1>1. AllocatedIn(allocation', s) <= AllocatedIn(allocation, s)
  BY FreeFacts, AllocatedMonotone
<1> QED
  BY <1>1, FreeFacts DEF Kept

(***************************************************************************)
(* A step that gives one line k no more than what stock s has beyond the   *)
(* allocations base, while no other line gains there, promises no more     *)
(* than the stock has.                                                     *)
(***************************************************************************)
LEMMA AllocationKeeps ==
    ASSUME TypeOK, TypeOK', NEW s \in Stocks, quantity'[s] = quantity[s],
           NEW k \in Lines, NEW base \in Matrix,
           \A l \in Lines \ {k} : allocation'[l][s] = base[l][s],
           \A l \in Lines : base[l][s] <= allocation[l][s],
           base[k][s] = 0,
           allocation'[k][s] <= Pos(quantity[s] - AllocatedIn(base, s))
    PROVE  Kept(s)
<1> DEFINE A == AllocatedIn(allocation, s)
           B == AllocatedIn(base, s)
           C == AllocatedIn(allocation', s)
<1>1. /\ A \in Nat /\ B \in Nat /\ C \in Nat
      /\ quantity[s] \in Int
      /\ Free(s) = quantity[s] - A /\ Free(s)' = quantity[s] - C
      /\ allocation \in Matrix /\ allocation' \in Matrix
      /\ allocation'[k][s] \in Nat
  BY FreeFacts, AllocatedType DEF Matrix
<1>2. B <= A
  BY <1>1, AllocatedMonotone
<1>3. C = B + (allocation'[k][s] - base[k][s])
  BY <1>1, AllocatedIncrease
<1> HIDE DEF A, B, C
<1>4. C <= B + Pos(quantity[s] - B)
  BY <1>1, <1>3 DEF Pos, B
<1> QED
  BY <1>1, <1>2, <1>4 DEF Kept, Pos

\* allocate_stocks for a draft counts every allocation and gives each line
\* what is left; a draft has one line of a variant at most.
LEMMA AllocateStocksKeeps ==
    ASSUME TypeOK, TypeOK', CheckoutOrders = {}, ReservationsEnabled = FALSE,
           NEW o \in Orders, NEW point, NEW s \in Stocks,
           NEW req \in [LinesOf(o) -> 1 .. MaxQty], AllocateStocks(o, req, point)
    PROVE  Kept(s)
<1> DEFINE avail == [t \in Stocks |-> quantity[t] - AllocationsSeen(o)[t]
                                                - ReservationsSeen(o)[t]]
           key == SortKey([t \in Stocks |-> quantity[t] - AllocationsSeen(o)[t]])
           row(l) == Picked(l, req[l], avail, key, point)
<1>1. \A t \in Stocks : avail[t] = quantity[t] - Allocated(t)
  <2>1. ~ChecksReservations(o)
    BY DEF ChecksReservations
  <2>2. \A t \in Stocks : Allocated(t) \in Nat /\ quantity[t] \in Int
    BY AllocatedType DEF TypeOK, Allocated, Matrix
  <2> QED
    BY <2>1, <2>2 DEF AllocationsSeen, ReservationsSeen
<1>2. avail \in [Stocks -> Int]
  <2>1. \A t \in Stocks : Allocated(t) \in Nat /\ quantity[t] \in Int
    BY AllocatedType DEF TypeOK, Allocated, Matrix
  <2> QED
    BY <1>1, <2>1
<1>3. /\ allocation' = [l \in Lines |-> IF l \in LinesOf(o)
                                        THEN row(l) ELSE allocation[l]]
      /\ quantity' = quantity
  BY DEF AllocateStocks
<1> HIDE DEF avail, key
<1>4. ASSUME NEW l \in LinesOf(o)
      PROVE  /\ row(l) \in [Stocks -> Nat]
             /\ row(l)[s] <= Pos(avail[s])
             /\ StockVariant[s] # LineVariant[l] => row(l)[s] = 0
  <2>1. req[l] \in Int /\ stocks \subseteq Stocks
    BY BoundsAssumption DEF TypeOK
  <2> QED
    BY <1>2, <2>1, PickedFacts
<1> HIDE DEF row
<1>5. ASSUME NEW l \in Lines,
             l \in LinesOf(o) => StockVariant[s] # LineVariant[l]
      PROVE  allocation'[l][s] <= allocation[l][s]
  <2>1. allocation[l][s] \in Nat
    BY DEF TypeOK
  <2> QED
    BY <1>3, <1>4, <1>5, <2>1
<1>6. CASE \A l \in LinesOf(o) : StockVariant[s] # LineVariant[l]
  <2>1. quantity'[s] >= quantity[s]
    BY <1>3 DEF TypeOK
  <2> QED
    BY <1>5, <1>6, <2>1, DeallocationKeeps
<1>7. CASE \E k \in LinesOf(o) : StockVariant[s] = LineVariant[k]
  <2>1. PICK k \in LinesOf(o) : StockVariant[s] = LineVariant[k]
    BY <1>7
  <2> DEFINE base == [l \in Lines |-> [t \in Stocks |->
                        IF l = k THEN 0 ELSE allocation'[l][t]]]
  <2>2. k \in Lines
    BY DEF LinesOf
  <2>3. /\ base \in Matrix /\ base[k][s] = 0
        /\ \A l \in Lines \ {k} : allocation'[l][s] = base[l][s]
    BY <2>2 DEF TypeOK, Matrix
  <2>4. \A l \in Lines : base[l][s] <= allocation[l][s]
    <3>1. \A l \in LinesOf(o) \ {k} : StockVariant[s] # LineVariant[l]
      BY <2>1, DraftLines DEF LinesOf
    <3>2. \A l \in Lines : allocation[l][s] \in Nat
      BY DEF TypeOK
    <3> QED
      BY <1>5, <3>1, <3>2
  <2> HIDE DEF base
  <2>5. AllocatedIn(base, s) <= Allocated(s)
    BY <2>3, <2>4, FreeFacts, AllocatedMonotone DEF Allocated
  <2>6. AllocatedIn(base, s) \in Nat /\ Allocated(s) \in Nat
    BY <2>3, FreeFacts, AllocatedType DEF Allocated
  <2>7. allocation'[k][s] <= Pos(quantity[s] - AllocatedIn(base, s))
    <3>1. allocation'[k][s] = row(k)[s] /\ row(k)[s] \in Nat
      BY <1>3, <1>4, <2>2
    <3>2. row(k)[s] <= Pos(quantity[s] - Allocated(s))
      BY <1>1, <1>4
    <3>3. quantity[s] \in Int
      BY DEF TypeOK
    <3> QED
      BY <2>5, <2>6, <3>1, <3>2, <3>3 DEF Pos
  <2>8. quantity'[s] = quantity[s]
    BY <1>3
  <2> QED
    BY <2>2, <2>3, <2>4, <2>7, <2>8, AllocationKeeps
<1> QED
  BY <1>6, <1>7

\* increase_allocations allocates the line again from what the others leave.
LEMMA IncreaseAllocationsKeeps ==
    ASSUME TypeOK, TypeOK', NEW l \in Lines, NEW old \in Int, NEW new \in Int,
           IncreaseAllocations(l, old, new), quantity' = quantity,
           NEW s \in Stocks
    PROVE  Kept(s)
<1> DEFINE others == [allocation EXCEPT ![l] = NoUnits]
           avail == [t \in Stocks |-> quantity[t] - AllocatedIn(others, t)]
           total == (new - old) + SumOf(allocation[l], Stocks)
           picked == Picked(l, total, avail, SortKey(avail), NoPoint)
<1>1. /\ others \in Matrix /\ others[l][s] = 0
      /\ \A k \in Lines : others[k][s] <= allocation[k][s]
  BY DEF TypeOK, Matrix, NoUnits
<1>2. /\ allocation' = [others EXCEPT ![l] = picked]
      /\ quantity' = quantity
  BY DEF IncreaseAllocations
<1> HIDE DEF others
<1>3. avail \in [Stocks -> Int] /\ avail[s] = quantity[s] - AllocatedIn(others, s)
  BY <1>1, AllocatedType DEF TypeOK
<1>4. total \in Int
  <2>1. \A t \in Stocks : allocation[l][t] \in Int
    BY DEF TypeOK
  <2>2. SumOf(allocation[l], Stocks) \in Nat
    BY <2>1, SumType, StocksAssumption
  <2> QED
    BY <2>2, BoundsAssumption
<1> HIDE DEF avail, total
<1>5. picked[s] <= Pos(avail[s])
  <2>1. stocks \subseteq Stocks
    BY DEF TypeOK
  <2> QED
    BY <1>3, <1>4, <2>1, PickedFacts
<1> HIDE DEF picked
<1>6. /\ allocation'[l][s] <= Pos(quantity[s] - AllocatedIn(others, s))
      /\ \A k \in Lines \ {l} : allocation'[k][s] = others[k][s]
      /\ quantity'[s] = quantity[s]
  BY <1>1, <1>2, <1>3, <1>5 DEF Matrix
<1> QED
  BY <1>1, <1>6, AllocationKeeps

\* Edits and the closing of orders only free units.
LEMMA DeallocatingStepKeeps ==
    ASSUME TypeOK, TypeOK', NEW s \in Stocks,
           \/ \E l \in Lines, old, new \in Nat :
                 DecreaseAllocations(l, old, new) /\ quantity' = quantity
           \/ \E l \in Lines, old \in Nat : DeleteOrderLine(l, old)
           \/ \E o \in Orders : CancelOrder(o)
           \/ \E batch \in SUBSET Orders : ExpireOrders(batch)
           \/ DeleteAllocations
    PROVE  Kept(s)
<1>0. \A l \in Lines : /\ allocation[l] \in [Stocks -> Nat]
                       /\ allocation[l][s] \in Nat
  BY DEF TypeOK
<1>1. quantity'[s] >= quantity[s]
  <2>2. \A l, old : DeleteOrderLine(l, old) => quantity' = quantity
    BY DEF DeleteOrderLine, stockVars
  <2>3. \A closing : DeallocateStockForOrders(closing) => quantity' = quantity
    BY DEF DeallocateStockForOrders, stockVars
  <2>4. DeleteAllocations => quantity' = quantity
    BY DEF DeleteAllocations, stockVars
  <2>5. quantity' = quantity
    BY <2>2, <2>3, <2>4 DEF CancelOrder, ExpireOrders
  <2> QED
    BY <2>5 DEF TypeOK
<1>2. ASSUME NEW k \in Lines
      PROVE  allocation'[k][s] <= allocation[k][s]
  <2>1. CASE \E l \in Lines, old, new \in Nat :
                DecreaseAllocations(l, old, new) /\ quantity' = quantity
    <3>1. PICK l \in Lines, old \in Nat, new \in Nat :
             DecreaseAllocations(l, old, new)
      BY <2>1
    <3>2. allocation' = [allocation EXCEPT
                           ![l] = Deallocated(allocation[l], old - new)]
      BY <3>1 DEF DecreaseAllocations
    <3>3. Deallocated(allocation[l], old - new)[s] <= allocation[l][s]
      <4>1. old - new \in Int
        OBVIOUS
      <4> QED
        BY <1>0, <4>1, DeallocatedFacts
    <3> QED
      BY <1>0, <3>2, <3>3 DEF TypeOK
  <2>2. CASE \E l \in Lines, old \in Nat : DeleteOrderLine(l, old)
    BY <1>0, <2>2 DEF DeleteOrderLine, NoUnits, TypeOK
  <2>3. ASSUME NEW closing, DeallocateStockForOrders(closing)
        PROVE  allocation'[k][s] <= allocation[k][s]
    BY <1>0, <2>3 DEF DeallocateStockForOrders, NoUnits
  <2>4. CASE \E o \in Orders : CancelOrder(o)
    BY <2>3, <2>4 DEF CancelOrder
  <2>5. CASE \E batch \in SUBSET Orders : ExpireOrders(batch)
    BY <2>3, <2>5 DEF ExpireOrders
  <2>6. CASE DeleteAllocations
    BY <1>0, <2>6 DEF DeleteAllocations
  <2> QED
    BY <2>1, <2>2, <2>4, <2>5, <2>6
<1> QED
  BY <1>1, <1>2, DeallocationKeeps

\* A fulfillment leaves enough for the allocations that remain, or it was
\* allowed to exceed the stock; a stock it does not touch only gains.
LEMMA DecreaseStockKeeps ==
    ASSUME TypeOK, TypeOK', NEW o \in Orders, NEW w \in Warehouses,
           NEW exceeded \in AllowExceeded,
           NEW req \in [LinesOf(o) -> 0 .. MaxQty],
           DecreaseStock(o, w, req, exceeded), NEW s \in Stocks
    PROVE  Kept(s)
<1> DEFINE gone == Gone(o, w, req)[s]
           new == Fulfilled(o, req)
<1>1. /\ gone \in Nat
      /\ allocation' = new
      /\ \A l \in Lines : new[l][s] <= allocation[l][s]
      /\ quantity'[s] = quantity[s] - gone
      /\ exceeded \/ (gone > 0 => quantity[s] - AllocatedIn(new, s) >= gone)
  BY DecreaseStockParts
<1> HIDE DEF gone, new
<1>2. CASE gone = 0
  <2>1. quantity'[s] >= quantity[s]
    BY <1>1, <1>2 DEF TypeOK
  <2>2. \A l \in Lines : allocation'[l][s] <= allocation[l][s]
    BY <1>1
  <2> QED
    BY <2>1, <2>2, DeallocationKeeps
<1>3. CASE gone > 0 /\ ~exceeded
  BY <1>1, <1>3, FreeFacts DEF Kept
<1>4. CASE gone > 0 /\ exceeded
  <2>1. exceeded = TRUE
    BY <1>4, BoundsAssumption
  <2>2. quantity'[s] < quantity[s]
    BY <1>1, <1>4 DEF TypeOK
  <2> QED
    BY <2>1, <2>2 DEF Kept, Override
<1> QED
  BY <1>1, <1>2, <1>3, <1>4

\* A restock adds as many units as it allocates.
LEMMA IncreaseStockKeeps ==
    ASSUME TypeOK, TypeOK', NEW l \in Lines, NEW t \in Stocks,
           NEW n \in 1 .. MaxQty, IncreaseStock(l, t, n), NEW s \in Stocks
    PROVE  Kept(s)
<1>0. n \in Nat
  BY BoundsAssumption
<1>1. /\ quantity' = [quantity EXCEPT ![t] = @ + n]
      /\ allocation' = [allocation EXCEPT ![l][t] = @ + n]
  BY DEF IncreaseStock
<1>2. CASE s = t
  <2>1. /\ quantity'[s] = quantity[s] + n
        /\ allocation'[l][s] = allocation[l][s] + n
        /\ allocation[l][s] \in Nat
        /\ \A k \in Lines \ {l} : allocation'[k][s] = allocation[k][s]
    BY <1>1, <1>2 DEF TypeOK
  <2>2. allocation[l][s] <= allocation'[l][s]
    BY <1>0, <2>1
  <2>3. AllocatedIn(allocation', s) =
          AllocatedIn(allocation, s) + (allocation'[l][s] - allocation[l][s])
    BY <2>1, <2>2, FreeFacts, AllocatedIncrease
  <2> QED
    BY <1>0, <2>1, <2>3, FreeFacts DEF Kept
<1>3. CASE s # t
  <2>1. \A k \in Lines : allocation[k][s] \in Nat
    BY DEF TypeOK
  <2>2. /\ quantity'[s] >= quantity[s]
        /\ \A k \in Lines : allocation'[k][s] <= allocation[k][s]
    BY <1>1, <1>3, <2>1 DEF TypeOK
  <2> QED
    BY <2>2, DeallocationKeeps
<1> QED
  BY <1>2, <1>3

\* A deleted stock takes its allocations with it; staff edits are overrides.
LEMMA StaffStepKeeps ==
    ASSUME TypeOK, TypeOK', StaffNext, NEW s \in Stocks
    PROVE  Kept(s)
<1>0. \A k \in Lines : allocation[k][s] \in Nat
  BY DEF TypeOK
<1>1. CASE \E t \in Stocks, q \in StaffQuantities : UpdateStock(t, q)
  <2>1. PICK t \in Stocks, q \in StaffQuantities : UpdateStock(t, q)
    BY <1>1
  <2>2. CASE t = s
    BY <2>1, <2>2 DEF Kept, Override
  <2>3. CASE t # s
    <3>1. /\ quantity'[s] >= quantity[s]
          /\ \A k \in Lines : allocation'[k][s] <= allocation[k][s]
      BY <1>0, <2>1, <2>3 DEF UpdateStock, TypeOK
    <3> QED
      BY <3>1, DeallocationKeeps
  <2> QED
    BY <2>2, <2>3
<1>2. CASE \E t \in DeletableStocks : DeleteStock(t)
  <2>1. PICK t \in DeletableStocks : DeleteStock(t)
    BY <1>2
  <2>2. CASE t = s
    <3> DEFINE f == [l \in Lines |-> allocation'[l][s]]
    <3>1. quantity'[s] = 0 /\ \A l \in Lines : f[l] = 0
      BY <2>1, <2>2 DEF DeleteStock, TypeOK
    <3> HIDE DEF f
    <3>2. SumOf(f, Lines) = 0
      BY <3>1, SumZero
    <3>3. AllocatedIn(allocation', s) = 0
      BY <3>2 DEF AllocatedIn, f
    <3> QED
      BY <3>1, <3>3, FreeFacts DEF Kept
  <2>3. CASE t # s
    <3>1. /\ quantity'[s] >= quantity[s]
          /\ \A k \in Lines : allocation'[k][s] <= allocation[k][s]
      BY <1>0, <2>1, <2>3 DEF DeleteStock, TypeOK
    <3> QED
      BY <3>1, DeallocationKeeps
  <2> QED
    BY <2>2, <2>3
<1> QED
  BY <1>1, <1>2 DEF StaffNext

(***************************************************************************)
(* Where orders come from drafts and reservations are off, the stock code  *)
(* never promises a unit twice, for any set of stocks, warehouses, orders  *)
(* and tasks: a step that lowers what is free in a stock leaves it at zero *)
(* or more, or is an explicit override.  (For checkouts TLC finds the      *)
(* counterexample of run warehouse_oversold.)                              *)
(***************************************************************************)
THEOREM DraftsNeverOversell ==
    ASSUME CheckoutOrders = {}, ReservationsEnabled = FALSE
    PROVE  Spec => NeverOversells
<1>1. ASSUME TypeOK, TypeOK', [Next]_vars
      PROVE  [\A s \in Stocks : Kept(s)]_vars
  <2> SUFFICES ASSUME Next, NEW s \in Stocks
               PROVE  Kept(s)
    BY <1>1
  <2>1. ASSUME UNCHANGED <<quantity, allocation>>
        PROVE  Kept(s)
    <3>1. \A k \in Lines : allocation[k][s] \in Nat
      BY <1>1 DEF TypeOK
    <3>2. /\ quantity'[s] >= quantity[s]
          /\ \A k \in Lines : allocation'[k][s] <= allocation[k][s]
      BY <1>1, <2>1, <3>1 DEF TypeOK
    <3> QED
      BY <1>1, <3>2, DeallocationKeeps
  <2>2. CASE OrderNext
    <3>1. CASE \E o \in Orders, point \in CollectionPoints :
                 \E req \in [LinesOf(o) -> 1 .. MaxQty] :
                     AllocateStocks(o, req, point)
      BY <1>1, <3>1, AllocateStocksKeeps
    <3>2. CASE \E o \in Orders : ConfirmOrder(o)
      BY <2>1, <3>2 DEF ConfirmOrder, stockVars
    <3>3. CASE \E l \in Lines, old \in 0 .. MaxQty, new \in 1 .. MaxQty :
                 ChangeOrderLineQuantity(l, old, new)
      <4>1. PICK l \in Lines, old \in 0 .. MaxQty, new \in 1 .. MaxQty :
               ChangeOrderLineQuantity(l, old, new)
        BY <3>3
      <4>2. old \in Nat /\ new \in Nat
        BY BoundsAssumption
      <4>3. quantity' = quantity
        BY <4>1 DEF ChangeOrderLineQuantity, stockVars
      <4>4. CASE IncreaseAllocations(l, old, new)
        BY <1>1, <4>2, <4>3, <4>4, IncreaseAllocationsKeeps
      <4>5. CASE DecreaseAllocations(l, old, new)
        BY <1>1, <4>2, <4>3, <4>5, DeallocatingStepKeeps
      <4> QED
        BY <4>1, <4>4, <4>5 DEF ChangeOrderLineQuantity
    <3>4. CASE \/ \E l \in Lines, old \in 0 .. MaxQty : DeleteOrderLine(l, old)
               \/ \E o \in Orders : CancelOrder(o)
               \/ \E batch \in SUBSET Orders : ExpireOrders(batch)
      <4>1. 0 .. MaxQty \subseteq Nat
        BY BoundsAssumption
      <4> QED
        BY <1>1, <3>4, <4>1, DeallocatingStepKeeps
    <3>5. CASE \E o \in Orders, w \in Warehouses, exceeded \in AllowExceeded :
                 \E req \in [LinesOf(o) -> 0 .. MaxQty] :
                     DecreaseStock(o, w, req, exceeded)
      BY <1>1, <3>5, DecreaseStockKeeps
    <3>6. CASE \E l \in Lines, t \in Stocks, n \in 1 .. MaxQty :
                 IncreaseStock(l, t, n)
      BY <1>1, <3>6, IncreaseStockKeeps
    <3> QED
      BY <2>2, <3>1, <3>2, <3>3, <3>4, <3>5, <3>6 DEF OrderNext
  <2>3. CASE ReservationNext
    BY <2>1, <2>3, ReservationStepFrame DEF stockVars
  <2>4. CASE StaffNext
    BY <1>1, <2>4, StaffStepKeeps
  <2>5. CASE TaskNext
    <3>1. CASE ReadMismatched \/ WriteMismatched \/ ReadEmptyAllocations
      BY <2>1, <3>1 DEF ReadMismatched, WriteMismatched, ReadEmptyAllocations,
                        stockVars
    <3>2. CASE DeleteAllocations
      BY <1>1, <3>2, DeallocatingStepKeeps
    <3> QED
      BY <2>5, <3>1, <3>2 DEF TaskNext
  <2> QED
    BY <2>2, <2>3, <2>4, <2>5 DEF Next
<1>2. Spec => [][\A s \in Stocks : Kept(s)]_vars
  BY <1>1, TypeCorrect, PTL DEF Spec
<1> QED
  BY <1>2 DEF NeverOversells, Kept

-----------------------------------------------------------------------------
(* What the loops give to a line in all.                                   *)

\* The rows of a line are visited by the pk of their stock.
LEMMA PkOrder == InTurn([s \in Stocks |-> {t \in Stocks : t < s}], Stocks)
<1> DEFINE earlier == [s \in Stocks |-> {t \in Stocks : t < s}]
<1>1. \A s \in Stocks : earlier[s] \subseteq Stocks /\ s \notin earlier[s]
  BY StocksAssumption
<1>2. \A s, t \in Stocks : s = t \/ s \in earlier[t] \/ t \in earlier[s]
  BY StocksAssumption
<1>3. \A s, t \in Stocks : s \in earlier[t] => earlier[s] \subseteq earlier[t]
  <2>1. \A s, t, u \in Stocks : u < s /\ s < t => u < t
    BY StocksAssumption
  <2> QED
    BY <2>1
<1> HIDE DEF earlier
<1>4. InTurn(earlier, Stocks)
  BY <1>1, <1>2, <1>3 DEF InTurn
<1> QED
  BY <1>4 DEF earlier

\* deallocate_stock frees n units of a line, or all it has.
LEMMA DeallocatedSum ==
    ASSUME NEW row \in [Stocks -> Nat], NEW n \in Nat
    PROVE  /\ SumOf(Deallocated(row, n), Stocks) = Pos(SumOf(row, Stocks) - n)
           /\ SumOf(row, Stocks) <= n => Deallocated(row, n) = NoUnits
<1> DEFINE earlier == [s \in Stocks |-> {t \in Stocks : t < s}]
           taken == Greedy(n, row, earlier, Stocks)
           left == Deallocated(row, n)
<1>1. InTurn(earlier, Stocks)
  BY PkOrder
<1>2. /\ IsFiniteSet(Stocks)
      /\ \A s \in Stocks : row[s] \in Nat
      /\ \A s \in Stocks : row[s] \in Int
  BY StocksAssumption
<1>3. left = [s \in Stocks |-> row[s] - taken[s]]
  BY DEF Deallocated
<1>4. ASSUME NEW s \in Stocks
      PROVE  taken[s] \in Nat /\ taken[s] <= row[s]
  <2>1. earlier[s] \subseteq Stocks /\ n \in Int
    BY <1>1 DEF InTurn
  <2> HIDE DEF earlier
  <2>2. taken[s] \in Nat /\ taken[s] <= Pos(row[s])
    BY <1>2, <2>1, GreedyBounds
  <2> QED
    BY <1>2, <2>2 DEF Pos
<1>5. /\ \A s \in Stocks : left[s] \in Nat
      /\ \A s \in Stocks : taken[s] \in Nat
      /\ \A s \in Stocks : row[s] = left[s] + taken[s]
  <2> HIDE DEF left, taken
  <2> QED
    BY <1>2, <1>3, <1>4
<1> HIDE DEF earlier
<1>6. SumOf(row, Stocks) \in Nat
  BY <1>2, SumType
<1>7. CASE SumOf(row, Stocks) <= n
  <2>1. \A s \in Stocks : taken[s] = row[s]
    BY <1>1, <1>2, <1>7, GreedyAll
  <2> HIDE DEF left, taken
  <2>2. \A s \in Stocks : left[s] = 0
    BY <1>2, <1>3, <2>1
  <2>3. left = NoUnits
    BY <1>3, <2>2 DEF NoUnits
  <2>4. SumOf(left, Stocks) = 0
    BY <2>2, SumZero
  <2> QED
    BY <1>6, <1>7, <2>3, <2>4 DEF Pos, left
<1>8. CASE ~(SumOf(row, Stocks) <= n)
  <2>1. n <= SumOf(row, Stocks)
    BY <1>6, <1>8
  <2>2. SumOf(taken, Stocks) = n
    BY <1>1, <1>2, <2>1, GreedyTotal
  <2> HIDE DEF left, taken
  <2>3. SumOf(row, Stocks) = SumOf(left, Stocks) + SumOf(taken, Stocks)
    BY <1>2, <1>5, SumPlus
  <2>4. SumOf(left, Stocks) \in Nat
    BY <1>2, <1>5, SumType
  <2> QED
    BY <1>6, <1>8, <2>1, <2>2, <2>3, <2>4 DEF Pos, left
<1> QED
  BY <1>7, <1>8

\* sort_stocks puts the stocks in one order.
LEMMA SortedOrder ==
    ASSUME NEW T, T \subseteq Stocks, NEW key \in [Stocks -> Int], NEW point
    PROVE  InTurn([s \in T |-> {t \in T : SortedBefore(key, point, t, s)}], T)
<1> DEFINE earlier == [s \in T |-> {t \in T : SortedBefore(key, point, t, s)}]
<1>0. /\ \A s \in T : s \in Nat /\ key[s] \in Int
  BY StocksAssumption
<1>1. \A s \in T : earlier[s] \subseteq T /\ s \notin earlier[s]
  BY <1>0 DEF SortedBefore
<1>2. \A s, t \in T : s = t \/ s \in earlier[t] \/ t \in earlier[s]
  BY <1>0 DEF SortedBefore
<1>3. \A s, t \in T : s \in earlier[t] => earlier[s] \subseteq earlier[t]
  <2>1. \A s, t, u \in T : SortedBefore(key, point, u, s) /\ SortedBefore(key, point, s, t)
                           => SortedBefore(key, point, u, t)
    BY <1>0 DEF SortedBefore
  <2> QED
    BY <2>1
<1> HIDE DEF earlier
<1>4. InTurn(earlier, T)
  BY <1>1, <1>2, <1>3 DEF InTurn
<1> QED
  BY <1>4 DEF earlier

LEMMA SortKeyType ==
    ASSUME NEW left \in [Stocks -> Int]
    PROVE  SortKey(left) \in [Stocks -> Int]
BY StocksAssumption DEF SortKey, Warehouses

\* allocate_stocks gives a line exactly what it asks for.
LEMMA PickedSum ==
    ASSUME NEW l, NEW q \in Nat, NEW avail \in [Stocks -> Int],
           NEW key \in [Stocks -> Int], NEW point, stocks \subseteq Stocks,
           Sufficient(l, q, avail)
    PROVE  SumOf(Picked(l, q, avail, key, point), Stocks) = q
<1> DEFINE S == StocksOf(l)
           earlier == [s \in S |-> {t \in S : SortedBefore(key, point, t, s)}]
           offer == [s \in S |-> Pos(avail[s])]
           taken == Greedy(q, avail, earlier, S)
           want == Greedy(q, offer, earlier, S)
           picked == Picked(l, q, avail, key, point)
<1>1. S \subseteq Stocks /\ IsFiniteSet(S)
  BY StocksAssumption, FS_Subset DEF StocksOf
<1>2. InTurn(earlier, S)
  BY <1>1, SortedOrder
<1>3. /\ \A s \in S : avail[s] \in Int
      /\ \A s \in S : offer[s] = Pos(avail[s])
      /\ \A s \in S : offer[s] \in Nat
  BY <1>1 DEF Pos
<1>4. picked = [s \in Stocks |-> IF s \in S THEN taken[s] ELSE 0]
  BY DEF Picked
<1>5. q <= SumOf(avail, S)
  <2>1. SumOf(avail, S) \in Nat
    BY <1>1, <1>3, SumType
  <2> QED
    BY <2>1 DEF Sufficient
<1> HIDE DEF S, earlier, offer
<1>6. SumOf(offer, S) = SumOf(avail, S)
  BY <1>3, SumPos
<1>7. SumOf(want, S) = q
  BY <1>1, <1>2, <1>3, <1>5, <1>6, GreedyTotal
<1>8. ASSUME NEW s \in S
      PROVE  taken[s] = want[s]
  <2>1. earlier[s] \subseteq S
    BY <1>2 DEF InTurn
  <2>2. /\ \A x \in earlier[s] : avail[x] \in Int
        /\ \A x \in earlier[s] : offer[x] = Pos(avail[x])
    BY <1>3, <2>1
  <2>3. SumOf(offer, earlier[s]) = SumOf(avail, earlier[s])
    BY <2>2, SumPos
  <2>4. Pos(offer[s]) = Pos(avail[s])
    BY <1>3 DEF Pos
  <2> QED
    BY <2>3, <2>4 DEF Greedy
<1>9. picked \in [Stocks -> Nat]
  <2>1. q \in Int
    OBVIOUS
  <2> QED
    BY <2>1, PickedFacts
<1> HIDE DEF taken, want, picked
<1>10. SumOf(picked, Stocks) = SumOf(picked, S)
  <2>1. /\ \A s \in Stocks : picked[s] \in Int
        /\ \A s \in Stocks \ S : picked[s] <= 0
    BY <1>4, <1>9
  <2> QED
    BY <1>1, <2>1, SumWithin
<1>11. SumOf(picked, S) = SumOf(want, S)
  <2>1. \A s \in S : picked[s] = want[s]
    BY <1>1, <1>4, <1>8
  <2> QED
    BY <2>1, SumSame
<1> QED
  BY <1>7, <1>10, <1>11 DEF picked

-----------------------------------------------------------------------------
(* Counters and lines.                                                     *)

\* No order has two lines of one variant.
OneLinePerVariant ==
    \A l, k \in Lines :
        LineOrder[l] = LineOrder[k] /\ LineVariant[l] = LineVariant[k] => l = k

\* Orders expire one at a time, edits do not overlap with other requests, and
\* no task deletes allocations.
Undisturbed == ExpireBatch <= 1 /\ ~OverlappingEdits /\ ~EmptyAllocationsTask

\* An order line has no more allocated than is not fulfilled; exactly as much
\* while the order lives and no stock is deleted.
LineInOrder(l) ==
    LET state == status[LineOrder[l]]
        held  == SumOf(allocation[l], Stocks)
    IN  /\ state \in {"draft", "unconfirmed"} => shipped[l] = 0
        /\ held + shipped[l] <= ordered[l]
        /\ DeletableStocks = {} /\ state \in {"unconfirmed", "open"}
           => held + shipped[l] = ordered[l]

OwnVariant(matrix) ==
    \A l \in Lines : \A s \in Stocks :
        StockVariant[s] # LineVariant[l] => matrix[l][s] = 0

Ledger ==
    /\ OwnVariant(allocation)
    /\ \A s \in Stocks : quantity_allocated[s] = AllocatedIn(allocation, s)
    /\ \A s \in Stocks : mismatched[s] = NotRead
    /\ emptied = {}
    /\ \A l \in Lines : LineInOrder(l)

\* When one line changes, the stock's sum changes by as much.
LEMMA AllocatedChange ==
    ASSUME NEW m \in Matrix, NEW n \in Matrix, NEW s \in Stocks, NEW k \in Lines,
           \A l \in Lines \ {k} : n[l][s] = m[l][s]
    PROVE  AllocatedIn(n, s) = AllocatedIn(m, s) + (n[k][s] - m[k][s])
<1> DEFINE f == [l \in Lines |-> m[l][s]]
           g == [l \in Lines |-> n[l][s]]
<1>1. /\ \A l \in Lines : f[l] \in Nat
      /\ \A l \in Lines : g[l] \in Nat
      /\ \A l \in Lines \ {k} : g[l] = f[l]
      /\ f[k] = m[k][s] /\ g[k] = n[k][s]
  BY DEF Matrix
<1> HIDE DEF f, g
<1>2. SumOf(g, Lines) = SumOf(f, Lines) + (g[k] - f[k])
  BY <1>1, SumChange, LinesAssumption
<1> QED
  BY <1>1, <1>2 DEF AllocatedIn, f, g

\* A bulk update that changes one allocation per stock keeps the counters.
LEMMA CounterMoves ==
    ASSUME TypeOK, Ledger, NEW new \in Matrix, BulkUpdateCounter(new),
           \A s \in Stocks : \A l, k \in Changed(new, s) : l = k,
           NEW s \in Stocks
    PROVE  quantity_allocated'[s] = AllocatedIn(new, s)
<1>1. PICK first \in [Stocks -> Lines] :
         /\ \A t \in Stocks : Changed(new, t) # {} => first[t] \in Changed(new, t)
         /\ quantity_allocated' =
              [t \in Stocks |-> quantity_allocated[t]
                                + (new[first[t]][t] - allocation[first[t]][t])]
  BY DEF BulkUpdateCounter
<1>2. first[s] \in Lines
  BY <1>1
<1>3. \A l \in Lines \ {first[s]} : new[l][s] = allocation[l][s]
  <2> SUFFICES ASSUME NEW l \in Lines \ {first[s]}, new[l][s] # allocation[l][s]
               PROVE  FALSE
    OBVIOUS
  <2>1. l \in Changed(new, s)
    BY DEF Changed
  <2> QED
    BY <1>1, <2>1
<1>4. allocation \in Matrix
  BY DEF TypeOK, Matrix
<1>5. AllocatedIn(new, s)
        = AllocatedIn(allocation, s) + (new[first[s]][s] - allocation[first[s]][s])
  BY <1>2, <1>3, <1>4, AllocatedChange
<1> QED
  BY <1>1, <1>5 DEF Ledger

\* A line and an order that a step leaves alone.
LEMMA LineKept ==
    ASSUME NEW l \in Lines, LineInOrder(l),
           allocation'[l] = allocation[l], shipped'[l] = shipped[l],
           ordered'[l] = ordered[l], status'[LineOrder[l]] = status[LineOrder[l]]
    PROVE  LineInOrder(l)'
BY DEF LineInOrder

\* Only lines of one order change, each in stocks of its own variant.
LEMMA OneChange ==
    ASSUME OneLinePerVariant, Ledger, NEW o, NEW new, OwnVariant(new),
           \A l \in Lines \ LinesOf(o) : new[l] = allocation[l],
           NEW s \in Stocks, NEW l \in Changed(new, s), NEW k \in Changed(new, s)
    PROVE  l = k
<1>1. /\ l \in Lines /\ new[l][s] # allocation[l][s]
      /\ k \in Lines /\ new[k][s] # allocation[k][s]
  BY DEF Changed
<1>2. LineOrder[l] = o /\ LineOrder[k] = o
  BY <1>1 DEF LinesOf
<1>3. StockVariant[s] = LineVariant[l] /\ StockVariant[s] = LineVariant[k]
  BY <1>1 DEF Ledger, OwnVariant
<1> QED
  BY <1>1, <1>2, <1>3 DEF OneLinePerVariant

\* A step of an order that updates the counters in bulk.
LEMMA BulkLedger ==
    ASSUME OneLinePerVariant, TypeOK, TypeOK', Ledger, NEW o,
           BulkUpdateCounter(allocation'), OwnVariant(allocation'),
           \A l \in Lines \ LinesOf(o) : allocation'[l] = allocation[l],
           \A l \in Lines : LineInOrder(l)',
           mismatched' = mismatched, emptied' = {}
    PROVE  Ledger'
<1>1. allocation' \in Matrix
  BY DEF TypeOK, Matrix
<1>2. \A s \in Stocks : \A l, k \in Changed(allocation', s) : l = k
  BY OneChange
<1>3. \A s \in Stocks : quantity_allocated'[s] = AllocatedIn(allocation', s)
  BY <1>1, <1>2, CounterMoves
<1>4. \A s \in Stocks : mismatched'[s] = NotRead
  BY DEF Ledger
<1> QED
  BY <1>3, <1>4 DEF Ledger, OwnVariant, AllocatedIn

LEMMA InitLedger == Init => Ledger
<1> SUFFICES ASSUME Init PROVE Ledger
  OBVIOUS
<1>1. \A l \in Lines : \A s \in Stocks : allocation[l][s] = 0
  BY DEF Init, NoUnits
<1>2. ASSUME NEW s \in Stocks
      PROVE  quantity_allocated[s] = AllocatedIn(allocation, s)
  <2> DEFINE f == [l \in Lines |-> allocation[l][s]]
  <2>1. \A l \in Lines : f[l] = 0
    BY <1>1
  <2> HIDE DEF f
  <2>2. SumOf(f, Lines) = 0
    BY <2>1, SumZero
  <2> QED
    BY <2>2 DEF AllocatedIn, f, Init, NoUnits
<1>3. ASSUME NEW l \in Lines PROVE LineInOrder(l)
  <2>1. SumOf(allocation[l], Stocks) = 0
    BY <1>1, SumZero
  <2>2. shipped[l] = 0 /\ ordered[l] = 0 /\ status[LineOrder[l]] = "draft"
    BY LinesAssumption DEF Init
  <2> QED
    BY <2>1, <2>2 DEF LineInOrder
<1> QED
  BY <1>1, <1>2, <1>3 DEF Ledger, OwnVariant, Init

\* What allocate_stocks does to the allocations.
LEMMA AllocateStocksGives ==
    ASSUME TypeOK, NEW o \in Orders, NEW point,
           NEW req \in [LinesOf(o) -> 1 .. MaxQty], AllocateStocks(o, req, point)
    PROVE  /\ BulkUpdateCounter(allocation')
           /\ \A l \in Lines \ LinesOf(o) : allocation'[l] = allocation[l]
           /\ \A l \in LinesOf(o) :
                /\ SumOf(allocation'[l], Stocks) = req[l]
                /\ \A s \in Stocks :
                      StockVariant[s] # LineVariant[l] => allocation'[l][s] = 0
<1> DEFINE left == [s \in Stocks |-> quantity[s] - AllocationsSeen(o)[s]]
           avail == [s \in Stocks |-> quantity[s] - AllocationsSeen(o)[s]
                                                - ReservationsSeen(o)[s]]
           key == SortKey(left)
           new == [l \in Lines |-> IF l \in LinesOf(o)
                                   THEN Picked(l, req[l], avail, key, point)
                                   ELSE allocation[l]]
<1>1. avail \in [Stocks -> Int] /\ left \in [Stocks -> Int]
  <2>1. ASSUME NEW s \in Stocks
        PROVE  AllocationsSeen(o)[s] \in Int /\ ReservationsSeen(o)[s] \in Int
    <3>1. Allocated(s) \in Nat
      BY AllocatedType DEF TypeOK, Allocated, Matrix
    <3> QED
      BY <3>1, ReservedType DEF AllocationsSeen, ReservationsSeen
  <2> QED
    BY <2>1 DEF TypeOK
<1>2. /\ \A l \in LinesOf(o) : req[l] \in Nat
      /\ \A l \in LinesOf(o) : req[l] \in Int
      /\ LinesOf(o) \subseteq Lines
  BY BoundsAssumption DEF LinesOf
<1>3. /\ allocation' = new /\ BulkUpdateCounter(new)
      /\ \A l \in LinesOf(o) : Sufficient(l, req[l], avail)
  BY DEF AllocateStocks
<1> HIDE DEF avail, left
<1>4. key \in [Stocks -> Int]
  BY <1>1, SortKeyType
<1> HIDE DEF key
<1>5. stocks \subseteq Stocks
  BY DEF TypeOK
<1>6. ASSUME NEW l \in LinesOf(o)
      PROVE  /\ SumOf(allocation'[l], Stocks) = req[l]
             /\ \A s \in Stocks :
                   StockVariant[s] # LineVariant[l] => allocation'[l][s] = 0
  <2>1. allocation'[l] = Picked(l, req[l], avail, key, point)
    BY <1>2, <1>3
  <2>2. SumOf(Picked(l, req[l], avail, key, point), Stocks) = req[l]
    BY <1>1, <1>2, <1>3, <1>4, <1>5, PickedSum
  <2>3. \A s \in Stocks : StockVariant[s] # LineVariant[l]
                          => Picked(l, req[l], avail, key, point)[s] = 0
    BY <1>1, <1>2, <1>5, PickedFacts
  <2> QED
    BY <2>1, <2>2, <2>3
<1> QED
  BY <1>3, <1>6

LEMMA AllocateStocksLedger ==
    ASSUME OneLinePerVariant, TypeOK, TypeOK', Ledger, NEW o \in Orders, NEW point,
           NEW req \in [LinesOf(o) -> 1 .. MaxQty], AllocateStocks(o, req, point)
    PROVE  Ledger'
<1>1. /\ BulkUpdateCounter(allocation')
      /\ \A l \in Lines \ LinesOf(o) : allocation'[l] = allocation[l]
  BY AllocateStocksGives
<1>2. /\ \A l \in LinesOf(o) : SumOf(allocation'[l], Stocks) = req[l]
      /\ \A l \in LinesOf(o) : \A s \in Stocks :
            StockVariant[s] # LineVariant[l] => allocation'[l][s] = 0
  BY AllocateStocksGives
<1>3. OwnVariant(allocation')
  BY <1>1, <1>2 DEF OwnVariant, Ledger
<1>4. /\ status[o] = "draft"
      /\ status' = [status EXCEPT ![o] = "unconfirmed"]
      /\ ordered' = [l \in Lines |-> IF l \in LinesOf(o) THEN req[l] ELSE ordered[l]]
      /\ shipped' = shipped /\ mismatched' = mismatched /\ emptied' = emptied
  BY DEF AllocateStocks
<1>5. ASSUME NEW l \in Lines
      PROVE  LineInOrder(l)'
  <2>1. LineInOrder(l)
    BY DEF Ledger
  <2>2. CASE l \in LinesOf(o)
    <3>1. LineOrder[l] = o /\ status[LineOrder[l]] = "draft"
      BY <1>4, <2>2 DEF LinesOf
    <3>2. shipped'[l] = 0 /\ ordered'[l] = req[l] /\ req[l] \in Nat
      BY <1>4, <2>1, <2>2, <3>1, BoundsAssumption DEF LineInOrder
    <3>3. SumOf(allocation'[l], Stocks) = req[l]
      BY <1>2, <2>2
    <3>4. SumOf(allocation'[l], Stocks) + shipped'[l] = ordered'[l] /\ ordered'[l] \in Nat
      BY <3>2, <3>3
    <3> QED
      BY <3>2, <3>4 DEF LineInOrder
  <2>3. CASE l \notin LinesOf(o)
    <3>1. LineOrder[l] # o /\ LineOrder[l] \in Orders
      BY <2>3, LinesAssumption DEF LinesOf
    <3>2. /\ status'[LineOrder[l]] = status[LineOrder[l]]
          /\ ordered'[l] = ordered[l] /\ shipped'[l] = shipped[l]
      BY <1>4, <2>3, <3>1 DEF TypeOK
    <3> QED
      BY <1>1, <2>1, <2>3, <3>2, LineKept
  <2> QED
    BY <2>2, <2>3
<1>6. emptied' = {}
  BY <1>4 DEF Ledger
<1> QED
  BY <1>1, <1>3, <1>4, <1>5, <1>6, BulkLedger

\* An edit changes the row of one line, of an order not confirmed yet.
LEMMA EditLedger ==
    ASSUME OneLinePerVariant, TypeOK, TypeOK', Ledger, NEW l \in Lines,
           status[LineOrder[l]] = "unconfirmed", BulkUpdateCounter(allocation'),
           \A k \in Lines \ {l} : /\ allocation'[k] = allocation[k]
                                  /\ ordered'[k] = ordered[k]
                                  /\ shipped'[k] = shipped[k],
           \A s \in Stocks : StockVariant[s] # LineVariant[l] => allocation'[l][s] = 0,
           shipped'[l] = 0, SumOf(allocation'[l], Stocks) <= ordered'[l],
           DeletableStocks = {} => SumOf(allocation'[l], Stocks) = ordered'[l],
           status' = status, mismatched' = mismatched, emptied' = {}
    PROVE  Ledger'
<1>1. OwnVariant(allocation')
  BY DEF OwnVariant, Ledger
<1>2. \A k \in Lines \ LinesOf(LineOrder[l]) : allocation'[k] = allocation[k]
  BY DEF LinesOf
<1>3. \A k \in Lines \ {l} : LineInOrder(k)'
  BY LineKept DEF Ledger
<1>4. LineInOrder(l)'
  <2>1. SumOf(allocation'[l], Stocks) \in Nat
    <3>1. \A s \in Stocks : allocation'[l][s] \in Int
      BY DEF TypeOK
    <3> QED
      BY <3>1, StocksAssumption, SumType
  <2>2. SumOf(allocation'[l], Stocks) + shipped'[l] = SumOf(allocation'[l], Stocks)
    BY <2>1
  <2> QED
    BY <2>2 DEF LineInOrder
<1>5. \A k \in Lines : LineInOrder(k)'
  BY <1>3, <1>4
<1> QED
  BY <1>1, <1>2, <1>5, BulkLedger

\* Rows of a line, as the edits change them.
LEMMA DeallocatedLine ==
    ASSUME TypeOK, Ledger, NEW l \in Lines, NEW n \in Nat
    PROVE  /\ Deallocated(allocation[l], n) \in [Stocks -> Nat]
           /\ SumOf(Deallocated(allocation[l], n), Stocks)
                = Pos(SumOf(allocation[l], Stocks) - n)
           /\ \A s \in Stocks : StockVariant[s] # LineVariant[l]
                                => Deallocated(allocation[l], n)[s] = 0
<1>1. allocation[l] \in [Stocks -> Nat] /\ n \in Int
  BY DEF TypeOK
<1> DEFINE new == Deallocated(allocation[l], n)
<1>2. /\ new \in [Stocks -> Nat]
      /\ \A s \in Stocks : new[s] <= allocation[l][s]
  BY <1>1, DeallocatedFacts
<1>3. SumOf(new, Stocks) = Pos(SumOf(allocation[l], Stocks) - n)
  BY <1>1, DeallocatedSum
<1> HIDE DEF new
<1>4. ASSUME NEW s \in Stocks, StockVariant[s] # LineVariant[l]
      PROVE  new[s] = 0
  <2>1. allocation[l][s] = 0
    BY <1>4 DEF Ledger, OwnVariant
  <2>2. new[s] \in Nat /\ new[s] <= allocation[l][s]
    BY <1>2
  <2> QED
    BY <2>1, <2>2
<1> QED
  BY <1>2, <1>3, <1>4 DEF new

\* change_order_line_quantity that has read the current quantity.
LEMMA ChangeLedger ==
    ASSUME OneLinePerVariant, Undisturbed, TypeOK, TypeOK', Ledger,
           NEW l \in Lines, NEW old \in Nat, NEW new \in Nat,
           ChangeOrderLineQuantity(l, old, new)
    PROVE  Ledger'
<1> DEFINE held == SumOf(allocation[l], Stocks)
<1>1. status[LineOrder[l]] = "unconfirmed" /\ old = ordered[l]
  BY DEF ChangeOrderLineQuantity, EditRead, Undisturbed
<1>2. /\ shipped[l] = 0 /\ held + shipped[l] <= ordered[l]
      /\ DeletableStocks = {} => held + shipped[l] = ordered[l]
  BY <1>1 DEF Ledger, LineInOrder
<1>3. held \in Nat
  <2>1. \A s \in Stocks : allocation[l][s] \in Int
    BY DEF TypeOK
  <2> QED
    BY <2>1, StocksAssumption, SumType
<1>4. /\ shipped' = shipped /\ status' = status /\ mismatched' = mismatched
      /\ ordered' = [ordered EXCEPT ![l] = new]
  BY DEF ChangeOrderLineQuantity
<1>5. /\ ordered'[l] = new /\ shipped'[l] = 0
      /\ \A k \in Lines \ {l} : ordered'[k] = ordered[k] /\ shipped'[k] = shipped[k]
  BY <1>2, <1>4 DEF TypeOK
<1>6. CASE old < new /\ IncreaseAllocations(l, old, new)
  <2> DEFINE others == [allocation EXCEPT ![l] = NoUnits]
             avail == [s \in Stocks |-> quantity[s] - AllocatedIn(others, s)]
             total == (new - old) + held
             picked == Picked(l, total, avail, SortKey(avail), NoPoint)
             matrix == [others EXCEPT ![l] = picked]
  <2>1. /\ Sufficient(l, total, avail) /\ allocation' = matrix
        /\ BulkUpdateCounter(matrix) /\ emptied' = emptied \ ({l} \X Stocks)
    BY <1>6 DEF IncreaseAllocations
  <2>2. others \in Matrix
    BY DEF TypeOK, Matrix, NoUnits
  <2>3. avail \in [Stocks -> Int]
    <3> HIDE DEF others
    <3> QED
      BY <2>2, AllocatedType DEF TypeOK
  <2>4. total \in Nat /\ total \in Int
    <3> HIDE DEF held
    <3> QED
      BY <1>3, <1>6
  <2>5. matrix[l] = picked /\ \A k \in Lines \ {l} : matrix[k] = allocation[k]
    BY DEF TypeOK
  <2> HIDE DEF avail, matrix
  <2>6. SortKey(avail) \in [Stocks -> Int]
    BY <2>3, SortKeyType
  <2>7. stocks \subseteq Stocks
    BY DEF TypeOK
  <2> HIDE DEF total
  <2>8. SumOf(picked, Stocks) = total
    BY <2>1, <2>3, <2>4, <2>6, <2>7, PickedSum
  <2>9. \A s \in Stocks : StockVariant[s] # LineVariant[l] => picked[s] = 0
    BY <2>3, <2>4, <2>7, PickedFacts
  <2> HIDE DEF picked
  <2>10. /\ SumOf(allocation'[l], Stocks) = total
         /\ \A s \in Stocks : StockVariant[s] # LineVariant[l] => allocation'[l][s] = 0
         /\ \A k \in Lines \ {l} : allocation'[k] = allocation[k]
         /\ BulkUpdateCounter(allocation')
    BY <2>1, <2>5, <2>8, <2>9
  <2>11. /\ total <= ordered'[l]
         /\ DeletableStocks = {} => total = ordered'[l]
    <3>1. total = (new - old) + held
      BY DEF total
    <3> HIDE DEF held
    <3> QED
      BY <1>1, <1>2, <1>3, <1>5, <3>1
  <2>12. emptied' = {}
    BY <2>1 DEF Ledger
  <2> QED
    BY <1>1, <1>4, <1>5, <2>10, <2>11, <2>12, EditLedger
<1>7. CASE old > new /\ DecreaseAllocations(l, old, new)
  <2> DEFINE n == old - new
             row == Deallocated(allocation[l], n)
  <2>1. n \in Nat
    BY <1>7
  <2>2. /\ allocation' = [allocation EXCEPT ![l] = row] /\ emptied' = emptied
        /\ BulkUpdateCounter(allocation')
    BY <1>7 DEF DecreaseAllocations
  <2> HIDE DEF n
  <2>3. /\ SumOf(row, Stocks) = Pos(held - n)
        /\ \A s \in Stocks : StockVariant[s] # LineVariant[l] => row[s] = 0
    BY <2>1, DeallocatedLine
  <2> HIDE DEF row
  <2>4. allocation'[l] = row /\ \A k \in Lines \ {l} : allocation'[k] = allocation[k]
    BY <2>2 DEF TypeOK
  <2>5. /\ Pos(held - n) <= ordered'[l]
        /\ DeletableStocks = {} => Pos(held - n) = ordered'[l]
    <3> HIDE DEF held
    <3> QED
      BY <1>1, <1>2, <1>3, <1>5, <1>7 DEF Pos, n
  <2>6. emptied' = {}
    BY <2>2 DEF Ledger
  <2> QED
    BY <1>1, <1>4, <1>5, <2>2, <2>3, <2>4, <2>5, <2>6, EditLedger
<1> QED
  BY <1>6, <1>7 DEF ChangeOrderLineQuantity

\* delete_order_line that has read the current quantity frees all the line has.
LEMMA DeleteLineLedger ==
    ASSUME OneLinePerVariant, Undisturbed, TypeOK, TypeOK', Ledger,
           NEW l \in Lines, NEW old \in Nat, DeleteOrderLine(l, old)
    PROVE  Ledger'
<1> DEFINE held == SumOf(allocation[l], Stocks)
<1>1. status[LineOrder[l]] = "unconfirmed" /\ old = ordered[l]
  BY DEF DeleteOrderLine, EditRead, Undisturbed
<1>2. shipped[l] = 0 /\ held + shipped[l] <= ordered[l]
  BY <1>1 DEF Ledger, LineInOrder
<1>3. held \in Nat /\ allocation[l] \in [Stocks -> Nat]
  <2>1. \A s \in Stocks : allocation[l][s] \in Int
    BY DEF TypeOK
  <2> QED
    BY <2>1, StocksAssumption, SumType DEF TypeOK
<1>4. held <= old
  <2> HIDE DEF held
  <2> QED
    BY <1>1, <1>2, <1>3
<1>5. Deallocated(allocation[l], old) = NoUnits
  BY <1>3, <1>4, DeallocatedSum
<1>6. /\ allocation' = [allocation EXCEPT ![l] = NoUnits]
      /\ BulkUpdateCounter([allocation EXCEPT ![l] = Deallocated(allocation[l], old)])
      /\ emptied' = emptied \ ({l} \X Stocks)
      /\ ordered' = [ordered EXCEPT ![l] = 0] /\ shipped' = [shipped EXCEPT ![l] = 0]
      /\ status' = status /\ mismatched' = mismatched
  BY DEF DeleteOrderLine
<1>7. BulkUpdateCounter(allocation')
  BY <1>5, <1>6
<1>8. /\ allocation'[l] = NoUnits /\ ordered'[l] = 0 /\ shipped'[l] = 0
      /\ \A k \in Lines \ {l} : /\ allocation'[k] = allocation[k]
                                /\ ordered'[k] = ordered[k]
                                /\ shipped'[k] = shipped[k]
  BY <1>6 DEF TypeOK
<1>9. \A s \in Stocks : allocation'[l][s] = 0
  BY <1>8 DEF NoUnits
<1>10. SumOf(allocation'[l], Stocks) = ordered'[l] /\ SumOf(allocation'[l], Stocks) <= ordered'[l]
  <2>1. SumOf(allocation'[l], Stocks) = 0
    BY <1>9, SumZero
  <2> QED
    BY <1>8, <2>1
<1>11. emptied' = {}
  BY <1>6 DEF Ledger
<1> QED
  BY <1>1, <1>6, <1>7, <1>8, <1>9, <1>10, <1>11, EditLedger

\* decrease_stock: the line's allocations go down by what is fulfilled.
LEMMA DecreaseStockLedger ==
    ASSUME OneLinePerVariant, TypeOK, TypeOK', Ledger,
           NEW o \in Orders, NEW w, NEW exceeded,
           NEW req \in [LinesOf(o) -> 0 .. MaxQty],
           DecreaseStock(o, w, req, exceeded)
    PROVE  Ledger'
<1>1. allocation' = Fulfilled(o, req) /\ BulkUpdateCounter(Fulfilled(o, req))
  BY DecreaseStockParts
<1>2. /\ status[o] # "draft" /\ ordered' = ordered
      /\ \A l \in LinesOf(o) : req[l] > 0 => req[l] <= ordered[l] - shipped[l]
      /\ shipped' = [l \in Lines |-> IF l \in LinesOf(o)
                                     THEN shipped[l] + req[l] ELSE shipped[l]]
      /\ status' = [status EXCEPT ![o] = IF @ = "closed" THEN "closed" ELSE "open"]
      /\ mismatched' = mismatched /\ emptied' = emptied
  BY DEF DecreaseStock, taskVars
<1>3. \A l \in Lines \ LinesOf(o) : allocation'[l] = allocation[l]
  BY <1>1 DEF Fulfilled
<1>4. ASSUME NEW l \in LinesOf(o)
      PROVE  /\ req[l] \in Nat /\ l \in Lines
             /\ SumOf(allocation'[l], Stocks) = Pos(SumOf(allocation[l], Stocks) - req[l])
             /\ \A s \in Stocks : StockVariant[s] # LineVariant[l] => allocation'[l][s] = 0
  <2>1. req[l] \in Nat /\ l \in Lines
    BY BoundsAssumption DEF LinesOf
  <2>2. CASE req[l] > 0
    <3>1. allocation'[l] = Deallocated(allocation[l], req[l])
      BY <1>1, <2>1, <2>2 DEF Fulfilled
    <3> QED
      BY <2>1, <3>1, DeallocatedLine
  <2>3. CASE req[l] = 0
    <3>1. allocation'[l] = allocation[l]
      BY <1>1, <2>1, <2>3 DEF Fulfilled
    <3>2. \A s \in Stocks : allocation[l][s] \in Int
      BY <2>1 DEF TypeOK
    <3>3. SumOf(allocation[l], Stocks) \in Nat
      BY <3>2, StocksAssumption, SumType
    <3>4. \A s \in Stocks : StockVariant[s] # LineVariant[l] => allocation'[l][s] = 0
      BY <2>1, <3>1 DEF Ledger, OwnVariant
    <3> QED
      BY <2>1, <2>3, <3>1, <3>3, <3>4 DEF Pos
  <2> QED
    BY <2>1, <2>2, <2>3
<1>5. OwnVariant(allocation')
  BY <1>3, <1>4 DEF OwnVariant, Ledger
<1>6. ASSUME NEW l \in Lines
      PROVE  LineInOrder(l)'
  <2>1. LineInOrder(l)
    BY DEF Ledger
  <2>2. CASE l \in LinesOf(o)
    <3> DEFINE held == SumOf(allocation[l], Stocks)
               rest == SumOf(allocation'[l], Stocks)
    <3>1. LineOrder[l] = o /\ status[o] \in OrderStatuses
      BY <2>2 DEF LinesOf, TypeOK
    <3>2. /\ status'[LineOrder[l]] \in {"open", "closed"}
          /\ status'[LineOrder[l]] = "open" => status[o] \in {"unconfirmed", "open"}
      BY <1>2, <3>1 DEF TypeOK, OrderStatuses
    <3>3. /\ rest = Pos(held - req[l]) /\ req[l] \in Nat
      BY <1>4, <2>2
    <3>4. /\ held + shipped[l] <= ordered[l]
          /\ DeletableStocks = {} /\ status[o] \in {"unconfirmed", "open"}
             => held + shipped[l] = ordered[l]
      BY <2>1, <3>1 DEF LineInOrder
    <3>5. held \in Nat
      <4>1. \A s \in Stocks : allocation[l][s] \in Int
        BY DEF TypeOK
      <4> QED
        BY <4>1, StocksAssumption, SumType
    <3>6. /\ shipped[l] \in Nat /\ ordered[l] \in Nat /\ ordered'[l] = ordered[l]
          /\ shipped'[l] = shipped[l] + req[l]
          /\ req[l] > 0 => req[l] <= ordered[l] - shipped[l]
      BY <1>2, <2>2 DEF TypeOK
    <3> HIDE DEF held, rest
    <3>7. rest + shipped'[l] <= ordered'[l]
      BY <3>3, <3>4, <3>5, <3>6 DEF Pos
    <3>8. ASSUME DeletableStocks = {}, status'[LineOrder[l]] = "open"
          PROVE  rest + shipped'[l] = ordered'[l]
      <4>1. held + shipped[l] = ordered[l]
        BY <3>2, <3>4, <3>8
      <4> QED
        BY <3>3, <3>5, <3>6, <4>1 DEF Pos
    <3> QED
      BY <3>2, <3>7, <3>8 DEF LineInOrder, rest
  <2>3. CASE l \notin LinesOf(o)
    <3>1. LineOrder[l] # o /\ LineOrder[l] \in Orders
      BY <2>3, LinesAssumption DEF LinesOf
    <3>2. /\ status'[LineOrder[l]] = status[LineOrder[l]]
          /\ ordered'[l] = ordered[l] /\ shipped'[l] = shipped[l]
      BY <1>2, <2>3, <3>1 DEF TypeOK
    <3> QED
      BY <1>3, <2>1, <2>3, <3>2, LineKept
  <2> QED
    BY <2>2, <2>3
<1>7. BulkUpdateCounter(allocation') /\ emptied' = {}
  BY <1>1, <1>2 DEF Ledger
<1> QED
  BY <1>2, <1>3, <1>5, <1>6, <1>7, BulkLedger

\* A cancelled fulfillment that is restocked moves a row, its counter and the
\* fulfilled quantity alike.
LEMMA IncreaseStockLedger ==
    ASSUME TypeOK, TypeOK', Ledger, NEW l \in Lines, NEW s \in Stocks,
           NEW n \in 1 .. MaxQty, IncreaseStock(l, s, n)
    PROVE  Ledger'
<1>1. n \in Nat /\ n >= 1
  BY BoundsAssumption
<1>2. /\ StockVariant[s] = LineVariant[l] /\ n <= shipped[l]
      /\ allocation' = [allocation EXCEPT ![l][s] = @ + n]
      /\ quantity_allocated' = [quantity_allocated EXCEPT ![s] = @ + n]
      /\ shipped' = [shipped EXCEPT ![l] = @ - n]
      /\ status' = status /\ ordered' = ordered
      /\ mismatched' = mismatched /\ emptied' = emptied
  BY DEF IncreaseStock, taskVars
<1>3. /\ allocation \in Matrix /\ allocation' \in Matrix
  BY DEF TypeOK, Matrix
<1>4. /\ allocation'[l][s] = allocation[l][s] + n
      /\ \A t \in Stocks \ {s} : allocation'[l][t] = allocation[l][t]
      /\ \A k \in Lines \ {l} : allocation'[k] = allocation[k]
      /\ allocation[l][s] \in Nat
  BY <1>2 DEF TypeOK
<1>5. OwnVariant(allocation')
  BY <1>2, <1>4 DEF OwnVariant, Ledger
<1>6. ASSUME NEW t \in Stocks
      PROVE  quantity_allocated'[t] = AllocatedIn(allocation', t)
  <2>1. AllocatedIn(allocation', t)
          = AllocatedIn(allocation, t) + (allocation'[l][t] - allocation[l][t])
    BY <1>3, <1>4, AllocatedChange
  <2>2. AllocatedIn(allocation, t) \in Nat /\ allocation[l][t] \in Nat
    BY <1>3, AllocatedType DEF Matrix
  <2>3. quantity_allocated[t] = AllocatedIn(allocation, t)
    BY DEF Ledger
  <2>4. CASE t = s
    <3>1. quantity_allocated'[t] = quantity_allocated[t] + n
      BY <1>2, <2>4 DEF TypeOK
    <3> QED
      BY <1>1, <1>4, <2>1, <2>2, <2>3, <2>4, <3>1
  <2>5. CASE t # s
    <3>1. quantity_allocated'[t] = quantity_allocated[t] /\ allocation'[l][t] = allocation[l][t]
      BY <1>2, <1>4, <2>5 DEF TypeOK
    <3> QED
      BY <2>1, <2>2, <2>3, <3>1
  <2> QED
    BY <2>4, <2>5
<1>7. ASSUME NEW k \in Lines
      PROVE  LineInOrder(k)'
  <2>1. LineInOrder(k)
    BY DEF Ledger
  <2>2. CASE k = l
    <3> DEFINE held == SumOf(allocation[l], Stocks)
               rest == SumOf(allocation'[l], Stocks)
    <3>1. /\ \A t \in Stocks : allocation[l][t] \in Nat
          /\ \A t \in Stocks : allocation'[l][t] \in Nat
          /\ IsFiniteSet(Stocks)
      BY <1>3, StocksAssumption DEF Matrix
    <3>2. rest = held + (allocation'[l][s] - allocation[l][s])
      BY <1>4, <3>1, SumChange
    <3>3. held \in Nat
      <4>1. \A t \in Stocks : allocation[l][t] \in Int
        BY <3>1
      <4> QED
        BY <3>1, <4>1, SumType
    <3>4. /\ shipped'[l] = shipped[l] - n /\ shipped[l] \in Nat /\ ordered[l] \in Nat
          /\ ordered'[l] = ordered[l] /\ status'[LineOrder[l]] = status[LineOrder[l]]
      BY <1>2 DEF TypeOK
    <3>5. /\ held + shipped[l] <= ordered[l]
          /\ DeletableStocks = {} /\ status[LineOrder[l]] \in {"unconfirmed", "open"}
             => held + shipped[l] = ordered[l]
          /\ status[LineOrder[l]] \notin {"draft", "unconfirmed"}
      BY <1>1, <1>2, <2>1, <2>2 DEF LineInOrder
    <3> HIDE DEF held, rest
    <3>6. rest + shipped'[l] = held + shipped[l]
      BY <1>1, <1>4, <3>2, <3>3, <3>4
    <3> QED
      BY <2>2, <3>4, <3>5, <3>6 DEF LineInOrder, rest
  <2>3. CASE k # l
    <3>1. /\ shipped'[k] = shipped[k] /\ ordered'[k] = ordered[k]
          /\ status'[LineOrder[k]] = status[LineOrder[k]]
          /\ allocation'[k] = allocation[k]
      BY <1>2, <1>4, <2>3 DEF TypeOK
    <3> QED
      BY <2>1, <3>1, LineKept
  <2> QED
    BY <2>2, <2>3
<1>8. (\A t \in Stocks : mismatched'[t] = NotRead) /\ emptied' = {}
  BY <1>2 DEF Ledger
<1> QED
  BY <1>5, <1>6, <1>7, <1>8 DEF Ledger, OwnVariant, AllocatedIn

\* An order that is cancelled or expires gives everything back.
LEMMA CloseLedger ==
    ASSUME OneLinePerVariant, TypeOK, TypeOK', Ledger, NEW o \in Orders,
           DeallocateStockForOrders({o})
    PROVE  Ledger'
<1>1. /\ allocation' = [l \in Lines |-> IF LineOrder[l] \in {o}
                                        THEN NoUnits ELSE allocation[l]]
      /\ BulkUpdateCounter(allocation')
      /\ status' = [p \in Orders |-> IF p \in {o} THEN "closed" ELSE status[p]]
      /\ ordered' = ordered /\ shipped' = shipped
      /\ mismatched' = mismatched /\ emptied' = emptied
  BY DEF DeallocateStockForOrders, taskVars
<1>2. \A l \in Lines \ LinesOf(o) : allocation'[l] = allocation[l]
  BY <1>1 DEF LinesOf
<1>3. \A l \in LinesOf(o) : \A s \in Stocks : allocation'[l][s] = 0
  BY <1>1 DEF LinesOf, NoUnits
<1>4. OwnVariant(allocation')
  BY <1>2, <1>3 DEF OwnVariant, Ledger
<1>5. ASSUME NEW l \in Lines
      PROVE  LineInOrder(l)'
  <2>1. LineInOrder(l)
    BY DEF Ledger
  <2>2. CASE l \in LinesOf(o)
    <3>1. status'[LineOrder[l]] = "closed"
      BY <1>1, <2>2 DEF LinesOf
    <3>2. SumOf(allocation'[l], Stocks) = 0
      BY <1>3, <2>2, SumZero
    <3>3. SumOf(allocation[l], Stocks) \in Nat
      <4>1. \A s \in Stocks : allocation[l][s] \in Int
        BY DEF TypeOK
      <4> QED
        BY <4>1, StocksAssumption, SumType
    <3>4. SumOf(allocation[l], Stocks) + shipped[l] <= ordered[l]
      BY <2>1 DEF LineInOrder
    <3>5. 0 + shipped'[l] <= ordered'[l]
      <4>1. /\ shipped[l] \in Nat /\ ordered[l] \in Nat
            /\ shipped'[l] = shipped[l] /\ ordered'[l] = ordered[l]
        BY <1>1 DEF TypeOK
      <4> QED
        BY <3>3, <3>4, <4>1
    <3> QED
      BY <3>1, <3>2, <3>5 DEF LineInOrder
  <2>3. CASE l \notin LinesOf(o)
    <3>1. LineOrder[l] # o /\ LineOrder[l] \in Orders
      BY <2>3, LinesAssumption DEF LinesOf
    <3>2. /\ status'[LineOrder[l]] = status[LineOrder[l]]
          /\ ordered'[l] = ordered[l] /\ shipped'[l] = shipped[l]
      BY <1>1, <3>1
    <3> QED
      BY <1>2, <2>1, <2>3, <3>2, LineKept
  <2> QED
    BY <2>2, <2>3
<1>6. emptied' = {}
  BY <1>1 DEF Ledger
<1> QED
  BY <1>1, <1>2, <1>4, <1>5, <1>6, BulkLedger

\* A step that does not touch allocations and order lines.
LEMMA SameLedger ==
    ASSUME Ledger, UNCHANGED <<allocation, quantity_allocated, ordered, shipped,
                               mismatched, emptied>>,
           \A o \in Orders :
              \/ status'[o] = status[o]
              \/ status[o] = "unconfirmed" /\ status'[o] = "open"
    PROVE  Ledger'
<1>1. ASSUME NEW l \in Lines
      PROVE  LineInOrder(l)'
  <2>1. LineInOrder(l) /\ LineOrder[l] \in Orders
    BY LinesAssumption DEF Ledger
  <2>2. CASE status'[LineOrder[l]] = status[LineOrder[l]]
    BY <2>1, <2>2, LineKept
  <2>3. CASE status[LineOrder[l]] = "unconfirmed" /\ status'[LineOrder[l]] = "open"
    BY <2>1, <2>3 DEF LineInOrder
  <2> QED
    BY <2>1, <2>2, <2>3
<1> QED
  BY <1>1 DEF Ledger, OwnVariant, AllocatedIn

\* The allocations of a deleted stock go with it and with its counter.
LEMMA DeleteStockLedger ==
    ASSUME TypeOK, TypeOK', Ledger, NEW s \in DeletableStocks, DeleteStock(s)
    PROVE  Ledger'
<1>1. /\ quantity_allocated' = [quantity_allocated EXCEPT ![s] = 0]
      /\ allocation' = [l \in Lines |-> [allocation[l] EXCEPT ![s] = 0]]
      /\ mismatched' = [mismatched EXCEPT ![s] = NotRead]
      /\ emptied' = emptied \ (Lines \X {s})
      /\ status' = status /\ ordered' = ordered /\ shipped' = shipped
      /\ s \in Stocks
  BY BoundsAssumption DEF DeleteStock, orderVars
<1>2. ASSUME NEW l \in Lines, NEW t \in Stocks
      PROVE  /\ allocation'[l][t] = IF t = s THEN 0 ELSE allocation[l][t]
             /\ allocation[l][t] \in Nat
  BY <1>1 DEF TypeOK
<1>3. OwnVariant(allocation')
  BY <1>2 DEF OwnVariant, Ledger
<1>4. ASSUME NEW t \in Stocks
      PROVE  quantity_allocated'[t] = AllocatedIn(allocation', t)
  <2> DEFINE f == [l \in Lines |-> allocation[l][t]]
             g == [l \in Lines |-> allocation'[l][t]]
  <2>1. CASE t = s
    <3>1. \A l \in Lines : g[l] = 0
      BY <1>2, <2>1
    <3> HIDE DEF g
    <3>2. SumOf(g, Lines) = 0
      BY <3>1, SumZero
    <3>3. quantity_allocated'[t] = 0
      BY <1>1, <2>1 DEF TypeOK
    <3> QED
      BY <3>2, <3>3 DEF AllocatedIn, g
  <2>2. CASE t # s
    <3>1. \A l \in Lines : g[l] = f[l]
      BY <1>2, <2>2
    <3> HIDE DEF f, g
    <3>2. SumOf(g, Lines) = SumOf(f, Lines)
      BY <3>1, SumSame
    <3>3. quantity_allocated'[t] = quantity_allocated[t]
      BY <1>1, <2>2 DEF TypeOK
    <3> QED
      BY <3>2, <3>3 DEF Ledger, AllocatedIn, f, g
  <2> QED
    BY <2>1, <2>2
<1>5. ASSUME NEW l \in Lines
      PROVE  LineInOrder(l)'
  <2> DEFINE held == SumOf(allocation[l], Stocks)
             rest == SumOf(allocation'[l], Stocks)
  <2>1. /\ \A t \in Stocks : allocation[l][t] \in Int
        /\ \A t \in Stocks : allocation'[l][t] \in Int
        /\ \A t \in Stocks : allocation'[l][t] <= allocation[l][t]
        /\ IsFiniteSet(Stocks)
    BY <1>2, StocksAssumption
  <2>2. rest <= held
    BY <2>1, SumMonotone
  <2>3. held \in Nat /\ rest \in Nat
    BY <2>1, SumType
  <2>4. /\ status[LineOrder[l]] \in {"draft", "unconfirmed"} => shipped[l] = 0
        /\ held + shipped[l] <= ordered[l]
        /\ DeletableStocks # {} /\ shipped[l] \in Nat /\ ordered[l] \in Nat
    BY DEF Ledger, LineInOrder, TypeOK
  <2> HIDE DEF held, rest
  <2>5. rest + shipped[l] <= ordered[l]
    BY <2>2, <2>3, <2>4
  <2> QED
    BY <1>1, <2>4, <2>5 DEF LineInOrder, rest
<1>6. (\A t \in Stocks : mismatched'[t] = NotRead) /\ emptied' = {}
  BY <1>1 DEF Ledger, TypeOK
<1> QED
  BY <1>3, <1>4, <1>5, <1>6 DEF Ledger, OwnVariant, AllocatedIn

\* Orders that expire one at a time.
LEMMA ExpireLedger ==
    ASSUME OneLinePerVariant, Undisturbed, TypeOK, TypeOK', Ledger,
           NEW batch \in SUBSET Orders, ExpireOrders(batch)
    PROVE  Ledger'
<1>1. IsFiniteSet(batch)
  BY LinesAssumption, FS_Subset
<1>2. PICK o \in batch : TRUE
  BY DEF ExpireOrders
<1>3. Cardinality(batch) \in Nat /\ Cardinality(batch) <= 1
  BY <1>1, FS_CardinalityType, BoundsAssumption DEF ExpireOrders, Undisturbed
<1>4. Cardinality(batch \ {o}) = Cardinality(batch) - 1 /\ IsFiniteSet(batch \ {o})
  BY <1>1, <1>2, FS_RemoveElement
<1>5. Cardinality(batch \ {o}) \in Nat
  BY <1>4, FS_CardinalityType
<1>6. Cardinality(batch \ {o}) = 0
  BY <1>3, <1>4, <1>5
<1>7. batch \ {o} = {}
  BY <1>4, <1>6, FS_EmptySet
<1>8. batch = {o} /\ o \in Orders
  BY <1>2, <1>7
<1> QED
  BY <1>8, CloseLedger DEF ExpireOrders

\* Every step keeps the ledger.
LEMMA NextLedger ==
    ASSUME OneLinePerVariant, Undisturbed, TypeOK, TypeOK', Ledger, [Next]_vars
    PROVE  Ledger'
<1>1. CASE OrderNext
  <2>1. ASSUME NEW o \in Orders, NEW point \in CollectionPoints,
               NEW req \in [LinesOf(o) -> 1 .. MaxQty], AllocateStocks(o, req, point)
        PROVE  Ledger'
    BY <2>1, AllocateStocksLedger
  <2>2. ASSUME NEW o \in Orders, ConfirmOrder(o)
        PROVE  Ledger'
    <3>1. \A p \in Orders : \/ status'[p] = status[p]
                            \/ status[p] = "unconfirmed" /\ status'[p] = "open"
      BY <2>2 DEF ConfirmOrder, TypeOK
    <3>2. UNCHANGED <<allocation, quantity_allocated, ordered, shipped, mismatched, emptied>>
      BY <2>2 DEF ConfirmOrder, taskVars
    <3> QED
      BY <3>1, <3>2, SameLedger
  <2>3. ASSUME NEW l \in Lines, NEW old \in 0 .. MaxQty, NEW new \in 1 .. MaxQty,
               ChangeOrderLineQuantity(l, old, new)
        PROVE  Ledger'
    <3>1. old \in Nat /\ new \in Nat
      BY BoundsAssumption
    <3> QED
      BY <2>3, <3>1, ChangeLedger
  <2>4. ASSUME NEW l \in Lines, NEW old \in 0 .. MaxQty, DeleteOrderLine(l, old)
        PROVE  Ledger'
    <3>1. old \in Nat
      BY BoundsAssumption
    <3> QED
      BY <2>4, <3>1, DeleteLineLedger
  <2>5. ASSUME NEW o \in Orders, NEW w \in Warehouses, NEW exceeded \in AllowExceeded,
               NEW req \in [LinesOf(o) -> 0 .. MaxQty], DecreaseStock(o, w, req, exceeded)
        PROVE  Ledger'
    BY <2>5, DecreaseStockLedger
  <2>6. ASSUME NEW l \in Lines, NEW s \in Stocks, NEW n \in 1 .. MaxQty,
               IncreaseStock(l, s, n)
        PROVE  Ledger'
    BY <2>6, IncreaseStockLedger
  <2>7. ASSUME NEW o \in Orders, CancelOrder(o)
        PROVE  Ledger'
    BY <2>7, CloseLedger DEF CancelOrder
  <2>8. ASSUME NEW batch \in SUBSET Orders, ExpireOrders(batch)
        PROVE  Ledger'
    BY <2>8, ExpireLedger
  <2> QED
    BY <1>1, <2>1, <2>2, <2>3, <2>4, <2>5, <2>6, <2>7, <2>8 DEF OrderNext
<1>2. CASE ReservationNext
  <2>1. UNCHANGED <<allocation, quantity_allocated, ordered, shipped, mismatched, emptied>>
    BY <1>2, ReservationStepFrame DEF orderVars, taskVars
  <2>2. status' = status
    BY <1>2, ReservationStepFrame DEF orderVars
  <2> QED
    BY <2>1, <2>2, SameLedger
<1>3. CASE StaffNext
  <2>1. ASSUME NEW s \in Stocks, NEW q \in StaffQuantities, UpdateStock(s, q)
        PROVE  Ledger'
    <3>1. UNCHANGED <<allocation, quantity_allocated, ordered, shipped, mismatched, emptied>>
      BY <2>1 DEF UpdateStock, orderVars, taskVars
    <3>2. status' = status
      BY <2>1 DEF UpdateStock, orderVars
    <3> QED
      BY <3>1, <3>2, SameLedger
  <2>2. ASSUME NEW s \in DeletableStocks, DeleteStock(s)
        PROVE  Ledger'
    BY <2>2, DeleteStockLedger
  <2> QED
    BY <1>3, <2>1, <2>2 DEF StaffNext
<1>4. ~TaskNext
  <2>1. ~ReadMismatched
    BY DEF ReadMismatched, Ledger, Allocated, TypeOK
  <2>2. ~WriteMismatched
    BY DEF WriteMismatched, Ledger
  <2>3. ~ReadEmptyAllocations
    BY DEF ReadEmptyAllocations, Undisturbed
  <2>4. ~DeleteAllocations
    BY DEF DeleteAllocations, Ledger
  <2> QED
    BY <2>1, <2>2, <2>3, <2>4 DEF TaskNext
<1>5. CASE UNCHANGED vars
  <2>1. UNCHANGED <<allocation, quantity_allocated, ordered, shipped, mismatched, emptied>>
    BY <1>5 DEF vars
  <2>2. status' = status
    BY <1>5 DEF vars
  <2> QED
    BY <2>1, <2>2, SameLedger
<1> QED
  BY <1>1, <1>2, <1>3, <1>4, <1>5 DEF Next

LEMMA LedgerHolds ==
    ASSUME OneLinePerVariant, Undisturbed
    PROVE  Spec => []Ledger
<1>1. TypeOK /\ TypeOK' /\ Ledger /\ [Next]_vars => Ledger'
  BY NextLedger
<1> QED
  BY <1>1, InitLedger, TypeCorrect, PTL DEF Spec

(***************************************************************************)
(* Stock.quantity_allocated is the sum of the allocations in the stock at  *)
(* all times, through allocation, edits, fulfillment, restocking,          *)
(* cancellation, expiry and deletion of stocks, when no call of            *)
(* management.py changes two allocations in one stock and no request works *)
(* from a stale read.                                                      *)
(***************************************************************************)
THEOREM CountersAgree ==
    ASSUME OneLinePerVariant, Undisturbed
    PROVE  Spec => []CounterInSync
<1>1. TypeOK /\ Ledger => CounterInSync
  BY DEF TypeOK, Ledger, CounterInSync, Allocated
<1> QED
  BY <1>1, TypeCorrect, LedgerHolds, PTL

(***************************************************************************)
(* A line of a live order always has exactly its unfulfilled quantity      *)
(* allocated: the loops of _create_allocations and deallocate_stock give   *)
(* and take in all what the line asks for, in whatever stocks the units    *)
(* are.  Deleting a stock takes the allocations in it away for good, so    *)
(* none is deleted here.                                                   *)
(***************************************************************************)
THEOREM LinesStayCovered ==
    ASSUME OneLinePerVariant, Undisturbed, DeletableStocks = {}
    PROVE  Spec => []LineCovered
<1>1. ASSUME TypeOK, Ledger
      PROVE  LineCovered
  <2> SUFFICES ASSUME NEW l \in Lines, status[LineOrder[l]] \in {"unconfirmed", "open"}
               PROVE  SumOf(allocation[l], Stocks) = ordered[l] - shipped[l]
    BY DEF LineCovered
  <2> DEFINE held == SumOf(allocation[l], Stocks)
  <2>1. held + shipped[l] = ordered[l]
    BY <1>1 DEF Ledger, LineInOrder
  <2>2. \A s \in Stocks : allocation[l][s] \in Int
    BY <1>1 DEF TypeOK
  <2>3. held \in Nat /\ shipped[l] \in Nat /\ ordered[l] \in Nat
    BY <1>1, <2>2, StocksAssumption, SumType DEF TypeOK
  <2> HIDE DEF held
  <2>4. held = ordered[l] - shipped[l]
    BY <2>1, <2>3
  <2> QED
    BY <2>4 DEF held
<1> QED
  BY <1>1, TypeCorrect, LedgerHolds, PTL

-----------------------------------------------------------------------------
(* Reservations.                                                           *)

\* What the step must do for stock s.
Booked(s) ==
    Reserved(s)' > Reserved(s) /\ ~Revives(s) /\ ~ReservesUnchecked
    => Reserved(s)' + Allocated(s)' <= quantity'[s]

\* The lines that have something reserved in stock s, with rows as expired.
Holding(s, gone) == {l \in Lines \ {} : <<l, s>> \notin gone}

\* What is reserved does not grow when lines only lose units or expire.
LEMMA ReservedShrinks ==
    ASSUME TypeOK, TypeOK', NEW s \in Stocks,
           \A l \in Lines : <<l, s>> \notin expired' =>
              \/ reservation'[l][s] = 0
              \/ <<l, s>> \notin expired /\ reservation'[l][s] <= reservation[l][s]
    PROVE  Reserved(s)' <= Reserved(s)
<1> DEFINE f == [l \in Lines |-> reservation[l][s]]
           g == [l \in Lines |-> reservation'[l][s]]
           S == Holding(s, expired)
           R == Holding(s, expired')
           T == R \cap S
<1>1. /\ IsFiniteSet(S) /\ IsFiniteSet(R) /\ IsFiniteSet(T)
      /\ T \subseteq R /\ T \subseteq S
  <2>1. S \subseteq Lines /\ R \subseteq Lines
    BY DEF Holding
  <2> HIDE DEF S, R
  <2>2. T \subseteq R /\ T \subseteq S /\ T \subseteq Lines
    BY <2>1
  <2> HIDE DEF T
  <2> QED
    BY <2>1, <2>2, LinesAssumption, FS_Subset
<1>2. /\ \A l \in S : f[l] \in Int
      /\ \A l \in R : g[l] \in Int
      /\ \A l \in T : f[l] \in Int
      /\ \A l \in T : g[l] \in Int
  <2>1. \A l \in Lines : f[l] \in Int
    BY DEF TypeOK
  <2>2. \A l \in Lines : g[l] \in Int
    BY DEF TypeOK
  <2>3. S \subseteq Lines /\ R \subseteq Lines
    BY DEF Holding
  <2> QED
    BY <2>1, <2>2, <2>3
<1>3. \A l \in R \ T : g[l] <= 0
  BY DEF Holding
<1>4. \A l \in T : g[l] <= f[l]
  <2>1. ASSUME NEW l \in T
        PROVE  g[l] <= f[l]
    <3>1. l \in Lines /\ <<l, s>> \notin expired'
      BY DEF Holding
    <3>2. reservation[l][s] \in Nat
      BY <3>1 DEF TypeOK
    <3> QED
      BY <3>1, <3>2
  <2> QED
    BY <2>1
<1>5. Reserved(s) = SumOf(f, S) /\ Reserved(s)' = SumOf(g, R)
  BY DEF Reserved, ReservedByOthers, Holding
<1> HIDE DEF f, g, S, R, T
<1>6. SumOf(g, R) = SumOf(g, T)
  BY <1>1, <1>2, <1>3, SumWithin
<1>7. SumOf(g, T) <= SumOf(f, T)
  BY <1>1, <1>2, <1>4, SumMonotone
<1>8. SumOf(f, T) <= SumOf(f, S)
  BY <1>1, <1>2, SumSubset
<1>9. SumOf(f, T) \in Nat /\ SumOf(f, S) \in Nat /\ SumOf(g, T) \in Nat
  BY <1>1, <1>2, SumType
<1> QED
  BY <1>5, <1>6, <1>7, <1>8, <1>9

(***************************************************************************)
(* The edited lines take from a stock no more than is free and unreserved, *)
(* if the new reserved_until of the other lines revives nothing in it.     *)
(***************************************************************************)
LEMMA AddVariantsBooks ==
    ASSUME OneLinePerVariant, TypeOK, TypeOK', NEW o \in CheckoutOrders,
           NEW reserving \in BOOLEAN, NEW own \in SUBSET LinesOf(o),
           NEW req \in [own -> 0 .. MaxQty], AddVariantsToCheckout(o, req, reserving),
           NEW s \in Stocks, ~Revives(s)
    PROVE  \/ Reserved(s)' <= Reserved(s)
           \/ Reserved(s)' + Allocated(s)' <= quantity'[s]
<1> DEFINE others == ReservedByOthers(s, own)
           avail == Reservable(own)
           key == SortKey([t \in Stocks |-> Free(t)])
<1>0. DOMAIN req = own
  OBVIOUS
<1>1. /\ reservation' = [l \in Lines |->
                           IF l \notin own THEN reservation[l]
                           ELSE IF req[l] = 0 THEN NoUnits
                           ELSE Picked(l, req[l], avail, key, NoPoint)]
      /\ quantity' = quantity /\ allocation' = allocation
  BY <1>0 DEF AddVariantsToCheckout, ReserveStocks, stockVars
<1>2. \A t \in Stocks : Allocated(t) \in Nat /\ ReservedByOthers(t, own) \in Nat
  BY AllocatedType, ReservedType DEF TypeOK, Matrix, Allocated
<1>3. avail \in [Stocks -> Int] /\ avail[s] = quantity[s] - Allocated(s) - others
  BY <1>2 DEF Reservable, Free, TypeOK
<1>4. \A l \in own : l \in Lines /\ req[l] \in Int /\ LineOrder[l] = o
  BY BoundsAssumption DEF LinesOf
<1>5. /\ \A l \in own : <<l, s>> \notin expired'
      /\ \A l \in Lines \ own : <<l, s>> \notin expired' <=> <<l, s>> \notin expired
  <2>1. expired' = expired \ ((IF reserving THEN LinesOf(o) ELSE own) \X Stocks)
    BY <1>0 DEF AddVariantsToCheckout
  <2>2. reserving => \A l \in LinesOf(o) \ own : <<l, s>> \notin expired
    BY DEF Revives
  <2> QED
    BY <2>1, <2>2
<1> HIDE DEF avail, key
<1>6. ASSUME NEW l \in own
      PROVE  /\ reservation'[l][s] <= Pos(avail[s])
             /\ StockVariant[s] # LineVariant[l] => reservation'[l][s] = 0
  <2>1. \/ reservation'[l] = Picked(l, req[l], avail, key, NoPoint)
        \/ reservation'[l] = NoUnits
    BY <1>1, <1>4
  <2>2. stocks \subseteq Stocks
    BY DEF TypeOK
  <2>3. avail \in [Stocks -> Int] /\ req[l] \in Int
    BY <1>3, <1>4
  <2> HIDE DEF others
  <2>4. ASSUME NEW n \in Int
        PROVE  /\ Picked(l, n, avail, key, NoPoint)[s] <= Pos(avail[s])
               /\ StockVariant[s] # LineVariant[l]
                  => Picked(l, n, avail, key, NoPoint)[s] = 0
    <3>1. l \in Lines
      BY <1>4
    <3> QED
      BY <2>2, <2>3, <3>1, PickedFacts
  <2>5. NoUnits[s] = 0 /\ 0 <= Pos(avail[s])
    BY <2>3 DEF NoUnits, Pos
  <2> QED
    BY <2>1, <2>3, <2>4, <2>5
<1>7. CASE \A l \in own : reservation'[l][s] = 0
  <2>1. ASSUME NEW l \in Lines, l \notin own, <<l, s>> \notin expired'
        PROVE  <<l, s>> \notin expired /\ reservation'[l][s] <= reservation[l][s]
    <3>1. reservation'[l][s] = reservation[l][s] /\ reservation[l][s] \in Nat
      BY <1>1, <2>1 DEF TypeOK
    <3> QED
      BY <1>5, <2>1, <3>1
  <2> QED
    BY <1>7, <2>1, ReservedShrinks
<1>8. CASE \E l \in own : reservation'[l][s] # 0
  <2> DEFINE g == [l \in Lines |-> reservation'[l][s]]
             f == [l \in Lines |-> reservation[l][s]]
             R == Holding(s, expired')
             T == {l \in Lines \ own : <<l, s>> \notin expired}
  <2>1. PICK k \in own : reservation'[k][s] # 0
    BY <1>8
  <2>2. \A l \in own \ {k} : reservation'[l][s] = 0
    BY <1>4, <1>6, <2>1 DEF OneLinePerVariant
  <2>3. k \in Lines /\ k \in R /\ k \notin T
    BY <1>4, <1>5, <2>1 DEF Holding
  <2>4. T \cup {k} \subseteq R /\ IsFiniteSet(T)
    <3>1. T \subseteq R
      BY <1>5 DEF Holding
    <3>2. IsFiniteSet(T)
      <4>1. T \subseteq Lines
        OBVIOUS
      <4> HIDE DEF T
      <4> QED
        BY <4>1, LinesAssumption, FS_Subset
    <3> QED
      BY <2>3, <3>1, <3>2
  <2>5. /\ \A l \in R : g[l] \in Int
        /\ \A l \in T : g[l] \in Nat
        /\ g[k] \in Nat /\ g[k] # 0
    BY <2>1, <2>3 DEF TypeOK, Holding
  <2>6. \A l \in R \ (T \cup {k}) : g[l] <= 0
    BY <1>5, <2>2 DEF Holding
  <2>7. \A l \in T : g[l] = f[l]
    BY <1>1
  <2>8. g[k] <= Pos(avail[s])
    BY <1>6, <2>1, <2>3
  <2>9. Reserved(s)' = SumOf(g, R) /\ others = SumOf(f, T)
    BY DEF Reserved, ReservedByOthers, Holding
  <2> HIDE DEF g, f, R, T, others
  <2>10. SumOf(g, R) = SumOf(g, T \cup {k})
    BY <2>4, <2>5, <2>6, SumWithin
  <2>11. SumOf(g, T \cup {k}) = SumOf(g, T) + g[k]
    BY <2>3, <2>4, <2>5, SumInsert
  <2>12. SumOf(g, T) = SumOf(f, T)
    BY <2>7, SumSame
  <2>13. Reserved(s)' = others + g[k]
    BY <2>9, <2>10, <2>11, <2>12
  <2>14. others \in Nat /\ Allocated(s) \in Nat /\ quantity[s] \in Int
    BY <1>2 DEF others, TypeOK
  <2>15. Allocated(s)' = Allocated(s) /\ quantity'[s] = quantity[s]
    BY <1>1 DEF Allocated, AllocatedIn
  <2>16. others + g[k] + Allocated(s) <= quantity[s]
    BY <1>3, <2>5, <2>8, <2>14 DEF Pos
  <2> QED
    BY <2>13, <2>14, <2>15, <2>16
<1> QED
  BY <1>7, <1>8

\* No other step adds to what is reserved.
LEMMA OtherStepBooks ==
    ASSUME TypeOK, TypeOK', NEW s \in Stocks, [Next]_vars,
           ~ReservesUnchecked,
           ~\E o \in CheckoutOrders, reserving \in BOOLEAN :
              \E edited \in SUBSET LinesOf(o) : \E req \in [edited -> 0 .. MaxQty] :
                 AddVariantsToCheckout(o, req, reserving)
    PROVE  Reserved(s)' <= Reserved(s)
<1>1. CASE reservation' = reservation /\ expired \subseteq expired'
  BY <1>1, ReservedShrinks DEF TypeOK
<1>2. ASSUME NEW o \in Orders, NEW point \in CollectionPoints,
             NEW req \in [LinesOf(o) -> 1 .. MaxQty], AllocateStocks(o, req, point)
      PROVE  Reserved(s)' <= Reserved(s)
  <2>1. /\ reservation' = [l \in Lines |-> IF l \in LinesOf(o)
                                           THEN NoUnits ELSE reservation[l]]
        /\ expired' = expired \ (LinesOf(o) \X Stocks)
    BY <1>2 DEF AllocateStocks
  <2>2. \A l \in Lines : reservation[l][s] \in Nat
    BY DEF TypeOK
  <2>3. ASSUME NEW l \in Lines, <<l, s>> \notin expired'
        PROVE  \/ reservation'[l][s] = 0
               \/ <<l, s>> \notin expired /\ reservation'[l][s] <= reservation[l][s]
    BY <2>1, <2>2, <2>3 DEF NoUnits
  <2> QED
    BY <2>3, ReservedShrinks
<1>3. CASE DeleteExpiredReservations
  <2>1. ASSUME NEW l \in Lines, <<l, s>> \notin expired'
        PROVE  \/ reservation'[l][s] = 0
               \/ <<l, s>> \notin expired /\ reservation'[l][s] <= reservation[l][s]
    BY <1>3 DEF DeleteExpiredReservations, TypeOK
  <2> QED
    BY <2>1, ReservedShrinks
<1>4. ASSUME NEW t \in DeletableStocks, DeleteStock(t)
      PROVE  Reserved(s)' <= Reserved(s)
  <2>1. /\ reservation' = [l \in Lines |-> [reservation[l] EXCEPT ![t] = 0]]
        /\ expired' = expired \ (Lines \X {t})
    BY <1>4 DEF DeleteStock
  <2>2. ASSUME NEW l \in Lines, <<l, s>> \notin expired'
        PROVE  \/ reservation'[l][s] = 0
               \/ <<l, s>> \notin expired /\ reservation'[l][s] <= reservation[l][s]
    <3>1. CASE s = t
      BY <2>1, <3>1 DEF TypeOK
    <3>2. CASE s # t
      BY <2>1, <2>2, <3>2 DEF TypeOK
    <3> QED
      BY <3>1, <3>2
  <2> QED
    BY <2>2, ReservedShrinks
<1>5. CASE OrderNext
  <2>1. \/ \E o \in Orders, point \in CollectionPoints :
              \E req \in [LinesOf(o) -> 1 .. MaxQty] : AllocateStocks(o, req, point)
        \/ reservation' = reservation /\ expired' = expired
    <3>1. ASSUME NEW o \in Orders, ConfirmOrder(o)
          PROVE  reservation' = reservation /\ expired' = expired
      BY <3>1 DEF ConfirmOrder, reservationVars
    <3>2. ASSUME NEW l \in Lines, NEW old \in 0 .. MaxQty, NEW new \in 1 .. MaxQty,
                 ChangeOrderLineQuantity(l, old, new)
          PROVE  reservation' = reservation /\ expired' = expired
      BY <3>2 DEF ChangeOrderLineQuantity, reservationVars
    <3>3. ASSUME NEW l \in Lines, NEW old \in 0 .. MaxQty, DeleteOrderLine(l, old)
          PROVE  reservation' = reservation /\ expired' = expired
      BY <3>3 DEF DeleteOrderLine, reservationVars
    <3>4. ASSUME NEW o \in Orders, NEW w \in Warehouses, NEW exceeded \in AllowExceeded,
                 NEW req \in [LinesOf(o) -> 0 .. MaxQty], DecreaseStock(o, w, req, exceeded)
          PROVE  reservation' = reservation /\ expired' = expired
      BY <3>4 DEF DecreaseStock, reservationVars
    <3>5. ASSUME NEW l \in Lines, NEW t \in Stocks, NEW n \in 1 .. MaxQty,
                 IncreaseStock(l, t, n)
          PROVE  reservation' = reservation /\ expired' = expired
      BY <3>5 DEF IncreaseStock, reservationVars
    <3>6. ASSUME NEW closing, DeallocateStockForOrders(closing)
          PROVE  reservation' = reservation /\ expired' = expired
      BY <3>6 DEF DeallocateStockForOrders, reservationVars
    <3> QED
      BY <1>5, <3>1, <3>2, <3>3, <3>4, <3>5, <3>6
         DEF OrderNext, CancelOrder, ExpireOrders
  <2> QED
    BY <1>1, <1>2, <2>1
<1>6. CASE ReservationNext
  <2>1. ASSUME NEW l \in Lines, NEW t \in Stocks, ReservationExpires(l, t)
        PROVE  reservation' = reservation /\ expired \subseteq expired'
    BY <2>1 DEF ReservationExpires
  <2> QED
    BY <1>1, <1>3, <1>6, <2>1 DEF ReservationNext, ReservesUnchecked
<1>7. CASE StaffNext
  <2>1. ASSUME NEW t \in Stocks, NEW q \in StaffQuantities, UpdateStock(t, q)
        PROVE  reservation' = reservation /\ expired \subseteq expired'
    BY <2>1 DEF UpdateStock, reservationVars
  <2> QED
    BY <1>1, <1>4, <1>7, <2>1 DEF StaffNext
<1>8. CASE TaskNext
  BY <1>1, <1>8 DEF TaskNext, ReadMismatched, WriteMismatched,
                    ReadEmptyAllocations, DeleteAllocations, reservationVars
<1>9. CASE UNCHANGED vars
  BY <1>1, <1>9 DEF vars
<1> QED
  BY <1>5, <1>6, <1>7, <1>8, <1>9 DEF Next

(***************************************************************************)
(* The edit of a checkout that reserves more of a stock leaves no more     *)
(* allocated and reserved than the stock has, whether reservations of      *)
(* other lines expire, are replaced or are deleted meanwhile, and whatever *)
(* the two unchecked ways to reserve have overbooked before: reviving an   *)
(* expired reservation and the payment flow.  With two lines of a variant  *)
(* in a checkout both are served from the same units.                      *)
(***************************************************************************)
THEOREM ReservationsNeverOverbook ==
    ASSUME OneLinePerVariant
    PROVE  Spec => NeverOverbooks
<1>1. ASSUME TypeOK, TypeOK', [Next]_vars
      PROVE  [\A s \in Stocks : Booked(s)]_vars
  <2> SUFFICES ASSUME NEW s \in Stocks
               PROVE  Booked(s)
    OBVIOUS
  <2>1. Reserved(s) \in Nat /\ Reserved(s)' \in Nat
    <3>1. Reserved(s) \in Nat
      BY <1>1, ReservedType DEF Reserved
    <3> DEFINE g == [l \in Lines |-> reservation'[l][s]]
               R == Holding(s, expired')
    <3>2. IsFiniteSet(R) /\ \A l \in R : g[l] \in Int
      <4>1. R \subseteq Lines /\ \A l \in R : g[l] \in Int
        BY <1>1 DEF TypeOK, Holding
      <4> HIDE DEF R, g
      <4> QED
        BY <4>1, LinesAssumption, FS_Subset
    <3>3. Reserved(s)' = SumOf(g, R)
      BY DEF Reserved, ReservedByOthers, Holding
    <3> HIDE DEF g, R
    <3>4. SumOf(g, R) \in Nat
      BY <3>2, SumType
    <3> QED
      BY <3>1, <3>3, <3>4
  <2>2. CASE Revives(s) \/ ReservesUnchecked
    BY <2>2 DEF Booked
  <2>3. ASSUME ~Revives(s), ~ReservesUnchecked
        PROVE  \/ Reserved(s)' <= Reserved(s)
               \/ Reserved(s)' + Allocated(s)' <= quantity'[s]
    <3>1. ASSUME NEW o \in CheckoutOrders, NEW reserving \in BOOLEAN,
                 NEW edited \in SUBSET LinesOf(o), NEW req \in [edited -> 0 .. MaxQty],
                 AddVariantsToCheckout(o, req, reserving)
          PROVE  \/ Reserved(s)' <= Reserved(s)
                 \/ Reserved(s)' + Allocated(s)' <= quantity'[s]
      BY <1>1, <2>3, <3>1, AddVariantsBooks
    <3>2. CASE ~\E o \in CheckoutOrders, reserving \in BOOLEAN :
                   \E edited \in SUBSET LinesOf(o) : \E req \in [edited -> 0 .. MaxQty] :
                      AddVariantsToCheckout(o, req, reserving)
      BY <1>1, <2>3, <3>2, OtherStepBooks
    <3> QED
      BY <3>1, <3>2
  <2> QED
    BY <2>1, <2>2, <2>3 DEF Booked
<1>2. Spec => [][\A s \in Stocks : Booked(s)]_vars
  BY <1>1, TypeCorrect, PTL DEF Spec
<1> QED
  BY <1>2 DEF NeverOverbooks, Booked
=============================================================================
