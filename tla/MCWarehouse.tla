---------------------------- MODULE MCWarehouse ----------------------------
(***************************************************************************)
(* Small instances of Warehouse.                                           *)
(***************************************************************************)
EXTENDS Warehouse

\* Two stocks of one variant, in warehouses "a" and "b".
TwoStocks == {1, 2}
OneVariant == [s \in {1, 2} |-> "v"]
TwoWarehouses == [s \in {1, 2} |-> IF s = 1 THEN "a" ELSE "b"]
BFirst == [w \in {"a", "b"} |-> IF w = "b" THEN 0 ELSE 1]
TwoAndOne == [s \in {1, 2} |-> IF s = 1 THEN 2 ELSE 1]
AnyPoint == {NoPoint, "a"}
NowhereElse == {NoPoint}

\* Two orders of one line each.
TwoLines == {1, 2}
TwoOrders == {"o1", "o2"}
LineEach == [l \in {1, 2} |-> IF l = 1 THEN "o1" ELSE "o2"]
SameVariant == [l \in {1, 2} |-> "v"]

\* Stocks 1 and 2 of variant "v" and stock 3 of variant "w"; order "o1" has a
\* line of each variant, order "o2" one of "v".
ThreeStocks == {1, 2, 3}
TwoVariants == [s \in {1, 2, 3} |-> IF s = 3 THEN "w" ELSE "v"]
ThirdInA == [s \in {1, 2, 3} |-> IF s = 2 THEN "b" ELSE "a"]
SingleUnits == [s \in {1, 2, 3} |-> 1]
ThreeLines == {1, 2, 3}
TwoInFirst == [l \in {1, 2, 3} |-> IF l = 3 THEN "o2" ELSE "o1"]
SecondIsW == [l \in {1, 2, 3} |-> IF l = 2 THEN "w" ELSE "v"]

\* One stock of two units.
OneStock == {1}
StockV == [s \in {1} |-> "v"]
StockA == [s \in {1} |-> "a"]
AOnly == [w \in {"a"} |-> 0]
TwoUnits == [s \in {1} |-> 2]
=============================================================================
