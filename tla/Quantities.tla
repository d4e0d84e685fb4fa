----------------------------- MODULE Quantities -----------------------------
(***************************************************************************)
(* Arithmetic on quantities shared by the stock, order and payment         *)
(* modules: the SQL aggregate Sum(...) over rows, the sums of amounts in   *)
(* saleor/payment, and the loop "take as much as is needed or available    *)
(* from each row in turn" that saleor/warehouse uses to allocate, reserve  *)
(* and deallocate.                                                         *)
(***************************************************************************)
EXTENDS Integers, FiniteSets

Pos(n) == IF n > 0 THEN n ELSE 0

Least(m, n) == IF m <= n THEN m ELSE n

(***************************************************************************)
(* The sum of f over S, each entry below zero counting as zero.  It is the *)
(* number of single units <<x, i>> that the entries hold, which lets the   *)
(* proofs use the library's facts about cardinality.                       *)
(***************************************************************************)
Units(f, S) == UNION {{x} \X (1 .. f[x]) : x \in S}

SumOf(f, S) == Cardinality(Units(f, S))

\* The sum of amounts that may be negative.
Total(f, S) == SumOf(f, S) - SumOf([x \in S |-> -f[x]], S)

(***************************************************************************)
(* What the loop over the rows S takes from each row when q units are      *)
(* wanted and row s offers avail[s]: all it offers until the rows visited  *)
(* earlier than it, earlier[s], have covered the demand.                   *)
(***************************************************************************)
Greedy(q, avail, earlier, S) ==
    [s \in S |-> Least(Pos(avail[s]), Pos(q - SumOf(avail, earlier[s])))]
=============================================================================
