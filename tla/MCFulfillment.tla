--------------------------- MODULE MCFulfillment ---------------------------
(***************************************************************************)
(* Small instances of Fulfillment: one line of a few units.                *)
(***************************************************************************)
EXTENDS Fulfillment, TLC

OneLine == {"l"}
OneUnit == [l \in {"l"} |-> 1]
TwoUnits == [l \in {"l"} |-> 2]

StaffSymmetry == Permutations(Staff)
=============================================================================
