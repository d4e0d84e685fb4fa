------------------------- MODULE MCTransactionItem -------------------------
(***************************************************************************)
(* A small instance of TransactionItem.                                    *)
(***************************************************************************)
EXTENDS TransactionItem, TLC

Said(a, k, r, n, t) == [action |-> a, kind |-> k, ref |-> r, amount |-> n, time |-> t]

\* A charge that succeeds, fails before or after that and is reported with
\* another amount, and an authorization that is reported under two references
\* and adjusted.
SomeReports ==
    {Said("charge", "success", "p", 2, 1), Said("charge", "success", "p", 1, 1),
     Said("charge", "failure", "p", 2, 0), Said("charge", "failure", "p", 2, 1),
     Said("authorization", "success", "p", 3, 1), Said("authorization", "success", "q", 3, 1),
     Said("authorization", "extra", "p", 1, 0)}

\* A charge of part of the authorized amount and a refund of all that is charged.
SomeRequests == {<<"charge", 1>>, <<"refund", 0>>}

WorkerSymmetry == Permutations(Workers)
=============================================================================
