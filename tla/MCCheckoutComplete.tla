------------------------- MODULE MCCheckoutComplete -------------------------
(***************************************************************************)
(* Small instances of CheckoutComplete.                                    *)
(***************************************************************************)
EXTENDS CheckoutComplete, TLC

ThreadSymmetry == Permutations(Threads)
=============================================================================
