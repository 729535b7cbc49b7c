----------------------------- MODULE MCCheckout -----------------------------
(***************************************************************************)
(* Small instances of Checkout.  Requests and lock ids are                 *)
(* interchangeable.                                                        *)
(***************************************************************************)
EXTENDS Checkout, TLC

Symmetry == Permutations(Requests) \cup Permutations(LockIds)
=============================================================================
