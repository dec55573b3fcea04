-------------------------- MODULE MCCheckoutFunnel --------------------------
(***************************************************************************)
(* Small instances of CheckoutFunnel for TLC.  near is taxed 10%, far is   *)
(* not taxed and dearer to ship to; the fixed code fits under the smaller  *)
(* subtotal with the fee of far, and not with the fee and tax of near.     *)
(***************************************************************************)
EXTENDS CheckoutFunnel, TLC

CONSTANTS r1, r2, near, far, parcel, half, fixed

MCFee == [m \in Methods |-> [g \in Regions |-> IF g = near THEN 10 ELSE 30]]
MCRateBps == [g \in Regions |-> IF g = near THEN 1000 ELSE 0]
MCValue == [c \in Codes |-> IF c = half THEN 50 ELSE 60]
Symmetry == Permutations(Requests)
=============================================================================
