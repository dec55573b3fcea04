------------------------- MODULE MCCheckoutConfirm -------------------------
(***************************************************************************)
(* Small instances of CheckoutConfirm for TLC.                             *)
(***************************************************************************)
EXTENDS CheckoutConfirmProofs, TLC

CONSTANTS k1, k2, e1, e2, plain, other, promo, over, code

MCPromoOf == [c \in Contents |-> IF c \in {promo, over} THEN code ELSE NoCode]
PlainOf   == [c \in Contents |-> NoCode]

\* Keys and executions are interchangeable: no definition names one.
Symmetry == Permutations(Keys) \cup Permutations(Execs)
=============================================================================
