---------------------------- MODULE MCPromoLedger ----------------------------
(***************************************************************************)
(* Three sessions of two users, one of whom has two, on a code with two    *)
(* uses, one per user.                                                     *)
(***************************************************************************)
EXTENDS PromoLedger

CONSTANTS s1, s2, s3, u1, u2

MCOwner == [s \in Sessions |-> IF s = s3 THEN u2 ELSE u1]
=============================================================================
