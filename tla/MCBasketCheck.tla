---------------------------- MODULE MCBasketCheck ----------------------------
(***************************************************************************)
(* Two SKUs, two prices, baskets of up to two lines: SKUs that repeat, and *)
(* quantities that only together exceed the stock. SKUs and prices are     *)
(* interchangeable.                                                        *)
(***************************************************************************)
EXTENDS BasketCheck, TLC

CONSTANTS k1, k2, p1, p2

Symmetry == Permutations(Skus) \cup Permutations(Prices)
=============================================================================
