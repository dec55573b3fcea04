---------------------------- MODULE MCSessionApi ----------------------------
(* Two tabs of one user over two rows. *)
EXTENDS SessionApi, TLC

CONSTANTS r1, r2, s1, s2

MCRequests == {r1, r2}
MCSessions == {s1, s2}
Symmetry == Permutations(MCRequests) \cup Permutations(MCSessions)
=============================================================================
