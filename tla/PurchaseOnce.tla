---------------------------- MODULE PurchaseOnce ----------------------------
(***************************************************************************)
(* What confirming a checkout promises, with the claims, locks, retries    *)
(* and crashes left out.  A session is shopped on until it is dropped or   *)
(* one key commits it to the terms it shows; from then on the purchase can *)
(* only go forward: one order, with those terms, then shown as completed.  *)
(***************************************************************************)
CONSTANTS Sessions, Keys, Contents, NoKey, NoContent

VARIABLES stage, buyer, terms

vars == <<stage, buyer, terms>>

Init ==
    /\ stage = [s \in Sessions |-> "shopping"]
    /\ buyer = [s \in Sessions |-> NoKey]
    /\ terms = [s \in Sessions |-> NoContent]

Commit(s, k, c) ==
    /\ stage[s] = "shopping"
    /\ stage' = [stage EXCEPT ![s] = "committed"]
    /\ buyer' = [buyer EXCEPT ![s] = k]
    /\ terms' = [terms EXCEPT ![s] = c]

Advance(s, from, to) ==
    /\ stage[s] = from
    /\ stage' = [stage EXCEPT ![s] = to]
    /\ UNCHANGED <<buyer, terms>>

Drop(s)     == Advance(s, "shopping", "dropped")
Order(s)    == Advance(s, "committed", "ordered")
Complete(s) == Advance(s, "ordered", "completed")

Next ==
    \E s \in Sessions :
       \/ \E k \in Keys, c \in Contents : Commit(s, k, c)
       \/ Drop(s) \/ Order(s) \/ Complete(s)

Spec == Init /\ [][Next]_vars
=============================================================================
