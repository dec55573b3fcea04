----------------------------- MODULE RedeemOnce -----------------------------
(***************************************************************************)
(* What redeeming a promo code promises, with its statements, locks and    *)
(* rollbacks left out: one call takes effect in one step.  A session's use *)
(* is counted once and within the caps, a rejection has a cause and never  *)
(* hits a use that is counted, and an error may hide either.               *)
(***************************************************************************)
EXTENDS Integers, FiniteSets

CONSTANTS Sessions, Users, Owner, Max, PerUser

VARIABLES
    used,       \* the sessions whose use is counted
    expired,    \* the code is past its end
    told        \* what the session's last call answered

vars == <<used, expired, told>>

Init ==
    /\ used = {} /\ expired = FALSE
    /\ told = [s \in Sessions |-> "nothing"]

UsesOf(user) == {s \in used : Owner[s] = user}
HasRoom(s) ==
    Cardinality(used) < Max /\ Cardinality(UsesOf(Owner[s])) < PerUser

Answer(s, answer) ==
    /\ told[s] = "nothing"
    /\ told' = [told EXCEPT ![s] = answer]
    /\ UNCHANGED expired

\* The answer may be lost; a use that is counted already is counted.
Redeem(s) ==
    /\ \E answer \in {"ok", "error"} : Answer(s, answer)
    /\ s \in used \/ HasRoom(s)
    /\ used' = used \cup {s}

Reject(s) ==
    /\ Answer(s, "rejected")
    /\ s \notin used /\ (expired \/ ~HasRoom(s))
    /\ UNCHANGED used

Fail(s) == Answer(s, "error") /\ UNCHANGED used

Retry(s) ==
    /\ told' = [told EXCEPT ![s] = "nothing"]
    /\ UNCHANGED <<used, expired>>

Expire == expired' = TRUE /\ UNCHANGED <<used, told>>

Next ==
    \/ \E s \in Sessions : Redeem(s) \/ Reject(s) \/ Fail(s) \/ Retry(s)
    \/ Expire

Spec == Init /\ [][Next]_vars
=============================================================================
