----------------------------- MODULE OneSession -----------------------------
(***************************************************************************)
(* What the session API promises one user, with its reads, its races and   *)
(* its conditional writes left out: each answer takes effect, and is true, *)
(* in the step that gives it.  At most one session lives; it ends once; it *)
(* expires only if its deadline had passed; and a request is told of a     *)
(* session only what holds of it.  A refusal may hide an effect.           *)
(***************************************************************************)
CONSTANTS Requests, Sessions, NoSession

VARIABLES
    phase,      \* of each session: "none", "live", or how it ended
    elapsed,    \* sessions whose deadline passed at some time
    told        \* what each request was told of which session

vars == <<phase, elapsed, told>>

Nothing == <<"nothing", NoSession>>
Refused == <<"refused", NoSession>>

Init ==
    /\ phase = [s \in Sessions |-> "none"] /\ elapsed = {}
    /\ told = [r \in Requests |-> Nothing]
-----------------------------------------------------------------------------
Begins(s) ==
    /\ phase[s] = "none" /\ \A t \in Sessions : phase[t] # "live"
    /\ phase' = [phase EXCEPT ![s] = "live"]

Ends(s, how) ==
    /\ phase[s] = "live" /\ (how = "expired" => s \in elapsed)
    /\ phase' = [phase EXCEPT ![s] = how]

Tell(r, what, s) ==
    told[r] = Nothing /\ told' = [told EXCEPT ![r] = <<what, s>>]
Refuse(r) == told' = [told EXCEPT ![r] = Refused]
-----------------------------------------------------------------------------
Open(r, s) == Begins(s) /\ (Tell(r, "opened", s) \/ Refuse(r))

Cancel(r, s) ==
    \/ Ends(s, "cancelled") /\ (Tell(r, "cancelled", s) \/ Refuse(r))
    \/ /\ phase[s] \in {"completed", "cancelled", "expired"}
       /\ Tell(r, "cancelled", s) /\ UNCHANGED phase

FindExpired(r, s) ==
    /\ s \in elapsed /\ Tell(r, "expired", s)
    /\ Ends(s, "expired") \/ UNCHANGED phase

Serve(r, s) == phase[s] # "none" /\ Tell(r, "served", s) /\ UNCHANGED phase

TurnAway(r) == Refuse(r) /\ UNCHANGED phase

Ask(r) ==
    /\ told[r] # Nothing /\ told' = [told EXCEPT ![r] = Nothing]
    /\ UNCHANGED <<phase, elapsed>>

Elapse(s) ==
    /\ phase[s] = "live" /\ elapsed' = elapsed \cup {s}
    /\ UNCHANGED <<phase, told>>

\* Bought, or expired by the timer or by a request that goes on to open anew.
Leave(s) ==
    \E how \in {"completed", "expired"} :
        Ends(s, how) /\ UNCHANGED <<elapsed, told>>

\* The first conjunct follows from the others; it spares TLC evaluating them.
Answer(r) ==
    /\ told'[r] # Nothing
    /\ \/ \E s \in Sessions :
            Open(r, s) \/ Cancel(r, s) \/ FindExpired(r, s) \/ Serve(r, s)
       \/ TurnAway(r)
    /\ UNCHANGED elapsed

Next ==
    \/ \E r \in Requests : Answer(r) \/ Ask(r)
    \/ \E s \in Sessions : Elapse(s) \/ Leave(s)

Spec == Init /\ [][Next]_vars
=============================================================================
