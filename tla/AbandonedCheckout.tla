------------------------- MODULE AbandonedCheckout --------------------------
(***************************************************************************)
(* The abandonment watch of one session: the durable workflow that wakes   *)
(* up, asks the database whether the deadline has passed (ExpireDue) and   *)
(* re-arms; the best-effort signals that start, reset and stop it; the     *)
(* shopper and the confirm writing the row meanwhile.                      *)
(*                                                                         *)
(* Clocks count down, in ticks: left to the row's deadline, wait to the    *)
(* workflow's timer, stale to the takeover of the confirm's claim.         *)
(***************************************************************************)
EXTENDS Naturals

CONSTANTS
    TTL,        \* session TTL, also the first wait of a watch
    Takeover,   \* IDEMPOTENCY_LOCK_TAKEOVER
    maxResets,  \* signals one run takes before it continues as new
    MaxSignals  \* bound: signals under way, and signals buffered

ASSUME WatchAssumption ==
    /\ TTL \in Nat \ {0} /\ Takeover \in Nat \ {0}
    /\ maxResets \in Nat \ {0} /\ MaxSignals \in Nat \ {0}

VARIABLES
    status,     \* the row: "working" stands for open to ready
    left,
    claim,      \* the claim bound to it: none, open, marked by an attempt
    alive,      \* an execution holds that claim and may still write
    stale,
    sending, ending,    \* activity and finalize signals under way
    watch,      \* the run: off, armed, done or the next statement of ExpireDue
    wait, resets,
    activity, finalize, \* the run's signal channels
    excuse      \* history: what may leave the session without a watch: its
                \* last signal was lost, or it came back while its run ended

rowVars   == <<status, left, claim, alive, stale>>
sentVars  == <<sending, ending>>
runVars   == <<watch, wait, resets, activity, finalize>>
watchVars == <<runVars, excuse>>
vars == <<rowVars, sentVars, watchVars>>

Max2(a, b) == IF a > b THEN a ELSE b
Asking == {"update", "parked", "status", "binding"}

\* The row's, the signals' and the run's domains; a run's history is bounded.
TypeOK ==
    /\ status \in {"working", "confirming", "completed", "cancelled", "expired"}
    /\ left \in 0..TTL
    /\ claim \in {"none", "open", "marked"}
    /\ alive \in BOOLEAN /\ stale \in 0..Takeover
    /\ sending \in 0..MaxSignals /\ ending \in BOOLEAN
    /\ watch \in {"off", "armed", "done"} \cup Asking
    /\ wait \in 0..Max2(TTL, Takeover) /\ resets < maxResets
    /\ resets \in Nat
    /\ activity \in 0..MaxSignals /\ finalize \in BOOLEAN
    /\ excuse \in {"none", "lost", "raced"}

\* CreateSession stored the row and sent SessionStarted; or the insert's
\* answer was lost, and nothing was sent.
Init ==
    /\ status = "working" /\ left = TTL
    /\ claim = "none" /\ alive = FALSE /\ stale = 0
    /\ sending \in {0, 1} /\ ending = FALSE
    /\ watch = "off" /\ wait = 0 /\ resets = 0
    /\ activity = 0 /\ finalize = FALSE
    /\ excuse = IF sending = 1 THEN "none" ELSE "lost"
-----------------------------------------------------------------------------
(* The shopper and the confirm.                                            *)

Due == left = 0

SignalActivity ==
    /\ sending < MaxSignals /\ sending' = sending + 1
    /\ UNCHANGED ending

\* The deadline is pushed, best-effort, and the watch is told.
Touch ==
    /\ left' \in {left, TTL}
    /\ SignalActivity

\* The session is in the funnel again.  A run that has read it as confirming
\* and has not returned yet will not learn of it.
ComesBack ==
    /\ status = "confirming" /\ status' = "working"
    /\ excuse' = IF watch \in {"binding", "done"} THEN "raced" ELSE excuse
    /\ UNCHANGED runVars

\* A successful edit of a working session.
Mutate ==
    /\ status = "working" /\ ~Due
    /\ Touch
    /\ UNCHANGED <<status, claim, alive, stale, watchVars>>

\* POST /sessions on the active session, which in confirming is never lazily
\* expired.
ReuseSession ==
    /\ status = "confirming" \/ (status = "working" /\ ~Due)
    /\ Touch
    /\ UNCHANGED <<status, claim, alive, stale, watchVars>>

\* PUT shipping or PUT payment takes a session out of its confirm, whatever
\* the attempt has done, and leaves the claim bound to it.
EditConfirming ==
    /\ ComesBack /\ Touch
    /\ UNCHANGED <<claim, alive, stale>>

\* Any read past the deadline.
LazyExpire ==
    /\ status = "working" /\ Due
    /\ status' = "expired"
    /\ UNCHANGED <<left, claim, alive, stale, sentVars, watchVars>>

Cancel ==
    /\ status = "working" /\ ~Due
    /\ status' = "cancelled" /\ ending' = TRUE
    /\ UNCHANGED <<left, claim, alive, stale, sending, watchVars>>

\* Confirm: the gate is won under a claim just locked, or one bound already
\* whose lock is free or stale; a confirming session is entered again.
Lockable == stale = 0 /\ ~alive
Lock == alive' = TRUE /\ stale' = Takeover

BeginConfirm ==
    /\ status = "working" /\ ~Due /\ status' = "confirming"
    /\ \/ claim = "none" /\ claim' = "open"
       \/ claim # "none" /\ Lockable /\ UNCHANGED claim
    /\ Lock
    /\ UNCHANGED <<left, sentVars, watchVars>>

Reenter ==
    /\ status = "confirming" /\ Lockable /\ Lock
    /\ UNCHANGED <<status, left, claim, sentVars, watchVars>>

\* AbortConfirm, RequoteItems, StripPromo: the binding is cleared, the
\* deadline stays and no signal is sent.
UndoConfirm ==
    /\ alive /\ claim = "open" /\ ComesBack
    /\ claim' = "none" /\ alive' = FALSE /\ stale' = 0
    /\ UNCHANGED <<left, sentVars>>

\* The marker is the claim's: it is set wherever the session has gone.
Checkpoint ==
    /\ alive /\ claim' = "marked"
    /\ UNCHANGED <<status, left, alive, stale, sentVars, watchVars>>

CompleteSession ==
    /\ alive /\ status = "confirming" /\ claim = "marked"
    /\ status' = "completed" /\ alive' = FALSE /\ ending' = TRUE
    /\ UNCHANGED <<left, claim, stale, sending, watchVars>>

\* The execution ends on its own: crashed, its lock still set, or failed, its
\* lock released.
ConfirmStops ==
    /\ alive /\ alive' = FALSE
    /\ stale' \in {stale, 0}
    /\ UNCHANGED <<status, left, claim, sentVars, watchVars>>

Shopper ==
    \/ Mutate \/ ReuseSession \/ EditConfirming \/ LazyExpire \/ Cancel
    \/ BeginConfirm \/ Reenter \/ Checkpoint
-----------------------------------------------------------------------------
(* The notifier: fire-and-forget sends, delivered late or not at all.      *)

\* Signal-With-Start: an absent run is started with the signal in its channel.
DeliverActivity ==
    /\ sending > 0 /\ sending' = sending - 1
    /\ activity < MaxSignals /\ activity' = activity + 1
    /\ IF watch = "off"
       THEN /\ watch' = "armed" /\ wait' = TTL /\ resets' = 0
            /\ excuse' = "none"
       ELSE UNCHANGED <<watch, wait, resets, excuse>>
    /\ UNCHANGED <<rowVars, ending, finalize>>

DeliverFinalize ==
    /\ ending /\ ending' = FALSE
    /\ finalize' = (watch # "off")
    /\ UNCHANGED <<rowVars, sending, watch, wait, resets, activity, excuse>>

LoseSignal ==
    /\ \/ sending > 0 /\ sending' = sending - 1 /\ UNCHANGED ending
          /\ excuse' = IF watch = "off" THEN "lost" ELSE excuse
       \/ ending /\ ending' = FALSE /\ UNCHANGED <<sending, excuse>>
    /\ UNCHANGED <<rowVars, watch, wait, resets, activity, finalize>>
-----------------------------------------------------------------------------
(* The workflow.                                                           *)

\* drain, then return: the run is over.
Drain ==
    /\ watch' = "off" /\ wait' = 0 /\ resets' = 0
    /\ activity' = 0 /\ finalize' = FALSE

\* Signals win over a fired timer, a finalize over everything.
Finalize ==
    /\ watch = "armed" /\ finalize
    /\ Drain
    /\ UNCHANGED <<rowVars, sentVars, excuse>>

FaultyAtCap(n) == n > maxResets
AtCap(n) == n >= maxResets

\* At the cap the run continues as new: same input, empty channels.
FaultyRotate == Drain
Rotate ==
    /\ wait' = TTL /\ resets' = 0 /\ activity' = 0
    /\ UNCHANGED <<watch, finalize>>

ResetTimer ==
    /\ watch = "armed" /\ ~finalize /\ activity > 0
    /\ \/ AtCap(resets + 1) /\ Rotate
       \/ /\ ~AtCap(resets + 1) /\ resets' = resets + 1
          /\ wait' = TTL /\ activity' = activity - 1
          /\ UNCHANGED <<watch, finalize>>
    /\ UNCHANGED <<rowVars, sentVars, excuse>>

TimerFires ==
    /\ watch = "armed" /\ ~finalize /\ activity = 0 /\ wait = 0
    /\ watch' = "update"
    /\ UNCHANGED <<rowVars, sentVars, wait, resets, activity, finalize, excuse>>

Ask(label) ==
    /\ watch' = label
    /\ UNCHANGED <<wait, resets, activity, finalize>>

Rearm(remaining) ==
    /\ watch' = "armed" /\ wait' = remaining
    /\ UNCHANGED <<resets, activity, finalize>>

\* ExpireDue's statements, in order.
ExpireWorking ==
    /\ watch = "update"
    /\ \/ status = "working" /\ Due /\ status' = "expired" /\ Ask("done")
       \/ ~(status = "working" /\ Due) /\ UNCHANGED status /\ Ask("parked")
    /\ UNCHANGED <<left, claim, alive, stale, sentVars, excuse>>

FaultyProvablyDead == claim = "open" /\ stale > 0
ProvablyDead == claim = "open" /\ stale = 0

ExpireParked ==
    LET dead == status = "confirming" /\ Due /\ ProvablyDead
    IN /\ watch = "parked"
       /\ \/ dead /\ status' = "expired" /\ claim' = "none" /\ Ask("done")
          \/ ~dead /\ UNCHANGED <<status, claim>> /\ Ask("status")
       /\ UNCHANGED <<left, alive, stale, sentVars, excuse>>

\* Why nothing was expired: the session ended, is being confirmed, or its
\* deadline moved (a deadline that passed just now is asked for again soon).
ReadStatus ==
    /\ watch = "status"
    /\ \/ status \in {"completed", "cancelled", "expired"} /\ Ask("done")
       \/ status = "confirming" /\ Ask("binding")
       \/ status = "working" /\ Rearm(Max2(left, 1))
    /\ UNCHANGED <<rowVars, sentVars, excuse>>

\* The binding's own answer: no row, an attempt, or not yet provably dead.
\* The query does not ask for the status again: a binding cleared meanwhile has
\* no row, one that an edit left behind still shows its attempt.
ReadBinding ==
    /\ watch = "binding"
    /\ \/ claim \in {"none", "marked"} /\ Ask("done") /\ UNCHANGED excuse
       \/ claim = "open" /\ Rearm(Takeover) /\ excuse' = "none"
    /\ UNCHANGED <<rowVars, sentVars>>

\* A statement fails: the activity is retried from its start, without end.
FaultyRetry(label) == IF label = "binding" THEN "done" ELSE "update"
Retry(label) == "update"
ActivityFails ==
    /\ watch \in Asking
    /\ Ask(Retry(watch)) /\ excuse' = "none"
    /\ UNCHANGED <<rowVars, sentVars>>

\* What was buffered while the activity ran is drained with the rest.
Done ==
    /\ watch = "done" /\ Drain
    /\ UNCHANGED <<rowVars, sentVars, excuse>>

Worker ==
    \/ Finalize \/ ResetTimer \/ TimerFires
    \/ ExpireWorking \/ ExpireParked \/ ReadStatus \/ ReadBinding \/ Done
-----------------------------------------------------------------------------
\* Time passes.  An execution never lives until its lock goes stale: the
\* takeover is validated at startup to exceed its last possible write.
Less(n) == IF n = 0 THEN 0 ELSE n - 1
Tick ==
    /\ left + wait + stale > 0
    /\ alive => stale > 1
    /\ left' = Less(left) /\ wait' = Less(wait) /\ stale' = Less(stale)
    /\ UNCHANGED <<status, claim, alive, sentVars, watch, resets, activity,
                   finalize, excuse>>

Next ==
    \/ Shopper \/ UndoConfirm \/ CompleteSession \/ ConfirmStops
    \/ DeliverActivity \/ DeliverFinalize \/ LoseSignal
    \/ Worker \/ ActivityFails \/ Tick

Spec == Init /\ [][Next]_vars

\* Time passes, signals arrive or are lost, executions end, Temporal runs the
\* workflow, and its retries of the activity get through in the end.
Fairness ==
    /\ WF_vars(Tick) /\ WF_vars(ConfirmStops)
    /\ WF_vars(DeliverActivity \/ LoseSignal)
    /\ WF_vars(Finalize \/ ResetTimer \/ TimerFires \/ Done)
    /\ SF_vars(ExpireWorking) /\ SF_vars(ExpireParked)
    /\ SF_vars(ReadStatus) /\ SF_vars(ReadBinding)

FairSpec == Spec /\ Fairness
-----------------------------------------------------------------------------
Unwatched == watch \in {"off", "done"} /\ sending = 0

\* A working session always has a running watch, or a signal under way that
\* starts one, unless its last signal was lost or it came back from a confirm,
\* undone or edited away, after a run had read it as confirming and before that
\* run returned: cap rotations, retries and drained channels drop no other
\* watch.
WatchedOrExcused == status = "working" /\ Unwatched => excuse # "none"

\* "Only two answers may stop the loop for good: the binding shows an order
\* attempt, or the binding row is genuinely absent (the claim was reaped)": no
\* watch is given up on a session that is back in the funnel.
GivenUpOnlyWhenDead == status = "working" /\ Unwatched => excuse = "lost"

ShopperLeft == <>[][~Shopper]_vars

\* "A DB outage delays expiry": an abandoned session, working or parked in a
\* confirm that died before its marker, is expired by its watch in the end,
\* whatever signals were late and however often the activity failed.  An
\* attempt on record exempts a confirming session only.
AbandonedIsExpired ==
    ShopperLeft =>
        <>[](status = "working" \/ (status = "confirming" /\ claim = "open")
                => excuse # "none")

\* The executions in which no session comes back from its confirm, undone or
\* edited away, after a run has read it as confirming and before it returns.
NoneRaced == [][ComesBack => watch \notin {"binding", "done"}]_vars

\* "Only two answers may stop the loop for good": a run ends when its session
\* has, or when an attempt is on record.
StopsOnlyForGood ==
    [][watch # "off" /\ watch' = "off" =>
          \/ status \in {"completed", "cancelled", "expired"}
          \/ status = "confirming" /\ claim = "marked"]_vars

\* A confirm that may still write is never expired under its hands, nor is an
\* attempt that is on record.
ReapsOnlyTheDead ==
    [][status = "confirming" /\ status' = "expired" =>
          Due /\ claim = "open" /\ ~alive]_vars
=============================================================================
