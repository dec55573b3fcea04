---------------------------- MODULE ServeProcess ----------------------------
(***************************************************************************)
(* One process serving the API, from its configuration to its exit, with   *)
(* the longest-lived thing it does: a confirm that holds an idempotency    *)
(* lock, bounded by a deadline and by two detached writes after it.  The   *)
(* other processes are those that may take the lock over: another server,  *)
(* and the abandonment worker.  Time passes in ticks.                      *)
(***************************************************************************)
EXTENDS LazyConnection

CONSTANTS
    ConfirmDeadline, releaseTimeout,
    Windows,            \* values IDEMPOTENCY_LOCK_TAKEOVER may load to
    Drains, Timeouts,   \* READINESS_DRAIN_DELAY and SHUTDOWN_TIMEOUT likewise
    DialAttempts,       \* temporalDialAttempts
    MaxAge              \* bound: a lock's age is counted up to here

ASSUME ProcessAssumption ==
    /\ ConfirmDeadline \in Nat \ {0} /\ releaseTimeout \in Nat \ {0}
    /\ Windows \subseteq Nat \ {0} /\ Drains \subseteq Nat \ {0}
    /\ Timeouts \subseteq Nat \ {0} /\ DialAttempts \in Nat \ {0}
    /\ MaxAge \in Nat /\ \A window \in Windows : window < MaxAge

VARIABLES
    main,       \* what main does
    config,     \* the durations it loaded, and the two lock windows outside
    left,       \* ticks left of main's sleep or shutdown
    attempts,   \* startup dials left
    confirm,    \* the confirm being served
    budget,     \* ticks left of the context it writes under
    lock,       \* its idempotency key: free, held, taken over by another
                \* server, or its session reaped by the worker
    age,        \* ticks since the lock was set
    broken,     \* history: how a live owner lost its lock, "none" if none did
    cut         \* history: the pool was closed under a confirm

mainVars    == <<main, config, left, attempts>>
confirmVars == <<confirm, budget, lock, age, broken>>
vars == <<lazyVars, mainVars, confirmVars, cut>>

MaxConfirmWrite == ConfirmDeadline + releaseTimeout

\* The longest a confirm may write: abortPreAttempt makes two detached writes.
LastWrite == ConfirmDeadline + 2 * releaseTimeout

Configs == [window : Windows, worker : Windows, drain : Drains, timeout : Timeouts]
Writing == {"working", "aborting", "releasing"}
Live == confirm # "none"

\* Every variable keeps its type: one connection at most, and none closed twice.
TypeOK ==
    /\ LazyTypeOK
    /\ main \in {"config", "dialing", "serving", "draining", "shutdown",
                 "closing", "closed", "exited"}
    /\ config \in Configs
    /\ left \in Nat /\ attempts \in 0..DialAttempts
    /\ confirm \in Writing \cup {"entered", "none"}
    /\ budget \in 0..ConfirmDeadline + releaseTimeout
    /\ lock \in {"free", "held", "taken", "reaped"} /\ age \in 0..MaxAge
    /\ broken \in {"none", "taken", "reaped"} /\ cut \in BOOLEAN
    /\ main = "exited" => confirm = "none"

Init ==
    /\ LazyInit
    /\ main = "config" /\ config \in Configs
    /\ left = 0 /\ attempts = DialAttempts
    /\ confirm = "none" /\ budget = 0 /\ lock = "free" /\ age = 0
    /\ broken = "none" /\ cut = FALSE
-----------------------------------------------------------------------------
(* main: from the configuration to the exit.                               *)

\* "Deadline-fencing invariant": or the process does not start.
FaultyWindowDwarfs(window) == window > 0
WindowDwarfs(window) == window > 4 * MaxConfirmWrite

CheckWindow ==
    /\ main = "config"
    /\ main' = IF WindowDwarfs(config.window) THEN "dialing" ELSE "exited"
    /\ UNCHANGED <<config, left, attempts, lazyVars, confirmVars, cut>>

\* configureTemporal: a bounded number of dials, then the background loop.
DialAtStartup ==
    /\ main = "dialing"
    /\ \/ NewLazySeeded /\ main' = "serving" /\ UNCHANGED attempts
       \/ attempts > 1 /\ attempts' = attempts - 1 /\ UNCHANGED <<main, lazyVars>>
       \/ attempts = 1 /\ attempts' = 0 /\ NewLazy /\ main' = "serving"
    /\ UNCHANGED <<config, left, confirmVars, cut>>

\* SIGTERM: readiness fails, and requests are still served for a while.
Signal ==
    /\ main = "serving" /\ main' = "draining" /\ left' = config.drain
    /\ UNCHANGED <<config, attempts, lazyVars, confirmVars, cut>>

BeginShutdown ==
    /\ main = "draining" /\ left = 0
    /\ main' = "shutdown" /\ left' = config.timeout
    /\ UNCHANGED <<config, attempts, lazyVars, confirmVars, cut>>

\* Shutdown returns when nothing is served any more, or at its timeout; the
\* pool is closed, and whatever is still served writes nothing from then on.
FaultyClosePool ==
    /\ main = "shutdown"
    /\ main' = "closing" /\ left' = 0
    /\ cut' = Live
    /\ confirm' = "none" /\ budget' = 0
    /\ UNCHANGED <<config, attempts, lock, age, broken, lazyVars>>
ClosePool ==
    /\ main = "shutdown" /\ (Live => left = 0)
    /\ main' = "closing" /\ left' = 0
    /\ cut' = Live
    /\ confirm' = "none" /\ budget' = 0
    /\ UNCHANGED <<config, attempts, lock, age, broken, lazyVars>>

\* The deferred Close of the connection, after the pool's.
CloseLazy ==
    /\ main = "closing"
    /\ \/ Close /\ UNCHANGED main
       \/ CloseReturns /\ main' = "closed"
    /\ UNCHANGED <<config, left, attempts, confirmVars, cut>>

\* The rest of the deferred calls (connections, profiler) may take any time.
Exit ==
    /\ main = "closed" /\ main' = "exited"
    /\ UNCHANGED <<config, left, attempts, lazyVars, confirmVars, cut>>

\* The process is killed, or fails before it serves.
Kill ==
    /\ main # "exited" /\ main' = "exited"
    /\ confirm' = "none" /\ budget' = 0 /\ left' = 0
    /\ UNCHANGED <<config, attempts, lock, age, broken, lazyVars, cut>>

Main ==
    \/ CheckWindow \/ DialAtStartup \/ BeginShutdown \/ ClosePool \/ CloseLazy
-----------------------------------------------------------------------------
(* The confirm.                                                            *)

Confirming(step, ticks) == confirm' = step /\ budget' = ticks

\* A request comes in; the deadline runs from here, the lock's age from the claim.
Enter ==
    /\ main \in {"serving", "draining"} /\ confirm = "none"
    /\ Confirming("entered", ConfirmDeadline)
    /\ UNCHANGED <<lock, age, broken, lazyVars, mainVars, cut>>

Claim ==
    /\ confirm = "entered" /\ lock = "free"
    /\ confirm' = "working" /\ lock' = "held" /\ age' = 0
    /\ UNCHANGED <<budget, broken, lazyVars, mainVars, cut>>

\* It ends under its deadline, refused, or with the lock released or still set.
EndConfirm ==
    /\ confirm \in {"entered", "working"} /\ Confirming("none", 0)
    /\ lock' \in IF confirm = "working" THEN {lock, "free"} ELSE {lock}
    /\ UNCHANGED <<age, broken, lazyVars, mainVars, cut>>

\* abortPreAttempt: two detached writes, each under its own timeout.
AbortConfirm ==
    /\ confirm = "working" /\ Confirming("aborting", releaseTimeout)
    /\ UNCHANGED <<lock, age, broken, lazyVars, mainVars, cut>>

ReleaseKey ==
    /\ confirm = "aborting" /\ Confirming("releasing", releaseTimeout)
    /\ UNCHANGED <<lock, age, broken, lazyVars, mainVars, cut>>

EndAbort ==
    /\ confirm = "releasing" /\ Confirming("none", 0)
    /\ lock' \in {lock, "free"}
    /\ UNCHANGED <<age, broken, lazyVars, mainVars, cut>>

Confirm == EndConfirm \/ AbortConfirm \/ ReleaseKey \/ EndAbort

\* Another server's claim of the key, under a window that passed the check;
\* the worker's reaping of the session, under one that nothing checks.
Lose(loss) ==
    /\ lock = "held" /\ lock' = loss
    /\ broken' = IF confirm \in Writing THEN loss ELSE broken
    /\ UNCHANGED <<confirm, budget, age, lazyVars, mainVars, cut>>

TakeOver ==
    /\ \E window \in Windows : WindowDwarfs(window) /\ age > window
    /\ Lose("taken")

ExpireDue == age > config.worker /\ Lose("reaped")
-----------------------------------------------------------------------------
\* A context that has run out ends what runs under it before time goes on.
Less(n) == IF n = 0 THEN 0 ELSE n - 1
Tick ==
    /\ \/ left + budget > 0
       \/ lock = "held" /\ age < MaxAge
    /\ Live => budget > 0
    /\ left' = Less(left) /\ budget' = Less(budget)
    /\ age' = IF lock = "held" /\ age < MaxAge THEN age + 1 ELSE age
    /\ UNCHANGED <<lazyVars, main, config, attempts, confirm, lock, broken, cut>>

others == <<mainVars, confirmVars, cut>>
Redial == main # "exited" /\ (TakeResult \/ Abandon) /\ UNCHANGED others
Pace == main # "exited" /\ Pause /\ UNCHANGED others
Reap == main # "exited" /\ ReapDial /\ UNCHANGED others
DialConnects ==
    main # "exited" /\ DialAnswers("connected") /\ UNCHANGED others
DialFails == main # "exited" /\ DialAnswers("failed") /\ UNCHANGED others

Next ==
    \/ Main \/ Signal \/ Exit \/ Kill
    \/ Enter \/ Claim \/ Confirm \/ TakeOver \/ ExpireDue \/ Tick
    \/ Redial \/ Pace \/ Reap \/ DialConnects \/ DialFails

Spec == Init /\ [][Next]_vars

\* Goroutines are scheduled and time passes, however many confirms are served
\* in no time at all; no dial need ever answer, nothing need be signalled, and
\* the last deferred calls need not return.
FairSpec ==
    /\ Spec
    /\ SF_vars(Tick) /\ WF_vars(Main) /\ WF_vars(Confirm)
    /\ WF_vars(Redial) /\ WF_vars(Pace) /\ WF_vars(Reap)
-----------------------------------------------------------------------------
\* "A takeover PROVES the previous owner is dead", though two detached writes
\* outlast MaxConfirmWrite; a confirm loses its session alive only to a worker
\* whose window, unlike the servers', was never checked.
FenceHolds ==
    /\ broken # "taken"
    /\ broken = "reaped" => config.worker <= LastWrite

\* A graceful shutdown closes the pool under a confirm only if its timeout is
\* no longer than a confirm may write (the default is).
CutOnlyByShortShutdown == cut => config.timeout <= LastWrite

\* "Close never waits on an unresponsive endpoint": from the signal on main
\* reaches the end of its shutdown, whatever is dialed or served.
StopsAfterSignal ==
    main = "draining" ~> main \in {"closed", "exited"}

\* "An abandoned dial that succeeds late closes its own client": after Close
\* no connection is left open, if the process lives on.
LateDialIsClosed ==
    closer = "returned" /\ open > 0 ~> open = 0 \/ main = "exited"

\* BUGS-6: a process that lost the startup race with Temporal is connected
\* once Temporal answers, without a restart.
SelfHeals ==
    SF_vars(DialConnects) => (main = "serving" ~> client \/ main # "serving")
=============================================================================
