--------------------------- MODULE LazyConnection ---------------------------
(***************************************************************************)
(* The notifier's connection to Temporal (Lazy): seeded by the startup     *)
(* dial, or dialed in the background until one dial succeeds, and closed   *)
(* once at shutdown without waiting for a dial that does not answer.       *)
(***************************************************************************)
EXTENDS Integers

VARIABLES
    loop,       \* redial: off (not started), select, pace or done
    dial,       \* the dial's goroutine: idle, flying, or its result
    reaper,     \* an abandoned dial's result is waited for
    client,     \* l.client is set
    stop,       \* the stop channel is closed
    closer,     \* Close: off, waiting (for done), returned
    open        \* connections open to Temporal

lazyVars == <<loop, dial, reaper, client, stop, closer, open>>

\* One connection at most, and none closed twice.
LazyTypeOK ==
    /\ loop \in {"off", "select", "pace", "done"}
    /\ dial \in {"idle", "flying", "failed", "connected"}
    /\ reaper \in BOOLEAN /\ client \in BOOLEAN /\ stop \in BOOLEAN
    /\ closer \in {"off", "waiting", "returned"}
    /\ open \in 0..1

LazyInit ==
    /\ loop = "off" /\ dial = "idle" /\ reaper = FALSE /\ client = FALSE
    /\ stop = FALSE /\ closer = "off" /\ open = 0

\* The startup dial succeeded: no loop runs.
NewLazySeeded ==
    /\ loop = "off" /\ loop' = "done"
    /\ client' = TRUE /\ open' = open + 1
    /\ UNCHANGED <<dial, reaper, stop, closer>>

FaultyNewLazy ==
    /\ loop = "off" /\ loop' = "done"
    /\ UNCHANGED <<dial, reaper, client, stop, closer, open>>
NewLazy ==
    /\ loop = "off" /\ loop' = "select" /\ dial' = "flying"
    /\ UNCHANGED <<reaper, client, stop, closer, open>>

\* The dial answers, if it ever does.
DialAnswers(result) ==
    /\ dial = "flying" /\ dial' = result
    /\ open' = IF result = "connected" THEN open + 1 ELSE open
    /\ UNCHANGED <<loop, reaper, client, stop, closer>>

\* The result is taken: the loop is over, or pauses.
TakeResult ==
    /\ loop = "select" /\ dial \in {"failed", "connected"}
    /\ dial' = "idle"
    /\ client' = (dial = "connected")
    /\ loop' = IF dial = "connected" THEN "done" ELSE "pace"
    /\ UNCHANGED <<reaper, stop, closer, open>>

\* Stopped instead, even when the result is there: somebody else takes it.
FaultyAbandon ==
    /\ loop = "select" /\ stop /\ loop' = "done"
    /\ UNCHANGED <<dial, reaper, client, stop, closer, open>>
FaultyAbandonWaits ==
    /\ loop = "select" /\ stop /\ dial # "flying" /\ loop' = "done" /\ reaper' = TRUE
    /\ UNCHANGED <<dial, client, stop, closer, open>>
Abandon ==
    /\ loop = "select" /\ stop
    /\ loop' = "done" /\ reaper' = TRUE
    /\ UNCHANGED <<dial, client, stop, closer, open>>

\* The pause ends: with the next dial, or because of the stop.
Pause ==
    /\ loop = "pace"
    /\ \/ ~stop /\ loop' = "select" /\ dial' = "flying"
       \/ stop /\ loop' = "done" /\ UNCHANGED dial
    /\ UNCHANGED <<reaper, client, stop, closer, open>>

\* An abandoned dial that succeeded closes its own connection.
ReapDial ==
    /\ reaper /\ dial \in {"failed", "connected"}
    /\ reaper' = FALSE /\ dial' = "idle"
    /\ open' = IF dial = "connected" THEN open - 1 ELSE open
    /\ UNCHANGED <<loop, client, stop, closer>>

Close ==
    /\ closer = "off" /\ closer' = "waiting" /\ stop' = TRUE
    /\ UNCHANGED <<loop, dial, reaper, client, open>>

FaultyCloseReturns ==
    /\ closer = "waiting" /\ loop = "done"
    /\ closer' = "returned" /\ client' = FALSE /\ open' = open - 1
    /\ UNCHANGED <<loop, dial, reaper, stop>>
CloseReturns ==
    /\ closer = "waiting" /\ loop = "done"
    /\ closer' = "returned" /\ client' = FALSE
    /\ open' = IF client THEN open - 1 ELSE open
    /\ UNCHANGED <<loop, dial, reaper, stop>>

=============================================================================
