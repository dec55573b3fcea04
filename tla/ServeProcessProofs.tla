------------------------- MODULE ServeProcessProofs -------------------------
(***************************************************************************)
(* Proofs about the serving process, for any durations the configuration   *)
(* may load to.                                                            *)
(*                                                                         *)
(* Both theorems are an accounting of time.  A clock that ran since before *)
(* the confirm last changed its context - the age of its lock, the time    *)
(* spent in the shutdown - and what is left of that context never exceed   *)
(* the end of the phase (PhaseEnd), since each tick moves both.            *)
(***************************************************************************)
EXTENDS ServeProcess, TLAPS

Flags == /\ reaper \in BOOLEAN /\ client \in BOOLEAN
         /\ stop \in BOOLEAN /\ cut \in BOOLEAN

\* One connection at most: the client's, or a dial's that nobody took yet.
LazyInv ==
    /\ loop \in {"off", "select", "pace", "done"}
    /\ dial \in {"idle", "flying", "failed", "connected"}
    /\ closer \in {"off", "waiting", "returned"}
    /\ loop \in {"off", "pace"} => dial = "idle"
    /\ loop # "done" => ~client /\ ~reaper
    /\ client \/ (loop = "done" /\ ~reaper) => dial = "idle"
    /\ client => ~reaper
    /\ client \/ dial = "connected" => open = 1
    /\ ~client /\ dial # "connected" => open = 0

\* When a confirm's phase is over at the latest, counted from its request.
PhaseEnd ==
    CASE confirm \in {"entered", "working"} -> ConfirmDeadline
      [] confirm = "aborting"  -> ConfirmDeadline + releaseTimeout
      [] confirm = "releasing" -> ConfirmDeadline + 2 * releaseTimeout
      [] OTHER -> 0

ProcessTyped ==
    /\ main \in {"config", "dialing", "serving", "draining", "shutdown",
                 "closing", "closed", "exited"}
    /\ config \in Configs
    /\ left \in Nat /\ attempts \in 0..DialAttempts
    /\ confirm \in Writing \cup {"entered", "none"}
    /\ budget \in Nat
    /\ budget <= IF confirm \in {"entered", "working"} THEN ConfirmDeadline
                 ELSE IF confirm = "none" THEN 0 ELSE releaseTimeout
    /\ lock \in {"free", "held", "taken", "reaped"} /\ age \in 0..MaxAge
    /\ broken \in {"none", "taken", "reaped"}
    /\ main \in {"config", "dialing"} => attempts > 0
    /\ main \notin {"serving", "draining", "shutdown"} => confirm = "none"

\* The owner of a lock knows its age.
LockClock ==
    lock = "held" /\ confirm \in Writing => age + budget <= PhaseEnd

\* Of the shutdown's timeout some has passed, the rest is left.
ShutdownClock ==
    main = "shutdown" =>
        /\ left <= config.timeout
        /\ Live => (config.timeout - left) + budget <= PhaseEnd

\* What the connection has no part in.
Clocks ==
    /\ ProcessTyped /\ LockClock /\ ShutdownClock
    /\ FenceHolds /\ CutOnlyByShortShutdown

IInv == Flags /\ LazyInv /\ Clocks
-----------------------------------------------------------------------------
LEMMA FlagsStart == Init => Flags
BY Zenon DEF Init, LazyInit, Flags

LEMMA FlagsStep == ASSUME Flags, [Next]_vars PROVE Flags'
<1>1. reaper' \in BOOLEAN /\ client' \in BOOLEAN /\ stop' \in BOOLEAN
  <2>1. \/ NewLazySeeded \/ NewLazy \/ TakeResult \/ Abandon \/ Pause
        \/ ReapDial \/ Close \/ CloseReturns \/ UNCHANGED lazyVars
        \/ DialAnswers("connected") \/ DialAnswers("failed")
    BY DEF Next, vars, Main, CheckWindow, DialAtStartup, BeginShutdown,
       ClosePool, CloseLazy, Signal, Exit, Kill, Enter, Claim, Confirm,
       EndConfirm, AbortConfirm, ReleaseKey, EndAbort, TakeOver, ExpireDue,
       Lose, Tick, Redial, Pace, Reap, DialConnects, DialFails
  <2> QED BY <2>1, Zenon DEF Flags, NewLazySeeded, NewLazy, TakeResult, Abandon,
          Pause, ReapDial, Close, CloseReturns, DialAnswers, lazyVars
<1>2. cut' \in BOOLEAN
  <2>1. ClosePool \/ UNCHANGED cut
    BY DEF Next, vars, Main, CheckWindow, DialAtStartup, BeginShutdown,
       CloseLazy, Signal, Exit, Kill, Enter, Claim, Confirm,
       EndConfirm, AbortConfirm, ReleaseKey, EndAbort, TakeOver, ExpireDue,
       Lose, Tick, Redial, Pace, Reap, DialConnects, DialFails, others
  <2> QED BY <2>1, Zenon DEF Flags, ClosePool, Live
<1> QED BY <1>1, <1>2, Zenon DEF Flags

LEMMA LazyStarts == LazyInit => LazyInv
BY DEF LazyInit, LazyInv

\* Every step of the connection, its startup and its shutdown keep it single.
LEMMA LazyStep ==
    ASSUME LazyInv,
           \/ NewLazySeeded \/ NewLazy \/ TakeResult \/ Abandon \/ Pause
           \/ ReapDial \/ Close \/ CloseReturns \/ UNCHANGED lazyVars
           \/ DialAnswers("connected") \/ DialAnswers("failed")
    PROVE  LazyInv'
<1>1. CASE NewLazySeeded \/ NewLazy
  BY <1>1 DEF LazyInv, NewLazySeeded, NewLazy
<1>2. CASE TakeResult
  BY <1>2 DEF LazyInv, TakeResult
<1>3. CASE Abandon \/ Pause
  BY <1>3 DEF LazyInv, Abandon, Pause
<1>4. CASE ReapDial
  BY <1>4 DEF LazyInv, ReapDial
<1>5. CASE Close \/ CloseReturns
  BY <1>5 DEF LazyInv, Close, CloseReturns
<1>6. CASE DialAnswers("connected") \/ DialAnswers("failed")
  BY <1>6 DEF LazyInv, DialAnswers
<1>7. CASE UNCHANGED lazyVars
  BY <1>7 DEF LazyInv, lazyVars
<1> QED BY <1>1, <1>2, <1>3, <1>4, <1>5, <1>6, <1>7

LEMMA ClocksStart == Init => Clocks
BY ProcessAssumption
   DEF Init, Clocks, ProcessTyped, LockClock, ShutdownClock, FenceHolds,
       CutOnlyByShortShutdown, Writing

\* main's steps start no confirm; the shutdown's clock starts at zero, and the
\* pool is closed under a confirm only when it has run out.
LEMMA MainStep ==
    ASSUME Clocks,
           Main \/ Signal \/ Exit \/ Kill
    PROVE  Clocks'
<1> USE ProcessAssumption
<1>1. CASE CheckWindow
  BY <1>1 DEF CheckWindow, Clocks, ProcessTyped, LockClock, ShutdownClock,
     FenceHolds, CutOnlyByShortShutdown, Writing, Live, PhaseEnd, confirmVars
<1>2. CASE DialAtStartup
  BY <1>2 DEF DialAtStartup, Clocks, ProcessTyped, LockClock, ShutdownClock,
     FenceHolds, CutOnlyByShortShutdown, Writing, Live, PhaseEnd, confirmVars
<1>3. CASE Signal
  BY <1>3 DEF Signal, Clocks, ProcessTyped, LockClock, ShutdownClock, Configs,
     FenceHolds, CutOnlyByShortShutdown, Writing, Live, PhaseEnd, confirmVars
<1>4. CASE BeginShutdown
  BY <1>4 DEF BeginShutdown, Clocks, ProcessTyped, LockClock, ShutdownClock, Configs,
     FenceHolds, CutOnlyByShortShutdown, Writing, Live, PhaseEnd, confirmVars
<1>5. CASE ClosePool
  <2>1. Live => config.timeout <= LastWrite
    BY <1>5 DEF ClosePool, Clocks, ProcessTyped, ShutdownClock, Configs,
       Writing, Live, PhaseEnd, LastWrite
  <2>2. cut' = Live /\ UNCHANGED <<config, broken>>
    BY <1>5 DEF ClosePool
  <2>3. (FenceHolds /\ CutOnlyByShortShutdown)'
    BY <2>1, <2>2 DEF Clocks, FenceHolds, CutOnlyByShortShutdown, LastWrite
  <2>4. (ProcessTyped /\ LockClock /\ ShutdownClock)'
    BY <1>5 DEF ClosePool, Clocks, ProcessTyped, LockClock, ShutdownClock,
       Writing, Live
  <2> QED BY <2>3, <2>4 DEF Clocks
<1>6. CASE CloseLazy
  BY <1>6 DEF CloseLazy, Clocks, ProcessTyped, LockClock, ShutdownClock,
     FenceHolds, CutOnlyByShortShutdown, Writing, Live, PhaseEnd, confirmVars
<1>7. CASE Exit
  BY <1>7 DEF Exit, Clocks, ProcessTyped, LockClock, ShutdownClock,
     FenceHolds, CutOnlyByShortShutdown, Writing, Live, PhaseEnd, confirmVars
<1>8. CASE Kill
  BY <1>8 DEF Kill, Clocks, ProcessTyped, LockClock, ShutdownClock,
     FenceHolds, CutOnlyByShortShutdown, Writing
<1> QED BY <1>1, <1>2, <1>3, <1>4, <1>5, <1>6, <1>7, <1>8 DEF Main

\* Each step of a confirm starts a phase no later than the last one ended.
LEMMA ConfirmStep ==
    ASSUME Clocks, Enter \/ Claim \/ Confirm
    PROVE  Clocks'
<1> USE ProcessAssumption
<1>1. UNCHANGED <<mainVars, broken, cut>>
  BY DEF Enter, Claim, Confirm, EndConfirm, AbortConfirm, ReleaseKey, EndAbort
<1>2. (FenceHolds /\ CutOnlyByShortShutdown)'
  BY <1>1 DEF Clocks, FenceHolds, CutOnlyByShortShutdown, mainVars
<1>3. ProcessTyped'
  BY <1>1 DEF Clocks, ProcessTyped, mainVars, Enter, Claim, Confirm, Confirming,
     EndConfirm, AbortConfirm, ReleaseKey, EndAbort, Writing
<1>4. LockClock'
  BY <1>1 DEF Clocks, LockClock, ProcessTyped, PhaseEnd, Enter, Claim, Confirm,
     Confirming, EndConfirm, AbortConfirm, ReleaseKey, EndAbort, Writing
<1>5. ShutdownClock'
  BY <1>1 DEF Clocks, ShutdownClock, ProcessTyped, PhaseEnd, Enter, Claim, Confirm,
     Confirming, EndConfirm, AbortConfirm, ReleaseKey, EndAbort, Writing, Live,
     mainVars, Configs
<1> QED BY <1>2, <1>3, <1>4, <1>5 DEF Clocks

\* A window that passed the check is longer than a lock of a live owner is old;
\* the worker's may be shorter.
LEMMA LossStep ==
    ASSUME Clocks, TakeOver \/ ExpireDue
    PROVE  Clocks'
<1> USE ProcessAssumption
<1>1. lock = "held" /\ confirm \in Writing => age <= LastWrite
  BY DEF Clocks, LockClock, ProcessTyped, PhaseEnd, Writing, LastWrite
<1>2. CASE TakeOver
  <2>1. PICK window \in Windows : WindowDwarfs(window) /\ age > window
    BY <1>2 DEF TakeOver
  <2>2. age > LastWrite
    BY <2>1 DEF WindowDwarfs, MaxConfirmWrite, LastWrite, Clocks, ProcessTyped
  <2>3. confirm \notin Writing
    BY <1>1, <1>2, <2>2 DEF TakeOver, Lose, LastWrite, Clocks, ProcessTyped
  <2>4. UNCHANGED <<broken, confirm, budget, age, mainVars, cut>> /\ lock' = "taken"
    BY <1>2, <2>3 DEF TakeOver, Lose
  <2> QED BY <2>4 DEF Clocks, ProcessTyped, LockClock, ShutdownClock, FenceHolds,
          CutOnlyByShortShutdown, PhaseEnd, Live, mainVars
<1>3. CASE ExpireDue
  <2>1. confirm \in Writing => config.worker <= LastWrite
    <3>1. config.worker \in Nat
      BY DEF Clocks, ProcessTyped, Configs
    <3>2. age \in Nat /\ LastWrite \in Nat
      BY DEF Clocks, ProcessTyped, LastWrite
    <3>3. lock = "held" /\ age > config.worker
      BY <1>3 DEF ExpireDue, Lose
    <3> QED BY <1>1, <3>1, <3>2, <3>3
  <2>2. /\ UNCHANGED <<confirm, budget, age, mainVars, cut>> /\ lock' = "reaped"
        /\ broken' = IF confirm \in Writing THEN "reaped" ELSE broken
    BY <1>3 DEF ExpireDue, Lose
  <2>3. FenceHolds'
    BY <2>1, <2>2 DEF Clocks, FenceHolds, mainVars
  <2> QED BY <2>2, <2>3 DEF Clocks, ProcessTyped, LockClock, ShutdownClock,
          CutOnlyByShortShutdown, PhaseEnd, Live, mainVars
<1> QED BY <1>2, <1>3

\* A tick moves every clock, and what is left of a context, by one.
LEMMA TickStep == ASSUME Clocks, Tick PROVE Clocks'
<1> USE ProcessAssumption
<1>1. UNCHANGED <<main, config, attempts, confirm, lock, broken, cut>>
  BY DEF Tick
<1>2. (FenceHolds /\ CutOnlyByShortShutdown)'
  BY <1>1 DEF Clocks, FenceHolds, CutOnlyByShortShutdown
<1>3. ProcessTyped'
  BY <1>1 DEF Clocks, ProcessTyped, Tick, Less, Writing, Live
<1>4. LockClock'
  BY <1>1 DEF Clocks, LockClock, ProcessTyped, PhaseEnd, Tick, Less, Writing, Live
<1>5. ShutdownClock'
  BY <1>1 DEF Clocks, ShutdownClock, ProcessTyped, PhaseEnd, Tick, Less, Writing,
     Live, Configs
<1> QED BY <1>2, <1>3, <1>4, <1>5 DEF Clocks

LEMMA ClocksStay == ASSUME Clocks, UNCHANGED <<mainVars, confirmVars, cut>> PROVE Clocks'
BY DEF Clocks, ProcessTyped, LockClock, ShutdownClock, FenceHolds,
   CutOnlyByShortShutdown, PhaseEnd, Live, mainVars, confirmVars

LEMMA NextStep == ASSUME IInv, [Next]_vars PROVE IInv'
<1>0. Flags'
  BY FlagsStep DEF IInv
<1>1. LazyInv /\ Clocks
  BY DEF IInv
<1>2. CASE Main \/ Signal \/ Exit \/ Kill
  <2>1. LazyInv'
    BY <1>1, <1>2, LazyStep DEF Main, CheckWindow, DialAtStartup, BeginShutdown,
       ClosePool, CloseLazy, Signal, Exit, Kill
  <2> QED BY <1>0, <1>1, <1>2, <2>1, MainStep DEF IInv
<1>3. CASE Enter \/ Claim \/ Confirm \/ TakeOver \/ ExpireDue \/ Tick
  <2>1. UNCHANGED lazyVars
    BY <1>3 DEF Enter, Claim, Confirm, EndConfirm, AbortConfirm, ReleaseKey,
       EndAbort, TakeOver, ExpireDue, Lose, Tick
  <2> QED BY <1>0, <1>1, <1>3, <2>1, LazyStep, ConfirmStep, LossStep, TickStep
          DEF IInv
<1>4. CASE Redial \/ Pace \/ Reap \/ DialConnects \/ DialFails \/ UNCHANGED vars
  <2>1. LazyInv'
    BY <1>1, <1>4, LazyStep DEF Redial, Pace, Reap, DialConnects, DialFails, vars
  <2>2. UNCHANGED <<mainVars, confirmVars, cut>>
    BY <1>4 DEF Redial, Pace, Reap, DialConnects, DialFails, vars, others
  <2> QED BY <1>0, <1>1, <2>1, <2>2, ClocksStay DEF IInv
<1> QED BY <1>2, <1>3, <1>4 DEF Next
-----------------------------------------------------------------------------
\* The inductive invariant holds for any durations.
THEOREM Invariance == Spec => []IInv
<1>1. Init => IInv
  BY FlagsStart, LazyStarts, ClocksStart DEF Init, IInv
<1>2. IInv /\ [Next]_vars => IInv'
  BY NextStep
<1> QED BY <1>1, <1>2, PTL DEF Spec

\* Types, and that there is at most one open connection to Temporal, closed at
\* most once, however dials, results and the shutdown interleave.
THEOREM OneConnection == Spec => []TypeOK
<1>1. IInv => TypeOK
  BY ProcessAssumption
     DEF IInv, Clocks, TypeOK, LazyTypeOK, LazyInv, Flags, ProcessTyped, Writing
<1> QED BY <1>1, Invariance, PTL

\* No window that passed the start-up check takes a lock from an owner that may
\* still write, whatever the confirm deadline and the release timeout are.
THEOREM FencedOut == Spec => []FenceHolds
<1>1. IInv => FenceHolds
  BY DEF IInv, Clocks
<1> QED BY <1>1, Invariance, PTL

\* The pool is closed under a confirm only by a shutdown timeout that is no
\* longer than a confirm may write.
THEOREM CutIsConfigured == Spec => []CutOnlyByShortShutdown
<1>1. IInv => CutOnlyByShortShutdown
  BY DEF IInv, Clocks
<1> QED BY <1>1, Invariance, PTL
=============================================================================
