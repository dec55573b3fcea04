----------------------- MODULE AbandonedCheckoutProofs -----------------------
(***************************************************************************)
(* Proofs about the abandonment watch, for any TTL, takeover window, reset *)
(* cap and number of signals under way.                                    *)
(*                                                                         *)
(* A watch may stop for three reasons only: the session has ended, an      *)
(* attempt is on record, or there is an excuse.  The first is final.  A    *)
(* marked session comes back by an edit only, which sends a signal; one    *)
(* that may come back without (MayReturn) has the excuse already, even     *)
(* while its confirm is under way.                                         *)
(***************************************************************************)
EXTENDS AbandonedCheckout, TLAPS

Ended == {"completed", "cancelled", "expired"}

\* TypeOK without the flags.
Typed ==
    /\ status \in {"working", "confirming"} \cup Ended
    /\ left \in 0..TTL /\ stale \in 0..Takeover
    /\ claim \in {"none", "open", "marked"}
    /\ sending \in 0..MaxSignals /\ activity \in 0..MaxSignals
    /\ watch \in {"off", "armed", "done"} \cup Asking
    /\ wait \in Nat /\ (wait <= TTL \/ wait <= Takeover)
    /\ resets \in Nat /\ resets < maxResets
    /\ excuse \in {"none", "lost", "raced"}

Flags == alive \in BOOLEAN /\ ending \in BOOLEAN /\ finalize \in BOOLEAN

\* What has been finalized has ended.
FinalizeInv == ending \/ finalize => status \in Ended

\* The gate and the binding are written together.
ClaimInv == status = "confirming" => claim # "none"

MayReturn == status = "working" \/ (status = "confirming" /\ claim = "open")

\* A run between its two queries has an excuse for what came back.
WatchInv ==
    /\ status = "working" /\ watch = "binding" => excuse # "none"
    /\ MayReturn /\ watch = "done" => excuse # "none"
    /\ MayReturn /\ watch = "off" /\ sending = 0 => excuse # "none"

IInv == Typed /\ FinalizeInv /\ ClaimInv /\ WatchInv
-----------------------------------------------------------------------------
LEMMA InitHolds == Init => IInv
BY WatchAssumption
   DEF Init, IInv, Typed, FinalizeInv, ClaimInv, WatchInv, MayReturn, Ended

\* The shopper and the confirm: what may return without a signal was so
\* already, an edit sends one, and a session that ends is final.
LEMMA ShopperStep ==
    ASSUME IInv, Shopper \/ UndoConfirm \/ CompleteSession \/ ConfirmStops
    PROVE  IInv'
<1> USE WatchAssumption
        DEF IInv, Typed, FinalizeInv, ClaimInv, WatchInv, MayReturn, Ended,
            watchVars, runVars
<1>1. CASE Mutate \/ ReuseSession
  BY <1>1 DEF Mutate, ReuseSession, Touch, SignalActivity
<1>2. CASE LazyExpire \/ Cancel
  BY <1>2 DEF LazyExpire, Cancel, sentVars
<1>3. CASE BeginConfirm \/ Reenter
  BY <1>3 DEF BeginConfirm, Reenter, Lock, sentVars
<1>4. CASE Checkpoint \/ UndoConfirm
  BY <1>4 DEF Checkpoint, UndoConfirm, ComesBack, sentVars
<1>5. CASE CompleteSession \/ ConfirmStops
  BY <1>5 DEF CompleteSession, ConfirmStops, sentVars
<1>6. CASE EditConfirming
  BY <1>6 DEF EditConfirming, ComesBack, Touch, SignalActivity
<1> QED BY <1>1, <1>2, <1>3, <1>4, <1>5, <1>6 DEF Shopper

\* The signals: the last one that is lost on an absent watch is an excuse.
LEMMA SignalStep ==
    ASSUME IInv, DeliverActivity \/ DeliverFinalize \/ LoseSignal
    PROVE  IInv'
<1> USE WatchAssumption
        DEF IInv, Typed, FinalizeInv, ClaimInv, WatchInv, MayReturn, Ended,
            rowVars
<1>1. CASE DeliverActivity
  BY <1>1 DEF DeliverActivity
<1>2. CASE DeliverFinalize
  BY <1>2 DEF DeliverFinalize
<1>3. CASE LoseSignal
  BY <1>3 DEF LoseSignal
<1> QED BY <1>1, <1>2, <1>3

\* The workflow: it ends on what is final, or leaves an excuse.
LEMMA WorkerStep ==
    ASSUME IInv, Worker \/ ActivityFails
    PROVE  IInv'
<1> USE WatchAssumption
        DEF IInv, Typed, FinalizeInv, ClaimInv, WatchInv, MayReturn, Ended,
            rowVars, sentVars, Asking
<1>1. CASE Finalize \/ Done
  BY <1>1 DEF Finalize, Done, Drain
<1>2. CASE ResetTimer
  BY <1>2 DEF ResetTimer, Rotate, AtCap
<1>3. CASE TimerFires
  BY <1>3 DEF TimerFires
<1>4. CASE ExpireWorking
  BY <1>4 DEF ExpireWorking, Ask
<1>5. CASE ExpireParked
  BY <1>5 DEF ExpireParked, Ask
<1>6. CASE ReadStatus
  BY <1>6 DEF ReadStatus, Ask, Rearm, Max2
<1>7. CASE ReadBinding
  BY <1>7 DEF ReadBinding, Ask, Rearm
<1>8. CASE ActivityFails
  BY <1>8 DEF ActivityFails, Ask, Retry
<1> QED BY <1>1, <1>2, <1>3, <1>4, <1>5, <1>6, <1>7, <1>8 DEF Worker

LEMMA NextStep == ASSUME IInv, [Next]_vars PROVE IInv'
<1>1. CASE Tick \/ UNCHANGED vars
  BY <1>1, WatchAssumption
     DEF Tick, Less, vars, rowVars, watchVars, runVars, sentVars, IInv, Typed,
         FinalizeInv, ClaimInv, WatchInv, MayReturn, Ended
<1> QED BY <1>1, ShopperStep, SignalStep, WorkerStep DEF Next

\* The flags stay Boolean.
LEMMA FlagsStep == ASSUME Flags, [Next]_vars PROVE Flags'
<1>1. alive' \in {alive, TRUE, FALSE} /\ ending' \in {ending, TRUE, FALSE}
  BY DEF Next, Shopper, Mutate, ReuseSession, EditConfirming, ComesBack, Touch,
     SignalActivity, LazyExpire, Cancel, BeginConfirm, Reenter, Lock,
     Checkpoint, UndoConfirm, CompleteSession, ConfirmStops, DeliverActivity,
     DeliverFinalize, LoseSignal, Worker, Finalize, ResetTimer, TimerFires,
     ExpireWorking, ExpireParked, ReadStatus, ReadBinding, Done, ActivityFails,
     Tick, vars, rowVars, sentVars
<1>2. \/ finalize' \in {finalize, FALSE}
      \/ finalize' = (watch # "off")
  BY DEF Next, Shopper, Mutate, ReuseSession, EditConfirming, ComesBack, Touch,
     SignalActivity, LazyExpire, Cancel, BeginConfirm, Reenter, Lock,
     Checkpoint, UndoConfirm, CompleteSession, ConfirmStops, DeliverActivity,
     DeliverFinalize, LoseSignal, Worker, Finalize, ResetTimer, Rotate, Drain,
     Ask, Rearm, TimerFires, ExpireWorking, ExpireParked, ReadStatus,
     ReadBinding, Done, ActivityFails, Tick, vars, watchVars, runVars
<1> QED BY <1>1, <1>2, Zenon DEF Flags
-----------------------------------------------------------------------------
\* The inductive invariant holds for any durations and caps.
THEOREM Invariance == Spec => []IInv
<1>1. Init => IInv
  BY InitHolds
<1>2. IInv /\ [Next]_vars => IInv'
  BY NextStep
<1> QED BY <1>1, <1>2, PTL DEF Spec

\* Types; in particular no run outlives its reset cap.
THEOREM TypeCorrect == Spec => []TypeOK
<1>1. Init => Flags
  BY Zenon DEF Init, Flags
<1>2. Flags /\ [Next]_vars => Flags'
  BY FlagsStep
<1>3. IInv /\ Flags => TypeOK
  BY WatchAssumption DEF IInv, Typed, Flags, TypeOK, Max2, Ended
<1> QED BY <1>1, <1>2, <1>3, Invariance, PTL DEF Spec

\* A working session is watched, about to be, or there is an excuse: its last
\* signal was lost, or it came back from a confirm while a run was ending.
THEOREM WatchIsKept == Spec => []WatchedOrExcused
<1>1. IInv => WatchedOrExcused
  BY DEF IInv, WatchInv, MayReturn, WatchedOrExcused, Unwatched
<1> QED BY <1>1, Invariance, PTL
-----------------------------------------------------------------------------
(* What a running watch may stop for.                                      *)

\* Without the race, what a run has read as confirming has not come back, and
\* whoever is watched needs no excuse.
CalmInv ==
    /\ watch \in {"binding", "done"} => status # "working"
    /\ excuse # "raced"
    /\ watch # "off" => excuse = "none"

LEMMA CalmStep ==
    ASSUME IInv, CalmInv, [Next]_vars,
           [ComesBack => watch \notin {"binding", "done"}]_vars
    PROVE  CalmInv'
<1> USE DEF CalmInv, IInv, Typed, rowVars, sentVars, watchVars, runVars
<1>1. CASE \/ Mutate \/ ReuseSession \/ LazyExpire \/ Cancel
           \/ BeginConfirm \/ Reenter \/ Checkpoint
  BY <1>1 DEF Mutate, ReuseSession, LazyExpire, Cancel, BeginConfirm, Reenter,
     Checkpoint
<1>2. CASE EditConfirming \/ UndoConfirm
  <2>1. ComesBack
    BY <1>2 DEF EditConfirming, UndoConfirm
  <2>2. watch \notin {"binding", "done"}
    BY <2>1 DEF ComesBack, vars
  <2> QED BY <2>1, <2>2 DEF ComesBack
<1>3. CASE DeliverActivity \/ DeliverFinalize \/ LoseSignal
  BY <1>3 DEF DeliverActivity, DeliverFinalize, LoseSignal
<1>4. CASE Worker \/ ActivityFails
  BY <1>4 DEF Worker, Finalize, ResetTimer, Rotate, TimerFires, ExpireWorking,
     ExpireParked, ReadStatus, ReadBinding, Done, Drain, Ask, Rearm,
     ActivityFails, Retry, Asking
<1>5. CASE CompleteSession \/ ConfirmStops \/ Tick \/ UNCHANGED vars
  BY <1>5 DEF CompleteSession, ConfirmStops, Tick, vars
<1> QED BY <1>1, <1>2, <1>3, <1>4, <1>5 DEF Next, Shopper

LEMMA CalmInvariance == Spec /\ NoneRaced => []CalmInv
<1>1. Init => CalmInv
  BY DEF Init, CalmInv
<1>2. /\ IInv /\ CalmInv /\ [Next]_vars
      /\ [ComesBack => watch \notin {"binding", "done"}]_vars
      => CalmInv'
  BY CalmStep
<1> QED BY <1>1, <1>2, Invariance, PTL DEF Spec, NoneRaced

\* But for lost signals, a watch that was given up on a session back in the
\* funnel has one cause: the session came back, undone or edited, after the
\* ending run had read it as confirming.
THEOREM GivingUpHasOneCause == Spec /\ NoneRaced => []GivenUpOnlyWhenDead
<1>1. IInv /\ CalmInv => GivenUpOnlyWhenDead
  BY DEF IInv, Typed, WatchInv, MayReturn, CalmInv, GivenUpOnlyWhenDead,
     Unwatched
<1> QED BY <1>1, Invariance, CalmInvariance, PTL

\* Only a run that was finalized or has its answer ends.
LEMMA EndStep ==
    ASSUME [Next]_vars, watch # "off", watch' = "off"
    PROVE  watch = "done" \/ (watch = "armed" /\ finalize)
BY DEF Next, Shopper, Mutate, ReuseSession, EditConfirming, ComesBack, Touch,
   SignalActivity, LazyExpire, Cancel, BeginConfirm, Reenter, Checkpoint,
   UndoConfirm, CompleteSession, ConfirmStops, DeliverActivity,
   DeliverFinalize, LoseSignal, Worker, Finalize, ResetTimer, Rotate, Drain,
   Ask, Rearm, TimerFires, ExpireWorking, ExpireParked, ReadStatus,
   ReadBinding, Done, ActivityFails, Retry, Tick, vars, watchVars, runVars

\* But for that race, the loop stops for its two answers and nothing else.
THEOREM LoopStopsForGood == Spec /\ NoneRaced => StopsOnlyForGood
<1>1. IInv /\ CalmInv /\ [Next]_vars =>
        [watch # "off" /\ watch' = "off" =>
            \/ status \in {"completed", "cancelled", "expired"}
            \/ status = "confirming" /\ claim = "marked"]_vars
  BY EndStep DEF IInv, Typed, FinalizeInv, ClaimInv, WatchInv, MayReturn,
     CalmInv, Ended
<1> QED BY <1>1, Invariance, CalmInvariance, PTL DEF Spec, StopsOnlyForGood
-----------------------------------------------------------------------------
(* What a watch may reap.                                                  *)

\* A live execution's lock has not gone stale.
LockInv == alive => stale # 0

LEMMA LockStep ==
    ASSUME IInv, LockInv, [Next]_vars
    PROVE  LockInv'
<1>1. CASE UNCHANGED <<alive, stale>>
  BY <1>1, Zenon DEF LockInv
<1>2. CASE BeginConfirm \/ Reenter
  <2>1. stale' # 0
    BY <1>2, WatchAssumption DEF BeginConfirm, Reenter, Lock
  <2> QED BY <2>1, Zenon DEF LockInv
<1>3. CASE UndoConfirm \/ CompleteSession \/ ConfirmStops
  <2>1. alive' = FALSE
    BY <1>3, Zenon DEF UndoConfirm, CompleteSession, ConfirmStops
  <2> QED BY <2>1, Zenon DEF LockInv
<1>4. CASE Tick
  <2>1. stale \in Nat
    BY WatchAssumption DEF IInv, Typed
  <2>2. stale > 1 => stale' # 0
    BY <1>4, <2>1 DEF Tick, Less
  <2>3. UNCHANGED alive /\ (alive => stale > 1)
    BY <1>4, Zenon DEF Tick
  <2> QED BY <2>2, <2>3, Zenon DEF LockInv
<1> QED BY <1>1, <1>2, <1>3, <1>4 DEF Next, Shopper, Mutate, ReuseSession,
        EditConfirming, Touch, LazyExpire, Cancel, Checkpoint, DeliverActivity,
        DeliverFinalize, LoseSignal, Worker, Finalize, ResetTimer, TimerFires,
        ExpireWorking, ExpireParked, ReadStatus, ReadBinding, Done,
        ActivityFails, vars, rowVars

\* Only a confirm that is provably dead, and left no attempt, is reaped.
THEOREM OnlyTheDeadAreReaped == Spec => ReapsOnlyTheDead
<1>1. Init => LockInv
  BY Zenon DEF Init, LockInv
<1>2. IInv /\ LockInv /\ [Next]_vars => LockInv'
  BY LockStep
<1>3. IInv /\ LockInv /\ [Next]_vars =>
        [status = "confirming" /\ status' = "expired" =>
            Due /\ claim = "open" /\ ~alive]_vars
  <2>1. ASSUME [Next]_vars, status = "confirming", status' = "expired"
        PROVE  Due /\ claim = "open" /\ stale = 0
    BY <2>1 DEF Next, Shopper, Mutate, ReuseSession, EditConfirming, ComesBack,
       Touch, SignalActivity, LazyExpire, Cancel, BeginConfirm, Reenter,
       Checkpoint, UndoConfirm, CompleteSession, ConfirmStops, DeliverActivity,
       DeliverFinalize, LoseSignal, Worker, Finalize, ResetTimer, TimerFires,
       ExpireWorking, ExpireParked, ProvablyDead, ReadStatus, ReadBinding,
       Done, ActivityFails, Tick, vars, rowVars
  <2> QED BY <2>1, Zenon DEF LockInv
<1> QED BY <1>1, <1>2, <1>3, Invariance, PTL DEF Spec, ReapsOnlyTheDead
=============================================================================
