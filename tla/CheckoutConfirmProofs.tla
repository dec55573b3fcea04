----------------------- MODULE CheckoutConfirmProofs -----------------------
(***************************************************************************)
(* Proofs about the confirm protocol for any number of sessions, keys,     *)
(* executions and contents, with or without edits during a confirm.        *)
(*                                                                         *)
(* The inductive invariant says, in this order: an execution has its       *)
(* arguments; it owns the claim it works under; what it knows about the    *)
(* attempt marker is what the claim says; while it drives a session the    *)
(* session is bound to its claim; a marker binds its session; an order     *)
(* binds its session; a completed session never changes again, shows an    *)
(* existing order and is what is cached.                                   *)
(***************************************************************************)
EXTENDS CheckoutConfirm, TLAPS

Owning(e) == pc[e] \notin {"idle", "lazy", "claim", "release"}
Undoable == {"revalidate", "requote", "redeem", "strip", "abort", "mark"}
Committed == {"place", "record", "backfill", "complete", "recheck", "finish"}

\* A running execution knows its session, its key and one read of the row.
HasArguments ==
    \A e \in Execs : pc[e] # "idle" =>
        /\ es[e] \in Sessions /\ ek[e] \in Keys
        /\ snap[e].content \in Contents

\* From Claim to its end an execution holds the claim's lock, for its own
\* session, and the claim is unanswered.
OwnsClaim ==
    \A e \in Execs : Owning(e) =>
        /\ holder[ek[e]] = e /\ claimFor[ek[e]] = es[e]
        /\ cached[ek[e]] = NoReply

\* A held lock is held by an execution that works under this key, for the
\* session the claim is for.
LockHasOwner ==
    \A k \in Keys : holder[k] \in Execs =>
        /\ pc[holder[k]] \notin {"idle", "lazy", "claim"}
        /\ ek[holder[k]] = k /\ es[holder[k]] = claimFor[k]

\* A row that does not exist has no answer.
NoRowNoAnswer == \A k \in Keys : claimFor[k] = NoSession => cached[k] = NoReply

\* The marker as the execution learned it is the marker of its claim.
KnowsMarker ==
    \A e \in Execs :
        /\ pc[e] \in {"enter", "reread"} => (marked[e] <=> subject[ek[e]] # "none")
        /\ pc[e] \in Undoable => subject[ek[e]] = "none"
        /\ pc[e] \in Committed => subject[ek[e]] # "none"

DriverIsBound ==
    \A e \in Execs : Driving(e) => bound[es[e]] = ClaimId(ek[e])

MarkerBinds ==
    \A k \in Keys : claimFor[k] # NoSession /\ subject[k] # "none" =>
        bound[claimFor[k]] = ClaimId(k)

\* Past CreateOrder the order exists.
DriverHasOrder ==
    \A e \in Execs : pc[e] \in {"record", "backfill", "complete"} =>
        Ordered(es[e], ek[e])

\* A session still confirming has the contents its driver read.
DriverSeesContent ==
    \A e \in Execs :
        Driving(e) /\ pc[e] # "finish" /\ status[es[e]] = "confirming" =>
            content[es[e]] = snap[e].content

\* A read that showed a completed session stays true.
CompletedReadIsFinal ==
    \A e \in Execs : pc[e] # "idle" /\ snap[e].status = "completed" =>
        /\ status[es[e]] = "completed"
        /\ bound[es[e]] = snap[e].bound /\ content[es[e]] = snap[e].content

\* Only a completed session is about to be cached.
FinishingIsCompleted ==
    \A e \in Execs : pc[e] \in {"finish", "refinish"} =>
        /\ status[es[e]] = "completed"
        /\ bound[es[e]] = ClaimId(ek[e]) /\ content[es[e]] = snap[e].content

-----------------------------------------------------------------------------
(* The inductive invariant in layers: each layer's step lemma uses those   *)
(* before it.                                                              *)

Typed    == TypeOK /\ HasArguments
ClaimInv == OwnsClaim /\ LockHasOwner /\ NoRowNoAnswer
BindInv  == DriverIsBound /\ MarkerBinds
OrderInv == DriverHasOrder /\ OrderBindsSession
ShownInv ==
    /\ DriverSeesContent /\ CompletedReadIsFinal /\ FinishingIsCompleted
    /\ CompletedShowsItsOrder /\ CachedAnswerIsShown

\* What the funnel's writes and the expiry of a working session have in
\* common: bindings and orders stay, a completed session is left alone, none
\* becomes completed, and one left in confirming keeps its contents.
FunnelFrame ==
    /\ Elsewhere /\ UNCHANGED <<bound, orderId>>
    /\ status' \in [Sessions -> Status]
    /\ content' \in [Sessions -> Contents]
    /\ due' \in [Sessions -> BOOLEAN]
    /\ \A s \in Sessions :
          /\ status[s] = "completed" <=> status'[s] = "completed"
          /\ status[s] = "completed" => content'[s] = content[s]
          /\ status'[s] = "confirming" =>
                status[s] = "confirming" /\ content'[s] = content[s]

\* The FSM has no edge into completed but from confirming, none out of a
\* terminal status, and none into confirming but from ready.
LEMMA FSMEdges ==
  ASSUME NEW from \in Status, NEW to, CanTransition(from, to)
  PROVE  /\ to \in Status /\ from \notin Terminal
         /\ to = "completed" => from = "confirming"
         /\ to = "confirming" => from = "ready"
  BY DEF CanTransition, transitions, Status, Active, Working, Terminal

\* Each of the funnel's writes keeps to that frame.
LEMMA FunnelSteps ==
  ASSUME TypeOK, NEW s \in Sessions,
         \/ SetAddress(s) \/ SetShipping(s) \/ SetPayment(s) \/ SetPromo(s)
         \/ Cancel(s) \/ Touch(s) \/ DeadlinePasses(s) \/ ExpireDue(s)
  PROVE  FunnelFrame
<1> USE DEF TypeOK, SessionsTyped, FunnelFrame
<1>1. ASSUME NEW to \in Status \ {"completed", "confirming"}, FunnelWrite(s,
             to),
             NEW c \in Contents, content' = [content EXCEPT ![s] = c], Elsewhere
      PROVE  FunnelFrame
  <2>1. status[s] # "completed" /\ status' = [status EXCEPT ![s] = to]
    BY <1>1, FSMEdges DEF FunnelWrite, Terminal
  <2> QED
    BY <1>1, <2>1 DEF FunnelWrite
<1>2. CASE SetAddress(s) \/ SetShipping(s) \/ SetPayment(s)
  BY <1>1, <1>2 DEF SetAddress, SetShipping, SetPayment, Status, Active, Working
<1>3. CASE SetPromo(s)
  BY <1>3 DEF SetPromo, Working
<1>4. CASE Cancel(s)
  <2>1. status[s] # "completed" /\ "cancelled" \in Status
    BY <1>4, FSMEdges DEF Cancel, Terminal, Status
  <2> QED
    BY <1>4, <2>1 DEF Cancel
<1>5. CASE Touch(s) \/ DeadlinePasses(s)
  BY <1>5 DEF Touch, DeadlinePasses
<1>6. CASE ExpireDue(s)
  BY <1>6 DEF ExpireDue, Expirable, Working, Status, Terminal
<1> QED
  BY <1>2, <1>3, <1>4, <1>5, <1>6

\* Ending an execution keeps the registers typed.
LEMMA ReturnTyped ==
  ASSUME LocalsTyped, HasArguments, NEW e \in Execs, Return(e)
  PROVE  LocalsTyped' /\ HasArguments'
BY DEF LocalsTyped, HasArguments, Return, Labels, Snapshots, NoSnap, Status,
       Terminal, ClaimIds, Unbound, Shown

\* So does moving on.
LEMMA GotoTyped ==
  ASSUME LocalsTyped, HasArguments, NEW e \in Execs, NEW l \in Labels,
         pc[e] # "idle", Goto(e, l)
  PROVE  LocalsTyped' /\ HasArguments'
BY DEF LocalsTyped, HasArguments, Goto, localVars

\* What a session can be bound to.
LEMMA BindingsTyped ==
  /\ Unbound \in ClaimIds
  /\ ClaimsTyped => \A k \in Keys : ClaimId(k) \in ClaimIds
BY DEF Unbound, ClaimIds, ClaimId, ClaimsTyped

\* The eight statuses.
LEMMA StatusNames ==
  {"open", "address_set", "shipping_set", "ready", "confirming", "completed",
   "cancelled", "expired"} \subseteq Status
BY DEF Status, Active, Working, Terminal

\* A read of a session row is well typed.
LEMMA SnapshotTyped ==
  ASSUME SessionsTyped, NEW s \in Sessions
  PROVE  Snapshot(s) \in Snapshots /\ Snapshot(s).content \in Contents
BY DEF SessionsTyped, Snapshot, Snapshots, Shown

\* Every step keeps the types.
LEMMA TypedStep ==
  ASSUME Typed, [Next]_vars
  PROVE  Typed'
<1> USE DEF Typed, TypeOK, HasArguments
<1>1. ASSUME NEW e \in Execs, NEW s \in Sessions, NEW k \in Keys,
            ReadSession(e, s, k)
     PROVE  Typed'
  BY <1>1
     DEF ReadSession, Snapshot, sessionVars, claimVars, SessionsTyped,
         ClaimsTyped, LocalsTyped, Labels, Status, Working, Terminal,
         Active, ClaimIds, Unbound, ClaimId, Snapshots, NoSnap, Shown,
         Replies, NoReply
<1>2. ASSUME NEW e \in Execs, NEW o \in Outcomes, MarkExpired(e, o)
     PROVE  Typed'
  BY <1>2
     DEF MarkExpired, Expirable, Working, Return, claimVars, SessionsTyped,
         ClaimsTyped, LocalsTyped, Labels, Status, Working, Terminal,
         Active, ClaimIds, Unbound, ClaimId, Snapshots, NoSnap, Shown,
         Replies, NoReply
<1>3. ASSUME NEW e \in Execs, NEW o \in Outcomes, Claim(e, o)
     PROVE  Typed'
  <2>1. es[e] \in Sessions /\ ek[e] \in Keys /\ snap[e].content \in Contents
    BY <1>3 DEF Claim
  <2>2. SessionsTyped'
    BY <1>3, <2>1, BindingsTyped, StatusNames
       DEF SessionsTyped, Claim, sessionVars
  <2>3. ClaimsTyped'
    BY <1>3, <2>1 DEF ClaimsTyped, Claim
  <2>4. LocalsTyped' /\ HasArguments'
    BY <1>3, <2>1, ReturnTyped, GotoTyped DEF Labels, Claim, LocalsTyped
  <2> QED
    BY <1>3, <2>1, <2>2, <2>3, <2>4 DEF Claim
<1>4. ASSUME NEW e \in Execs, ClaimRefused(e)
     PROVE  Typed'
  BY <1>4
     DEF ClaimRefused, Return, sessionVars, claimVars, SessionsTyped,
         ClaimsTyped, LocalsTyped, Labels, Status, Working, Terminal,
         Active, ClaimIds, Unbound, ClaimId, Snapshots, NoSnap, Shown,
         Replies, NoReply
<1>5. ASSUME NEW e \in Execs, NEW o \in Outcomes, BeginConfirm(e, o)
     PROVE  Typed'
  <2>1. es[e] \in Sessions /\ ek[e] \in Keys /\ snap[e].content \in Contents
    BY <1>5 DEF BeginConfirm
  <2>2. SessionsTyped'
    <3>1. ClaimId(ek[e]) \in ClaimIds
      BY <2>1, BindingsTyped
    <3>2. status' \in [Sessions -> Status]
      BY <1>5, StatusNames DEF SessionsTyped, BeginConfirm
    <3>3. bound' \in [Sessions -> ClaimIds]
      BY <1>5, <3>1 DEF SessionsTyped, BeginConfirm
    <3> QED
      BY <1>5, <3>2, <3>3 DEF SessionsTyped, BeginConfirm
  <2>3. ClaimsTyped'
    BY <1>5, <2>1 DEF ClaimsTyped, BeginConfirm, claimVars
  <2>4. LocalsTyped' /\ HasArguments'
    BY <1>5, <2>1, ReturnTyped, GotoTyped DEF Labels, BeginConfirm
  <2> QED
    BY <1>5, <2>1, <2>2, <2>3, <2>4 DEF BeginConfirm
<1>6. ASSUME NEW e \in Execs, Reenter(e)
     PROVE  Typed'
  BY <1>6
     DEF Reenter, OwnBinding, Goto, sessionVars, claimVars, localVars,
         SessionsTyped, ClaimsTyped, LocalsTyped, Labels, Status, Working,
         Terminal, Active, ClaimIds, Unbound, ClaimId, Snapshots, NoSnap,
         Shown, Replies, NoReply
<1>7. ASSUME NEW e \in Execs, EntryRefused(e)
     PROVE  Typed'
  BY <1>7
     DEF EntryRefused, Goto, sessionVars, claimVars, localVars,
         SessionsTyped, ClaimsTyped, LocalsTyped, Labels, Status, Working,
         Terminal, Active, ClaimIds, Unbound, ClaimId, Snapshots, NoSnap,
         Shown, Replies, NoReply
<1>8. ASSUME NEW e \in Execs, RereadConfirming(e)
     PROVE  Typed'
  BY <1>8
     DEF RereadConfirming, Reloaded, AfterReread, Snapshot, sessionVars,
         claimVars, SessionsTyped, ClaimsTyped, LocalsTyped, Labels,
         Status, Working, Terminal, Active, ClaimIds, Unbound, ClaimId,
         Snapshots, NoSnap, Shown, Replies, NoReply
<1>9. ASSUME NEW e \in Execs, pc[e] # "idle", GiveUp(e)
     PROVE  Typed'
  BY <1>9
     DEF GiveUp, LeaveLocked, Return, sessionVars, SessionsTyped,
         ClaimsTyped, LocalsTyped, Labels, Status, Working, Terminal,
         Active, ClaimIds, Unbound, ClaimId, Snapshots, NoSnap, Shown,
         Replies, NoReply
<1>10. ASSUME NEW e \in Execs, Revalidate(e)
     PROVE  Typed'
  BY <1>10
     DEF Revalidate, Goto, sessionVars, claimVars, localVars,
         SessionsTyped, ClaimsTyped, LocalsTyped, Labels, Status, Working,
         Terminal, Active, ClaimIds, Unbound, ClaimId, Snapshots, NoSnap,
         Shown, Replies, NoReply
<1>11. ASSUME NEW e \in Execs, NEW o \in Outcomes, NEW c \in Contents,
              pc[e] \in {"requote", "strip"},
            DropToShipping(e, o, c)
     PROVE  Typed'
  <2>1. es[e] \in Sessions /\ ek[e] \in Keys /\ snap[e].content \in Contents
    BY <1>11 DEF DropToShipping
  <2>2. SessionsTyped'
    <3>1. status' \in [Sessions -> Status]
      BY <1>11, StatusNames DEF SessionsTyped, DropToShipping
    <3>2. bound' \in [Sessions -> ClaimIds]
      BY <1>11, BindingsTyped DEF SessionsTyped, DropToShipping
    <3>3. content' \in [Sessions -> Contents]
      BY <1>11 DEF SessionsTyped, DropToShipping
    <3> QED
      BY <1>11, <3>1, <3>2, <3>3 DEF SessionsTyped, DropToShipping
  <2>3. ClaimsTyped'
    BY <1>11, <2>1 DEF ClaimsTyped, DropToShipping, LeaveLocked
  <2>4. LocalsTyped' /\ HasArguments'
    BY <1>11, <2>1, ReturnTyped, GotoTyped DEF Labels, DropToShipping
  <2> QED
    BY <1>11, <2>1, <2>2, <2>3, <2>4 DEF DropToShipping
<1>12. ASSUME NEW e \in Execs, NEW o \in Outcomes, RedeemPromo(e, o)
     PROVE  Typed'
  BY <1>12
     DEF RedeemPromo, AfterRedeem, Goto, sessionVars, claimVars, localVars,
         SessionsTyped, ClaimsTyped, LocalsTyped, Labels, Status, Working,
         Terminal, Active, ClaimIds, Unbound, ClaimId, Snapshots, NoSnap,
         Shown, Replies, NoReply
<1>13. ASSUME NEW e \in Execs, RedeemRejected(e)
     PROVE  Typed'
  BY <1>13
     DEF RedeemRejected, Goto, sessionVars, claimVars, localVars,
         SessionsTyped, ClaimsTyped, LocalsTyped, Labels, Status, Working,
         Terminal, Active, ClaimIds, Unbound, ClaimId, Snapshots, NoSnap,
         Shown, Replies, NoReply
<1>14. ASSUME NEW e \in Execs, NEW o \in Outcomes, AbortConfirm(e, o)
     PROVE  Typed'
  <2>1. es[e] \in Sessions /\ ek[e] \in Keys /\ snap[e].content \in Contents
    BY <1>14 DEF AbortConfirm
  <2>2. SessionsTyped'
    <3>1. status' \in [Sessions -> Status]
      BY <1>14, StatusNames DEF SessionsTyped, AbortConfirm
    <3>2. bound' \in [Sessions -> ClaimIds]
      BY <1>14, BindingsTyped DEF SessionsTyped, AbortConfirm
    <3>3. content' \in [Sessions -> Contents]
      BY <1>14 DEF SessionsTyped, AbortConfirm
    <3> QED
      BY <1>14, <3>1, <3>2, <3>3 DEF SessionsTyped, AbortConfirm
  <2>3. ClaimsTyped'
    BY <1>14, <2>1 DEF ClaimsTyped, AbortConfirm, claimVars
  <2>4. LocalsTyped' /\ HasArguments'
    BY <1>14, <2>1, ReturnTyped, GotoTyped DEF Labels, AbortConfirm
  <2> QED
    BY <1>14, <2>1, <2>2, <2>3, <2>4 DEF AbortConfirm
<1>15. ASSUME NEW e \in Execs, NEW o \in Outcomes, Release(e, o)
     PROVE  Typed'
  BY <1>15
     DEF Release, Unlock, LeaveLocked, Return, sessionVars, SessionsTyped,
         ClaimsTyped, LocalsTyped, Labels, Status, Working, Terminal,
         Active, ClaimIds, Unbound, ClaimId, Snapshots, NoSnap, Shown,
         Replies, NoReply
<1>16. ASSUME NEW e \in Execs, NEW o \in Outcomes, Checkpoint(e, o)
     PROVE  Typed'
  <2>1. es[e] \in Sessions /\ ek[e] \in Keys /\ snap[e].content \in Contents
    BY <1>16 DEF Checkpoint
  <2>2. SessionsTyped'
    BY <1>16, <2>1, BindingsTyped, StatusNames
       DEF SessionsTyped, Checkpoint, sessionVars
  <2>3. ClaimsTyped'
    BY <1>16, <2>1 DEF ClaimsTyped, Checkpoint, attemptSentinel, LeaveLocked
  <2>4. LocalsTyped' /\ HasArguments'
    BY <1>16, <2>1, ReturnTyped, GotoTyped DEF Labels, Checkpoint
  <2> QED
    BY <1>16, <2>1, <2>2, <2>3, <2>4 DEF Checkpoint
<1>17. ASSUME NEW e \in Execs, NEW o \in Outcomes, CreateOrder(e, o)
     PROVE  Typed'
  BY <1>17
     DEF CreateOrder, AfterCreate, Applied, Goto, sessionVars, claimVars,
         localVars, SessionsTyped, ClaimsTyped, LocalsTyped, Labels,
         Status, Working, Terminal, Active, ClaimIds, Unbound, ClaimId,
         Snapshots, NoSnap, Shown, Replies, NoReply
<1>18. ASSUME NEW e \in Execs, NEW o \in Outcomes, RecordOrder(e, o)
     PROVE  Typed'
  BY <1>18
     DEF RecordOrder, Goto, sessionVars, localVars, SessionsTyped,
         ClaimsTyped, LocalsTyped, Labels, Status, Working, Terminal,
         Active, ClaimIds, Unbound, ClaimId, Snapshots, NoSnap, Shown,
         Replies, NoReply
<1>19. ASSUME NEW e \in Execs, NEW o \in Outcomes,
            BackfillRedemptionOrder(e, o)
     PROVE  Typed'
  BY <1>19
     DEF BackfillRedemptionOrder, Goto, sessionVars, claimVars, localVars,
         SessionsTyped, ClaimsTyped, LocalsTyped, Labels, Status, Working,
         Terminal, Active, ClaimIds, Unbound, ClaimId, Snapshots, NoSnap,
         Shown, Replies, NoReply
<1>20. ASSUME NEW e \in Execs, NEW o \in Outcomes, CompleteSession(e, o)
     PROVE  Typed'
  <2>1. es[e] \in Sessions /\ ek[e] \in Keys /\ snap[e].content \in Contents
    BY <1>20 DEF CompleteSession
  <2>2. SessionsTyped'
    <3>1. status' \in [Sessions -> Status]
      BY <1>20, StatusNames DEF SessionsTyped, CompleteSession
    <3>2. orderId' \in [Sessions -> Keys \cup {NoKey}]
      BY <1>20, <2>1 DEF SessionsTyped, CompleteSession
    <3> QED
      BY <1>20, <3>1, <3>2 DEF SessionsTyped, CompleteSession
  <2>3. ClaimsTyped'
    BY <1>20, <2>1 DEF ClaimsTyped, CompleteSession, LeaveLocked
  <2>4. LocalsTyped' /\ HasArguments'
    BY <1>20, <2>1, ReturnTyped, GotoTyped DEF Labels, CompleteSession
  <2> QED
    BY <1>20, <2>1, <2>2, <2>3, <2>4 DEF CompleteSession
<1>21. ASSUME NEW e \in Execs, Recheck(e)
     PROVE  Typed'
  <2>1. es[e] \in Sessions /\ ek[e] \in Keys /\ snap[e].content \in Contents
    BY <1>21 DEF Recheck, GiveUp, Return, localVars
  <2>2. SessionsTyped'
    BY <1>21, <2>1, BindingsTyped, StatusNames
       DEF SessionsTyped, Recheck, GiveUp, sessionVars
  <2>3. ClaimsTyped'
    BY <1>21, <2>1 DEF ClaimsTyped, Recheck, GiveUp, LeaveLocked, claimVars
  <2>4. LocalsTyped' /\ HasArguments'
    <3>1. CASE GiveUp(e)
      BY <1>21, <3>1, ReturnTyped DEF GiveUp
    <3>2. CASE ~GiveUp(e)
      BY <1>21, <2>1, <3>2, SnapshotTyped DEF Recheck, Labels, LocalsTyped
    <3> QED
      BY <3>1, <3>2
  <2> QED
    BY <1>21, <2>1, <2>2, <2>3, <2>4 DEF Recheck, GiveUp, Return, localVars
<1>22. ASSUME NEW e \in Execs, NEW o \in Outcomes, Finish(e, o)
     PROVE  Typed'
  <2>1. es[e] \in Sessions /\ ek[e] \in Keys /\ snap[e].content \in Contents
    BY <1>22 DEF Finish
  <2>2. SessionsTyped'
    BY <1>22, <2>1, BindingsTyped, StatusNames
       DEF SessionsTyped, Finish, sessionVars
  <2>3. ClaimsTyped'
    BY <1>22, <2>1 DEF ClaimsTyped, Finish, LeaveLocked, Unlock, Replies, Shown,
           SessionsTyped
  <2>4. LocalsTyped' /\ HasArguments'
    BY <1>22, <2>1, ReturnTyped, GotoTyped DEF Labels, Finish
  <2> QED
    BY <1>22, <2>1, <2>2, <2>3, <2>4 DEF Finish
<1>23. ASSUME NEW k \in Keys, LockGoesStale(k)
     PROVE  Typed'
  BY <1>23
     DEF LockGoesStale, sessionVars, localVars, SessionsTyped, ClaimsTyped,
         LocalsTyped, Labels, Status, Working, Terminal, Active, ClaimIds,
         Unbound, ClaimId, Snapshots, NoSnap, Shown, Replies, NoReply
<1>24. ASSUME FunnelFrame
     PROVE  Typed'
  BY <1>24
     DEF FunnelFrame, Elsewhere, claimVars, localVars, SessionsTyped,
         ClaimsTyped, LocalsTyped, SessionsTyped, ClaimsTyped, LocalsTyped,
         Labels, Status, Working, Terminal, Active, ClaimIds, Unbound,
         ClaimId, Snapshots, NoSnap, Shown, Replies, NoReply
<1>25. ASSUME NEW s \in Sessions, ExpireParked(s)
     PROVE  Typed'
  BY <1>25
     DEF ExpireParked, ProvablyDead, Elsewhere, claimVars, localVars,
         SessionsTyped, ClaimsTyped, LocalsTyped, Labels, Status, Working,
         Terminal, Active, ClaimIds, Unbound, ClaimId, Snapshots, NoSnap,
         Shown, Replies, NoReply
<1>26. ASSUME NEW k \in Keys, ReapFinished(k)
     PROVE  Typed'
  BY <1>26
     DEF ReapFinished, sessionVars, localVars, SessionsTyped, ClaimsTyped,
         LocalsTyped, Labels, Status, Working, Terminal, Active, ClaimIds,
         Unbound, ClaimId, Snapshots, NoSnap, Shown, Replies, NoReply
<1>27. ASSUME UNCHANGED vars
     PROVE  Typed'
  BY <1>27
     DEF vars, sessionVars, claimVars, localVars, SessionsTyped,
         ClaimsTyped, LocalsTyped, Labels, Status, Working, Terminal,
         Active, ClaimIds, Unbound, ClaimId, Snapshots, NoSnap, Shown,
         Replies, NoReply
<1> QED
  BY <1>1, <1>2, <1>3, <1>4, <1>5, <1>6, <1>7, <1>8, <1>9, <1>10, <1>11,
     <1>12, <1>13, <1>14, <1>15, <1>16, <1>17, <1>18, <1>19, <1>20, <1>21,
     <1>22, <1>23, <1>24, <1>25, <1>26, <1>27, FunnelSteps
     DEF Typed, vars, Next, Step, Shopper, Timers, RereadGone, Crash, RequoteItems,
         StripPromo,
         Outcomes

\* Moving on inside the flow keeps the claim; returning, with the lock left
\* or freed, gives it up.
LEMMA ClaimGoto ==
  ASSUME Typed, ClaimInv, NEW e \in Execs, Owning(e),
         NEW l \in Labels \ {"idle", "lazy", "claim"}, Goto(e, l),
         UNCHANGED <<claimFor, holder, cached>>
  PROVE  ClaimInv'
BY DEF Typed, TypeOK, LocalsTyped, ClaimInv, OwnsClaim, LockHasOwner,
       NoRowNoAnswer, Owning, Goto, localVars

LEMMA ClaimReturn ==
  ASSUME Typed, ClaimInv, NEW e \in Execs, Return(e),
         LeaveLocked(e) \/ Unlock(e), UNCHANGED <<claimFor, cached>>
  PROVE  ClaimInv'
<1> USE ConfirmAssumption DEF Typed, TypeOK, ClaimsTyped, LocalsTyped,
        ClaimInv, Return, LeaveLocked, Unlock, Owning
<1>1. OwnsClaim'
  BY DEF OwnsClaim, HasArguments
<1>2. LockHasOwner'
  BY DEF LockHasOwner
<1> QED
  BY <1>1, <1>2 DEF NoRowNoAnswer

\* Every step keeps the claims with their owners.
LEMMA ClaimStep ==
  ASSUME Typed, ClaimInv, [Next]_vars
  PROVE  ClaimInv'
<1> USE DEF Typed, TypeOK, ClaimsTyped, LocalsTyped, HasArguments,
            ClaimInv, OwnsClaim, LockHasOwner, NoRowNoAnswer, Owning
<1>1. ASSUME NEW e \in Execs, NEW s \in Sessions, NEW k \in Keys,
            ReadSession(e, s, k)
     PROVE  ClaimInv'
  BY <1>1, ConfirmAssumption
     DEF ReadSession, Snapshot, sessionVars, claimVars
<1>2. ASSUME NEW e \in Execs, NEW o \in Outcomes, MarkExpired(e, o)
     PROVE  ClaimInv'
  BY <1>2, ConfirmAssumption
     DEF MarkExpired, Expirable, Working, Return, claimVars
<1>3. ASSUME NEW e \in Execs, NEW o \in Outcomes, Claim(e, o)
     PROVE  ClaimInv'
  <2>1. /\ pc[e] = "claim" /\ es[e] \in Sessions /\ ek[e] \in Keys
        /\ cached[ek[e]] = NoReply /\ holder[ek[e]] \notin Execs
    BY <1>3, ConfirmAssumption DEF Claim, Claimable
  <2>2. OwnsClaim'
    BY <1>3, <2>1, ConfirmAssumption DEF Claim, Return
  <2>3. LockHasOwner'
    BY <1>3, <2>1, ConfirmAssumption DEF Claim, Return
  <2>4. NoRowNoAnswer'
    BY <1>3, <2>1, ConfirmAssumption DEF Claim
  <2> QED
    BY <2>2, <2>3, <2>4
<1>4. ASSUME NEW e \in Execs, ClaimRefused(e)
     PROVE  ClaimInv'
  BY <1>4, ConfirmAssumption
     DEF ClaimRefused, Return, sessionVars, claimVars
<1>5. ASSUME NEW e \in Execs, NEW o \in Outcomes, BeginConfirm(e, o)
     PROVE  ClaimInv'
  BY <1>5, ConfirmAssumption
     DEF BeginConfirm, CanBegin, Goto, claimVars, localVars
<1>6. ASSUME NEW e \in Execs, Reenter(e)
     PROVE  ClaimInv'
  BY <1>6, ClaimGoto DEF Reenter, Owning, Labels, claimVars
<1>7. ASSUME NEW e \in Execs, EntryRefused(e)
     PROVE  ClaimInv'
  BY <1>7, ConfirmAssumption
     DEF EntryRefused, Goto, sessionVars, claimVars, localVars
<1>8. ASSUME NEW e \in Execs, RereadConfirming(e)
     PROVE  ClaimInv'
  BY <1>8, ConfirmAssumption
     DEF RereadConfirming, Reloaded, AfterReread, Snapshot, sessionVars,
         claimVars
<1>9. ASSUME NEW e \in Execs, pc[e] # "idle", GiveUp(e)
     PROVE  ClaimInv'
  BY <1>9, ClaimReturn DEF GiveUp
<1>10. ASSUME NEW e \in Execs, Revalidate(e)
     PROVE  ClaimInv'
  BY <1>10, ClaimGoto DEF Revalidate, Owning, Labels, claimVars
<1>11. ASSUME NEW e \in Execs, NEW o \in Outcomes, NEW c \in Contents,
              pc[e] \in {"requote", "strip"},
            DropToShipping(e, o, c)
     PROVE  ClaimInv'
  BY <1>11, ClaimGoto, ClaimReturn DEF DropToShipping, Owning, Labels
<1>12. ASSUME NEW e \in Execs, NEW o \in Outcomes, RedeemPromo(e, o)
     PROVE  ClaimInv'
  BY <1>12, ConfirmAssumption
     DEF RedeemPromo, AfterRedeem, Goto, sessionVars, claimVars, localVars
<1>13. ASSUME NEW e \in Execs, RedeemRejected(e)
     PROVE  ClaimInv'
  BY <1>13, ConfirmAssumption
     DEF RedeemRejected, Goto, sessionVars, claimVars, localVars
<1>14. ASSUME NEW e \in Execs, NEW o \in Outcomes, AbortConfirm(e, o)
     PROVE  ClaimInv'
  BY <1>14, ConfirmAssumption
     DEF AbortConfirm, Goto, claimVars, localVars
<1>15. ASSUME NEW e \in Execs, NEW o \in Outcomes, Release(e, o)
     PROVE  ClaimInv'
  BY <1>15, ClaimReturn DEF Release
<1>16. ASSUME NEW e \in Execs, NEW o \in Outcomes, Checkpoint(e, o)
     PROVE  ClaimInv'
  BY <1>16, ClaimGoto, ClaimReturn DEF Checkpoint, Owning, Labels
<1>17. ASSUME NEW e \in Execs, NEW o \in Outcomes, CreateOrder(e, o)
     PROVE  ClaimInv'
  BY <1>17, ConfirmAssumption
     DEF CreateOrder, AfterCreate, Applied, Goto, sessionVars, claimVars,
         localVars
<1>18. ASSUME NEW e \in Execs, NEW o \in Outcomes, RecordOrder(e, o)
     PROVE  ClaimInv'
  BY <1>18, ConfirmAssumption
     DEF RecordOrder, Goto, sessionVars, localVars
<1>19. ASSUME NEW e \in Execs, NEW o \in Outcomes,
            BackfillRedemptionOrder(e, o)
     PROVE  ClaimInv'
  BY <1>19, ConfirmAssumption
     DEF BackfillRedemptionOrder, Goto, sessionVars, claimVars, localVars
<1>20. ASSUME NEW e \in Execs, NEW o \in Outcomes, CompleteSession(e, o)
     PROVE  ClaimInv'
  BY <1>20, ClaimGoto, ClaimReturn DEF CompleteSession, Owning, Labels
<1>21. ASSUME NEW e \in Execs, Recheck(e)
     PROVE  ClaimInv'
  <2>1. CASE GiveUp(e)
    BY <1>21, <2>1, ClaimReturn DEF GiveUp
  <2> QED
    BY <1>21, <2>1, SMTT(20) DEF Recheck, claimVars
<1>22. ASSUME NEW e \in Execs, NEW o \in Outcomes, Finish(e, o)
     PROVE  ClaimInv'
  <2>1. /\ Owning(e) /\ es[e] \in Sessions /\ ek[e] \in Keys
        /\ holder[ek[e]] = e
    BY <1>22 DEF Finish
  <2>2. OwnsClaim'
    <3>1. ~Owning(e)'
      BY <1>22 DEF Finish, Goto, Return
    <3>2. ASSUME NEW other \in Execs \ {e} PROVE
             /\ pc'[other] = pc[other] /\ es'[other] = es[other]
             /\ ek'[other] = ek[other]
             /\ Owning(other) => holder'[ek[other]] = holder[ek[other]]
      BY <1>22, <2>1, <3>2
         DEF Finish, Goto, Return, LeaveLocked, Unlock, localVars
    <3> QED
      BY <1>22, <2>1, <3>1, <3>2, ConfirmAssumption DEF Finish
  <2>3. LockHasOwner'
    BY <1>22, <2>1, ConfirmAssumption, SMTT(20)
       DEF Finish, Goto, Return, LeaveLocked, Unlock, localVars
  <2>4. NoRowNoAnswer'
    BY <1>22, <2>1, ConfirmAssumption DEF Finish
  <2> QED
    BY <2>2, <2>3, <2>4
<1>23. ASSUME NEW k \in Keys, LockGoesStale(k)
     PROVE  ClaimInv'
  BY <1>23, ConfirmAssumption
     DEF LockGoesStale, sessionVars, localVars
<1>24. ASSUME FunnelFrame
     PROVE  ClaimInv'
  BY <1>24, ConfirmAssumption
     DEF FunnelFrame, Elsewhere, claimVars, localVars
<1>25. ASSUME NEW s \in Sessions, ExpireParked(s)
     PROVE  ClaimInv'
  BY <1>25, ConfirmAssumption
     DEF ExpireParked, ProvablyDead, Elsewhere, claimVars, localVars
<1>26. ASSUME NEW k \in Keys, ReapFinished(k)
     PROVE  ClaimInv'
  BY <1>26, ConfirmAssumption DEF ReapFinished, sessionVars, localVars
<1>27. ASSUME UNCHANGED vars
     PROVE  ClaimInv'
  BY <1>27, ConfirmAssumption
     DEF vars, sessionVars, claimVars, localVars
<1> HIDE DEF TypeOK, ClaimsTyped, LocalsTyped, HasArguments, ClaimInv,
             OwnsClaim, LockHasOwner, NoRowNoAnswer, Owning
<1> QED
  BY <1>1, <1>2, <1>3, <1>4, <1>5, <1>6, <1>7, <1>8, <1>9, <1>10, <1>11,
     <1>12, <1>13, <1>14, <1>15, <1>16, <1>17, <1>18, <1>19, <1>20, <1>21,
     <1>22, <1>23, <1>24, <1>25, <1>26, <1>27, FunnelSteps
     DEF Typed, vars, Next, Step, Shopper, Timers, RereadGone, Crash, RequoteItems,
         StripPromo,
         Outcomes

\* Every step keeps what an execution knows of its attempt marker.
LEMMA MarkerStep ==
  ASSUME Typed, ClaimInv, KnowsMarker, [Next]_vars
  PROVE  KnowsMarker'
<1> USE DEF Typed, TypeOK, ClaimsTyped, LocalsTyped, HasArguments,
            ClaimInv, OwnsClaim, KnowsMarker, Owning, Undoable, Committed
<1>1. ASSUME NEW e \in Execs, NEW s \in Sessions, NEW k \in Keys,
            ReadSession(e, s, k)
     PROVE  KnowsMarker'
  BY <1>1, ConfirmAssumption
     DEF ReadSession, Snapshot, sessionVars, claimVars
<1>2. ASSUME NEW e \in Execs, NEW o \in Outcomes, MarkExpired(e, o)
     PROVE  KnowsMarker'
  BY <1>2, ConfirmAssumption
     DEF MarkExpired, Expirable, Working, Return, claimVars
<1>3. ASSUME NEW e \in Execs, NEW o \in Outcomes, Claim(e, o)
     PROVE  KnowsMarker'
  <2>1. \A other \in Execs \ {e} : Owning(other) => ek[other] # ek[e]
    BY <1>3, ConfirmAssumption DEF Claim, Claimable
  <2>2. CASE o = "ok"
    <3>1. pc' = [pc EXCEPT ![e] = "enter"] /\ UNCHANGED <<es, ek>>
      BY <1>3, <2>2 DEF Claim
    <3>2. subject' = [subject EXCEPT ![ek[e]] = subject'[ek[e]]]
      BY <1>3 DEF Claim
    <3>3. marked'[e] <=> subject'[ek[e]] # "none"
      <4>1. CASE claimFor[ek[e]] = NoSession
        <5>1. /\ marked' = [marked EXCEPT ![e] = FALSE] /\ ek' = ek
              /\ subject' = [subject EXCEPT ![ek[e]] = "none"]
          BY <1>3, <2>2, <4>1 DEF Claim
        <5>2. DOMAIN marked = Execs /\ DOMAIN subject = Keys /\ ek[e] \in Keys
          BY <1>3 DEF Claim
        <5>3. marked'[e] = FALSE /\ subject'[ek[e]] = "none"
          BY <5>1, <5>2
        <5> QED
          BY <5>1, <5>3
      <4>2. CASE claimFor[ek[e]] # NoSession
        <5>1. /\ marked' = [marked EXCEPT ![e] = TRUE /\ subject[ek[e]] # "none"]
              /\ subject' = subject /\ ek' = ek
          BY <1>3, <2>2, <4>2 DEF Claim
        <5>2. DOMAIN marked = Execs
          OBVIOUS
        <5> QED
          BY <5>1, <5>2, Zenon
      <4> QED
        BY <4>1, <4>2
    <3>4. \A other \in Execs \ {e} : marked'[other] = marked[other]
      BY <1>3, <2>2 DEF Claim
    <3>5. ASSUME NEW x \in Execs \ {e}
          PROVE  /\ pc'[x] \in {"enter", "reread"} =>
                       (marked'[x] <=> subject'[ek'[x]] # "none")
                 /\ pc'[x] \in Undoable => subject'[ek'[x]] = "none"
                 /\ pc'[x] \in Committed => subject'[ek'[x]] # "none"
      <4>1. pc'[x] = pc[x] /\ ek'[x] = ek[x] /\ (marked'[x] <=> marked[x])
        BY <3>1, <3>4
      <4>2. Owning(x) => subject'[ek[x]] = subject[ek[x]]
        BY <2>1, <3>2
      <4> QED
        BY <4>1, <4>2
    <3> QED
      BY <3>1, <3>3, <3>5
  <2>3. CASE o = "lost"
    BY <1>3, <2>1, <2>3 DEF Claim, Return
  <2> QED
    BY <1>3, <2>2, <2>3 DEF Claim, Applied
<1>4. ASSUME NEW e \in Execs, ClaimRefused(e)
     PROVE  KnowsMarker'
  BY <1>4, ConfirmAssumption
     DEF ClaimRefused, Return, sessionVars, claimVars
<1>5. ASSUME NEW e \in Execs, NEW o \in Outcomes, BeginConfirm(e, o)
     PROVE  KnowsMarker'
  BY <1>5, ConfirmAssumption
     DEF BeginConfirm, CanBegin, Goto, claimVars, localVars
<1>6. ASSUME NEW e \in Execs, Reenter(e)
     PROVE  KnowsMarker'
  BY <1>6, ConfirmAssumption
     DEF Reenter, OwnBinding, Goto, sessionVars, claimVars, localVars
<1>7. ASSUME NEW e \in Execs, EntryRefused(e)
     PROVE  KnowsMarker'
  BY <1>7, ConfirmAssumption
     DEF EntryRefused, Goto, sessionVars, claimVars, localVars
<1>8. ASSUME NEW e \in Execs, RereadConfirming(e)
     PROVE  KnowsMarker'
  BY <1>8, ConfirmAssumption
     DEF RereadConfirming, Reloaded, AfterReread, Snapshot, sessionVars,
         claimVars
<1>9. ASSUME NEW e \in Execs, pc[e] # "idle", GiveUp(e)
     PROVE  KnowsMarker'
  BY <1>9, ConfirmAssumption
     DEF GiveUp, LeaveLocked, Return, sessionVars
<1>10. ASSUME NEW e \in Execs, Revalidate(e)
     PROVE  KnowsMarker'
  BY <1>10, ConfirmAssumption
     DEF Revalidate, Goto, sessionVars, claimVars, localVars
<1>11. ASSUME NEW e \in Execs, NEW o \in Outcomes, NEW c \in Contents,
              pc[e] \in {"requote", "strip"},
            DropToShipping(e, o, c)
     PROVE  KnowsMarker'
  BY <1>11, ConfirmAssumption
     DEF DropToShipping, Goto, Return, LeaveLocked, localVars
<1>12. ASSUME NEW e \in Execs, NEW o \in Outcomes, RedeemPromo(e, o)
     PROVE  KnowsMarker'
  BY <1>12, ConfirmAssumption
     DEF RedeemPromo, AfterRedeem, Goto, sessionVars, claimVars, localVars
<1>13. ASSUME NEW e \in Execs, RedeemRejected(e)
     PROVE  KnowsMarker'
  BY <1>13, ConfirmAssumption
     DEF RedeemRejected, Goto, sessionVars, claimVars, localVars
<1>14. ASSUME NEW e \in Execs, NEW o \in Outcomes, AbortConfirm(e, o)
     PROVE  KnowsMarker'
  BY <1>14, ConfirmAssumption
     DEF AbortConfirm, Goto, claimVars, localVars
<1>15. ASSUME NEW e \in Execs, NEW o \in Outcomes, Release(e, o)
     PROVE  KnowsMarker'
  BY <1>15, ConfirmAssumption
     DEF Release, Unlock, LeaveLocked, Return, sessionVars
<1>16. ASSUME NEW e \in Execs, NEW o \in Outcomes, Checkpoint(e, o)
     PROVE  KnowsMarker'
  <2>1. \A other \in Execs \ {e} : Owning(other) => ek[other] # ek[e]
    BY <1>16, SMTT(20) DEF Checkpoint
  <2>2. CASE o = "ok"
    BY <1>16, <2>1, <2>2
       DEF Checkpoint, attemptSentinel, Applied, Goto, localVars
  <2>3. CASE o # "ok"
    BY <1>16, <2>1, <2>3 DEF Checkpoint, Return
  <2> QED
    BY <2>2, <2>3
<1>17. ASSUME NEW e \in Execs, NEW o \in Outcomes, CreateOrder(e, o)
     PROVE  KnowsMarker'
  BY <1>17, ConfirmAssumption
     DEF CreateOrder, AfterCreate, Applied, Goto, sessionVars, claimVars,
         localVars
<1>18. ASSUME NEW e \in Execs, NEW o \in Outcomes, RecordOrder(e, o)
     PROVE  KnowsMarker'
  BY <1>18, ConfirmAssumption
     DEF RecordOrder, Goto, sessionVars, localVars
<1>19. ASSUME NEW e \in Execs, NEW o \in Outcomes,
            BackfillRedemptionOrder(e, o)
     PROVE  KnowsMarker'
  BY <1>19, ConfirmAssumption
     DEF BackfillRedemptionOrder, Goto, sessionVars, claimVars, localVars
<1>20. ASSUME NEW e \in Execs, NEW o \in Outcomes, CompleteSession(e, o)
     PROVE  KnowsMarker'
  BY <1>20, ConfirmAssumption
     DEF CompleteSession, Applied, Goto, Return, LeaveLocked, localVars
<1>21. ASSUME NEW e \in Execs, Recheck(e)
     PROVE  KnowsMarker'
  BY <1>21, ConfirmAssumption
     DEF Recheck, GiveUp, LeaveLocked, Return, Snapshot, sessionVars,
         claimVars
<1>22. ASSUME NEW e \in Execs, NEW o \in Outcomes, Finish(e, o)
     PROVE  KnowsMarker'
  BY <1>22, ConfirmAssumption
     DEF Finish, Applied, Goto, Return, Unlock, LeaveLocked, sessionVars,
         localVars
<1>23. ASSUME NEW k \in Keys, LockGoesStale(k)
     PROVE  KnowsMarker'
  BY <1>23, ConfirmAssumption
     DEF LockGoesStale, sessionVars, localVars
<1>24. ASSUME FunnelFrame
     PROVE  KnowsMarker'
  BY <1>24, ConfirmAssumption
     DEF FunnelFrame, Elsewhere, claimVars, localVars
<1>25. ASSUME NEW s \in Sessions, ExpireParked(s)
     PROVE  KnowsMarker'
  BY <1>25, ConfirmAssumption
     DEF ExpireParked, ProvablyDead, Elsewhere, claimVars, localVars
<1>26. ASSUME NEW k \in Keys, ReapFinished(k)
     PROVE  KnowsMarker'
  BY <1>26, ConfirmAssumption, SMTT(20) DEF ReapFinished, sessionVars, localVars
<1>27. ASSUME UNCHANGED vars
     PROVE  KnowsMarker'
  BY <1>27, ConfirmAssumption
     DEF vars, sessionVars, claimVars, localVars
<1> HIDE DEF TypeOK, ClaimsTyped, LocalsTyped, HasArguments, ClaimInv,
             OwnsClaim, KnowsMarker, Owning, Undoable, Committed
<1> QED
  BY <1>1, <1>2, <1>3, <1>4, <1>5, <1>6, <1>7, <1>8, <1>9, <1>10, <1>11,
     <1>12, <1>13, <1>14, <1>15, <1>16, <1>17, <1>18, <1>19, <1>20, <1>21,
     <1>22, <1>23, <1>24, <1>25, <1>26, <1>27, FunnelSteps
     DEF Typed, vars, Next, Step, Shopper, Timers, RereadGone, Crash, RequoteItems,
         StripPromo,
         Outcomes


\* A step of e leaves the registers of the other executions alone.
OthersRest(e) ==
    \A x \in Execs \ {e} : /\ pc'[x] = pc[x] /\ snap'[x] = snap[x]
                           /\ es'[x] = es[x] /\ ek'[x] = ek[x]

\* Moving on and ending touch one execution's registers.
LEMMA OthersRestStep ==
  ASSUME LocalsTyped, NEW e \in Execs, NEW l, Goto(e, l) \/ Return(e)
  PROVE  OthersRest(e)
BY DEF LocalsTyped, Goto, Return, OthersRest, localVars

\* Two executions never own one claim.
LEMMA SoleOwner ==
  ASSUME ClaimInv, NEW x \in Execs, NEW y \in Execs, Owning(x), Owning(y),
         ek[x] = ek[y]
  PROVE  x = y
BY DEF ClaimInv, OwnsClaim

\* So one session has one driver: both would be bound to it.
LEMMA SoleDriver ==
  ASSUME ClaimInv, BindInv, NEW x \in Execs, NEW y \in Execs,
         Driving(x), Driving(y), es[x] = es[y]
  PROVE  x = y
<1>1. Owning(x) /\ Owning(y)
  BY DEF Driving, Owning
<1>2. ClaimId(ek[x]) = ClaimId(ek[y])
  BY DEF BindInv, DriverIsBound
<1>3. ek[x] = ek[y]
  BY <1>2 DEF ClaimId
<1> QED
  BY <1>1, <1>3, SoleOwner

\* Undoing the confirm of the execution that drives a session takes no other
\* driver's binding and no marker's.
LEMMA UndoKeepsBindings ==
  ASSUME Typed, ClaimInv, KnowsMarker, BindInv, ConfirmAssumption,
         NEW e \in Execs, pc[e] \in Undoable, pc'[e] \in {"release", "idle"},
         OthersRest(e), UNCHANGED <<row, claimFor, subject>>,
         bound' = [bound EXCEPT ![es[e]] = Unbound]
  PROVE  BindInv'
<1>1. /\ Driving(e) /\ es[e] \in Sessions /\ ek[e] \in Keys
      /\ claimFor[ek[e]] = es[e] /\ subject[ek[e]] = "none"
  BY DEF Typed, HasArguments, ClaimInv, OwnsClaim, Owning, KnowsMarker, Driving,
         Undoable
<1>2. ASSUME NEW x \in Execs, Driving(x)'
      PROVE  (bound[es[x]] = ClaimId(ek[x]))'
  <2>1. x # e /\ Driving(x)
    BY <1>2 DEF OthersRest, Driving
  <2>2. es[x] # es[e] /\ bound[es[x]] = ClaimId(ek[x])
    BY <2>1, <1>1, SoleDriver DEF BindInv, DriverIsBound
  <2>3. es'[x] = es[x] /\ ek'[x] = ek[x]
    BY <2>1 DEF OthersRest
  <2> QED
    BY <2>2, <2>3, <1>1 DEF ClaimId, Typed, TypeOK, SessionsTyped
<1>3. ASSUME NEW k \in Keys, claimFor[k] # NoSession, subject[k] # "none"
      PROVE  bound'[claimFor[k]] = ClaimId(k)
  <2>1. bound[claimFor[k]] = ClaimId(k) /\ bound[es[e]] = ClaimId(ek[e])
    BY <1>1, <1>3 DEF BindInv, MarkerBinds, DriverIsBound
  <2>2. k # ek[e]
    BY <1>1, <1>3
  <2>3. claimFor[k] # es[e]
    BY <2>1, <2>2 DEF ClaimId
  <2> QED
    BY <1>1, <2>1, <2>3 DEF Typed, TypeOK, SessionsTyped
<1> QED
  BY <1>2, <1>3 DEF BindInv, DriverIsBound, MarkerBinds, ClaimId

\* Where no binding, claim or marker changes, only a new driver could break
\* the bindings.
LEMMA RestKeepsBindings ==
  ASSUME BindInv, NEW e \in Execs, OthersRest(e),
         \/ pc'[e] \in {"idle", "release", "enter"}
         \/ Driving(e) /\ es'[e] = es[e] /\ ek'[e] = ek[e],
         UNCHANGED <<bound, row, claimFor, subject>>
  PROVE  BindInv'
BY DEF BindInv, DriverIsBound, MarkerBinds, Driving, OthersRest, ClaimId

\* Every step keeps drivers and markers bound to their sessions.
LEMMA BindStep ==
  ASSUME Typed, ClaimInv, KnowsMarker, BindInv, [Next]_vars
  PROVE  BindInv'
<1>1. ASSUME NEW e \in Execs, NEW o \in Outcomes, Claim(e, o) PROVE BindInv'
  <2>1. /\ pc'[e] \in {"enter", "idle"} /\ bound' = bound /\ ek[e] \in Keys
    BY <1>1
       DEF Claim, Return, sessionVars, Typed, TypeOK, LocalsTyped, HasArguments
  <2>2. OthersRest(e)
    BY <1>1 DEF Claim, Return, OthersRest, Typed, TypeOK, LocalsTyped
  <2>3. CASE claimFor[ek[e]] # NoSession
    <3>1. row' = row /\ subject' = subject /\ claimFor' = claimFor
      BY <1>1, <2>1, <2>3 DEF Claim, Claimable, Typed, TypeOK, ClaimsTyped
    <3> QED
      BY <1>1, <2>1, <2>2, <3>1, RestKeepsBindings
  <2>4. CASE claimFor[ek[e]] = NoSession
    <3>1. subject'[ek[e]] = "none"
      BY <1>1, <2>1, <2>4 DEF Claim, Typed, TypeOK, ClaimsTyped
    <3>2. \A k \in Keys \ {ek[e]} : /\ row'[k] = row[k] /\ subject'[k] = subject[k]
                                    /\ claimFor'[k] = claimFor[k]
      BY <1>1 DEF Claim, Typed, TypeOK, ClaimsTyped
    <3>3. \A x \in Execs : Driving(x) => /\ ek[x] \in Keys \ {ek[e]} /\ x # e
                                         /\ bound[es[x]] = ClaimId(ek[x])
      BY <1>1, <2>4, ConfirmAssumption
         DEF Claim, Typed, HasArguments, ClaimInv, OwnsClaim, Owning, Driving,
             BindInv, DriverIsBound
    <3>4. DriverIsBound'
      <4> SUFFICES ASSUME NEW x \in Execs, Driving(x)'
                   PROVE  (bound[es[x]] = ClaimId(ek[x]))'
        BY DEF DriverIsBound
      <4>1. x # e /\ Driving(x) /\ es'[x] = es[x] /\ ek'[x] = ek[x]
        BY <2>1, <2>2 DEF OthersRest, Driving
      <4>2. bound[es[x]] = ClaimId(ek[x]) /\ row'[ek[x]] = row[ek[x]]
        BY <3>2, <3>3, <4>1
      <4> QED
        BY <2>1, <4>1, <4>2 DEF ClaimId
    <3>5. MarkerBinds'
      BY <2>1, <3>1, <3>2 DEF BindInv, MarkerBinds, ClaimId
    <3> QED
      BY <3>4, <3>5 DEF BindInv
  <2> QED
    BY <2>3, <2>4
<1>2. ASSUME NEW e \in Execs, NEW o \in Outcomes, NEW c \in Contents,
             pc[e] \in {"requote", "strip"},
            DropToShipping(e, o, c)
     PROVE  BindInv'
  <2>1. /\ pc[e] \in Undoable /\ pc'[e] \in {"release", "idle"}
        /\ UNCHANGED <<row, claimFor, subject>>
    BY <1>2
       DEF DropToShipping, Goto, Return, Typed, TypeOK, LocalsTyped, Undoable
  <2>2. OthersRest(e)
    BY <1>2, OthersRestStep DEF DropToShipping, Typed, TypeOK
  <2>3. UNCHANGED bound \/ bound' = [bound EXCEPT ![es[e]] = Unbound]
    BY <1>2 DEF DropToShipping
  <2> QED
    BY <1>2, <2>1, <2>2, <2>3, UndoKeepsBindings, RestKeepsBindings,
       ConfirmAssumption
<1>3. ASSUME NEW e \in Execs, NEW o \in Outcomes, AbortConfirm(e, o)
     PROVE  BindInv'
  <2>1. /\ pc[e] \in Undoable /\ pc'[e] \in {"release", "idle"}
        /\ UNCHANGED <<row, claimFor, subject>>
    BY <1>3
       DEF AbortConfirm, Goto, Return, Typed, TypeOK, LocalsTyped, Undoable,
           claimVars
  <2>2. OthersRest(e)
    BY <1>3, OthersRestStep DEF AbortConfirm, Typed, TypeOK
  <2>3. UNCHANGED bound \/ bound' = [bound EXCEPT ![es[e]] = Unbound]
    BY <1>3 DEF AbortConfirm
  <2> QED
    BY <1>3, <2>1, <2>2, <2>3, UndoKeepsBindings, RestKeepsBindings,
       ConfirmAssumption
<1>4. ASSUME NEW e \in Execs, NEW o \in Outcomes, Checkpoint(e, o)
     PROVE  BindInv'
  <2>1. /\ Driving(e) /\ ek[e] \in Keys /\ claimFor[ek[e]] = es[e]
        /\ bound[es[e]] = ClaimId(ek[e])
    BY <1>4 DEF Checkpoint, Typed, HasArguments, ClaimInv, OwnsClaim, Owning,
           Driving, BindInv, DriverIsBound
  <2>2. UNCHANGED <<bound, row, claimFor>>
    BY <1>4 DEF Checkpoint, sessionVars
  <2>3. \A k \in Keys \ {ek[e]} : subject'[k] = subject[k]
    BY <1>4 DEF Checkpoint, Typed, TypeOK, ClaimsTyped
  <2>4. OthersRest(e)
    BY <1>4, OthersRestStep DEF Checkpoint, Typed, TypeOK
  <2>5. pc'[e] # "idle" => es'[e] = es[e] /\ ek'[e] = ek[e]
    BY <1>4 DEF Checkpoint, Goto, Return, localVars, Typed, TypeOK, LocalsTyped
  <2>6. DriverIsBound'
    BY <2>1, <2>2, <2>4, <2>5
       DEF BindInv, DriverIsBound, Driving, OthersRest, ClaimId
  <2>7. MarkerBinds'
    BY <2>1, <2>2, <2>3 DEF BindInv, MarkerBinds, ClaimId
  <2> QED
    BY <2>6, <2>7 DEF BindInv
<1>5. ASSUME NEW e \in Execs, Recheck(e) PROVE BindInv'
  <2>1. UNCHANGED <<bound, row, claimFor, subject>>
    BY <1>5 DEF Recheck, GiveUp, sessionVars, claimVars
  <2>2. OthersRest(e)
    BY <1>5 DEF Recheck, GiveUp, Return, OthersRest, Typed, TypeOK, LocalsTyped
  <2>3. pc'[e] = "idle" \/ (Driving(e) /\ es'[e] = es[e] /\ ek'[e] = ek[e])
    <3>1. GiveUp(e) => pc'[e] = "idle"
      BY <1>5 DEF GiveUp, Return, Typed, TypeOK, LocalsTyped
    <3>2. ~GiveUp(e) => es'[e] = es[e] /\ ek'[e] = ek[e]
      BY <1>5 DEF Recheck
    <3>3. Driving(e)
      BY <1>5 DEF Recheck, Driving
    <3> QED
      BY <3>1, <3>2, <3>3
  <2> QED
    BY <1>5, <2>1, <2>2, <2>3, RestKeepsBindings
<1>6. ASSUME NEW e \in Execs, NEW o \in Outcomes, Finish(e, o) PROVE BindInv'
  <2>1. UNCHANGED <<bound, row, claimFor, subject>> /\ pc'[e] \in {"release", "idle"}
    BY <1>6 DEF Finish, Goto, Return, sessionVars, Typed, TypeOK, LocalsTyped
  <2>2. OthersRest(e)
    BY <1>6, OthersRestStep DEF Finish, Typed, TypeOK
  <2> QED
    BY <1>6, <2>1, <2>2, RestKeepsBindings
<1>7. ASSUME NEW s \in Sessions, ExpireParked(s) PROVE BindInv'
  <2>1. UNCHANGED <<pc, es, ek, row, claimFor, subject>>
    BY <1>7 DEF ExpireParked, Elsewhere, claimVars, localVars
  <2>2. PICK k \in Keys : claimFor[k] # NoSession /\ bound[s] = ClaimId(k)
                         /\ subject[k] = "none" /\ holder[k] = Nobody
    BY <1>7 DEF ExpireParked, ProvablyDead
  <2>3. bound' = [bound EXCEPT ![s] = Unbound]
    BY <1>7 DEF ExpireParked
  <2>4. \A e \in Execs : Driving(e) => bound[es[e]] = ClaimId(ek[e]) /\ es[e] # s
    <3> SUFFICES ASSUME NEW e \in Execs, Driving(e), es[e] = s
                 PROVE  /\ bound[es[e]] = ClaimId(ek[e])
                        /\ FALSE
      BY DEF BindInv, DriverIsBound
    <3>1. holder[ek[e]] = e /\ bound[es[e]] = ClaimId(ek[e])
      BY DEF ClaimInv, OwnsClaim, Owning, Driving, BindInv, DriverIsBound
    <3> QED
      BY <2>2, <3>1, ConfirmAssumption DEF ClaimId
  <2>5. \A c \in Keys : claimFor[c] # NoSession /\ subject[c] # "none" =>
                           bound[claimFor[c]] = ClaimId(c) /\ claimFor[c] # s
    BY <2>2 DEF BindInv, MarkerBinds, ClaimId
  <2> QED
    BY <1>7, <2>1, <2>3, <2>4, <2>5 DEF BindInv, DriverIsBound, MarkerBinds,
       Driving, ClaimId, Typed, TypeOK, SessionsTyped, ClaimsTyped
<1> USE ConfirmAssumption
    DEF Typed, TypeOK, SessionsTyped, ClaimsTyped, LocalsTyped,
        HasArguments, ClaimInv, OwnsClaim, KnowsMarker, BindInv,
        DriverIsBound, MarkerBinds, Owning, Driving, Undoable, Committed,
        ClaimId, Unbound
<1>8. ASSUME NEW e \in Execs, NEW s \in Sessions, NEW k \in Keys,
            ReadSession(e, s, k)
     PROVE  BindInv'
  BY <1>8 DEF ReadSession, Snapshot, sessionVars, claimVars
<1>9. ASSUME NEW e \in Execs, NEW o \in Outcomes, MarkExpired(e, o)
     PROVE  BindInv'
  BY <1>9 DEF MarkExpired, Expirable, Working, Return, claimVars
<1>10. ASSUME NEW e \in Execs, ClaimRefused(e) PROVE BindInv'
  BY <1>10 DEF ClaimRefused, Return, sessionVars, claimVars
<1>11. ASSUME NEW e \in Execs, NEW o \in Outcomes, BeginConfirm(e, o)
     PROVE  BindInv'
  BY <1>11 DEF BeginConfirm, CanBegin, Goto, claimVars, localVars, Applied
<1>12. ASSUME NEW e \in Execs, Reenter(e) PROVE BindInv'
  BY <1>12 DEF Reenter, OwnBinding, Goto, sessionVars, claimVars, localVars
<1>13. ASSUME NEW e \in Execs, EntryRefused(e) PROVE BindInv'
  BY <1>13 DEF EntryRefused, Goto, sessionVars, claimVars, localVars
<1>14. ASSUME NEW e \in Execs, RereadConfirming(e) PROVE BindInv'
  BY <1>14 DEF RereadConfirming, Reloaded, AfterReread, Snapshot, sessionVars,
         claimVars, Holds
<1>15. ASSUME NEW e \in Execs, pc[e] # "idle", GiveUp(e) PROVE BindInv'
  BY <1>15 DEF GiveUp, Return, sessionVars
<1>16. ASSUME NEW e \in Execs, Revalidate(e) PROVE BindInv'
  BY <1>16 DEF Revalidate, Goto, sessionVars, claimVars, localVars
<1>17. ASSUME NEW e \in Execs, NEW o \in Outcomes, RedeemPromo(e, o)
     PROVE  BindInv'
  BY <1>17 DEF RedeemPromo, AfterRedeem, Goto, sessionVars, claimVars, localVars
<1>18. ASSUME NEW e \in Execs, RedeemRejected(e) PROVE BindInv'
  BY <1>18 DEF RedeemRejected, Goto, sessionVars, claimVars, localVars
<1>19. ASSUME NEW e \in Execs, NEW o \in Outcomes, Release(e, o)
     PROVE  BindInv'
  BY <1>19 DEF Release, Return, sessionVars
<1>20. ASSUME NEW e \in Execs, NEW o \in Outcomes, CreateOrder(e, o)
     PROVE  BindInv'
  BY <1>20 DEF CreateOrder, AfterCreate, Applied, Goto, sessionVars, claimVars,
         localVars
<1>21. ASSUME NEW e \in Execs, NEW o \in Outcomes, RecordOrder(e, o)
     PROVE  BindInv'
  BY <1>21 DEF RecordOrder, Goto, sessionVars, localVars
<1>22. ASSUME NEW e \in Execs, NEW o \in Outcomes,
            BackfillRedemptionOrder(e, o)
     PROVE  BindInv'
  BY <1>22 DEF BackfillRedemptionOrder, Goto, sessionVars, claimVars, localVars
<1>23. ASSUME NEW e \in Execs, NEW o \in Outcomes, CompleteSession(e, o)
     PROVE  BindInv'
  BY <1>23 DEF CompleteSession, Applied, Goto, Return, localVars
<1>24. ASSUME NEW k \in Keys, LockGoesStale(k) PROVE BindInv'
  BY <1>24 DEF LockGoesStale, sessionVars, localVars
<1>25. ASSUME FunnelFrame PROVE BindInv'
  BY <1>25 DEF FunnelFrame, Elsewhere, claimVars, localVars
<1>26. ASSUME NEW k \in Keys, ReapFinished(k) PROVE BindInv'
  BY <1>26 DEF ReapFinished, sessionVars, localVars
<1>27. ASSUME UNCHANGED vars PROVE BindInv'
  BY <1>27 DEF vars, sessionVars, claimVars, localVars
<1> HIDE DEF TypeOK, SessionsTyped, ClaimsTyped, LocalsTyped, HasArguments,
             ClaimInv, OwnsClaim, KnowsMarker, BindInv, DriverIsBound,
             MarkerBinds, Owning, Driving, Undoable, Committed, ClaimId,
             Unbound
<1> QED
  BY <1>1, <1>2, <1>3, <1>4, <1>5, <1>6, <1>7, <1>8, <1>9, <1>10, <1>11,
     <1>12, <1>13, <1>14, <1>15, <1>16, <1>17, <1>18, <1>19, <1>20, <1>21,
     <1>22, <1>23, <1>24, <1>25, <1>26, <1>27, FunnelSteps
     DEF Typed, vars, Next, Step, Shopper, Timers, RereadGone, Crash, RequoteItems,
         StripPromo, Outcomes

\* A completed session is never written again, and no order is ever lost.
CompletedStays ==
    \A s \in Sessions : status[s] = "completed" =>
        /\ status'[s] = "completed" /\ bound'[s] = bound[s]
        /\ content'[s] = content[s] /\ orderId'[s] = orderId[s]
OrdersStay ==
    \A s \in Sessions, k \in Keys : Ordered(s, k) => orders'[s][k] = orders[s][k]

\* Whatever happens, what is completed or ordered stays.
LEMMA CompletedStep ==
  ASSUME Typed, [Next]_vars
  PROVE  CompletedStays /\ OrdersStay
<1> USE ConfirmAssumption
    DEF Typed, TypeOK, SessionsTyped, LocalsTyped, HasArguments, Holds,
        CompletedStays, OrdersStay
<1>1. ASSUME NEW e \in Execs, NEW s \in Sessions, NEW k \in Keys,
            ReadSession(e, s, k)
     PROVE  CompletedStays /\ OrdersStay
  BY <1>1 DEF ReadSession, Snapshot, sessionVars, claimVars
<1>2. ASSUME NEW e \in Execs, NEW o \in Outcomes, MarkExpired(e, o)
     PROVE  CompletedStays /\ OrdersStay
  BY <1>2 DEF MarkExpired, Expirable, Working, Return, claimVars, Terminal
<1>3. ASSUME NEW e \in Execs, NEW o \in Outcomes, Claim(e, o)
     PROVE  CompletedStays /\ OrdersStay
  BY <1>3 DEF Claim, Claimable, Applied, Return, sessionVars
<1>4. ASSUME NEW e \in Execs, ClaimRefused(e)
     PROVE  CompletedStays /\ OrdersStay
  BY <1>4 DEF ClaimRefused, Return, sessionVars, claimVars
<1>5. ASSUME NEW e \in Execs, NEW o \in Outcomes, BeginConfirm(e, o)
     PROVE  CompletedStays /\ OrdersStay
  BY <1>5 DEF BeginConfirm, CanBegin, Goto, claimVars, localVars
<1>6. ASSUME NEW e \in Execs, Reenter(e) PROVE CompletedStays /\ OrdersStay
  BY <1>6 DEF Reenter, OwnBinding, Goto, sessionVars, claimVars, localVars
<1>7. ASSUME NEW e \in Execs, EntryRefused(e)
     PROVE  CompletedStays /\ OrdersStay
  BY <1>7 DEF EntryRefused, Goto, sessionVars, claimVars, localVars
<1>8. ASSUME NEW e \in Execs, RereadConfirming(e)
     PROVE  CompletedStays /\ OrdersStay
  BY <1>8 DEF RereadConfirming, Reloaded, AfterReread, Snapshot, sessionVars,
         claimVars
<1>9. ASSUME NEW e \in Execs, pc[e] # "idle", GiveUp(e)
     PROVE  CompletedStays /\ OrdersStay
  BY <1>9 DEF GiveUp, Return, sessionVars
<1>10. ASSUME NEW e \in Execs, Revalidate(e)
     PROVE  CompletedStays /\ OrdersStay
  BY <1>10 DEF Revalidate, Goto, sessionVars, claimVars, localVars
<1>11. ASSUME NEW e \in Execs, NEW o \in Outcomes, NEW c \in Contents,
              pc[e] \in {"requote", "strip"},
            DropToShipping(e, o, c)
     PROVE  CompletedStays /\ OrdersStay
  BY <1>11 DEF DropToShipping, Goto, Return, localVars
<1>12. ASSUME NEW e \in Execs, NEW o \in Outcomes, RedeemPromo(e, o)
     PROVE  CompletedStays /\ OrdersStay
  BY <1>12 DEF RedeemPromo, AfterRedeem, Goto, sessionVars, claimVars, localVars
<1>13. ASSUME NEW e \in Execs, RedeemRejected(e)
     PROVE  CompletedStays /\ OrdersStay
  BY <1>13 DEF RedeemRejected, Goto, sessionVars, claimVars, localVars
<1>14. ASSUME NEW e \in Execs, NEW o \in Outcomes, AbortConfirm(e, o)
     PROVE  CompletedStays /\ OrdersStay
  BY <1>14 DEF AbortConfirm, Goto, claimVars, localVars
<1>15. ASSUME NEW e \in Execs, NEW o \in Outcomes, Release(e, o)
     PROVE  CompletedStays /\ OrdersStay
  BY <1>15 DEF Release, Return, sessionVars
<1>16. ASSUME NEW e \in Execs, NEW o \in Outcomes, Checkpoint(e, o)
     PROVE  CompletedStays /\ OrdersStay
  BY <1>16 DEF Checkpoint, Applied, Goto, Return, sessionVars, localVars
<1>17. ASSUME NEW e \in Execs, NEW o \in Outcomes, CreateOrder(e, o)
     PROVE  CompletedStays /\ OrdersStay
  BY <1>17 DEF CreateOrder, AfterCreate, Applied, Goto, sessionVars, claimVars,
         localVars, Ordered
<1>18. ASSUME NEW e \in Execs, NEW o \in Outcomes, RecordOrder(e, o)
     PROVE  CompletedStays /\ OrdersStay
  BY <1>18 DEF RecordOrder, Goto, sessionVars, localVars
<1>19. ASSUME NEW e \in Execs, NEW o \in Outcomes,
            BackfillRedemptionOrder(e, o)
     PROVE  CompletedStays /\ OrdersStay
  BY <1>19 DEF BackfillRedemptionOrder, Goto, sessionVars, claimVars, localVars
<1>20. ASSUME NEW e \in Execs, NEW o \in Outcomes, CompleteSession(e, o)
     PROVE  CompletedStays /\ OrdersStay
  BY <1>20 DEF CompleteSession, Applied, Goto, Return, localVars
<1>21. ASSUME NEW e \in Execs, Recheck(e) PROVE CompletedStays /\ OrdersStay
  BY <1>21 DEF Recheck, GiveUp, Return, Snapshot, sessionVars, claimVars
<1>22. ASSUME NEW e \in Execs, NEW o \in Outcomes, Finish(e, o)
     PROVE  CompletedStays /\ OrdersStay
  BY <1>22 DEF Finish, Applied, Goto, Return, sessionVars, localVars
<1>23. ASSUME NEW k \in Keys, LockGoesStale(k)
     PROVE  CompletedStays /\ OrdersStay
  BY <1>23 DEF LockGoesStale, sessionVars, localVars
<1>24. ASSUME FunnelFrame PROVE CompletedStays /\ OrdersStay
  BY <1>24 DEF FunnelFrame, Elsewhere, claimVars, localVars
<1>25. ASSUME NEW s \in Sessions, ExpireParked(s)
     PROVE  CompletedStays /\ OrdersStay
  BY <1>25 DEF ExpireParked, ProvablyDead, Elsewhere, claimVars, localVars
<1>26. ASSUME NEW k \in Keys, ReapFinished(k)
     PROVE  CompletedStays /\ OrdersStay
  BY <1>26 DEF ReapFinished, sessionVars, localVars
<1>27. ASSUME UNCHANGED vars PROVE CompletedStays /\ OrdersStay
  BY <1>27 DEF vars, sessionVars, claimVars, localVars
<1> HIDE DEF TypeOK, SessionsTyped, LocalsTyped, HasArguments, Holds,
             CompletedStays, OrdersStay
<1> QED
  BY <1>1, <1>2, <1>3, <1>4, <1>5, <1>6, <1>7, <1>8, <1>9, <1>10, <1>11,
     <1>12, <1>13, <1>14, <1>15, <1>16, <1>17, <1>18, <1>19, <1>20, <1>21,
     <1>22, <1>23, <1>24, <1>25, <1>26, <1>27, FunnelSteps
     DEF Typed, vars, Next, Step, Shopper, Timers, RereadGone, Crash, RequoteItems,
         StripPromo, Outcomes

\* Where no order, binding or claim changes, only an execution that arrives
\* past CreateOrder could break the bindings of orders.
LEMMA RestKeepsOrders ==
  ASSUME OrderInv, NEW e \in Execs, OthersRest(e),
         pc'[e] \in {"idle", "release", "enter", "recheck", "finish"},
         UNCHANGED <<status, bound, orders, row, claimFor, subject>>
  PROVE  OrderInv'
BY DEF OrderInv, DriverHasOrder, OrderBindsSession, OthersRest, Ordered, ClaimId

\* Every step keeps an order bound to the session it was made for.
LEMMA OrderStep ==
  ASSUME Typed, ClaimInv, KnowsMarker, BindInv, OrderInv, ShownInv, [Next]_vars
  PROVE  OrderInv'
<1>1. ASSUME NEW e \in Execs, NEW o \in Outcomes, Claim(e, o) PROVE OrderInv'
  <2>1. /\ ek[e] \in Keys /\ pc'[e] \in {"enter", "idle"}
        /\ UNCHANGED <<status, bound, orders>>
    BY <1>1
       DEF Claim, Return, sessionVars, Typed, TypeOK, LocalsTyped, HasArguments
  <2>2. OthersRest(e)
    BY <1>1 DEF Claim, Return, OthersRest, Typed, TypeOK, LocalsTyped
  <2>3. CASE claimFor[ek[e]] # NoSession
    <3>1. row' = row /\ subject' = subject /\ claimFor' = claimFor
      BY <1>1, <2>1, <2>3 DEF Claim, Claimable, Typed, TypeOK, ClaimsTyped
    <3> QED
      BY <1>1, <2>1, <2>2, <3>1, RestKeepsOrders
  <2>4. CASE claimFor[ek[e]] = NoSession
    <3>1. \A k \in Keys \ {ek[e]} : /\ row'[k] = row[k] /\ subject'[k] = subject[k]
                                    /\ claimFor'[k] = claimFor[k]
      BY <1>1 DEF Claim, Typed, TypeOK, ClaimsTyped
    <3>2. DriverHasOrder'
      <4> SUFFICES ASSUME NEW x \in Execs,
                          pc'[x] \in {"record", "backfill", "complete"}
                   PROVE  Ordered(es[x], ek[x])'
        BY DEF DriverHasOrder
      <4>1. x # e
        BY <2>1
      <4>2. pc'[x] = pc[x] /\ es'[x] = es[x] /\ ek'[x] = ek[x]
        BY <2>2, <4>1 DEF OthersRest
      <4> QED
        BY <2>1, <4>2 DEF OrderInv, DriverHasOrder, Ordered
    <3>3. OrderBindsSession'
      <4> SUFFICES ASSUME NEW s \in Sessions, NEW k \in Keys, Ordered(s, k)'
                   PROVE  (/\ bound[s].key = k
                           /\ \/ status[s] = "completed"
                              \/ /\ claimFor[k] = s /\ bound[s] = ClaimId(k)
                                 /\ subject[k] # "none")'
        BY DEF OrderBindsSession
      <4>1. /\ bound[s].key = k
            /\ \/ status[s] = "completed"
               \/ /\ claimFor[k] = s /\ bound[s] = ClaimId(k)
                  /\ subject[k] # "none"
        BY <2>1 DEF OrderInv, OrderBindsSession, Ordered
      <4>2. CASE k = ek[e]
        BY <2>1, <2>4, <4>1, <4>2, ConfirmAssumption
      <4>3. CASE k # ek[e]
        BY <2>1, <3>1, <4>1, <4>3 DEF ClaimId
      <4> QED
        BY <4>2, <4>3
    <3> QED
      BY <3>2, <3>3 DEF OrderInv
  <2> QED
    BY <2>3, <2>4
<1>2. ASSUME NEW e \in Execs, NEW o \in Outcomes, Checkpoint(e, o)
     PROVE  OrderInv'
  <2>1. pc'[e] \in {"place", "idle"} /\ UNCHANGED <<status, bound, orders, row, claimFor>>
    BY <1>2
       DEF Checkpoint, Goto, Return, sessionVars, Typed, TypeOK, LocalsTyped
  <2>2. OthersRest(e)
    BY <1>2, OthersRestStep DEF Checkpoint, Typed, TypeOK
  <2>3. \A k \in Keys : subject[k] # "none" => subject'[k] # "none"
    BY <1>2 DEF Checkpoint, attemptSentinel, Typed, TypeOK, ClaimsTyped
  <2>4. DriverHasOrder'
    BY <2>1, <2>2 DEF OrderInv, DriverHasOrder, OthersRest, Ordered
  <2>5. OrderBindsSession'
    BY <2>1, <2>3 DEF OrderInv, OrderBindsSession, Ordered, ClaimId
  <2> QED
    BY <2>4, <2>5 DEF OrderInv
<1>3. ASSUME NEW e \in Execs, NEW o \in Outcomes, CreateOrder(e, o)
     PROVE  OrderInv'
  <2>1. /\ es[e] \in Sessions /\ ek[e] \in Keys /\ claimFor[ek[e]] = es[e]
        /\ bound[es[e]] = ClaimId(ek[e]) /\ subject[ek[e]] # "none"
        /\ snap[e].content # NoContent
    BY <1>3, ConfirmAssumption
       DEF CreateOrder, Typed, HasArguments, ClaimInv, OwnsClaim, Owning, BindInv,
           DriverIsBound, Driving, KnowsMarker, Committed
  <2>2. UNCHANGED <<es, ek, status, bound, row, claimFor, subject>>
    BY <1>3 DEF CreateOrder, Goto, sessionVars, claimVars, localVars
  <2>3. /\ OthersRest(e)
        /\ \A s \in Sessions, k \in Keys :
              Ordered(s, k)' => Ordered(s, k) \/ (s = es[e] /\ k = ek[e])
    BY <1>3, OthersRestStep DEF CreateOrder, Ordered, Typed, TypeOK
  <2>4. \A s \in Sessions, k \in Keys : Ordered(s, k) => Ordered(s, k)'
    BY <1>3, <2>1 DEF CreateOrder, Ordered, Typed, TypeOK
  <2>5. pc'[e] \in {"record", "backfill", "complete"} => Ordered(es[e], ek[e])'
    <3>1. CASE o = "ok" /\ snap[e].content \notin Overshot
      <4>1. orders' = IF orders[es[e]][ek[e]] = NoContent
                      THEN [orders EXCEPT ![es[e]][ek[e]] = snap[e].content]
                      ELSE orders
        BY <1>3, <3>1 DEF CreateOrder, Applied
      <4> QED
        BY <2>1, <2>2, <4>1 DEF Ordered, Typed, TypeOK
    <3>2. CASE ~(o = "ok" /\ snap[e].content \notin Overshot)
      BY <1>3, <3>2
         DEF CreateOrder, AfterCreate, Goto, Typed, TypeOK, LocalsTyped
    <3> QED
      BY <3>1, <3>2
  <2>6. DriverHasOrder'
    BY <2>2, <2>3, <2>4, <2>5
       DEF OrderInv, DriverHasOrder, OthersRest, Typed, HasArguments
  <2>7. OrderBindsSession'
    BY <2>1, <2>2, <2>3 DEF OrderInv, OrderBindsSession, ClaimId
  <2> QED
    BY <2>6, <2>7 DEF OrderInv
<1>4. ASSUME NEW e \in Execs, Recheck(e) PROVE OrderInv'
  <2>1. OthersRest(e) /\ pc'[e] \in {"idle", "finish"}
    BY <1>4 DEF Recheck, GiveUp, Return, OthersRest, Typed, TypeOK, LocalsTyped
  <2>2. UNCHANGED <<status, bound, orders, row, claimFor, subject>>
    BY <1>4 DEF Recheck, GiveUp, sessionVars, claimVars
  <2> QED
    BY <1>4, <2>1, <2>2, RestKeepsOrders
<1>5. ASSUME NEW e \in Execs, NEW o \in Outcomes, Finish(e, o) PROVE OrderInv'
  <2>1. OthersRest(e)
    BY <1>5, OthersRestStep DEF Finish, Typed, TypeOK
  <2>2. /\ pc'[e] \in {"idle", "release"}
        /\ UNCHANGED <<status, bound, orders, row, claimFor, subject>>
    BY <1>5 DEF Finish, Goto, Return, sessionVars, Typed, TypeOK, LocalsTyped
  <2> QED
    BY <1>5, <2>1, <2>2, RestKeepsOrders
<1> USE ConfirmAssumption
    DEF Typed, TypeOK, SessionsTyped, ClaimsTyped, LocalsTyped,
        HasArguments, ClaimInv, OwnsClaim, KnowsMarker, BindInv,
        DriverIsBound, Owning, Driving, Undoable, Committed, ClaimId,
        Unbound, Ordered, OrderInv, DriverHasOrder, OrderBindsSession,
        ShownInv, CachedAnswerIsShown
<1>6. ASSUME NEW e \in Execs, NEW s \in Sessions, NEW k \in Keys,
            ReadSession(e, s, k)
     PROVE  OrderInv'
  BY <1>6 DEF ReadSession, Snapshot, sessionVars, claimVars
<1>7. ASSUME NEW e \in Execs, NEW o \in Outcomes, MarkExpired(e, o)
     PROVE  OrderInv'
  BY <1>7 DEF MarkExpired, Expirable, Working, Return, claimVars
<1>8. ASSUME NEW e \in Execs, ClaimRefused(e) PROVE OrderInv'
  BY <1>8 DEF ClaimRefused, Return, sessionVars, claimVars
<1>9. ASSUME NEW e \in Execs, NEW o \in Outcomes, BeginConfirm(e, o)
     PROVE  OrderInv'
  BY <1>9 DEF BeginConfirm, CanBegin, Goto, claimVars, localVars
<1>10. ASSUME NEW e \in Execs, Reenter(e) PROVE OrderInv'
  BY <1>10 DEF Reenter, OwnBinding, Goto, sessionVars, claimVars, localVars
<1>11. ASSUME NEW e \in Execs, EntryRefused(e) PROVE OrderInv'
  BY <1>11 DEF EntryRefused, Goto, sessionVars, claimVars, localVars
<1>12. ASSUME NEW e \in Execs, RereadConfirming(e) PROVE OrderInv'
  BY <1>12 DEF RereadConfirming, Reloaded, AfterReread, Snapshot, sessionVars,
         claimVars
<1>13. ASSUME NEW e \in Execs, pc[e] # "idle", GiveUp(e) PROVE OrderInv'
  BY <1>13 DEF GiveUp, Return, sessionVars
<1>14. ASSUME NEW e \in Execs, Revalidate(e) PROVE OrderInv'
  BY <1>14 DEF Revalidate, Goto, sessionVars, claimVars, localVars
<1>15. ASSUME NEW e \in Execs, NEW o \in Outcomes, NEW c \in Contents,
              pc[e] \in {"requote", "strip"},
            DropToShipping(e, o, c)
     PROVE  OrderInv'
  BY <1>15 DEF DropToShipping, Goto, Return, localVars, Holds
<1>16. ASSUME NEW e \in Execs, NEW o \in Outcomes, RedeemPromo(e, o)
     PROVE  OrderInv'
  BY <1>16 DEF RedeemPromo, AfterRedeem, Goto, sessionVars, claimVars, localVars
<1>17. ASSUME NEW e \in Execs, RedeemRejected(e) PROVE OrderInv'
  BY <1>17 DEF RedeemRejected, Goto, sessionVars, claimVars, localVars
<1>18. ASSUME NEW e \in Execs, NEW o \in Outcomes, AbortConfirm(e, o)
     PROVE  OrderInv'
  BY <1>18 DEF AbortConfirm, Goto, claimVars, localVars, Holds
<1>19. ASSUME NEW e \in Execs, NEW o \in Outcomes, Release(e, o)
     PROVE  OrderInv'
  BY <1>19 DEF Release, Return, sessionVars
<1>20. ASSUME NEW e \in Execs, NEW o \in Outcomes, RecordOrder(e, o)
     PROVE  OrderInv'
  BY <1>20 DEF RecordOrder, Goto, sessionVars, localVars
<1>21. ASSUME NEW e \in Execs, NEW o \in Outcomes,
            BackfillRedemptionOrder(e, o)
     PROVE  OrderInv'
  BY <1>21 DEF BackfillRedemptionOrder, Goto, sessionVars, claimVars, localVars
<1>22. ASSUME NEW e \in Execs, NEW o \in Outcomes, CompleteSession(e, o)
     PROVE  OrderInv'
  BY <1>22 DEF CompleteSession, Applied, Goto, Return, localVars
<1>23. ASSUME NEW k \in Keys, LockGoesStale(k) PROVE OrderInv'
  BY <1>23 DEF LockGoesStale, sessionVars, localVars
<1>24. ASSUME FunnelFrame PROVE OrderInv'
  BY <1>24 DEF FunnelFrame, Elsewhere, claimVars, localVars
<1>25. ASSUME NEW s \in Sessions, ExpireParked(s) PROVE OrderInv'
  BY <1>25 DEF ExpireParked, ProvablyDead, Elsewhere, claimVars, localVars
<1>26. ASSUME NEW k \in Keys, ReapFinished(k) PROVE OrderInv'
  BY <1>26 DEF ReapFinished, sessionVars, localVars
<1>27. ASSUME UNCHANGED vars PROVE OrderInv'
  BY <1>27 DEF vars, sessionVars, claimVars, localVars
<1> HIDE DEF TypeOK, SessionsTyped, ClaimsTyped, LocalsTyped, HasArguments,
             ClaimInv, OwnsClaim, KnowsMarker, BindInv, DriverIsBound,
             Owning, Driving, Undoable, Committed, ClaimId, Unbound,
             Ordered, OrderInv, DriverHasOrder, OrderBindsSession,
             ShownInv, CachedAnswerIsShown
<1> QED
  BY <1>1, <1>2, <1>3, <1>4, <1>5, <1>6, <1>7, <1>8, <1>9, <1>10, <1>11,
     <1>12, <1>13, <1>14, <1>15, <1>16, <1>17, <1>18, <1>19, <1>20, <1>21,
     <1>22, <1>23, <1>24, <1>25, <1>26, <1>27, FunnelSteps
     DEF Typed, vars, Next, Step, Shopper, Timers, RereadGone, Crash, RequoteItems,
         StripPromo, Outcomes

\* Nothing but a change of contents or a new confirm can spoil what the
\* drivers of sessions in confirming have read.
LEMMA RestKeepsSight ==
  ASSUME Typed, DriverSeesContent, NEW e \in Execs, OthersRest(e),
         \/ pc'[e] \in {"idle", "release", "enter", "finish"}
         \/ /\ Driving(e) /\ pc[e] # "finish"
            /\ es'[e] = es[e] /\ snap'[e] = snap[e],
         content' = content,
         \A s \in Sessions : status'[s] = "confirming" => status[s] = "confirming"
  PROVE  DriverSeesContent'
BY DEF Typed, HasArguments, DriverSeesContent, Driving, OthersRest

\* A read of a completed session stays true when others rest and e ends or
\* keeps its read.
LEMMA RestKeepsRead ==
  ASSUME Typed, CompletedStays, CompletedReadIsFinal, NEW e \in Execs,
         OthersRest(e),
         \/ pc'[e] = "idle"
         \/ pc[e] # "idle" /\ es'[e] = es[e] /\ snap'[e] = snap[e]
  PROVE  CompletedReadIsFinal'
BY DEF Typed, HasArguments, CompletedStays, CompletedReadIsFinal, OthersRest

\* Every step keeps a driver's read of its session current.
LEMMA SeenStep ==
  ASSUME Typed, ClaimInv, BindInv, OrderInv, ShownInv, CompletedStays,
         OrdersStay, [Next]_vars
  PROVE  DriverSeesContent'
<1>1. ASSUME NEW e \in Execs, NEW o \in Outcomes, Claim(e, o)
     PROVE  DriverSeesContent'
  <2>1. OthersRest(e)
    BY <1>1 DEF Claim, Return, OthersRest, Typed, TypeOK, LocalsTyped
  <2>2. /\ content' = content
        /\ \A s \in Sessions : status'[s] = "confirming" => status[s] = "confirming"
    BY <1>1 DEF Claim, Return, sessionVars, Typed, TypeOK, SessionsTyped
  <2>3. \/ pc'[e] \in {"idle", "release", "enter", "finish"}
    BY <1>1 DEF Claim, Return, sessionVars, Typed, TypeOK, LocalsTyped, Driving
  <2> QED
    BY <1>1, <2>1, <2>2, <2>3, RestKeepsSight DEF ShownInv
<1>2. ASSUME NEW e \in Execs, NEW o \in Outcomes, BeginConfirm(e, o)
     PROVE  DriverSeesContent'
  <2>1. CASE UNCHANGED <<status, bound>>
    BY <1>2, <2>1 DEF BeginConfirm, Goto, localVars, Typed, TypeOK, LocalsTyped,
           ShownInv, DriverSeesContent, Driving
  <2>2. CASE CanBegin(e) /\ status' = [status EXCEPT ![es[e]] = "confirming"]
    <3>1. /\ pc[e] = "enter" /\ ek[e] \in Keys /\ Owning(e)
      BY <1>2 DEF BeginConfirm, Typed, HasArguments, Owning
    <3>2. ASSUME NEW x \in Execs, Driving(x) PROVE es[x] # es[e]
      <4>1. bound[es[x]] = ClaimId(ek[x]) /\ ek[x] \in Keys /\ Owning(x)
        BY <3>2 DEF BindInv, DriverIsBound, Typed, HasArguments, Driving, Owning
      <4>2. x # e
        BY <3>1, <3>2 DEF Driving
      <4> QED
        BY <2>2, <3>1, <4>1, <4>2, SoleOwner, ConfirmAssumption
           DEF CanBegin, ClaimId, Unbound
    <3>3. status[es[e]] = "ready" /\ content' = content
      BY <1>2, <2>2 DEF BeginConfirm, CanBegin
    <3> QED
      BY <1>2, <2>2, <3>1, <3>2, <3>3 DEF BeginConfirm, Goto, localVars,
         Typed, TypeOK, SessionsTyped, LocalsTyped, ShownInv,
         DriverSeesContent, Driving, HasArguments
  <2> QED
    BY <1>2, <2>1, <2>2 DEF BeginConfirm
<1>3. ASSUME NEW e \in Execs, NEW o \in Outcomes, NEW c \in Contents,
             pc[e] \in {"requote", "strip"},
            DropToShipping(e, o, c)
     PROVE  DriverSeesContent'
  <2>1. OthersRest(e) /\ pc'[e] \in {"release", "idle"}
    BY <1>3, OthersRestStep
       DEF DropToShipping, Goto, Return, Typed, TypeOK, LocalsTyped
  <2>2. CASE UNCHANGED <<status, content>>
    BY <1>3, <2>1, <2>2, RestKeepsSight DEF ShownInv
  <2>3. CASE /\ Holds(e) /\ status' = [status EXCEPT ![es[e]] = "shipping_set"]
             /\ content' = [content EXCEPT ![es[e]] = c]
    <3> SUFFICES ASSUME NEW x \in Execs, Driving(x)', pc'[x] # "finish",
                        status'[es'[x]] = "confirming"
                 PROVE  content'[es'[x]] = snap'[x].content
      BY DEF DriverSeesContent
    <3>1. x # e /\ Driving(x) /\ es[x] \in Sessions
      BY <2>1 DEF OthersRest, Driving, Typed, HasArguments
    <3>2. es[x] # es[e] /\ status[es[x]] = "confirming"
      BY <2>1, <2>3, <3>1 DEF OthersRest, Typed, TypeOK, SessionsTyped
    <3> QED
      BY <2>1, <2>3, <3>1, <3>2
         DEF OthersRest, ShownInv, DriverSeesContent, Typed, TypeOK, SessionsTyped
  <2> QED
    BY <1>3, <2>2, <2>3 DEF DropToShipping
<1>4. ASSUME NEW e \in Execs, NEW o \in Outcomes, Checkpoint(e, o)
     PROVE  DriverSeesContent'
  <2>1. OthersRest(e)
    BY <1>4, OthersRestStep DEF Checkpoint, Typed, TypeOK, LocalsTyped
  <2>2. /\ content' = content
        /\ \A s \in Sessions : status'[s] = "confirming" => status[s] = "confirming"
    BY <1>4
       DEF Checkpoint, Goto, Return, sessionVars, localVars, Typed, TypeOK,
           SessionsTyped
  <2>3. \/ pc'[e] \in {"idle", "release", "enter", "finish"}
        \/ /\ Driving(e) /\ pc[e] # "finish"
           /\ snap'[e] = snap[e] /\ es'[e] = es[e]
    BY <1>4
       DEF Checkpoint, Goto, Return, sessionVars, localVars, Typed, TypeOK,
           LocalsTyped, Driving
  <2> QED
    BY <1>4, <2>1, <2>2, <2>3, RestKeepsSight DEF ShownInv
<1>5. ASSUME NEW e \in Execs, NEW o \in Outcomes, CompleteSession(e, o)
     PROVE  DriverSeesContent'
  <2>1. OthersRest(e)
    BY <1>5, OthersRestStep DEF CompleteSession, Typed, TypeOK, LocalsTyped
  <2>2. /\ content' = content
        /\ \A s \in Sessions : status'[s] = "confirming" => status[s] = "confirming"
    BY <1>5
       DEF CompleteSession, Goto, Return, localVars, Typed, TypeOK,
           SessionsTyped
  <2>3. \/ pc'[e] \in {"idle", "release", "enter", "finish"}
        \/ /\ Driving(e) /\ pc[e] # "finish"
           /\ snap'[e] = snap[e] /\ es'[e] = es[e]
    BY <1>5
       DEF CompleteSession, Goto, Return, localVars, Typed, TypeOK,
           LocalsTyped, Driving
  <2> QED
    BY <1>5, <2>1, <2>2, <2>3, RestKeepsSight DEF ShownInv
<1>6. ASSUME NEW e \in Execs, Recheck(e) PROVE DriverSeesContent'
  <2>1. OthersRest(e)
    BY <1>6 DEF Recheck, GiveUp, Return, OthersRest, Typed, TypeOK, LocalsTyped
  <2>2. /\ content' = content
        /\ \A s \in Sessions : status'[s] = "confirming" => status[s] = "confirming"
    BY <1>6
       DEF Recheck, GiveUp, Return, sessionVars, Typed, TypeOK, SessionsTyped
  <2>3. \/ pc'[e] \in {"idle", "release", "enter", "finish"}
    BY <1>6
       DEF Recheck, GiveUp, Return, sessionVars, Typed, TypeOK, LocalsTyped,
           Driving
  <2> QED
    BY <1>6, <2>1, <2>2, <2>3, RestKeepsSight DEF ShownInv
<1>7. ASSUME NEW e \in Execs, NEW o \in Outcomes, Finish(e, o)
     PROVE  DriverSeesContent'
  <2>1. OthersRest(e)
    BY <1>7, OthersRestStep DEF Finish, Typed, TypeOK, LocalsTyped
  <2>2. /\ content' = content
        /\ \A s \in Sessions : status'[s] = "confirming" => status[s] = "confirming"
    BY <1>7 DEF Finish, Goto, Return, sessionVars, Typed, TypeOK, SessionsTyped
  <2>3. \/ pc'[e] \in {"idle", "release", "enter", "finish"}
    BY <1>7
       DEF Finish, Goto, Return, sessionVars, Typed, TypeOK, LocalsTyped,
           Driving
  <2> QED
    BY <1>7, <2>1, <2>2, <2>3, RestKeepsSight DEF ShownInv
<1> USE ConfirmAssumption
    DEF Typed, TypeOK, SessionsTyped, LocalsTyped, HasArguments, ShownInv,
        Driving, DriverSeesContent
<1>8. ASSUME NEW e \in Execs, NEW s \in Sessions, NEW k \in Keys,
            ReadSession(e, s, k)
     PROVE  DriverSeesContent'
  BY <1>8 DEF ReadSession, Snapshot, sessionVars, claimVars
<1>9. ASSUME NEW e \in Execs, NEW o \in Outcomes, MarkExpired(e, o)
     PROVE  DriverSeesContent'
  BY <1>9 DEF MarkExpired, Expirable, Working, Return, claimVars
<1>10. ASSUME NEW e \in Execs, ClaimRefused(e) PROVE DriverSeesContent'
  BY <1>10 DEF ClaimRefused, Return, sessionVars, claimVars
<1>11. ASSUME NEW e \in Execs, Reenter(e) PROVE DriverSeesContent'
  BY <1>11 DEF Reenter, OwnBinding, Goto, sessionVars, claimVars, localVars
<1>12. ASSUME NEW e \in Execs, EntryRefused(e) PROVE DriverSeesContent'
  BY <1>12 DEF EntryRefused, Goto, sessionVars, claimVars, localVars
<1>13. ASSUME NEW e \in Execs, RereadConfirming(e) PROVE DriverSeesContent'
  BY <1>13 DEF RereadConfirming, Reloaded, AfterReread, Snapshot, sessionVars,
         claimVars, Holds
<1>14. ASSUME NEW e \in Execs, pc[e] # "idle", GiveUp(e)
     PROVE  DriverSeesContent'
  BY <1>14 DEF GiveUp, Return, sessionVars
<1>15. ASSUME NEW e \in Execs, Revalidate(e) PROVE DriverSeesContent'
  BY <1>15 DEF Revalidate, Goto, sessionVars, claimVars, localVars
<1>16. ASSUME NEW e \in Execs, NEW o \in Outcomes, RedeemPromo(e, o)
     PROVE  DriverSeesContent'
  BY <1>16 DEF RedeemPromo, AfterRedeem, Goto, sessionVars, claimVars, localVars
<1>17. ASSUME NEW e \in Execs, RedeemRejected(e) PROVE DriverSeesContent'
  BY <1>17 DEF RedeemRejected, Goto, sessionVars, claimVars, localVars
<1>18. ASSUME NEW e \in Execs, NEW o \in Outcomes, AbortConfirm(e, o)
     PROVE  DriverSeesContent'
  BY <1>18 DEF AbortConfirm, Goto, claimVars, localVars, Holds
<1>19. ASSUME NEW e \in Execs, NEW o \in Outcomes, Release(e, o)
     PROVE  DriverSeesContent'
  BY <1>19 DEF Release, Return, sessionVars
<1>20. ASSUME NEW e \in Execs, NEW o \in Outcomes, CreateOrder(e, o)
     PROVE  DriverSeesContent'
  BY <1>20 DEF CreateOrder, AfterCreate, Applied, Goto, sessionVars, claimVars,
         localVars
<1>21. ASSUME NEW e \in Execs, NEW o \in Outcomes, RecordOrder(e, o)
     PROVE  DriverSeesContent'
  BY <1>21 DEF RecordOrder, Goto, sessionVars, localVars
<1>22. ASSUME NEW e \in Execs, NEW o \in Outcomes,
            BackfillRedemptionOrder(e, o)
     PROVE  DriverSeesContent'
  BY <1>22 DEF BackfillRedemptionOrder, Goto, sessionVars, claimVars, localVars
<1>23. ASSUME NEW k \in Keys, LockGoesStale(k) PROVE DriverSeesContent'
  BY <1>23 DEF LockGoesStale, sessionVars, localVars
<1>24. ASSUME FunnelFrame PROVE DriverSeesContent'
  BY <1>24 DEF FunnelFrame, Elsewhere, claimVars, localVars
<1>25. ASSUME NEW s \in Sessions, ExpireParked(s) PROVE DriverSeesContent'
  BY <1>25 DEF ExpireParked, ProvablyDead, Elsewhere, claimVars, localVars
<1>26. ASSUME NEW k \in Keys, ReapFinished(k) PROVE DriverSeesContent'
  BY <1>26 DEF ReapFinished, sessionVars, localVars
<1>27. ASSUME UNCHANGED vars PROVE DriverSeesContent'
  BY <1>27 DEF vars, sessionVars, claimVars, localVars
<1> HIDE DEF TypeOK, SessionsTyped, LocalsTyped, HasArguments, ShownInv,
             Driving, DriverSeesContent
<1> QED
  BY <1>1, <1>2, <1>3, <1>4, <1>5, <1>6, <1>7, <1>8, <1>9, <1>10, <1>11,
     <1>12, <1>13, <1>14, <1>15, <1>16, <1>17, <1>18, <1>19, <1>20, <1>21,
     <1>22, <1>23, <1>24, <1>25, <1>26, <1>27, FunnelSteps
     DEF Typed, vars, Next, Step, Shopper, Timers, RereadGone, Crash, RequoteItems,
         StripPromo, Outcomes

\* Every step keeps a read of a completed session true.
LEMMA ReadStep ==
  ASSUME Typed, ClaimInv, BindInv, OrderInv, ShownInv, CompletedStays,
         OrdersStay, [Next]_vars
  PROVE  CompletedReadIsFinal'
<1>1. ASSUME NEW e \in Execs, Reenter(e) PROVE CompletedReadIsFinal'
  BY <1>1 DEF Reenter, Goto, sessionVars, localVars, Typed, TypeOK, LocalsTyped,
         ShownInv, CompletedReadIsFinal
<1>2. ASSUME NEW e \in Execs, NEW o \in Outcomes, NEW c \in Contents,
             pc[e] \in {"requote", "strip"},
            DropToShipping(e, o, c)
     PROVE  CompletedReadIsFinal'
  <2>1. OthersRest(e)
    BY <1>2, OthersRestStep DEF DropToShipping, Typed, TypeOK
  <2>2. \/ pc'[e] = "idle"
        \/ pc[e] # "idle" /\ es'[e] = es[e] /\ snap'[e] = snap[e]
    BY <1>2
       DEF DropToShipping, Goto, Return, localVars, Typed, TypeOK, LocalsTyped
  <2> QED
    BY <1>2, <2>1, <2>2, RestKeepsRead DEF ShownInv
<1>3. ASSUME NEW e \in Execs, Recheck(e) PROVE CompletedReadIsFinal'
  <2>1. CASE GiveUp(e)
    BY <1>3, <2>1 DEF GiveUp, Return, sessionVars, Typed, TypeOK, LocalsTyped,
           ShownInv, CompletedReadIsFinal
  <2>2. CASE ~GiveUp(e)
    BY <1>3, <2>2
       DEF Recheck, Snapshot, sessionVars, Typed, TypeOK, LocalsTyped,
           ShownInv, CompletedReadIsFinal
  <2> QED
    BY <2>1, <2>2
<1>4. ASSUME NEW e \in Execs, NEW o \in Outcomes, Finish(e, o)
     PROVE  CompletedReadIsFinal'
  <2>1. OthersRest(e)
    BY <1>4, OthersRestStep DEF Finish, Typed, TypeOK
  <2>2. \/ pc'[e] = "idle"
        \/ pc[e] # "idle" /\ es'[e] = es[e] /\ snap'[e] = snap[e]
    BY <1>4 DEF Finish, Goto, Return, localVars, Typed, TypeOK, LocalsTyped
  <2> QED
    BY <1>4, <2>1, <2>2, RestKeepsRead DEF ShownInv
<1> USE ConfirmAssumption
    DEF Typed, TypeOK, SessionsTyped, LocalsTyped, HasArguments, ShownInv,
        CompletedReadIsFinal, CompletedStays, NoSnap
<1>5. ASSUME NEW e \in Execs, NEW s \in Sessions, NEW k \in Keys,
            ReadSession(e, s, k)
     PROVE  CompletedReadIsFinal'
  BY <1>5 DEF ReadSession, Snapshot, sessionVars, claimVars
<1>6. ASSUME NEW e \in Execs, NEW o \in Outcomes, MarkExpired(e, o)
     PROVE  CompletedReadIsFinal'
  BY <1>6 DEF MarkExpired, Expirable, Working, Return, claimVars
<1>7. ASSUME NEW e \in Execs, NEW o \in Outcomes, Claim(e, o)
     PROVE  CompletedReadIsFinal'
  BY <1>7, SMTT(20) DEF Claim, Claimable, Applied, Return, sessionVars
<1>8. ASSUME NEW e \in Execs, ClaimRefused(e) PROVE CompletedReadIsFinal'
  BY <1>8 DEF ClaimRefused, Return, sessionVars, claimVars
<1>9. ASSUME NEW e \in Execs, NEW o \in Outcomes, BeginConfirm(e, o)
     PROVE  CompletedReadIsFinal'
  BY <1>9 DEF BeginConfirm, CanBegin, Goto, claimVars, localVars
<1>10. ASSUME NEW e \in Execs, EntryRefused(e) PROVE CompletedReadIsFinal'
  BY <1>10 DEF EntryRefused, Goto, sessionVars, claimVars, localVars
<1>11. ASSUME NEW e \in Execs, RereadConfirming(e) PROVE CompletedReadIsFinal'
  BY <1>11 DEF RereadConfirming, Reloaded, AfterReread, Snapshot, sessionVars,
         claimVars
<1>12. ASSUME NEW e \in Execs, pc[e] # "idle", GiveUp(e)
     PROVE  CompletedReadIsFinal'
  BY <1>12 DEF GiveUp, Return, sessionVars
<1>13. ASSUME NEW e \in Execs, Revalidate(e) PROVE CompletedReadIsFinal'
  BY <1>13, SMTT(20) DEF Revalidate, Goto, sessionVars, claimVars, localVars
<1>14. ASSUME NEW e \in Execs, NEW o \in Outcomes, RedeemPromo(e, o)
     PROVE  CompletedReadIsFinal'
  BY <1>14 DEF RedeemPromo, AfterRedeem, Goto, sessionVars, claimVars, localVars
<1>15. ASSUME NEW e \in Execs, RedeemRejected(e) PROVE CompletedReadIsFinal'
  BY <1>15 DEF RedeemRejected, Goto, sessionVars, claimVars, localVars
<1>16. ASSUME NEW e \in Execs, NEW o \in Outcomes, AbortConfirm(e, o)
     PROVE  CompletedReadIsFinal'
  BY <1>16 DEF AbortConfirm, Goto, claimVars, localVars
<1>17. ASSUME NEW e \in Execs, NEW o \in Outcomes, Release(e, o)
     PROVE  CompletedReadIsFinal'
  BY <1>17 DEF Release, Return, sessionVars
<1>18. ASSUME NEW e \in Execs, NEW o \in Outcomes, Checkpoint(e, o)
     PROVE  CompletedReadIsFinal'
  BY <1>18 DEF Checkpoint, Applied, Goto, Return, sessionVars, localVars
<1>19. ASSUME NEW e \in Execs, NEW o \in Outcomes, CreateOrder(e, o)
     PROVE  CompletedReadIsFinal'
  BY <1>19 DEF CreateOrder, AfterCreate, Applied, Goto, sessionVars, claimVars,
         localVars
<1>20. ASSUME NEW e \in Execs, NEW o \in Outcomes, RecordOrder(e, o)
     PROVE  CompletedReadIsFinal'
  BY <1>20 DEF RecordOrder, Goto, sessionVars, localVars
<1>21. ASSUME NEW e \in Execs, NEW o \in Outcomes,
            BackfillRedemptionOrder(e, o)
     PROVE  CompletedReadIsFinal'
  BY <1>21 DEF BackfillRedemptionOrder, Goto, sessionVars, claimVars, localVars
<1>22. ASSUME NEW e \in Execs, NEW o \in Outcomes, CompleteSession(e, o)
     PROVE  CompletedReadIsFinal'
  BY <1>22 DEF CompleteSession, Applied, Goto, Return, localVars
<1>23. ASSUME NEW k \in Keys, LockGoesStale(k) PROVE CompletedReadIsFinal'
  BY <1>23 DEF LockGoesStale, sessionVars, localVars
<1>24. ASSUME FunnelFrame PROVE CompletedReadIsFinal'
  BY <1>24 DEF FunnelFrame, Elsewhere, claimVars, localVars
<1>25. ASSUME NEW s \in Sessions, ExpireParked(s) PROVE CompletedReadIsFinal'
  BY <1>25 DEF ExpireParked, ProvablyDead, Elsewhere, claimVars, localVars
<1>26. ASSUME NEW k \in Keys, ReapFinished(k) PROVE CompletedReadIsFinal'
  BY <1>26 DEF ReapFinished, sessionVars, localVars
<1>27. ASSUME UNCHANGED vars PROVE CompletedReadIsFinal'
  BY <1>27 DEF vars, sessionVars, claimVars, localVars
<1> HIDE DEF TypeOK, SessionsTyped, LocalsTyped, HasArguments, ShownInv,
             CompletedReadIsFinal, CompletedStays, NoSnap
<1> QED
  BY <1>1, <1>2, <1>3, <1>4, <1>5, <1>6, <1>7, <1>8, <1>9, <1>10, <1>11,
     <1>12, <1>13, <1>14, <1>15, <1>16, <1>17, <1>18, <1>19, <1>20, <1>21,
     <1>22, <1>23, <1>24, <1>25, <1>26, <1>27, FunnelSteps
     DEF Typed, vars, Next, Step, Shopper, Timers, RereadGone, Crash, RequoteItems,
         StripPromo, Outcomes

\* Every step keeps an answer about to be cached true.
LEMMA FinishStep ==
  ASSUME Typed, ClaimInv, BindInv, OrderInv, ShownInv, CompletedStays,
         OrdersStay, [Next]_vars
  PROVE  FinishingIsCompleted'
<1>1. ASSUME NEW e \in Execs, NEW o \in Outcomes, Claim(e, o)
     PROVE  FinishingIsCompleted'
  <2>1. \A x \in Execs \ {e} : Owning(x) => ek[x] # ek[e]
    BY <1>1, ConfirmAssumption
       DEF Claim, Claimable, Typed, TypeOK, LocalsTyped, HasArguments, ClaimInv,
           OwnsClaim, Owning
  <2>2. /\ pc'[e] \in {"enter", "idle"} /\ UNCHANGED <<status, bound, content>>
        /\ \A x \in Execs \ {e} : snap'[x] = snap[x]
        /\ \A k \in Keys \ {ek[e]} : row'[k] = row[k]
    BY <1>1
       DEF Claim, Return, sessionVars, Typed, TypeOK, LocalsTyped, ClaimsTyped
  <2>3. OthersRest(e)
    BY <1>1 DEF Claim, Return, OthersRest, Typed, TypeOK, LocalsTyped
  <2> SUFFICES ASSUME NEW x \in Execs, pc'[x] \in {"finish", "refinish"}
               PROVE  (/\ status[es[x]] = "completed"
                       /\ bound[es[x]] = ClaimId(ek[x])
                       /\ content[es[x]] = snap[x].content)'
    BY DEF FinishingIsCompleted
  <2>4. x # e /\ pc[x] \in {"finish", "refinish"} /\ Owning(x)
    BY <2>2, <2>3 DEF OthersRest, Owning
  <2>5. ek[x] \in Keys \ {ek[e]}
    BY <2>1, <2>4 DEF Typed, HasArguments
  <2> QED
    BY <2>2, <2>3, <2>4, <2>5
       DEF OthersRest, ShownInv, FinishingIsCompleted, ClaimId
<1>2. ASSUME NEW e \in Execs, NEW o \in Outcomes, Checkpoint(e, o)
     PROVE  FinishingIsCompleted'
  <2>1. OthersRest(e) /\ UNCHANGED <<status, bound, content, row>>
    BY <1>2, OthersRestStep DEF Checkpoint, sessionVars, Typed, TypeOK
  <2>2. pc'[e] \notin {"finish", "refinish"}
    BY <1>2 DEF Checkpoint, Goto, Return, Typed, TypeOK, LocalsTyped
  <2> QED
    BY <2>1, <2>2 DEF OthersRest, ShownInv, FinishingIsCompleted, ClaimId
<1>3. ASSUME NEW e \in Execs, NEW o \in Outcomes, CompleteSession(e, o)
     PROVE  FinishingIsCompleted'
  <2>1. OthersRest(e) /\ row' = row /\ content' = content /\ bound' = bound
    BY <1>3, OthersRestStep DEF CompleteSession, Typed, TypeOK
  <2>2. \A x \in Execs \ {e} : snap'[x] = snap[x]
    BY <1>3
       DEF CompleteSession, Goto, Return, localVars, Typed, TypeOK, LocalsTyped
  <2> SUFFICES ASSUME NEW x \in Execs, pc'[x] \in {"finish", "refinish"}
               PROVE  (/\ status[es[x]] = "completed"
                       /\ bound[es[x]] = ClaimId(ek[x])
                       /\ content[es[x]] = snap[x].content)'
    BY DEF FinishingIsCompleted
  <2>3. CASE x # e
    <3>1. pc[x] \in {"finish", "refinish"}
      BY <2>1, <2>3 DEF OthersRest
    <3>2. /\ es[x] \in Sessions /\ status[es[x]] = "completed"
          /\ bound[es[x]] = ClaimId(ek[x]) /\ content[es[x]] = snap[x].content
      BY <3>1 DEF Typed, HasArguments, ShownInv, FinishingIsCompleted
    <3> QED
      BY <2>1, <2>2, <2>3, <3>2 DEF OthersRest, CompletedStays, ClaimId
  <2>4. CASE x = e
    <3>1. /\ pc[e] = "complete" /\ es[e] \in Sessions /\ Driving(e)
      BY <1>3 DEF CompleteSession, Typed, HasArguments, Driving
    <3>2. /\ o = "ok" /\ Holds(e) /\ UNCHANGED <<es, ek, snap>>
      BY <1>3, <2>4, <3>1 DEF CompleteSession, Goto, Return, localVars, Typed,
             TypeOK, LocalsTyped
    <3>3. status'[es[e]] = "completed"
      BY <1>3, <3>1, <3>2
         DEF CompleteSession, Applied, Typed, TypeOK, SessionsTyped
    <3>4. content[es[e]] = snap[e].content /\ bound[es[e]] = ClaimId(ek[e])
      BY <3>1, <3>2 DEF ShownInv, DriverSeesContent, Holds
    <3> QED
      BY <2>1, <2>4, <3>2, <3>3, <3>4 DEF ClaimId
  <2> QED
    BY <2>3, <2>4
<1>4. ASSUME NEW e \in Execs, Recheck(e) PROVE FinishingIsCompleted'
  <2>1. OthersRest(e)
    BY <1>4 DEF Recheck, GiveUp, Return, OthersRest, Typed, TypeOK, LocalsTyped
  <2>2. UNCHANGED <<status, bound, content, row>>
    BY <1>4 DEF Recheck, GiveUp, sessionVars, claimVars
  <2>3. CASE GiveUp(e)
    BY <1>4, <2>1, <2>2, <2>3 DEF GiveUp, Return, OthersRest, ShownInv,
           FinishingIsCompleted, ClaimId, Typed, TypeOK, LocalsTyped
  <2>4. CASE ~GiveUp(e)
    <3>1. /\ status[es[e]] = "completed" /\ bound[es[e]] = ClaimId(ek[e])
          /\ UNCHANGED <<es, ek>> /\ snap'[e].content = content[es[e]]
      BY <1>4, <2>4 DEF Recheck, Snapshot, Typed, TypeOK, LocalsTyped
    <3> QED
      BY <2>1, <2>2, <3>1
         DEF OthersRest, ShownInv, FinishingIsCompleted, ClaimId
  <2> QED
    BY <2>3, <2>4
<1>5. ASSUME NEW e \in Execs, NEW o \in Outcomes, Finish(e, o)
     PROVE  FinishingIsCompleted'
  <2>1. /\ pc'[e] \in {"idle", "release"}
        /\ UNCHANGED <<status, bound, content, row>>
    BY <1>5 DEF Finish, Goto, Return, sessionVars, Typed, TypeOK, LocalsTyped
  <2>2. OthersRest(e)
    BY <1>5, OthersRestStep DEF Finish, Typed, TypeOK
  <2> QED
    BY <2>1, <2>2 DEF OthersRest, ShownInv, FinishingIsCompleted, ClaimId
<1> USE ConfirmAssumption
    DEF Typed, TypeOK, SessionsTyped, LocalsTyped, HasArguments, ShownInv,
        ClaimsTyped, ClaimInv, OwnsClaim, Owning, Driving, ClaimId, Holds,
        FinishingIsCompleted, DriverSeesContent, CompletedReadIsFinal,
        CompletedStays
<1>6. ASSUME NEW e \in Execs, NEW s \in Sessions, NEW k \in Keys,
            ReadSession(e, s, k)
     PROVE  FinishingIsCompleted'
  BY <1>6 DEF ReadSession, Snapshot, sessionVars, claimVars
<1>7. ASSUME NEW e \in Execs, NEW o \in Outcomes, MarkExpired(e, o)
     PROVE  FinishingIsCompleted'
  BY <1>7 DEF MarkExpired, Expirable, Working, Return, claimVars
<1>8. ASSUME NEW e \in Execs, ClaimRefused(e) PROVE FinishingIsCompleted'
  BY <1>8 DEF ClaimRefused, Return, sessionVars, claimVars
<1>9. ASSUME NEW e \in Execs, NEW o \in Outcomes, BeginConfirm(e, o)
     PROVE  FinishingIsCompleted'
  BY <1>9 DEF BeginConfirm, CanBegin, Goto, claimVars, localVars
<1>10. ASSUME NEW e \in Execs, Reenter(e) PROVE FinishingIsCompleted'
  BY <1>10 DEF Reenter, OwnBinding, Goto, sessionVars, claimVars, localVars
<1>11. ASSUME NEW e \in Execs, EntryRefused(e) PROVE FinishingIsCompleted'
  BY <1>11 DEF EntryRefused, Goto, sessionVars, claimVars, localVars
<1>12. ASSUME NEW e \in Execs, RereadConfirming(e) PROVE FinishingIsCompleted'
  BY <1>12 DEF RereadConfirming, Reloaded, AfterReread, Snapshot, sessionVars,
         claimVars
<1>13. ASSUME NEW e \in Execs, pc[e] # "idle", GiveUp(e)
     PROVE  FinishingIsCompleted'
  BY <1>13 DEF GiveUp, Return, sessionVars
<1>14. ASSUME NEW e \in Execs, Revalidate(e) PROVE FinishingIsCompleted'
  BY <1>14 DEF Revalidate, Goto, sessionVars, claimVars, localVars
<1>15. ASSUME NEW e \in Execs, NEW o \in Outcomes, NEW c \in Contents,
              pc[e] \in {"requote", "strip"},
            DropToShipping(e, o, c)
     PROVE  FinishingIsCompleted'
  BY <1>15 DEF DropToShipping, Goto, Return, localVars
<1>16. ASSUME NEW e \in Execs, NEW o \in Outcomes, RedeemPromo(e, o)
     PROVE  FinishingIsCompleted'
  BY <1>16 DEF RedeemPromo, AfterRedeem, Goto, sessionVars, claimVars, localVars
<1>17. ASSUME NEW e \in Execs, RedeemRejected(e) PROVE FinishingIsCompleted'
  BY <1>17 DEF RedeemRejected, Goto, sessionVars, claimVars, localVars
<1>18. ASSUME NEW e \in Execs, NEW o \in Outcomes, AbortConfirm(e, o)
     PROVE  FinishingIsCompleted'
  BY <1>18 DEF AbortConfirm, Goto, claimVars, localVars
<1>19. ASSUME NEW e \in Execs, NEW o \in Outcomes, Release(e, o)
     PROVE  FinishingIsCompleted'
  BY <1>19 DEF Release, Return, sessionVars
<1>20. ASSUME NEW e \in Execs, NEW o \in Outcomes, CreateOrder(e, o)
     PROVE  FinishingIsCompleted'
  BY <1>20 DEF CreateOrder, AfterCreate, Applied, Goto, sessionVars, claimVars,
         localVars
<1>21. ASSUME NEW e \in Execs, NEW o \in Outcomes, RecordOrder(e, o)
     PROVE  FinishingIsCompleted'
  BY <1>21 DEF RecordOrder, Goto, sessionVars, localVars
<1>22. ASSUME NEW e \in Execs, NEW o \in Outcomes,
            BackfillRedemptionOrder(e, o)
     PROVE  FinishingIsCompleted'
  BY <1>22 DEF BackfillRedemptionOrder, Goto, sessionVars, claimVars, localVars
<1>23. ASSUME NEW k \in Keys, LockGoesStale(k) PROVE FinishingIsCompleted'
  BY <1>23 DEF LockGoesStale, sessionVars, localVars
<1>24. ASSUME FunnelFrame PROVE FinishingIsCompleted'
  BY <1>24 DEF FunnelFrame, Elsewhere, claimVars, localVars
<1>25. ASSUME NEW s \in Sessions, ExpireParked(s) PROVE FinishingIsCompleted'
  BY <1>25 DEF ExpireParked, ProvablyDead, Elsewhere, claimVars, localVars
<1>26. ASSUME NEW k \in Keys, ReapFinished(k) PROVE FinishingIsCompleted'
  BY <1>26 DEF ReapFinished, sessionVars, localVars
<1>27. ASSUME UNCHANGED vars PROVE FinishingIsCompleted'
  BY <1>27 DEF vars, sessionVars, claimVars, localVars
<1> HIDE DEF TypeOK, SessionsTyped, LocalsTyped, HasArguments, ShownInv,
             ClaimsTyped, ClaimInv, OwnsClaim, Owning, Driving, ClaimId,
             Holds, FinishingIsCompleted, DriverSeesContent,
             CompletedReadIsFinal, CompletedStays
<1> QED
  BY <1>1, <1>2, <1>3, <1>4, <1>5, <1>6, <1>7, <1>8, <1>9, <1>10, <1>11,
     <1>12, <1>13, <1>14, <1>15, <1>16, <1>17, <1>18, <1>19, <1>20, <1>21,
     <1>22, <1>23, <1>24, <1>25, <1>26, <1>27, FunnelSteps
     DEF Typed, vars, Next, Step, Shopper, Timers, RereadGone, Crash, RequoteItems,
         StripPromo, Outcomes

\* Every step keeps a completed session's order in existence.
LEMMA CompletesStep ==
  ASSUME Typed, ClaimInv, BindInv, OrderInv, ShownInv, CompletedStays,
         OrdersStay, [Next]_vars
  PROVE  CompletedShowsItsOrder'
<1> USE ConfirmAssumption
    DEF Typed, TypeOK, SessionsTyped, LocalsTyped, HasArguments, ShownInv,
        Ordered, Holds, OrderInv, DriverHasOrder, OrdersStay,
        CompletedStays, CompletedShowsItsOrder
<1>1. ASSUME NEW e \in Execs, NEW s \in Sessions, NEW k \in Keys,
            ReadSession(e, s, k)
     PROVE  CompletedShowsItsOrder'
  BY <1>1 DEF ReadSession, Snapshot, sessionVars, claimVars
<1>2. ASSUME NEW e \in Execs, NEW o \in Outcomes, MarkExpired(e, o)
     PROVE  CompletedShowsItsOrder'
  BY <1>2 DEF MarkExpired, Expirable, Working, Return, claimVars
<1>3. ASSUME NEW e \in Execs, NEW o \in Outcomes, Claim(e, o)
     PROVE  CompletedShowsItsOrder'
  BY <1>3 DEF Claim, Claimable, Applied, Return, sessionVars
<1>4. ASSUME NEW e \in Execs, ClaimRefused(e) PROVE CompletedShowsItsOrder'
  BY <1>4 DEF ClaimRefused, Return, sessionVars, claimVars
<1>5. ASSUME NEW e \in Execs, NEW o \in Outcomes, BeginConfirm(e, o)
     PROVE  CompletedShowsItsOrder'
  BY <1>5 DEF BeginConfirm, CanBegin, Goto, claimVars, localVars
<1>6. ASSUME NEW e \in Execs, Reenter(e) PROVE CompletedShowsItsOrder'
  BY <1>6 DEF Reenter, OwnBinding, Goto, sessionVars, claimVars, localVars
<1>7. ASSUME NEW e \in Execs, EntryRefused(e) PROVE CompletedShowsItsOrder'
  BY <1>7 DEF EntryRefused, Goto, sessionVars, claimVars, localVars
<1>8. ASSUME NEW e \in Execs, RereadConfirming(e)
     PROVE  CompletedShowsItsOrder'
  BY <1>8 DEF RereadConfirming, Reloaded, AfterReread, Snapshot, sessionVars,
         claimVars
<1>9. ASSUME NEW e \in Execs, pc[e] # "idle", GiveUp(e)
     PROVE  CompletedShowsItsOrder'
  BY <1>9 DEF GiveUp, Return, sessionVars
<1>10. ASSUME NEW e \in Execs, Revalidate(e) PROVE CompletedShowsItsOrder'
  BY <1>10 DEF Revalidate, Goto, sessionVars, claimVars, localVars
<1>11. ASSUME NEW e \in Execs, NEW o \in Outcomes, NEW c \in Contents,
              pc[e] \in {"requote", "strip"},
            DropToShipping(e, o, c)
     PROVE  CompletedShowsItsOrder'
  BY <1>11 DEF DropToShipping, Goto, Return, localVars
<1>12. ASSUME NEW e \in Execs, NEW o \in Outcomes, RedeemPromo(e, o)
     PROVE  CompletedShowsItsOrder'
  BY <1>12 DEF RedeemPromo, AfterRedeem, Goto, sessionVars, claimVars, localVars
<1>13. ASSUME NEW e \in Execs, RedeemRejected(e) PROVE CompletedShowsItsOrder'
  BY <1>13 DEF RedeemRejected, Goto, sessionVars, claimVars, localVars
<1>14. ASSUME NEW e \in Execs, NEW o \in Outcomes, AbortConfirm(e, o)
     PROVE  CompletedShowsItsOrder'
  BY <1>14 DEF AbortConfirm, Goto, claimVars, localVars
<1>15. ASSUME NEW e \in Execs, NEW o \in Outcomes, Release(e, o)
     PROVE  CompletedShowsItsOrder'
  BY <1>15 DEF Release, Return, sessionVars
<1>16. ASSUME NEW e \in Execs, NEW o \in Outcomes, Checkpoint(e, o)
     PROVE  CompletedShowsItsOrder'
  BY <1>16 DEF Checkpoint, Applied, Goto, Return, sessionVars, localVars
<1>17. ASSUME NEW e \in Execs, NEW o \in Outcomes, CreateOrder(e, o)
     PROVE  CompletedShowsItsOrder'
  BY <1>17 DEF CreateOrder, AfterCreate, Applied, Goto, sessionVars, claimVars,
         localVars
<1>18. ASSUME NEW e \in Execs, NEW o \in Outcomes, RecordOrder(e, o)
     PROVE  CompletedShowsItsOrder'
  BY <1>18 DEF RecordOrder, Goto, sessionVars, localVars
<1>19. ASSUME NEW e \in Execs, NEW o \in Outcomes,
            BackfillRedemptionOrder(e, o)
     PROVE  CompletedShowsItsOrder'
  BY <1>19 DEF BackfillRedemptionOrder, Goto, sessionVars, claimVars, localVars
<1>20. ASSUME NEW e \in Execs, NEW o \in Outcomes, CompleteSession(e, o)
     PROVE  CompletedShowsItsOrder'
  BY <1>20 DEF CompleteSession, Applied, Goto, Return, localVars
<1>21. ASSUME NEW e \in Execs, Recheck(e) PROVE CompletedShowsItsOrder'
  BY <1>21 DEF Recheck, GiveUp, Return, Snapshot, sessionVars, claimVars
<1>22. ASSUME NEW e \in Execs, NEW o \in Outcomes, Finish(e, o)
     PROVE  CompletedShowsItsOrder'
  BY <1>22 DEF Finish, Applied, Goto, Return, sessionVars, localVars
<1>23. ASSUME NEW k \in Keys, LockGoesStale(k) PROVE CompletedShowsItsOrder'
  BY <1>23 DEF LockGoesStale, sessionVars, localVars
<1>24. ASSUME FunnelFrame PROVE CompletedShowsItsOrder'
  BY <1>24 DEF FunnelFrame, Elsewhere, claimVars, localVars
<1>25. ASSUME NEW s \in Sessions, ExpireParked(s)
     PROVE  CompletedShowsItsOrder'
  BY <1>25 DEF ExpireParked, ProvablyDead, Elsewhere, claimVars, localVars
<1>26. ASSUME NEW k \in Keys, ReapFinished(k) PROVE CompletedShowsItsOrder'
  BY <1>26 DEF ReapFinished, sessionVars, localVars
<1>27. ASSUME UNCHANGED vars PROVE CompletedShowsItsOrder'
  BY <1>27 DEF vars, sessionVars, claimVars, localVars
<1> HIDE DEF TypeOK, SessionsTyped, LocalsTyped, HasArguments, ShownInv,
             Ordered, Holds, OrderInv, DriverHasOrder, OrdersStay,
             CompletedStays, CompletedShowsItsOrder
<1> QED
  BY <1>1, <1>2, <1>3, <1>4, <1>5, <1>6, <1>7, <1>8, <1>9, <1>10, <1>11,
     <1>12, <1>13, <1>14, <1>15, <1>16, <1>17, <1>18, <1>19, <1>20, <1>21,
     <1>22, <1>23, <1>24, <1>25, <1>26, <1>27, FunnelSteps
     DEF Typed, vars, Next, Step, Shopper, Timers, RereadGone, Crash, RequoteItems,
         StripPromo, Outcomes

\* Every step keeps the cached answers true.
LEMMA CachedStep ==
  ASSUME Typed, ClaimInv, BindInv, OrderInv, ShownInv, CompletedStays,
         OrdersStay, [Next]_vars
  PROVE  CachedAnswerIsShown'
<1>1. ASSUME NEW e \in Execs, NEW o \in Outcomes, Finish(e, o)
     PROVE  CachedAnswerIsShown'
  <2>1. /\ es[e] \in Sessions /\ ek[e] \in Keys /\ claimFor[ek[e]] = es[e]
    BY <1>1 DEF Finish, Typed, HasArguments, ClaimInv, OwnsClaim, Owning
  <2>2. /\ status[es[e]] = "completed" /\ bound[es[e]] = ClaimId(ek[e])
        /\ content[es[e]] = snap[e].content
    BY <1>1 DEF Finish, ShownInv, FinishingIsCompleted
  <2>3. UNCHANGED <<status, bound, content, orderId, claimFor, row>>
    BY <1>1 DEF Finish, sessionVars
  <2>4. ASSUME NEW k \in Keys, k # ek[e] PROVE cached'[k] = cached[k]
    BY <1>1, <2>4 DEF Finish, Typed, TypeOK, ClaimsTyped
  <2>5. \/ cached'[ek[e]] = cached[ek[e]]
        \/ cached'[ek[e]] = [order |-> orderId[es[e]], content |-> snap[e].content]
    BY <1>1, <2>1 DEF Finish, Typed, TypeOK, ClaimsTyped
  <2> QED
    BY <2>1, <2>2, <2>3, <2>4, <2>5 DEF ShownInv, CachedAnswerIsShown, ClaimId
<1> USE ConfirmAssumption
    DEF Typed, TypeOK, SessionsTyped, LocalsTyped, HasArguments, ShownInv,
        ClaimsTyped, ClaimInv, OwnsClaim, NoRowNoAnswer, Owning, ClaimId,
        FinishingIsCompleted, CachedAnswerIsShown, CompletedStays
<1>2. ASSUME NEW e \in Execs, NEW s \in Sessions, NEW k \in Keys,
            ReadSession(e, s, k)
     PROVE  CachedAnswerIsShown'
  BY <1>2 DEF ReadSession, Snapshot, sessionVars, claimVars
<1>3. ASSUME NEW e \in Execs, NEW o \in Outcomes, MarkExpired(e, o)
     PROVE  CachedAnswerIsShown'
  BY <1>3 DEF MarkExpired, Expirable, Working, Return, claimVars
<1>4. ASSUME NEW e \in Execs, NEW o \in Outcomes, Claim(e, o)
     PROVE  CachedAnswerIsShown'
  BY <1>4 DEF Claim, Claimable, Applied, Return, sessionVars
<1>5. ASSUME NEW e \in Execs, ClaimRefused(e) PROVE CachedAnswerIsShown'
  BY <1>5 DEF ClaimRefused, Return, sessionVars, claimVars
<1>6. ASSUME NEW e \in Execs, NEW o \in Outcomes, BeginConfirm(e, o)
     PROVE  CachedAnswerIsShown'
  BY <1>6 DEF BeginConfirm, CanBegin, Goto, claimVars, localVars
<1>7. ASSUME NEW e \in Execs, Reenter(e) PROVE CachedAnswerIsShown'
  BY <1>7 DEF Reenter, OwnBinding, Goto, sessionVars, claimVars, localVars
<1>8. ASSUME NEW e \in Execs, EntryRefused(e) PROVE CachedAnswerIsShown'
  BY <1>8 DEF EntryRefused, Goto, sessionVars, claimVars, localVars
<1>9. ASSUME NEW e \in Execs, RereadConfirming(e) PROVE CachedAnswerIsShown'
  BY <1>9 DEF RereadConfirming, Reloaded, AfterReread, Snapshot, sessionVars,
         claimVars
<1>10. ASSUME NEW e \in Execs, pc[e] # "idle", GiveUp(e)
     PROVE  CachedAnswerIsShown'
  BY <1>10 DEF GiveUp, Return, sessionVars
<1>11. ASSUME NEW e \in Execs, Revalidate(e) PROVE CachedAnswerIsShown'
  BY <1>11 DEF Revalidate, Goto, sessionVars, claimVars, localVars
<1>12. ASSUME NEW e \in Execs, NEW o \in Outcomes, NEW c \in Contents,
              pc[e] \in {"requote", "strip"},
            DropToShipping(e, o, c)
     PROVE  CachedAnswerIsShown'
  BY <1>12 DEF DropToShipping, Goto, Return, localVars
<1>13. ASSUME NEW e \in Execs, NEW o \in Outcomes, RedeemPromo(e, o)
     PROVE  CachedAnswerIsShown'
  BY <1>13 DEF RedeemPromo, AfterRedeem, Goto, sessionVars, claimVars, localVars
<1>14. ASSUME NEW e \in Execs, RedeemRejected(e) PROVE CachedAnswerIsShown'
  BY <1>14 DEF RedeemRejected, Goto, sessionVars, claimVars, localVars
<1>15. ASSUME NEW e \in Execs, NEW o \in Outcomes, AbortConfirm(e, o)
     PROVE  CachedAnswerIsShown'
  BY <1>15 DEF AbortConfirm, Goto, claimVars, localVars
<1>16. ASSUME NEW e \in Execs, NEW o \in Outcomes, Release(e, o)
     PROVE  CachedAnswerIsShown'
  BY <1>16 DEF Release, Return, sessionVars
<1>17. ASSUME NEW e \in Execs, NEW o \in Outcomes, Checkpoint(e, o)
     PROVE  CachedAnswerIsShown'
  BY <1>17 DEF Checkpoint, Applied, Goto, Return, sessionVars, localVars
<1>18. ASSUME NEW e \in Execs, NEW o \in Outcomes, CreateOrder(e, o)
     PROVE  CachedAnswerIsShown'
  BY <1>18 DEF CreateOrder, AfterCreate, Applied, Goto, sessionVars, claimVars,
         localVars
<1>19. ASSUME NEW e \in Execs, NEW o \in Outcomes, RecordOrder(e, o)
     PROVE  CachedAnswerIsShown'
  BY <1>19 DEF RecordOrder, Goto, sessionVars, localVars
<1>20. ASSUME NEW e \in Execs, NEW o \in Outcomes,
            BackfillRedemptionOrder(e, o)
     PROVE  CachedAnswerIsShown'
  BY <1>20 DEF BackfillRedemptionOrder, Goto, sessionVars, claimVars, localVars
<1>21. ASSUME NEW e \in Execs, NEW o \in Outcomes, CompleteSession(e, o)
     PROVE  CachedAnswerIsShown'
  BY <1>21 DEF CompleteSession, Applied, Goto, Return, localVars
<1>22. ASSUME NEW e \in Execs, Recheck(e) PROVE CachedAnswerIsShown'
  BY <1>22 DEF Recheck, GiveUp, Return, Snapshot, sessionVars, claimVars
<1>23. ASSUME NEW k \in Keys, LockGoesStale(k) PROVE CachedAnswerIsShown'
  BY <1>23 DEF LockGoesStale, sessionVars, localVars
<1>24. ASSUME FunnelFrame PROVE CachedAnswerIsShown'
  BY <1>24 DEF FunnelFrame, Elsewhere, claimVars, localVars
<1>25. ASSUME NEW s \in Sessions, ExpireParked(s) PROVE CachedAnswerIsShown'
  BY <1>25 DEF ExpireParked, ProvablyDead, Elsewhere, claimVars, localVars
<1>26. ASSUME NEW k \in Keys, ReapFinished(k) PROVE CachedAnswerIsShown'
  BY <1>26 DEF ReapFinished, sessionVars, localVars
<1>27. ASSUME UNCHANGED vars PROVE CachedAnswerIsShown'
  BY <1>27 DEF vars, sessionVars, claimVars, localVars
<1> HIDE DEF TypeOK, SessionsTyped, LocalsTyped, HasArguments, ShownInv,
             ClaimsTyped, ClaimInv, OwnsClaim, NoRowNoAnswer, Owning,
             ClaimId, FinishingIsCompleted, CachedAnswerIsShown,
             CompletedStays
<1> QED
  BY <1>1, <1>2, <1>3, <1>4, <1>5, <1>6, <1>7, <1>8, <1>9, <1>10, <1>11,
     <1>12, <1>13, <1>14, <1>15, <1>16, <1>17, <1>18, <1>19, <1>20, <1>21,
     <1>22, <1>23, <1>24, <1>25, <1>26, <1>27, FunnelSteps
     DEF Typed, vars, Next, Step, Shopper, Timers, RereadGone, Crash, RequoteItems,
         StripPromo, Outcomes
-----------------------------------------------------------------------------
(* The theorems.                                                           *)

IInv ==
    /\ Typed /\ ClaimInv /\ KnowsMarker /\ BindInv /\ OrderInv /\ ShownInv

\* The invariant holds of a freshly created session.
LEMMA InitIInv == ASSUME Init PROVE IInv
<1> USE ConfirmAssumption DEF Init
<1>1. Typed
  BY DEF Typed, TypeOK, SessionsTyped, ClaimsTyped, LocalsTyped, HasArguments,
         Labels, Status, Active, Working, Terminal, ClaimIds, Unbound, Snapshots,
         NoSnap, Shown, Replies, NoReply
<1>2. ClaimInv /\ KnowsMarker
  BY DEF ClaimInv, OwnsClaim, LockHasOwner, NoRowNoAnswer, Owning, KnowsMarker,
         Undoable, Committed
<1>3. BindInv /\ OrderInv
  BY DEF BindInv, DriverIsBound, MarkerBinds, Driving, OrderInv, DriverHasOrder,
         OrderBindsSession, Ordered
<1>4. ShownInv
  BY
     DEF ShownInv, DriverSeesContent, CompletedReadIsFinal,
         FinishingIsCompleted,
         CompletedShowsItsOrder, CachedAnswerIsShown, Driving
<1> QED
  BY <1>1, <1>2, <1>3, <1>4 DEF IInv

\* Every step keeps it.
LEMMA StepIInv == ASSUME IInv, [Next]_vars PROVE IInv'
<1>1. CompletedStays /\ OrdersStay
  BY CompletedStep DEF IInv
<1>2. Typed' /\ ClaimInv' /\ KnowsMarker' /\ BindInv' /\ OrderInv'
  BY TypedStep, ClaimStep, MarkerStep, BindStep, OrderStep DEF IInv
<1>3. ShownInv'
  BY <1>1, SeenStep, ReadStep, FinishStep, CompletesStep, CachedStep
     DEF IInv, ShownInv
<1> QED
  BY <1>2, <1>3 DEF IInv

\* The inductive invariant holds of every reachable state.
THEOREM Invariance == Spec => []IInv
BY InitIInv, StepIInv, PTL DEF Spec

\* Whatever the answers, crashes and edits, every row and register keeps to
\* its domain.
THEOREM TypeCorrect == Spec => []TypeOK
<1>1. IInv => TypeOK
  BY DEF IInv, Typed
<1> QED
  BY <1>1, Invariance, PTL

\* An order of a session is bound to it, and carried by a marked claim until
\* the session is completed.
THEOREM OrdersAreBound == Spec => []OrderBindsSession
<1>1. IInv => OrderBindsSession
  BY DEF IInv, OrderInv
<1> QED
  BY <1>1, Invariance, PTL

\* One checkout session never has two orders, for any number of retries,
\* keys and concurrent executions, even when the shopper edits it meanwhile.
THEOREM AtMostOneOrder == Spec => []OneOrderPerSession
<1>1. OrderBindsSession => OneOrderPerSession
  BY DEF OrderBindsSession, OneOrderPerSession
<1> QED
  BY <1>1, OrdersAreBound, PTL

\* No two live executions drive one session.
THEOREM DriversExclude == Spec => []OneDriver
<1>1. IInv => OneDriver
  BY SoleDriver DEF IInv, OneDriver
<1> QED
  BY <1>1, Invariance, PTL

\* A completed session names an order that exists.
THEOREM CompletedHasOrder == Spec => []CompletedShowsItsOrder
<1>1. IInv => CompletedShowsItsOrder
  BY DEF IInv, ShownInv
<1> QED
  BY <1>1, Invariance, PTL

\* A replayed answer is what the session row shows.
THEOREM CachedIsShown == Spec => []CachedAnswerIsShown
<1>1. IInv => CachedAnswerIsShown
  BY DEF IInv, ShownInv
<1> QED
  BY <1>1, Invariance, PTL
\* A sold session, its order and its answer stay as they are, edits included.
THEOREM SoldForGood == Spec => SaleIsFinal
<1> DEFINE Final ==
        \A s \in Sessions : status[s] = "completed" =>
            /\ status'[s] = "completed" /\ bound'[s] = bound[s]
            /\ content'[s] = content[s] /\ orderId'[s] = orderId[s]
            /\ orders'[s][orderId[s]] = orders[s][orderId[s]]
            /\ \A k \in Keys : claimFor'[k] = s /\ cached'[k] # NoReply =>
                  cached'[k] = [order |-> orderId[s], content |-> content[s]]
<1>1. ASSUME IInv, [Next]_vars PROVE Final
  <2>1. CompletedStays /\ OrdersStay
    BY <1>1, CompletedStep DEF IInv
  <2>2. CachedAnswerIsShown'
    BY <1>1, StepIInv DEF IInv, ShownInv
  <2>3. CompletedShowsItsOrder
    BY <1>1 DEF IInv, ShownInv
  <2> SUFFICES ASSUME NEW s \in Sessions, status[s] = "completed"
               PROVE  /\ orders'[s][orderId[s]] = orders[s][orderId[s]]
                      /\ \A k \in Keys :
                            claimFor'[k] = s /\ cached'[k] # NoReply =>
                                cached'[k] = [order |-> orderId[s],
                                              content |-> content[s]]
    BY <2>1 DEF CompletedStays
  <2>4. orders'[s][orderId[s]] = orders[s][orderId[s]]
    BY <2>1, <2>3 DEF OrdersStay, CompletedShowsItsOrder
  <2>5. ASSUME NEW k \in Keys, claimFor'[k] = s, cached'[k] # NoReply
        PROVE  cached'[k] = [order |-> orderId[s], content |-> content[s]]
    BY <2>1, <2>2, <2>5 DEF CachedAnswerIsShown, CompletedStays, NoReply
  <2> QED BY <2>4, <2>5
<1>2. IInv /\ [Next]_vars => [Final]_vars
  BY <1>1
<1>3. Spec => [][Final]_vars
  BY <1>2, Invariance, PTL DEF Spec
<1> QED BY <1>3 DEF SaleIsFinal
=============================================================================
