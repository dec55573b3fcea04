-------------------------- MODULE CheckoutConfirm --------------------------
(***************************************************************************)
(* POST .../sessions/:id/confirm: the idempotent order handoff.            *)
(*                                                                         *)
(* Every execution of Confirm is a process that stops at each call it      *)
(* makes to the database, the idempotency store or order-service.  A call  *)
(* ends in one of three ways: "ok" (applied and answered), "lost" (applied,*)
(* but the caller sees an error) or "failed" (not applied).  Between two   *)
(* calls the process may crash, and the rest of the system moves: the      *)
(* shopper edits or cancels the session, deadlines pass, the abandonment   *)
(* timer and the reaper run, other executions start.                       *)
(*                                                                         *)
(* One call is one atomic step: the row-level atomicity of a single SQL    *)
(* statement (or of the transaction the repository method opens).          *)
(*                                                                         *)
(* Definitions named Faulty... are plausible mistakes in the definition    *)
(* that follows them; nothing uses them unless it is put in its place.     *)
(***************************************************************************)
EXTENDS SessionFSM, Naturals

CONSTANTS
    Sessions,       \* checkout session ids
    Keys,           \* (user, Idempotency-Key) pairs
    Execs,          \* slots for concurrent executions of Confirm
    Contents,       \* what an order is made of: items, totals, token, promo
    Overshot,       \* contents whose discount exceeds the sum: order rejects
    Codes,          \* promo codes
    PromoOf,        \* the code a content carries, or NoCode
    NoCode, NoSession, NoKey, NoContent,
    Nobody, Gone,   \* lock free (or stale past the takeover) / owner is dead
    MidConfirmEdits,\* does the shopper send PUT shipping or PUT payment while
                    \* a confirm of the session is under way?
    MaxRow          \* bound: claim rows one key goes through (reap, re-claim)

ASSUME ConfirmAssumption ==
    /\ Overshot \subseteq Contents
    /\ PromoOf \in [Contents -> Codes \cup {NoCode}]
    /\ NoCode \notin Codes /\ NoSession \notin Sessions
    /\ NoKey \notin Keys /\ NoContent \notin Contents
    /\ Nobody \notin Execs /\ Gone \notin Execs /\ Nobody # Gone
    /\ MidConfirmEdits \in BOOLEAN
    /\ MaxRow \in Nat

VARIABLES
    \* checkout_sessions
    status, bound, content, orderId, due,
    \* idempotency_keys: the row's id, its request hash, who holds its lock,
    \* subject_id and the cached response
    row, claimFor, holder, subject, cached,
    \* promo_redemptions and order-service's orders by composed key
    redemption, orders,
    \* one execution: where it is, its arguments, its last read of the
    \* session, and whether the claim it got carried the attempt marker
    pc, es, ek, snap, marked

sessionVars == <<status, bound, content, orderId, due>>
claimVars   == <<row, claimFor, holder, subject, cached>>
localVars   == <<es, ek, snap, marked>>
vars == <<sessionVars, claimVars, redemption, orders, pc, localVars>>

\* An idempotency row's id is never reused, so a row reaped and claimed again
\* is another id.  0 stands for NULL in checkout_sessions.confirm_key_id.
ClaimId(k) == [key |-> k, row |-> row[k]]
Unbound    == [key |-> NoKey, row |-> 0]
ClaimIds   == [key : Keys, row : Nat] \cup {Unbound}

Shown     == Contents \cup {NoContent}
Snapshots == [status : Status, bound : ClaimIds, content : Shown]
NoSnap    == [status |-> "expired", bound |-> Unbound, content |-> NoContent]
Replies   == [order : Keys \cup {NoKey}, content : Shown]
NoReply   == [order |-> NoKey, content |-> NoContent]

Labels == {"idle", "lazy", "claim", "enter", "reread", "revalidate", "requote",
           "redeem", "strip", "abort", "release", "mark", "place", "record",
           "backfill", "complete", "recheck", "finish", "refinish"}

SessionsTyped ==
    /\ status \in [Sessions -> Status]
    /\ bound \in [Sessions -> ClaimIds]
    /\ content \in [Sessions -> Contents]
    /\ orderId \in [Sessions -> Keys \cup {NoKey}]
    /\ due \in [Sessions -> BOOLEAN]

ClaimsTyped ==
    /\ row \in [Keys -> Nat]
    /\ claimFor \in [Keys -> Sessions \cup {NoSession}]
    /\ holder \in [Keys -> Execs \cup {Nobody, Gone}]
    /\ subject \in [Keys -> {"none", "marker", "order"}]
    /\ cached \in [Keys -> Replies]

LocalsTyped ==
    /\ pc \in [Execs -> Labels]
    /\ es \in [Execs -> Sessions \cup {NoSession}]
    /\ ek \in [Execs -> Keys \cup {NoKey}]
    /\ snap \in [Execs -> Snapshots]
    /\ marked \in [Execs -> BOOLEAN]

\* The columns' domains and the executions' registers.
TypeOK ==
    /\ SessionsTyped /\ ClaimsTyped /\ LocalsTyped
    /\ redemption \in [Sessions -> [Codes -> {"none", "counted", "linked"}]]
    /\ orders \in [Sessions -> [Keys -> Shown]]

\* A session enters the model as POST /sessions leaves it: open, unbound,
\* priced from the catalog, so never overshot and without a promo.
Init ==
    /\ status = [s \in Sessions |-> "open"]
    /\ bound = [s \in Sessions |-> Unbound]
    /\ content \in [Sessions ->
                      {c \in Contents \ Overshot : PromoOf[c] = NoCode}]
    /\ orderId = [s \in Sessions |-> NoKey]
    /\ due = [s \in Sessions |-> FALSE]
    /\ row = [k \in Keys |-> 0]
    /\ claimFor = [k \in Keys |-> NoSession]
    /\ holder = [k \in Keys |-> Nobody]
    /\ subject = [k \in Keys |-> "none"]
    /\ cached = [k \in Keys |-> NoReply]
    /\ redemption = [s \in Sessions |-> [c \in Codes |-> "none"]]
    /\ orders = [s \in Sessions |-> [k \in Keys |-> NoContent]]
    /\ pc = [e \in Execs |-> "idle"]
    /\ es = [e \in Execs |-> NoSession]
    /\ ek = [e \in Execs |-> NoKey]
    /\ snap = [e \in Execs |-> NoSnap]
    /\ marked = [e \in Execs |-> FALSE]
-----------------------------------------------------------------------------
(* How a call ends, and how an execution moves on or ends.                 *)

Outcomes == {"ok", "lost", "failed"}
Applied(o) == o \in {"ok", "lost"}

Goto(e, label) ==
    /\ pc' = [pc EXCEPT ![e] = label]
    /\ UNCHANGED localVars

\* The request has been answered: the slot is free for another one.
Return(e) ==
    /\ pc' = [pc EXCEPT ![e] = "idle"]
    /\ es' = [es EXCEPT ![e] = NoSession]
    /\ ek' = [ek EXCEPT ![e] = NoKey]
    /\ snap' = [snap EXCEPT ![e] = NoSnap]
    /\ marked' = [marked EXCEPT ![e] = FALSE]

\* The execution ends with the claim's lock still set.
LeaveLocked(e) ==
    holder' = [k \in Keys |-> IF holder[k] = e THEN Gone ELSE holder[k]]

Unlock(e) ==
    holder' = [k \in Keys |-> IF holder[k] = e THEN Nobody ELSE holder[k]]

\* The row scanned without confirm_key_id.
FaultySnapshot(s) == [status |-> status[s], content |-> content[s]]
Snapshot(s) ==
    [status |-> status[s], bound |-> bound[s], content |-> content[s]]

\* The claim binding every write of the flow is conditional on.
Holds(e) ==
    /\ status[es[e]] = "confirming"
    /\ bound[es[e]] = ClaimId(ek[e])

Promo(e) == PromoOf[snap[e].content]
-----------------------------------------------------------------------------
(* Before the claim.                                                       *)

\* Confirm loads the session.  Past its deadline it is answered 410 after a
\* best-effort MarkExpired; one order-service would reject is turned away.
ReadSession(e, s, k) ==
    /\ pc[e] = "idle"
    /\ status[s] # "expired"
    /\ LET overdue == due[s] /\ status[s] \in Working
       IN /\ overdue \/ content[s] \notin Overshot
          /\ pc' = [pc EXCEPT ![e] = IF overdue THEN "lazy" ELSE "claim"]
    /\ es' = [es EXCEPT ![e] = s]
    /\ ek' = [ek EXCEPT ![e] = k]
    /\ snap' = [snap EXCEPT ![e] = Snapshot(s)]
    /\ UNCHANGED <<sessionVars, claimVars, redemption, orders, marked>>

\* The expiry writes' condition on the status.
FaultyExpirable(s) == status[s] # "expired"
Expirable(s) == status[s] \in Working

\* MarkExpired looks at the status only: the deadline was judged on the read.
MarkExpired(e, o) ==
    /\ pc[e] = "lazy"
    /\ Return(e)
    /\ status' = IF Applied(o) /\ Expirable(es[e])
                 THEN [status EXCEPT ![es[e]] = "expired"] ELSE status
    /\ UNCHANGED <<bound, content, orderId, due, claimVars, redemption, orders>>

\* idempotency.Claim: a new row, or one whose lock is free or stale.  It is
\* refused for another request's key, an answered key, or a lock still held.
FaultyClaimableLocked(e) ==
    LET k == ek[e]
    IN \/ claimFor[k] = NoSession
       \/ claimFor[k] = es[e] /\ cached[k] = NoReply
FaultyClaimableOther(e) ==
    LET k == ek[e]
    IN \/ claimFor[k] = NoSession
       \/ cached[k] = NoReply /\ holder[k] = Nobody
Claimable(e) ==
    LET k == ek[e]
    IN \/ claimFor[k] = NoSession
       \/ claimFor[k] = es[e] /\ cached[k] = NoReply /\ holder[k] = Nobody

Claim(e, o) ==
    LET k == ek[e]
        new == claimFor[k] = NoSession
    IN /\ pc[e] = "claim"
       /\ Claimable(e) /\ Applied(o)
       /\ claimFor' = [claimFor EXCEPT ![k] = es[e]]
       /\ row' = IF new THEN [row EXCEPT ![k] = @ + 1] ELSE row
       /\ subject' = IF new THEN [subject EXCEPT ![k] = "none"] ELSE subject
       /\ UNCHANGED cached
       /\ \/ /\ o = "ok"
             /\ holder' = [holder EXCEPT ![k] = e]
             /\ pc' = [pc EXCEPT ![e] = "enter"]
             /\ marked' = [marked EXCEPT ![e] = ~new /\ subject[k] # "none"]
             /\ UNCHANGED <<es, ek, snap>>
          \/ /\ o = "lost"
             /\ holder' = [holder EXCEPT ![k] = Gone]
             /\ Return(e)
       /\ UNCHANGED <<sessionVars, redemption, orders>>

\* ErrKeyConflict, ErrConfirmInFlight, a replayed answer, or an error.
ClaimRefused(e) ==
    /\ pc[e] = "claim"
    /\ Return(e)
    /\ UNCHANGED <<sessionVars, claimVars, redemption, orders>>
-----------------------------------------------------------------------------
(* The entry gate: enterConfirm decides on the session read before Claim.  *)

FaultyCanBegin(e) == status[es[e]] = "ready"
CanBegin(e) ==
    /\ status[es[e]] = "ready"
    /\ bound[es[e]] \in {Unbound, ClaimId(ek[e])}

BeginConfirm(e, o) ==
    LET s == es[e]
        hit == CanBegin(e)
    IN /\ pc[e] = "enter" /\ snap[e].status = "ready"
       /\ \/ /\ Applied(o) /\ hit
             /\ status' = [status EXCEPT ![s] = "confirming"]
             /\ bound' = [bound EXCEPT ![s] = ClaimId(ek[e])]
          \/ /\ ~(Applied(o) /\ hit)
             /\ UNCHANGED <<status, bound>>
       /\ Goto(e, IF o = "ok" /\ hit THEN "reread" ELSE "release")
       /\ UNCHANGED <<content, orderId, due, claimVars, redemption, orders>>

\* Crash recovery: the read showed the session bound to this very claim, in
\* flight (re-drive it) or completed (only the answer is missing).
FaultyOwnBindingAny(e) == snap[e].bound # Unbound
FaultyOwnBindingLate(e) ==
    snap[e].bound = ClaimId(ek[e]) /\ snap[e].status = "completed"
OwnBinding(e) == snap[e].bound = ClaimId(ek[e])

Reenter(e) ==
    /\ pc[e] = "enter"
    /\ OwnBinding(e)
    /\ \/ snap[e].status = "confirming" /\ Goto(e, "reread")
       \/ snap[e].status = "completed" /\ Goto(e, "refinish")
    /\ UNCHANGED <<sessionVars, claimVars, redemption, orders>>

EntryRefused(e) ==
    /\ pc[e] = "enter"
    /\ snap[e].status # "ready"
    /\ \/ snap[e].status \notin {"confirming", "completed"}
       \/ ~OwnBinding(e)
    /\ Goto(e, "release")
    /\ UNCHANGED <<sessionVars, claimVars, redemption, orders>>

\* The second read, after the gate was won: its content is what is ordered.
FaultyReloaded(e) == snap[e]
Reloaded(e) == Snapshot(es[e])

FaultyAfterReread(e) == "revalidate"
AfterReread(e) == IF marked[e] THEN "place" ELSE "revalidate"

RereadConfirming(e) ==
    /\ pc[e] = "reread"
    /\ Holds(e)
    /\ snap' = [snap EXCEPT ![e] = Reloaded(e)]
    /\ pc' = [pc EXCEPT ![e] = AfterReread(e)]
    /\ UNCHANGED <<sessionVars, claimVars, redemption, orders, es, ek, marked>>

\* Every return that leaves the claim locked: the reread or the recheck shows
\* another session than ours, a requote, strip, marker or completion write
\* fails, or Finish does.  All of them look the same from outside as a crash.
GiveUp(e) ==
    /\ LeaveLocked(e)
    /\ Return(e)
    /\ UNCHANGED <<sessionVars, row, claimFor, subject, cached,
                   redemption, orders>>

RereadGone(e) == pc[e] = "reread" /\ GiveUp(e)
-----------------------------------------------------------------------------
(* authorizeAttempt: before the attempt marker everything can be undone.   *)

\* revalidate: prices and stock stand; they drifted or nobody can say (the
\* session is requoted); an upstream is down (the confirm is undone).
Revalidate(e) ==
    /\ pc[e] = "revalidate"
    /\ \/ Goto(e, IF Promo(e) = NoCode THEN "mark" ELSE "redeem")
       \/ Goto(e, "requote")
       \/ Goto(e, "abort")
    /\ UNCHANGED <<sessionVars, claimVars, redemption, orders>>

\* Drop the session to shipping_set with content c, under the binding.  A
\* write that misses, or whose answer is an error, leaves the claim locked.
DropToShipping(e, o, c) ==
    LET s == es[e]
    IN /\ \/ /\ Applied(o) /\ Holds(e)
             /\ status' = [status EXCEPT ![s] = "shipping_set"]
             /\ bound' = [bound EXCEPT ![s] = Unbound]
             /\ content' = [content EXCEPT ![s] = c]
          \/ /\ ~(Applied(o) /\ Holds(e))
             /\ UNCHANGED <<status, bound, content>>
       /\ \/ o = "ok" /\ Holds(e) /\ Goto(e, "release") /\ UNCHANGED holder
          \/ ~(o = "ok" /\ Holds(e)) /\ Return(e) /\ LeaveLocked(e)
       /\ UNCHANGED <<orderId, due, row, claimFor, subject, cached,
                      redemption, orders>>

\* RequoteItems: fresh prices and the discount recomputed from them, or the
\* snapshot's own values when availability is unknown.  Token and code stay.
RequoteItems(e, o) ==
    /\ pc[e] = "requote"
    /\ \E c \in Contents :
          /\ PromoOf[c] = Promo(e)
          /\ c = snap[e].content \/ c \notin Overshot
          /\ DropToShipping(e, o, c)

\* RedeemPromo counted the use, now or in an earlier attempt of the session,
\* or ended in database trouble with or without the commit.
FaultyAfterRedeem(o) == "mark"
AfterRedeem(o) == IF o = "ok" THEN "mark" ELSE "abort"

RedeemPromo(e, o) ==
    /\ pc[e] = "redeem"
    /\ redemption' = IF Applied(o) /\ redemption[es[e]][Promo(e)] = "none"
                     THEN [redemption EXCEPT ![es[e]][Promo(e)] = "counted"]
                     ELSE redemption
    /\ Goto(e, AfterRedeem(o))
    /\ UNCHANGED <<sessionVars, claimVars, orders>>

\* Expired or exhausted; a use already counted is never rejected.
RedeemRejected(e) ==
    /\ pc[e] = "redeem"
    /\ redemption[es[e]][Promo(e)] = "none"
    /\ Goto(e, "strip")
    /\ UNCHANGED <<sessionVars, claimVars, redemption, orders>>

StripPromo(e, o) ==
    /\ pc[e] = "strip"
    /\ \E c \in Contents \ Overshot :
          PromoOf[c] = NoCode /\ DropToShipping(e, o, c)

\* abortPreAttempt: back to ready, unless the claim carries the marker or an
\* answer; the release that follows is attempted whatever this write did.
AbortConfirm(e, o) ==
    LET s == es[e]
        hit == /\ Holds(e)
               /\ subject[ek[e]] = "none" /\ cached[ek[e]] = NoReply
    IN /\ pc[e] = "abort"
       /\ \/ /\ Applied(o) /\ hit
             /\ status' = [status EXCEPT ![s] = "ready"]
             /\ bound' = [bound EXCEPT ![s] = Unbound]
          \/ /\ ~(Applied(o) /\ hit)
             /\ UNCHANGED <<status, bound>>
       /\ Goto(e, "release")
       /\ UNCHANGED <<content, orderId, due, claimVars, redemption, orders>>

\* By row id: a row reaped meanwhile is not there to be released.
Release(e, o) ==
    /\ pc[e] = "release"
    /\ IF Applied(o) THEN Unlock(e) ELSE LeaveLocked(e)
    /\ Return(e)
    /\ UNCHANGED <<sessionVars, row, claimFor, subject, cached,
                   redemption, orders>>

FaultySentinel == "none"
attemptSentinel == "marker"

\* Checkpoint of the attempt marker: past it the attempt cannot be undone.
Checkpoint(e, o) ==
    /\ pc[e] = "mark"
    /\ subject' = IF Applied(o) THEN [subject EXCEPT ![ek[e]] = attemptSentinel]
                                ELSE subject
    /\ \/ o = "ok" /\ Goto(e, "place") /\ UNCHANGED holder
       \/ o # "ok" /\ Return(e) /\ LeaveLocked(e)
    /\ UNCHANGED <<sessionVars, row, claimFor, cached, redemption, orders>>
-----------------------------------------------------------------------------
(* After the marker: the attempt is only ever driven forward.              *)

\* CreateOrder under the key "checkout:<session>:<key>": the first call makes
\* the order, every later one answers with it.  An error, InvalidArgument
\* included, leaves the session confirming and frees the lock for a retry.
FaultyAfterCreate(e, o) == "record"
AfterCreate(e, o) ==
    IF o = "ok" /\ snap[e].content \notin Overshot THEN "record" ELSE "release"

CreateOrder(e, o) ==
    LET s == es[e]
        k == ek[e]
        valid == snap[e].content \notin Overshot
    IN /\ pc[e] = "place"
       /\ orders' = IF Applied(o) /\ valid /\ orders[s][k] = NoContent
                    THEN [orders EXCEPT ![s][k] = snap[e].content]
                    ELSE orders
       /\ Goto(e, AfterCreate(e, o))
       /\ UNCHANGED <<sessionVars, claimVars, redemption>>

\* Best-effort: the claim's subject becomes the order id.
RecordOrder(e, o) ==
    /\ pc[e] = "record"
    /\ subject' = IF Applied(o) THEN [subject EXCEPT ![ek[e]] = "order"]
                                ELSE subject
    /\ Goto(e, IF Promo(e) = NoCode THEN "complete" ELSE "backfill")
    /\ UNCHANGED <<sessionVars, row, claimFor, holder, cached,
                   redemption, orders>>

\* Best-effort: the redemption row, if there is one, gets the order id.
BackfillRedemptionOrder(e, o) ==
    /\ pc[e] = "backfill"
    /\ redemption' = IF Applied(o) /\ redemption[es[e]][Promo(e)] = "counted"
                     THEN [redemption EXCEPT ![es[e]][Promo(e)] = "linked"]
                     ELSE redemption
    /\ Goto(e, "complete")
    /\ UNCHANGED <<sessionVars, claimVars, orders>>

\* The binding stays on the completed row.  A missed write is looked into; an
\* error, applied or not, leaves the claim locked for the same-key retry.
CompleteSession(e, o) ==
    LET s == es[e]
    IN /\ pc[e] = "complete"
       /\ \/ /\ Applied(o) /\ Holds(e)
             /\ status' = [status EXCEPT ![s] = "completed"]
             /\ orderId' = [orderId EXCEPT ![s] = ek[e]]
          \/ /\ ~(Applied(o) /\ Holds(e))
             /\ UNCHANGED <<status, orderId>>
       /\ \/ /\ o = "ok"
             /\ Goto(e, IF Holds(e) THEN "finish" ELSE "recheck")
             /\ UNCHANGED holder
          \/ o # "ok" /\ Return(e) /\ LeaveLocked(e)
       /\ UNCHANGED <<bound, content, due, row, claimFor, subject, cached,
                      redemption, orders>>

\* A stale completion is tolerated only if this claim completed the session.
Recheck(e) ==
    /\ pc[e] = "recheck"
    /\ \/ /\ status[es[e]] = "completed"
          /\ bound[es[e]] = ClaimId(ek[e])
          /\ snap' = [snap EXCEPT ![e] = Snapshot(es[e])]
          /\ pc' = [pc EXCEPT ![e] = "finish"]
          /\ UNCHANGED <<sessionVars, claimVars, redemption, orders,
                         es, ek, marked>>
       \/ GiveUp(e)

\* Finish caches the answer.  If it fails the lock stays on the main path;
\* on the recovery path the entry gate's error releases it.
Finish(e, o) ==
    LET s == es[e]
        k == ek[e]
    IN /\ pc[e] \in {"finish", "refinish"}
       /\ cached' = IF Applied(o)
                    THEN [cached EXCEPT ![k] = [order |-> orderId[s],
                                         content |-> snap[e].content]]
                    ELSE cached
       /\ \/ o = "ok" /\ Return(e) /\ Unlock(e)
          \/ o # "ok" /\ pc[e] = "finish" /\ Return(e) /\ LeaveLocked(e)
          \/ o # "ok" /\ pc[e] = "refinish" /\ Goto(e, "release")
             /\ UNCHANGED holder
       /\ UNCHANGED <<sessionVars, row, claimFor, subject, redemption, orders>>

Crash(e) == pc[e] # "idle" /\ GiveUp(e)

\* The takeover window passed.  It is validated at startup to be several
\* times the latest moment an execution can still write, so only a dead
\* execution's lock ever goes stale.
LockGoesStale(k) ==
    /\ holder[k] = Gone
    /\ holder' = [holder EXCEPT ![k] = Nobody]
    /\ UNCHANGED <<sessionVars, row, claimFor, subject, cached, redemption,
                   orders, pc, localVars>>
-----------------------------------------------------------------------------
(* The rest of the system, seen through the rows it writes.                *)

Elsewhere == UNCHANGED <<claimVars, redemption, orders, pc, localVars>>

\* The funnel's writes: each is conditional on the status its handler read,
\* for which the FSM had the edge to the new one.  confirming has edges to
\* shipping_set and ready, meant for the confirm itself, and the handlers of
\* PUT shipping and PUT payment take them too; neither clears the binding.
FunnelWrite(s, to) ==
    /\ CanTransition(status[s], to)
    /\ status[s] = "confirming" => MidConfirmEdits
    /\ status' = [status EXCEPT ![s] = to]
    /\ UNCHANGED <<bound, orderId, due>>

\* Fee and tax reset; the discount is clamped on an earlier read, so it can
\* exceed a subtotal requoted since.
SetAddress(s) ==
    /\ FunnelWrite(s, "address_set")
    /\ \E c \in Contents : /\ PromoOf[c] = PromoOf[content[s]]
                           /\ content' = [content EXCEPT ![s] = c]
    /\ Elsewhere

\* Priced and discounted on the very row it is written to (asOf).
SetShipping(s) ==
    /\ FunnelWrite(s, "shipping_set")
    /\ \E c \in Contents \ Overshot :
          /\ PromoOf[c] = PromoOf[content[s]]
          /\ content' = [content EXCEPT ![s] = c]
    /\ Elsewhere

\* Only the token changes.
SetPayment(s) ==
    /\ FunnelWrite(s, "ready")
    /\ \E c \in Contents :
          /\ PromoOf[c] = PromoOf[content[s]]
          /\ c \in Overshot <=> content[s] \in Overshot
          /\ content' = [content EXCEPT ![s] = c]
    /\ Elsewhere

\* ApplyPromo and RemovePromo: the write is conditional on the status alone,
\* so the discount may have been computed for totals since replaced.
SetPromo(s) ==
    /\ status[s] \in Working
    /\ \E c \in Contents : content' = [content EXCEPT ![s] = c]
    /\ UNCHANGED <<status, bound, orderId, due>>
    /\ Elsewhere

Cancel(s) ==
    /\ CanTransition(status[s], "cancelled")
    /\ status' = [status EXCEPT ![s] = "cancelled"]
    /\ UNCHANGED <<bound, content, orderId, due>>
    /\ Elsewhere

\* Activity moves the deadline; also POST /sessions on a session in confirming.
Touch(s) ==
    /\ status[s] \notin Terminal /\ due[s]
    /\ due' = [due EXCEPT ![s] = FALSE]
    /\ UNCHANGED <<status, bound, content, orderId>>
    /\ Elsewhere

DeadlinePasses(s) ==
    /\ status[s] \notin Terminal /\ ~due[s]
    /\ due' = [due EXCEPT ![s] = TRUE]
    /\ UNCHANGED <<status, bound, content, orderId>>
    /\ Elsewhere

\* The abandonment timer's write, first statement.
ExpireDue(s) ==
    /\ due[s] /\ Expirable(s)
    /\ status' = [status EXCEPT ![s] = "expired"]
    /\ UNCHANGED <<bound, content, orderId, due>>
    /\ Elsewhere

\* Its second statement: a parked confirm whose claim is provably dead and
\* never authorized an order.
FaultyProvablyDeadOrdered(k) == cached[k] = NoReply /\ holder[k] = Nobody
FaultyProvablyDeadFresh(k) ==
    subject[k] = "none" /\ cached[k] = NoReply /\ holder[k] # Nobody
ProvablyDead(k) ==
    subject[k] = "none" /\ cached[k] = NoReply /\ holder[k] = Nobody

ExpireParked(s) ==
    /\ due[s] /\ status[s] = "confirming"
    /\ \E k \in Keys : /\ claimFor[k] # NoSession /\ bound[s] = ClaimId(k)
                       /\ ProvablyDead(k)
    /\ status' = [status EXCEPT ![s] = "expired"]
    /\ bound' = [bound EXCEPT ![s] = Unbound]
    /\ UNCHANGED <<content, orderId, due>>
    /\ Elsewhere

\* The hourly sweep deletes answered claims past their retention.
ReapFinished(k) ==
    /\ claimFor[k] # NoSession /\ cached[k] # NoReply
    /\ row[k] < MaxRow
    /\ claimFor' = [claimFor EXCEPT ![k] = NoSession]
    /\ holder' = [holder EXCEPT ![k] = Nobody]
    /\ subject' = [subject EXCEPT ![k] = "none"]
    /\ cached' = [cached EXCEPT ![k] = NoReply]
    /\ UNCHANGED <<sessionVars, row, redemption, orders, pc, localVars>>
-----------------------------------------------------------------------------
\* What an execution does next, whatever the calls answer.
Step(e) ==
    \/ ClaimRefused(e) \/ Reenter(e) \/ EntryRefused(e)
    \/ RereadConfirming(e) \/ RereadGone(e) \/ Revalidate(e)
    \/ RedeemRejected(e) \/ Recheck(e)
    \/ \E o \in Outcomes :
          \/ MarkExpired(e, o) \/ Claim(e, o) \/ BeginConfirm(e, o)
          \/ RequoteItems(e, o) \/ RedeemPromo(e, o) \/ StripPromo(e, o)
          \/ AbortConfirm(e, o) \/ Release(e, o) \/ Checkpoint(e, o)
          \/ CreateOrder(e, o) \/ RecordOrder(e, o)
          \/ BackfillRedemptionOrder(e, o) \/ CompleteSession(e, o)
          \/ Finish(e, o)

Shopper(s) ==
    \/ \E e \in Execs, k \in Keys : ReadSession(e, s, k)
    \/ SetAddress(s) \/ SetShipping(s) \/ SetPayment(s) \/ SetPromo(s)
    \/ Cancel(s) \/ Touch(s)

Timers ==
    \/ \E s \in Sessions : DeadlinePasses(s) \/ ExpireDue(s) \/ ExpireParked(s)
    \/ \E k \in Keys : LockGoesStale(k) \/ ReapFinished(k)

Next ==
    \/ \E e \in Execs : Step(e) \/ Crash(e)
    \/ \E s \in Sessions : Shopper(s)
    \/ Timers

Spec == Init /\ [][Next]_vars
-----------------------------------------------------------------------------
(* Safety.                                                                 *)

Ordered(s, k) == orders[s][k] # NoContent

\* "One order per session funnel" (migration 000003): whatever is retried,
\* crashed, aborted, requoted, reaped or edited, order-service never holds two
\* orders for one checkout session.
OneOrderPerSession ==
    \A s \in Sessions : \A k1, k2 \in Keys :
        Ordered(s, k1) /\ Ordered(s, k2) => k1 = k2

\* The proof of exclusion: once order-service has an order for a session, the
\* session is bound to a claim of the key that made it, so BeginConfirm turns
\* every other key away; and the claim carries the attempt marker, so a
\* retry never undoes the attempt, until the session is completed.
OrderBindsSession ==
    \A s \in Sessions, k \in Keys : Ordered(s, k) =>
        /\ bound[s].key = k
        /\ \/ status[s] = "completed"
           \/ /\ claimFor[k] = s /\ bound[s] = ClaimId(k)
              /\ subject[k] # "none"

\* Between the reread and its last write, one execution drives a session.
Driving(e) == pc[e] \in {"revalidate", "requote", "redeem", "strip", "abort",
                         "mark", "place", "record", "backfill", "complete",
                         "recheck", "finish"}

\* Claim lock, takeover and binding together keep two live executions, of the
\* same key or of different keys, from driving one session at a time.
OneDriver ==
    \A e1, e2 \in Execs :
        Driving(e1) /\ Driving(e2) /\ es[e1] = es[e2] => e1 = e2

\* A completed session names an order that order-service really has, even
\* when the completion's acknowledgement or the process was lost.
CompletedShowsItsOrder ==
    \A s \in Sessions : status[s] = "completed" =>
        /\ orderId[s] \in Keys
        /\ Ordered(s, orderId[s])

\* What a replay answers is what the session row shows: completed, under that
\* claim, with that order and those contents ("never cache an outcome the
\* session does not show").
CachedAnswerIsShown ==
    \A k \in Keys : cached[k] # NoReply =>
        /\ claimFor[k] \in Sessions
        /\ LET s == claimFor[k]
           IN /\ status[s] = "completed" /\ bound[s] = ClaimId(k)
              /\ cached[k] = [order |-> orderId[s], content |-> content[s]]

\* The order carries what the session shows: same items, totals, token.
OrderMatchesSession ==
    \A s \in Sessions, k \in Keys : Ordered(s, k) => orders[s][k] = content[s]

\* No session with an order is requoted, cancelled or expired: it stays in
\* confirming for its own key's retry, or is completed.
OrderNeverStranded ==
    \A s \in Sessions, k \in Keys :
        Ordered(s, k) => status[s] \in {"confirming", "completed"}

\* "A set marker implies the redemption already committed": an order with a
\* promo's discount has its use counted.
PromoOrderCounted ==
    \A s \in Sessions, k \in Keys :
        Ordered(s, k) /\ PromoOf[orders[s][k]] # NoCode =>
            redemption[s][PromoOf[orders[s][k]]] # "none"

\* Statuses move along the FSM's edges, or from confirming to expired when a
\* parked confirm is reaped.  In particular no terminal state is ever left.
StatusFollowsFSM ==
    [][\A s \in Sessions :
          \/ status'[s] = status[s]
          \/ CanTransition(status[s], status'[s])
          \/ /\ status[s] = "confirming" /\ status'[s] = "expired"
             /\ \A k \in Keys : ~Ordered(s, k)]_vars

\* From the marker on the attempt is only driven forward: the session keeps
\* its binding and contents, and its status can only become completed.
Attempted(s) == \E k \in Keys : /\ claimFor[k] = s /\ bound[s] = ClaimId(k)
                                /\ subject[k] # "none"
AttemptIsFrozen ==
    [][\A s \in Sessions : Attempted(s) =>
          /\ bound'[s] = bound[s] /\ content'[s] = content[s]
          /\ status'[s] \in {status[s], "completed"}]_vars

\* A completed confirm is final: a sold session keeps its row, whoever edits,
\* cancels, expires or confirms it again, and no claim of it, retried, taken
\* over or made anew, is ever answered with another order or other contents.
SaleIsFinal ==
    [][\A s \in Sessions : status[s] = "completed" =>
          /\ status'[s] = "completed" /\ bound'[s] = bound[s]
          /\ content'[s] = content[s] /\ orderId'[s] = orderId[s]
          /\ orders'[s][orderId[s]] = orders[s][orderId[s]]
          /\ \A k \in Keys : claimFor'[k] = s /\ cached'[k] # NoReply =>
                cached'[k] = [order |-> orderId[s], content |-> content[s]]]_vars
-----------------------------------------------------------------------------
(* Refinement: the confirm implements one purchase per session.            *)

HasOrder(s) == \E k \in Keys : Ordered(s, k)

stageOf == [s \in Sessions |->
              IF status[s] = "completed" THEN "completed"
              ELSE IF HasOrder(s) THEN "ordered"
              ELSE IF Attempted(s) THEN "committed"
              ELSE IF status[s] \in Terminal THEN "dropped" ELSE "shopping"]
isBuying == [s \in Sessions |-> stageOf[s] \notin {"shopping", "dropped"}]
buyerOf == [s \in Sessions |-> IF isBuying[s] THEN bound[s].key ELSE NoKey]
termsOf == [s \in Sessions |-> IF isBuying[s] THEN content[s] ELSE NoContent]

Purchase == INSTANCE PurchaseOnce
                WITH stage <- stageOf, buyer <- buyerOf, terms <- termsOf

\* Every behaviour of the confirm, whatever it retries or loses, is one
\* purchase seen through the marker, the order and the completed status.
ImplementsPurchase == Purchase!Spec
-----------------------------------------------------------------------------
(* Liveness.                                                               *)

\* Executions run to their end (a context deadline bounds every call), locks
\* go stale, deadlines pass, and the abandonment workflow keeps asking.
Fairness ==
    /\ \A e \in Execs : WF_vars(Step(e))
    /\ \A k \in Keys : WF_vars(LockGoesStale(k))
    /\ \A s \in Sessions : WF_vars(DeadlinePasses(s)) /\ WF_vars(ExpireParked(s))

FairSpec == Spec /\ Fairness

ShopperLeft ==
    <>[][\A s \in Sessions :
            /\ \A e \in Execs, k \in Keys : ~ReadSession(e, s, k)
            /\ ~Touch(s)]_vars

\* A confirm that died before its marker does not lock the shopper's one
\* active session forever: once the shopper is gone the timer reaps it.
ParkedConfirmIsReaped ==
    ShopperLeft =>
        \A s \in Sessions : []<>(status[s] # "confirming" \/ Attempted(s))

\* The world outside the program: the shopper keeps retrying each key, and
\* no call fails forever.
RetriesGetThrough ==
    \A e \in Execs, s \in Sessions, k \in Keys :
        /\ SF_vars(ReadSession(e, s, k))
        /\ SF_vars(ek[e] = k /\ Claim(e, "ok"))
        /\ SF_vars(ek[e] = k /\ Reenter(e))
        /\ SF_vars(ek[e] = k /\ RereadConfirming(e))
        /\ SF_vars(ek[e] = k /\ CreateOrder(e, "ok"))
        /\ SF_vars(ek[e] = k /\ \E o \in Outcomes : RecordOrder(e, o))
        /\ SF_vars(ek[e] = k /\ \E o \in Outcomes :
                                    BackfillRedemptionOrder(e, o))
        /\ SF_vars(ek[e] = k /\ CompleteSession(e, "ok"))

\* A payment that may have been authorized is never left undecided: retried
\* under its own key, an attempt ends in a completed session.  One attempt is
\* excepted: a discount that outgrew its sum between the bounds check and the
\* reread is marked with the rest, refused by order-service, and the bounds
\* check then turns every retry away.  Nor can more be said of an attempt that a
\* PUT takes out of its confirm (MidConfirmEdits).
RetriedAttemptCompletes ==
    RetriesGetThrough =>
        \A s \in Sessions :
            Attempted(s) /\ content[s] \notin Overshot
                ~> status[s] = "completed"
=============================================================================
