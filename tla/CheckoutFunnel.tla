--------------------------- MODULE CheckoutFunnel ---------------------------
(***************************************************************************)
(* The funnel of one checkout session: PUT address, shipping and payment,  *)
(* promo, cancel, GET and POST /sessions, and the writes of its confirm,   *)
(* with the totals as numbers.                                             *)
(*                                                                         *)
(* Every handler reads the session, decides and computes on that read,     *)
(* writes it conditionally and touches the deadline: three statements,     *)
(* between which other handlers, the confirm and the timer write the row.  *)
(*                                                                         *)
(* One confirm drives a session at a time (OneDriver of CheckoutConfirm),  *)
(* so it is one process here, under one key: a key that gives the session  *)
(* up leaves nothing on the row for the next one to see.                   *)
(***************************************************************************)
EXTENDS SessionFSM, Integers

CONSTANTS
    Requests,   \* slots for handlers running side by side
    Regions, Methods, Codes,
    Subtotals,  \* the sums the catalog's prices can give the basket
    Fee,        \* [Methods -> [Regions -> Nat]]: shipping-service's quote
    RateBps,    \* [Regions -> Nat]: tax_rules, in basis points
    Percent,    \* the codes whose value is a percentage
    Value,      \* [Codes -> Nat]: promo_codes.value
    Retirable,  \* the codes whose row may go: a redeemed code's is kept by the
                \* foreign key of promo_redemptions
    NoRegion, NoMethod, NoCode

ASSUME FunnelAssumption ==
    /\ Subtotals \subseteq Nat
    /\ Fee \in [Methods -> [Regions -> Nat]]
    /\ RateBps \in [Regions -> 0..10000]
    /\ Value \in [Codes -> Nat]
    /\ Retirable \subseteq Codes
    /\ Percent \subseteq Codes /\ \A c \in Percent : Value[c] \in 1..100
    /\ NoRegion \notin Regions /\ NoMethod \notin Methods /\ NoCode \notin Codes

VARIABLES
    status,     \* of the session row
    sheet,      \* its address, method, promo and money columns
    due,        \* its deadline has passed
    fresh,      \* requests whose read is still the row's latest revision:
                \* the updated_at they saw is the row's (no two writes share one)
    pc, task,   \* a request: where it is, what it computed from its read
    cpc, snap,  \* the confirm: where it is, the sheet it reread
    marked,     \* its claim carries the attempt marker
    retired     \* the codes whose row promo_codes has no more

rowVars     == <<status, sheet, due, fresh>>
requestVars == <<pc, task>>
confirmVars == <<cpc, snap, marked>>
funnelVars  == <<rowVars, requestVars, confirmVars>>
vars == <<funnelVars, retired>>

Min2(a, b) == IF a < b THEN a ELSE b

\* Floor of base * bps / 10000.
flatTax(base, bps) == (base * bps) \div 10000

\* A percentage of the subtotal or a fixed sum, clamped to what it is taken off.
discountFor(code, subtotal, fee, tax) ==
    IF code = NoCode THEN 0
    ELSE Min2(IF code \in Percent THEN flatTax(subtotal, Value[code] * 100)
                                  ELSE Value[code],
              subtotal + fee + tax)

\* A discount frozen when the code was applied.
FaultySessionDiscount(promo, subtotal, fee, tax) ==
    IF promo = NoCode THEN 0 ELSE sheet.discount
\* The discount of the promo a session has: none once its code is retired, and
\* the code stays on the row.
sessionDiscount(promo, subtotal, fee, tax) ==
    IF promo \in retired THEN 0 ELSE discountFor(promo, subtotal, fee, tax)

Ceiling(q) == q.subtotal + q.fee + q.tax
Recomposed(q) == [q EXCEPT !.total = Ceiling(q) - q.discount]

NewSheet(subtotal) ==
    [region |-> NoRegion, method |-> NoMethod, promo |-> NoCode,
     subtotal |-> subtotal, fee |-> 0, tax |-> 0, discount |-> 0,
     total |-> subtotal]

Sheets ==
    [region : Regions \cup {NoRegion}, method : Methods \cup {NoMethod},
     promo : Codes \cup {NoCode}, subtotal : Nat, fee : Nat, tax : Nat,
     discount : Nat, total : Int]
NoSheet == NewSheet(0)

Ops == {"none", "get", "address", "shipping", "payment", "apply", "remove",
        "cancel"}

\* What a handler carries from its read to its write: the status it saw, its
\* argument, and the columns it computed.
Tasks == [op : Ops, from : Status, region : Regions \cup {NoRegion},
          method : Methods \cup {NoMethod}, promo : Codes \cup {NoCode},
          fee : Nat, tax : Nat, discount : Nat]
NoTask == [op |-> "none", from |-> "expired", region |-> NoRegion,
           method |-> NoMethod, promo |-> NoCode,
           fee |-> 0, tax |-> 0, discount |-> 0]

\* The columns', the requests' and the confirm's domains.
TypeOK ==
    /\ status \in Status /\ sheet \in Sheets /\ due \in BOOLEAN
    /\ fresh \subseteq Requests
    /\ pc \in [Requests -> {"idle", "lazy", "write", "reread", "touch",
                            "cancelled"}]
    /\ task \in [Requests -> Tasks]
    /\ cpc \in {"idle", "lazy", "begin", "reread", "authorize", "place",
                "complete"}
    /\ snap \in Sheets /\ marked \in BOOLEAN
    /\ retired \subseteq Retirable

\* POST /sessions snapshots the cart.
Init ==
    /\ status = "open" /\ due = FALSE /\ fresh = {}
    /\ \E n \in Subtotals : sheet = NewSheet(n)
    /\ pc = [r \in Requests |-> "idle"] /\ task = [r \in Requests |-> NoTask]
    /\ cpc = "idle" /\ snap = NoSheet /\ marked = FALSE
    /\ retired = {}
-----------------------------------------------------------------------------
(* Reading.  A read past the deadline ends in 410 after MarkExpired; what  *)
(* the FSM refuses ends there.                                             *)

Overdue == due /\ status \in Working

\* The request read the row: it goes on to its write with what it computed.
Read(r, t) ==
    /\ pc[r] = "idle"
    /\ pc' = [pc EXCEPT ![r] = IF Overdue THEN "lazy" ELSE "write"]
    /\ task' = [task EXCEPT ![r] = IF Overdue THEN NoTask ELSE t]
    /\ fresh' = IF Overdue THEN fresh ELSE fresh \cup {r}
    /\ UNCHANGED <<status, sheet, due, confirmVars>>

ReadAddress(r, region) ==
    /\ CanTransition(status, "address_set")
    /\ Read(r, [NoTask EXCEPT !.op = "address", !.from = status,
                  !.region = region,
                  !.discount =
                     sessionDiscount(sheet.promo, sheet.subtotal, 0, 0)])

\* priceShipping quotes the address read, then the discount follows.
ReadShipping(r, method) ==
    /\ CanTransition(status, "shipping_set")
    /\ sheet.region # NoRegion
    /\ LET fee == Fee[method][sheet.region]
           tax == flatTax(sheet.subtotal + fee, RateBps[sheet.region])
       IN Read(r, [NoTask EXCEPT !.op = "shipping", !.from = status,
                     !.method = method, !.fee = fee, !.tax = tax,
                     !.discount =
                        sessionDiscount(sheet.promo, sheet.subtotal, fee, tax)])

ReadPayment(r) ==
    /\ CanTransition(status, "ready")
    /\ Read(r, [NoTask EXCEPT !.op = "payment", !.from = status])

ReadApply(r, code) ==
    /\ status \in Working /\ code \notin retired
    /\ Read(r, [NoTask EXCEPT !.op = "apply", !.from = status, !.promo = code,
                  !.discount = discountFor(code, sheet.subtotal, sheet.fee,
                                           sheet.tax)])

ReadRemove(r) ==
    /\ status \in Working
    /\ Read(r, [NoTask EXCEPT !.op = "remove", !.from = status])

ReadCancel(r) ==
    /\ CanTransition(status, "cancelled")
    /\ Read(r, [NoTask EXCEPT !.op = "cancel", !.from = status])

\* GET and POST /sessions on an active session: the second touches it, the
\* first ends with the read, like a touch that changes nothing.
ReadActive(r) ==
    /\ status \in Active /\ pc[r] = "idle"
    /\ pc' = [pc EXCEPT ![r] = IF Overdue THEN "lazy" ELSE "touch"]
    /\ UNCHANGED <<rowVars, task, confirmVars>>
-----------------------------------------------------------------------------
(* Writing.  A write bumps updated_at, so no earlier read is current after *)
(* it.                                                                     *)

Answered(r, label) ==
    /\ pc' = [pc EXCEPT ![r] = label]
    /\ task' = [task EXCEPT ![r] = NoTask]

WriteRow(to, q) == status' = to /\ sheet' = q /\ fresh' = {} /\ UNCHANGED due

\* The write hit: the handler touches the session.  It missed: 409.
Write(r, op, hit, to, q) ==
    /\ pc[r] = "write" /\ task[r].op = op
    /\ \/ hit /\ WriteRow(to, q) /\ Answered(r, "touch")
       \/ /\ ~hit /\ Answered(r, "idle")
          /\ fresh' = fresh \ {r} /\ UNCHANGED <<status, sheet, due>>
    /\ UNCHANGED confirmVars

SameStatus(r) == status = task[r].from

Addressed(q, t) ==
    Recomposed([q EXCEPT !.region = t.region, !.method = NoMethod, !.fee = 0,
                         !.tax = 0, !.discount = t.discount])
SetAddress(r) ==
    Write(r, "address", SameStatus(r), "address_set", Addressed(sheet, task[r]))

FaultyQuoteStands(r) == SameStatus(r)
QuoteStands(r) == SameStatus(r) /\ r \in fresh
SetShipping(r) ==
    LET t == task[r]
    IN Write(r, "shipping", QuoteStands(r), "shipping_set",
             Recomposed([sheet EXCEPT !.method = t.method, !.fee = t.fee,
                                      !.tax = t.tax, !.discount = t.discount]))

FaultyPayable(r) == status \in Working \cup {"confirming"}
Payable(r) == SameStatus(r)
SetPaymentToken(r) == Write(r, "payment", Payable(r), "ready", sheet)

FaultyPromotedEmpty(q, t) ==
    Recomposed([q EXCEPT !.promo = IF t.op = "remove" THEN "" ELSE t.promo,
                         !.discount = t.discount])
Promoted(q, t) ==
    Recomposed([q EXCEPT !.promo = t.promo, !.discount = t.discount])
SetPromo(r) ==
    \E op \in {"apply", "remove"} :
        Write(r, op, SameStatus(r), status, Promoted(sheet, task[r]))

\* A cancel that lost its race looks again: any terminal session is answered
\* as cancelled.
UpdateStatus(r) ==
    /\ pc[r] = "write" /\ task[r].op = "cancel"
    /\ \/ /\ SameStatus(r)
          /\ WriteRow("cancelled", sheet) /\ Answered(r, "cancelled")
       \/ /\ ~SameStatus(r) /\ Answered(r, "reread")
          /\ fresh' = fresh \ {r} /\ UNCHANGED <<status, sheet, due>>
    /\ UNCHANGED confirmVars

CancelLost(r) ==
    /\ pc[r] = "reread"
    /\ Answered(r, IF status \in Terminal THEN "cancelled" ELSE "idle")
    /\ UNCHANGED <<rowVars, confirmVars>>

CancelDone(r) ==
    /\ pc[r] = "cancelled" /\ Answered(r, "idle")
    /\ UNCHANGED <<rowVars, confirmVars>>

\* Best-effort, and nothing on a terminal session.
Touch(r) ==
    /\ pc[r] = "touch" /\ Answered(r, "idle")
    /\ \/ status \notin Terminal /\ due' = FALSE /\ fresh' = {}
       \/ UNCHANGED <<due, fresh>>
    /\ UNCHANGED <<status, sheet, confirmVars>>

\* MarkExpired does not ask for the deadline again.  Best-effort too.
Expire ==
    \/ status \in Working /\ WriteRow("expired", sheet)
    \/ UNCHANGED rowVars

MarkExpired(r) ==
    /\ pc[r] = "lazy" /\ Answered(r, "idle")
    /\ Expire
    /\ UNCHANGED confirmVars

\* A handler that gives up: an upstream or the database failed, or it crashed.
Fail(r) ==
    /\ pc[r] \in {"write", "reread", "touch", "lazy"} /\ Answered(r, "idle")
    /\ fresh' = fresh \ {r} /\ UNCHANGED <<status, sheet, due, confirmVars>>
-----------------------------------------------------------------------------
(* The confirm.                                                            *)

InBounds(q) == q.discount \in 0..Ceiling(q)

\* Confirm's first read: bounds are checked, then the gate is tried; our own
\* confirming session is re-entered.
ConfirmEntry ==
    /\ cpc = "idle"
    /\ \/ Overdue /\ cpc' = "lazy"
       \/ /\ ~Overdue /\ InBounds(sheet)
          /\ \/ status = "ready" /\ cpc' = "begin"
             \/ status = "confirming" /\ cpc' = "reread"
    /\ UNCHANGED <<rowVars, requestVars, snap, marked>>

ConfirmExpire ==
    /\ cpc = "lazy" /\ cpc' = "idle"
    /\ Expire
    /\ UNCHANGED <<requestVars, snap, marked>>

BeginConfirm ==
    /\ cpc = "begin"
    /\ \/ /\ status = "ready" /\ WriteRow("confirming", sheet)
          /\ cpc' = "reread"
       \/ status # "ready" /\ cpc' = "idle" /\ UNCHANGED rowVars
    /\ UNCHANGED <<requestVars, snap, marked>>

RereadConfirming ==
    /\ cpc = "reread"
    /\ \/ /\ status = "confirming" /\ snap' = sheet
          /\ cpc' = IF marked THEN "place" ELSE "authorize"
       \/ status # "confirming" /\ cpc' = "idle" /\ UNCHANGED snap
    /\ UNCHANGED <<rowVars, requestVars, marked>>

\* Back to the funnel, under the binding; the confirm ends either way.
GiveBack(to, q) ==
    /\ cpc = "authorize" /\ cpc' = "idle" /\ snap' = NoSheet
    /\ \/ status = "confirming" /\ WriteRow(to, q)
       \/ status # "confirming" /\ UNCHANGED rowVars
    /\ UNCHANGED <<requestVars, marked>>

\* requoteComponents on the reread sheet, or its own values when nobody can
\* say what is available.  The fee in the sum is the row's.
RequotedTax(subtotal) == flatTax(subtotal + snap.fee, RateBps[snap.region])
Requote(subtotal) ==
    LET tax == RequotedTax(subtotal)
    IN GiveBack("shipping_set",
         Recomposed([sheet EXCEPT !.subtotal = subtotal, !.tax = tax,
                       !.discount = sessionDiscount(snap.promo, subtotal,
                                                    snap.fee, tax)]))
RequoteSnapshot ==
    GiveBack("shipping_set",
         Recomposed([sheet EXCEPT !.subtotal = snap.subtotal, !.tax = snap.tax,
                                  !.discount = snap.discount]))

\* The code was exhausted, had expired or is retired.
StripPromo ==
    /\ snap.promo # NoCode
    /\ GiveBack("shipping_set",
                Recomposed([sheet EXCEPT !.promo = NoCode, !.discount = 0]))

AbortConfirm == GiveBack("ready", sheet)

\* Prices stand, the promo is redeemed, which takes its row: the marker is set.
Checkpoint ==
    /\ cpc = "authorize" /\ snap.promo \notin retired
    /\ cpc' = "place" /\ marked' = TRUE
    /\ UNCHANGED <<rowVars, requestVars, snap>>

\* order-service takes what is in its bounds.  A rejection, like an answer
\* that is lost (ConfirmDies), leaves the session confirming for a retry.
CreateOrder ==
    /\ cpc = "place" /\ snap' = NoSheet
    /\ cpc' = IF InBounds(snap) THEN "complete" ELSE "idle"
    /\ UNCHANGED <<rowVars, requestVars, marked>>

CompleteSession ==
    /\ cpc = "complete" /\ cpc' = "idle"
    /\ \/ status = "confirming" /\ WriteRow("completed", sheet)
       \/ status # "confirming" /\ UNCHANGED rowVars
    /\ UNCHANGED <<requestVars, snap, marked>>

\* The confirm ends between two of its calls: it crashed, or a call failed.
ConfirmDies ==
    /\ cpc # "idle" /\ cpc' = "idle" /\ snap' = NoSheet
    /\ UNCHANGED <<rowVars, requestVars, marked>>
-----------------------------------------------------------------------------
DeadlinePasses ==
    /\ status \notin Terminal /\ ~due /\ due' = TRUE
    /\ UNCHANGED <<status, sheet, fresh, requestVars, confirmVars>>

\* A confirm that nobody drives any more, and that has attempted nothing.
Parked == status = "confirming" /\ cpc = "idle" /\ ~marked

\* The abandonment timer's two statements: the deadline is part of the
\* condition of both.
ExpireDue ==
    /\ due /\ (status \in Working \/ Parked)
    /\ WriteRow("expired", sheet)
    /\ UNCHANGED <<requestVars, confirmVars>>

\* An operator takes a code out of promo_codes: no statement of the service
\* does, and none looks for it again before it needs the row.
RetireCode(code) ==
    /\ code \notin retired /\ retired' = retired \cup {code}
    /\ UNCHANGED funnelVars

Handler(r) ==
    \/ \E region \in Regions : ReadAddress(r, region)
    \/ \E method \in Methods : ReadShipping(r, method)
    \/ \E code \in Codes : ReadApply(r, code)
    \/ ReadPayment(r) \/ ReadRemove(r) \/ ReadCancel(r) \/ ReadActive(r)
    \/ SetAddress(r) \/ SetShipping(r) \/ SetPaymentToken(r) \/ SetPromo(r)
    \/ UpdateStatus(r) \/ CancelLost(r) \/ CancelDone(r)
    \/ Touch(r) \/ MarkExpired(r) \/ Fail(r)

Confirm ==
    \/ ConfirmEntry \/ ConfirmExpire \/ BeginConfirm \/ RereadConfirming
    \/ \E n \in Subtotals : Requote(n)
    \/ RequoteSnapshot \/ StripPromo \/ AbortConfirm \/ Checkpoint
    \/ CreateOrder \/ CompleteSession \/ ConfirmDies

FunnelNext ==
    \/ \E r \in Requests : Handler(r)
    \/ Confirm \/ DeadlinePasses \/ ExpireDue

Next ==
    \/ FunnelNext /\ UNCHANGED retired
    \/ \E code \in Retirable : RetireCode(code)

Spec == Init /\ [][Next]_vars
-----------------------------------------------------------------------------
\* "A fee quoted for the old destination can never persist next to the new
\* address", and the tax is that region's rate on the subtotal and the fee as
\* they stand, requotes included.
QuoteIsForAddress ==
    sheet.method # NoMethod =>
        /\ sheet.region # NoRegion
        /\ sheet.fee = Fee[sheet.method][sheet.region]
        /\ sheet.tax = flatTax(sheet.subtotal + sheet.fee,
                               RateBps[sheet.region])

\* No step of the funnel is skipped: what can be confirmed has an address and
\* a quote for it, whatever PUTs overlapped on the way.
ConfirmableIsQuoted ==
    status \in {"shipping_set", "ready", "confirming", "completed"} =>
        sheet.region # NoRegion /\ sheet.method # NoMethod

\* "Every totals-changing write goes through [sessionDiscount] so a percent
\* code stays a percentage and a fixed code stays clamped"; no code, no
\* discount; beside a code retired mid-session either what it gave or, "drop the
\* discount", nothing.  Two overlapping edits break it.
Gives(promo, subtotal, fee, tax, discount) ==
    \/ discount = discountFor(promo, subtotal, fee, tax)
    \/ promo \in retired /\ discount = 0
DiscountFollowsPromo ==
    Gives(sheet.promo, sheet.subtotal, sheet.fee, sheet.tax, sheet.discount)

\* What breaks it: only a write computed on a read that another write has
\* overtaken. Every other step, requotes, strips, fenced quotes and the
\* retirement of a code included, leaves the discount of a row that had a right
\* one right.
Overtaken(r) == pc[r] = "write" /\ pc'[r] = "touch" /\ r \notin fresh
OnlyOvertakenWritesDrift ==
    [][DiscountFollowsPromo =>
          DiscountFollowsPromo' \/ \E r \in Requests : Overtaken(r)]_vars

\* "A request that would be InvalidArgument there fails HERE, before any claim
\* or binding": what is sent after the attempt marker is in order-service's
\* bounds.  Broken with DiscountFollowsPromo, once the bounds are checked.
NoPoisonedAttempt == cpc = "place" => InBounds(snap)

\* "Terminal states other than cancelled reject": a cancel that is answered
\* with success did not cancel a completed purchase.  Broken by a cancel that
\* the whole confirm overtakes.
CancelledIsNotBought ==
    \A r \in Requests : pc[r] = "cancelled" => status # "completed"

\* "The lazy backstop never expires a session the timer considers alive": the
\* deadline, moved by every mutation, is past when a session expires.  Broken
\* by a touch between lazyExpire's read and its write.
ExpiresOnlyPastDeadline ==
    [][status' = "expired" /\ status # "expired" => due]_vars

\* The total is the row's own components less its discount, whatever handler
\* or confirm wrote which of them.
TotalIsComposed == sheet.total = Ceiling(sheet) - sheet.discount

\* "total can never go negative": nobody is charged less than nothing, or more
\* than the components.  Broken with DiscountFollowsPromo.
ChargeInBounds == sheet.total \in 0..Ceiling(sheet)

\* The executions in which no write is overtaken between its read and itself,
\* as if handlers of one session ran one at a time.
NoneOvertaken == [][\A r \in Requests : ~Overtaken(r)]_vars

\* The executions in which no deadline is moved under a lazy expiry that has
\* read it and has not written yet.
Condemned == cpc = "lazy" \/ \E r \in Requests : pc[r] = "lazy"
NoneSpared == [][due /\ ~due' => ~Condemned]_vars
=============================================================================
