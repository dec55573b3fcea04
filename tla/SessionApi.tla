----------------------------- MODULE SessionApi -----------------------------
(***************************************************************************)
(* The session API as its caller sees it: one user's requests, served      *)
(* concurrently over the user's session rows, every repository call a step *)
(* of its own that may fail, and the answer the handler gives.  What the   *)
(* rows hold besides status and deadline is in CheckoutFunnel; how a       *)
(* confirm moves a row is in CheckoutConfirm, here it is an outside actor, *)
(* like the abandonment timer and the clock.                               *)
(*                                                                         *)
(* A repository failure is "unavailable" when classify recognises an       *)
(* outage, "unexpected" otherwise (a client that went away, a connection   *)
(* cut in the middle of a statement); of either kind it may hide a write   *)
(* that landed.                                                            *)
(***************************************************************************)
EXTENDS SessionFSM, Naturals

CONSTANTS
    Requests,   \* the requests served side by side
    Sessions,   \* the ids the user's rows may get
    NoSession

ASSUME ApiAssumption == NoSession \notin Sessions

Target == [address |-> "address_set", shipping |-> "shipping_set",
           payment |-> "ready", cancel |-> "cancelled"]
PromoOps == {"promo", "unpromo"}
Mutations == DOMAIN Target \cup PromoOps
Ops == Mutations \cup {"create", "get"}

Failure == {"unavailable", "unexpected"}
Sentinel == {"EmptyCart", "AvailabilityUnknown", "Upstream",
             "ActiveSessionExists", "SessionNotFound", "SessionExpired",
             "InvalidTransition", "StaleTransition", "InvalidPaymentToken",
             "InvalidQuote", "PromoInvalid", "PromoExpired", "PromoExhausted"}
Codes == {0, 200, 201, 400, 404, 409, 410, 500, 503}
Steps == {"idle", "find", "mark", "quote", "insert", "winner", "read",
          "price", "write", "second_look", "touch", "answered"}

VARIABLES
    status,     \* the rows; "none" before the insert
    due,        \* rows whose deadline has passed
    lapsed,     \* history: rows whose deadline passed at some time
    req,        \* what each request is doing
    fresh       \* requests whose row was not written since they read it

vars == <<status, due, lapsed, req, fresh>>

IdleRequest ==
    [op |-> "get", step |-> "idle", sid |-> NoSession, seen |-> "none",
     code |-> 0, down |-> FALSE,
     retired |-> NoSession, spared |-> FALSE, late |-> FALSE]

\* A request: its operation and step, the row it works on, the status it read,
\* and once answered the code and whether an outage was the cause.  As
\* history: the row a create retired, whether that left the row unexpired, and
\* whether the row it handed out had elapsed.
RequestRecord ==
    [op : Ops, step : Steps, sid : Sessions \cup {NoSession},
     seen : Status \cup {"none"}, code : Codes, down : BOOLEAN,
     retired : Sessions \cup {NoSession}, spared : BOOLEAN, late : BOOLEAN]

\* Every variable keeps its type; every answer is one of the API's codes.
TypeOK ==
    /\ status \in [Sessions -> Status \cup {"none"}]
    /\ due \subseteq Sessions /\ lapsed \subseteq Sessions
    /\ req \in [Requests -> RequestRecord]
    /\ fresh \subseteq Requests

Init ==
    /\ status = [s \in Sessions |-> "none"]
    /\ due = {} /\ lapsed = {}
    /\ req = [r \in Requests |-> IdleRequest]
    /\ fresh = {}
-----------------------------------------------------------------------------
(* The HTTP answer: the errors each handler tells apart; any other is 500. *)

CreateCode ==
    [EmptyCart |-> 409, AvailabilityUnknown |-> 409, Upstream |-> 503,
     unavailable |-> 503, ok |-> 200, created |-> 201]
respondSessionError ==
    [PromoInvalid |-> 404, PromoExpired |-> 409, PromoExhausted |-> 409,
     InvalidQuote |-> 400, InvalidPaymentToken |-> 400,
     SessionNotFound |-> 404, SessionExpired |-> 410,
     InvalidTransition |-> 409, StaleTransition |-> 409,
     unavailable |-> 503, ok |-> 200]

FaultyCode(op, a) ==
    LET known == IF op = "create" THEN CreateCode ELSE respondSessionError
    IN IF a \in DOMAIN known THEN known[a] ELSE 502
Code(op, a) ==
    LET known == IF op = "create" THEN CreateCode ELSE respondSessionError
    IN IF a \in DOMAIN known THEN known[a] ELSE 500
-----------------------------------------------------------------------------
(* The rows.                                                               *)

rows == <<status, due, lapsed>>

At(r, step) == req[r].step = step
Goto(r, step) == req' = [req EXCEPT ![r].step = step]
\* The request is answered.  Of a refusal only the code is remembered, of any
\* other answer also the operation and the row.
Named == {"ok", "created", "SessionExpired"}
Reply(op, a, s) ==
    [IdleRequest EXCEPT
        !.step = "answered", !.code = Code(op, a),
        !.down = a \in {"Upstream", "unavailable"},
        !.op  = IF a \in Named THEN op ELSE "get",
        !.sid = IF a \in Named THEN s ELSE NoSession]
Answer(r, a) == req' = [req EXCEPT ![r] = Reply(@.op, a, @.sid)]

Forget(r) == fresh' = fresh \ {r}

\* Every statement that writes a row stamps it; what was read before is old.
Stamp(s) == fresh' = {q \in fresh : req[q].sid # s}

ActiveRows == {s \in Sessions : status[s] \in Active}

\* lazyExpire's verdict on a row just read.
Elapsed(s) == s \in due /\ status[s] \in Working

\* MarkExpired: any working row, whatever its deadline says by now.
FaultyMarkExpired(s) ==
    IF Elapsed(s) THEN [status EXCEPT ![s] = "expired"] ELSE status
MarkExpired(s) ==
    IF status[s] \in Working THEN [status EXCEPT ![s] = "expired"] ELSE status
-----------------------------------------------------------------------------
(* Requests.  A caller that was answered may send the next one, or the     *)
(* same one again.                                                         *)

\* A malformed payment reference is refused before any row is read.
Begin(r) ==
    /\ req[r].step \in {"idle", "answered"}
    /\ \E op \in Ops, s \in Sessions \cup {NoSession} :
        /\ (op = "create") = (s = NoSession)
        /\ \/ req' = [req EXCEPT ![r] =
                        [IdleRequest EXCEPT
                            !.op = op, !.sid = s,
                            !.step = IF op = "create" THEN "find" ELSE "read"]]
           \/ op = "payment"
              /\ req' = [req EXCEPT ![r] = Reply(op, "InvalidPaymentToken", s)]
    /\ fresh' = fresh \ {r}
    /\ UNCHANGED rows

\* A read fails: FindActiveByUserID, FindByID, or what a quote looks up.
ReadFails(r) ==
    /\ req[r].step \in {"find", "read", "price"}
    /\ \E f \in Failure : Answer(r, f)
    /\ Forget(r)
    /\ UNCHANGED rows

\* MarkExpired, best-effort: an expired create goes on to a new session, any
\* other operation answers that the session expired.
RetireElapsed(r) ==
    LET s == req[r].sid
    IN /\ At(r, "mark")
       /\ \E landed \in BOOLEAN :
            /\ status' = IF landed THEN MarkExpired(s) ELSE status
            /\ \/ /\ req[r].op = "create"
                  /\ req' = [req EXCEPT
                        ![r].step = "quote", ![r].sid = NoSession,
                        ![r].retired = s,
                        ![r].spared = ~landed \/ status[s] = "confirming"]
               \/ req[r].op # "create" /\ Answer(r, "SessionExpired")
       /\ IF status' # status THEN Stamp(s) ELSE UNCHANGED fresh
       /\ UNCHANGED <<due, lapsed>>

\* touch after the work is done, best-effort: only a row that has not ended
\* gets the new deadline.
Touch(r) ==
    LET s == req[r].sid
    IN /\ At(r, "touch")
       /\ \/ status[s] \in Active /\ due' = due \ {s} /\ Stamp(s)
          \/ UNCHANGED <<due, fresh>>
       /\ Answer(r, "ok")
       /\ UNCHANGED <<status, lapsed>>
-----------------------------------------------------------------------------
(* POST /sessions.                                                         *)

\* An active session short-circuits, after the lazy expiry check.
FindActive(r) ==
    /\ At(r, "find")
    /\ \/ ActiveRows = {} /\ Goto(r, "quote")
       \/ \E s \in ActiveRows :
            req' = [req EXCEPT ![r].sid = s,
                               ![r].step = IF Elapsed(s) THEN "mark" ELSE "touch"]
    /\ UNCHANGED <<rows, fresh>>

\* The cart and the catalog are read and the items snapshotted.
Quote(r) ==
    /\ At(r, "quote")
    /\ \/ Goto(r, "insert")
       \/ \E a \in {"EmptyCart", "Upstream", "AvailabilityUnknown"} : Answer(r, a)
    /\ UNCHANGED <<rows, fresh>>

\* Whether the partial unique index lets a row in.
Insertable == ActiveRows = {}

InsertRow(s) ==
    /\ status[s] = "none"
    /\ status' = [status EXCEPT ![s] = "open"]
    /\ UNCHANGED <<due, lapsed>>

Insert(r) ==
    /\ At(r, "insert")
    /\ \/ /\ Insertable
          /\ \E s \in Sessions :
                /\ InsertRow(s)
                /\ \/ req' = [req EXCEPT ![r] = Reply("create", "created", s)]
                   \/ \E f \in Failure : Answer(r, f)
       \/ ~Insertable /\ Goto(r, "winner") /\ UNCHANGED rows
       \/ \E f \in Failure : Answer(r, f) /\ UNCHANGED rows
    /\ UNCHANGED fresh

\* The race was lost: the winner as it is, unchecked and untouched; or, when
\* it cannot be found, the conflict itself.
FindWinner(r) ==
    /\ At(r, "winner")
    /\ \/ \E s \in ActiveRows :
            req' = [req EXCEPT ![r] =
                      [Reply("create", "ok", s) EXCEPT
                          !.retired = req[r].retired, !.spared = req[r].spared,
                          !.late = Elapsed(s)]]
       \/ Answer(r, "ActiveSessionExists")
    /\ UNCHANGED <<rows, fresh>>
-----------------------------------------------------------------------------
(* The operations on one session.                                          *)

\* CanTransition; a promo is an attribute of any working status.
Allowed(op, seen) ==
    CASE op \in DOMAIN Target -> CanTransition(seen, Target[op])
      [] op \in PromoOps      -> seen \in Working
      [] op = "get"           -> TRUE

Priced == {"address", "shipping", "promo"}
\* ownedSession, Cancel's idempotent answer, the terminal half of lazyExpire and
\* the transition guard; "none" when the operation goes on.
Refusal(op, s) ==
    IF status[s] = "none"                             THEN "SessionNotFound"
    ELSE IF op = "cancel" /\ status[s] = "cancelled"  THEN "ok"
    ELSE IF status[s] = "expired"                     THEN "SessionExpired"
    ELSE IF Elapsed(s)                                THEN "none"
    ELSE IF op = "get"                                THEN "ok"
    ELSE IF Allowed(op, status[s])                    THEN "none"
    ELSE "InvalidTransition"

ReadSession(r) ==
    LET s == req[r].sid
        op == req[r].op
    IN /\ At(r, "read")
       /\ \/ Refusal(op, s) # "none" /\ Answer(r, Refusal(op, s))
             /\ UNCHANGED fresh
          \/ Refusal(op, s) = "none" /\ Elapsed(s) /\ Goto(r, "mark")
             /\ UNCHANGED fresh
          \/ /\ Refusal(op, s) = "none" /\ ~Elapsed(s)
             /\ req' = [req EXCEPT
                          ![r].seen = status[s],
                          ![r].step = IF op \in Priced THEN "price" ELSE "write"]
             /\ fresh' = IF op = "shipping" THEN fresh \cup {r} ELSE fresh
       /\ UNCHANGED rows

\* What the new totals need before the write: the promo row, and for PUT
\* shipping the shipping service's quote and the tax rule (amounts are below the
\* overflow guard).
PriceRefusals ==
    [address  |-> {},
     shipping |-> {"Upstream", "InvalidQuote"},
     promo    |-> {"PromoInvalid", "PromoExpired", "PromoExhausted"}]

Price(r) ==
    /\ At(r, "price")
    /\ \/ Goto(r, "write")
          /\ UNCHANGED fresh
       \/ \E a \in PriceRefusals[req[r].op] : Answer(r, a) /\ Forget(r)
    /\ UNCHANGED rows

\* The conditional update: the status it read, and for PUT shipping also the
\* very revision it priced.
Matches(r) ==
    /\ status[req[r].sid] = req[r].seen
    /\ req[r].op = "shipping" => r \in fresh

NewStatus(op, seen) == IF op \in PromoOps THEN seen ELSE Target[op]

Write(r) ==
    LET s == req[r].sid
        op == req[r].op
        lands == /\ status' = [status EXCEPT ![s] = NewStatus(op, req[r].seen)]
                 /\ Stamp(s)
        nothing == UNCHANGED status /\ Forget(r)
    IN /\ At(r, "write")
       /\ \/ Matches(r) /\ lands /\ op # "cancel" /\ Goto(r, "touch")
          \/ Matches(r) /\ lands /\ op = "cancel" /\ Answer(r, "ok")
          \/ Matches(r) /\ lands /\ \E f \in Failure : Answer(r, f)
          \/ ~Matches(r) /\ nothing /\ op = "cancel" /\ Goto(r, "second_look")
          \/ ~Matches(r) /\ nothing /\ op # "cancel" /\ Answer(r, "StaleTransition")
          \/ nothing /\ \E f \in Failure : Answer(r, f)
       /\ UNCHANGED <<due, lapsed>>

\* A cancel that lost its write succeeds if the row has ended meanwhile.
FaultySettled(s) == status[s] \notin Working
Settled(s) == status[s] \in Terminal
SecondLook(r) ==
    /\ At(r, "second_look")
    /\ \/ Settled(req[r].sid) /\ Answer(r, "ok")
       \/ Answer(r, "StaleTransition")
    /\ UNCHANGED <<rows, fresh>>

Serve(r) ==
    \/ ReadFails(r) \/ RetireElapsed(r) \/ Touch(r)
    \/ FindActive(r) \/ Quote(r) \/ Insert(r) \/ FindWinner(r)
    \/ ReadSession(r) \/ Price(r) \/ Write(r) \/ SecondLook(r)
-----------------------------------------------------------------------------
(* Everybody else who moves the rows.                                      *)

Elapse ==
    /\ \E s \in Sessions \ due :
        /\ status[s] \in Active
        /\ due' = due \cup {s} /\ lapsed' = lapsed \cup {s}
    /\ UNCHANGED <<status, req, fresh>>

MoveRow(s, new) ==
    /\ status' = [status EXCEPT ![s] = new] /\ Stamp(s)
    /\ UNCHANGED <<due, lapsed, req>>

\* The abandonment timer: ExpireDue, a parked confirm that is provably dead
\* included.
TimerExpires == \E s \in due : status[s] \in Active /\ MoveRow(s, "expired")

BeginConfirm == \E s \in Sessions : status[s] = "ready" /\ MoveRow(s, "confirming")

EndConfirm ==
    \E s \in Sessions, new \in {"completed", "shipping_set", "ready"} :
        status[s] = "confirming" /\ MoveRow(s, new)

Others == Elapse \/ TimerExpires \/ BeginConfirm \/ EndConfirm

Next == Others \/ \E r \in Requests : Begin(r) \/ Serve(r)

Spec == Init /\ [][Next]_vars
-----------------------------------------------------------------------------
\* One active session per user, however creates race each other, the timer
\* and the lazy expiry.
OnePerUser == \A s, t \in ActiveRows : s = t

\* Nobody loses a session whose deadline never passed: neither is its row
\* expired nor is anyone told 410, whatever interleaves with touch.
NoEarlyExpiry ==
    /\ \A s \in Sessions : status[s] = "expired" => s \in lapsed
    /\ \A r \in Requests : req[r].code = 410 => req[r].sid \in lapsed

\* "A cancel of an already-terminal session is a success, not a conflict": and
\* the converse, a cancel answered 200 leaves no session to confirm.
CancelIsFinal ==
    \A r \in Requests :
        req[r].op = "cancel" /\ req[r].code = 200
            => status[req[r].sid] \in Terminal

\* POST /sessions hands out an elapsed session only if it is not the one this
\* request retired, or if the retirement did not take.
ExpiredIsNotHandedOut ==
    \A r \in Requests :
        req[r].late => req[r].sid # req[r].retired \/ req[r].spared

\* A service or a database that is down is answered 503, never 500: "any other
\* error is transport trouble (503)", "a dependency being down is not a bug in
\* checkout".
DownIsRetryable == \A r \in Requests : req[r].down => req[r].code = 503

\* What breaks it is PUT shipping when its quote cannot be had, and nothing else.
OnlyAQuoteIsMisreported ==
    [][\A r \in Requests : req'[r].down /\ req'[r].code # 503 =>
          \/ req'[r] = req[r]
          \/ req[r].op = "shipping" /\ req[r].step = "price"]_vars

\* Whatever was read, a row is written along the FSM's edges only, from
\* confirming also to expired, and it is not expired before it elapsed.
RowsFollowFSM ==
    [][\A s \in Sessions : status'[s] # status[s] =>
          /\ \/ status[s] = "none" /\ status'[s] = "open"
             \/ CanTransition(status[s], status'[s])
             \/ status[s] = "confirming" /\ status'[s] = "expired"
          /\ status'[s] = "expired" => s \in lapsed]_vars
-----------------------------------------------------------------------------
phaseOf == [s \in Sessions |-> IF status[s] \in Active THEN "live" ELSE status[s]]

\* What an answered request was told.
Meaning(q) ==
    IF q.code = 201 THEN "opened"
    ELSE IF q.code = 410 THEN "expired"
    ELSE IF q.op = "cancel" THEN "cancelled" ELSE "served"
Said(q) ==
    IF q.code = 0 THEN <<"nothing", NoSession>>
    ELSE IF q.code \in {200, 201, 410} THEN <<Meaning(q), q.sid>>
    ELSE <<"refused", NoSession>>
toldOf == [r \in Requests |-> Said(req[r])]

Session == INSTANCE OneSession
    WITH phase <- phaseOf, elapsed <- lapsed, told <- toldOf

\* The handlers, with their reads, races, retirements and lost writes, answer
\* as if each answer took effect at once: one live session per user; nobody is
\* expired, or told so, whose deadline never passed; and "a cancel of an
\* already-terminal session is a success": a cancel answered 200, however it
\* was overtaken, leaves no session to confirm.
ImplementsOneSession == Session!Spec
=============================================================================
