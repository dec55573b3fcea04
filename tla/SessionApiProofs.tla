-------------------------- MODULE SessionApiProofs --------------------------
(***************************************************************************)
(* Proofs about the session API for any number of requests and rows.       *)
(*                                                                         *)
(* The inductive invariant is one predicate per request, Good, of what it  *)
(* knows and was answered, over the rows as they are: the answers promise  *)
(* only what no later write of a row can take back (Moved).  A step of one *)
(* request is then a legal move of the rows and a new good record.         *)
(***************************************************************************)
EXTENDS SessionApi, TLAPS

OnOneRow == {"read", "mark", "price", "write", "second_look", "touch"}

\* What a request that is at q knows, when the rows have the statuses st and
\* those in lp have elapsed at some time.
Good(q, st, lp) ==
    /\ q \in RequestRecord
    /\ q.step \in {"find", "quote", "insert", "winner"} => q.op = "create"
    /\ q.step \in OnOneRow => q.sid \in Sessions
    /\ q.step \in OnOneRow \ {"mark"} => q.op # "create"
                                      \/ q.step = "touch"
    /\ q.step \in OnOneRow \ {"read"} => st[q.sid] # "none"
    /\ q.step \in {"price", "write"} =>
            q.op \in Mutations /\ q.seen \in Status /\ Allowed(q.op, q.seen)
    /\ q.step = "price" => q.op \in Priced
    /\ q.step = "touch" => q.op # "cancel"
    /\ q.step = "second_look" => q.op = "cancel"
    /\ q.step = "mark" => q.sid \in lp
    /\ q.step # "answered" => q.code = 0 /\ ~q.late /\ ~q.down
    /\ q.code = 410 => q.sid \in lp
    /\ q.op = "cancel" /\ q.code = 200 =>
            q.sid \in Sessions /\ st[q.sid] \in Terminal
    /\ q.retired \in Sessions /\ ~q.spared => st[q.retired] \in Terminal
    /\ q.late => q.sid # q.retired \/ q.spared

RowsOK(st, de, lp) ==
    /\ st \in [Sessions -> Status \cup {"none"}]
    /\ de \subseteq lp /\ lp \subseteq Sessions
    /\ \A s \in Sessions : st[s] = "expired" => s \in lp
    /\ \A s, t \in Sessions : st[s] \in Active /\ st[t] \in Active => s = t

IInv ==
    /\ RowsOK(status, due, lapsed)
    /\ req \in [Requests -> RequestRecord] /\ fresh \subseteq Requests
    /\ \A r \in Requests : Good(req[r], status, lapsed)

\* What holds of every write of the rows: an ended row keeps its status, no
\* row disappears, and what has elapsed once has.
Moved(st, st2, lp, lp2) ==
    /\ \A s \in Sessions : st[s] \in Terminal => st2[s] = st[s]
    /\ \A s \in Sessions : st[s] # "none" => st2[s] # "none"
    /\ lp \subseteq lp2
-----------------------------------------------------------------------------
\* An answer's code is one of the API's; 410 is said of no other than an
\* expired session, and 200 only of a success.
LEMMA CodeOf ==
    ASSUME NEW op, NEW a
    PROVE  /\ Code(op, a) \in Codes
           /\ Code(op, a) = 410 => a = "SessionExpired"
           /\ Code(op, a) = 200 => a = "ok"
<1>1. CASE op = "create"
  BY <1>1 DEF Code, CreateCode, Codes
<1>2. CASE op # "create"
  BY <1>2 DEF Code, respondSessionError, Codes
<1> QED BY <1>1, <1>2

\* The same of the record a reply is built from.
Answered(c, d, o, w) ==
    [IdleRequest EXCEPT !.step = "answered", !.code = c, !.down = d,
                        !.op = o, !.sid = w]

LEMMA AnsweredIsGood ==
    ASSUME NEW c \in Codes, NEW d \in BOOLEAN, NEW o \in Ops,
           NEW w \in Sessions \cup {NoSession}, NEW st, NEW lp,
           c = 410 => w \in lp,
           o = "cancel" /\ c = 200 => w \in Sessions /\ st[w] \in Terminal
    PROVE  Good(Answered(c, d, o, w), st, lp)
<1> DEFINE q == Answered(c, d, o, w)
<1>1. IdleRequest \in RequestRecord
  BY DEF IdleRequest, RequestRecord, Ops, Steps, Codes
<1>2. q \in RequestRecord
  BY <1>1 DEF Answered, RequestRecord, Steps
<1>3. /\ q.step = "answered" /\ q.code = c /\ q.op = o /\ q.sid = w
      /\ q.retired = NoSession /\ ~q.late
  BY DEF Answered, IdleRequest
<1>4. NoSession \notin Sessions
  BY ApiAssumption
<1> HIDE DEF q
<1>5. Good(q, st, lp)
  BY <1>2, <1>3, <1>4 DEF Good, OnOneRow
<1> QED BY <1>5 DEF q

\* A reply is good if what it promises of its row is so.
LEMMA GoodReply ==
    ASSUME NEW op \in Ops, NEW a, NEW s \in Sessions \cup {NoSession},
           NEW st, NEW lp,
           a = "SessionExpired" => s \in lp,
           op = "cancel" /\ a = "ok" => s \in Sessions /\ st[s] \in Terminal
    PROVE  Good(Reply(op, a, s), st, lp)
<1> DEFINE c == Code(op, a)
           d == a \in {"Upstream", "unavailable"}
           o == IF a \in Named THEN op ELSE "get"
           w == IF a \in Named THEN s ELSE NoSession
<1>1. Reply(op, a, s) = Answered(c, d, o, w)
  BY Zenon DEF Reply, Answered
<1>2. /\ c \in Codes
      /\ c = 410 => a = "SessionExpired"
      /\ c = 200 => a = "ok"
  BY CodeOf
<1>3. o \in Ops /\ w \in Sessions \cup {NoSession} /\ d \in BOOLEAN
  BY DEF Ops
<1>4. /\ c = 410 => w \in lp
      /\ o = "cancel" /\ c = 200 => w \in Sessions /\ st[w] \in Terminal
  BY <1>2 DEF Named
<1> HIDE DEF c, d, o, w
<1>5. Good(Answered(c, d, o, w), st, lp)
  BY <1>2, <1>3, <1>4, AnsweredIsGood
<1> QED BY <1>1, <1>5

\* What a request knows outlives every write of the rows.
LEMMA GoodStays ==
    ASSUME NEW q, NEW st, NEW st2, NEW lp, NEW lp2,
           Good(q, st, lp), Moved(st, st2, lp, lp2)
    PROVE  Good(q, st2, lp2)
BY DEF Good, Moved, OnOneRow, RequestRecord

\* One request moves on, the rows move, nobody else does anything.
LEMMA RequestStep ==
    ASSUME IInv, NEW r \in Requests, NEW q,
           req' = [req EXCEPT ![r] = q], fresh' \subseteq Requests,
           RowsOK(status', due', lapsed'),
           Moved(status, status', lapsed, lapsed'),
           Good(q, status', lapsed')
    PROVE  IInv'
<1>1. req' \in [Requests -> RequestRecord]
  BY DEF IInv, Good
<1>2. ASSUME NEW t \in Requests PROVE Good(req'[t], status', lapsed')
  <2>1. CASE t = r
    BY <2>1 DEF IInv
  <2>2. CASE t # r
    <3>1. req'[t] = req[t] /\ Good(req[t], status, lapsed)
      BY <2>2 DEF IInv
    <3> QED BY <3>1, GoodStays
  <2> QED BY <2>1, <2>2
<1> QED BY <1>1, <1>2 DEF IInv

\* The rows stay: the new record only.
LEMMA RowsStay ==
    ASSUME IInv, NEW r \in Requests, NEW q, UNCHANGED rows,
           req' = [req EXCEPT ![r] = q], fresh' \subseteq Requests,
           Good(q, status, lapsed)
    PROVE  IInv'
<1>1. RowsOK(status', due', lapsed') /\ Moved(status, status', lapsed, lapsed')
  BY DEF IInv, RowsOK, Moved, rows
<1> QED BY <1>1, RequestStep DEF rows

\* An answer that leaves the rows alone.
LEMMA AnswerStep ==
    ASSUME IInv, NEW r \in Requests, NEW a, Answer(r, a), UNCHANGED rows,
           fresh' \subseteq Requests,
           a = "SessionExpired" => req[r].sid \in lapsed,
           req[r].op = "cancel" /\ a = "ok" =>
               req[r].sid \in Sessions /\ status[req[r].sid] \in Terminal
    PROVE  IInv'
<1> DEFINE q == Reply(req[r].op, a, req[r].sid)
<1>1. req[r].op \in Ops /\ req[r].sid \in Sessions \cup {NoSession}
  BY DEF IInv, RequestRecord
<1>2. Good(q, status, lapsed)
  BY <1>1, GoodReply
<1>3. req' = [req EXCEPT ![r] = q]
  BY DEF Answer
<1> QED BY <1>2, <1>3, RowsStay

\* A step on that leaves the rows alone.
LEMMA GotoStep ==
    ASSUME IInv, NEW r \in Requests, NEW step, Goto(r, step), UNCHANGED rows,
           fresh' \subseteq Requests,
           Good([req[r] EXCEPT !.step = step], status, lapsed)
    PROVE  IInv'
<1>1. req' = [req EXCEPT ![r] = [req[r] EXCEPT !.step = step]]
  BY DEF Goto
<1> QED BY <1>1, RowsStay
-----------------------------------------------------------------------------
LEMMA InitHolds == Init => IInv
<1> SUFFICES ASSUME Init PROVE IInv
  OBVIOUS
<1>1. IdleRequest \in RequestRecord
  BY DEF IdleRequest, RequestRecord, Ops, Steps, Codes
<1>2. Good(IdleRequest, status, lapsed)
  BY <1>1, ApiAssumption DEF Good, IdleRequest, OnOneRow
<1>3. RowsOK(status, due, lapsed)
  BY DEF Init, RowsOK, Active, Working, Status
<1> QED BY <1>1, <1>2, <1>3 DEF Init, IInv

LEMMA BeginStep == ASSUME IInv, NEW r \in Requests, Begin(r) PROVE IInv'
<1>1. PICK op \in Ops, s \in Sessions \cup {NoSession} :
        /\ (op = "create") = (s = NoSession)
        /\ \/ req' = [req EXCEPT ![r] =
                        [IdleRequest EXCEPT
                            !.op = op, !.sid = s,
                            !.step = IF op = "create" THEN "find" ELSE "read"]]
           \/ op = "payment"
              /\ req' = [req EXCEPT ![r] = Reply(op, "InvalidPaymentToken", s)]
  BY DEF Begin
<1>2. UNCHANGED rows /\ fresh' \subseteq Requests
  BY DEF Begin, IInv
<1>3. CASE op = "payment" /\ req' = [req EXCEPT ![r] = Reply(op, "InvalidPaymentToken", s)]
  <2>1. Good(Reply(op, "InvalidPaymentToken", s), status, lapsed)
    BY <1>3, GoodReply
  <2> QED BY <1>2, <1>3, <2>1, RowsStay
<1>4. CASE req' = [req EXCEPT ![r] =
                        [IdleRequest EXCEPT
                            !.op = op, !.sid = s,
                            !.step = IF op = "create" THEN "find" ELSE "read"]]
  <2> DEFINE st == IF op = "create" THEN "find" ELSE "read"
             q == [IdleRequest EXCEPT !.op = op, !.sid = s, !.step = st]
  <2>1. IdleRequest \in RequestRecord
    BY DEF IdleRequest, RequestRecord, Ops, Steps, Codes
  <2>2. q \in RequestRecord
    BY <2>1 DEF RequestRecord, Steps
  <2>3. /\ q.op = op /\ q.sid = s /\ q.step = st /\ q.code = 0 /\ ~q.late /\ ~q.down
        /\ q.retired = NoSession
    BY DEF IdleRequest
  <2>4. NoSession \notin Sessions
    BY ApiAssumption
  <2>5. Good(q, status, lapsed)
    <3> HIDE DEF q
    <3> QED BY <1>1, <2>2, <2>3, <2>4 DEF Good, OnOneRow
  <2> QED BY <1>2, <1>4, <2>5, RowsStay
<1> QED BY <1>1, <1>3, <1>4

LEMMA ReadFailsStep == ASSUME IInv, NEW r \in Requests, ReadFails(r) PROVE IInv'
<1>1. PICK a \in Failure : Answer(r, a)
  BY DEF ReadFails
<1>2. UNCHANGED rows /\ fresh' \subseteq Requests
  BY DEF ReadFails, Forget, IInv
<1>3. a # "SessionExpired" /\ a # "ok"
  BY DEF Failure
<1> QED BY <1>1, <1>2, <1>3, AnswerStep

LEMMA FindActiveStep == ASSUME IInv, NEW r \in Requests, FindActive(r) PROVE IInv'
<1>1. UNCHANGED rows /\ fresh' \subseteq Requests
  BY DEF FindActive, IInv
<1>2. Good(req[r], status, lapsed) /\ req[r].step = "find" /\ RowsOK(status, due, lapsed)
  BY DEF IInv, FindActive, At
<1>3. CASE Goto(r, "quote")
  <2>1. Good([req[r] EXCEPT !.step = "quote"], status, lapsed)
    BY <1>2 DEF Good, OnOneRow, RequestRecord, Steps
  <2> QED BY <1>1, <1>3, <2>1, GotoStep
<1>4. ASSUME NEW s \in ActiveRows,
             req' = [req EXCEPT ![r].sid = s,
                                ![r].step = IF Elapsed(s) THEN "mark" ELSE "touch"]
      PROVE  IInv'
  <2> DEFINE st == IF Elapsed(s) THEN "mark" ELSE "touch"
             q == [req[r] EXCEPT !.sid = s, !.step = st]
  <2>1. s \in Sessions /\ status[s] # "none" /\ (Elapsed(s) => s \in lapsed)
    BY <1>2 DEF ActiveRows, Active, Working, Elapsed, RowsOK
  <2>2. Good(q, status, lapsed)
    <3>1. /\ q \in RequestRecord /\ q.sid = s /\ q.step = st /\ q.op = "create"
          /\ q.code = 0 /\ ~q.late /\ ~q.down
          /\ q.retired = req[r].retired /\ q.spared = req[r].spared
      BY <1>2, <2>1 DEF Good, RequestRecord, Steps
    <3> HIDE DEF q
    <3> QED BY <1>2, <2>1, <3>1 DEF Good, OnOneRow
  <2>3. req' = [req EXCEPT ![r] = q]
    BY <1>4 DEF IInv
  <2> QED BY <1>1, <2>2, <2>3, RowsStay
<1> QED BY <1>3, <1>4 DEF FindActive

LEMMA QuoteStep == ASSUME IInv, NEW r \in Requests, Quote(r) PROVE IInv'
<1>1. UNCHANGED rows /\ fresh' \subseteq Requests
  BY DEF Quote, IInv
<1>2. Good(req[r], status, lapsed) /\ req[r].step = "quote"
  BY DEF IInv, Quote, At
<1>3. CASE Goto(r, "insert")
  <2>1. Good([req[r] EXCEPT !.step = "insert"], status, lapsed)
    BY <1>2 DEF Good, OnOneRow, RequestRecord, Steps
  <2> QED BY <1>1, <1>3, <2>1, GotoStep
<1>4. CASE \E a \in {"EmptyCart", "Upstream", "AvailabilityUnknown"} : Answer(r, a)
  BY <1>1, <1>4, AnswerStep
<1> QED BY <1>3, <1>4 DEF Quote

\* Lazy expiry is a legal move of a row that elapsed.
LEMMA MarkExpiredMoves ==
    ASSUME IInv, NEW s \in Sessions, s \in lapsed, NEW landed \in BOOLEAN,
           status' = IF landed THEN MarkExpired(s) ELSE status,
           UNCHANGED <<due, lapsed>>
    PROVE  /\ RowsOK(status', due', lapsed') /\ Moved(status, status', lapsed, lapsed')
           /\ landed /\ status[s] \notin {"none", "confirming"} =>
                status'[s] \in Terminal
<1>1. RowsOK(status, due, lapsed)
  BY DEF IInv
<1>2. status' = status \/ ( /\ status[s] \in Working
                           /\ status' = [status EXCEPT ![s] = "expired"])
  BY DEF MarkExpired
<1>3. RowsOK(status', due', lapsed')
  BY <1>1, <1>2 DEF RowsOK, Active, Working, Status, Terminal
<1>4. Moved(status, status', lapsed, lapsed')
  BY <1>1, <1>2 DEF Moved, RowsOK, Working, Terminal
<1>5. landed /\ status[s] \notin {"none", "confirming"} => status'[s] \in Terminal
  BY <1>1 DEF MarkExpired, RowsOK, Status, Active, Working, Terminal
<1> QED BY <1>3, <1>4, <1>5

LEMMA RetireElapsedStep ==
    ASSUME IInv, NEW r \in Requests, RetireElapsed(r) PROVE IInv'
<1> DEFINE s == req[r].sid
<1>1. /\ Good(req[r], status, lapsed) /\ req[r].step = "mark"
      /\ req[r] \in RequestRecord
  BY DEF IInv, RetireElapsed, At
<1>2. s \in Sessions /\ s \in lapsed /\ status[s] # "none"
  BY <1>1 DEF Good, OnOneRow
<1>3. PICK landed \in BOOLEAN :
        /\ status' = IF landed THEN MarkExpired(s) ELSE status
        /\ \/ /\ req[r].op = "create"
              /\ req' = [req EXCEPT
                    ![r].step = "quote", ![r].sid = NoSession,
                    ![r].retired = s,
                    ![r].spared = ~landed \/ status[s] = "confirming"]
           \/ req[r].op # "create" /\ Answer(r, "SessionExpired")
  BY DEF RetireElapsed
<1>4. UNCHANGED <<due, lapsed>> /\ fresh' \subseteq Requests
  BY DEF RetireElapsed, Stamp, IInv
<1>5. /\ RowsOK(status', due', lapsed') /\ Moved(status, status', lapsed, lapsed')
      /\ landed /\ status[s] \notin {"none", "confirming"} => status'[s] \in Terminal
  BY <1>2, <1>3, <1>4, MarkExpiredMoves
<1>6. CASE req[r].op # "create" /\ Answer(r, "SessionExpired")
  <2> DEFINE q == Reply(req[r].op, "SessionExpired", s)
  <2>1. Good(q, status', lapsed')
    BY <1>1, <1>2, <1>4, GoodReply DEF RequestRecord
  <2>2. req' = [req EXCEPT ![r] = q]
    BY <1>6 DEF Answer
  <2> QED BY <1>4, <1>5, <2>1, <2>2, RequestStep
<1>7. CASE /\ req[r].op = "create"
           /\ req' = [req EXCEPT
                 ![r].step = "quote", ![r].sid = NoSession, ![r].retired = s,
                 ![r].spared = ~landed \/ status[s] = "confirming"]
  <2> DEFINE sp == ~landed \/ status[s] = "confirming"
             q == [req[r] EXCEPT !.step = "quote", !.sid = NoSession,
                                 !.retired = s, !.spared = sp]
  <2>1. req' = [req EXCEPT ![r] = q]
    BY <1>7 DEF IInv
  <2>2. sp \in BOOLEAN
    OBVIOUS
  <2>3. ~sp => status'[s] \in Terminal
    BY <1>2, <1>5
  <2>4. q \in RequestRecord
    <3> HIDE DEF sp
    <3> QED BY <1>1, <1>2, <2>2 DEF RequestRecord, Steps
  <2>5. /\ q.step = "quote" /\ q.op = "create" /\ q.sid = NoSession
        /\ q.code = 0 /\ ~q.late /\ ~q.down /\ q.retired = s /\ q.spared = sp
    <3> HIDE DEF sp
    <3> QED BY <1>1, <1>7 DEF Good, RequestRecord
  <2>6. Good(q, status', lapsed')
    <3> HIDE DEF q, sp
    <3> QED BY <2>3, <2>4, <2>5 DEF Good, OnOneRow
  <2> QED BY <1>4, <1>5, <2>1, <2>6, RequestStep
<1> QED BY <1>3, <1>6, <1>7

LEMMA TouchStep == ASSUME IInv, NEW r \in Requests, Touch(r) PROVE IInv'
<1> DEFINE s == req[r].sid
           q == Reply(req[r].op, "ok", s)
<1>1. /\ Good(req[r], status, lapsed) /\ req[r].step = "touch"
      /\ req[r] \in RequestRecord /\ RowsOK(status, due, lapsed)
  BY DEF IInv, Touch, At
<1>2. due' \subseteq due /\ UNCHANGED <<status, lapsed>> /\ fresh' \subseteq Requests
  BY DEF Touch, Stamp, IInv
<1>3. RowsOK(status', due', lapsed') /\ Moved(status, status', lapsed, lapsed')
  BY <1>1, <1>2 DEF RowsOK, Moved
<1>4. req[r].op # "cancel"
  BY <1>1 DEF Good
<1>5. Good(q, status', lapsed')
  BY <1>1, <1>2, <1>4, GoodReply DEF RequestRecord
<1>6. req' = [req EXCEPT ![r] = q]
  BY DEF Touch, Answer
<1> QED BY <1>2, <1>3, <1>5, <1>6, RequestStep

LEMMA InsertStep == ASSUME IInv, NEW r \in Requests, Insert(r) PROVE IInv'
<1>1. /\ Good(req[r], status, lapsed) /\ req[r].step = "insert"
      /\ req[r] \in RequestRecord /\ RowsOK(status, due, lapsed)
  BY DEF IInv, Insert, At
<1>2. fresh' \subseteq Requests
  BY DEF Insert, IInv
<1>3. ASSUME Insertable, NEW s \in Sessions, InsertRow(s),
             NEW a \in {"created"} \cup Failure, NEW op \in Ops,
             op = "create" \/ a \in Failure, NEW w \in Sessions \cup {NoSession},
             req' = [req EXCEPT ![r] = Reply(op, a, w)]
      PROVE  IInv'
  <2>1. /\ status[s] = "none" /\ status' = [status EXCEPT ![s] = "open"]
        /\ UNCHANGED <<due, lapsed>>
    BY <1>3 DEF InsertRow
  <2>2. \A t \in Sessions : status[t] \notin Active
    BY <1>3 DEF Insertable, ActiveRows
  <2>3. RowsOK(status', due', lapsed')
    BY <1>1, <2>1, <2>2 DEF RowsOK, Active, Working, Status
  <2>4. Moved(status, status', lapsed, lapsed')
    BY <1>1, <2>1 DEF RowsOK, Moved, Terminal
  <2>5. a # "SessionExpired" /\ a # "ok"
    BY DEF Failure
  <2>6. Good(Reply(op, a, w), status', lapsed')
    BY <2>5, GoodReply
  <2> QED BY <1>2, <1>3, <2>3, <2>4, <2>6, RequestStep
<1>4. CASE /\ Insertable
           /\ \E s \in Sessions :
                /\ InsertRow(s)
                /\ \/ req' = [req EXCEPT ![r] = Reply("create", "created", s)]
                   \/ \E f \in Failure : Answer(r, f)
  <2>1. PICK s \in Sessions :
            /\ InsertRow(s)
            /\ \/ req' = [req EXCEPT ![r] = Reply("create", "created", s)]
               \/ \E f \in Failure : Answer(r, f)
    BY <1>4
  <2>2. CASE req' = [req EXCEPT ![r] = Reply("create", "created", s)]
    <3>1. "create" \in Ops
      BY DEF Ops
    <3> QED BY <1>3, <1>4, <2>1, <2>2, <3>1
  <2>3. ASSUME NEW f \in Failure, Answer(r, f) PROVE IInv'
    <3>1. /\ req[r].op \in Ops /\ req[r].sid \in Sessions \cup {NoSession}
      BY <1>1 DEF RequestRecord
    <3>2. req' = [req EXCEPT ![r] = Reply(req[r].op, f, req[r].sid)]
      BY <2>3 DEF Answer
    <3> QED BY <1>3, <1>4, <2>1, <2>3, <3>1, <3>2
  <2> QED BY <2>1, <2>2, <2>3
<1>5. CASE UNCHANGED rows /\ Goto(r, "winner")
  <2>1. Good([req[r] EXCEPT !.step = "winner"], status, lapsed)
    BY <1>1 DEF Good, OnOneRow, RequestRecord, Steps
  <2> QED BY <1>2, <1>5, <2>1, GotoStep
<1>6. CASE UNCHANGED rows /\ \E f \in Failure : Answer(r, f)
  <2>1. \A f \in Failure : f # "SessionExpired" /\ f # "ok"
    BY DEF Failure
  <2> QED BY <1>2, <1>6, <2>1, AnswerStep
<1> QED BY <1>4, <1>5, <1>6 DEF Insert

LEMMA FindWinnerStep == ASSUME IInv, NEW r \in Requests, FindWinner(r) PROVE IInv'
<1>1. UNCHANGED rows /\ fresh' \subseteq Requests
  BY DEF FindWinner, IInv
<1>2. /\ Good(req[r], status, lapsed) /\ req[r].step = "winner"
      /\ req[r] \in RequestRecord /\ RowsOK(status, due, lapsed)
  BY DEF IInv, FindWinner, At
<1>3. CASE Answer(r, "ActiveSessionExists")
  BY <1>1, <1>3, AnswerStep
<1>4. ASSUME NEW s \in ActiveRows,
             req' = [req EXCEPT ![r] =
                      [Reply("create", "ok", s) EXCEPT
                          !.retired = req[r].retired, !.spared = req[r].spared,
                          !.late = Elapsed(s)]]
      PROVE  IInv'
  <2> DEFINE p == Reply("create", "ok", s)
             el == Elapsed(s)
             q == [p EXCEPT !.retired = req[r].retired,
                            !.spared = req[r].spared, !.late = el]
  <2>1. s \in Sessions /\ status[s] \notin Terminal
    BY DEF ActiveRows, Active, Working, Terminal
  <2>2. Good(p, status, lapsed)
    BY <2>1, GoodReply DEF Ops
  <2>3. p.op = "create" /\ p.step = "answered" /\ p.sid = s
    BY DEF Reply, IdleRequest, Named
  <2>4. el \in BOOLEAN
    BY DEF Elapsed
  <2>5. /\ q \in RequestRecord /\ q.op = "create" /\ q.step = "answered"
        /\ q.sid = s /\ q.code = p.code
        /\ q.retired = req[r].retired /\ q.spared = req[r].spared
    <3> HIDE DEF p, el
    <3> QED BY <1>2, <2>2, <2>3, <2>4 DEF Good, RequestRecord
  <2>6. Good(q, status, lapsed)
    <3> HIDE DEF p, q, el
    <3> QED BY <1>2, <2>1, <2>2, <2>3, <2>5 DEF Good, OnOneRow
  <2> QED BY <1>1, <1>4, <2>6, RowsStay
<1> QED BY <1>3, <1>4 DEF FindWinner

LEMMA ReadSessionStep ==
    ASSUME IInv, NEW r \in Requests, ReadSession(r) PROVE IInv'
<1> DEFINE s == req[r].sid
           op == req[r].op
<1>1. /\ Good(req[r], status, lapsed) /\ req[r].step = "read"
      /\ req[r] \in RequestRecord /\ RowsOK(status, due, lapsed)
  BY DEF IInv, ReadSession, At
<1>2. UNCHANGED rows /\ fresh' \subseteq Requests
  BY DEF ReadSession, IInv
<1>3. s \in Sessions /\ op \in Ops /\ op # "create"
      /\ status[s] \in Status \cup {"none"}
  BY <1>1 DEF Good, OnOneRow, RequestRecord, RowsOK
<1>4. CASE Refusal(op, s) # "none" /\ Answer(r, Refusal(op, s))
  <2>1. Refusal(op, s) = "SessionExpired" => s \in lapsed
    BY <1>1, <1>3 DEF Refusal, RowsOK
  <2>2. op = "cancel" /\ Refusal(op, s) = "ok" => status[s] \in Terminal
    BY DEF Refusal, Terminal
  <2> QED BY <1>2, <1>3, <1>4, <2>1, <2>2, AnswerStep
<1>5. CASE Refusal(op, s) = "none" /\ Elapsed(s) /\ Goto(r, "mark")
  <2>1. s \in lapsed /\ status[s] # "none"
    BY <1>1, <1>3, <1>5 DEF Elapsed, RowsOK, Working
  <2>2. Good([req[r] EXCEPT !.step = "mark"], status, lapsed)
    BY <1>1, <1>3, <2>1 DEF Good, OnOneRow, RequestRecord, Steps
  <2> QED BY <1>2, <1>5, <2>2, GotoStep
<1>6. CASE /\ Refusal(op, s) = "none" /\ ~Elapsed(s)
           /\ req' = [req EXCEPT
                        ![r].seen = status[s],
                        ![r].step = IF op \in Priced THEN "price" ELSE "write"]
  <2> DEFINE st == IF op \in Priced THEN "price" ELSE "write"
             q == [req[r] EXCEPT !.seen = status[s], !.step = st]
  <2>1. status[s] \in Status /\ op \in Mutations /\ Allowed(op, status[s])
    BY <1>3, <1>6 DEF Refusal, Ops
  <2>2. req' = [req EXCEPT ![r] = q]
    BY <1>6 DEF IInv
  <2>3. /\ q \in RequestRecord /\ q.step = st /\ q.seen = status[s]
        /\ q.op = op /\ q.sid = s /\ q.code = req[r].code /\ q.late = req[r].late
        /\ q.down = req[r].down
        /\ q.retired = req[r].retired /\ q.spared = req[r].spared
    BY <1>1, <2>1 DEF RequestRecord, Steps
  <2>4. Good(q, status, lapsed)
    <3>1. "none" \notin Status
      BY DEF Status, Active, Working, Terminal
    <3> HIDE DEF q
    <3> QED BY <1>1, <1>3, <2>1, <2>3, <3>1 DEF Good, OnOneRow
  <2> QED BY <1>2, <2>2, <2>4, RowsStay
<1> QED BY <1>4, <1>5, <1>6 DEF ReadSession

LEMMA PriceStep == ASSUME IInv, NEW r \in Requests, Price(r) PROVE IInv'
<1>1. UNCHANGED rows /\ fresh' \subseteq Requests
  BY DEF Price, Forget, IInv
<1>2. Good(req[r], status, lapsed) /\ req[r].step = "price"
  BY DEF IInv, Price, At
<1>3. CASE Goto(r, "write")
  <2>1. Good([req[r] EXCEPT !.step = "write"], status, lapsed)
    BY <1>2 DEF Good, OnOneRow, RequestRecord, Steps, Mutations
  <2> QED BY <1>1, <1>3, <2>1, GotoStep
<1>4. CASE \E a \in PriceRefusals[req[r].op] : Answer(r, a)
  <2>1. req[r].op \in Priced
    BY <1>2 DEF Good
  <2>2. PICK a \in PriceRefusals[req[r].op] : Answer(r, a)
    BY <1>4
  <2>3. a # "SessionExpired" /\ a # "ok"
    BY <2>1 DEF Priced, PriceRefusals
  <2> QED BY <1>1, <2>2, <2>3, AnswerStep
<1> QED BY <1>3, <1>4 DEF Price

\* A status an operation may write: never "expired", and from no ended row.
LEMMA AllowedMoves ==
    ASSUME NEW op \in Mutations, NEW seen \in Status, Allowed(op, seen)
    PROVE  /\ seen \in Active
           /\ NewStatus(op, seen) \in Status \ {"expired"}
           /\ op = "cancel" => NewStatus(op, seen) = "cancelled"
           /\ op # "cancel" => NewStatus(op, seen) \in Working
<1>1. CASE op \in PromoOps
  BY <1>1 DEF Allowed, NewStatus, PromoOps, Target, Active, Working, Status
<1>2. CASE op \in DOMAIN Target
  <2> DEFINE to == Target[op]
             can == CanTransition(seen, to)
  <2>0. op \notin PromoOps /\ op # "get"
    BY <1>2 DEF Target, PromoOps
  <2>1. to \in transitions[seen]
    <3>1. can
      BY <1>2, <2>0 DEF Allowed
    <3> QED BY <3>1 DEF CanTransition
  <2>2. seen \in Active
    BY <2>1 DEF transitions, Status, Terminal
  <2>3. /\ op \notin PromoOps
        /\ Target[op] \in {"address_set", "shipping_set", "ready", "cancelled"}
        /\ op = "cancel" => Target[op] = "cancelled"
        /\ op # "cancel" => Target[op] \in Working
    BY <1>2 DEF Target, PromoOps, Working
  <2> QED BY <2>2, <2>3 DEF NewStatus, Status, Active, Working, Terminal
<1> QED BY <1>1, <1>2 DEF Mutations

\* An active row takes another status than "expired": a legal move.
LEMMA ActiveRowMoves ==
    ASSUME IInv, NEW s \in Sessions, status[s] \in Active,
           NEW new \in Status, new = "expired" => s \in lapsed,
           status' = [status EXCEPT ![s] = new], UNCHANGED <<due, lapsed>>
    PROVE  /\ RowsOK(status', due', lapsed') /\ Moved(status, status', lapsed, lapsed')
           /\ status'[s] = new
<1>1. RowsOK(status, due, lapsed)
  BY DEF IInv
<1>2. RowsOK(status', due', lapsed') /\ status'[s] = new
  BY <1>1 DEF RowsOK
<1>3. status[s] \notin Terminal /\ "none" \notin Status
  BY DEF Status, Active, Working, Terminal
<1>4. Moved(status, status', lapsed, lapsed')
  BY <1>1, <1>3 DEF Moved, RowsOK
<1> QED BY <1>2, <1>4

LEMMA WriteStep == ASSUME IInv, NEW r \in Requests, Write(r) PROVE IInv'
<1> DEFINE s == req[r].sid
           op == req[r].op
<1>1. /\ Good(req[r], status, lapsed) /\ req[r].step = "write"
      /\ req[r] \in RequestRecord
  BY DEF IInv, Write, At
<1>2. /\ s \in Sessions /\ op \in Mutations /\ op \in Ops
      /\ req[r].seen \in Status /\ Allowed(op, req[r].seen) /\ status[s] # "none"
  BY <1>1 DEF Good, OnOneRow, Ops
<1>3. fresh' \subseteq Requests /\ UNCHANGED <<due, lapsed>>
  BY DEF Write, Stamp, Forget, IInv
<1>4. \A f \in Failure : f # "SessionExpired" /\ f # "ok"
  BY DEF Failure
<1>5. CASE Matches(r) /\ status' = [status EXCEPT ![s] = NewStatus(op, req[r].seen)]
  <2> DEFINE new == NewStatus(op, req[r].seen)
  <2>1. /\ status[s] \in Active /\ new \in Status \ {"expired"}
        /\ op = "cancel" => new = "cancelled"
    BY <1>2, <1>5, AllowedMoves DEF Matches
  <2>2. /\ RowsOK(status', due', lapsed') /\ Moved(status, status', lapsed, lapsed')
        /\ status'[s] = new
    <3> HIDE DEF new
    <3> QED BY <1>2, <1>3, <1>5, <2>1, ActiveRowMoves DEF new
  <2>3. ASSUME NEW a \in Failure \cup {"ok"}, Answer(r, a), a = "ok" => op = "cancel"
        PROVE  IInv'
    <3> DEFINE q == Reply(op, a, s)
    <3>1. a # "SessionExpired"
      BY DEF Failure
    <3>2. op = "cancel" => status'[s] \in Terminal
      BY <2>1, <2>2 DEF Terminal
    <3>3. Good(q, status', lapsed')
      BY <1>2, <3>1, <3>2, GoodReply
    <3>4. req' = [req EXCEPT ![r] = q]
      BY <2>3 DEF Answer
    <3> QED BY <1>3, <2>2, <3>3, <3>4, RequestStep
  <2>4. CASE op # "cancel" /\ Goto(r, "touch")
    <3> DEFINE q == [req[r] EXCEPT !.step = "touch"]
    <3>1. Good(q, status, lapsed)
      BY <1>1, <2>4 DEF Good, OnOneRow, RequestRecord, Steps
    <3>2. Good(q, status', lapsed')
      <4> HIDE DEF q
      <4> QED BY <2>2, <3>1, GoodStays
    <3>3. req' = [req EXCEPT ![r] = q]
      BY <2>4 DEF Goto
    <3> QED BY <1>3, <2>2, <3>2, <3>3, RequestStep
  <2>5. CASE op = "cancel" /\ Answer(r, "ok")
    BY <2>3, <2>5
  <2>6. CASE \E f \in Failure : Answer(r, f)
    BY <1>4, <2>3, <2>6
  <2>7. CASE op = "cancel" /\ Goto(r, "second_look") /\ UNCHANGED status
    <3>1. Good([req[r] EXCEPT !.step = "second_look"], status, lapsed)
      BY <1>1, <1>2, <2>7 DEF Good, OnOneRow, RequestRecord, Steps
    <3> QED BY <1>3, <2>7, <3>1, GotoStep DEF rows
  <2>8. CASE Answer(r, "StaleTransition") /\ UNCHANGED status
    BY <1>3, <2>8, AnswerStep DEF rows
  <2> QED BY <2>4, <2>5, <2>6, <2>7, <2>8 DEF Write
<1>6. CASE UNCHANGED status
  <2>1. UNCHANGED rows
    BY <1>3, <1>6 DEF rows
  <2>2. CASE op = "cancel" /\ Goto(r, "second_look")
    <3>1. Good([req[r] EXCEPT !.step = "second_look"], status, lapsed)
      BY <1>1, <1>2, <2>2 DEF Good, OnOneRow, RequestRecord, Steps
    <3> QED BY <1>3, <2>1, <2>2, <3>1, GotoStep
  <2>3. CASE Answer(r, "StaleTransition")
    BY <1>3, <2>1, <2>3, AnswerStep
  <2>4. CASE \E f \in Failure : Answer(r, f)
    BY <1>3, <1>4, <2>1, <2>4, AnswerStep
  <2> QED BY <1>5, <2>2, <2>3, <2>4 DEF Write
<1> QED BY <1>5, <1>6 DEF Write

LEMMA SecondLookStep ==
    ASSUME IInv, NEW r \in Requests, SecondLook(r) PROVE IInv'
<1>1. Good(req[r], status, lapsed) /\ req[r].step = "second_look"
  BY DEF IInv, SecondLook, At
<1>2. req[r].sid \in Sessions
  BY <1>1 DEF Good, OnOneRow
<1>3. UNCHANGED rows /\ fresh' \subseteq Requests
  BY DEF SecondLook, IInv
<1>4. CASE Settled(req[r].sid) /\ Answer(r, "ok")
  BY <1>2, <1>3, <1>4, AnswerStep DEF Settled
<1>5. CASE Answer(r, "StaleTransition")
  BY <1>3, <1>5, AnswerStep
<1> QED BY <1>4, <1>5 DEF SecondLook

\* Everybody else only moves the rows.
LEMMA RowsMove ==
    ASSUME IInv, UNCHANGED req, fresh' \subseteq Requests,
           RowsOK(status', due', lapsed'),
           Moved(status, status', lapsed, lapsed')
    PROVE  IInv'
BY GoodStays DEF IInv

LEMMA OthersStep == ASSUME IInv, Others PROVE IInv'
<1>1. RowsOK(status, due, lapsed) /\ fresh \subseteq Requests
  BY DEF IInv
<1>2. CASE Elapse
  <2>1. /\ RowsOK(status', due', lapsed')
        /\ Moved(status, status', lapsed, lapsed')
        /\ UNCHANGED req /\ fresh' \subseteq Requests
    BY <1>1, <1>2 DEF Elapse, RowsOK, Moved
  <2> QED BY <2>1, RowsMove
<1>3. ASSUME NEW s \in Sessions, status[s] \in Active, NEW new \in Status,
             new = "expired" => s \in lapsed, MoveRow(s, new)
      PROVE  IInv'
  <2>1. UNCHANGED req /\ fresh' \subseteq Requests
    BY <1>1, <1>3 DEF MoveRow, Stamp
  <2>2. /\ RowsOK(status', due', lapsed')
        /\ Moved(status, status', lapsed, lapsed')
    BY <1>3, ActiveRowMoves DEF MoveRow
  <2> QED BY <2>1, <2>2, RowsMove
<1>4. CASE TimerExpires
  BY <1>1, <1>3, <1>4 DEF TimerExpires, RowsOK, Status, Terminal
<1>5. CASE BeginConfirm
  BY <1>3, <1>5 DEF BeginConfirm, Status, Active, Working
<1>6. CASE EndConfirm
  BY <1>3, <1>6 DEF EndConfirm, Status, Active, Working, Terminal
<1> QED BY <1>2, <1>4, <1>5, <1>6 DEF Others

LEMMA ServeStep == ASSUME IInv, NEW r \in Requests, Serve(r) PROVE IInv'
BY ReadFailsStep, RetireElapsedStep, TouchStep, FindActiveStep, QuoteStep,
   InsertStep, FindWinnerStep, ReadSessionStep, PriceStep, WriteStep,
   SecondLookStep DEF Serve

LEMMA StutterStep == ASSUME IInv, UNCHANGED vars PROVE IInv'
BY DEF IInv, vars, Good, RowsOK
-----------------------------------------------------------------------------
\* The inductive invariant holds for any number of requests and of rows.
THEOREM Invariance == Spec => []IInv
<1>1. Init => IInv
  BY InitHolds
<1>2. IInv /\ [Next]_vars => IInv'
  BY BeginStep, ServeStep, OthersStep, StutterStep DEF Next
<1> QED BY <1>1, <1>2, PTL DEF Spec

\* Every variable keeps its type and every answer is one of the API's codes.
THEOREM TypeCorrect == Spec => []TypeOK
<1>1. IInv => TypeOK
  BY DEF IInv, RowsOK, TypeOK
<1> QED BY <1>1, Invariance, PTL

\* However many creates race each other, the lazy expiry, the timer and the
\* confirms, the user has at most one active session.
THEOREM OneActiveSession == Spec => []OnePerUser
<1>1. IInv => OnePerUser
  BY DEF IInv, RowsOK, OnePerUser, ActiveRows
<1> QED BY <1>1, Invariance, PTL

\* No row is expired, and nobody told 410, before the row's deadline passed.
THEOREM NobodyIsExpiredEarly == Spec => []NoEarlyExpiry
<1>1. IInv => NoEarlyExpiry
  BY DEF IInv, RowsOK, Good, NoEarlyExpiry
<1> QED BY <1>1, Invariance, PTL

\* A cancel that was answered 200 stays true: the row has ended for good.
THEOREM CancelledForGood == Spec => []CancelIsFinal
<1>1. IInv => CancelIsFinal
  BY DEF IInv, Good, CancelIsFinal
<1> QED BY <1>1, Invariance, PTL

\* A create never hands out the session it retired itself, unless the
\* retirement did not take.
THEOREM RetiredIsNotHandedOut == Spec => []ExpiredIsNotHandedOut
<1>1. IInv => ExpiredIsNotHandedOut
  BY DEF IInv, Good, ExpiredIsNotHandedOut
<1> QED BY <1>1, Invariance, PTL
-----------------------------------------------------------------------------
(* The API implements OneSession.  A step changes what is told to one      *)
(* request at most, and the fate of one session at most.                   *)

\* What a request that was not answered yet, or with which code, was told.
LEMMA SaidByCode ==
    ASSUME NEW q
    PROVE  /\ q.code = 0 => Said(q) = Session!Nothing
           /\ q.code = 200 => Said(q) =
                <<IF q.op = "cancel" THEN "cancelled" ELSE "served", q.sid>>
           /\ q.code = 201 => Said(q) = <<"opened", q.sid>>
           /\ q.code = 410 => Said(q) = <<"expired", q.sid>>
           /\ q.code \notin {0, 200, 201, 410} => Said(q) = Session!Refused
BY DEF Said, Meaning, Session!Nothing, Session!Refused

LEMMA CodeIsDefinite ==
    ASSUME NEW op, NEW a
    PROVE  /\ a = "ok" => Code(op, a) = 200
           /\ a = "created" /\ op = "create" => Code(op, a) = 201
           /\ a = "SessionExpired" /\ op # "create" => Code(op, a) = 410
           /\ a \notin {"ok", "created", "SessionExpired"} =>
                Code(op, a) \notin {0, 200, 201, 410}
<1>1. CASE op = "create"
  BY <1>1 DEF Code, CreateCode
<1>2. CASE op # "create"
  BY <1>2 DEF Code, respondSessionError
<1> QED BY <1>1, <1>2

\* What a reply tells.
LEMMA SaidByReply ==
    ASSUME NEW op, NEW a, NEW s
    PROVE  /\ a = "ok" => Said(Reply(op, a, s)) =
                <<IF op = "cancel" THEN "cancelled" ELSE "served", s>>
           /\ a = "created" /\ op = "create" =>
                Said(Reply(op, a, s)) = <<"opened", s>>
           /\ a = "SessionExpired" /\ op # "create" =>
                Said(Reply(op, a, s)) = <<"expired", s>>
           /\ a \notin Named => Said(Reply(op, a, s)) = Session!Refused
<1> DEFINE q == Reply(op, a, s)
<1>1. /\ q.code = Code(op, a)
      /\ a \in Named => q.op = op /\ q.sid = s
  BY DEF Reply, IdleRequest
<1> HIDE DEF q
<1>2. /\ a = "ok" => Said(q) = <<IF op = "cancel" THEN "cancelled" ELSE "served", s>>
      /\ a = "created" /\ op = "create" => Said(q) = <<"opened", s>>
      /\ a = "SessionExpired" /\ op # "create" => Said(q) = <<"expired", s>>
      /\ a \notin Named => Said(q) = Session!Refused
  BY <1>1, SaidByCode, CodeIsDefinite DEF Named
<1> QED BY <1>2 DEF q

LEMMA ToldMoves ==
    ASSUME IInv, NEW r \in Requests, NEW q, req' = [req EXCEPT ![r] = q]
    PROVE  /\ toldOf' = [toldOf EXCEPT ![r] = Said(q)]
           /\ req[r].code = 0 => toldOf[r] = Session!Nothing
           /\ toldOf'[r] = Said(q)
           /\ toldOf[r] = Said(q) => toldOf' = toldOf
<1>1. req \in [Requests -> RequestRecord]
  BY DEF IInv
<1>2. toldOf = [t \in Requests |-> Said(req[t])]
  BY DEF toldOf
<1>3. toldOf' = [t \in Requests |-> Said(req'[t])]
  BY DEF toldOf
<1>4. req[r].code = 0 => toldOf[r] = Session!Nothing
  BY <1>2, SaidByCode
<1> QED BY <1>1, <1>2, <1>3, <1>4

PhaseIn(st) == IF st \in Active THEN "live" ELSE st

LEMMA PhaseMoves ==
    ASSUME IInv, NEW s \in Sessions, NEW new, status' = [status EXCEPT ![s] = new]
    PROVE  /\ phaseOf' = [phaseOf EXCEPT ![s] = PhaseIn(new)]
           /\ phaseOf[s] = PhaseIn(new) => UNCHANGED phaseOf
<1>1. status \in [Sessions -> Status \cup {"none"}]
  BY DEF IInv, RowsOK
<1>2. phaseOf = [t \in Sessions |-> PhaseIn(status[t])]
  BY DEF phaseOf, PhaseIn
<1>3. phaseOf' = [t \in Sessions |-> PhaseIn(status'[t])]
  BY DEF phaseOf, PhaseIn
<1> QED BY <1>1, <1>2, <1>3

LEMMA PhaseOfRow ==
    ASSUME IInv, NEW s \in Sessions
    PROVE  /\ phaseOf[s] = "live" <=> status[s] \in Active
           /\ phaseOf[s] = "none" <=> status[s] = "none"
           /\ status[s] \in Terminal => phaseOf[s] = status[s]
BY DEF phaseOf, IInv, RowsOK, Status, Active, Working, Terminal

LEMMA RowsQuiet == UNCHANGED status => UNCHANGED phaseOf
BY DEF phaseOf

SessionStep == Session!Next \/ UNCHANGED Session!vars

\* A request is not answered by this step, and no session's fate changes.
LEMMA QuietStep ==
    ASSUME IInv, NEW r \in Requests, NEW q, req' = [req EXCEPT ![r] = q],
           req[r].code = 0, q.code = 0, UNCHANGED <<phaseOf, lapsed>>
    PROVE  SessionStep
<1>1. Said(q) = Session!Nothing
  BY SaidByCode
<1>2. toldOf' = toldOf
  BY <1>1, ToldMoves
<1> QED BY <1>2 DEF SessionStep, Session!vars

\* A request is told something of a session it was to be told about.
LEMMA TellStep ==
    ASSUME IInv, NEW r \in Requests, NEW q, NEW what, NEW s,
           req' = [req EXCEPT ![r] = q], req[r].code = 0,
           Said(q) = <<what, s>>, what # "nothing"
    PROVE  Session!Tell(r, what, s) /\ toldOf'[r] # Session!Nothing
<1>1. /\ toldOf' = [toldOf EXCEPT ![r] = <<what, s>>]
      /\ toldOf'[r] = <<what, s>> /\ toldOf[r] = Session!Nothing
  BY ToldMoves
<1> QED BY <1>1 DEF Session!Tell, Session!Nothing

\* A request is refused.
LEMMA RefuseStep ==
    ASSUME IInv, NEW r \in Requests, NEW q, req' = [req EXCEPT ![r] = q],
           Said(q) = Session!Refused
    PROVE  Session!Refuse(r) /\ toldOf'[r] # Session!Nothing
<1>1. toldOf' = [toldOf EXCEPT ![r] = Session!Refused] /\ toldOf'[r] = Session!Refused
  BY ToldMoves
<1> QED BY <1>1 DEF Session!Refuse, Session!Nothing, Session!Refused

LEMMA TurnAwayStep ==
    ASSUME IInv, NEW r \in Requests, NEW a, Answer(r, a), a \notin Named,
           UNCHANGED <<phaseOf, lapsed>>
    PROVE  SessionStep
<1>1. Said(Reply(req[r].op, a, req[r].sid)) = Session!Refused
  BY SaidByReply
<1>2. Session!Refuse(r) /\ toldOf'[r] # Session!Nothing
  BY <1>1, RefuseStep DEF Answer
<1> QED BY <1>2 DEF SessionStep, Session!Next, Session!Answer, Session!TurnAway

\* A session that exists is served.
LEMMA ServedStep ==
    ASSUME IInv, NEW r \in Requests, NEW q, NEW s \in Sessions,
           req' = [req EXCEPT ![r] = q], req[r].code = 0,
           Said(q) = <<"served", s>>, status[s] # "none",
           UNCHANGED <<phaseOf, lapsed>>
    PROVE  SessionStep
<1>1. Session!Tell(r, "served", s) /\ toldOf'[r] # Session!Nothing
  BY TellStep
<1>2. phaseOf[s] # "none"
  BY PhaseOfRow
<1> QED BY <1>1, <1>2 DEF SessionStep, Session!Next, Session!Answer, Session!Serve

\* A session is expired, or found expired, and the request told so.
LEMMA FindExpiredStep ==
    ASSUME IInv, NEW r \in Requests, NEW s \in Sessions, s \in lapsed,
           req[r].op # "create", req[r].sid = s, req[r].code = 0,
           Answer(r, "SessionExpired"), UNCHANGED lapsed,
           Session!Ends(s, "expired") \/ UNCHANGED phaseOf
    PROVE  SessionStep
<1>1. Said(Reply(req[r].op, "SessionExpired", s)) = <<"expired", s>>
  BY SaidByReply
<1>2. Session!Tell(r, "expired", s) /\ toldOf'[r] # Session!Nothing
  BY <1>1, TellStep DEF Answer
<1> QED BY <1>2 DEF SessionStep, Session!Next, Session!Answer, Session!FindExpired

\* A request is told that a session which has ended is cancelled.
LEMMA CancelledStep ==
    ASSUME IInv, NEW r \in Requests, NEW s \in Sessions, status[s] \in Terminal,
           req[r].op = "cancel", req[r].sid = s, req[r].code = 0,
           Answer(r, "ok"), UNCHANGED <<phaseOf, lapsed>>
    PROVE  SessionStep
<1>1. Said(Reply("cancel", "ok", s)) = <<"cancelled", s>>
  BY SaidByReply
<1>2. Session!Tell(r, "cancelled", s) /\ toldOf'[r] # Session!Nothing
  BY <1>1, TellStep DEF Answer
<1>3. phaseOf[s] \in {"completed", "cancelled", "expired"}
  BY PhaseOfRow DEF Terminal
<1> QED BY <1>2, <1>3 DEF SessionStep, Session!Next, Session!Answer, Session!Cancel

\* An active session ends.
LEMMA EndsStep ==
    ASSUME IInv, NEW s \in Sessions, status[s] \in Active, NEW how \in Terminal,
           how = "expired" => s \in lapsed, status' = [status EXCEPT ![s] = how]
    PROVE  Session!Ends(s, how)
<1>1. phaseOf' = [phaseOf EXCEPT ![s] = how]
  BY PhaseMoves DEF PhaseIn, Terminal, Active, Working
<1>2. phaseOf[s] = "live"
  BY PhaseOfRow
<1> QED BY <1>1, <1>2 DEF Session!Ends

\* An active session stays one.
LEMMA StaysLive ==
    ASSUME IInv, NEW s \in Sessions, status[s] \in Active, NEW new \in Active,
           status' = [status EXCEPT ![s] = new]
    PROVE  UNCHANGED phaseOf
BY PhaseMoves, PhaseOfRow DEF PhaseIn

\* What an unanswered request knows.
LEMMA Unanswered ==
    ASSUME IInv, NEW r \in Requests, req[r].step \notin {"answered"}
    PROVE  /\ Good(req[r], status, lapsed) /\ req[r] \in RequestRecord
           /\ req[r].code = 0 /\ RowsOK(status, due, lapsed)
           /\ req[r].step \in OnOneRow => req[r].sid \in Sessions
BY DEF IInv, Good
-----------------------------------------------------------------------------
LEMMA BeginTells == ASSUME IInv, NEW r \in Requests, Begin(r) PROVE SessionStep
<1>1. PICK op \in Ops, s \in Sessions \cup {NoSession} :
        /\ (op = "create") = (s = NoSession)
        /\ \/ req' = [req EXCEPT ![r] =
                        [IdleRequest EXCEPT
                            !.op = op, !.sid = s,
                            !.step = IF op = "create" THEN "find" ELSE "read"]]
           \/ op = "payment"
              /\ req' = [req EXCEPT ![r] = Reply(op, "InvalidPaymentToken", s)]
  BY DEF Begin
<1>2. UNCHANGED <<phaseOf, lapsed>>
  BY RowsQuiet DEF Begin, rows
<1>3. CASE req' = [req EXCEPT ![r] = Reply(op, "InvalidPaymentToken", s)]
  <2>1. Said(Reply(op, "InvalidPaymentToken", s)) = Session!Refused
    BY SaidByReply DEF Named
  <2>2. Session!Refuse(r) /\ toldOf'[r] # Session!Nothing
    BY <1>3, <2>1, RefuseStep
  <2> QED BY <1>2, <2>2 DEF SessionStep, Session!Next, Session!Answer, Session!TurnAway
<1>4. CASE req' = [req EXCEPT ![r] =
                     [IdleRequest EXCEPT
                         !.op = op, !.sid = s,
                         !.step = IF op = "create" THEN "find" ELSE "read"]]
  <2> DEFINE q == [IdleRequest EXCEPT
                     !.op = op, !.sid = s,
                     !.step = IF op = "create" THEN "find" ELSE "read"]
  <2>1. q.code = 0
    BY DEF IdleRequest
  <2> HIDE DEF q
  <2>2. Said(q) = Session!Nothing
    BY <2>1, SaidByCode
  <2>3. req' = [req EXCEPT ![r] = q]
    BY <1>4 DEF q
  <2>4. /\ toldOf' = [toldOf EXCEPT ![r] = Session!Nothing]
        /\ toldOf[r] = Session!Nothing => toldOf' = toldOf
    BY <2>2, <2>3, ToldMoves
  <2>5. CASE toldOf[r] = Session!Nothing
    BY <1>2, <2>4, <2>5 DEF SessionStep, Session!vars
  <2>6. CASE toldOf[r] # Session!Nothing
    BY <1>2, <2>4, <2>6 DEF SessionStep, Session!Next, Session!Ask
  <2> QED BY <2>5, <2>6
<1> QED BY <1>1, <1>3, <1>4

LEMMA ReadFailsTells ==
    ASSUME IInv, NEW r \in Requests, ReadFails(r) PROVE SessionStep
<1>1. PICK f \in Failure : Answer(r, f)
  BY DEF ReadFails
<1>2. UNCHANGED <<phaseOf, lapsed>>
  BY RowsQuiet DEF ReadFails, rows
<1> QED BY <1>1, <1>2, TurnAwayStep DEF Failure, Named

LEMMA GotoTells ==
    ASSUME IInv, NEW r \in Requests, NEW step, Goto(r, step), req[r].code = 0,
           UNCHANGED <<phaseOf, lapsed>>
    PROVE  SessionStep
<1> DEFINE q == [req[r] EXCEPT !.step = step]
<1>1. q.code = 0
  BY DEF IInv, RequestRecord
<1>2. req' = [req EXCEPT ![r] = q]
  BY DEF Goto
<1> HIDE DEF q
<1> QED BY <1>1, <1>2, QuietStep

LEMMA FindActiveTells ==
    ASSUME IInv, NEW r \in Requests, FindActive(r) PROVE SessionStep
<1>1. req[r].code = 0 /\ req[r] \in RequestRecord
  BY Unanswered DEF FindActive, At
<1>2. UNCHANGED <<phaseOf, lapsed>>
  BY RowsQuiet DEF FindActive, rows
<1>3. CASE Goto(r, "quote")
  BY <1>1, <1>2, <1>3, GotoTells
<1>4. ASSUME NEW s \in ActiveRows,
             req' = [req EXCEPT ![r].sid = s,
                                ![r].step = IF Elapsed(s) THEN "mark" ELSE "touch"]
      PROVE  SessionStep
  <2> DEFINE q == [req[r] EXCEPT !.sid = s,
                                 !.step = IF Elapsed(s) THEN "mark" ELSE "touch"]
  <2>1. q.code = 0
    BY <1>1 DEF RequestRecord
  <2>2. req' = [req EXCEPT ![r] = q]
    BY <1>4 DEF IInv
  <2> HIDE DEF q
  <2> QED BY <1>1, <1>2, <2>1, <2>2, QuietStep
<1> QED BY <1>3, <1>4 DEF FindActive

LEMMA QuoteTells == ASSUME IInv, NEW r \in Requests, Quote(r) PROVE SessionStep
<1>1. req[r].code = 0
  BY Unanswered DEF Quote, At
<1>2. UNCHANGED <<phaseOf, lapsed>>
  BY RowsQuiet DEF Quote, rows
<1>3. CASE Goto(r, "insert")
  BY <1>1, <1>2, <1>3, GotoTells
<1>4. CASE \E a \in {"EmptyCart", "Upstream", "AvailabilityUnknown"} : Answer(r, a)
  BY <1>2, <1>4, TurnAwayStep DEF Named
<1> QED BY <1>3, <1>4 DEF Quote

LEMMA RetireElapsedTells ==
    ASSUME IInv, NEW r \in Requests, RetireElapsed(r) PROVE SessionStep
<1> DEFINE s == req[r].sid
<1>1. /\ req[r].code = 0 /\ req[r] \in RequestRecord /\ s \in Sessions
      /\ s \in lapsed
  BY Unanswered DEF RetireElapsed, At, OnOneRow, Good
<1>2. PICK landed \in BOOLEAN :
        /\ status' = IF landed THEN MarkExpired(s) ELSE status
        /\ \/ /\ req[r].op = "create"
              /\ req' = [req EXCEPT
                    ![r].step = "quote", ![r].sid = NoSession,
                    ![r].retired = s,
                    ![r].spared = ~landed \/ status[s] = "confirming"]
           \/ req[r].op # "create" /\ Answer(r, "SessionExpired")
  BY DEF RetireElapsed
<1>3. UNCHANGED lapsed
  BY DEF RetireElapsed
<1>4. Session!Ends(s, "expired") \/ UNCHANGED phaseOf
  <2>1. CASE status[s] \in Working /\ status' = [status EXCEPT ![s] = "expired"]
    BY <1>1, <2>1, EndsStep DEF Active, Terminal
  <2>2. CASE UNCHANGED status
    BY <2>2, RowsQuiet
  <2> QED BY <1>2, <2>1, <2>2 DEF MarkExpired
<1>5. CASE req[r].op # "create" /\ Answer(r, "SessionExpired")
  BY <1>1, <1>3, <1>4, <1>5, FindExpiredStep
<1>6. CASE /\ req[r].op = "create"
           /\ req' = [req EXCEPT
                 ![r].step = "quote", ![r].sid = NoSession, ![r].retired = s,
                 ![r].spared = ~landed \/ status[s] = "confirming"]
  <2> DEFINE sp == ~landed \/ status[s] = "confirming"
             q == [req[r] EXCEPT !.step = "quote", !.sid = NoSession,
                                 !.retired = s, !.spared = sp]
  <2>1. req' = [req EXCEPT ![r] = q]
    BY <1>6 DEF IInv
  <2>2. q.code = 0
    <3> HIDE DEF sp
    <3> QED BY <1>1 DEF RequestRecord
  <2> HIDE DEF q
  <2>3. toldOf' = toldOf
    <3>1. Said(q) = Session!Nothing
      BY <2>2, SaidByCode
    <3> QED BY <1>1, <2>1, <3>1, ToldMoves
  <2>4. CASE UNCHANGED phaseOf
    BY <1>3, <2>3, <2>4 DEF SessionStep, Session!vars
  <2>5. CASE Session!Ends(s, "expired")
    BY <1>1, <1>3, <2>3, <2>5 DEF SessionStep, Session!Next, Session!Leave
  <2> QED BY <1>4, <2>4, <2>5
<1> QED BY <1>2, <1>5, <1>6

LEMMA TouchTells == ASSUME IInv, NEW r \in Requests, Touch(r) PROVE SessionStep
<1>1. /\ req[r].code = 0 /\ req[r].sid \in Sessions
      /\ status[req[r].sid] # "none" /\ req[r].op # "cancel"
  BY Unanswered DEF Touch, At, OnOneRow, Good
<1>2. UNCHANGED <<phaseOf, lapsed>> /\ Answer(r, "ok")
  BY RowsQuiet DEF Touch
<1>3. Said(Reply(req[r].op, "ok", req[r].sid)) = <<"served", req[r].sid>>
  BY <1>1, SaidByReply
<1> QED BY <1>1, <1>2, <1>3, ServedStep DEF Answer

LEMMA InsertTells == ASSUME IInv, NEW r \in Requests, Insert(r) PROVE SessionStep
<1>1. req[r].code = 0 /\ UNCHANGED lapsed
  BY Unanswered DEF Insert, At, InsertRow, rows
<1>2. CASE UNCHANGED rows /\ Goto(r, "winner")
  BY <1>1, <1>2, RowsQuiet, GotoTells DEF rows
<1>3. CASE UNCHANGED rows /\ \E f \in Failure : Answer(r, f)
  BY <1>3, RowsQuiet, TurnAwayStep DEF rows, Failure, Named
<1>4. CASE /\ Insertable
           /\ \E s \in Sessions :
                /\ InsertRow(s)
                /\ \/ req' = [req EXCEPT ![r] = Reply("create", "created", s)]
                   \/ \E f \in Failure : Answer(r, f)
  <2>1. PICK s \in Sessions :
            /\ InsertRow(s)
            /\ \/ req' = [req EXCEPT ![r] = Reply("create", "created", s)]
               \/ \E f \in Failure : Answer(r, f)
    BY <1>4
  <2>2. Session!Begins(s)
    <3>1. \A t \in Sessions : phaseOf[t] # "live"
      BY <1>4, PhaseOfRow DEF Insertable, ActiveRows
    <3>2. phaseOf[s] = "none"
      BY <2>1, PhaseOfRow DEF InsertRow
    <3>3. phaseOf' = [phaseOf EXCEPT ![s] = "live"]
      BY <2>1, PhaseMoves DEF InsertRow, PhaseIn, Active, Working
    <3> QED BY <3>1, <3>2, <3>3 DEF Session!Begins
  <2>3. CASE req' = [req EXCEPT ![r] = Reply("create", "created", s)]
    <3>1. Said(Reply("create", "created", s)) = <<"opened", s>>
      BY SaidByReply
    <3>2. Session!Tell(r, "opened", s) /\ toldOf'[r] # Session!Nothing
      BY <1>1, <2>3, <3>1, TellStep
    <3> QED BY <1>1, <2>2, <3>2
            DEF SessionStep, Session!Next, Session!Answer, Session!Open
  <2>4. ASSUME NEW f \in Failure, Answer(r, f) PROVE SessionStep
    <3>1. Said(Reply(req[r].op, f, req[r].sid)) = Session!Refused
      BY SaidByReply DEF Failure, Named
    <3>2. Session!Refuse(r) /\ toldOf'[r] # Session!Nothing
      BY <2>4, <3>1, RefuseStep DEF Answer
    <3> QED BY <1>1, <2>2, <3>2
            DEF SessionStep, Session!Next, Session!Answer, Session!Open
  <2> QED BY <2>1, <2>3, <2>4
<1> QED BY <1>2, <1>3, <1>4 DEF Insert

LEMMA FindWinnerTells ==
    ASSUME IInv, NEW r \in Requests, FindWinner(r) PROVE SessionStep
<1>1. req[r].code = 0 /\ req[r] \in RequestRecord
  BY Unanswered DEF FindWinner, At
<1>2. UNCHANGED <<phaseOf, lapsed>>
  BY RowsQuiet DEF FindWinner, rows
<1>3. CASE Answer(r, "ActiveSessionExists")
  BY <1>2, <1>3, TurnAwayStep DEF Named
<1>4. ASSUME NEW s \in ActiveRows,
             req' = [req EXCEPT ![r] =
                      [Reply("create", "ok", s) EXCEPT
                          !.retired = req[r].retired, !.spared = req[r].spared,
                          !.late = Elapsed(s)]]
      PROVE  SessionStep
  <2> DEFINE p == Reply("create", "ok", s)
             el == Elapsed(s)
             q == [p EXCEPT !.retired = req[r].retired,
                            !.spared = req[r].spared, !.late = el]
  <2>1. s \in Sessions /\ status[s] # "none"
    BY DEF ActiveRows, Active, Working
  <2>2. p.op = "create" /\ p.sid = s /\ p.code = 200
    BY CodeIsDefinite DEF Reply, IdleRequest, Named
  <2>3. DOMAIN p = DOMAIN IdleRequest
    BY DEF Reply, IdleRequest
  <2>4. q.op = "create" /\ q.sid = s /\ q.code = 200
    <3> HIDE DEF p, el
    <3> QED BY <2>2, <2>3 DEF IdleRequest
  <2>5. req' = [req EXCEPT ![r] = q]
    BY <1>4
  <2> HIDE DEF q
  <2>6. Said(q) = <<"served", s>>
    BY <2>4, SaidByCode
  <2> QED BY <1>1, <1>2, <2>1, <2>5, <2>6, ServedStep
<1> QED BY <1>3, <1>4 DEF FindWinner

LEMMA ReadSessionTells ==
    ASSUME IInv, NEW r \in Requests, ReadSession(r) PROVE SessionStep
<1> DEFINE s == req[r].sid
           op == req[r].op
<1>1. /\ req[r].code = 0 /\ req[r] \in RequestRecord /\ s \in Sessions
      /\ op # "create" /\ RowsOK(status, due, lapsed)
  BY Unanswered DEF ReadSession, At, OnOneRow, Good
<1>2. UNCHANGED <<phaseOf, lapsed>>
  BY RowsQuiet DEF ReadSession, rows
<1>3. CASE Refusal(op, s) # "none" /\ Answer(r, Refusal(op, s))
  <2>1. CASE Refusal(op, s) = "SessionExpired"
    <3>1. s \in lapsed
      BY <1>1, <2>1 DEF Refusal, RowsOK
    <3> QED BY <1>1, <1>2, <1>3, <2>1, <3>1, FindExpiredStep
  <2>2. CASE Refusal(op, s) = "ok" /\ op = "cancel"
    <3>1. status[s] \in Terminal
      BY <2>2 DEF Refusal, Terminal
    <3> QED BY <1>1, <1>2, <1>3, <2>2, <3>1, CancelledStep
  <2>3. CASE Refusal(op, s) = "ok" /\ op # "cancel"
    <3>1. status[s] # "none"
      BY <2>3 DEF Refusal
    <3>2. Said(Reply(op, "ok", s)) = <<"served", s>>
      BY <2>3, SaidByReply
    <3> QED BY <1>1, <1>2, <1>3, <2>3, <3>1, <3>2, ServedStep DEF Answer
  <2>4. CASE Refusal(op, s) \notin {"SessionExpired", "ok"}
    <3>1. Refusal(op, s) \notin Named
      BY <2>4 DEF Refusal, Named
    <3> QED BY <1>2, <1>3, <3>1, TurnAwayStep
  <2> QED BY <2>1, <2>2, <2>3, <2>4
<1>4. CASE Goto(r, "mark")
  BY <1>1, <1>2, <1>4, GotoTells
<1>5. CASE req' = [req EXCEPT
                    ![r].seen = status[s],
                    ![r].step = IF op \in Priced THEN "price" ELSE "write"]
  <2> DEFINE q == [req[r] EXCEPT
                     !.seen = status[s],
                     !.step = IF op \in Priced THEN "price" ELSE "write"]
  <2>1. q.code = 0
    BY <1>1 DEF RequestRecord
  <2>2. req' = [req EXCEPT ![r] = q]
    BY <1>5 DEF IInv
  <2> HIDE DEF q
  <2> QED BY <1>1, <1>2, <2>1, <2>2, QuietStep
<1> QED BY <1>3, <1>4, <1>5 DEF ReadSession

LEMMA PriceTells == ASSUME IInv, NEW r \in Requests, Price(r) PROVE SessionStep
<1>1. Good(req[r], status, lapsed) /\ req[r].step = "price" /\ req[r].code = 0
  BY Unanswered DEF Price, At
<1>2. UNCHANGED <<phaseOf, lapsed>>
  BY RowsQuiet DEF Price, rows
<1>3. CASE Goto(r, "write")
  BY <1>1, <1>2, <1>3, GotoTells
<1>4. CASE \E a \in PriceRefusals[req[r].op] : Answer(r, a)
  <2>1. req[r].op \in Priced
    BY <1>1 DEF Good
  <2>2. PICK a \in PriceRefusals[req[r].op] : Answer(r, a)
    BY <1>4
  <2>3. a \notin Named
    BY <2>1, <2>2 DEF Priced, PriceRefusals, Named
  <2> QED BY <1>2, <2>2, <2>3, TurnAwayStep
<1> QED BY <1>3, <1>4 DEF Price

LEMMA WriteTells == ASSUME IInv, NEW r \in Requests, Write(r) PROVE SessionStep
<1> DEFINE s == req[r].sid
           op == req[r].op
           new == NewStatus(op, req[r].seen)
<1>1. /\ req[r].code = 0 /\ s \in Sessions /\ op \in Mutations
      /\ req[r].seen \in Status /\ Allowed(op, req[r].seen)
  BY Unanswered DEF Write, At, OnOneRow, Good
<1>2. UNCHANGED lapsed
  BY DEF Write
<1>3. \A f \in Failure : f \notin Named
  BY DEF Failure, Named
<1>4. CASE Matches(r) /\ status' = [status EXCEPT ![s] = new]
  <2>1. /\ status[s] \in Active
        /\ op = "cancel" => new = "cancelled"
        /\ op # "cancel" => new \in Working
    BY <1>1, <1>4, AllowedMoves DEF Matches
  <2>2. CASE op # "cancel"
    <3>1. UNCHANGED phaseOf
      <4> HIDE DEF new
      <4> QED BY <1>1, <1>4, <2>1, <2>2, StaysLive DEF Active
    <3>2. CASE Goto(r, "touch")
      BY <1>1, <1>2, <3>1, <3>2, GotoTells
    <3>3. CASE \E f \in Failure : Answer(r, f)
      BY <1>2, <1>3, <3>1, <3>3, TurnAwayStep
    <3>4. CASE Answer(r, "StaleTransition")
      BY <1>2, <3>1, <3>4, TurnAwayStep DEF Named
    <3> QED BY <2>2, <3>2, <3>3, <3>4 DEF Write
  <2>3. CASE op = "cancel" /\ ~UNCHANGED status
    <3>1. Session!Ends(s, "cancelled")
      <4>1. status' = [status EXCEPT ![s] = "cancelled"]
        BY <1>4, <2>1, <2>3
      <4> QED BY <1>1, <2>1, <4>1, EndsStep DEF Terminal
    <3>2. CASE Answer(r, "ok")
      <4>1. Said(Reply("cancel", "ok", s)) = <<"cancelled", s>>
        BY SaidByReply
      <4>2. Session!Tell(r, "cancelled", s) /\ toldOf'[r] # Session!Nothing
        BY <1>1, <2>3, <3>2, <4>1, TellStep DEF Answer
      <4> QED BY <1>1, <1>2, <3>1, <4>2
              DEF SessionStep, Session!Next, Session!Answer, Session!Cancel
    <3>3. ASSUME NEW f \in Failure, Answer(r, f) PROVE SessionStep
      <4>1. Said(Reply(op, f, s)) = Session!Refused
        BY <1>3, SaidByReply
      <4>2. Session!Refuse(r) /\ toldOf'[r] # Session!Nothing
        BY <3>3, <4>1, RefuseStep DEF Answer
      <4> QED BY <1>1, <1>2, <3>1, <4>2
              DEF SessionStep, Session!Next, Session!Answer, Session!Cancel
    <3> QED BY <2>3, <3>2, <3>3 DEF Write
  <2>4. CASE op = "cancel" /\ UNCHANGED status
    <3>1. status[s] = "cancelled"
      BY <1>1, <1>4, <2>1, <2>4 DEF IInv, RowsOK
    <3> QED BY <2>1, <3>1 DEF Active, Working
  <2> QED BY <2>2, <2>3, <2>4
<1>5. CASE UNCHANGED status
  <2>1. UNCHANGED phaseOf
    BY <1>5, RowsQuiet
  <2>2. CASE Goto(r, "second_look")
    BY <1>1, <1>2, <2>1, <2>2, GotoTells
  <2>3. CASE Answer(r, "StaleTransition")
    BY <1>2, <2>1, <2>3, TurnAwayStep DEF Named
  <2>4. CASE \E f \in Failure : Answer(r, f)
    BY <1>2, <1>3, <2>1, <2>4, TurnAwayStep
  <2> QED BY <1>4, <2>2, <2>3, <2>4 DEF Write
<1> QED BY <1>4, <1>5 DEF Write

LEMMA SecondLookTells ==
    ASSUME IInv, NEW r \in Requests, SecondLook(r) PROVE SessionStep
<1>1. UNCHANGED <<phaseOf, lapsed>>
  BY RowsQuiet DEF SecondLook, rows
<1>2. CASE Answer(r, "StaleTransition")
  BY <1>1, <1>2, TurnAwayStep DEF Named
<1>3. CASE Settled(req[r].sid) /\ Answer(r, "ok")
  <2>1. /\ req[r].code = 0 /\ req[r].sid \in Sessions
        /\ status[req[r].sid] \in Terminal
    BY <1>3, Unanswered DEF SecondLook, At, OnOneRow, Settled
  <2>2. req[r].op = "cancel"
    BY Unanswered DEF SecondLook, At, Good
  <2> QED BY <1>1, <1>3, <2>1, <2>2, CancelledStep
<1> QED BY <1>2, <1>3 DEF SecondLook

LEMMA OthersTell == ASSUME IInv, Others PROVE SessionStep
<1>1. RowsOK(status, due, lapsed)
  BY DEF IInv
<1>2. CASE Elapse
  <2>1. PICK s \in Sessions : status[s] \in Active /\ lapsed' = lapsed \cup {s}
    BY <1>2 DEF Elapse
  <2>2. UNCHANGED <<phaseOf, toldOf>>
    BY <1>2 DEF Elapse, phaseOf, toldOf
  <2>3. phaseOf[s] = "live"
    BY <2>1, PhaseOfRow
  <2> QED BY <2>1, <2>2, <2>3 DEF SessionStep, Session!Next, Session!Elapse
<1>3. ASSUME NEW s \in Sessions, status[s] \in Active,
             NEW how \in {"completed", "expired"},
             how = "expired" => s \in lapsed, MoveRow(s, how)
      PROVE  SessionStep
  <2>1. Session!Ends(s, how)
    BY <1>3, EndsStep DEF MoveRow, Terminal
  <2>2. UNCHANGED <<lapsed, toldOf>>
    BY <1>3 DEF MoveRow, toldOf
  <2> QED BY <2>1, <2>2 DEF SessionStep, Session!Next, Session!Leave
<1>4. ASSUME NEW s \in Sessions, status[s] \in Active, NEW new \in Active,
             MoveRow(s, new)
      PROVE  SessionStep
  <2>1. UNCHANGED phaseOf
    BY <1>4, StaysLive DEF MoveRow
  <2>2. UNCHANGED <<lapsed, toldOf>>
    BY <1>4 DEF MoveRow, toldOf
  <2> QED BY <2>1, <2>2 DEF SessionStep, Session!vars
<1>5. CASE TimerExpires
  BY <1>1, <1>3, <1>5 DEF TimerExpires, RowsOK
<1>6. CASE BeginConfirm
  BY <1>4, <1>6 DEF BeginConfirm, Active, Working
<1>7. CASE EndConfirm
  BY <1>3, <1>4, <1>7 DEF EndConfirm, Active, Working
<1> QED BY <1>2, <1>5, <1>6, <1>7 DEF Others

LEMMA InitTells == Init => Session!Init
<1> SUFFICES ASSUME Init PROVE Session!Init
  OBVIOUS
<1>1. phaseOf = [s \in Sessions |-> "none"]
  BY DEF Init, phaseOf, Active, Working
<1>2. IdleRequest.code = 0
  BY DEF IdleRequest
<1>3. toldOf = [r \in Requests |-> Session!Nothing]
  <2>1. Said(IdleRequest) = Session!Nothing
    BY <1>2, SaidByCode
  <2> QED BY <2>1 DEF Init, toldOf
<1> QED BY <1>1, <1>3 DEF Init, Session!Init

\* The handlers implement OneSession: each answer takes effect in a step, and
\* is true in it, however the requests of a user overlap.
THEOREM Refinement == Spec => ImplementsOneSession
<1>1. Init => Session!Init
  BY InitTells
<1>2. IInv /\ [Next]_vars => [Session!Next]_(Session!vars)
  <2> SUFFICES ASSUME IInv, [Next]_vars PROVE SessionStep
    BY DEF SessionStep
  <2>1. CASE UNCHANGED vars
    BY <2>1 DEF SessionStep, Session!vars, vars, phaseOf, toldOf
  <2>2. ASSUME NEW r \in Requests, Begin(r) \/ Serve(r) PROVE SessionStep
    BY <2>2, BeginTells, ReadFailsTells, RetireElapsedTells, TouchTells,
       FindActiveTells, QuoteTells, InsertTells, FindWinnerTells,
       ReadSessionTells, PriceTells, WriteTells, SecondLookTells DEF Serve
  <2> QED BY <2>1, <2>2, OthersTell DEF Next
<1> QED BY <1>1, <1>2, Invariance, PTL DEF Spec, ImplementsOneSession, Session!Spec
-----------------------------------------------------------------------------
(* Outages and their codes.                                                *)

Honest(q) == q.down => q.code = 503
Reported ==
    \A r \in Requests : req'[r].down /\ req'[r].code # 503 =>
        \/ req'[r] = req[r]
        \/ req[r].op = "shipping" /\ req[r].step = "price"

LEMMA HonestReply ==
    ASSUME NEW op, NEW a, NEW s, a # "Upstream" \/ op = "create"
    PROVE  Honest(Reply(op, a, s))
<1> DEFINE q == Reply(op, a, s)
<1>1. q.code = Code(op, a) /\ (q.down <=> a \in {"Upstream", "unavailable"})
  BY DEF Reply, IdleRequest
<1>2. a = "unavailable" \/ (a = "Upstream" /\ op = "create") => Code(op, a) = 503
  BY DEF Code, CreateCode, respondSessionError
<1> QED BY <1>1, <1>2 DEF Honest

LEMMA HonestStep ==
    ASSUME IInv, NEW r \in Requests, NEW q, req' = [req EXCEPT ![r] = q], Honest(q)
    PROVE  Reported
BY DEF IInv, Reported, Honest

LEMMA HonestAnswer ==
    ASSUME IInv, NEW r \in Requests, NEW a, Answer(r, a),
           a # "Upstream" \/ req[r].op = "create"
    PROVE  Reported
BY HonestReply, HonestStep DEF Answer

LEMMA HonestGoto ==
    ASSUME IInv, NEW r \in Requests, NEW step, Goto(r, step), ~req[r].down
    PROVE  Reported
<1> DEFINE q == [req[r] EXCEPT !.step = step]
<1>1. Honest(q)
  BY DEF IInv, RequestRecord, Honest
<1>2. req' = [req EXCEPT ![r] = q]
  BY DEF Goto
<1> HIDE DEF q
<1> QED BY <1>1, <1>2, HonestStep

\* Every step of a request but the quote of PUT shipping reports honestly.
LEMMA ServeReports ==
    ASSUME IInv, NEW r \in Requests, Serve(r) PROVE Reported
<1>1. req[r].step # "answered" /\ req[r].step # "idle"
  BY DEF Serve, ReadFails, RetireElapsed, Touch, FindActive, Quote, Insert,
         FindWinner, ReadSession, Price, Write, SecondLook, At
<1>2. Good(req[r], status, lapsed) /\ req[r] \in RequestRecord /\ ~req[r].down
  BY <1>1, Unanswered DEF Good
<1>3. \A f \in Failure : f # "Upstream"
  BY DEF Failure
<1>4. CASE ReadFails(r)
  BY <1>3, <1>4, HonestAnswer DEF ReadFails
<1>5. CASE RetireElapsed(r)
  <2>1. CASE Answer(r, "SessionExpired")
    BY <2>1, HonestAnswer
  <2>2. ASSUME NEW sp, NEW s,
               req' = [req EXCEPT
                         ![r].step = "quote", ![r].sid = NoSession,
                         ![r].retired = s, ![r].spared = sp]
        PROVE  Reported
    <3> DEFINE q == [req[r] EXCEPT !.step = "quote", !.sid = NoSession,
                                   !.retired = s, !.spared = sp]
    <3>1. ~q.down
      BY <1>2 DEF RequestRecord
    <3>2. req' = [req EXCEPT ![r] = q]
      BY <2>2 DEF IInv
    <3> HIDE DEF q
    <3> QED BY <3>1, <3>2, HonestStep DEF Honest
  <2>3. \/ Answer(r, "SessionExpired")
        \/ \E landed \in BOOLEAN :
              req' = [req EXCEPT
                        ![r].step = "quote", ![r].sid = NoSession,
                        ![r].retired = req[r].sid,
                        ![r].spared = ~landed \/ status[req[r].sid] = "confirming"]
    BY <1>5, Zenon DEF RetireElapsed
  <2> QED BY <2>1, <2>2, <2>3
<1>6. CASE Touch(r)
  BY <1>6, HonestAnswer DEF Touch
<1>7. CASE FindActive(r)
  <2>1. CASE Goto(r, "quote")
    BY <1>2, <2>1, HonestGoto
  <2>2. ASSUME NEW s, NEW to,
               req' = [req EXCEPT ![r].sid = s, ![r].step = to]
        PROVE  Reported
    <3> DEFINE q == [req[r] EXCEPT !.sid = s, !.step = to]
    <3>1. ~q.down
      BY <1>2 DEF RequestRecord
    <3>2. req' = [req EXCEPT ![r] = q]
      BY <2>2 DEF IInv
    <3> HIDE DEF q
    <3> QED BY <3>1, <3>2, HonestStep DEF Honest
  <2> QED BY <1>7, <2>1, <2>2, Zenon DEF FindActive
<1>8. CASE Quote(r)
  <2>1. CASE Goto(r, "insert")
    BY <1>2, <2>1, HonestGoto
  <2>2. ASSUME NEW a, Answer(r, a) PROVE Reported
    <3>1. req[r].op = "create"
      BY <1>2, <1>8 DEF Good, Quote, At
    <3> QED BY <2>2, <3>1, HonestAnswer
  <2> QED BY <1>8, <2>1, <2>2 DEF Quote
<1>9. CASE Insert(r)
  <2>1. CASE Goto(r, "winner")
    BY <1>2, <2>1, HonestGoto
  <2>2. CASE \E f \in Failure : Answer(r, f)
    BY <1>3, <2>2, HonestAnswer
  <2>3. ASSUME NEW s, req' = [req EXCEPT ![r] = Reply("create", "created", s)]
        PROVE  Reported
    BY <2>3, HonestReply, HonestStep
  <2> QED BY <1>9, <2>1, <2>2, <2>3 DEF Insert
<1>10. CASE FindWinner(r)
  <2>1. CASE Answer(r, "ActiveSessionExists")
    BY <2>1, HonestAnswer
  <2>2. ASSUME NEW s, NEW el,
               req' = [req EXCEPT ![r] =
                         [Reply("create", "ok", s) EXCEPT
                             !.retired = req[r].retired,
                             !.spared = req[r].spared, !.late = el]]
        PROVE  Reported
    <3> DEFINE p == Reply("create", "ok", s)
               q == [p EXCEPT !.retired = req[r].retired,
                              !.spared = req[r].spared, !.late = el]
    <3>1. Honest(p) /\ DOMAIN p = DOMAIN IdleRequest
      <4>1. DOMAIN p = DOMAIN IdleRequest
        BY DEF Reply, IdleRequest
      <4> QED BY <4>1, HonestReply
    <3>2. Honest(q)
      <4> HIDE DEF p
      <4> QED BY <3>1 DEF Honest, IdleRequest
    <3>3. req' = [req EXCEPT ![r] = q]
      BY <2>2
    <3> HIDE DEF q
    <3> QED BY <3>2, <3>3, HonestStep
  <2> QED BY <1>10, <2>1, <2>2, Zenon DEF FindWinner
<1>11. CASE ReadSession(r)
  <2>1. CASE Answer(r, Refusal(req[r].op, req[r].sid))
    <3>1. Refusal(req[r].op, req[r].sid) # "Upstream"
      BY DEF Refusal
    <3> QED BY <2>1, <3>1, HonestAnswer
  <2>2. CASE Goto(r, "mark")
    BY <1>2, <2>2, HonestGoto
  <2>3. ASSUME NEW seen, NEW to,
               req' = [req EXCEPT ![r].seen = seen, ![r].step = to]
        PROVE  Reported
    <3> DEFINE q == [req[r] EXCEPT !.seen = seen, !.step = to]
    <3>1. ~q.down
      BY <1>2 DEF RequestRecord
    <3>2. req' = [req EXCEPT ![r] = q]
      BY <2>3 DEF IInv
    <3> HIDE DEF q
    <3> QED BY <3>1, <3>2, HonestStep DEF Honest
  <2> QED BY <1>11, <2>1, <2>2, <2>3, Zenon DEF ReadSession
<1>12. CASE Price(r)
  <2>1. CASE Goto(r, "write")
    BY <1>2, <2>1, HonestGoto
  <2>2. ASSUME NEW a \in PriceRefusals[req[r].op], Answer(r, a) PROVE Reported
    <3>1. req[r].step = "price" /\ req[r].op \in Priced
      BY <1>2, <1>12 DEF Price, At, Good
    <3>2. CASE req[r].op = "shipping"
      BY <2>2, <3>1, <3>2 DEF Reported, Answer, IInv
    <3>3. CASE req[r].op # "shipping"
      <4>1. a # "Upstream"
        BY <2>2, <3>1, <3>3 DEF Priced, PriceRefusals
      <4> QED BY <2>2, <4>1, HonestAnswer
    <3> QED BY <3>2, <3>3
  <2> QED BY <1>12, <2>1, <2>2 DEF Price
<1>13. CASE Write(r)
  <2>1. \/ Goto(r, "touch") \/ Goto(r, "second_look")
        \/ Answer(r, "ok") \/ Answer(r, "StaleTransition")
        \/ \E f \in Failure : Answer(r, f)
    BY <1>13, Zenon DEF Write
  <2> QED BY <1>2, <1>3, <2>1, HonestGoto, HonestAnswer
<1>14. CASE SecondLook(r)
  BY <1>14, HonestAnswer DEF SecondLook
<1> QED BY <1>4, <1>5, <1>6, <1>7, <1>8, <1>9, <1>10, <1>11, <1>12, <1>13,
           <1>14 DEF Serve

LEMMA BeginReports == ASSUME IInv, NEW r \in Requests, Begin(r) PROVE Reported
<1>1. PICK op \in Ops, s \in Sessions \cup {NoSession} :
        /\ (op = "create") = (s = NoSession)
        /\ \/ req' = [req EXCEPT ![r] =
                        [IdleRequest EXCEPT
                            !.op = op, !.sid = s,
                            !.step = IF op = "create" THEN "find" ELSE "read"]]
           \/ op = "payment"
              /\ req' = [req EXCEPT ![r] = Reply(op, "InvalidPaymentToken", s)]
  BY DEF Begin
<1>2. CASE req' = [req EXCEPT ![r] = Reply(op, "InvalidPaymentToken", s)]
  BY <1>2, HonestReply, HonestStep
<1>3. CASE req' = [req EXCEPT ![r] =
                        [IdleRequest EXCEPT
                            !.op = op, !.sid = s,
                            !.step = IF op = "create" THEN "find" ELSE "read"]]
  <2> DEFINE to == IF op = "create" THEN "find" ELSE "read"
             q == [IdleRequest EXCEPT !.op = op, !.sid = s, !.step = to]
  <2>1. Honest(q)
    BY DEF IdleRequest, Honest
  <2>2. req' = [req EXCEPT ![r] = q]
    BY <1>3
  <2> HIDE DEF q
  <2> QED BY <2>1, <2>2, HonestStep
<1> QED BY <1>1, <1>2, <1>3

\* An outage is answered with another code than 503 by one path only: the
\* quote of PUT shipping.
THEOREM OneOutageIsMisreported == Spec => OnlyAQuoteIsMisreported
<1>1. IInv /\ [Next]_vars => [Reported]_vars
  <2> SUFFICES ASSUME IInv, Next PROVE Reported
    OBVIOUS
  <2>1. CASE Others
    BY <2>1 DEF Others, Elapse, TimerExpires, BeginConfirm, EndConfirm, MoveRow,
                Reported
  <2> QED BY <2>1, BeginReports, ServeReports DEF Next
<1>2. Spec => [][Reported]_vars
  BY <1>1, Invariance, PTL DEF Spec
<1> QED BY <1>2 DEF OnlyAQuoteIsMisreported, Reported
-----------------------------------------------------------------------------
(* The rows and the FSM.                                                   *)

Edge(s) ==
    /\ \/ status[s] = "none" /\ status'[s] = "open"
       \/ CanTransition(status[s], status'[s])
       \/ status[s] = "confirming" /\ status'[s] = "expired"
    /\ status'[s] = "expired" => s \in lapsed
AlongFSM == \A s \in Sessions : status'[s] # status[s] => Edge(s)

LEMMA OneRowStep ==
    ASSUME IInv, NEW s \in Sessions, NEW new,
           status' = [status EXCEPT ![s] = new],
           \/ new = status[s]
           \/ status[s] = "none" /\ new = "open"
           \/ CanTransition(status[s], new)
           \/ status[s] = "confirming" /\ new = "expired",
           new = "expired" => s \in lapsed \/ new = status[s]
    PROVE  AlongFSM
BY DEF IInv, RowsOK, AlongFSM, Edge

\* A request writes a row in three steps: a retirement, an insert and its
\* conditional update.
LEMMA ServeFollows ==
    ASSUME IInv, NEW r \in Requests, Serve(r) PROVE AlongFSM
<1> DEFINE s == req[r].sid
<1>1. Good(req[r], status, lapsed) /\ req[r] \in RequestRecord
  BY DEF IInv
<1>2. CASE UNCHANGED status
  BY <1>2 DEF AlongFSM
<1>3. CASE RetireElapsed(r)
  <2>1. s \in Sessions /\ s \in lapsed
    BY <1>1, <1>3 DEF RetireElapsed, At, Good, OnOneRow
  <2>2. PICK landed \in BOOLEAN :
           status' = IF landed THEN MarkExpired(s) ELSE status
    BY <1>3 DEF RetireElapsed
  <2>3. CASE status[s] \in Working /\ status' = [status EXCEPT ![s] = "expired"]
    <3>1. "expired" \in transitions[status[s]]
      BY <2>3 DEF transitions, Working
    <3> QED BY <2>1, <2>3, <3>1, OneRowStep DEF CanTransition
  <2> QED BY <1>2, <2>2, <2>3 DEF MarkExpired
<1>4. CASE Insert(r)
  <2>1. ASSUME NEW t \in Sessions, InsertRow(t) PROVE AlongFSM
    BY <2>1, OneRowStep DEF InsertRow
  <2> QED BY <1>2, <1>4, <2>1 DEF Insert, rows
<1>5. CASE Write(r)
  <2> DEFINE op == req[r].op
             seen == req[r].seen
             new == NewStatus(op, seen)
  <2>1. /\ s \in Sessions /\ op \in Mutations /\ seen \in Status
        /\ Allowed(op, seen)
    BY <1>1, <1>5 DEF Write, At, Good, OnOneRow
  <2>2. new # "expired"
    BY <2>1, AllowedMoves
  <2>3. new = seen \/ CanTransition(seen, new)
    <3>1. CASE op \in PromoOps
      BY <3>1 DEF NewStatus
    <3>2. CASE op \notin PromoOps
      <4>1. op \in DOMAIN Target /\ op # "get"
        BY <2>1, <3>2 DEF Mutations, Target
      <4>2. CanTransition(seen, Target[op])
        BY <2>1, <3>2, <4>1 DEF Allowed
      <4> QED BY <3>2, <4>2 DEF NewStatus
    <3> QED BY <3>1, <3>2
  <2> HIDE DEF new
  <2>4. CASE status[s] = seen /\ status' = [status EXCEPT ![s] = new]
    BY <2>1, <2>2, <2>3, <2>4, OneRowStep
  <2> QED BY <1>2, <1>5, <2>4 DEF Write, Matches, new
<1> QED BY <1>2, <1>3, <1>4, <1>5
        DEF Serve, ReadFails, Touch, FindActive, Quote, FindWinner,
            ReadSession, Price, SecondLook, rows

\* The abandonment timer, a confirm and the clock.
LEMMA OthersFollow == ASSUME IInv, Others PROVE AlongFSM
<1>1. CASE Elapse
  BY <1>1 DEF Elapse, AlongFSM
<1>2. CASE TimerExpires
  <2>1. PICK s \in due : status[s] \in Active /\ MoveRow(s, "expired")
    BY <1>2 DEF TimerExpires
  <2>2. s \in Sessions /\ s \in lapsed
    BY <2>1 DEF IInv, RowsOK
  <2>3. status[s] = "confirming" \/ "expired" \in transitions[status[s]]
    BY <2>1 DEF Active, Working, transitions
  <2> QED BY <2>1, <2>2, <2>3, OneRowStep DEF MoveRow, CanTransition
<1>3. CASE BeginConfirm
  <2>1. "confirming" \in transitions["ready"]
    BY DEF transitions
  <2> QED BY <1>3, <2>1, OneRowStep DEF BeginConfirm, MoveRow, CanTransition
<1>4. CASE EndConfirm
  <2>1. {"completed", "shipping_set", "ready"} \subseteq transitions["confirming"]
    BY DEF transitions
  <2> QED BY <1>4, <2>1, OneRowStep DEF EndConfirm, MoveRow, CanTransition
<1> QED BY <1>1, <1>2, <1>3, <1>4 DEF Others

\* The statuses of the rows move along the edges of the FSM, and a row is
\* expired only after it elapsed: stale reads included.
THEOREM RowsMoveAlongFSM == Spec => RowsFollowFSM
<1>1. IInv /\ [Next]_vars => [AlongFSM]_vars
  <2> SUFFICES ASSUME IInv, Next PROVE AlongFSM
    OBVIOUS
  <2>1. ASSUME NEW r \in Requests, Begin(r) PROVE AlongFSM
    BY <2>1 DEF Begin, rows, AlongFSM
  <2> QED BY <2>1, ServeFollows, OthersFollow DEF Next
<1>2. Spec => [][AlongFSM]_vars
  BY <1>1, Invariance, PTL DEF Spec
<1> QED BY <1>2 DEF RowsFollowFSM, AlongFSM, Edge
=============================================================================
