------------------------- MODULE PurchaseOnceProofs -------------------------
(***************************************************************************)
(* Proofs that the confirm is one purchase per session (PurchaseOnce), and *)
(* of what holds as long as nobody edits a session being confirmed: for    *)
(* any number of sessions, keys, executions and contents.                  *)
(*                                                                         *)
(* Without such edits a session is bound only while it is confirming or    *)
(* completed.  Then every step of the protocol is, for the sessions, one   *)
(* of seven kinds; each kind changes one session at most, and is a step of *)
(* the abstract purchase or a stutter.                                     *)
(***************************************************************************)
EXTENDS CheckoutConfirmProofs

\* What a bound session can be.
BoundIsConfirming ==
    \A s \in Sessions :
        bound[s] # Unbound => status[s] \in {"confirming", "completed"}

\* The use of the code a session carries has been counted; it is by the time
\* an execution is about to mark its attempt.
Counted(s) ==
    PromoOf[content[s]] # NoCode => redemption[s][PromoOf[content[s]]] # "none"
AttemptIsCounted ==
    \A s \in Sessions : Attempted(s) \/ HasOrder(s) => Counted(s)
CountedAtMark ==
    \A e \in Execs : pc[e] = "mark" /\ Promo(e) # NoCode =>
        redemption[es[e]][Promo(e)] # "none"

CalmInv ==
    /\ BoundIsConfirming /\ OrderMatchesSession
    /\ AttemptIsCounted /\ CountedAtMark

-----------------------------------------------------------------------------
(* The kinds of steps.                                                     *)

OnlyAt(s) ==
    \A t \in Sessions \ {s} :
        /\ status'[t] = status[t] /\ bound'[t] = bound[t]
        /\ content'[t] = content[t] /\ orders'[t] = orders[t]
        /\ Attempted(t)' <=> Attempted(t)

\* No session moves; a completed one may lose its claim.
Rests ==
    /\ UNCHANGED <<status, bound, content, orders>>
    /\ \A s \in Sessions :
          /\ Attempted(s)' => Attempted(s)
          /\ Attempted(s) => Attempted(s)' \/ status[s] = "completed"

\* A working session is edited or dropped.
Shops(s) ==
    /\ OnlyAt(s) /\ bound[s] = Unbound /\ bound'[s] = Unbound
    /\ status[s] \in Working
    /\ status'[s] \in Working \cup {"cancelled", "expired"}
    /\ orders'[s] = orders[s]

\* The entry gate.
Binds(s) ==
    /\ OnlyAt(s) /\ bound[s] = Unbound
    /\ status[s] = "ready" /\ status'[s] = "confirming"
    /\ content'[s] = content[s] /\ orders'[s] = orders[s]
    /\ ~Attempted(s)'

\* A confirm is undone, or reaped, before its attempt.
Unbinds(s) ==
    /\ OnlyAt(s) /\ bound'[s] = Unbound /\ ~Attempted(s)
    /\ status[s] = "confirming"
    /\ status'[s] \in {"shipping_set", "ready", "expired"}
    /\ orders'[s] = orders[s]

\* The attempt marker.
Marks(s) ==
    /\ OnlyAt(s) /\ UNCHANGED <<status, bound, content, orders, redemption>>
    /\ bound[s].key \in Keys /\ bound[s] # Unbound
    /\ Attempted(s)' /\ Counted(s)

\* The order.
Places(s) ==
    /\ OnlyAt(s) /\ UNCHANGED <<status, bound, content>>
    /\ status[s] = "confirming" /\ Attempted(s) /\ Attempted(s)'
    /\ \A k \in Keys : orders'[s][k] \in {orders[s][k], content[s]}
    /\ HasOrder(s)'

\* The completion.
Completes(s) ==
    /\ OnlyAt(s) /\ Attempted(s) /\ HasOrder(s)
    /\ status[s] = "confirming" /\ status'[s] = "completed"
    /\ bound'[s] = bound[s] /\ content'[s] = content[s]
    /\ orders'[s] = orders[s]

Kind(s) ==
    \/ Shops(s) \/ Binds(s) \/ Unbinds(s)
    \/ Marks(s) \/ Places(s) \/ Completes(s)

\* While the claims stand, so does every attempt whose binding stands.
LEMMA ClaimsStand ==
    ASSUME UNCHANGED <<row, claimFor, subject>>, NEW t, bound'[t] = bound[t]
    PROVE  Attempted(t)' <=> Attempted(t)
BY DEF Attempted, ClaimId

\* A step that writes no session, claim or order moves none.
LEMMA QuietRests ==
    ASSUME UNCHANGED <<status, bound, content, orders, row, claimFor, subject>>
    PROVE  Rests
BY ClaimsStand DEF Rests

\* An unbound session has no attempt and no order.
LEMMA UnboundIsFree ==
    ASSUME OrderInv, NEW s \in Sessions, bound[s] = Unbound
    PROVE  ~Attempted(s) /\ ~HasOrder(s)
<1>1. bound[s].key = NoKey
  BY DEF Unbound
<1>2. ~Attempted(s)
  BY <1>1, ConfirmAssumption DEF Attempted, ClaimId
<1>3. ~HasOrder(s)
  BY <1>1, ConfirmAssumption DEF HasOrder, OrderInv, OrderBindsSession
<1> QED BY <1>2, <1>3

\* Nor will one that is left unbound.
LEMMA LeftUnbound ==
    ASSUME NEW s, bound'[s] = Unbound
    PROVE  ~Attempted(s)'
<1>1. bound'[s].key = NoKey
  BY DEF Unbound
<1>2. \A k \in Keys : ClaimId(k)'.key = k
  BY DEF ClaimId
<1>3. \A k \in Keys : bound'[s] # ClaimId(k)'
  BY <1>1, <1>2, ConfirmAssumption
<1> QED BY <1>3 DEF Attempted

\* An order of a session not completed is under an attempt.
LEMMA OrderedIsAttempted ==
    ASSUME OrderInv, NEW s \in Sessions, HasOrder(s), status[s] # "completed"
    PROVE  Attempted(s)
BY DEF Attempted, HasOrder, OrderInv, OrderBindsSession
-----------------------------------------------------------------------------
(* Each action is of a kind.                                               *)

\* An execution that drives a session is bound to it by its own claim.
LEMMA DriverFacts ==
    ASSUME IInv, NEW e \in Execs, Driving(e)
    PROVE  /\ es[e] \in Sessions /\ ek[e] \in Keys
           /\ claimFor[ek[e]] = es[e] /\ holder[ek[e]] = e
           /\ bound[es[e]] = ClaimId(ek[e])
           /\ snap[e].content \in Contents
BY DEF IInv, Typed, HasArguments, ClaimInv, OwnsClaim, Owning, Driving, BindInv,
       DriverIsBound

\* An attempt of a session bound to a claim is that claim's.
LEMMA AttemptIsBindings ==
    ASSUME NEW s, NEW k \in Keys, bound[s] = ClaimId(k)
    PROVE  Attempted(s) => subject[k] # "none"
BY DEF Attempted, ClaimId

\* A cancel is refused while confirming.
LEMMA NoCancelMidway == ~CanTransition("confirming", "cancelled")
BY DEF CanTransition, transitions

\* The funnel's writes and the timer's meet working sessions only.
LEMMA ShopKind ==
    ASSUME ~MidConfirmEdits, IInv, BoundIsConfirming, NEW s \in Sessions,
           \/ SetAddress(s) \/ SetShipping(s) \/ SetPayment(s) \/ SetPromo(s)
           \/ Cancel(s) \/ ExpireDue(s)
    PROVE  Shops(s)
<1> USE DEF IInv, Typed, TypeOK, SessionsTyped
<1>1. UNCHANGED <<bound, orders, row, claimFor, subject>>
  BY DEF SetAddress, SetShipping, SetPayment, SetPromo, Cancel, ExpireDue,
         FunnelWrite, Elsewhere, claimVars
<1>2. \A t \in Sessions \ {s} :
        status'[t] = status[t] /\ content'[t] = content[t]
  BY DEF SetAddress, SetShipping, SetPayment, SetPromo, Cancel, ExpireDue,
         FunnelWrite
<1>3. /\ status[s] \in Working
      /\ status'[s] \in Working \cup {"cancelled", "expired"}
  <2>1. ASSUME NEW to \in {"address_set", "shipping_set", "ready"},
               FunnelWrite(s, to)
        PROVE  status[s] \in Working /\ status'[s] \in Working
    <3>1. status[s] \notin Terminal /\ status[s] # "confirming"
      BY <2>1, FSMEdges DEF FunnelWrite
    <3> QED BY <2>1, <3>1 DEF FunnelWrite, Working, Status, Active
  <2>2. CASE Cancel(s)
    <3>1. status[s] \notin Terminal
      BY <2>2, FSMEdges DEF Cancel
    <3>2. status[s] # "confirming"
      BY <2>2, NoCancelMidway DEF Cancel
    <3> QED BY <2>2, <3>1, <3>2 DEF Cancel, Working, Status, Active
  <2>3. CASE SetPromo(s) \/ ExpireDue(s)
    BY <2>3 DEF SetPromo, ExpireDue, Expirable
  <2> QED BY <2>1, <2>2, <2>3 DEF SetAddress, SetShipping, SetPayment
<1>4. bound[s] = Unbound /\ bound'[s] = Unbound
  BY <1>1, <1>3 DEF BoundIsConfirming, Working
<1>5. OnlyAt(s)
  BY <1>1, <1>2, ClaimsStand DEF OnlyAt
<1> QED BY <1>1, <1>3, <1>4, <1>5 DEF Shops

\* So does the lazy expiry.
LEMMA LazyKind ==
    ASSUME IInv, BoundIsConfirming, NEW e \in Execs, NEW o, MarkExpired(e, o)
    PROVE  Rests \/ \E s \in Sessions : Shops(s)
<1> DEFINE s == es[e]
<1>1. s \in Sessions
  BY DEF IInv, Typed, HasArguments, MarkExpired
<1>2. UNCHANGED <<bound, content, orders, row, claimFor, subject>>
  BY DEF MarkExpired, claimVars
<1>3. CASE UNCHANGED status
  BY <1>2, <1>3, QuietRests
<1>4. CASE status[s] \in Working /\ status' = [status EXCEPT ![s] = "expired"]
  <2>1. bound[s] = Unbound /\ status'[s] = "expired"
    BY <1>1, <1>4
       DEF BoundIsConfirming, Working, IInv, Typed, TypeOK, SessionsTyped
  <2>2. OnlyAt(s)
    BY <1>2, <1>4, ClaimsStand DEF OnlyAt
  <2> QED BY <1>1, <1>2, <1>4, <2>1, <2>2 DEF Shops
<1> QED BY <1>3, <1>4 DEF MarkExpired, Expirable

\* The gate is won by a claim not marked yet.
LEMMA BeginKind ==
    ASSUME IInv, BoundIsConfirming, NEW e \in Execs, NEW o, BeginConfirm(e, o)
    PROVE  Rests \/ \E s \in Sessions : Binds(s)
<1>1. PICK s \in Sessions :
        es[e] = s /\ ek[e] \in Keys /\ claimFor[ek[e]] = s
  BY DEF IInv, Typed, HasArguments, BeginConfirm, ClaimInv, OwnsClaim, Owning
<1>2. UNCHANGED <<content, orders, row, claimFor, subject>>
  BY DEF BeginConfirm, claimVars
<1>3. CASE UNCHANGED <<status, bound>>
  BY <1>2, <1>3, QuietRests
<1>4. CASE /\ status[s] = "ready" /\ status' = [status EXCEPT ![s] = "confirming"]
           /\ bound' = [bound EXCEPT ![s] = ClaimId(ek[e])]
  <2>1. /\ bound[s] = Unbound /\ status'[s] = "confirming"
        /\ bound'[s] = ClaimId(ek[e])
    BY <1>1, <1>4 DEF BoundIsConfirming, IInv, Typed, TypeOK, SessionsTyped
  <2>2. OnlyAt(s)
    BY <1>2, <1>4, ClaimsStand DEF OnlyAt
  \* A marked claim is bound already.
  <2>3. subject[ek[e]] = "none"
    <3>1. ClaimId(ek[e]) # Unbound
      BY <1>1, ConfirmAssumption DEF ClaimId, Unbound
    <3> QED
      BY <1>1, <2>1, <3>1, ConfirmAssumption DEF IInv, BindInv, MarkerBinds
  <2>4. ~Attempted(s)'
    <3>1. ASSUME NEW k \in Keys, bound'[s] = ClaimId(k)' PROVE k = ek[e]
      BY <2>1, <3>1 DEF ClaimId
    <3> QED BY <1>2, <2>3, <3>1 DEF Attempted
  <2> QED BY <1>1, <1>2, <1>4, <2>1, <2>2, <2>4 DEF Binds
<1> QED BY <1>1, <1>3, <1>4 DEF BeginConfirm, CanBegin

\* The two ways a confirm undoes itself.
LEMMA UndoKind ==
    ASSUME IInv, NEW e \in Execs, pc[e] \in Undoable, Holds(e),
           NEW to \in {"shipping_set", "ready"},
           status' = [status EXCEPT ![es[e]] = to],
           bound' = [bound EXCEPT ![es[e]] = Unbound],
           content' = [content EXCEPT ![es[e]] = content'[es[e]]],
           UNCHANGED <<orders, row, claimFor, subject>>
    PROVE  \E s \in Sessions : Unbinds(s)
<1> DEFINE s == es[e]
<1>1. Driving(e) /\ subject[ek[e]] = "none"
  BY DEF Driving, Undoable, IInv, KnowsMarker
<1>2. s \in Sessions /\ ek[e] \in Keys /\ bound[s] = ClaimId(ek[e])
  BY <1>1, DriverFacts
<1>3. ~Attempted(s)
  BY <1>1, <1>2, AttemptIsBindings
<1>4. OnlyAt(s)
  BY ClaimsStand, <1>2 DEF OnlyAt, IInv, Typed, TypeOK, SessionsTyped
<1>5. status'[s] = to /\ bound'[s] = Unbound /\ status[s] = "confirming"
  BY <1>2 DEF Holds, IInv, Typed, TypeOK, SessionsTyped
<1> QED BY <1>2, <1>3, <1>4, <1>5 DEF Unbinds

\* A requote or a strip.
LEMMA DropKind ==
    ASSUME IInv, NEW e \in Execs, NEW o, NEW c \in Contents,
           pc[e] \in {"requote", "strip"}, DropToShipping(e, o, c)
    PROVE  Rests \/ \E s \in Sessions : Unbinds(s)
<1>1. UNCHANGED <<orders, row, claimFor, subject>>
  BY DEF DropToShipping
<1>2. CASE UNCHANGED <<status, bound, content>>
  BY <1>1, <1>2, QuietRests
<1>3. CASE /\ Holds(e) /\ status' = [status EXCEPT ![es[e]] = "shipping_set"]
           /\ bound' = [bound EXCEPT ![es[e]] = Unbound]
           /\ content' = [content EXCEPT ![es[e]] = c]
  <2>1. Driving(e) /\ pc[e] \in Undoable
    BY DEF Driving, Undoable
  <2>2. content'[es[e]] = c
    BY <1>3, <2>1, DriverFacts DEF IInv, Typed, TypeOK, SessionsTyped
  <2> QED BY <1>1, <1>3, <2>1, <2>2, UndoKind
<1> QED BY <1>2, <1>3 DEF DropToShipping

\* An abort.
LEMMA AbortKind ==
    ASSUME IInv, NEW e \in Execs, NEW o, AbortConfirm(e, o)
    PROVE  Rests \/ \E s \in Sessions : Unbinds(s)
<1>1. UNCHANGED <<content, orders, row, claimFor, subject>> /\ pc[e] \in Undoable
  BY DEF AbortConfirm, claimVars, Undoable
<1>2. CASE UNCHANGED <<status, bound>>
  BY <1>1, <1>2, QuietRests
<1>3. CASE /\ Holds(e) /\ status' = [status EXCEPT ![es[e]] = "ready"]
           /\ bound' = [bound EXCEPT ![es[e]] = Unbound]
  <2>1. content' = [content EXCEPT ![es[e]] = content'[es[e]]]
    BY <1>1 DEF IInv, Typed, TypeOK, SessionsTyped
  <2> QED BY <1>1, <1>3, <2>1, UndoKind
<1> QED BY <1>2, <1>3 DEF AbortConfirm

\* The timer's second statement.
LEMMA ReapKind ==
    ASSUME IInv, NEW s \in Sessions, ExpireParked(s)
    PROVE  Unbinds(s)
<1>1. PICK k \in Keys : bound[s] = ClaimId(k) /\ subject[k] = "none"
  BY DEF ExpireParked, ProvablyDead
<1>2. ~Attempted(s)
  BY <1>1, AttemptIsBindings
<1>3. /\ UNCHANGED <<content, orders, row, claimFor, subject>>
      /\ status' = [status EXCEPT ![s] = "expired"]
      /\ bound' = [bound EXCEPT ![s] = Unbound] /\ status[s] = "confirming"
  BY DEF ExpireParked, Elsewhere, claimVars
<1>4. OnlyAt(s)
  BY <1>3, ClaimsStand DEF OnlyAt, IInv, Typed, TypeOK, SessionsTyped
<1>5. status'[s] = "expired" /\ bound'[s] = Unbound
  BY <1>3 DEF IInv, Typed, TypeOK, SessionsTyped
<1> QED BY <1>2, <1>3, <1>4, <1>5 DEF Unbinds

\* An execution's own claim, at whichever key.
LEMMA ClaimKind ==
    ASSUME IInv, NEW e \in Execs, NEW o, Claim(e, o)
    PROVE  Rests
<1>1. ek[e] \in Keys /\ UNCHANGED <<status, bound, content, orders>>
  BY DEF Claim, sessionVars, IInv, Typed, HasArguments
<1>2. CASE claimFor[ek[e]] # NoSession
  <2>1. UNCHANGED <<row, claimFor, subject>>
    BY <1>1, <1>2 DEF Claim, Claimable, IInv, Typed, TypeOK, ClaimsTyped
  <2> QED BY <1>1, <2>1, QuietRests
<1>3. CASE claimFor[ek[e]] = NoSession
  <2>1. subject'[ek[e]] = "none"
    BY <1>1, <1>3 DEF Claim, IInv, Typed, TypeOK, ClaimsTyped
  <2>2. \A k \in Keys \ {ek[e]} : /\ row'[k] = row[k] /\ subject'[k] = subject[k]
                                  /\ claimFor'[k] = claimFor[k]
    BY DEF Claim, IInv, Typed, TypeOK, ClaimsTyped
  <2>3. ASSUME NEW s \in Sessions PROVE Attempted(s)' <=> Attempted(s)
    <3>1. \A k \in Keys \ {ek[e]} : ClaimId(k)' = ClaimId(k)
      BY <2>2 DEF ClaimId
    <3>2. claimFor[ek[e]] # s
      BY <1>3, ConfirmAssumption
    <3> QED BY <1>1, <2>1, <2>2, <3>1, <3>2 DEF Attempted
  <2> QED BY <1>1, <2>3 DEF Rests
<1> QED BY <1>2, <1>3

\* The sweep takes the claims of completed sessions.
LEMMA SweepKind ==
    ASSUME IInv, NEW k \in Keys, ReapFinished(k)
    PROVE  Rests
<1>1. /\ UNCHANGED <<status, bound, content, orders, row>>
      /\ claimFor'[k] = NoSession
  BY DEF ReapFinished, sessionVars, IInv, Typed, TypeOK, ClaimsTyped
<1>2. \A j \in Keys \ {k} : subject'[j] = subject[j] /\ claimFor'[j] = claimFor[j]
  BY DEF ReapFinished, IInv, Typed, TypeOK, ClaimsTyped
<1>3. status[claimFor[k]] = "completed"
  BY DEF ReapFinished, IInv, ShownInv, CachedAnswerIsShown
<1>4. ASSUME NEW s \in Sessions
      PROVE  /\ Attempted(s)' => Attempted(s)
             /\ Attempted(s) => Attempted(s)' \/ status[s] = "completed"
  BY <1>1, <1>2, <1>3, ConfirmAssumption DEF Attempted, ClaimId
<1> QED BY <1>1, <1>4 DEF Rests

\* An order id takes the place of the marker.
LEMMA RecordKind ==
    ASSUME IInv, NEW e \in Execs, NEW o, RecordOrder(e, o)
    PROVE  Rests
<1>1. UNCHANGED <<status, bound, content, orders, row, claimFor>>
  BY DEF RecordOrder, sessionVars
<1>2. Driving(e) /\ subject[ek[e]] # "none"
  BY DEF RecordOrder, Driving, Committed, IInv, KnowsMarker
<1>3. \A k \in Keys : subject'[k] # "none" <=> subject[k] # "none"
  BY <1>2 DEF RecordOrder, IInv, Typed, TypeOK, ClaimsTyped
<1> QED BY <1>1, <1>3 DEF Rests, Attempted, ClaimId

\* The marker is written for the session the execution is bound to.
LEMMA MarkKind ==
    ASSUME IInv, CalmInv, NEW e \in Execs, NEW o, Checkpoint(e, o)
    PROVE  Rests \/ (Marks(es[e]) /\ es[e] \in Sessions)
<1>1. PICK s \in Sessions, k \in Keys :
        /\ es[e] = s /\ ek[e] = k /\ claimFor[k] = s /\ bound[s] = ClaimId(k)
  BY DriverFacts DEF Checkpoint, Driving
<1>2. UNCHANGED <<status, bound, content, orders, redemption, row, claimFor>>
  BY DEF Checkpoint, sessionVars
<1>3. CASE UNCHANGED subject
  BY <1>2, <1>3, QuietRests
<1>4. CASE subject' = [subject EXCEPT ![k] = "marker"]
  <2>1. /\ subject'[k] # "none"
        /\ \A j \in Keys \ {k} : subject'[j] = subject[j]
    BY <1>4 DEF IInv, Typed, TypeOK, ClaimsTyped
  <2>2. ASSUME NEW t \in Sessions \ {s} PROVE Attempted(t)' <=> Attempted(t)
    BY <1>1, <1>2, <2>1 DEF Attempted, ClaimId
  <2>3. Attempted(s)'
    BY <1>1, <1>2, <2>1 DEF Attempted, ClaimId
  <2>4. bound[s].key \in Keys /\ bound[s] # Unbound
    BY <1>1, ConfirmAssumption DEF ClaimId, Unbound
  \* A completed session has an order, and so was counted before.
  <2>5. Counted(s)
    <3>1. CASE status[s] = "completed"
      BY <3>1 DEF IInv, ShownInv, CompletedShowsItsOrder, HasOrder, CalmInv,
                  AttemptIsCounted
    <3>2. CASE status[s] = "confirming"
      <4>1. snap[e].content = content[s]
        BY <1>1, <3>2
           DEF Checkpoint, Driving, IInv, ShownInv, DriverSeesContent
      <4> QED BY <1>1, <4>1
              DEF Checkpoint, CalmInv, CountedAtMark, Counted, Promo
    <3> QED BY <2>4, <3>1, <3>2 DEF CalmInv, BoundIsConfirming
  <2>6. Marks(s)
    BY <1>2, <2>2, <2>3, <2>4, <2>5 DEF Marks, OnlyAt
  <2> QED BY <1>1, <2>6
<1> QED BY <1>1, <1>3, <1>4 DEF Checkpoint, attemptSentinel

\* The order is made for what that session shows.
LEMMA PlaceKind ==
    ASSUME IInv, BoundIsConfirming, NEW e \in Execs, NEW o, CreateOrder(e, o)
    PROVE  Rests \/ \E s \in Sessions : Places(s)
<1>1. PICK s \in Sessions, k \in Keys :
        /\ es[e] = s /\ ek[e] = k /\ claimFor[k] = s /\ bound[s] = ClaimId(k)
        /\ snap[e].content \in Contents
  BY DriverFacts DEF CreateOrder, Driving
<1>2. UNCHANGED <<status, bound, content, row, claimFor, subject>>
  BY DEF CreateOrder, sessionVars, claimVars
<1>3. CASE UNCHANGED orders
  BY <1>2, <1>3, QuietRests
<1>4. CASE /\ orders[s][k] = NoContent
           /\ orders' = [orders EXCEPT ![s][k] = snap[e].content]
  <2>1. subject[k] # "none" /\ Driving(e)
    BY <1>1 DEF CreateOrder, Committed, Driving, IInv, KnowsMarker
  <2>2. Attempted(s) /\ Attempted(s)'
    BY <1>1, <1>2, <2>1 DEF Attempted, ClaimId
  \* A completed session has this order already.
  <2>3. status[s] = "confirming"
    <3>1. bound[s] # Unbound /\ bound[s].key = k
      BY <1>1, ConfirmAssumption DEF ClaimId, Unbound
    <3>2. status[s] # "completed"
      BY <1>4, <3>1 DEF IInv, ShownInv, CompletedShowsItsOrder, OrderInv,
                        OrderBindsSession, Ordered
    <3> QED BY <3>1, <3>2 DEF BoundIsConfirming
  <2>4. snap[e].content = content[s]
    BY <1>1, <2>1, <2>3 DEF CreateOrder, IInv, ShownInv, DriverSeesContent
  <2>5. orders \in [Sessions -> [Keys -> Shown]]
    BY DEF IInv, Typed, TypeOK
  <2>6. /\ \A j \in Keys : orders'[s][j] \in {orders[s][j], content[s]}
        /\ orders'[s][k] # NoContent
        /\ \A t \in Sessions \ {s} : orders'[t] = orders[t]
    BY <1>1, <1>4, <2>4, <2>5, ConfirmAssumption
  <2>7. OnlyAt(s)
    BY <1>2, <2>6, ClaimsStand DEF OnlyAt
  <2>8. HasOrder(s)'
    BY <2>6 DEF HasOrder, Ordered
  <2> QED BY <1>2, <2>2, <2>3, <2>6, <2>7, <2>8 DEF Places
<1> QED BY <1>1, <1>3, <1>4 DEF CreateOrder

\* The completion finds its order.
LEMMA CompleteKind ==
    ASSUME IInv, NEW e \in Execs, NEW o, CompleteSession(e, o)
    PROVE  Rests \/ \E s \in Sessions : Completes(s)
<1>1. es[e] \in Sessions /\ ek[e] \in Keys
  BY DriverFacts DEF CompleteSession, Driving
<1>2. UNCHANGED <<bound, content, orders, row, claimFor, subject>>
  BY DEF CompleteSession
<1>3. CASE UNCHANGED status
  BY <1>2, <1>3, QuietRests
<1>4. CASE Holds(e) /\ status' = [status EXCEPT ![es[e]] = "completed"]
  <2>1. status[es[e]] = "confirming" /\ status'[es[e]] = "completed"
    BY <1>1, <1>4 DEF Holds, IInv, Typed, TypeOK, SessionsTyped
  <2>2. HasOrder(es[e])
    BY <1>1 DEF CompleteSession, HasOrder, IInv, OrderInv, DriverHasOrder
  <2>3. Attempted(es[e])
    BY <1>1, <2>1, <2>2, OrderedIsAttempted DEF IInv
  <2>4. OnlyAt(es[e])
    BY <1>2, <1>4, ClaimsStand DEF OnlyAt
  <2> QED BY <1>1, <1>2, <2>1, <2>2, <2>3, <2>4 DEF Completes
<1> QED BY <1>3, <1>4 DEF CompleteSession
-----------------------------------------------------------------------------
\* Every step is of one of the kinds.
LEMMA StepKinds ==
    ASSUME ~MidConfirmEdits, IInv, CalmInv, [Next]_vars
    PROVE  Rests \/ \E s \in Sessions : Kind(s)
<1>0. BoundIsConfirming
  BY DEF CalmInv
<1>1. ASSUME NEW e \in Execs, Step(e) \/ Crash(e)
      PROVE  Rests \/ \E s \in Sessions : Kind(s)
  <2>1. CASE \/ ClaimRefused(e) \/ Reenter(e) \/ EntryRefused(e)
             \/ RereadConfirming(e) \/ RereadGone(e) \/ Revalidate(e)
             \/ RedeemRejected(e) \/ Recheck(e) \/ Crash(e)
    BY <2>1, QuietRests
       DEF ClaimRefused, Reenter, EntryRefused, RereadConfirming, RereadGone,
           Revalidate, RedeemRejected, Recheck, Crash, GiveUp,
           sessionVars, claimVars
  <2>2. ASSUME NEW o,
               \/ RedeemPromo(e, o) \/ Release(e, o)
               \/ BackfillRedemptionOrder(e, o) \/ Finish(e, o)
        PROVE  Rests
    BY <2>2, QuietRests
       DEF RedeemPromo, Release, BackfillRedemptionOrder, Finish,
           sessionVars, claimVars
  <2>3. ASSUME NEW o, RequoteItems(e, o) \/ StripPromo(e, o)
        PROVE  Rests \/ \E s \in Sessions : Kind(s)
    BY <2>3, DropKind DEF RequoteItems, StripPromo, Kind
  <2>4. ASSUME NEW o,
               \/ MarkExpired(e, o) \/ Claim(e, o) \/ BeginConfirm(e, o)
               \/ AbortConfirm(e, o) \/ Checkpoint(e, o) \/ CreateOrder(e, o)
               \/ RecordOrder(e, o) \/ CompleteSession(e, o)
        PROVE  Rests \/ \E s \in Sessions : Kind(s)
    BY <1>0, <2>4, LazyKind, ClaimKind, BeginKind, AbortKind, MarkKind, PlaceKind,
       RecordKind, CompleteKind DEF Kind
  <2> QED BY <1>1, <2>1, <2>2, <2>3, <2>4 DEF Step
<1>2. ASSUME NEW s \in Sessions, Shopper(s)
      PROVE  Rests \/ \E t \in Sessions : Kind(t)
  <2>1. ASSUME NEW e \in Execs, NEW k \in Keys, ReadSession(e, s, k) PROVE Rests
    BY <2>1, QuietRests DEF ReadSession, sessionVars, claimVars
  <2>2. ASSUME Touch(s) PROVE Rests
    BY <2>2, QuietRests DEF Touch, Elsewhere, claimVars
  <2> QED BY <1>0, <1>2, <2>1, <2>2, ShopKind DEF Shopper, Kind
<1>3. ASSUME Timers PROVE Rests \/ \E s \in Sessions : Kind(s)
  <2>1. ASSUME NEW s \in Sessions, DeadlinePasses(s) PROVE Rests
    BY <2>1, QuietRests DEF DeadlinePasses, Elsewhere, claimVars
  <2>2. ASSUME NEW k \in Keys, LockGoesStale(k) PROVE Rests
    BY <2>2, QuietRests DEF LockGoesStale, sessionVars
  <2> QED BY <1>0, <1>3, <2>1, <2>2, ShopKind, ReapKind, SweepKind DEF Timers, Kind
<1>4. ASSUME UNCHANGED vars PROVE Rests
  BY <1>4, QuietRests DEF vars, sessionVars, claimVars
<1> QED BY <1>1, <1>2, <1>3, <1>4 DEF Next
-----------------------------------------------------------------------------
(* The invariant.                                                          *)

\* A counted use stays counted.
UsesStay ==
    \A s \in Sessions, c \in Codes :
        redemption[s][c] # "none" => redemption'[s][c] # "none"

\* No step forgets a use.
LEMMA UsesStayStep ==
    ASSUME Typed, [Next]_vars
    PROVE  UsesStay
<1>1. redemption \in [Sessions -> [Codes -> {"none", "counted", "linked"}]]
  BY DEF Typed, TypeOK
<1>2. ASSUME NEW e \in Execs, NEW o, RedeemPromo(e, o) PROVE UsesStay
  BY <1>1, <1>2 DEF RedeemPromo, UsesStay
<1>3. ASSUME NEW e \in Execs, NEW o, BackfillRedemptionOrder(e, o) PROVE UsesStay
  BY <1>1, <1>3 DEF BackfillRedemptionOrder, UsesStay
<1>4. CASE UNCHANGED redemption
  BY <1>4 DEF UsesStay
<1>5. ASSUME NEW e \in Execs, Step(e) \/ Crash(e)
      PROVE  \/ UNCHANGED redemption
             \/ \E o : RedeemPromo(e, o) \/ BackfillRedemptionOrder(e, o)
  <2>1. CASE \E o : \/ MarkExpired(e, o) \/ Claim(e, o) \/ BeginConfirm(e, o)
                  \/ RequoteItems(e, o) \/ StripPromo(e, o)
                  \/ AbortConfirm(e, o) \/ Release(e, o) \/ Checkpoint(e, o)
                  \/ CreateOrder(e, o) \/ RecordOrder(e, o)
                  \/ CompleteSession(e, o) \/ Finish(e, o)
    BY <2>1 DEF MarkExpired, Claim, BeginConfirm, RequoteItems, StripPromo,
       DropToShipping, AbortConfirm, Release, Checkpoint, CreateOrder,
       RecordOrder, CompleteSession, Finish
  <2>2. CASE \/ ClaimRefused(e) \/ Reenter(e) \/ EntryRefused(e)
             \/ RereadConfirming(e) \/ RereadGone(e) \/ Revalidate(e)
             \/ RedeemRejected(e) \/ Recheck(e) \/ Crash(e)
    BY <2>2 DEF ClaimRefused, Reenter, EntryRefused, RereadConfirming,
       RereadGone, Revalidate, RedeemRejected, Recheck, Crash, GiveUp
  <2> QED BY <1>5, <2>1, <2>2 DEF Step
<1>6. ASSUME NEW s \in Sessions, Shopper(s) PROVE UNCHANGED redemption
  BY <1>6 DEF Shopper, ReadSession, SetAddress, SetShipping, SetPayment,
     SetPromo, Cancel, Touch, Elsewhere
<1>7. ASSUME Timers \/ UNCHANGED vars PROVE UNCHANGED redemption
  BY <1>7 DEF Timers, DeadlinePasses, ExpireDue, ExpireParked, LockGoesStale,
     ReapFinished, Elsewhere, vars
<1> QED BY <1>2, <1>3, <1>4, <1>5, <1>6, <1>7 DEF Next

\* An execution comes to its marker without a promo, or with its use counted.
LEMMA CountedAtMarkStep ==
    ASSUME Typed, CountedAtMark, [Next]_vars
    PROVE  CountedAtMark'
<1> DEFINE Still(x) == pc[x] = "mark" /\ es'[x] = es[x] /\ snap'[x] = snap[x]
           Comes(x) == /\ pc'[x] = "mark"
                       /\ Revalidate(x) \/ \E o : RedeemPromo(x, o)
           Ok == \A x \in Execs : pc'[x] = "mark" => Still(x) \/ Comes(x)
<1> USE DEF Typed, TypeOK, LocalsTyped
<1>1. ASSUME NEW e \in Execs, NEW l, l # "mark", Goto(e, l) \/ Return(e)
      PROVE  Ok
  BY <1>1 DEF Goto, Return, localVars
<1>2. ASSUME NEW e \in Execs, NEW l, l # "mark", NEW new,
             pc' = [pc EXCEPT ![e] = l], snap' = [snap EXCEPT ![e] = new],
             \A x \in Execs \ {e} : es'[x] = es[x]
      PROVE  Ok
  BY <1>2
<1>3. ASSUME NEW e \in Execs, Step(e) \/ Crash(e) PROVE Ok
  <2>1. CASE Revalidate(e) \/ \E o \in Outcomes : RedeemPromo(e, o)
    BY <2>1 DEF Revalidate, RedeemPromo, Goto, localVars
  <2>2. CASE \/ ClaimRefused(e) \/ Reenter(e) \/ EntryRefused(e)
             \/ RereadGone(e) \/ RedeemRejected(e) \/ Crash(e)
    BY <1>1, <2>2 DEF ClaimRefused, Reenter, EntryRefused, RereadGone,
       RedeemRejected, Crash, GiveUp
  <2>3. CASE RereadConfirming(e) \/ Recheck(e)
    <3>1. CASE GiveUp(e)
      BY <3>1 DEF GiveUp, Return
    <3>2. CASE RereadConfirming(e)
      BY <1>2, <3>2 DEF RereadConfirming, AfterReread
    <3>3. CASE Recheck(e) /\ ~GiveUp(e)
      BY <1>2, <3>3 DEF Recheck
    <3> QED BY <2>3, <3>1, <3>2, <3>3
  <2>4. ASSUME NEW o,
               \/ MarkExpired(e, o) \/ BeginConfirm(e, o) \/ AbortConfirm(e, o)
               \/ Release(e, o) \/ RecordOrder(e, o) \/ Finish(e, o)
               \/ BackfillRedemptionOrder(e, o)
        PROVE  Ok
    BY <1>1, <2>4 DEF MarkExpired, BeginConfirm, AbortConfirm, Release,
       RecordOrder, Finish, BackfillRedemptionOrder
  <2>5. ASSUME NEW o, \/ Claim(e, o) \/ Checkpoint(e, o) \/ CreateOrder(e, o)
                      \/ RequoteItems(e, o) \/ StripPromo(e, o)
                      \/ CompleteSession(e, o)
        PROVE  Ok
    <3>1. CASE Claim(e, o)
      BY <1>1, <3>1 DEF Claim
    <3>2. CASE CreateOrder(e, o) \/ CompleteSession(e, o) \/ Checkpoint(e, o)
      BY <1>1, <3>2 DEF CreateOrder, AfterCreate, CompleteSession, Checkpoint
    <3>3. CASE RequoteItems(e, o) \/ StripPromo(e, o)
      BY <1>1, <3>3 DEF RequoteItems, StripPromo, DropToShipping
    <3> QED BY <2>5, <3>1, <3>2, <3>3
  <2> QED BY <1>3, <2>1, <2>2, <2>3, <2>4, <2>5 DEF Step
<1>4. ASSUME NEW s \in Sessions, Shopper(s) PROVE Ok
  <2>1. ASSUME NEW e \in Execs, NEW k \in Keys, ReadSession(e, s, k) PROVE Ok
    BY <2>1 DEF ReadSession
  <2> QED BY <1>4, <2>1 DEF Shopper, SetAddress, SetShipping, SetPayment,
          SetPromo, Cancel, Touch, Elsewhere, localVars
<1>5. ASSUME Timers \/ UNCHANGED vars PROVE Ok
  BY <1>5 DEF Timers, DeadlinePasses, ExpireDue, ExpireParked, LockGoesStale,
     ReapFinished, Elsewhere, vars, localVars
<1>6. Ok
  BY <1>3, <1>4, <1>5 DEF Next
<1>7. ASSUME NEW x \in Execs, pc'[x] = "mark", Promo(x)' # NoCode
      PROVE  (redemption[es[x]][Promo(x)])' # "none"
  <2>1. pc[x] # "idle" /\ es'[x] = es[x] /\ snap'[x] = snap[x]
    BY <1>6, <1>7 DEF Revalidate, RedeemPromo, Goto, localVars
  <2>2. /\ es[x] \in Sessions /\ Promo(x)' = Promo(x) /\ Promo(x) \in Codes
    BY <1>7, <2>1, ConfirmAssumption DEF HasArguments, Promo
  <2>3. CASE Still(x)
    BY <1>7, <2>1, <2>2, <2>3, UsesStayStep DEF CountedAtMark, UsesStay
  <2>4. CASE Revalidate(x)
    BY <1>7, <2>2, <2>4 DEF Revalidate, Goto
  <2>5. ASSUME NEW o, RedeemPromo(x, o) PROVE redemption'[es[x]][Promo(x)] # "none"
    <3>1. o = "ok"
      BY <1>7, <2>5 DEF RedeemPromo, AfterRedeem, Goto
    <3> QED BY <2>2, <2>5, <3>1 DEF RedeemPromo, Applied
  <2> QED BY <1>6, <1>7, <2>1, <2>2, <2>3, <2>4, <2>5
<1> QED BY <1>7 DEF CountedAtMark

\* Each kind of step keeps what holds without edits during a confirm.
LEMMA CalmStep ==
    ASSUME ~MidConfirmEdits, IInv, CalmInv, [Next]_vars
    PROVE  CalmInv'
<1>1. Rests \/ \E s \in Sessions : Kind(s)
  BY StepKinds
<1>2. UsesStay /\ CountedAtMark'
  BY UsesStayStep, CountedAtMarkStep DEF IInv, CalmInv
<1>3. /\ bound \in [Sessions -> ClaimIds] /\ content \in [Sessions -> Contents]
      /\ orders \in [Sessions -> [Keys -> Shown]]
      /\ content' \in [Sessions -> Contents]
      /\ orders' \in [Sessions -> [Keys -> Shown]]
  BY TypedStep DEF IInv, Typed, TypeOK, SessionsTyped
\* A session none of whose columns moves, nor its attempt begins.
<1>4. ASSUME NEW t \in Sessions,
             status'[t] = status[t], bound'[t] = bound[t],
             content'[t] = content[t], orders'[t] = orders[t]
      PROVE  /\ bound'[t] # Unbound => status'[t] \in {"confirming", "completed"}
             /\ \A k \in Keys : Ordered(t, k)' => orders'[t][k] = content'[t]
             /\ HasOrder(t)' <=> HasOrder(t)
             /\ Counted(t) => Counted(t)'
  <2>1. PromoOf[content[t]] \in Codes \cup {NoCode}
    BY <1>3, ConfirmAssumption
  <2>2. Counted(t) => Counted(t)'
    BY <1>2, <1>4, <2>1 DEF UsesStay, Counted
  <2> QED BY <1>4, <2>2 DEF CalmInv, BoundIsConfirming, OrderMatchesSession,
          Ordered, HasOrder
<1>5. CASE Rests
  BY <1>2, <1>4, <1>5 DEF Rests, CalmInv, BoundIsConfirming,
     OrderMatchesSession, AttemptIsCounted
<1>6. ASSUME NEW s \in Sessions, Kind(s) PROVE CalmInv'
  <2>1. \A t \in Sessions \ {s} :
          /\ bound'[t] # Unbound => status'[t] \in {"confirming", "completed"}
          /\ \A k \in Keys : Ordered(t, k)' => orders'[t][k] = content'[t]
          /\ Attempted(t)' \/ HasOrder(t)' => Counted(t)'
    <3>1. OnlyAt(s)
      BY <1>6 DEF Kind, Shops, Binds, Unbinds, Marks, Places, Completes
    <3> QED BY <1>4, <3>1 DEF OnlyAt, CalmInv, AttemptIsCounted
  <2> SUFFICES /\ bound'[s] # Unbound => status'[s] \in {"confirming", "completed"}
               /\ \A k \in Keys : Ordered(s, k)' => orders'[s][k] = content'[s]
               /\ Attempted(s)' \/ HasOrder(s)' => Counted(s)'
    BY <1>2, <2>1 DEF CalmInv, BoundIsConfirming, OrderMatchesSession,
       AttemptIsCounted
  <2>2. OrderInv
    BY DEF IInv
  <2>3. bound'[s] = Unbound => ~Attempted(s)'
    BY LeftUnbound
  <2>4. ASSUME orders'[s] = orders[s], ~HasOrder(s)
        PROVE  /\ ~HasOrder(s)' /\ \A k \in Keys : ~Ordered(s, k)'
    BY <2>4 DEF HasOrder, Ordered
  <2>5. CASE Shops(s) \/ Binds(s)
    <3>1. ~HasOrder(s)
      BY <2>2, <2>5, UnboundIsFree DEF Shops, Binds
    <3> QED BY <2>3, <2>4, <2>5, <3>1 DEF Shops, Binds
  <2>6. CASE Unbinds(s)
    <3>1. ~HasOrder(s)
      BY <2>2, <2>6, OrderedIsAttempted DEF Unbinds
    <3> QED BY <2>3, <2>4, <2>6, <3>1 DEF Unbinds
  <2>7. CASE Marks(s)
    BY <1>4, <2>7 DEF Marks
  <2>8. CASE Places(s)
    <3>1. Counted(s)
      BY <2>8 DEF Places, CalmInv, AttemptIsCounted
    <3>2. Counted(s)'
      <4>1. PromoOf[content[s]] \in Codes \cup {NoCode}
        BY <1>3, ConfirmAssumption
      <4> QED BY <1>2, <2>8, <3>1, <4>1 DEF Places, UsesStay, Counted
    <3>3. \A k \in Keys : Ordered(s, k)' => orders'[s][k] = content'[s]
      BY <2>8 DEF Places, Ordered, CalmInv, OrderMatchesSession
    <3> QED BY <2>8, <3>2, <3>3 DEF Places, CalmInv, BoundIsConfirming
  <2>9. CASE Completes(s)
    <3>1. Counted(s)
      BY <2>9 DEF Completes, CalmInv, AttemptIsCounted
    <3>2. Counted(s)'
      <4>1. PromoOf[content[s]] \in Codes \cup {NoCode}
        BY <1>3, ConfirmAssumption
      <4> QED BY <1>2, <2>9, <3>1, <4>1 DEF Completes, UsesStay, Counted
    <3>3. \A k \in Keys : Ordered(s, k)' => orders'[s][k] = content'[s]
      BY <2>9 DEF Completes, Ordered, CalmInv, OrderMatchesSession
    <3> QED BY <2>9, <3>2, <3>3 DEF Completes
  <2> QED BY <1>6, <2>5, <2>6, <2>7, <2>8, <2>9 DEF Kind
<1> QED BY <1>1, <1>5, <1>6

\* A session starts unbound, and without an order.
LEMMA CalmInit == Init => CalmInv
BY ConfirmAssumption DEF Init, CalmInv, BoundIsConfirming, OrderMatchesSession,
   AttemptIsCounted, CountedAtMark, Ordered, HasOrder, Attempted, ClaimId, Unbound

\* Both invariants hold of every reachable state.
THEOREM CalmInvariance ==
    ASSUME ~MidConfirmEdits
    PROVE  Spec => [](IInv /\ CalmInv)
<1>1. Init => IInv /\ CalmInv
  BY InitIInv, CalmInit
<1>2. IInv /\ CalmInv /\ [Next]_vars => (IInv /\ CalmInv)'
  BY StepIInv, CalmStep
<1> QED BY <1>1, <1>2, PTL DEF Spec
-----------------------------------------------------------------------------
(* The theorems about the order and the attempt.                           *)

\* An order is for the contents its session shows, for ever.
THEOREM OrdersMatch ==
    ASSUME ~MidConfirmEdits
    PROVE  Spec => []OrderMatchesSession
<1>1. CalmInv => OrderMatchesSession
  BY DEF CalmInv
<1> QED BY <1>1, CalmInvariance, PTL

\* A session with an order is confirming or completed.
THEOREM OrdersAreNotStranded ==
    ASSUME ~MidConfirmEdits
    PROVE  Spec => []OrderNeverStranded
<1>1. IInv /\ CalmInv => OrderNeverStranded
  <2> SUFFICES ASSUME IInv, CalmInv, NEW s \in Sessions, NEW k \in Keys,
                      Ordered(s, k)
               PROVE  status[s] \in {"confirming", "completed"}
    BY DEF OrderNeverStranded
  <2>1. bound[s].key = k
    BY DEF IInv, OrderInv, OrderBindsSession
  <2>2. bound[s] # Unbound
    BY <2>1, ConfirmAssumption DEF Unbound
  <2> QED BY <2>2 DEF CalmInv, BoundIsConfirming
<1> QED BY <1>1, CalmInvariance, PTL

\* The use of an order's promo code has been counted.
THEOREM OrderedPromosAreCounted ==
    ASSUME ~MidConfirmEdits
    PROVE  Spec => []PromoOrderCounted
<1>1. CalmInv => PromoOrderCounted
  BY DEF CalmInv, OrderMatchesSession, AttemptIsCounted, HasOrder, Counted,
         PromoOrderCounted
<1> QED BY <1>1, CalmInvariance, PTL

\* From its marker on an attempt is only driven forward.
THEOREM AttemptsAreFrozen ==
    ASSUME ~MidConfirmEdits
    PROVE  Spec => AttemptIsFrozen
<1>1. ASSUME IInv, CalmInv, [Next]_vars, NEW s \in Sessions, Attempted(s)
      PROVE  /\ bound'[s] = bound[s] /\ content'[s] = content[s]
             /\ status'[s] \in {status[s], "completed"}
  <2>1. CASE Rests
    BY <2>1 DEF Rests
  <2>2. ASSUME NEW t \in Sessions, t # s, Kind(t)
        PROVE  /\ bound'[s] = bound[s] /\ content'[s] = content[s]
               /\ status'[s] = status[s]
    BY <2>2 DEF Kind, Shops, Binds, Unbinds, Marks, Places, Completes, OnlyAt
  <2>3. ASSUME Kind(s)
        PROVE  /\ bound'[s] = bound[s] /\ content'[s] = content[s]
               /\ status'[s] \in {status[s], "completed"}
    <3>1. ~Shops(s) /\ ~Binds(s) /\ ~Unbinds(s)
      BY <1>1, UnboundIsFree DEF IInv, Shops, Binds, Unbinds
    <3> QED BY <2>3, <3>1 DEF Kind, Marks, Places, Completes
  <2> QED BY <1>1, <2>1, <2>2, <2>3, StepKinds
<1> DEFINE Frozen ==
        \A s \in Sessions : Attempted(s) =>
            /\ bound'[s] = bound[s] /\ content'[s] = content[s]
            /\ status'[s] \in {status[s], "completed"}
<1>2. IInv /\ CalmInv /\ [Next]_vars => [Frozen]_vars
  BY <1>1
<1>3. Spec => [][Frozen]_vars
  BY <1>2, CalmInvariance, PTL DEF Spec
<1> QED BY <1>3 DEF AttemptIsFrozen
-----------------------------------------------------------------------------
(* The status.  This holds with edits during a confirm as well.            *)

Follows(s) ==
    \/ status'[s] = status[s]
    \/ CanTransition(status[s], status'[s])
    \/ /\ status[s] = "confirming" /\ status'[s] = "expired"
       /\ \A k \in Keys : ~Ordered(s, k)

\* The edges the confirm and the expiry use.
LEMMA Edges ==
    /\ \A w \in Working : CanTransition(w, "expired")
    /\ CanTransition("ready", "confirming")
    /\ \A to \in {"shipping_set", "ready", "completed"} :
          CanTransition("confirming", to)
BY DEF Working, CanTransition, transitions

\* One session moving along an edge.
LEMMA EdgeFollows ==
    ASSUME Typed, NEW x \in Sessions, NEW to, CanTransition(status[x], to),
           status' = [status EXCEPT ![x] = to]
    PROVE  \A s \in Sessions : Follows(s)
BY DEF Typed, TypeOK, SessionsTyped, Follows

\* Every step moves the statuses so.
LEMMA FollowsStep ==
    ASSUME IInv, [Next]_vars
    PROVE  \A s \in Sessions : Follows(s)
<1> DEFINE Goal == \A s \in Sessions : Follows(s)
<1>1. Typed
  BY DEF IInv
<1>2. CASE UNCHANGED status
  BY <1>2 DEF Follows
<1>3. ASSUME NEW e \in Execs, pc[e] # "idle" PROVE es[e] \in Sessions
  BY <1>1, <1>3 DEF Typed, HasArguments
<1>4. ASSUME NEW e \in Execs, NEW o, MarkExpired(e, o) PROVE Goal
  BY <1>1, <1>2, <1>3, <1>4, Edges, EdgeFollows DEF MarkExpired, Expirable
<1>5. ASSUME NEW e \in Execs, NEW o, BeginConfirm(e, o) PROVE Goal
  BY <1>1, <1>2, <1>3, <1>5, Edges, EdgeFollows DEF BeginConfirm, CanBegin
<1>6. ASSUME NEW e \in Execs, NEW o, NEW c, pc[e] # "idle", DropToShipping(e, o, c)
      PROVE  Goal
  BY <1>1, <1>2, <1>3, <1>6, Edges, EdgeFollows DEF DropToShipping, Holds
<1>7. ASSUME NEW e \in Execs, NEW o, AbortConfirm(e, o) PROVE Goal
  BY <1>1, <1>2, <1>3, <1>7, Edges, EdgeFollows DEF AbortConfirm, Holds
<1>8. ASSUME NEW e \in Execs, NEW o, CompleteSession(e, o) PROVE Goal
  BY <1>1, <1>2, <1>3, <1>8, Edges, EdgeFollows DEF CompleteSession, Holds
<1>9. ASSUME NEW e \in Execs, Step(e) \/ Crash(e) PROVE Goal
  <2>1. CASE \/ ClaimRefused(e) \/ Reenter(e) \/ EntryRefused(e)
             \/ RereadConfirming(e) \/ RereadGone(e) \/ Revalidate(e)
             \/ RedeemRejected(e) \/ Recheck(e) \/ Crash(e)
    BY <1>2, <2>1
       DEF ClaimRefused, Reenter, EntryRefused, RereadConfirming, RereadGone,
           Revalidate, RedeemRejected, Recheck, Crash, GiveUp, sessionVars
  <2>2. ASSUME NEW o,
               \/ RedeemPromo(e, o) \/ Release(e, o) \/ RecordOrder(e, o)
               \/ BackfillRedemptionOrder(e, o) \/ Finish(e, o) \/ Claim(e, o)
               \/ Checkpoint(e, o) \/ CreateOrder(e, o)
        PROVE  Goal
    BY <1>2, <2>2
       DEF RedeemPromo, Release, RecordOrder, BackfillRedemptionOrder, Finish,
           Claim, Checkpoint, CreateOrder, sessionVars
  <2>3. ASSUME NEW o, RequoteItems(e, o) \/ StripPromo(e, o) PROVE Goal
    BY <1>6, <2>3 DEF RequoteItems, StripPromo
  <2> QED BY <1>4, <1>5, <1>7, <1>8, <1>9, <2>1, <2>2, <2>3 DEF Step
<1>10. ASSUME NEW s \in Sessions, Shopper(s) PROVE Goal
  <2>1. ASSUME NEW to, FunnelWrite(s, to) PROVE Goal
    BY <1>1, <2>1, EdgeFollows DEF FunnelWrite
  <2>2. ASSUME Cancel(s) PROVE Goal
    BY <1>1, <2>2, EdgeFollows DEF Cancel
  <2>3. ASSUME NEW e \in Execs, NEW k \in Keys, ReadSession(e, s, k) PROVE Goal
    BY <1>2, <2>3 DEF ReadSession, sessionVars
  <2>4. ASSUME SetPromo(s) \/ Touch(s) PROVE Goal
    BY <1>2, <2>4 DEF SetPromo, Touch
  <2> QED BY <1>10, <2>1, <2>2, <2>3, <2>4
          DEF Shopper, SetAddress, SetShipping, SetPayment
<1>11. ASSUME NEW s \in Sessions, ExpireParked(s) PROVE Goal
  <2>1. PICK k \in Keys : bound[s] = ClaimId(k) /\ subject[k] = "none"
    BY <1>11 DEF ExpireParked, ProvablyDead
  \* An order would be under this very claim, and mark it.
  <2>2. \A j \in Keys : ~Ordered(s, j)
    BY <1>11, <2>1, AttemptIsBindings, OrderedIsAttempted
       DEF ExpireParked, IInv, HasOrder
  <2> QED BY <1>1, <1>11, <2>2
          DEF ExpireParked, Follows, Typed, TypeOK, SessionsTyped
<1>12. ASSUME NEW s \in Sessions, DeadlinePasses(s) \/ ExpireDue(s) PROVE Goal
  BY <1>1, <1>2, <1>12, Edges, EdgeFollows DEF DeadlinePasses, ExpireDue, Expirable
<1>13. ASSUME NEW k \in Keys, LockGoesStale(k) \/ ReapFinished(k) PROVE Goal
  BY <1>2, <1>13 DEF LockGoesStale, ReapFinished, sessionVars
<1>14. CASE UNCHANGED vars
  BY <1>2, <1>14 DEF vars, sessionVars
<1> QED BY <1>9, <1>10, <1>11, <1>12, <1>13, <1>14 DEF Next, Timers

\* A session's status moves along the FSM's edges; a parked confirm without an
\* order may also expire.
THEOREM StatusMoves == Spec => StatusFollowsFSM
<1> DEFINE Moves == \A s \in Sessions : Follows(s)
<1>1. IInv /\ [Next]_vars => [Moves]_vars
  BY FollowsStep
<1>2. Spec => [][Moves]_vars
  BY <1>1, Invariance, PTL DEF Spec
<1> QED BY <1>2 DEF StatusFollowsFSM, Follows
-----------------------------------------------------------------------------
(* The refinement: each kind of step is a step of PurchaseOnce.            *)

Stage(s) ==
    IF status[s] = "completed" THEN "completed"
    ELSE IF HasOrder(s) THEN "ordered"
    ELSE IF Attempted(s) THEN "committed"
    ELSE IF status[s] \in Terminal THEN "dropped" ELSE "shopping"
Buys(s)  == Stage(s) \notin {"shopping", "dropped"}
Buyer(s) == IF Buys(s) THEN bound[s].key ELSE NoKey
Terms(s) == IF Buys(s) THEN content[s] ELSE NoContent

\* The mapping, session by session.
LEMMA Mapping ==
    /\ stageOf = [s \in Sessions |-> Stage(s)]
    /\ buyerOf = [s \in Sessions |-> Buyer(s)]
    /\ termsOf = [s \in Sessions |-> Terms(s)]
    /\ stageOf' = [s \in Sessions |-> Stage(s)']
    /\ buyerOf' = [s \in Sessions |-> Buyer(s)']
    /\ termsOf' = [s \in Sessions |-> Terms(s)']
<1>1. /\ stageOf = [s \in Sessions |-> Stage(s)]
      /\ stageOf' = [s \in Sessions |-> Stage(s)']
  BY DEF stageOf, Stage
<1>2. /\ \A s \in Sessions : isBuying[s] <=> Buys(s)
      /\ \A s \in Sessions : isBuying'[s] <=> Buys(s)'
  BY <1>1 DEF isBuying, Buys
<1> QED BY <1>1, <1>2 DEF buyerOf, termsOf, Buyer, Terms

\* A session stays where it is on the abstract side.
StaysPut(t) ==
    Stage(t)' = Stage(t) /\ Buyer(t)' = Buyer(t) /\ Terms(t)' = Terms(t)

\* A session whose columns and attempt stay.
LEMMA SameView ==
    ASSUME NEW t, status'[t] = status[t], bound'[t] = bound[t],
           content'[t] = content[t], orders'[t] = orders[t],
           (Attempted(t)' <=> Attempted(t)) \/ status[t] = "completed"
    PROVE  StaysPut(t)
<1>1. HasOrder(t)' <=> HasOrder(t)
  BY DEF HasOrder, Ordered
<1>2. Stage(t)' = Stage(t)
  BY <1>1 DEF Stage
<1> QED BY <1>2 DEF StaysPut, Buyer, Terms, Buys

\* If all do, nothing happens on the abstract side.
LEMMA AllStayPut ==
    ASSUME \A t \in Sessions : StaysPut(t)
    PROVE  UNCHANGED <<stageOf, buyerOf, termsOf>>
BY Mapping DEF StaysPut

\* One session moves to a stage.
LEMMA OneMoves ==
    ASSUME NEW s \in Sessions, \A t \in Sessions \ {s} : StaysPut(t)
    PROVE  /\ stageOf' = [stageOf EXCEPT ![s] = Stage(s)']
           /\ buyerOf' = [buyerOf EXCEPT ![s] = Buyer(s)']
           /\ termsOf' = [termsOf EXCEPT ![s] = Terms(s)']
BY Mapping DEF StaysPut

\* If its buyer and terms stay, only its stage does.
LEMMA AdvanceStep ==
    ASSUME NEW s \in Sessions, \A t \in Sessions \ {s} : StaysPut(t),
           Buyer(s)' = Buyer(s), Terms(s)' = Terms(s)
    PROVE  /\ buyerOf' = buyerOf /\ termsOf' = termsOf
           /\ stageOf' = [stageOf EXCEPT ![s] = Stage(s)']
           /\ stageOf[s] = Stage(s)
<1>1. /\ buyerOf' = [buyerOf EXCEPT ![s] = Buyer(s)]
      /\ termsOf' = [termsOf EXCEPT ![s] = Terms(s)]
  BY OneMoves
<1> QED BY <1>1, OneMoves, Mapping

\* What each kind is on the abstract side, for the session it is about.
LEMMA KindStages ==
    ASSUME IInv, CalmInv, NEW s \in Sessions, Kind(s)
    PROVE  \/ StaysPut(s)
           \/ /\ Stage(s) = "shopping" /\ Stage(s)' = "committed"
              /\ Buyer(s)' \in Keys /\ Terms(s)' \in Contents
           \/ /\ <<Stage(s), Stage(s)'>> \in
                    {<<"shopping", "dropped">>, <<"committed", "ordered">>,
                     <<"ordered", "completed">>}
              /\ Buyer(s)' = Buyer(s) /\ Terms(s)' = Terms(s)
<1> USE DEF StaysPut, Buyer, Terms, Buys
<1>1. OrderInv /\ content[s] \in Contents
  BY DEF IInv, Typed, TypeOK, SessionsTyped
<1>2. orders'[s] = orders[s] => (HasOrder(s)' <=> HasOrder(s))
  BY DEF HasOrder, Ordered
<1>3. CASE Shops(s)
  <2>1. ~Attempted(s) /\ ~HasOrder(s)
    BY <1>1, <1>3, UnboundIsFree DEF Shops
  <2>2. ~Attempted(s)'
    BY <1>3, LeftUnbound DEF Shops
  <2>3. Stage(s) = "shopping" /\ Stage(s)' \in {"shopping", "dropped"}
    BY <1>2, <1>3, <2>1, <2>2 DEF Shops, Stage, Working, Terminal
  <2> QED BY <2>3
<1>4. CASE Binds(s)
  <2>1. ~Attempted(s) /\ ~HasOrder(s)
    BY <1>1, <1>4, UnboundIsFree DEF Binds
  <2>2. Stage(s) = "shopping" /\ Stage(s)' = "shopping"
    BY <1>2, <1>4, <2>1 DEF Binds, Stage, Terminal
  <2> QED BY <2>2
<1>5. CASE Unbinds(s)
  <2>1. ~HasOrder(s)
    BY <1>1, <1>5, OrderedIsAttempted DEF Unbinds
  <2>2. ~Attempted(s)'
    BY <1>5, LeftUnbound DEF Unbinds
  <2>3. Stage(s) = "shopping" /\ Stage(s)' \in {"shopping", "dropped"}
    BY <1>2, <1>5, <2>1, <2>2 DEF Unbinds, Stage, Terminal
  <2> QED BY <2>3
<1>6. CASE Marks(s)
  <2>1. /\ status'[s] = status[s] /\ bound'[s] = bound[s] /\ content'[s] = content[s]
        /\ HasOrder(s)' <=> HasOrder(s)
    BY <1>2, <1>6 DEF Marks
  <2>2. CASE status[s] = "completed" \/ HasOrder(s) \/ Attempted(s)
    <3>1. Stage(s)' = Stage(s)
      BY <1>6, <2>1, <2>2 DEF Marks, Stage
    <3> QED BY <2>1, <3>1
  <2>3. CASE status[s] # "completed" /\ ~HasOrder(s) /\ ~Attempted(s)
    <3>1. status[s] = "confirming"
      BY <1>6, <2>3 DEF Marks, CalmInv, BoundIsConfirming
    <3>2. Stage(s) = "shopping" /\ Stage(s)' = "committed"
      BY <1>6, <2>1, <2>3, <3>1 DEF Marks, Stage, Terminal
    <3> QED BY <1>1, <1>6, <2>1, <3>2 DEF Marks
  <2> QED BY <2>2, <2>3
<1>7. CASE Places(s)
  <2>1. /\ status'[s] = status[s] /\ bound'[s] = bound[s] /\ content'[s] = content[s]
    BY <1>7 DEF Places
  <2>2. Stage(s) \in {"committed", "ordered"} /\ Stage(s)' = "ordered"
    BY <1>7 DEF Places, Stage
  <2> QED BY <2>1, <2>2
<1>8. CASE Completes(s)
  <2>1. Stage(s) = "ordered" /\ Stage(s)' = "completed"
    BY <1>8 DEF Completes, Stage
  <2> QED BY <1>8, <2>1 DEF Completes
<1> QED BY <1>3, <1>4, <1>5, <1>6, <1>7, <1>8 DEF Kind

\* So every step is one of PurchaseOnce, or a stutter.
LEMMA Simulation ==
    ASSUME ~MidConfirmEdits, IInv, CalmInv, [Next]_vars
    PROVE  [Purchase!Next]_(Purchase!vars)
<1>1. CASE Rests
  <2>1. \A t \in Sessions : StaysPut(t)
    BY <1>1, SameView DEF Rests
  <2> QED BY <2>1, AllStayPut DEF Purchase!vars
<1>2. ASSUME NEW s \in Sessions, Kind(s)
      PROVE  [Purchase!Next]_(Purchase!vars)
  <2>1. \A t \in Sessions \ {s} : StaysPut(t)
    <3>1. OnlyAt(s)
      BY <1>2 DEF Kind, Shops, Binds, Unbinds, Marks, Places, Completes
    <3> QED BY <3>1, SameView DEF OnlyAt
  <2>2. CASE StaysPut(s)
    <3>1. \A t \in Sessions : StaysPut(t)
      BY <2>1, <2>2
    <3> QED BY <3>1, AllStayPut DEF Purchase!vars
  <2>3. CASE /\ Stage(s) = "shopping" /\ Stage(s)' = "committed"
             /\ Buyer(s)' \in Keys /\ Terms(s)' \in Contents
    <3>1. stageOf[s] = "shopping"
      BY <2>3, Mapping
    <3>2. Purchase!Commit(s, Buyer(s)', Terms(s)')
      BY <2>1, <2>3, <3>1, OneMoves DEF Purchase!Commit
    <3> QED BY <2>3, <3>2 DEF Purchase!Next
  <2>4. CASE /\ <<Stage(s), Stage(s)'>> \in
                    {<<"shopping", "dropped">>, <<"committed", "ordered">>,
                     <<"ordered", "completed">>}
             /\ Buyer(s)' = Buyer(s) /\ Terms(s)' = Terms(s)
    <3>1. Purchase!Advance(s, Stage(s), Stage(s)')
      BY <2>1, <2>4, AdvanceStep DEF Purchase!Advance
    <3>2. Purchase!Drop(s) \/ Purchase!Order(s) \/ Purchase!Complete(s)
      BY <2>4, <3>1 DEF Purchase!Drop, Purchase!Order, Purchase!Complete
    <3> QED BY <3>2 DEF Purchase!Next
  <2> QED BY <1>2, <2>2, <2>3, <2>4, KindStages
<1> QED BY <1>1, <1>2, StepKinds

\* A fresh session is being shopped on.
LEMMA SimulationInit == Init => Purchase!Init
<1> SUFFICES ASSUME Init PROVE Purchase!Init
  OBVIOUS
<1>1. ASSUME NEW s \in Sessions PROVE Stage(s) = "shopping"
  <2>1. bound[s] = Unbound /\ OrderInv
    BY InitIInv DEF Init, IInv
  <2>2. ~Attempted(s) /\ ~HasOrder(s) /\ status[s] = "open"
    BY <2>1, UnboundIsFree DEF Init
  <2> QED BY <2>2 DEF Stage, Terminal
<1> QED BY <1>1, Mapping DEF Purchase!Init, Buyer, Terms, Buys

\* The confirm is one purchase per session: shopped on until it is dropped or
\* one key commits it to what it shows; then one order for that, and completed.
THEOREM Refinement ==
    ASSUME ~MidConfirmEdits
    PROVE  Spec => ImplementsPurchase
<1>1. IInv /\ CalmInv /\ [Next]_vars => [Purchase!Next]_(Purchase!vars)
  BY Simulation
<1>2. Spec => Purchase!Init /\ [][Purchase!Next]_(Purchase!vars)
  BY <1>1, SimulationInit, CalmInvariance, PTL DEF Spec
<1> QED BY <1>2 DEF ImplementsPurchase, Purchase!Spec
=============================================================================
