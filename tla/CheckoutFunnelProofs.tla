------------------------- MODULE CheckoutFunnelProofs -------------------------
(***************************************************************************)
(* Proofs about the funnel, for any number of overlapping requests and any *)
(* regions, methods, codes, fees, rates and subtotals.                     *)
(*                                                                         *)
(* A request that is about to write has a status from which the FSM allows *)
(* its write (Allowed), and, while its read is the row's latest revision,  *)
(* values that fit the row (Current).  The confirm's copy is the row as    *)
(* long as the session is confirming (SnapInv), since whatever writes a    *)
(* confirming session takes it out of confirming.                          *)
(***************************************************************************)
EXTENDS CheckoutFunnel, TLAPS

Labels == {"idle", "lazy", "write", "reread", "touch", "cancelled"}
Steps == {"idle", "lazy", "begin", "reread", "authorize", "place", "complete"}

\* TypeOK without the flags.
Typed ==
    /\ status \in Status /\ sheet \in Sheets /\ fresh \subseteq Requests
    /\ pc \in [Requests -> Labels] /\ task \in [Requests -> Tasks]
    /\ cpc \in Steps /\ snap \in Sheets
    /\ retired \subseteq Retirable

Allowed(t) ==
    /\ t.op = "address" => CanTransition(t.from, "address_set")
    /\ t.op = "shipping" =>
            CanTransition(t.from, "shipping_set") /\ t.method \in Methods
    /\ t.op = "payment" => CanTransition(t.from, "ready")
    /\ t.op \in {"apply", "remove"} => t.from \in Working
    /\ t.op = "cancel" => CanTransition(t.from, "cancelled")

Current(t, q) ==
    /\ t.op = "address" => Gives(q.promo, q.subtotal, 0, 0, t.discount)
    /\ t.op = "shipping" =>
            /\ q.region \in Regions
            /\ t.fee = Fee[t.method][q.region]
            /\ t.tax = flatTax(q.subtotal + t.fee, RateBps[q.region])
            /\ Gives(q.promo, q.subtotal, t.fee, t.tax, t.discount)
    /\ t.op \in {"apply", "remove"} =>
            Gives(t.promo, q.subtotal, q.fee, q.tax, t.discount)

TaskInv ==
    \A r \in Requests :
        pc[r] = "write" => /\ Allowed(task[r])
                           /\ r \in fresh => Current(task[r], sheet)

Reread == {"authorize", "place"}
SnapInv == cpc \in Reread /\ status = "confirming" => snap = sheet

AddsUp(q) == q.total = Ceiling(q) - q.discount

QuoteFits(q) ==
    /\ AddsUp(q)
    /\ q.method # NoMethod =>
          /\ q.region # NoRegion
          /\ q.fee = Fee[q.method][q.region]
          /\ q.tax = flatTax(q.subtotal + q.fee, RateBps[q.region])

Confirmable == {"shipping_set", "ready", "confirming", "completed"}
IsQuoted(q) == q.region # NoRegion /\ q.method # NoMethod

RowInv == QuoteFits(sheet) /\ (status \in Confirmable => IsQuoted(sheet))

IInv == Typed /\ TaskInv /\ SnapInv /\ RowInv
-----------------------------------------------------------------------------
(* The sums.                                                               *)

LEMMA FlatTaxType ==
    ASSUME NEW base \in Nat, NEW bps \in Nat PROVE flatTax(base, bps) \in Nat
<1>1. base * bps \in Nat
  OBVIOUS
<1>2. \A n \in Nat : n \div 10000 \in Nat
  OBVIOUS
<1> QED BY <1>1, <1>2 DEF flatTax

LEMMA DiscountType ==
    ASSUME NEW c \in Codes \cup {NoCode}, NEW subtotal \in Nat, NEW fee \in Nat,
           NEW tax \in Nat
    PROVE  /\ discountFor(c, subtotal, fee, tax) \in Nat
           /\ discountFor(c, subtotal, fee, tax) <= subtotal + fee + tax
<1>1. CASE c = NoCode
  BY <1>1 DEF discountFor
<1>2. CASE c # NoCode
  <2> DEFINE cut == IF c \in Percent THEN flatTax(subtotal, Value[c] * 100) ELSE Value[c]
  <2>1. Value[c] \in Nat
    BY <1>2, FunnelAssumption
  <2>2. Value[c] * 100 \in Nat
    BY <2>1
  <2>4. flatTax(subtotal, Value[c] * 100) \in Nat
    BY <2>2, FlatTaxType
  <2>5. cut \in Nat
    BY <2>1, <2>4
  <2>3. discountFor(c, subtotal, fee, tax) = Min2(cut, subtotal + fee + tax)
    BY <1>2 DEF discountFor
  <2> HIDE DEF cut
  <2> QED BY <2>3, <2>5 DEF Min2
<1> QED BY <1>1, <1>2

\* No code, no discount.
LEMMA NoDiscount ==
    ASSUME NEW subtotal, NEW fee, NEW tax
    PROVE  discountFor(NoCode, subtotal, fee, tax) = 0
BY DEF discountFor

LEMMA SessionDiscountType ==
    ASSUME NEW c \in Codes \cup {NoCode}, NEW subtotal \in Nat, NEW fee \in Nat,
           NEW tax \in Nat
    PROVE  /\ sessionDiscount(c, subtotal, fee, tax) \in Nat
           /\ Gives(c, subtotal, fee, tax, sessionDiscount(c, subtotal, fee, tax))
<1>1. CASE c \in retired
  BY <1>1 DEF sessionDiscount, Gives
<1>2. CASE c \notin retired
  BY <1>2, DiscountType DEF sessionDiscount, Gives
<1> QED BY <1>1, <1>2

\* What a promo gives is within what it is taken off.
LEMMA GivenIsInBounds ==
    ASSUME NEW c \in Codes \cup {NoCode}, NEW subtotal \in Nat, NEW fee \in Nat,
           NEW tax \in Nat, NEW d \in Nat, Gives(c, subtotal, fee, tax, d)
    PROVE  d <= subtotal + fee + tax
<1> DEFINE all == discountFor(c, subtotal, fee, tax)
<1>1. all <= subtotal + fee + tax
  BY DiscountType
<1>2. d = all \/ d = 0
  BY DEF Gives
<1> HIDE DEF all
<1> QED BY <1>1, <1>2

LEMMA RateType == ASSUME NEW g \in Regions PROVE RateBps[g] \in Nat
<1> DEFINE Bps == 0..10000
<1>1. RateBps \in [Regions -> Bps]
  BY FunnelAssumption
<1>2. \A n \in Bps : n \in Nat
  OBVIOUS
<1> HIDE DEF Bps
<1> QED BY <1>1, <1>2

LEMMA QuoteType ==
    ASSUME NEW m \in Methods, NEW g \in Regions, NEW subtotal \in Nat
    PROVE  /\ Fee[m][g] \in Nat
           /\ flatTax(subtotal + Fee[m][g], RateBps[g]) \in Nat
<1>1. Fee \in [Methods -> [Regions -> Nat]]
  BY FunnelAssumption
<1>2. Fee[m][g] \in Nat
  BY <1>1
<1>3. RateBps[g] \in Nat
  BY RateType
<1>4. subtotal + Fee[m][g] \in Nat
  BY <1>2
<1>5. flatTax(subtotal + Fee[m][g], RateBps[g]) \in Nat
  BY <1>3, <1>4, FlatTaxType
<1> QED BY <1>2, <1>5

\* Composing the total keeps the type, adds up, and changes no other column.
LEMMA RecomposedType ==
    ASSUME NEW q \in Sheets
    PROVE  /\ Recomposed(q) \in Sheets /\ AddsUp(Recomposed(q))
           /\ Recomposed(q).region = q.region /\ Recomposed(q).method = q.method
           /\ Recomposed(q).promo = q.promo /\ Recomposed(q).subtotal = q.subtotal
           /\ Recomposed(q).fee = q.fee /\ Recomposed(q).tax = q.tax
           /\ Recomposed(q).discount = q.discount
<1>1. Ceiling(q) - q.discount \in Int
  BY DEF Sheets, Ceiling
<1> DEFINE total == Ceiling(q) - q.discount
           p == [q EXCEPT !.total = total]
<1>2. Recomposed(q) = p
  BY DEF Recomposed
<1>3. /\ p \in Sheets /\ p.total = total
      /\ p.region = q.region /\ p.method = q.method /\ p.promo = q.promo
      /\ p.subtotal = q.subtotal /\ p.fee = q.fee /\ p.tax = q.tax
      /\ p.discount = q.discount
  <2> HIDE DEF total
  <2> QED BY <1>1 DEF Sheets, total
<1>4. AddsUp(p)
  <2> HIDE DEF p
  <2> QED BY <1>3 DEF AddsUp, Ceiling
<1> QED BY <1>2, <1>3, <1>4

\* Where the FSM lets each write come from.
LEMMA From ==
    ASSUME NEW s \in Status
    PROVE  /\ CanTransition(s, "address_set") => s \in Working
           /\ CanTransition(s, "cancelled") => s \in Working
           /\ CanTransition(s, "ready") => s \in Confirmable \ {"completed"}
BY DEF CanTransition, transitions, Status, Active, Working, Terminal, Confirmable
-----------------------------------------------------------------------------
(* The kinds of steps.                                                     *)

LEMMA InitHolds == Init => IInv
<1> SUFFICES ASSUME Init PROVE IInv
  OBVIOUS
<1>1. PICK n \in Subtotals : sheet = NewSheet(n)
  BY DEF Init
<1>2. n \in Nat
  BY FunnelAssumption
<1>3. sheet \in Sheets /\ sheet.method = NoMethod
  BY <1>1, <1>2 DEF NewSheet, Sheets
<1>4. NoSheet \in Sheets
  BY DEF NoSheet, NewSheet, Sheets
<1>5. NoTask \in Tasks
  BY DEF NoTask, Tasks, Ops, Status, Terminal
<1>6. Typed
  BY <1>3, <1>4, <1>5 DEF Init, Typed, Labels, Steps, Status, Active, Working
<1>7. TaskInv /\ SnapInv
  BY DEF Init, TaskInv, SnapInv, Reread
<1>8. RowInv
  <2>1. AddsUp(sheet)
    BY <1>1, <1>2 DEF NewSheet, AddsUp, Ceiling
  <2> QED BY <1>3, <2>1 DEF Init, RowInv, QuoteFits, Confirmable
<1> QED BY <1>6, <1>7, <1>8 DEF IInv

LEMMA NoTaskType == NoTask \in Tasks /\ NoTask.op = "none"
BY DEF NoTask, Tasks, Ops, Status, Terminal

\* A request has answered, or moves on without a write to come.
LEMMA AnsweredType ==
    ASSUME Typed, NEW r \in Requests, NEW label \in Labels \ {"write"},
           Answered(r, label)
    PROVE  /\ pc' \in [Requests -> Labels] /\ task' \in [Requests -> Tasks]
           /\ \A t \in Requests : pc'[t] = "write" =>
                    pc[t] = "write" /\ task'[t] = task[t]
BY NoTaskType DEF Typed, Answered

\* A handler writes the row: no read is current any more.
LEMMA HandlerWrites ==
    ASSUME IInv, UNCHANGED retired,
           NEW r \in Requests, NEW label \in Labels \ {"write"},
           NEW to \in Status \ {"confirming"}, NEW q \in Sheets,
           Answered(r, label), WriteRow(to, q), UNCHANGED confirmVars,
           QuoteFits(q), to \in Confirmable => IsQuoted(q)
    PROVE  IInv'
<1>1. status' = to /\ sheet' = q /\ fresh' = {}
  BY DEF WriteRow
<1>2. UNCHANGED <<cpc, snap>>
  BY DEF confirmVars
<1>3. Typed'
  BY <1>1, <1>2, AnsweredType DEF IInv, Typed
<1>4. TaskInv'
  BY <1>1, AnsweredType DEF IInv, TaskInv, Allowed
<1>5. SnapInv' /\ RowInv'
  BY <1>1 DEF SnapInv, RowInv, QuoteFits, IsQuoted
<1> QED BY <1>3, <1>4, <1>5 DEF IInv

\* A handler moves on and leaves the row alone.
LEMMA HandlerMoves ==
    ASSUME IInv, UNCHANGED retired,
           NEW r \in Requests, NEW label \in Labels \ {"write"},
           Answered(r, label), UNCHANGED <<status, sheet>>, fresh' \subseteq fresh,
           UNCHANGED confirmVars
    PROVE  IInv'
<1>1. UNCHANGED <<cpc, snap>>
  BY DEF confirmVars
<1>2. Typed'
  BY <1>1, AnsweredType DEF IInv, Typed
<1>3. TaskInv'
  BY AnsweredType DEF IInv, TaskInv, Allowed, Current, Gives
<1>4. SnapInv' /\ RowInv'
  BY <1>1 DEF IInv, SnapInv, RowInv, QuoteFits, IsQuoted
<1> QED BY <1>2, <1>3, <1>4 DEF IInv

\* A handler read the row: what it computed fits it.
LEMMA HandlerReads ==
    ASSUME IInv, UNCHANGED retired,
           NEW r \in Requests, NEW t \in Tasks, Read(r, t),
           Allowed(t), Current(t, sheet)
    PROVE  IInv'
<1>1. /\ UNCHANGED <<status, sheet, cpc, snap>>
      /\ fresh \subseteq fresh' /\ fresh' \subseteq fresh \cup {r}
      /\ \A u \in Requests \ {r} : pc'[u] = pc[u] /\ task'[u] = task[u]
      /\ pc'[r] = "write" => task'[r] = t
  BY DEF Read, confirmVars, IInv, Typed
<1>2. Typed'
  BY <1>1, NoTaskType DEF Read, IInv, Typed, Labels
<1>3. TaskInv'
  BY <1>1 DEF IInv, TaskInv, Allowed, Current, Gives
<1>4. SnapInv' /\ RowInv'
  BY <1>1 DEF IInv, SnapInv, RowInv, QuoteFits, IsQuoted
<1> QED BY <1>2, <1>3, <1>4 DEF IInv

\* Nobody's request moves; the row is written.
LEMMA RowWritten ==
    ASSUME IInv, UNCHANGED retired,
           NEW to \in Status, NEW q \in Sheets, WriteRow(to, q),
           UNCHANGED requestVars, cpc' \in Steps, snap' \in Sheets,
           to = "confirming" => cpc' \notin Reread,
           QuoteFits(q), to \in Confirmable => IsQuoted(q)
    PROVE  IInv'
<1>1. status' = to /\ sheet' = q /\ fresh' = {} /\ UNCHANGED <<pc, task>>
  BY DEF WriteRow, requestVars
<1>2. Typed'
  BY <1>1 DEF IInv, Typed
<1>3. TaskInv'
  BY <1>1 DEF IInv, TaskInv, Allowed
<1>4. SnapInv' /\ RowInv'
  BY <1>1 DEF SnapInv, RowInv, QuoteFits, IsQuoted
<1> QED BY <1>2, <1>3, <1>4 DEF IInv

\* Only the confirm moves, or the clock.
LEMMA RowStays ==
    ASSUME IInv, UNCHANGED retired,
           UNCHANGED <<status, sheet, fresh, requestVars>>,
           cpc' \in Steps, snap' \in Sheets, SnapInv'
    PROVE  IInv'
<1>1. UNCHANGED <<status, sheet, fresh, pc, task>>
  BY DEF requestVars
<1>2. Typed'
  BY <1>1 DEF IInv, Typed
<1>3. TaskInv' /\ RowInv'
  BY <1>1 DEF IInv, TaskInv, Allowed, Current, Gives, RowInv, QuoteFits, IsQuoted
<1> QED BY <1>2, <1>3 DEF IInv
-----------------------------------------------------------------------------
(* The handlers.                                                           *)

LEMMA ReadStep ==
    ASSUME IInv, UNCHANGED retired, NEW r \in Requests,
           \/ \E region \in Regions : ReadAddress(r, region)
           \/ \E method \in Methods : ReadShipping(r, method)
           \/ \E code \in Codes : ReadApply(r, code)
           \/ ReadPayment(r) \/ ReadRemove(r) \/ ReadCancel(r)
    PROVE  IInv'
<1>1. status \in Status /\ sheet \in Sheets
  BY DEF IInv, Typed
<1>2. /\ sheet.subtotal \in Nat /\ sheet.fee \in Nat /\ sheet.tax \in Nat
      /\ sheet.promo \in Codes \cup {NoCode}
      /\ sheet.region \in Regions \cup {NoRegion}
  BY <1>1 DEF Sheets
<1>3. ASSUME NEW region \in Regions, ReadAddress(r, region) PROVE IInv'
  <2> DEFINE d == sessionDiscount(sheet.promo, sheet.subtotal, 0, 0)
             t == [NoTask EXCEPT !.op = "address", !.from = status,
                                 !.region = region, !.discount = d]
  <2>1. d \in Nat /\ Gives(sheet.promo, sheet.subtotal, 0, 0, d)
    BY <1>2, SessionDiscountType
  <2>2. Read(r, t) /\ CanTransition(status, "address_set")
    BY <1>3 DEF ReadAddress
  <2>3. t \in Tasks /\ t.op = "address" /\ t.from = status /\ t.discount = d
    <3> HIDE DEF d
    <3> QED BY <1>1, <2>1 DEF Tasks, NoTask, Ops
  <2>4. Allowed(t) /\ Current(t, sheet)
    <3> HIDE DEF t, d
    <3> QED BY <2>1, <2>2, <2>3 DEF Allowed, Current
  <2> HIDE DEF t
  <2> QED BY <2>2, <2>3, <2>4, HandlerReads
<1>4. ASSUME NEW method \in Methods, ReadShipping(r, method) PROVE IInv'
  <2> DEFINE fee == Fee[method][sheet.region]
             tax == flatTax(sheet.subtotal + fee, RateBps[sheet.region])
             d == sessionDiscount(sheet.promo, sheet.subtotal, fee, tax)
             t == [NoTask EXCEPT !.op = "shipping", !.from = status,
                     !.method = method, !.fee = fee, !.tax = tax,
                     !.discount = d]
  <2>1. /\ CanTransition(status, "shipping_set") /\ sheet.region \in Regions
        /\ Read(r, t)
    BY <1>2, <1>4, Zenon DEF ReadShipping
  <2>2. fee \in Nat /\ tax \in Nat
    BY <1>2, <2>1, QuoteType
  <2>3. d \in Nat /\ Gives(sheet.promo, sheet.subtotal, fee, tax, d)
    <3> HIDE DEF fee, tax
    <3> QED BY <1>2, <2>2, SessionDiscountType
  <2>4. /\ t \in Tasks /\ t.op = "shipping" /\ t.from = status
        /\ t.method = method /\ t.fee = fee /\ t.tax = tax /\ t.discount = d
    <3> HIDE DEF fee, tax, d
    <3> QED BY <1>1, <2>2, <2>3 DEF Tasks, NoTask, Ops
  <2>5. Allowed(t) /\ Current(t, sheet)
    <3> HIDE DEF t, d
    <3> QED BY <2>1, <2>3, <2>4 DEF Allowed, Current
  <2> HIDE DEF t
  <2> QED BY <2>1, <2>4, <2>5, HandlerReads
<1>5. ASSUME NEW code \in Codes, ReadApply(r, code) PROVE IInv'
  <2> DEFINE d == discountFor(code, sheet.subtotal, sheet.fee, sheet.tax)
             t == [NoTask EXCEPT !.op = "apply", !.from = status,
                                 !.promo = code, !.discount = d]
  <2>1. d \in Nat /\ Gives(code, sheet.subtotal, sheet.fee, sheet.tax, d)
    BY <1>2, DiscountType DEF Gives
  <2>2. Read(r, t) /\ status \in Working
    BY <1>5 DEF ReadApply
  <2>3. /\ t \in Tasks /\ t.op = "apply" /\ t.from = status
        /\ t.promo = code /\ t.discount = d
    <3> HIDE DEF d
    <3> QED BY <1>1, <2>1 DEF Tasks, NoTask, Ops
  <2>4. Allowed(t) /\ Current(t, sheet)
    <3> HIDE DEF t, d
    <3> QED BY <2>1, <2>2, <2>3 DEF Allowed, Current
  <2> HIDE DEF t
  <2> QED BY <2>2, <2>3, <2>4, HandlerReads
<1>6. ASSUME NEW op \in {"payment", "remove", "cancel"},
             Read(r, [NoTask EXCEPT !.op = op, !.from = status]),
             op = "payment" => CanTransition(status, "ready"),
             op = "remove" => status \in Working,
             op = "cancel" => CanTransition(status, "cancelled")
      PROVE  IInv'
  <2> DEFINE t == [NoTask EXCEPT !.op = op, !.from = status]
  <2>1. /\ t \in Tasks /\ t.op = op /\ t.from = status
        /\ t.promo = NoCode /\ t.discount = 0
    BY <1>1 DEF Tasks, NoTask, Ops
  <2>2. Allowed(t) /\ Current(t, sheet)
    <3> HIDE DEF t
    <3> QED BY <1>6, <2>1, NoDiscount DEF Allowed, Current, Gives
  <2> HIDE DEF t
  <2> QED BY <1>6, <2>1, <2>2, HandlerReads DEF t
<1> QED BY <1>3, <1>4, <1>5, <1>6 DEF ReadPayment, ReadRemove, ReadCancel

\* What a handler's conditional write makes of the row.
LEMMA WriteStep ==
    ASSUME IInv, UNCHANGED retired,
           NEW r \in Requests, NEW op, NEW hit, NEW to, NEW q,
           Write(r, op, hit, to, q),
           hit => /\ to \in Status \ {"confirming"} /\ q \in Sheets
                  /\ QuoteFits(q) /\ (to \in Confirmable => IsQuoted(q))
    PROVE  IInv'
<1>1. CASE hit /\ WriteRow(to, q) /\ Answered(r, "touch")
  BY <1>1, HandlerWrites DEF Write, Labels
<1>2. CASE /\ ~hit /\ Answered(r, "idle")
           /\ fresh' = fresh \ {r} /\ UNCHANGED <<status, sheet, due>>
  BY <1>2, HandlerMoves DEF Write, Labels
<1> QED BY <1>1, <1>2 DEF Write

LEMMA SetAddressStep ==
    ASSUME IInv, UNCHANGED retired,
           NEW r \in Requests, SetAddress(r) PROVE IInv'
<1> DEFINE t == task[r]
           p == [sheet EXCEPT !.region = t.region, !.method = NoMethod,
                              !.fee = 0, !.tax = 0, !.discount = t.discount]
<1>1. sheet \in Sheets /\ t \in Tasks
  BY DEF IInv, Typed
<1>2. p \in Sheets /\ p.method = NoMethod
  BY <1>1 DEF Sheets, Tasks
<1>3. /\ Recomposed(p) \in Sheets /\ AddsUp(Recomposed(p))
      /\ Recomposed(p).method = NoMethod
  <2> HIDE DEF p
  <2> QED BY <1>2, RecomposedType
<1>4. QuoteFits(Recomposed(p))
  BY <1>3 DEF QuoteFits
<1>5. Write(r, "address", SameStatus(r), "address_set", Recomposed(p))
  BY DEF SetAddress, Addressed
<1> HIDE DEF p
<1> QED BY <1>3, <1>4, <1>5, WriteStep
        DEF Confirmable, Status, Active, Working

\* The quote that is written was computed for the address it joins.
LEMMA SetShippingStep ==
    ASSUME IInv, UNCHANGED retired,
           NEW r \in Requests, SetShipping(r) PROVE IInv'
<1> DEFINE t == task[r]
           p == [sheet EXCEPT !.method = t.method, !.fee = t.fee,
                              !.tax = t.tax, !.discount = t.discount]
           q == Recomposed(p)
<1>1. sheet \in Sheets /\ t \in Tasks
  BY DEF IInv, Typed
<1>2. /\ p \in Sheets /\ p.method = t.method /\ p.fee = t.fee /\ p.tax = t.tax
      /\ p.region = sheet.region /\ p.subtotal = sheet.subtotal
  BY <1>1 DEF Sheets, Tasks
<1>3. /\ q \in Sheets /\ AddsUp(q) /\ q.method = t.method /\ q.fee = t.fee /\ q.tax = t.tax
      /\ q.region = sheet.region /\ q.subtotal = sheet.subtotal
  <2> HIDE DEF p
  <2> QED BY <1>2, RecomposedType
<1>4. Write(r, "shipping", QuoteStands(r), "shipping_set", q)
  BY DEF SetShipping
<1> HIDE DEF q
<1>5. ASSUME QuoteStands(r) PROVE QuoteFits(q) /\ IsQuoted(q)
  <2>1. /\ pc[r] = "write" /\ t.op = "shipping" /\ r \in fresh
    BY <1>4, <1>5 DEF Write, QuoteStands
  <2>2. Current(t, sheet) /\ Allowed(t)
    BY <2>1 DEF IInv, TaskInv
  <2>3. /\ t.method \in Methods /\ sheet.region \in Regions
        /\ t.fee = Fee[t.method][sheet.region]
        /\ t.tax = flatTax(sheet.subtotal + t.fee, RateBps[sheet.region])
    BY <2>1, <2>2 DEF Current, Allowed
  <2> QED BY <1>3, <2>3, FunnelAssumption DEF QuoteFits, IsQuoted
<1> QED BY <1>3, <1>4, <1>5, WriteStep DEF Status, Active, Working

LEMMA SetPaymentStep ==
    ASSUME IInv, UNCHANGED retired,
           NEW r \in Requests, SetPaymentToken(r) PROVE IInv'
<1>1. Write(r, "payment", Payable(r), "ready", sheet)
  BY DEF SetPaymentToken
<1>2. ASSUME Payable(r) PROVE IsQuoted(sheet)
  <2>1. CanTransition(status, "ready")
    BY <1>1, <1>2 DEF Write, Payable, SameStatus, IInv, TaskInv, Allowed
  <2> QED BY <2>1, From DEF IInv, Typed, RowInv
<1> QED BY <1>1, <1>2, WriteStep DEF IInv, Typed, RowInv, Status, Active, Working

LEMMA SetPromoStep ==
    ASSUME IInv, UNCHANGED retired, NEW r \in Requests, SetPromo(r) PROVE IInv'
<1> DEFINE t == task[r]
           p == [sheet EXCEPT !.promo = t.promo, !.discount = t.discount]
           q == Recomposed(p)
<1>1. sheet \in Sheets /\ t \in Tasks /\ RowInv
  BY DEF IInv, Typed
<1>2. /\ p \in Sheets /\ p.method = sheet.method /\ p.fee = sheet.fee
      /\ p.tax = sheet.tax /\ p.region = sheet.region /\ p.subtotal = sheet.subtotal
  BY <1>1 DEF Sheets, Tasks
<1>3. /\ q \in Sheets /\ AddsUp(q) /\ q.method = sheet.method /\ q.fee = sheet.fee
      /\ q.tax = sheet.tax /\ q.region = sheet.region /\ q.subtotal = sheet.subtotal
  <2> HIDE DEF p
  <2> QED BY <1>2, RecomposedType
<1>4. PICK op \in {"apply", "remove"} : Write(r, op, SameStatus(r), status, q)
  BY DEF SetPromo, Promoted
<1> HIDE DEF q
<1>5. SameStatus(r) => status \in Working
  BY <1>4 DEF SameStatus, Write, IInv, TaskInv, Allowed
<1>6. QuoteFits(q) /\ (status \in Confirmable => IsQuoted(q))
  BY <1>1, <1>3 DEF RowInv, QuoteFits, IsQuoted
<1> QED BY <1>3, <1>4, <1>5, <1>6, WriteStep DEF Working, Status, Active

LEMMA HandlerStep ==
    ASSUME IInv, UNCHANGED retired, NEW r \in Requests, Handler(r) PROVE IInv'
<1>1. sheet \in Sheets /\ RowInv
  BY DEF IInv, Typed
<1>2. \A s \in {"cancelled", "expired"} :
            s \in Status \ {"confirming"} /\ s \notin Confirmable
  BY DEF Status, Terminal, Confirmable
<1>3. CASE ReadActive(r)
  <2>1. UNCHANGED <<status, sheet, fresh, task, cpc, snap>>
    BY <1>3 DEF ReadActive, rowVars, confirmVars
  <2>2. /\ pc' \in [Requests -> Labels]
        /\ \A u \in Requests : pc'[u] = "write" => pc[u] = "write"
    BY <1>3 DEF ReadActive, IInv, Typed, Labels
  <2> QED BY <2>1, <2>2 DEF IInv, Typed, TaskInv, SnapInv, RowInv, Allowed,
          Current, Gives, QuoteFits, IsQuoted
<1>4. CASE UpdateStatus(r)
  <2>1. CASE WriteRow("cancelled", sheet) /\ Answered(r, "cancelled")
    BY <1>1, <1>2, <1>4, <2>1, HandlerWrites DEF UpdateStatus, Labels, RowInv
  <2>2. CASE /\ Answered(r, "reread")
             /\ fresh' = fresh \ {r} /\ UNCHANGED <<status, sheet, due>>
    BY <1>4, <2>2, HandlerMoves DEF UpdateStatus, Labels
  <2> QED BY <1>4, <2>1, <2>2 DEF UpdateStatus
<1>5. CASE CancelLost(r) \/ CancelDone(r)
  BY <1>5, HandlerMoves DEF CancelLost, CancelDone, rowVars, Labels
<1>6. CASE Touch(r)
  BY <1>6, HandlerMoves DEF Touch, Labels
<1>7. CASE MarkExpired(r)
  <2>1. CASE WriteRow("expired", sheet)
    BY <1>1, <1>2, <1>7, <2>1, HandlerWrites DEF MarkExpired, Labels, RowInv
  <2>2. CASE UNCHANGED rowVars
    BY <1>7, <2>2, HandlerMoves DEF MarkExpired, Labels, rowVars
  <2> QED BY <1>7, <2>1, <2>2 DEF MarkExpired, Expire
<1>8. CASE Fail(r)
  BY <1>8, HandlerMoves DEF Fail, Labels
<1> QED BY <1>3, <1>4, <1>5, <1>6, <1>7, <1>8, ReadStep, SetAddressStep,
        SetShippingStep, SetPaymentStep, SetPromoStep DEF Handler
-----------------------------------------------------------------------------
(* The confirm.                                                            *)

\* A requoted row: its tax is its region's rate on what it costs now.
LEMMA RequotedFits ==
    ASSUME RowInv, sheet \in Sheets, status = "confirming",
           NEW subtotal \in Nat, NEW discount \in Nat
    PROVE  LET tax == flatTax(subtotal + sheet.fee, RateBps[sheet.region])
               p == [sheet EXCEPT !.subtotal = subtotal, !.tax = tax,
                                  !.discount = discount]
           IN p \in Sheets /\ QuoteFits(Recomposed(p)) /\ IsQuoted(Recomposed(p))
              /\ Recomposed(p) \in Sheets
<1> DEFINE tax == flatTax(subtotal + sheet.fee, RateBps[sheet.region])
           p == [sheet EXCEPT !.subtotal = subtotal, !.tax = tax,
                              !.discount = discount]
<1>1. IsQuoted(sheet) /\ QuoteFits(sheet)
  BY DEF RowInv, Confirmable
<1>2. sheet.region \in Regions /\ sheet.fee \in Nat
  BY <1>1 DEF IsQuoted, Sheets
<1>3. RateBps[sheet.region] \in Nat
  BY <1>2, RateType
<1>4. tax \in Nat
  <2>1. subtotal + sheet.fee \in Nat
    BY <1>2
  <2> QED BY <1>3, <2>1, FlatTaxType
<1>5. /\ p \in Sheets /\ p.tax = tax /\ p.subtotal = subtotal
      /\ p.fee = sheet.fee /\ p.region = sheet.region /\ p.method = sheet.method
  <2> HIDE DEF tax
  <2> QED BY <1>4 DEF Sheets
<1>6. QuoteFits(Recomposed(p)) /\ IsQuoted(Recomposed(p)) /\ Recomposed(p) \in Sheets
  <2> HIDE DEF p
  <2> QED BY <1>1, <1>5, RecomposedType DEF QuoteFits, IsQuoted
<1> QED BY <1>5, <1>6

\* The confirm gives the session back: by its reread, that is the row as it is.
LEMMA GiveBackStep ==
    ASSUME IInv, UNCHANGED retired,
           NEW to \in {"shipping_set", "ready"}, NEW q, GiveBack(to, q),
           status = "confirming" /\ snap = sheet =>
               q \in Sheets /\ QuoteFits(q) /\ IsQuoted(q)
    PROVE  IInv'
<1>1. /\ cpc = "authorize" /\ cpc' = "idle" /\ snap' = NoSheet
      /\ UNCHANGED requestVars
  BY DEF GiveBack
<1>2. NoSheet \in Sheets /\ cpc' \in Steps
  BY <1>1 DEF NoSheet, NewSheet, Sheets, Steps
<1>3. CASE status = "confirming" /\ WriteRow(to, q)
  <2>1. snap = sheet
    BY <1>1, <1>3 DEF IInv, SnapInv, Reread
  <2>2. to \in Status /\ to # "confirming"
    BY DEF Status, Active, Working
  <2> QED BY <1>1, <1>2, <1>3, <2>1, <2>2, RowWritten
<1>4. CASE status # "confirming" /\ UNCHANGED rowVars
  <2>1. SnapInv'
    BY <1>1 DEF SnapInv, Reread
  <2> QED BY <1>1, <1>2, <1>4, <2>1, RowStays DEF rowVars
<1> QED BY <1>3, <1>4 DEF GiveBack

LEMMA RequoteStep ==
    ASSUME IInv, UNCHANGED retired, NEW n \in Subtotals, Requote(n) PROVE IInv'
<1> DEFINE tax == RequotedTax(n)
           d == sessionDiscount(snap.promo, n, snap.fee, tax)
           q == Recomposed([sheet EXCEPT !.subtotal = n, !.tax = tax, !.discount = d])
<1>1. GiveBack("shipping_set", q)
  BY DEF Requote
<1>2. ASSUME status = "confirming", snap = sheet
      PROVE  q \in Sheets /\ QuoteFits(q) /\ IsQuoted(q)
  <2>1. n \in Nat /\ sheet \in Sheets /\ RowInv
    BY FunnelAssumption DEF IInv, Typed
  <2>2. sheet.region \in Regions /\ sheet.fee \in Nat /\ sheet.promo \in Codes \cup {NoCode}
    BY <1>2, <2>1 DEF RowInv, Confirmable, IsQuoted, Sheets
  <2>3. tax = flatTax(n + sheet.fee, RateBps[sheet.region])
    BY <1>2 DEF RequotedTax
  <2>4. tax \in Nat
    <3>1. RateBps[sheet.region] \in Nat
      BY <2>2, RateType
    <3>2. n + sheet.fee \in Nat
      BY <2>1, <2>2
    <3> QED BY <2>3, <3>1, <3>2, FlatTaxType
  <2>5. d \in Nat
    <3>1. d = sessionDiscount(sheet.promo, n, sheet.fee, tax)
      BY <1>2
    <3> HIDE DEF tax, d
    <3> QED BY <2>1, <2>2, <2>4, <3>1, SessionDiscountType
  <2>6. q = Recomposed([sheet EXCEPT !.subtotal = n,
                !.tax = flatTax(n + sheet.fee, RateBps[sheet.region]),
                !.discount = d])
    BY <2>3
  <2> HIDE DEF d, q
  <2> QED BY <1>2, <2>1, <2>5, <2>6, RequotedFits
<1> HIDE DEF q
<1> QED BY <1>1, <1>2, GiveBackStep

LEMMA RequoteSnapshotStep ==
    ASSUME IInv, UNCHANGED retired, RequoteSnapshot PROVE IInv'
<1> DEFINE p == [sheet EXCEPT !.subtotal = snap.subtotal, !.tax = snap.tax,
                              !.discount = snap.discount]
           q == Recomposed(p)
<1>1. GiveBack("shipping_set", q)
  BY DEF RequoteSnapshot
<1>2. ASSUME status = "confirming", snap = sheet
      PROVE  q \in Sheets /\ QuoteFits(q) /\ IsQuoted(q)
  <2>1. sheet \in Sheets /\ RowInv
    BY DEF IInv, Typed
  <2>2. p = sheet
    BY <1>2, <2>1 DEF Sheets
  <2> HIDE DEF p
  <2> QED BY <1>2, <2>1, <2>2, RecomposedType
          DEF RowInv, Confirmable, QuoteFits, IsQuoted
<1> HIDE DEF q
<1> QED BY <1>1, <1>2, GiveBackStep

LEMMA StripPromoStep ==
    ASSUME IInv, UNCHANGED retired, StripPromo PROVE IInv'
<1> DEFINE p == [sheet EXCEPT !.promo = NoCode, !.discount = 0]
           q == Recomposed(p)
<1>1. GiveBack("shipping_set", q)
  BY DEF StripPromo
<1>2. ASSUME status = "confirming"
      PROVE  q \in Sheets /\ QuoteFits(q) /\ IsQuoted(q)
  <2>1. sheet \in Sheets /\ RowInv
    BY DEF IInv, Typed
  <2>2. /\ p \in Sheets /\ p.tax = sheet.tax /\ p.subtotal = sheet.subtotal
        /\ p.fee = sheet.fee /\ p.region = sheet.region /\ p.method = sheet.method
    BY <2>1 DEF Sheets
  <2> HIDE DEF p
  <2> QED BY <1>2, <2>1, <2>2, RecomposedType
          DEF RowInv, Confirmable, QuoteFits, IsQuoted
<1> HIDE DEF q
<1> QED BY <1>1, <1>2, GiveBackStep

LEMMA ConfirmStep ==
    ASSUME IInv, UNCHANGED retired, Confirm PROVE IInv'
<1>1. sheet \in Sheets /\ snap \in Sheets /\ RowInv
  BY DEF IInv, Typed
<1>2. NoSheet \in Sheets
  BY DEF NoSheet, NewSheet, Sheets
<1>3. CASE ConfirmEntry \/ Checkpoint \/ CreateOrder \/ ConfirmDies
  <2>1. UNCHANGED <<status, sheet, fresh, requestVars>>
    BY <1>3 DEF ConfirmEntry, Checkpoint, CreateOrder, ConfirmDies, rowVars
  <2>2. cpc' \in Steps /\ snap' \in Sheets
    BY <1>1, <1>2, <1>3 DEF ConfirmEntry, Checkpoint, CreateOrder, ConfirmDies, Steps
  <2>3. SnapInv'
    BY <1>3, <2>1 DEF IInv, ConfirmEntry, Checkpoint, CreateOrder, ConfirmDies,
       SnapInv, Reread
  <2> QED BY <2>1, <2>2, <2>3, RowStays
<1>4. CASE ConfirmExpire
  <2>1. cpc' = "idle" /\ UNCHANGED <<requestVars, snap>>
    BY <1>4 DEF ConfirmExpire
  <2>2. CASE WriteRow("expired", sheet)
    BY <1>1, <2>1, <2>2, RowWritten DEF RowInv, Status, Terminal, Confirmable, Steps
  <2>3. CASE UNCHANGED rowVars
    BY <1>1, <2>1, <2>3, RowStays DEF rowVars, SnapInv, Reread, Steps
  <2> QED BY <1>4, <2>2, <2>3 DEF ConfirmExpire, Expire
<1>5. CASE BeginConfirm
  <2>1. UNCHANGED <<requestVars, snap>>
    BY <1>5 DEF BeginConfirm
  <2>2. CASE status = "ready" /\ WriteRow("confirming", sheet) /\ cpc' = "reread"
    BY <1>1, <2>1, <2>2, RowWritten
       DEF RowInv, Status, Active, Confirmable, Steps, Reread
  <2>3. CASE cpc' = "idle" /\ UNCHANGED rowVars
    BY <1>1, <2>1, <2>3, RowStays DEF rowVars, SnapInv, Reread, Steps
  <2> QED BY <1>5, <2>2, <2>3 DEF BeginConfirm
<1>6. CASE RereadConfirming
  <2>1. UNCHANGED <<rowVars, requestVars>>
    BY <1>6 DEF RereadConfirming
  <2>2. cpc' \in Steps /\ snap' \in Sheets
    BY <1>1, <1>6 DEF RereadConfirming, Steps
  <2>3. SnapInv'
    BY <1>6, <2>1 DEF RereadConfirming, SnapInv, Reread, rowVars
  <2> QED BY <2>1, <2>2, <2>3, RowStays DEF rowVars
<1>7. CASE AbortConfirm
  <2>1. status = "confirming" => QuoteFits(sheet) /\ IsQuoted(sheet)
    BY <1>1 DEF RowInv, Confirmable
  <2> QED BY <1>1, <1>7, <2>1, GiveBackStep DEF AbortConfirm
<1>8. CASE CompleteSession
  <2>1. cpc' = "idle" /\ UNCHANGED <<requestVars, snap>>
    BY <1>8 DEF CompleteSession
  <2>2. CASE status = "confirming" /\ WriteRow("completed", sheet)
    BY <1>1, <2>1, <2>2, RowWritten
       DEF RowInv, Status, Terminal, Confirmable, Steps
  <2>3. CASE UNCHANGED rowVars
    BY <1>1, <2>1, <2>3, RowStays DEF rowVars, SnapInv, Reread, Steps
  <2> QED BY <1>8, <2>2, <2>3 DEF CompleteSession
<1> QED BY <1>3, <1>4, <1>5, <1>6, <1>7, <1>8, RequoteStep, RequoteSnapshotStep,
        StripPromoStep DEF Confirm

LEMMA NextStep == ASSUME IInv, [Next]_vars PROVE IInv'
<1>1. CASE UNCHANGED retired /\ (DeadlinePasses \/ UNCHANGED vars)
  <2>1. UNCHANGED <<status, sheet, fresh, requestVars, cpc, snap>>
    BY <1>1 DEF DeadlinePasses, vars, funnelVars, rowVars, confirmVars
  <2> QED BY <1>1, <2>1, RowStays DEF IInv, Typed, SnapInv
<1>2. CASE UNCHANGED retired /\ ExpireDue
  <2>1. UNCHANGED <<requestVars, cpc, snap>> /\ WriteRow("expired", sheet)
    BY <1>2 DEF ExpireDue, confirmVars
  <2> QED BY <1>2, <2>1, RowWritten
          DEF IInv, Typed, RowInv, Status, Terminal, Confirmable
<1>3. ASSUME NEW code \in Retirable, RetireCode(code) PROVE IInv'
  <2>1. /\ UNCHANGED <<status, sheet, fresh, pc, task, cpc, snap>>
        /\ retired' = retired \cup {code}
    BY <1>3 DEF RetireCode, funnelVars, rowVars, requestVars, confirmVars
  <2>2. Typed' /\ SnapInv' /\ RowInv'
    BY <2>1 DEF IInv, Typed, SnapInv, RowInv, QuoteFits, IsQuoted
  <2>3. TaskInv'
    BY <2>1 DEF IInv, TaskInv, Allowed, Current, Gives
  <2> QED BY <2>2, <2>3 DEF IInv
<1>4. CASE UNCHANGED vars
  BY <1>1, <1>4 DEF vars
<1> QED BY <1>1, <1>2, <1>3, <1>4, HandlerStep, ConfirmStep DEF Next, FunnelNext
-----------------------------------------------------------------------------
(* The discount.                                                           *)

Follows(q) == Gives(q.promo, q.subtotal, q.fee, q.tax, q.discount)

\* Six writes change the columns a discount is made of, or the discount.
LEMMA SheetStays ==
    ASSUME [Next]_vars,
           \A r \in Requests : ~SetAddress(r) /\ ~SetShipping(r) /\ ~SetPromo(r),
           \A n \in Subtotals : ~Requote(n),
           ~RequoteSnapshot, ~StripPromo
    PROVE  UNCHANGED sheet
<1>1. ASSUME NEW r \in Requests, Handler(r) PROVE UNCHANGED sheet
  BY <1>1 DEF Handler, ReadAddress, ReadShipping, ReadApply, ReadPayment,
     ReadRemove, ReadCancel, ReadActive, Read, SetPaymentToken, Write, WriteRow,
     UpdateStatus, CancelLost, CancelDone, Touch, MarkExpired, Expire, Fail, rowVars
<1>2. ASSUME Confirm PROVE UNCHANGED sheet
  BY <1>2 DEF Confirm, ConfirmEntry, ConfirmExpire, Expire, BeginConfirm,
     RereadConfirming, AbortConfirm, GiveBack, Checkpoint, CreateOrder,
     CompleteSession, ConfirmDies, WriteRow, rowVars
<1>3. CASE \/ DeadlinePasses \/ ExpireDue \/ UNCHANGED vars
          \/ \E code \in Retirable : RetireCode(code)
  BY <1>3 DEF DeadlinePasses, ExpireDue, RetireCode, WriteRow, vars, funnelVars,
     rowVars
<1> QED BY <1>1, <1>2, <1>3 DEF Next, FunnelNext

\* Codes only ever go.
LEMMA RetiredStays == ASSUME [Next]_vars PROVE retired \subseteq retired'
BY DEF Next, RetireCode, vars

\* A handler's write follows its promo if the read it was computed on is the
\* row's latest; otherwise it has been overtaken.
LEMMA WriteFollows ==
    ASSUME IInv, [Next]_vars,
           Follows(sheet), NEW r \in Requests, NEW op, NEW hit, NEW to,
           NEW p \in Sheets, Write(r, op, hit, to, Recomposed(p)),
           r \in fresh => Follows(p)
    PROVE  Follows(sheet)' \/ Overtaken(r)
<1>1. CASE UNCHANGED sheet
  BY <1>1, RetiredStays DEF Follows, Gives
<1>2. CASE WriteRow(to, Recomposed(p)) /\ Answered(r, "touch") /\ r \in fresh
  BY <1>2, RecomposedType, RetiredStays DEF WriteRow, Follows, Gives
<1>3. CASE Answered(r, "touch") /\ r \notin fresh
  BY <1>3 DEF Overtaken, Write, Answered, IInv, Typed
<1> QED BY <1>1, <1>2, <1>3 DEF Write

\* Only an overtaken write takes a discount off its promo.
LEMMA DriftStep ==
    ASSUME IInv, [Next]_vars, Follows(sheet)
    PROVE  Follows(sheet)' \/ \E r \in Requests : Overtaken(r)
<1>1. sheet \in Sheets /\ task \in [Requests -> Tasks]
  BY DEF IInv, Typed
<1>2. ASSUME NEW r \in Requests, SetAddress(r) PROVE Follows(sheet)' \/ Overtaken(r)
  <2> DEFINE t == task[r]
             p == [sheet EXCEPT !.region = t.region, !.method = NoMethod,
                                !.fee = 0, !.tax = 0, !.discount = t.discount]
  <2>1. Write(r, "address", SameStatus(r), "address_set", Recomposed(p))
    BY <1>2 DEF SetAddress, Addressed
  <2>2. /\ p \in Sheets /\ p.fee = 0 /\ p.tax = 0 /\ p.discount = t.discount
        /\ p.promo = sheet.promo /\ p.subtotal = sheet.subtotal
    BY <1>1 DEF Sheets, Tasks
  <2>3. r \in fresh => Gives(sheet.promo, sheet.subtotal, 0, 0, t.discount)
    BY <2>1 DEF Write, IInv, TaskInv, Current
  <2> HIDE DEF p
  <2> QED BY <2>1, <2>2, <2>3, WriteFollows DEF Follows
<1>3. ASSUME NEW r \in Requests, SetShipping(r) PROVE Follows(sheet)' \/ Overtaken(r)
  <2> DEFINE t == task[r]
             p == [sheet EXCEPT !.method = t.method, !.fee = t.fee,
                                !.tax = t.tax, !.discount = t.discount]
  <2>1. Write(r, "shipping", QuoteStands(r), "shipping_set", Recomposed(p))
    BY <1>3 DEF SetShipping
  <2>2. /\ p \in Sheets /\ p.fee = t.fee /\ p.tax = t.tax /\ p.discount = t.discount
        /\ p.promo = sheet.promo /\ p.subtotal = sheet.subtotal
    BY <1>1 DEF Sheets, Tasks
  <2>3. r \in fresh =>
            Gives(sheet.promo, sheet.subtotal, t.fee, t.tax, t.discount)
    BY <2>1 DEF Write, IInv, TaskInv, Current
  <2> HIDE DEF p
  <2> QED BY <2>1, <2>2, <2>3, WriteFollows DEF Follows
<1>4. ASSUME NEW r \in Requests, SetPromo(r) PROVE Follows(sheet)' \/ Overtaken(r)
  <2> DEFINE t == task[r]
             p == [sheet EXCEPT !.promo = t.promo, !.discount = t.discount]
  <2>1. PICK op \in {"apply", "remove"} :
            Write(r, op, SameStatus(r), status, Recomposed(p))
    BY <1>4 DEF SetPromo, Promoted
  <2>2. /\ p \in Sheets /\ p.fee = sheet.fee /\ p.tax = sheet.tax
        /\ p.discount = t.discount /\ p.promo = t.promo
        /\ p.subtotal = sheet.subtotal
    BY <1>1 DEF Sheets, Tasks
  <2>3. r \in fresh =>
            Gives(t.promo, sheet.subtotal, sheet.fee, sheet.tax, t.discount)
    BY <2>1 DEF Write, IInv, TaskInv, Current
  <2> HIDE DEF p
  <2> QED BY <2>1, <2>2, <2>3, WriteFollows DEF Follows
<1>5. ASSUME NEW to, NEW p \in Sheets, GiveBack(to, Recomposed(p)),
             status = "confirming" /\ snap = sheet => Follows(p)
      PROVE  Follows(sheet)'
  <2>1. CASE UNCHANGED rowVars
    BY <2>1, RetiredStays DEF rowVars, Follows, Gives
  <2>2. CASE status = "confirming" /\ WriteRow(to, Recomposed(p))
    <3>1. snap = sheet
      BY <1>5, <2>2 DEF GiveBack, IInv, SnapInv, Reread
    <3> QED BY <1>5, <2>2, <3>1, RecomposedType, RetiredStays
            DEF WriteRow, Follows, Gives
  <2> QED BY <1>5, <2>1, <2>2 DEF GiveBack
<1>6. ASSUME NEW n \in Subtotals, Requote(n) PROVE Follows(sheet)'
  <2> DEFINE tax == RequotedTax(n)
             d == sessionDiscount(snap.promo, n, snap.fee, tax)
             p == [sheet EXCEPT !.subtotal = n, !.tax = tax, !.discount = d]
  <2>1. GiveBack("shipping_set", Recomposed(p))
    BY <1>6 DEF Requote
  <2>2. CASE status # "confirming"
    BY <2>1, <2>2, RetiredStays DEF GiveBack, rowVars, Follows, Gives
  <2>3. CASE status = "confirming"
    <3>1. snap = sheet /\ RowInv
      BY <2>1, <2>3 DEF GiveBack, IInv, SnapInv, Reread
    <3>2. /\ sheet.region \in Regions /\ sheet.fee \in Nat
          /\ sheet.promo \in Codes \cup {NoCode} /\ n \in Nat
      BY <1>1, <2>3, <3>1, FunnelAssumption DEF RowInv, Confirmable, IsQuoted, Sheets
    <3>3. n + sheet.fee \in Nat /\ RateBps[sheet.region] \in Nat
      BY <3>2, RateType
    <3>4. tax \in Nat
      BY <3>1, <3>3, FlatTaxType DEF RequotedTax
    <3>5. d = sessionDiscount(sheet.promo, n, sheet.fee, tax)
      BY <3>1
    <3>6. d \in Nat /\ Gives(sheet.promo, n, sheet.fee, tax, d)
      <4> HIDE DEF tax, d
      <4> QED BY <3>2, <3>4, <3>5, SessionDiscountType
    <3>7. /\ p \in Sheets /\ p.discount = d /\ p.promo = sheet.promo
          /\ p.subtotal = n /\ p.fee = sheet.fee /\ p.tax = tax
      <4> HIDE DEF tax, d
      <4> QED BY <1>1, <3>2, <3>4, <3>6 DEF Sheets
    <3> HIDE DEF tax, d, p
    <3> QED BY <1>5, <2>1, <3>6, <3>7 DEF Follows
  <2> QED BY <2>2, <2>3
<1>7. ASSUME RequoteSnapshot PROVE Follows(sheet)'
  <2> DEFINE p == [sheet EXCEPT !.subtotal = snap.subtotal, !.tax = snap.tax,
                                !.discount = snap.discount]
  <2>1. GiveBack("shipping_set", Recomposed(p))
    BY <1>7 DEF RequoteSnapshot
  <2>2. snap \in Sheets
    BY DEF IInv, Typed
  <2>3. p \in Sheets /\ (snap = sheet => p = sheet)
    BY <1>1, <2>2 DEF Sheets
  <2> HIDE DEF p
  <2> QED BY <1>5, <2>1, <2>3
<1>8. ASSUME StripPromo PROVE Follows(sheet)'
  <2> DEFINE p == [sheet EXCEPT !.promo = NoCode, !.discount = 0]
  <2>1. GiveBack("shipping_set", Recomposed(p))
    BY <1>8 DEF StripPromo
  <2>2. p \in Sheets /\ p.promo = NoCode /\ p.discount = 0
    BY <1>1 DEF Sheets
  <2>3. Follows(p)
    <3> HIDE DEF p
    <3> QED BY <2>2, NoDiscount DEF Follows, Gives
  <2> HIDE DEF p
  <2> QED BY <1>5, <2>1, <2>2, <2>3
<1>9. CASE UNCHANGED sheet
  BY <1>9, RetiredStays DEF Follows, Gives
<1> QED BY <1>2, <1>3, <1>4, <1>6, <1>7, <1>8, <1>9, SheetStays
-----------------------------------------------------------------------------
\* The inductive invariant holds for any number of requests and any prices.
THEOREM Invariance == Spec => []IInv
<1>1. Init => IInv
  BY InitHolds
<1>2. IInv /\ [Next]_vars => IInv'
  BY NextStep
<1> QED BY <1>1, <1>2, PTL DEF Spec

\* The two flags stay Boolean, whatever the row holds.
LEMMA FlagsStep ==
    ASSUME due \in BOOLEAN, marked \in BOOLEAN, [Next]_vars
    PROVE  due' \in BOOLEAN /\ marked' \in BOOLEAN
<1>1. ASSUME NEW r \in Requests, Handler(r)
      PROVE  due' \in {due, FALSE} /\ UNCHANGED marked
  BY <1>1 DEF Handler, ReadAddress, ReadShipping, ReadApply, ReadPayment,
     ReadRemove, ReadCancel, ReadActive, Read, SetAddress, SetShipping,
     SetPaymentToken, SetPromo, Write, WriteRow, UpdateStatus, CancelLost,
     CancelDone, Touch, MarkExpired, Expire, Fail, rowVars, confirmVars
<1>2. ASSUME Confirm PROVE UNCHANGED due /\ marked' \in {marked, TRUE}
  BY <1>2 DEF Confirm, ConfirmEntry, ConfirmExpire, Expire, BeginConfirm,
     RereadConfirming, Requote, RequoteSnapshot, StripPromo, AbortConfirm,
     GiveBack, Checkpoint, CreateOrder, CompleteSession, ConfirmDies, WriteRow,
     rowVars
<1>3. CASE \/ DeadlinePasses \/ ExpireDue \/ UNCHANGED vars
          \/ \E code \in Retirable : RetireCode(code)
  <2>1. due' \in {due, TRUE} /\ UNCHANGED marked
    BY <1>3 DEF DeadlinePasses, ExpireDue, RetireCode, WriteRow, vars, funnelVars,
       rowVars, confirmVars
  <2> QED BY <2>1, Zenon
<1>4. CASE \E r \in Requests : Handler(r)
  BY <1>1, <1>4, Zenon
<1>5. CASE Confirm
  BY <1>2, <1>5, Zenon
<1> QED BY <1>3, <1>4, <1>5, Zenon DEF Next, FunnelNext

\* The columns, the requests and the confirm keep their types; no sum is ever
\* negative but the total's.
THEOREM TypeCorrect == Spec => []TypeOK
<1>1. Init => due \in BOOLEAN /\ marked \in BOOLEAN
  BY Zenon DEF Init
<1>2. /\ due \in BOOLEAN /\ marked \in BOOLEAN /\ [Next]_vars
      => (due \in BOOLEAN /\ marked \in BOOLEAN)'
  BY FlagsStep
<1>3. IInv /\ due \in BOOLEAN /\ marked \in BOOLEAN => TypeOK
  BY DEF IInv, Typed, TypeOK, Labels, Steps
<1> QED BY <1>1, <1>2, <1>3, Invariance, PTL DEF Spec

\* A stored quote is for the stored address and for the stored sum, whatever
\* PUTs, promos and requotes overlap.
THEOREM QuotesFit == Spec => []QuoteIsForAddress
<1>1. IInv => QuoteIsForAddress
  BY DEF IInv, RowInv, QuoteFits, QuoteIsForAddress
<1> QED BY <1>1, Invariance, PTL

\* What can be confirmed has an address and a quote.
THEOREM NoStepSkipped == Spec => []ConfirmableIsQuoted
<1>1. IInv => ConfirmableIsQuoted
  BY DEF IInv, RowInv, Confirmable, IsQuoted, ConfirmableIsQuoted
<1> QED BY <1>1, Invariance, PTL

\* A discount leaves its promo only by a write that another one has overtaken,
\* whichever codes are retired when.
THEOREM DriftIsOvertaking == Spec => OnlyOvertakenWritesDrift
<1>1. DiscountFollowsPromo <=> Follows(sheet)
  BY DEF DiscountFollowsPromo, Follows
<1>2. DiscountFollowsPromo' <=> Follows(sheet)'
  BY DEF DiscountFollowsPromo, Follows
<1>3. IInv /\ [Next]_vars =>
        [DiscountFollowsPromo =>
            DiscountFollowsPromo' \/ \E r \in Requests : Overtaken(r)]_vars
  BY <1>1, <1>2, DriftStep
<1> QED BY <1>3, Invariance, PTL DEF Spec, OnlyOvertakenWritesDrift
-----------------------------------------------------------------------------
(* What the overtaken write is the only cause of.                          *)

\* The total is composed from the row it stands in, in every state.
THEOREM TotalsAddUp == Spec => []TotalIsComposed
<1>1. IInv => TotalIsComposed
  BY DEF IInv, RowInv, QuoteFits, AddsUp, TotalIsComposed
<1> QED BY <1>1, Invariance, PTL

\* A discount that follows its promo is never more than what it is taken off.
LEMMA FollowingIsInBounds ==
    ASSUME NEW q \in Sheets, Follows(q) PROVE InBounds(q)
<1>1. /\ q.promo \in Codes \cup {NoCode} /\ q.discount \in Nat
      /\ q.subtotal \in Nat /\ q.fee \in Nat /\ q.tax \in Nat
  BY DEF Sheets
<1>2. q.discount <= q.subtotal + q.fee + q.tax
  BY <1>1, GivenIsInBounds DEF Follows
<1> QED BY <1>1, <1>2 DEF InBounds, Ceiling

\* What the confirm reread follows its promo like the row it read.
SnapFollows == cpc \in Reread => Follows(snap)

\* The confirm's copy only ever changes by a reread, or is dropped.
LEMMA SnapStep ==
    ASSUME [Next]_vars
    PROVE  \/ cpc' \notin Reread
           \/ snap' = sheet
           \/ cpc \in Reread /\ snap' = snap
<1>1. CASE Confirm
  BY <1>1 DEF Confirm, ConfirmEntry, ConfirmExpire, BeginConfirm,
     RereadConfirming, Requote, RequoteSnapshot, StripPromo, AbortConfirm,
     GiveBack, Checkpoint, CreateOrder, CompleteSession, ConfirmDies, Reread
<1>2. ASSUME NEW r \in Requests, Handler(r) PROVE UNCHANGED <<cpc, snap>>
  BY <1>2 DEF Handler, ReadAddress, ReadShipping, ReadApply, ReadPayment,
     ReadRemove, ReadCancel, ReadActive, Read, SetAddress, SetShipping,
     SetPaymentToken, SetPromo, Write, UpdateStatus, CancelLost,
     CancelDone, Touch, MarkExpired, Fail, confirmVars
<1>3. CASE \/ DeadlinePasses \/ ExpireDue \/ UNCHANGED vars
          \/ \E code \in Retirable : RetireCode(code)
  BY <1>3 DEF DeadlinePasses, ExpireDue, RetireCode, vars, funnelVars, confirmVars
<1> QED BY <1>1, <1>2, <1>3 DEF Next, FunnelNext

CalmInv == Follows(sheet) /\ SnapFollows

LEMMA CalmStep ==
    ASSUME IInv, CalmInv, [Next]_vars, [\A r \in Requests : ~Overtaken(r)]_vars
    PROVE  CalmInv'
<1>1. CASE UNCHANGED vars
  BY <1>1 DEF vars, funnelVars, rowVars, confirmVars, CalmInv, Follows, Gives,
     SnapFollows
<1>2. CASE \A r \in Requests : ~Overtaken(r)
  <2>1. Follows(sheet)'
    BY <1>2, DriftStep DEF CalmInv
  <2>2. SnapFollows'
    BY <2>1, SnapStep, RetiredStays DEF CalmInv, SnapFollows, Follows, Gives
  <2> QED BY <2>1, <2>2 DEF CalmInv
<1> QED BY <1>1, <1>2

\* If no write is overtaken, every sum the service keeps or sends follows its
\* promo.
LEMMA CalmInvariance == Spec /\ NoneOvertaken => []CalmInv
<1>1. Init => CalmInv
  <2> SUFFICES ASSUME Init PROVE CalmInv
    OBVIOUS
  <2>1. PICK n \in Subtotals : sheet = NewSheet(n)
    BY DEF Init
  <2>2. sheet.promo = NoCode /\ sheet.discount = 0
    BY <2>1 DEF NewSheet
  <2>3. cpc \notin Reread
    BY DEF Init, Reread
  <2> QED BY <2>2, <2>3, NoDiscount DEF CalmInv, Follows, Gives, SnapFollows
<1>2. IInv /\ CalmInv /\ [Next]_vars /\ [\A r \in Requests : ~Overtaken(r)]_vars
        => CalmInv'
  BY CalmStep
<1> QED BY <1>1, <1>2, Invariance, PTL DEF Spec, NoneOvertaken

\* A discount that neither its promo nor that promo's retirement gives has one
\* cause: a write overtaken by another.
THEOREM DriftHasOneCause == Spec /\ NoneOvertaken => []DiscountFollowsPromo
<1>1. CalmInv => DiscountFollowsPromo
  BY DEF CalmInv, Follows, DiscountFollowsPromo
<1> QED BY <1>1, CalmInvariance, PTL

\* So has a charge below nothing, or above what the components add up to.
THEOREM ChargeHasOneCause == Spec /\ NoneOvertaken => []ChargeInBounds
<1>1. ASSUME IInv, CalmInv PROVE ChargeInBounds
  <2>1. sheet \in Sheets /\ InBounds(sheet) /\ AddsUp(sheet)
    BY <1>1, FollowingIsInBounds DEF IInv, Typed, CalmInv, RowInv, QuoteFits
  <2>2. Ceiling(sheet) \in Nat /\ sheet.discount \in 0..Ceiling(sheet)
    BY <2>1 DEF Sheets, InBounds, Ceiling
  <2> QED BY <2>1, <2>2 DEF ChargeInBounds, AddsUp
<1> QED BY <1>1, Invariance, CalmInvariance, PTL

\* And so has an attempt that order-service rejects under a marker that cannot
\* be undone.
THEOREM PoisonHasOneCause == Spec /\ NoneOvertaken => []NoPoisonedAttempt
<1>1. IInv /\ CalmInv => NoPoisonedAttempt
  BY FollowingIsInBounds
     DEF IInv, Typed, CalmInv, SnapFollows, Reread, NoPoisonedAttempt
<1> QED BY <1>1, Invariance, CalmInvariance, PTL

\* Who is condemned to expire read a deadline that had passed, as long as no
\* deadline is moved meanwhile.
LEMMA CondemnedStep ==
    ASSUME IInv, Condemned => due, [Next]_vars,
           [due /\ ~due' => ~Condemned]_vars
    PROVE  (Condemned => due)'
<1>1. Condemned' => Condemned \/ (due /\ due')
  <2>1. ASSUME NEW r \in Requests, Handler(r), NEW t \in Requests,
               pc'[t] = "lazy"
        PROVE  pc[t] = "lazy" \/ (due /\ due')
    <3>1. pc \in [Requests -> Labels]
      BY DEF IInv, Typed
    <3>2. CASE pc' = pc \/ t # r
      BY <2>1, <3>1, <3>2 DEF Handler, ReadAddress, ReadShipping, ReadApply,
         ReadPayment, ReadRemove, ReadCancel, ReadActive, Read, SetAddress,
         SetShipping, SetPaymentToken, SetPromo, Write, UpdateStatus,
         CancelLost, CancelDone, Touch, MarkExpired, Fail, Answered
    <3>3. CASE t = r
      <4>1. CASE \E u : Read(r, u)
        <5>1. Overdue /\ UNCHANGED due
          BY <2>1, <3>1, <3>3, <4>1 DEF Read
        <5> QED BY <5>1, Zenon DEF Overdue
      <4>2. CASE ReadActive(r)
        <5>1. Overdue /\ UNCHANGED due
          BY <2>1, <3>1, <3>3, <4>2 DEF ReadActive, rowVars
        <5> QED BY <5>1, Zenon DEF Overdue
      <4>3. CASE \E label \in Labels \ {"lazy"} : Answered(r, label)
        BY <2>1, <3>1, <3>3, <4>3 DEF Answered
      <4> QED BY <2>1, <4>1, <4>2, <4>3 DEF Handler, ReadAddress,
              ReadShipping, ReadApply, ReadPayment, ReadRemove, ReadCancel,
              SetAddress, SetShipping, SetPaymentToken, SetPromo, Write,
              UpdateStatus, CancelLost, CancelDone, Touch, MarkExpired, Fail,
              Labels
    <3> QED BY <3>2, <3>3
  <2>2. ASSUME Confirm PROVE pc' = pc /\ (cpc' = "lazy" => cpc = "lazy" \/ (due /\ due'))
    BY <2>2 DEF Confirm, ConfirmEntry, ConfirmExpire, BeginConfirm,
       RereadConfirming, Requote, RequoteSnapshot, StripPromo, AbortConfirm,
       GiveBack, Checkpoint, CreateOrder, CompleteSession, ConfirmDies,
       requestVars, rowVars, Overdue
  <2>3. ASSUME NEW r \in Requests, Handler(r) PROVE UNCHANGED cpc
    BY <2>3 DEF Handler, ReadAddress, ReadShipping, ReadApply, ReadPayment,
       ReadRemove, ReadCancel, ReadActive, Read, SetAddress, SetShipping,
       SetPaymentToken, SetPromo, Write, UpdateStatus, CancelLost,
       CancelDone, Touch, MarkExpired, Fail, confirmVars
  <2>4. CASE \/ DeadlinePasses \/ ExpireDue \/ UNCHANGED vars
            \/ \E code \in Retirable : RetireCode(code)
    BY <2>4 DEF DeadlinePasses, ExpireDue, RetireCode, vars, funnelVars,
       requestVars, confirmVars, Condemned
  <2>5. CASE \E r \in Requests : Handler(r)
    BY <2>1, <2>3, <2>5, Zenon DEF Condemned
  <2>6. CASE Confirm
    BY <2>2, <2>6, Zenon DEF Condemned
  <2> QED BY <2>4, <2>5, <2>6 DEF Next, FunnelNext
<1>2. CASE UNCHANGED vars
  BY <1>2, Zenon DEF vars, funnelVars, rowVars, requestVars, confirmVars, Condemned
<1>3. CASE due /\ ~due' => ~Condemned
  BY <1>1, <1>3, Zenon
<1> QED BY <1>2, <1>3, Zenon

\* Who expires a session has read its deadline, in this step or before.
LEMMA OnlyTheCondemned ==
    ASSUME [Next]_vars, status' = "expired", status # "expired"
    PROVE  due \/ Condemned
<1>1. ASSUME NEW r \in Requests, Handler(r) PROVE Condemned
  <2>1. pc[r] = "lazy"
    BY <1>1 DEF Handler, ReadAddress, ReadShipping, ReadApply, ReadPayment,
       ReadRemove, ReadCancel, ReadActive, Read, SetAddress, SetShipping,
       SetPaymentToken, SetPromo, Write, WriteRow, UpdateStatus, CancelLost,
       CancelDone, Touch, MarkExpired, Fail, rowVars
  <2> QED BY <2>1 DEF Condemned
<1>2. ASSUME Confirm PROVE cpc = "lazy"
  BY <1>2 DEF Confirm, ConfirmEntry, ConfirmExpire, BeginConfirm,
     RereadConfirming, Requote, RequoteSnapshot, StripPromo, AbortConfirm,
     GiveBack, Checkpoint, CreateOrder, CompleteSession, ConfirmDies,
     WriteRow, rowVars
<1>3. CASE ExpireDue
  BY <1>3, Zenon DEF ExpireDue
<1>4. CASE \/ DeadlinePasses \/ UNCHANGED vars
          \/ \E code \in Retirable : RetireCode(code)
  BY <1>4 DEF DeadlinePasses, RetireCode, vars, funnelVars, rowVars
<1> QED BY <1>1, <1>2, <1>3, <1>4 DEF Next, FunnelNext, Condemned

\* A session that expires before its deadline has one cause: a touch between
\* lazyExpire's read of the deadline and its write.
THEOREM EarlyExpiryHasOneCause == Spec /\ NoneSpared => ExpiresOnlyPastDeadline
<1>1. Init => (Condemned => due)
  <2>1. ASSUME Init PROVE ~Condemned
    BY <2>1 DEF Init, Condemned
  <2> QED BY <2>1, Zenon
<1>2. /\ IInv /\ (Condemned => due) /\ [Next]_vars
      /\ [due /\ ~due' => ~Condemned]_vars
      => (Condemned => due)'
  BY CondemnedStep
<1>3. (Condemned => due) /\ [Next]_vars =>
        [status' = "expired" /\ status # "expired" => due]_vars
  BY OnlyTheCondemned, Zenon
<1> QED BY <1>1, <1>2, <1>3, Invariance, PTL
        DEF Spec, NoneSpared, ExpiresOnlyPastDeadline
=============================================================================
