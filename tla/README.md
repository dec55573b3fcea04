# Checkout: specification, model checking and proofs

TLA+ modules of checkout-service, checked with TLC on small instances; their
safety properties, and that the confirm protocol, the session API and the
promo ledger implement their abstract specifications, are proved with TLAPS for
every instance. Every definition is
translated from the Go code and SQL at this commit; `PROJECT.json` says which
lines each one stands for.

## The system

checkout-service turns a cart into one order. A session is a row in PostgreSQL
that walks `open -> address_set -> shipping_set -> ready -> confirming ->
completed`, or ends `cancelled` or `expired`. A user has at most one active
session. The parts:

| part | state | operations | what makes it correct |
|---|---|---|---|
| state machine (`fsm.go`, `domain/session.go`) | the status | `CanTransition` | terminal states are final; every write follows an edge |
| confirm (`confirm.go`) | none of its own: a process between calls | `Confirm` and the ten steps it makes | one order per session; the order is what the session shows; an authorized attempt is only driven forward |
| idempotency claims (`idem.go`, a library) | one row per (user, key): request hash, lock, `subject_id`, cached answer | Claim, Checkpoint, Finish, Release, reap | a key is one request; a lock is one live owner; a replay answers what happened |
| session repository (`session.go`) | the rows | conditional UPDATEs, `ExpireDue` | each write's condition is enough for what its caller decided on an earlier read |
| funnel service (`service.go`) | none: read, compute, write, touch | PUT address, shipping, payment, promo, cancel, create, get | a quote is for the address it stands by; totals are composed; one active session; nobody loses a session early; a cancel is final |
| promo (`promo.go` twice) | `promo_codes`, `promo_redemptions` | apply, remove, strip, `RedeemPromo` | caps hold; a use is counted once; the discount follows the code |
| catalog (`resolveCatalog`, `revalidate`) | the session's lines | two concurrent reads, a merge, a comparison | an outage never reads as a shortage, a refusal never as an outage |
| abandonment watch (`abandon.go`, `notifier.go`) | a durable workflow per session | timer, signals, `ExpireIfDue`, rotation | every live session is watched; an abandoned one expires |
| HTTP handlers (`handler.go`, `errors.go`) | none | a status code for every error | an outage is told from a refusal, a refusal from a bug |
| lazy connection (`lazy.go`) | the client, a dial in flight | `NewLazy`, `redial`, `Close` | it connects once Temporal answers; `Close` never waits for a dial; no connection leaks |
| process (`main.go`, `config.go`) | durations, the lock's age | start-up check and dials, graceful shutdown | a lock outlives its owner; shutdown ends; only a confirm the timeout is too short for is cut |
| clients, metrics, migrations, parsing of the configuration | see "Not modelled" | | |

How they interact: HTTP handlers call the funnel service and the confirm, many
at a time, in several processes. They share nothing but the database. The
confirm calls cart's, product's, inventory's and order's services. Every
mutation sends the watch a signal from a goroutine of its own; the watch calls
back through `ExpireDue`. A sweep deletes answered claims every hour.

What is hard: a handler decides on a row it read some calls ago; a call can be
applied and its answer lost; a process can die between any two calls; the same
request is retried, with the same key or another; a lock is taken over from an
owner believed dead; timers, signals and the shopper race. `PROJECT.json` lists
these hazards at their lines with the properties that watch them.

## Modules

| module | models | unit of atomicity |
|---|---|---|
| `SessionFSM` | the statuses and edges | - |
| `CheckoutConfirm` | the confirm protocol, claims, redemption, order-service, with the funnel, the timer and the reaper as the environment | one call: `ok`, `lost` (applied, but the caller sees an error) or `failed` |
| `PurchaseOnce` | what the confirm promises: shop, commit to terms under one key, order, complete; or drop | - |
| `CheckoutConfirmProofs` | the inductive invariant of `CheckoutConfirm` and its theorems | - |
| `PurchaseOnceProofs` | the refinement of `PurchaseOnce`, and the theorems it shares its lemmas with | - |
| `CheckoutFunnel` | the handlers of one session and the writes of its confirm, with totals as numbers | one statement; a handler is read, write, touch |
| `CheckoutFunnelProofs` | the theorems about `CheckoutFunnel` | - |
| `SessionApi` | a user's requests over the user's rows: `POST /sessions` with its race, the lazy expiry, every handler's answer | one repository call, with the failures that may hide a landed write |
| `OneSession` | what the API promises one user: an answer is true in the step that gives it | - |
| `SessionApiProofs` | the theorems about `SessionApi`, its refinement of `OneSession` | - |
| `AbandonedCheckout` | the watch of one session, its signals, its clock, and the row they concern | one statement of `ExpireDue`, one turn of the workflow |
| `AbandonedCheckoutProofs` | the theorems about `AbandonedCheckout` | - |
| `PromoLedger` | `RedeemPromo` for sessions confirming side by side | one statement of the transaction |
| `RedeemOnce` | what redeeming a code promises: one step per call, its answer justified by the ledger | - |
| `PromoLedgerProofs` | the theorems about `PromoLedger`, its refinement of `RedeemOnce` | - |
| `BasketCheck` | the two catalog reads, the merge, the snapshot and the revalidation | one reply |
| `BasketCheckProofs` | the theorems about `BasketCheck` | - |
| `LazyConnection` | the notifier's connection: redial loop, abandoned dial, `Close` | one `select` or channel operation |
| `ServeProcess` | one process from its configuration to its exit, with one confirm, its lock and the connection | one tick, one step of `main`, one phase of the confirm |
| `ServeProcessProofs` | the theorems about `ServeProcess` and `LazyConnection` | - |
| `MC...` | the instances TLC checks | |

`SessionFSM` is extended by `CheckoutConfirm`, `CheckoutFunnel` and
`SessionApi`, `LazyConnection` by `ServeProcess`. `CheckoutConfirm` instantiates
`PurchaseOnce`, `SessionApi` `OneSession` and `PromoLedger` `RedeemOnce`, each
with a refinement mapping. Facts carry over from one module to another: that a
redemption is as good as one step (`PromoLedger` implements `RedeemOnce`) lets
`CheckoutConfirm` redeem in one; that one execution drives a session (`OneDriver`, proved) lets
`CheckoutFunnel` and `PromoLedger` have one confirm per session; that a lock's
owner is dead when it goes stale (`LockGoesStale` in `CheckoutConfirm`, the clock
of `AbandonedCheckout`) is `FenceHolds` of `ServeProcess`, proved there from the
durations and the start-up check, with the exception it names.

**`CheckoutConfirm`.** A variable per column (`status`, `bound` for
`confirm_key_id`, `content` for items, totals, token and promo as one value,
`orderId`, `due` for an `expires_at` in the past) and per column of a claim
(`row`, `claimFor`, `holder`, `subject`, `cached`), `orders` by session and key,
and the registers of each execution (`pc`, `snap`, `marked`). Each label of `pc`
is a call of the code; each action is that call, its condition and the branch
the code takes on the answer. A claim's id carries a row number, since a key
reaped and claimed again is another row. `MidConfirmEdits` says whether the
shopper sends PUT shipping or PUT payment to a session being confirmed, which
the handlers accept. `Overshot` contents are those order-service rejects.

**`CheckoutFunnel`.** `sheet` is the money side of the row. A request carries
the columns it computed from its read in `task`; `fresh` is the set of requests
whose `updated_at` is still the row's, which is what `SetShipping` compares.
`retired` are the codes whose row of `promo_codes` is gone: no statement of the
service deletes one, but `sessionDiscount` handles it, by a discount of 0 and the
code left on the row, ApplyPromo refuses it and the redemption strips it.

**`SessionApi`.** A request is a record: operation, next step, row, the status
it read, and once answered the code. `Code` composes what the service returns
with what the handler makes of it (`CreateCode`, `respondSessionError`). `fresh`
is as above, `due` the rows past their deadline now, `lapsed` those that ever
were. `retired`, `spared` and `late` are history of a create: the row it retired,
whether that failed, whether the row it hands out had elapsed. The confirm, the
timer and the clock are outside actors that move rows along their edges.

**`ServeProcess`.** `budget` is what is left of the context the confirm writes
under, `age` how long its lock has been set: `Enter` starts the deadline, `Claim`
the lock's age, and an aborted confirm gets a fresh detached context for each of
two writes. `config.window` is the takeover window the process checks at
start-up, `config.worker` the one a worker runs with unchecked. `broken` and
`cut` are history: how a live owner lost its lock, and that the pool was closed
under a confirm. `pgxpool.Close` waits for queries in progress, which is part of
`ClosePool`.

**`AbandonedCheckout`.** `left`, `wait` and `stale` are count-downs in ticks.
`excuse` is history, not state of the program: it records why nobody watches a
session, so that the invariant can say there is no other reason. There are two:
`lost`, its insert's answer or its last signal was lost; `raced`, it came back
from a confirm, undone or taken out of it by PUT shipping or PUT payment, when a
run had already read it as confirming and had not returned. An edit sends a
signal even then, but one that arrives before the run returns is drained.

**`BasketCheck`.** `shelf` and `stock` are what product and inventory held when
they answered. Prices are only compared, so they are bare values.

## Runs

| run | instance | properties |
|---|---|---|
| `confirm_calm` | 1 session, 2 keys, 2 executions, contents plain, with promo, overshot; no edits during a confirm | types, cached answers are shown, orders match and are never stranded, promos of orders are counted, attempts are frozen, refinement of `PurchaseOnce` |
| `confirm_edits` | the same, one content, edits during a confirm | the inductive invariant, one order, one driver, completed sessions have orders, FSM |
| `confirm_two_sessions` | 2 sessions, 1 key, 2 executions, edits | an order binds its session |
| `confirm_live` | 1 session, 1 key, 1 execution, contents plain, with promo, overshot; no edits during a confirm, fair | parked confirms are reaped; retried attempts complete |
| `funnel` | 2 requests, 2 regions, a percentage code that may be retired, 2 subtotals | types, a quote is for its address, no skipped step, only overtaken writes drift |
| `api` | 2 requests, 2 rows, every operation | types, a retired row is not handed out, refinement of `OneSession` |
| `abandon` | TTL 2, takeover 3, cap 2, 2 signals, fair | types, the watch is kept, only dead confirms are reaped; abandoned sessions expire |
| `promo_ledger` | 3 sessions of 2 users, cap 2, 1 per user | types, counter, caps, refinement of `RedeemOnce` |
| `basket` | 2 SKUs, up to 2 lines of up to 2, stock up to 3 or untracked | types, honest verdicts, causes of refusals, one error suffices |
| `process` | deadline 2, detached write 1, windows 2, 5 and 13, drains 1 and 2, timeouts 2, 4 and 5, 2 start-up dials, fair | types with one connection, the fence holds, only a short shutdown cuts, shutdown ends, late dials are closed, the connection heals |
| `stranded_order` | 1 session, key and execution, contents plain and with promo, edits | a disagreement, see below |
| `poisoned_attempt` | 2 requests, 1 region, a percentage code and a fixed one that may be retired, 2 subtotals | a disagreement, see below |

Bounds. Two keys and two executions are what a second order or a second driver
needs; a third adds no new pair. Two sessions with one key show what the request
hash is for. `MaxRow = 2` lets an answered key be reaped and claimed again once
(1 in `confirm_live`). Two subtotals and two regions make a requote and a new
address change the totals, and a percentage moves with the subtotal, so a write
computed on the other one shows. One code that may be retired in any state is
beside a session that keeps it, loses it or has it refused; fixed codes, and one
that stays beside one that goes, are in `poisoned_attempt` and in the theorems,
which hold for any codes and values. A TTL of 2 and a takeover of 3 let either
clock run out first, a cap of 2 rotates on the second signal. Baskets of two
lines repeat a SKU, with 3 in stock for 2 and 1. Two requests over two rows are
one race for the index, one winner, and one row retired before it. In `process`
a tick is one detached write: the last possible write is at 4, the check asks
for more than 12, and the three windows lie below the one, between the two, and
above both; `MaxAge = 14` is past every window. Deadlock is off in every run
where the system may rest: all sessions ended, or a request that hangs because
no answer is due. In `basket` a new round and in `api` a new request can always
start, so there deadlock is checked.

Fairness. `confirm_live` assumes that executions proceed (a context deadline
ends every call), that locks go stale and deadlines pass (time), and that the
watch keeps asking (Temporal retries without end). That a retry comes, and that
calls do not fail for ever, is about the world outside; it is a premise of
`RetriedAttemptCompletes`, as "the shopper is gone" is one of
`ParkedConfirmIsReaped`. Two premises of `RetriedAttemptCompletes` are not about
the world. An attempt marked with an overshot discount is excepted by name: no
retry completes it, since `validateOrderBounds` turns each away (the run has such
contents, and fails without the exception). And the shopper sends no PUT shipping
or payment to a session in its confirm (`MidConfirmEdits`): one that does undoes
the attempt. `abandon` assumes time, delivery or loss of signals,
and that a statement asked again and again gets through (the activity's retry
policy has no maximum). `basket` assumes only that a cancelled read returns and
that a joined result is judged; neither service need ever answer.
`process` assumes that goroutines are scheduled and that time passes (strongly:
an endless series of confirms served in no time must not stop the clock). No
dial need answer and no signal come; that Temporal keeps answering is a premise
of `SelfHeals` alone.

## Where code and comments disagree

* `stranded_order`. The FSM's edges `confirming -> shipping_set` and `-> ready`
  are for the confirm's own undo, but satisfy the handlers of PUT shipping and
  PUT payment as well, and neither clears the binding. An order then exists for
  a session that is back in the funnel and can be cancelled. On the same
  instance `OrderMatchesSession` fails too, and so does `PromoOrderCounted`: the
  execution died after its marker, a PUT payment makes the session ready, a
  promo is attached, and the retry, marked already, orders with a discount that
  it did not redeem. That these properties hold in `confirm_calm` shows there is
  no second cause. A fix is to refuse `confirming` in those two handlers;
  `OneOrderPerSession` is proved without it.
* `poisoned_attempt`. The bounds are checked on the confirm's first read, and
  what is ordered is its second. A promo write that overlaps them can attach a
  discount above the sum: it is redeemed, marked, and refused by order-service
  with `InvalidArgument`, and the same check turns every retry away. It takes an
  overtaken write (`PoisonHasOneCause`, proved).

Others are not runs of their own; each has a definition, and naming it in place
of the properties of the configuration shows the behaviour. For all of them but
the overtaken cancel it is proved that they have one cause: the property holds
of every execution in which one named thing never happens.

* `DiscountFollowsPromo` (`Finding_poison.cfg`). Address and promo writes compare
  the status, not the revision their discount was computed on. Beside a code that
  is retired mid-session the property admits both what the code gave, which stays
  until the next write of the totals, and 0, which that write leaves with the
  code still on the row. `OnlyOvertakenWritesDrift` holds: nothing else drifts.
  Two consequences: the total can leave its bounds (`ChargeInBounds`), and
  `poisoned_attempt` above. All three hold when no write is overtaken
  (`NoneOvertaken`).
* `DownIsRetryable` (`Api.cfg`). PUT shipping answers 500 when shipping-service
  is down: `respondSessionError` has no arm for `ErrUpstream`, which the create
  path answers 503, as `service.go:130` and `handler.go:101` say. Every other
  outage is answered 503 (`OneOutageIsMisreported`).
* `CancelledIsNotBought` (`Funnel.cfg`). A cancel overtaken by the whole confirm
  answers success. The session has ended, but bought: `CancelIsFinal` is proved.
* `ClearedIsNotShort` (`Basket.cfg`). A SKU's lines are all compared with the
  quantity of its last one; it holds when no SKU is on two lines (`Distinct`).
* `ExpiresOnlyPastDeadline` (`Funnel.cfg`). Lazy expiry acts on a deadline
  another request has moved, and on nothing else that is early (`NoneSpared`).
  The deadline had passed once: `NoEarlyExpiry` is proved.
* `GivenUpOnlyWhenDead` (`Abandon.cfg`). The first query of `ExpireDue`'s
  read-back sees the session confirming, the second looks at the binding. A
  confirm undone in between answers "gone". A PUT shipping or payment that takes
  the session out of a marked confirm, before the second query or before the run
  returns, does no better: its signal is drained, where `abandon.go:146-148`
  counts on the next mutation's `SignalWithStart`. Either way the watch ends on a
  working session; the lazy expiry and the next mutation still cover it. It gives
  up early in no other way (`NoneRaced`), and the loop then stops for good only
  (`StopsOnlyForGood`).

And some are only read off the code or off a property's exceptions: POST hands
out an elapsed session when it lost the race for the index, and answers 500
when the winner is gone by then (`FindWinner`); `MaxConfirmWrite`'s comment
(`confirm.go:45`) counts one detached write where the abort path makes two
(`LastWrite`), which the factor of four absorbs; the worker's window is compared
with nothing, since the check is on the serve path only (`main.go:127`); the
default `SHUTDOWN_TIMEOUT` of 10 s is shorter than the confirm deadline of 15 s;
`SESSION_TTL_SECONDS` is parsed as a duration capped at 60 s (`config.go:399`).

## Proofs

All invariants and action properties of the passing runs are proved, for every
value of the constants that meets the module's ASSUME; those of `confirm_calm`
that fail with edits are proved from `~MidConfirmEdits`. Some theorems state
properties that no run lists; each has a definition in the component's module
and can be checked by naming it in the configuration. Those that hold under a
premise about the execution (`Spec /\ NoneOvertaken`) are checked with the
premise conjoined to the next-state relation.

`CheckoutConfirmProofs`, for any sets of sessions, keys, executions and
contents and with edits during a confirm allowed: types (`TypeCorrect`), at most
one order per session (`AtMostOneOrder`), an order binds its session
(`OrdersAreBound`), one driver (`DriversExclude`), a completed session names an
existing order (`CompletedHasOrder`), a replay answers what the session shows
(`CachedIsShown`), and a sale is final (`SoldForGood`): after a completed confirm
no edit, cancel, expiry, retry or new key changes the row, its order or the
answer to any claim of it.

The argument. None of these is inductive. Why can no second key order? Because
`BeginConfirm` refuses a session bound to another claim; so it must be shown
that the binding is never cleared once an order may exist; the three writes
that clear it run before the marker, in an execution that knows its claim is
unmarked; it knows that because it holds the claim's lock; and the lock is its
own because a lock only goes stale when its owner is dead. The inductive
invariant `IInv` says these things in layers, each layer's step lemma using the
ones before it:

1. `Typed`: types; a running execution has its arguments.
2. `ClaimInv`: an execution past Claim holds its claim's lock, for its session;
   a held lock is held by such an execution; a claim being worked on, or absent,
   has no answer.
3. `KnowsMarker`: before `mark` the claim is unmarked, after it is marked.
4. `BindInv`: a driver's session is bound to its claim; so is a marker's.
5. `OrderInv`: past CreateOrder the order exists; an order binds its session
   to a marked claim, until it is completed.
6. `ShownInv`: what a driver of a still confirming session read is what it
   shows; a completed session never changes, and is what is cached.

`IInv` is an invariant of the run `confirm_edits`, so TLC agrees with it on the
instance. The funnel's eight writes share one frame (`FunnelFrame`), proved
once. Two lemmas say that the writes of a confirm other than its own, and the
steps that only end an execution, disturb nothing else.

The proofs assume `ConfirmAssumption` (the null values are not in the sets),
and what the model assumes: a call is atomic and does not land after its
execution ended and its lock was taken over; order-service is idempotent by key.

`PurchaseOnceProofs` starts from `IInv`. Without edits during a confirm, two
more facts are invariant: a bound session is confirming or completed
(`BoundIsConfirming`), and the promo of a session that is past its marker is
counted (`AttemptIsCounted`; it rests on `CountedAtMark`, what an execution knows
when it writes the marker). Then every step of the protocol is one of
seven kinds (`StepKinds`): nothing an onlooker sees changes, or one session
shops, is bound, unbound, marked, gets its order, is completed. The properties
follow from the kinds instead of from some thirty actions: `OrdersMatch`,
`OrdersAreNotStranded`, `OrderedPromosAreCounted`, `AttemptsAreFrozen`, and
`Refinement`, where each kind is one step of `PurchaseOnce` or a stutter.
`StatusMoves` (every write follows an edge) is proved with edits too.

`CheckoutFunnelProofs`, for any requests, regions, methods, codes and sums:
types, with every total a natural number (`TypeCorrect`), a quote is for its
address (`QuotesFit`), no skipped step (`NoStepSkipped`), only overtaken writes
drift (`DriftIsOvertaking`). The invariant says of every request about to write
what it computed its columns from (`TaskInv`), of the confirm what it reread (`SnapInv`), and of the
row that its quote fits its address (`RowInv`): a request whose read is still
current writes what fits, and `SetShipping`, which writes a quote, compares the
revision. Drift: only six writes touch the discount's columns (`SheetStays`),
and each of them on a current read writes the discount its code gives, or none
for a code that is retired (`WriteFollows`); what a row or a request has stays
right when a code goes, since the set of retired codes only grows
(`RetiredStays`). The total on the row is its parts less its discount even so
(`TotalsAddUp`), since each statement composes it from the row it writes.

Four theorems give a cause. If no write is overtaken, a request about to write
knows the row as it is, so the discount is what its code, or that code's
retirement, gives (`DriftHasOneCause`) and
is bounded by the sum (`ChargeHasOneCause`); what the confirm rereads is such a
row, and so is what it marks (`PoisonHasOneCause`). If no deadline is moved under
a lazy expiry that has decided, what it read as due is still due when it writes
(`EarlyExpiryHasOneCause`).

`AbandonedCheckoutProofs`, for any TTL, takeover window, reset cap and number of
signals: types (`TypeCorrect`) and the watch (`WatchIsKept`). `WatchedOrExcused`
is about sessions in the funnel. A confirm may be undone into one without a
signal, so the invariant speaks of every session that may come back so
(`MayReturn`: working, or confirming with nothing marked): a watch that is over,
or was never started and has no signal under way, has an excuse. A marked session
comes back by an edit only, which sends a signal that starts a watch once there
is none; while a run is still ending, the edit is the excuse. The timer takes
only dead and unmarked confirms (`OnlyTheDeadAreReaped`): its one statement asks
for a stale lock, and the lock of a living owner is not stale. If no session
comes back between the first query of a read-back and the end of its run, what
the run saw is still so, and the watch gives up on the dead only
(`GivingUpHasOneCause`, `LoopStopsForGood`).

`BasketCheckProofs`, for any SKUs, prices and quantities: types (`TypeCorrect`),
honest verdicts (`VerdictsAreHonest`), causes of refusals (`RefusalsAreCaused`).
Besides the two properties the invariant only says that no read is out once a
verdict is found (`Settled`). A requote keeps SKUs and quantities
(`BasketStands`), so a cause found on the old lines holds of the new; nothing
about sums is needed but that they are sums of the same. Without a repeated SKU
the line that is compared is the only one (`ShortageHasOneCause`); and a requote
takes the prices it was refused by, so that the same replies do not drift twice
(`RequotesSettle`).

`SessionApiProofs`, for any number of requests and rows: types and codes
(`TypeCorrect`), one active session per user (`OneActiveSession`), nobody is
expired early (`NobodyIsExpiredEarly`), a cancel is final (`CancelledForGood`), a
retired row is not handed out (`RetiredIsNotHandedOut`). The answers are about
the past, the rows move on; so the inductive invariant says for each request
what it knows of its row (`Good`), in terms that no write can take back
(`Moved`: an ended row keeps its status, no row disappears, what elapsed has
elapsed). Then what a request knows survives everybody else's steps once and for
all (`GoodStays`), and each action has to be shown only to move the rows legally
and to leave its own request good. The legality of a conditional write is the
transition table (`AllowedMoves`): what it matched is still active, what it
writes is never `expired`. From the same invariant every write of a row follows
an edge of the FSM (`RowsMoveAlongFSM`), and every outage but one is answered 503
(`OneOutageIsMisreported`).

`Refinement` there is that `SessionApi` implements `OneSession`. The mapping
forgets which active status a live row has (`phaseOf`) and keeps of a request
what its answer says of which session (`toldOf`); what is said depends on the
code and the operation only (`Said`). A step changes what at most one request is
told and the fate of at most one row, so each action's lemma (`...Tells`) shows
two things apart: what the answer says, and that it is true of the rows in this
very step. `Good` supplies the second where the handler read long before: the
row of a mark has elapsed, the row of a touch exists, and a second look is a
cancel's. A write that landed with its answer lost is a refusal with an effect.

`PromoLedgerProofs`, for any sessions, users, cap and limit: types
(`TypeCorrect`), an exact counter (`CountIsExact`), the caps (`CapsHold`), no
redemption is rejected later (`RedeemedStands`). A transaction between its first
statement and its end holds the code's row, so what it has checked (`Knows`: its
row is new, the counter it read is current and below the cap, its user's uses
with its own are within the limit) is still so when it commits. `Refinement`
there is that `PromoLedger` implements `RedeemOnce`: the commit is the step in
which a redemption happens, with its answer lost one answered by an error; the
statements before it are stutters; and a check that fails is a rejection whose
cause, read under the lock, is there in the step that answers
(`ChecksAreCurrent`).

`ServeProcessProofs`, for any durations, windows and timeouts: types and a single
connection (`OneConnection`), the fence (`FencedOut`), cut only by a short
shutdown (`CutIsConfigured`). Each is an account of time: a clock that started
no earlier than the request (the lock's age, the time spent in the shutdown)
plus what is left of the confirm's context never exceeds the end of its phase
(`PhaseEnd`), since a tick moves both and a new phase starts before the last
one's end.

Only model-checked: the liveness properties (`ParkedConfirmIsReaped`,
`RetriedAttemptCompletes`, `AbandonedIsExpired`, `OneErrorSuffices`, and of
`process` that shutdown ends, late dials are closed and the connection heals),
since the prover has no rules for fairness. The sums of `BasketCheck` are
evaluated only by TLC: their recursion is out of the prover's reach.

## Not modelled

Of the handlers, binding and validation of the payload, response bodies, and the
error arms of the confirm. Clients (protobuf conversion), telemetry, migrations;
the parsing of the configuration; of `classify`, the lists behind its two
outcomes. Of the process, wiring, probes, and the worker's own start and stop. A
signal sent while the connection is not there is a lost one in
`AbandonedCheckout`. Field lengths, names and ids of `validateOrderBounds` never
change after creation, so only the discount's bound is kept. The kind and value
of a promo code are constant (nothing in the repository changes them; only its
disappearance is handled, and modelled). Revisions are taken
to be unique (`updated_at` has microseconds and one writer at a time). A
statement that was sent is taken not to be applied after the takeover window.

## Plan

Done first, because everything else leans on it: the confirm, its abstraction
and its proof; then the funnel, the watch, the ledger and the basket; then
opening a session and the answers of the API, the connection and the process,
with the proofs about them and the ledger; then the refinement of `PurchaseOnce`
and the proofs of the funnel, the watch and the basket; then the refinements of
`OneSession` and `RedeemOnce`, and the theorems that give each known
disagreement its one cause. Next:

1. The answers of the confirm's own errors, beside `respondSessionError`.
2. A third execution in `confirm_calm` by a smaller environment, to put a
   takeover of a takeover on an instance (the proofs cover it).
