----------------------------- MODULE PromoLedger -----------------------------
(***************************************************************************)
(* The redemption ledger of one promo code: RedeemPromo as the transaction *)
(* it is, one statement per step, for sessions confirming side by side.    *)
(* Everything it locks, counts and checks is per code.                     *)
(*                                                                         *)
(* A session has one redeeming execution at a time (OneDriver of           *)
(* CheckoutConfirm), which may be retried after any answer, lost ones too. *)
(***************************************************************************)
EXTENDS Integers, FiniteSets

CONSTANTS
    Sessions, Users,
    Owner,      \* [Sessions -> Users]
    Max,        \* max_redemptions
    PerUser,    \* per_user_limit
    NoOne       \* the code's row is not locked

ASSUME LedgerAssumption ==
    /\ IsFiniteSet(Sessions)
    /\ Owner \in [Sessions -> Users]
    /\ Max \in Nat /\ PerUser \in Nat
    /\ NoOne \notin Sessions

VARIABLES
    rows,       \* sessions with a committed row in promo_redemptions
    count,      \* promo_codes.redeemed_count, committed
    expired,    \* promo_codes.expires_at is past
    lock,       \* the session whose transaction holds the code's row
    pc,         \* the transaction's next statement, or its answer
    seen,       \* the redeemed_count it read with the lock
    added       \* its uncommitted effects: a row, an increment

vars == <<rows, count, expired, lock, pc, seen, added>>

Answers == {"ok", "rejected", "error"}
Statements == {"insert", "expiry", "cap", "user", "increment", "commit"}

\* The tables' and the transactions' domains.
TypeOK ==
    /\ rows \subseteq Sessions /\ count \in Nat /\ expired \in BOOLEAN
    /\ lock \in Sessions \cup {NoOne}
    /\ pc \in [Sessions -> {"idle"} \cup Answers \cup Statements]
    /\ seen \in [Sessions -> Nat]
    /\ added \in [Sessions -> SUBSET {"row", "increment"}]

Init ==
    /\ rows = {} /\ count = 0 /\ expired = FALSE /\ lock = NoOne
    /\ pc = [s \in Sessions |-> "idle"]
    /\ seen = [s \in Sessions |-> 0]
    /\ added = [s \in Sessions |-> {}]

Goto(s, label) == pc' = [pc EXCEPT ![s] = label]

\* The transaction is over: its locks and uncommitted effects are gone.
End(s, answer) ==
    /\ Goto(s, answer)
    /\ lock' = IF lock = s THEN NoOne ELSE lock
    /\ added' = [added EXCEPT ![s] = {}]
    /\ seen' = [seen EXCEPT ![s] = 0]

FaultyRollback(s, answer) ==
    End(s, answer) /\ count' = count - 1 /\ UNCHANGED <<rows, expired>>
Rollback(s, answer) == End(s, answer) /\ UNCHANGED <<rows, count, expired>>

\* SELECT ... FOR UPDATE.
FaultyLockable == TRUE
Lockable == lock = NoOne
LockCode(s) ==
    /\ pc[s] = "idle" /\ Lockable
    /\ lock' = s
    /\ seen' = [seen EXCEPT ![s] = count]
    /\ Goto(s, "insert")
    /\ UNCHANGED <<rows, count, expired, added>>

\* ON CONFLICT (code, session_id) DO NOTHING: a use counted before is done.
FaultyAfterInsertChecked(s) == "expiry"
FaultyAfterInsertCounted(s) == IF s \in rows THEN "increment" ELSE "expiry"
AfterInsert(s) == IF s \in rows THEN "commit" ELSE "expiry"

Insert(s) ==
    /\ pc[s] = "insert"
    /\ added' = [added EXCEPT ![s] = IF s \in rows THEN {} ELSE {"row"}]
    /\ Goto(s, AfterInsert(s))
    /\ UNCHANGED <<rows, count, expired, lock, seen>>

\* A check that stands, or rejects and rolls back.
Check(s, label, passes, next) ==
    /\ pc[s] = label
    /\ \/ passes /\ Goto(s, next)
          /\ UNCHANGED <<rows, count, expired, lock, seen, added>>
       \/ ~passes /\ Rollback(s, "rejected")

CheckExpiry(s) == Check(s, "expiry", ~expired, "cap")
CheckCap(s) == Check(s, "cap", seen[s] < Max, "user")

\* What it counts of its user: the committed rows and its own.
Mine(s) == {t \in rows : Owner[t] = Owner[s]} \cup {s}
CheckUser(s) ==
    Check(s, "user", Cardinality(Mine(s)) <= PerUser, "increment")

Increment(s) ==
    /\ pc[s] = "increment"
    /\ added' = [added EXCEPT ![s] = @ \cup {"increment"}]
    /\ Goto(s, "commit")
    /\ UNCHANGED <<rows, count, expired, lock, seen>>

\* The commit's answer may be lost.
Commit(s) ==
    /\ pc[s] = "commit"
    /\ rows' = IF "row" \in added[s] THEN rows \cup {s} ELSE rows
    /\ count' = IF "increment" \in added[s] THEN count + 1 ELSE count
    /\ \E answer \in {"ok", "error"} : End(s, answer)
    /\ UNCHANGED expired

\* Lock timeout, datastore failure, deadline or crash: everything rolls back.
Fail(s) ==
    /\ pc[s] \in Statements \cup {"idle"}
    /\ Rollback(s, "error")

\* The confirm is tried again, or the code is applied again after a strip.
Retry(s) ==
    /\ pc[s] \in Answers
    /\ Goto(s, "idle")
    /\ UNCHANGED <<rows, count, expired, lock, seen, added>>

ExpiryPasses ==
    /\ ~expired /\ expired' = TRUE
    /\ UNCHANGED <<rows, count, lock, pc, seen, added>>

RedeemPromo(s) ==
    \/ LockCode(s) \/ Insert(s) \/ CheckExpiry(s) \/ CheckCap(s)
    \/ CheckUser(s) \/ Increment(s) \/ Commit(s) \/ Fail(s) \/ Retry(s)

Next == (\E s \in Sessions : RedeemPromo(s)) \/ ExpiryPasses

Spec == Init /\ [][Next]_vars
-----------------------------------------------------------------------------
\* The counter the cap is checked on counts each session's redemption exactly
\* once, whatever was rolled back, retried or answered wrongly.
CountIsRows == count = Cardinality(rows)

\* Neither the code's cap nor a user's limit is exceeded by sessions that
\* redeem side by side.
NeverOversold ==
    /\ Cardinality(rows) <= Max
    /\ \A u \in Users : Cardinality({s \in rows : Owner[s] = u}) <= PerUser

\* "Time flipping the expiry between attempts must never reject a redemption
\* that already happened", nor may the cap it filled itself.
RedeemedIsNotRejected == \A s \in Sessions : pc[s] = "rejected" => s \notin rows
-----------------------------------------------------------------------------
toldOf == [s \in Sessions |-> IF pc[s] \in Answers THEN pc[s] ELSE "nothing"]

Redemption == INSTANCE RedeemOnce WITH used <- rows, told <- toldOf

\* RedeemPromo, statement by statement, with its rollbacks and lost answers, is
\* one atomic redemption: what the confirm takes it to be.  The code's use, the
\* caps and each rejection's cause are those of the moment it ends.
ImplementsRedeemOnce == Redemption!Spec
=============================================================================
