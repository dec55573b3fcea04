-------------------------- MODULE PromoLedgerProofs --------------------------
(***************************************************************************)
(* Proofs about the redemption ledger, for any number of sessions and      *)
(* users and any caps.                                                     *)
(*                                                                         *)
(* What a transaction has checked so far, it knows for good: whoever is    *)
(* inside holds the code's row, so nobody else commits (Knows).  A commit  *)
(* then adds a row and an increment under both caps, or neither.           *)
(***************************************************************************)
EXTENDS PromoLedger, FiniteSetTheorems, TLAPS

\* s adds a use that is not yet in the table.
Adds(s) == pc[s] = "commit" /\ s \notin rows

Knows(s) ==
    /\ pc[s] \in Statements => lock = s /\ seen[s] = count
    /\ pc[s] \notin Statements \/ pc[s] = "insert" => added[s] = {}
    /\ pc[s] \in {"expiry", "cap", "user", "increment"} =>
            s \notin rows /\ added[s] = {"row"}
    /\ pc[s] = "commit" =>
            added[s] = IF s \in rows THEN {} ELSE {"row", "increment"}
    /\ pc[s] \in {"user", "increment"} \/ Adds(s) => seen[s] < Max
    /\ pc[s] = "increment" \/ Adds(s) => Cardinality(Mine(s)) <= PerUser
    /\ pc[s] = "rejected" => s \notin rows

\* TypeOK without the flag.
Typed ==
    /\ rows \subseteq Sessions /\ count \in Nat
    /\ lock \in Sessions \cup {NoOne}
    /\ pc \in [Sessions -> {"idle"} \cup Answers \cup Statements]
    /\ seen \in [Sessions -> Nat]
    /\ added \in [Sessions -> SUBSET {"row", "increment"}]

TxInv == Typed /\ \A s \in Sessions : Knows(s)
IInv == TxInv /\ CountIsRows /\ NeverOversold
-----------------------------------------------------------------------------
LEMMA InitHolds == Init => IInv
<1> SUFFICES ASSUME Init PROVE IInv
  OBVIOUS
<1> USE LedgerAssumption
<1>1. Typed
  BY DEF Init, Typed
<1>2. \A s \in Sessions : Knows(s)
  BY DEF Init, Knows, Adds, Statements
<1>3. rows = {} /\ count = 0 /\ Cardinality({}) = 0
  BY FS_EmptySet DEF Init
<1>4. ASSUME NEW u \in Users
      PROVE  Cardinality({s \in rows : Owner[s] = u}) <= PerUser
  <2>1. {s \in rows : Owner[s] = u} = {}
    BY <1>3
  <2> QED BY <1>3, <2>1
<1>5. CountIsRows /\ NeverOversold
  BY <1>3, <1>4 DEF CountIsRows, NeverOversold
<1> QED BY <1>1, <1>2, <1>5 DEF IInv, TxInv

\* The table stays as it is: the caps are kept.
LEMMA TableStays ==
    ASSUME IInv, UNCHANGED <<rows, count>>, TxInv' PROVE IInv'
BY DEF IInv, CountIsRows, NeverOversold

\* Nobody's knowledge depends on a transaction that only moves on.
LEMMA OthersKnow ==
    ASSUME TxInv, NEW s \in Sessions, NEW label,
           Goto(s, label), UNCHANGED <<rows, count>>,
           \/ UNCHANGED lock
           \/ lock = NoOne /\ lock' = s
           \/ lock' = IF lock = s THEN NoOne ELSE lock,
           \A t \in Sessions \ {s} : seen'[t] = seen[t] /\ added'[t] = added[t],
           NEW t \in Sessions \ {s}
    PROVE  Knows(t)'
<1>1. pc'[t] = pc[t] /\ Knows(t)
  BY DEF TxInv, Typed, Goto
<1>2. lock = t => lock' = t
  BY LedgerAssumption
<1>3. Mine(t)' = Mine(t)
  BY DEF Mine
<1> QED BY <1>1, <1>2, <1>3 DEF Knows, Adds

\* A transaction that ends without a commit leaves nothing behind.
LEMMA RollbackStep ==
    ASSUME IInv, NEW s \in Sessions, NEW answer \in {"rejected", "error"},
           Rollback(s, answer), answer = "rejected" => s \notin rows
    PROVE  IInv'
<1> USE LedgerAssumption
<1>1. /\ Goto(s, answer) /\ UNCHANGED <<rows, count>>
      /\ lock' = IF lock = s THEN NoOne ELSE lock
      /\ added' = [added EXCEPT ![s] = {}] /\ seen' = [seen EXCEPT ![s] = 0]
  BY DEF Rollback, End
<1>2. Typed'
  BY <1>1 DEF IInv, TxInv, Typed, Goto, Answers
<1>3. Knows(s)'
  BY <1>1 DEF IInv, TxInv, Typed, Goto, Knows, Adds, Statements
<1>4. \A t \in Sessions \ {s} : seen'[t] = seen[t] /\ added'[t] = added[t]
  BY <1>1 DEF IInv, TxInv, Typed
<1>5. \A t \in Sessions \ {s} : Knows(t)'
  BY <1>1, <1>4, OthersKnow DEF IInv
<1> QED BY <1>1, <1>2, <1>3, <1>5, TableStays DEF TxInv

\* The transaction moves on to its next statement.
LEMMA MovesOn ==
    ASSUME IInv, NEW s \in Sessions, NEW label,
           Goto(s, label), UNCHANGED <<rows, count>>,
           UNCHANGED lock \/ (lock = NoOne /\ lock' = s),
           Typed', Knows(s)',
           \A t \in Sessions \ {s} : seen'[t] = seen[t] /\ added'[t] = added[t]
    PROVE  IInv'
<1>1. \A t \in Sessions \ {s} : Knows(t)'
  BY OthersKnow DEF IInv
<1> QED BY <1>1, TableStays DEF TxInv

LEMMA LockCodeStep == ASSUME IInv, NEW s \in Sessions, LockCode(s) PROVE IInv'
<1>1. /\ Goto(s, "insert") /\ UNCHANGED <<rows, count, added>>
      /\ pc[s] = "idle" /\ lock = NoOne /\ lock' = s
      /\ seen' = [seen EXCEPT ![s] = count]
  BY DEF LockCode, Lockable
<1>2. Typed'
  BY <1>1 DEF IInv, TxInv, Typed, Goto, Statements
<1>3. Knows(s)'
  BY <1>1 DEF IInv, TxInv, Typed, Goto, Knows, Adds, Statements
<1>4. \A t \in Sessions \ {s} : seen'[t] = seen[t] /\ added'[t] = added[t]
  BY <1>1 DEF IInv, TxInv, Typed
<1> QED BY <1>1, <1>2, <1>3, <1>4, MovesOn

LEMMA InsertStep == ASSUME IInv, NEW s \in Sessions, Insert(s) PROVE IInv'
<1>1. /\ Goto(s, AfterInsert(s)) /\ UNCHANGED <<rows, count, lock, seen>>
      /\ pc[s] = "insert"
      /\ added' = [added EXCEPT ![s] = IF s \in rows THEN {} ELSE {"row"}]
  BY DEF Insert
<1>2. AfterInsert(s) = IF s \in rows THEN "commit" ELSE "expiry"
  BY DEF AfterInsert
<1>3. Typed'
  BY <1>1, <1>2 DEF IInv, TxInv, Typed, Goto, Statements
<1>4. Knows(s)'
  BY <1>1, <1>2 DEF IInv, TxInv, Typed, Goto, Knows, Adds, Statements
<1>5. \A t \in Sessions \ {s} : seen'[t] = seen[t] /\ added'[t] = added[t]
  BY <1>1 DEF IInv, TxInv, Typed
<1> QED BY <1>1, <1>3, <1>4, <1>5, MovesOn

\* A check that stands adds what it established; one that fails rejects a
\* session that has no use yet.
LEMMA CheckStep ==
    ASSUME IInv, NEW s \in Sessions, NEW passes \in BOOLEAN, NEW label, NEW next,
           Check(s, label, passes, next),
           \/ label = "expiry" /\ next = "cap"
           \/ label = "cap" /\ next = "user" /\ (passes => seen[s] < Max)
           \/ label = "user" /\ next = "increment"
              /\ (passes => Cardinality(Mine(s)) <= PerUser)
    PROVE  IInv'
<1>1. pc[s] = label /\ s \notin rows
  BY DEF Check, IInv, TxInv, Knows
<1>2. CASE ~passes /\ Rollback(s, "rejected")
  BY <1>1, <1>2, RollbackStep
<1>3. CASE /\ passes /\ Goto(s, next)
           /\ UNCHANGED <<rows, count, expired, lock, seen, added>>
  <2>1. Typed'
    BY <1>3 DEF IInv, TxInv, Typed, Goto, Statements
  <2>2. Mine(s)' = Mine(s)
    BY <1>3 DEF Mine
  <2>3. Knows(s)'
    BY <1>1, <1>3, <2>2 DEF IInv, TxInv, Typed, Goto, Knows, Adds, Statements
  <2> QED BY <1>3, <2>1, <2>3, MovesOn
<1> QED BY <1>2, <1>3 DEF Check

LEMMA IncrementStep == ASSUME IInv, NEW s \in Sessions, Increment(s) PROVE IInv'
<1>1. /\ Goto(s, "commit") /\ UNCHANGED <<rows, count, lock, seen>>
      /\ pc[s] = "increment"
      /\ added' = [added EXCEPT ![s] = added[s] \cup {"increment"}]
  BY DEF Increment
<1>2. Typed'
  BY <1>1 DEF IInv, TxInv, Typed, Goto, Statements
<1>3. Mine(s)' = Mine(s)
  BY <1>1 DEF Mine
<1>4. added'[s] = {"row", "increment"}
  BY <1>1 DEF IInv, TxInv, Typed, Knows
<1>5. Knows(s)'
  BY <1>1, <1>3, <1>4 DEF IInv, TxInv, Typed, Goto, Knows, Adds, Statements
<1>6. \A t \in Sessions \ {s} : seen'[t] = seen[t] /\ added'[t] = added[t]
  BY <1>1 DEF IInv, TxInv, Typed
<1> QED BY <1>1, <1>2, <1>5, <1>6, MovesOn

\* A use that is added is one more row, one more count, and within both caps.
LEMMA CommitStep == ASSUME IInv, NEW s \in Sessions, Commit(s) PROVE IInv'
<1> USE LedgerAssumption
<1>1. PICK answer \in {"ok", "error"} : End(s, answer)
  BY DEF Commit
<1>2. /\ Goto(s, answer) /\ pc[s] = "commit"
      /\ lock' = IF lock = s THEN NoOne ELSE lock
      /\ added' = [added EXCEPT ![s] = {}] /\ seen' = [seen EXCEPT ![s] = 0]
  BY <1>1 DEF Commit, End
<1>3. lock = s /\ seen[s] = count
  BY <1>2 DEF IInv, TxInv, Knows, Statements
<1>4. \A t \in Sessions \ {s} : /\ pc'[t] = pc[t] /\ added'[t] = added[t]
                                /\ seen'[t] = seen[t] /\ pc[t] \notin Statements
  BY <1>2, <1>3 DEF IInv, TxInv, Typed, Knows, Goto
<1>5. pc'[s] = answer /\ added'[s] = {} /\ answer \notin Statements
  BY <1>2 DEF IInv, TxInv, Typed, Goto, Statements
<1>6. CASE s \in rows
  <2>1. added[s] = {}
    BY <1>2, <1>6 DEF IInv, TxInv, Knows
  <2>2. UNCHANGED <<rows, count>>
    BY <2>1 DEF Commit
  <2>3. Typed'
    BY <1>2, <2>2 DEF IInv, TxInv, Typed, Goto, Answers
  <2>4. \A t \in Sessions : Knows(t)'
    BY <1>4, <1>5, <2>2 DEF IInv, TxInv, Knows, Adds, Statements
  <2> QED BY <2>2, <2>3, <2>4, TableStays DEF TxInv
<1>7. CASE s \notin rows
  <2>1. /\ added[s] = {"row", "increment"} /\ seen[s] < Max
        /\ Cardinality(Mine(s)) <= PerUser
    BY <1>2, <1>7 DEF IInv, TxInv, Knows, Adds
  <2>2. rows' = rows \cup {s} /\ count' = count + 1
    BY <2>1 DEF Commit
  <2>3. Typed'
    BY <1>2, <2>2 DEF IInv, TxInv, Typed, Goto, Answers
  <2>4. \A t \in Sessions : Knows(t)'
    BY <1>4, <1>5, <2>2 DEF IInv, TxInv, Knows, Adds, Statements
  <2>5. Cardinality(rows') = Cardinality(rows) + 1
    <3>1. IsFiniteSet(rows)
      BY FS_Subset DEF IInv, TxInv, Typed
    <3> QED BY <1>7, <2>2, <3>1, FS_AddElement
  <2>6. CountIsRows' /\ Cardinality(rows') <= Max
    BY <1>3, <2>1, <2>2, <2>5 DEF IInv, TxInv, Typed, CountIsRows
  <2>7. ASSUME NEW u \in Users
        PROVE  Cardinality({t \in rows' : Owner[t] = u}) <= PerUser
    <3>1. CASE u = Owner[s]
      <4>1. {t \in rows' : Owner[t] = u} = Mine(s)
        BY <2>2, <3>1 DEF Mine
      <4> QED BY <2>1, <4>1
    <3>2. CASE u # Owner[s]
      <4>1. {t \in rows' : Owner[t] = u} = {t \in rows : Owner[t] = u}
        BY <2>2, <3>2
      <4> QED BY <4>1 DEF IInv, NeverOversold
    <3> QED BY <3>1, <3>2
  <2> QED BY <2>3, <2>4, <2>6, <2>7 DEF IInv, TxInv, NeverOversold
<1> QED BY <1>6, <1>7

LEMMA RetryStep == ASSUME IInv, NEW s \in Sessions, Retry(s) PROVE IInv'
<1>1. /\ Goto(s, "idle") /\ UNCHANGED <<rows, count, lock, seen, added>>
      /\ pc[s] \in Answers
  BY DEF Retry
<1>2. Typed'
  BY <1>1 DEF IInv, TxInv, Typed, Goto
<1>3. Knows(s)'
  BY <1>1 DEF IInv, TxInv, Typed, Goto, Knows, Adds, Statements, Answers
<1> QED BY <1>1, <1>2, <1>3, MovesOn

LEMMA RedeemStep == ASSUME IInv, NEW s \in Sessions, RedeemPromo(s) PROVE IInv'
<1>1. CASE CheckExpiry(s)
  BY <1>1, CheckStep DEF CheckExpiry
<1>2. CASE CheckCap(s)
  <2> DEFINE passes == seen[s] < Max
  <2>1. passes \in BOOLEAN /\ Check(s, "cap", passes, "user")
    BY <1>2 DEF CheckCap
  <2>2. passes => seen[s] < Max
    OBVIOUS
  <2> HIDE DEF passes
  <2> QED BY <2>1, <2>2, CheckStep
<1>3. CASE CheckUser(s)
  <2> DEFINE passes == Cardinality(Mine(s)) <= PerUser
  <2>1. passes \in BOOLEAN /\ Check(s, "user", passes, "increment")
    BY <1>3 DEF CheckUser
  <2>2. passes => Cardinality(Mine(s)) <= PerUser
    OBVIOUS
  <2> HIDE DEF passes
  <2> QED BY <2>1, <2>2, CheckStep
<1>4. CASE Fail(s)
  BY <1>4, RollbackStep DEF Fail
<1> QED BY <1>1, <1>2, <1>3, <1>4, LockCodeStep, InsertStep, IncrementStep,
        CommitStep, RetryStep DEF RedeemPromo

LEMMA NextStep == ASSUME IInv, [Next]_vars PROVE IInv'
<1>1. CASE ExpiryPasses \/ UNCHANGED vars
  <2>1. UNCHANGED <<rows, count, lock, pc, seen, added>>
    BY <1>1 DEF ExpiryPasses, vars
  <2> QED BY <2>1 DEF IInv, TxInv, Typed, Knows, Adds, Mine, CountIsRows, NeverOversold
<1> QED BY <1>1, RedeemStep DEF Next
-----------------------------------------------------------------------------
\* The inductive invariant holds for any sessions, users and caps.
THEOREM Invariance == Spec => []IInv
<1>1. Init => IInv
  BY InitHolds
<1>2. IInv /\ [Next]_vars => IInv'
  BY NextStep
<1> QED BY <1>1, <1>2, PTL DEF Spec

\* Every variable keeps its type.
THEOREM TypeCorrect == Spec => []TypeOK
<1>1. Init => expired \in BOOLEAN
  BY Zenon DEF Init
<1>2. expired \in BOOLEAN /\ [Next]_vars => (expired \in BOOLEAN)'
  <2>1. ASSUME [Next]_vars PROVE UNCHANGED expired \/ expired' = TRUE
    BY <2>1 DEF Next, vars, RedeemPromo, LockCode, Insert, CheckExpiry, CheckCap,
       CheckUser, Check, Rollback, Increment, Commit, Fail, Retry, ExpiryPasses
  <2> QED BY <2>1, Zenon
<1>3. IInv /\ expired \in BOOLEAN => TypeOK
  BY DEF IInv, TxInv, Typed, TypeOK
<1> QED BY <1>1, <1>2, <1>3, Invariance, PTL DEF Spec

\* The counter counts each session's redemption exactly once.
THEOREM CountIsExact == Spec => []CountIsRows
<1>1. IInv => CountIsRows
  BY DEF IInv
<1> QED BY <1>1, Invariance, PTL

\* Neither the code's cap nor any user's limit is ever exceeded, however many
\* sessions redeem side by side.
THEOREM CapsHold == Spec => []NeverOversold
<1>1. IInv => NeverOversold
  BY DEF IInv
<1> QED BY <1>1, Invariance, PTL

\* A redemption that happened is never rejected when it is driven again, by an
\* expiry that passed or by a cap it filled itself.
THEOREM RedeemedStands == Spec => []RedeemedIsNotRejected
<1>1. IInv => RedeemedIsNotRejected
  BY DEF IInv, TxInv, Knows, RedeemedIsNotRejected
<1> QED BY <1>1, Invariance, PTL
-----------------------------------------------------------------------------
(* The transaction is one atomic redemption (RedeemOnce).                  *)

\* Only the session that moves hears something else, and only from an answer.
LEMMA ToldMoves ==
    ASSUME Typed, NEW s \in Sessions, NEW label, Goto(s, label)
    PROVE  toldOf' = [toldOf EXCEPT ![s] =
                        IF label \in Answers THEN label ELSE "nothing"]
BY DEF Typed, Goto, toldOf

\* A transaction that has not ended has told nothing yet.
LEMMA ToldNothing ==
    ASSUME NEW s \in Sessions, pc[s] \notin Answers
    PROVE  toldOf[s] = "nothing"
BY DEF toldOf

\* A statement that is not the last, or a retry, is a call that is not over.
LEMMA MovesQuietly ==
    ASSUME Typed, NEW s \in Sessions, NEW label, label \notin Answers,
           Goto(s, label), UNCHANGED <<rows, expired>>
    PROVE  Redemption!Retry(s)
<1>1. toldOf' = [toldOf EXCEPT ![s] = "nothing"]
  BY ToldMoves
<1> QED BY <1>1 DEF Redemption!Retry

\* The answer of a call that was under way is told.
LEMMA Answered ==
    ASSUME Typed, NEW s \in Sessions, NEW answer \in Answers,
           pc[s] \notin Answers, Goto(s, answer), UNCHANGED expired
    PROVE  Redemption!Answer(s, answer)
<1>1. toldOf' = [toldOf EXCEPT ![s] = answer]
  BY ToldMoves
<1> QED BY <1>1, ToldNothing DEF Redemption!Answer

\* The two modules mean the same by a cardinality.
LEMMA SameCardinality ==
    ASSUME NEW S PROVE Redemption!Cardinality(S) = Cardinality(S)
BY DEF Cardinality, Redemption!Cardinality

\* What the user limit is checked on is the user's uses and one more.
LEMMA MineIsOneMore ==
    ASSUME IInv, NEW s \in Sessions, s \notin rows
    PROVE  /\ Cardinality(Redemption!UsesOf(Owner[s])) \in Nat
           /\ Cardinality(Mine(s)) =
                 Cardinality(Redemption!UsesOf(Owner[s])) + 1
<1> DEFINE uses == Redemption!UsesOf(Owner[s])
<1>1. uses \subseteq Sessions /\ s \notin uses /\ Mine(s) = uses \cup {s}
  BY DEF IInv, TxInv, Typed, Mine, Redemption!UsesOf
<1>2. IsFiniteSet(uses)
  BY <1>1, LedgerAssumption, FS_Subset
<1> HIDE DEF uses
<1>3. Cardinality(uses) \in Nat /\ Cardinality(Mine(s)) = Cardinality(uses) + 1
  BY <1>1, <1>2, FS_AddElement, FS_CardinalityType
<1> QED BY <1>3 DEF uses

\* The checks, on the count read with the lock, decide what the table as it
\* is now decides.
LEMMA ChecksAreCurrent ==
    ASSUME IInv, NEW s \in Sessions, s \notin rows, pc[s] \in Statements
    PROVE  Redemption!HasRoom(s) <=>
              seen[s] < Max /\ Cardinality(Mine(s)) <= PerUser
<1> DEFINE uses == Cardinality(Redemption!UsesOf(Owner[s]))
           mine == Cardinality(Mine(s))
<1>1. seen[s] = Cardinality(rows)
  BY DEF IInv, TxInv, Knows, CountIsRows
<1>2. uses \in Nat /\ mine = uses + 1
  BY MineIsOneMore
<1>3. Redemption!HasRoom(s) <=> Cardinality(rows) < Max /\ uses < PerUser
  BY SameCardinality DEF Redemption!HasRoom
<1> HIDE DEF uses, mine
<1>4. uses < PerUser <=> mine <= PerUser
  BY <1>2, LedgerAssumption
<1> QED BY <1>1, <1>3, <1>4 DEF mine

\* A check that stands is silent; one that fails is a rejection with a cause.
LEMMA CheckIsReject ==
    ASSUME IInv, NEW s \in Sessions, NEW passes, NEW label \in Statements, NEW next,
           next \in Statements, s \notin rows,
           ~passes => expired \/ ~Redemption!HasRoom(s),
           Check(s, label, passes, next)
    PROVE  Redemption!Reject(s) \/ Redemption!Retry(s)
<1>1. pc[s] \in Statements /\ pc[s] \notin Answers /\ next \notin Answers /\ Typed
  BY DEF Check, IInv, TxInv, Answers, Statements
<1>2. CASE ~passes /\ Rollback(s, "rejected")
  <2>1. Goto(s, "rejected") /\ UNCHANGED <<rows, expired>>
    BY <1>2 DEF Rollback, End
  <2>2. Redemption!Answer(s, "rejected")
    BY <1>1, <2>1, Answered DEF Answers
  <2> QED BY <1>2, <2>1, <2>2 DEF Redemption!Reject
<1>3. CASE Goto(s, next) /\ UNCHANGED <<rows, count, expired, lock, seen, added>>
  BY <1>1, <1>3, MovesQuietly
<1> QED BY <1>2, <1>3 DEF Check

\* Every statement is a step of the atomic redemption, the commit the one in
\* which the use is counted.
LEMMA RedeemMaps ==
    ASSUME IInv, NEW s \in Sessions, RedeemPromo(s)
    PROVE  \/ Redemption!Redeem(s) \/ Redemption!Reject(s)
           \/ Redemption!Fail(s) \/ Redemption!Retry(s)
<1>1. Typed /\ Knows(s)
  BY DEF IInv, TxInv
<1>2. CASE LockCode(s) \/ Insert(s) \/ Increment(s) \/ Retry(s)
  <2>1. PICK label : Goto(s, label) /\ label \notin Answers
    BY <1>2 DEF LockCode, Insert, AfterInsert, Increment, Retry, Answers
  <2>2. UNCHANGED <<rows, expired>>
    BY <1>2 DEF LockCode, Insert, Increment, Retry
  <2> QED BY <1>1, <2>1, <2>2, MovesQuietly
<1>3. CASE CheckExpiry(s)
  <2> DEFINE passes == ~expired
  <2>1. Check(s, "expiry", passes, "cap") /\ (~passes => expired)
    BY <1>3, Zenon DEF CheckExpiry
  <2>2. pc[s] = "expiry"
    BY <2>1 DEF Check
  <2> HIDE DEF passes
  <2>3. s \notin rows /\ "expiry" \in Statements /\ "cap" \in Statements
    BY <1>1, <2>2 DEF Knows, Statements
  <2> QED BY <2>1, <2>3, CheckIsReject
<1>4. CASE CheckCap(s)
  <2> DEFINE passes == seen[s] < Max
  <2>1. Check(s, "cap", passes, "user") /\ pc[s] = "cap"
    BY <1>4 DEF CheckCap, Check
  <2>2. s \notin rows /\ {"cap", "user"} \subseteq Statements
    BY <1>1, <2>1 DEF Knows, Statements
  <2>3. ~passes => ~Redemption!HasRoom(s)
    BY <2>1, <2>2, ChecksAreCurrent
  <2> HIDE DEF passes
  <2> QED BY <2>1, <2>2, <2>3, CheckIsReject
<1>5. CASE CheckUser(s)
  <2> DEFINE passes == Cardinality(Mine(s)) <= PerUser
  <2>1. Check(s, "user", passes, "increment") /\ pc[s] = "user"
    BY <1>5 DEF CheckUser, Check
  <2>2. s \notin rows /\ {"user", "increment"} \subseteq Statements
    BY <1>1, <2>1 DEF Knows, Statements
  <2>3. ~passes => ~Redemption!HasRoom(s)
    BY <2>1, <2>2, ChecksAreCurrent
  <2> HIDE DEF passes
  <2> QED BY <2>1, <2>2, <2>3, CheckIsReject
<1>6. CASE Commit(s)
  <2>1. pc[s] = "commit" /\ pc[s] \in Statements /\ pc[s] \notin Answers
    BY <1>6 DEF Commit, Answers, Statements
  <2>2. PICK answer \in {"ok", "error"} :
           Goto(s, answer) /\ UNCHANGED expired
    BY <1>6 DEF Commit, End
  <2>3. Redemption!Answer(s, answer)
    BY <1>1, <2>1, <2>2, Answered DEF Answers
  <2>4. s \in rows \/ Redemption!HasRoom(s)
    BY <1>1, <2>1, ChecksAreCurrent DEF Knows, Adds
  <2>5. rows' = rows \cup {s}
    BY <1>1, <1>6, <2>1 DEF Commit, Knows
  <2> QED BY <2>2, <2>3, <2>4, <2>5 DEF Redemption!Redeem
<1>7. CASE Fail(s)
  <2>1. pc[s] \notin Answers /\ Goto(s, "error") /\ UNCHANGED <<rows, expired>>
    BY <1>7 DEF Fail, Rollback, End, Answers, Statements
  <2>2. Redemption!Answer(s, "error")
    BY <1>1, <2>1, Answered DEF Answers
  <2> QED BY <2>1, <2>2 DEF Redemption!Fail
<1> QED BY <1>2, <1>3, <1>4, <1>5, <1>6, <1>7 DEF RedeemPromo

\* RedeemPromo, five statements under a row lock with its rollbacks and lost
\* answers, implements the redemption that is one step: this is what lets the
\* confirm's model take it as one.
THEOREM Refinement == Spec => ImplementsRedeemOnce
<1>1. Init => Redemption!Init
  <2>1. ASSUME Init PROVE toldOf = [s \in Sessions |-> "nothing"]
    BY <2>1 DEF Init, toldOf, Answers
  <2>2. Init => rows = {} /\ expired = FALSE
    BY Zenon DEF Init
  <2> QED BY <2>1, <2>2, Zenon DEF Redemption!Init
<1>2. ASSUME IInv, [Next]_vars PROVE [Redemption!Next]_Redemption!vars
  <2>1. CASE \E s \in Sessions : RedeemPromo(s)
    BY <1>2, <2>1, RedeemMaps DEF Redemption!Next
  <2>2. CASE ExpiryPasses
    <3>1. expired' = TRUE /\ rows' = rows /\ toldOf' = toldOf
      BY <2>2, Zenon DEF ExpiryPasses, toldOf
    <3> QED BY <3>1, Zenon DEF Redemption!Next, Redemption!Expire
  <2>3. CASE UNCHANGED vars
    BY <2>3 DEF vars, Redemption!vars, toldOf
  <2> QED BY <1>2, <2>1, <2>2, <2>3 DEF Next
<1> QED BY <1>1, <1>2, Invariance, PTL DEF Spec, ImplementsRedeemOnce, Redemption!Spec
=============================================================================
