----------------------------- MODULE BasketCheck -----------------------------
(***************************************************************************)
(* How checkout judges a basket: resolveCatalog asks product for prices    *)
(* and inventory for availability side by side, mergeCatalog joins the     *)
(* answers, and CreateSession snapshots them or revalidate compares them   *)
(* with the snapshot.                                                      *)
(*                                                                         *)
(* Each service answers from what it holds at that moment: `shelf' and     *)
(* `stock' are what this round's answers were given from. Prices are only  *)
(* ever compared, so they are bare values.                                 *)
(***************************************************************************)
EXTENDS Integers, Sequences, FiniteSetsExt

CONSTANTS
    Skus, Prices, MaxQuantity, MaxLines, MaxStock,
    Untracked,  \* inventory has no balance row for the SKU
    Unsold,     \* product's row is unsellable or in another currency
    Absent      \* product has no row for the SKU

ASSUME BasketAssumption ==
    /\ MaxStock \in Nat
    /\ MaxQuantity \in Nat \ {0} /\ MaxLines \in Nat \ {0}
    /\ {Unsold, Absent} \cap Prices = {} /\ Untracked \notin 0..MaxStock

VARIABLES
    items,      \* the cart's lines, then the session's snapshot of them
    opened,     \* the session exists
    pricing,    \* the price read
    checking,   \* the availability read, likewise
    shelf,      \* [Skus -> Prices \cup {Unsold, Absent}], as answered
    stock,      \* [Skus -> 0..MaxStock \cup {Untracked}], as answered
    stray,      \* SKUs inventory called short of its own accord
    verdict

vars == <<items, opened, pricing, checking, shelf, stock, stray, verdict>>

Reads == {"off", "asking", "answered", "failed", "panicked"}
Verdicts == {"none", "asked", "opened", "clean", "price", "stock", "unknown", "upstream"}

Line == [sku : Skus, qty : 1..MaxQuantity, price : Prices, flagged : BOOLEAN]

\* The domains of the lines, the replies and the verdicts.
TypeOK ==
    /\ items \in Seq(Line) /\ Len(items) \in 1..MaxLines
    /\ opened \in BOOLEAN
    /\ pricing \in Reads /\ checking \in Reads
    /\ shelf \in [Skus -> Prices \cup {Unsold, Absent}]
    /\ stock \in [Skus -> (0..MaxStock) \cup {Untracked}]
    /\ stray \subseteq Skus
    /\ verdict \in Verdicts

Lines == DOMAIN items
Asked == {items[i].sku : i \in Lines}

LinesOf(sku) == {i \in Lines : items[i].sku = sku}
Qty == [i \in Lines |-> items[i].qty]

\* aggregateBySKU: one requested quantity per SKU, over all its lines.
FaultyQuantity(sku) == Max({Qty[i] : i \in LinesOf(sku)})
Quantity(sku) == SumFunctionOnSet(Qty, LinesOf(sku))

Carts ==
    {c \in UNION {[1..n -> Line] : n \in 1..MaxLines} :
        \A i \in DOMAIN c : ~c[i].flagged}

Init ==
    /\ items \in Carts /\ opened = FALSE
    /\ pricing = "off" /\ checking = "off"
    /\ shelf = [k \in Skus |-> Absent] /\ stock = [k \in Skus |-> Untracked]
    /\ stray = {} /\ verdict = "none"
-----------------------------------------------------------------------------
\* Two goroutines under one cancellable context.
Start ==
    /\ verdict # "asked" /\ verdict' = "asked"
    /\ pricing' = "asking" /\ checking' = "asking"
    /\ shelf' = [k \in Skus |-> Absent] /\ stock' = [k \in Skus |-> Untracked]
    /\ stray' = {}
    /\ UNCHANGED <<items, opened>>

PriceAnswers ==
    /\ pricing = "asking" /\ pricing' = "answered"
    /\ shelf' \in [Skus -> Prices \cup {Unsold, Absent}]
    /\ UNCHANGED <<items, opened, checking, stock, stray, verdict>>

\* The service answers for the aggregated ask; its list of shortages may be
\* incomplete, and may name a SKU although the basket can be fulfilled.
StockAnswers ==
    /\ checking = "asking" /\ checking' = "answered"
    /\ stock' \in [Skus -> (0..MaxStock) \cup {Untracked}]
    /\ stray' \in SUBSET Skus
    /\ UNCHANGED <<items, opened, pricing, shelf, verdict>>

\* An error or the request's deadline; a panic, which is recovered into an
\* error that cancels nothing.
PriceFails ==
    /\ pricing = "asking" /\ pricing' \in {"failed", "panicked"}
    /\ UNCHANGED <<items, opened, checking, shelf, stock, stray, verdict>>

StockFails ==
    /\ checking = "asking" /\ checking' \in {"failed", "panicked"}
    /\ UNCHANGED <<items, opened, pricing, shelf, stock, stray, verdict>>

\* cancelReads: the first error ends the sibling.
FaultyCancels(read, sibling) == FALSE
Cancels(read, sibling) == read = "failed" /\ sibling = "asking"
CancelReads ==
    /\ \/ Cancels(pricing, checking) /\ checking' = "failed" /\ UNCHANGED pricing
       \/ Cancels(checking, pricing) /\ pricing' = "failed" /\ UNCHANGED checking
    /\ UNCHANGED <<items, opened, shelf, stock, stray, verdict>>
-----------------------------------------------------------------------------
CanFulfill == \A k \in Asked : stock[k] # Untracked /\ Quantity(k) <= stock[k]
Unknown == {k \in Asked : stock[k] = Untracked}

\* pricedAnyRequested: the reply has a row, sellable or not, for the basket.
FaultyAnswered == \E k \in Asked : shelf[k] \in Prices
Answered == \E k \in Asked : shelf[k] # Absent

Requested(sku) == Qty[Max(LinesOf(sku))]

\* mergeCatalog: what is sold, and how much of it counts as available.
Offered(sku) == shelf[sku] \in Prices
Available(sku) == IF ~CanFulfill \/ sku \in stray THEN 0 ELSE Requested(sku)

\* The snapshot, or the requote: a line that is not sold keeps its price and is
\* flagged, as is one sold at another (Unsold and Absent are no prices).
FaultyRepricedBlind(line) ==
    [line EXCEPT !.price = shelf[line.sku],
                 !.flagged = line.flagged \/ shelf[line.sku] # line.price]
Repriced(line) ==
    [sku |-> line.sku, qty |-> line.qty,
     price |-> IF Offered(line.sku) THEN shelf[line.sku] ELSE line.price,
     flagged |-> line.flagged \/ shelf[line.sku] # line.price]

PriceDrift ==
    \E i \in Lines : Offered(items[i].sku) /\ shelf[items[i].sku] # items[i].price
StockShort ==
    \E i \in Lines : ~Offered(items[i].sku) \/ items[i].qty > Available(items[i].sku)

Joined == verdict = "asked" /\ "asking" \notin {pricing, checking}
Told == Joined /\ {pricing, checking} = {"answered"}

Judge(v) ==
    verdict' = v /\ UNCHANGED <<pricing, checking, shelf, stock, stray>>

ReadFails ==
    /\ Joined /\ ~Told
    /\ Judge("upstream") /\ UNCHANGED <<items, opened>>

\* A gap of inventory's is no shortage and no transport trouble.
Gap == Unknown # {}
DataGap ==
    /\ Told /\ Gap
    /\ Judge("unknown") /\ UNCHANGED <<items, opened>>

\* CreateSession ignores whether product answered for the basket.
CreateSession ==
    /\ Told /\ ~Gap /\ ~opened
    /\ Judge("opened") /\ opened' = TRUE
    /\ items' = [i \in Lines |-> Repriced(items[i])]

Revalidate ==
    /\ Told /\ ~Gap /\ opened
    /\ \/ ~Answered /\ Judge("upstream") /\ UNCHANGED items
       \/ Answered /\ ~PriceDrift /\ ~StockShort /\ Judge("clean") /\ UNCHANGED items
       \/ /\ Answered /\ (PriceDrift \/ StockShort)
          /\ Judge(IF StockShort THEN "stock" ELSE "price")
          /\ items' = [i \in Lines |-> Repriced(items[i])]
    /\ UNCHANGED opened

Next ==
    \/ Start \/ PriceAnswers \/ StockAnswers \/ PriceFails \/ StockFails
    \/ CancelReads \/ ReadFails \/ DataGap \/ CreateSession \/ Revalidate

Spec == Init /\ [][Next]_vars

\* Neither service need ever answer or fail.
FairSpec == Spec /\ WF_vars(CancelReads) /\ WF_vars(ReadFails)
-----------------------------------------------------------------------------
Sold(k) == shelf[k] \in Prices
InStock(k) ==
    stock[k] # Untracked /\ SumFunctionOnSet(Qty, LinesOf(k)) <= stock[k]

\* An order is placed only for what is sold at the snapshot's price and in
\* stock for all the lines of its SKU together.
CleanIsHonest ==
    verdict = "clean" =>
        /\ \A i \in Lines : shelf[items[i].sku] = items[i].price
        /\ \A k \in Asked : InStock(k)

\* "Fail-closed, NEVER read as out-of-stock", and a definite answer must
\* requote, never ask for a retry that cannot succeed: each refusal has its
\* own cause. The exception is a SKU's lines judged by the last one's
\* quantity.
RefusalHasItsCause ==
    /\ verdict = "upstream" =>
        {pricing, checking} # {"answered"} \/ \A k \in Asked : shelf[k] = Absent
    /\ verdict = "unknown" => \E k \in Asked : stock[k] = Untracked
    /\ verdict = "stock" =>
        \/ \E k \in Asked : ~Sold(k) \/ k \in stray
        \/ \E k \in Asked : ~InStock(k)
        \/ \E i \in Lines : items[i].qty > Requested(items[i].sku)

\* mergeCatalog: "A cleared line gets AvailableQty = requested so the existing
\* `requested > AvailableQty` shortage test passes it."  Broken when a SKU's
\* later line asks for less than an earlier one.
ClearedIsNotShort ==
    verdict = "stock" =>
        \/ \E k \in Asked : ~Sold(k) \/ k \in stray
        \/ \E k \in Asked : ~InStock(k)

\* A hung upstream does not hold the request once its sibling has returned an
\* error.
OneErrorSuffices ==
    "failed" \in {pricing, checking} ~> verdict = "upstream"

\* No SKU is on two lines.
Distinct ==
    \A i, j \in Lines : items[i].sku = items[j].sku => i = j

\* A definite refusal requotes: confirmed again on the same replies, a basket
\* that was refused for its prices alone passes, and none drifts again.
RequoteSettles ==
    /\ verdict \in {"opened", "price", "stock"} => ~PriceDrift
    /\ verdict = "price" => ~StockShort
=============================================================================
