-------------------------- MODULE BasketCheckProofs --------------------------
(***************************************************************************)
(* That the verdicts on a basket are honest, for any SKUs, prices,         *)
(* quantities and lines. What is summed, and which line is the last of its *)
(* SKU, never has to be computed: a requote keeps every line's SKU and     *)
(* quantity, so both stay what they were when the verdict was found.       *)
(***************************************************************************)
EXTENDS BasketCheck, TLAPS

Items(is) == is \in Seq(Line) /\ Len(is) \in 1..MaxLines

Typed ==
    /\ Items(items)
    /\ opened \in BOOLEAN
    /\ pricing \in Reads /\ checking \in Reads
    /\ shelf \in [Skus -> Prices \cup {Unsold, Absent}]
    /\ stock \in [Skus -> (0..MaxStock) \cup {Untracked}]
    /\ stray \subseteq Skus
    /\ verdict \in Verdicts

\* A verdict is found after both reads have ended, one on the goods after
\* both have answered; until the next round neither can change.
Settled ==
    /\ verdict \in {"opened", "clean", "price", "stock", "unknown"} =>
        pricing = "answered" /\ checking = "answered"
    /\ verdict = "upstream" => pricing # "asking" /\ checking # "asking"

BasketInv == Typed /\ Settled /\ CleanIsHonest /\ RefusalHasItsCause

\* What a requote writes: the same SKUs and quantities.
LEMMA RepricedLine ==
    ASSUME Typed, NEW i \in Lines
    PROVE  /\ items[i] \in Line
           /\ Repriced(items[i]) \in Line
           /\ Repriced(items[i]).sku = items[i].sku
           /\ Repriced(items[i]).qty = items[i].qty
<1>1. items[i] \in Line
  BY DEF Typed, Items, Lines
<1>2. /\ items[i].sku \in Skus /\ items[i].qty \in 1..MaxQuantity
      /\ items[i].price \in Prices /\ items[i].flagged \in BOOLEAN
  BY <1>1 DEF Line
<1>3. PICK f \in BOOLEAN :
        f = (items[i].flagged \/ shelf[items[i].sku] # items[i].price)
  OBVIOUS
<1>4. PICK p \in Prices :
        p = IF Offered(items[i].sku) THEN shelf[items[i].sku] ELSE items[i].price
  BY <1>2 DEF Offered
<1>5. Repriced(items[i]) = [sku |-> items[i].sku, qty |-> items[i].qty,
                            price |-> p, flagged |-> f]
  BY <1>3, <1>4, Zenon DEF Repriced
<1>6. Repriced(items[i]) \in Line
  BY <1>2, <1>3, <1>4, <1>5 DEF Line
<1> QED BY <1>1, <1>5, <1>6

LEMMA RepricedItems ==
    ASSUME Typed, items' = [i \in Lines |-> Repriced(items[i])]
    PROVE  /\ Items(items') /\ Lines' = Lines
           /\ \A i \in Lines : items'[i].sku = items[i].sku
           /\ Qty' = Qty
<1>1. Lines = 1..Len(items) /\ Len(items) \in Nat
  BY DEF Typed, Items, Lines
<1>2. items' \in [1..Len(items) -> Line]
  BY <1>1, RepricedLine
<1>3. items' \in Seq(Line) /\ Len(items') = Len(items)
  BY <1>1, <1>2
<1>4. \A i \in Lines : /\ items'[i].sku = items[i].sku
                       /\ items'[i].qty = items[i].qty
  BY RepricedLine
<1>5. Lines' = Lines
  BY <1>1, <1>3 DEF Lines
<1> QED BY <1>3, <1>4, <1>5 DEF Typed, Items, Qty

\* What a verdict says of the basket by its SKUs and quantities, a requote
\* does not change.
LEMMA BasketStands ==
    ASSUME Typed, UNCHANGED <<shelf, stock, stray>>,
           \/ UNCHANGED items
           \/ items' = [i \in Lines |-> Repriced(items[i])]
    PROVE  /\ Asked' = Asked /\ Lines' = Lines
           /\ \A k \in Asked : /\ InStock(k)' = InStock(k)
                               /\ Requested(k)' = Requested(k)
           /\ \A i \in Lines : /\ items'[i].sku = items[i].sku
                               /\ items'[i].qty = items[i].qty
<1>1. /\ Lines' = Lines /\ Qty' = Qty
      /\ \A i \in Lines : items'[i].sku = items[i].sku
  BY RepricedItems DEF Lines, Qty
<1>2. \A i \in Lines : items'[i].qty = items[i].qty
  BY RepricedLine
<1>3. Asked' = Asked
  BY <1>1 DEF Asked
<1>4. ASSUME NEW k \in Asked
      PROVE  LinesOf(k)' = LinesOf(k)
  BY <1>1 DEF LinesOf
<1>5. ASSUME NEW k \in Asked
      PROVE  InStock(k)' = InStock(k) /\ Requested(k)' = Requested(k)
  <2>1. LinesOf(k)' = LinesOf(k) /\ Qty' = Qty
    BY <1>1, <1>4
  <2> QED BY <2>1 DEF InStock, Requested
<1> QED BY <1>1, <1>2, <1>3, <1>5

LEMMA InitInv == Init => BasketInv
<1> SUFFICES ASSUME Init PROVE BasketInv
  OBVIOUS
<1>1. PICK n \in 1..MaxLines : items \in [1..n -> Line]
  BY DEF Init, Carts
<1>2. Items(items)
  BY <1>1, BasketAssumption DEF Items
<1>3. Typed
  BY <1>2 DEF Init, Typed, Reads, Verdicts
<1> QED BY <1>3 DEF Init, BasketInv, Settled, CleanIsHonest, RefusalHasItsCause

LEMMA StepTyped ==
    ASSUME Typed, [Next]_vars
    PROVE  Typed'
<1> USE DEF Typed, Reads, Verdicts
<1>1. CASE Start
  BY <1>1 DEF Start
<1>2. CASE PriceAnswers
  BY <1>2 DEF PriceAnswers
<1>3. CASE StockAnswers
  BY <1>3 DEF StockAnswers
<1>4. CASE PriceFails
  BY <1>4 DEF PriceFails
<1>5. CASE StockFails
  BY <1>5 DEF StockFails
<1>6. CASE CancelReads
  BY <1>6 DEF CancelReads
<1>7. CASE ReadFails
  BY <1>7 DEF ReadFails, Judge
<1>8. CASE DataGap
  BY <1>8 DEF DataGap, Judge
<1>9. CASE CreateSession
  BY <1>9, RepricedItems DEF CreateSession, Judge
<1>10. CASE Revalidate
  BY <1>10, RepricedItems DEF Revalidate, Judge
<1>11. CASE UNCHANGED vars
  BY <1>11 DEF vars
<1> QED BY <1>1, <1>2, <1>3, <1>4, <1>5, <1>6, <1>7, <1>8, <1>9, <1>10, <1>11
        DEF Next

\* A read still out means that no verdict has been found.
LEMMA StillAsking ==
    ASSUME Typed, Settled, "asking" \in {pricing, checking},
           verdict' = verdict
    PROVE  verdict' \in {"none", "asked"}
BY DEF Typed, Settled, Verdicts

\* Until a verdict is found there is nothing to show.
LEMMA UnjudgedIsFine ==
    ASSUME verdict' \in {"none", "asked"}
    PROVE  Settled' /\ CleanIsHonest' /\ RefusalHasItsCause'
BY DEF Settled, CleanIsHonest, RefusalHasItsCause

LEMMA CleanStep ==
    ASSUME Typed, Told, ~Gap, ~PriceDrift, ~StockShort,
           UNCHANGED <<items, shelf, stock, stray>>
    PROVE  CleanIsHonest'
<1>1. ASSUME NEW i \in Lines
      PROVE  shelf[items[i].sku] = items[i].price
  BY DEF PriceDrift, StockShort
<1>2. ASSUME NEW k \in Asked
      PROVE  InStock(k)
  <2>1. PICK i \in Lines : items[i].sku = k
    BY DEF Asked
  <2>2. items[i].qty \in 1..MaxQuantity
    BY RepricedLine DEF Line
  <2>3. ~(items[i].qty > Available(k))
    BY <2>1 DEF StockShort
  <2>4. Available(k) # 0
    BY <2>2, <2>3, BasketAssumption
  <2>5. CanFulfill
    BY <2>4 DEF Available
  <2> QED BY <2>5 DEF CanFulfill, Quantity, InStock
<1>3. Lines' = Lines /\ Asked' = Asked
  BY DEF Lines, Asked
<1>4. ASSUME NEW k \in Asked
      PROVE  InStock(k)'
  BY <1>2, <1>4, BasketStands
<1> QED BY <1>1, <1>3, <1>4 DEF CleanIsHonest

\* The causes of a shortage, on the lines it was found on.
LEMMA ShortHasCause ==
    ASSUME ~Gap, StockShort
    PROVE  \/ \E k \in Asked : ~Sold(k) \/ k \in stray
           \/ \E k \in Asked : ~InStock(k)
           \/ \E i \in Lines : items[i].qty > Requested(items[i].sku)
<1>1. PICK i \in Lines : \/ ~Offered(items[i].sku)
                         \/ items[i].qty > Available(items[i].sku)
  BY DEF StockShort
<1>2. items[i].sku \in Asked
  BY DEF Asked
<1>3. CASE ~Offered(items[i].sku)
  BY <1>2, <1>3 DEF Offered, Sold
<1>4. CASE CanFulfill /\ items[i].sku \notin stray
  BY <1>1, <1>3, <1>4 DEF Available
<1>5. CASE ~CanFulfill
  <2>1. PICK k \in Asked : ~(stock[k] # Untracked /\ Quantity(k) <= stock[k])
    BY <1>5 DEF CanFulfill
  <2>2. ~InStock(k)
    BY <2>1 DEF InStock, Quantity
  <2> QED BY <2>2
<1> QED BY <1>2, <1>3, <1>4, <1>5

LEMMA RefusalStep ==
    ASSUME Typed, Told, ~Gap, StockShort,
           UNCHANGED <<shelf, stock, stray>>, verdict' = "stock",
           items' = [i \in Lines |-> Repriced(items[i])]
    PROVE  RefusalHasItsCause'
<1>1. /\ Asked' = Asked /\ Lines' = Lines
      /\ \A k \in Asked : /\ InStock(k)' = InStock(k)
                          /\ Requested(k)' = Requested(k)
      /\ \A i \in Lines : /\ items'[i].sku = items[i].sku
                          /\ items'[i].qty = items[i].qty
  BY BasketStands
<1>2. CASE \E k \in Asked : ~Sold(k) \/ k \in stray
  BY <1>1, <1>2 DEF RefusalHasItsCause, Sold
<1>3. CASE \E k \in Asked : ~InStock(k)
  BY <1>1, <1>3 DEF RefusalHasItsCause
<1>4. CASE \E i \in Lines : items[i].qty > Requested(items[i].sku)
  <2>1. PICK i \in Lines : items[i].qty > Requested(items[i].sku)
    BY <1>4
  <2>2. {j \in Lines' : items'[j].sku = items'[i].sku} = LinesOf(items[i].sku)
    BY <1>1 DEF LinesOf
  <2>3. (\E l \in Lines : items[l].qty > Requested(items[l].sku))'
    BY <1>1, <2>1, <2>2, RepricedItems DEF Requested, LinesOf
  <2> QED BY <2>3 DEF RefusalHasItsCause
<1> QED BY <1>2, <1>3, <1>4, ShortHasCause

LEMMA StepInv ==
    ASSUME BasketInv, [Next]_vars
    PROVE  BasketInv'
<1> USE DEF BasketInv
<1>0. Typed'
  BY StepTyped
<1>1. CASE Start
  BY <1>0, <1>1, UnjudgedIsFine DEF Start
<1>2. CASE PriceAnswers \/ StockAnswers \/ PriceFails \/ StockFails
  BY <1>0, <1>2, StillAsking, UnjudgedIsFine
     DEF PriceAnswers, StockAnswers, PriceFails, StockFails
<1>3. CASE CancelReads
  BY <1>0, <1>3, StillAsking, UnjudgedIsFine DEF CancelReads, Cancels
<1>4. CASE ReadFails
  BY <1>0, <1>4
     DEF ReadFails, Judge, Joined, Told, Settled, CleanIsHonest,
         RefusalHasItsCause
<1>5. CASE DataGap
  BY <1>0, <1>5
     DEF DataGap, Judge, Joined, Told, Gap, Unknown, Settled, CleanIsHonest,
         RefusalHasItsCause, Asked, Lines
<1>6. CASE CreateSession
  BY <1>0, <1>6
     DEF CreateSession, Judge, Told, Settled, CleanIsHonest, RefusalHasItsCause
<1>7. CASE Revalidate
  <2>1. pricing' = "answered" /\ checking' = "answered"
    BY <1>7 DEF Revalidate, Told, Judge
  <2>2. CASE ~Answered /\ Judge("upstream") /\ UNCHANGED items
    <3>1. \A k \in Asked' : shelf'[k] = Absent
      BY <2>2 DEF Answered, Judge, Asked, Lines
    <3> QED BY <1>0, <2>1, <2>2, <3>1
            DEF Judge, Settled, CleanIsHonest, RefusalHasItsCause
  <2>3. CASE ~PriceDrift /\ ~StockShort /\ Judge("clean") /\ UNCHANGED items
    BY <1>0, <1>7, <2>1, <2>3, CleanStep
       DEF Revalidate, Judge, Settled, RefusalHasItsCause
  <2>4. CASE /\ StockShort /\ Judge("stock")
             /\ items' = [i \in Lines |-> Repriced(items[i])]
    BY <1>0, <1>7, <2>1, <2>4, RefusalStep
       DEF Revalidate, Judge, Settled, CleanIsHonest
  <2>5. CASE Judge("price")
    BY <1>0, <2>1, <2>5 DEF Judge, Settled, CleanIsHonest, RefusalHasItsCause
  <2> QED BY <1>7, <2>2, <2>3, <2>4, <2>5 DEF Revalidate
<1>8. CASE UNCHANGED vars
  <2>1. Settled'
    BY <1>8 DEF vars, Settled
  <2>2. CleanIsHonest' /\ RefusalHasItsCause'
    BY <1>8 DEF vars, CleanIsHonest, RefusalHasItsCause, Lines, Asked, InStock,
                Requested, Qty, LinesOf, Sold
  <2> QED BY <1>0, <2>1, <2>2
<1> QED BY <1>1, <1>2, <1>3, <1>4, <1>5, <1>6, <1>7, <1>8 DEF Next

LEMMA Invariance == Spec => []BasketInv
BY InitInv, StepInv, PTL DEF Spec

\* Types: any round of reads and any requote leaves a well-formed basket.
THEOREM TypeCorrect == Spec => []TypeOK
<1>1. BasketInv => TypeOK
  BY DEF BasketInv, Typed, Items, TypeOK
<1> QED BY <1>1, Invariance, PTL

\* revalidate passes a basket only at the snapshot's prices and with stock for
\* all the lines of each SKU together.
THEOREM VerdictsAreHonest == Spec => []CleanIsHonest
<1>1. BasketInv => CleanIsHonest
  BY DEF BasketInv
<1> QED BY <1>1, Invariance, PTL

\* resolveCatalog and revalidate: an outage, an unknown SKU and a shortage are
\* never taken for each other, but for lines judged by their SKU's last one.
THEOREM RefusalsAreCaused == Spec => []RefusalHasItsCause
<1>1. BasketInv => RefusalHasItsCause
  BY DEF BasketInv
<1> QED BY <1>1, Invariance, PTL
-----------------------------------------------------------------------------
(* A SKU on several lines is the only wrong shortage.                      *)

\* A line alone with its SKU is judged by its own quantity.
LEMMA AloneIsRequested ==
    ASSUME Typed, Distinct, NEW i \in Lines
    PROVE  Requested(items[i].sku) = items[i].qty
<1>1. Lines = 1..Len(items) /\ Len(items) \in Nat
  BY DEF Typed, Items, Lines
<1>2. LinesOf(items[i].sku) = {i}
  BY DEF Distinct, LinesOf
<1>3. i \in Int
  BY <1>1
<1>4. Max({i}) = i
  BY <1>3 DEF Max
<1> QED BY <1>2, <1>4 DEF Requested, Qty

\* No step changes a line's SKU.
LEMMA DistinctStep == ASSUME BasketInv, Distinct, [Next]_vars PROVE Distinct'
<1>1. Typed
  BY DEF BasketInv
<1>2. CASE items' = [i \in Lines |-> Repriced(items[i])]
  BY <1>1, <1>2, RepricedItems DEF Distinct
<1>3. CASE UNCHANGED items
  BY <1>3 DEF Distinct, Lines
<1> QED BY <1>2, <1>3 DEF Next, Start, PriceAnswers, StockAnswers, PriceFails,
        StockFails, CancelReads, ReadFails, DataGap, CreateSession, Revalidate, vars

\* A line that was cleared is called short for one reason: its SKU is on
\* another line too.
THEOREM ShortageHasOneCause == Spec /\ Distinct => []ClearedIsNotShort
<1>1. BasketInv /\ Distinct /\ [Next]_vars => Distinct'
  BY DistinctStep
<1>2. ASSUME BasketInv, Distinct PROVE ClearedIsNotShort
  <2>1. \A i \in Lines : ~(items[i].qty > Requested(items[i].sku))
    <3> SUFFICES ASSUME NEW i \in Lines
                 PROVE  ~(items[i].qty > Requested(items[i].sku))
      OBVIOUS
    <3>1. Typed
      BY <1>2 DEF BasketInv
    <3>2. Requested(items[i].sku) = items[i].qty
      BY <1>2, <3>1, AloneIsRequested
    <3>3. items[i].qty \in 1..MaxQuantity
      BY <3>1, RepricedLine DEF Line
    <3> QED BY <3>2, <3>3, BasketAssumption
  <2> QED BY <1>2, <2>1 DEF BasketInv, RefusalHasItsCause, ClearedIsNotShort
<1> QED BY <1>1, <1>2, Invariance, PTL DEF Spec
-----------------------------------------------------------------------------
(* A requote settles what it refused.                                      *)

\* What inventory can give the basket, a requote does not change.
LEMMA ShortStands ==
    ASSUME Typed, UNCHANGED <<shelf, stock, stray>>,
           items' = [i \in Lines |-> Repriced(items[i])]
    PROVE  StockShort' <=> StockShort
<1>1. /\ Asked' = Asked /\ Lines' = Lines /\ Qty' = Qty
      /\ \A i \in Lines : /\ items'[i].sku = items[i].sku
                          /\ items'[i].qty = items[i].qty
  BY BasketStands, RepricedItems
<1>2. ASSUME NEW k \in Skus PROVE LinesOf(k)' = LinesOf(k)
  BY <1>1 DEF LinesOf
<1>3. Asked \subseteq Skus
  BY RepricedLine DEF Asked, Line
<1>4. \A k \in Asked : Quantity(k)' = Quantity(k)
  BY <1>1, <1>2, <1>3 DEF Quantity
<1>5. CanFulfill' <=> CanFulfill
  BY <1>1, <1>4 DEF CanFulfill
<1>6. \A k \in Asked : Available(k)' = Available(k)
  BY <1>1, <1>2, <1>3, <1>5 DEF Available, Requested
<1>7. \A i \in Lines : items[i].sku \in Asked
  BY DEF Asked
<1> QED BY <1>1, <1>6, <1>7 DEF StockShort, Offered

\* The lines carry what is asked for them now.
LEMMA RequotedDoesNotDrift ==
    ASSUME Typed, UNCHANGED shelf,
           items' = [i \in Lines |-> Repriced(items[i])]
    PROVE  ~PriceDrift'
<1>1. Lines' = Lines /\ \A i \in Lines : items'[i].sku = items[i].sku
  BY RepricedItems
<1>2. ASSUME NEW i \in Lines, Offered(items[i].sku)
      PROVE  items'[i].price = shelf[items[i].sku]
  BY <1>2, Zenon DEF Repriced
<1> QED BY <1>1, <1>2 DEF PriceDrift, Offered

LEMMA SettlesStep ==
    ASSUME BasketInv, RequoteSettles, [Next]_vars
    PROVE  RequoteSettles'
<1>1. Typed /\ Settled
  BY DEF BasketInv
<1>2. CASE verdict' \in {"none", "asked", "clean", "unknown", "upstream"}
  BY <1>2 DEF RequoteSettles
<1>3. CASE Start \/ CancelReads \/ PriceAnswers \/ StockAnswers \/ PriceFails
           \/ StockFails
  BY <1>1, <1>2, <1>3, StillAsking DEF Start, CancelReads, Cancels,
     PriceAnswers, StockAnswers, PriceFails, StockFails
<1>4. CASE ReadFails \/ DataGap
  BY <1>2, <1>4 DEF ReadFails, DataGap, Judge
<1>5. CASE CreateSession
  BY <1>1, <1>5, RequotedDoesNotDrift DEF CreateSession, Judge, RequoteSettles
<1>6. CASE Revalidate
  <2>1. CASE Judge("upstream") \/ Judge("clean")
    BY <1>2, <2>1 DEF Judge
  <2>2. CASE /\ Judge(IF StockShort THEN "stock" ELSE "price")
             /\ items' = [i \in Lines |-> Repriced(items[i])]
    BY <1>1, <2>2, RequotedDoesNotDrift, ShortStands DEF Judge, RequoteSettles
  <2> QED BY <1>6, <2>1, <2>2 DEF Revalidate
<1>7. CASE UNCHANGED vars
  BY <1>7 DEF vars, RequoteSettles, PriceDrift, StockShort, Offered, Available,
     Lines, CanFulfill, Asked, Quantity, Requested, Qty, LinesOf
<1> QED BY <1>3, <1>4, <1>5, <1>6, <1>7 DEF Next

\* A shopper who was refused for a price and confirms again, at unchanged
\* prices and stock, is not refused again.
THEOREM RequotesSettle == Spec => []RequoteSettles
<1>1. Init => RequoteSettles
  BY DEF Init, RequoteSettles
<1>2. BasketInv /\ RequoteSettles /\ [Next]_vars => RequoteSettles'
  BY SettlesStep
<1> QED BY <1>1, <1>2, Invariance, PTL DEF Spec
=============================================================================
