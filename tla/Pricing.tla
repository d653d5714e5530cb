-------------------------------- MODULE Pricing --------------------------------
(***************************************************************************)
(* Costs and prices in cents: the average cost of the lots in stock, the   *)
(* sale price from cost and margin, and the price of a line of a cart or   *)
(* an order with the quota of a promotion and the margin of a collaborator *)
(* (packages catalog and inventory).  A cost of 0 stands for "no cost":    *)
(* wherever an average is used, one that is not positive is as good as     *)
(* none.                                                                   *)
(***************************************************************************)
EXTENDS Integers, Sequences, FiniteSets, FiniteSetsExt, SequencesExt

CONSTANT None   \* SQL NULL

\* A lot: quantity_remaining and unit_cost_cents; lots are listed oldest first.
Lot == [qty : Nat, cost : Nat]

Units(lots) == SumFunction([k \in DOMAIN lots |-> lots[k].qty])

Worth(lots) == SumFunction([k \in DOMAIN lots |-> lots[k].qty * lots[k].cost])

\* WeightedAverageCostCents, weightedAverageCostTx
AverageCost(lots) ==
  IF Units(lots) = 0 THEN 0
  ELSE (Worth(lots) + Units(lots) \div 2) \div Units(lots)

EntryUnitCostCents(paid, expenses, quantity) ==
  (paid + expenses + quantity \div 2) \div quantity

\* consumeLotsFIFOtx, for at most Units(lots)
ConsumeFIFO(lots, quantity) ==
  LET taken(k) == Min({lots[k].qty, Max({0, quantity - Units(SubSeq(lots, 1, k - 1))})})
  IN  [k \in DOMAIN lots |-> [lots[k] EXCEPT !.qty = @ - taken(k)]]

-------------------------------------------------------------------------------
Step == 50   \* SalePriceRoundStepCents

RoundSalePriceCents(cents) ==
  IF cents <= 0 THEN cents ELSE ((cents + Step \div 2) \div Step) * Step

SalePriceFromCost(cost, margin) ==
  IF cost <= 0 THEN 0
  ELSE RoundSalePriceCents((cost * (100 + margin) + 50) \div 100)

\* Margins of a product row.
IsOnPromotion(row) == row.promo /\ row.left > 0

EffectiveMarginPercent(row) ==
  IF IsOnPromotion(row) /\ row.promoMargin # None THEN row.promoMargin ELSE row.margin

\* mutant: the highest of the prices is charged
WorstOf(price, collab) == IF collab <= 0 THEN price ELSE Max({price, collab})

\* applyCollaboratorMin
BestOf(price, collab) == IF collab <= 0 THEN price ELSE Min({price, collab})

\* RegularSalePriceCents, and the sale price where there is no cost
RegularPrice(row, average) ==
  LET price == SalePriceFromCost(average, row.margin)
  IN  RoundSalePriceCents(IF price <= 0 THEN row.price ELSE price)

PromoUnits(row, left, quantity) ==
  IF row.promo /\ left > 0 /\ row.price > 0 THEN Min({quantity, left}) ELSE 0

\* PriceLine; collabMargin is None for a customer who is no collaborator.
LineTotal(row, left, average, quantity, collabMargin) ==
  LET promo == PromoUnits(row, left, quantity)
      collab == IF collabMargin = None THEN 0 ELSE SalePriceFromCost(average, collabMargin)
  IN  RoundSalePriceCents(
        promo * BestOf(RoundSalePriceCents(row.price), collab)
        + (quantity - promo) * BestOf(RegularPrice(row, average), collab))
===============================================================================
