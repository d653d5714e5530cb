------------------------------- MODULE ShopProofs -------------------------------
(***************************************************************************)
(* More proofs about Store, for any number of sessions and whatever prices *)
(* and quantities there are: what the locks on products, SKUs, lots and    *)
(* orders keep until the commit.                                           *)
(***************************************************************************)
EXTENDS StoreProofs, Sums

Locked(t, table, x) == Holds(t, <<table, x>>, "X")

\* Where a session may hold locks.
Locking == StockPc \cup {"price", "order", "set_price"}

LocksBusy == \A l \in locks : l.tx \in Txn /\ tx[l.tx].pc \in Locking

\* Values that a request carries; the items it is about exist.
Carried(r) ==
  /\ r.todo \subseteq Exists /\ r.again \subseteq Exists
  /\ r.item \in Exists \cup {None}
  /\ r.n \in Nat
  /\ r.delta \in [Item -> Int] /\ \A i \in Item : r.delta[i] # 0 => i \in Exists
  /\ r.left \in [Item -> Nat] /\ r.promo \in [Item -> Nat]
  /\ r.prev \in [Item -> Nat] /\ r.cost \in [Item -> Nat]
  /\ r.lots \in [Item -> Seq(Lot)]

ForItem == {"balance", "margin", "average", "lock_price", "set_price", "write_product",
            "write_sku", "lots_cost"}

\* The row it has read, which means something else at each statement.
RowRead(r) ==
  /\ r.pc \in ForItem \/ r.op \in {"add", "set", "entry"} => r.item \in Exists
  /\ r.pc = "average" => r.row \in Int
  /\ r.pc = "write_sku" => r.row \in Nat \cup {None}
  /\ r.pc = "write_product" => /\ r.row \in ItemRow /\ r.row.left <= r.row.total /\ Valid(r.row)
                               /\ r.left[r.item] # 0 => r.row.left \in {0, r.left[r.item]}

CartRead(r) == r.pc = "cart" => r.cart \in Cart /\ carts[r.cart] \in CartRow

\* ChangeSKUPrice: the price that is replaced is the one that was read.
PriceRead(t) ==
  tx[t].pc = "set_price" =>
    Locked(t, "sku", tx[t].item) /\ tx[t].row = items[tx[t].item].price

\* The lines of a checkout that have a price.
PricedLines(r) ==
  IF r.pc \in {"create_cart", "cart"} THEN {}
  ELSE IF r.pc = "price" THEN Lines(r) \ r.todo ELSE Lines(r)

Priced(t) ==
  LET r == tx[t] IN
  r.op = "checkout" =>
    /\ \A i \in PricedLines(r) :
         Locked(t, "product", i) /\ r.left[i] = items[i].left /\ r.promo[i] <= r.left[i]
    /\ \A i \in Item \ PricedLines(r) : r.promo[i] = 0

\* The rows of b begin with those of a.
Begins(a, b) == Len(a) <= Len(b) /\ \A n \in 1 .. Len(a) : b[n] = a[n]

LotsTaken(t) ==
  LET r == tx[t] IN
  r.pc \in StockPc =>
    \A i \in Item : r.delta[i] < 0 /\ (i \in r.todo => r.pc = "balance" /\ r.item = i) =>
      /\ Locked(t, "lots", i)
      /\ Begins(r.lots[i], lots[i])
      /\ Units(r.lots[i]) >= - r.delta[i]

OrderTaken(t) ==
  LET r == tx[t] IN
  /\ r.op = "checkout" => /\ r.key \in Key
                          /\ r.pc \in {"create_cart", "cart", "price", "order"} \cup StockPc
  /\ r.pc \in {"price", "order"} => r.op = "checkout"
  /\ r.op = "checkout" /\ r.pc \in StockPc => Locked(t, "order", r.key) /\ orders[r.key] = None
  /\ r.op = "cancel" =>
       /\ r.pc \in StockPc /\ r.key \in Key /\ Locked(t, "order", r.key)
       /\ orders[r.key] \in OrderRow /\ orders[r.key].status = "confirmed"
       /\ r.delta = orders[r.key].lines

AtWork(t) ==
  /\ Carried(tx[t]) /\ RowRead(tx[t]) /\ CartRead(tx[t])
  /\ PriceRead(t) /\ Priced(t) /\ LotsTaken(t) /\ OrderTaken(t)

\* What does not exist yet is in no cart and no order, and has no history.
Rows ==
  /\ \A i \in Item : items[i] = None => history[i] = <<>>
  /\ \A c \in Cart, i \in Item : carts[c] \in CartRow /\ carts[c].items[i] > 0 => i \in Exists
  /\ \A k \in Key, i \in Item : orders[k] # None /\ orders[k].lines[i] > 0 => i \in Exists
  /\ IsFiniteSet({k \in Key : orders[k] # None})

LeftOf(i) == IF i \in Exists THEN items[i].left ELSE 0

Quotas == \A i \in Item : promo[i].sold + LeftOf(i) <= promo[i].granted + promo[i].restored

ShopInv ==
  /\ TypeOK /\ LocksBusy /\ MutexOK
  /\ \A t \in Txn : AtWork(t)
  /\ Rows /\ Quotas
  /\ PricesChain /\ LotsMatchBalance /\ SoldIsOrdered


-------------------------------------------------------------------------------
(* Prices: what the operators of Pricing return.                             *)

LEMMA RoundNat == ASSUME NEW c \in Nat PROVE RoundSalePriceCents(c) \in Nat
BY DEF RoundSalePriceCents, Step

LEMMA RoundInt == ASSUME NEW c \in Int PROVE RoundSalePriceCents(c) \in Int
BY DEF RoundSalePriceCents, Step

LEMMA RoundMonotone ==
  ASSUME NEW a \in Nat, NEW b \in Nat, a <= b
  PROVE  RoundSalePriceCents(a) <= RoundSalePriceCents(b)
BY DEF RoundSalePriceCents, Step

LEMMA DivNat == ASSUME NEW a \in Nat, NEW b \in Nat \ {0} PROVE a \div b \in Nat
OBVIOUS

LEMMA ProductNat == ASSUME NEW a \in Nat, NEW b \in Nat PROVE a * b \in Nat
OBVIOUS

LEMMA ProductMonotone ==
  ASSUME NEW n \in Nat, NEW a \in Nat, NEW b \in Nat, a <= b
  PROVE  n * a <= n * b
OBVIOUS

LEMMA SaleInt ==
  ASSUME NEW cost \in Nat, NEW m \in Int
  PROVE  SalePriceFromCost(cost, m) \in Int
<1>1. cost * (100 + m) \in Int
  OBVIOUS
<1>2. (cost * (100 + m) + 50) \div 100 \in Int
  BY <1>1
<1> QED
  BY <1>2, RoundInt DEF SalePriceFromCost

LEMMA SaleNat ==
  ASSUME NEW cost \in Nat, NEW m \in Nat
  PROVE  SalePriceFromCost(cost, m) \in Nat
<1>1. cost * (100 + m) \in Nat
  OBVIOUS
<1>2. (cost * (100 + m) + 50) \div 100 \in Nat
  BY <1>1
<1> QED
  BY <1>2, RoundNat DEF SalePriceFromCost

LEMMA MinPair == ASSUME NEW a \in Int, NEW b \in Int PROVE Min({a, b}) = IF a <= b THEN a ELSE b
BY DEF Min

LEMMA MaxPair == ASSUME NEW a \in Int, NEW b \in Int PROVE Max({a, b}) = IF a <= b THEN b ELSE a
BY DEF Max

LEMMA BestNat ==
  ASSUME NEW price \in Nat, NEW collab \in Nat
  PROVE  BestOf(price, collab) \in Nat /\ BestOf(price, collab) <= price /\ BestOf(price, 0) = price
<1>1. Min({price, collab}) = IF price <= collab THEN price ELSE collab
  BY MinPair
<1> QED
  BY <1>1 DEF BestOf

LEMMA PromoBounds ==
  ASSUME NEW row, NEW left \in Nat, NEW quantity \in Nat
  PROVE  /\ PromoUnits(row, left, quantity) \in Nat
         /\ PromoUnits(row, left, quantity) <= quantity /\ PromoUnits(row, left, quantity) <= left
<1>1. Min({quantity, left}) = IF quantity <= left THEN quantity ELSE left
  BY MinPair
<1> QED
  BY <1>1 DEF PromoUnits

LEMMA RegularNat ==
  ASSUME NEW row \in ItemRow, NEW average \in Nat
  PROVE  RegularPrice(row, average) \in Nat /\ RoundSalePriceCents(row.price) \in Nat
<1>1. row.margin \in Int /\ row.price \in Nat
  BY DEF ItemRow
<1>2. SalePriceFromCost(average, row.margin) \in Int
  BY <1>1, SaleInt
<1> PICK price : price = IF SalePriceFromCost(average, row.margin) <= 0 THEN row.price
                         ELSE SalePriceFromCost(average, row.margin)
  OBVIOUS
<1>3. price \in Nat
  BY <1>1, <1>2
<1>4. RegularPrice(row, average) = RoundSalePriceCents(price)
  BY DEF RegularPrice
<1> QED
  BY <1>1, <1>3, <1>4, RoundNat

\* A margin in percent, or none.
Percent == (0 .. 1000) \cup {None}

\* What a line costs is an amount, and a collaborator pays no more of it.
LEMMA LineNat ==
  ASSUME NEW row \in ItemRow, NEW left \in Nat, NEW average \in Nat, NEW quantity \in Nat,
         NEW m \in Percent
  PROVE  /\ LineTotal(row, left, average, quantity, m) \in Nat
         /\ LineTotal(row, left, average, quantity, m)
              <= LineTotal(row, left, average, quantity, None)
<1> PICK promo_ : promo_ = PromoUnits(row, left, quantity)
  OBVIOUS
<1> PICK rest : rest = quantity - promo_
  OBVIOUS
<1> PICK a, b : a = RoundSalePriceCents(row.price) /\ b = RegularPrice(row, average)
  OBVIOUS
<1> PICK collab : collab = IF m = None THEN 0 ELSE SalePriceFromCost(average, m)
  OBVIOUS
<1>1. promo_ \in Nat /\ rest \in Nat
  BY PromoBounds
<1>2. a \in Nat /\ b \in Nat
  BY RegularNat
<1>3. collab \in Nat
  <2>1. ASSUME m # None PROVE SalePriceFromCost(average, m) \in Nat
    <3>1. m \in Nat
      BY <2>1 DEF Percent
    <3> QED
      BY <3>1, SaleNat
  <2> QED
    BY <2>1
<1> PICK x, y : x = BestOf(a, collab) /\ y = BestOf(b, collab)
  OBVIOUS
<1>4. x \in Nat /\ y \in Nat /\ x <= a /\ y <= b /\ BestOf(a, 0) = a /\ BestOf(b, 0) = b
  BY <1>2, <1>3, BestNat
<1>5. promo_ * x \in Nat /\ rest * y \in Nat /\ promo_ * a \in Nat /\ rest * b \in Nat
  BY <1>1, <1>2, <1>4, ProductNat
<1>6. promo_ * x <= promo_ * a /\ rest * y <= rest * b
  BY <1>1, <1>2, <1>4, ProductMonotone
<1>7. promo_ * x + rest * y \in Nat /\ promo_ * a + rest * b \in Nat
      /\ promo_ * x + rest * y <= promo_ * a + rest * b
  BY <1>5, <1>6
<1>8. LineTotal(row, left, average, quantity, m) = RoundSalePriceCents(promo_ * x + rest * y)
  BY DEF LineTotal
<1>9. LineTotal(row, left, average, quantity, None) = RoundSalePriceCents(promo_ * a + rest * b)
  BY <1>4 DEF LineTotal
<1> QED
  BY <1>7, <1>8, <1>9, RoundNat, RoundMonotone

-------------------------------------------------------------------------------
(* Lots: what their sums and their consumption come to.                      *)

LEMMA LotAt ==
  ASSUME NEW s \in Seq(Lot)
  PROVE  /\ Len(s) \in Nat /\ DOMAIN s = 1 .. Len(s)
         /\ \A k \in 1 .. Len(s) : s[k] \in Lot /\ s[k].qty \in Nat /\ s[k].cost \in Nat
<1>1. \A k \in 1 .. Len(s) : s[k] \in Lot
  OBVIOUS
<1>2. \A l \in Lot : l.qty \in Nat /\ l.cost \in Nat
  BY DEF Lot
<1> QED
  BY <1>1, <1>2

Quantities(s) == [k \in DOMAIN s |-> s[k].qty]

\* The units in the first m lots.
Upto(s, m) == SumFunctionOnSet(Quantities(s), 1 .. m)

LEMMA UnitsUpto ==
  ASSUME NEW s \in Seq(Lot)
  PROVE  Units(s) = Upto(s, Len(s))
<1>1. DOMAIN Quantities(s) = 1 .. Len(s)
  BY DEF Quantities
<1>2. Units(s) = SumFunctionOnSet(Quantities(s), DOMAIN Quantities(s))
  BY DEF Units, SumFunction, Quantities
<1> QED
  BY <1>1, <1>2, Zenon DEF Upto

LEMMA UptoNext ==
  ASSUME NEW s \in Seq(Lot), NEW m \in Nat, m < Len(s)
  PROVE  /\ Upto(s, 0) = 0 /\ Upto(s, m) \in Nat
         /\ Upto(s, m + 1) = Upto(s, m) + s[m + 1].qty
<1>1. \A k \in 1 .. Len(s) : Quantities(s)[k] = s[k].qty /\ s[k].qty \in Nat
  BY LotAt DEF Quantities
<1>2. Upto(s, 0) = 0
  <2>1. 1 .. 0 = {}
    OBVIOUS
  <2>2. Upto(s, 0) = SumFunctionOnSet(Quantities(s), {})
    BY <2>1, Zenon DEF Upto
  <2> QED
    BY <2>2, SumEmpty
<1>3. IsFiniteSet(1 .. m)
  BY FS_Interval
<1> PICK f : f = Quantities(s)
  OBVIOUS
<1> PICK A : A = 1 .. m
  OBVIOUS
<1> PICK e : e = m + 1
  OBVIOUS
<1>4. \A k \in A : f[k] \in Nat
  BY <1>1
<1>5. SumFunctionOnSet(f, A) \in Nat
  BY <1>3, <1>4, SumNat
<1>6. \A x : x \in 1 .. e <=> x \in A \/ x = e
  OBVIOUS
<1>7. e \notin A /\ f[e] \in Int /\ f[e] = s[e].qty /\ \A x \in A : f[x] \in Int /\ f[x] = f[x]
  BY <1>1, <1>4
<1>8. SumFunctionOnSet(f, 1 .. e) = SumFunctionOnSet(f, A) + f[e]
  BY <1>3, <1>6, <1>7, SumGrow
<1> QED
  BY <1>2, <1>5, <1>7, <1>8 DEF Upto

LEMMA UptoSame ==
  ASSUME NEW s \in Seq(Lot), NEW r \in Seq(Lot), NEW m \in Nat, m <= Len(s), m <= Len(r),
         \A k \in 1 .. m : r[k].qty = s[k].qty
  PROVE  Upto(r, m) = Upto(s, m)
<1>1. \A k \in 1 .. m : Quantities(s)[k] \in Int /\ Quantities(r)[k] = Quantities(s)[k]
  BY LotAt DEF Quantities
<1>2. IsFiniteSet(1 .. m)
  BY FS_Interval
<1> QED
  BY <1>1, <1>2, SumSame DEF Upto

LEMMA UptoNat ==
  ASSUME NEW s \in Seq(Lot), NEW m \in Nat, m <= Len(s)
  PROVE  Upto(s, m) \in Nat
<1>1. \A k \in 1 .. m : Quantities(s)[k] \in Nat
  BY LotAt DEF Quantities
<1>2. IsFiniteSet(1 .. m)
  BY FS_Interval
<1> QED
  BY <1>1, <1>2, SumNat DEF Upto

LEMMA UnitsNat == ASSUME NEW s \in Seq(Lot) PROVE Units(s) \in Nat
BY UnitsUpto, UptoNat

LEMMA UnitsSame ==
  ASSUME NEW s \in Seq(Lot), NEW r \in Seq(Lot), Len(r) = Len(s),
         \A k \in 1 .. Len(s) : r[k].qty = s[k].qty
  PROVE  Units(r) = Units(s)
BY UnitsUpto, UptoSame

LEMMA UnitsAppend ==
  ASSUME NEW s \in Seq(Lot), NEW l \in Lot
  PROVE  /\ Append(s, l) \in Seq(Lot) /\ Begins(s, Append(s, l))
         /\ Units(Append(s, l)) = Units(s) + l.qty
<1> PICK r : r = Append(s, l)
  OBVIOUS
<1> PICK n : n = Len(s)
  OBVIOUS
<1>1. /\ r \in Seq(Lot) /\ Len(r) = n + 1 /\ n \in Nat /\ r[n + 1] = l
      /\ \A k \in 1 .. n : r[k] = s[k]
  OBVIOUS
<1>2. Upto(r, n + 1) = Upto(r, n) + l.qty
  <2>1. n < Len(r)
    BY <1>1
  <2> QED
    BY <1>1, <2>1, UptoNext
<1>3. Upto(r, n) = Upto(s, n)
  <2>1. n <= Len(r) /\ n <= Len(s)
    BY <1>1
  <2> QED
    BY <1>1, <2>1, UptoSame
<1>4. Units(s) = Upto(s, n) /\ Units(r) = Upto(r, n + 1)
  BY <1>1, UnitsUpto
<1>5. Begins(s, r)
  BY <1>1 DEF Begins
<1> QED
  BY <1>1, <1>2, <1>3, <1>4, <1>5

LEMMA UnitsOne ==
  ASSUME NEW l \in Lot
  PROVE  <<l>> \in Seq(Lot) /\ Units(<<l>>) = l.qty /\ Units(<< >>) = 0
<1> PICK none : none = << >>
  OBVIOUS
<1>1. none \in Seq(Lot) /\ Len(none) = 0 /\ Append(none, l) = <<l>>
  OBVIOUS
<1>2. Units(none) = 0
  <2>1. 1 .. 0 = {}
    OBVIOUS
  <2>2. Upto(none, 0) = SumFunctionOnSet(Quantities(none), {})
    BY <2>1, Zenon DEF Upto
  <2> QED
    BY <1>1, <2>2, SumEmpty, UnitsUpto
<1>3. l.qty \in Nat
  BY DEF Lot
<1>4. Units(Append(none, l)) = Units(none) + l.qty
  BY <1>1, UnitsAppend
<1>5. <<l>> \in Seq(Lot)
  OBVIOUS
<1> QED
  BY <1>1, <1>2, <1>3, <1>4, <1>5

LEMMA WorthNat == ASSUME NEW s \in Seq(Lot) PROVE Worth(s) \in Nat
<1> PICK f : f = [k \in DOMAIN s |-> s[k].qty * s[k].cost]
  OBVIOUS
<1>1. DOMAIN f = 1 .. Len(s) /\ \A k \in 1 .. Len(s) : f[k] = s[k].qty * s[k].cost
  OBVIOUS
<1>2. \A k \in 1 .. Len(s) : s[k].qty \in Nat /\ s[k].cost \in Nat
  BY LotAt
<1>3. \A k \in DOMAIN f : f[k] \in Nat
  BY <1>1, <1>2, ProductNat
<1>4. IsFiniteSet(DOMAIN f)
  BY <1>1, FS_Interval
<1> QED
  BY <1>3, <1>4, SumNat DEF Worth, SumFunction

LEMMA AverageNat == ASSUME NEW s \in Seq(Lot) PROVE AverageCost(s) \in Nat
<1>1. Worth(s) \in Nat /\ Units(s) \in Nat
  BY WorthNat, UnitsNat
<1>2. Worth(s) + Units(s) \div 2 \in Nat
  BY <1>1
<1> QED
  BY <1>1, <1>2, DivNat DEF AverageCost

\* What is left of the first m lots when the first n units have gone.
LEMMA ConsumedUpto ==
  ASSUME NEW s \in Seq(Lot), NEW n \in Nat
  PROVE  /\ ConsumeFIFO(s, n) \in Seq(Lot) /\ Len(ConsumeFIFO(s, n)) = Len(s)
         /\ \A m \in Nat : m <= Len(s) =>
              Upto(ConsumeFIFO(s, n), m) = IF Upto(s, m) <= n THEN 0 ELSE Upto(s, m) - n
<1> DEFINE taken(k) == Min({s[k].qty, Max({0, n - Units(SubSeq(s, 1, k - 1))})})
<1> PICK c : c = ConsumeFIFO(s, n)
  OBVIOUS
<1>1. c = [k \in DOMAIN s |-> [s[k] EXCEPT !.qty = s[k].qty - taken(k)]]
  BY DEF ConsumeFIFO
<1>2. ASSUME NEW k \in 1 .. Len(s)
      PROVE  /\ s[k].qty \in Nat /\ Upto(s, k - 1) \in Nat
             /\ taken(k) = IF n <= Upto(s, k - 1) THEN 0
                           ELSE IF s[k].qty <= n - Upto(s, k - 1) THEN s[k].qty
                           ELSE n - Upto(s, k - 1)
  <2> PICK r : r = SubSeq(s, 1, k - 1)
    OBVIOUS
  <2> PICK p : p = Upto(s, k - 1)
    OBVIOUS
  <2>0. k - 1 \in Nat /\ k - 1 <= Len(s)
    BY LotAt
  <2>1. r \in Seq(Lot) /\ Len(r) = k - 1 /\ \A j \in 1 .. (k - 1) : r[j] = s[j]
    OBVIOUS
  <2>2. Units(r) = p
    <3>1. Units(r) = Upto(r, k - 1)
      BY <2>1, UnitsUpto
    <3>2. Upto(r, k - 1) = Upto(s, k - 1)
      <4> PICK m : m = k - 1
        OBVIOUS
      <4>1. m \in Nat /\ m <= Len(s) /\ m <= Len(r) /\ \A j \in 1 .. m : r[j].qty = s[j].qty
        BY <2>0, <2>1
      <4> QED
        BY <2>1, <4>1, UptoSame
    <3> QED
      BY <3>1, <3>2
  <2>3. p \in Nat /\ s[k].qty \in Nat
    BY <2>0, UptoNat, LotAt
  <2>4. Max({0, n - p}) = IF 0 <= n - p THEN n - p ELSE 0
    BY <2>3, MaxPair
  <2>5. Max({0, n - p}) \in Int
    BY <2>3, <2>4
  <2> PICK q : q = s[k].qty
    OBVIOUS
  <2> PICK x : x = Max({0, n - p})
    OBVIOUS
  <2>6. taken(k) = Min({q, x})
    BY <2>2
  <2>7. Min({q, x}) = IF q <= x THEN q ELSE x
    <3>1. q \in Int /\ x \in Int
      BY <2>3, <2>5
    <3> HIDE <2>3
    <3> QED
      BY <3>1, MinPair, Zenon
  <2> QED
    BY <2>3, <2>4, <2>6, <2>7
<1> HIDE DEF taken
<1>3. ASSUME NEW k \in 1 .. Len(s)
      PROVE  c[k] \in Lot /\ c[k].qty = s[k].qty - taken(k)
  <2>1. s[k].qty - taken(k) \in Nat
    BY <1>2
  <2>2. c[k] = [s[k] EXCEPT !.qty = s[k].qty - taken(k)] /\ s[k] \in Lot
    BY <1>1
  <2> QED
    BY <2>1, <2>2 DEF Lot
<1>4. DOMAIN c = 1 .. Len(s) /\ Len(s) \in Nat
  BY <1>1
<1>5. c \in Seq(Lot) /\ Len(c) = Len(s)
  <2>1. c \in [1 .. Len(s) -> Lot]
    BY <1>1, <1>3, <1>4
  <2>2. c \in Seq(Lot)
    BY <1>4, <2>1
  <2> QED
    BY <1>4, <2>2
<1> DEFINE T == {m \in Nat : m <= Len(s) =>
                   Upto(c, m) = IF Upto(s, m) <= n THEN 0 ELSE Upto(s, m) - n}
<1>6. 0 \in T
  <2>1. Upto(c, 0) = 0 /\ Upto(s, 0) = 0
    <3>1. 1 .. 0 = {}
      OBVIOUS
    <3>2. \A r : Upto(r, 0) = SumFunctionOnSet(Quantities(r), {})
      BY <3>1, Zenon DEF Upto
    <3> QED
      BY <3>2, SumEmpty
  <2> QED
    BY <2>1
<1>7. ASSUME NEW m \in Nat, m \in T PROVE m + 1 \in T
  <2> SUFFICES ASSUME m + 1 <= Len(s)
               PROVE  Upto(c, m + 1) = IF Upto(s, m + 1) <= n THEN 0 ELSE Upto(s, m + 1) - n
    OBVIOUS
  <2>1. Upto(c, m + 1) = Upto(c, m) + c[m + 1].qty
    BY <1>4, <1>5, UptoNext
  <2>2. Upto(s, m + 1) = Upto(s, m) + s[m + 1].qty /\ Upto(s, m) \in Nat
    BY <1>4, UptoNext
  <2>3. m + 1 \in 1 .. Len(s) /\ (m + 1) - 1 = m
    BY <1>4
  <2>4. /\ s[m + 1].qty \in Nat
        /\ taken(m + 1) = IF n <= Upto(s, m) THEN 0
                          ELSE IF s[m + 1].qty <= n - Upto(s, m) THEN s[m + 1].qty
                          ELSE n - Upto(s, m)
    BY <1>2, <2>3
  <2>5. c[m + 1].qty = s[m + 1].qty - taken(m + 1)
    BY <1>3, <2>3
  <2>6. Upto(c, m) = IF Upto(s, m) <= n THEN 0 ELSE Upto(s, m) - n
    BY <1>4, <1>7
  <2> QED
    BY <2>1, <2>2, <2>4, <2>5, <2>6
<1> HIDE DEF T
<1>8. \A m \in Nat : m \in T
  BY <1>6, <1>7, NatInductionOnSet
<1> QED
  BY <1>5, <1>8 DEF T

LEMMA Joined ==
  ASSUME NEW S, NEW c \in Seq(S), NEW d \in Seq(S)
  PROVE  \A k \in 1 .. Len(c \o d) : (c \o d)[k] = IF k <= Len(c) THEN c[k] ELSE d[k - Len(c)]
OBVIOUS

\* Lots that were read, and are written back without n units, although more have
\* come behind them.
LEMMA UnitsConsumed ==
  ASSUME NEW a \in Seq(Lot), NEW b \in Seq(Lot), Begins(a, b), NEW n \in Nat, n <= Units(a)
  PROVE  LET r == ConsumeFIFO(a, n) \o SubSeq(b, Len(a) + 1, Len(b))
         IN  r \in Seq(Lot) /\ Units(r) = Units(b) - n
<1> PICK c : c = ConsumeFIFO(a, n)
  OBVIOUS
<1> PICK d : d = SubSeq(b, Len(a) + 1, Len(b))
  OBVIOUS
<1> PICK r : r = c \o d
  OBVIOUS
<1>1. c \in Seq(Lot) /\ Len(c) = Len(a)
  BY ConsumedUpto
<1>2. Len(a) \in Nat /\ Len(b) \in Nat /\ Len(a) <= Len(b)
  BY DEF Begins
<1>3. /\ d \in Seq(Lot) /\ Len(d) = Len(b) - Len(a)
      /\ \A k \in 1 .. (Len(b) - Len(a)) : d[k] = b[Len(a) + k]
  BY <1>2
<1>4. /\ r \in Seq(Lot) /\ Len(r) = Len(b)
      /\ \A k \in 1 .. Len(a) : r[k] = c[k]
      /\ \A k \in (Len(a) + 1) .. Len(b) : r[k] = b[k]
  <2>0. Len(a) + (Len(b) - Len(a)) = Len(b)
    BY <1>2
  <2>1. r \in Seq(Lot) /\ Len(r) = Len(c) + Len(d)
    <3>1. c \in Seq(Lot) /\ d \in Seq(Lot)
      BY <1>1, <1>3
    <3> QED
      BY <3>1
  <2>2. \A k \in 1 .. Len(r) : r[k] = IF k <= Len(c) THEN c[k] ELSE d[k - Len(c)]
    <3>1. c \in Seq(Lot) /\ d \in Seq(Lot)
      BY <1>1, <1>3
    <3> QED
      BY <3>1, Joined
  <2>3. ASSUME NEW k \in (Len(a) + 1) .. Len(b) PROVE r[k] = b[k]
    <3>1. k - Len(a) \in 1 .. (Len(b) - Len(a)) /\ Len(a) + (k - Len(a)) = k
      BY <1>2
    <3>2. d[k - Len(a)] = b[k]
      BY <1>3, <3>1
    <3>3. k \in 1 .. Len(r) /\ ~(k <= Len(c))
      BY <1>1, <1>2, <1>3, <2>1
    <3> QED
      BY <1>1, <2>2, <3>2, <3>3
  <2>4. Len(r) = Len(b)
    BY <1>1, <1>2, <1>3, <2>0, <2>1
  <2>5. ASSUME NEW k \in 1 .. Len(a) PROVE r[k] = c[k]
    <3>1. k \in 1 .. Len(r) /\ k <= Len(c)
      BY <1>1, <1>2, <2>4
    <3> QED
      BY <2>2, <3>1
  <2> QED
    BY <2>1, <2>3, <2>4, <2>5
<1>5. Upto(c, Len(a)) = IF Upto(a, Len(a)) <= n THEN 0 ELSE Upto(a, Len(a)) - n
  BY <1>2, ConsumedUpto
<1>6. Upto(a, Len(a)) \in Nat /\ Units(a) = Upto(a, Len(a))
  BY <1>2, UptoNat, UnitsUpto
<1>7. Upto(r, Len(a)) = Upto(b, Len(a)) - n
  <2> PICK m : m = Len(a)
    OBVIOUS
  <2>0. /\ m \in Nat /\ m <= Len(r) /\ m <= Len(c) /\ m <= Len(b) /\ m <= Len(a)
        /\ \A k \in 1 .. m : r[k].qty = c[k].qty /\ b[k].qty = a[k].qty
    BY SMTT(30), <1>1, <1>2, <1>4 DEF Begins
  <2>1. Upto(r, m) = Upto(c, m)
    BY ZenonT(40), <1>1, <1>4, <2>0, UptoSame
  <2>2. Upto(b, m) = Upto(a, m)
    BY <2>0, UptoSame
  <2> QED
    BY <1>5, <1>6, <2>1, <2>2
<1> DEFINE T == {m \in Nat : Len(a) + m <= Len(b) =>
                   Upto(r, Len(a) + m) = Upto(b, Len(a) + m) - n}
<1>8. 0 \in T
  BY <1>2, <1>7
<1>9. ASSUME NEW m \in Nat, m \in T PROVE m + 1 \in T
  <2> SUFFICES ASSUME Len(a) + (m + 1) <= Len(b)
               PROVE  Upto(r, Len(a) + (m + 1)) = Upto(b, Len(a) + (m + 1)) - n
    OBVIOUS
  <2> PICK k : k = Len(a) + m
    OBVIOUS
  <2>1. k \in Nat /\ k < Len(b) /\ Len(a) + (m + 1) = k + 1 /\ k + 1 \in (Len(a) + 1) .. Len(b)
    BY <1>2
  <2>2. Upto(r, k + 1) = Upto(r, k) + r[k + 1].qty
    BY <1>4, <2>1, UptoNext
  <2>3. Upto(b, k + 1) = Upto(b, k) + b[k + 1].qty
    BY <2>1, UptoNext
  <2>4. Upto(r, k) = Upto(b, k) - n
    BY <1>9, <2>1
  <2>5. Upto(b, k) \in Nat /\ b[k + 1].qty \in Nat
    BY SMTT(30), <1>2, <2>1, UptoNat, LotAt
  <2>6. r[k + 1].qty = b[k + 1].qty
    BY <1>4, <2>1
  <2>7. Upto(r, k + 1) = Upto(b, k + 1) - n
    <3> PICK u, q : u = Upto(b, k) /\ q = b[k + 1].qty
      OBVIOUS
    <3>1. u \in Nat /\ q \in Nat /\ n \in Nat
      BY <2>5
    <3>2. Upto(r, k + 1) = (u - n) + q /\ Upto(b, k + 1) = u + q
      BY <2>2, <2>3, <2>4, <2>6
    <3>3. (u - n) + q = (u + q) - n
      BY SMTT(30), <3>1
    <3> QED
      BY <3>2, <3>3
  <2> QED
    BY <2>1, <2>7
<1> HIDE DEF T
<1>10. \A m \in Nat : m \in T
  BY <1>8, <1>9, NatInductionOnSet
<1>11. Upto(r, Len(b)) = Upto(b, Len(b)) - n
  <2>1. Len(b) - Len(a) \in Nat /\ Len(a) + (Len(b) - Len(a)) = Len(b)
    BY <1>2
  <2>2. Len(b) - Len(a) \in T
    BY <1>10, <2>1
  <2> QED
    BY <1>2, <2>1, <2>2 DEF T
<1> QED
  BY <1>4, <1>11, UnitsUpto

-------------------------------------------------------------------------------
(* What a step of one session leaves to the others.                          *)

\* The locks of the others stay.
LocksMove(t) == \A l \in locks \cup locks' : l.tx # t => (l \in locks <=> l \in locks')

LocksStep(t) == LocksMove(t) /\ MutexOK'

LEMMA Unmoved ==
  ASSUME ShopInv, NEW t \in Txn, locks' = locks
  PROVE  LocksStep(t)
BY DEF ShopInv, MutexOK, LocksStep, LocksMove

LEMMA Dropped ==
  ASSUME ShopInv, NEW t \in Txn, locks' = WithoutLocks(t)
  PROVE  LocksStep(t) /\ \A l \in locks' : l.tx # t
BY DEF ShopInv, MutexOK, LocksStep, LocksMove, WithoutLocks

LEMMA Added ==
  ASSUME ShopInv, NEW t \in Txn, NEW S, locks' = locks \cup S,
         \A l \in S : l.tx = t /\ CanLock(t, l.row, l.mode)
  PROVE  LocksStep(t)
BY DEF ShopInv, MutexOK, LocksStep, LocksMove, CanLock

LEMMA AddedOne ==
  ASSUME ShopInv, NEW t \in Txn, NEW row, NEW mode, CanLock(t, row, mode),
         locks' = WithLock(t, row, mode)
  PROVE  LocksStep(t) /\ Holds(t, row, mode)'
<1> DEFINE S == {[row |-> row, tx |-> t, mode |-> mode]}
<1>1. locks' = locks \cup S /\ \A l \in S : l.tx = t /\ CanLock(t, l.row, l.mode)
  BY DEF WithLock
<1> HIDE DEF S
<1>2. LocksStep(t)
  BY <1>1, Added
<1> QED
  BY <1>2 DEF Holds, WithLock

Respects(t) ==
  /\ LocksMove(t)
  /\ \A i \in Exists : items'[i] # None
  /\ \A u \in Txn \ {t}, i \in Exists :
       /\ Locked(u, "sku", i) => items'[i].price = items[i].price
       /\ Locked(u, "product", i) => items'[i].left = items[i].left
  /\ \A u \in Txn \ {t}, i \in Item : Locked(u, "lots", i) => Begins(lots[i], lots'[i])
  /\ \A u \in Txn \ {t}, k \in Key : Locked(u, "order", k) => orders'[k] = orders[k]
  /\ \A c \in Cart : carts[c] \in CartRow => carts'[c] \in CartRow

LEMMA BeginsOn ==
  ASSUME NEW a, NEW b \in Seq(Lot), NEW c \in Seq(Lot), a \in Seq(Lot), Begins(a, b), Begins(b, c)
  PROVE  Begins(a, c)
BY DEF Begins

LEMMA OthersAtWork ==
  ASSUME ShopInv, NEW t \in Txn, NEW u \in Txn, t # u, tx'[u] = tx[u], Respects(t),
         \A i \in Item : lots'[i] \in Seq(Lot)
  PROVE  AtWork(u)'
<1> PICK r : r = tx[u]
  OBVIOUS
<1>1. /\ tx[u] = r /\ tx'[u] = r /\ AtWork(u)
      /\ \A i \in Exists : i \in Item /\ i \in Exists'
  BY DEF ShopInv, Respects, Exists
<1>2. \A row : Holds(u, row, "X") => Holds(u, row, "X")'
  BY DEF Respects, LocksMove, Holds
<1>3. Carried(r) /\ RowRead(r)
  BY <1>1 DEF AtWork
<1>4. Carried(r)'
  BY <1>1, <1>3 DEF Carried
<1>5. RowRead(r)'
  BY <1>1, <1>3 DEF RowRead
<1>6. CartRead(r)'
  BY <1>1 DEF AtWork, CartRead, Respects
<1>7. PriceRead(u)'
  <2>1. r.pc = "set_price" => r.item \in Exists
    BY <1>3 DEF RowRead, ForItem
  <2> QED
    BY <1>1, <1>2, <2>1 DEF AtWork, PriceRead, Locked, Respects
<1>8. Priced(u)'
  <2>1. \A i \in PricedLines(r) : i \in Exists
    BY <1>3 DEF PricedLines, Lines, Carried
  <2> QED
    BY ZenonT(40), <1>1, <1>2, <2>1 DEF AtWork, Priced, Locked, Respects
<1>9. LotsTaken(u)'
  <2> SUFFICES ASSUME r.pc \in StockPc, NEW i \in Item, r.delta[i] < 0,
                      i \in r.todo => r.pc = "balance" /\ r.item = i
               PROVE  Locked(u, "lots", i)' /\ Begins(r.lots[i], lots'[i])
                      /\ Units(r.lots[i]) >= - r.delta[i]
    BY <1>1 DEF LotsTaken
  <2>1. Locked(u, "lots", i) /\ Begins(r.lots[i], lots[i]) /\ Units(r.lots[i]) >= - r.delta[i]
    BY <1>1 DEF AtWork, LotsTaken
  <2>2. Begins(lots[i], lots'[i])
    BY <2>1 DEF Respects
  <2>3. r.lots[i] \in Seq(Lot) /\ lots[i] \in Seq(Lot)
    BY <1>3 DEF Carried, ShopInv, TypeOK
  <2> QED
    BY <1>2, <2>1, <2>2, <2>3, BeginsOn DEF Locked
<1>10. OrderTaken(u)'
  BY <1>1, <1>2 DEF AtWork, OrderTaken, Locked, Respects
<1> QED
  BY <1>1, <1>4, <1>5, <1>6, <1>7, <1>8, <1>9, <1>10 DEF AtWork



-------------------------------------------------------------------------------
(* Steps that keep the tables, and requests that have locked nothing.        *)

TableTypes ==
  /\ items \in [Item -> ItemRow \cup {None}]
  /\ \A i \in Exists : items[i].left <= items[i].total /\ Valid(items[i])
  /\ balance \in [Item -> Nat \cup {None}]
  /\ lots \in [Item -> Seq(Lot)]
  /\ moves \in [Item -> Seq(MoveRow)]
  /\ history \in [Item -> Seq([prev : Nat, new : Nat])]
  /\ promo \in [Item -> [granted : Nat, sold : Nat, restored : Nat]]
  /\ margin \in Nat
  /\ carts \in [Cart -> CartRow \cup {None}]
  /\ orders \in [Key -> OrderRow \cup {None}]

Inv == StoreInv /\ ShopInv

\* A session that holds locks is where it may.
MayLock(t) == tx[t].pc \in Locking \/ \A l \in locks : l.tx # t

LEMMA AnyStep ==
  ASSUME Inv, NEW t \in Txn, NEW s, tx' = [tx EXCEPT ![t] = s],
         LocksStep(t), Respects(t), MayLock(t)', TableTypes', AtWork(t)',
         Rows', Quotas', PricesChain', LotsMatchBalance', SoldIsOrdered'
  PROVE  ShopInv'
<1>1. tx'[t] = s /\ \A u \in Txn \ {t} : tx'[u] = tx[u]
  BY DEF Inv, StoreInv, TablesOK
<1>2. LocksBusy' /\ MutexOK'
  BY <1>1 DEF Inv, ShopInv, LocksBusy, LocksStep, LocksMove, MayLock
<1>3. \A l \in locks' : tx'[l.tx] # Idle
  BY <1>2, IdleOK DEF LocksBusy, Locking, StockPc
<1>4. TypeOK'
  BY <1>3 DEF TypeOK, TableTypes
<1>5. \A u \in Txn : AtWork(u)'
  BY <1>1, OthersAtWork DEF Inv, TableTypes
<1> QED
  BY <1>2, <1>4, <1>5 DEF ShopInv

\* What the cart of a session may become.
CartsStep ==
  /\ carts' \in [Cart -> CartRow \cup {None}]
  /\ \A c \in Cart : carts[c] \in CartRow => carts'[c] \in CartRow
  /\ \A c \in Cart, i \in Item : carts'[c] \in CartRow /\ carts'[c].items[i] > 0 => i \in Exists

LEMMA CartsStay == ASSUME Inv, carts' = carts PROVE CartsStep
BY DEF Inv, ShopInv, TypeOK, Rows, CartsStep

LEMMA SoldStays ==
  ASSUME SoldIsOrdered, moves' = moves, orders' = orders
  PROVE  SoldIsOrdered'
BY DEF SoldIsOrdered, MovedBy, OrderedIn

LEMMA Quiet ==
  ASSUME Inv, NEW t \in Txn, NEW s, tx' = [tx EXCEPT ![t] = s],
         LocksStep(t), MayLock(t)', AtWork(t)', CartsStep,
         items' = items, balance' = balance, lots' = lots, moves' = moves, history' = history,
         promo' = promo, margin' = margin, orders' = orders
  PROVE  ShopInv'
<1>1. Exists' = Exists
  BY DEF Exists
<1>2. TypeOK /\ Rows /\ Quotas /\ PricesChain /\ LotsMatchBalance /\ SoldIsOrdered
  BY DEF Inv, ShopInv
<1>3. TableTypes'
  BY <1>1, <1>2 DEF TypeOK, TableTypes, CartsStep
<1>4. Respects(t)
  <2>1. \A i \in Item : Begins(lots[i], lots'[i])
    BY <1>2 DEF TypeOK, Begins
  <2> QED
    BY <2>1 DEF Respects, LocksStep, CartsStep, Exists
<1>5. Rows' /\ PricesChain' /\ LotsMatchBalance'
  BY <1>1, <1>2 DEF Rows, CartsStep, PricesChain, LotsMatchBalance, Have
<1>6. Quotas'
  BY <1>1, <1>2 DEF Quotas, LeftOf
<1>7. SoldIsOrdered'
  BY <1>2, SoldStays
<1> QED
  BY <1>3, <1>4, <1>5, <1>6, <1>7, AnyStep

\* A request that has neither a price, nor stock, nor an order locked.
Light(s) ==
  /\ Carried(s) /\ RowRead(s) /\ CartRead(s)
  /\ s.pc \notin Locking /\ s.op # "cancel"
  /\ s.op = "checkout" => /\ s.pc \in {"create_cart", "cart"} /\ s.key \in Key
                          /\ \A i \in Item : s.promo[i] = 0

LEMMA LightAtWork ==
  ASSUME NEW t, NEW s, tx'[t] = s, Light(s)'
  PROVE  AtWork(t)'
BY DEF Light, AtWork, PriceRead, Priced, PricedLines, LotsTaken, OrderTaken, Locking, StockPc

LEMMA LightKept ==
  ASSUME NEW s, Light(s), \A i \in Exists : items'[i] # None, carts' = carts
  PROVE  Light(s)'
<1>1. \A i \in Exists : i \in Exists'
  BY DEF Exists
<1>2. Carried(s)'
  BY <1>1 DEF Light, Carried
<1> QED
  BY <1>1, <1>2 DEF Light, RowRead, CartRead

\* A session without locks takes no other when it has none to take.
LEMMA NoLocks ==
  ASSUME Inv, NEW t \in Txn, tx[t].pc \notin Locking, locks' = locks
  PROVE  MayLock(t)'
BY DEF Inv, ShopInv, LocksBusy, MayLock

\* A request, or its end, that changes no table and no lock.
LEMMA LightStep ==
  ASSUME Inv, NEW t \in Txn, NEW s, tx' = [tx EXCEPT ![t] = s], Light(s),
         tx[t].pc \notin Locking, locks' = locks,
         items' = items, balance' = balance, lots' = lots, moves' = moves, history' = history,
         promo' = promo, margin' = margin, orders' = orders, carts' = carts
  PROVE  ShopInv'
<1>1. tx'[t] = s
  BY DEF Inv, StoreInv, TablesOK
<1>2. AtWork(t)'
  BY <1>1, LightKept, LightAtWork DEF Exists
<1>3. LocksStep(t)
  BY Unmoved DEF Inv
<1> QED
  BY <1>2, <1>3, NoLocks, CartsStay, Quiet

\* The values that a request starts with.
Blank(s) ==
  /\ DOMAIN s = Fields
  /\ s.todo = {} /\ s.again = {} /\ s.item = None /\ s.n = 0 /\ s.row = None
  /\ s.key = None /\ s.cart = None
  /\ s.delta = Nothing /\ s.left = Nothing /\ s.promo = Nothing /\ s.prev = Nothing
  /\ s.cost = Nothing /\ s.lots \in [Item -> Seq(Lot)]

LEMMA BlankRequest ==
  ASSUME NEW op, NEW pc
  PROVE  Blank(Request(op, pc)) /\ Request(op, pc).op = op /\ Request(op, pc).pc = pc
<1> PICK none : none = [i \in Item |-> <<>>]
  OBVIOUS
<1>1. none \in [Item -> Seq(Lot)]
  OBVIOUS
<1>2. Idle = [op |-> "idle", pc |-> "idle", todo |-> {}, again |-> {}, item |-> None,
         key |-> None, cart |-> None, delta |-> Nothing, n |-> 0, row |-> None,
         left |-> Nothing, promo |-> Nothing, prev |-> Nothing, cost |-> Nothing,
         lots |-> none]
  BY DEF Idle
<1> QED
  BY <1>1, <1>2 DEF Request, Blank, Fields

LEMMA BlankIdle == Blank(Idle)
<1> PICK none : none = [i \in Item |-> <<>>]
  OBVIOUS
<1>1. none \in [Item -> Seq(Lot)]
  OBVIOUS
<1>2. Idle = [op |-> "idle", pc |-> "idle", todo |-> {}, again |-> {}, item |-> None,
         key |-> None, cart |-> None, delta |-> Nothing, n |-> 0, row |-> None,
         left |-> Nothing, promo |-> Nothing, prev |-> Nothing, cost |-> Nothing,
         lots |-> none]
  BY DEF Idle
<1> QED
  BY <1>1, <1>2 DEF Blank, Fields

LEMMA BlankCarried ==
  ASSUME NEW s, Blank(s)
  PROVE  Carried(s)
BY NothingZero DEF Blank, Carried

LEMMA IdleLight == Light(Idle)
BY BlankIdle, BlankCarried, IdleOK, NothingZero
   DEF Light, RowRead, CartRead, ForItem, Locking, StockPc, Blank



-------------------------------------------------------------------------------
(* The cart.                                                                 *)

\* A request that begins with the cart.
CartRequest(r) ==
  /\ Carried(r) /\ DOMAIN r = Fields
  /\ r.op \in {"get", "add", "set", "clear", "checkout"} /\ r.op # "cancel"
  /\ r.op \in {"add", "set"} => r.item \in Exists
  /\ r.op = "checkout" => r.key \in Key /\ \A i \in Item : r.promo[i] = 0

LEMMA FindCartShop ==
  ASSUME Inv, NEW t \in Txn, NEW r, CartRequest(r), FindCart(t, r)
  PROVE  ShopInv'
<1>1. PICK c \in Cart \cup {None} :
        /\ c # None => carts[c] # None
        /\ tx' = [tx EXCEPT ![t] = [r EXCEPT !.cart = c,
                                             !.pc = IF c = None THEN "create_cart" ELSE "cart"]]
        /\ items' = items /\ balance' = balance /\ lots' = lots /\ moves' = moves
        /\ history' = history /\ promo' = promo /\ margin' = margin
        /\ carts' = carts /\ orders' = orders /\ locks' = locks
        /\ tx[t] = Idle
  BY DEF FindCart, Begin, stock, sales, catalog
<1>2. PICK pc : pc = IF c = None THEN "create_cart" ELSE "cart"
  OBVIOUS
<1> DEFINE s == [r EXCEPT !.cart = c, !.pc = pc]
<1>3. /\ s.todo = r.todo /\ s.again = r.again /\ s.item = r.item /\ s.n = r.n
      /\ s.delta = r.delta /\ s.left = r.left /\ s.promo = r.promo /\ s.prev = r.prev
      /\ s.cost = r.cost /\ s.lots = r.lots /\ s.op = r.op /\ s.key = r.key
      /\ s.cart = c /\ s.pc = pc
  BY DEF CartRequest, Fields
<1>4. tx' = [tx EXCEPT ![t] = s]
  BY <1>1, <1>2
<1> HIDE DEF s
<1>5. Carried(s)
  BY <1>3 DEF CartRequest, Carried
<1>6. pc \in {"create_cart", "cart"}
  BY <1>2
<1>7. RowRead(s)
  BY <1>3, <1>6 DEF CartRequest, RowRead, ForItem
<1>8. CartRead(s)
  BY <1>1, <1>2, <1>3 DEF CartRead, Inv, ShopInv, TypeOK
<1>9. Light(s)
  BY <1>3, <1>5, <1>6, <1>7, <1>8 DEF Light, CartRequest, Locking, StockPc
<1>10. tx[t].pc \notin Locking
  BY <1>1, IdleOK DEF Locking, StockPc
<1> QED
  BY <1>1, <1>4, <1>9, <1>10, LightStep

LEMMA CartRequestsShop ==
  ASSUME Inv, NEW t \in Txn,
         getCart(t) \/ clearCart(t) \/ addItem(t) \/ setItemQuantity(t) \/ checkout(t)
  PROVE  ShopInv'
<1>0. Quantity \cup {0} \subseteq Nat
  BY StoreAssumption DEF Quantity
<1>1. ASSUME NEW op \in {"get", "clear"}, FindCart(t, Request(op, "cart"))
      PROVE  ShopInv'
  <2> PICK r : r = Request(op, "cart")
    OBVIOUS
  <2>1. Blank(r) /\ r.op = op /\ r.pc = "cart"
    BY BlankRequest
  <2>2. CartRequest(r)
    BY <2>1, BlankCarried DEF CartRequest, Blank
  <2> QED
    BY <1>1, <2>2, FindCartShop
<1>2. ASSUME NEW op \in {"add", "set"}, NEW i \in Exists, NEW n \in Nat,
             FindCart(t, [Request(op, "cart") EXCEPT !.item = i, !.n = n])
      PROVE  ShopInv'
  <2> PICK r : r = Request(op, "cart")
    OBVIOUS
  <2>1. Blank(r) /\ r.op = op /\ r.pc = "cart" /\ Carried(r)
    BY BlankRequest, BlankCarried
  <2> PICK s : s = [r EXCEPT !.item = i, !.n = n]
    OBVIOUS
  <2>2. /\ s.todo = r.todo /\ s.again = r.again /\ s.item = i /\ s.n = n
        /\ s.delta = r.delta /\ s.left = r.left /\ s.promo = r.promo /\ s.prev = r.prev
        /\ s.cost = r.cost /\ s.lots = r.lots /\ s.op = op /\ DOMAIN s = Fields
    BY <2>1 DEF Blank, Fields
  <2>3. CartRequest(s)
    BY <2>1, <2>2 DEF CartRequest, Carried
  <2>4. FindCart(t, s)
    BY <1>2
  <2> QED
    BY <2>3, <2>4, FindCartShop
<1>3. ASSUME NEW k \in Key, FindCart(t, [Request("checkout", "cart") EXCEPT !.key = k])
      PROVE  ShopInv'
  <2> PICK r : r = Request("checkout", "cart")
    OBVIOUS
  <2>1. Blank(r) /\ r.op = "checkout" /\ r.pc = "cart" /\ Carried(r)
    BY BlankRequest, BlankCarried
  <2> PICK s : s = [r EXCEPT !.key = k]
    OBVIOUS
  <2>2. /\ s.todo = r.todo /\ s.again = r.again /\ s.item = r.item /\ s.n = r.n
        /\ s.delta = r.delta /\ s.left = r.left /\ s.promo = r.promo /\ s.prev = r.prev
        /\ s.cost = r.cost /\ s.lots = r.lots /\ s.op = "checkout" /\ DOMAIN s = Fields
        /\ s.key = k
    BY <2>1 DEF Blank, Fields
  <2>3. \A i \in Item : s.promo[i] = 0
    BY <2>1, <2>2, NothingZero DEF Blank
  <2>4. CartRequest(s)
    BY <2>1, <2>2, <2>3 DEF CartRequest, Carried
  <2>5. FindCart(t, s)
    BY <1>3
  <2> QED
    BY <2>4, <2>5, FindCartShop
<1>4. \/ \E op \in {"get", "clear"} : FindCart(t, Request(op, "cart"))
      \/ \E op \in {"add", "set"}, i \in Exists, n \in Quantity \cup {0} :
           FindCart(t, [Request(op, "cart") EXCEPT !.item = i, !.n = n])
      \/ \E k \in Key : FindCart(t, [Request("checkout", "cart") EXCEPT !.key = k])
  <2>1. getCart(t) => FindCart(t, Request("get", "cart"))
    BY DEF getCart, GetOrCreateCart
  <2>2. clearCart(t) => FindCart(t, Request("clear", "cart"))
    BY DEF clearCart, ClearCart
  <2>3. addItem(t) => \E i \in Exists, n \in Quantity :
          FindCart(t, [Request("add", "cart") EXCEPT !.item = i, !.n = n])
    BY DEF addItem, AddCartItem
  <2>4. setItemQuantity(t) => \E i \in Exists, n \in Quantity \cup {0} :
          FindCart(t, [Request("set", "cart") EXCEPT !.item = i, !.n = n])
    BY DEF setItemQuantity, SetCartItemQuantity
  <2>5. checkout(t) => \E k \in Key : FindCart(t, [Request("checkout", "cart") EXCEPT !.key = k])
    BY DEF checkout, Checkout
  <2> QED
    BY <2>1, <2>2, <2>3, <2>4, <2>5, Zenon
<1> QED
  BY <1>0, <1>1, <1>2, <1>3, <1>4, Zenon

\* What the invariant says of the session's own request.
LEMMA OwnWork ==
  ASSUME Inv, NEW t \in Txn, NEW r, r = tx[t]
  PROVE  /\ DOMAIN r = Fields /\ Carried(r) /\ RowRead(r) /\ CartRead(r)
         /\ PriceRead(t) /\ Priced(t) /\ LotsTaken(t) /\ OrderTaken(t)
         /\ r.pc \notin Locking => \A l \in locks : l.tx # t
BY OwnRequest DEF Inv, ShopInv, AtWork, LocksBusy

LEMMA CreateCartShop ==
  ASSUME Inv, NEW t \in Txn, CreateCart(t)
  PROVE  ShopInv'
<1> PICK r : r = tx[t]
  OBVIOUS
<1>1. PICK c \in Cart :
        /\ carts' = [carts EXCEPT ![c] = [open |-> TRUE, items |-> Nothing]]
        /\ tx' = [tx EXCEPT ![t] = [r EXCEPT !.cart = c, !.pc = "cart"]]
        /\ items' = items /\ balance' = balance /\ lots' = lots /\ moves' = moves
        /\ history' = history /\ promo' = promo /\ margin' = margin
        /\ orders' = orders /\ locks' = locks
        /\ r.pc = "create_cart"
  BY DEF CreateCart, stock, catalog
<1> DEFINE s == [r EXCEPT !.cart = c, !.pc = "cart"]
<1>2. /\ DOMAIN r = Fields /\ Carried(r) /\ RowRead(r) /\ OrderTaken(t) /\ Priced(t)
      /\ r.pc \notin Locking
  BY <1>1, OwnWork DEF Locking, StockPc
<1>3. /\ s.todo = r.todo /\ s.again = r.again /\ s.item = r.item /\ s.n = r.n
      /\ s.delta = r.delta /\ s.left = r.left /\ s.promo = r.promo /\ s.prev = r.prev
      /\ s.cost = r.cost /\ s.lots = r.lots /\ s.op = r.op /\ s.key = r.key
      /\ s.cart = c /\ s.pc = "cart"
  BY <1>2 DEF Fields
<1>4. tx' = [tx EXCEPT ![t] = s] /\ tx'[t] = s
  BY <1>1 DEF Inv, StoreInv, TablesOK
<1> HIDE DEF s
<1> PICK row : row = [open |-> TRUE, items |-> Nothing]
  OBVIOUS
<1>5. row \in CartRow /\ row.items = Nothing
  BY NothingZero DEF CartRow
<1>6. CartsStep /\ carts'[c] \in CartRow
  <2>1. carts' = [carts EXCEPT ![c] = row]
    BY <1>1
  <2>2. carts \in [Cart -> CartRow \cup {None}]
    BY DEF Inv, ShopInv, TypeOK
  <2>3. \A d \in Cart, i \in Item : carts[d] \in CartRow /\ carts[d].items[i] > 0 => i \in Exists
    BY DEF Inv, ShopInv, Rows
  <2>4. carts' \in [Cart -> CartRow \cup {None}] /\ carts'[c] = row
    BY <1>5, <2>1, <2>2
  <2>5. \A d \in Cart : d # c => carts'[d] = carts[d]
    BY <2>1, <2>2
  <2>6. \A i \in Item : ~(carts'[c].items[i] > 0)
    BY <1>5, <2>4, NothingZero
  <2> QED
    BY <1>5, <2>3, <2>4, <2>5, <2>6 DEF CartsStep
<1>7. Carried(s)'
  BY <1>1, <1>2, <1>3 DEF Carried, Exists
<1>8. RowRead(s)'
  BY <1>1, <1>2, <1>3 DEF RowRead, ForItem, Exists
<1>9. CartRead(s)'
  BY <1>3, <1>6 DEF CartRead
<1>10. r.op # "cancel" /\ r.op = "checkout" => r.key \in Key /\ \A i \in Item : r.promo[i] = 0
  BY <1>1, <1>2 DEF OrderTaken, Priced, PricedLines, StockPc
<1>11. r.op # "cancel"
  BY <1>1, <1>2 DEF OrderTaken, StockPc
<1>12. Light(s)'
  BY <1>3, <1>7, <1>8, <1>9, <1>10, <1>11 DEF Light, Locking, StockPc
<1>13. AtWork(t)'
  BY <1>4, <1>12, LightAtWork
<1> QED
  BY <1>1, <1>2, <1>4, <1>6, <1>13, Unmoved, NoLocks, Quiet DEF Inv

LEMMA ChangeItemsShop ==
  ASSUME Inv, NEW t \in Txn, ChangeItems(t)
  PROVE  ShopInv'
<1> PICK r : r = tx[t]
  OBVIOUS
<1> PICK have : have = carts[r.cart].items
  OBVIOUS
<1>1. PICK items_ :
        /\ items_ = IF r.op = "get" THEN have ELSE IF r.op = "clear" THEN Nothing
             ELSE [have EXCEPT ![r.item] = IF r.op = "add" THEN have[r.item] + r.n ELSE r.n]
        /\ carts' = [carts EXCEPT ![r.cart].items = items_]
  BY DEF ChangeItems
<1>2. /\ tx' = [tx EXCEPT ![t] = Idle]
      /\ items' = items /\ balance' = balance /\ lots' = lots /\ moves' = moves
      /\ history' = history /\ promo' = promo /\ margin' = margin
      /\ orders' = orders /\ locks' = locks
      /\ r.pc = "cart" /\ r.op \in {"get", "add", "set", "clear"}
  BY DEF ChangeItems, stock, catalog
<1>3. r.cart \in Cart /\ carts[r.cart] \in CartRow /\ Carried(r) /\ RowRead(r)
  BY <1>2, OwnWork DEF CartRead
<1>4. r.op \in {"add", "set"} => r.item \in Exists /\ r.item \in Item
  BY <1>3 DEF RowRead, Exists
<1>5. have \in [Item -> Nat] /\ r.n \in Nat
  BY <1>3 DEF CartRow, Carried
<1>6. /\ items_ \in [Item -> Nat]
      /\ \A i \in Item : items_[i] > 0 => i \in Exists \/ have[i] > 0
  <2>1. CASE r.op \in {"get", "clear"}
    BY SMTT(30), <1>1, <1>5, <2>1, NothingZero
  <2>2. CASE r.op \in {"add", "set"}
    <3>1. have[r.item] + r.n \in Nat
      BY <1>4, <1>5, <2>2
    <3> QED
      BY Zenon, <1>1, <1>4, <1>5, <2>2, <3>1
  <2> QED
    BY SMTT(30), <1>2, <2>1, <2>2
<1>7. PICK row : row = [carts[r.cart] EXCEPT !.items = items_]
  OBVIOUS
<1>8. row \in CartRow /\ row.items = items_
  BY <1>3, <1>6, <1>7 DEF CartRow
<1>9. carts' = [carts EXCEPT ![r.cart] = row]
  BY <1>1, <1>7
<1>10. \A i \in Item : have[i] > 0 => i \in Exists
  BY <1>3 DEF Inv, ShopInv, Rows
<1>11. CartsStep
  BY <1>3, <1>6, <1>8, <1>9, <1>10 DEF CartsStep, Inv, ShopInv, TypeOK, Rows
<1>12. tx'[t] = Idle
  BY <1>2 DEF Inv, StoreInv, TablesOK
<1>13. Light(Idle)'
  BY IdleLight, IdleOK, <1>2 DEF Light, Carried, RowRead, CartRead, Exists, ForItem
<1>14. AtWork(t)'
  BY <1>12, <1>13, LightAtWork
<1>15. tx[t].pc \notin Locking
  BY <1>2 DEF Locking, StockPc
<1> QED
  BY <1>2, <1>11, <1>14, <1>15, Unmoved, NoLocks, Quiet DEF Inv



-------------------------------------------------------------------------------
(* Cancellations and manual movements.                                       *)

LEMMA CancelOrderShop ==
  ASSUME Inv, NEW t \in Txn, cancelOrder(t)
  PROVE  ShopInv'
<1> PICK k \in Key : AdminCancelOrder(t, k)
  BY DEF cancelOrder
<1>0. PICK lines, todo : lines = orders[k].lines /\ todo = {i \in Item : orders[k].lines[i] > 0}
  OBVIOUS
<1> PICK r : r = Request("cancel", "stock")
  OBVIOUS
<1> DEFINE s == [r EXCEPT !.key = k, !.delta = lines, !.todo = todo]
<1>1. /\ tx' = [tx EXCEPT ![t] = s]
      /\ items' = items /\ balance' = balance /\ lots' = lots /\ moves' = moves
      /\ history' = history /\ promo' = promo /\ margin' = margin
      /\ carts' = carts /\ orders' = orders
      /\ CanLock(t, <<"order", k>>, "X") /\ locks' = WithLock(t, <<"order", k>>, "X")
      /\ orders[k] # None /\ orders[k].status = "confirmed"
  BY <1>0 DEF AdminCancelOrder, Begin, stock, sales, catalog
<1>2. Blank(r) /\ r.op = "cancel" /\ r.pc = "stock" /\ Carried(r)
  BY BlankRequest, BlankCarried
<1>3. /\ s.todo = todo /\ s.again = r.again /\ s.item = r.item /\ s.n = r.n
      /\ s.delta = lines /\ s.left = r.left /\ s.promo = r.promo /\ s.prev = r.prev
      /\ s.cost = r.cost /\ s.lots = r.lots /\ s.op = "cancel" /\ s.key = k
      /\ s.pc = "stock"
  BY <1>2 DEF Blank, Fields
<1> HIDE DEF s
<1>4. orders[k] \in OrderRow /\ lines \in [Item -> Nat]
  BY <1>0, <1>1 DEF Inv, ShopInv, TypeOK, OrderRow
<1>5. \A i \in Item : lines[i] # 0 => i \in Exists
  BY <1>0, <1>1, <1>4 DEF Inv, ShopInv, Rows
<1>6. todo \subseteq Exists
  BY <1>0, <1>4, <1>5
<1>7. Carried(s)'
  <2>1. Exists' = Exists
    BY <1>1 DEF Exists
  <2>2. lines \in [Item -> Int]
    BY <1>4
  <2> QED
    BY <1>2, <1>3, <1>5, <1>6, <2>1, <2>2 DEF Carried
<1>8. RowRead(s)' /\ CartRead(s)'
  BY <1>3 DEF RowRead, CartRead, ForItem
<1>9. tx'[t] = s
  BY <1>1 DEF Inv, StoreInv, TablesOK
<1>10. LocksStep(t) /\ Locked(t, "order", k)'
  BY <1>1, AddedOne DEF Inv, Locked
<1>11. PriceRead(t)' /\ Priced(t)'
  BY <1>3, <1>9 DEF PriceRead, Priced
<1>12. LotsTaken(t)'
  <2>1. \A i \in Item : ~(s.delta[i] < 0)
    BY <1>3, <1>4
  <2> QED
    BY <1>9, <2>1 DEF LotsTaken
<1>13. OrderTaken(t)'
  <2>1. orders'[k] \in OrderRow /\ orders'[k].status = "confirmed" /\ lines = orders'[k].lines
    BY <1>0, <1>1, <1>4
  <2> QED
    BY <1>3, <1>9, <1>10, <2>1 DEF OrderTaken, StockPc
<1>14. AtWork(t)'
  BY <1>7, <1>8, <1>9, <1>11, <1>12, <1>13 DEF AtWork
<1>15. MayLock(t)'
  BY <1>3, <1>9 DEF MayLock, Locking, StockPc
<1> QED
  BY <1>1, <1>10, <1>14, <1>15, CartsStay, Quiet

\* A request for a movement of one item, before anything is read for it.
Moving(s, i) ==
  /\ s.op \in {"entry", "initial_stock", "loss", "adjustment"} /\ s.pc = "stock"
  /\ s.op # "checkout" /\ s.op # "cancel"
  /\ s.todo = {i} /\ s.again = {} /\ s.item = i /\ s.n \in Nat
  /\ s.delta \in [Item -> Int] /\ \A j \in Item \ {i} : s.delta[j] = 0
  /\ s.left = Nothing /\ s.promo = Nothing /\ s.prev = Nothing
  /\ s.cost \in [Item -> Nat] /\ s.lots \in [Item -> Seq(Lot)]

LEMMA MovementMoving ==
  ASSUME NEW kind \in {"entry", "initial_stock", "loss", "adjustment"},
         NEW i \in Item, NEW d \in Int, NEW s, s = Movement(kind, i, d)
  PROVE  Moving(s, i) /\ DOMAIN s = Fields /\ s.cost = Nothing /\ s.op = kind
<1> PICK r : r = Request(kind, "stock")
  OBVIOUS
<1>1. Blank(r) /\ r.op = kind /\ r.pc = "stock"
  BY BlankRequest
<1> PICK delta : delta = [Nothing EXCEPT ![i] = d]
  OBVIOUS
<1>2. s = [r EXCEPT !.item = i, !.delta = delta, !.todo = {i}]
  BY <1>1 DEF Movement, Blank
<1>3. delta \in [Item -> Int] /\ \A j \in Item \ {i} : delta[j] = 0
  BY NothingZero
<1>4. /\ s.op = kind /\ s.pc = "stock" /\ s.todo = {i} /\ s.again = r.again /\ s.item = i
      /\ s.n = r.n /\ s.delta = delta /\ s.left = r.left /\ s.promo = r.promo
      /\ s.prev = r.prev /\ s.cost = r.cost /\ s.lots = r.lots /\ DOMAIN s = Fields
  BY <1>1, <1>2 DEF Blank, Fields
<1>5. s.cost \in [Item -> Nat]
  BY <1>1, <1>4, NothingZero DEF Blank
<1> QED
  BY <1>1, <1>3, <1>4, <1>5 DEF Moving, Blank

LEMMA MovingAtWork ==
  ASSUME NEW t, NEW i \in Item, NEW s, tx'[t] = s, Moving(s, i), items'[i] # None
  PROVE  AtWork(t)'
<1>1. i \in Exists'
  BY DEF Exists
<1>2. Carried(s)'
  BY <1>1, NothingZero DEF Moving, Carried
<1>3. RowRead(s)' /\ CartRead(s)'
  BY <1>1 DEF Moving, RowRead, CartRead, ForItem
<1>4. PriceRead(t)' /\ Priced(t)' /\ OrderTaken(t)'
  BY DEF Moving, PriceRead, Priced, OrderTaken
<1>5. LotsTaken(t)'
  BY DEF Moving, LotsTaken
<1> QED
  BY <1>2, <1>3, <1>4, <1>5 DEF AtWork

\* A session takes up a movement; only an adjustment has locked something.
LEMMA MovingStep ==
  ASSUME Inv, NEW t \in Txn, NEW i \in Exists, NEW s, Moving(s, i),
         tx' = [tx EXCEPT ![t] = s], LocksStep(t),
         items' = items, balance' = balance, lots' = lots, moves' = moves, history' = history,
         promo' = promo, margin' = margin, orders' = orders, carts' = carts
  PROVE  ShopInv'
<1>1. tx'[t] = s /\ i \in Item /\ items'[i] # None
  BY DEF Inv, StoreInv, TablesOK, Exists
<1>2. AtWork(t)'
  BY <1>1, MovingAtWork
<1>3. MayLock(t)'
  BY <1>1 DEF MayLock, Moving, Locking, StockPc
<1> QED
  BY <1>2, <1>3, CartsStay, Quiet

LEMMA RegisterEntryShop ==
  ASSUME Inv, NEW t \in Txn, NEW i \in Item, NEW n \in Quantity, NEW cost \in Costs,
         RegisterEntry(t, i, n, n * cost)
  PROVE  ShopInv'
<1> PICK m : m = Movement("entry", i, n)
  OBVIOUS
<1> PICK c : c = EntryUnitCostCents(n * cost, 0, n)
  OBVIOUS
<1>1. n \in Nat \ {0} /\ cost \in Nat /\ n \in Int
  BY StoreAssumption DEF Quantity
<1>2. c \in Nat
  <2>1. n * cost \in Nat
    BY <1>1, ProductNat
  <2>2. n * cost + 0 + n \div 2 \in Nat
    BY <1>1, <2>1
  <2> QED
    BY <1>1, <2>2, DivNat DEF EntryUnitCostCents
<1>3. Moving(m, i) /\ DOMAIN m = Fields /\ m.cost = Nothing
  BY <1>1, MovementMoving
<1> PICK costs : costs = [m.cost EXCEPT ![i] = c]
  OBVIOUS
<1> PICK s : s = [m EXCEPT !.cost = costs]
  OBVIOUS
<1>4. /\ tx' = [tx EXCEPT ![t] = s] /\ i \in Exists /\ locks' = locks
      /\ items' = items /\ balance' = balance /\ lots' = lots /\ moves' = moves
      /\ history' = history /\ promo' = promo /\ margin' = margin
      /\ carts' = carts /\ orders' = orders
  BY DEF RegisterEntry, Begin, stock, sales, catalog
<1>5. costs \in [Item -> Nat]
  BY <1>2, <1>3, NothingZero
<1>6. /\ s.op = m.op /\ s.pc = m.pc /\ s.todo = m.todo /\ s.again = m.again /\ s.item = m.item
      /\ s.n = m.n /\ s.delta = m.delta /\ s.left = m.left /\ s.promo = m.promo
      /\ s.prev = m.prev /\ s.cost = costs /\ s.lots = m.lots
  BY <1>3 DEF Fields
<1>7. Moving(s, i)
  BY <1>3, <1>5, <1>6 DEF Moving
<1> QED
  BY <1>4, <1>7, Unmoved, MovingStep DEF Inv

LEMMA MovementRequestsShop ==
  ASSUME Inv, NEW t \in Txn, createMovement(t) \/ registerEntry(t)
  PROVE  ShopInv'
<1>1. PICK i \in Item :
        \/ \E n \in Quantity, cost \in Costs : RegisterEntry(t, i, n, n * cost)
        \/ \E n \in Quantity : RegisterOutbound(t, i, n)
        \/ \E count \in Quantity \cup {0} : RegisterAdjustment(t, i, count)
  BY DEF createMovement, registerEntry
<1>2. Quantity \cup {0} \subseteq Nat
  BY StoreAssumption DEF Quantity
<1>3. ASSUME NEW n \in Quantity, RegisterOutbound(t, i, n) PROVE ShopInv'
  <2> PICK s : s = Movement("loss", i, -n)
    OBVIOUS
  <2>1. /\ tx' = [tx EXCEPT ![t] = s] /\ i \in Exists /\ locks' = locks
        /\ items' = items /\ balance' = balance /\ lots' = lots /\ moves' = moves
        /\ history' = history /\ promo' = promo /\ margin' = margin
        /\ carts' = carts /\ orders' = orders
    BY <1>3 DEF RegisterOutbound, Begin, stock, sales, catalog
  <2>2. -n \in Int
    BY <1>2
  <2>3. Moving(s, i)
    BY <2>2, MovementMoving
  <2> QED
    BY <2>1, <2>3, Unmoved, MovingStep DEF Inv
<1>4. ASSUME NEW count \in Quantity \cup {0}, RegisterAdjustment(t, i, count) PROVE ShopInv'
  <2>0. Have(i) \in Int /\ count - Have(i) \in Int /\ count \in Nat
    BY <1>2 DEF Have, Inv, ShopInv, TypeOK
  <2> PICK d : d = count - Have(i)
    OBVIOUS
  <2> PICK m : m = Movement("adjustment", i, d)
    OBVIOUS
  <2> PICK s : s = [m EXCEPT !.n = count, !.row = balance[i]]
    OBVIOUS
  <2>1. /\ tx' = [tx EXCEPT ![t] = s] /\ i \in Exists
        /\ locks' = IF balance[i] = None THEN locks ELSE WithLock(t, <<"balance", i>>, "X")
        /\ balance[i] # None => CanLock(t, <<"balance", i>>, "X")
        /\ items' = items /\ balance' = balance /\ lots' = lots /\ moves' = moves
        /\ history' = history /\ promo' = promo /\ margin' = margin
        /\ carts' = carts /\ orders' = orders
    BY <1>4 DEF RegisterAdjustment, Begin, stock, sales, catalog
  <2>2. Moving(m, i) /\ DOMAIN m = Fields
    BY <2>0, MovementMoving
  <2>3. /\ s.op = m.op /\ s.pc = m.pc /\ s.todo = m.todo /\ s.again = m.again
        /\ s.item = m.item /\ s.n = count /\ s.delta = m.delta /\ s.left = m.left
        /\ s.promo = m.promo /\ s.prev = m.prev /\ s.cost = m.cost /\ s.lots = m.lots
    BY <2>2 DEF Fields
  <2>4. Moving(s, i)
    BY SMTT(30), <2>0, <2>2, <2>3 DEF Moving
  <2>5. LocksStep(t)
    BY <2>1, Unmoved, AddedOne DEF Inv
  <2> QED
    BY <2>1, <2>4, <2>5, MovingStep
<1> QED
  BY <1>1, <1>3, <1>4, RegisterEntryShop



-------------------------------------------------------------------------------
(* Products, SKUs and prices: the requests.                                  *)

LEMMA ItemAt ==
  ASSUME Inv, NEW i \in Exists
  PROVE  /\ i \in Item /\ items[i] # None
         /\ items[i] \in ItemRow /\ items[i].left <= items[i].total /\ Valid(items[i])
         /\ items[i].price \in Nat /\ items[i].cost \in Nat \cup {None} /\ items[i].margin \in Int
         /\ items[i].promoMargin \in (0 .. 1000) \cup {None}
         /\ items[i].total \in Nat /\ items[i].left \in Nat
<1>1. /\ i \in Item /\ items[i] # None
      /\ items[i] \in ItemRow /\ items[i].left <= items[i].total /\ Valid(items[i])
  BY DEF Inv, ShopInv, TypeOK, Exists
<1> QED
  BY <1>1 DEF ItemRow

LEMMA IdleNotLocking == ASSUME NEW t, tx[t] = Idle PROVE tx[t].pc \notin Locking
BY IdleOK DEF Locking, StockPc

LEMMA ChangePriceShop ==
  ASSUME Inv, NEW t \in Txn, changePrice(t)
  PROVE  ShopInv'
<1> PICK i \in Item, price \in Costs : ChangeSKUPrice(t, i, price)
  BY DEF changePrice
<1> PICK n : n = RoundSalePriceCents(price)
  OBVIOUS
<1> PICK r : r = Request("price", "lock_price")
  OBVIOUS
<1> PICK s : s = [r EXCEPT !.item = i, !.n = n]
  OBVIOUS
<1>1. /\ tx' = [tx EXCEPT ![t] = s] /\ i \in Exists /\ locks' = locks /\ tx[t] = Idle
      /\ items' = items /\ balance' = balance /\ lots' = lots /\ moves' = moves
      /\ history' = history /\ promo' = promo /\ margin' = margin
      /\ carts' = carts /\ orders' = orders
  BY DEF ChangeSKUPrice, Begin, stock, sales, catalog
<1>2. n \in Nat
  BY StoreAssumption, RoundNat
<1>3. Blank(r) /\ Carried(r) /\ r.op = "price" /\ r.pc = "lock_price"
  BY BlankRequest, BlankCarried
<1>4. /\ s.todo = r.todo /\ s.again = r.again /\ s.item = i /\ s.n = n
      /\ s.delta = r.delta /\ s.left = r.left /\ s.promo = r.promo /\ s.prev = r.prev
      /\ s.cost = r.cost /\ s.lots = r.lots /\ s.op = "price" /\ s.pc = "lock_price"
  BY <1>3 DEF Blank, Fields
<1>5. Light(s)
  BY <1>1, <1>2, <1>3, <1>4 DEF Light, Carried, RowRead, CartRead, ForItem, Locking, StockPc
<1> QED
  BY <1>1, <1>5, IdleNotLocking, LightStep

LEMMA UpdateSKUShop ==
  ASSUME Inv, NEW t \in Txn, updateSKU(t)
  PROVE  ShopInv'
<1> PICK i \in Item, cost \in Costs \cup {None} : UpdateSKU(t, i, cost)
  BY DEF updateSKU
<1> PICK row : row = Given(cost, items[i].cost)
  OBVIOUS
<1> PICK n : n = IF cost = None THEN 0 ELSE cost
  OBVIOUS
<1> PICK r : r = Request("sku", "write_sku")
  OBVIOUS
<1> PICK s : s = [r EXCEPT !.item = i, !.row = row, !.n = n]
  OBVIOUS
<1>1. /\ tx' = [tx EXCEPT ![t] = s] /\ i \in Exists /\ locks' = locks /\ tx[t] = Idle
      /\ items' = items /\ balance' = balance /\ lots' = lots /\ moves' = moves
      /\ history' = history /\ promo' = promo /\ margin' = margin
      /\ carts' = carts /\ orders' = orders
  BY SMTT(30) DEF UpdateSKU, Begin, stock, sales, catalog
<1>2. n \in Nat /\ row \in Nat \cup {None}
  BY <1>1, StoreAssumption, ItemAt DEF Given
<1>3. Blank(r) /\ Carried(r) /\ r.op = "sku" /\ r.pc = "write_sku"
  BY BlankRequest, BlankCarried
<1>4. /\ s.todo = r.todo /\ s.again = r.again /\ s.item = i /\ s.n = n /\ s.row = row
      /\ s.delta = r.delta /\ s.left = r.left /\ s.promo = r.promo /\ s.prev = r.prev
      /\ s.cost = r.cost /\ s.lots = r.lots /\ s.op = "sku" /\ s.pc = "write_sku"
  BY <1>3 DEF Blank, Fields
<1>5. Light(s)
  BY <1>1, <1>2, <1>3, <1>4 DEF Light, Carried, RowRead, CartRead, ForItem, Locking, StockPc
<1> QED
  BY <1>1, <1>5, IdleNotLocking, LightStep

\* The row that UpdateProduct writes keeps the checks of the table.
LEMMA EditedRow ==
  ASSUME NEW row \in ItemRow, row.left <= row.total, NEW e \in EditRow, Valid(Edited(row, e))
  PROVE  /\ Edited(row, e) \in ItemRow /\ Edited(row, e).left <= Edited(row, e).total
         /\ e.quantity = None /\ row.left > 0 => Edited(row, e).left \in {0, row.left}
<1> PICK on : on = Given(e.promo, row.promo)
  OBVIOUS
<1> PICK given : given = Given(e.quantity, row.total)
  OBVIOUS
<1> PICK m : m = Given(e.margin, row.margin)
  OBVIOUS
<1> PICK a : a = Given(e.active, row.active)
  OBVIOUS
<1> PICK pm : pm = IF on THEN Given(e.promoMargin, row.promoMargin) ELSE None
  OBVIOUS
<1> PICK total : total = IF on THEN given ELSE 0
  OBVIOUS
<1> PICK left : left = IF ~on THEN 0 ELSE IF e.quantity # None \/ row.left <= 0 THEN given
                       ELSE row.left
  OBVIOUS
<1> PICK new : new = [row EXCEPT !.margin = m, !.active = a, !.promo = on, !.promoMargin = pm,
                                 !.total = total, !.left = left]
  OBVIOUS
<1>1. Edited(row, e) = new
  BY DEF Edited
<1>2. /\ row.margin \in Int /\ row.active \in BOOLEAN /\ row.promo \in BOOLEAN
      /\ row.promoMargin \in (0 .. 1000) \cup {None} /\ row.total \in Nat /\ row.left \in Nat
  BY DEF ItemRow
<1>3. /\ e.margin \in Int \cup {None} /\ e.promo \in BOOLEAN \cup {None}
      /\ e.promoMargin \in (0 .. 1000) \cup {None} /\ e.quantity \in Int \cup {None}
      /\ e.active \in BOOLEAN \cup {None}
  BY DEF EditRow
<1>4. m \in Int /\ given \in Int /\ pm \in (0 .. 1000) \cup {None}
  BY <1>2, <1>3 DEF Given
<1>5. on \in BOOLEAN
  BY <1>2, <1>3, ZenonT(40) DEF Given
<1>6. a \in BOOLEAN
  BY <1>2, <1>3, ZenonT(40) DEF Given
<1>7. new.promo = on /\ new.total = total /\ new.left = left
  BY DEF ItemRow
<1>8. on => given > 0
  BY <1>1, <1>7 DEF Valid
<1>9. total \in Nat /\ left \in Nat /\ left <= total
  <2>1. CASE e.quantity = None
    <3>1. given = row.total
      BY SMTT(30), <2>1 DEF Given
    <3> QED
      BY <1>2, <1>4, <1>8, <2>1, <3>1
  <2>2. CASE e.quantity # None
    BY <1>2, <1>4, <1>8, <2>2
  <2> QED
    BY SMTT(30), <2>1, <2>2
<1>10. new \in ItemRow
  <2>1. new = [price |-> row.price, cost |-> row.cost, active |-> a, margin |-> m, promo |-> on,
               promoMargin |-> pm, total |-> total, left |-> left]
    BY ZenonT(40) DEF ItemRow
  <2>2. row.price \in Nat /\ row.cost \in Nat \cup {None}
    BY DEF ItemRow
  <2>3. \A x, y \in BOOLEAN :
          [price |-> row.price, cost |-> row.cost, active |-> x, margin |-> m, promo |-> y,
           promoMargin |-> pm, total |-> total, left |-> left] \in ItemRow
    BY <1>4, <1>9, <2>2 DEF ItemRow
  <2> DEFINE R(x, y) == [price |-> row.price, cost |-> row.cost, active |-> x, margin |-> m,
                         promo |-> y, promoMargin |-> pm, total |-> total, left |-> left]
  <2>4. new = R(a, on) /\ \A x, y \in BOOLEAN : R(x, y) \in ItemRow
    BY <2>1, <2>3
  <2> HIDE DEF R
  <2> QED
    BY <1>5, <1>6, <2>4, Zenon
<1> QED
  BY <1>1, <1>2, <1>7, <1>9, <1>10

LEMMA UpdateProductShop ==
  ASSUME Inv, NEW t \in Txn, updateProduct(t)
  PROVE  ShopInv'
<1> PICK i \in Item, e \in Edits : UpdateProduct(t, i, e)
  BY DEF updateProduct
<1> PICK row : row = Edited(items[i], e)
  OBVIOUS
<1> PICK todo : todo = IF Reprices(e) THEN {i} ELSE {}
  OBVIOUS
<1> PICK kept : kept = IF e.quantity # None \/ items[i].left <= 0 THEN 0 ELSE items[i].left
  OBVIOUS
<1> PICK left : left = [Nothing EXCEPT ![i] = kept]
  OBVIOUS
<1> PICK r : r = Request("edit", "write_product")
  OBVIOUS
<1> PICK s : s = [r EXCEPT !.item = i, !.row = row, !.todo = todo, !.left = left]
  OBVIOUS
<1>1. Blank(r) /\ Carried(r) /\ r.op = "edit" /\ r.pc = "write_product"
  BY BlankRequest, BlankCarried
<1>2. /\ tx' = [tx EXCEPT ![t] = s] /\ i \in Exists /\ locks' = locks /\ tx[t] = Idle
      /\ items' = items /\ balance' = balance /\ lots' = lots /\ moves' = moves
      /\ history' = history /\ promo' = promo /\ margin' = margin
      /\ carts' = carts /\ orders' = orders /\ Valid(row)
  <2>1. [Request("edit", "write_product") EXCEPT
           !.item = i, !.row = Edited(items[i], e), !.todo = IF Reprices(e) THEN {i} ELSE {},
           !.left[i] = IF e.quantity # None \/ items[i].left <= 0 THEN 0 ELSE items[i].left] = s
    BY <1>1 DEF Blank
  <2> QED
    BY <2>1 DEF UpdateProduct, Begin, stock, sales, catalog
<1>3. e \in EditRow /\ items[i] \in ItemRow /\ items[i].left <= items[i].total /\ items[i].left \in Nat
  BY <1>2, StoreAssumption, ItemAt
<1>4. /\ row \in ItemRow /\ row.left <= row.total
      /\ e.quantity = None /\ items[i].left > 0 => row.left \in {0, items[i].left}
  BY <1>2, <1>3, EditedRow
<1>5. kept \in Nat /\ left \in [Item -> Nat] /\ left[i] = kept /\ todo \subseteq Exists
  BY <1>2, <1>3, NothingZero
<1>6. /\ s.todo = todo /\ s.again = r.again /\ s.item = i /\ s.n = r.n /\ s.row = row
      /\ s.delta = r.delta /\ s.left = left /\ s.promo = r.promo /\ s.prev = r.prev
      /\ s.cost = r.cost /\ s.lots = r.lots /\ s.op = "edit" /\ s.pc = "write_product"
  BY <1>1 DEF Blank, Fields
<1>7. Carried(s)
  BY Zenon, <1>1, <1>2, <1>5, <1>6 DEF Carried
<1>8. RowRead(s)
  BY <1>2, <1>3, <1>4, <1>5, <1>6 DEF RowRead, ForItem
<1>9. Light(s)
  BY <1>6, <1>7, <1>8 DEF Light, CartRead, Locking, StockPc
<1> QED
  BY <1>2, <1>9, IdleNotLocking, LightStep



\* Steps that leave stock, carts and orders alone.
LEMMA CatalogStep ==
  ASSUME Inv, NEW t \in Txn, NEW s, tx' = [tx EXCEPT ![t] = s],
         LocksStep(t), MayLock(t)', AtWork(t)',
         balance' = balance, lots' = lots, moves' = moves, orders' = orders, carts' = carts,
         items' \in [Item -> ItemRow \cup {None}], \A i \in Exists : items'[i] # None,
         \A i \in Exists' : items'[i].left <= items'[i].total /\ Valid(items'[i]),
         \A u \in Txn \ {t}, i \in Exists :
           /\ Locked(u, "sku", i) => items'[i].price = items[i].price
           /\ Locked(u, "product", i) => items'[i].left = items[i].left,
         history' \in [Item -> Seq([prev : Nat, new : Nat])],
         promo' \in [Item -> [granted : Nat, sold : Nat, restored : Nat]], margin' \in Nat,
         \A i \in Item : items'[i] = None => history'[i] = << >>, Quotas', PricesChain'
  PROVE  ShopInv'
<1>1. TypeOK /\ Rows /\ LotsMatchBalance /\ SoldIsOrdered
  BY DEF Inv, ShopInv
<1>2. TableTypes'
  BY <1>1 DEF TypeOK, TableTypes
<1>3. Respects(t)
  <2>1. \A i \in Item : Begins(lots[i], lots'[i])
    BY <1>1 DEF TypeOK, Begins
  <2> QED
    BY <2>1 DEF Respects, LocksStep
<1>4. Rows'
  BY <1>1 DEF Rows, Exists
<1>5. LotsMatchBalance' /\ SoldIsOrdered'
  <2>1. LotsMatchBalance'
    BY <1>1 DEF LotsMatchBalance, Have
  <2>2. SoldIsOrdered'
    BY <1>1, SoldStays
  <2> QED
    BY <2>1, <2>2
<1> QED
  BY <1>2, <1>3, <1>4, <1>5, AnyStep

LEMMA PatchPricingSettingsShop ==
  ASSUME Inv, NEW t \in Txn, patchPricingSettings(t)
  PROVE  ShopInv'
<1>1. PICK m \in Margins : SetDefaultMarginPercent(t, m)
  BY DEF patchPricingSettings
<1>2. /\ tx' = [tx EXCEPT ![t] = Idle] /\ tx[t] = Idle /\ locks' = locks /\ margin' = m
      /\ items' = items /\ balance' = balance /\ lots' = lots /\ moves' = moves
      /\ history' = history /\ promo' = promo /\ carts' = carts /\ orders' = orders
  BY <1>1 DEF SetDefaultMarginPercent, Begin, stock, sales
<1>3. m \in Nat /\ Exists' = Exists /\ tx'[t] = Idle
  <2>1. m \in Nat
    BY StoreAssumption
  <2>2. Exists' = Exists
    BY <1>2 DEF Exists
  <2>3. tx'[t] = Idle
    BY <1>2 DEF Inv, StoreInv, TablesOK
  <2> QED
    BY <2>1, <2>2, <2>3
<1>4. AtWork(t)'
  BY <1>2, <1>3, IdleLight, LightKept, LightAtWork DEF Exists
<1>5. MayLock(t)' /\ LocksStep(t)
  BY <1>2, IdleNotLocking, NoLocks, Unmoved DEF Inv
<1>6. TypeOK /\ Rows /\ PricesChain /\ Quotas
  BY DEF Inv, ShopInv
<1>7. PricesChain' /\ Quotas'
  BY <1>2, <1>3, <1>6 DEF PricesChain, Quotas, LeftOf
<1> PICK s : s = Idle
  OBVIOUS
<1> QED
  BY <1>2, <1>3, <1>4, <1>5, <1>6, <1>7, CatalogStep DEF TypeOK, Rows, Exists

LEMMA RepriceAllProductsShop ==
  ASSUME Inv, NEW t \in Txn, repriceAllProducts(t)
  PROVE  ShopInv'
<1>1. PICK m \in Margins : RepriceAllProducts(t, m)
  BY DEF repriceAllProducts
<1> PICK r : r = Request("price", "recalc")
  OBVIOUS
<1> PICK s : s = [r EXCEPT !.todo = Exists]
  OBVIOUS
<1>2. /\ tx' = [tx EXCEPT ![t] = s] /\ tx[t] = Idle /\ locks' = locks /\ margin' = margin
      /\ items' = [i \in Item |-> IF i \in Exists THEN [items[i] EXCEPT !.margin = m] ELSE items[i]]
      /\ balance' = balance /\ lots' = lots /\ moves' = moves
      /\ history' = history /\ promo' = promo /\ carts' = carts /\ orders' = orders
  BY <1>1 DEF RepriceAllProducts, Begin, stock, sales
<1>3. ASSUME NEW i \in Exists
      PROVE  /\ i \in Item /\ items'[i] \in ItemRow /\ items'[i] # None
             /\ items'[i].price = items[i].price /\ items'[i].left = items[i].left
             /\ items'[i].left <= items'[i].total /\ Valid(items'[i])
  <2>1. items'[i] = [items[i] EXCEPT !.margin = m] /\ items[i] \in ItemRow /\ i \in Item
    BY <1>2, ItemAt
  <2>2. m \in Int
    BY SMTT(30), StoreAssumption
  <2>3. /\ items'[i] \in ItemRow /\ items'[i].price = items[i].price
        /\ items'[i].left = items[i].left /\ items'[i].total = items[i].total
        /\ items'[i].promo = items[i].promo /\ items'[i].promoMargin = items[i].promoMargin
    BY <2>1, <2>2 DEF ItemRow
  <2>4. items'[i] # None
    BY <2>3, StoreAssumption
  <2> QED
    BY <2>1, <2>3, <2>4, ItemAt DEF Valid
<1>4. TypeOK /\ Rows /\ PricesChain /\ Quotas
  BY DEF Inv, ShopInv
<1>5. \A i \in Item : i \notin Exists => items'[i] = items[i] /\ items[i] = None
  BY <1>2 DEF Exists
<1>6. Exists' = Exists
  BY <1>3, <1>5 DEF Exists
<1>7. items' \in [Item -> ItemRow \cup {None}]
  <2>1. \A i \in Item : items'[i] \in ItemRow \cup {None}
    BY <1>3, <1>5
  <2>2. items' = [i \in Item |-> items'[i]]
    BY <1>2
  <2> QED
    BY <2>1, <2>2
<1>8. Blank(r) /\ Carried(r) /\ r.op = "price" /\ r.pc = "recalc"
  BY BlankRequest, BlankCarried
<1>9. /\ s.todo = Exists /\ s.again = r.again /\ s.item = r.item /\ s.n = r.n
      /\ s.delta = r.delta /\ s.left = r.left /\ s.promo = r.promo /\ s.prev = r.prev
      /\ s.cost = r.cost /\ s.lots = r.lots /\ s.op = "price" /\ s.pc = "recalc"
  BY <1>8 DEF Blank, Fields
<1>10. Light(s)
  BY <1>8, <1>9 DEF Light, Carried, RowRead, CartRead, ForItem, Locking, StockPc
<1>11. tx'[t] = s
  BY <1>2 DEF Inv, StoreInv, TablesOK
<1>12. AtWork(t)'
  BY <1>2, <1>3, <1>10, <1>11, LightKept, LightAtWork
<1>13. MayLock(t)' /\ LocksStep(t)
  BY <1>2, IdleNotLocking, NoLocks, Unmoved DEF Inv
<1>14. PricesChain'
  <2>1. \A i \in Item : history[i] # << >> => i \in Exists
    BY <1>4 DEF Rows, Exists
  <2> QED
    BY <1>2, <1>3, <1>4, <2>1 DEF PricesChain
<1>15. Quotas'
  BY <1>2, <1>3, <1>4, <1>6 DEF Quotas, LeftOf
<1>16. \A i \in Item : items'[i] = None => history'[i] = << >>
  BY <1>2, <1>3, <1>4, <1>5 DEF Rows
<1> QED
  BY <1>2, <1>3, <1>4, <1>6, <1>7, <1>12, <1>13, <1>14, <1>15, <1>16, CatalogStep DEF TypeOK

LEMMA CreateProductShop ==
  ASSUME Inv, NEW t \in Txn, createProduct(t)
  PROVE  ShopInv'
<1>1. PICK i \in Item, price \in Costs, cost \in Costs, n \in Quantity \cup {0} :
        CreateProduct(t, i, price, cost, n)
  BY DEF createProduct
<1>2. price \in Nat /\ cost \in Nat /\ n \in Nat /\ cost # None
  BY StoreAssumption DEF Quantity
<1> PICK m : m = Movement("initial_stock", i, n)
  OBVIOUS
<1> PICK costs : costs = [m.cost EXCEPT ![i] = cost]
  OBVIOUS
<1> PICK q : q = [m EXCEPT !.cost = costs]
  OBVIOUS
<1> PICK s : s = IF n = 0 THEN Idle ELSE q
  OBVIOUS
<1> PICK row : row = NewRow(price, cost)
  OBVIOUS
<1>3. Moving(m, i) /\ DOMAIN m = Fields /\ m.cost = Nothing
  BY <1>2, MovementMoving
<1>4. /\ tx' = [tx EXCEPT ![t] = s] /\ tx[t] = Idle /\ locks' = locks /\ margin' = margin
      /\ items[i] = None /\ items' = [items EXCEPT ![i] = row]
      /\ balance' = balance /\ lots' = lots /\ moves' = moves
      /\ history' = history /\ promo' = promo /\ carts' = carts /\ orders' = orders
  BY <1>1, <1>2 DEF CreateProduct, Begin, stock, sales
<1>5. TypeOK /\ Rows /\ PricesChain /\ Quotas
  BY DEF Inv, ShopInv
<1>6. /\ row \in ItemRow /\ row.left = 0 /\ row.left <= row.total /\ Valid(row)
  <2>1. row = [price |-> RoundSalePriceCents(price), cost |-> cost, active |-> TRUE,
          margin |-> margin, promo |-> FALSE, promoMargin |-> None, total |-> 0, left |-> 0]
    BY DEF NewRow
  <2>2. RoundSalePriceCents(price) \in Nat /\ margin \in Int
    BY <1>2, <1>5, RoundNat DEF TypeOK
  <2> QED
    BY <1>2, <2>1, <2>2 DEF ItemRow, Valid
<1>7. row # None
  BY <1>6, StoreAssumption
<1>8. /\ items' \in [Item -> ItemRow \cup {None}] /\ items'[i] = row
      /\ \A j \in Item : j # i => items'[j] = items[j]
  BY <1>4, <1>5, <1>6 DEF TypeOK
<1>9. \A j : j \in Exists' <=> j = i \/ j \in Exists
  BY <1>4, <1>7, <1>8 DEF Exists
<1>10. i \notin Exists
  BY <1>4 DEF Exists
<1>11. AtWork(t)' /\ tx'[t] = s
  <2>1. tx'[t] = s
    BY <1>4 DEF Inv, StoreInv, TablesOK
  <2>2. CASE n = 0
    <3>1. s = Idle
      BY <2>2
    <3>2. \A j \in Exists : items'[j] # None
      BY <1>9 DEF Exists
    <3> QED
      BY <1>4, <2>1, <3>1, <3>2, IdleLight, LightKept, LightAtWork
  <2>3. CASE n # 0
    <3>1. s = q
      BY <2>3
    <3>2. costs \in [Item -> Nat]
      BY <1>2, <1>3, NothingZero
    <3>3. /\ q.op = m.op /\ q.pc = m.pc /\ q.todo = m.todo /\ q.again = m.again /\ q.item = m.item
          /\ q.n = m.n /\ q.delta = m.delta /\ q.left = m.left /\ q.promo = m.promo
          /\ q.prev = m.prev /\ q.cost = costs /\ q.lots = m.lots
      BY <1>3 DEF Fields
    <3>4. Moving(q, i)
      BY <1>3, <3>2, <3>3 DEF Moving
    <3> QED
      BY <1>7, <1>8, <2>1, <3>1, <3>4, MovingAtWork
  <2> QED
    BY <2>1, <2>2, <2>3
<1>12. MayLock(t)' /\ LocksStep(t)
  BY <1>4, IdleNotLocking, NoLocks, Unmoved DEF Inv
<1>13. PricesChain'
  <2>1. history[i] = << >>
    BY <1>4, <1>5 DEF Rows
  <2> QED
    BY <1>4, <1>5, <1>8, <2>1 DEF PricesChain
<1>14. Quotas'
  <2> SUFFICES ASSUME NEW j \in Item
               PROVE  promo[j].sold + LeftOf(j)' <= promo[j].granted + promo[j].restored
    BY <1>4 DEF Quotas
  <2>1. promo[j].sold + LeftOf(j) <= promo[j].granted + promo[j].restored
    BY <1>5 DEF Quotas
  <2>2. LeftOf(j)' = LeftOf(j)
    BY <1>6, <1>8, <1>9, <1>10 DEF LeftOf
  <2> QED
    BY <2>1, <2>2
<1>15. \A j \in Item : items'[j] = None => history'[j] = << >>
  BY <1>4, <1>5, <1>7, <1>8 DEF Rows
<1>16. \A j \in Exists' : items'[j].left <= items'[j].total /\ Valid(items'[j])
  <2>1. \A j \in Exists : j # i /\ items'[j] = items[j]
    BY <1>8, <1>10 DEF Exists
  <2> QED
    BY <1>5, <1>6, <1>8, <1>9, <2>1 DEF TypeOK
<1>17. \A j \in Exists : items'[j] # None /\ items'[j] = items[j]
  BY <1>8, <1>9, <1>10 DEF Exists
<1> QED
  BY <1>4, <1>5, <1>8, <1>11, <1>12, <1>13, <1>14, <1>15, <1>16, <1>17, CatalogStep DEF TypeOK



-------------------------------------------------------------------------------
(* A checkout up to its stock.                                               *)

LEMMA ReadCartShop ==
  ASSUME Inv, NEW t \in Txn, ReadCart(t)
  PROVE  ShopInv'
<1> PICK r : r = tx[t]
  OBVIOUS
<1> PICK have : have = carts[r.cart].items
  OBVIOUS
<1>0. PICK delta, todo : /\ delta = [i \in Item |-> - have[i]]
                         /\ todo = {i \in Item : have[i] > 0}
  OBVIOUS
<1> DEFINE s == [r EXCEPT !.pc = "price", !.delta = delta, !.todo = todo]
<1>1. /\ tx' = [tx EXCEPT ![t] = s] /\ locks' = locks /\ r.pc = "cart" /\ r.op = "checkout"
      /\ items' = items /\ balance' = balance /\ lots' = lots /\ moves' = moves
      /\ history' = history /\ promo' = promo /\ margin' = margin
      /\ carts' = carts /\ orders' = orders
  BY <1>0 DEF ReadCart, stock, sales, catalog
<1>2. /\ DOMAIN r = Fields /\ Carried(r) /\ CartRead(r) /\ Priced(t) /\ OrderTaken(t)
  BY OwnWork
<1>3. /\ s.todo = todo /\ s.again = r.again /\ s.item = r.item /\ s.n = r.n
      /\ s.delta = delta /\ s.left = r.left /\ s.promo = r.promo /\ s.prev = r.prev
      /\ s.cost = r.cost /\ s.lots = r.lots /\ s.op = "checkout" /\ s.pc = "price"
      /\ s.key = r.key
  BY <1>1, <1>2 DEF Fields
<1> HIDE DEF s
<1>4. have \in [Item -> Nat] /\ r.cart \in Cart /\ carts[r.cart] \in CartRow
  BY <1>1, <1>2 DEF CartRead, CartRow
<1>5. \A i \in Item : have[i] > 0 => i \in Exists
  BY <1>4 DEF Inv, ShopInv, Rows
<1>6. /\ delta \in [Item -> Int]
      /\ \A i \in Item : delta[i] # 0 => i \in Exists /\ i \in todo
      /\ todo \subseteq Exists
  <2>1. \A i \in Item : have[i] \in Nat /\ delta[i] = - have[i]
    BY <1>0, <1>4
  <2>2. \A i \in Item : delta[i] # 0 => have[i] > 0
    BY <2>1
  <2> QED
    BY <1>0, <1>5, <2>1, <2>2
<1>7. Exists' = Exists /\ tx'[t] = s
  <2>1. Exists' = Exists
    BY <1>1 DEF Exists
  <2> QED
    BY <1>1, <2>1 DEF Inv, StoreInv, TablesOK
<1>8. Carried(s)'
  BY <1>2, <1>3, <1>6, <1>7 DEF Carried
<1>9. RowRead(s)' /\ CartRead(s)' /\ PriceRead(t)' /\ LotsTaken(t)'
  BY <1>3, <1>7 DEF RowRead, CartRead, PriceRead, LotsTaken, ForItem, StockPc
<1>10. Priced(t)'
  <2>1. PricedLines(s) = {}
    BY <1>3, <1>6 DEF PricedLines, Lines
  <2>2. \A i \in Item : r.promo[i] = 0
    BY <1>1, <1>2 DEF Priced, PricedLines
  <2> QED
    BY <1>3, <1>7, <2>1, <2>2 DEF Priced
<1>11. OrderTaken(t)'
  BY <1>1, <1>2, <1>3, <1>7 DEF OrderTaken, StockPc
<1>12. AtWork(t)'
  BY <1>7, <1>8, <1>9, <1>10, <1>11 DEF AtWork
<1>13. MayLock(t)'
  BY <1>3, <1>7 DEF MayLock, Locking
<1> QED
  BY <1>1, <1>12, <1>13, Unmoved, CartsStay, Quiet DEF Inv

LEMMA Opposite == ASSUME NEW d \in Int PROVE - d \in Int /\ - d = 0 - d
OBVIOUS

\* The price of a line, whatever the quota, the average and the margin are.
LEMMA LinePriced ==
  ASSUME NEW row \in ItemRow, NEW left \in Nat, NEW s \in Seq(Lot), NEW quantity \in Nat
  PROVE  LineTotal(row, left, AverageCost(s), quantity, CollabMargin) \in Nat
<1> PICK average, m : average = AverageCost(s) /\ m = CollabMargin
  OBVIOUS
<1>1. average \in Nat /\ m \in Percent
  BY AverageNat, StoreAssumption DEF Percent
<1>2. LineTotal(row, left, average, quantity, m) \in Nat
  BY <1>1, LineNat, Zenon
<1> QED
  BY <1>2

LEMMA PriceLineShop ==
  ASSUME Inv, NEW t \in Txn, NEW i \in Item, PriceLine(t, i)
  PROVE  ShopInv'
<1> PICK r : r = tx[t]
  OBVIOUS
<1> PICK row, quantity : row = items[i] /\ quantity = - r.delta[i]
  OBVIOUS
<1> PICK n : n = r.n + LineTotal(row, row.left, AverageCost(lots[i]), quantity, CollabMargin)
  OBVIOUS
<1> PICK units : units = PromoUnits(row, row.left, quantity)
  OBVIOUS
<1>0. PICK todo, promo_, left_, pc :
        /\ todo = r.todo \ {i}
        /\ promo_ = [r.promo EXCEPT ![i] = units]
        /\ left_ = [r.left EXCEPT ![i] = row.left]
        /\ pc = IF r.todo = {i} THEN "order" ELSE "price"
  OBVIOUS
<1> DEFINE s == [r EXCEPT !.todo = todo, !.n = n, !.promo = promo_, !.left = left_, !.pc = pc]
<1>1. /\ tx' = [tx EXCEPT ![t] = s] /\ locks' = LockItem(t, i) /\ r.pc = "price" /\ i \in r.todo
      /\ CanLock(t, <<"sku", i>>, "X") /\ CanLock(t, <<"product", i>>, "X")
      /\ items' = items /\ balance' = balance /\ lots' = lots /\ moves' = moves
      /\ history' = history /\ promo' = promo /\ margin' = margin
      /\ carts' = carts /\ orders' = orders
  BY <1>0 DEF PriceLine, stock, sales, catalog
<1>2. /\ DOMAIN r = Fields /\ Carried(r) /\ Priced(t) /\ OrderTaken(t)
  BY OwnWork
<1>3. /\ s.todo = todo /\ s.again = r.again /\ s.item = r.item /\ s.n = n
      /\ s.delta = r.delta /\ s.left = left_ /\ s.promo = promo_ /\ s.prev = r.prev
      /\ s.cost = r.cost /\ s.lots = r.lots /\ s.op = r.op /\ s.pc = pc /\ s.key = r.key
  BY <1>2 DEF Fields
<1> HIDE DEF s
<1>4. r.op = "checkout" /\ pc \in {"price", "order"}
  BY <1>0, <1>1, <1>2 DEF OrderTaken
<1>5. quantity \in Nat /\ (r.delta[i] = 0 => quantity = 0)
  <2> PICK d : d = r.delta[i]
    OBVIOUS
  <2>1. d \in Int /\ d <= 0
    <3>1. RequestOK(r)
      BY OwnRequest DEF Inv
    <3>2. r.delta \in [Item -> Int] /\ \A j \in Item : r.delta[j] <= 0
      BY <1>4, <3>1 DEF RequestOK
    <3> QED
      BY <3>2
  <2>2. - d \in Nat /\ (d = 0 => - d = 0)
    BY <2>1, Opposite
  <2> QED
    BY <2>2
<1>6. i \in Exists /\ row \in ItemRow /\ row.left \in Nat
  <2>1. i \in Exists
    BY SMTT(30), <1>1, <1>2 DEF Carried
  <2>2. items[i] \in ItemRow /\ items[i].left \in Nat
    BY <2>1, ItemAt
  <2> QED
    BY <2>1, <2>2
<1>7. n \in Nat
  <2>1. lots[i] \in Seq(Lot)
    BY DEF Inv, ShopInv, TypeOK
  <2>4. LineTotal(row, row.left, AverageCost(lots[i]), quantity, CollabMargin) \in Nat
    BY <1>5, <1>6, <2>1, LinePriced
  <2>3. r.n \in Nat
    BY <1>2 DEF Carried
  <2> QED
    BY <2>3, <2>4
<1>8. units \in Nat /\ units <= quantity /\ units <= row.left
  BY <1>5, <1>6, PromoBounds
<1>9. /\ promo_ \in [Item -> Nat] /\ left_ \in [Item -> Nat]
      /\ promo_[i] = units /\ left_[i] = row.left
      /\ \A j \in Item : j # i => promo_[j] = r.promo[j] /\ left_[j] = r.left[j]
  BY <1>0, <1>2, <1>6, <1>8 DEF Carried
<1>10. Exists' = Exists /\ tx'[t] = s
  <2>1. Exists' = Exists
    BY <1>1 DEF Exists
  <2> QED
    BY <1>1, <2>1 DEF Inv, StoreInv, TablesOK
<1>11. Carried(s)'
  <2>1. todo \subseteq Exists
    BY <1>0, <1>2 DEF Carried
  <2> QED
    BY ZenonT(40), <1>2, <1>3, <1>7, <1>9, <1>10, <2>1 DEF Carried
<1>12. RowRead(s)' /\ CartRead(s)' /\ PriceRead(t)' /\ LotsTaken(t)' /\ OrderTaken(t)'
  BY <1>2, <1>3, <1>4, <1>10 DEF RowRead, CartRead, PriceRead, LotsTaken, OrderTaken, ForItem, StockPc
<1>13. LocksStep(t) /\ Locked(t, "product", i)' /\ \A j : Locked(t, "product", j) => Locked(t, "product", j)'
  <2>0. PICK S : S = {[row |-> <<table, i>>, tx |-> t, mode |-> "X"] : table \in {"sku", "product"}}
    OBVIOUS
  <2>1. locks' = locks \cup S
    BY <1>1, <2>0 DEF LockItem
  <2>2. \A l \in S : l.tx = t /\ CanLock(t, l.row, l.mode)
    BY <1>1, <2>0
  <2>3. LocksStep(t)
    BY <2>1, <2>2, Added DEF Inv
  <2>4. [row |-> <<"product", i>>, tx |-> t, mode |-> "X"] \in S
    BY <2>0
  <2> QED
    BY <2>1, <2>3, <2>4 DEF Locked, Holds
<1>14. Priced(t)'
  <2>1. \A j \in Item : j \in PricedLines(r) <=> j \in Lines(r) /\ j \notin r.todo
    BY <1>1 DEF PricedLines
  <2>2. \A j \in Item : j \in PricedLines(s) <=> j \in Lines(r) /\ j \notin todo
    BY <1>0, <1>1, <1>3, <1>4 DEF PricedLines, Lines
  <2>3. \A j \in PricedLines(r) \cup PricedLines(s) : j \in Item
    BY DEF PricedLines, Lines
  <2>4. /\ \A j \in PricedLines(r) : Locked(t, "product", j) /\ r.left[j] = items[j].left
                                     /\ r.promo[j] <= r.left[j]
        /\ \A j \in Item \ PricedLines(r) : r.promo[j] = 0
    BY <1>2, <1>4 DEF Priced
  <2>5. ASSUME NEW j \in PricedLines(s)
        PROVE  Locked(t, "product", j)' /\ left_[j] = items'[j].left /\ promo_[j] <= left_[j]
    <3>1. CASE j = i
      BY <1>1, <1>8, <1>9, <1>13, <3>1
    <3>2. CASE j # i
      BY <1>0, <1>1, <1>9, <1>13, <2>1, <2>2, <2>3, <2>4, <3>2
    <3> QED
      BY <3>1, <3>2
  <2>6. ASSUME NEW j \in Item \ PricedLines(s) PROVE promo_[j] = 0
    <3>1. CASE j = i
      <4>1. r.delta[i] = 0
        BY <1>0, <2>2, <2>6, <3>1 DEF Lines
      <4>2. quantity = 0
        BY <1>5, <4>1
      <4> QED
        BY <1>8, <1>9, <3>1, <4>2
    <3>2. CASE j # i
      BY <1>0, <1>9, <2>1, <2>2, <2>4, <2>6, <3>2
    <3> QED
      BY <3>1, <3>2
  <2> QED
    BY <1>3, <1>10, <2>5, <2>6 DEF Priced
<1>15. AtWork(t)'
  BY <1>10, <1>11, <1>12, <1>14 DEF AtWork
<1>16. MayLock(t)'
  BY <1>3, <1>4, <1>10 DEF MayLock, Locking
<1> QED
  BY <1>1, <1>13, <1>15, <1>16, CartsStay, Quiet



LEMMA InsertOrderShop ==
  ASSUME Inv, NEW t \in Txn, InsertOrder(t)
  PROVE  ShopInv'
<1> PICK r : r = tx[t]
  OBVIOUS
<1>0. PICK todo : todo = Lines(r)
  OBVIOUS
<1> DEFINE s == [r EXCEPT !.pc = "stock", !.todo = todo]
<1>1. /\ tx' = [tx EXCEPT ![t] = s] /\ r.pc = "order"
      /\ CanLock(t, <<"order", r.key>>, "X") /\ locks' = WithLock(t, <<"order", r.key>>, "X")
      /\ orders[r.key] = None
      /\ items' = items /\ balance' = balance /\ lots' = lots /\ moves' = moves
      /\ history' = history /\ promo' = promo /\ margin' = margin
      /\ carts' = carts /\ orders' = orders
  BY <1>0 DEF InsertOrder, stock, sales, catalog
<1>2. /\ DOMAIN r = Fields /\ Carried(r) /\ Priced(t) /\ OrderTaken(t)
  BY OwnWork
<1>3. /\ s.todo = todo /\ s.again = r.again /\ s.item = r.item /\ s.n = r.n
      /\ s.delta = r.delta /\ s.left = r.left /\ s.promo = r.promo /\ s.prev = r.prev
      /\ s.cost = r.cost /\ s.lots = r.lots /\ s.op = r.op /\ s.pc = "stock" /\ s.key = r.key
  BY <1>2 DEF Fields
<1> HIDE DEF s
<1>4. r.op = "checkout" /\ r.key \in Key
  BY <1>1, <1>2 DEF OrderTaken
<1>5. Exists' = Exists /\ tx'[t] = s
  <2>1. Exists' = Exists
    BY <1>1 DEF Exists
  <2> QED
    BY <1>1, <2>1 DEF Inv, StoreInv, TablesOK
<1>6. todo \subseteq Exists
  BY <1>0, <1>2 DEF Lines, Carried
<1>7. Carried(s)'
  BY <1>2, <1>3, <1>5, <1>6 DEF Carried
<1>8. LocksStep(t) /\ Locked(t, "order", r.key)' /\ \A j : Locked(t, "product", j) => Locked(t, "product", j)'
  <2>1. LocksStep(t) /\ Locked(t, "order", r.key)'
    BY <1>1, AddedOne DEF Inv, Locked
  <2> QED
    BY <1>1, <2>1 DEF Locked, Holds, WithLock
<1>9. RowRead(s)' /\ CartRead(s)' /\ PriceRead(t)'
  BY <1>3, <1>4, <1>5 DEF RowRead, CartRead, PriceRead, ForItem
<1>10. Priced(t)'
  <2>1. PricedLines(r) = Lines(r) /\ PricedLines(s) = Lines(s)
    BY <1>1, <1>3 DEF PricedLines
  <2>2. Lines(s) = Lines(r)
    BY <1>3 DEF Lines
  <2> QED
    BY <1>1, <1>2, <1>3, <1>4, <1>5, <1>8, <2>1, <2>2 DEF Priced
<1>11. LotsTaken(t)'
  <2>1. \A j \in Item : s.delta[j] < 0 => j \in s.todo
    BY <1>0, <1>2, <1>3 DEF Lines, Carried
  <2> QED
    BY <1>3, <1>5, <2>1 DEF LotsTaken
<1>12. OrderTaken(t)'
  BY <1>1, <1>3, <1>4, <1>5, <1>8 DEF OrderTaken, StockPc
<1>13. AtWork(t)'
  BY <1>5, <1>7, <1>9, <1>10, <1>11, <1>12 DEF AtWork
<1>14. MayLock(t)'
  BY <1>3, <1>5 DEF MayLock, Locking, StockPc
<1> QED
  BY <1>1, <1>8, <1>13, <1>14, CartsStay, Quiet

-------------------------------------------------------------------------------
(* The stock of a request.                                                   *)

\* What a request has locked of products and orders it keeps while it takes stock.
LEMMA StockKept ==
  ASSUME Inv, NEW t \in Txn, NEW r, r = tx[t], NEW s, tx'[t] = s,
         r.pc \in StockPc, s.pc \in StockPc, s.op = r.op, s.key = r.key,
         s.delta = r.delta, s.left = r.left, s.promo = r.promo,
         \A l \in locks : l \in locks', items' = items, orders' = orders
  PROVE  /\ PriceRead(t)' /\ Priced(t)' /\ OrderTaken(t)' /\ CartRead(s)'
         /\ Exists' = Exists /\ MayLock(t)'
<1>1. Priced(t) /\ OrderTaken(t)
  BY OwnWork
<1>2. PriceRead(t)' /\ CartRead(s)'
  BY DEF PriceRead, CartRead, StockPc
<1>3. \A table, x : Locked(t, table, x) => Locked(t, table, x)'
  BY DEF Locked, Holds
<1>4. PricedLines(r) = Lines(r) /\ PricedLines(s) = Lines(s)
  BY DEF PricedLines, StockPc
<1>5. Lines(s) = Lines(r)
  BY DEF Lines
<1>6. Priced(t)'
  BY <1>1, <1>3, <1>4, <1>5 DEF Priced
<1>7. OrderTaken(t)'
  BY <1>1, <1>3 DEF OrderTaken, StockPc
<1>8. Exists' = Exists
  BY DEF Exists
<1>9. MayLock(t)'
  BY DEF MayLock, Locking
<1> QED
  BY <1>2, <1>6, <1>7, <1>8, <1>9

LEMMA TakeLotsShop ==
  ASSUME Inv, NEW t \in Txn, NEW i \in Item, TakeLots(t, i)
  PROVE  ShopInv'
<1> PICK r : r = tx[t]
  OBVIOUS
<1>0. PICK lots_ : lots_ = [r.lots EXCEPT ![i] = lots[i]]
  OBVIOUS
<1> DEFINE s == [r EXCEPT !.pc = "balance", !.item = i, !.lots = lots_]
<1>1. /\ tx' = [tx EXCEPT ![t] = s] /\ r.pc = "stock" /\ i \in r.todo
      /\ CanLock(t, <<"lots", i>>, "X") /\ locks' = WithLock(t, <<"lots", i>>, "X")
      /\ Units(lots[i]) >= - r.delta[i]
      /\ items' = items /\ balance' = balance /\ lots' = lots /\ moves' = moves
      /\ history' = history /\ promo' = promo /\ margin' = margin
      /\ carts' = carts /\ orders' = orders
  BY <1>0 DEF TakeLots, stock, sales, catalog
<1>2. /\ DOMAIN r = Fields /\ Carried(r) /\ LotsTaken(t)
  BY OwnWork
<1>3. /\ s.todo = r.todo /\ s.again = r.again /\ s.item = i /\ s.n = r.n
      /\ s.delta = r.delta /\ s.left = r.left /\ s.promo = r.promo /\ s.prev = r.prev
      /\ s.cost = r.cost /\ s.lots = lots_ /\ s.op = r.op /\ s.pc = "balance" /\ s.key = r.key
  BY <1>2 DEF Fields
<1> HIDE DEF s
<1>4. tx'[t] = s
  BY <1>1 DEF Inv, StoreInv, TablesOK
<1>5. LocksStep(t) /\ Locked(t, "lots", i)'
  BY <1>1, AddedOne DEF Inv, Locked
<1>6. \A l \in locks : l \in locks'
  BY <1>1 DEF WithLock
<1>7. /\ PriceRead(t)' /\ Priced(t)' /\ OrderTaken(t)' /\ CartRead(s)'
      /\ Exists' = Exists /\ MayLock(t)'
  BY <1>1, <1>3, <1>4, <1>6, StockKept DEF StockPc
<1>8. /\ lots[i] \in Seq(Lot) /\ lots_ \in [Item -> Seq(Lot)] /\ lots_[i] = lots[i]
      /\ \A j \in Item : j # i => lots_[j] = r.lots[j]
  <2>1. lots[i] \in Seq(Lot)
    BY DEF Inv, ShopInv, TypeOK
  <2>2. r.lots \in [Item -> Seq(Lot)]
    BY <1>2 DEF Carried
  <2> HIDE <1>0
  <2> QED
    BY <1>0, <2>1, <2>2
<1>9. i \in Exists
  BY <1>1, <1>2 DEF Carried
<1>10. Carried(s)'
  BY <1>2, <1>3, <1>7, <1>8, <1>9 DEF Carried
<1>11. RowRead(s)'
  BY <1>3, <1>7, <1>9 DEF RowRead
<1>12. LotsTaken(t)'
  <2> SUFFICES ASSUME NEW j \in Item, r.delta[j] < 0, j \in r.todo => i = j
               PROVE  Locked(t, "lots", j)' /\ Begins(lots_[j], lots[j])
                      /\ Units(lots_[j]) >= - r.delta[j]
    BY <1>1, <1>3, <1>4 DEF LotsTaken
  <2>1. CASE j = i
    <3>1. Begins(lots[i], lots[i])
      BY <1>8 DEF Begins
    <3> QED
      BY <1>1, <1>5, <1>8, <2>1, <3>1
  <2>2. CASE j # i
    <3>1. /\ Locked(t, "lots", j) /\ Begins(r.lots[j], lots[j])
          /\ Units(r.lots[j]) >= - r.delta[j]
      BY <1>1, <1>2, <2>2 DEF LotsTaken, StockPc
    <3>2. Locked(t, "lots", j)'
      BY <1>6, <3>1 DEF Locked, Holds
    <3> QED
      BY <1>8, <2>2, <3>1, <3>2
  <2> QED
    BY <2>1, <2>2
<1>13. AtWork(t)'
  BY <1>4, <1>7, <1>10, <1>11, <1>12 DEF AtWork
<1> QED
  BY <1>1, <1>5, <1>7, <1>13, CartsStay, Quiet



LEMMA TakeBalanceShop ==
  ASSUME Inv, NEW t \in Txn, NEW i \in Item, TakeBalance(t, i)
  PROVE  ShopInv'
<1> PICK r : r = tx[t]
  OBVIOUS
<1> PICK mode : mode = IF r.op = "entry" THEN "X" ELSE "S"
  OBVIOUS
<1>0. PICK todo, prev_, cost_, pc :
        /\ todo = r.todo \ {i}
        /\ prev_ = [r.prev EXCEPT ![i] = Have(i)]
        /\ cost_ = [r.cost EXCEPT ![i] = UnitCost(r, i)]
        /\ pc = IF r.todo = {i} THEN "commit" ELSE "stock"
  OBVIOUS
<1> DEFINE s == [r EXCEPT !.todo = todo, !.prev = prev_, !.cost = cost_, !.pc = pc]
<1>1. /\ tx' = [tx EXCEPT ![t] = s]
      /\ IF r.delta[i] < 0 THEN r.pc = "balance" /\ r.item = i ELSE r.pc = "stock" /\ i \in r.todo
      /\ CanLock(t, <<"balance", i>>, "X") /\ CanLock(t, <<"sku", i>>, mode)
      /\ locks' = WithLock(t, <<"balance", i>>, "X")
                    \cup {[row |-> <<"sku", i>>, tx |-> t, mode |-> mode]}
      /\ items' = items /\ balance' = balance /\ lots' = lots /\ moves' = moves
      /\ history' = history /\ promo' = promo /\ margin' = margin
      /\ carts' = carts /\ orders' = orders
  BY <1>0 DEF TakeBalance, stock, sales, catalog
<1>2. /\ DOMAIN r = Fields /\ Carried(r) /\ RowRead(r) /\ LotsTaken(t)
  BY OwnWork
<1>3. /\ s.todo = todo /\ s.again = r.again /\ s.item = r.item /\ s.n = r.n
      /\ s.delta = r.delta /\ s.left = r.left /\ s.promo = r.promo /\ s.prev = prev_
      /\ s.cost = cost_ /\ s.lots = r.lots /\ s.op = r.op /\ s.pc = pc /\ s.key = r.key
  BY <1>2 DEF Fields
<1> HIDE DEF s
<1>4. tx'[t] = s /\ r.pc \in StockPc /\ pc \in StockPc /\ pc # "balance"
  BY <1>0, <1>1 DEF Inv, StoreInv, TablesOK, StockPc
<1>5. LocksStep(t) /\ \A l \in locks : l \in locks'
  <2>0. PICK S : S = {[row |-> <<"balance", i>>, tx |-> t, mode |-> "X"],
                      [row |-> <<"sku", i>>, tx |-> t, mode |-> mode]}
    OBVIOUS
  <2>1. locks' = locks \cup S
    BY <1>1, <2>0 DEF WithLock
  <2>2. \A l \in S : l.tx = t /\ CanLock(t, l.row, l.mode)
    BY <1>1, <2>0
  <2> QED
    BY <2>1, <2>2, Added DEF Inv
<1>6. /\ PriceRead(t)' /\ Priced(t)' /\ OrderTaken(t)' /\ CartRead(s)'
      /\ Exists' = Exists /\ MayLock(t)'
  BY <1>1, <1>3, <1>4, <1>5, StockKept
<1>7. i \in Exists
  BY <1>1, <1>2 DEF Carried, RowRead, ForItem
<1>8. Have(i) \in Nat /\ UnitCost(r, i) \in Nat
  <2>1. Have(i) \in Nat
    BY DEF Have, Inv, ShopInv, TypeOK
  <2>2. AverageCost(lots[i]) \in Nat
    <3>1. lots[i] \in Seq(Lot)
      BY DEF Inv, ShopInv, TypeOK
    <3> QED
      BY <3>1, AverageNat
  <2>3. Fallback(i) \in Nat
    BY <1>7, ItemAt DEF Fallback
  <2>4. r.cost[i] \in Nat
    BY <1>2 DEF Carried
  <2> QED
    BY <2>1, <2>2, <2>3, <2>4 DEF UnitCost
<1>9. todo \subseteq Exists /\ prev_ \in [Item -> Nat] /\ cost_ \in [Item -> Nat]
  <2>1. r.prev \in [Item -> Nat] /\ r.cost \in [Item -> Nat] /\ r.todo \subseteq Exists
    BY <1>2 DEF Carried
  <2>2. todo \subseteq Exists
    BY <1>0, <2>1
  <2>3. prev_ \in [Item -> Nat]
    BY <1>0, <1>8, <2>1
  <2>4. cost_ \in [Item -> Nat]
    BY <1>0, <1>8, <2>1
  <2> QED
    BY <2>2, <2>3, <2>4
<1>10. Carried(s)'
  BY <1>2, <1>3, <1>6, <1>9 DEF Carried
<1>11. RowRead(s)'
  BY <1>2, <1>3, <1>4, <1>6 DEF RowRead, ForItem, StockPc
<1>12. LotsTaken(t)'
  <2> SUFFICES ASSUME NEW j \in Item, r.delta[j] < 0, j \notin todo
               PROVE  Locked(t, "lots", j)' /\ Begins(r.lots[j], lots[j])
                      /\ Units(r.lots[j]) >= - r.delta[j]
    BY <1>1, <1>3, <1>4 DEF LotsTaken
  <2>1. j \in r.todo => r.pc = "balance" /\ r.item = j
    BY <1>0, <1>1
  <2>2. /\ Locked(t, "lots", j) /\ Begins(r.lots[j], lots[j])
        /\ Units(r.lots[j]) >= - r.delta[j]
    BY <1>2, <1>4, <2>1 DEF LotsTaken
  <2>3. Locked(t, "lots", j)'
    BY <1>5, <2>2 DEF Locked, Holds
  <2> QED
    BY <2>2, <2>3
<1>13. AtWork(t)'
  BY <1>4, <1>6, <1>10, <1>11, <1>12 DEF AtWork
<1> QED
  BY <1>1, <1>5, <1>6, <1>13, CartsStay, Quiet

-------------------------------------------------------------------------------
(* The price of an item.                                                     *)

\* What remains to be repriced is taken up without anything locked.
LEMMA RecalcLight ==
  ASSUME NEW todo, NEW again, todo \subseteq Exists, again \subseteq Exists, NEW s,
         s = IF todo = {} THEN Idle
             ELSE [Request("price", "recalc") EXCEPT !.todo = todo, !.again = again]
  PROVE  Light(s)
<1> PICK r : r = Request("price", "recalc")
  OBVIOUS
<1> PICK q : q = [r EXCEPT !.todo = todo, !.again = again]
  OBVIOUS
<1>1. s = Idle \/ s = q
  OBVIOUS
<1>2. Blank(r) /\ Carried(r) /\ r.op = "price" /\ r.pc = "recalc"
  BY BlankRequest, BlankCarried
<1>3. /\ q.todo = todo /\ q.again = again /\ q.item = r.item /\ q.n = r.n
      /\ q.delta = r.delta /\ q.left = r.left /\ q.promo = r.promo /\ q.prev = r.prev
      /\ q.cost = r.cost /\ q.lots = r.lots /\ q.op = "price" /\ q.pc = "recalc"
  BY <1>2 DEF Blank, Fields
<1>4. Light(q)
  BY <1>2, <1>3 DEF Light, Carried, RowRead, CartRead, ForItem, Locking, StockPc
<1> QED
  BY <1>1, <1>4, IdleLight

LEMMA NextItemLight ==
  ASSUME NEW r, Carried(r), NEW i
  PROVE  Light(NextItem(r, i))
<1> PICK rest : rest = r.todo \ {i}
  OBVIOUS
<1> PICK todo : todo = IF rest = {} THEN r.again ELSE rest
  OBVIOUS
<1> PICK again : again = IF rest = {} THEN {} ELSE r.again
  OBVIOUS
<1>1. todo \subseteq Exists /\ again \subseteq Exists
  BY DEF Carried
<1>2. NextItem(r, i) = IF todo = {} THEN Idle
        ELSE [Request("price", "recalc") EXCEPT !.todo = todo, !.again = again]
  BY DEF NextItem
<1> QED
  BY <1>1, <1>2, RecalcLight

\* A session that is neither checking out nor cancelling.
LEMMA NeitherSale ==
  ASSUME Inv, NEW t \in Txn, NEW r, r = tx[t],
         r.pc \in {"recalc", "margin", "average", "lock_price", "set_price", "write_product",
                   "write_sku", "lots_cost"}
  PROVE  r.op # "checkout" /\ r.op # "cancel"
BY OwnWork DEF OrderTaken, StockPc

LEMMA RecalculateShop ==
  ASSUME Inv, NEW t \in Txn, NEW i \in Item, Recalculate(t, i)
  PROVE  ShopInv'
<1> PICK r : r = tx[t]
  OBVIOUS
<1>0. PICK n : n = items[i].price
  OBVIOUS
<1> DEFINE s == [r EXCEPT !.pc = "margin", !.item = i, !.n = n]
<1>1. /\ tx' = [tx EXCEPT ![t] = s] /\ r.pc = "recalc" /\ i \in r.todo /\ locks' = locks
      /\ items' = items /\ balance' = balance /\ lots' = lots /\ moves' = moves
      /\ history' = history /\ promo' = promo /\ margin' = margin
      /\ carts' = carts /\ orders' = orders
  BY <1>0 DEF Recalculate, stock, sales, catalog
<1>2. DOMAIN r = Fields /\ Carried(r)
  BY OwnWork
<1>3. /\ s.todo = r.todo /\ s.again = r.again /\ s.item = i /\ s.n = n /\ s.row = r.row
      /\ s.delta = r.delta /\ s.left = r.left /\ s.promo = r.promo /\ s.prev = r.prev
      /\ s.cost = r.cost /\ s.lots = r.lots /\ s.op = r.op /\ s.pc = "margin"
  BY <1>2 DEF Fields
<1> HIDE DEF s
<1>4. i \in Exists
  BY <1>1, <1>2 DEF Carried
<1>5. n \in Nat
  <2> PICK product : product = items[i]
    BY SMTT(30)
  <2>1. product.price \in Nat
    BY <1>4, ItemAt
  <2> QED
    BY <1>0, <2>1
<1>6. r.op # "checkout" /\ r.op # "cancel"
  BY <1>1, NeitherSale
<1>7. Carried(s)
  BY <1>2, <1>3, <1>4, <1>5 DEF Carried
<1>8. RowRead(s) /\ CartRead(s)
  BY <1>3, <1>4, <1>5 DEF RowRead, CartRead
<1>9. Light(s)
  BY <1>3, <1>6, <1>7, <1>8 DEF Light, Locking, StockPc
<1>10. tx[t].pc \notin Locking
  BY <1>1 DEF Locking, StockPc
<1> QED
  BY <1>1, <1>9, <1>10, LightStep

LEMMA ReadMarginShop ==
  ASSUME Inv, NEW t \in Txn, ReadMargin(t)
  PROVE  ShopInv'
<1> PICK r : r = tx[t]
  OBVIOUS
<1>0. PICK i, row : i = r.item /\ row = EffectiveMarginPercent(items[i])
  OBVIOUS
<1> DEFINE s == [r EXCEPT !.pc = "average", !.row = row]
<1>1. /\ tx' = [tx EXCEPT ![t] = s] /\ r.pc = "margin" /\ locks' = locks
      /\ items' = items /\ balance' = balance /\ lots' = lots /\ moves' = moves
      /\ history' = history /\ promo' = promo /\ margin' = margin
      /\ carts' = carts /\ orders' = orders
  BY <1>0 DEF ReadMargin, stock, sales, catalog
<1>2. DOMAIN r = Fields /\ Carried(r) /\ RowRead(r)
  BY OwnWork
<1>3. /\ s.todo = r.todo /\ s.again = r.again /\ s.item = i /\ s.n = r.n /\ s.row = row
      /\ s.delta = r.delta /\ s.left = r.left /\ s.promo = r.promo /\ s.prev = r.prev
      /\ s.cost = r.cost /\ s.lots = r.lots /\ s.op = r.op /\ s.pc = "average"
  BY <1>0, <1>2 DEF Fields
<1> HIDE DEF s
<1>4. i \in Exists
  BY <1>0, <1>1, <1>2 DEF RowRead, ForItem
<1>5. row \in Int
  <2> PICK product : product = items[i]
    BY SMTT(30)
  <2>1. /\ product.margin \in Int
        /\ product.promoMargin \in (0 .. 1000) \cup {None}
    BY <1>4, ItemAt
  <2> PICK pm : pm = product.promoMargin
    OBVIOUS
  <2>3. pm # None => pm \in Int
    <3>1. pm \in 0 .. 1000 \/ pm = None
      BY <2>1, ZenonT(40)
    <3>2. \A x \in 0 .. 1000 : x \in Int
      OBVIOUS
    <3> QED
      BY <3>1, <3>2, ZenonT(40)
  <2>4. \/ EffectiveMarginPercent(product) = product.margin
        \/ EffectiveMarginPercent(product) = pm /\ pm # None
    BY Zenon DEF EffectiveMarginPercent
  <2>2. EffectiveMarginPercent(product) \in Int
    BY <2>1, <2>3, <2>4
  <2> QED
    BY <1>0, <2>1, <2>2
<1>6. r.op # "checkout" /\ r.op # "cancel"
  BY <1>1, NeitherSale
<1>7. Carried(s)
  BY <1>2, <1>3, <1>4, <1>5 DEF Carried
<1>8. RowRead(s) /\ CartRead(s)
  BY <1>3, <1>4, <1>5 DEF RowRead, CartRead
<1>9. Light(s)
  BY <1>3, <1>6, <1>7, <1>8 DEF Light, Locking, StockPc
<1>10. tx[t].pc \notin Locking
  BY <1>1 DEF Locking, StockPc
<1> QED
  BY <1>1, <1>9, <1>10, LightStep

LEMMA ReadAverageShop ==
  ASSUME Inv, NEW t \in Txn, ReadAverage(t)
  PROVE  ShopInv'
<1> PICK r : r = tx[t]
  OBVIOUS
<1>0. PICK price : price = SalePriceFromCost(AverageCost(lots[r.item]), r.row)
  OBVIOUS
<1> DEFINE q == [r EXCEPT !.pc = "lock_price", !.n = price]
<1> DEFINE s == IF price <= 0 \/ price = r.n THEN NextItem(r, r.item) ELSE q
<1>1. /\ tx' = [tx EXCEPT ![t] = s] /\ r.pc = "average" /\ locks' = locks
      /\ items' = items /\ balance' = balance /\ lots' = lots /\ moves' = moves
      /\ history' = history /\ promo' = promo /\ margin' = margin
      /\ carts' = carts /\ orders' = orders
  BY <1>0 DEF ReadAverage, stock, sales, catalog
<1>2. DOMAIN r = Fields /\ Carried(r) /\ RowRead(r)
  BY OwnWork
<1>3. /\ q.todo = r.todo /\ q.again = r.again /\ q.item = r.item /\ q.n = price
      /\ q.delta = r.delta /\ q.left = r.left /\ q.promo = r.promo /\ q.prev = r.prev
      /\ q.cost = r.cost /\ q.lots = r.lots /\ q.op = r.op /\ q.pc = "lock_price"
  BY <1>2 DEF Fields
<1> HIDE DEF q
<1>4. r.item \in Exists /\ r.item \in Item /\ r.row \in Int
  BY <1>1, <1>2 DEF RowRead, ForItem, Exists
<1>5. price \in Int
  <2> PICK average : average = AverageCost(lots[r.item])
    OBVIOUS
  <2>1. lots[r.item] \in Seq(Lot)
    BY <1>4 DEF Inv, ShopInv, TypeOK
  <2>2. average \in Nat
    BY <2>1, AverageNat
  <2> QED
    BY <1>0, <1>4, <2>2, SaleInt
<1>6. r.op # "checkout" /\ r.op # "cancel"
  BY <1>1, NeitherSale
<1>7. ASSUME ~(price <= 0) PROVE Light(q)
  <2>1. price \in Nat
    BY <1>5, <1>7
  <2>2. Carried(q)
    BY <1>2, <1>3, <2>1 DEF Carried
  <2>3. RowRead(q) /\ CartRead(q)
    BY <1>3, <1>4 DEF RowRead, CartRead
  <2> QED
    BY <1>3, <1>6, <2>2, <2>3 DEF Light, Locking, StockPc
<1>8. Light(NextItem(r, r.item))
  BY <1>2, NextItemLight
<1>9. Light(s)
  BY <1>7, <1>8
<1> HIDE DEF s
<1>10. tx[t].pc \notin Locking
  BY <1>1 DEF Locking, StockPc
<1> QED
  BY <1>1, <1>9, <1>10, LightStep

LEMMA LockPriceShop ==
  ASSUME Inv, NEW t \in Txn, LockPrice(t)
  PROVE  ShopInv'
<1> PICK r : r = tx[t]
  OBVIOUS
<1>0. PICK row : row = items[r.item].price
  OBVIOUS
<1> DEFINE s == [r EXCEPT !.pc = "set_price", !.row = row]
<1>1. /\ tx' = [tx EXCEPT ![t] = s] /\ r.pc = "lock_price"
      /\ CanLock(t, <<"sku", r.item>>, "X") /\ locks' = WithLock(t, <<"sku", r.item>>, "X")
      /\ items' = items /\ balance' = balance /\ lots' = lots /\ moves' = moves
      /\ history' = history /\ promo' = promo /\ margin' = margin
      /\ carts' = carts /\ orders' = orders
  BY <1>0 DEF LockPrice, stock, sales, catalog
<1>2. DOMAIN r = Fields /\ Carried(r) /\ RowRead(r)
  BY OwnWork
<1>3. /\ s.todo = r.todo /\ s.again = r.again /\ s.item = r.item /\ s.n = r.n /\ s.row = row
      /\ s.delta = r.delta /\ s.left = r.left /\ s.promo = r.promo /\ s.prev = r.prev
      /\ s.cost = r.cost /\ s.lots = r.lots /\ s.op = r.op /\ s.pc = "set_price"
  BY <1>2 DEF Fields
<1> HIDE DEF s
<1>4. r.item \in Exists
  BY <1>1, <1>2 DEF RowRead, ForItem
<1>5. r.op # "checkout" /\ r.op # "cancel"
  BY <1>1, NeitherSale
<1>6. Exists' = Exists /\ tx'[t] = s
  <2>1. Exists' = Exists
    BY <1>1 DEF Exists
  <2> QED
    BY <1>1, <2>1 DEF Inv, StoreInv, TablesOK
<1>7. LocksStep(t) /\ Locked(t, "sku", r.item)'
  BY <1>1, AddedOne DEF Inv, Locked
<1>8. Carried(s)'
  BY <1>2, <1>3, <1>6 DEF Carried
<1>9. RowRead(s)' /\ CartRead(s)'
  BY <1>3, <1>4, <1>6 DEF RowRead, CartRead
<1>10. PriceRead(t)'
  BY <1>0, <1>1, <1>3, <1>6, <1>7 DEF PriceRead
<1>11. Priced(t)' /\ LotsTaken(t)' /\ OrderTaken(t)'
  BY <1>3, <1>5, <1>6 DEF Priced, LotsTaken, OrderTaken, StockPc
<1>12. AtWork(t)'
  BY <1>6, <1>8, <1>9, <1>10, <1>11 DEF AtWork
<1>13. MayLock(t)'
  BY <1>3, <1>6 DEF MayLock, Locking
<1> QED
  BY <1>1, <1>7, <1>12, <1>13, CartsStay, Quiet

\* A transaction that ends has no locks left.
LEMMA NoneLeft ==
  ASSUME Inv, NEW t \in Txn, locks' = WithoutLocks(t)
  PROVE  LocksStep(t) /\ MayLock(t)'
BY Dropped DEF Inv, MayLock

LEMMA AbortShop ==
  ASSUME Inv, NEW t \in Txn, Abort(t)
  PROVE  ShopInv'
<1> PICK s : s = Idle
  OBVIOUS
<1>1. /\ tx' = [tx EXCEPT ![t] = s] /\ locks' = WithoutLocks(t)
      /\ items' = items /\ balance' = balance /\ lots' = lots /\ moves' = moves
      /\ history' = history /\ promo' = promo /\ margin' = margin
      /\ carts' = carts /\ orders' = orders
  BY DEF Abort, stock, sales, catalog
<1>2. tx'[t] = s
  BY <1>1 DEF Inv, StoreInv, TablesOK
<1>3. AtWork(t)'
  BY <1>1, <1>2, IdleLight, LightKept, LightAtWork DEF Exists
<1> QED
  BY <1>1, <1>3, NoneLeft, CartsStay, Quiet



\* What one session may lock or has locked, no other has locked.
LEMMA Exclusive ==
  ASSUME Inv, NEW t \in Txn, NEW u \in Txn \ {t}, NEW table, NEW x,
         CanLock(t, <<table, x>>, "X") \/ Locked(t, table, x)
  PROVE  ~Locked(u, table, x)
<1> SUFFICES ASSUME Locked(u, table, x) PROVE FALSE
  OBVIOUS
<1> PICK l : l = [row |-> <<table, x>>, tx |-> u, mode |-> "X"]
  OBVIOUS
<1>1. l \in locks /\ l.row = <<table, x>> /\ l.tx = u /\ l.mode = "X"
  BY DEF Locked, Holds
<1>2. ~CanLock(t, <<table, x>>, "X")
  BY <1>1 DEF CanLock
<1> PICK k : k = [row |-> <<table, x>>, tx |-> t, mode |-> "X"]
  OBVIOUS
<1>3. k \in locks /\ k.row = <<table, x>> /\ k.tx = t /\ k.mode = "X"
  BY <1>2 DEF Locked, Holds
<1> QED
  BY <1>1, <1>3 DEF Inv, ShopInv, MutexOK

Cost == Nat \cup {None}

\* A row with another price and another cost.
Repriced(old, price, cost) == [old EXCEPT !.price = price, !.cost = cost]

LEMMA RepricedRow ==
  ASSUME NEW old \in ItemRow, NEW price \in Nat, NEW cost \in Cost,
         NEW row, row = Repriced(old, price, cost)
  PROVE  /\ row \in ItemRow /\ row.left = old.left /\ row.total = old.total
         /\ row.promo = old.promo /\ row.promoMargin = old.promoMargin
         /\ row.price = price /\ row.cost = cost
<1>1. /\ row.left = old.left /\ row.total = old.total
      /\ row.promo = old.promo /\ row.promoMargin = old.promoMargin
      /\ row.price = price /\ row.cost = cost
  BY DEF ItemRow, Repriced
<1>2. row = [price |-> price, cost |-> cost, active |-> old.active, margin |-> old.margin,
             promo |-> old.promo, promoMargin |-> old.promoMargin, total |-> old.total,
             left |-> old.left]
  BY ZenonT(40) DEF ItemRow, Repriced
<1>3. row \in ItemRow
  BY <1>2 DEF ItemRow, Cost
<1> QED
  BY <1>1, <1>3

\* A step that writes one product with its SKU, and leaves the session light.
LEMMA RowStep ==
  ASSUME Inv, NEW t \in Txn, NEW s, tx' = [tx EXCEPT ![t] = s], Light(s),
         LocksStep(t), MayLock(t)',
         balance' = balance, lots' = lots, moves' = moves, orders' = orders, carts' = carts,
         NEW i \in Exists, NEW row \in ItemRow, items' = [items EXCEPT ![i] = row],
         row.left <= row.total, Valid(row),
         \A u \in Txn \ {t} : /\ Locked(u, "sku", i) => row.price = items[i].price
                              /\ Locked(u, "product", i) => row.left = items[i].left,
         history' \in [Item -> Seq([prev : Nat, new : Nat])],
         promo' \in [Item -> [granted : Nat, sold : Nat, restored : Nat]], margin' = margin,
         \A j \in Item : j # i => history'[j] = history[j] /\ promo'[j] = promo[j],
         promo'[i].sold + row.left <= promo'[i].granted + promo'[i].restored,
         \A n \in 2 .. Len(history'[i]) : history'[i][n].prev = history'[i][n - 1].new,
         history'[i] # <<>> => row.price = Last(history'[i]).new
  PROVE  ShopInv'
<1>1. TypeOK /\ Rows /\ Quotas /\ PricesChain
  BY DEF Inv, ShopInv
<1>2. i \in Item /\ row # None
  BY StoreAssumption DEF Exists
<1>3. /\ items' \in [Item -> ItemRow \cup {None}] /\ items'[i] = row
      /\ \A j \in Item : j # i => items'[j] = items[j]
  BY <1>1, <1>2 DEF TypeOK
<1>4. \A j \in Exists : j \in Item /\ items'[j] # None
  BY <1>2, <1>3 DEF Exists
<1>5. \A j \in Exists' : j \in Exists
  BY <1>3 DEF Exists
<1>6. AtWork(t)'
  <2>1. tx'[t] = s
    BY DEF Inv, StoreInv, TablesOK
  <2> QED
    BY <1>4, <2>1, LightKept, LightAtWork
<1>7. \A j \in Exists' : items'[j].left <= items'[j].total /\ Valid(items'[j])
  BY <1>1, <1>3, <1>4, <1>5 DEF TypeOK
<1>8. \A j \in Item : items'[j] = None => history'[j] = << >>
  BY <1>1, <1>2, <1>3 DEF Rows
<1>9. Quotas'
  <2> SUFFICES ASSUME NEW j \in Item
               PROVE  promo'[j].sold + LeftOf(j)' <= promo'[j].granted + promo'[j].restored
    BY DEF Quotas
  <2>1. CASE j = i
    BY <1>2, <1>3, <2>1 DEF LeftOf, Exists
  <2>2. CASE j # i
    <3>1. LeftOf(j)' = LeftOf(j)
      BY <1>3, <2>2 DEF LeftOf, Exists
    <3> QED
      BY <1>1, <2>2, <3>1 DEF Quotas
  <2> QED
    BY <2>1, <2>2
<1>10. PricesChain'
  <2> SUFFICES ASSUME NEW j \in Item
               PROVE  /\ \A n \in 2 .. Len(history'[j]) :
                           history'[j][n].prev = history'[j][n - 1].new
                      /\ history'[j] # << >> => items'[j].price = Last(history'[j]).new
    BY DEF PricesChain
  <2>1. CASE j = i
    BY <1>3, <2>1
  <2>2. CASE j # i
    <3>1. history'[j] = history[j] /\ items'[j] = items[j]
      BY <1>3, <2>2
    <3>2. /\ \A n \in 2 .. Len(history[j]) : history[j][n].prev = history[j][n - 1].new
          /\ history[j] # << >> => items[j].price = Last(history[j]).new
      BY <1>1 DEF PricesChain
    <3> QED
      BY <3>1, <3>2, Zenon
  <2> QED
    BY <2>1, <2>2
<1>11. \A u \in Txn \ {t}, j \in Exists :
         /\ Locked(u, "sku", j) => items'[j].price = items[j].price
         /\ Locked(u, "product", j) => items'[j].left = items[j].left
  BY SMTT(30), <1>3, <1>4
<1>12. margin' \in Nat
  BY <1>1 DEF TypeOK
<1> QED
  BY <1>3, <1>4, <1>6, <1>7, <1>8, <1>9, <1>10, <1>11, <1>12, CatalogStep

LEMMA SetPriceShop ==
  ASSUME Inv, NEW t \in Txn, SetPrice(t)
  PROVE  ShopInv'
<1> PICK r : r = tx[t]
  OBVIOUS
<1> PICK i : i = r.item
  OBVIOUS
<1> PICK s : s = NextItem(r, r.item)
  OBVIOUS
<1>0. PICK row, e, h : /\ row = [items[i] EXCEPT !.price = r.n]
                       /\ e = [prev |-> r.row, new |-> r.n]
                       /\ h = Append(history[i], e)
  OBVIOUS
<1>1. /\ tx' = [tx EXCEPT ![t] = s] /\ r.pc = "set_price" /\ locks' = WithoutLocks(t)
      /\ items' = [items EXCEPT ![i] = row] /\ history' = [history EXCEPT ![i] = h]
      /\ balance' = balance /\ lots' = lots /\ moves' = moves
      /\ promo' = promo /\ margin' = margin /\ carts' = carts /\ orders' = orders
  BY <1>0 DEF SetPrice, stock, sales
<1>2. Carried(r) /\ RowRead(r) /\ PriceRead(t)
  BY OwnWork
<1>3. i \in Exists /\ i \in Item
  BY <1>1, <1>2 DEF RowRead, ForItem, Exists
<1>4. Locked(t, "sku", i) /\ r.row = items[i].price /\ r.n \in Nat
  BY <1>1, <1>2 DEF PriceRead, Carried
<1>5. /\ row \in ItemRow /\ row.left = items[i].left /\ row.price = r.n
      /\ row.left <= row.total /\ Valid(row)
  <2> PICK old : old = items[i]
    OBVIOUS
  <2>1. old \in ItemRow /\ old.left <= old.total /\ Valid(old)
    BY <1>3, ItemAt
  <2> PICK n, cost : n = r.n /\ cost = old.cost
    BY SMTT(30)
  <2>2. row = Repriced(old, n, cost)
    BY ZenonT(40), <1>0, <2>1 DEF ItemRow, Repriced
  <2>4. n \in Nat /\ cost \in Cost
    BY <1>3, <1>4, ItemAt DEF Cost
  <2>3. /\ row \in ItemRow /\ row.left = old.left /\ row.total = old.total /\ row.promo = old.promo
        /\ row.promoMargin = old.promoMargin /\ row.price = n
    BY <2>1, <2>2, <2>4, RepricedRow
  <2> QED
    BY <2>1, <2>3 DEF Valid
<1>6. e \in [prev : Nat, new : Nat] /\ e.prev = items[i].price /\ e.new = r.n
  BY <1>0, <1>3, <1>4, ItemAt
<1> PICK old : old = history[i]
  OBVIOUS
<1>7. /\ old \in Seq([prev : Nat, new : Nat])
      /\ \A n \in 2 .. Len(old) : old[n].prev = old[n - 1].new
      /\ old # <<>> => items[i].price = Last(old).new
      /\ promo[i].sold + items[i].left <= promo[i].granted + promo[i].restored
  BY <1>3 DEF Inv, ShopInv, TypeOK, PricesChain, Quotas, LeftOf
<1>8. /\ h \in Seq([prev : Nat, new : Nat]) /\ Len(h) = Len(old) + 1 /\ h[Len(old) + 1] = e
      /\ \A n \in 1 .. Len(old) : h[n] = old[n]
  BY <1>0, <1>6, <1>7
<1>9. \A n \in 2 .. Len(h) : h[n].prev = h[n - 1].new
  <2> SUFFICES ASSUME NEW n \in 2 .. Len(h) PROVE h[n].prev = h[n - 1].new
    OBVIOUS
  <2>1. CASE n <= Len(old)
    <3>1. n \in 2 .. Len(old) /\ n \in 1 .. Len(old) /\ n - 1 \in 1 .. Len(old)
      BY SMTT(30), <1>7, <2>1
    <3> QED
      BY ZenonT(40), <1>7, <1>8, <3>1
  <2>2. CASE n = Len(old) + 1
    <3>1. Len(old) \in 1 .. Len(old) /\ old # <<>> /\ n - 1 = Len(old)
      BY <1>7, <2>2
    <3>2. h[n] = e /\ h[n - 1] = old[Len(old)]
      BY <1>8, <2>2, <3>1
    <3> QED
      BY <1>6, <1>7, <3>1, <3>2 DEF Last
  <2>3. Len(old) \in Nat /\ n \in 2 .. (Len(old) + 1)
    BY <1>7, <1>8
  <2>4. n <= Len(old) \/ n = Len(old) + 1
    BY <2>3
  <2> QED
    BY <2>1, <2>2, <2>4
<1>10. h # <<>> => row.price = Last(h).new
  BY <1>5, <1>6, <1>8 DEF Last
<1>11. /\ history' \in [Item -> Seq([prev : Nat, new : Nat])] /\ history'[i] = h
       /\ \A j \in Item : j # i => history'[j] = history[j]
  BY <1>1, <1>3, <1>8 DEF Inv, ShopInv, TypeOK
<1>12. \A u \in Txn \ {t} : /\ Locked(u, "sku", i) => row.price = items[i].price
                            /\ Locked(u, "product", i) => row.left = items[i].left
  BY <1>4, <1>5, Exclusive
<1>13. promo' \in [Item -> [granted : Nat, sold : Nat, restored : Nat]]
  BY <1>1 DEF Inv, ShopInv, TypeOK
<1>14. Light(s)
  BY <1>2, NextItemLight
<1>15. LocksStep(t) /\ MayLock(t)'
  BY <1>1, NoneLeft
<1>16. promo'[i].sold + row.left <= promo'[i].granted + promo'[i].restored
  BY <1>1, <1>5, <1>7
<1>17. /\ \A n \in 2 .. Len(history'[i]) : history'[i][n].prev = history'[i][n - 1].new
       /\ history'[i] # <<>> => row.price = Last(history'[i]).new
  BY <1>9, <1>10, <1>11
<1>18. \A j \in Item : j # i => history'[j] = history[j] /\ promo'[j] = promo[j]
  BY <1>1, <1>11
<1>19. /\ tx' = [tx EXCEPT ![t] = s] /\ items' = [items EXCEPT ![i] = row]
       /\ balance' = balance /\ lots' = lots /\ moves' = moves
       /\ margin' = margin /\ carts' = carts /\ orders' = orders
       /\ history' \in [Item -> Seq([prev : Nat, new : Nat])]
  BY <1>1, <1>11
<1> QED
  BY ZenonT(40), <1>3, <1>5, <1>12, <1>13, <1>14, <1>15, <1>16, <1>17, <1>18, <1>19, RowStep

\* What a write of a product does to the units of its promotion (PromoAfter).
Written(p, left, kept, new) ==
  [p EXCEPT !.granted = p.granted + (IF kept = 0 THEN new ELSE 0),
            !.restored = p.restored + (IF kept > left /\ new > 0 THEN kept - left ELSE 0)]

\* What UpdateProduct writes leaves no more than was granted or written back.
LEMMA PromoAfterQuota ==
  ASSUME NEW p \in [granted : Nat, sold : Nat, restored : Nat],
         NEW left \in Nat, NEW kept \in Nat, NEW new \in Nat,
         p.sold + left <= p.granted + p.restored,
         kept # 0 => new = 0 \/ new = kept, NEW q, q = Written(p, left, kept, new)
  PROVE  /\ q \in [granted : Nat, sold : Nat, restored : Nat]
         /\ q.sold + new <= q.granted + q.restored
<1> PICK a, b : /\ a = IF kept = 0 THEN new ELSE 0
                /\ b = IF kept > left /\ new > 0 THEN kept - left ELSE 0
  OBVIOUS
<1>1. a \in Nat /\ b \in Nat
  OBVIOUS
<1>2. p.granted \in Nat /\ p.sold \in Nat /\ p.restored \in Nat
  OBVIOUS
<1>3. q.granted = p.granted + a /\ q.restored = p.restored + b /\ q.sold = p.sold
  BY DEF Written
<1>4. q = [granted |-> p.granted + a, sold |-> p.sold, restored |-> p.restored + b]
  BY DEF Written
<1>5. q \in [granted : Nat, sold : Nat, restored : Nat]
  BY <1>1, <1>2, <1>4
<1>6. p.sold + new <= (p.granted + a) + (p.restored + b)
  BY <1>2
<1> QED
  BY <1>3, <1>5, <1>6

LEMMA WriteProductShop ==
  ASSUME Inv, NEW t \in Txn, WriteProduct(t)
  PROVE  ShopInv'
<1> PICK r : r = tx[t]
  OBVIOUS
<1> PICK i, kept, left, new : i = r.item /\ kept = r.left[i] /\ left = items[i].left /\ new = r.row.left
  OBVIOUS
<1>0. PICK row, q, s :
        /\ row = [r.row EXCEPT !.price = items[i].price, !.cost = items[i].cost]
        /\ q = Written(promo[i], left, kept, new)
        /\ s = IF r.todo = {} THEN Idle
               ELSE [Request("price", "recalc") EXCEPT !.todo = r.todo, !.again = {}]
  OBVIOUS
<1>1. /\ r.pc = "write_product" /\ CanLock(t, <<"product", i>>, "X")
      /\ items' = [items EXCEPT ![i] = row]
      /\ balance' = balance /\ lots' = lots /\ moves' = moves /\ history' = history
      /\ margin' = margin /\ carts' = carts /\ orders' = orders
  BY <1>0 DEF WriteProduct, stock, sales
<1>2. tx' = [tx EXCEPT ![t] = s] /\ locks' = WithoutLocks(t)
  BY SMTT(30), <1>0 DEF WriteProduct, Finish
<1>3. promo' = [promo EXCEPT ![i] = q]
  BY <1>0 DEF WriteProduct, PromoAfter, Written
<1>4. Carried(r) /\ RowRead(r)
  BY OwnWork
<1>5. /\ i \in Exists /\ i \in Item /\ r.row \in ItemRow /\ r.row.left <= r.row.total /\ Valid(r.row)
      /\ (kept # 0 => new = 0 \/ new = kept)
  BY <1>1, <1>4 DEF RowRead, ForItem, Exists
<1>6. items[i].price \in Nat /\ items[i].cost \in Nat \cup {None} /\ left \in Nat
  BY <1>5, ItemAt
<1>7. /\ row \in ItemRow /\ row.left = new /\ row.price = items[i].price
      /\ row.left <= row.total /\ Valid(row)
  <2> PICK old, price, cost : old = r.row /\ price = items[i].price /\ cost = items[i].cost
    OBVIOUS
  <2>1. row = Repriced(old, price, cost)
    BY <1>0 DEF Repriced
  <2>3. old \in ItemRow /\ price \in Nat /\ cost \in Cost
    BY <1>5, <1>6 DEF Cost
  <2>2. /\ row \in ItemRow /\ row.left = old.left /\ row.total = old.total /\ row.promo = old.promo
        /\ row.promoMargin = old.promoMargin /\ row.price = price
    BY <2>1, <2>3, RepricedRow
  <2> QED
    BY <1>5, <2>2 DEF Valid
<1>8. new \in Nat /\ kept \in Nat
  BY <1>4, <1>5 DEF ItemRow, Carried
<1>9. /\ promo[i] \in [granted : Nat, sold : Nat, restored : Nat]
      /\ promo[i].sold + left <= promo[i].granted + promo[i].restored
  BY SMTT(30), <1>5 DEF Inv, ShopInv, TypeOK, Quotas, LeftOf
<1>10. /\ q \in [granted : Nat, sold : Nat, restored : Nat]
       /\ q.sold + new <= q.granted + q.restored
  <2> PICK p : p = promo[i]
    OBVIOUS
  <2>1. /\ p \in [granted : Nat, sold : Nat, restored : Nat]
        /\ p.sold + left <= p.granted + p.restored /\ q = Written(p, left, kept, new)
    BY <1>0, <1>9
  <2> QED
    BY ZenonT(40), <1>5, <1>6, <1>8, <2>1, PromoAfterQuota
<1>11. /\ promo' \in [Item -> [granted : Nat, sold : Nat, restored : Nat]] /\ promo'[i] = q
       /\ \A j \in Item : j # i => promo'[j] = promo[j]
  BY <1>3, <1>5, <1>10 DEF Inv, ShopInv, TypeOK
<1>12. \A u \in Txn \ {t} : /\ Locked(u, "sku", i) => row.price = items[i].price
                            /\ Locked(u, "product", i) => row.left = items[i].left
  BY <1>1, <1>7, Exclusive
<1>13. Light(s)
  BY <1>0, <1>4, RecalcLight DEF Carried
<1>14. LocksStep(t) /\ MayLock(t)'
  BY <1>2, NoneLeft
<1>15. /\ history' \in [Item -> Seq([prev : Nat, new : Nat])]
       /\ \A n \in 2 .. Len(history'[i]) : history'[i][n].prev = history'[i][n - 1].new
       /\ history'[i] # <<>> => row.price = Last(history'[i]).new
  BY <1>1, <1>5, <1>7 DEF Inv, ShopInv, TypeOK, PricesChain
<1> QED
  BY ZenonT(40), <1>1, <1>2, <1>5, <1>7, <1>10, <1>11, <1>12, <1>13, <1>14, <1>15, RowStep



LEMMA WriteSKUShop ==
  ASSUME Inv, NEW t \in Txn, WriteSKU(t)
  PROVE  ShopInv'
<1> PICK r : r = tx[t]
  OBVIOUS
<1> PICK i, old : i = r.item /\ old = items[i]
  OBVIOUS
<1> PICK cost : cost = r.row
  OBVIOUS
<1>0. PICK row : row = Repriced(old, old.price, cost)
  OBVIOUS
<1> DEFINE q == [r EXCEPT !.pc = "lots_cost"]
<1> DEFINE s == IF r.n = 0 THEN Idle ELSE q
<1>1. /\ tx' = [tx EXCEPT ![t] = s] /\ r.pc = "write_sku" /\ locks' = locks
      /\ items' = [items EXCEPT ![i].cost = cost]
      /\ balance' = balance /\ lots' = lots /\ moves' = moves /\ history' = history
      /\ promo' = promo /\ margin' = margin /\ carts' = carts /\ orders' = orders
  BY DEF WriteSKU, stock, sales
<1>2. DOMAIN r = Fields /\ Carried(r) /\ RowRead(r)
  BY OwnWork
<1>3. /\ q.todo = r.todo /\ q.again = r.again /\ q.item = r.item /\ q.n = r.n
      /\ q.delta = r.delta /\ q.left = r.left /\ q.promo = r.promo /\ q.prev = r.prev
      /\ q.cost = r.cost /\ q.lots = r.lots /\ q.op = r.op /\ q.pc = "lots_cost"
  BY <1>2 DEF Fields
<1> HIDE DEF q
<1>4. i \in Exists /\ i \in Item /\ cost \in Cost
  BY <1>1, <1>2 DEF RowRead, ForItem, Exists, Cost
<1>5. old \in ItemRow /\ old.left <= old.total /\ Valid(old) /\ old.price \in Nat
  BY <1>4, ItemAt
<1>6. /\ row \in ItemRow /\ row.left = old.left /\ row.total = old.total
      /\ row.promo = old.promo /\ row.promoMargin = old.promoMargin
      /\ row.price = old.price
  BY <1>0, <1>4, <1>5, RepricedRow
<1>7. row.left <= row.total /\ Valid(row)
  BY <1>5, <1>6 DEF Valid
<1>8. items' = [items EXCEPT ![i] = row]
  <2>1. [old EXCEPT !.cost = cost] = row
    BY ZenonT(40), <1>0, <1>5 DEF Repriced, ItemRow
  <2> QED
    BY Zenon, <1>1, <2>1
<1>9. r.op # "checkout" /\ r.op # "cancel"
  BY <1>1, NeitherSale
<1>10. Light(s)
  <2>1. Carried(q)
    BY <1>2, <1>3 DEF Carried
  <2>2. RowRead(q) /\ CartRead(q)
    BY <1>3, <1>4 DEF RowRead, CartRead
  <2>3. Light(q)
    BY <1>3, <1>9, <2>1, <2>2 DEF Light, Locking, StockPc
  <2> QED
    BY <2>3, IdleLight
<1> HIDE DEF s
<1>11. LocksStep(t) /\ MayLock(t)'
  <2>1. tx[t].pc \notin Locking
    BY <1>1 DEF Locking, StockPc
  <2> QED
    BY <1>1, <2>1, Unmoved, NoLocks DEF Inv
<1>12. /\ history' \in [Item -> Seq([prev : Nat, new : Nat])]
       /\ promo' \in [Item -> [granted : Nat, sold : Nat, restored : Nat]]
       /\ promo'[i].sold + row.left <= promo'[i].granted + promo'[i].restored
  BY <1>1, <1>4, <1>6 DEF Inv, ShopInv, TypeOK, Quotas, LeftOf
<1>13. /\ \A n \in 2 .. Len(history'[i]) : history'[i][n].prev = history'[i][n - 1].new
       /\ history'[i] # <<>> => row.price = Last(history'[i]).new
  BY <1>1, <1>4, <1>6 DEF Inv, ShopInv, PricesChain
<1>14. /\ \A j \in Item : j # i => history'[j] = history[j] /\ promo'[j] = promo[j]
       /\ \A u \in Txn \ {t} : /\ Locked(u, "sku", i) => row.price = items[i].price
                               /\ Locked(u, "product", i) => row.left = items[i].left
  BY <1>1, <1>6
<1>15. /\ tx' = [tx EXCEPT ![t] = s]
       /\ balance' = balance /\ lots' = lots /\ moves' = moves
       /\ margin' = margin /\ carts' = carts /\ orders' = orders
  BY <1>1
<1> QED
  BY ZenonT(40), <1>4, <1>6, <1>7, <1>8, <1>10, <1>11, <1>12, <1>13, <1>14, <1>15, RowStep

\* Lots with another cost hold the units they held.
LEMMA SetRemainingLotsUnitCostShop ==
  ASSUME Inv, NEW t \in Txn, SetRemainingLotsUnitCost(t)
  PROVE  ShopInv'
<1> PICK r : r = tx[t]
  OBVIOUS
<1> PICK i, n : i = r.item /\ n = r.n
  OBVIOUS
<1> PICK a : a = lots[i]
  OBVIOUS
<1>0. PICK b, s :
        /\ b = [k \in DOMAIN a |-> IF a[k].qty > 0 THEN [a[k] EXCEPT !.cost = n] ELSE a[k]]
        /\ s = IF {i} = {} THEN Idle
               ELSE [Request("price", "recalc") EXCEPT !.todo = {i}, !.again = {}]
  OBVIOUS
<1>1. /\ r.pc = "lots_cost" /\ CanLock(t, <<"lots", i>>, "X")
      /\ lots' = [lots EXCEPT ![i] = b]
      /\ items' = items /\ balance' = balance /\ moves' = moves /\ history' = history
      /\ promo' = promo /\ margin' = margin /\ carts' = carts /\ orders' = orders
  BY <1>0 DEF SetRemainingLotsUnitCost, sales, catalog
<1>2. tx' = [tx EXCEPT ![t] = s] /\ locks' = WithoutLocks(t)
  BY <1>0 DEF SetRemainingLotsUnitCost, Finish
<1>3. Carried(r) /\ RowRead(r)
  BY OwnWork
<1>4. i \in Exists /\ i \in Item /\ n \in Nat
  BY <1>1, <1>3 DEF RowRead, ForItem, Exists, Carried
<1>5. TypeOK /\ Rows /\ Quotas /\ PricesChain /\ LotsMatchBalance /\ SoldIsOrdered
  BY DEF Inv, ShopInv
<1>6. a \in Seq(Lot)
  BY <1>4, <1>5 DEF TypeOK
<1>7. b \in Seq(Lot) /\ Len(b) = Len(a) /\ \A k \in 1 .. Len(a) : b[k].qty = a[k].qty
  <2>1. DOMAIN b = 1 .. Len(a) /\ Len(a) \in Nat
    BY <1>0, <1>6, LotAt
  <2>2. ASSUME NEW k \in 1 .. Len(a) PROVE b[k] \in Lot /\ b[k].qty = a[k].qty
    <3> PICK l : l = a[k]
      OBVIOUS
    <3>1. l \in Lot
      BY <1>6, LotAt
    <3>2. b[k] = IF l.qty > 0 THEN [l EXCEPT !.cost = n] ELSE l
      BY <1>0, <2>1
    <3>3. [l EXCEPT !.cost = n] \in Lot /\ [l EXCEPT !.cost = n].qty = l.qty
      BY SMTT(30), <1>4, <3>1 DEF Lot
    <3> QED
      BY <3>1, <3>2, <3>3
  <2>3. b \in [1 .. Len(a) -> Lot]
    BY <1>0, <2>1, <2>2
  <2>4. b \in Seq(Lot)
    BY <2>1, <2>3
  <2> QED
    BY <2>1, <2>2, <2>4
<1>8. Units(b) = Units(a)
  BY <1>6, <1>7, UnitsSame
<1>9. /\ lots' \in [Item -> Seq(Lot)] /\ lots'[i] = b
      /\ \A j \in Item : j # i => lots'[j] = lots[j]
  BY <1>1, <1>4, <1>5, <1>7 DEF TypeOK
<1>10. Exists' = Exists
  BY <1>1 DEF Exists
<1>11. AtWork(t)'
  <2>1. Light(s)
    BY <1>0, <1>4, RecalcLight
  <2>2. tx'[t] = s
    BY <1>2 DEF Inv, StoreInv, TablesOK
  <2> QED
    BY SMTT(30), <1>1, <2>1, <2>2, LightKept, LightAtWork DEF Exists
<1>12. LocksStep(t) /\ MayLock(t)'
  BY <1>2, NoneLeft
<1>13. Respects(t)
  <2>1. ASSUME NEW u \in Txn \ {t}, NEW j \in Item, Locked(u, "lots", j)
        PROVE  Begins(lots[j], lots'[j])
    <3>1. j # i
      BY <1>1, <2>1, Exclusive
    <3> QED
      BY <1>5, <1>9, <3>1 DEF TypeOK, Begins
  <2> QED
    BY <1>1, <1>12, <2>1 DEF Respects, LocksStep, Exists
<1>14. LotsMatchBalance'
  BY <1>1, <1>5, <1>8, <1>9 DEF LotsMatchBalance, Have
<1>15. TableTypes'
  BY <1>1, <1>5, <1>9, <1>10 DEF TypeOK, TableTypes
<1>16. Rows' /\ PricesChain'
  BY <1>1, <1>5, <1>10 DEF Rows, PricesChain
<1>17. Quotas'
  BY <1>1, <1>5, <1>10 DEF Quotas, LeftOf
<1>18. SoldIsOrdered'
  BY <1>1, <1>5, SoldStays
<1> QED
  BY <1>2, <1>11, <1>12, <1>13, <1>14, <1>15, <1>16, <1>17, <1>18, AnyStep



-------------------------------------------------------------------------------
(* What left the stock, and what the orders list.                            *)

OfKind(s, kind) == {n \in DOMAIN s : s[n].kind = kind}

Moved(s, kind) == SumFunction([n \in OfKind(s, kind) |-> s[n].new - s[n].prev])

LEMMA MoveAt ==
  ASSUME NEW s \in Seq(MoveRow)
  PROVE  /\ Len(s) \in Nat /\ DOMAIN s = 1 .. Len(s)
         /\ \A n \in 1 .. Len(s) : s[n].new \in Nat /\ s[n].prev \in Nat
<1>1. \A n \in 1 .. Len(s) : s[n] \in MoveRow
  OBVIOUS
<1>2. \A m \in MoveRow : m.new \in Nat /\ m.prev \in Nat
  BY DEF MoveRow
<1> QED
  BY <1>1, <1>2

LEMMA MovedParts ==
  ASSUME NEW s \in Seq(MoveRow), NEW kind
  PROVE  /\ IsFiniteSet(OfKind(s, kind))
         /\ \A n \in OfKind(s, kind) : n \in 1 .. Len(s) /\ s[n].new - s[n].prev \in Int
<1>1. OfKind(s, kind) \subseteq 1 .. Len(s)
  BY MoveAt DEF OfKind
<1>2. IsFiniteSet(1 .. Len(s))
  BY MoveAt, FS_Interval
<1>3. IsFiniteSet(OfKind(s, kind))
  BY <1>1, <1>2, FS_Subset
<1>4. \A n \in 1 .. Len(s) : s[n].new - s[n].prev \in Int
  BY MoveAt
<1> QED
  BY <1>1, <1>3, <1>4

LEMMA MovedInt == ASSUME NEW s \in Seq(MoveRow), NEW kind PROVE Moved(s, kind) \in Int
<1> PICK f : f = [n \in OfKind(s, kind) |-> s[n].new - s[n].prev]
  OBVIOUS
<1>1. DOMAIN f = OfKind(s, kind) /\ \A n \in DOMAIN f : f[n] \in Int
  BY MovedParts
<1>2. IsFiniteSet(DOMAIN f)
  BY <1>1, MovedParts, Zenon
<1>3. SumFunctionOnSet(f, DOMAIN f) \in Int
  BY <1>1, <1>2, SumInt
<1> QED
  BY <1>3 DEF Moved, SumFunction

\* A movement counts for its own kind, and for no other.
LEMMA MovedAppend ==
  ASSUME NEW s \in Seq(MoveRow), NEW e \in MoveRow, NEW kind
  PROVE  Moved(Append(s, e), kind) = Moved(s, kind) + IF e.kind = kind THEN e.new - e.prev ELSE 0
<1> PICK r, m : r = Append(s, e) /\ m = Len(s) + 1
  OBVIOUS
<1>1. /\ r \in Seq(MoveRow) /\ Len(r) = m /\ r[m] = e /\ Len(s) \in Nat
      /\ \A n \in 1 .. Len(s) : r[n] = s[n]
  OBVIOUS
<1>2. DOMAIN r = 1 .. m /\ DOMAIN s = 1 .. Len(s) /\ m \notin 1 .. Len(s)
      /\ \A n : n \in 1 .. m <=> n \in 1 .. Len(s) \/ n = m
  BY <1>1, MoveAt
<1> PICK A, B : A = OfKind(s, kind) /\ B = OfKind(r, kind)
  OBVIOUS
<1>0. PICK f, g : /\ f = [n \in A |-> s[n].new - s[n].prev]
                  /\ g = [n \in B |-> r[n].new - r[n].prev]
  OBVIOUS
<1>3. \A n : n \in A <=> n \in 1 .. Len(s) /\ s[n].kind = kind
  BY <1>2 DEF OfKind
<1>4. \A n : n \in B <=> n \in A \/ (n = m /\ e.kind = kind)
  BY <1>1, <1>2, <1>3 DEF OfKind
<1>5. DOMAIN f = A /\ DOMAIN g = B
  BY <1>0
<1>6. Moved(s, kind) = SumFunctionOnSet(f, A) /\ Moved(r, kind) = SumFunctionOnSet(g, B)
  <2>1. Moved(s, kind) = SumFunctionOnSet(f, DOMAIN f)
    BY <1>0 DEF Moved, SumFunction
  <2>2. Moved(r, kind) = SumFunctionOnSet(g, DOMAIN g)
    BY <1>0 DEF Moved, SumFunction
  <2> QED
    BY <1>5, <2>1, <2>2, Zenon
<1>7. IsFiniteSet(A) /\ m \notin A
  BY <1>2, <1>3, MovedParts
<1>8. \A n \in A : f[n] \in Int /\ g[n] = f[n]
  <2> SUFFICES ASSUME NEW n \in A PROVE f[n] \in Int /\ g[n] = f[n]
    OBVIOUS
  <2>1. n \in B /\ n \in 1 .. Len(s) /\ r[n] = s[n]
    BY <1>1, <1>3, <1>4
  <2>2. f[n] = s[n].new - s[n].prev /\ g[n] = r[n].new - r[n].prev
    BY <1>0, <2>1
  <2>3. s[n].new - s[n].prev \in Int
    BY MovedParts
  <2> QED
    BY <2>1, <2>2, <2>3
<1>9. SumFunctionOnSet(f, A) \in Int
  BY <1>7, <1>8, SumInt
<1>10. CASE e.kind = kind
  <2>1. m \in B /\ g[m] = e.new - e.prev
    BY <1>0, <1>1, <1>4, <1>10
  <2>2. e.new - e.prev \in Int
    BY DEF MoveRow
  <2>3. \A n : n \in B <=> n \in A \/ n = m
    BY <1>4, <1>10
  <2>4. SumFunctionOnSet(g, B) = SumFunctionOnSet(f, A) + g[m]
    <3>1. g[m] \in Int
      BY <2>1, <2>2
    <3> QED
      BY <1>7, <1>8, <2>3, <3>1, SumGrow
  <2> QED
    BY <1>6, <1>10, <2>1, <2>4
<1>11. CASE e.kind # kind
  <2>1. A = B
    BY <1>4, <1>11
  <2>2. SumFunctionOnSet(g, A) = SumFunctionOnSet(f, A)
    BY <1>7, <1>8, SumSame
  <2>3. Moved(r, kind) = Moved(s, kind)
    BY <1>6, <2>1, <2>2, Zenon
  <2> QED
    BY <1>6, <1>9, <1>11, <2>3
<1> QED
  BY <1>10, <1>11

Placed(o) == {k \in Key : o[k] # None}

Of(o, statuses) == {k \in Key : o[k] # None /\ o[k].status \in statuses}

LinesIn(o, i, statuses) == [k \in Of(o, statuses) |-> o[k].lines[i]]

Listed(o, i, statuses) == SumFunction(LinesIn(o, i, statuses))

LEMMA ListedParts ==
  ASSUME NEW o \in [Key -> OrderRow \cup {None}], IsFiniteSet(Placed(o)), NEW i \in Item,
         NEW statuses, NEW f, f = LinesIn(o, i, statuses)
  PROVE  /\ IsFiniteSet(Of(o, statuses)) /\ DOMAIN f = Of(o, statuses)
         /\ \A k \in Of(o, statuses) : f[k] = o[k].lines[i] /\ f[k] \in Int
         /\ Listed(o, i, statuses) = SumFunctionOnSet(f, Of(o, statuses))
         /\ Listed(o, i, statuses) \in Int
<1>1. Of(o, statuses) \subseteq Placed(o)
  BY DEF Of, Placed
<1>2. IsFiniteSet(Of(o, statuses))
  BY <1>1, FS_Subset
<1>3. DOMAIN f = Of(o, statuses) /\ \A k \in Of(o, statuses) : f[k] = o[k].lines[i]
  BY DEF LinesIn
<1>4. ASSUME NEW k \in Of(o, statuses) PROVE f[k] = o[k].lines[i] /\ f[k] \in Int
  <2>1. o[k] \in OrderRow
    BY DEF Of
  <2>2. o[k].lines[i] \in Nat
    BY <2>1 DEF OrderRow
  <2> QED
    BY <1>3, <2>2
<1>5. Listed(o, i, statuses) = SumFunctionOnSet(f, DOMAIN f)
  BY DEF Listed, SumFunction
<1>6. Listed(o, i, statuses) = SumFunctionOnSet(f, Of(o, statuses))
  BY <1>3, <1>5, Zenon
<1>7. SumFunctionOnSet(f, Of(o, statuses)) \in Int
  BY <1>2, <1>4, SumInt
<1> QED
  BY <1>2, <1>3, <1>4, <1>6, <1>7

\* Orders that keep their lines and stay on their side.
LEMMA ListedSame ==
  ASSUME NEW o \in [Key -> OrderRow \cup {None}], IsFiniteSet(Placed(o)), NEW i \in Item,
         NEW q \in [Key -> OrderRow \cup {None}], IsFiniteSet(Placed(q)), NEW statuses,
         \A k \in Key : k \in Of(o, statuses) <=> k \in Of(q, statuses),
         \A k \in Of(o, statuses) : q[k].lines[i] = o[k].lines[i]
  PROVE  Listed(q, i, statuses) = Listed(o, i, statuses)
<1>a. PICK f : f = LinesIn(o, i, statuses)
  OBVIOUS
<1>b. PICK g : g = LinesIn(q, i, statuses)
  OBVIOUS
<1>1. Of(q, statuses) = Of(o, statuses)
  BY DEF Of
<1>2. Listed(q, i, statuses) = SumFunctionOnSet(g, Of(q, statuses))
      /\ \A k \in Of(q, statuses) : g[k] = q[k].lines[i]
  BY <1>b, ListedParts
<1>3. /\ Listed(o, i, statuses) = SumFunctionOnSet(f, Of(o, statuses))
      /\ \A k \in Of(o, statuses) : f[k] = o[k].lines[i] /\ f[k] \in Int
      /\ IsFiniteSet(Of(o, statuses))
  BY <1>a, ListedParts
<1>4. \A k \in Of(o, statuses) : f[k] \in Int /\ g[k] = f[k]
  <2> SUFFICES ASSUME NEW k \in Of(o, statuses) PROVE g[k] = f[k]
    BY <1>3
  <2>1. k \in Of(q, statuses)
    BY DEF Of
  <2>2. q[k].lines[i] = o[k].lines[i]
    OBVIOUS
  <2> QED
    BY <1>2, <1>3, <2>1, <2>2
<1>5. SumFunctionOnSet(g, Of(o, statuses)) = SumFunctionOnSet(f, Of(o, statuses))
  BY <1>3, <1>4, SumSame
<1>6. Listed(q, i, statuses) = SumFunctionOnSet(g, Of(o, statuses))
  BY <1>1, <1>2, Zenon
<1> QED
  BY <1>3, <1>5, <1>6

\* An order that comes to the others.
LEMMA ListedMore ==
  ASSUME NEW o \in [Key -> OrderRow \cup {None}], IsFiniteSet(Placed(o)), NEW i \in Item,
         NEW q \in [Key -> OrderRow \cup {None}], IsFiniteSet(Placed(q)), NEW statuses,
         NEW e \in Key, e \notin Of(o, statuses), e \in Of(q, statuses),
         \A k \in Key : k # e => q[k] = o[k]
  PROVE  Listed(q, i, statuses) = Listed(o, i, statuses) + q[e].lines[i]
<1>a. PICK f : f = LinesIn(o, i, statuses)
  OBVIOUS
<1>b. PICK g : g = LinesIn(q, i, statuses)
  OBVIOUS
<1>c. PICK A, B : A = Of(o, statuses) /\ B = Of(q, statuses)
  OBVIOUS
<1>1. /\ Listed(q, i, statuses) = SumFunctionOnSet(g, B)
      /\ \A k \in B : g[k] = q[k].lines[i] /\ g[k] \in Int
  <2>1. /\ Listed(q, i, statuses) = SumFunctionOnSet(g, Of(q, statuses))
        /\ \A k \in Of(q, statuses) : g[k] = q[k].lines[i] /\ g[k] \in Int
    BY <1>b, ListedParts
  <2> QED
    BY <1>c, <2>1, Zenon
<1>2. /\ Listed(o, i, statuses) = SumFunctionOnSet(f, A)
      /\ \A k \in A : f[k] = o[k].lines[i] /\ f[k] \in Int
      /\ IsFiniteSet(A)
  <2>1. /\ Listed(o, i, statuses) = SumFunctionOnSet(f, Of(o, statuses))
        /\ \A k \in Of(o, statuses) : f[k] = o[k].lines[i] /\ f[k] \in Int
        /\ IsFiniteSet(Of(o, statuses))
    BY <1>a, ListedParts
  <2> QED
    BY <1>c, <2>1, Zenon
<1>3. \A k : k \in B <=> k \in A \/ k = e
  BY <1>c DEF Of
<1>4. \A k \in A : f[k] \in Int /\ g[k] = f[k]
  <2> SUFFICES ASSUME NEW k \in A PROVE g[k] = f[k]
    BY <1>2
  <2>1. k \in Key /\ k # e /\ k \in B
    BY <1>c, <1>3 DEF Of
  <2> QED
    BY <1>1, <1>2, <2>1
<1>5. e \notin A /\ g[e] \in Int /\ g[e] = q[e].lines[i]
  BY <1>c, <1>1
<1>6. SumFunctionOnSet(g, B) = SumFunctionOnSet(f, A) + g[e]
  BY <1>2, <1>3, <1>4, <1>5, SumGrow
<1> QED
  BY <1>1, <1>2, <1>5, <1>6

LEMMA SoldListed ==
  /\ \A i, kind : MovedBy(i, kind) = Moved(moves[i], kind)
  /\ \A i, statuses : OrderedIn(i, statuses) = Listed(orders, i, statuses)
BY DEF MovedBy, Moved, OfKind, OrderedIn, Listed, LinesIn, Of



-------------------------------------------------------------------------------
(* The commits.                                                              *)

MoveKind(r) ==
  IF r.op = "checkout" THEN "sale" ELSE IF r.op = "cancel" THEN "return" ELSE r.op

\* What the session knows of a line when it commits.
LEMMA LineTaken ==
  ASSUME Inv, NEW t \in Txn, NEW r, r = tx[t], r.pc = "commit", NEW i \in Lines(r)
  PROVE  /\ i \in Item /\ r.delta[i] \in Int /\ r.delta[i] # 0
         /\ r.prev[i] = Have(i) /\ Have(i) \in Nat /\ Have(i) + r.delta[i] \in Nat
         /\ r.cost[i] \in Nat /\ Units(lots[i]) = Have(i)
         /\ lots[i] \in Seq(Lot) /\ r.lots[i] \in Seq(Lot)
         /\ r.delta[i] < 0 => /\ Locked(t, "lots", i) /\ Begins(r.lots[i], lots[i])
                              /\ Units(r.lots[i]) >= - r.delta[i]
<1>1. i \in Item /\ r.delta[i] # 0
  BY DEF Lines
<1>2. Carried(r) /\ LotsTaken(t) /\ Taken(t)
  BY OwnWork DEF Inv, StoreInv, SessionOK
<1>3. r.todo = {} /\ r.pc \in StockPc
  BY <1>2 DEF Taken, StockPc
<1>4. r.prev[i] = Have(i) /\ Have(i) + r.delta[i] >= 0
  BY <1>1, <1>2, <1>3 DEF Taken
<1>5. r.delta[i] \in Int /\ r.cost[i] \in Nat /\ r.lots[i] \in Seq(Lot)
  BY <1>1, <1>2 DEF Carried
<1>6. Have(i) \in Nat /\ lots[i] \in Seq(Lot) /\ Units(lots[i]) = Have(i)
  BY <1>1 DEF Have, Inv, ShopInv, TypeOK, LotsMatchBalance
<1>7. Have(i) + r.delta[i] \in Nat
  BY <1>4, <1>5, <1>6
<1>8. r.delta[i] < 0 => /\ Locked(t, "lots", i) /\ Begins(r.lots[i], lots[i])
                        /\ Units(r.lots[i]) >= - r.delta[i]
  BY <1>1, <1>2, <1>3 DEF LotsTaken
<1> QED
  BY <1>1, <1>4, <1>5, <1>6, <1>7, <1>8

\* The lots of a line after the commit: what was taken is gone, what comes is last.
LEMMA LotsWritten ==
  ASSUME Inv, NEW t \in Txn, NEW r, r = tx[t], r.pc = "commit", NEW i \in Lines(r)
  PROVE  /\ LotsAfter(r, i) \in Seq(Lot)
         /\ Units(LotsAfter(r, i)) = Have(i) + r.delta[i]
         /\ ~(r.delta[i] < 0) => Begins(lots[i], LotsAfter(r, i))
<1> PICK d, have, a, b : d = r.delta[i] /\ have = Have(i) /\ a = r.lots[i] /\ b = lots[i]
  OBVIOUS
<1>1. /\ d \in Int /\ d # 0 /\ have \in Nat /\ have + d \in Nat
      /\ r.cost[i] \in Nat /\ Units(b) = have /\ a \in Seq(Lot) /\ b \in Seq(Lot)
      /\ d < 0 => Begins(a, b) /\ Units(a) >= - d
  BY LineTaken
<1>2. CASE d > 0
  <2> PICK l : l = [qty |-> d, cost |-> r.cost[i]]
    OBVIOUS
  <2>1. l \in Lot /\ l.qty = d
    <3>1. d \in Nat
      BY <1>1, <1>2
    <3> QED
      BY <1>1, <3>1 DEF Lot
  <2>2. LotsAfter(r, i) = Append(b, l)
    BY <1>2 DEF LotsAfter
  <2>3. /\ Append(b, l) \in Seq(Lot) /\ Begins(b, Append(b, l))
        /\ Units(Append(b, l)) = Units(b) + l.qty
    BY SMTT(30), <1>1, <2>1, UnitsAppend
  <2> QED
    BY <1>1, <1>2, <2>1, <2>2, <2>3
<1>3. CASE d < 0
  <2> PICK n : n = - d
    OBVIOUS
  <2>1. n \in Nat /\ n <= Units(a)
    <3>1. Units(a) \in Nat
      BY <1>1, UnitsNat
    <3>2. n \in Nat /\ Units(a) >= n
      BY SMTT(30), <1>1, <1>3
    <3> QED
      BY <3>1, <3>2
  <2> PICK c : c = ConsumeFIFO(a, n) \o SubSeq(b, Len(a) + 1, Len(b))
    OBVIOUS
  <2>2. LotsAfter(r, i) = c
    <3>1. ~(r.delta[i] > 0)
      BY SMTT(30), <1>1, <1>3
    <3> QED
      BY Zenon, <3>1 DEF LotsAfter
  <2>3. c \in Seq(Lot) /\ Units(c) = Units(b) - n
    BY ZenonT(40), <1>1, <1>3, <2>1, UnitsConsumed
  <2>4. have - n = have + d
    BY <1>1
  <2> QED
    BY <1>1, <1>3, <2>2, <2>3, <2>4
<1> QED
  BY <1>1, <1>2, <1>3

\* What a commit leaves of the stock.
LEMMA StockWritten ==
  ASSUME Inv, StoreInv', NEW t \in Txn, NEW r, r = tx[t], r.pc = "commit", WriteStock(r)
  PROVE  /\ balance' \in [Item -> Nat \cup {None}] /\ lots' \in [Item -> Seq(Lot)]
         /\ moves' \in [Item -> Seq(MoveRow)] /\ LotsMatchBalance'
         /\ \A u \in Txn \ {t}, i \in Item : Locked(u, "lots", i) => Begins(lots[i], lots'[i])
<1>1. balance' \in [Item -> Nat \cup {None}] /\ moves' \in [Item -> Seq(MoveRow)]
  BY DEF StoreInv, TablesOK
<1>2. /\ balance' = [i \in Item |-> IF i \in Lines(r) THEN r.prev[i] + r.delta[i] ELSE balance[i]]
      /\ lots' = [i \in Item |-> IF i \in Lines(r) THEN LotsAfter(r, i) ELSE lots[i]]
  BY DEF WriteStock
<1>3. /\ \A i \in Item : lots[i] \in Seq(Lot) /\ Units(lots[i]) = Have(i)
      /\ None \notin Int
  BY StoreAssumption DEF Inv, ShopInv, TypeOK, LotsMatchBalance
<1>4. ASSUME NEW i \in Item, i \in Lines(r)
      PROVE  /\ balance'[i] = Have(i) + r.delta[i] /\ Have(i)' = Have(i) + r.delta[i]
             /\ lots'[i] = LotsAfter(r, i)
  <2>1. r.prev[i] = Have(i) /\ Have(i) + r.delta[i] \in Nat
    BY <1>4, LineTaken
  <2>2. balance'[i] = r.prev[i] + r.delta[i] /\ lots'[i] = LotsAfter(r, i)
    BY <1>2, <1>4
  <2>3. balance'[i] = Have(i) + r.delta[i]
    BY <2>1, <2>2
  <2>4. balance'[i] # None
    BY <1>3, <2>1, <2>3
  <2> QED
    BY <2>2, <2>3, <2>4 DEF Have
<1>5. ASSUME NEW i \in Item, i \notin Lines(r)
      PROVE  Have(i)' = Have(i) /\ lots'[i] = lots[i]
  BY <1>2, <1>5 DEF Have
<1>6. ASSUME NEW i \in Item PROVE lots'[i] \in Seq(Lot) /\ Units(lots'[i]) = Have(i)'
  <2>1. CASE i \in Lines(r)
    <3>1. LotsAfter(r, i) \in Seq(Lot) /\ Units(LotsAfter(r, i)) = Have(i) + r.delta[i]
      BY <2>1, LotsWritten
    <3> QED
      BY <1>4, <2>1, <3>1
  <2>2. CASE i \notin Lines(r)
    BY <1>3, <1>5, <2>2
  <2> QED
    BY <2>1, <2>2
<1>7. lots' \in [Item -> Seq(Lot)]
  BY <1>2, <1>6
<1>8. LotsMatchBalance'
  BY <1>6 DEF LotsMatchBalance
<1>9. ASSUME NEW u \in Txn \ {t}, NEW i \in Item, Locked(u, "lots", i)
      PROVE  Begins(lots[i], lots'[i])
  <2>1. CASE i \in Lines(r)
    <3>1. ~Locked(t, "lots", i)
      BY <1>9, Exclusive
    <3>2. ~(r.delta[i] < 0)
      BY <2>1, <3>1, LineTaken
    <3> QED
      BY <1>4, <2>1, <3>2, LotsWritten
  <2>2. CASE i \notin Lines(r)
    BY <1>3, <1>5, <2>2 DEF Begins
  <2> QED
    BY <2>1, <2>2
<1> QED
  BY <1>1, <1>7, <1>8, <1>9

\* The movements that a commit writes.
LEMMA MovesWritten ==
  ASSUME Inv, NEW t \in Txn, NEW r, r = tx[t], r.pc = "commit", WriteStock(r),
         MoveKind(r) \in Kind, NEW i \in Item, NEW kind
  PROVE  /\ r.delta[i] \in Int /\ MovedBy(i, kind) \in Int
         /\ MovedBy(i, kind)' = MovedBy(i, kind) + IF MoveKind(r) = kind THEN r.delta[i] ELSE 0
<1>1. moves'[i] = IF i \in Lines(r) THEN Append(moves[i], MovementRow(r, i)) ELSE moves[i]
  BY DEF WriteStock
<1>2. moves[i] \in Seq(MoveRow)
  BY DEF Inv, ShopInv, TypeOK
<1>3. MovedBy(i, kind) = Moved(moves[i], kind) /\ MovedBy(i, kind)' = Moved(moves'[i], kind)
  <2>1. MovedBy(i, kind) = Moved(moves[i], kind)
    BY SoldListed
  <2>2. MovedBy(i, kind)' = Moved(moves'[i], kind)
    BY DEF MovedBy, Moved, OfKind
  <2> QED
    BY <2>1, <2>2
<1>4. MovedBy(i, kind) \in Int
  BY <1>2, <1>3, MovedInt
<1>5. Carried(r)
  BY OwnWork
<1>6. r.delta[i] \in Int
  BY <1>5 DEF Carried
<1>7. CASE i \in Lines(r)
  <2> PICK e : e = MovementRow(r, i)
    OBVIOUS
  <2> PICK count : count = IF r.op = "adjustment" /\ r.row # None THEN r.n ELSE None
    OBVIOUS
  <2>1. r.prev[i] = Have(i) /\ Have(i) \in Nat /\ Have(i) + r.delta[i] \in Nat
    BY <1>7, LineTaken
  <2>2. e = [kind |-> MoveKind(r), prev |-> r.prev[i], new |-> r.prev[i] + r.delta[i],
             count |-> count]
    BY DEF MovementRow, MoveKind
  <2>3. count \in Nat \cup {None}
    BY <1>5 DEF Carried
  <2>4. r.prev[i] \in Nat /\ r.prev[i] + r.delta[i] \in Nat
    BY <2>1
  <2>5. e \in MoveRow
    BY <2>2, <2>3, <2>4 DEF MoveRow
  <2>6. e.kind = MoveKind(r) /\ e.new - e.prev = r.delta[i]
    BY <1>6, <2>2, <2>4
  <2>7. Moved(Append(moves[i], e), kind)
          = Moved(moves[i], kind) + IF e.kind = kind THEN e.new - e.prev ELSE 0
    BY <1>2, <2>5, MovedAppend
  <2>8. moves'[i] = Append(moves[i], e)
    BY <1>1, <1>7
  <2> QED
    BY <1>3, <1>4, <1>6, <2>6, <2>7, <2>8
<1>8. CASE i \notin Lines(r)
  <2>1. r.delta[i] = 0 /\ moves'[i] = moves[i]
    BY <1>1, <1>8 DEF Lines
  <2> QED
    BY <1>3, <1>4, <1>6, <2>1
<1> QED
  BY <1>7, <1>8



\* Where a commit leaves the session, and its locks.
LEMMA Committed ==
  ASSUME Inv, NEW t \in Txn, NEW todo, NEW again, todo \subseteq Exists, again \subseteq Exists,
         Finish(t, todo, again), \A i \in Exists : items'[i] # None
  PROVE  /\ \E s : tx' = [tx EXCEPT ![t] = s]
         /\ LocksStep(t) /\ MayLock(t)' /\ AtWork(t)'
<1> PICK s : s = IF todo = {} THEN Idle
                 ELSE [Request("price", "recalc") EXCEPT !.todo = todo, !.again = again]
  OBVIOUS
<1>1. tx' = [tx EXCEPT ![t] = s] /\ locks' = WithoutLocks(t)
  BY DEF Finish
<1>2. LocksStep(t) /\ MayLock(t)'
  BY <1>1, NoneLeft
<1>3. tx'[t] = s
  BY <1>1 DEF Inv, StoreInv, TablesOK
<1>4. Light(s) /\ s.pc # "cart"
  <2>1. Light(s)
    BY RecalcLight
  <2>2. s.pc # "cart"
    <3> PICK r : r = Request("price", "recalc")
      OBVIOUS
    <3>1. DOMAIN r = Fields /\ r.pc = "recalc"
      BY BlankRequest DEF Blank
    <3>2. [r EXCEPT !.todo = todo, !.again = again].pc = "recalc"
      BY <3>1 DEF Fields
    <3> QED
      BY <3>2, IdleOK
  <2> QED
    BY <2>1, <2>2
<1>5. \A i \in Exists : i \in Exists'
  BY DEF Exists
<1>6. Carried(s)'
  BY <1>4, <1>5 DEF Light, Carried
<1>7. RowRead(s)' /\ CartRead(s)'
  BY <1>4, <1>5 DEF Light, RowRead, CartRead
<1>8. Light(s)'
  BY <1>4, <1>6, <1>7 DEF Light
<1>9. AtWork(t)'
  BY <1>3, <1>8, LightAtWork
<1> QED
  BY <1>1, <1>2, <1>9

LEMMA CommitMovementShop ==
  ASSUME Inv, StoreInv', NEW t \in Txn, CommitMovement(t)
  PROVE  ShopInv'
<1> PICK r : r = tx[t]
  OBVIOUS
<1> PICK i, cost : i = r.item /\ cost = r.cost[i]
  OBVIOUS
<1>1. /\ r.op \in {"entry", "initial_stock", "loss", "adjustment"} /\ r.pc = "commit"
      /\ WriteStock(r) /\ Finish(t, Lines(r), {})
      /\ items' = IF r.op = "entry" THEN [items EXCEPT ![i].cost = cost] ELSE items
      /\ history' = history /\ promo' = promo /\ margin' = margin
      /\ carts' = carts /\ orders' = orders
  BY DEF CommitMovement, sales
<1>2. Carried(r) /\ RowRead(r)
  BY OwnWork
<1>3. Lines(r) \subseteq Exists
  BY <1>2 DEF Lines, Carried
<1>4. TypeOK /\ Rows /\ Quotas /\ PricesChain /\ LotsMatchBalance /\ SoldIsOrdered
  BY DEF Inv, ShopInv
<1>5. /\ items' \in [Item -> ItemRow \cup {None}]
      /\ \A j \in Item : items[j] = None => items'[j] = None
      /\ \A j \in Exists : /\ items'[j] # None /\ items'[j].price = items[j].price
                           /\ items'[j].left = items[j].left
                           /\ items'[j].left <= items'[j].total /\ Valid(items'[j])
  <2>1. CASE r.op = "entry"
    <3> PICK old : old = items[i]
      OBVIOUS
    <3> PICK row : row = Repriced(old, old.price, cost)
      OBVIOUS
    <3>1. i \in Exists /\ i \in Item
      BY SMTT(30), <1>2, <2>1 DEF RowRead, Exists
    <3>2. old \in ItemRow /\ old.left <= old.total /\ Valid(old) /\ old.price \in Nat
      BY <3>1, ItemAt
    <3>3. cost \in Cost
      BY <1>2, <3>1 DEF Carried, Cost
    <3>4. /\ row \in ItemRow /\ row.left = old.left /\ row.total = old.total
          /\ row.promo = old.promo /\ row.promoMargin = old.promoMargin
          /\ row.price = old.price
      BY SMTT(30), <3>2, <3>3, RepricedRow
    <3>5. row.left <= row.total /\ Valid(row) /\ row # None
      BY SMTT(30), <3>2, <3>4, StoreAssumption DEF Valid
    <3>6. [old EXCEPT !.cost = cost] = row
      BY ZenonT(40), <3>2 DEF Repriced, ItemRow
    <3>7. items' = [items EXCEPT ![i] = row]
      BY <1>1, <2>1, <3>6
    <3>8. /\ items' \in [Item -> ItemRow \cup {None}] /\ items'[i] = row
          /\ \A j \in Item : j # i => items'[j] = items[j]
      BY <1>4, <3>1, <3>4, <3>7 DEF TypeOK
    <3>9. \A j \in Item : items[j] = None => items'[j] = None
      BY <3>1, <3>8 DEF Exists
    <3>10. ASSUME NEW j \in Exists
           PROVE  /\ items'[j] # None /\ items'[j].price = items[j].price
                  /\ items'[j].left = items[j].left
                  /\ items'[j].left <= items'[j].total /\ Valid(items'[j])
      <4>1. CASE j = i
        BY <3>4, <3>5, <3>8, <4>1
      <4>2. CASE j # i
        <5>1. j \in Item /\ items[j] # None /\ items[j].left <= items[j].total /\ Valid(items[j])
          BY ItemAt
        <5>2. items'[j] = items[j]
          BY <3>8, <4>2, <5>1
        <5> QED
          BY <5>1, <5>2, ZenonT(40)
      <4> QED
        BY SMTT(30), <4>1, <4>2
    <3> QED
      BY <3>8, <3>9, <3>10
  <2>2. CASE r.op # "entry"
    <3>1. items' = items
      BY <1>1, <2>2
    <3> QED
      BY <1>4, <3>1, ItemAt DEF TypeOK
  <2> QED
    BY <2>1, <2>2
<1>6. Exists' = Exists
  BY <1>5 DEF Exists
<1>7. (\E s : tx' = [tx EXCEPT ![t] = s]) /\ LocksStep(t) /\ MayLock(t)' /\ AtWork(t)'
  <2>0. PICK todo, again : todo = Lines(r) /\ again = {}
    OBVIOUS
  <2>1. todo \subseteq Exists /\ again \subseteq Exists /\ Finish(t, todo, again)
    BY <1>1, <1>3, <2>0
  <2>2. \A j \in Exists : items'[j] # None
    BY <1>5
  <2> QED
    BY <2>1, <2>2, Committed
<1>8. /\ balance' \in [Item -> Nat \cup {None}] /\ lots' \in [Item -> Seq(Lot)]
      /\ moves' \in [Item -> Seq(MoveRow)] /\ LotsMatchBalance'
      /\ \A u \in Txn \ {t}, j \in Item : Locked(u, "lots", j) => Begins(lots[j], lots'[j])
  BY <1>1, StockWritten
<1>9. SoldIsOrdered'
  <2>1. MoveKind(r) = r.op /\ MoveKind(r) \in Kind /\ MoveKind(r) # "sale" /\ MoveKind(r) # "return"
    BY <1>1 DEF MoveKind, Kind
  <2>2. \A j \in Item : MovedBy(j, "sale")' = MovedBy(j, "sale") + 0
                        /\ MovedBy(j, "return")' = MovedBy(j, "return") + 0
                        /\ MovedBy(j, "sale") \in Int /\ MovedBy(j, "return") \in Int
    BY <1>1, <2>1, MovesWritten
  <2>3. \A j, statuses : OrderedIn(j, statuses)' = OrderedIn(j, statuses)
    BY SMTT(30), <1>1 DEF OrderedIn
  <2> QED
    BY <1>4, <2>2, <2>3 DEF SoldIsOrdered
<1>10. TableTypes'
  <2>1. \A j \in Exists' : items'[j].left <= items'[j].total /\ Valid(items'[j])
    BY <1>5, <1>6
  <2> QED
    BY <1>1, <1>4, <1>5, <1>8, <2>1 DEF TypeOK, TableTypes
<1>11. Respects(t)
  BY SMTT(30), <1>1, <1>5, <1>7, <1>8 DEF Respects, LocksStep
<1>12. Rows'
  BY <1>1, <1>4, <1>5, <1>6 DEF Rows, Exists
<1>13. PricesChain'
  <2>1. \A j \in Item : history[j] # << >> => j \in Exists
    BY <1>4 DEF Rows, Exists
  <2> QED
    BY <1>1, <1>4, <1>5, <2>1 DEF PricesChain
<1>14. Quotas'
  BY <1>1, <1>4, <1>5, <1>6 DEF Quotas, LeftOf
<1> QED
  BY <1>7, <1>8, <1>9, <1>10, <1>11, <1>12, <1>13, <1>14, AnyStep



LEMMA CommitCancelShop ==
  ASSUME Inv, StoreInv', NEW t \in Txn, CommitCancel(t)
  PROVE  ShopInv'
<1> PICK r : r = tx[t]
  OBVIOUS
<1> PICK k : k = r.key
  OBVIOUS
<1>0. PICK row : row = [orders[k] EXCEPT !.status = "cancelled"]
  OBVIOUS
<1>1. /\ r.op = "cancel" /\ r.pc = "commit" /\ WriteStock(r) /\ Finish(t, {}, {})
      /\ orders' = [orders EXCEPT ![k] = row]
      /\ items' = items /\ history' = history /\ promo' = promo /\ margin' = margin
      /\ carts' = carts
  BY <1>0 DEF CommitCancel, catalog
<1>2. Carried(r) /\ OrderTaken(t)
  BY OwnWork
<1>3. /\ k \in Key /\ Locked(t, "order", k) /\ orders[k] \in OrderRow
      /\ orders[k].status = "confirmed" /\ r.delta = orders[k].lines
  BY <1>1, <1>2 DEF OrderTaken
<1>4. TypeOK /\ Rows /\ Quotas /\ PricesChain /\ LotsMatchBalance /\ SoldIsOrdered
  BY DEF Inv, ShopInv
<1>5. row \in OrderRow /\ row.status = "cancelled" /\ row.lines = r.delta /\ row # None
  <2> PICK old : old = orders[k]
    OBVIOUS
  <2>1. row \in OrderRow /\ row.status = "cancelled" /\ row.lines = old.lines
    BY <1>0, <1>3 DEF OrderRow
  <2> QED
    BY <1>3, <2>1, StoreAssumption
<1>6. /\ orders' \in [Key -> OrderRow \cup {None}] /\ orders'[k] = row
      /\ \A j \in Key : j # k => orders'[j] = orders[j]
  BY <1>1, <1>3, <1>4, <1>5 DEF TypeOK
<1>7. Exists' = Exists
  BY <1>1 DEF Exists
<1>8. (\E s : tx' = [tx EXCEPT ![t] = s]) /\ LocksStep(t) /\ MayLock(t)' /\ AtWork(t)'
  <2> PICK todo : todo = {}
    OBVIOUS
  <2>1. todo \subseteq Exists /\ Finish(t, todo, todo)
    BY <1>1
  <2>2. \A j \in Exists : items'[j] # None
    BY <1>1 DEF Exists
  <2> QED
    BY <2>1, <2>2, Committed
<1>9. /\ balance' \in [Item -> Nat \cup {None}] /\ lots' \in [Item -> Seq(Lot)]
      /\ moves' \in [Item -> Seq(MoveRow)] /\ LotsMatchBalance'
      /\ \A u \in Txn \ {t}, j \in Item : Locked(u, "lots", j) => Begins(lots[j], lots'[j])
  BY <1>1, StockWritten
<1>10. Placed(orders') = Placed(orders) /\ IsFiniteSet(Placed(orders)) /\ IsFiniteSet(Placed(orders'))
  <2>1. IsFiniteSet(Placed(orders))
    BY <1>4 DEF Rows, Placed
  <2>2. \A j \in Key : orders'[j] # None <=> orders[j] # None
    BY <1>3, <1>5, <1>6, StoreAssumption
  <2>3. Placed(orders') = Placed(orders)
    BY <2>2 DEF Placed
  <2> QED
    BY <2>1, <2>3
<1>11. SoldIsOrdered'
  <2> PICK all, ended : all = {"confirmed", "cancelled"} /\ ended = {"cancelled"}
    OBVIOUS
  <2> SUFFICES ASSUME NEW j \in Item
               PROVE  /\ MovedBy(j, "sale")' = - Listed(orders', j, all)
                      /\ MovedBy(j, "return")' = Listed(orders', j, ended)
    <3>1. \A j, statuses : OrderedIn(j, statuses)' = Listed(orders', j, statuses)
      BY DEF OrderedIn, Listed, LinesIn, Of
    <3> QED
      BY <3>1 DEF SoldIsOrdered
  <2>1. MoveKind(r) = "return" /\ MoveKind(r) \in Kind
    BY <1>1 DEF MoveKind, Kind
  <2>2. /\ MovedBy(j, "sale") = - Listed(orders, j, all)
        /\ MovedBy(j, "return") = Listed(orders, j, ended)
    BY <1>4, SoldListed DEF SoldIsOrdered
  <2>3. /\ MovedBy(j, "sale")' = MovedBy(j, "sale") + 0
        /\ MovedBy(j, "return")' = MovedBy(j, "return") + r.delta[j]
        /\ MovedBy(j, "sale") \in Int
    BY <1>1, <2>1, MovesWritten
  <2>4. orders \in [Key -> OrderRow \cup {None}]
    BY <1>4 DEF TypeOK
  <2>5. Listed(orders', j, all) = Listed(orders, j, all)
    <3>1. \A i \in Key : i \in Of(orders, all) <=> i \in Of(orders', all)
      BY <1>3, <1>5, <1>6, StoreAssumption DEF Of
    <3>2. \A i \in Of(orders, all) : orders'[i].lines[j] = orders[i].lines[j]
      BY <1>3, <1>5, <1>6 DEF Of
    <3> QED
      BY <1>6, <1>10, <2>4, <3>1, <3>2, ListedSame
  <2>6. Listed(orders', j, ended) = Listed(orders, j, ended) + orders'[k].lines[j]
    <3>1. k \notin Of(orders, ended) /\ k \in Of(orders', ended)
      BY <1>3, <1>5, <1>6 DEF Of
    <3> QED
      BY <1>3, <1>6, <1>10, <2>4, <3>1, ListedMore
  <2> QED
    BY <1>5, <1>6, <2>2, <2>3, <2>5, <2>6
<1>12. TableTypes'
  BY <1>1, <1>4, <1>6, <1>7, <1>9 DEF TypeOK, TableTypes
<1>13. Respects(t)
  <2>1. ASSUME NEW u \in Txn \ {t}, NEW j \in Key, Locked(u, "order", j)
        PROVE  orders'[j] = orders[j]
    <3>1. j # k
      BY <1>3, <2>1, Exclusive
    <3> QED
      BY <1>6, <3>1
  <2> QED
    BY <1>1, <1>8, <1>9, <2>1 DEF Respects, LocksStep, Exists
<1>14. Rows'
  <2>1. ASSUME NEW j \in Key, NEW i \in Item, orders'[j] # None, orders'[j].lines[i] > 0
        PROVE  i \in Exists
    <3>1. CASE j = k
      <4>1. orders[k].lines[i] > 0 /\ orders[k] # None
        BY <1>3, <1>5, <1>6, <2>1, <3>1, StoreAssumption
      <4> QED
        BY <1>3, <1>4, <4>1 DEF Rows
    <3>2. CASE j # k
      BY <1>4, <1>6, <2>1, <3>2 DEF Rows
    <3> QED
      BY <3>1, <3>2
  <2>2. IsFiniteSet({j \in Key : orders'[j] # None})
    BY <1>10 DEF Placed
  <2> QED
    BY <1>1, <1>4, <1>7, <2>1, <2>2 DEF Rows
<1>15. PricesChain'
  BY <1>1, <1>4 DEF PricesChain
<1>16. Quotas'
  BY <1>1, <1>4, <1>7 DEF Quotas, LeftOf
<1> QED
  BY <1>8, <1>9, <1>11, <1>12, <1>13, <1>14, <1>15, <1>16, AnyStep



\* A row whose promotion has lost some of its quota.
Depleted(old, left) == [old EXCEPT !.left = left, !.promo = @ /\ left > 0]

LEMMA DepletedRow ==
  ASSUME NEW old \in ItemRow, old.left <= old.total, Valid(old), NEW left \in Nat, left <= old.left,
         NEW row, row = Depleted(old, left)
  PROVE  /\ row \in ItemRow /\ row.left = left /\ row.left <= row.total /\ Valid(row)
         /\ row.price = old.price
<1> PICK on : on = (old.promo /\ left > 0)
  OBVIOUS
<1> PICK active : active = old.active
  OBVIOUS
<1>1. /\ old.price \in Nat /\ old.cost \in Nat \cup {None} /\ active \in BOOLEAN
      /\ old.margin \in Int /\ old.promo \in BOOLEAN
      /\ old.promoMargin \in (0 .. 1000) \cup {None} /\ old.total \in Nat /\ old.left \in Nat
  BY DEF ItemRow
<1>2. on \in BOOLEAN
  BY Zenon
<1>3. /\ row.left = left /\ row.total = old.total /\ row.price = old.price
      /\ row.promoMargin = old.promoMargin /\ row.promo = on
  BY DEF ItemRow, Depleted
<1>4. row \in ItemRow
  <2>1. row = [price |-> old.price, cost |-> old.cost, active |-> active,
               margin |-> old.margin, promo |-> on, promoMargin |-> old.promoMargin,
               total |-> old.total, left |-> left]
    BY ZenonT(40) DEF ItemRow, Depleted
  <2>2. \A x, y \in BOOLEAN :
          [price |-> old.price, cost |-> old.cost, active |-> x, margin |-> old.margin,
           promo |-> y, promoMargin |-> old.promoMargin, total |-> old.total, left |-> left]
             \in ItemRow
    BY <1>1 DEF ItemRow
  <2> DEFINE R(x, y) == [price |-> old.price, cost |-> old.cost, active |-> x,
                         margin |-> old.margin, promo |-> y, promoMargin |-> old.promoMargin,
                         total |-> old.total, left |-> left]
  <2>3. row = R(active, on) /\ \A x, y \in BOOLEAN : R(x, y) \in ItemRow
    BY <2>1, <2>2
  <2>4. active \in BOOLEAN /\ on \in BOOLEAN
    BY <1>1, <1>2, Zenon
  <2> HIDE DEF R
  <2> QED
    BY <2>3, <2>4, Zenon
<1>5. Valid(row)
  <2>1. row.promo => old.promo
    BY <1>3
  <2>2. old.promo => old.promoMargin # None /\ old.total > 0
    BY DEF Valid
  <2> QED
    BY <1>3, <2>1, <2>2 DEF Valid
<1> QED
  BY <1>1, <1>3, <1>4, <1>5

\* A line of an order that is committed: what is left of the quota is what was
\* read under the lock, less the units that it takes.
LEMMA LineSold ==
  ASSUME Inv, NEW t \in Txn, NEW r, r = tx[t], r.op = "checkout", r.pc = "commit",
         NEW i \in Lines(r), NEW row, row = Consumed(r, i)
  PROVE  /\ i \in Exists /\ Locked(t, "product", i)
         /\ r.promo[i] \in Nat /\ r.promo[i] <= items[i].left
         /\ row \in ItemRow /\ row.left = items[i].left - r.promo[i]
         /\ row.left <= row.total /\ Valid(row) /\ row.price = items[i].price /\ row # None
<1> PICK old : old = items[i]
  OBVIOUS
<1> PICK left : left = r.left[i] - r.promo[i]
  OBVIOUS
<1>1. Carried(r) /\ Priced(t)
  BY OwnWork
<1>2. i \in Item /\ i \in Exists /\ r.promo[i] \in Nat
  BY <1>1 DEF Lines, Carried
<1>3. PricedLines(r) = Lines(r)
  BY DEF PricedLines
<1>4. Locked(t, "product", i) /\ r.left[i] = old.left /\ r.promo[i] <= r.left[i]
  BY <1>1, <1>3 DEF Priced
<1>5. old \in ItemRow /\ old.left \in Nat /\ old.left <= old.total /\ Valid(old)
  BY <1>2, ItemAt
<1>6. left \in Nat /\ left <= old.left /\ left = old.left - r.promo[i]
  BY <1>2, <1>4, <1>5
<1>7. row = IF r.promo[i] = 0 THEN old ELSE Depleted(old, left)
  BY DEF Consumed, Depleted
<1>8. row \in ItemRow /\ row.left = left /\ row.left <= row.total /\ Valid(row)
      /\ row.price = old.price
  <2>1. CASE r.promo[i] = 0
    BY <1>5, <1>6, <1>7, <2>1
  <2>2. CASE r.promo[i] # 0
    <3>1. row = Depleted(old, left)
      BY <1>7, <2>2
    <3> QED
      BY <1>5, <1>6, <3>1, DepletedRow
  <2> QED
    BY <2>1, <2>2
<1>9. row # None
  BY <1>8, StoreAssumption
<1> QED
  BY <1>2, <1>4, <1>6, <1>8, <1>9

\* The order that a checkout inserts.
LEMMA OrderPlaced ==
  ASSUME Inv, NEW t \in Txn, NEW r, r = tx[t], r.op = "checkout",
         NEW row, row = [status |-> "confirmed", lines |-> [i \in Item |-> - r.delta[i]],
                         total |-> r.n]
  PROVE  /\ row \in OrderRow /\ row.status = "confirmed" /\ row # None
         /\ \A i \in Item : /\ r.delta[i] \in Int /\ row.lines[i] = - r.delta[i]
                            /\ row.lines[i] > 0 => i \in Exists
<1>1. Carried(r)
  BY OwnWork
<1>2. RequestOK(r)
  BY OwnRequest DEF Inv
<1>3. ASSUME NEW i \in Item
      PROVE  /\ r.delta[i] \in Int /\ row.lines[i] = - r.delta[i] /\ row.lines[i] \in Nat
             /\ row.lines[i] > 0 => i \in Exists
  <2> PICK d : d = r.delta[i]
    OBVIOUS
  <2>1. d \in Int /\ d <= 0 /\ (d # 0 => i \in Exists)
    BY <1>1, <1>2 DEF Carried, RequestOK
  <2>2. row.lines[i] = - d
    OBVIOUS
  <2> QED
    BY <2>1, <2>2
<1>4. row.lines \in [Item -> Nat] /\ r.n \in Nat
  <2>1. row.lines = [i \in Item |-> - r.delta[i]]
    OBVIOUS
  <2>2. \A i \in Item : - r.delta[i] \in Nat
    BY <1>3
  <2> QED
    BY <1>1, <2>1, <2>2 DEF Carried
<1>5. row \in OrderRow
  <2>1. row = [status |-> "confirmed", lines |-> row.lines, total |-> r.n]
    OBVIOUS
  <2> QED
    BY <1>4, <2>1 DEF OrderRow
<1>6. row # None
  BY <1>5, StoreAssumption
<1> QED
  BY <1>3, <1>5, <1>6



LEMMA CommitCheckoutShop ==
  ASSUME Inv, StoreInv', NEW t \in Txn, CommitCheckout(t)
  PROVE  ShopInv'
<1> PICK r : r = tx[t]
  OBVIOUS
<1> PICK k : k = r.key
  OBVIOUS
<1> PICK c : c = r.cart
  OBVIOUS
<1>0. PICK row : row = [status |-> "confirmed", lines |-> [i \in Item |-> - r.delta[i]],
                        total |-> r.n]
  OBVIOUS
<1>a. PICK cart : cart = [open |-> FALSE, items |-> Nothing]
  OBVIOUS
<1>b. /\ items' = [i \in Item |-> IF i \in Lines(r) THEN Consumed(r, i) ELSE items[i]]
      /\ promo' = [i \in Item |-> [promo[i] EXCEPT !.sold = @ + r.promo[i]]]
  BY DEF CommitCheckout
<1>1. /\ r.op = "checkout" /\ r.pc = "commit" /\ WriteStock(r)
      /\ Finish(t, Lines(r), PromoEnded(r))
      /\ orders' = [orders EXCEPT ![k] = row] /\ carts' = [carts EXCEPT ![c] = cart]
      /\ history' = history /\ margin' = margin
  BY <1>0, <1>a DEF CommitCheckout
<1>2. Carried(r) /\ OrderTaken(t) /\ Priced(t)
  BY OwnWork
<1>3. k \in Key /\ Locked(t, "order", k) /\ orders[k] = None
  BY <1>1, <1>2 DEF OrderTaken, StockPc
<1>4. TypeOK /\ Rows /\ Quotas /\ PricesChain /\ LotsMatchBalance /\ SoldIsOrdered
  BY DEF Inv, ShopInv
<1>5. /\ row \in OrderRow /\ row.status = "confirmed" /\ row # None
      /\ \A i \in Item : /\ r.delta[i] \in Int /\ row.lines[i] = - r.delta[i]
                         /\ row.lines[i] > 0 => i \in Exists
  BY <1>0, <1>1, OrderPlaced
<1>6. /\ orders' \in [Key -> OrderRow \cup {None}] /\ orders'[k] = row
      /\ \A j \in Key : j # k => orders'[j] = orders[j]
  BY <1>1, <1>3, <1>4, <1>5 DEF TypeOK
<1>7. /\ \A i \in Item : i \in Lines(r) => i \in Exists
      /\ \A i \in Lines(r) : /\ Locked(t, "product", i)
                             /\ r.promo[i] \in Nat /\ r.promo[i] <= items[i].left
                             /\ items'[i] \in ItemRow /\ items'[i] # None
                             /\ items'[i].left = items[i].left - r.promo[i]
                             /\ items'[i].left <= items'[i].total /\ Valid(items'[i])
                             /\ items'[i].price = items[i].price
      /\ \A i \in Item : i \notin Lines(r) => items'[i] = items[i] /\ r.promo[i] = 0
  <2>1. ASSUME NEW i \in Lines(r)
        PROVE  /\ i \in Exists /\ Locked(t, "product", i)
               /\ r.promo[i] \in Nat /\ r.promo[i] <= items[i].left
               /\ items'[i] \in ItemRow /\ items'[i] # None
               /\ items'[i].left = items[i].left - r.promo[i]
               /\ items'[i].left <= items'[i].total /\ Valid(items'[i])
               /\ items'[i].price = items[i].price
    <3> PICK new : new = Consumed(r, i)
      OBVIOUS
    <3>1. items'[i] = new
      BY <1>b DEF Lines
    <3>2. /\ i \in Exists /\ Locked(t, "product", i)
          /\ r.promo[i] \in Nat /\ r.promo[i] <= items[i].left
          /\ new \in ItemRow /\ new.left = items[i].left - r.promo[i]
          /\ new.left <= new.total /\ Valid(new) /\ new.price = items[i].price /\ new # None
      BY <1>1, LineSold
    <3> QED
      BY <3>1, <3>2, Zenon
  <2>2. ASSUME NEW i \in Item, i \notin Lines(r)
        PROVE  items'[i] = items[i] /\ r.promo[i] = 0
    <3>1. PricedLines(r) = Lines(r)
      BY <1>1 DEF PricedLines
    <3>2. r.promo[i] = 0
      BY <1>1, <1>2, <2>2, <3>1 DEF Priced
    <3> QED
      BY <1>b, <2>2, <3>2
  <2> QED
    BY <2>1, <2>2, Zenon
<1>8. Exists' = Exists
  <2>1. \A i \in Item : items'[i] # None <=> items[i] # None
    BY <1>7 DEF Exists
  <2> QED
    BY <2>1 DEF Exists
<1>9. (\E s : tx' = [tx EXCEPT ![t] = s]) /\ LocksStep(t) /\ MayLock(t)' /\ AtWork(t)'
  <2>0. PICK todo, again : todo = Lines(r) /\ again = PromoEnded(r)
    OBVIOUS
  <2>1. todo \subseteq Exists /\ again \subseteq Exists
    BY <1>7, <2>0 DEF PromoEnded, Lines
  <2>2. Finish(t, todo, again)
    BY <1>1, <2>0
  <2>3. \A j \in Exists : items'[j] # None
    BY <1>8 DEF Exists
  <2> QED
    BY <2>1, <2>2, <2>3, Committed
<1>10. /\ balance' \in [Item -> Nat \cup {None}] /\ lots' \in [Item -> Seq(Lot)]
       /\ moves' \in [Item -> Seq(MoveRow)] /\ LotsMatchBalance'
       /\ \A u \in Txn \ {t}, j \in Item : Locked(u, "lots", j) => Begins(lots[j], lots'[j])
  BY <1>1, StockWritten
<1>11. IsFiniteSet(Placed(orders)) /\ IsFiniteSet(Placed(orders'))
  <2>1. IsFiniteSet(Placed(orders))
    BY <1>4 DEF Rows, Placed
  <2>2. Placed(orders') = Placed(orders) \cup {k}
    BY <1>3, <1>5, <1>6 DEF Placed
  <2> QED
    BY <2>1, <2>2, FS_AddElement
<1>12. SoldIsOrdered'
  <2> PICK all, ended : all = {"confirmed", "cancelled"} /\ ended = {"cancelled"}
    OBVIOUS
  <2> SUFFICES ASSUME NEW j \in Item
               PROVE  /\ MovedBy(j, "sale")' = - Listed(orders', j, all)
                      /\ MovedBy(j, "return")' = Listed(orders', j, ended)
    <3>1. \A j, statuses : OrderedIn(j, statuses)' = Listed(orders', j, statuses)
      BY DEF OrderedIn, Listed, LinesIn, Of
    <3> QED
      BY <3>1 DEF SoldIsOrdered
  <2>1. MoveKind(r) = "sale" /\ MoveKind(r) \in Kind
    BY <1>1 DEF MoveKind, Kind
  <2>2. /\ MovedBy(j, "sale") = - Listed(orders, j, all)
        /\ MovedBy(j, "return") = Listed(orders, j, ended)
    BY <1>4, SoldListed DEF SoldIsOrdered
  <2>3. /\ MovedBy(j, "sale")' = MovedBy(j, "sale") + r.delta[j]
        /\ MovedBy(j, "return")' = MovedBy(j, "return") + 0
        /\ MovedBy(j, "sale") \in Int /\ MovedBy(j, "return") \in Int
    BY <1>1, <2>1, MovesWritten
  <2>4. orders \in [Key -> OrderRow \cup {None}]
    BY <1>4 DEF TypeOK
  <2>5. Listed(orders', j, ended) = Listed(orders, j, ended)
    <3>1. \A i \in Key : i \in Of(orders, ended) <=> i \in Of(orders', ended)
      BY <1>3, <1>5, <1>6 DEF Of
    <3>2. \A i \in Of(orders, ended) : orders'[i].lines[j] = orders[i].lines[j]
      BY <1>3, <1>6 DEF Of
    <3> QED
      BY <1>6, <1>11, <2>4, <3>1, <3>2, ListedSame
  <2>6. Listed(orders', j, all) = Listed(orders, j, all) + orders'[k].lines[j]
    <3>1. k \notin Of(orders, all) /\ k \in Of(orders', all)
      BY <1>3, <1>5, <1>6 DEF Of
    <3> QED
      BY <1>3, <1>6, <1>11, <2>4, <3>1, ListedMore
  <2>7. Listed(orders, j, all) \in Int
    BY <1>11, <2>4, ListedParts
  <2> PICK d : d = r.delta[j]
    OBVIOUS
  <2>8. d \in Int /\ orders'[k].lines[j] = - d /\ MovedBy(j, "sale")' = MovedBy(j, "sale") + d
    BY <1>5, <1>6, <2>3
  <2> QED
    BY <2>2, <2>3, <2>5, <2>6, <2>7, <2>8
<1>13. /\ promo' \in [Item -> [granted : Nat, sold : Nat, restored : Nat]]
       /\ \A i \in Item : /\ promo'[i].sold = promo[i].sold + r.promo[i]
                          /\ promo'[i].granted = promo[i].granted
                          /\ promo'[i].restored = promo[i].restored
                          /\ promo[i].sold \in Nat /\ promo[i].granted \in Nat
                          /\ promo[i].restored \in Nat /\ r.promo[i] \in Nat
  <2>1. ASSUME NEW i \in Item
        PROVE  /\ promo'[i] \in [granted : Nat, sold : Nat, restored : Nat]
               /\ promo'[i].sold = promo[i].sold + r.promo[i]
               /\ promo'[i].granted = promo[i].granted
               /\ promo'[i].restored = promo[i].restored
               /\ promo[i].sold \in Nat /\ promo[i].granted \in Nat
               /\ promo[i].restored \in Nat /\ r.promo[i] \in Nat
    <3> PICK p, n : p = promo[i] /\ n = r.promo[i]
      OBVIOUS
    <3>1. p \in [granted : Nat, sold : Nat, restored : Nat] /\ n \in Nat
      BY <1>2, <1>4 DEF TypeOK, Carried
    <3>2. promo'[i] = [p EXCEPT !.sold = @ + n]
      BY <1>b
    <3> QED
      BY <3>1, <3>2
  <2>2. DOMAIN promo' = Item
    BY <1>b
  <2>3. promo' = [i \in Item |-> promo'[i]]
    BY <1>b
  <2> QED
    BY <2>1, <2>2, <2>3
<1>14. Quotas'
  <2> SUFFICES ASSUME NEW i \in Item
               PROVE  promo'[i].sold + LeftOf(i)' <= promo'[i].granted + promo'[i].restored
    BY DEF Quotas
  <2>1. LeftOf(i) \in Nat /\ LeftOf(i)' = LeftOf(i) - r.promo[i]
    <3>1. CASE i \in Exists
      <4>1. items[i].left \in Nat /\ i \in Exists'
        BY <1>8, <3>1, ItemAt
      <4>2. items'[i].left = items[i].left - r.promo[i]
        BY <1>7, <1>13, <4>1
      <4> QED
        BY <3>1, <4>1, <4>2 DEF LeftOf
    <3>2. CASE i \notin Exists
      BY <1>7, <1>8, <3>2 DEF LeftOf
    <3> QED
      BY <3>1, <3>2
  <2>2. promo[i].sold + LeftOf(i) <= promo[i].granted + promo[i].restored
    BY <1>4 DEF Quotas
  <2> QED
    BY <1>13, <2>1, <2>2
<1>15. /\ items' \in [Item -> ItemRow \cup {None}]
       /\ \A i \in Exists : /\ i \in Item /\ items'[i] # None /\ items'[i].price = items[i].price
                            /\ items'[i].left <= items'[i].total /\ Valid(items'[i])
                            /\ i \notin Lines(r) => items'[i].left = items[i].left
  <2>1. \A i \in Item : items'[i] \in ItemRow \cup {None}
    BY <1>4, <1>7 DEF TypeOK
  <2>2. ASSUME NEW i \in Exists
        PROVE  /\ i \in Item /\ items'[i] # None /\ items'[i].price = items[i].price
               /\ items'[i].left <= items'[i].total /\ Valid(items'[i])
               /\ i \notin Lines(r) => items'[i].left = items[i].left
    <3>1. i \in Item /\ items[i] # None /\ items[i].left <= items[i].total /\ Valid(items[i])
      BY ItemAt
    <3>2. CASE i \in Lines(r)
      BY <1>7, <3>1, <3>2
    <3>3. CASE i \notin Lines(r)
      <4>1. items'[i] = items[i]
        BY <1>7, <3>1, <3>3
      <4> QED
        BY <3>1, <3>3, <4>1, Zenon
    <3> QED
      BY <3>2, <3>3
  <2>3. items' \in [Item -> ItemRow \cup {None}]
    BY <1>b, <2>1
  <2> QED
    BY <2>2, <2>3
<1>16. CartsStep
  <2>1. cart \in CartRow /\ \A i \in Item : cart.items[i] = 0
    BY <1>a, NothingZero DEF CartRow
  <2>2. carts \in [Cart -> CartRow \cup {None}]
    BY <1>4 DEF TypeOK
  <2>3. carts' \in [Cart -> CartRow \cup {None}]
        /\ \A d \in Cart : carts'[d] = IF d = c THEN cart ELSE carts[d]
    BY <1>1, <2>1, <2>2
  <2> QED
    BY <1>4, <2>1, <2>3 DEF CartsStep, Rows
<1>17. TableTypes'
  <2>1. \A i \in Exists' : items'[i].left <= items'[i].total /\ Valid(items'[i])
    BY <1>8, <1>15
  <2> QED
    BY <1>1, <1>4, <1>6, <1>10, <1>13, <1>15, <1>16, <2>1 DEF TypeOK, TableTypes, CartsStep
<1>18. Respects(t)
  <2>1. ASSUME NEW u \in Txn \ {t}, NEW j \in Key, Locked(u, "order", j)
        PROVE  orders'[j] = orders[j]
    <3>1. j # k
      BY <1>3, <2>1, Exclusive
    <3> QED
      BY <1>6, <3>1
  <2>2. ASSUME NEW u \in Txn \ {t}, NEW i \in Exists, Locked(u, "product", i)
        PROVE  items'[i].left = items[i].left
    <3>1. ~Locked(t, "product", i)
      BY <2>2, Exclusive
    <3> QED
      BY <1>7, <1>15, <3>1
  <2> QED
    BY <1>9, <1>10, <1>15, <1>16, <2>1, <2>2 DEF Respects, LocksStep, CartsStep
<1>19. Rows'
  <2>1. ASSUME NEW j \in Key, NEW i \in Item, orders'[j] # None, orders'[j].lines[i] > 0
        PROVE  i \in Exists
    <3>1. CASE j = k
      BY <1>5, <1>6, <2>1, <3>1
    <3>2. CASE j # k
      BY <1>4, <1>6, <2>1, <3>2 DEF Rows
    <3> QED
      BY <3>1, <3>2
  <2>2. IsFiniteSet({j \in Key : orders'[j] # None})
    BY <1>11 DEF Placed
  <2>3. \A i \in Item : items'[i] = None => history'[i] = << >>
    BY <1>1, <1>4, <1>7 DEF Rows
  <2> QED
    BY <1>8, <1>16, <2>1, <2>2, <2>3 DEF Rows, CartsStep
<1>20. PricesChain'
  <2>1. \A i \in Item : history[i] # << >> => i \in Exists
    BY <1>4 DEF Rows, Exists
  <2> QED
    BY <1>1, <1>4, <1>15, <2>1 DEF PricesChain
<1> QED
  BY <1>9, <1>10, <1>12, <1>14, <1>17, <1>18, <1>19, <1>20, AnyStep





-------------------------------------------------------------------------------
(* How it begins.                                                            *)

LEMMA MovedNone ==
  ASSUME NEW s, NEW kind, \A n \in DOMAIN s : s[n].kind # kind
  PROVE  Moved(s, kind) = 0
<1> PICK f : f = [n \in OfKind(s, kind) |-> s[n].new - s[n].prev]
  OBVIOUS
<1>1. OfKind(s, kind) = {}
  BY DEF OfKind
<1>2. DOMAIN f = {}
  BY <1>1
<1>3. Moved(s, kind) = SumFunctionOnSet(f, DOMAIN f)
  BY DEF Moved, SumFunction
<1>4. Moved(s, kind) = SumFunctionOnSet(f, {})
  BY <1>2, <1>3, Zenon
<1> QED
  BY <1>4, SumEmpty

LEMMA ListedNone ==
  ASSUME NEW o, NEW i, NEW statuses, \A k \in Key : o[k] = None
  PROVE  Listed(o, i, statuses) = 0 /\ IsFiniteSet(Placed(o))
<1> PICK f : f = LinesIn(o, i, statuses)
  OBVIOUS
<1>1. Of(o, statuses) = {} /\ Placed(o) = {}
  BY DEF Of, Placed
<1>2. DOMAIN f = {}
  BY <1>1 DEF LinesIn
<1>3. Listed(o, i, statuses) = SumFunctionOnSet(f, DOMAIN f)
  BY DEF Listed, SumFunction
<1>4. Listed(o, i, statuses) = SumFunctionOnSet(f, {})
  BY <1>2, <1>3, Zenon
<1>5. IsFiniteSet(Placed(o))
  BY <1>1, FS_EmptySet, Zenon
<1> QED
  BY <1>4, <1>5, SumEmpty

\* What Init says of one item.
LEMMA ItemAtStart ==
  ASSUME Init, NEW i \in Item
  PROVE  /\ items[i] \in ItemRow \cup {None}
         /\ items[i] # None <=> Opening[i] # None
         /\ items[i] # None => items[i].left = 0 /\ items[i].left <= items[i].total
                               /\ Valid(items[i])
         /\ balance[i] \in Nat \cup {None} /\ lots[i] \in Seq(Lot) /\ moves[i] \in Seq(MoveRow)
         /\ Units(lots[i]) = Have(i)
         /\ \A n \in DOMAIN moves[i] : moves[i][n].kind = "initial_stock"
<1> PICK o : o = Opening[i]
  OBVIOUS
<1>1. o = None \/ (o.qty \in Nat /\ o.cost \in Nat /\ o \in Lot /\ o # None)
  <2>1. o = None \/ o \in [qty : Nat \ {0}, cost : Nat \ {0}]
    BY StoreAssumption
  <2>2. CASE o # None
    BY <2>1, <2>2 DEF Lot
  <2> QED
    BY <2>2
<1>2. /\ items[i] = IF o = None THEN None ELSE
                    [NewRow(SalePriceFromCost(o.cost, DefaultMargin), o.cost)
                       EXCEPT !.margin = DefaultMargin]
      /\ balance[i] = IF o = None THEN None ELSE o.qty
      /\ lots[i] = IF o = None THEN << >> ELSE <<o>>
      /\ moves[i] = IF o = None THEN << >> ELSE
           <<[kind |-> "initial_stock", prev |-> 0, new |-> o.qty, count |-> None]>>
  BY DEF Init
<1>3. CASE o = None
  <2>1. items[i] = None /\ balance[i] = None /\ lots[i] = << >> /\ moves[i] = << >>
    BY <1>2, <1>3
  <2>2. Units(<< >>) = 0
    <3>1. [qty |-> 0, cost |-> 0] \in Lot
      BY DEF Lot
    <3> QED
      BY <3>1, UnitsOne
  <2>3. Have(i) = 0
    BY <2>1 DEF Have
  <2> QED
    BY <1>3, <2>1, <2>2, <2>3
<1>4. CASE o # None
  <2> PICK price : price = SalePriceFromCost(o.cost, DefaultMargin)
    OBVIOUS
  <2> PICK row : row = [price |-> RoundSalePriceCents(price), cost |-> o.cost, active |-> TRUE,
                        margin |-> DefaultMargin, promo |-> FALSE, promoMargin |-> None,
                        total |-> 0, left |-> 0]
    OBVIOUS
  <2> PICK m : m = [kind |-> "initial_stock", prev |-> 0, new |-> o.qty, count |-> None]
    OBVIOUS
  <2>1. items[i] = row /\ balance[i] = o.qty /\ lots[i] = <<o>> /\ moves[i] = <<m>>
    BY <1>2, <1>4 DEF NewRow
  <2>2. row \in ItemRow /\ row.left = 0 /\ row.total = 0 /\ row # None /\ Valid(row)
    <3>1. price \in Nat
      BY <1>1, <1>4, SaleNat DEF DefaultMargin
    <3>2. RoundSalePriceCents(price) \in Nat
      BY <3>1, RoundNat
    <3>3. row \in ItemRow
      BY <1>1, <1>4, <3>2 DEF ItemRow, DefaultMargin
    <3> QED
      BY ZenonT(40), <3>3, StoreAssumption DEF Valid
  <2>3. m \in MoveRow /\ m.kind = "initial_stock"
    BY <1>1, <1>4 DEF MoveRow, Kind
  <2>4. lots[i] \in Seq(Lot) /\ Units(lots[i]) = o.qty
    BY <1>1, <1>4, <2>1, UnitsOne
  <2>5. Have(i) = o.qty
    BY <1>1, <1>4, <2>1, StoreAssumption DEF Have
  <2>6. moves[i] \in Seq(MoveRow) /\ \A n \in DOMAIN moves[i] : moves[i][n] = m
    BY <2>1, <2>3
  <2> QED
    BY <1>1, <1>4, <2>1, <2>2, <2>3, <2>4, <2>5, <2>6
<1> QED
  BY <1>3, <1>4

LEMMA InitShop == Init => ShopInv
<1> SUFFICES ASSUME Init PROVE ShopInv
  OBVIOUS
<1>1. /\ tx = [t \in Txn |-> Idle] /\ locks = {} /\ orders = [k \in Key |-> None]
      /\ history = [i \in Item |-> << >>] /\ margin = DefaultMargin
      /\ promo = [i \in Item |-> [granted |-> 0, sold |-> 0, restored |-> 0]]
      /\ DOMAIN items = Item /\ DOMAIN balance = Item /\ DOMAIN lots = Item /\ DOMAIN moves = Item
  BY DEF Init
<1>2. items = [i \in Item |-> items[i]] /\ balance = [i \in Item |-> balance[i]]
      /\ lots = [i \in Item |-> lots[i]] /\ moves = [i \in Item |-> moves[i]]
  BY DEF Init
<1>3. PICK c \in Cart : carts = [d \in Cart |-> IF d = c THEN [open |-> TRUE, items |-> InCart]
                                                         ELSE None]
  BY DEF Init
<1>4. /\ carts \in [Cart -> CartRow \cup {None}]
      /\ \A d \in Cart, i \in Item : carts[d] \in CartRow /\ carts[d].items[i] > 0 => i \in Exists
  <2> PICK cart : cart = [open |-> TRUE, items |-> InCart]
    OBVIOUS
  <2>1. cart \in CartRow /\ \A i \in Item : cart.items[i] > 0 => Opening[i] # None
    BY StoreAssumption DEF CartRow
  <2>2. \A i \in Item : Opening[i] # None => i \in Exists
    BY ItemAtStart DEF Exists
  <2>3. \A d \in Cart : carts[d] = IF d = c THEN cart ELSE None
    BY <1>3
  <2>4. carts \in [Cart -> CartRow \cup {None}]
    BY <1>3, <2>1
  <2>5. None \notin CartRow
    BY StoreAssumption
  <2> QED
    BY <2>1, <2>2, <2>3, <2>4, <2>5
<1>5. TypeOK
  <2>1. items \in [Item -> ItemRow \cup {None}]
    BY <1>2, ItemAtStart
  <2>2. \A i \in Exists : items[i].left <= items[i].total /\ Valid(items[i])
    BY ItemAtStart DEF Exists
  <2>3. balance \in [Item -> Nat \cup {None}] /\ lots \in [Item -> Seq(Lot)]
        /\ moves \in [Item -> Seq(MoveRow)]
    BY <1>2, ItemAtStart
  <2>4. history \in [Item -> Seq([prev : Nat, new : Nat])]
    BY <1>1
  <2>5. promo \in [Item -> [granted : Nat, sold : Nat, restored : Nat]]
    BY <1>1
  <2>6. margin \in Nat /\ orders \in [Key -> OrderRow \cup {None}]
        /\ \A l \in locks : tx[l.tx] # Idle
    BY <1>1 DEF DefaultMargin
  <2> QED
    BY <1>4, <2>1, <2>2, <2>3, <2>4, <2>5, <2>6 DEF TypeOK
<1>6. LocksBusy /\ MutexOK
  BY <1>1 DEF LocksBusy, MutexOK
<1>7. ASSUME NEW t \in Txn PROVE AtWork(t)
  <2>1. tx[t] = Idle
    BY <1>1
  <2> QED
    BY <2>1, IdleOK, IdleLight
       DEF Light, AtWork, PriceRead, Priced, LotsTaken, OrderTaken, Locking, StockPc
<1>8. Rows
  <2>1. IsFiniteSet({k \in Key : orders[k] # None})
    <3>1. \A k \in Key : orders[k] = None
      BY <1>1
    <3> QED
      BY <3>1, ListedNone DEF Placed
  <2> QED
    BY <1>1, <1>4, <2>1 DEF Rows
<1>9. Quotas
  <2>1. \A i \in Item : LeftOf(i) = 0
    BY ItemAtStart DEF LeftOf, Exists
  <2> QED
    BY <1>1, <2>1 DEF Quotas
<1>10. PricesChain /\ LotsMatchBalance
  BY <1>1, ItemAtStart DEF PricesChain, LotsMatchBalance
<1>11. SoldIsOrdered
  <2>1. ASSUME NEW i \in Item, NEW kind \in {"sale", "return"}
        PROVE  MovedBy(i, kind) = 0
    <3>1. \A n \in DOMAIN moves[i] : moves[i][n].kind # kind
      BY ItemAtStart
    <3> QED
      BY <3>1, MovedNone, SoldListed
  <2>2. \A i, statuses : OrderedIn(i, statuses) = 0
    <3>1. \A k \in Key : orders[k] = None
      BY <1>1
    <3> QED
      BY <3>1, ListedNone, SoldListed
  <2> QED
    BY <2>1, <2>2 DEF SoldIsOrdered
<1> QED
  BY <1>5, <1>6, <1>7, <1>8, <1>9, <1>10, <1>11 DEF ShopInv



-------------------------------------------------------------------------------
(* The invariant, and what it says.                                          *)

LEMMA ShopStutter == ASSUME ShopInv, UNCHANGED vars PROVE ShopInv'
<1>1. /\ items' = items /\ history' = history /\ promo' = promo /\ margin' = margin
      /\ balance' = balance /\ lots' = lots /\ moves' = moves
      /\ carts' = carts /\ orders' = orders /\ locks' = locks /\ tx' = tx
  BY DEF vars, catalog, stock, sales
<1>2. Exists' = Exists
  BY <1>1 DEF Exists
<1>3. TypeOK' /\ LocksBusy' /\ MutexOK'
  BY <1>1, <1>2 DEF ShopInv, TypeOK, LocksBusy, MutexOK
<1>4. ASSUME NEW t \in Txn PROVE AtWork(t)'
  <2>1. AtWork(t)
    BY DEF ShopInv
  <2>2. Carried(tx[t])' /\ RowRead(tx[t])' /\ CartRead(tx[t])'
    BY <1>1, <1>2, <2>1 DEF AtWork, Carried, RowRead, CartRead
  <2>3. PriceRead(t)' /\ Priced(t)' /\ LotsTaken(t)' /\ OrderTaken(t)'
    BY <1>1, <2>1 DEF AtWork, PriceRead, Priced, LotsTaken, OrderTaken, Locked, Holds
  <2> QED
    BY <2>2, <2>3 DEF AtWork
<1>5. Rows' /\ Quotas' /\ PricesChain' /\ LotsMatchBalance'
  BY <1>1, <1>2 DEF ShopInv, Rows, Quotas, LeftOf, PricesChain, LotsMatchBalance, Have
<1>6. SoldIsOrdered'
  BY <1>1, SoldStays DEF ShopInv
<1> QED
  BY <1>3, <1>4, <1>5, <1>6 DEF ShopInv

LEMMA ContinueShop ==
  ASSUME Inv, StoreInv', NEW t \in Txn, Continue(t)
  PROVE  ShopInv'
<1>1. \/ CreateCart(t) \/ ChangeItems(t) \/ ReadCart(t) \/ InsertOrder(t)
      \/ \E i \in Item : PriceLine(t, i)
      \/ \E i \in Item : TakeLots(t, i)
      \/ \E i \in Item : TakeBalance(t, i)
      \/ \E i \in Item : Recalculate(t, i)
      \/ CommitCheckout(t) \/ CommitCancel(t) \/ CommitMovement(t)
      \/ ReadMargin(t) \/ ReadAverage(t) \/ LockPrice(t) \/ SetPrice(t)
      \/ WriteProduct(t) \/ WriteSKU(t) \/ SetRemainingLotsUnitCost(t)
  BY Zenon DEF Continue
<1> QED
  BY <1>1, CreateCartShop, ChangeItemsShop, ReadCartShop, InsertOrderShop, PriceLineShop,
     TakeLotsShop, TakeBalanceShop, RecalculateShop, CommitCheckoutShop, CommitCancelShop,
     CommitMovementShop, ReadMarginShop, ReadAverageShop, LockPriceShop, SetPriceShop, WriteProductShop,
     WriteSKUShop, SetRemainingLotsUnitCostShop

LEMMA ShopNext ==
  ASSUME Inv, StoreInv', Next
  PROVE  ShopInv'
<1>1. PICK t \in Txn :
        \/ getCart(t) \/ clearCart(t) \/ addItem(t) \/ setItemQuantity(t) \/ checkout(t)
        \/ cancelOrder(t) \/ createMovement(t) \/ registerEntry(t)
        \/ createProduct(t) \/ changePrice(t) \/ updateProduct(t) \/ updateSKU(t)
        \/ patchPricingSettings(t) \/ repriceAllProducts(t)
        \/ Continue(t) \/ Abort(t)
  BY DEF Next, Start
<1> QED
  BY <1>1, CartRequestsShop, CancelOrderShop, MovementRequestsShop, CreateProductShop,
     ChangePriceShop, UpdateProductShop, UpdateSKUShop, PatchPricingSettingsShop,
     RepriceAllProductsShop, ContinueShop, AbortShop

\* What a session has read under a lock on a product, a SKU, the lots or an
\* order stands until it commits: the promotional units of a checkout, the price
\* that a change replaces, the lots that a sale takes from (later ones come
\* behind them), the status of an order that is cancelled.
THEOREM ShopInvariant == Spec => []ShopInv
<1>1. ShopInv /\ StoreInv /\ StoreInv' /\ [Next]_vars => ShopInv'
  BY ShopNext, ShopStutter DEF Inv
<1> QED
  BY InitShop, <1>1, StoreInvariant, PTL DEF Spec

\* Every row keeps the checks of its table (quantities and prices that are not
\* negative, products_promo_*), whatever requests overlap, and a session that has
\* nothing to do holds no lock.
THEOREM Types == Spec => []TypeOK
<1>1. ShopInv => TypeOK
  BY DEF ShopInv
<1> QED
  BY ShopInvariant, <1>1, PTL

\* The lots of an item hold exactly the units that its balance says, although
\* sales write back lots that were read before entries added others behind them
\* (consumeLotsFIFOtx, applyMovementTx).
THEOREM LotsHoldTheBalance == Spec => []LotsMatchBalance
<1>1. ShopInv => LotsMatchBalance
  BY DEF ShopInv
<1> QED
  BY ShopInvariant, <1>1, PTL

\* Every order has left the stock once and every cancelled one has come back
\* once, however checkouts, cancellations and failures overlap (Checkout,
\* AdminCancelOrder).
THEOREM SoldAndReturnedOnce == Spec => []SoldIsOrdered
<1>1. ShopInv => SoldIsOrdered
  BY DEF ShopInv
<1> QED
  BY ShopInvariant, <1>1, PTL

\* No more units are sold at the promotional price than were granted, but for
\* those that an edit has written back (ConsumePromoQuotaTx, UpdateProduct).
THEOREM QuotaIsNotOversold == Spec => []PromoWithinQuota
<1>1. ShopInv => PromoWithinQuota
  BY DEF ShopInv, Quotas, LeftOf, PromoWithinQuota, Exists
<1> QED
  BY ShopInvariant, <1>1, PTL

\* Every change of a price is recorded with the price it replaced, also when the
\* price was calculated before another change (ChangeSKUPrice).
THEOREM PricesFormChain == Spec => []PricesChain
<1>1. ShopInv => PricesChain
  BY DEF ShopInv
<1> QED
  BY ShopInvariant, <1>1, PTL

\* Whatever promotion, price, cost and quota an item comes to have, no quantity
\* of it costs a collaborator more than others (applyCollaboratorMin, PriceLine).
THEOREM CollaboratorsPayNoMore == Spec => []CollaboratorPaysNoMore
<1>1. TypeOK => CollaboratorPaysNoMore
  <2> SUFFICES ASSUME TypeOK, NEW i \in Exists, NEW n \in Quantity, NEW m \in Margins
               PROVE  LineTotal(items[i], items[i].left, AverageCost(lots[i]), n, m)
                        <= LineTotal(items[i], items[i].left, AverageCost(lots[i]), n, None)
    BY DEF CollaboratorPaysNoMore
  <2> PICK row, left, average : row = items[i] /\ left = row.left /\ average = AverageCost(lots[i])
    OBVIOUS
  <2>1. i \in Item /\ row \in ItemRow /\ lots[i] \in Seq(Lot)
    BY DEF TypeOK, Exists
  <2>2. left \in Nat /\ average \in Nat
    BY <2>1, AverageNat DEF ItemRow
  <2>3. n \in Nat /\ m \in Percent
    BY StoreAssumption DEF Quantity, Percent
  <2> QED
    BY <2>1, <2>2, <2>3, LineNat
<1> QED
  BY Types, <1>1, PTL


-------------------------------------------------------------------------------
(* The shop as Warehouse: each commit is one of its steps, and nothing else  *)
(* changes what it sees.                                                     *)

Unseen == balance' = balance /\ orders' = orders

LEMMA UnseenStutters == ASSUME Unseen PROVE UNCHANGED Promise!vars
<1>1. UnitsOf' = UnitsOf
  BY DEF Unseen, UnitsOf, Have
<1>2. StateOf' = StateOf /\ LinesOf' = LinesOf
  BY DEF Unseen, StateOf, LinesOf
<1> QED
  BY <1>1, <1>2 DEF Promise!vars

\* A cart that is looked for is not stock, nor an order.
LEMMA CartUnseen ==
  ASSUME NEW t, getCart(t) \/ clearCart(t) \/ addItem(t) \/ setItemQuantity(t) \/ checkout(t)
  PROVE  Unseen
<1>1. ASSUME NEW r, FindCart(t, r) PROVE Unseen
  BY <1>1 DEF FindCart, stock, sales, Unseen
<1> QED
  BY <1>1 DEF getCart, clearCart, addItem, setItemQuantity, checkout, GetOrCreateCart,
     ClearCart, AddCartItem, SetCartItemQuantity, Checkout

LEMMA RequestUnseen ==
  ASSUME NEW t, \/ cancelOrder(t) \/ createMovement(t) \/ registerEntry(t) \/ createProduct(t)
                \/ changePrice(t) \/ updateProduct(t) \/ updateSKU(t)
                \/ patchPricingSettings(t) \/ repriceAllProducts(t)
  PROVE  Unseen
<1>1. ASSUME cancelOrder(t) PROVE Unseen
  BY Zenon, <1>1 DEF cancelOrder, AdminCancelOrder, stock, sales, Unseen
<1>2. ASSUME createMovement(t) \/ registerEntry(t) PROVE Unseen
  BY <1>2 DEF createMovement, registerEntry, RegisterEntry, RegisterOutbound,
     RegisterAdjustment, stock, sales, Unseen
<1>3. ASSUME createProduct(t) PROVE Unseen
  BY <1>3 DEF createProduct, CreateProduct, stock, sales, Unseen
<1>4. ASSUME changePrice(t) PROVE Unseen
  BY <1>4 DEF changePrice, ChangeSKUPrice, stock, sales, Unseen
<1>5. ASSUME updateProduct(t) PROVE Unseen
  BY <1>5 DEF updateProduct, UpdateProduct, stock, sales, Unseen
<1>6. ASSUME updateSKU(t) PROVE Unseen
  BY <1>6 DEF updateSKU, UpdateSKU, stock, sales, Unseen
<1>7. ASSUME patchPricingSettings(t) PROVE Unseen
  BY <1>7 DEF patchPricingSettings, SetDefaultMarginPercent, stock, sales, Unseen
<1>8. ASSUME repriceAllProducts(t) PROVE Unseen
  BY <1>8 DEF repriceAllProducts, RepriceAllProducts, stock, sales, Unseen
<1> QED
  BY <1>1, <1>2, <1>3, <1>4, <1>5, <1>6, <1>7, <1>8

\* What a session does before its commit, and to prices and products.
LEMMA StatementUnseen ==
  ASSUME NEW t, \/ CreateCart(t) \/ ChangeItems(t) \/ ReadCart(t) \/ InsertOrder(t)
                \/ \E i \in Item : PriceLine(t, i) \/ TakeLots(t, i) \/ TakeBalance(t, i) \/ Recalculate(t, i)
                \/ ReadMargin(t) \/ ReadAverage(t) \/ LockPrice(t) \/ SetPrice(t)
                \/ WriteProduct(t) \/ WriteSKU(t) \/ SetRemainingLotsUnitCost(t) \/ Abort(t)
  PROVE  Unseen
<1>1. ASSUME CreateCart(t) \/ ChangeItems(t) \/ ReadCart(t) \/ InsertOrder(t) PROVE Unseen
  BY Zenon, <1>1 DEF CreateCart, ChangeItems, ReadCart, InsertOrder, stock, sales, Unseen
<1>2. ASSUME NEW i, PriceLine(t, i) \/ TakeLots(t, i) \/ TakeBalance(t, i) \/ Recalculate(t, i)
      PROVE  Unseen
  BY Zenon, <1>2 DEF PriceLine, TakeLots, TakeBalance, Recalculate, stock, sales, Unseen
<1>3. ASSUME ReadMargin(t) \/ ReadAverage(t) \/ LockPrice(t) \/ SetPrice(t) PROVE Unseen
  BY SMTT(30), <1>3 DEF ReadMargin, ReadAverage, LockPrice, SetPrice, stock, sales, Unseen
<1>4. ASSUME WriteProduct(t) \/ WriteSKU(t) \/ SetRemainingLotsUnitCost(t) PROVE Unseen
  BY <1>4 DEF WriteProduct, WriteSKU, SetRemainingLotsUnitCost, stock, sales, Unseen
<1>5. ASSUME Abort(t) PROVE Unseen
  BY <1>5 DEF Abort, stock, sales, Unseen
<1> QED
  BY SMTT(30), <1>1, <1>2, <1>3, <1>4, <1>5

\* A commit changes the stock by what its lines say, and leaves none negative.
LEMMA UnitsCommitted ==
  ASSUME Inv, NEW t \in Txn, NEW r, r = tx[t], r.pc = "commit", WriteStock(r)
  PROVE  \A i \in Item : /\ UnitsOf[i] \in Nat /\ r.delta[i] \in Int
                         /\ UnitsOf[i] + r.delta[i] >= 0
                         /\ UnitsOf'[i] = UnitsOf[i] + r.delta[i]
<1> SUFFICES ASSUME NEW i \in Item
             PROVE  /\ UnitsOf[i] \in Nat /\ r.delta[i] \in Int
                    /\ UnitsOf[i] + r.delta[i] >= 0
                    /\ UnitsOf'[i] = UnitsOf[i] + r.delta[i]
  OBVIOUS
<1>1. StoreInv
  BY DEF Inv
<1>2. UnitsOf[i] = Have(i) /\ UnitsOf'[i] = Have(i)' /\ Have(i) \in Nat
  BY <1>1 DEF UnitsOf, Have, StoreInv, TablesOK
<1>3. /\ r.delta[i] \in Int
      /\ r.delta[i] # 0 => r.prev[i] = Have(i) /\ r.prev[i] + r.delta[i] \in Nat
  BY <1>1, LinesTaken
<1>4. balance'[i] = IF r.delta[i] # 0 THEN r.prev[i] + r.delta[i] ELSE balance[i]
  BY DEF WriteStock, Lines
<1>5. CASE r.delta[i] = 0
  BY <1>2, <1>4, <1>5 DEF Have
<1>6. CASE r.delta[i] # 0
  <2>1. Have(i)' = Have(i) + r.delta[i] /\ Have(i) + r.delta[i] \in Nat
    BY <1>3, <1>4, <1>6, StoreAssumption DEF Have
  <2> QED
    BY <1>2, <1>3, <2>1
<1> QED
  BY <1>5, <1>6

\* The commit of a checkout places its order, with all its lines.
LEMMA CheckoutPlaces ==
  ASSUME Inv, NEW t \in Txn, CommitCheckout(t)
  PROVE  Promise!Next
<1> PICK r : r = tx[t]
  OBVIOUS
<1> PICK k : k = r.key
  OBVIOUS
<1> PICK wanted : wanted = [i \in Item |-> - r.delta[i]]
  OBVIOUS
<1>0. PICK row : row = [status |-> "confirmed", lines |-> wanted, total |-> r.n]
  OBVIOUS
<1>1. /\ r.op = "checkout" /\ r.pc = "commit" /\ WriteStock(r)
      /\ orders' = [orders EXCEPT ![k] = row]
  BY <1>0 DEF CommitCheckout
<1>2. k \in Key /\ orders[k] = None
  <2>1. OrderTaken(t)
    BY OwnWork
  <2> QED
    BY <1>1, <2>1 DEF OrderTaken, StockPc
<1>3. /\ r.delta \in [Item -> Int] /\ r.delta # Nothing
      /\ \A i \in Item : r.delta[i] <= 0
  BY <1>1, OwnRequest DEF RequestOK, Inv
<1>4. /\ wanted \in [Item -> Nat]
      /\ \A i \in Item : wanted[i] \in Nat /\ r.delta[i] = 0 - wanted[i]
  BY <1>3
<1>5. \E i \in Item : wanted[i] > 0
  <2> SUFFICES ASSUME \A i \in Item : wanted[i] = 0 PROVE FALSE
    BY <1>4
  <2>1. \A i \in Item : r.delta[i] = 0
    BY <1>4
  <2> QED
    BY <1>3, <2>1 DEF Nothing
<1>6. \A i \in Item : /\ UnitsOf[i] \in Nat
                      /\ wanted[i] <= UnitsOf[i] /\ UnitsOf'[i] = UnitsOf[i] - wanted[i]
  BY <1>1, <1>4, UnitsCommitted
<1>7. UnitsOf' = [i \in Item |-> UnitsOf[i] - wanted[i]]
  BY <1>6 DEF UnitsOf
<1>8. row # None
  <2>1. row \in OrderRow
    <3>1. r.n \in Nat
      BY OwnWork DEF Carried
    <3> QED
      BY <1>0, <1>4, <3>1 DEF OrderRow
  <2> QED
    BY <2>1, StoreAssumption
<1>9. DOMAIN orders = Key
  BY DEF Inv, StoreInv, TablesOK
<1>10. orders'[k] = row /\ \A j \in Key : j # k => orders'[j] = orders[j]
  BY <1>1, <1>2, <1>9
<1>11. row.status = "confirmed" /\ row.lines = wanted
  BY <1>0
<1>12. StateOf[k] = "absent" /\ StateOf' = [StateOf EXCEPT ![k] = "placed"]
  BY <1>2, <1>8, <1>10, <1>11 DEF StateOf
<1>13. LinesOf' = [LinesOf EXCEPT ![k] = wanted] /\ LinesOf'[k] = wanted
  BY <1>2, <1>8, <1>10, <1>11 DEF LinesOf
<1>14. Promise!Place(k, wanted)
  BY <1>4, <1>5, <1>6, <1>7, <1>12, <1>13 DEF Promise!Place
<1> QED
  BY <1>2, <1>13, <1>14 DEF Promise!Next

\* The commit of a cancellation gives back what the order took.
LEMMA CancellationGivesBack ==
  ASSUME Inv, NEW t \in Txn, CommitCancel(t)
  PROVE  Promise!Next
<1> PICK r : r = tx[t]
  OBVIOUS
<1> PICK k : k = r.key
  OBVIOUS
<1>0. PICK row : row = [orders[k] EXCEPT !.status = "cancelled"]
  OBVIOUS
<1>1. /\ r.op = "cancel" /\ r.pc = "commit" /\ WriteStock(r)
      /\ orders' = [orders EXCEPT ![k] = row]
  BY <1>0 DEF CommitCancel
<1>2. /\ k \in Key /\ orders[k] \in OrderRow
      /\ orders[k].status = "confirmed" /\ r.delta = orders[k].lines
  <2>1. OrderTaken(t)
    BY OwnWork
  <2> QED
    BY <1>1, <2>1 DEF OrderTaken
<1>3. orders[k] # None
  BY <1>2, StoreAssumption
<1>4. row \in OrderRow /\ row.status = "cancelled" /\ row.lines = orders[k].lines
  <2> PICK old : old = orders[k]
    OBVIOUS
  <2> QED
    BY <1>0, <1>2 DEF OrderRow
<1>5. row # None
  BY <1>4, StoreAssumption
<1>6. DOMAIN orders = Key
  BY DEF Inv, StoreInv, TablesOK
<1>7. orders'[k] = row /\ \A j \in Key : j # k => orders'[j] = orders[j]
  BY <1>1, <1>2, <1>6
<1>8. StateOf[k] = "placed" /\ StateOf' = [StateOf EXCEPT ![k] = "cancelled"]
  BY <1>2, <1>3, <1>4, <1>5, <1>7 DEF StateOf
<1>9. LinesOf' = LinesOf /\ LinesOf[k] = r.delta
  BY <1>2, <1>3, <1>4, <1>5, <1>7 DEF LinesOf
<1>10. \A i \in Item : UnitsOf'[i] = UnitsOf[i] + LinesOf[k][i]
  BY <1>1, <1>9, UnitsCommitted
<1>11. UnitsOf' = [i \in Item |-> UnitsOf[i] + LinesOf[k][i]]
  BY <1>10 DEF UnitsOf
<1>12. Promise!Cancel(k)
  BY <1>8, <1>9, <1>11 DEF Promise!Cancel
<1> QED
  BY <1>2, <1>12 DEF Promise!Next

\* The commit of a movement changes the stock of its item, if of any.
LEMMA MovementMoves ==
  ASSUME Inv, NEW t \in Txn, CommitMovement(t)
  PROVE  Promise!Next \/ UNCHANGED Promise!vars
<1> PICK r : r = tx[t]
  OBVIOUS
<1>1. /\ r.op \in MovementOp /\ r.pc = "commit" /\ WriteStock(r) /\ orders' = orders
  BY DEF CommitMovement, sales, MovementOp
<1>2. \A i \in Item : r.delta[i] # 0 => i = r.item
  BY <1>1, OwnRequest DEF RequestOK, Inv
<1>3. \A i \in Item : /\ UnitsOf[i] \in Nat /\ r.delta[i] \in Int
                      /\ UnitsOf[i] + r.delta[i] >= 0
                      /\ UnitsOf'[i] = UnitsOf[i] + r.delta[i]
  BY <1>1, UnitsCommitted
<1>4. StateOf' = StateOf /\ LinesOf' = LinesOf
  BY <1>1 DEF StateOf, LinesOf
<1>5. CASE \A i \in Item : r.delta[i] = 0
  <2>1. \A i \in Item : UnitsOf'[i] = UnitsOf[i]
    BY <1>3, <1>5
  <2>2. UnitsOf' = UnitsOf
    BY <2>1 DEF UnitsOf
  <2> QED
    BY <1>4, <2>2 DEF Promise!vars
<1>6. CASE \E i \in Item : r.delta[i] # 0
  <2>1. PICK i \in Item : r.delta[i] # 0
    BY <1>6
  <2> PICK d : d = r.delta[i]
    OBVIOUS
  <2>2. d \in Int /\ UnitsOf[i] \in Nat /\ UnitsOf[i] + d >= 0 /\ UnitsOf'[i] = UnitsOf[i] + d
    BY <1>3
  <2>3. \A j \in Item : j # i => UnitsOf'[j] = UnitsOf[j]
    BY <1>2, <1>3, <2>1
  <2>4. UnitsOf' = [UnitsOf EXCEPT ![i] = UnitsOf[i] + d]
    BY <2>2, <2>3 DEF UnitsOf
  <2>5. UnitsOf'[i] - UnitsOf[i] = d
    BY <2>2
  <2>6. Promise!Move(i, d)
    BY <1>4, <2>2, <2>4 DEF Promise!Move
  <2> QED
    BY <2>5, <2>6 DEF Promise!Next
<1> QED
  BY <1>5, <1>6

LEMMA ShopOpens == Init => Promise!Init
<1> SUFFICES ASSUME Init PROVE Promise!Init
  OBVIOUS
<1>1. balance \in [Item -> Nat \cup {None}] /\ orders = [k \in Key |-> None]
  BY InitInv DEF StoreInv, TablesOK, Init
<1>2. UnitsOf \in [Item -> Nat]
  BY <1>1 DEF UnitsOf, Have
<1>3. StateOf = [k \in Key |-> "absent"] /\ LinesOf = [k \in Key |-> [i \in Item |-> 0]]
  BY <1>1 DEF StateOf, LinesOf, Nothing
<1> QED
  BY <1>2, <1>3 DEF Promise!Init

LEMMA StepSells == ShopInv /\ StoreInv /\ [Next]_vars => [Promise!Next]_(Promise!vars)
<1> SUFFICES ASSUME Inv, [Next]_vars PROVE Promise!Next \/ UNCHANGED Promise!vars
  BY DEF Inv
<1>1. ASSUME UNCHANGED vars PROVE Unseen
  BY <1>1 DEF vars, stock, sales, Unseen
<1>2. ASSUME NEW t \in Txn, Start(t) \/ Abort(t) PROVE Unseen
  BY <1>2, CartUnseen, RequestUnseen, StatementUnseen DEF Start
<1>3. ASSUME NEW t \in Txn, Continue(t) PROVE Promise!Next \/ UNCHANGED Promise!vars
  <2>1. Unseen \/ CommitCheckout(t) \/ CommitCancel(t) \/ CommitMovement(t)
    BY <1>3, StatementUnseen DEF Continue
  <2> QED
    BY <2>1, UnseenStutters, CheckoutPlaces, CancellationGivesBack, MovementMoves
<1> QED
  BY <1>1, <1>2, <1>3, UnseenStutters DEF Next

\* Whatever requests overlap, statement by statement, the shop sells, takes back
\* and counts as Warehouse does in single steps: a checkout takes all the units
\* of an order, which are there, or none; an order is placed once and given back
\* once; a movement changes one item (Checkout, AdminCancelOrder, applyMovementTx).
THEOREM ShopImplementsWarehouse == Spec => SellsAsPromised
<1>1. Init => Promise!Init
  BY ShopOpens
<1>2. ShopInv /\ StoreInv /\ [Next]_vars => [Promise!Next]_(Promise!vars)
  BY StepSells
<1> QED
  BY <1>1, <1>2, ShopInvariant, StoreInvariant, PTL DEF Spec, SellsAsPromised, Promise!Spec

===============================================================================
