--------------------------------- MODULE Store ---------------------------------
(***************************************************************************)
(* The shop: cart, checkout and cancellation with their stock, manual      *)
(* movements, prices and promotions (packages sales, inventory, catalog).  *)
(*                                                                         *)
(* A request is a session that runs statement by statement; an action is a *)
(* statement that reads or locks rows, or a commit, which also does the    *)
(* writes of its transaction.  A product has one SKU (CreateProduct inserts*)
(* both), so an item is both rows.  There is one customer; limit, exposure *)
(* and billing of an order belong to Ledger.                               *)
(***************************************************************************)
EXTENDS Pricing, RowLocks

CONSTANTS
  Item,          \* products, each with its SKU
  Cart,          \* carts that can be created
  Key,           \* idempotency keys; an order is named by its key
  Opening,       \* items that exist at the start, with their stock
  InCart,        \* what the customer has in the cart at the start
  Edits,         \* what an administrator may change of a product
  Costs,         \* unit costs in cents
  Margins,       \* margins in percent
  CollabMargin,  \* margin of the customer as a collaborator, or None
  MaxQuantity,   \* bound: quantity of a request
  MaxRequests    \* bound: how many requests are made

VARIABLES
  items,     \* [Item -> rows of products and skus, or None]
  balance,   \* [Item -> available_quantity, or None]
  lots,      \* [Item -> rows of inventory_lots, the oldest first]
  moves,     \* [Item -> rows of stock_movements, in order]
  history,   \* [Item -> rows of price_history, in order]
  promo,     \* [Item -> promotional units granted, sold, and written back]
  margin,    \* store_settings default_margin_percent
  carts,     \* [Cart -> row with its items, or None]
  orders,    \* [Key -> row with its lines, or None]
  requests,  \* how many requests have been made
  tx         \* [Txn -> what the session is doing]

catalog == <<items, history, promo, margin>>
stock == <<balance, lots, moves>>
sales == <<carts, orders>>
vars == <<catalog, stock, sales, requests, locks, tx>>

Quantity == 1 .. MaxQuantity
Kind == {"entry", "initial_stock", "sale", "loss", "adjustment", "return"}

\* Rows of products with their SKU, carts with their items, orders with their lines.
ItemRow == [price : Nat, cost : Nat \cup {None}, active : BOOLEAN, margin : Int,
            promo : BOOLEAN, promoMargin : (0 .. 1000) \cup {None}, total : Nat, left : Nat]

CartRow == [open : BOOLEAN, items : [Item -> Nat]]

OrderRow == [status : {"confirmed", "cancelled"}, lines : [Item -> Nat], total : Nat]

\* What UpdateProductInput says of a product; None for what it leaves.
EditRow == [margin : Int \cup {None}, promo : BOOLEAN \cup {None},
            promoMargin : (0 .. 1000) \cup {None}, quantity : Int \cup {None},
            active : BOOLEAN \cup {None}]

ASSUME StoreAssumption ==
  /\ Opening \in [Item -> {None} \cup [qty : Nat \ {0}, cost : Nat \ {0}]]
  /\ Costs \subseteq Nat \ {0} /\ Margins \subseteq 0 .. 1000
  /\ CollabMargin \in (0 .. 1000) \cup {None}
  /\ InCart \in [Item -> Nat] /\ \A i \in Item : Opening[i] = None => InCart[i] = 0
  /\ MaxQuantity \in Nat \ {0} /\ MaxRequests \in Nat
  /\ None \notin Item \cup Cart \cup Key \cup Int
  /\ None \notin ItemRow /\ None \notin CartRow /\ None \notin OrderRow
  /\ Edits \subseteq EditRow

Nothing == [i \in Item |-> 0]

Idle == [op |-> "idle", pc |-> "idle", todo |-> {}, again |-> {}, item |-> None,
         key |-> None, cart |-> None, delta |-> Nothing, n |-> 0, row |-> None,
         left |-> Nothing, promo |-> Nothing, prev |-> Nothing, cost |-> Nothing,
         lots |-> [i \in Item |-> <<>>]]

Request(op, pc) == [Idle EXCEPT !.op = op, !.pc = pc]

\* A session takes up a request.
Begin(t, r) ==
  /\ tx[t] = Idle /\ requests < MaxRequests
  /\ requests' = requests + 1
  /\ tx' = [tx EXCEPT ![t] = r]

NewRow(price, cost) ==
  [price |-> RoundSalePriceCents(price), cost |-> cost, active |-> TRUE,
   margin |-> margin, promo |-> FALSE, promoMargin |-> None, total |-> 0, left |-> 0]

DefaultMargin == 30

Init ==
  /\ margin = DefaultMargin
  /\ items = [i \in Item |-> IF Opening[i] = None THEN None ELSE
                [NewRow(SalePriceFromCost(Opening[i].cost, DefaultMargin), Opening[i].cost)
                   EXCEPT !.margin = DefaultMargin]]
  /\ balance = [i \in Item |-> IF Opening[i] = None THEN None ELSE Opening[i].qty]
  /\ lots = [i \in Item |-> IF Opening[i] = None THEN <<>> ELSE <<Opening[i]>>]
  /\ moves = [i \in Item |-> IF Opening[i] = None THEN <<>> ELSE
                <<[kind |-> "initial_stock", prev |-> 0, new |-> Opening[i].qty, count |-> None]>>]
  /\ history = [i \in Item |-> <<>>]
  /\ promo = [i \in Item |-> [granted |-> 0, sold |-> 0, restored |-> 0]]
  /\ \E c \in Cart : carts = [d \in Cart |-> IF d = c THEN [open |-> TRUE, items |-> InCart]
                                                       ELSE None]
  /\ orders = [k \in Key |-> None]
  /\ requests = 0
  /\ locks = {}
  /\ tx = [t \in Txn |-> Idle]

Exists == {i \in Item : items[i] # None}

-------------------------------------------------------------------------------
(* The cart (sales/service.go): no transaction, each statement on its own.   *)

\* GetOrCreateCart, first statement: any active cart, no index keeps it unique.
FindCart(t, r) ==
  \E c \in Cart \cup {None} :
    /\ IF \A d \in Cart : carts[d] # None => ~carts[d].open
         THEN c = None ELSE c # None /\ carts[c] # None /\ carts[c].open
    /\ Begin(t, [r EXCEPT !.cart = c, !.pc = IF c = None THEN "create_cart" ELSE "cart"])
    /\ UNCHANGED <<catalog, stock, sales, locks>>

\* Reads the cart, and may have to create it first.
GetOrCreateCart(t) == FindCart(t, Request("get", "cart"))

AddCartItem(t, i, n) ==
  FindCart(t, [Request("add", "cart") EXCEPT !.item = i, !.n = n])

SetCartItemQuantity(t, i, n) ==
  FindCart(t, [Request("set", "cart") EXCEPT !.item = i, !.n = n])

ClearCart(t) == FindCart(t, Request("clear", "cart"))

CreateCart(t) ==
  /\ tx[t].pc = "create_cart"
  /\ \E c \in Cart :
       /\ carts[c] = None
       /\ carts' = [carts EXCEPT ![c] = [open |-> TRUE, items |-> Nothing]]
       /\ tx' = [tx EXCEPT ![t] = [@ EXCEPT !.cart = c, !.pc = "cart"]]
  /\ UNCHANGED <<catalog, stock, orders, requests, locks>>

\* The statement on cart_items, whatever has become of the cart.
ChangeItems(t) ==
  LET r == tx[t]  have == carts[r.cart].items IN
  /\ r.pc = "cart" /\ r.op \in {"get", "add", "set", "clear"}
  /\ carts' = [carts EXCEPT ![r.cart].items =
       IF r.op = "get" THEN have ELSE IF r.op = "clear" THEN Nothing
       ELSE [have EXCEPT ![r.item] = IF r.op = "add" THEN @ + r.n ELSE r.n]]
  /\ tx' = [tx EXCEPT ![t] = Idle]
  /\ UNCHANGED <<catalog, stock, orders, requests, locks>>

-------------------------------------------------------------------------------
(* Checkout (sales/service.go) up to the stock.                              *)

\* No order has the key yet; the customer may buy (Ledger).
Checkout(t, k) ==
  /\ orders[k] = None
  /\ FindCart(t, [Request("checkout", "cart") EXCEPT !.key = k])

\* loadCart, and the transaction begins.
ReadCart(t) ==
  LET r == tx[t] IN
  /\ r.pc = "cart" /\ r.op = "checkout"
  /\ carts[r.cart].items # Nothing
  /\ tx' = [tx EXCEPT ![t] =
       [r EXCEPT !.pc = "price",
                 !.delta = [i \in Item |-> - carts[r.cart].items[i]],
                 !.todo = {i \in Item : carts[r.cart].items[i] > 0}]]
  /\ UNCHANGED <<catalog, stock, sales, requests, locks>>

\* FOR UPDATE OF s, p
LockItem(t, i) == locks \cup {[row |-> <<row, i>>, tx |-> t, mode |-> "X"] : row \in {"sku", "product"}}

\* mutant: SKU and product are read without FOR UPDATE
PriceLineUnlocked(t, i) ==
  LET r == tx[t]  row == items[i]  quantity == - r.delta[i] IN
  /\ r.pc = "price" /\ i \in r.todo
  /\ row.active
  /\ tx' = [tx EXCEPT ![t] =
       [r EXCEPT !.todo = @ \ {i},
                 !.n = @ + LineTotal(row, row.left, AverageCost(lots[i]), quantity, CollabMargin),
                 !.promo[i] = PromoUnits(row, row.left, quantity),
                 !.left[i] = row.left,
                 !.pc = IF r.todo = {i} THEN "order" ELSE "price"]]
  /\ UNCHANGED <<catalog, stock, sales, requests, locks>>

\* A line: SELECT ... FOR UPDATE OF s, p; PriceLine; ConsumePromoQuotaTx.
PriceLine(t, i) ==
  LET r == tx[t]  row == items[i]  quantity == - r.delta[i] IN
  /\ r.pc = "price" /\ i \in r.todo
  /\ CanLock(t, <<"sku", i>>, "X") /\ CanLock(t, <<"product", i>>, "X")
  /\ row.active
  /\ locks' = LockItem(t, i)
  /\ tx' = [tx EXCEPT ![t] =
       [r EXCEPT !.todo = @ \ {i},
                 !.n = @ + LineTotal(row, row.left, AverageCost(lots[i]), quantity, CollabMargin),
                 !.promo[i] = PromoUnits(row, row.left, quantity),
                 !.left[i] = row.left,
                 !.pc = IF r.todo = {i} THEN "order" ELSE "price"]]
  /\ UNCHANGED <<catalog, stock, sales, requests>>

Lines(r) == {i \in Item : r.delta[i] # 0}

\* INSERT INTO orders: the unique index makes the key a lock.
InsertOrder(t) ==
  LET r == tx[t] IN
  /\ r.pc = "order"
  /\ CanLock(t, <<"order", r.key>>, "X") /\ orders[r.key] = None
  /\ locks' = WithLock(t, <<"order", r.key>>, "X")
  /\ tx' = [tx EXCEPT ![t] = [r EXCEPT !.pc = "stock", !.todo = Lines(r)]]
  /\ UNCHANGED <<catalog, stock, sales, requests>>

-------------------------------------------------------------------------------
(* Cancellation (sales/admin_orders.go).                                     *)

\* mutant: the order is read without FOR UPDATE
AdminCancelOrderUnlocked(t, k) ==
  /\ orders[k] # None /\ orders[k].status = "confirmed"
  /\ Begin(t, [Request("cancel", "stock") EXCEPT
       !.key = k, !.delta = orders[k].lines, !.todo = {i \in Item : orders[k].lines[i] > 0}])
  /\ UNCHANGED <<catalog, stock, sales, locks>>

AdminCancelOrder(t, k) ==
  /\ CanLock(t, <<"order", k>>, "X")
  /\ orders[k] # None /\ orders[k].status = "confirmed"
  /\ Begin(t, [Request("cancel", "stock") EXCEPT
       !.key = k, !.delta = orders[k].lines, !.todo = {i \in Item : orders[k].lines[i] > 0}])
  /\ locks' = WithLock(t, <<"order", k>>, "X")
  /\ UNCHANGED <<catalog, stock, sales>>

-------------------------------------------------------------------------------
(* Manual movements (inventory/movements.go).                                *)

Movement(kind, i, delta) ==
  [Request(kind, "stock") EXCEPT !.item = i, !.delta[i] = delta, !.todo = {i}]

RegisterEntry(t, i, n, paid) ==
  /\ i \in Exists
  /\ Begin(t, [Movement("entry", i, n) EXCEPT !.cost[i] = EntryUnitCostCents(paid, 0, n)])
  /\ UNCHANGED <<catalog, stock, sales, locks>>

RegisterOutbound(t, i, n) ==
  /\ i \in Exists
  /\ Begin(t, Movement("loss", i, -n))
  /\ UNCHANGED <<catalog, stock, sales, locks>>

Have(i) == IF balance[i] = None THEN 0 ELSE balance[i]

\* mutant: the balance is read without FOR UPDATE
RegisterAdjustmentUnlocked(t, i, count) ==
  /\ i \in Exists /\ count # Have(i)
  /\ Begin(t, [Movement("adjustment", i, count - Have(i)) EXCEPT
                 !.n = count, !.row = balance[i]])
  /\ UNCHANGED <<catalog, stock, sales, locks>>

\* currentBalance: a row that does not exist cannot be locked.  n: the count
RegisterAdjustment(t, i, count) ==
  /\ i \in Exists /\ count # Have(i)
  /\ balance[i] # None => CanLock(t, <<"balance", i>>, "X")
  /\ Begin(t, [Movement("adjustment", i, count - Have(i)) EXCEPT
                 !.n = count, !.row = balance[i]])
  /\ locks' = IF balance[i] = None THEN locks ELSE WithLock(t, <<"balance", i>>, "X")
  /\ UNCHANGED <<catalog, stock, sales>>

\* CreateProduct commits, then RegisterInitialStock is a transaction of its own.
CreateProduct(t, i, price, cost, n) ==
  /\ items[i] = None
  /\ items' = [items EXCEPT ![i] = NewRow(price, cost)]
  /\ Begin(t, IF n = 0 THEN Idle
              ELSE [Movement("initial_stock", i, n) EXCEPT
                      !.cost[i] = IF cost = None THEN 0 ELSE cost])
  /\ UNCHANGED <<history, promo, margin, stock, sales, locks>>

-------------------------------------------------------------------------------
(* The stock of sales, returns and movements (applyMovementTx).              *)

\* mutant: the lots are read without FOR UPDATE
TakeLotsUnlocked(t, i) ==
  LET r == tx[t] IN
  /\ r.pc = "stock" /\ i \in r.todo /\ r.delta[i] < 0
  /\ Units(lots[i]) >= - r.delta[i]
  /\ tx' = [tx EXCEPT ![t] = [r EXCEPT !.pc = "balance", !.item = i, !.lots[i] = lots[i]]]
  /\ UNCHANGED <<catalog, stock, sales, requests, locks>>

\* consumeLotsFIFOtx: the lots there are now; new ones are added behind them.
TakeLots(t, i) ==
  LET r == tx[t] IN
  /\ r.pc = "stock" /\ i \in r.todo /\ r.delta[i] < 0
  /\ CanLock(t, <<"lots", i>>, "X")
  /\ Units(lots[i]) >= - r.delta[i]
  /\ locks' = WithLock(t, <<"lots", i>>, "X")
  /\ tx' = [tx EXCEPT ![t] = [r EXCEPT !.pc = "balance", !.item = i, !.lots[i] = lots[i]]]
  /\ UNCHANGED <<catalog, stock, sales, requests>>

Fallback(i) == IF items[i].cost = None THEN 0 ELSE items[i].cost

\* The unit cost of the lot that comes in.
UnitCost(r, i) ==
  IF r.op \in {"entry", "initial_stock"} THEN r.cost[i]
  ELSE IF r.op = "adjustment" /\ Units(lots[i]) > 0 THEN AverageCost(lots[i])
  ELSE Fallback(i)

\* mutant: the balance is guarded neither by FOR UPDATE nor by its version
TakeBalanceUnlocked(t, i) ==
  LET r == tx[t] IN
  /\ IF r.delta[i] < 0 THEN r.pc = "balance" /\ r.item = i
                       ELSE r.pc = "stock" /\ i \in r.todo
  /\ Have(i) + r.delta[i] >= 0
  /\ tx' = [tx EXCEPT ![t] =
       [r EXCEPT !.todo = @ \ {i}, !.prev[i] = Have(i), !.cost[i] = UnitCost(r, i),
                 !.pc = IF r.todo = {i} THEN "commit" ELSE "stock"]]
  /\ UNCHANGED <<catalog, stock, sales, requests, locks>>

\* lockBalance; the movement refers to the SKU, whose cost an entry updates.  The
\* UPDATE also asks for the version that was read, which under the lock it finds.
TakeBalance(t, i) ==
  LET r == tx[t]
      mode == IF r.op = "entry" THEN "X" ELSE "S"
  IN
  /\ IF r.delta[i] < 0 THEN r.pc = "balance" /\ r.item = i
                       ELSE r.pc = "stock" /\ i \in r.todo
  /\ CanLock(t, <<"balance", i>>, "X") /\ CanLock(t, <<"sku", i>>, mode)
  /\ Have(i) + r.delta[i] >= 0
  /\ locks' = WithLock(t, <<"balance", i>>, "X")
                \cup {[row |-> <<"sku", i>>, tx |-> t, mode |-> mode]}
  /\ tx' = [tx EXCEPT ![t] =
       [r EXCEPT !.todo = @ \ {i}, !.prev[i] = Have(i), !.cost[i] = UnitCost(r, i),
                 !.pc = IF r.todo = {i} THEN "commit" ELSE "stock"]]
  /\ UNCHANGED <<catalog, stock, sales, requests>>

MovementRow(r, i) ==
  [kind |-> IF r.op = "checkout" THEN "sale" ELSE IF r.op = "cancel" THEN "return" ELSE r.op,
   prev |-> r.prev[i], new |-> r.prev[i] + r.delta[i],
   count |-> IF r.op = "adjustment" /\ r.row # None THEN r.n ELSE None]

\* Lots that were locked are written back as consumed; lots that came later stay.
LotsAfter(r, i) ==
  IF r.delta[i] > 0 THEN Append(lots[i], [qty |-> r.delta[i], cost |-> r.cost[i]])
  ELSE ConsumeFIFO(r.lots[i], - r.delta[i])
         \o SubSeq(lots[i], Len(r.lots[i]) + 1, Len(lots[i]))

\* The writes on the stock that a commit makes visible.
WriteStock(r) ==
  /\ balance' = [i \in Item |-> IF i \in Lines(r) THEN r.prev[i] + r.delta[i] ELSE balance[i]]
  /\ lots' = [i \in Item |-> IF i \in Lines(r) THEN LotsAfter(r, i) ELSE lots[i]]
  /\ moves' = [i \in Item |-> IF i \in Lines(r) THEN Append(moves[i], MovementRow(r, i))
                                                ELSE moves[i]]

\* The transaction ends; the request goes on to the prices of some items.
Finish(t, todo, again) ==
  /\ locks' = WithoutLocks(t)
  /\ tx' = [tx EXCEPT ![t] = IF todo = {} THEN Idle ELSE
               [Request("price", "recalc") EXCEPT !.todo = todo, !.again = again]]

\* ConsumePromoQuotaTx for the lines of an order.
Consumed(r, i) ==
  LET left == r.left[i] - r.promo[i]
  IN  IF r.promo[i] = 0 THEN items[i] ELSE [items[i] EXCEPT !.left = left, !.promo = @ /\ left > 0]

PromoEnded(r) == {i \in Lines(r) : r.promo[i] > 0 /\ r.promo[i] = r.left[i]}

CommitCheckout(t) ==
  LET r == tx[t] IN
  /\ r.op = "checkout" /\ r.pc = "commit"
  /\ WriteStock(r)
  /\ items' = [i \in Item |-> IF i \in Lines(r) THEN Consumed(r, i) ELSE items[i]]
  /\ promo' = [i \in Item |-> [promo[i] EXCEPT !.sold = @ + r.promo[i]]]
  /\ orders' = [orders EXCEPT ![r.key] =
       [status |-> "confirmed", lines |-> [i \in Item |-> - r.delta[i]], total |-> r.n]]
  /\ carts' = [carts EXCEPT ![r.cart] = [open |-> FALSE, items |-> Nothing]]
  /\ Finish(t, Lines(r), PromoEnded(r))
  /\ UNCHANGED <<history, margin, requests>>

CommitCancel(t) ==
  LET r == tx[t] IN
  /\ r.op = "cancel" /\ r.pc = "commit"
  /\ WriteStock(r)
  /\ orders' = [orders EXCEPT ![r.key].status = "cancelled"]
  /\ Finish(t, {}, {})
  /\ UNCHANGED <<catalog, carts, requests>>

CommitMovement(t) ==
  LET r == tx[t] IN
  /\ r.op \in {"entry", "initial_stock", "loss", "adjustment"} /\ r.pc = "commit"
  /\ WriteStock(r)
  /\ items' = IF r.op = "entry" THEN [items EXCEPT ![r.item].cost = r.cost[r.item]] ELSE items
  /\ Finish(t, Lines(r), {})
  /\ UNCHANGED <<history, promo, margin, sales, requests>>

-------------------------------------------------------------------------------
(* Prices (catalog/pricing.go, catalog/service.go).                          *)

\* Whatever comes of the item at hand, the next one is taken up.
NextItem(r, i) ==
  LET rest == r.todo \ {i}
      todo == IF rest = {} THEN r.again ELSE rest
  IN  IF todo = {} THEN Idle
      ELSE [Request("price", "recalc") EXCEPT
              !.todo = todo, !.again = IF rest = {} THEN {} ELSE r.again]

\* RecalculateSKU: n holds the price that is read first.
Recalculate(t, i) ==
  LET r == tx[t] IN
  /\ r.pc = "recalc" /\ i \in r.todo
  /\ tx' = [tx EXCEPT ![t] = [r EXCEPT !.pc = "margin", !.item = i, !.n = items[i].price]]
  /\ UNCHANGED <<catalog, stock, sales, requests, locks>>

\* effectiveMarginForProduct, a later read; row holds the margin.
ReadMargin(t) ==
  LET r == tx[t] IN
  /\ r.pc = "margin"
  /\ tx' = [tx EXCEPT ![t] = [r EXCEPT !.pc = "average",
                                       !.row = EffectiveMarginPercent(items[r.item])]]
  /\ UNCHANGED <<catalog, stock, sales, requests, locks>>

\* avgCostFn; nothing is changed when there is no cost or the price is the same.
ReadAverage(t) ==
  LET r == tx[t]
      price == SalePriceFromCost(AverageCost(lots[r.item]), r.row)
  IN
  /\ r.pc = "average"
  /\ tx' = [tx EXCEPT ![t] = IF price <= 0 \/ price = r.n THEN NextItem(r, r.item)
                             ELSE [r EXCEPT !.pc = "lock_price", !.n = price]]
  /\ UNCHANGED <<catalog, stock, sales, requests, locks>>

\* mutant: the price is read without FOR UPDATE
LockPriceUnlocked(t) ==
  LET r == tx[t] IN
  /\ r.pc = "lock_price"
  /\ tx' = [tx EXCEPT ![t] = [r EXCEPT !.pc = "set_price", !.row = items[r.item].price]]
  /\ UNCHANGED <<catalog, stock, sales, requests, locks>>

\* ChangeSKUPrice: SELECT ... FOR UPDATE; row holds the previous price.
LockPrice(t) ==
  LET r == tx[t] IN
  /\ r.pc = "lock_price"
  /\ CanLock(t, <<"sku", r.item>>, "X")
  /\ locks' = WithLock(t, <<"sku", r.item>>, "X")
  /\ tx' = [tx EXCEPT ![t] = [r EXCEPT !.pc = "set_price", !.row = items[r.item].price]]
  /\ UNCHANGED <<catalog, stock, sales, requests>>

SetPrice(t) ==
  LET r == tx[t] IN
  /\ r.pc = "set_price"
  /\ items' = [items EXCEPT ![r.item].price = r.n]
  /\ history' = [history EXCEPT ![r.item] = Append(@, [prev |-> r.row, new |-> r.n])]
  /\ locks' = WithoutLocks(t)
  /\ tx' = [tx EXCEPT ![t] = NextItem(r, r.item)]
  /\ UNCHANGED <<promo, margin, stock, sales, requests>>

ChangeSKUPrice(t, i, price) ==
  /\ i \in Exists
  /\ Begin(t, [Request("price", "lock_price") EXCEPT
                 !.item = i, !.n = RoundSalePriceCents(price)])
  /\ UNCHANGED <<catalog, stock, sales, locks>>

-------------------------------------------------------------------------------
(* Products and SKUs (catalog/admin.go, pricing.go): reads, then one write.   *)

Given(value, old) == IF value = None THEN old ELSE value

\* mutant: the end of a promotion leaves what is left of its quota
EditedKeepsLeft(row, e) ==
  LET on == Given(e.promo, row.promo)
      total == Given(e.quantity, row.total)
  IN  [row EXCEPT
         !.margin = Given(e.margin, @), !.active = Given(e.active, @), !.promo = on,
         !.promoMargin = IF on THEN Given(e.promoMargin, @) ELSE None,
         !.total = IF on THEN total ELSE 0,
         !.left = IF e.quantity # None \/ @ <= 0 THEN total ELSE @]

\* The columns that UpdateProduct writes, from the row it has read.
Edited(row, e) ==
  LET on == Given(e.promo, row.promo)
      total == Given(e.quantity, row.total)
  IN  [row EXCEPT
         !.margin = Given(e.margin, @), !.active = Given(e.active, @), !.promo = on,
         !.promoMargin = IF on THEN Given(e.promoMargin, @) ELSE None,
         !.total = IF on THEN total ELSE 0,
         !.left = IF ~on THEN 0 ELSE IF e.quantity # None \/ @ <= 0 THEN total ELSE @]

Valid(row) == row.promo => row.promoMargin # None /\ row.total > 0

Reprices(e) == \E f \in {"margin", "promo", "promoMargin", "quantity"} : e[f] # None

\* GetProduct, without a lock; left holds the quota that is written back as read.
UpdateProduct(t, i, e) ==
  /\ i \in Exists /\ Valid(Edited(items[i], e))
  /\ Begin(t, [Request("edit", "write_product") EXCEPT
       !.item = i, !.row = Edited(items[i], e),
       !.todo = IF Reprices(e) THEN {i} ELSE {},
       !.left[i] = IF e.quantity # None \/ items[i].left <= 0 THEN 0 ELSE items[i].left])
  /\ UNCHANGED <<catalog, stock, sales, locks>>

\* The units that a write makes available: what was left when the row was read
\* is written back, although some may have been sold meanwhile; the rest is new.
PromoAfter(r) ==
  LET i == r.item  kept == r.left[i] IN
  [promo EXCEPT ![i] = [promo[i] EXCEPT
     !.granted = @ + IF kept = 0 THEN r.row.left ELSE 0,
     !.restored = @ + IF kept > items[i].left /\ r.row.left > 0 THEN kept - items[i].left ELSE 0]]

WriteProduct(t) ==
  LET r == tx[t]  i == r.item IN
  /\ r.op = "edit" /\ r.pc = "write_product"
  /\ CanLock(t, <<"product", i>>, "X")
  /\ items' = [items EXCEPT ![i] = [r.row EXCEPT !.price = items[i].price, !.cost = items[i].cost]]
  /\ promo' = PromoAfter(r)
  /\ Finish(t, r.todo, {})
  /\ UNCHANGED <<history, margin, stock, sales, requests>>

\* UpdateSKU, of the cost or, with None, of another column, and its handler.
UpdateSKU(t, i, cost) ==
  /\ i \in Exists
  /\ Begin(t, [Request("sku", "write_sku") EXCEPT
                 !.item = i, !.row = Given(cost, items[i].cost),
                 !.n = IF cost = None THEN 0 ELSE cost])
  /\ UNCHANGED <<catalog, stock, sales, locks>>

WriteSKU(t) ==
  LET r == tx[t] IN
  /\ r.pc = "write_sku"
  /\ CanLock(t, <<"sku", r.item>>, "X")
  /\ items' = [items EXCEPT ![r.item].cost = r.row]
  /\ tx' = [tx EXCEPT ![t] = IF r.n = 0 THEN Idle ELSE [r EXCEPT !.pc = "lots_cost"]]
  /\ UNCHANGED <<history, promo, margin, stock, sales, requests, locks>>

SetRemainingLotsUnitCost(t) ==
  LET r == tx[t] IN
  /\ r.pc = "lots_cost"
  /\ CanLock(t, <<"lots", r.item>>, "X")
  /\ lots' = [lots EXCEPT ![r.item] =
       [k \in DOMAIN @ |-> IF @[k].qty > 0 THEN [@[k] EXCEPT !.cost = r.n] ELSE @[k]]]
  /\ Finish(t, {r.item}, {})
  /\ UNCHANGED <<catalog, balance, moves, sales, requests>>

SetDefaultMarginPercent(t, m) ==
  /\ Begin(t, Idle)
  /\ margin' = m
  /\ UNCHANGED <<items, history, promo, stock, sales, locks>>

\* The margins in one statement, then each product on its own.
RepriceAllProducts(t, m) ==
  /\ \A i \in Exists : CanLock(t, <<"product", i>>, "X")
  /\ Exists # {}
  /\ items' = [i \in Item |-> IF i \in Exists THEN [items[i] EXCEPT !.margin = m] ELSE items[i]]
  /\ Begin(t, [Request("price", "recalc") EXCEPT !.todo = Exists])
  /\ UNCHANGED <<history, promo, margin, stock, sales, locks>>

-------------------------------------------------------------------------------
\* An error, a lost connection, the victim of a deadlock: the transaction is
\* rolled back; what the request has committed stays.
Abort(t) ==
  /\ tx[t] # Idle
  /\ tx' = [tx EXCEPT ![t] = Idle]
  /\ locks' = WithoutLocks(t)
  /\ UNCHANGED <<catalog, stock, sales, requests>>

\* The handlers, each with the requests that it lets through.
getCart(t) == GetOrCreateCart(t)
clearCart(t) == ClearCart(t)
addItem(t) == \E i \in Exists, n \in Quantity : AddCartItem(t, i, n)
setItemQuantity(t) == \E i \in Exists, n \in Quantity \cup {0} : SetCartItemQuantity(t, i, n)
checkout(t) == \E k \in Key : Checkout(t, k)
cancelOrder(t) == \E k \in Key : AdminCancelOrder(t, k)
createMovement(t) ==
  \E i \in Item :
    \/ \E n \in Quantity, cost \in Costs : RegisterEntry(t, i, n, n * cost)
    \/ \E n \in Quantity : RegisterOutbound(t, i, n)
    \/ \E count \in Quantity \cup {0} : RegisterAdjustment(t, i, count)
registerEntry(t) ==
  \E i \in Item, n \in Quantity, cost \in Costs : RegisterEntry(t, i, n, n * cost)
createProduct(t) ==
  \E i \in Item, price \in Costs, cost \in Costs, n \in Quantity \cup {0} :
    CreateProduct(t, i, price, cost, n)
changePrice(t) == \E i \in Item, price \in Costs : ChangeSKUPrice(t, i, price)
updateProduct(t) == \E i \in Item, e \in Edits : UpdateProduct(t, i, e)
updateSKU(t) == \E i \in Item, cost \in Costs \cup {None} : UpdateSKU(t, i, cost)
patchPricingSettings(t) == \E m \in Margins : SetDefaultMarginPercent(t, m)
repriceAllProducts(t) == \E m \in Margins : RepriceAllProducts(t, m)

\* A session goes on with its request.
Continue(t) ==
  \/ CreateCart(t) \/ ChangeItems(t) \/ ReadCart(t) \/ InsertOrder(t)
  \/ \E i \in Item : PriceLine(t, i) \/ TakeLots(t, i) \/ TakeBalance(t, i) \/ Recalculate(t, i)
  \/ CommitCheckout(t) \/ CommitCancel(t) \/ CommitMovement(t)
  \/ ReadMargin(t) \/ ReadAverage(t) \/ LockPrice(t) \/ SetPrice(t)
  \/ WriteProduct(t) \/ WriteSKU(t) \/ SetRemainingLotsUnitCost(t)

\* A session takes up a request only when it has none and more may be made.
Start(t) ==
  /\ tx[t] = Idle /\ requests < MaxRequests
  /\ \/ getCart(t) \/ clearCart(t) \/ addItem(t) \/ setItemQuantity(t) \/ checkout(t)
     \/ cancelOrder(t) \/ createMovement(t) \/ registerEntry(t)
     \/ createProduct(t) \/ changePrice(t) \/ updateProduct(t) \/ updateSKU(t)
     \/ patchPricingSettings(t) \/ repriceAllProducts(t)

Next == \E t \in Txn : Start(t) \/ Continue(t) \/ Abort(t)

Spec == Init /\ [][Next]_vars

-------------------------------------------------------------------------------
MoveRow == [kind : Kind, prev : Nat, new : Nat, count : Nat \cup {None}]

\* The rows keep the checks of their tables (products_promo_*, quantities and
\* prices not negative), and locks belong to sessions that are at work.
TypeOK ==
  /\ items \in [Item -> ItemRow \cup {None}]
  /\ \A i \in Exists : items[i].left <= items[i].total /\ Valid(items[i])
  /\ balance \in [Item -> Nat \cup {None}]
  /\ lots \in [Item -> Seq(Lot)]
  /\ moves \in [Item -> Seq(MoveRow)]
  /\ history \in [Item -> Seq([prev : Nat, new : Nat])]
  /\ promo \in [Item -> [granted : Nat, sold : Nat, restored : Nat]]
  /\ margin \in Nat
  /\ carts \in [Cart -> CartRow \cup {None}]
  /\ orders \in [Key -> OrderRow \cup {None}]
  /\ \A l \in locks : tx[l.tx] # Idle

\* The lots of an item hold exactly the units that its balance says, although
\* sales, returns and movements lock lots and balance in different orders
\* (applyMovementTx).
LotsMatchBalance == \A i \in Item : Units(lots[i]) = Have(i)

\* The movements of an item form a chain that leads from nothing to its balance
\* (stock_movements: previous_balance, new_balance).
MovementsChain ==
  \A i \in Item :
    /\ \A n \in DOMAIN moves[i] :
         moves[i][n].prev = IF n = 1 THEN 0 ELSE moves[i][n - 1].new
    /\ Have(i) = IF moves[i] = <<>> THEN 0 ELSE Last(moves[i]).new

MovedBy(i, kind) ==
  SumFunction([n \in {m \in DOMAIN moves[i] : moves[i][m].kind = kind} |->
                 moves[i][n].new - moves[i][n].prev])

OrderedIn(i, statuses) ==
  SumFunction([k \in {j \in Key : orders[j] # None /\ orders[j].status \in statuses} |->
                 orders[k].lines[i]])

\* What left the stock by sales is what the orders list, and what came back is
\* what the cancelled ones list: each once (Checkout, AdminCancelOrder).
SoldIsOrdered ==
  \A i \in Item :
    /\ MovedBy(i, "sale") = - OrderedIn(i, {"confirmed", "cancelled"})
    /\ MovedBy(i, "return") = OrderedIn(i, {"cancelled"})

\* No more units are sold at the promotional price than were granted, except
\* those that an edit has written back after they were sold: UpdateProduct
\* writes the quota that it read without a lock (ConsumePromoQuotaTx).
PromoWithinQuota ==
  \A i \in Exists :
    promo[i].sold + items[i].left <= promo[i].granted + promo[i].restored

\* Every change of a price is recorded, with the price it replaced
\* (ChangeSKUPrice, whoever calls it).
PricesChain ==
  \A i \in Item :
    /\ \A n \in 2 .. Len(history[i]) : history[i][n].prev = history[i][n - 1].new
    /\ history[i] # <<>> => items[i].price = Last(history[i]).new

\* An adjustment leaves the stock at what was counted, unless there was no
\* balance row to lock when it was compared (RegisterAdjustment).
AdjustedToCount ==
  \A i \in Item : \A n \in DOMAIN moves[i] :
    moves[i][n].count # None => moves[i][n].new = moves[i][n].count

\* Whatever promotion, price and stock there are, no quantity costs a
\* collaborator more than it costs others (applyCollaboratorMin, PriceLine).
CollaboratorPaysNoMore ==
  \A i \in Exists, n \in Quantity, m \in Margins :
    LineTotal(items[i], items[i].left, AverageCost(lots[i]), n, m)
      <= LineTotal(items[i], items[i].left, AverageCost(lots[i]), n, None)

\* Stock and orders, as the abstract specification sees them.
UnitsOf == [i \in Item |-> Have(i)]

StateOf == [k \in Key |-> IF orders[k] = None THEN "absent"
                         ELSE IF orders[k].status = "confirmed" THEN "placed" ELSE "cancelled"]

LinesOf == [k \in Key |-> IF orders[k] = None THEN Nothing ELSE orders[k].lines]

Promise == INSTANCE Warehouse WITH units <- UnitsOf, state <- StateOf, lines <- LinesOf

\* However many sessions sell, cancel and count at the same time, statement by
\* statement, the stock and the orders change as the abstract specification
\* promises: whole orders, one after the other (Checkout, AdminCancelOrder,
\* applyMovementTx).
SellsAsPromised == Promise!Spec

===============================================================================
