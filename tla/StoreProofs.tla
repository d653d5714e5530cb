------------------------------ MODULE StoreProofs ------------------------------
(***************************************************************************)
(* Proofs about Store, for any number of sessions, items, carts and orders *)
(* and whatever prices and quantities there are: the movements of an item  *)
(* form a chain, and an adjustment leaves what was counted.                *)
(***************************************************************************)
EXTENDS Store, TLAPS

StockPc == {"stock", "balance", "commit"}

Fields == {"op", "pc", "todo", "again", "item", "key", "cart", "delta", "n", "row",
           "left", "promo", "prev", "cost", "lots"}

Mine(t, i) == Holds(t, <<"balance", i>>, "X")

IsCart(c) == DOMAIN c = {"open", "items"} /\ c.items \in [Item -> Nat]

IsOrder(o) == DOMAIN o = {"status", "lines", "total"} /\ o.lines \in [Item -> Nat]

\* The requests for a movement, each of one item.
MovementOp == {"entry", "initial_stock", "loss", "adjustment"}

\* What a session knows of its request, whatever the tables hold.
RequestOK(r) ==
  /\ DOMAIN r = Fields
  /\ r.delta \in [Item -> Int] /\ r.prev \in [Item -> Int]
  /\ r.pc \in {"create_cart", "cart"} => r.n \in Nat
  /\ r.op = "checkout" => /\ \A i \in Item : r.delta[i] <= 0
                          /\ r.pc \notin {"create_cart", "cart"} => r.delta # Nothing
  /\ r.op \in MovementOp => /\ r.pc \in StockPc /\ r.todo \subseteq {r.item}
                        /\ \A i \in Item : r.delta[i] # 0 => i = r.item
  /\ r.op = "adjustment" => r.n \in Nat

\* What it has locked and read: the balance of every line that is done with.
Taken(t) ==
  /\ tx[t].pc \in StockPc => \A i \in Item : tx[t].delta[i] # 0 /\ i \notin tx[t].todo =>
       Mine(t, i) /\ tx[t].prev[i] = Have(i) /\ Have(i) + tx[t].delta[i] >= 0
  /\ tx[t].pc = "commit" => tx[t].todo = {}

\* The difference between the count and the balance, if there was a row to lock.
Counted(t) ==
  tx[t].op = "adjustment" /\ tx[t].pc \in StockPc /\ tx[t].row # None =>
    /\ tx[t].item \in Item /\ Mine(t, tx[t].item)
    /\ tx[t].delta[tx[t].item] = tx[t].n - Have(tx[t].item)

SessionOK(t) ==
  /\ RequestOK(tx[t])
  /\ tx[t].pc = "cart" => tx[t].cart \in Cart /\ IsCart(carts[tx[t].cart])
  /\ tx[t].op = "cancel" => tx[t].key \in Key /\ IsOrder(orders[tx[t].key])
  /\ Taken(t)
  /\ Counted(t)

BalanceMutex ==
  \A t, u \in Txn, i \in Item : Mine(t, i) /\ Mine(u, i) => t = u

TablesOK ==
  /\ DOMAIN tx = Txn
  /\ balance \in [Item -> Nat \cup {None}]
  /\ moves \in [Item -> Seq(MoveRow)]
  /\ DOMAIN carts = Cart /\ \A c \in Cart : carts[c] = None \/ IsCart(carts[c])
  /\ DOMAIN orders = Key /\ \A k \in Key : orders[k] = None \/ IsOrder(orders[k])

StoreInv ==
  /\ TablesOK
  /\ BalanceMutex
  /\ \A t \in Txn : SessionOK(t)
  /\ MovementsChain
  /\ AdjustedToCount

-------------------------------------------------------------------------------
(* What a step of one session leaves to the others.                          *)

\* The locks on balances: those of the others stay, and t gets none of theirs.
LocksKept(t) ==
  \A i \in Item :
    /\ \A u \in Txn \ {t} : Mine(u, i)' <=> Mine(u, i)
    /\ Mine(t, i)' => Mine(t, i) \/ \A u \in Txn \ {t} : ~Mine(u, i)

CartsKept ==
  /\ DOMAIN carts' = Cart
  /\ \A c \in Cart : /\ carts'[c] = None \/ IsCart(carts'[c])
                     /\ IsCart(carts[c]) => IsCart(carts'[c])

OrdersKept ==
  /\ DOMAIN orders' = Key
  /\ \A k \in Key : /\ orders'[k] = None \/ IsOrder(orders'[k])
                    /\ IsOrder(orders[k]) => IsOrder(orders'[k])

LEMMA SameCarts == ASSUME StoreInv, carts' = carts PROVE CartsKept
BY DEF StoreInv, TablesOK, CartsKept

LEMMA SameOrders == ASSUME StoreInv, orders' = orders PROVE OrdersKept
BY DEF StoreInv, TablesOK, OrdersKept

LEMMA SameLocks == ASSUME NEW t \in Txn, locks' = locks PROVE LocksKept(t)
BY DEF LocksKept, Mine, Holds

LEMMA DroppedLocks == ASSUME NEW t \in Txn, locks' = WithoutLocks(t) PROVE LocksKept(t)
BY DEF LocksKept, Mine, Holds, WithoutLocks

LEMMA OtherLock ==
  ASSUME NEW t \in Txn, NEW table \in {"sku", "product", "lots", "order"}, NEW x, NEW mode,
         locks' = WithLock(t, <<table, x>>, mode)
  PROVE  LocksKept(t)
<1>1. \A i : <<table, x>> # <<"balance", i>>
  OBVIOUS
<1> QED
  BY <1>1 DEF LocksKept, Mine, Holds, WithLock

LEMMA BothLocks ==
  ASSUME NEW t \in Txn, NEW i, locks' = LockItem(t, i)
  PROVE  LocksKept(t)
<1>1. \A j : <<"sku", i>> # <<"balance", j>> /\ <<"product", i>> # <<"balance", j>>
  OBVIOUS
<1> QED
  BY <1>1 DEF LocksKept, Mine, Holds, LockItem

Gets(t, i) == LocksKept(t) /\ Mine(t, i)' /\ \A j \in Item : Mine(t, j) => Mine(t, j)'

\* A lock on a balance, perhaps with others that are on other rows.
LEMMA BalanceLock ==
  ASSUME NEW t \in Txn, NEW i \in Item, CanLock(t, <<"balance", i>>, "X"), NEW others,
         \A l \in others, j \in Item : l.row # <<"balance", j>>,
         locks' = WithLock(t, <<"balance", i>>, "X") \cup others
  PROVE  Gets(t, i)
<1>1. \A u \in Txn, j \in Item : [row |-> <<"balance", j>>, tx |-> u, mode |-> "X"] \notin others
  OBVIOUS
<1>2. \A j : <<"balance", i>> = <<"balance", j>> => i = j
  OBVIOUS
<1>3. \A u \in Txn \ {t} : ~Mine(u, i)
  BY DEF CanLock, Mine, Holds
<1>4. /\ \A u \in Txn \ {t}, j \in Item : Mine(u, j)' <=> Mine(u, j)
      /\ \A j \in Item : Mine(t, j) => Mine(t, j)'
      /\ \A j \in Item : Mine(t, j)' => Mine(t, j) \/ j = i
      /\ Mine(t, i)'
  BY <1>1, <1>2 DEF Mine, Holds, WithLock
<1> QED
  BY <1>3, <1>4 DEF LocksKept, Gets

LEMMA OthersKeep ==
  ASSUME StoreInv, NEW t \in Txn, NEW u \in Txn, t # u, tx'[u] = tx[u],
         LocksKept(t), CartsKept, OrdersKept,
         \A i \in Item : balance'[i] = balance[i] \/ Mine(t, i)
  PROVE  SessionOK(u)'
<1> PICK r : r = tx[u]
  OBVIOUS
<1>1. tx[u] = r /\ tx'[u] = r /\ SessionOK(u)
  BY DEF StoreInv
<1>2. \A i \in Item : Mine(u, i) => Mine(u, i)' /\ Have(i)' = Have(i)
  BY DEF LocksKept, StoreInv, BalanceMutex, Have
<1>3. RequestOK(tx[u])'
  BY <1>1 DEF SessionOK, RequestOK
<1>4. /\ tx'[u].pc = "cart" => tx'[u].cart \in Cart /\ IsCart(carts'[tx'[u].cart])
      /\ tx'[u].op = "cancel" => tx'[u].key \in Key /\ IsOrder(orders'[tx'[u].key])
  BY <1>1 DEF SessionOK, CartsKept, OrdersKept
<1>5. Taken(u)'
  BY <1>1, <1>2 DEF SessionOK, Taken
<1>6. Counted(u)'
  BY <1>1, <1>2 DEF SessionOK, Counted
<1> QED
  BY <1>3, <1>4, <1>5, <1>6 DEF SessionOK

LEMMA MutexKept ==
  ASSUME StoreInv, NEW t \in Txn, LocksKept(t)
  PROVE  BalanceMutex'
BY DEF StoreInv, BalanceMutex, LocksKept

\* A step that leaves balances and movements alone.
LEMMA QuietStep ==
  ASSUME StoreInv, NEW t \in Txn, NEW s, tx' = [tx EXCEPT ![t] = s],
         balance' = balance, moves' = moves,
         LocksKept(t), CartsKept, OrdersKept, RequestOK(s),
         s.pc = "cart" => s.cart \in Cart /\ IsCart(carts'[s.cart]),
         s.op = "cancel" => s.key \in Key /\ IsOrder(orders'[s.key]),
         s.pc \in StockPc => Taken(t)' /\ Counted(t)'
  PROVE  StoreInv'
<1>1. tx'[t] = s /\ DOMAIN tx' = Txn /\ \A u \in Txn \ {t} : tx'[u] = tx[u]
  BY DEF StoreInv, TablesOK
<1>2. TablesOK'
  BY <1>1 DEF StoreInv, TablesOK, CartsKept, OrdersKept
<1>3. Taken(t)' /\ Counted(t)'
  BY <1>1 DEF Taken, Counted, StockPc
<1>4. SessionOK(t)'
  BY <1>1, <1>3 DEF SessionOK, RequestOK
<1>5. \A u \in Txn : SessionOK(u)'
  BY <1>1, <1>4, OthersKeep
<1>6. MovementsChain' /\ AdjustedToCount'
  BY DEF StoreInv, MovementsChain, AdjustedToCount, Have
<1> QED
  BY <1>2, <1>5, <1>6, MutexKept DEF StoreInv

-------------------------------------------------------------------------------
(* The requests.                                                             *)

LEMMA NothingZero == Nothing \in [Item -> Nat] /\ Nothing \in [Item -> Int] /\ \A i \in Item : Nothing[i] = 0
BY DEF Nothing

LEMMA RequestFields ==
  ASSUME NEW op, NEW pc
  PROVE  /\ DOMAIN Request(op, pc) = Fields
         /\ Request(op, pc).op = op /\ Request(op, pc).pc = pc
         /\ Request(op, pc).todo = {}
         /\ Request(op, pc).n = 0 /\ Request(op, pc).row = None
         /\ Request(op, pc).delta = Nothing /\ Request(op, pc).prev = Nothing
BY DEF Request, Idle, Fields

LEMMA IdleOK == RequestOK(Idle) /\ Idle.pc = "idle" /\ Idle.op = "idle"
BY NothingZero DEF RequestOK, MovementOp, Idle, Fields

\* A request for a movement, before anything is read for it.
IsMovement(s, kind, i, d) ==
  /\ DOMAIN s = Fields /\ s.op = kind /\ s.pc = "stock"
  /\ s.todo = {i} /\ s.item = i
  /\ s.n = 0 /\ s.row = None /\ s.prev = Nothing
  /\ s.delta \in [Item -> Int] /\ s.delta[i] = d
  /\ \A j \in Item \ {i} : s.delta[j] = 0

LEMMA MovementFields ==
  ASSUME NEW kind, NEW i \in Item, NEW d \in Int
  PROVE  IsMovement(Movement(kind, i, d), kind, i, d)
<1> PICK s : s = Movement(kind, i, d)
  OBVIOUS
<1> PICK r : r = Request(kind, "stock")
  OBVIOUS
<1>1. /\ DOMAIN r = Fields /\ r.op = kind /\ r.pc = "stock"
      /\ r.n = 0 /\ r.row = None /\ r.prev = Nothing /\ r.delta = Nothing
  BY RequestFields
<1>2. s = [r EXCEPT !.item = i, !.delta = [Nothing EXCEPT ![i] = d], !.todo = {i}]
  BY <1>1 DEF Movement
<1>3. [Nothing EXCEPT ![i] = d] \in [Item -> Int]
  BY NothingZero
<1> QED
  BY <1>1, <1>2, <1>3, NothingZero DEF Fields, IsMovement

-------------------------------------------------------------------------------
(* The cart.                                                                 *)

LEMMA FindCartInv ==
  ASSUME StoreInv, NEW t \in Txn, NEW r, RequestOK(r), r.n \in Nat,
         r.op \notin {"cancel"} \cup MovementOp, FindCart(t, r)
  PROVE  StoreInv'
<1>1. PICK c \in Cart \cup {None} :
        /\ c # None => carts[c] # None
        /\ tx' = [tx EXCEPT ![t] = [r EXCEPT !.cart = c,
                                             !.pc = IF c = None THEN "create_cart" ELSE "cart"]]
        /\ balance' = balance /\ moves' = moves
        /\ carts' = carts /\ orders' = orders /\ locks' = locks
  BY DEF FindCart, Begin, stock, sales
<1>2. PICK pc : pc = IF c = None THEN "create_cart" ELSE "cart"
  OBVIOUS
<1> DEFINE s == [r EXCEPT !.cart = c, !.pc = pc]
<1>3. /\ DOMAIN s = Fields /\ s.cart = c /\ s.pc = pc /\ s.op = r.op /\ s.n = r.n
      /\ s.delta = r.delta /\ s.prev = r.prev /\ s.todo = r.todo
      /\ s.item = r.item
  BY DEF RequestOK, Fields
<1>4. tx' = [tx EXCEPT ![t] = s]
  BY <1>1, <1>2
<1> HIDE DEF s
<1>5. RequestOK(s)
  BY <1>2, <1>3 DEF RequestOK, MovementOp
<1>6. s.pc = "cart" => s.cart \in Cart /\ IsCart(carts'[s.cart])
  BY <1>1, <1>2, <1>3 DEF StoreInv, TablesOK
<1>7. s.pc \notin StockPc
  BY <1>2, <1>3 DEF StockPc
<1> QED
  BY <1>1, <1>3, <1>4, <1>5, <1>6, <1>7, SameLocks, SameCarts, SameOrders, QuietStep

LEMMA CartRequestsInv ==
  ASSUME StoreInv, NEW t \in Txn,
         getCart(t) \/ clearCart(t) \/ addItem(t) \/ setItemQuantity(t) \/ checkout(t)
  PROVE  StoreInv'
<1>0. Quantity \cup {0} \subseteq Nat
  BY StoreAssumption DEF Quantity
<1>1. ASSUME NEW op \in {"get", "clear", "add", "set", "checkout"}, FindCart(t, Request(op, "cart"))
      PROVE  StoreInv'
  <2>1. /\ RequestOK(Request(op, "cart")) /\ Request(op, "cart").n \in Nat
        /\ Request(op, "cart").op \notin {"cancel"} \cup MovementOp
    BY RequestFields, NothingZero DEF RequestOK, MovementOp
  <2> QED
    BY <1>1, <2>1, FindCartInv
<1>2. ASSUME NEW op \in {"get", "clear", "add", "set", "checkout"}, NEW i, NEW n \in Nat,
             FindCart(t, [Request(op, "cart") EXCEPT !.item = i, !.n = n])
      PROVE  StoreInv'
  <2> PICK r : r = Request(op, "cart")
    OBVIOUS
  <2>1. /\ DOMAIN r = Fields /\ r.op = op /\ r.pc = "cart" /\ r.todo = {}
        /\ r.prev = Nothing /\ r.delta = Nothing
    BY RequestFields
  <2> PICK s : s = [r EXCEPT !.item = i, !.n = n]
    OBVIOUS
  <2>2. RequestOK(s) /\ s.n \in Nat /\ s.op \notin {"cancel"} \cup MovementOp
    BY <2>1, NothingZero DEF RequestOK, MovementOp, Fields
  <2>3. FindCart(t, s)
    BY <1>2
  <2> QED
    BY <2>2, <2>3, FindCartInv
<1>3. ASSUME NEW k, FindCart(t, [Request("checkout", "cart") EXCEPT !.key = k])
      PROVE  StoreInv'
  <2> PICK r : r = Request("checkout", "cart")
    OBVIOUS
  <2>1. /\ DOMAIN r = Fields /\ r.op = "checkout" /\ r.pc = "cart"
        /\ r.todo = {} /\ r.n = 0 /\ r.prev = Nothing /\ r.delta = Nothing
    BY RequestFields
  <2> PICK s : s = [r EXCEPT !.key = k]
    OBVIOUS
  <2>2. RequestOK(s) /\ s.n \in Nat /\ s.op \notin {"cancel"} \cup MovementOp
    BY <2>1, NothingZero DEF RequestOK, MovementOp, Fields
  <2>3. FindCart(t, s)
    BY <1>3
  <2> QED
    BY <2>2, <2>3, FindCartInv
<1>4. \/ \E op \in {"get", "clear"} : FindCart(t, Request(op, "cart"))
      \/ \E op \in {"add", "set"}, i \in Exists, n \in Quantity \cup {0} :
           FindCart(t, [Request(op, "cart") EXCEPT !.item = i, !.n = n])
      \/ \E k \in Key : FindCart(t, [Request("checkout", "cart") EXCEPT !.key = k])
  <2>1. getCart(t) => FindCart(t, Request("get", "cart"))
    BY DEF getCart, GetOrCreateCart
  <2>2. clearCart(t) => FindCart(t, Request("clear", "cart"))
    BY DEF clearCart, ClearCart
  <2>3. addItem(t) => \E i \in Exists, n \in Quantity :
          FindCart(t, [Request("add", "cart") EXCEPT !.item = i, !.n = n])
    BY DEF addItem, AddCartItem
  <2>4. setItemQuantity(t) => \E i \in Exists, n \in Quantity \cup {0} :
          FindCart(t, [Request("set", "cart") EXCEPT !.item = i, !.n = n])
    BY DEF setItemQuantity, SetCartItemQuantity
  <2>5. checkout(t) => \E k \in Key : FindCart(t, [Request("checkout", "cart") EXCEPT !.key = k])
    BY DEF checkout, Checkout
  <2> QED
    BY <2>1, <2>2, <2>3, <2>4, <2>5, Zenon
<1> QED
  BY <1>0, <1>1, <1>2, <1>3, <1>4, Zenon

LEMMA CreateCartInv ==
  ASSUME StoreInv, NEW t \in Txn, CreateCart(t)
  PROVE  StoreInv'
<1> PICK r : r = tx[t]
  OBVIOUS
<1>1. PICK c \in Cart :
        /\ carts' = [carts EXCEPT ![c] = [open |-> TRUE, items |-> Nothing]]
        /\ tx' = [tx EXCEPT ![t] = [r EXCEPT !.cart = c, !.pc = "cart"]]
        /\ balance' = balance /\ moves' = moves /\ orders' = orders /\ locks' = locks
        /\ r.pc = "create_cart"
  BY DEF CreateCart, stock
<1> DEFINE s == [r EXCEPT !.cart = c, !.pc = "cart"]
<1>2. RequestOK(r) /\ r.op = "cancel" => IsOrder(orders[r.key]) /\ r.key \in Key
  BY DEF StoreInv, SessionOK
<1>3. /\ DOMAIN s = Fields /\ s.cart = c /\ s.pc = "cart" /\ s.op = r.op /\ s.n = r.n
      /\ s.delta = r.delta /\ s.prev = r.prev /\ s.todo = r.todo
      /\ s.item = r.item /\ s.key = r.key /\ RequestOK(r)
  BY DEF StoreInv, SessionOK, RequestOK, Fields
<1> HIDE DEF s
<1>4. RequestOK(s) /\ s.pc \notin StockPc
  BY <1>1, <1>3 DEF RequestOK, StockPc
<1>5. IsCart([open |-> TRUE, items |-> Nothing])
  BY NothingZero DEF IsCart
<1>6. CartsKept /\ IsCart(carts'[c])
  BY <1>1, <1>5 DEF CartsKept, StoreInv, TablesOK
<1> QED
  BY <1>1, <1>2, <1>3, <1>4, <1>6, SameLocks, SameOrders, QuietStep DEF s

LEMMA IdleStep ==
  ASSUME StoreInv, NEW t \in Txn, tx' = [tx EXCEPT ![t] = Idle],
         balance' = balance, moves' = moves, LocksKept(t), CartsKept, OrdersKept
  PROVE  StoreInv'
<1>1. RequestOK(Idle) /\ Idle.pc \notin StockPc /\ Idle.pc # "cart" /\ Idle.op # "cancel"
  BY IdleOK DEF StockPc
<1> PICK s : s = Idle
  OBVIOUS
<1> QED
  BY <1>1, QuietStep

LEMMA ChangeItemsInv ==
  ASSUME StoreInv, NEW t \in Txn, ChangeItems(t)
  PROVE  StoreInv'
<1> PICK r : r = tx[t]
  OBVIOUS
<1> PICK have : have = carts[r.cart].items
  OBVIOUS
<1>1. PICK items_ :
        /\ items_ = IF r.op = "get" THEN have ELSE IF r.op = "clear" THEN Nothing
             ELSE [have EXCEPT ![r.item] = IF r.op = "add" THEN have[r.item] + r.n ELSE r.n]
        /\ carts' = [carts EXCEPT ![r.cart].items = items_]
  BY DEF ChangeItems
<1>2. /\ tx' = [tx EXCEPT ![t] = Idle]
      /\ balance' = balance /\ moves' = moves /\ orders' = orders /\ locks' = locks
      /\ r.pc = "cart"
  BY DEF ChangeItems, stock
<1>3. r.cart \in Cart /\ IsCart(carts[r.cart]) /\ r.n \in Nat /\ have \in [Item -> Nat]
  BY <1>2 DEF StoreInv, SessionOK, RequestOK, IsCart
<1>4. items_ \in [Item -> Nat]
  <2>1. CASE r.item \in Item
    <3>1. have[r.item] + r.n \in Nat
      BY <1>3, <2>1
    <3> QED
      BY <1>1, <1>3, <3>1, NothingZero
  <2>2. CASE r.item \notin Item
    BY <1>1, <1>3, <2>2, NothingZero
  <2> QED
    BY SMTT(30), <2>1, <2>2
<1>5. carts'[r.cart] = [carts[r.cart] EXCEPT !.items = items_]
  BY <1>1, <1>3 DEF StoreInv, TablesOK
<1>6. IsCart(carts'[r.cart])
  BY SMTT(30), <1>3, <1>4, <1>5 DEF IsCart
<1>7. CartsKept
  BY <1>1, <1>3, <1>6 DEF CartsKept, StoreInv, TablesOK
<1> QED
  BY <1>2, <1>7, SameLocks, SameOrders, IdleStep

-------------------------------------------------------------------------------
(* Checkout and cancellation up to the stock.                                *)

\* What the invariant says of the session's own request.
LEMMA OwnRequest ==
  ASSUME StoreInv, NEW t \in Txn, NEW r, r = tx[t]
  PROVE  /\ RequestOK(r) /\ DOMAIN r = Fields
         /\ r.pc = "cart" => r.cart \in Cart /\ IsCart(carts[r.cart])
         /\ r.op = "cancel" => r.key \in Key /\ IsOrder(orders[r.key])
         /\ Taken(t) /\ Counted(t)
BY DEF StoreInv, SessionOK, RequestOK

LEMMA ReadCartInv ==
  ASSUME StoreInv, NEW t \in Txn, ReadCart(t)
  PROVE  StoreInv'
<1> PICK r : r = tx[t]
  OBVIOUS
<1> PICK have : have = carts[r.cart].items
  OBVIOUS
<1> DEFINE s == [r EXCEPT !.pc = "price", !.delta = [i \in Item |-> - have[i]],
                          !.todo = {i \in Item : have[i] > 0}]
<1>1. /\ r.pc = "cart" /\ r.op = "checkout" /\ have # Nothing
      /\ tx' = [tx EXCEPT ![t] = s]
      /\ balance' = balance /\ moves' = moves
      /\ carts' = carts /\ orders' = orders /\ locks' = locks
  BY DEF ReadCart, stock, sales
<1>2. RequestOK(r) /\ have \in [Item -> Nat] /\ DOMAIN r = Fields
  BY <1>1, OwnRequest DEF IsCart
<1>3. /\ DOMAIN s = Fields /\ s.op = "checkout" /\ s.pc = "price"
      /\ s.prev = r.prev /\ s.delta = [i \in Item |-> - have[i]]
      /\ s.todo \subseteq Item
  BY <1>1, <1>2 DEF Fields
<1> HIDE DEF s
<1>0. s.delta # Nothing
  <2> SUFFICES ASSUME s.delta = Nothing PROVE FALSE
    OBVIOUS
  <2>1. \A i \in Item : - have[i] = 0 /\ have[i] \in Nat
    BY <1>2, <1>3, NothingZero
  <2>2. \A i \in Item : have[i] = 0
    BY <2>1
  <2> QED
    BY <1>1, <1>2, <2>2 DEF Nothing
<1>4. RequestOK(s) /\ s.pc \notin StockPc
  BY <1>0, <1>2, <1>3 DEF RequestOK, MovementOp, StockPc
<1> QED
  BY <1>1, <1>3, <1>4, SameLocks, SameCarts, SameOrders, QuietStep

\* A request that is not at the stock goes on.
LEMMA GoOn ==
  ASSUME StoreInv, NEW t \in Txn, NEW r, r = tx[t], NEW s,
         r.pc \notin StockPc \cup {"create_cart", "cart"},
         s.pc \notin StockPc \cup {"create_cart", "cart"},
         DOMAIN s = Fields, s.op = r.op, s.key = r.key, s.delta = r.delta, s.prev = r.prev,
         tx' = [tx EXCEPT ![t] = s], balance' = balance, moves' = moves,
         LocksKept(t), carts' = carts, orders' = orders
  PROVE  StoreInv'
<1>1. RequestOK(r) /\ (r.op = "cancel" => r.key \in Key /\ IsOrder(orders[r.key]))
  BY OwnRequest
<1>2. RequestOK(s)
  BY <1>1 DEF RequestOK, MovementOp
<1> QED
  BY <1>1, <1>2, SameCarts, SameOrders, QuietStep

LEMMA PriceLineInv ==
  ASSUME StoreInv, NEW t \in Txn, NEW i \in Item, PriceLine(t, i)
  PROVE  StoreInv'
<1> PICK r : r = tx[t]
  OBVIOUS
<1>1. PICK n, promo_, left_, pc :
        /\ pc \in {"order", "price"}
        /\ tx' = [tx EXCEPT ![t] = [r EXCEPT !.todo = r.todo \ {i}, !.n = n, !.promo = promo_,
                                             !.left = left_, !.pc = pc]]
  <2>1. PICK n : n = r.n + LineTotal(items[i], items[i].left, AverageCost(lots[i]),
                                     - r.delta[i], CollabMargin)
    OBVIOUS
  <2>2. PICK units : units = PromoUnits(items[i], items[i].left, - r.delta[i])
    OBVIOUS
  <2>3. PICK pc : pc = IF r.todo = {i} THEN "order" ELSE "price"
    OBVIOUS
  <2>4. tx' = [tx EXCEPT ![t] =
           [r EXCEPT !.todo = @ \ {i}, !.n = n, !.promo[i] = units, !.left[i] = items[i].left,
                     !.pc = pc]]
    BY <2>1, <2>2, <2>3 DEF PriceLine
  <2>5. PICK promo_, left_ : /\ promo_ = [r.promo EXCEPT ![i] = units]
                            /\ left_ = [r.left EXCEPT ![i] = items[i].left]
    OBVIOUS
  <2>6. pc \in {"order", "price"}
    BY <2>3
  <2>7. tx' = [tx EXCEPT ![t] = [r EXCEPT !.todo = r.todo \ {i}, !.n = n, !.promo = promo_,
                                         !.left = left_, !.pc = pc]]
    BY <2>4, <2>5
  <2> QED
    BY <2>6, <2>7, Zenon
<1>2. /\ r.pc = "price" /\ locks' = LockItem(t, i)
      /\ balance' = balance /\ moves' = moves /\ carts' = carts /\ orders' = orders
  BY DEF PriceLine, stock, sales
<1> DEFINE s == [r EXCEPT !.todo = r.todo \ {i}, !.n = n, !.promo = promo_, !.left = left_,
                          !.pc = pc]
<1>3. /\ DOMAIN s = Fields /\ s.op = r.op /\ s.key = r.key /\ s.delta = r.delta
      /\ s.prev = r.prev /\ s.pc = pc
  BY OwnRequest DEF Fields
<1>4. tx' = [tx EXCEPT ![t] = s]
  BY <1>1
<1> HIDE DEF s
<1>5. r.pc \notin StockPc /\ s.pc \notin StockPc \cup {"create_cart", "cart"}
  BY <1>1, <1>2, <1>3 DEF StockPc
<1> QED
  BY <1>2, <1>3, <1>4, <1>5, BothLocks, GoOn

LEMMA InsertOrderInv ==
  ASSUME StoreInv, NEW t \in Txn, InsertOrder(t)
  PROVE  StoreInv'
<1> PICK r : r = tx[t]
  OBVIOUS
<1> DEFINE s == [r EXCEPT !.pc = "stock", !.todo = Lines(r)]
<1>1. /\ r.pc = "order" /\ tx' = [tx EXCEPT ![t] = s]
      /\ balance' = balance /\ moves' = moves /\ carts' = carts /\ orders' = orders
      /\ locks' = WithLock(t, <<"order", r.key>>, "X")
  BY DEF InsertOrder, stock, sales
<1>2. RequestOK(r) /\ DOMAIN r = Fields
      /\ (r.op = "cancel" => r.key \in Key /\ IsOrder(orders[r.key]))
  BY OwnRequest
<1>3. /\ DOMAIN s = Fields /\ s.op = r.op /\ s.key = r.key /\ s.delta = r.delta
      /\ s.prev = r.prev /\ s.todo = Lines(r) /\ s.pc = "stock"
      /\ s.op \notin MovementOp
  BY <1>1, <1>2 DEF Fields, RequestOK, MovementOp, StockPc
<1> HIDE DEF s
<1>4. RequestOK(s)
  BY <1>1, <1>2, <1>3 DEF RequestOK, MovementOp, Lines
<1>5. tx'[t] = s
  BY <1>1 DEF StoreInv, TablesOK
<1>6. Taken(t)' /\ Counted(t)'
  BY <1>3, <1>5 DEF Taken, Counted, MovementOp, Lines
<1>7. LocksKept(t)
  BY <1>1, OtherLock
<1> QED
  BY <1>1, <1>2, <1>3, <1>4, <1>6, <1>7, SameCarts, SameOrders, QuietStep

LEMMA CancelOrderInv ==
  ASSUME StoreInv, NEW t \in Txn, cancelOrder(t)
  PROVE  StoreInv'
<1>1. PICK k \in Key : AdminCancelOrder(t, k)
  BY DEF cancelOrder
<1> PICK r : r = Request("cancel", "stock")
  OBVIOUS
<1> PICK lines : lines = orders[k].lines
  OBVIOUS
<1> DEFINE s == [r EXCEPT !.key = k, !.delta = lines, !.todo = {i \in Item : lines[i] > 0}]
<1>2. /\ orders[k] # None /\ tx' = [tx EXCEPT ![t] = s]
      /\ balance' = balance /\ moves' = moves /\ carts' = carts /\ orders' = orders
      /\ locks' = WithLock(t, <<"order", k>>, "X")
  BY <1>1 DEF AdminCancelOrder, Begin, stock, sales
<1>3. IsOrder(orders[k]) /\ lines \in [Item -> Nat] /\ lines \in [Item -> Int]
  BY <1>2 DEF StoreInv, TablesOK, IsOrder
<1>4. /\ DOMAIN s = Fields /\ s.op = "cancel" /\ s.key = k /\ s.delta = lines
      /\ s.prev = Nothing /\ s.todo = {i \in Item : lines[i] > 0}
      /\ s.pc = "stock"
  BY RequestFields DEF Fields
<1> HIDE DEF s
<1>5. RequestOK(s)
  BY <1>3, <1>4, NothingZero DEF RequestOK, MovementOp
<1>6. tx'[t] = s
  BY <1>2 DEF StoreInv, TablesOK
<1>7. Taken(t)' /\ Counted(t)'
  BY <1>3, <1>4, <1>6 DEF Taken, Counted
<1>8. LocksKept(t)
  BY <1>2, OtherLock
<1> QED
  BY <1>2, <1>3, <1>4, <1>5, <1>7, <1>8, SameCarts, SameOrders, QuietStep

-------------------------------------------------------------------------------
(* Movements, until their commit.                                            *)

LEMMA MovementStart ==
  ASSUME StoreInv, NEW t \in Txn, NEW i \in Item, NEW s, tx' = [tx EXCEPT ![t] = s],
         DOMAIN s = Fields, s.op \notin {"cancel", "checkout"}, s.pc = "stock",
         s.todo = {i}, s.item = i, s.prev = Nothing,
         s.delta \in [Item -> Int], \A j \in Item \ {i} : s.delta[j] = 0,
         s.op = "adjustment" =>
           s.n \in Nat /\ (s.row # None => Mine(t, i)' /\ s.delta[i] = s.n - Have(i)),
         balance' = balance, moves' = moves, carts' = carts, orders' = orders, LocksKept(t)
  PROVE  StoreInv'
<1>1. RequestOK(s)
  BY NothingZero DEF RequestOK, StockPc
<1>2. tx'[t] = s
  BY DEF StoreInv, TablesOK
<1>3. Taken(t)'
  BY <1>2 DEF Taken
<1>4. Counted(t)'
  BY <1>2 DEF Counted, Have
<1> QED
  BY <1>1, <1>3, <1>4, SameCarts, SameOrders, QuietStep

LEMMA EntryInv ==
  ASSUME StoreInv, NEW t \in Txn, NEW i \in Item, NEW n \in Int, NEW cost, NEW kind,
         kind \in {"entry", "initial_stock"},
         tx' = [tx EXCEPT ![t] = [Movement(kind, i, n) EXCEPT !.cost[i] = cost]],
         balance' = balance, moves' = moves, carts' = carts, orders' = orders, locks' = locks
  PROVE  StoreInv'
<1> PICK r : r = Movement(kind, i, n)
  OBVIOUS
<1> PICK costs : costs = [r.cost EXCEPT ![i] = cost]
  OBVIOUS
<1> DEFINE s == [r EXCEPT !.cost = costs]
<1>1. tx' = [tx EXCEPT ![t] = s]
  OBVIOUS
<1>0. IsMovement(r, kind, i, n)
  BY MovementFields
<1>2. /\ DOMAIN s = Fields /\ s.op = kind /\ s.pc = "stock" /\ s.todo = {i}
      /\ s.item = i /\ s.prev = Nothing /\ s.delta \in [Item -> Int]
      /\ \A j \in Item \ {i} : s.delta[j] = 0
  BY <1>0 DEF Fields, IsMovement
<1> HIDE DEF s
<1> QED
  BY <1>1, <1>2, SameLocks, MovementStart

LEMMA OutboundInv ==
  ASSUME StoreInv, NEW t \in Txn, NEW i \in Item, NEW n \in Nat, RegisterOutbound(t, i, n)
  PROVE  StoreInv'
<1> PICK d \in Int : d = -n
  OBVIOUS
<1> PICK s : s = Movement("loss", i, d)
  OBVIOUS
<1>1. /\ tx' = [tx EXCEPT ![t] = s] /\ balance' = balance /\ moves' = moves
      /\ carts' = carts /\ orders' = orders /\ locks' = locks
  BY DEF RegisterOutbound, Begin, stock, sales
<1>2. /\ DOMAIN s = Fields /\ s.op = "loss" /\ s.pc = "stock" /\ s.todo = {i}
      /\ s.item = i /\ s.prev = Nothing /\ s.delta \in [Item -> Int]
      /\ \A j \in Item \ {i} : s.delta[j] = 0
  <2>1. IsMovement(s, "loss", i, d)
    BY MovementFields
  <2> QED
    BY <2>1 DEF IsMovement
<1> QED
  BY <1>1, <1>2, SameLocks, MovementStart

LEMMA AdjustmentInv ==
  ASSUME StoreInv, NEW t \in Txn, NEW i \in Item, NEW count \in Nat,
         RegisterAdjustment(t, i, count)
  PROVE  StoreInv'
<1>1. Have(i) \in Nat
  BY DEF StoreInv, TablesOK, Have
<1> PICK d \in Int : d = count - Have(i)
  BY <1>1
<1> PICK r : r = Movement("adjustment", i, d)
  OBVIOUS
<1>0. IsMovement(r, "adjustment", i, d)
  BY MovementFields
<1> DEFINE s == [r EXCEPT !.n = count, !.row = balance[i]]
<1>2. /\ tx' = [tx EXCEPT ![t] = s] /\ balance' = balance /\ moves' = moves
      /\ carts' = carts /\ orders' = orders
      /\ balance[i] # None => CanLock(t, <<"balance", i>>, "X")
      /\ locks' = IF balance[i] = None THEN locks ELSE WithLock(t, <<"balance", i>>, "X")
  BY DEF RegisterAdjustment, Begin, stock, sales
<1>3. /\ DOMAIN s = Fields /\ s.op = "adjustment" /\ s.pc = "stock" /\ s.todo = {i}
      /\ s.item = i /\ s.prev = Nothing /\ s.delta \in [Item -> Int]
      /\ s.delta[i] = count - Have(i) /\ \A j \in Item \ {i} : s.delta[j] = 0
      /\ s.n = count /\ s.row = balance[i]
  BY <1>0 DEF Fields, IsMovement
<1> HIDE DEF s
<1>4. LocksKept(t) /\ (balance[i] # None => Mine(t, i)')
  <2>1. CASE balance[i] = None
    BY <1>2, <2>1, SameLocks
  <2>2. CASE balance[i] # None
    <3> PICK others : others = {}
      OBVIOUS
    <3>1. locks' = WithLock(t, <<"balance", i>>, "X") \cup others
      BY <1>2, <2>2
    <3>2. Gets(t, i)
      BY <1>2, <2>2, <3>1, BalanceLock
    <3> QED
      BY <3>2 DEF Gets
  <2> QED
    BY <2>1, <2>2
<1> QED
  BY <1>2, <1>3, <1>4, MovementStart

LEMMA MovementRequestsInv ==
  ASSUME StoreInv, NEW t \in Txn, createMovement(t) \/ registerEntry(t)
  PROVE  StoreInv'
<1>0. Quantity \cup {0} \subseteq Nat /\ Quantity \subseteq Int
  BY StoreAssumption DEF Quantity
<1>1. ASSUME NEW i \in Item, NEW n \in Int, NEW paid, RegisterEntry(t, i, n, paid)
      PROVE  StoreInv'
  <2> PICK cost : cost = EntryUnitCostCents(paid, 0, n)
    OBVIOUS
  <2>1. /\ tx' = [tx EXCEPT ![t] = [Movement("entry", i, n) EXCEPT !.cost[i] = cost]]
        /\ balance' = balance /\ moves' = moves
        /\ carts' = carts /\ orders' = orders /\ locks' = locks
    BY <1>1 DEF RegisterEntry, Begin, stock, sales
  <2> QED
    BY <2>1, EntryInv
<1>2. \/ \E i \in Item, n \in Quantity : \E paid : RegisterEntry(t, i, n, paid)
      \/ \E i \in Item, n \in Quantity : RegisterOutbound(t, i, n)
      \/ \E i \in Item, count \in Quantity \cup {0} : RegisterAdjustment(t, i, count)
  BY Zenon DEF createMovement, registerEntry
<1> QED
  BY <1>0, <1>1, <1>2, OutboundInv, AdjustmentInv

LEMMA CreateProductInv ==
  ASSUME StoreInv, NEW t \in Txn, createProduct(t)
  PROVE  StoreInv'
<1>1. PICK i \in Item, price \in Costs, cost \in Costs, n \in Quantity \cup {0} :
        CreateProduct(t, i, price, cost, n)
  BY Zenon DEF createProduct
<1> PICK unit : unit = IF cost = None THEN 0 ELSE cost
  OBVIOUS
<1>2. /\ tx' = [tx EXCEPT ![t] = IF n = 0 THEN Idle
                    ELSE [Movement("initial_stock", i, n) EXCEPT !.cost[i] = unit]]
      /\ balance' = balance /\ moves' = moves
      /\ carts' = carts /\ orders' = orders /\ locks' = locks
  BY <1>1 DEF CreateProduct, Begin, stock, sales
<1>3. CASE n = 0
  BY <1>2, <1>3, SameLocks, SameCarts, SameOrders, IdleStep
<1>4. CASE n # 0
  <2>1. n \in Int
    BY StoreAssumption DEF Quantity
  <2> QED
    BY <1>2, <1>4, <2>1, EntryInv
<1> QED
  BY <1>3, <1>4

LEMMA TakeLotsInv ==
  ASSUME StoreInv, NEW t \in Txn, NEW i \in Item, TakeLots(t, i)
  PROVE  StoreInv'
<1> PICK r : r = tx[t]
  OBVIOUS
<1> PICK taken : taken = [r.lots EXCEPT ![i] = lots[i]]
  OBVIOUS
<1> DEFINE s == [r EXCEPT !.pc = "balance", !.item = i, !.lots = taken]
<1>1. /\ tx' = [tx EXCEPT ![t] = s] /\ balance' = balance /\ moves' = moves
      /\ carts' = carts /\ orders' = orders /\ locks' = WithLock(t, <<"lots", i>>, "X")
      /\ r.pc = "stock" /\ i \in r.todo
  BY DEF TakeLots, stock, sales
<1>2. /\ RequestOK(r) /\ DOMAIN r = Fields /\ Taken(t) /\ Counted(t)
      /\ r.op = "cancel" => r.key \in Key /\ IsOrder(orders[r.key])
  BY OwnRequest
<1>3. /\ DOMAIN s = Fields /\ s.op = r.op /\ s.key = r.key /\ s.delta = r.delta
      /\ s.prev = r.prev /\ s.todo = r.todo /\ s.pc = "balance"
      /\ s.item = i /\ s.n = r.n /\ s.row = r.row
  BY <1>2 DEF Fields
<1> HIDE DEF s
<1>4. s.op \in MovementOp => s.item = r.item
  BY <1>1, <1>2, <1>3 DEF RequestOK
<1>5. RequestOK(s)
  BY <1>1, <1>2, <1>3, <1>4 DEF RequestOK, MovementOp, StockPc
<1>6. tx'[t] = s
  BY <1>1 DEF StoreInv, TablesOK
<1>7. \A j \in Item : Mine(t, j) => Mine(t, j)'
  BY <1>1 DEF Mine, Holds, WithLock
<1>8. Taken(t)'
  BY <1>1, <1>2, <1>3, <1>6, <1>7 DEF Taken, Have, StockPc
<1>9. Counted(t)'
  BY <1>1, <1>2, <1>3, <1>4, <1>6, <1>7 DEF Counted, MovementOp, Have, StockPc
<1>10. LocksKept(t)
  BY <1>1, OtherLock
<1> QED
  BY <1>1, <1>2, <1>3, <1>5, <1>8, <1>9, <1>10, SameCarts, SameOrders, QuietStep

LEMMA TakeBalanceInv ==
  ASSUME StoreInv, NEW t \in Txn, NEW i \in Item, TakeBalance(t, i)
  PROVE  StoreInv'
<1> PICK r : r = tx[t]
  OBVIOUS
<1> PICK cost : cost = [r.cost EXCEPT ![i] = UnitCost(r, i)]
  OBVIOUS
<1> PICK pc : pc = IF r.todo = {i} THEN "commit" ELSE "stock"
  OBVIOUS
<1> PICK mode : mode = IF r.op = "entry" THEN "X" ELSE "S"
  OBVIOUS
<1> DEFINE s == [r EXCEPT !.todo = r.todo \ {i}, !.prev = [r.prev EXCEPT ![i] = Have(i)],
                          !.cost = cost, !.pc = pc]
<1>1. /\ tx' = [tx EXCEPT ![t] = s] /\ balance' = balance /\ moves' = moves
      /\ carts' = carts /\ orders' = orders
      /\ CanLock(t, <<"balance", i>>, "X") /\ Have(i) + r.delta[i] >= 0
      /\ locks' = WithLock(t, <<"balance", i>>, "X")
                    \cup {[row |-> <<"sku", i>>, tx |-> t, mode |-> mode]}
      /\ r.pc \in {"stock", "balance"}
  BY DEF TakeBalance, stock, sales
<1>2. /\ RequestOK(r) /\ DOMAIN r = Fields /\ Taken(t) /\ Counted(t) /\ Have(i) \in Nat
      /\ r.op = "cancel" => r.key \in Key /\ IsOrder(orders[r.key])
  BY OwnRequest DEF StoreInv, TablesOK, Have
<1>3. /\ DOMAIN s = Fields /\ s.op = r.op /\ s.key = r.key /\ s.delta = r.delta
      /\ s.prev = [r.prev EXCEPT ![i] = Have(i)] /\ s.todo = r.todo \ {i}
      /\ s.pc = pc /\ s.item = r.item /\ s.n = r.n /\ s.row = r.row
  BY <1>2 DEF Fields
<1> HIDE DEF s
<1>4. RequestOK(s)
  <2>1. s.prev \in [Item -> Int]
    BY <1>2, <1>3 DEF RequestOK
  <2> QED
    BY <1>1, <1>2, <1>3, <2>1 DEF RequestOK, StockPc
<1>5. tx'[t] = s
  BY <1>1 DEF StoreInv, TablesOK
<1>6. LocksKept(t) /\ Mine(t, i)' /\ \A j \in Item : Mine(t, j) => Mine(t, j)'
  <2>1. PICK others : others = {[row |-> <<"sku", i>>, tx |-> t, mode |-> mode]}
    OBVIOUS
  <2>3. \A l \in others, j \in Item : l.row # <<"balance", j>>
    BY <2>1
  <2>2. Gets(t, i)
    BY <1>1, <2>1, <2>3, BalanceLock
  <2> QED
    BY <2>2 DEF Gets
<1>7. s.prev[i] = Have(i) /\ \A j \in Item \ {i} : s.prev[j] = r.prev[j]
  BY <1>2, <1>3 DEF RequestOK
<1>8. Taken(t)'
  <2>1. ASSUME NEW j \in Item, s.delta[j] # 0, j \notin s.todo
        PROVE  Mine(t, j)' /\ s.prev[j] = Have(j) /\ Have(j) + s.delta[j] >= 0
    <3>1. CASE j = i
      BY <1>1, <1>3, <1>6, <1>7, <3>1
    <3>2. CASE j # i
      BY <1>1, <1>2, <1>3, <1>6, <1>7, <2>1, <3>2 DEF Taken, StockPc
    <3> QED
      BY <3>1, <3>2
  <2>2. s.pc = "commit" => s.todo = {}
    BY <1>3
  <2> QED
    BY <1>1, <1>5, <2>1, <2>2 DEF Taken, Have
<1>9. Counted(t)'
  BY <1>1, <1>2, <1>3, <1>5, <1>6 DEF Counted, Have, StockPc
<1>10. s.pc # "cart"
  BY <1>3
<1> QED
  BY <1>1, <1>2, <1>3, <1>4, <1>6, <1>8, <1>9, <1>10, SameCarts, SameOrders, QuietStep

-------------------------------------------------------------------------------
(* The commit of a movement of the stock.                                    *)

\* What the invariant says of the lines of a request that is to be committed.
LEMMA LinesTaken ==
  ASSUME StoreInv, NEW t \in Txn, NEW r, r = tx[t], r.pc = "commit"
  PROVE  /\ \A i \in Item : r.delta[i] \in Int /\ r.prev[i] \in Int
         /\ \A i \in Item : r.delta[i] # 0 =>
              /\ Mine(t, i) /\ r.prev[i] = Have(i) /\ r.prev[i] + r.delta[i] \in Nat
              /\ r.op = "adjustment" /\ r.row # None =>
                   r.n \in Nat /\ r.prev[i] + r.delta[i] = r.n
<1>1. RequestOK(r) /\ Taken(t) /\ Counted(t)
  BY OwnRequest
<1>2. \A i \in Item : r.delta[i] \in Int /\ r.prev[i] \in Int /\ Have(i) \in Nat
  BY <1>1 DEF RequestOK, StoreInv, TablesOK, Have
<1>3. ASSUME NEW i \in Item, r.delta[i] # 0
      PROVE  Mine(t, i) /\ r.prev[i] = Have(i) /\ r.prev[i] + r.delta[i] \in Nat
  <2>1. r.todo = {}
    BY <1>1 DEF Taken
  <2> QED
    BY <1>1, <1>2, <1>3, <2>1 DEF Taken, StockPc
<1>4. ASSUME NEW i \in Item, r.delta[i] # 0, r.op = "adjustment", r.row # None
      PROVE  r.n \in Nat /\ r.prev[i] + r.delta[i] = r.n
  <2>1. i = r.item /\ r.n \in Nat
    BY <1>1, <1>4 DEF RequestOK, MovementOp
  <2>2. r.delta[i] = r.n - Have(i)
    BY <1>1, <1>4, <2>1 DEF Counted, StockPc
  <2> QED
    BY <1>2, <1>3, <1>4, <2>1, <2>2
<1> QED
  BY <1>2, <1>3, <1>4

\* A movement is appended to those of an item, and its balance is what it leaves.
LEMMA ChainExtended ==
  ASSUME NEW i \in Item, moves[i] \in Seq(MoveRow), NEW m, moves'[i] = Append(moves[i], m),
         m.prev = Have(i), Have(i)' = m.new, m.count # None => m.new = m.count,
         \A n \in DOMAIN moves[i] :
           moves[i][n].prev = IF n = 1 THEN 0 ELSE moves[i][n - 1].new,
         Have(i) = IF moves[i] = <<>> THEN 0 ELSE Last(moves[i]).new,
         \A n \in DOMAIN moves[i] : moves[i][n].count # None => moves[i][n].new = moves[i][n].count
  PROVE  /\ \A n \in DOMAIN moves'[i] :
              moves'[i][n].prev = IF n = 1 THEN 0 ELSE moves'[i][n - 1].new
         /\ Have(i)' = IF moves'[i] = <<>> THEN 0 ELSE Last(moves'[i]).new
         /\ \A n \in DOMAIN moves'[i] :
              moves'[i][n].count # None => moves'[i][n].new = moves'[i][n].count
<1> PICK s, s_ : s = moves[i] /\ s_ = moves'[i]
  OBVIOUS
<1> PICK len \in Nat : len = Len(s)
  OBVIOUS
<1>1. /\ DOMAIN s = 1 .. len /\ DOMAIN s_ = 1 .. len + 1 /\ Len(s_) = len + 1
      /\ s_[len + 1] = m /\ \A n \in 1 .. len : s_[n] = s[n]
      /\ s = <<>> <=> len = 0
  OBVIOUS
<1>2. Have(i) = IF len = 0 THEN 0 ELSE s[len].new
  BY <1>1 DEF Last
<1>3. ASSUME NEW n \in 1 .. len + 1
      PROVE  /\ s_[n].prev = IF n = 1 THEN 0 ELSE s_[n - 1].new
             /\ s_[n].count # None => s_[n].new = s_[n].count
  <2>1. CASE n \in 1 .. len
    <3>1. s_[n] = s[n] /\ (n # 1 => s_[n - 1] = s[n - 1])
      BY <1>1, <2>1
    <3> QED
      BY <1>1, <2>1, <3>1
  <2>2. CASE n = len + 1
    <3>1. n # 1 => len # 0 /\ s_[n - 1] = s[len]
      BY <1>1, <2>2
    <3> QED
      BY <1>1, <1>2, <2>2, <3>1
  <2> QED
    BY <2>1, <2>2
<1>4. s_ # <<>> /\ Last(s_) = m
  BY <1>1 DEF Last
<1> QED
  BY ZenonT(40), <1>1, <1>3, <1>4

\* A request that is not at the stock.
OffStock(s) == RequestOK(s) /\ s.pc \notin StockPc \cup {"cart"} /\ s.op # "cancel"

LEMMA IdleOffStock == OffStock(Idle)
BY IdleOK DEF OffStock, StockPc

LEMMA CommitStep ==
  ASSUME StoreInv, NEW t \in Txn, NEW r, r = tx[t], r.pc = "commit", WriteStock(r),
         r.op \in {"checkout", "cancel", "entry", "initial_stock", "loss", "adjustment"},
         locks' = WithoutLocks(t), NEW s, tx' = [tx EXCEPT ![t] = s], OffStock(s), CartsKept, OrdersKept
  PROVE  StoreInv'
<1>1. /\ \A i \in Item : r.delta[i] \in Int /\ r.prev[i] \in Int
      /\ \A i \in Item : r.delta[i] # 0 =>
           /\ Mine(t, i) /\ r.prev[i] = Have(i) /\ r.prev[i] + r.delta[i] \in Nat
           /\ r.op = "adjustment" /\ r.row # None =>
                r.n \in Nat /\ r.prev[i] + r.delta[i] = r.n
  BY LinesTaken
<1>2. tx'[t] = s /\ DOMAIN tx' = Txn /\ \A u \in Txn \ {t} : tx'[u] = tx[u]
  BY DEF StoreInv, TablesOK
<1>3. \A i \in Item : IF r.delta[i] = 0
        THEN balance'[i] = balance[i] /\ moves'[i] = moves[i]
        ELSE /\ balance'[i] = r.prev[i] + r.delta[i]
             /\ moves'[i] = Append(moves[i], MovementRow(r, i))
  BY DEF WriteStock, Lines
<1>4. \A i \in Item : r.delta[i] # 0 =>
        LET m == MovementRow(r, i) IN
        /\ m \in MoveRow /\ m.prev = Have(i) /\ m.new = r.prev[i] + r.delta[i]
        /\ m.count # None => m.new = m.count
  <2> SUFFICES ASSUME NEW i \in Item, r.delta[i] # 0
               PROVE  LET m == MovementRow(r, i) IN
                        /\ m \in MoveRow /\ m.prev = Have(i) /\ m.new = r.prev[i] + r.delta[i]
                        /\ m.count # None => m.new = m.count
    OBVIOUS
  <2>1. Have(i) \in Nat
    BY DEF StoreInv, TablesOK, Have
  <2> PICK kind, count :
        /\ kind = IF r.op = "checkout" THEN "sale" ELSE IF r.op = "cancel" THEN "return" ELSE r.op
        /\ count = IF r.op = "adjustment" /\ r.row # None THEN r.n ELSE None
    OBVIOUS
  <2>2. kind \in Kind /\ count \in Nat \cup {None}
    BY <1>1 DEF Kind
  <2>3. MovementRow(r, i) = [kind |-> kind, prev |-> r.prev[i],
                             new |-> r.prev[i] + r.delta[i], count |-> count]
    BY DEF MovementRow
  <2>4. count # None => r.prev[i] + r.delta[i] = count
    BY <1>1
  <2> QED
    BY <1>1, <2>1, <2>2, <2>3, <2>4 DEF MoveRow
<1>5. balance' \in [Item -> Nat \cup {None}]
  <2>1. \A i \in Item : balance'[i] \in Nat \cup {None}
    BY <1>1, <1>3 DEF StoreInv, TablesOK
  <2>2. balance' = [i \in Item |-> balance'[i]]
    BY DEF WriteStock
  <2> QED
    BY <2>1, <2>2
<1>6. moves' \in [Item -> Seq(MoveRow)]
  <2>1. ASSUME NEW i \in Item
        PROVE  moves'[i] \in Seq(MoveRow)
    <3>1. moves[i] \in Seq(MoveRow)
      BY DEF StoreInv, TablesOK
    <3>2. CASE r.delta[i] = 0
      BY <1>3, <3>1, <3>2
    <3>3. CASE r.delta[i] # 0
      <4> PICK m \in MoveRow : m = MovementRow(r, i)
        BY <1>4, <3>3
      <4>1. moves'[i] = Append(moves[i], m)
        BY <1>3, <3>3
      <4> QED
        BY <3>1, <4>1
    <3> QED
      BY <3>2, <3>3
  <2>2. moves' = [i \in Item |-> moves'[i]]
    BY DEF WriteStock
  <2> QED
    BY <2>1, <2>2
<1>7. TablesOK'
  BY <1>2, <1>5, <1>6 DEF TablesOK, CartsKept, OrdersKept
<1>8. LocksKept(t)
  BY DroppedLocks
<1>9. \A i \in Item : balance'[i] = balance[i] \/ Mine(t, i)
  BY <1>1, <1>3
<1>10. SessionOK(t)'
  <2>1. Taken(t)' /\ Counted(t)'
    BY <1>2 DEF Taken, Counted, StockPc, OffStock
  <2> QED
    BY <1>2, <2>1 DEF SessionOK, RequestOK, OffStock
<1>11. \A u \in Txn : SessionOK(u)'
  BY <1>2, <1>8, <1>9, <1>10, OthersKeep
<1>12. ASSUME NEW i \in Item
       PROVE  /\ \A n \in DOMAIN moves'[i] :
                   moves'[i][n].prev = IF n = 1 THEN 0 ELSE moves'[i][n - 1].new
              /\ Have(i)' = IF moves'[i] = <<>> THEN 0 ELSE Last(moves'[i]).new
              /\ \A n \in DOMAIN moves'[i] :
                   moves'[i][n].count # None => moves'[i][n].new = moves'[i][n].count
  <2>1. /\ \A n \in DOMAIN moves[i] :
             moves[i][n].prev = IF n = 1 THEN 0 ELSE moves[i][n - 1].new
        /\ Have(i) = IF moves[i] = <<>> THEN 0 ELSE Last(moves[i]).new
        /\ \A n \in DOMAIN moves[i] :
             moves[i][n].count # None => moves[i][n].new = moves[i][n].count
        /\ moves[i] \in Seq(MoveRow)
    BY DEF StoreInv, MovementsChain, AdjustedToCount, TablesOK
  <2>2. CASE r.delta[i] = 0
    <3>1. moves'[i] = moves[i] /\ Have(i)' = Have(i)
      BY <1>3, <2>2 DEF Have
    <3> QED
      BY <2>1, <3>1
  <2>3. CASE r.delta[i] # 0
    <3> PICK m : m = MovementRow(r, i)
      OBVIOUS
    <3>1. /\ m.prev = Have(i) /\ m.new = r.prev[i] + r.delta[i] /\ m.new \in Nat
          /\ m.count # None => m.new = m.count
      BY <1>1, <1>4, <2>3
    <3>2. moves'[i] = Append(moves[i], m)
      BY <1>3, <2>3
    <3>3. Have(i)' = m.new
      BY <1>3, <2>3, <3>1, StoreAssumption DEF Have
    <3> QED
      BY <2>1, <3>1, <3>2, <3>3, ChainExtended
  <2> QED
    BY <2>2, <2>3
<1>13. MovementsChain' /\ AdjustedToCount'
  BY <1>12 DEF MovementsChain, AdjustedToCount
<1> QED
  BY <1>7, <1>8, <1>11, <1>13, MutexKept DEF StoreInv

\* What Finish and NextItem leave to do, if anything: the prices of some items.
Repricing(todo, again) == [Request("price", "recalc") EXCEPT !.todo = todo, !.again = again]

LEMMA Reprice ==
  ASSUME NEW todo, NEW again
  PROVE  OffStock(Repricing(todo, again))
<1> PICK r : r = Request("price", "recalc")
  OBVIOUS
<1> PICK s : s = Repricing(todo, again)
  OBVIOUS
<1>1. /\ DOMAIN r = Fields /\ r.op = "price" /\ r.pc = "recalc"
      /\ r.delta = Nothing /\ r.prev = Nothing
  BY RequestFields
<1>2. s = [r EXCEPT !.todo = todo, !.again = again]
  BY DEF Repricing
<1>3. /\ DOMAIN s = Fields /\ s.op = "price" /\ s.pc = "recalc"
      /\ s.delta = Nothing /\ s.prev = Nothing
  BY <1>1, <1>2 DEF Fields
<1>4. OffStock(s)
  BY <1>3, NothingZero DEF OffStock, RequestOK, MovementOp, StockPc
<1> QED
  BY <1>4

LEMMA NextItemOK ==
  ASSUME NEW r, NEW i, NEW s, s = NextItem(r, i)
  PROVE  OffStock(s)
<1> PICK todo : todo = IF r.todo \ {i} = {} THEN r.again ELSE r.todo \ {i}
  OBVIOUS
<1> PICK again : again = IF r.todo \ {i} = {} THEN {} ELSE r.again
  OBVIOUS
<1>1. s = Idle \/ s = Repricing(todo, again)
  BY DEF NextItem, Repricing
<1> QED
  BY <1>1, Reprice, IdleOffStock

\* A commit, with what is left to do after it.
LEMMA CommitFinish ==
  ASSUME StoreInv, NEW t \in Txn, NEW r, r = tx[t], r.pc = "commit", WriteStock(r),
         r.op \in {"checkout", "cancel", "entry", "initial_stock", "loss", "adjustment"},
         NEW todo, NEW again, Finish(t, todo, again),
         CartsKept, OrdersKept
  PROVE  StoreInv'
<1>1. PICK s : s = IF todo = {} THEN Idle ELSE Repricing(todo, again)
  OBVIOUS
<1>2. locks' = WithoutLocks(t) /\ tx' = [tx EXCEPT ![t] = s]
  BY <1>1 DEF Finish, Repricing
<1>4. OffStock(s)
  BY <1>1, Reprice, IdleOffStock
<1> QED
  BY <1>2, <1>4, CommitStep

LEMMA CommitCheckoutInv ==
  ASSUME StoreInv, NEW t \in Txn, CommitCheckout(t)
  PROVE  StoreInv'
<1> PICK r : r = tx[t]
  OBVIOUS
<1>1. /\ r.op = "checkout" /\ r.pc = "commit" /\ WriteStock(r)
      /\ Finish(t, Lines(r), PromoEnded(r))
  BY DEF CommitCheckout
<1>3. CartsKept
  <2> PICK c : c = [open |-> FALSE, items |-> Nothing]
    OBVIOUS
  <2>1. IsCart(c)
    BY NothingZero DEF IsCart
  <2>2. carts' = [carts EXCEPT ![r.cart] = c]
    BY DEF CommitCheckout
  <2> QED
    BY <2>1, <2>2 DEF CartsKept, StoreInv, TablesOK
<1>4. OrdersKept
  <2> PICK lines : lines = [i \in Item |-> - r.delta[i]]
    OBVIOUS
  <2> PICK o : o = [status |-> "confirmed", lines |-> lines, total |-> r.n]
    OBVIOUS
  <2>1. \A i \in Item : r.delta[i] \in Int /\ r.delta[i] <= 0
    BY <1>1, OwnRequest DEF RequestOK
  <2>2. lines \in [Item -> Nat]
    BY <2>1
  <2>3. IsOrder(o)
    BY <2>2 DEF IsOrder
  <2>4. orders' = [orders EXCEPT ![r.key] = o]
    BY DEF CommitCheckout
  <2> QED
    BY <2>3, <2>4 DEF OrdersKept, StoreInv, TablesOK
<1> QED
  BY <1>1, <1>3, <1>4, CommitFinish

LEMMA CommitCancelInv ==
  ASSUME StoreInv, NEW t \in Txn, CommitCancel(t)
  PROVE  StoreInv'
<1> PICK r : r = tx[t]
  OBVIOUS
<1>1. /\ r.op = "cancel" /\ r.pc = "commit" /\ WriteStock(r) /\ Finish(t, {}, {})
      /\ carts' = carts /\ orders' = [orders EXCEPT ![r.key].status = "cancelled"]
  BY DEF CommitCancel
<1>2. r.key \in Key /\ IsOrder(orders[r.key])
  BY <1>1, OwnRequest
<1>3. OrdersKept
  <2> PICK o : o = [orders[r.key] EXCEPT !.status = "cancelled"]
    OBVIOUS
  <2>1. IsOrder(o)
    BY <1>2 DEF IsOrder
  <2>2. orders' = [orders EXCEPT ![r.key] = o]
    BY <1>1
  <2> QED
    BY <2>1, <2>2 DEF OrdersKept, StoreInv, TablesOK
<1> PICK none : none = {}
  OBVIOUS
<1>4. Finish(t, none, none) /\ CartsKept
  BY <1>1, SameCarts
<1> QED
  BY <1>1, <1>3, <1>4, CommitFinish

LEMMA CommitMovementInv ==
  ASSUME StoreInv, NEW t \in Txn, CommitMovement(t)
  PROVE  StoreInv'
<1> PICK r : r = tx[t]
  OBVIOUS
<1>1. /\ r.op \in {"entry", "initial_stock", "loss", "adjustment"} /\ r.pc = "commit"
      /\ WriteStock(r) /\ Finish(t, Lines(r), {})
      /\ carts' = carts /\ orders' = orders
  BY DEF CommitMovement, sales
<1> PICK none : none = {}
  OBVIOUS
<1>3. Finish(t, Lines(r), none) /\ CartsKept /\ OrdersKept
  BY <1>1, SameCarts, SameOrders
<1> QED
  BY <1>1, <1>3, CommitFinish

-------------------------------------------------------------------------------
(* Prices, products and SKUs: neither balances nor movements change.         *)

\* The request of a session becomes one that is not about the stock.
LEMMA OtherRequest ==
  ASSUME StoreInv, NEW t \in Txn, NEW s, tx' = [tx EXCEPT ![t] = s], OffStock(s),
         balance' = balance, moves' = moves, carts' = carts, orders' = orders, LocksKept(t)
  PROVE  StoreInv'
BY SameCarts, SameOrders, QuietStep DEF OffStock

\* A request of an administrator, before it is committed.
Administers(s) ==
  /\ DOMAIN s = Fields /\ s.op \in {"price", "edit", "sku"}
  /\ s.pc \notin StockPc \cup {"create_cart", "cart"}
  /\ s.delta = Nothing /\ s.prev = Nothing

LEMMA AdministersInv ==
  ASSUME StoreInv, NEW t \in Txn, NEW s, Administers(s), tx' = [tx EXCEPT ![t] = s],
         balance' = balance, moves' = moves, carts' = carts, orders' = orders, locks' = locks
  PROVE  StoreInv'
<1>1. OffStock(s)
  BY NothingZero DEF OffStock, RequestOK, MovementOp, Administers
<1> QED
  BY <1>1, SameLocks, OtherRequest

LEMMA RequestAdministers ==
  ASSUME NEW op \in {"price", "edit", "sku"}, NEW pc, NEW r, r = Request(op, pc),
         pc \notin StockPc \cup {"create_cart", "cart"}
  PROVE  Administers(r) /\ r.op = op /\ r.pc = pc
BY RequestFields DEF Administers

LEMMA ChangePriceInv ==
  ASSUME StoreInv, NEW t \in Txn, changePrice(t)
  PROVE  StoreInv'
<1>1. PICK i \in Item, price \in Costs : ChangeSKUPrice(t, i, price)
  BY DEF changePrice
<1> PICK n : n = RoundSalePriceCents(price)
  OBVIOUS
<1> PICK r : r = Request("price", "lock_price")
  OBVIOUS
<1>2. /\ tx' = [tx EXCEPT ![t] = [r EXCEPT !.item = i, !.n = n]]
      /\ balance' = balance /\ moves' = moves /\ carts' = carts /\ orders' = orders
      /\ locks' = locks
  BY <1>1 DEF ChangeSKUPrice, Begin, stock, sales
<1> DEFINE s == [r EXCEPT !.item = i, !.n = n]
<1>3. Administers(r)
  BY RequestAdministers DEF StockPc
<1>4. Administers(s)
  BY <1>3 DEF Administers, Fields
<1>5. tx' = [tx EXCEPT ![t] = s]
  BY <1>2
<1> HIDE DEF s
<1> QED
  BY <1>2, <1>4, <1>5, AdministersInv

LEMMA UpdateProductInv ==
  ASSUME StoreInv, NEW t \in Txn, updateProduct(t)
  PROVE  StoreInv'
<1>1. PICK i \in Item, e \in Edits : UpdateProduct(t, i, e)
  BY DEF updateProduct
<1> PICK r : r = Request("edit", "write_product")
  OBVIOUS
<1> PICK row, todo, kept :
      /\ row = Edited(items[i], e) /\ todo = IF Reprices(e) THEN {i} ELSE {}
      /\ kept = IF e.quantity # None \/ items[i].left <= 0 THEN 0 ELSE items[i].left
  OBVIOUS
<1> PICK left_ : left_ = [r.left EXCEPT ![i] = kept]
  OBVIOUS
<1> DEFINE s == [r EXCEPT !.item = i, !.row = row, !.todo = todo, !.left = left_]
<1>2. /\ tx' = [tx EXCEPT ![t] = s]
      /\ balance' = balance /\ moves' = moves /\ carts' = carts /\ orders' = orders
      /\ locks' = locks
  BY <1>1 DEF UpdateProduct, Begin, stock, sales
<1>3. Administers(r)
  BY RequestAdministers DEF StockPc
<1>4. Administers(s)
  BY <1>3 DEF Administers, Fields
<1> HIDE DEF s
<1> QED
  BY <1>2, <1>4, AdministersInv

LEMMA UpdateSKUInv ==
  ASSUME StoreInv, NEW t \in Txn, updateSKU(t)
  PROVE  StoreInv'
<1>1. PICK i \in Item, cost \in Costs \cup {None} : UpdateSKU(t, i, cost)
  BY DEF updateSKU
<1> PICK r : r = Request("sku", "write_sku")
  OBVIOUS
<1> PICK row, n : row = Given(cost, items[i].cost) /\ n = IF cost = None THEN 0 ELSE cost
  OBVIOUS
<1> DEFINE s == [r EXCEPT !.item = i, !.row = row, !.n = n]
<1>2. /\ tx' = [tx EXCEPT ![t] = s]
      /\ balance' = balance /\ moves' = moves /\ carts' = carts /\ orders' = orders
      /\ locks' = locks
  BY <1>1 DEF UpdateSKU, Begin, stock, sales
<1>3. Administers(r)
  BY RequestAdministers DEF StockPc
<1>4. Administers(s)
  BY <1>3 DEF Administers, Fields
<1> HIDE DEF s
<1> QED
  BY <1>2, <1>4, AdministersInv

LEMMA PatchPricingSettingsInv ==
  ASSUME StoreInv, NEW t \in Txn, patchPricingSettings(t)
  PROVE  StoreInv'
<1>1. /\ tx' = [tx EXCEPT ![t] = Idle] /\ locks' = locks
      /\ balance' = balance /\ moves' = moves /\ carts' = carts /\ orders' = orders
  BY DEF patchPricingSettings, SetDefaultMarginPercent, Begin, stock, sales
<1> QED
  BY <1>1, SameLocks, SameCarts, SameOrders, IdleStep

LEMMA RepriceAllProductsInv ==
  ASSUME StoreInv, NEW t \in Txn, repriceAllProducts(t)
  PROVE  StoreInv'
<1> PICK r : r = Request("price", "recalc")
  OBVIOUS
<1> DEFINE s == [r EXCEPT !.todo = Exists]
<1>1. /\ tx' = [tx EXCEPT ![t] = s] /\ locks' = locks
      /\ balance' = balance /\ moves' = moves /\ carts' = carts /\ orders' = orders
  BY DEF repriceAllProducts, RepriceAllProducts, Begin, stock, sales
<1>2. Administers(r)
  BY RequestAdministers DEF StockPc
<1>3. Administers(s)
  BY <1>2 DEF Administers, Fields, Exists
<1> HIDE DEF s
<1> QED
  BY <1>1, <1>3, AdministersInv

LEMMA RecalculateInv ==
  ASSUME StoreInv, NEW t \in Txn, NEW i \in Item, Recalculate(t, i)
  PROVE  StoreInv'
<1> PICK r : r = tx[t]
  OBVIOUS
<1> PICK n : n = items[i].price
  OBVIOUS
<1> DEFINE s == [r EXCEPT !.pc = "margin", !.item = i, !.n = n]
<1>1. /\ tx' = [tx EXCEPT ![t] = s] /\ locks' = locks /\ r.pc = "recalc"
      /\ balance' = balance /\ moves' = moves /\ carts' = carts /\ orders' = orders
  BY DEF Recalculate, stock, sales
<1>2. /\ DOMAIN s = Fields /\ s.op = r.op /\ s.key = r.key /\ s.delta = r.delta
      /\ s.prev = r.prev /\ s.pc = "margin"
  BY OwnRequest DEF Fields
<1> HIDE DEF s
<1> QED
  BY <1>1, <1>2, SameLocks, GoOn DEF StockPc

LEMMA ReadMarginInv ==
  ASSUME StoreInv, NEW t \in Txn, ReadMargin(t)
  PROVE  StoreInv'
<1> PICK r : r = tx[t]
  OBVIOUS
<1> PICK row : row = EffectiveMarginPercent(items[r.item])
  OBVIOUS
<1> DEFINE s == [r EXCEPT !.pc = "average", !.row = row]
<1>1. /\ tx' = [tx EXCEPT ![t] = s] /\ locks' = locks /\ r.pc = "margin"
      /\ balance' = balance /\ moves' = moves /\ carts' = carts /\ orders' = orders
  BY DEF ReadMargin, stock, sales
<1>2. /\ DOMAIN s = Fields /\ s.op = r.op /\ s.key = r.key /\ s.delta = r.delta
      /\ s.prev = r.prev /\ s.pc = "average"
  BY OwnRequest DEF Fields
<1> HIDE DEF s
<1> QED
  BY <1>1, <1>2, SameLocks, GoOn DEF StockPc

LEMMA ReadAverageInv ==
  ASSUME StoreInv, NEW t \in Txn, ReadAverage(t)
  PROVE  StoreInv'
<1> PICK r : r = tx[t]
  OBVIOUS
<1> PICK price : price = SalePriceFromCost(AverageCost(lots[r.item]), r.row)
  OBVIOUS
<1> PICK next : next = NextItem(r, r.item)
  OBVIOUS
<1> DEFINE s == [r EXCEPT !.pc = "lock_price", !.n = price]
<1>1. /\ tx' = [tx EXCEPT ![t] = IF price <= 0 \/ price = r.n THEN next ELSE s]
      /\ locks' = locks /\ r.pc = "average"
      /\ balance' = balance /\ moves' = moves /\ carts' = carts /\ orders' = orders
  BY DEF ReadAverage, stock, sales
<1>2. RequestOK(r) /\ DOMAIN r = Fields
  BY OwnRequest
<1>3. /\ DOMAIN s = Fields /\ s.op = r.op /\ s.key = r.key /\ s.delta = r.delta
      /\ s.prev = r.prev /\ s.pc = "lock_price"
  BY <1>2 DEF Fields
<1> HIDE DEF s
<1>4. OffStock(next)
  BY NextItemOK
<1>5. CASE tx' = [tx EXCEPT ![t] = next]
  BY <1>1, <1>4, <1>5, SameLocks, OtherRequest
<1>6. CASE tx' = [tx EXCEPT ![t] = s]
  BY <1>1, <1>3, <1>6, SameLocks, GoOn DEF StockPc
<1> QED
  BY <1>1, <1>5, <1>6

LEMMA LockPriceInv ==
  ASSUME StoreInv, NEW t \in Txn, LockPrice(t)
  PROVE  StoreInv'
<1> PICK r : r = tx[t]
  OBVIOUS
<1> PICK row : row = items[r.item].price
  OBVIOUS
<1> DEFINE s == [r EXCEPT !.pc = "set_price", !.row = row]
<1>1. /\ tx' = [tx EXCEPT ![t] = s] /\ r.pc = "lock_price"
      /\ locks' = WithLock(t, <<"sku", r.item>>, "X")
      /\ balance' = balance /\ moves' = moves /\ carts' = carts /\ orders' = orders
  BY DEF LockPrice, stock, sales
<1>2. /\ DOMAIN s = Fields /\ s.op = r.op /\ s.key = r.key /\ s.delta = r.delta
      /\ s.prev = r.prev /\ s.pc = "set_price"
  BY OwnRequest DEF Fields
<1> HIDE DEF s
<1>3. LocksKept(t)
  BY <1>1, OtherLock
<1> QED
  BY <1>1, <1>2, <1>3, GoOn DEF StockPc

LEMMA SetPriceInv ==
  ASSUME StoreInv, NEW t \in Txn, SetPrice(t)
  PROVE  StoreInv'
<1> PICK r : r = tx[t]
  OBVIOUS
<1> PICK next : next = NextItem(r, r.item)
  OBVIOUS
<1>1. /\ tx' = [tx EXCEPT ![t] = next] /\ locks' = WithoutLocks(t)
      /\ balance' = balance /\ moves' = moves /\ carts' = carts /\ orders' = orders
  BY DEF SetPrice, stock, sales
<1>2. OffStock(next)
  BY NextItemOK
<1> QED
  BY <1>1, <1>2, DroppedLocks, OtherRequest

\* The end of a write of a product or of the costs of its lots.
LEMMA FinishInv ==
  ASSUME StoreInv, NEW t \in Txn, NEW todo, NEW again,
         Finish(t, todo, again),
         balance' = balance, moves' = moves, carts' = carts, orders' = orders
  PROVE  StoreInv'
<1>1. PICK s : s = IF todo = {} THEN Idle ELSE Repricing(todo, again)
  OBVIOUS
<1>2. locks' = WithoutLocks(t) /\ tx' = [tx EXCEPT ![t] = s]
  BY <1>1 DEF Finish, Repricing
<1>4. OffStock(s)
  BY <1>1, Reprice, IdleOffStock
<1> QED
  BY <1>2, <1>4, DroppedLocks, OtherRequest

LEMMA WriteProductInv ==
  ASSUME StoreInv, NEW t \in Txn, WriteProduct(t)
  PROVE  StoreInv'
<1> PICK r : r = tx[t]
  OBVIOUS
<1> PICK none : none = {}
  OBVIOUS
<1>1. /\ Finish(t, r.todo, none)
      /\ balance' = balance /\ moves' = moves /\ carts' = carts /\ orders' = orders
  BY DEF WriteProduct, stock, sales
<1> QED
  BY <1>1, FinishInv

LEMMA WriteSKUInv ==
  ASSUME StoreInv, NEW t \in Txn, WriteSKU(t)
  PROVE  StoreInv'
<1> PICK r : r = tx[t]
  OBVIOUS
<1> DEFINE s == [r EXCEPT !.pc = "lots_cost"]
<1>1. /\ tx' = [tx EXCEPT ![t] = IF r.n = 0 THEN Idle ELSE s]
      /\ r.pc = "write_sku" /\ locks' = locks
      /\ balance' = balance /\ moves' = moves /\ carts' = carts /\ orders' = orders
  BY DEF WriteSKU, stock, sales
<1>2. /\ DOMAIN s = Fields /\ s.op = r.op /\ s.key = r.key /\ s.delta = r.delta
      /\ s.prev = r.prev /\ s.pc = "lots_cost"
  BY OwnRequest DEF Fields
<1> HIDE DEF s
<1>3. CASE tx' = [tx EXCEPT ![t] = Idle]
  BY <1>1, <1>3, SameLocks, SameCarts, SameOrders, IdleStep
<1>4. CASE tx' = [tx EXCEPT ![t] = s]
  BY <1>1, <1>2, <1>4, SameLocks, GoOn DEF StockPc
<1> QED
  BY <1>1, <1>3, <1>4

LEMMA SetRemainingLotsUnitCostInv ==
  ASSUME StoreInv, NEW t \in Txn, SetRemainingLotsUnitCost(t)
  PROVE  StoreInv'
<1> PICK r : r = tx[t]
  OBVIOUS
<1> PICK todo, none : todo = {r.item} /\ none = {}
  OBVIOUS
<1>1. /\ Finish(t, todo, none)
      /\ balance' = balance /\ moves' = moves /\ carts' = carts /\ orders' = orders
  BY DEF SetRemainingLotsUnitCost, stock, sales
<1> QED
  BY <1>1, FinishInv

LEMMA AbortInv ==
  ASSUME StoreInv, NEW t \in Txn, Abort(t)
  PROVE  StoreInv'
<1>1. /\ tx' = [tx EXCEPT ![t] = Idle] /\ locks' = WithoutLocks(t)
      /\ balance' = balance /\ moves' = moves /\ carts' = carts /\ orders' = orders
  BY DEF Abort, stock, sales
<1> QED
  BY <1>1, DroppedLocks, SameCarts, SameOrders, IdleStep

-------------------------------------------------------------------------------
(* The theorems.                                                             *)

LEMMA InitInv == Init => StoreInv
<1> SUFFICES ASSUME Init PROVE StoreInv
  OBVIOUS
<1>1. /\ tx = [t \in Txn |-> Idle] /\ locks = {} /\ orders = [k \in Key |-> None]
      /\ \A i \in Item : IF Opening[i] = None THEN balance[i] = None /\ moves[i] = <<>>
           ELSE /\ balance[i] = Opening[i].qty
                /\ moves[i] = <<[kind |-> "initial_stock", prev |-> 0, new |-> Opening[i].qty,
                                count |-> None]>>
      /\ balance = [i \in Item |-> balance[i]] /\ moves = [i \in Item |-> moves[i]]
  BY DEF Init
<1>2. \A i \in Item : Opening[i] # None => Opening[i].qty \in Nat
  BY StoreAssumption
<1>3. PICK c \in Cart : carts = [d \in Cart |-> IF d = c THEN [open |-> TRUE, items |-> InCart]
                                                       ELSE None]
  BY DEF Init
<1>4. balance \in [Item -> Nat \cup {None}]
  <2>1. \A i \in Item : balance[i] \in Nat \cup {None}
    BY <1>1, <1>2
  <2> QED
    BY <1>1, <2>1
<1>5. moves \in [Item -> Seq(MoveRow)]
  <2>1. ASSUME NEW i \in Item
        PROVE  moves[i] \in Seq(MoveRow)
    <3>1. CASE Opening[i] = None
      <4>1. moves[i] = <<>>
        BY <1>1, <3>1
      <4> QED
        BY <4>1
    <3>2. CASE Opening[i] # None
      <4> PICK m : m = [kind |-> "initial_stock", prev |-> 0, new |-> Opening[i].qty,
                        count |-> None]
        OBVIOUS
      <4>1. m \in MoveRow
        BY <1>2, <3>2 DEF MoveRow, Kind
      <4>2. moves[i] = <<m>>
        BY <1>1, <3>2
      <4> QED
        BY <4>1, <4>2
    <3> QED
      BY <3>1, <3>2
  <2> QED
    BY <1>1, <2>1
<1>6. TablesOK
  <2> PICK cart : cart = [open |-> TRUE, items |-> InCart]
    OBVIOUS
  <2>1. IsCart(cart)
    BY StoreAssumption DEF IsCart
  <2>2. DOMAIN carts = Cart /\ \A d \in Cart : carts[d] = None \/ IsCart(carts[d])
    BY <1>3, <2>1
  <2> QED
    BY <1>1, <1>4, <1>5, <2>2 DEF TablesOK
<1>7. BalanceMutex
  BY <1>1 DEF BalanceMutex, Mine, Holds
<1>8. ASSUME NEW t \in Txn
      PROVE  SessionOK(t)
  BY <1>1, IdleOK DEF SessionOK, Taken, Counted, StockPc
<1>9. ASSUME NEW i \in Item
      PROVE  /\ \A n \in DOMAIN moves[i] :
                  /\ moves[i][n].prev = IF n = 1 THEN 0 ELSE moves[i][n - 1].new
                  /\ moves[i][n].count # None => moves[i][n].new = moves[i][n].count
             /\ Have(i) = IF moves[i] = <<>> THEN 0 ELSE Last(moves[i]).new
  <2>1. CASE Opening[i] = None
    BY <1>1, <2>1 DEF Have
  <2>2. CASE Opening[i] # None
    <3> PICK m : m = [kind |-> "initial_stock", prev |-> 0, new |-> Opening[i].qty,
                      count |-> None]
      OBVIOUS
    <3>1. moves[i] = <<m>> /\ Have(i) = m.new /\ m.prev = 0 /\ m.count = None
      BY <1>1, <1>2, <2>2, StoreAssumption DEF Have
    <3>2. DOMAIN moves[i] = {1} /\ moves[i][1] = m /\ Last(moves[i]) = m /\ moves[i] # <<>>
      BY <3>1 DEF Last
    <3> QED
      BY <3>1, <3>2
  <2> QED
    BY <2>1, <2>2
<1>10. MovementsChain /\ AdjustedToCount
  BY <1>9 DEF MovementsChain, AdjustedToCount
<1> QED
  BY <1>6, <1>7, <1>8, <1>10 DEF StoreInv

LEMMA StutterInv == ASSUME StoreInv, UNCHANGED vars PROVE StoreInv'
<1>1. /\ balance' = balance /\ moves' = moves /\ carts' = carts /\ orders' = orders
      /\ locks' = locks /\ tx' = tx
  BY DEF vars, stock, sales
<1> QED
  BY <1>1 DEF StoreInv, TablesOK, BalanceMutex, SessionOK, Taken, Counted, Mine, Holds, Have,
              MovementsChain, AdjustedToCount

LEMMA ContinueInv ==
  ASSUME StoreInv, NEW t \in Txn, Continue(t)
  PROVE  StoreInv'
<1>1. \/ CreateCart(t) \/ ChangeItems(t) \/ ReadCart(t) \/ InsertOrder(t)
      \/ \E i \in Item : PriceLine(t, i)
      \/ \E i \in Item : TakeLots(t, i)
      \/ \E i \in Item : TakeBalance(t, i)
      \/ \E i \in Item : Recalculate(t, i)
      \/ CommitCheckout(t) \/ CommitCancel(t) \/ CommitMovement(t)
      \/ ReadMargin(t) \/ ReadAverage(t) \/ LockPrice(t) \/ SetPrice(t)
      \/ WriteProduct(t) \/ WriteSKU(t) \/ SetRemainingLotsUnitCost(t)
  BY Zenon DEF Continue
<1> QED
  BY <1>1, CreateCartInv, ChangeItemsInv, ReadCartInv, InsertOrderInv, PriceLineInv, TakeLotsInv,
     TakeBalanceInv, RecalculateInv, CommitCheckoutInv, CommitCancelInv, CommitMovementInv,
     ReadMarginInv, ReadAverageInv, LockPriceInv, SetPriceInv, WriteProductInv, WriteSKUInv,
     SetRemainingLotsUnitCostInv

LEMMA NextInv ==
  ASSUME StoreInv, Next
  PROVE  StoreInv'
<1>1. PICK t \in Txn :
        \/ getCart(t) \/ clearCart(t) \/ addItem(t) \/ setItemQuantity(t) \/ checkout(t)
        \/ cancelOrder(t) \/ createMovement(t) \/ registerEntry(t)
        \/ createProduct(t) \/ changePrice(t) \/ updateProduct(t) \/ updateSKU(t)
        \/ patchPricingSettings(t) \/ repriceAllProducts(t)
        \/ Continue(t) \/ Abort(t)
  BY DEF Next, Start
<1> QED
  BY <1>1, CartRequestsInv, CancelOrderInv, MovementRequestsInv, CreateProductInv, ChangePriceInv,
     UpdateProductInv, UpdateSKUInv, PatchPricingSettingsInv, RepriceAllProductsInv, ContinueInv,
     AbortInv

\* Whoever moves the stock of an item has locked its balance and read it under
\* that lock, and knows what it then holds until the commit.
THEOREM StoreInvariant == Spec => []StoreInv
<1>1. StoreInv /\ [Next]_vars => StoreInv'
  BY NextInv, StutterInv
<1> QED
  BY InitInv, <1>1, PTL DEF Spec

\* The movements of an item lead from nothing to its balance, however sales,
\* cancellations and manual movements overlap (applyMovementTx, lockBalance).
THEOREM MovementsFormChain == Spec => []MovementsChain
<1>1. StoreInv => MovementsChain
  BY DEF StoreInv
<1> QED
  BY StoreInvariant, <1>1, PTL

\* An adjustment that found a balance row leaves exactly what was counted,
\* whatever was sold or entered while it was made (RegisterAdjustment).
THEOREM AdjustmentsLeaveTheCount == Spec => []AdjustedToCount
<1>1. StoreInv => AdjustedToCount
  BY DEF StoreInv
<1> QED
  BY StoreInvariant, <1>1, PTL
===============================================================================
