---------------------------- MODULE LedgerProofs ----------------------------
(***************************************************************************)
(* Proofs about Ledger, for every number of sessions, customers, orders,   *)
(* months and cycles: the types, the locks, and then the money: an order is *)
(* charged once and credited once, and the exposure counter of a customer  *)
(* is what the customer owes.                                              *)
(*                                                                         *)
(* The money needs AccountInv: what checkouts, cancellations and payments  *)
(* know of their order, their period and their instalment, kept by the     *)
(* locks, and what the rows of an order then look like.                    *)
(***************************************************************************)
EXTENDS Ledger, TLAPS, Sums

\* What a step of session t leaves to the others: their state and their locks.
SessionsKept(t) ==
  /\ \A u \in Txn \ {t} : tx'[u] = tx[u]
  /\ \A l \in Lock : l.tx # t => (l \in locks' <=> l \in locks)

\* What a step of session t may change in the tables, and the lock it needs.
TablesKept(t) ==
  /\ \A o \in Order : orders[o] # "none" => orders'[o] # "none"
  /\ \A p \in PeriodId :
       /\ periods[p] # "none" => periods'[p] # "none"
       /\ periods[p] = "open" /\ periods'[p] # "open"
            => Holds(t, <<"period", p>>, "X")
       /\ periods'[p] = "open" /\ periods[p] # "open"
            => Holds(t, <<"open_key", p.cust>>, "X")
       /\ periods[p] = "none" /\ periods'[p] # "none"
            => Holds(t, <<"open_key", p.cust>>, "X")
       /\ \/ EntriesOf(p)' = EntriesOf(p)
          \/ periods[p] = "none"
          \/ \E mode \in {"X", "S"} : Holds(t, <<"period", p>>, mode)
       /\ invoices[p] # None =>
            /\ invoices'[p] # None
            /\ \/ Holds(t, <<"invoice", p>>, "X")
               \/ /\ invoices'[p].total = invoices[p].total
                  /\ invoices'[p].paid = invoices[p].paid
                  /\ invoices'[p].status = invoices[p].status
       /\ invoices[p] = None /\ invoices'[p] # None
            => Holds(t, <<"period", p>>, "X")

Rest(t) == SessionsKept(t) /\ TablesKept(t)

\* A lock of one session keeps the same row from every other one.
LEMMA Exclusive ==
  ASSUME MutexOK, NEW t \in Txn, NEW u \in Txn, t # u, NEW row \in Row,
         NEW mode \in {"X", "S"}, Holds(t, row, "X")
  PROVE  ~Holds(u, row, mode)
BY DEF MutexOK, Holds

\* The locks of the other sessions are the same after the step.
LEMMA LocksKept ==
  ASSUME NEW t \in Txn, NEW u \in Txn, t # u, NEW row \in Row,
         NEW mode \in {"X", "S"}, SessionsKept(t)
  PROVE  Holds(u, row, mode)' <=> Holds(u, row, mode)
BY DEF Holds, SessionsKept, Lock, LocksOn, Mode

\* What the rest of a step leaves alone is enough for the other sessions.
LEMMA OthersKeep ==
  ASSUME LedgerInv, NEW t \in Txn, NEW u \in Txn, t # u, Rest(t)
  PROVE  SessionOK(u)'
<1> PICK r : r = tx[u]
  OBVIOUS
<1>1. tx[u] = r /\ tx'[u] = r
  BY DEF Rest, SessionsKept
<1>2. r \in TxState /\ SessionOK(u) /\ MutexOK /\ TypeOK
  BY <1>1 DEF LedgerInv, TypeOK
<1>3. SessionsKept(t) /\ TablesKept(t)
  BY DEF Rest
<1>4. \A p \in PeriodId : <<"period", p>> \in Row /\ <<"invoice", p>> \in Row
  BY DEF Row
<1>5. \A c \in Customer : <<"open_key", c>> \in Row
  BY DEF Row
<1>6. Control(u)'
  BY <1>1, <1>2 DEF SessionOK, Control
<1>7. PeriodHeld(u)'
  <2> SUFFICES ASSUME r.pc = "commit_carry" \/ (r.op = "checkout" /\ r.pc = "commit"),
                      r.next = None
               PROVE  /\ r.period # None
                      /\ Holds(u, <<"period", r.period>>, "X")'
                      /\ periods'[r.period] = "open"
    BY <1>1 DEF PeriodHeld
  <2>1. /\ r.period # None
        /\ Holds(u, <<"period", r.period>>, "X")
        /\ periods[r.period] = "open"
    BY <1>1, <1>2 DEF SessionOK, PeriodHeld
  <2>2. r.period \in PeriodId
    BY <1>2, <2>1 DEF TxState
  <2>3. ~Holds(t, <<"period", r.period>>, "X")
    BY <1>2, <1>4, <2>1, <2>2, Exclusive
  <2> QED
    BY <1>3, <1>4, <2>1, <2>2, <2>3, LocksKept DEF TablesKept
<1>8. NextHeld(u)'
  <2> SUFFICES ASSUME r.next # None
               PROVE  /\ Holds(u, <<"open_key", r.cust>>, "X")'
                      /\ r.next.cust = r.cust
                      /\ periods'[r.next] = "none"
                      /\ OpenPeriods(r.cust)' \subseteq {r.period}
    BY <1>1 DEF NextHeld
  <2>1. /\ Holds(u, <<"open_key", r.cust>>, "X")
        /\ r.next.cust = r.cust
        /\ periods[r.next] = "none"
        /\ OpenPeriods(r.cust) \subseteq {r.period}
    BY <1>1, <1>2 DEF SessionOK, NextHeld
  <2>2. r.next \in PeriodId /\ r.cust \in Customer
    BY <1>2, <2>1 DEF TxState, PeriodId
  <2>3. ~Holds(t, <<"open_key", r.cust>>, "X")
    BY <1>2, <1>5, <2>1, <2>2, Exclusive
  <2>4. periods'[r.next] = "none"
    BY <1>3, <2>1, <2>2, <2>3 DEF TablesKept
  <2>5. OpenPeriods(r.cust)' \subseteq OpenPeriods(r.cust)
    BY <1>3, <2>3 DEF TablesKept, OpenPeriods
  <2> QED
    BY <1>3, <1>5, <2>1, <2>2, <2>4, <2>5, LocksKept
<1>9. ClosingHeld(u)'
  <2>1. ASSUME r.pc = "read_entries" \/ Closing(u)
        PROVE  /\ r.period \in PeriodId
               /\ Holds(u, <<"period", r.period>>, "X")
               /\ Holds(u, <<"period", r.period>>, "X")'
               /\ \A mode \in {"X", "S"} : ~Holds(t, <<"period", r.period>>, mode)
    <3>1. r.period \in PeriodId /\ Holds(u, <<"period", r.period>>, "X")
      BY <1>1, <1>2, <2>1 DEF SessionOK, ClosingHeld, TxState
    <3>2. \A mode \in {"X", "S"} : ~Holds(t, <<"period", r.period>>, mode)
      BY <1>2, <1>4, <3>1, Exclusive
    <3> QED
      BY <1>3, <1>4, <3>1, <3>2, LocksKept
  <2>2. ASSUME Closing(u)
        PROVE  /\ invoices'[r.period] = None
               /\ periods'[r.period] = "open"
               /\ r.items = EntriesOf(r.period)'
               /\ Subtotal(r.items) \in Nat
    <3>1. /\ invoices[r.period] = None
          /\ periods[r.period] = "open"
          /\ r.items = EntriesOf(r.period)
          /\ Subtotal(r.items) \in Nat
      BY <1>1, <1>2, <2>2 DEF SessionOK, ClosingHeld
    <3>2. /\ r.period \in PeriodId
          /\ \A mode \in {"X", "S"} : ~Holds(t, <<"period", r.period>>, mode)
      BY <2>1, <2>2
    <3>3. r.items = EntriesOf(r.period)'
      BY <1>3, <3>1, <3>2 DEF TablesKept
    <3>4. invoices'[r.period] = None /\ periods'[r.period] = "open"
      BY <1>3, <3>1, <3>2 DEF TablesKept
    <3>5. Subtotal(r.items) \in Nat
      BY <3>1
    <3> QED
      BY <3>3, <3>4, <3>5
  <2>3. Closing(u)' <=> Closing(u)
    BY <1>1 DEF Closing
  <2>4. r.period \in PeriodId => r.period # None
    BY NoneRow
  <2> QED
    BY <1>1, <2>1, <2>2, <2>3, <2>4 DEF ClosingHeld
<1>10. SeenExists(u)'
  <2>1. SeenExists(u) /\ Control(u)
    BY <1>2 DEF SessionOK
  <2>2. r.pc \in {"insert_credit", "read_invoice", "lock_invoice", "activate_plan"}
          => r.period \in PeriodId
    BY <1>1, <1>2, <2>1 DEF Control, TxState
  <2>3. r.op = "cancel" => r.order \in Order
    BY <1>1, <2>1 DEF Control
  <2>4. r.op = "cancel" /\ r.pc \in {"lock_customer", "commit"} => r.period \in PeriodId
    BY <1>1, <1>2, <2>1 DEF Control, TxState
  <2> QED
    BY <1>1, <1>3, <2>1, <2>2, <2>3, <2>4 DEF SeenExists, TablesKept
<1>11. InvoiceHeld(u)'
  <2>1. InvoiceHeld(u) /\ Control(u)
    BY <1>2 DEF SessionOK
  <2>2. ASSUME NEW p \in PeriodId, Holds(u, <<"invoice", p>>, "X")'
        PROVE  /\ r.op \in {"adjust", "cancel", "pay"}
               /\ r.pc \in {"lock_customer", "commit"}
               /\ r.period = p
               /\ invoices'[p] # None
               /\ r.op # "pay" => /\ invoices'[p].status # "paid"
                                  /\ invoices'[p].total + r.amount >= 0
                                  /\ invoices'[p].total + r.amount >= invoices'[p].paid
    <3>1. Holds(u, <<"invoice", p>>, "X")
      BY <1>3, <1>4, <2>2, LocksKept
    <3>2. ~Holds(t, <<"invoice", p>>, "X")
      BY <1>2, <1>4, <3>1, Exclusive
    <3>3. invoices[p] # None
      BY <1>1, <2>1, <3>1 DEF InvoiceHeld
    <3>4. /\ invoices'[p] # None
          /\ invoices'[p].total = invoices[p].total
          /\ invoices'[p].paid = invoices[p].paid
          /\ invoices'[p].status = invoices[p].status
      BY <1>3, <3>2, <3>3 DEF TablesKept
    <3> QED
      BY <1>1, <2>1, <3>1, <3>4 DEF InvoiceHeld
  <2>3. ASSUME r.op \in {"adjust", "pay"}, r.pc \in {"lock_customer", "commit"}
        PROVE  Holds(u, <<"invoice", r.period>>, "X")'
    <3>1. r.period \in PeriodId /\ Holds(u, <<"invoice", r.period>>, "X")
      BY <1>1, <1>2, <2>1, <2>3 DEF InvoiceHeld, Control, TxState
    <3> QED
      BY <1>3, <1>4, <3>1, LocksKept
  <2> QED
    BY <1>1, <2>2, <2>3 DEF InvoiceHeld
<1> QED
  BY <1>6, <1>7, <1>8, <1>9, <1>10, <1>11 DEF SessionOK

-------------------------------------------------------------------------------
(* Row locks.                                                                *)

LocksOK(t) ==
  /\ locks' \subseteq Lock
  /\ MutexOK'
  /\ \A l \in Lock : l.tx # t => (l \in locks' <=> l \in locks)

\* A lock that can be taken keeps the locks compatible and adds nothing else.
LEMMA TakeLock ==
  ASSUME TypeOK, MutexOK, NEW t \in Txn, NEW row \in Row, NEW mode \in {"X", "S"},
         CanLock(t, row, mode), locks' = WithLock(t, row, mode)
  PROVE  /\ LocksOK(t)
         /\ Holds(t, row, mode)'
         /\ \A q \in Row : \A m \in {"X", "S"} :
              Holds(t, q, m)' <=> Holds(t, q, m) \/ (q = row /\ m = mode)
BY DEF LocksOK, TypeOK, MutexOK, CanLock, WithLock, Lock, LocksOn, Mode, Holds

\* The end of a transaction gives all its locks back.
LEMMA GiveLocks ==
  ASSUME TypeOK, MutexOK, NEW t \in Txn, locks' = WithoutLocks(t)
  PROVE  LocksOK(t) /\ \A q \in Row : \A m \in {"X", "S"} : ~Holds(t, q, m)'
BY DEF LocksOK, TypeOK, MutexOK, WithoutLocks, Lock, LocksOn, Mode, Holds

\* No lock changes hands, so MutexOK stays.
LEMMA SameLocks ==
  ASSUME TypeOK, MutexOK, NEW t \in Txn, UNCHANGED locks
  PROVE  /\ LocksOK(t)
         /\ \A q \in Row : \A m \in {"X", "S"} : Holds(t, q, m)' <=> Holds(t, q, m)
BY DEF LocksOK, TypeOK, MutexOK, Holds

\* A row names its table, so rows of different tables differ.
LEMMA RowsDiffer ==
  \A p, q \in PeriodId, c \in Customer, o \in Order :
    /\ <<"period", p>> # <<"invoice", q>> /\ <<"installment", p>> # <<"invoice", q>>
    /\ <<"customer", c>> # <<"invoice", q>> /\ <<"open_key", c>> # <<"invoice", q>>
    /\ <<"order", o>> # <<"invoice", q>>
OBVIOUS

\* The rows that the statements lock are rows of the tables.
LEMMA Rows ==
  /\ \A o \in Order : <<"order", o>> \in Row
  /\ \A c \in Customer : <<"customer", c>> \in Row /\ <<"open_key", c>> \in Row
  /\ \A p \in PeriodId : /\ <<"period", p>> \in Row /\ <<"invoice", p>> \in Row
                         /\ <<"installment", p>> \in Row
BY DEF Row

NoInvoiceLock(t) == \A p \in PeriodId : ~Holds(t, <<"invoice", p>>, "X")

\* Only a request that changes an invoice ever holds one.
LEMMA InvoiceLocksLate ==
  ASSUME NEW t \in Txn, SessionOK(t),
         \/ tx[t].op \notin {"adjust", "cancel", "pay"}
         \/ tx[t].pc \notin {"lock_customer", "commit"}
  PROVE  NoInvoiceLock(t)
BY DEF SessionOK, InvoiceHeld, NoInvoiceLock

\* A statement that takes a row other than an invoice, or none.
LEMMA StillNoInvoiceLock ==
  ASSUME NEW t \in Txn, NoInvoiceLock(t), NEW row \in Row,
         \A p \in PeriodId : row # <<"invoice", p>>,
         NEW mode \in {"X", "S"},
         \A q \in Row : \A m \in {"X", "S"} :
              Holds(t, q, m)' => Holds(t, q, m) \/ (q = row /\ m = mode)
  PROVE  NoInvoiceLock(t)'
BY Rows DEF NoInvoiceLock

-------------------------------------------------------------------------------
(* Statements: the tables stay as they are.                                  *)

\* A statement keeps the invariant when its own session stays well formed.
LEMMA Statement ==
  ASSUME LedgerInv, NEW t \in Txn, NEW s \in TxState,
         tx' = [tx EXCEPT ![t] = s], UNCHANGED <<month, tables>>,
         LocksOK(t), SessionOK(t)'
  PROVE  LedgerInv'
<1>1. TypeOK'
  BY DEF LedgerInv, TypeOK, tables, LocksOK
<1>2. Rest(t)
  BY DEF Rest, SessionsKept, TablesKept, LedgerInv, TypeOK, tables, EntriesOf, LocksOK
<1>3. \A u \in Txn : SessionOK(u)'
  BY <1>2, OthersKeep
<1>4. EntriesExist' /\ OrdersCharged' /\ PaidCovered'
  BY DEF LedgerInv, EntriesExist, OrdersCharged, PaidCovered, tables
<1>5. OneOpenPeriod' /\ ClosedIffInvoiced' /\ PurchasesInvoiced'
  BY DEF LedgerInv, OneOpenPeriod, ClosedIffInvoiced, PurchasesInvoiced, tables
<1> QED
  BY <1>1, <1>3, <1>4, <1>5 DEF LedgerInv, LocksOK

\* The pc of a request that has not written anything yet.
EarlyPc == {"idle", "insert_order", "find_period", "await_period", "pick_period",
            "read_period", "read_invoice", "lock_invoice", "activate_plan"}

Early(r) == /\ r.pc \in EarlyPc \/ (r.pc = "insert_period" /\ r.op \in {"checkout", "cancel"})
            /\ r.next = None

\* A request that has just begun relies on no lock yet.
LEMMA EarlySession ==
  ASSUME NEW t \in Txn, Early(tx'[t]),
         Control(t)', SeenExists(t)', NoInvoiceLock(t)'
  PROVE  SessionOK(t)'
<1>1. PeriodHeld(t)' /\ NextHeld(t)' /\ ClosingHeld(t)'
  BY DEF Early, EarlyPc, PeriodHeld, NextHeld, ClosingHeld, Closing
<1>2. InvoiceHeld(t)'
  BY DEF Early, EarlyPc, InvoiceHeld, NoInvoiceLock
<1> QED
  BY <1>1, <1>2 DEF SessionOK

\* A request starts: the session was idle and takes at most one row.
LEMMA Begin ==
  ASSUME LedgerInv, NEW t \in Txn, tx[t] = Idle, NEW s \in TxState,
         tx' = [tx EXCEPT ![t] = s], UNCHANGED <<month, tables>>,
         s.pc \in EarlyPc, s.next = None, Control(t)', SeenExists(t)',
         \/ UNCHANGED locks
         \/ \E row \in Row : /\ \A p \in PeriodId : row # <<"invoice", p>>
                             /\ CanLock(t, row, "X")
                             /\ locks' = WithLock(t, row, "X")
  PROVE  LedgerInv'
<1>1. TypeOK /\ MutexOK /\ SessionOK(t) /\ tx'[t] = s
  BY DEF LedgerInv, TypeOK
<1>2. NoInvoiceLock(t)
  BY <1>1, InvoiceLocksLate DEF Idle
<1>3. LocksOK(t) /\ NoInvoiceLock(t)'
  <2>1. CASE UNCHANGED locks
    BY <1>1, <1>2, <2>1, SameLocks, Rows DEF NoInvoiceLock
  <2>2. ASSUME NEW row \in Row, \A p \in PeriodId : row # <<"invoice", p>>,
               CanLock(t, row, "X"), locks' = WithLock(t, row, "X")
        PROVE  LocksOK(t) /\ NoInvoiceLock(t)'
    BY <1>1, <1>2, <2>2, TakeLock, StillNoInvoiceLock
  <2> QED
    BY <2>1, <2>2
<1>4. SessionOK(t)'
  BY <1>1, <1>3, EarlySession DEF Early
<1> QED
  BY <1>3, <1>4, Statement

\* CheckoutBegin keeps the invariant.
LEMMA CheckoutBeginStep ==
  ASSUME LedgerInv, NEW t \in Txn, NEW o \in Order, CheckoutBegin(t, o)
  PROVE  LedgerInv'
<1>0. PICK s : s = [Request(t, "checkout", "insert_order", Owner[o]) EXCEPT !.order = o]
  OBVIOUS
<1>1. Owner[o] \in Customer /\ month \in Month /\ tx \in [Txn -> TxState]
  BY LedgerAssumption DEF LedgerInv, TypeOK
<1>2. s \in TxState /\ tx' = [tx EXCEPT ![t] = s] /\ tx'[t] = s
  BY <1>0, <1>1 DEF CheckoutBegin, TxState, Request, Idle, Pc, AllOperations
<1>3. /\ s.op = "checkout" /\ s.pc = "insert_order" /\ s.cust = Owner[o]
      /\ s.order = o /\ s.next = None /\ s.period = None
  BY <1>0 DEF Request, Idle
<1>4. Control(t)' /\ SeenExists(t)'
  BY <1>1, <1>2, <1>3 DEF Control, PcOf, SeenExists
<1> QED
  BY <1>2, <1>3, <1>4, Begin DEF CheckoutBegin, EarlyPc

\* CloseCustomerBegin keeps the invariant.
LEMMA CloseCustomerBeginStep ==
  ASSUME LedgerInv, NEW t \in Txn, NEW c \in Customer, CloseCustomerBegin(t, c)
  PROVE  LedgerInv'
<1>0. PICK s : s = Request(t, "close_customer", "find_period", c)
  OBVIOUS
<1>1. month \in Month /\ tx \in [Txn -> TxState]
  BY DEF LedgerInv, TypeOK
<1>2. s \in TxState /\ tx' = [tx EXCEPT ![t] = s] /\ tx'[t] = s
  BY <1>0, <1>1 DEF CloseCustomerBegin, TxState, Request, Idle, Pc, AllOperations
<1>3. /\ s.op = "close_customer" /\ s.pc = "find_period" /\ s.cust = c /\ s.next = None
  BY <1>0 DEF Request, Idle
<1>4. Control(t)' /\ SeenExists(t)'
  BY <1>2, <1>3 DEF Control, PcOf, SeenExists
<1> QED
  BY <1>2, <1>3, <1>4, Begin DEF CloseCustomerBegin, EarlyPc

\* CloseReferenceBegin keeps the invariant.
LEMMA CloseReferenceBeginStep ==
  ASSUME LedgerInv, NEW t \in Txn, NEW m \in Month, CloseReferenceBegin(t, m)
  PROVE  LedgerInv'
<1>0. PICK s : s = [Request(t, "close_reference", "pick_period", None)
                       EXCEPT !.todo = {p \in PeriodId : p.month = m /\ periods[p] = "open"}]
  OBVIOUS
<1>1. month \in Month /\ tx \in [Txn -> TxState]
  BY DEF LedgerInv, TypeOK
<1>2. s \in TxState /\ tx' = [tx EXCEPT ![t] = s] /\ tx'[t] = s
  BY <1>0, <1>1 DEF CloseReferenceBegin, TxState, Request, Idle, Pc, AllOperations
<1>3. /\ s.op = "close_reference" /\ s.pc = "pick_period" /\ s.next = None
  BY <1>0 DEF Request, Idle
<1>4. Control(t)' /\ SeenExists(t)'
  BY <1>2, <1>3 DEF Control, PcOf, SeenExists
<1> QED
  BY <1>2, <1>3, <1>4, Begin DEF CloseReferenceBegin, EarlyPc

\* CancelBegin keeps the invariant.
LEMMA CancelBeginStep ==
  ASSUME LedgerInv, NEW t \in Txn, NEW o \in Order, CancelBegin(t, o)
  PROVE  LedgerInv'
<1>0. PICK s : s = [Request(t, "cancel", "read_period", Owner[o])
                       EXCEPT !.order = o, !.amount = -Price[o]]
  OBVIOUS
<1>1. /\ Owner[o] \in Customer /\ -Price[o] \in Int
      /\ month \in Month /\ tx \in [Txn -> TxState]
  BY LedgerAssumption DEF LedgerInv, TypeOK
<1>2. s \in TxState /\ tx' = [tx EXCEPT ![t] = s] /\ tx'[t] = s
  BY <1>0, <1>1 DEF CancelBegin, TxState, Request, Idle, Pc, AllOperations
<1>3. /\ s.op = "cancel" /\ s.pc = "read_period" /\ s.cust = Owner[o]
      /\ s.order = o /\ s.next = None
  BY <1>0 DEF Request, Idle
<1>4. orders'[o] # "none"
  BY DEF CancelBegin, tables
<1>5. Control(t)' /\ SeenExists(t)'
  BY <1>1, <1>2, <1>3, <1>4 DEF Control, PcOf, SeenExists
<1>6. <<"order", o>> \in Row /\ \A p \in PeriodId : <<"order", o>> # <<"invoice", p>>
  BY Rows
<1> QED
  BY <1>2, <1>3, <1>5, <1>6, Begin DEF CancelBegin, EarlyPc

\* AdjustBegin keeps the invariant.
LEMMA AdjustBeginStep ==
  ASSUME LedgerInv, NEW t \in Txn, NEW p \in PeriodId, NEW n \in Int,
         AdjustBegin(t, p, n)
  PROVE  LedgerInv'
<1>0. PICK s : s = [Request(t, "adjust", "lock_invoice", p.cust)
                       EXCEPT !.period = p, !.amount = n]
  OBVIOUS
<1>1. /\ p.cust \in Customer /\ p # None
      /\ month \in Month /\ tx \in [Txn -> TxState]
  BY NoneRow DEF LedgerInv, TypeOK, PeriodId
<1>2. s \in TxState /\ tx' = [tx EXCEPT ![t] = s] /\ tx'[t] = s
  BY <1>0, <1>1 DEF AdjustBegin, TxState, Request, Idle, Pc, AllOperations
<1>3. /\ s.op = "adjust" /\ s.pc = "lock_invoice" /\ s.cust = p.cust
      /\ s.period = p /\ s.next = None
  BY <1>0 DEF Request, Idle
<1>4. invoices'[p] # None
  BY DEF AdjustBegin, tables
<1>5. Control(t)' /\ SeenExists(t)'
  BY <1>1, <1>2, <1>3, <1>4 DEF Control, PcOf, SeenExists
<1> QED
  BY <1>2, <1>3, <1>5, Begin DEF AdjustBegin, EarlyPc

\* SelectPlanBegin keeps the invariant.
LEMMA SelectPlanBeginStep ==
  ASSUME LedgerInv, NEW t \in Txn, NEW p \in PeriodId, SelectPlanBegin(t, p)
  PROVE  LedgerInv'
<1> PICK n : n = Remaining(invoices[p])
  OBVIOUS
<1>0. PICK s : s = [Request(t, "select_plan", "activate_plan", p.cust)
                       EXCEPT !.period = p, !.amount = n]
  OBVIOUS
<1>1. /\ p.cust \in Customer /\ p # None
      /\ month \in Month /\ tx \in [Txn -> TxState]
      /\ n \in Nat /\ n \in Int
  <2>1. invoices[p] \in Invoice
    BY DEF SelectPlanBegin, LedgerInv, TypeOK
  <2> QED
    BY <2>1, NoneRow DEF LedgerInv, TypeOK, PeriodId, Remaining, AtLeastZero, Invoice
<1>2. s \in TxState /\ tx' = [tx EXCEPT ![t] = s] /\ tx'[t] = s
  <2>1. s \in TxState
    BY <1>0, <1>1 DEF TxState, Request, Idle, Pc, AllOperations
  <2>2. tx' = [tx EXCEPT ![t] = s]
    BY <1>0 DEF SelectPlanBegin
  <2> QED
    BY <1>1, <2>1, <2>2
<1>3. /\ s.op = "select_plan" /\ s.pc = "activate_plan" /\ s.cust = p.cust
      /\ s.period = p /\ s.next = None /\ s.amount \in Nat
  BY <1>0, <1>1 DEF Request, Idle
<1>4. invoices'[p] # None
  BY DEF SelectPlanBegin, tables
<1>5. Control(t)' /\ SeenExists(t)'
  BY <1>1, <1>2, <1>3, <1>4 DEF Control, PcOf, SeenExists
<1> QED
  BY <1>2, <1>3, <1>5, Begin DEF SelectPlanBegin, EarlyPc

\* PayBegin keeps the invariant.
LEMMA PayBeginStep ==
  ASSUME LedgerInv, NEW t \in Txn, NEW p \in PeriodId, PayBegin(t, p)
  PROVE  LedgerInv'
<1>0. PICK s : s = [Request(t, "pay", "lock_invoice", p.cust)
                       EXCEPT !.period = p, !.amount = -invoices[p].due]
  OBVIOUS
<1>1. /\ p.cust \in Customer /\ p # None
      /\ month \in Month /\ tx \in [Txn -> TxState]
      /\ -invoices[p].due \in Int
  <2>1. invoices[p] \in Invoice
    BY DEF PayBegin, LedgerInv, TypeOK
  <2> QED
    BY <2>1, NoneRow DEF LedgerInv, TypeOK, PeriodId, Invoice
<1>2. s \in TxState /\ tx' = [tx EXCEPT ![t] = s] /\ tx'[t] = s
  BY <1>0, <1>1 DEF PayBegin, TxState, Request, Idle, Pc, AllOperations
<1>3. /\ s.op = "pay" /\ s.pc = "lock_invoice" /\ s.cust = p.cust
      /\ s.period = p /\ s.next = None
  BY <1>0 DEF Request, Idle
<1>4. invoices'[p] # None
  BY DEF PayBegin, tables
<1>5. Control(t)' /\ SeenExists(t)'
  BY <1>1, <1>2, <1>3, <1>4 DEF Control, PcOf, SeenExists
<1>6. /\ <<"installment", p>> \in Row
      /\ \A q \in PeriodId : <<"installment", p>> # <<"invoice", q>>
  BY Rows
<1> QED
  BY <1>2, <1>3, <1>5, <1>6, Begin DEF PayBegin, EarlyPc

\* The session of a request, unpacked.
LEMMA Session ==
  ASSUME LedgerInv, NEW t \in Txn
  PROVE  /\ tx[t] \in TxState /\ tx \in [Txn -> TxState] /\ month \in Month
         /\ SessionOK(t) /\ Control(t) /\ TypeOK /\ MutexOK
BY DEF LedgerInv, TypeOK, SessionOK

\* LockCustomer keeps the invariant.
LEMMA LockCustomerStep ==
  ASSUME LedgerInv, NEW t \in Txn, LockCustomer(t)
  PROVE  LedgerInv'
<1> PICK r : r = tx[t]
  OBVIOUS
<1> PICK pc : pc = IF r.op = "checkout" THEN "find_period" ELSE "commit"
  OBVIOUS
<1>0. PICK s : s = [r EXCEPT !.pc = pc]
  OBVIOUS
<1>1. r \in TxState /\ SessionOK(t) /\ Control(t) /\ TypeOK /\ MutexOK
  BY Session
<1>2. s \in TxState /\ tx' = [tx EXCEPT ![t] = s] /\ tx'[t] = s
  <2>1. s \in TxState
    BY <1>0, <1>1 DEF TxState, Pc
  <2>2. tx' = [tx EXCEPT ![t] = s]
    BY <1>0, <1>1 DEF LockCustomer
  <2> QED
    BY <2>1, <2>2, Session
<1>3. /\ s.op = r.op /\ s.cust = r.cust /\ s.order = r.order /\ s.period = r.period
      /\ s.next = r.next /\ s.amount = r.amount /\ r.pc = "lock_customer"
      /\ s.pc = IF r.op = "checkout" THEN "find_period" ELSE "commit"
  BY <1>0, <1>1 DEF LockCustomer, TxState
<1>4. r.op \in {"checkout", "adjust", "cancel", "pay"} /\ r.cust \in Customer
  BY <1>1, <1>3 DEF Control, PcOf, TxState, AllOperations
<1>5. /\ LocksOK(t)
      /\ \A q \in Row : \A m \in {"X", "S"} :
           Holds(t, q, m)' <=> Holds(t, q, m) \/ (q = <<"customer", r.cust>> /\ m = "X")
  BY <1>1, <1>4, TakeLock, Rows DEF LockCustomer
<1>6. SessionOK(t)'
  <2>1. Control(t)'
    BY <1>1, <1>2, <1>3, <1>4 DEF Control, PcOf
  <2>2. s.next = None
    BY <1>1, <1>3 DEF Control
  <2>3. PeriodHeld(t)' /\ NextHeld(t)' /\ ClosingHeld(t)'
    BY <1>2, <1>3, <1>4, <2>2 DEF PeriodHeld, NextHeld, ClosingHeld, Closing
  <2>4. SeenExists(t)'
    BY <1>1, <1>2, <1>3 DEF SessionOK, SeenExists, LockCustomer, tables
  <2>5. invoices' = invoices /\ \A p \in PeriodId : Holds(t, <<"invoice", p>>, "X")'
                                   <=> Holds(t, <<"invoice", p>>, "X")
    BY <1>5, Rows DEF LockCustomer, tables
  <2>6. \A p \in PeriodId : Holds(t, <<"invoice", p>>, "X") => r.op # "checkout"
    BY <1>1 DEF SessionOK, InvoiceHeld
  <2>7. r.op # "checkout" => r.period \in PeriodId
    BY <1>1, <1>3, <1>4 DEF Control, TxState
  <2>8. InvoiceHeld(t)'
    BY <1>1, <1>2, <1>3, <1>4, <2>5, <2>6, <2>7 DEF SessionOK, InvoiceHeld
  <2> QED
    BY <2>1, <2>3, <2>4, <2>8 DEF SessionOK
<1>7. UNCHANGED <<month, tables>>
  BY DEF LockCustomer
<1> QED
  BY <1>2, <1>5, <1>6, <1>7, Statement

\* A request that searches the open period of its customer.
LEMMA Searching ==
  ASSUME LedgerInv, NEW t \in Txn, tx[t].pc \in {"find_period", "await_period"}
  PROVE  /\ tx[t].op \in {"checkout", "cancel", "close_customer"}
         /\ tx[t].next = None /\ NoInvoiceLock(t)
         /\ tx[t].cust \in Customer
         /\ tx[t].op \in {"checkout", "cancel"} => tx[t].order \in Order
         /\ tx[t].op = "cancel" => orders[tx[t].order] # "none"
<1>1. tx[t] \in TxState /\ SessionOK(t) /\ Control(t)
  BY Session
<1>2. tx[t].op \in {"checkout", "cancel", "close_customer"}
  BY <1>1 DEF Control, PcOf, TxState, AllOperations
<1>3. NoInvoiceLock(t)
  BY <1>1, InvoiceLocksLate
<1> QED
  BY <1>1, <1>2, <1>3 DEF Control, SessionOK, SeenExists

\* The session goes on to another statement, perhaps about another period.
LEMMA Moved ==
  ASSUME NEW r \in TxState, NEW p \in PeriodId \cup {None}, NEW pc \in Pc
  PROVE  /\ [r EXCEPT !.period = p, !.pc = pc] \in TxState
         /\ [r EXCEPT !.pc = pc] \in TxState
BY DEF TxState

\* The open period is found and locked.
LEMMA PeriodFound ==
  ASSUME LedgerInv, NEW t \in Txn, NEW p \in PeriodId, NEW s \in TxState,
         tx[t].pc \in {"find_period", "await_period"},
         s = [tx[t] EXCEPT !.period = p, !.pc = WithPeriod(tx[t].op)],
         tx' = [tx EXCEPT ![t] = s], UNCHANGED <<month, tables>>,
         periods[p] = "open", CanLock(t, <<"period", p>>, "X"),
         locks' = WithLock(t, <<"period", p>>, "X")
  PROVE  LedgerInv'
<1> PICK r : r = tx[t]
  OBVIOUS
<1>1. /\ r \in TxState /\ TypeOK /\ MutexOK /\ tx'[t] = s
      /\ r.op \in {"checkout", "cancel", "close_customer"}
      /\ r.next = None /\ NoInvoiceLock(t) /\ r.cust \in Customer
      /\ r.op \in {"checkout", "cancel"} => r.order \in Order
      /\ r.op = "cancel" => orders[r.order] # "none"
  BY Session, Searching
<1>2. /\ s.op = r.op /\ s.cust = r.cust /\ s.order = r.order /\ s.period = p
      /\ s.next = None /\ s.pc = WithPeriod(r.op)
  BY <1>1 DEF TxState
<1>3. /\ s.op = "checkout" => s.pc = "commit"
      /\ s.op = "cancel" => s.pc = "commit_carry"
      /\ s.op = "close_customer" => s.pc = "read_entries"
  BY <1>1, <1>2 DEF WithPeriod
<1>4. /\ LocksOK(t) /\ Holds(t, <<"period", p>>, "X")'
      /\ NoInvoiceLock(t)'
  <2>1. /\ LocksOK(t) /\ Holds(t, <<"period", p>>, "X")'
        /\ \A q \in Row : \A m \in {"X", "S"} :
             Holds(t, q, m)' <=> Holds(t, q, m) \/ (q = <<"period", p>> /\ m = "X")
    BY <1>1, TakeLock, Rows
  <2> QED
    BY <1>1, <2>1, RowsDiffer, Rows DEF NoInvoiceLock
<1>5. p # None /\ periods'[p] = "open" /\ orders' = orders
  BY NoneRow DEF tables
<1>6. SessionOK(t)'
  <2>0. s.pc \in PcOf[s.op]
    BY <1>1, <1>2, <1>3 DEF PcOf
  <2>1. Control(t)'
    BY <1>1, <1>2, <1>3, <1>5, <2>0 DEF Control
  <2>2. PeriodHeld(t)' /\ NextHeld(t)' /\ ClosingHeld(t)'
    BY <1>1, <1>2, <1>3, <1>4, <1>5 DEF PeriodHeld, NextHeld, ClosingHeld, Closing
  <2>3. SeenExists(t)' /\ InvoiceHeld(t)'
    BY <1>1, <1>2, <1>3, <1>4, <1>5 DEF SeenExists, InvoiceHeld, NoInvoiceLock
  <2> QED
    BY <2>1, <2>2, <2>3 DEF SessionOK
<1> QED
  BY <1>4, <1>6, Statement

\* A statement after which the request has still written nothing.
LEMMA EarlyStatement ==
  ASSUME LedgerInv, NEW t \in Txn, NEW s \in TxState,
         tx' = [tx EXCEPT ![t] = s], UNCHANGED <<month, tables>>, LocksOK(t),
         Early(s), Control(t)', SeenExists(t)', NoInvoiceLock(t)'
  PROVE  LedgerInv'
<1>1. tx'[t] = s
  BY Session
<1>2. SessionOK(t)'
  BY <1>1, EarlySession
<1> QED
  BY <1>2, Statement

\* A step that leaves the locks alone gives no session an invoice lock.
LEMMA SameNoInvoiceLock ==
  ASSUME LedgerInv, NEW t \in Txn, NoInvoiceLock(t), UNCHANGED locks
  PROVE  LocksOK(t) /\ NoInvoiceLock(t)'
BY Session, SameLocks, Rows DEF NoInvoiceLock

\* FindOpenPeriod keeps the invariant.
LEMMA FindOpenPeriodStep ==
  ASSUME LedgerInv, NEW t \in Txn, NEW p \in PeriodId, FindOpenPeriod(t, p)
  PROVE  LedgerInv'
<1> PICK r : r = tx[t]
  OBVIOUS
<1>1. /\ r \in TxState /\ tx \in [Txn -> TxState] /\ p # None /\ periods[p] = "open"
      /\ r.op \in {"checkout", "cancel", "close_customer"}
      /\ r.next = None /\ NoInvoiceLock(t) /\ r.cust \in Customer
      /\ r.op \in {"checkout", "cancel"} => r.order \in Order
      /\ r.op = "cancel" => orders[r.order] # "none"
      /\ r.pc = "find_period" /\ UNCHANGED <<month, tables>>
  BY Session, Searching, NoneRow DEF FindOpenPeriod, OpenPeriods
<1>2. CASE CanLock(t, <<"period", p>>, "X")
  <2>0. PICK s : s = [r EXCEPT !.period = p, !.pc = WithPeriod(r.op)]
    OBVIOUS
  <2>1. tx' = [tx EXCEPT ![t] = s] /\ locks' = WithLock(t, <<"period", p>>, "X")
    BY <1>2, <2>0 DEF FindOpenPeriod
  <2>2. WithPeriod(r.op) \in Pc
    BY <1>1 DEF WithPeriod, Pc
  <2>3. s \in TxState
    BY <1>1, <2>0, <2>2, Moved
  <2> QED
    BY <1>1, <1>2, <2>0, <2>1, <2>3, PeriodFound
<1>3. CASE ~CanLock(t, <<"period", p>>, "X")
  <2>0. PICK s : s = [r EXCEPT !.period = p, !.pc = "await_period"]
    OBVIOUS
  <2>1. tx' = [tx EXCEPT ![t] = s] /\ UNCHANGED locks /\ tx'[t] = s
    BY Zenon, <1>1, <1>3, <2>0 DEF FindOpenPeriod
  <2>2. s \in TxState
    BY Zenon, <1>1, <2>0, Moved DEF Pc
  <2>3. /\ s.op = r.op /\ s.cust = r.cust /\ s.order = r.order /\ s.period = p
        /\ s.next = None /\ s.pc = "await_period" /\ orders' = orders
    BY <1>1, <2>0 DEF TxState, tables
  <2>4. Control(t)' /\ SeenExists(t)'
    BY <1>1, <2>1, <2>3 DEF Control, PcOf, SeenExists
  <2> QED
    BY <1>1, <2>1, <2>2, <2>3, <2>4, SameNoInvoiceLock, EarlyStatement DEF Early, EarlyPc
<1> QED
  BY <1>2, <1>3

\* FindNoOpenPeriod keeps the invariant.
LEMMA FindNoOpenPeriodStep ==
  ASSUME LedgerInv, NEW t \in Txn, FindNoOpenPeriod(t)
  PROVE  LedgerInv'
<1> PICK r : r = tx[t]
  OBVIOUS
<1>0. PICK s : s = [r EXCEPT !.pc = "insert_period"]
  OBVIOUS
<1>1. /\ r \in TxState /\ tx \in [Txn -> TxState] /\ Control(t)
      /\ r.op \in {"checkout", "cancel"}
      /\ r.next = None /\ NoInvoiceLock(t) /\ r.cust \in Customer
      /\ r.order \in Order /\ r.op = "cancel" => orders[r.order] # "none"
      /\ r.pc = "find_period"
  BY Session, Searching DEF FindNoOpenPeriod
<1>2. UNCHANGED <<month, tables>> /\ UNCHANGED locks /\ tx' = [tx EXCEPT ![t] = s]
  BY SMTT(30), <1>0 DEF FindNoOpenPeriod
<1>3. s \in TxState /\ tx'[t] = s
  BY Zenon, <1>0, <1>1, <1>2, Moved DEF Pc
<1>4. /\ s.op = r.op /\ s.cust = r.cust /\ s.order = r.order /\ s.period = r.period
      /\ s.next = None /\ s.pc = "insert_period" /\ orders' = orders
  BY <1>0, <1>1, <1>2 DEF TxState, tables
<1>5. r.period = None
  BY <1>1 DEF Control
<1>6. s.pc \in PcOf[s.op]
  BY <1>1, <1>4 DEF PcOf
<1>7. Control(t)' /\ SeenExists(t)'
  BY <1>1, <1>3, <1>4, <1>5, <1>6 DEF Control, SeenExists
<1> QED
  BY <1>1, <1>2, <1>3, <1>4, <1>7, SameNoInvoiceLock, EarlyStatement DEF Early

\* AwaitPeriod keeps the invariant.
LEMMA AwaitPeriodStep ==
  ASSUME LedgerInv, NEW t \in Txn, AwaitPeriod(t)
  PROVE  LedgerInv'
<1> PICK r : r = tx[t]
  OBVIOUS
<1>1. /\ r \in TxState /\ tx \in [Txn -> TxState] /\ Control(t)
      /\ r.op \in {"checkout", "cancel", "close_customer"}
      /\ r.next = None /\ NoInvoiceLock(t) /\ r.cust \in Customer
      /\ r.op \in {"checkout", "cancel"} => r.order \in Order
      /\ r.op = "cancel" => orders[r.order] # "none"
      /\ r.pc = "await_period" /\ CanLock(t, <<"period", r.period>>, "X")
      /\ UNCHANGED <<month, tables>>
  BY Session, Searching DEF AwaitPeriod
<1>2. r.period \in PeriodId
  BY <1>1 DEF Control, TxState
<1>3. CASE periods[r.period] = "open"
  <2>0. PICK s : s = [r EXCEPT !.period = r.period, !.pc = WithPeriod(r.op)]
    OBVIOUS
  <2>1. tx' = [tx EXCEPT ![t] = s] /\ locks' = WithLock(t, <<"period", r.period>>, "X")
    BY <1>3, <2>0 DEF AwaitPeriod
  <2>2. WithPeriod(r.op) \in Pc
    BY <1>1 DEF WithPeriod, Pc
  <2>3. s \in TxState
    BY <1>1, <1>2, <2>0, <2>2, Moved
  <2> QED
    BY <1>1, <1>2, <1>3, <2>0, <2>1, <2>3, PeriodFound
<1>4. CASE periods[r.period] # "open"
  <2>0. PICK s : s = [r EXCEPT !.period = None, !.pc = "insert_period"]
    OBVIOUS
  <2>1. /\ tx' = [tx EXCEPT ![t] = s] /\ UNCHANGED locks
        /\ r.op # "close_customer"
    BY <1>4, <2>0 DEF AwaitPeriod
  <2>2. s \in TxState /\ tx'[t] = s
    BY Zenon, <1>1, <2>0, <2>1, Moved DEF Pc
  <2>3. /\ s.op = r.op /\ s.cust = r.cust /\ s.order = r.order /\ s.period = None
        /\ s.next = None /\ s.pc = "insert_period" /\ orders' = orders
    BY <1>1, <2>0 DEF TxState, tables
  <2>4. s.pc \in PcOf[s.op]
    BY <1>1, <2>1, <2>3 DEF PcOf
  <2>5. Control(t)' /\ SeenExists(t)'
    BY <1>1, <2>1, <2>2, <2>3, <2>4 DEF Control, SeenExists
  <2> QED
    BY <1>1, <2>1, <2>2, <2>3, <2>5, SameNoInvoiceLock, EarlyStatement DEF Early
<1> QED
  BY <1>3, <1>4

\* InsertPeriod keeps the invariant.
LEMMA InsertPeriodStep ==
  ASSUME LedgerInv, NEW t \in Txn, NEW p \in PeriodId, InsertPeriod(t, p)
  PROVE  LedgerInv'
<1> PICK r : r = tx[t]
  OBVIOUS
<1> PICK pc : pc = AfterInsert(r.op)
  OBVIOUS
<1>0. PICK s : s = [r EXCEPT !.next = p, !.pc = pc]
  OBVIOUS
<1>1. /\ r \in TxState /\ tx \in [Txn -> TxState] /\ Control(t) /\ SessionOK(t)
      /\ TypeOK /\ MutexOK /\ r.pc = "insert_period"
  BY Session DEF InsertPeriod
<1>2. r.op \in {"checkout", "cancel", "close_customer"} /\ r.cust \in Customer
  BY <1>1 DEF Control, PcOf, TxState, AllOperations
<1>3. pc \in Pc /\ pc = IF r.op = "cancel" THEN "commit_carry" ELSE "commit"
  BY <1>2 DEF AfterInsert, Pc
<1>4. s \in TxState
  BY <1>0, <1>1, <1>3 DEF TxState
<1>5. /\ tx' = [tx EXCEPT ![t] = s] /\ tx'[t] = s
      /\ locks' = WithLock(t, <<"open_key", r.cust>>, "X")
      /\ CanLock(t, <<"open_key", r.cust>>, "X")
      /\ p.cust = r.cust /\ OpenPeriods(r.cust) \subseteq {r.period}
      /\ UNCHANGED <<month, tables>>
  BY <1>0, <1>1 DEF InsertPeriod
<1>6. /\ s.op = r.op /\ s.cust = r.cust /\ s.order = r.order /\ s.period = r.period
      /\ s.next = p /\ s.pc = pc /\ s.items = r.items
  BY <1>0, <1>1 DEF TxState
<1>7. periods[p] = "none"
  BY DEF InsertPeriod, IsNextCycle, PeriodId
<1>8. /\ LocksOK(t) /\ Holds(t, <<"open_key", r.cust>>, "X")'
      /\ \A q \in Row : \A m \in {"X", "S"} :
           Holds(t, q, m)' <=> Holds(t, q, m) \/ (q = <<"open_key", r.cust>> /\ m = "X")
  BY <1>1, <1>2, <1>5, TakeLock, Rows
<1>9. NoInvoiceLock(t)'
  <2>1. NoInvoiceLock(t)
    BY <1>1, InvoiceLocksLate DEF InsertPeriod
  <2>2. \A q \in PeriodId : <<"open_key", r.cust>> # <<"invoice", q>>
    OBVIOUS
  <2>3. \A q \in PeriodId : <<"invoice", q>> \in Row
    BY Rows
  <2> QED
    BY <1>8, <2>1, <2>2, <2>3 DEF NoInvoiceLock
<1>10. SessionOK(t)'
  <2>0. p # None /\ s.pc \in PcOf[s.op]
    BY <1>2, <1>3, <1>6, NoneRow DEF PcOf
  <2>1. /\ r.op = "close_customer" => r.period # None
        /\ r.op # "close_customer" => r.period = None
    BY <1>1, <1>2 DEF Control, SessionOK, ClosingHeld, Closing
  <2>2. Control(t)'
    BY <1>1, <1>2, <1>3, <1>5, <1>6, <2>0, <2>1 DEF Control
  <2>3. PeriodHeld(t)'
    BY <1>5, <1>6, <2>0 DEF PeriodHeld
  <2>4. NextHeld(t)'
    <3>1. OpenPeriods(r.cust)' = OpenPeriods(r.cust) /\ periods'[p] = "none"
      BY <1>5, <1>7 DEF OpenPeriods, tables
    <3> QED
      BY <1>5, <1>6, <1>8, <3>1 DEF NextHeld
  <2>5. ClosingHeld(t)'
    <3>1. ASSUME r.op = "close_customer"
          PROVE  /\ Holds(t, <<"period", r.period>>, "X") /\ r.period # None
                 /\ invoices[r.period] = None /\ periods[r.period] = "open"
                 /\ r.items = EntriesOf(r.period) /\ Subtotal(r.items) \in Nat
      BY <1>1, <3>1 DEF SessionOK, ClosingHeld, Closing
    <3>2. ASSUME r.op = "close_customer"
          PROVE  /\ Holds(t, <<"period", r.period>>, "X")'
                 /\ invoices'[r.period] = None /\ periods'[r.period] = "open"
                 /\ r.items = EntriesOf(r.period)'
      <4>1. r.period \in PeriodId
        BY <1>1, <3>1, <3>2 DEF TxState
      <4>2. Holds(t, <<"period", r.period>>, "X")'
        BY <1>8, <3>1, <3>2, <4>1, Rows
      <4>3. EntriesOf(r.period)' = EntriesOf(r.period)
        BY <1>5 DEF EntriesOf, tables
      <4> QED
        BY <1>5, <3>1, <3>2, <4>2, <4>3 DEF tables
    <3> QED
      BY <1>2, <1>3, <1>5, <1>6, <3>1, <3>2 DEF ClosingHeld, Closing
  <2>6. SeenExists(t)'
    BY <1>1, <1>2, <1>3, <1>5, <1>6 DEF SessionOK, SeenExists, tables
  <2>7. InvoiceHeld(t)'
    BY <1>2, <1>5, <1>6, <1>9 DEF InvoiceHeld, NoInvoiceLock
  <2> QED
    BY <2>2, <2>3, <2>4, <2>5, <2>6, <2>7 DEF SessionOK
<1> QED
  BY <1>4, <1>5, <1>8, <1>10, Statement

\* PickPeriod keeps the invariant.
LEMMA PickPeriodStep ==
  ASSUME LedgerInv, NEW t \in Txn, NEW p \in PeriodId, PickPeriod(t, p)
  PROVE  LedgerInv'
<1> PICK r : r = tx[t]
  OBVIOUS
<1>0. PICK s : s = [r EXCEPT !.period = p, !.pc = "read_entries"]
  OBVIOUS
<1>1. /\ r \in TxState /\ tx \in [Txn -> TxState] /\ Control(t) /\ SessionOK(t)
      /\ TypeOK /\ MutexOK /\ r.pc = "pick_period"
      /\ tx' = [tx EXCEPT ![t] = s] /\ UNCHANGED <<month, tables>>
      /\ CanLock(t, <<"period", p>>, "X") /\ locks' = WithLock(t, <<"period", p>>, "X")
  BY Zenon, <1>0, Session DEF PickPeriod
<1>2. s \in TxState /\ tx'[t] = s
  BY Zenon, <1>0, <1>1, Moved DEF Pc
<1>3. /\ s.op = r.op /\ s.period = p /\ s.next = r.next /\ s.pc = "read_entries"
  BY <1>0, <1>1 DEF TxState
<1>4. r.op = "close_reference" /\ r.next = None /\ p # None
  BY <1>1, NoneRow DEF Control, PcOf, TxState, AllOperations
<1>5. LocksOK(t) /\ Holds(t, <<"period", p>>, "X")' /\ NoInvoiceLock(t)'
  <2>1. /\ LocksOK(t) /\ Holds(t, <<"period", p>>, "X")'
        /\ \A q \in Row : \A m \in {"X", "S"} :
             Holds(t, q, m)' <=> Holds(t, q, m) \/ (q = <<"period", p>> /\ m = "X")
    <3>1. <<"period", p>> \in Row
      BY Rows
    <3> QED
      BY <1>1, <3>1, TakeLock
  <2>2. NoInvoiceLock(t)
    BY <1>1, InvoiceLocksLate
  <2> QED
    BY <2>1, <2>2, RowsDiffer, Rows DEF NoInvoiceLock
<1>6. SessionOK(t)'
  <2>1. s.pc \in PcOf[s.op]
    BY <1>3, <1>4 DEF PcOf
  <2>2. Control(t)' /\ SeenExists(t)'
    BY <1>2, <1>3, <1>4, <2>1 DEF Control, SeenExists
  <2>3. PeriodHeld(t)' /\ NextHeld(t)' /\ ClosingHeld(t)' /\ InvoiceHeld(t)'
    BY <1>2, <1>3, <1>4, <1>5
       DEF PeriodHeld, NextHeld, ClosingHeld, Closing, InvoiceHeld, NoInvoiceLock
  <2> QED
    BY <2>2, <2>3 DEF SessionOK
<1> QED
  BY <1>1, <1>2, <1>5, <1>6, Statement

\* A session that ends: rollback, or the tables were written by the commit.
LEMMA IdleSession ==
  ASSUME LedgerInv, NEW t \in Txn, Finish(t)
  PROVE  /\ tx' = [tx EXCEPT ![t] = Idle] /\ tx' \in [Txn -> TxState]
         /\ LocksOK(t) /\ SessionsKept(t) /\ SessionOK(t)'
<1>1. tx \in [Txn -> TxState] /\ TypeOK /\ MutexOK
  BY Session
<1>2. Idle \in TxState
  BY LedgerAssumption DEF Idle, TxState, Pc, Month
<1>3. tx' = [tx EXCEPT ![t] = Idle] /\ tx'[t] = Idle
  BY <1>1 DEF Finish
<1>4. LocksOK(t) /\ NoInvoiceLock(t)'
  BY <1>1, GiveLocks, Rows DEF Finish, NoInvoiceLock
<1>5. Idle.op = "idle" /\ Idle.pc = "idle" /\ Idle.next = None /\ Idle.period = None
  BY DEF Idle
<1>6. Control(t)' /\ SeenExists(t)'
  BY <1>3, <1>5 DEF Control, SeenExists, PcOf
<1>7. SessionOK(t)'
  BY <1>3, <1>4, <1>5, <1>6, EarlySession DEF Early, EarlyPc
<1> QED
  BY <1>1, <1>2, <1>3, <1>4, <1>7 DEF SessionsKept, LocksOK

\* Finish keeps the invariant.
LEMMA FinishStep ==
  ASSUME LedgerInv, NEW t \in Txn, Finish(t), UNCHANGED <<month, tables>>
  PROVE  LedgerInv'
<1>1. Idle \in TxState
  BY LedgerAssumption DEF Idle, TxState, Pc, Month
<1> QED
  BY <1>1, IdleSession, Statement

\* NextMonth keeps the invariant.
LEMMA NextMonthStep ==
  ASSUME LedgerInv, NextMonth
  PROVE  LedgerInv'
<1>1. TypeOK'
  BY LedgerAssumption DEF LedgerInv, TypeOK, NextMonth, Month, tables
<1>2. MutexOK'
  BY DEF LedgerInv, MutexOK, NextMonth
<1>3. ASSUME NEW t \in Txn
      PROVE  SessionOK(t)'
  <2>1. SessionOK(t) /\ UNCHANGED <<orders, periods, entries, invoices, locks, tx>>
    BY DEF LedgerInv, NextMonth, tables
  <2>2. Control(t)' /\ SeenExists(t)'
    BY <2>1 DEF SessionOK, Control, SeenExists
  <2>3. PeriodHeld(t)' /\ NextHeld(t)' /\ InvoiceHeld(t)'
    BY <2>1 DEF SessionOK, PeriodHeld, NextHeld, InvoiceHeld, Holds, OpenPeriods
  <2>4. ClosingHeld(t)'
    BY <2>1 DEF SessionOK, ClosingHeld, Closing, Holds, EntriesOf
  <2> QED
    BY <2>2, <2>3, <2>4 DEF SessionOK
<1>4. EntriesExist' /\ OrdersCharged' /\ PaidCovered'
  BY DEF LedgerInv, EntriesExist, OrdersCharged, PaidCovered, NextMonth, tables
<1>5. OneOpenPeriod' /\ ClosedIffInvoiced' /\ PurchasesInvoiced'
  BY DEF LedgerInv, OneOpenPeriod, ClosedIffInvoiced, PurchasesInvoiced, NextMonth, tables
<1> QED
  BY <1>1, <1>2, <1>3, <1>4, <1>5 DEF LedgerInv

\* The session of a closing that has read the entries of its period.
LEMMA WithItems ==
  ASSUME NEW r \in TxState, NEW E \in SUBSET Entry, NEW pc \in Pc
  PROVE  [r EXCEPT !.items = E, !.pc = pc] \in TxState
BY DEF TxState

\* ReadEntries keeps the invariant.
LEMMA ReadEntriesStep ==
  ASSUME LedgerInv, NEW t \in Txn, ReadEntries(t)
  PROVE  LedgerInv'
<1> PICK r : r = tx[t]
  OBVIOUS
<1> PICK pc : pc = IF r.op = "close_customer" THEN "insert_period" ELSE "commit"
  OBVIOUS
<1> PICK E : E = EntriesOf(r.period)
  OBVIOUS
<1>0. PICK s : s = [r EXCEPT !.items = E, !.pc = pc]
  OBVIOUS
<1>1. /\ r \in TxState /\ tx \in [Txn -> TxState] /\ Control(t) /\ SessionOK(t)
      /\ TypeOK /\ MutexOK /\ r.pc = "read_entries"
      /\ tx' = [tx EXCEPT ![t] = s] /\ UNCHANGED <<month, tables>> /\ UNCHANGED locks
      /\ Billable(r.period)
  BY <1>0, Session DEF ReadEntries
<1>2. E \in SUBSET Entry /\ pc \in Pc
  BY <1>1 DEF EntriesOf, TypeOK, Pc
<1>3. s \in TxState /\ tx'[t] = s
  <2>1. s \in TxState
    BY <1>0, <1>1, <1>2, WithItems
  <2> QED
    BY <1>1, <2>1
<1>4. /\ s.op = r.op /\ s.period = r.period /\ s.next = r.next /\ s.pc = pc
      /\ s.items = E /\ s.cust = r.cust
  BY <1>0, <1>1 DEF TxState
<1>5. /\ r.op \in {"close_customer", "close_reference"} /\ r.next = None
      /\ r.period # None
  BY <1>1 DEF Control, PcOf, TxState, AllOperations
<1>6. r.period \in PeriodId /\ Holds(t, <<"period", r.period>>, "X")
  BY <1>1, <1>5 DEF SessionOK, ClosingHeld, TxState
<1>7. LocksOK(t) /\ NoInvoiceLock(t)' /\ Holds(t, <<"period", r.period>>, "X")'
  <2>1. NoInvoiceLock(t)
    BY <1>1, InvoiceLocksLate
  <2>2. Holds(t, <<"period", r.period>>, "X")'
    BY <1>1, <1>6 DEF Holds
  <2> QED
    BY <1>1, <2>1, <2>2, SameNoInvoiceLock
<1>8. SessionOK(t)'
  <2>1. s.pc \in PcOf[s.op]
    BY <1>4, <1>5 DEF PcOf
  <2>2. Control(t)'
    BY <1>1, <1>3, <1>4, <1>5, <2>1 DEF Control
  <2>3. /\ invoices'[r.period] = None /\ periods'[r.period] = "open"
        /\ E = EntriesOf(r.period)' /\ Subtotal(E) \in Nat
    BY <1>1 DEF Billable, EntriesOf, tables
  <2>4. ClosingHeld(t)'
    BY <1>3, <1>4, <1>5, <1>7, <2>3 DEF ClosingHeld, Closing
  <2>5. PeriodHeld(t)' /\ NextHeld(t)' /\ SeenExists(t)' /\ InvoiceHeld(t)'
    BY <1>3, <1>4, <1>5, <1>7
       DEF PeriodHeld, NextHeld, SeenExists, InvoiceHeld, NoInvoiceLock
  <2> QED
    BY <2>2, <2>4, <2>5 DEF SessionOK
<1> QED
  BY <1>1, <1>3, <1>7, <1>8, Statement

\* SkipPeriod keeps the invariant.
LEMMA SkipPeriodStep ==
  ASSUME LedgerInv, NEW t \in Txn, SkipPeriod(t)
  PROVE  LedgerInv'
<1> PICK r : r = tx[t]
  OBVIOUS
<1> PICK todo : todo = r.todo \ {r.period}
  OBVIOUS
<1>0. PICK s : s = [r EXCEPT !.todo = todo, !.period = None,
                             !.items = {}, !.pc = "pick_period"]
  OBVIOUS
<1>1. /\ r \in TxState /\ tx \in [Txn -> TxState] /\ Control(t) /\ TypeOK /\ MutexOK
      /\ r.op = "close_reference" /\ r.pc = "read_entries"
      /\ UNCHANGED <<month, tables>> /\ locks' = WithoutLocks(t)
  BY Session DEF SkipPeriod, NextInLoop
<1>2. tx' = [tx EXCEPT ![t] = s]
  BY <1>0, <1>1 DEF SkipPeriod, NextInLoop
<1>3. s \in TxState /\ tx'[t] = s
  <2>1. todo \in SUBSET PeriodId
    BY <1>1 DEF TxState
  <2> QED
    BY ZenonT(40), <1>0, <1>1, <1>2, <2>1 DEF TxState, Pc
<1>4. s.op = "close_reference" /\ s.next = None /\ s.pc = "pick_period"
  BY <1>0, <1>1 DEF TxState, Control
<1>5. LocksOK(t) /\ NoInvoiceLock(t)'
  BY <1>1, GiveLocks, Rows DEF NoInvoiceLock
<1>6. Control(t)' /\ SeenExists(t)'
  BY <1>3, <1>4 DEF Control, PcOf, SeenExists
<1> QED
  BY <1>1, <1>2, <1>3, <1>4, <1>5, <1>6, EarlyStatement DEF Early, EarlyPc

\* ReadPeriod keeps the invariant.
LEMMA ReadPeriodStep ==
  ASSUME LedgerInv, NEW t \in Txn, ReadPeriod(t)
  PROVE  LedgerInv'
<1> PICK r : r = tx[t]
  OBVIOUS
<1> PICK p : p = PeriodOf(r.order)
  OBVIOUS
<1> PICK pc : pc = IF periods[p] = "open" THEN "insert_credit" ELSE "read_invoice"
  OBVIOUS
<1>0. PICK s : s = [r EXCEPT !.period = p, !.pc = pc]
  OBVIOUS
<1>1. /\ r \in TxState /\ tx \in [Txn -> TxState] /\ Control(t) /\ SessionOK(t)
      /\ TypeOK /\ MutexOK /\ r.pc = "read_period"
      /\ UNCHANGED <<month, tables>> /\ UNCHANGED locks
  BY Session DEF ReadPeriod
<1>2. tx' = [tx EXCEPT ![t] = s]
  BY <1>0, <1>1 DEF ReadPeriod
<1>3. /\ r.op = "cancel" /\ r.next = None /\ r.order \in Order /\ r.cust \in Customer
      /\ orders[r.order] # "none"
  BY <1>1 DEF Control, PcOf, TxState, AllOperations, SessionOK, SeenExists
<1>4. p \in PeriodId /\ periods[p] # "none"
  <2>1. \E e \in entries : e.type = "order" /\ e.order = r.order
    BY <1>3 DEF LedgerInv, OrdersCharged
  <2>2. PICK e \in entries : p = e.period
    BY Zenon, <2>1 DEF PeriodOf
  <2> QED
    BY <2>2 DEF LedgerInv, TypeOK, EntriesExist, Entry
<1>5. pc = "read_invoice" => invoices[p] # None
  BY <1>1, <1>4 DEF LedgerInv, ClosedIffInvoiced, TypeOK
<1>6. s \in TxState /\ tx'[t] = s
  BY Zenon, <1>0, <1>1, <1>2, <1>4, Moved DEF Pc
<1>7. /\ s.op = "cancel" /\ s.cust = r.cust /\ s.order = r.order /\ s.period = p
      /\ s.next = None /\ s.pc = pc /\ pc \in {"insert_credit", "read_invoice"}
      /\ UNCHANGED <<orders, periods, invoices>> /\ p # None
  BY <1>0, <1>1, <1>3, <1>4, NoneRow DEF TxState, tables
<1>8. LocksOK(t) /\ NoInvoiceLock(t)'
  BY <1>1, InvoiceLocksLate, SameNoInvoiceLock
<1>9. SessionOK(t)'
  <2>1. s.pc \in PcOf[s.op]
    BY <1>7 DEF PcOf
  <2>2. Control(t)'
    BY <1>3, <1>6, <1>7, <2>1 DEF Control
  <2>3. SeenExists(t)'
    BY <1>3, <1>4, <1>5, <1>6, <1>7 DEF SeenExists
  <2>4. PeriodHeld(t)' /\ NextHeld(t)' /\ ClosingHeld(t)' /\ InvoiceHeld(t)'
    BY <1>6, <1>7, <1>8
       DEF PeriodHeld, NextHeld, ClosingHeld, Closing, InvoiceHeld, NoInvoiceLock
  <2> QED
    BY <2>2, <2>3, <2>4 DEF SessionOK
<1> QED
  BY <1>1, <1>2, <1>6, <1>8, <1>9, Statement

\* InsertCredit keeps the invariant.
LEMMA InsertCreditStep ==
  ASSUME LedgerInv, NEW t \in Txn, InsertCredit(t)
  PROVE  LedgerInv'
<1> PICK r : r = tx[t]
  OBVIOUS
<1>0. PICK s : s = [r EXCEPT !.pc = "lock_customer"]
  OBVIOUS
<1>1. /\ r \in TxState /\ tx \in [Txn -> TxState] /\ Control(t) /\ SessionOK(t)
      /\ TypeOK /\ MutexOK /\ r.pc = "insert_credit"
      /\ UNCHANGED <<month, tables>> /\ tx' = [tx EXCEPT ![t] = s]
      /\ CanLock(t, <<"period", r.period>>, "S")
      /\ locks' = WithLock(t, <<"period", r.period>>, "S")
  BY <1>0, Session DEF InsertCredit
<1>2. s \in TxState /\ tx'[t] = s
  BY Zenon, <1>0, <1>1, Moved DEF Pc
<1>3. /\ s.op = r.op /\ s.cust = r.cust /\ s.order = r.order /\ s.period = r.period
      /\ s.next = r.next /\ s.pc = "lock_customer"
  BY <1>0, <1>1 DEF TxState
<1>4. /\ r.op = "cancel" /\ r.next = None /\ r.order \in Order /\ r.cust \in Customer
      /\ r.period # None /\ orders[r.order] # "none" /\ periods[r.period] # "none"
  BY <1>1 DEF Control, PcOf, TxState, AllOperations, SessionOK, SeenExists
<1>5. LocksOK(t) /\ NoInvoiceLock(t)'
  <2>1. r.period \in PeriodId /\ <<"period", r.period>> \in Row
    BY <1>1, <1>4, Rows DEF TxState
  <2>2. /\ LocksOK(t)
        /\ \A q \in Row : \A m \in {"X", "S"} :
             Holds(t, q, m)' <=> Holds(t, q, m) \/ (q = <<"period", r.period>> /\ m = "S")
    BY <1>1, <2>1, TakeLock
  <2>3. NoInvoiceLock(t)
    BY <1>1, InvoiceLocksLate
  <2> QED
    BY <2>2, <2>3, Rows DEF NoInvoiceLock
<1>6. SessionOK(t)'
  <2>1. s.pc \in PcOf[s.op]
    BY <1>3, <1>4 DEF PcOf
  <2>2. Control(t)'
    BY <1>2, <1>3, <1>4, <2>1 DEF Control
  <2>3. SeenExists(t)'
    BY <1>1, <1>2, <1>3, <1>4 DEF SeenExists, tables
  <2>4. PeriodHeld(t)' /\ NextHeld(t)' /\ ClosingHeld(t)' /\ InvoiceHeld(t)'
    BY <1>2, <1>3, <1>4, <1>5
       DEF PeriodHeld, NextHeld, ClosingHeld, Closing, InvoiceHeld, NoInvoiceLock
  <2> QED
    BY <2>2, <2>3, <2>4 DEF SessionOK
<1> QED
  BY <1>1, <1>2, <1>5, <1>6, Statement

\* ReadInvoice keeps the invariant.
LEMMA ReadInvoiceStep ==
  ASSUME LedgerInv, NEW t \in Txn, ReadInvoice(t)
  PROVE  LedgerInv'
<1> PICK r : r = tx[t]
  OBVIOUS
<1> DEFINE paid == invoices[r.period].status = "paid"
<1> PICK p : p = IF paid THEN None ELSE r.period
  OBVIOUS
<1> PICK pc : pc = IF paid THEN "find_period" ELSE "lock_invoice"
  OBVIOUS
<1>0. PICK s : s = [r EXCEPT !.period = p, !.pc = pc]
  OBVIOUS
<1>1. /\ r \in TxState /\ tx \in [Txn -> TxState] /\ Control(t) /\ SessionOK(t)
      /\ r.pc = "read_invoice"
      /\ UNCHANGED <<month, tables>> /\ UNCHANGED locks
  BY Session DEF ReadInvoice
<1>2. tx' = [tx EXCEPT ![t] = s]
  BY <1>0, <1>1 DEF ReadInvoice
<1>3. /\ r.op = "cancel" /\ r.next = None /\ r.order \in Order /\ r.cust \in Customer
      /\ r.period # None /\ orders[r.order] # "none" /\ invoices[r.period] # None
  BY <1>1 DEF Control, PcOf, TxState, AllOperations, SessionOK, SeenExists
<1>4. s \in TxState /\ tx'[t] = s
  <2>1. p \in PeriodId \cup {None} /\ pc \in Pc
    BY <1>1 DEF TxState, Pc
  <2> QED
    BY <1>0, <1>1, <1>2, <2>1, Moved
<1>5. /\ s.op = "cancel" /\ s.cust = r.cust /\ s.order = r.order /\ s.period = p
      /\ s.next = None /\ s.pc = pc /\ UNCHANGED <<orders, invoices>>
  BY <1>0, <1>1, <1>3 DEF TxState, tables
<1>6. /\ pc \in {"find_period", "lock_invoice"}
      /\ pc = "find_period" => p = None
      /\ pc = "lock_invoice" => p # None /\ invoices[p] # None
  BY <1>3
<1>7. s.pc \in PcOf[s.op]
  BY <1>5, <1>6 DEF PcOf
<1>8. Control(t)' /\ SeenExists(t)'
  BY <1>3, <1>4, <1>5, <1>6, <1>7 DEF Control, SeenExists
<1>9. LocksOK(t) /\ NoInvoiceLock(t)'
  BY <1>1, InvoiceLocksLate, SameNoInvoiceLock
<1> QED
  BY <1>1, <1>2, <1>4, <1>5, <1>6, <1>8, <1>9, EarlyStatement DEF Early, EarlyPc

\* LockInvoice keeps the invariant.
LEMMA LockInvoiceStep ==
  ASSUME LedgerInv, NEW t \in Txn, LockInvoice(t)
  PROVE  LedgerInv'
<1> PICK r : r = tx[t]
  OBVIOUS
<1>0. PICK s : s = [r EXCEPT !.pc = "lock_customer"]
  OBVIOUS
<1>1. /\ r \in TxState /\ tx \in [Txn -> TxState] /\ Control(t) /\ SessionOK(t)
      /\ TypeOK /\ MutexOK /\ r.pc = "lock_invoice"
      /\ UNCHANGED <<month, tables>> /\ tx' = [tx EXCEPT ![t] = s]
      /\ CanLock(t, <<"invoice", r.period>>, "X")
      /\ locks' = WithLock(t, <<"invoice", r.period>>, "X")
  BY <1>0, Session DEF LockInvoice
<1>2. s \in TxState /\ tx'[t] = s
  BY Zenon, <1>0, <1>1, Moved DEF Pc
<1>3. /\ s.op = r.op /\ s.cust = r.cust /\ s.order = r.order /\ s.period = r.period
      /\ s.next = r.next /\ s.pc = "lock_customer" /\ s.amount = r.amount
  BY <1>0, <1>1 DEF TxState
<1>4. /\ r.op \in {"adjust", "cancel", "pay"} /\ r.next = None /\ r.cust \in Customer
      /\ r.period # None /\ invoices[r.period] # None
      /\ r.op = "cancel" => r.order \in Order /\ orders[r.order] # "none"
  BY <1>1 DEF Control, PcOf, TxState, AllOperations, SessionOK, SeenExists
<1>5. r.period \in PeriodId /\ periods[r.period] # "none"
  BY <1>1, <1>4 DEF TxState, LedgerInv, ClosedIffInvoiced
<1>6. r.op # "pay" => /\ invoices[r.period].status # "paid"
                      /\ invoices[r.period].total + r.amount >= 0
                      /\ invoices[r.period].total + r.amount >= invoices[r.period].paid
  BY DEF LockInvoice
<1>7. /\ LocksOK(t) /\ Holds(t, <<"invoice", r.period>>, "X")'
      /\ \A q \in PeriodId : Holds(t, <<"invoice", q>>, "X")' => q = r.period
  <2>1. <<"invoice", r.period>> \in Row
    BY <1>5, Rows
  <2>2. /\ LocksOK(t) /\ Holds(t, <<"invoice", r.period>>, "X")'
        /\ \A q \in Row : \A m \in {"X", "S"} :
             Holds(t, q, m)' <=> Holds(t, q, m) \/ (q = <<"invoice", r.period>> /\ m = "X")
    BY <1>1, <2>1, TakeLock
  <2>3. NoInvoiceLock(t)
    BY <1>1, InvoiceLocksLate
  <2> QED
    BY <2>2, <2>3, Rows DEF NoInvoiceLock
<1>8. SessionOK(t)'
  <2>1. s.pc \in PcOf[s.op]
    BY <1>3, <1>4 DEF PcOf
  <2>2. Control(t)'
    BY <1>2, <1>3, <1>4, <2>1 DEF Control
  <2>3. SeenExists(t)'
    BY <1>1, <1>2, <1>3, <1>4, <1>5 DEF SeenExists, tables
  <2>4. PeriodHeld(t)' /\ NextHeld(t)' /\ ClosingHeld(t)'
    BY <1>2, <1>3, <1>4 DEF PeriodHeld, NextHeld, ClosingHeld, Closing
  <2>5. invoices' = invoices
    BY <1>1 DEF tables
  <2>6. InvoiceHeld(t)'
    BY <1>2, <1>3, <1>4, <1>6, <1>7, <2>5 DEF InvoiceHeld
  <2> QED
    BY <2>2, <2>3, <2>4, <2>6 DEF SessionOK
<1> QED
  BY Zenon, <1>1, <1>2, <1>7, <1>8, Statement

\* InsertOrder keeps the invariant.
LEMMA InsertOrderStep ==
  ASSUME LedgerInv, NEW t \in Txn, InsertOrder(t)
  PROVE  LedgerInv'
<1> PICK r : r = tx[t]
  OBVIOUS
<1>0. PICK s : s = [r EXCEPT !.pc = "lock_customer", !.month = month]
  OBVIOUS
<1>1. /\ r \in TxState /\ tx \in [Txn -> TxState] /\ Control(t) /\ SessionOK(t)
      /\ TypeOK /\ MutexOK /\ r.pc = "insert_order" /\ month \in Month
      /\ UNCHANGED <<month, tables>> /\ CanLock(t, <<"order", r.order>>, "X")
      /\ locks' = WithLock(t, <<"order", r.order>>, "X")
  BY Session DEF InsertOrder
<1>2. tx' = [tx EXCEPT ![t] = s]
  BY <1>0, <1>1 DEF InsertOrder, TxState
<1>3. s \in TxState /\ tx'[t] = s
  <2>1. s \in TxState
    BY ZenonT(40), <1>0, <1>1 DEF TxState, Pc
  <2> QED
    BY <1>1, <1>2, <2>1
<1>4. /\ s.op = r.op /\ s.cust = r.cust /\ s.order = r.order /\ s.period = r.period
      /\ s.next = r.next /\ s.pc = "lock_customer"
  BY <1>0, <1>1 DEF TxState
<1>5. /\ r.op = "checkout" /\ r.next = None /\ r.order \in Order /\ r.cust \in Customer
      /\ r.period = None
  BY <1>1 DEF Control, PcOf, TxState, AllOperations
<1>6. LocksOK(t) /\ NoInvoiceLock(t)'
  <2>1. <<"order", r.order>> \in Row
    BY <1>5, Rows
  <2>2. /\ LocksOK(t)
        /\ \A q \in Row : \A m \in {"X", "S"} :
             Holds(t, q, m)' <=> Holds(t, q, m) \/ (q = <<"order", r.order>> /\ m = "X")
    BY <1>1, <2>1, TakeLock
  <2>3. NoInvoiceLock(t)
    BY <1>1, InvoiceLocksLate
  <2> QED
    BY <2>2, <2>3, Rows DEF NoInvoiceLock
<1>7. SessionOK(t)'
  <2>1. s.pc \in PcOf[s.op]
    BY <1>4, <1>5 DEF PcOf
  <2>2. Control(t)' /\ SeenExists(t)'
    BY <1>3, <1>4, <1>5, <2>1 DEF Control, SeenExists
  <2>3. PeriodHeld(t)' /\ NextHeld(t)' /\ ClosingHeld(t)' /\ InvoiceHeld(t)'
    BY <1>3, <1>4, <1>5, <1>6
       DEF PeriodHeld, NextHeld, ClosingHeld, Closing, InvoiceHeld, NoInvoiceLock
  <2> QED
    BY <2>2, <2>3 DEF SessionOK
<1> QED
  BY <1>1, <1>2, <1>3, <1>6, <1>7, Statement

\* CloseReferenceEnd keeps the invariant.
LEMMA CloseReferenceEndStep ==
  ASSUME LedgerInv, NEW t \in Txn, CloseReferenceEnd(t)
  PROVE  LedgerInv'
BY FinishStep DEF CloseReferenceEnd

\* Abort keeps the invariant.
LEMMA AbortStep ==
  ASSUME LedgerInv, NEW t \in Txn, Abort(t)
  PROVE  LedgerInv'
BY FinishStep DEF Abort

-------------------------------------------------------------------------------
(* Commits: the tables change.                                               *)

TablesTyped == /\ orders \in [Order -> {"none", "confirmed", "cancelled"}]
               /\ periods \in [PeriodId -> {"none", "open", "closed"}]
               /\ entries \subseteq Entry
               /\ invoices \in [PeriodId -> Invoice \cup {None}]
               /\ exposure \in [Customer -> Nat]

TablesOK == /\ EntriesExist /\ OrdersCharged /\ PaidCovered
            /\ OneOpenPeriod /\ ClosedIffInvoiced /\ PurchasesInvoiced

\* What is left to show of a commit: the tables.
LEMMA Commit ==
  ASSUME LedgerInv, NEW t \in Txn, NEW s \in TxState,
         tx' = [tx EXCEPT ![t] = s], UNCHANGED month,
         LocksOK(t), SessionOK(t)', TablesKept(t), TablesTyped', TablesOK'
  PROVE  LedgerInv'
<1>1. TypeOK'
  BY DEF LedgerInv, TypeOK, TablesTyped, LocksOK
<1>2. Rest(t)
  BY DEF Rest, SessionsKept, LedgerInv, TypeOK, LocksOK
<1>3. \A u \in Txn : SessionOK(u)'
  BY <1>2, OthersKeep
<1> QED
  BY <1>1, <1>3 DEF LedgerInv, LocksOK, TablesOK

\* The same for a commit that ends the request.
LEMMA LastCommit ==
  ASSUME LedgerInv, NEW t \in Txn, Finish(t), UNCHANGED month,
         TablesKept(t), TablesTyped', TablesOK'
  PROVE  LedgerInv'
<1>1. Idle \in TxState
  BY LedgerAssumption DEF Idle, TxState, Pc, Month
<1> QED
  BY <1>1, IdleSession, Commit

\* GREATEST(0, n) is never negative.
LEMMA Clipped ==
  ASSUME NEW n \in Int
  PROVE  AtLeastZero(n) \in Nat
BY DEF AtLeastZero

\* A charge or a carried credit has its period: locked and open, or the one
\* that the transaction inserts for a customer without an open period.
LEMMA ChargedPeriod ==
  ASSUME LedgerInv, NEW t \in Txn, NEW r, r = tx[t], NEW q, q = EntryPeriod(r),
         r.pc = "commit_carry" \/ (r.op = "checkout" /\ r.pc = "commit")
  PROVE  /\ q \in PeriodId
         /\ WithNext(periods, r) = [periods EXCEPT ![q] = "open"]
         /\ \/ periods[q] = "open" /\ Holds(t, <<"period", q>>, "X")
            \/ /\ periods[q] = "none" /\ Holds(t, <<"open_key", q.cust>>, "X")
               /\ OpenPeriods(q.cust) = {}
<1>1. r \in TxState /\ SessionOK(t) /\ TypeOK
  BY DEF LedgerInv, TypeOK
<1>2. CASE r.next = None
  <2>1. /\ r.period # None /\ Holds(t, <<"period", r.period>>, "X")
        /\ periods[r.period] = "open" /\ q = r.period
    BY <1>1, <1>2 DEF SessionOK, PeriodHeld, EntryPeriod
  <2>2. q \in PeriodId
    BY <1>1, <2>1 DEF TxState
  <2>3. WithNext(periods, r) = [periods EXCEPT ![q] = "open"]
    BY <1>1, <1>2, <2>1, <2>2 DEF WithNext, TypeOK
  <2> QED
    BY <2>1, <2>2, <2>3
<1>3. CASE r.next # None
  <2>1. /\ Holds(t, <<"open_key", r.cust>>, "X") /\ r.next.cust = r.cust
        /\ periods[r.next] = "none" /\ OpenPeriods(r.cust) \subseteq {r.period}
        /\ q = r.next
    BY <1>1, <1>3 DEF SessionOK, NextHeld, EntryPeriod
  <2>2. q \in PeriodId /\ r.op # "close_customer"
    BY <1>1, <1>3, <2>1 DEF TxState, SessionOK, Control, PcOf, AllOperations
  <2>3. r.period = None
    BY <1>1, <1>3, <2>2 DEF SessionOK, Control
  <2>4. OpenPeriods(r.cust) = {}
    BY <2>1, <2>3, NoneRow DEF OpenPeriods
  <2>5. WithNext(periods, r) = [periods EXCEPT ![q] = "open"]
    BY <1>3, <2>1 DEF WithNext
  <2> QED
    BY <2>1, <2>2, <2>4, <2>5
<1> QED
  BY <1>2, <1>3

\* Writing an entry to that period keeps what the other sessions rely on, and
\* the billing tables consistent.
LEMMA WriteEntry ==
  ASSUME LedgerInv, NEW t \in Txn, NEW q \in PeriodId, NEW e \in Entry, e.period = q,
         periods' = [periods EXCEPT ![q] = "open"], entries' = entries \cup {e},
         invoices' = invoices,
         \/ periods[q] = "open" /\ Holds(t, <<"period", q>>, "X")
         \/ /\ periods[q] = "none" /\ Holds(t, <<"open_key", q.cust>>, "X")
            /\ OpenPeriods(q.cust) = {},
         \A o \in Order : orders[o] # "none" => orders'[o] # "none"
  PROVE  /\ TablesKept(t)
         /\ periods' \in [PeriodId -> {"none", "open", "closed"}]
         /\ entries' \subseteq Entry
         /\ EntriesExist' /\ PaidCovered'
         /\ OneOpenPeriod' /\ ClosedIffInvoiced' /\ PurchasesInvoiced'
<1>1. TypeOK /\ OneOpenPeriod /\ ClosedIffInvoiced /\ PurchasesInvoiced
      /\ EntriesExist /\ PaidCovered
  BY DEF LedgerInv
<1>2. \A p \in PeriodId : periods'[p] = IF p = q THEN "open" ELSE periods[p]
  BY <1>1 DEF TypeOK
<1>3. periods' \in [PeriodId -> {"none", "open", "closed"}] /\ entries' \subseteq Entry
  BY <1>1 DEF TypeOK
<1>4. \A p \in PeriodId : p # q => EntriesOf(p)' = EntriesOf(p)
  BY DEF EntriesOf
<1>5. TablesKept(t)
  BY <1>2, <1>4 DEF TablesKept
<1>6. EntriesExist'
  BY <1>1, <1>2 DEF EntriesExist, TypeOK, Entry
<1>7. OneOpenPeriod'
  BY <1>1, <1>2 DEF OneOpenPeriod, OpenPeriods
<1>8. ClosedIffInvoiced'
  BY <1>1, <1>2 DEF ClosedIffInvoiced
<1>9. PurchasesInvoiced'
  BY <1>1, <1>2 DEF PurchasesInvoiced, TypeOK, Entry
<1>10. PaidCovered'
  BY <1>1 DEF PaidCovered
<1> QED
  BY <1>3, <1>5, <1>6, <1>7, <1>8, <1>9, <1>10

\* CommitCheckout keeps the invariant.
LEMMA CommitCheckoutStep ==
  ASSUME LedgerInv, NEW t \in Txn, CommitCheckout(t)
  PROVE  LedgerInv'
<1>0. PICK r : r = tx[t]
  OBVIOUS
<1>1. PICK q : q = EntryPeriod(r)
  OBVIOUS
<1>2. PICK e : e = [type |-> "order", order |-> r.order, period |-> q, month |-> r.month]
  OBVIOUS
<1>3. r \in TxState /\ SessionOK(t) /\ TypeOK /\ OrdersCharged
  BY <1>0 DEF LedgerInv, TypeOK
<1>4. /\ r.op = "checkout" /\ r.pc = "commit" /\ Finish(t)
      /\ orders' = [orders EXCEPT ![r.order] = "confirmed"]
      /\ exposure' = [exposure EXCEPT ![r.cust] = @ + Price[r.order]]
      /\ periods' = WithNext(periods, r) /\ entries' = entries \cup {e}
      /\ month' = month /\ invoices' = invoices
  BY <1>0, <1>1, <1>2 DEF CommitCheckout
<1>5. r.order \in Order /\ r.cust \in Customer /\ Price[r.order] \in Nat
  BY <1>0, <1>3, <1>4, LedgerAssumption DEF SessionOK, Control
<1>6. /\ q \in PeriodId
      /\ WithNext(periods, r) = [periods EXCEPT ![q] = "open"]
      /\ \/ periods[q] = "open" /\ Holds(t, <<"period", q>>, "X")
         \/ /\ periods[q] = "none" /\ Holds(t, <<"open_key", q.cust>>, "X")
            /\ OpenPeriods(q.cust) = {}
  BY <1>0, <1>1, <1>4, ChargedPeriod
<1>7. e \in Entry /\ e.period = q
  BY <1>2, <1>3, <1>5, <1>6 DEF Entry, TxState
<1>8. \A o \in Order : orders[o] # "none" => orders'[o] # "none"
  BY <1>3, <1>4, <1>5 DEF TypeOK
<1>9. /\ TablesKept(t)
      /\ periods' \in [PeriodId -> {"none", "open", "closed"}] /\ entries' \subseteq Entry
      /\ EntriesExist' /\ PaidCovered'
      /\ OneOpenPeriod' /\ ClosedIffInvoiced' /\ PurchasesInvoiced'
  BY <1>4, <1>6, <1>7, <1>8, WriteEntry
<1>10. TablesTyped'
  BY <1>3, <1>4, <1>5, <1>9 DEF TablesTyped, TypeOK
<1>11. OrdersCharged'
  BY <1>2, <1>3, <1>4 DEF OrdersCharged, TypeOK
<1> QED
  BY <1>4, <1>9, <1>10, <1>11, LastCommit DEF TablesOK

\* CommitCarry keeps the invariant.
LEMMA CommitCarryStep ==
  ASSUME LedgerInv, NEW t \in Txn, CommitCarry(t)
  PROVE  LedgerInv'
<1>0. PICK r : r = tx[t]
  OBVIOUS
<1>1. PICK q : q = EntryPeriod(r)
  OBVIOUS
<1>2. PICK e : e = [type |-> "order_cancellation", order |-> r.order,
                    period |-> q, month |-> r.month]
  OBVIOUS
<1>3. r \in TxState /\ SessionOK(t) /\ TypeOK /\ OrdersCharged
  BY <1>0 DEF LedgerInv, TypeOK
<1>4. /\ r.pc = "commit_carry" /\ Finish(t)
      /\ orders' = [orders EXCEPT ![r.order] = "cancelled"]
      /\ periods' = WithNext(periods, r) /\ entries' = entries \cup {e}
      /\ month' = month /\ invoices' = invoices /\ exposure' = exposure
  BY <1>0, <1>1, <1>2 DEF CommitCarry, CreditEntry
<1>5. r.order \in Order /\ orders[r.order] # "none"
  BY <1>0, <1>3, <1>4 DEF SessionOK, Control, PcOf, SeenExists, TxState, AllOperations
<1>6. /\ q \in PeriodId
      /\ WithNext(periods, r) = [periods EXCEPT ![q] = "open"]
      /\ \/ periods[q] = "open" /\ Holds(t, <<"period", q>>, "X")
         \/ /\ periods[q] = "none" /\ Holds(t, <<"open_key", q.cust>>, "X")
            /\ OpenPeriods(q.cust) = {}
  BY <1>0, <1>1, <1>4, ChargedPeriod
<1>7. e \in Entry /\ e.period = q
  BY <1>2, <1>3, <1>5, <1>6 DEF Entry, TxState
<1>8. \A o \in Order : orders'[o] # "none" <=> orders[o] # "none"
  BY <1>3, <1>4, <1>5 DEF TypeOK
<1>9. /\ TablesKept(t)
      /\ periods' \in [PeriodId -> {"none", "open", "closed"}] /\ entries' \subseteq Entry
      /\ EntriesExist' /\ PaidCovered'
      /\ OneOpenPeriod' /\ ClosedIffInvoiced' /\ PurchasesInvoiced'
  BY <1>4, <1>6, <1>7, <1>8, WriteEntry
<1>10. TablesTyped'
  BY <1>3, <1>4, <1>5, <1>9 DEF TablesTyped, TypeOK
<1>11. OrdersCharged'
  BY <1>3, <1>4, <1>8 DEF OrdersCharged
<1> QED
  BY <1>4, <1>9, <1>10, <1>11, LastCommit DEF TablesOK

\* CommitCancel keeps the invariant.
LEMMA CommitCancelStep ==
  ASSUME LedgerInv, NEW t \in Txn, CommitCancel(t)
  PROVE  LedgerInv'
<1>0. PICK r : r = tx[t]
  OBVIOUS
<1>1. PICK q : q = EntryPeriod(r)
  OBVIOUS
<1>2. PICK e : e = [type |-> "order_cancellation", order |-> r.order,
                    period |-> q, month |-> r.month]
  OBVIOUS
<1>3. r \in TxState /\ SessionOK(t) /\ TypeOK /\ TablesOK
  BY <1>0 DEF LedgerInv, TypeOK, TablesOK
<1>4. /\ r.op = "cancel" /\ r.pc = "commit" /\ Finish(t)
      /\ Holds(t, <<"period", r.period>>, "S")
      /\ orders' = [orders EXCEPT ![r.order] = "cancelled"]
      /\ entries' = entries \cup {e}
      /\ exposure' = [exposure EXCEPT ![r.cust] = AtLeastZero(@ + r.amount)]
      /\ month' = month /\ periods' = periods /\ invoices' = invoices
  BY <1>0, <1>1, <1>2 DEF CommitCancel, CreditEntry
<1>5. /\ r.order \in Order /\ orders[r.order] # "none" /\ r.cust \in Customer
      /\ r.period # None /\ periods[r.period] # "none"
  BY <1>0, <1>3, <1>4 DEF SessionOK, Control, SeenExists
<1>6. r.next = None
  BY <1>0, <1>3, <1>4, <1>5 DEF SessionOK, Control
<1>7. q = r.period /\ q \in PeriodId
  BY <1>1, <1>3, <1>5, <1>6 DEF EntryPeriod, TxState
<1>8. e \in Entry /\ e.period = q /\ e.type = "order_cancellation"
  BY <1>2, <1>3, <1>5, <1>7 DEF Entry, TxState
<1>9. \A o \in Order : orders'[o] # "none" <=> orders[o] # "none"
  BY <1>3, <1>4, <1>5 DEF TypeOK
<1>10. \A p \in PeriodId : p # q => EntriesOf(p)' = EntriesOf(p)
  BY <1>4, <1>8 DEF EntriesOf
<1>11. TablesKept(t)
  BY <1>4, <1>7, <1>9, <1>10 DEF TablesKept
<1>12. TablesTyped'
  <2>1. exposure[r.cust] + r.amount \in Int
    BY <1>3, <1>5 DEF TypeOK, TxState
  <2>2. AtLeastZero(exposure[r.cust] + r.amount) \in Nat
    BY <2>1, Clipped
  <2> QED
    BY <1>3, <1>4, <1>5, <1>8, <2>2 DEF TablesTyped, TypeOK
<1>13. EntriesExist' /\ OrdersCharged' /\ PaidCovered'
  BY <1>3, <1>4, <1>5, <1>7, <1>8, <1>9
     DEF TablesOK, EntriesExist, OrdersCharged, PaidCovered
<1>14. OneOpenPeriod' /\ ClosedIffInvoiced' /\ PurchasesInvoiced'
  BY <1>3, <1>4, <1>8 DEF TablesOK, OneOpenPeriod, ClosedIffInvoiced, PurchasesInvoiced
<1> QED
  BY <1>4, <1>11, <1>12, <1>13, <1>14, LastCommit DEF TablesOK

\* A change of one invoice, made by a session that holds it or that leaves its
\* total, its payments and its status alone, disturbs nobody.
LEMMA ChangeInvoice ==
  ASSUME LedgerInv, NEW t \in Txn, NEW p \in PeriodId, NEW inv \in Invoice,
         invoices[p] # None, invoices' = [invoices EXCEPT ![p] = inv],
         inv.items = invoices[p].items,
         inv.status = "paid" => inv.total <= inv.paid,
         \/ Holds(t, <<"invoice", p>>, "X")
         \/ /\ inv.total = invoices[p].total
            /\ inv.paid = invoices[p].paid
            /\ inv.status = invoices[p].status,
         periods' = periods, entries' = entries,
         \A o \in Order : orders'[o] # "none" <=> orders[o] # "none"
  PROVE  /\ TablesKept(t) /\ TablesOK'
         /\ invoices' \in [PeriodId -> Invoice \cup {None}]
<1>1. TypeOK /\ TablesOK /\ inv # None
  BY NoneRow DEF LedgerInv, TablesOK
<1>2. \A q \in PeriodId : invoices'[q] = IF q = p THEN inv ELSE invoices[q]
  BY <1>1 DEF TypeOK
<1>3. \A q \in PeriodId : EntriesOf(q)' = EntriesOf(q)
  BY DEF EntriesOf
<1>4. TablesKept(t)
  BY <1>1, <1>2, <1>3 DEF TablesKept
<1>5. EntriesExist' /\ OrdersCharged'
  BY <1>1 DEF TablesOK, EntriesExist, OrdersCharged
<1>6. PaidCovered' /\ ClosedIffInvoiced'
  BY <1>1, <1>2 DEF TablesOK, PaidCovered, ClosedIffInvoiced
<1>7. PurchasesInvoiced'
  BY <1>1, <1>2 DEF TablesOK, PurchasesInvoiced, TypeOK, Entry
<1>8. OneOpenPeriod'
  BY <1>1 DEF TablesOK, OneOpenPeriod
<1>9. invoices' \in [PeriodId -> Invoice \cup {None}]
  BY <1>1 DEF TypeOK
<1> QED
  BY <1>4, <1>5, <1>6, <1>7, <1>8, <1>9 DEF TablesOK

\* An adjustment within its checks leaves an invoice well typed, and covered if paid.
LEMMA AdjustedInvoice ==
  ASSUME NEW inv \in Invoice, NEW r \in TxState, r.op = "cancel" => r.order \in Order,
         inv.total + r.amount >= 0, inv.total + r.amount >= inv.paid, inv.status # "paid"
  PROVE  /\ Adjusted(inv, r) \in Invoice
         /\ Adjusted(inv, r).items = inv.items /\ Adjusted(inv, r).paid = inv.paid
         /\ Adjusted(inv, r).status = "paid" => Adjusted(inv, r).total <= inv.paid
<1> PICK newTotal : newTotal = inv.total + r.amount
  OBVIOUS
<1>1. newTotal \in Nat
  BY DEF Invoice, TxState
<1>2. (IF r.op = "cancel" THEN inv.credited \cup {r.order} ELSE inv.credited)
         \in SUBSET Order
  BY DEF Invoice
<1>3. (IF newTotal <= inv.paid THEN "paid" ELSE inv.status)
         \in {"open", "partially_paid", "paid"}
  BY DEF Invoice
<1> QED
  BY <1>1, <1>2, <1>3 DEF Adjusted, Invoice

\* CommitAdjust keeps the invariant.
LEMMA CommitAdjustStep ==
  ASSUME LedgerInv, NEW t \in Txn, CommitAdjust(t)
  PROVE  LedgerInv'
<1>0. PICK r : r = tx[t]
  OBVIOUS
<1>1. PICK p : p = r.period
  OBVIOUS
<1>2. PICK old : old = invoices[p]
  OBVIOUS
<1>3. PICK inv : inv = Adjusted(old, r)
  OBVIOUS
<1>4. r \in TxState /\ SessionOK(t) /\ TypeOK /\ TablesOK
  BY <1>0 DEF LedgerInv, TypeOK, TablesOK
<1>5. /\ r.op \in {"adjust", "cancel"} /\ r.pc = "commit" /\ Finish(t)
      /\ Holds(t, <<"invoice", p>>, "X")
      /\ invoices' = [invoices EXCEPT ![p] = Adjusted(@, r)]
      /\ exposure' = [exposure EXCEPT ![r.cust] = AtLeastZero(@ + r.amount)]
      /\ orders' = IF r.op = "cancel" THEN [orders EXCEPT ![r.order] = "cancelled"]
                                      ELSE orders
      /\ UNCHANGED <<month, periods, entries>>
  BY <1>0, <1>1 DEF CommitAdjust
<1>6. /\ p \in PeriodId /\ r.cust \in Customer
      /\ r.op = "cancel" => r.order \in Order /\ orders[r.order] # "none"
  BY <1>0, <1>1, <1>4, <1>5 DEF SessionOK, Control, SeenExists, TxState
<1>7. /\ old # None /\ old.status # "paid"
      /\ old.total + r.amount >= 0 /\ old.total + r.amount >= old.paid
  BY <1>0, <1>2, <1>4, <1>5, <1>6 DEF SessionOK, InvoiceHeld
<1>8. old \in Invoice
  BY <1>2, <1>4, <1>6, <1>7 DEF TypeOK
<1>9. /\ inv \in Invoice /\ inv.items = old.items
      /\ inv.status = "paid" => inv.total <= inv.paid
  BY <1>3, <1>4, <1>6, <1>7, <1>8, AdjustedInvoice
<1>10. invoices' = [invoices EXCEPT ![p] = inv]
  BY <1>2, <1>3, <1>5
<1>11. \A o \in Order : orders'[o] # "none" <=> orders[o] # "none"
  BY <1>4, <1>5, <1>6 DEF TypeOK
<1>12. /\ TablesKept(t) /\ TablesOK'
       /\ invoices' \in [PeriodId -> Invoice \cup {None}]
  BY <1>2, <1>5, <1>6, <1>7, <1>9, <1>10, <1>11, ChangeInvoice
<1>13. TablesTyped'
  <2>1. exposure[r.cust] + r.amount \in Int
    BY <1>4, <1>6 DEF TypeOK, TxState
  <2>2. AtLeastZero(exposure[r.cust] + r.amount) \in Nat
    BY <2>1, Clipped
  <2> QED
    BY <1>4, <1>5, <1>6, <1>12, <2>2 DEF TablesTyped, TypeOK
<1> QED
  BY <1>5, <1>12, <1>13, LastCommit

\* ActivatePlan keeps the invariant.
LEMMA ActivatePlanStep ==
  ASSUME LedgerInv, NEW t \in Txn, ActivatePlan(t)
  PROVE  LedgerInv'
<1>0. PICK r : r = tx[t]
  OBVIOUS
<1>1. PICK p : p = r.period
  OBVIOUS
<1>2. PICK old : old = invoices[p]
  OBVIOUS
<1>3. PICK inv : inv = [old EXCEPT !.plan = "active", !.due = r.amount]
  OBVIOUS
<1>4. r \in TxState /\ SessionOK(t) /\ TypeOK /\ TablesOK
  BY <1>0 DEF LedgerInv, TypeOK, TablesOK
<1>5. /\ r.pc = "activate_plan" /\ Finish(t)
      /\ UNCHANGED <<month, orders, periods, entries, exposure>>
  BY <1>0 DEF ActivatePlan
<1>6. /\ r.op = "select_plan" /\ p # None /\ old # None /\ r.amount \in Nat
  BY <1>0, <1>1, <1>2, <1>4, <1>5
     DEF SessionOK, Control, PcOf, SeenExists, TxState, AllOperations
<1>7. p \in PeriodId /\ old \in Invoice
  BY <1>1, <1>2, <1>4, <1>6 DEF TypeOK, TxState
<1>8. invoices' = [invoices EXCEPT ![p] = inv]
  BY <1>0, <1>1, <1>2, <1>3, <1>4, <1>7 DEF ActivatePlan, TypeOK, Invoice
<1>9. /\ inv \in Invoice /\ inv.items = old.items /\ inv.total = old.total
      /\ inv.paid = old.paid /\ inv.status = old.status
  BY <1>3, <1>6, <1>7 DEF Invoice
<1>10. inv.status = "paid" => inv.total <= inv.paid
  BY <1>2, <1>4, <1>6, <1>7, <1>9 DEF TablesOK, PaidCovered
<1>11. /\ TablesKept(t) /\ TablesOK'
       /\ invoices' \in [PeriodId -> Invoice \cup {None}]
  BY <1>2, <1>5, <1>6, <1>7, <1>8, <1>9, <1>10, ChangeInvoice
<1>12. TablesTyped'
  BY <1>4, <1>5, <1>11 DEF TablesTyped, TypeOK
<1> QED
  BY <1>5, <1>11, <1>12, LastCommit

\* A payment leaves an invoice well typed, and covered if paid.
LEMMA PaidInvoice ==
  ASSUME NEW inv \in Invoice
  PROVE  /\ Paid(inv) \in Invoice
         /\ Paid(inv).items = inv.items /\ Paid(inv).total = inv.total
         /\ Paid(inv).paid >= inv.paid
         /\ Paid(inv).status = "paid" <=> Paid(inv).total <= Paid(inv).paid
<1>0. PICK newPaid : newPaid = inv.paid + inv.due
  OBVIOUS
<1>1. newPaid \in Nat /\ newPaid >= inv.paid
  BY <1>0 DEF Invoice
<1>2. PICK status : status = IF newPaid >= inv.total THEN "paid" ELSE "partially_paid"
  OBVIOUS
<1>3. Paid(inv) = [inv EXCEPT !.paid = newPaid, !.plan = "completed", !.status = status]
  BY <1>0, <1>2 DEF Paid
<1>4. status \in {"open", "partially_paid", "paid"}
  BY <1>2
<1>5. Paid(inv) \in Invoice
  BY <1>1, <1>3, <1>4 DEF Invoice
<1>6. /\ Paid(inv).items = inv.items /\ Paid(inv).total = inv.total
      /\ Paid(inv).paid = newPaid /\ Paid(inv).status = status
  BY <1>3 DEF Invoice
<1>7. status = "paid" <=> inv.total <= newPaid
  BY <1>1, <1>2 DEF Invoice
<1> QED
  BY <1>1, <1>5, <1>6, <1>7

\* CommitPay keeps the invariant.
LEMMA CommitPayStep ==
  ASSUME LedgerInv, NEW t \in Txn, CommitPay(t)
  PROVE  LedgerInv'
<1>0. PICK r : r = tx[t]
  OBVIOUS
<1>1. PICK p : p = r.period
  OBVIOUS
<1>2. PICK old : old = invoices[p]
  OBVIOUS
<1>3. PICK inv : inv = Paid(old)
  OBVIOUS
<1>4. r \in TxState /\ SessionOK(t) /\ TypeOK /\ TablesOK
  BY <1>0 DEF LedgerInv, TypeOK, TablesOK
<1>5. /\ r.op = "pay" /\ r.pc = "commit" /\ Finish(t)
      /\ invoices' = [invoices EXCEPT ![p] = Paid(@)]
      /\ exposure' = [exposure EXCEPT ![r.cust] = AtLeastZero(@ + r.amount)]
      /\ UNCHANGED <<month, orders, periods, entries>>
  BY <1>0, <1>1 DEF CommitPay
<1>6. p \in PeriodId /\ r.cust \in Customer
  BY <1>0, <1>1, <1>4, <1>5 DEF SessionOK, Control, TxState
<1>7. Holds(t, <<"invoice", p>>, "X") /\ old # None
  BY <1>0, <1>1, <1>2, <1>4, <1>5, <1>6 DEF SessionOK, InvoiceHeld
<1>8. old \in Invoice
  BY <1>2, <1>4, <1>6, <1>7 DEF TypeOK
<1>9. /\ inv \in Invoice /\ inv.items = old.items
      /\ inv.status = "paid" => inv.total <= inv.paid
  BY <1>3, <1>8, PaidInvoice
<1>10. invoices' = [invoices EXCEPT ![p] = inv]
  BY <1>2, <1>3, <1>5
<1>11. /\ TablesKept(t) /\ TablesOK'
       /\ invoices' \in [PeriodId -> Invoice \cup {None}]
  BY <1>2, <1>5, <1>6, <1>7, <1>9, <1>10, ChangeInvoice
<1>12. TablesTyped'
  <2>1. exposure[r.cust] + r.amount \in Int
    BY <1>4, <1>6 DEF TypeOK, TxState
  <2>2. AtLeastZero(exposure[r.cust] + r.amount) \in Nat
    BY <2>1, Clipped
  <2> QED
    BY <1>4, <1>5, <1>6, <1>11, <2>2 DEF TablesTyped, TypeOK
<1> QED
  BY <1>5, <1>11, <1>12, LastCommit

\* The session of the closing loop after one of its periods.
LEMMA LoopSession ==
  ASSUME LedgerInv, NEW t \in Txn, tx[t].op = "close_reference",
         tx[t].pc \in {"read_entries", "commit"}, NextInLoop(t)
  PROVE  \E s \in TxState : /\ tx' = [tx EXCEPT ![t] = s]
                            /\ LocksOK(t) /\ SessionOK(t)'
<1>0. PICK r : r = tx[t]
  OBVIOUS
<1>1. PICK todo : todo = r.todo \ {r.period}
  OBVIOUS
<1>2. PICK s : s = [r EXCEPT !.todo = todo, !.period = None,
                             !.items = {}, !.pc = "pick_period"]
  OBVIOUS
<1>3. /\ r \in TxState /\ tx \in [Txn -> TxState] /\ TypeOK /\ MutexOK
      /\ locks' = WithoutLocks(t) /\ r.op = "close_reference"
  BY <1>0, Session DEF NextInLoop
<1>4. tx' = [tx EXCEPT ![t] = s]
  BY <1>0, <1>1, <1>2, <1>3 DEF NextInLoop
<1>5. s \in TxState
  <2>1. todo \in SUBSET PeriodId
    BY <1>1, <1>3 DEF TxState
  <2> QED
    BY <1>2, <1>3, <2>1 DEF TxState, Pc
<1>6. s.op = "close_reference" /\ s.pc = "pick_period" /\ s.next = r.next
  BY <1>2, <1>3 DEF TxState
<1>7. tx'[t] = s
  BY <1>3, <1>4
<1>8. LocksOK(t) /\ NoInvoiceLock(t)'
  BY <1>3, GiveLocks, Rows DEF NoInvoiceLock
<1>9. r.next = None
  BY <1>0, <1>3, Session DEF Control
<1>10. Control(t)' /\ SeenExists(t)'
  BY <1>6, <1>7, <1>9 DEF Control, PcOf, SeenExists
<1>11. SessionOK(t)'
  BY <1>6, <1>7, <1>8, <1>9, <1>10, EarlySession DEF Early, EarlyPc
<1> QED
  BY <1>4, <1>5, <1>8, <1>11

\* The invoice that a closing draws up is well typed.
LEMMA NewInvoiceTyped ==
  ASSUME NEW E \in SUBSET Entry, Subtotal(E) \in Nat
  PROVE  /\ NewInvoice(E) \in Invoice /\ NewInvoice(E) # None
         /\ NewInvoice(E).items = E /\ NewInvoice(E).status = "open"
<1>1. NewInvoice(E) \in Invoice
  BY DEF NewInvoice, Invoice
<1> QED
  BY <1>1, NoneRow DEF NewInvoice

\* CommitClose keeps the invariant.
LEMMA CommitCloseStep ==
  ASSUME LedgerInv, NEW t \in Txn, CommitClose(t)
  PROVE  LedgerInv'
<1>0. PICK r : r = tx[t]
  OBVIOUS
<1>1. PICK p : p = r.period
  OBVIOUS
<1>2. PICK inv : inv = NewInvoice(r.items)
  OBVIOUS
<1>3. PICK n : n = r.next
  OBVIOUS
<1>4. r \in TxState /\ SessionOK(t) /\ TypeOK /\ TablesOK
  BY <1>0 DEF LedgerInv, TypeOK, TablesOK
<1>5. /\ r.op \in {"close_customer", "close_reference"} /\ r.pc = "commit"
      /\ invoices' = [invoices EXCEPT ![p] = inv]
      /\ periods' = WithNext([periods EXCEPT ![p] = "closed"], r)
      /\ IF r.op = "close_customer" THEN Finish(t) ELSE NextInLoop(t)
      /\ UNCHANGED <<month, orders, entries, exposure>>
  BY <1>0, <1>1, <1>2 DEF CommitClose
<1>6. /\ p # None /\ Holds(t, <<"period", p>>, "X")
      /\ invoices[p] = None /\ periods[p] = "open"
      /\ r.items = EntriesOf(p) /\ Subtotal(r.items) \in Nat
  BY <1>0, <1>1, <1>4, <1>5 DEF SessionOK, ClosingHeld, Closing
<1>7. p \in PeriodId
  BY <1>1, <1>4, <1>6 DEF TxState
<1>8. inv \in Invoice /\ inv # None /\ inv.items = EntriesOf(p) /\ inv.status = "open"
  <2>1. r.items \in SUBSET Entry
    BY <1>4 DEF TxState
  <2> QED
    BY <1>2, <1>6, <2>1, NewInvoiceTyped
<1>9. n # None => /\ n \in PeriodId /\ periods[n] = "none"
                  /\ Holds(t, <<"open_key", n.cust>>, "X")
                  /\ OpenPeriods(n.cust) \subseteq {p}
  BY <1>0, <1>1, <1>3, <1>4 DEF SessionOK, NextHeld, TxState
<1>10. \A q \in PeriodId : periods'[q] = IF q = n THEN "open"
                                         ELSE IF q = p THEN "closed" ELSE periods[q]
  <2>1. n = None => \A q \in PeriodId : q # n
    BY NoneRow
  <2> QED
    BY <1>3, <1>4, <1>5, <1>9, <2>1 DEF WithNext, TypeOK
<1>11. periods' \in [PeriodId -> {"none", "open", "closed"}]
  BY <1>3, <1>4, <1>5, <1>9 DEF WithNext, TypeOK
<1>12. \A q \in PeriodId : invoices'[q] = IF q = p THEN inv ELSE invoices[q]
  BY <1>4, <1>5 DEF TypeOK
<1>13. n # p
  BY <1>6, <1>9
<1>14. TablesKept(t)
  <2>1. \A q \in PeriodId : EntriesOf(q)' = EntriesOf(q)
    BY <1>5 DEF EntriesOf
  <2>2. ASSUME NEW q \in PeriodId, q = n
        PROVE  periods[q] = "none" /\ Holds(t, <<"open_key", q.cust>>, "X")
    BY <1>9, <2>2, NoneRow
  <2>3. \A o \in Order : orders[o] # "none" => orders'[o] # "none"
    BY <1>5
  <2> QED
    BY <1>6, <1>8, <1>10, <1>12, <1>13, <2>1, <2>2, <2>3 DEF TablesKept
<1>15. TablesTyped'
  BY <1>4, <1>5, <1>8, <1>11 DEF TablesTyped, TypeOK
<1>16. TablesOK'
  <2>1. EntriesExist' /\ OrdersCharged'
    <3>1. \A q \in PeriodId : periods[q] # "none" => periods'[q] # "none"
      BY <1>10
    <3>2. \A e \in entries : e.period \in PeriodId
      BY <1>4 DEF TypeOK, Entry
    <3>3. EntriesExist'
      BY <1>4, <1>5, <3>1, <3>2 DEF TablesOK, EntriesExist
    <3>4. OrdersCharged'
      BY <1>4, <1>5 DEF TablesOK, OrdersCharged
    <3> QED
      BY <3>3, <3>4
  <2>2. PaidCovered'
    BY <1>4, <1>8, <1>12 DEF TablesOK, PaidCovered
  <2>3. OneOpenPeriod'
    <3>1. ASSUME NEW q \in PeriodId, NEW k \in PeriodId, q.cust = k.cust,
                 periods'[q] = "open", periods'[k] = "open", q # k
          PROVE  FALSE
      <4>1. CASE q # n /\ k # n
        BY <1>4, <1>10, <3>1, <4>1 DEF TablesOK, OneOpenPeriod
      <4>2. CASE q = n
        <5>1. periods[k] = "open" /\ k # p /\ n # None
          BY <1>10, <3>1, <4>2, NoneRow
        <5> QED
          BY <1>9, <3>1, <4>2, <5>1 DEF OpenPeriods
      <4>3. CASE k = n
        <5>1. periods[q] = "open" /\ q # p /\ n # None
          BY <1>10, <3>1, <4>3, NoneRow
        <5> QED
          BY <1>9, <3>1, <4>3, <5>1 DEF OpenPeriods
      <4> QED
        BY <4>1, <4>2, <4>3
    <3> QED
      BY <3>1 DEF OneOpenPeriod
  <2>4. ClosedIffInvoiced'
    <3>1. ASSUME NEW q \in PeriodId
          PROVE  periods'[q] = "closed" <=> invoices'[q] # None
      <4>1. CASE q = p
        BY <1>8, <1>10, <1>12, <1>13, <4>1
      <4>2. CASE q # p
        <5>1. periods[q] = "closed" <=> invoices[q] # None
          BY <1>4 DEF TablesOK, ClosedIffInvoiced
        <5>2. q = n => periods[q] = "none"
          BY <1>9, NoneRow
        <5> QED
          BY <1>10, <1>12, <4>2, <5>1, <5>2
      <4> QED
        BY <4>1, <4>2
    <3> QED
      BY <3>1 DEF ClosedIffInvoiced
  <2>5. PurchasesInvoiced'
    <3>1. ASSUME NEW e \in entries', e.type = "order", periods'[e.period] = "closed"
          PROVE  e \in invoices'[e.period].items
      <4>1. e \in entries /\ e.period \in PeriodId
        BY <1>4, <1>5, <3>1 DEF TypeOK, Entry
      <4>2. CASE e.period = p
        BY <1>8, <1>12, <4>1, <4>2 DEF EntriesOf
      <4>3. CASE e.period # p
        <5>1. periods[e.period] = "closed"
          BY <1>10, <3>1, <4>1, <4>3
        <5>2. e \in invoices[e.period].items
          BY <1>4, <3>1, <4>1, <5>1 DEF TablesOK, PurchasesInvoiced
        <5> QED
          BY <1>12, <4>1, <4>3, <5>2
      <4> QED
        BY <4>2, <4>3
    <3> QED
      BY <3>1 DEF PurchasesInvoiced
  <2> QED
    BY <2>1, <2>2, <2>3, <2>4, <2>5 DEF TablesOK
<1>17. CASE r.op = "close_customer"
  BY <1>5, <1>14, <1>15, <1>16, <1>17, LastCommit
<1>18. CASE r.op = "close_reference"
  <2>1. NextInLoop(t)
    BY <1>5, <1>18
  <2>2. PICK s \in TxState : tx' = [tx EXCEPT ![t] = s] /\ LocksOK(t) /\ SessionOK(t)'
    BY <1>0, <1>5, <1>18, <2>1, LoopSession
  <2> QED
    BY <1>5, <1>14, <1>15, <1>16, <2>2, Commit
<1> QED
  BY <1>5, <1>17, <1>18

-------------------------------------------------------------------------------
(* The invariant, and what follows from it.                                  *)

\* The initial state satisfies the invariant.
LEMMA Initially ==
  ASSUME Init
  PROVE  LedgerInv
<1>1. TypeOK
  <2>1. Idle \in TxState
    BY LedgerAssumption DEF Idle, TxState, Pc, Month
  <2> QED
    BY <2>1, LedgerAssumption DEF Init, TypeOK, Month
<1>2. MutexOK /\ EntriesExist /\ OrdersCharged /\ PaidCovered
  BY DEF Init, MutexOK, EntriesExist, OrdersCharged, PaidCovered
<1>3. OneOpenPeriod /\ ClosedIffInvoiced /\ PurchasesInvoiced
  BY DEF Init, OneOpenPeriod, ClosedIffInvoiced, PurchasesInvoiced
<1>4. ASSUME NEW t \in Txn
      PROVE  SessionOK(t)
  <2>1. tx[t] = Idle /\ locks = {}
    BY DEF Init
  <2>2. Idle.op = "idle" /\ Idle.pc = "idle" /\ Idle.next = None /\ Idle.period = None
    BY DEF Idle
  <2>3. Control(t) /\ SeenExists(t)
    BY <2>1, <2>2 DEF Control, PcOf, SeenExists
  <2>4. PeriodHeld(t) /\ NextHeld(t) /\ ClosingHeld(t) /\ InvoiceHeld(t)
    BY <2>1, <2>2 DEF PeriodHeld, NextHeld, ClosingHeld, Closing, InvoiceHeld, Holds
  <2> QED
    BY <2>3, <2>4 DEF SessionOK
<1> QED
  BY <1>1, <1>2, <1>3, <1>4 DEF LedgerInv

\* A step that changes nothing keeps the invariant.
LEMMA Stutter ==
  ASSUME LedgerInv, UNCHANGED vars
  PROVE  LedgerInv'
<1>1. TypeOK' /\ MutexOK'
  BY DEF LedgerInv, TypeOK, MutexOK, vars, tables
<1>2. ASSUME NEW t \in Txn
      PROVE  SessionOK(t)'
  <2>1. SessionOK(t) /\ UNCHANGED <<orders, periods, entries, invoices, locks, tx>>
    BY DEF LedgerInv, vars, tables
  <2>2. Control(t)' /\ SeenExists(t)'
    BY <2>1 DEF SessionOK, Control, SeenExists
  <2>3. PeriodHeld(t)' /\ NextHeld(t)' /\ InvoiceHeld(t)'
    BY <2>1 DEF SessionOK, PeriodHeld, NextHeld, InvoiceHeld, Holds, OpenPeriods
  <2>4. ClosingHeld(t)'
    BY <2>1 DEF SessionOK, ClosingHeld, Closing, Holds, EntriesOf
  <2> QED
    BY <2>2, <2>3, <2>4 DEF SessionOK
<1>3. EntriesExist' /\ OrdersCharged' /\ PaidCovered'
  BY DEF LedgerInv, EntriesExist, OrdersCharged, PaidCovered, vars, tables
<1>4. OneOpenPeriod' /\ ClosedIffInvoiced' /\ PurchasesInvoiced'
  BY DEF LedgerInv, OneOpenPeriod, ClosedIffInvoiced, PurchasesInvoiced, vars, tables
<1> QED
  BY <1>1, <1>2, <1>3, <1>4 DEF LedgerInv

\* Every step keeps the invariant: one case per action.
LEMMA Step ==
  ASSUME LedgerInv, [Next]_vars
  PROVE  LedgerInv'
<1>1. CASE NextMonth
  BY <1>1, NextMonthStep
<1>2. CASE UNCHANGED vars
  BY <1>2, Stutter
<1>3. ASSUME NEW t \in Txn, CheckoutStep(t)
      PROVE  LedgerInv'
  <2>1. CASE InsertOrder(t)
    BY <2>1, InsertOrderStep
  <2> QED
    BY <1>3, <2>1, CheckoutBeginStep, CommitCheckoutStep DEF CheckoutStep
<1>4. ASSUME NEW t \in Txn, CloseStep(t)
      PROVE  LedgerInv'
  BY <1>4, CloseCustomerBeginStep, CloseReferenceBeginStep, PickPeriodStep,
     ReadEntriesStep, SkipPeriodStep, CommitCloseStep, CloseReferenceEndStep DEF CloseStep
<1>5. ASSUME NEW t \in Txn, CancelStep(t)
      PROVE  LedgerInv'
  BY <1>5, CancelBeginStep, ReadPeriodStep, InsertCreditStep, ReadInvoiceStep,
     CommitCancelStep, CommitCarryStep DEF CancelStep
<1>6. ASSUME NEW t \in Txn, InvoiceStep(t)
      PROVE  LedgerInv'
  <2>1. ASSUME NEW p \in PeriodId, NEW n \in Adjustments, AdjustBegin(t, p, n)
        PROVE  LedgerInv'
    <3>1. n \in Int
      BY LedgerAssumption DEF Adjustments
    <3> QED
      BY <2>1, <3>1, AdjustBeginStep
  <2> QED
    BY <1>6, <2>1, LockInvoiceStep, CommitAdjustStep, SelectPlanBeginStep, PayBeginStep,
       ActivatePlanStep, CommitPayStep DEF InvoiceStep
<1>7. ASSUME NEW t \in Txn, SharedStep(t)
      PROVE  LedgerInv'
  BY <1>7, LockCustomerStep, FindOpenPeriodStep, FindNoOpenPeriodStep, AwaitPeriodStep,
     InsertPeriodStep, AbortStep DEF SharedStep
<1> QED
  BY <1>1, <1>2, <1>3, <1>4, <1>5, <1>6, <1>7 DEF Next

\* The inductive invariant: in every reachable state each session relies only
\* on what its row locks keep true, and the billing tables agree.
THEOREM LedgerIsInvariant == Spec => []LedgerInv
<1>1. Init => LedgerInv
  BY Initially
<1>2. LedgerInv /\ [Next]_vars => LedgerInv'
  BY Step
<1> QED
  BY <1>1, <1>2, PTL DEF Spec

\* Every reachable row and session has its type; in particular the counters
\* written with arithmetic in SQL never become negative.
THEOREM TypeCorrect == Spec => []TypeOK
<1>1. LedgerInv => TypeOK
  BY DEF LedgerInv
<1> QED
  BY <1>1, LedgerIsInvariant, PTL

\* No two cycles of a customer are open at once, for any number of concurrent
\* checkouts, cancellations and closings.
THEOREM AlwaysOneOpenPeriod == Spec => []OneOpenPeriod
<1>1. LedgerInv => OneOpenPeriod
  BY DEF LedgerInv
<1> QED
  BY <1>1, LedgerIsInvariant, PTL

\* A period is closed exactly when it has its invoice.
THEOREM AlwaysClosedIffInvoiced == Spec => []ClosedIffInvoiced
<1>1. LedgerInv => ClosedIffInvoiced
  BY DEF LedgerInv
<1> QED
  BY <1>1, LedgerIsInvariant, PTL

\* Every purchase of a closed period is an item of its invoice.
THEOREM AlwaysPurchasesInvoiced == Spec => []PurchasesInvoiced
<1>1. LedgerInv => PurchasesInvoiced
  BY DEF LedgerInv
<1> QED
  BY <1>1, LedgerIsInvariant, PTL

\* A step that leaves the invoices alone keeps them.
LEMMA FrozenWhenUnchanged ==
  ASSUME LedgerInv, NEW p \in PeriodId, invoices' = invoices
  PROVE  InvoiceKept(p)
BY DEF InvoiceKept, LedgerInv, TypeOK, Invoice

\* A closing adds an invoice where there was none.
LEMMA FrozenByClose ==
  ASSUME LedgerInv, NEW p \in PeriodId, NEW t \in Txn, CommitClose(t)
  PROVE  InvoiceKept(p)
<1>1. SessionOK(t) /\ TypeOK
  BY DEF LedgerInv
<1>2. invoices[tx[t].period] = None
  BY <1>1 DEF CommitClose, SessionOK, ClosingHeld, Closing
<1>3. p # tx[t].period /\ invoices[p] # None => invoices'[p] = invoices[p]
  BY <1>1 DEF CommitClose, TypeOK
<1> QED
  BY <1>1, <1>2, <1>3 DEF InvoiceKept, TypeOK, Invoice

\* An adjustment changes the total of an invoice that is not paid, nothing else of it.
LEMMA FrozenByAdjust ==
  ASSUME LedgerInv, NEW p \in PeriodId, NEW t \in Txn, CommitAdjust(t)
  PROVE  InvoiceKept(p)
<1>0. PICK r : r = tx[t]
  OBVIOUS
<1>1. r \in TxState /\ SessionOK(t) /\ TypeOK /\ Holds(t, <<"invoice", r.period>>, "X")
      /\ r.op \in {"adjust", "cancel"} /\ r.pc = "commit"
      /\ invoices' = [invoices EXCEPT ![r.period] = Adjusted(@, r)]
  BY <1>0 DEF LedgerInv, TypeOK, CommitAdjust
<1>2. r.period \in PeriodId /\ (r.op = "cancel" => r.order \in Order)
  BY <1>0, <1>1 DEF SessionOK, Control, TxState
<1>3. PICK old : old = invoices[r.period]
  OBVIOUS
<1>4. /\ old # None /\ old.status # "paid"
      /\ old.total + r.amount >= 0 /\ old.total + r.amount >= old.paid
  BY <1>0, <1>1, <1>2, <1>3 DEF SessionOK, InvoiceHeld
<1>5. old \in Invoice
  BY <1>1, <1>2, <1>3, <1>4 DEF TypeOK
<1>6. PICK inv : inv = Adjusted(old, r)
  OBVIOUS
<1>7. inv \in Invoice /\ inv.items = old.items /\ inv.paid = old.paid /\ inv # None
  BY <1>1, <1>2, <1>4, <1>5, <1>6, AdjustedInvoice, NoneRow
<1>8. invoices'[p] = IF p = r.period THEN inv ELSE invoices[p]
  BY <1>1, <1>3, <1>6 DEF TypeOK
<1>9. CASE p = r.period
  <2>1. inv.paid >= old.paid
    BY <1>5, <1>7 DEF Invoice
  <2> QED
    BY <1>3, <1>4, <1>7, <1>8, <1>9, <2>1 DEF InvoiceKept
<1>10. CASE p # r.period
  BY <1>1, <1>8, <1>10 DEF InvoiceKept, TypeOK, Invoice
<1> QED
  BY <1>9, <1>10

\* Selecting a plan changes no item, total, payment or status.
LEMMA FrozenByPlan ==
  ASSUME LedgerInv, NEW p \in PeriodId, NEW t \in Txn, ActivatePlan(t)
  PROVE  InvoiceKept(p)
<1>0. PICK r : r = tx[t]
  OBVIOUS
<1>1. r \in TxState /\ SessionOK(t) /\ TypeOK /\ r.pc = "activate_plan"
  BY <1>0 DEF LedgerInv, TypeOK, ActivatePlan
<1>2. PICK old : old = invoices[r.period]
  OBVIOUS
<1>3. r.period \in PeriodId /\ old \in Invoice /\ r.amount \in Nat
  BY <1>0, <1>1, <1>2
     DEF SessionOK, Control, PcOf, SeenExists, TxState, AllOperations, TypeOK
<1>4. PICK inv : inv = [old EXCEPT !.plan = "active", !.due = r.amount]
  OBVIOUS
<1>5. invoices' = [invoices EXCEPT ![r.period] = inv]
  BY <1>0, <1>1, <1>2, <1>3, <1>4 DEF ActivatePlan, TypeOK, Invoice
<1>6. /\ inv \in Invoice /\ inv.items = old.items /\ inv.total = old.total
      /\ inv.paid = old.paid /\ inv.status = old.status
  BY <1>3, <1>4 DEF Invoice
<1>7. inv # None
  BY <1>6, NoneRow
<1>8. invoices'[p] = IF p = r.period THEN inv ELSE invoices[p]
  BY <1>1, <1>5 DEF TypeOK
<1>9. CASE p = r.period
  <2>1. inv.paid >= old.paid
    BY <1>3, <1>6 DEF Invoice
  <2> QED
    BY <1>2, <1>6, <1>7, <1>8, <1>9, <2>1 DEF InvoiceKept
<1>10. CASE p # r.period
  BY <1>1, <1>8, <1>10 DEF InvoiceKept, TypeOK, Invoice
<1> QED
  BY <1>9, <1>10

\* A payment only adds to what is paid.
LEMMA FrozenByPay ==
  ASSUME LedgerInv, NEW p \in PeriodId, NEW t \in Txn, CommitPay(t)
  PROVE  InvoiceKept(p)
<1>0. PICK r : r = tx[t]
  OBVIOUS
<1>1. r \in TxState /\ SessionOK(t) /\ TypeOK /\ PaidCovered
      /\ r.op = "pay" /\ r.pc = "commit"
      /\ invoices' = [invoices EXCEPT ![r.period] = Paid(@)]
  BY <1>0 DEF LedgerInv, TypeOK, CommitPay
<1>2. r.period \in PeriodId
  BY <1>0, <1>1 DEF SessionOK, Control, TxState
<1>3. PICK old : old = invoices[r.period]
  OBVIOUS
<1>4. old \in Invoice
  BY <1>0, <1>1, <1>2, <1>3 DEF SessionOK, InvoiceHeld, TypeOK
<1>5. PICK inv : inv = Paid(old)
  OBVIOUS
<1>6. /\ inv \in Invoice /\ inv.items = old.items /\ inv.total = old.total
      /\ inv.paid >= old.paid
      /\ inv.status = "paid" <=> inv.total <= inv.paid
  BY <1>4, <1>5, PaidInvoice
<1>7. inv # None /\ old # None
  BY <1>4, <1>6, NoneRow
<1>8. invoices'[p] = IF p = r.period THEN inv ELSE invoices[p]
  BY <1>1, <1>3, <1>5 DEF TypeOK
<1>9. CASE p = r.period
  <2>1. old.status = "paid" => inv.status = "paid"
    <3>1. old.status = "paid" => old.total <= old.paid
      BY <1>1, <1>2, <1>3, <1>7 DEF PaidCovered
    <3>2. old.total <= old.paid => inv.total <= inv.paid
      BY <1>4, <1>6 DEF Invoice
    <3> QED
      BY <1>6, <3>1, <3>2
  <2> QED
    BY <1>3, <1>6, <1>7, <1>8, <1>9, <2>1 DEF InvoiceKept
<1>10. CASE p # r.period
  BY <1>1, <1>8, <1>10 DEF InvoiceKept, TypeOK, Invoice
<1> QED
  BY <1>9, <1>10

\* Only four commits write invoices.
LEMMA OtherSteps ==
  ASSUME NEW t \in Txn
  PROVE  /\ CheckoutStep(t) => invoices' = invoices
         /\ SharedStep(t) => invoices' = invoices
         /\ CloseStep(t) => CommitClose(t) \/ invoices' = invoices
         /\ CancelStep(t) => invoices' = invoices
         /\ InvoiceStep(t) => \/ CommitAdjust(t) \/ ActivatePlan(t) \/ CommitPay(t)
                               \/ invoices' = invoices
<1>1. CheckoutStep(t) => invoices' = invoices
  BY DEF CheckoutStep, CheckoutBegin, InsertOrder, CommitCheckout, tables
<1>2. SharedStep(t) => invoices' = invoices
  BY DEF SharedStep, LockCustomer, FindOpenPeriod, FindNoOpenPeriod, AwaitPeriod,
         InsertPeriod, Abort, tables
<1>3. CloseStep(t) => CommitClose(t) \/ invoices' = invoices
  BY DEF CloseStep, CloseCustomerBegin, CloseReferenceBegin, PickPeriod, ReadEntries,
         SkipPeriod, CloseReferenceEnd, tables
<1>4. CancelStep(t) => invoices' = invoices
  BY DEF CancelStep, CancelBegin, ReadPeriod, InsertCredit, ReadInvoice, CommitCancel,
         CommitCarry, tables
<1>5. InvoiceStep(t) => \/ CommitAdjust(t) \/ ActivatePlan(t) \/ CommitPay(t)
                        \/ invoices' = invoices
  BY DEF InvoiceStep, AdjustBegin, LockInvoice, SelectPlanBegin, PayBegin, tables
<1> QED
  BY <1>1, <1>2, <1>3, <1>4, <1>5

\* Every step from a state of the invariant keeps the invoices.
LEMMA FrozenStep ==
  ASSUME LedgerInv, [Next]_vars, NEW p \in PeriodId
  PROVE  InvoiceKept(p)
<1>1. NextMonth \/ UNCHANGED vars => invoices' = invoices
  BY DEF NextMonth, vars, tables
<1>2. \/ invoices' = invoices
      \/ \E t \in Txn : \/ CommitClose(t) \/ CommitAdjust(t)
                        \/ ActivatePlan(t) \/ CommitPay(t)
  BY <1>1, OtherSteps DEF Next
<1> QED
  BY <1>2, FrozenWhenUnchanged, FrozenByClose, FrozenByAdjust, FrozenByPlan, FrozenByPay

\* What an invoice has billed and what was paid on it is never rewritten, and a
\* paid invoice stays as it is, in every step of every session.
THEOREM InvoicesStayFrozen == Spec => InvoiceFrozen
<1>1. LedgerInv /\ [Next]_vars => [InvoicesKept]_vars
  BY FrozenStep DEF InvoicesKept
<1> QED
  BY <1>1, LedgerIsInvariant, PTL DEF Spec, InvoiceFrozen

-------------------------------------------------------------------------------
(* The order of the locks: every row has a rank, and a session that is no     *)
(* cancellation and no payment only waits for rows above those that it holds. *)

RankOf(row) == CASE row[1] = "customer" -> 2
                 [] row[1] = "period"   -> 3
                 [] row[1] = "open_key" -> 4
                 [] OTHER               -> 1

\* The rank that the rows held at pc stay below.
Below(pc) == CASE pc = "lock_customer"                      -> 2
               [] pc \in {"find_period", "await_period"}    -> 3
               [] pc \in {"insert_period", "read_entries"}  -> 4
               [] pc = "commit"                             -> 5
               [] OTHER                                     -> 1

InOrder(t) == tx[t].op \notin {"cancel", "pay"} =>
                \A l \in locks : l.tx = t => RankOf(l.row) < Below(tx[t].pc)

LocksInOrder == \A t \in Txn : InOrder(t)

\* A session that moves on to s, with one row more, which is below its new rank.
LEMMA Climbs ==
  ASSUME TypeOK, LocksInOrder, NEW t \in Txn, NEW s, s = tx'[t],
         \A u \in Txn : u # t => tx'[u] = tx[u],
         \/ s.op \in {"cancel", "pay"}
         \/ tx[t].op \notin {"cancel", "pay"} /\ Below(tx[t].pc) <= Below(s.pc),
         \/ UNCHANGED locks
         \/ \E row, mode : locks' = WithLock(t, row, mode) /\ RankOf(row) < Below(s.pc)
         \/ s.op \in {"cancel", "pay"} /\ \E row, mode : locks' = WithLock(t, row, mode)
  PROVE  LocksInOrder'
<1>1. ASSUME NEW u \in Txn, u # t PROVE InOrder(u)'
  <2>1. tx'[u] = tx[u] /\ \A l \in locks' : l.tx = u => l \in locks
    BY <1>1 DEF WithLock
  <2> QED
    BY <2>1 DEF LocksInOrder, InOrder
<1>2. InOrder(t)'
  <2>1. tx'[t] = s
    OBVIOUS
  <2>2. \A pc : Below(pc) \in Int
    BY DEF Below
  <2>3. \A row : RankOf(row) \in Int
    BY DEF RankOf
  <2>4. CASE s.op \in {"cancel", "pay"}
    BY <2>1, <2>4 DEF InOrder
  <2>5. CASE s.op \notin {"cancel", "pay"}
    <3>1. \A l \in locks : l.tx = t => RankOf(l.row) < Below(tx[t].pc)
      BY <2>5 DEF LocksInOrder, InOrder
    <3>2. \A l \in locks' : l \in locks \/ RankOf(l.row) < Below(s.pc)
      BY <2>5 DEF WithLock
    <3> QED
      BY <2>1, <2>2, <2>3, <2>5, <3>1, <3>2 DEF InOrder
  <2> QED
    BY <2>4, <2>5
<1> QED
  BY <1>1, <1>2 DEF LocksInOrder

\* A session that gives its locks back.
LEMMA Releases ==
  ASSUME TypeOK, LocksInOrder, NEW t \in Txn, Finish(t) \/ NextInLoop(t)
  PROVE  LocksInOrder'
<1>1. ASSUME NEW u \in Txn, u # t PROVE InOrder(u)'
  <2>1. tx'[u] = tx[u] /\ \A l \in locks' : l \in locks
    BY <1>1 DEF TypeOK, Finish, NextInLoop, WithoutLocks
  <2> QED
    BY <2>1 DEF LocksInOrder, InOrder
<1>2. InOrder(t)'
  BY DEF InOrder, Finish, NextInLoop, WithoutLocks
<1> QED
  BY <1>1, <1>2 DEF LocksInOrder

\* A request begins without locks.
LEMMA BeginsInOrder ==
  ASSUME TypeOK, LocksInOrder, NEW t \in Txn,
         \/ \E o \in Order : CheckoutBegin(t, o) \/ CancelBegin(t, o)
         \/ \E c \in Customer : CloseCustomerBegin(t, c)
         \/ \E m \in Month : CloseReferenceBegin(t, m)
         \/ \E p \in PeriodId : SelectPlanBegin(t, p) \/ PayBegin(t, p)
         \/ \E p \in PeriodId : \E n \in Adjustments : AdjustBegin(t, p, n)
  PROVE  LocksInOrder'
<1>1. tx[t] = Idle /\ \A pc : Below("idle") <= Below(pc)
  <2>1. tx[t] = Idle
    BY DEF CheckoutBegin, CancelBegin, CloseCustomerBegin, CloseReferenceBegin,
           SelectPlanBegin, PayBegin, AdjustBegin
  <2> QED
    BY <2>1 DEF Below
<1>2. Idle.op = "idle" /\ Idle.pc = "idle"
  BY DEF Idle
<1>3. \E s : /\ tx' = [tx EXCEPT ![t] = s]
             /\ \/ UNCHANGED locks
                \/ s.op \in {"cancel", "pay"} /\ \E row, mode : locks' = WithLock(t, row, mode)
  <2>1. CASE \E o \in Order : CheckoutBegin(t, o)
    BY <2>1 DEF CheckoutBegin
  <2>2. ASSUME NEW o \in Order, CancelBegin(t, o)
        PROVE  \E s : /\ tx' = [tx EXCEPT ![t] = s] /\ s.op = "cancel"
                      /\ locks' = WithLock(t, <<"order", o>>, "X")
    <3>1. PICK s : s = [Request(t, "cancel", "read_period", Owner[o])
                           EXCEPT !.order = o, !.amount = -Price[o]]
      OBVIOUS
    <3>2. s.op = "cancel"
      BY <3>1 DEF Request, Idle
    <3> QED
      BY <2>2, <3>1, <3>2 DEF CancelBegin
  <2>3. CASE \E c \in Customer : CloseCustomerBegin(t, c)
    BY <2>3 DEF CloseCustomerBegin
  <2>4. ASSUME NEW m \in Month, CloseReferenceBegin(t, m)
        PROVE  UNCHANGED locks /\ \E s : tx' = [tx EXCEPT ![t] = s]
    BY <2>4 DEF CloseReferenceBegin
  <2>5. CASE \E p \in PeriodId : SelectPlanBegin(t, p)
    BY <2>5 DEF SelectPlanBegin
  <2>6. ASSUME NEW p \in PeriodId, PayBegin(t, p)
        PROVE  \E s : /\ tx' = [tx EXCEPT ![t] = s] /\ s.op = "pay"
                      /\ locks' = WithLock(t, <<"installment", p>>, "X")
    <3>1. PICK s : s = [Request(t, "pay", "lock_invoice", p.cust)
                           EXCEPT !.period = p, !.amount = -invoices[p].due]
      OBVIOUS
    <3>2. s.op = "pay"
      BY <3>1 DEF Request, Idle
    <3> QED
      BY <2>6, <3>1, <3>2 DEF PayBegin
  <2>7. CASE \E p \in PeriodId : \E n \in Adjustments : AdjustBegin(t, p, n)
    BY <2>7 DEF AdjustBegin
  <2> QED
    BY <2>1, <2>2, <2>3, <2>4, <2>5, <2>6, <2>7
<1>4. \A s : tx' = [tx EXCEPT ![t] = s] =>
              tx'[t] = s /\ \A u \in Txn : u # t => tx'[u] = tx[u]
  BY DEF TypeOK
<1> QED
  BY <1>1, <1>2, <1>3, <1>4, Climbs


\* A statement of a session that goes on.
LEMMA GoesUp ==
  ASSUME LedgerInv, NEW t \in Txn,
         \/ LockCustomer(t) \/ FindNoOpenPeriod(t) \/ AwaitPeriod(t)
         \/ \E p \in PeriodId : FindOpenPeriod(t, p) \/ InsertPeriod(t, p) \/ PickPeriod(t, p)
         \/ ReadEntries(t) \/ InsertOrder(t) \/ LockInvoice(t)
         \/ ReadPeriod(t) \/ InsertCredit(t) \/ ReadInvoice(t)
  PROVE  tx'[t].op = tx[t].op /\ \A u \in Txn : u # t => tx'[u] = tx[u]
<1>1. tx \in [Txn -> TxState] /\ tx[t] \in TxState
  BY DEF LedgerInv, TypeOK
<1>2. CASE LockCustomer(t) \/ FindNoOpenPeriod(t) \/ AwaitPeriod(t)
  BY <1>1, <1>2 DEF LockCustomer, FindNoOpenPeriod, AwaitPeriod, TxState
<1>3. CASE \E p \in PeriodId : FindOpenPeriod(t, p) \/ InsertPeriod(t, p) \/ PickPeriod(t, p)
  BY <1>1, <1>3 DEF FindOpenPeriod, InsertPeriod, PickPeriod, TxState
<1>4. CASE ReadEntries(t) \/ InsertOrder(t) \/ LockInvoice(t)
  BY <1>1, <1>4 DEF ReadEntries, InsertOrder, LockInvoice, TxState
<1>5. CASE ReadPeriod(t) \/ InsertCredit(t) \/ ReadInvoice(t)
  BY <1>1, <1>5 DEF ReadPeriod, InsertCredit, ReadInvoice, TxState
<1> QED
  BY <1>2, <1>3, <1>4, <1>5

LEMMA StatementsInOrder ==
  ASSUME LedgerInv, LocksInOrder, NEW t \in Txn,
         \/ LockCustomer(t) \/ FindNoOpenPeriod(t) \/ AwaitPeriod(t)
         \/ \E p \in PeriodId : FindOpenPeriod(t, p) \/ InsertPeriod(t, p) \/ PickPeriod(t, p)
         \/ ReadEntries(t) \/ InsertOrder(t) \/ LockInvoice(t)
         \/ ReadPeriod(t) \/ InsertCredit(t) \/ ReadInvoice(t)
  PROVE  LocksInOrder'
<1>0. PICK r : r = tx[t]
  OBVIOUS
<1>1. PICK s : s = tx'[t]
  OBVIOUS
<1>2. /\ r \in TxState /\ tx \in [Txn -> TxState] /\ Control(t) /\ TypeOK
      /\ r.op \in AllOperations \cup {"idle"}
  BY <1>0 DEF LedgerInv, TypeOK, SessionOK, TxState
<1>3. s.op = r.op /\ \A u \in Txn : u # t => tx'[u] = tx[u]
  BY <1>0, <1>1, GoesUp
<1>4. ASSUME NEW row, NEW mode,
             UNCHANGED locks \/ (locks' = WithLock(t, row, mode) /\ RankOf(row) < Below(s.pc)),
             Below(r.pc) <= Below(s.pc)
      PROVE  LocksInOrder'
  <2>1. CASE r.op \in {"cancel", "pay"}
    BY <1>1, <1>2, <1>3, <1>4, <2>1, Climbs
  <2>2. CASE r.op \notin {"cancel", "pay"}
    BY <1>0, <1>1, <1>2, <1>3, <1>4, <2>2, Climbs
  <2> QED
    BY <2>1, <2>2
<1>5. CASE r.op \in {"cancel", "pay"}
  <2>1. \E row, mode : UNCHANGED locks \/ locks' = WithLock(t, row, mode)
    BY DEF LockCustomer, FindNoOpenPeriod, AwaitPeriod, FindOpenPeriod, InsertPeriod, PickPeriod,
           ReadEntries, InsertOrder, LockInvoice, ReadPeriod, InsertCredit, ReadInvoice
  <2> QED
    BY SMTT(30), <1>1, <1>2, <1>3, <1>5, <2>1, Climbs
<1>6. CASE LockCustomer(t)
  <2>1. /\ r.pc = "lock_customer" /\ s.pc \in {"find_period", "commit"}
        /\ locks' = WithLock(t, <<"customer", r.cust>>, "X")
    BY <1>0, <1>1, <1>2, <1>6 DEF LockCustomer, TxState
  <2>2. RankOf(<<"customer", r.cust>>) < Below(s.pc) /\ Below(r.pc) <= Below(s.pc)
    BY <2>1 DEF RankOf, Below
  <2> QED
    BY <1>4, <2>1, <2>2
<1>7. CASE FindNoOpenPeriod(t)
  <2>1. r.pc = "find_period" /\ s.pc = "insert_period" /\ UNCHANGED locks
    BY <1>0, <1>1, <1>2, <1>7 DEF FindNoOpenPeriod, TxState
  <2>2. Below(r.pc) <= Below(s.pc)
    BY <2>1 DEF Below
  <2> QED
    BY <1>4, <2>1, <2>2
<1>8. CASE /\ r.op \notin {"cancel", "pay"}
           /\ AwaitPeriod(t) \/ \E p \in PeriodId : FindOpenPeriod(t, p)
  <2>1. r.pc \in {"find_period", "await_period"}
    BY <1>0, <1>8 DEF AwaitPeriod, FindOpenPeriod
  <2>2. r.op \in {"checkout", "close_customer"}
    BY <1>0, <1>2, <1>8, <2>1 DEF Control, PcOf, AllOperations
  <2>3. WithPeriod(r.op) \in {"commit", "read_entries"}
    BY <2>2 DEF WithPeriod
  <2>4. CASE AwaitPeriod(t)
    <3>1. \/ UNCHANGED locks /\ s.pc = "insert_period"
          \/ locks' = WithLock(t, <<"period", r.period>>, "X") /\ s.pc = WithPeriod(r.op)
      BY <1>0, <1>1, <1>2, <2>4 DEF AwaitPeriod, TxState
    <3>2. RankOf(<<"period", r.period>>) < Below(s.pc) /\ Below(r.pc) <= Below(s.pc)
      BY <2>1, <2>3, <3>1 DEF RankOf, Below
    <3> QED
      BY <1>4, <3>1, <3>2
  <2>5. ASSUME NEW p \in PeriodId, FindOpenPeriod(t, p) PROVE LocksInOrder'
    <3>1. \/ UNCHANGED locks /\ s.pc = "await_period" /\ r.pc = "find_period"
          \/ locks' = WithLock(t, <<"period", p>>, "X") /\ s.pc = WithPeriod(r.op)
      BY <1>0, <1>1, <1>2, <2>5 DEF FindOpenPeriod, TxState
    <3>2. \/ UNCHANGED locks
          \/ locks' = WithLock(t, <<"period", p>>, "X") /\ RankOf(<<"period", p>>) < Below(s.pc)
      BY <2>3, <3>1 DEF RankOf, Below
    <3>3. Below(r.pc) <= Below(s.pc)
      BY <2>1, <2>3, <3>1 DEF Below
    <3> QED
      BY <1>4, <3>2, <3>3
  <2> QED
    BY <1>8, <2>4, <2>5
<1>9. ASSUME r.op \notin {"cancel", "pay"}, NEW p \in PeriodId, InsertPeriod(t, p)
      PROVE  LocksInOrder'
  <2>1. /\ r.pc = "insert_period" /\ s.pc = "commit"
        /\ locks' = WithLock(t, <<"open_key", r.cust>>, "X")
    BY <1>0, <1>1, <1>2, <1>9 DEF InsertPeriod, AfterInsert, TxState
  <2>2. RankOf(<<"open_key", r.cust>>) < Below(s.pc) /\ Below(r.pc) <= Below(s.pc)
    BY <2>1 DEF RankOf, Below
  <2> QED
    BY <1>4, <2>1, <2>2
<1>10. ASSUME NEW p \in PeriodId, PickPeriod(t, p) PROVE LocksInOrder'
  <2>1. /\ r.pc = "pick_period" /\ s.pc = "read_entries"
        /\ locks' = WithLock(t, <<"period", p>>, "X")
    BY <1>0, <1>1, <1>2, <1>10 DEF PickPeriod, TxState
  <2>2. RankOf(<<"period", p>>) < Below(s.pc) /\ Below(r.pc) <= Below(s.pc)
    BY <2>1 DEF RankOf, Below
  <2> QED
    BY <1>4, <2>1, <2>2
<1>11. CASE ReadEntries(t)
  <2>1. r.pc = "read_entries" /\ s.pc \in {"insert_period", "commit"} /\ UNCHANGED locks
    BY <1>0, <1>1, <1>2, <1>11 DEF ReadEntries, TxState
  <2>2. Below(r.pc) <= Below(s.pc)
    BY <2>1 DEF Below
  <2> QED
    BY <1>4, <2>1, <2>2
<1>12. CASE InsertOrder(t) \/ LockInvoice(t)
  <2>1. /\ r.pc \in {"insert_order", "lock_invoice"} /\ s.pc = "lock_customer"
        /\ \/ locks' = WithLock(t, <<"order", r.order>>, "X")
           \/ locks' = WithLock(t, <<"invoice", r.period>>, "X")
    BY <1>0, <1>1, <1>2, <1>12 DEF InsertOrder, LockInvoice, TxState
  <2>2. /\ RankOf(<<"order", r.order>>) < Below(s.pc) /\ RankOf(<<"invoice", r.period>>) < Below(s.pc)
        /\ Below(r.pc) <= Below(s.pc)
    BY <2>1 DEF RankOf, Below
  <2> QED
    BY <1>4, <2>1, <2>2
<1>13. CASE ReadPeriod(t) \/ InsertCredit(t) \/ ReadInvoice(t)
  <2>1. r.pc \in {"read_period", "insert_credit", "read_invoice"}
    BY <1>0, <1>13 DEF ReadPeriod, InsertCredit, ReadInvoice
  <2>2. r.op = "cancel"
    BY <1>0, <1>2, <2>1 DEF Control, PcOf, AllOperations
  <2> QED
    BY <1>5, <2>2
<1> QED
  BY <1>5, <1>6, <1>7, <1>8, <1>9, <1>10, <1>11, <1>12, <1>13

LEMMA OrderStep ==
  ASSUME LedgerInv, LocksInOrder, [Next]_vars
  PROVE  LocksInOrder'
<1>1. TypeOK
  BY DEF LedgerInv
<1>2. CASE NextMonth \/ UNCHANGED vars
  BY <1>2 DEF NextMonth, vars, LocksInOrder, InOrder
<1>3. ASSUME NEW t \in Txn, CheckoutStep(t) PROVE LocksInOrder'
  BY <1>1, <1>3, BeginsInOrder, StatementsInOrder, Releases DEF CheckoutStep, CommitCheckout
<1>4. ASSUME NEW t \in Txn, CloseStep(t) PROVE LocksInOrder'
  BY <1>1, <1>4, BeginsInOrder, StatementsInOrder, Releases
     DEF CloseStep, SkipPeriod, CommitClose, CloseReferenceEnd
<1>5. ASSUME NEW t \in Txn, CancelStep(t) PROVE LocksInOrder'
  BY <1>1, <1>5, BeginsInOrder, StatementsInOrder, Releases
     DEF CancelStep, CommitCancel, CommitCarry
<1>6. ASSUME NEW t \in Txn, InvoiceStep(t) PROVE LocksInOrder'
  BY <1>1, <1>6, BeginsInOrder, StatementsInOrder, Releases
     DEF InvoiceStep, CommitAdjust, ActivatePlan, CommitPay
<1>7. ASSUME NEW t \in Txn, SharedStep(t) PROVE LocksInOrder'
  BY <1>1, <1>7, StatementsInOrder, Releases DEF SharedStep, Abort
<1> QED
  BY <1>2, <1>3, <1>4, <1>5, <1>6, <1>7 DEF Next

\* Who waits is at a rank above that of the rows held by itself, and who holds the
\* row that it waits for waits for a higher one: the highest waits for nobody.
LEMMA OrderSuffices ==
  ASSUME LedgerInv, LocksInOrder
  PROVE  CompatibleLockOrders
<1> SUFFICES ASSUME NEW S \in SUBSET Txn, Deadlocked(S),
                    \A t \in S : tx[t].op \notin {"cancel", "pay"}
             PROVE  FALSE
  BY DEF CompatibleLockOrders
<1> DEFINE Wanted(t) == LET pc == tx[t].pc IN
             IF pc = "lock_customer" THEN 2 ELSE IF pc \in {"await_period", "pick_period"} THEN 3
             ELSE IF pc = "insert_period" THEN 4 ELSE 1
<1>1. ASSUME NEW t \in S, NEW u \in S, WaitsFor(t, u)
      PROVE  Wanted(t) < Below(tx[u].pc)
  <2>1. PICK w \in Wants(t), l \in locks : l.row = w[1] /\ l.tx = u
    BY <1>1 DEF WaitsFor
  <2>2. RankOf(w[1]) = Wanted(t)
    <3>1. tx[t].pc # "insert_credit"
      BY DEF LedgerInv, SessionOK, Control, PcOf, TypeOK, TxState, AllOperations
    <3> QED
      BY <2>1, <3>1 DEF Wants, RankOf
  <2>3. RankOf(l.row) < Below(tx[u].pc)
    BY <2>1 DEF LocksInOrder, InOrder
  <2> QED
    BY <2>1, <2>2, <2>3
<1>2. ASSUME NEW t \in S, NEW u \in S, WaitsFor(t, u)
      PROVE  Below(tx[t].pc) <= Wanted(t) /\ Wanted(t) \in 1 .. 4
  <2>1. tx[t].pc \in {"insert_order", "lock_customer", "await_period", "insert_period",
                      "pick_period", "insert_credit", "lock_invoice", "activate_plan"}
    BY <1>2 DEF WaitsFor, Wants
  <2> QED
    BY <2>1 DEF Below
<1>3. \A t \in S : \E u \in S : WaitsFor(t, u)
  BY DEF Deadlocked
<1>4. \A t \in S : Wanted(t) \in 1 .. 4 /\ \E u \in S : Wanted(t) < Wanted(u)
  <2>1. ASSUME NEW t \in S
        PROVE  Wanted(t) \in 1 .. 4 /\ \E u \in S : Wanted(t) < Wanted(u)
    <3>1. PICK u \in S : WaitsFor(t, u)
      BY <1>3
    <3>2. PICK v \in S : WaitsFor(u, v)
      BY <1>3
    <3>3. Wanted(t) < Below(tx[u].pc) /\ Below(tx[u].pc) <= Wanted(u)
      BY <1>1, <1>2, <3>1, <3>2
    <3>4. Wanted(t) \in 1 .. 4 /\ Wanted(u) \in 1 .. 4 /\ Below(tx[u].pc) \in Int
      BY <1>2, <3>1, <3>2 DEF Below
    <3> QED
      BY <3>3, <3>4
  <2> QED
    BY <2>1
<1> HIDE DEF Wanted
<1>5. \A t \in S : Wanted(t) \notin {4}
  BY <1>4
<1>6. \A t \in S : Wanted(t) \notin {3, 4}
  BY <1>4, <1>5
<1>7. \A t \in S : Wanted(t) \notin {2, 3, 4}
  BY <1>4, <1>6
<1> QED
  BY <1>4, <1>7 DEF Deadlocked

\* Checkouts, closings, manual adjustments and plan selections never wait for each
\* other in a cycle, however many run: whoever does has a cancellation or a payment
\* in it.
THEOREM LockOrdersAreCompatible == Spec => []CompatibleLockOrders
<1>1. Init => LocksInOrder
  BY DEF Init, LocksInOrder, InOrder
<1>2. LedgerInv /\ LocksInOrder /\ [Next]_vars => LocksInOrder'
  BY OrderStep
<1>3. LedgerInv /\ LocksInOrder => CompatibleLockOrders
  BY OrderSuffices
<1> QED
  BY <1>1, <1>2, <1>3, LedgerIsInvariant, PTL DEF Spec


-------------------------------------------------------------------------------
(* The rows of an order, and the exposure counter.                           *)

\* The order of o is an entry of period p.
ChargedTo(o, p) == \E e \in entries : e.type = "order" /\ e.order = o /\ e.period = p

ChargedAndClosed(o) == \E p \in PeriodId : ChargedTo(o, p) /\ periods[p] = "closed"

\* From the lock of its order on, a checkout has an order that is new, a
\* cancellation one that is confirmed.
KnowsOrder(t) ==
  LET r == tx[t] IN
  /\ r.op \in {"checkout", "cancel"} => r.cust = Owner[r.order]
  /\ r.op = "checkout" /\ r.pc # "insert_order" =>
       Holds(t, <<"order", r.order>>, "X") /\ orders[r.order] = "none"
  /\ r.op = "cancel" => /\ Holds(t, <<"order", r.order>>, "X")
                        /\ orders[r.order] = "confirmed"
                        /\ r.amount = -Price[r.order]

\* Where a cancellation has seen the charge of its order.
KnowsCharge(t) ==
  LET r == tx[t] IN
  r.op = "cancel" =>
    /\ r.pc \in {"insert_credit", "read_invoice", "lock_invoice", "lock_customer", "commit"}
         => ChargedTo(r.order, r.period)
    /\ r.pc \in {"read_invoice", "lock_invoice"} => ChargedAndClosed(r.order)
    /\ r.pc \in {"find_period", "await_period", "insert_period", "commit_carry"}
         => ChargedAndClosed(r.order)

\* A request that books something has a period of its customer.
KnowsPeriod(t) ==
  LET r == tx[t] IN
  r.op \in {"checkout", "cancel", "adjust", "pay"} /\ r.period # None
    => r.period.cust = r.cust

\* A payment pays what is due, while it has the instalment.
KnowsDue(t) ==
  LET r == tx[t] IN
  r.op = "pay" => /\ r.period # None
                  /\ Holds(t, <<"installment", r.period>>, "X")
                  /\ invoices[r.period] # None
                  /\ invoices[r.period].plan = "active"
                  /\ r.amount = -invoices[r.period].due

SessionKnows(t) == KnowsOrder(t) /\ KnowsCharge(t) /\ KnowsPeriod(t) /\ KnowsDue(t)

\* An order is charged when it is confirmed, by one entry.
ChargedOnce(o) ==
  IF orders[o] = "none" THEN \A e \in entries : e.order # o
  ELSE /\ \E e \in entries : e.type = "order" /\ e.order = o
       /\ \A e, f \in entries : e.type = "order" /\ e.order = o /\ f.type = "order" /\ f.order = o
                                  => e = f

\* It is credited when it is cancelled, by one entry or on one invoice.
CreditedOnce(o) ==
  IF orders[o] # "cancelled" THEN CreditsOf(o) = {} /\ CreditedInvoices(o) = {}
  ELSE \/ CreditedInvoices(o) = {} /\ \E e \in entries : CreditsOf(o) = {e}
       \/ CreditsOf(o) = {} /\ \E p \in PeriodId : CreditedInvoices(o) = {p}

EntriesOwned == \A e \in entries : e.period.cust = Owner[e.order]

InvoicesBilled ==
  \A p \in PeriodId : invoices[p] # None =>
    /\ invoices[p].items \subseteq entries
    /\ invoices[p].paid > invoices[p].total => invoices[p].status = "paid"

\* The entries of a period: credits of purchases of another one, and purchases
\* without a credit in this one.
CarriedTo(p) == {e \in EntriesOf(p) : e.type = "order_cancellation" /\ ~ChargedTo(e.order, p)}

LiveIn(p) == {e \in EntriesOf(p) : /\ e.type = "order"
                                   /\ \A f \in EntriesOf(p) : f.type = "order_cancellation"
                                                               => f.order # e.order}

AmountOf == [e \in Entry |-> Amount(e)]
PriceOf == [e \in Entry |-> Price[e.order]]

\* The credits of a period are of its own purchases, or were carried there.
Balanced(p) ==
  SumFunctionOnSet(AmountOf, EntriesOf(p)) + SumFunctionOnSet(PriceOf, CarriedTo(p))
    = SumFunctionOnSet(PriceOf, LiveIn(p))

RowsOK == /\ \A o \in Order : ChargedOnce(o) /\ CreditedOnce(o)
          /\ EntriesOwned /\ InvoicesBilled
          /\ IsFiniteSet(entries)
          /\ \A p \in PeriodId : Balanced(p)

AccountInv == (\A t \in Txn : SessionKnows(t)) /\ RowsOK

-------------------------------------------------------------------------------
(* What the sessions know.                                                   *)

\* What a step of session t leaves to the others of what they know, and the
\* lock that it needs for the rest.
RecordsKept(t) ==
  /\ \A o \in Order : orders'[o] = orders[o] \/ Holds(t, <<"order", o>>, "X")
  /\ entries \subseteq entries'
  /\ \A p \in PeriodId :
       /\ periods[p] = "closed" => periods'[p] = "closed"
       /\ invoices[p] # None /\ invoices[p].plan = "active" =>
            \/ Holds(t, <<"installment", p>>, "X")
            \/ /\ invoices'[p] # None /\ invoices'[p].plan = "active"
               /\ invoices'[p].due = invoices[p].due

\* What has been charged stays charged, and what is closed stays closed.
LEMMA ChargesStay ==
  ASSUME NEW t \in Txn, RecordsKept(t), NEW o
  PROVE  /\ \A p : ChargedTo(o, p) => ChargedTo(o, p)'
         /\ ChargedAndClosed(o) => ChargedAndClosed(o)'
<1>1. \A p : ChargedTo(o, p) => ChargedTo(o, p)'
  BY DEF RecordsKept, ChargedTo
<1> QED
  BY <1>1 DEF RecordsKept, ChargedAndClosed

\* What a session knows is kept by the steps of the others.
LEMMA OthersKnow ==
  ASSUME LedgerInv, NEW t \in Txn, NEW u \in Txn, t # u,
         SessionsKept(t), RecordsKept(t), SessionKnows(u)
  PROVE  SessionKnows(u)'
<1>0. PICK r : r = tx[u]
  OBVIOUS
<1>1. r \in TxState /\ Control(u) /\ MutexOK
  BY <1>0, Session
<1>2. tx[u] = r /\ tx'[u] = r
  BY <1>0 DEF SessionsKept
<1>3. \A row \in Row : /\ Holds(u, row, "X")' <=> Holds(u, row, "X")
                       /\ Holds(u, row, "X") => ~Holds(t, row, "X")
  BY <1>1, LocksKept, Exclusive
<1>4. r.op \in {"checkout", "cancel"} => r.order \in Order /\ <<"order", r.order>> \in Row
  BY <1>0, <1>1, Rows DEF Control
<1>5. r.period # None => r.period \in PeriodId /\ <<"installment", r.period>> \in Row
  BY <1>1, Rows DEF TxState
<1>6. KnowsOrder(u)'
  BY <1>2, <1>3, <1>4 DEF SessionKnows, KnowsOrder, RecordsKept
<1>7. KnowsCharge(u)'
  BY <1>2, ChargesStay DEF SessionKnows, KnowsCharge
<1>8. KnowsPeriod(u)'
  BY <1>2 DEF SessionKnows, KnowsPeriod
<1>9. KnowsDue(u)'
  BY <1>2, <1>3, <1>5 DEF SessionKnows, KnowsDue, RecordsKept
<1> QED
  BY <1>6, <1>7, <1>8, <1>9 DEF SessionKnows

\* A step that leaves the tables alone keeps the rows.
LEMMA SameRows ==
  ASSUME RowsOK, UNCHANGED tables
  PROVE  RowsOK'
<1>1. orders' = orders /\ entries' = entries /\ periods' = periods /\ invoices' = invoices
  BY DEF tables
<1>2. \A o : CreditsOf(o)' = CreditsOf(o) /\ CreditedInvoices(o)' = CreditedInvoices(o)
  BY <1>1 DEF CreditsOf, CreditedInvoices
<1>3. \A o \in Order : ChargedOnce(o)' /\ CreditedOnce(o)'
  BY <1>1, <1>2 DEF RowsOK, ChargedOnce, CreditedOnce
<1>4. EntriesOwned' /\ InvoicesBilled' /\ IsFiniteSet(entries')
  BY <1>1 DEF RowsOK, EntriesOwned, InvoicesBilled
<1>5. \A p : /\ EntriesOf(p)' = EntriesOf(p) /\ CarriedTo(p)' = CarriedTo(p)
             /\ LiveIn(p)' = LiveIn(p)
  BY <1>1 DEF EntriesOf, CarriedTo, LiveIn, ChargedTo
<1>6. \A p \in PeriodId : Balanced(p)'
  BY <1>5 DEF RowsOK, Balanced
<1> QED
  BY <1>3, <1>4, <1>6 DEF RowsOK

\* A statement keeps the invariant when its own session knows what it should.
LEMMA KnowingStatement ==
  ASSUME LedgerInv, AccountInv, NEW t \in Txn, SessionsKept(t), UNCHANGED tables,
         SessionKnows(t)'
  PROVE  AccountInv'
<1>1. RecordsKept(t)
  BY DEF RecordsKept, tables
<1>2. \A u \in Txn : SessionKnows(u)'
  BY <1>1, OthersKnow DEF AccountInv
<1> QED
  BY <1>2, SameRows DEF AccountInv

\* A commit keeps the invariant when it keeps the rows.
LEMMA KnowingCommit ==
  ASSUME LedgerInv, AccountInv, NEW t \in Txn, SessionsKept(t), RecordsKept(t),
         tx'[t].op \in {"idle", "close_reference"}, RowsOK'
  PROVE  AccountInv'
<1>1. SessionKnows(t)'
  BY DEF SessionKnows, KnowsOrder, KnowsCharge, KnowsPeriod, KnowsDue
<1>2. \A u \in Txn : SessionKnows(u)'
  BY <1>1, OthersKnow DEF AccountInv
<1> QED
  BY <1>2 DEF AccountInv

\* A request that books nothing, or that has ended, needs to know nothing.
LEMMA Bystander ==
  ASSUME LedgerInv, AccountInv, NEW t \in Txn, SessionsKept(t), UNCHANGED tables,
         tx'[t].op \in {"idle", "close_customer", "close_reference", "select_plan"}
  PROVE  AccountInv'
<1>1. SessionKnows(t)'
  BY DEF SessionKnows, KnowsOrder, KnowsCharge, KnowsPeriod, KnowsDue
<1> QED
  BY <1>1, KnowingStatement

\* A request that goes on, with the locks it has, to a period of its customer.
LEMMA GoesOn ==
  ASSUME LedgerInv, AccountInv, NEW t \in Txn, SessionsKept(t), UNCHANGED tables,
         NEW r, r = tx[t], NEW s, tx'[t] = s,
         s.op = r.op, s.cust = r.cust, s.order = r.order, s.amount = r.amount,
         locks \subseteq locks',
         s.op = "checkout" => r.pc # "insert_order",
         s.period = r.period \/ s.period = None \/ s.period.cust = s.cust,
         s.op = "pay" => s.period = r.period,
         KnowsCharge(t)'
  PROVE  AccountInv'
<1>1. SessionKnows(t)
  BY DEF AccountInv
<1>2. \A row : Holds(t, row, "X") => Holds(t, row, "X")'
  BY DEF Holds
<1>3. KnowsOrder(t)'
  BY <1>1, <1>2 DEF SessionKnows, KnowsOrder, tables
<1>4. KnowsPeriod(t)'
  BY <1>1 DEF SessionKnows, KnowsPeriod
<1>5. KnowsDue(t)'
  BY <1>1, <1>2 DEF SessionKnows, KnowsDue, tables
<1> QED
  BY <1>3, <1>4, <1>5, KnowingStatement DEF SessionKnows

-------------------------------------------------------------------------------
(* Statements: no table changes.                                             *)

\* A statement moves its own session only.
LEMMA OwnStatement ==
  ASSUME TypeOK, NEW t \in Txn, NEW s, tx' = [tx EXCEPT ![t] = s],
         \/ UNCHANGED locks
         \/ locks' = WithoutLocks(t)
         \/ \E row, mode : locks' = WithLock(t, row, mode)
  PROVE  SessionsKept(t) /\ tx'[t] = s
<1>1. \A l \in Lock : l.tx # t => (l \in locks' <=> l \in locks)
  BY DEF WithoutLocks, WithLock
<1> QED
  BY <1>1 DEF SessionsKept, TypeOK

\* The end of a request.
LEMMA Ends ==
  ASSUME LedgerInv, NEW t \in Txn, Finish(t)
  PROVE  SessionsKept(t) /\ tx'[t] = Idle /\ Idle.op = "idle"
BY OwnStatement DEF LedgerInv, Finish, Idle

LEMMA CheckoutBeginKnows ==
  ASSUME LedgerInv, AccountInv, NEW t \in Txn, NEW o \in Order, CheckoutBegin(t, o)
  PROVE  AccountInv'
<1>0. PICK s : s = [Request(t, "checkout", "insert_order", Owner[o]) EXCEPT !.order = o]
  OBVIOUS
<1>1. s.op = "checkout" /\ s.pc = "insert_order" /\ s.cust = Owner[o] /\ s.order = o
      /\ s.period = None
  BY <1>0 DEF Request, Idle
<1>2. tx' = [tx EXCEPT ![t] = s] /\ UNCHANGED tables /\ UNCHANGED locks
  BY <1>0 DEF CheckoutBegin
<1>3. SessionsKept(t) /\ tx'[t] = s
  BY <1>2, OwnStatement DEF LedgerInv
<1>4. SessionKnows(t)'
  BY <1>1, <1>3 DEF SessionKnows, KnowsOrder, KnowsCharge, KnowsPeriod, KnowsDue
<1> QED
  BY <1>2, <1>3, <1>4, KnowingStatement

LEMMA InsertOrderKnows ==
  ASSUME LedgerInv, AccountInv, NEW t \in Txn, InsertOrder(t)
  PROVE  AccountInv'
<1>0. PICK r : r = tx[t]
  OBVIOUS
<1>1. PICK s : s = [r EXCEPT !.pc = "lock_customer", !.month = month]
  OBVIOUS
<1>2. r \in TxState /\ tx \in [Txn -> TxState] /\ Control(t) /\ r.pc = "insert_order"
  BY <1>0, Session DEF InsertOrder
<1>3. /\ tx' = [tx EXCEPT ![t] = s] /\ UNCHANGED tables
      /\ locks' = WithLock(t, <<"order", r.order>>, "X") /\ orders[r.order] = "none"
  BY <1>0, <1>1, <1>2 DEF InsertOrder, TxState
<1>4. SessionsKept(t) /\ tx'[t] = s
  BY <1>3, OwnStatement DEF LedgerInv
<1>5. /\ s.op = "checkout" /\ s.pc = "lock_customer" /\ s.cust = r.cust /\ s.order = r.order
      /\ s.period = None
  BY <1>0, <1>1, <1>2 DEF Control, PcOf, TxState, AllOperations
<1>6. r.op = "checkout" /\ r.cust = Owner[r.order]
  BY <1>0, <1>1, <1>2, <1>5 DEF AccountInv, SessionKnows, KnowsOrder, TxState
<1>7. Holds(t, <<"order", r.order>>, "X")' /\ orders' = orders
  BY <1>3 DEF Holds, WithLock, tables
<1>8. SessionKnows(t)'
  BY <1>3, <1>4, <1>5, <1>6, <1>7
     DEF SessionKnows, KnowsOrder, KnowsCharge, KnowsPeriod, KnowsDue
<1> QED
  BY <1>3, <1>4, <1>8, KnowingStatement

LEMMA CancelBeginKnows ==
  ASSUME LedgerInv, AccountInv, NEW t \in Txn, NEW o \in Order, CancelBegin(t, o)
  PROVE  AccountInv'
<1>0. PICK s : s = [Request(t, "cancel", "read_period", Owner[o])
                       EXCEPT !.order = o, !.amount = -Price[o]]
  OBVIOUS
<1>1. s.op = "cancel" /\ s.pc = "read_period" /\ s.cust = Owner[o] /\ s.order = o
      /\ s.period = None /\ s.amount = -Price[o]
  BY <1>0 DEF Request, Idle
<1>2. /\ tx' = [tx EXCEPT ![t] = s] /\ UNCHANGED tables
      /\ locks' = WithLock(t, <<"order", o>>, "X") /\ orders[o] = "confirmed"
  BY <1>0 DEF CancelBegin
<1>3. SessionsKept(t) /\ tx'[t] = s
  BY <1>2, OwnStatement DEF LedgerInv
<1>4. Holds(t, <<"order", o>>, "X")' /\ orders' = orders
  BY <1>2 DEF Holds, WithLock, tables
<1>5. SessionKnows(t)'
  BY <1>1, <1>2, <1>3, <1>4 DEF SessionKnows, KnowsOrder, KnowsCharge, KnowsPeriod, KnowsDue
<1> QED
  BY <1>2, <1>3, <1>5, KnowingStatement

LEMMA AdjustBeginKnows ==
  ASSUME LedgerInv, AccountInv, NEW t \in Txn, NEW p \in PeriodId, NEW n,
         AdjustBegin(t, p, n)
  PROVE  AccountInv'
<1>0. PICK s : s = [Request(t, "adjust", "lock_invoice", p.cust)
                       EXCEPT !.period = p, !.amount = n]
  OBVIOUS
<1>1. s.op = "adjust" /\ s.cust = p.cust /\ s.period = p
  BY <1>0 DEF Request, Idle
<1>2. tx' = [tx EXCEPT ![t] = s] /\ UNCHANGED tables /\ UNCHANGED locks
  BY <1>0 DEF AdjustBegin
<1>3. SessionsKept(t) /\ tx'[t] = s
  BY <1>2, OwnStatement DEF LedgerInv
<1>4. SessionKnows(t)'
  BY <1>1, <1>3 DEF SessionKnows, KnowsOrder, KnowsCharge, KnowsPeriod, KnowsDue
<1> QED
  BY <1>2, <1>3, <1>4, KnowingStatement

LEMMA PayBeginKnows ==
  ASSUME LedgerInv, AccountInv, NEW t \in Txn, NEW p \in PeriodId, PayBegin(t, p)
  PROVE  AccountInv'
<1>0. PICK s : s = [Request(t, "pay", "lock_invoice", p.cust)
                       EXCEPT !.period = p, !.amount = -invoices[p].due]
  OBVIOUS
<1>1. s.op = "pay" /\ s.cust = p.cust /\ s.period = p /\ s.amount = -invoices[p].due
  BY <1>0 DEF Request, Idle
<1>2. /\ tx' = [tx EXCEPT ![t] = s] /\ UNCHANGED tables
      /\ locks' = WithLock(t, <<"installment", p>>, "X")
      /\ invoices[p] # None /\ invoices[p].plan = "active"
  BY <1>0 DEF PayBegin
<1>3. SessionsKept(t) /\ tx'[t] = s
  BY <1>2, OwnStatement DEF LedgerInv
<1>4. Holds(t, <<"installment", p>>, "X")' /\ invoices' = invoices
  BY <1>2 DEF Holds, WithLock, tables
<1>5. p # None
  BY NoneRow
<1>6. SessionKnows(t)'
  BY <1>1, <1>2, <1>3, <1>4, <1>5
     DEF SessionKnows, KnowsOrder, KnowsCharge, KnowsPeriod, KnowsDue
<1> QED
  BY <1>2, <1>3, <1>6, KnowingStatement

\* LockCustomer, LockInvoice, InsertCredit, ReadInvoice and FindNoOpenPeriod go on.
LEMMA LockCustomerKnows ==
  ASSUME LedgerInv, AccountInv, NEW t \in Txn, LockCustomer(t)
  PROVE  AccountInv'
<1>0. PICK r : r = tx[t]
  OBVIOUS
<1>1. PICK pc : pc = IF r.op = "checkout" THEN "find_period" ELSE "commit"
  OBVIOUS
<1>2. PICK s : s = [r EXCEPT !.pc = pc]
  OBVIOUS
<1>3. r \in TxState /\ tx \in [Txn -> TxState] /\ r.pc = "lock_customer"
  BY <1>0, Session DEF LockCustomer
<1>4. /\ tx' = [tx EXCEPT ![t] = s] /\ UNCHANGED tables
      /\ locks' = WithLock(t, <<"customer", r.cust>>, "X")
  BY <1>0, <1>1, <1>2, <1>3 DEF LockCustomer, TxState
<1>5. SessionsKept(t) /\ tx'[t] = s /\ locks \subseteq locks'
  BY <1>4, OwnStatement DEF LedgerInv, WithLock
<1>6. /\ s.op = r.op /\ s.cust = r.cust /\ s.order = r.order /\ s.amount = r.amount
      /\ s.period = r.period /\ s.pc = pc
  BY <1>2, <1>3 DEF TxState
<1>7. KnowsCharge(t)
  BY DEF AccountInv, SessionKnows
<1>8. KnowsCharge(t)'
  BY <1>0, <1>1, <1>3, <1>4, <1>5, <1>6, <1>7 DEF KnowsCharge, ChargedTo, tables
<1> QED
  BY <1>0, <1>3, <1>4, <1>5, <1>6, <1>8, GoesOn

LEMMA LockInvoiceKnows ==
  ASSUME LedgerInv, AccountInv, NEW t \in Txn, LockInvoice(t)
  PROVE  AccountInv'
<1>0. PICK r : r = tx[t]
  OBVIOUS
<1>1. PICK s : s = [r EXCEPT !.pc = "lock_customer"]
  OBVIOUS
<1>2. r \in TxState /\ tx \in [Txn -> TxState] /\ r.pc = "lock_invoice" /\ Control(t)
  BY <1>0, Session DEF LockInvoice
<1>3. /\ tx' = [tx EXCEPT ![t] = s] /\ UNCHANGED tables
      /\ locks' = WithLock(t, <<"invoice", r.period>>, "X")
  BY <1>0, <1>1, <1>2 DEF LockInvoice, TxState
<1>4. SessionsKept(t) /\ tx'[t] = s /\ locks \subseteq locks'
  BY <1>3, OwnStatement DEF LedgerInv, WithLock
<1>5. /\ s.op = r.op /\ s.cust = r.cust /\ s.order = r.order /\ s.amount = r.amount
      /\ s.period = r.period /\ s.pc = "lock_customer"
  BY <1>1, <1>2 DEF TxState
<1>6. KnowsCharge(t)
  BY DEF AccountInv, SessionKnows
<1>7. KnowsCharge(t)'
  BY <1>0, <1>2, <1>3, <1>4, <1>5, <1>6 DEF KnowsCharge, ChargedTo, tables
<1>8. s.op # "checkout" \/ r.pc # "insert_order"
  BY <1>2
<1> QED
  BY <1>0, <1>3, <1>4, <1>5, <1>7, <1>8, GoesOn

LEMMA InsertCreditKnows ==
  ASSUME LedgerInv, AccountInv, NEW t \in Txn, InsertCredit(t)
  PROVE  AccountInv'
<1>0. PICK r : r = tx[t]
  OBVIOUS
<1>1. PICK s : s = [r EXCEPT !.pc = "lock_customer"]
  OBVIOUS
<1>2. r \in TxState /\ tx \in [Txn -> TxState] /\ r.pc = "insert_credit"
  BY <1>0, Session DEF InsertCredit
<1>3. /\ tx' = [tx EXCEPT ![t] = s] /\ UNCHANGED tables
      /\ locks' = WithLock(t, <<"period", r.period>>, "S")
  BY <1>0, <1>1, <1>2 DEF InsertCredit, TxState
<1>4. SessionsKept(t) /\ tx'[t] = s /\ locks \subseteq locks'
  BY <1>3, OwnStatement DEF LedgerInv, WithLock
<1>5. /\ s.op = r.op /\ s.cust = r.cust /\ s.order = r.order /\ s.amount = r.amount
      /\ s.period = r.period /\ s.pc = "lock_customer"
  BY <1>1, <1>2 DEF TxState
<1>6. KnowsCharge(t)
  BY DEF AccountInv, SessionKnows
<1>7. KnowsCharge(t)'
  BY <1>0, <1>2, <1>3, <1>4, <1>5, <1>6 DEF KnowsCharge, ChargedTo, tables
<1> QED
  BY <1>0, <1>2, <1>3, <1>4, <1>5, <1>7, GoesOn

LEMMA ReadInvoiceKnows ==
  ASSUME LedgerInv, AccountInv, NEW t \in Txn, ReadInvoice(t)
  PROVE  AccountInv'
<1>0. PICK r : r = tx[t]
  OBVIOUS
<1> DEFINE paid == invoices[r.period].status = "paid"
<1>1. PICK p : p = IF paid THEN None ELSE r.period
  OBVIOUS
<1>2. PICK pc : pc = IF paid THEN "find_period" ELSE "lock_invoice"
  OBVIOUS
<1>3. PICK s : s = [r EXCEPT !.pc = pc, !.period = p]
  OBVIOUS
<1>4. /\ r \in TxState /\ tx \in [Txn -> TxState] /\ r.pc = "read_invoice"
      /\ r.op = "cancel"
  BY <1>0, Session DEF ReadInvoice, Control, PcOf, TxState, AllOperations
<1>5. tx' = [tx EXCEPT ![t] = s] /\ UNCHANGED tables /\ UNCHANGED locks
  BY <1>0, <1>1, <1>2, <1>3, <1>4 DEF ReadInvoice, TxState
<1>6. SessionsKept(t) /\ tx'[t] = s
  BY <1>5, OwnStatement DEF LedgerInv
<1>7. /\ s.op = r.op /\ s.cust = r.cust /\ s.order = r.order /\ s.amount = r.amount
      /\ s.period = p /\ s.pc = pc
  BY <1>3, <1>4 DEF TxState
<1>8. KnowsCharge(t)
  BY DEF AccountInv, SessionKnows
<1>9. KnowsCharge(t)'
  BY <1>0, <1>1, <1>2, <1>4, <1>5, <1>6, <1>7, <1>8
     DEF KnowsCharge, ChargedTo, ChargedAndClosed, tables
<1> QED
  BY <1>0, <1>1, <1>4, <1>5, <1>6, <1>7, <1>9, GoesOn

LEMMA FindNoOpenPeriodKnows ==
  ASSUME LedgerInv, AccountInv, NEW t \in Txn, FindNoOpenPeriod(t)
  PROVE  AccountInv'
<1>0. PICK r : r = tx[t]
  OBVIOUS
<1>1. PICK s : s = [r EXCEPT !.pc = "insert_period"]
  OBVIOUS
<1>2. r \in TxState /\ tx \in [Txn -> TxState] /\ r.pc = "find_period"
  BY <1>0, Session DEF FindNoOpenPeriod
<1>3. tx' = [tx EXCEPT ![t] = s] /\ UNCHANGED tables /\ UNCHANGED locks
  BY <1>0, <1>1, <1>2 DEF FindNoOpenPeriod, TxState
<1>4. SessionsKept(t) /\ tx'[t] = s
  BY <1>3, OwnStatement DEF LedgerInv
<1>5. /\ s.op = r.op /\ s.cust = r.cust /\ s.order = r.order /\ s.amount = r.amount
      /\ s.period = r.period /\ s.pc = "insert_period"
  BY <1>1, <1>2 DEF TxState
<1>6. KnowsCharge(t)
  BY DEF AccountInv, SessionKnows
<1>7. KnowsCharge(t)'
  BY <1>0, <1>2, <1>3, <1>4, <1>5, <1>6 DEF KnowsCharge, ChargedTo, ChargedAndClosed, tables
<1> QED
  BY <1>0, <1>2, <1>3, <1>4, <1>5, <1>7, GoesOn

LEMMA FindOpenPeriodKnows ==
  ASSUME LedgerInv, AccountInv, NEW t \in Txn, NEW p \in PeriodId, FindOpenPeriod(t, p)
  PROVE  AccountInv'
<1>0. PICK r : r = tx[t]
  OBVIOUS
<1> DEFINE free == CanLock(t, <<"period", p>>, "X")
<1>1. PICK pc : pc = IF free THEN WithPeriod(r.op) ELSE "await_period"
  OBVIOUS
<1>2. PICK s : s = [r EXCEPT !.period = p, !.pc = pc]
  OBVIOUS
<1>3. /\ r \in TxState /\ tx \in [Txn -> TxState] /\ r.pc = "find_period"
      /\ r.op \in {"checkout", "cancel", "close_customer"}
  BY <1>0, Session, Searching DEF FindOpenPeriod
<1>4. /\ tx' = [tx EXCEPT ![t] = s] /\ UNCHANGED tables
      /\ UNCHANGED locks \/ locks' = WithLock(t, <<"period", p>>, "X")
      /\ p.cust = r.cust
  BY <1>0, <1>1, <1>2, <1>3 DEF FindOpenPeriod, OpenPeriods, TxState
<1>5. SessionsKept(t) /\ tx'[t] = s /\ locks \subseteq locks'
  BY <1>4, OwnStatement DEF LedgerInv, WithLock
<1>6. /\ s.op = r.op /\ s.cust = r.cust /\ s.order = r.order /\ s.amount = r.amount
      /\ s.period = p /\ s.pc = pc
  BY <1>2, <1>3 DEF TxState
<1>7. CASE r.op = "close_customer"
  BY <1>4, <1>5, <1>6, <1>7, Bystander
<1>8. CASE r.op \in {"checkout", "cancel"}
  <2>1. KnowsCharge(t)
    BY DEF AccountInv, SessionKnows
  <2>2. r.op = "cancel" => pc \in {"commit_carry", "await_period"}
    BY <1>1 DEF WithPeriod
  <2>3. KnowsCharge(t)'
    BY <1>0, <1>3, <1>4, <1>5, <1>6, <2>1, <2>2
       DEF KnowsCharge, ChargedTo, ChargedAndClosed, tables
  <2> QED
    BY <1>0, <1>3, <1>4, <1>5, <1>6, <1>8, <2>3, GoesOn
<1> QED
  BY <1>3, <1>7, <1>8

LEMMA AwaitPeriodKnows ==
  ASSUME LedgerInv, AccountInv, NEW t \in Txn, AwaitPeriod(t)
  PROVE  AccountInv'
<1>0. PICK r : r = tx[t]
  OBVIOUS
<1> DEFINE open == periods[r.period] = "open"
<1>1. PICK pc : pc = IF open THEN WithPeriod(r.op) ELSE "insert_period"
  OBVIOUS
<1>2. PICK p : p = IF open THEN r.period ELSE None
  OBVIOUS
<1>3. PICK s : s = [r EXCEPT !.period = p, !.pc = pc]
  OBVIOUS
<1>4. /\ r \in TxState /\ tx \in [Txn -> TxState] /\ r.pc = "await_period"
      /\ r.op \in {"checkout", "cancel", "close_customer"}
  BY <1>0, Session, Searching DEF AwaitPeriod
<1>5. /\ tx' = [tx EXCEPT ![t] = s] /\ UNCHANGED tables
      /\ UNCHANGED locks \/ locks' = WithLock(t, <<"period", r.period>>, "X")
  BY <1>0, <1>1, <1>2, <1>3, <1>4 DEF AwaitPeriod, TxState
<1>6. SessionsKept(t) /\ tx'[t] = s /\ locks \subseteq locks'
  BY <1>5, OwnStatement DEF LedgerInv, WithLock
<1>7. /\ s.op = r.op /\ s.cust = r.cust /\ s.order = r.order /\ s.amount = r.amount
      /\ s.period = p /\ s.pc = pc
  BY <1>3, <1>4 DEF TxState
<1>8. CASE r.op = "close_customer"
  BY <1>5, <1>6, <1>7, <1>8, Bystander
<1>9. CASE r.op \in {"checkout", "cancel"}
  <2>1. KnowsCharge(t)
    BY DEF AccountInv, SessionKnows
  <2>2. r.op = "cancel" => pc \in {"commit_carry", "insert_period"}
    BY <1>1 DEF WithPeriod
  <2>3. KnowsCharge(t)'
    BY <1>0, <1>4, <1>5, <1>6, <1>7, <2>1, <2>2
       DEF KnowsCharge, ChargedTo, ChargedAndClosed, tables
  <2> QED
    BY <1>0, <1>2, <1>4, <1>5, <1>6, <1>7, <1>9, <2>3, GoesOn
<1> QED
  BY <1>4, <1>8, <1>9

LEMMA InsertPeriodKnows ==
  ASSUME LedgerInv, AccountInv, NEW t \in Txn, NEW p \in PeriodId, InsertPeriod(t, p)
  PROVE  AccountInv'
<1>0. PICK r : r = tx[t]
  OBVIOUS
<1>1. PICK pc : pc = AfterInsert(r.op)
  OBVIOUS
<1>2. PICK s : s = [r EXCEPT !.next = p, !.pc = pc]
  OBVIOUS
<1>3. /\ r \in TxState /\ tx \in [Txn -> TxState] /\ r.pc = "insert_period"
      /\ r.op \in {"checkout", "cancel", "close_customer"}
  BY <1>0, Session DEF InsertPeriod, Control, PcOf, TxState, AllOperations
<1>4. /\ tx' = [tx EXCEPT ![t] = s] /\ UNCHANGED tables
      /\ locks' = WithLock(t, <<"open_key", r.cust>>, "X")
  BY <1>0, <1>1, <1>2, <1>3 DEF InsertPeriod, TxState
<1>5. SessionsKept(t) /\ tx'[t] = s /\ locks \subseteq locks'
  BY <1>4, OwnStatement DEF LedgerInv, WithLock
<1>6. /\ s.op = r.op /\ s.cust = r.cust /\ s.order = r.order /\ s.amount = r.amount
      /\ s.period = r.period /\ s.pc = pc
  BY <1>2, <1>3 DEF TxState
<1>7. CASE r.op = "close_customer"
  BY <1>4, <1>5, <1>6, <1>7, Bystander
<1>8. CASE r.op \in {"checkout", "cancel"}
  <2>1. KnowsCharge(t)
    BY DEF AccountInv, SessionKnows
  <2>2. r.op = "cancel" => pc = "commit_carry"
    BY <1>1 DEF AfterInsert
  <2>3. KnowsCharge(t)'
    BY <1>0, <1>3, <1>4, <1>5, <1>6, <2>1, <2>2
       DEF KnowsCharge, ChargedTo, ChargedAndClosed, tables
  <2> QED
    BY <1>0, <1>3, <1>4, <1>5, <1>6, <1>8, <2>3, GoesOn
<1> QED
  BY <1>3, <1>7, <1>8

\* The period of an order is the one that its only charge names.
LEMMA PeriodOfCharge ==
  ASSUME TypeOK, RowsOK, NEW o \in Order, orders[o] # "none"
  PROVE  /\ ChargedTo(o, PeriodOf(o)) /\ PeriodOf(o) \in PeriodId
         /\ PeriodOf(o).cust = Owner[o]
         /\ \A p : ChargedTo(o, p) => p = PeriodOf(o)
<1>1. PICK e : e = CHOOSE f \in entries : f.type = "order" /\ f.order = o
  OBVIOUS
<1>2. \E f \in entries : f.type = "order" /\ f.order = o
  BY DEF RowsOK, ChargedOnce
<1>3. e \in entries /\ e.type = "order" /\ e.order = o
  BY <1>1, <1>2
<1>4. PeriodOf(o) = e.period
  BY <1>1 DEF PeriodOf
<1>5. e.period \in PeriodId /\ e.period.cust = Owner[o]
  BY <1>3 DEF TypeOK, Entry, RowsOK, EntriesOwned
<1>6. \A p : ChargedTo(o, p) => p = e.period
  BY <1>3 DEF RowsOK, ChargedOnce, ChargedTo
<1> QED
  BY <1>3, <1>4, <1>5, <1>6 DEF ChargedTo

LEMMA ReadPeriodKnows ==
  ASSUME LedgerInv, AccountInv, NEW t \in Txn, ReadPeriod(t)
  PROVE  AccountInv'
<1>0. PICK r : r = tx[t]
  OBVIOUS
<1>1. PICK p : p = PeriodOf(r.order)
  OBVIOUS
<1>2. PICK pc : pc = IF periods[p] = "open" THEN "insert_credit" ELSE "read_invoice"
  OBVIOUS
<1>3. PICK s : s = [r EXCEPT !.period = p, !.pc = pc]
  OBVIOUS
<1>4. /\ r \in TxState /\ tx \in [Txn -> TxState] /\ TypeOK /\ Control(t)
      /\ r.pc = "read_period"
  BY <1>0, Session DEF ReadPeriod
<1>5. r.op = "cancel" /\ r.order \in Order
  BY <1>0, <1>4 DEF Control, PcOf, TxState, AllOperations
<1>6. tx' = [tx EXCEPT ![t] = s] /\ UNCHANGED tables /\ UNCHANGED locks
  BY <1>0, <1>1, <1>2, <1>3, <1>4 DEF ReadPeriod, TxState
<1>7. SessionsKept(t) /\ tx'[t] = s
  BY <1>6, OwnStatement DEF LedgerInv
<1>8. /\ s.op = r.op /\ s.cust = r.cust /\ s.order = r.order /\ s.amount = r.amount
      /\ s.period = p /\ s.pc = pc
  BY <1>3, <1>4 DEF TxState
<1>9. RowsOK /\ KnowsOrder(t) /\ EntriesExist
  BY DEF AccountInv, SessionKnows, LedgerInv
<1>10. orders[r.order] = "confirmed" /\ r.cust = Owner[r.order]
  BY <1>0, <1>5, <1>9 DEF KnowsOrder
<1>11. ChargedTo(r.order, p) /\ p \in PeriodId /\ p.cust = r.cust
  BY <1>1, <1>4, <1>5, <1>9, <1>10, PeriodOfCharge
<1>12. periods[p] \in {"open", "closed"}
  BY <1>4, <1>9, <1>11 DEF ChargedTo, EntriesExist, TypeOK
<1>13. pc = "read_invoice" => ChargedAndClosed(r.order)
  BY <1>2, <1>11, <1>12 DEF ChargedAndClosed
<1>14. KnowsCharge(t)'
  <2>1. ChargedTo(r.order, p)' /\ (pc = "read_invoice" => ChargedAndClosed(r.order)')
    BY <1>6, <1>11, <1>13 DEF ChargedTo, ChargedAndClosed, tables
  <2>2. pc \in {"insert_credit", "read_invoice"}
    BY <1>2
  <2> QED
    BY <1>7, <1>8, <2>1, <2>2 DEF KnowsCharge
<1> QED
  BY <1>0, <1>5, <1>6, <1>7, <1>8, <1>11, <1>14, GoesOn

\* Closings, until they commit, and the selection of a plan know nothing of orders.
LEMMA ClosingKnows ==
  ASSUME LedgerInv, AccountInv, NEW t \in Txn,
         \/ \E c \in Customer : CloseCustomerBegin(t, c)
         \/ \E m \in Month : CloseReferenceBegin(t, m)
         \/ \E p \in PeriodId : PickPeriod(t, p) \/ SelectPlanBegin(t, p)
         \/ ReadEntries(t) \/ SkipPeriod(t) \/ CloseReferenceEnd(t) \/ Abort(t)
  PROVE  AccountInv'
<1>0. PICK r : r = tx[t]
  OBVIOUS
<1>1. r \in TxState /\ tx \in [Txn -> TxState] /\ TypeOK /\ Control(t)
  BY <1>0, Session
<1>2. ASSUME NEW c \in Customer, CloseCustomerBegin(t, c) PROVE AccountInv'
  <2>1. PICK s : s = Request(t, "close_customer", "find_period", c)
    OBVIOUS
  <2>2. tx' = [tx EXCEPT ![t] = s] /\ UNCHANGED tables /\ UNCHANGED locks
    BY <1>2, <2>1 DEF CloseCustomerBegin
  <2>3. s.op = "close_customer"
    BY <2>1 DEF Request, Idle
  <2> QED
    BY <1>1, <2>2, <2>3, OwnStatement, Bystander
<1>3. ASSUME NEW m \in Month, CloseReferenceBegin(t, m) PROVE AccountInv'
  <2>1. PICK T : T = {p \in PeriodId : p.month = m /\ periods[p] = "open"}
    OBVIOUS
  <2>2. PICK s : s = [Request(t, "close_reference", "pick_period", None) EXCEPT !.todo = T]
    OBVIOUS
  <2>3. tx' = [tx EXCEPT ![t] = s] /\ UNCHANGED tables /\ UNCHANGED locks
    BY <1>3, <2>1, <2>2 DEF CloseReferenceBegin
  <2>4. s.op = "close_reference"
    BY <2>2 DEF Request, Idle
  <2> QED
    BY <1>1, <2>3, <2>4, OwnStatement, Bystander
<1>4. ASSUME NEW p \in PeriodId, SelectPlanBegin(t, p) PROVE AccountInv'
  <2>1. PICK n : n = Remaining(invoices[p])
    OBVIOUS
  <2>2. PICK s : s = [Request(t, "select_plan", "activate_plan", p.cust)
                         EXCEPT !.period = p, !.amount = n]
    OBVIOUS
  <2>3. tx' = [tx EXCEPT ![t] = s] /\ UNCHANGED tables /\ UNCHANGED locks
    BY <1>4, <2>1, <2>2 DEF SelectPlanBegin
  <2>4. s.op = "select_plan"
    BY <2>2 DEF Request, Idle
  <2> QED
    BY <1>1, <2>3, <2>4, OwnStatement, Bystander
<1>5. ASSUME NEW p \in PeriodId, PickPeriod(t, p) PROVE AccountInv'
  <2>1. PICK s : s = [r EXCEPT !.period = p, !.pc = "read_entries"]
    OBVIOUS
  <2>2. /\ tx' = [tx EXCEPT ![t] = s] /\ UNCHANGED tables
        /\ locks' = WithLock(t, <<"period", p>>, "X")
    BY <1>0, <1>1, <1>5, <2>1 DEF PickPeriod, TxState
  <2>3. r.pc = "pick_period" /\ r.op \in AllOperations \cup {"idle"}
    BY <1>0, <1>1, <1>5 DEF PickPeriod, TxState
  <2>4. r.op = "close_reference"
    BY <1>0, <1>1, <2>3 DEF Control, PcOf, AllOperations
  <2>5. s.op = r.op
    BY <1>1, <2>1 DEF TxState
  <2> QED
    BY <1>1, <2>2, <2>4, <2>5, OwnStatement, Bystander
<1>6. CASE ReadEntries(t)
  <2>1. PICK pc : pc = IF r.op = "close_customer" THEN "insert_period" ELSE "commit"
    OBVIOUS
  <2>2. PICK E : E = EntriesOf(r.period)
    OBVIOUS
  <2>3. PICK s : s = [r EXCEPT !.items = E, !.pc = pc]
    OBVIOUS
  <2>4. tx' = [tx EXCEPT ![t] = s] /\ UNCHANGED tables /\ UNCHANGED locks
    BY <1>0, <1>1, <1>6, <2>1, <2>2, <2>3 DEF ReadEntries, TxState
  <2>5. s.op \in {"close_customer", "close_reference"}
    BY <1>0, <1>1, <1>6, <2>3 DEF ReadEntries, Control, PcOf, TxState, AllOperations
  <2> QED
    BY <1>1, <2>4, <2>5, OwnStatement, Bystander
<1>7. CASE SkipPeriod(t)
  <2>1. PICK T : T = r.todo \ {r.period}
    OBVIOUS
  <2>2. PICK s : s = [r EXCEPT !.todo = T, !.period = None, !.items = {}, !.pc = "pick_period"]
    OBVIOUS
  <2>3. /\ UNCHANGED tables /\ locks' = WithoutLocks(t) /\ r.op = "close_reference"
    BY <1>0, <1>7 DEF SkipPeriod, NextInLoop
  <2>4. tx' = [tx EXCEPT ![t] = s]
    BY <1>0, <1>1, <1>7, <2>1, <2>2 DEF SkipPeriod, NextInLoop
  <2>5. s.op = "close_reference"
    BY <1>1, <2>2, <2>3 DEF TxState
  <2> QED
    BY <1>1, <2>3, <2>4, <2>5, OwnStatement, Bystander
<1>8. CASE CloseReferenceEnd(t) \/ Abort(t)
  <2>1. Finish(t) /\ UNCHANGED tables
    BY <1>8 DEF CloseReferenceEnd, Abort
  <2>2. SessionsKept(t) /\ tx'[t].op = "idle"
    BY <2>1, Ends
  <2> QED
    BY <2>1, <2>2, Bystander
<1> QED
  BY <1>2, <1>3, <1>4, <1>5, <1>6, <1>7, <1>8

\* Midnight, and a step that changes nothing.
LEMMA NobodyKnows ==
  ASSUME LedgerInv, AccountInv, NextMonth \/ UNCHANGED vars
  PROVE  AccountInv'
<1>1. UNCHANGED tables /\ UNCHANGED <<locks, tx>>
  BY DEF NextMonth, vars
<1>2. ASSUME NEW t \in Txn PROVE SessionKnows(t)'
  <2>1. SessionKnows(t)
    BY DEF AccountInv
  <2> QED
    BY <1>1, <2>1 DEF SessionKnows, KnowsOrder, KnowsCharge, KnowsPeriod, KnowsDue,
                      ChargedTo, ChargedAndClosed, Holds, tables
<1> QED
  BY <1>1, <1>2, SameRows DEF AccountInv

-------------------------------------------------------------------------------
(* What the commits write.                                                   *)

Writes(type, o, e) == /\ e.type = type /\ e.order = o /\ e.period.cust = Owner[o]
                      /\ e \notin entries /\ entries' = entries \cup {e}

Sets(o, status) == \A x \in Order : orders'[x] = IF x = o THEN status ELSE orders[x]

Opens(q) == /\ periods[q] \in {"none", "open"}
            /\ \A p \in PeriodId : periods'[p] = IF p = q THEN "open" ELSE periods[p]

Counts(c, n) == \A x \in Customer : exposure'[x] = IF x = c THEN n ELSE exposure[x]

Replaces(p, inv) == \A q \in PeriodId : invoices'[q] = IF q = p THEN inv ELSE invoices[q]

\* CommitCheckout: an order that is new is charged to an open period.
Charges(o, e) ==
  /\ Writes("order", o, e) /\ orders[o] = "none" /\ Sets(o, "confirmed")
  /\ Opens(e.period) /\ invoices' = invoices
  /\ Counts(Owner[o], exposure[Owner[o]] + Price[o])

\* CommitCancel: the credit goes to the period of the charge.
Credits(o, e) ==
  /\ Writes("order_cancellation", o, e) /\ orders[o] = "confirmed" /\ Sets(o, "cancelled")
  /\ ChargedTo(o, e.period) /\ periods' = periods /\ invoices' = invoices
  /\ Counts(Owner[o], AtLeastZero(exposure[Owner[o]] - Price[o]))

\* CommitCarry: the charge is in a closed period, the credit goes to an open one.
Carries(o, e) ==
  /\ Writes("order_cancellation", o, e) /\ orders[o] = "confirmed" /\ Sets(o, "cancelled")
  /\ ChargedAndClosed(o) /\ Opens(e.period) /\ invoices' = invoices
  /\ exposure' = exposure

\* CommitAdjust: an invoice gets a new total, which covers what was paid.
Amends(p, inv, n) ==
  /\ invoices[p] # None /\ Replaces(p, inv)
  /\ inv.items = invoices[p].items /\ inv.paid = invoices[p].paid
  /\ inv.total = invoices[p].total + n /\ inv.paid <= inv.total
  /\ \/ orders' = orders /\ inv.credited = invoices[p].credited
     \/ \E o \in Order : /\ orders[o] = "confirmed" /\ Sets(o, "cancelled")
                         /\ inv.credited = invoices[p].credited \cup {o}
  /\ entries' = entries /\ periods' = periods
  /\ Counts(p.cust, AtLeastZero(exposure[p.cust] + n))

\* CommitClose: the entries of an open period become an invoice.
Bills(p, inv) ==
  /\ invoices[p] = None /\ Replaces(p, inv)
  /\ inv.items = EntriesOf(p) /\ inv.credited = {}
  /\ inv.total = Subtotal(EntriesOf(p)) /\ inv.paid = 0
  /\ periods[p] = "open" /\ periods'[p] = "closed"
  /\ \A q \in PeriodId : q # p => periods'[q] = periods[q] \/ periods[q] = "none"
  /\ entries' = entries /\ orders' = orders /\ exposure' = exposure

\* ActivatePlan and CommitPay: an invoice is paid n more.
Pays(p, inv, n) ==
  /\ invoices[p] # None /\ Replaces(p, inv)
  /\ inv.items = invoices[p].items /\ inv.credited = invoices[p].credited
  /\ inv.total = invoices[p].total /\ inv.paid = invoices[p].paid + n
  /\ inv.paid > inv.total => inv.status = "paid"
  /\ entries' = entries /\ orders' = orders /\ periods' = periods
  /\ Counts(p.cust, AtLeastZero(exposure[p.cust] - n))

\* A session whose request is over, or goes on with the next period.
Committed(t) == /\ SessionsKept(t) /\ RecordsKept(t)
                /\ tx'[t].op \in {"idle", "close_reference"}

\* The period that an entry goes to is one of the customer.
LEMMA EntryOwned ==
  ASSUME LedgerInv, AccountInv, NEW t \in Txn, NEW r, r = tx[t], NEW q, q = EntryPeriod(r),
         r.pc = "commit_carry" \/ (r.op = "checkout" /\ r.pc = "commit")
  PROVE  /\ q \in PeriodId /\ q.cust = r.cust /\ r.cust = Owner[r.order]
         /\ r.order \in Order /\ r.op \in {"checkout", "cancel"}
         /\ WithNext(periods, r) = [periods EXCEPT ![q] = "open"]
         /\ periods[q] \in {"none", "open"}
<1>1. r \in TxState /\ SessionOK(t) /\ Control(t) /\ KnowsOrder(t) /\ KnowsPeriod(t)
  BY Session DEF AccountInv, SessionKnows
<1>2. r.op \in {"checkout", "cancel"}
  BY <1>1 DEF Control, PcOf, TxState, AllOperations
<1>3. r.order \in Order /\ r.cust = Owner[r.order]
  BY <1>1, <1>2 DEF Control, KnowsOrder
<1>4. /\ q \in PeriodId
      /\ WithNext(periods, r) = [periods EXCEPT ![q] = "open"]
      /\ \/ periods[q] = "open" /\ Holds(t, <<"period", q>>, "X")
         \/ /\ periods[q] = "none" /\ Holds(t, <<"open_key", q.cust>>, "X")
            /\ OpenPeriods(q.cust) = {}
  BY ChargedPeriod
<1>5. q.cust = r.cust
  <2>1. CASE r.next = None
    BY <1>1, <1>2, <1>4, <2>1, NoneRow DEF EntryPeriod, KnowsPeriod
  <2>2. CASE r.next # None
    BY <1>1, <2>2 DEF EntryPeriod, SessionOK, NextHeld
  <2> QED
    BY <2>1, <2>2
<1> QED
  BY <1>2, <1>3, <1>4, <1>5

LEMMA CheckoutCharges ==
  ASSUME LedgerInv, AccountInv, NEW t \in Txn, CommitCheckout(t)
  PROVE  Committed(t) /\ \E o \in Order : \E e \in Entry : Charges(o, e)
<1>0. PICK r : r = tx[t]
  OBVIOUS
<1>1. PICK q : q = EntryPeriod(r)
  OBVIOUS
<1>2. PICK o : o = r.order
  OBVIOUS
<1>3. PICK e : e = [type |-> "order", order |-> o, period |-> q, month |-> r.month]
  OBVIOUS
<1>4. r \in TxState /\ TypeOK /\ KnowsOrder(t) /\ RowsOK
  BY <1>0, Session DEF AccountInv, SessionKnows
<1>5. /\ r.op = "checkout" /\ r.pc = "commit" /\ Finish(t)
      /\ orders' = [orders EXCEPT ![o] = "confirmed"]
      /\ exposure' = [exposure EXCEPT ![r.cust] = @ + Price[o]]
      /\ periods' = WithNext(periods, r) /\ entries' = entries \cup {e}
      /\ invoices' = invoices
  BY <1>0, <1>1, <1>2, <1>3 DEF CommitCheckout
<1>6. /\ q \in PeriodId /\ q.cust = r.cust /\ r.cust = Owner[o] /\ o \in Order
      /\ WithNext(periods, r) = [periods EXCEPT ![q] = "open"]
      /\ periods[q] \in {"none", "open"}
  BY <1>0, <1>1, <1>2, <1>5, EntryOwned
<1>7. Holds(t, <<"order", o>>, "X") /\ orders[o] = "none"
  BY <1>0, <1>2, <1>4, <1>5 DEF KnowsOrder
<1>8. /\ e \in Entry /\ e.type = "order" /\ e.order = o /\ e.period = q
  BY <1>3, <1>4, <1>6 DEF Entry, TxState
<1>9. e \notin entries
  BY <1>4, <1>6, <1>7, <1>8 DEF RowsOK, ChargedOnce
<1>10. Owner[o] \in Customer
  BY <1>6, LedgerAssumption
<1>11. Sets(o, "confirmed") /\ Counts(Owner[o], exposure[Owner[o]] + Price[o]) /\ Opens(q)
  BY <1>4, <1>5, <1>6, <1>10 DEF Sets, Counts, Opens, TypeOK
<1>12. Charges(o, e)
  BY <1>5, <1>6, <1>7, <1>8, <1>9, <1>11 DEF Charges, Writes
<1>13. RecordsKept(t)
  BY <1>5, <1>6, <1>7, <1>11 DEF RecordsKept, Sets, Opens
<1>14. SessionsKept(t) /\ tx'[t].op = "idle"
  BY <1>5, Ends
<1> QED
  BY <1>6, <1>8, <1>12, <1>13, <1>14 DEF Committed

LEMMA CarryCarries ==
  ASSUME LedgerInv, AccountInv, NEW t \in Txn, CommitCarry(t)
  PROVE  Committed(t) /\ \E o \in Order : \E e \in Entry : Carries(o, e)
<1>0. PICK r : r = tx[t]
  OBVIOUS
<1>1. PICK q : q = EntryPeriod(r)
  OBVIOUS
<1>2. PICK o : o = r.order
  OBVIOUS
<1>3. PICK e : e = [type |-> "order_cancellation", order |-> o, period |-> q, month |-> r.month]
  OBVIOUS
<1>4. r \in TxState /\ TypeOK /\ Control(t) /\ KnowsOrder(t) /\ KnowsCharge(t) /\ RowsOK
  BY <1>0, Session DEF AccountInv, SessionKnows
<1>5. /\ r.pc = "commit_carry" /\ Finish(t)
      /\ orders' = [orders EXCEPT ![o] = "cancelled"]
      /\ periods' = WithNext(periods, r) /\ entries' = entries \cup {e}
      /\ invoices' = invoices /\ exposure' = exposure
  BY <1>0, <1>1, <1>2, <1>3 DEF CommitCarry, CreditEntry
<1>6. /\ q \in PeriodId /\ q.cust = r.cust /\ r.cust = Owner[o] /\ o \in Order
      /\ WithNext(periods, r) = [periods EXCEPT ![q] = "open"]
      /\ periods[q] \in {"none", "open"}
  BY <1>0, <1>1, <1>2, <1>5, EntryOwned
<1>7. r.op = "cancel"
  BY <1>0, <1>4, <1>5 DEF Control, PcOf, TxState, AllOperations
<1>8. /\ Holds(t, <<"order", o>>, "X") /\ orders[o] = "confirmed" /\ ChargedAndClosed(o)
  BY <1>0, <1>2, <1>4, <1>5, <1>7 DEF KnowsOrder, KnowsCharge
<1>9. /\ e \in Entry /\ e.type = "order_cancellation" /\ e.order = o /\ e.period = q
  BY <1>3, <1>4, <1>6 DEF Entry, TxState
<1>10. e \notin entries
  BY <1>4, <1>6, <1>8, <1>9 DEF RowsOK, CreditedOnce, CreditsOf
<1>11. Sets(o, "cancelled") /\ Opens(q)
  BY <1>4, <1>5, <1>6 DEF Sets, Opens, TypeOK
<1>12. Carries(o, e)
  BY <1>5, <1>6, <1>8, <1>9, <1>10, <1>11 DEF Carries, Writes
<1>13. RecordsKept(t)
  BY <1>5, <1>6, <1>8, <1>11 DEF RecordsKept, Sets, Opens
<1>14. SessionsKept(t) /\ tx'[t].op = "idle"
  BY <1>5, Ends
<1> QED
  BY <1>6, <1>9, <1>12, <1>13, <1>14 DEF Committed

LEMMA CancelCredits ==
  ASSUME LedgerInv, AccountInv, NEW t \in Txn, CommitCancel(t)
  PROVE  Committed(t) /\ \E o \in Order : \E e \in Entry : Credits(o, e)
<1>0. PICK r : r = tx[t]
  OBVIOUS
<1>1. PICK q : q = EntryPeriod(r)
  OBVIOUS
<1>2. PICK o : o = r.order
  OBVIOUS
<1>3. PICK e : e = [type |-> "order_cancellation", order |-> o, period |-> q, month |-> r.month]
  OBVIOUS
<1>4. /\ r \in TxState /\ TypeOK /\ Control(t) /\ RowsOK
      /\ KnowsOrder(t) /\ KnowsCharge(t) /\ KnowsPeriod(t)
  BY <1>0, Session DEF AccountInv, SessionKnows
<1>5. /\ r.op = "cancel" /\ r.pc = "commit" /\ Finish(t)
      /\ orders' = [orders EXCEPT ![o] = "cancelled"]
      /\ entries' = entries \cup {e}
      /\ exposure' = [exposure EXCEPT ![r.cust] = AtLeastZero(@ + r.amount)]
      /\ periods' = periods /\ invoices' = invoices
  BY <1>0, <1>1, <1>2, <1>3 DEF CommitCancel, CreditEntry
<1>6. r.next = None /\ r.period # None /\ o \in Order
  BY <1>0, <1>2, <1>4, <1>5 DEF Control
<1>7. q = r.period /\ q \in PeriodId
  BY <1>1, <1>4, <1>6 DEF EntryPeriod, TxState
<1>8. /\ Holds(t, <<"order", o>>, "X") /\ orders[o] = "confirmed" /\ ChargedTo(o, q)
      /\ r.cust = Owner[o] /\ q.cust = r.cust /\ r.amount = -Price[o]
  BY <1>0, <1>2, <1>4, <1>5, <1>6, <1>7 DEF KnowsOrder, KnowsCharge, KnowsPeriod
<1>9. /\ e \in Entry /\ e.type = "order_cancellation" /\ e.order = o /\ e.period = q
  BY <1>3, <1>4, <1>6, <1>7 DEF Entry, TxState
<1>10. e \notin entries
  BY <1>4, <1>6, <1>8, <1>9 DEF RowsOK, CreditedOnce, CreditsOf
<1>11. Owner[o] \in Customer /\ Price[o] \in Int
  BY <1>6, LedgerAssumption
<1>12. exposure[Owner[o]] + r.amount = exposure[Owner[o]] - Price[o]
  BY <1>4, <1>8, <1>11 DEF TypeOK
<1>13. Sets(o, "cancelled") /\ Counts(Owner[o], AtLeastZero(exposure[Owner[o]] - Price[o]))
  BY <1>4, <1>5, <1>8, <1>11, <1>12 DEF Sets, Counts, TypeOK
<1>14. Credits(o, e)
  BY <1>5, <1>6, <1>8, <1>9, <1>10, <1>13 DEF Credits, Writes
<1>15. RecordsKept(t)
  BY <1>5, <1>6, <1>8, <1>13 DEF RecordsKept, Sets
<1>16. SessionsKept(t) /\ tx'[t].op = "idle"
  BY <1>5, Ends
<1> QED
  BY <1>6, <1>9, <1>14, <1>15, <1>16 DEF Committed

LEMMA AdjustAmends ==
  ASSUME LedgerInv, AccountInv, NEW t \in Txn, CommitAdjust(t)
  PROVE  /\ Committed(t)
         /\ \E p \in PeriodId : \E inv \in Invoice : \E n \in Int : Amends(p, inv, n)
<1>0. PICK r : r = tx[t]
  OBVIOUS
<1>1. PICK p : p = r.period
  OBVIOUS
<1>2. PICK old : old = invoices[p]
  OBVIOUS
<1>3. PICK inv : inv = Adjusted(old, r)
  OBVIOUS
<1>4. /\ r \in TxState /\ SessionOK(t) /\ TypeOK /\ Control(t)
      /\ KnowsOrder(t) /\ KnowsPeriod(t)
  BY <1>0, Session DEF AccountInv, SessionKnows
<1>5. /\ r.op \in {"adjust", "cancel"} /\ r.pc = "commit" /\ Finish(t)
      /\ Holds(t, <<"invoice", p>>, "X")
      /\ invoices' = [invoices EXCEPT ![p] = Adjusted(@, r)]
      /\ exposure' = [exposure EXCEPT ![r.cust] = AtLeastZero(@ + r.amount)]
      /\ orders' = IF r.op = "cancel" THEN [orders EXCEPT ![r.order] = "cancelled"]
                                      ELSE orders
      /\ entries' = entries /\ periods' = periods
  BY <1>0, <1>1 DEF CommitAdjust
<1>6. /\ p \in PeriodId /\ p # None /\ r.cust \in Customer
      /\ r.op = "cancel" => r.order \in Order
  BY <1>0, <1>1, <1>4, <1>5 DEF Control, TxState
<1>7. /\ old # None /\ old.status # "paid"
      /\ old.total + r.amount >= 0 /\ old.total + r.amount >= old.paid
  BY <1>0, <1>2, <1>4, <1>5, <1>6 DEF SessionOK, InvoiceHeld
<1>8. old \in Invoice
  BY <1>2, <1>4, <1>6, <1>7 DEF TypeOK
<1>9. /\ inv \in Invoice /\ inv.items = old.items /\ inv.paid = old.paid
  BY <1>3, <1>4, <1>6, <1>7, <1>8, AdjustedInvoice
<1>10. /\ inv.total = old.total + r.amount /\ inv.plan = old.plan /\ inv.due = old.due
       /\ inv.credited = IF r.op = "cancel" THEN old.credited \cup {r.order} ELSE old.credited
  BY <1>3, <1>8 DEF Adjusted, Invoice
<1>11. invoices' = [invoices EXCEPT ![p] = inv]
  BY <1>2, <1>3, <1>5
<1>12. Replaces(p, inv)
  BY <1>4, <1>6, <1>11 DEF Replaces, TypeOK
<1>13. p.cust = r.cust
  BY <1>0, <1>1, <1>4, <1>5, <1>6 DEF KnowsPeriod
<1>14. Counts(p.cust, AtLeastZero(exposure[p.cust] + r.amount))
  BY <1>4, <1>5, <1>6, <1>13 DEF Counts, TypeOK
<1>15. /\ r.op = "cancel" => /\ Holds(t, <<"order", r.order>>, "X")
                             /\ orders[r.order] = "confirmed" /\ Sets(r.order, "cancelled")
       /\ r.op # "cancel" => orders' = orders
  <2>1. r.op = "cancel" => Holds(t, <<"order", r.order>>, "X") /\ orders[r.order] = "confirmed"
    BY <1>0, <1>4 DEF KnowsOrder
  <2>2. r.op = "cancel" => Sets(r.order, "cancelled")
    BY <1>4, <1>5, <1>6 DEF Sets, TypeOK
  <2> QED
    BY <1>5, <2>1, <2>2
<1>16. inv.paid <= inv.total
  BY <1>7, <1>8, <1>9, <1>10 DEF Invoice, TxState
<1>17. \/ orders' = orders /\ inv.credited = old.credited
       \/ \E o \in Order : /\ orders[o] = "confirmed" /\ Sets(o, "cancelled")
                           /\ inv.credited = old.credited \cup {o}
  BY <1>6, <1>10, <1>15
<1>18. Amends(p, inv, r.amount)
  BY <1>2, <1>5, <1>7, <1>9, <1>10, <1>12, <1>14, <1>16, <1>17 DEF Amends
<1>19. RecordsKept(t)
  <2>1. \A o \in Order : orders'[o] = orders[o] \/ Holds(t, <<"order", o>>, "X")
    BY <1>15 DEF Sets
  <2>2. \A q \in PeriodId :
          invoices[q] # None => invoices'[q] # None /\ invoices'[q].plan = invoices[q].plan
                                  /\ invoices'[q].due = invoices[q].due
    BY <1>2, <1>9, <1>10, <1>12, NoneRow DEF Replaces
  <2> QED
    BY <1>5, <2>1, <2>2 DEF RecordsKept
<1>20. SessionsKept(t) /\ tx'[t].op = "idle"
  BY <1>5, Ends
<1> QED
  <2>1. r.amount \in Int
    BY <1>4 DEF TxState
  <2> QED
    BY <1>6, <1>9, <1>18, <1>19, <1>20, <2>1 DEF Committed

LEMMA PlanPaysNothing ==
  ASSUME LedgerInv, AccountInv, NEW t \in Txn, ActivatePlan(t)
  PROVE  /\ Committed(t)
         /\ \E p \in PeriodId : \E inv \in Invoice : \E n \in Nat : Pays(p, inv, n)
<1>0. PICK r : r = tx[t]
  OBVIOUS
<1>1. PICK p : p = r.period
  OBVIOUS
<1>2. PICK old : old = invoices[p]
  OBVIOUS
<1>3. PICK inv : inv = [old EXCEPT !.plan = "active", !.due = r.amount]
  OBVIOUS
<1>4. r \in TxState /\ SessionOK(t) /\ TypeOK /\ Control(t) /\ InvoicesBilled
  BY <1>0, Session DEF AccountInv, RowsOK
<1>5. /\ r.pc = "activate_plan" /\ Finish(t) /\ old.plan = "pending_selection"
      /\ orders' = orders /\ periods' = periods /\ entries' = entries /\ exposure' = exposure
  BY <1>0, <1>1, <1>2 DEF ActivatePlan
<1>6. r.op = "select_plan" /\ p # None /\ old # None /\ r.amount \in Nat
  BY <1>0, <1>1, <1>2, <1>4, <1>5
     DEF SessionOK, Control, PcOf, SeenExists, TxState, AllOperations
<1>7. p \in PeriodId /\ old \in Invoice
  BY <1>1, <1>2, <1>4, <1>6 DEF TypeOK, TxState
<1>8. invoices' = [invoices EXCEPT ![p] = inv]
  BY <1>0, <1>1, <1>2, <1>3, <1>4, <1>7 DEF ActivatePlan, TypeOK, Invoice
<1>9. /\ inv \in Invoice /\ inv.items = old.items /\ inv.total = old.total
      /\ inv.paid = old.paid /\ inv.status = old.status /\ inv.credited = old.credited
  BY <1>3, <1>6, <1>7 DEF Invoice
<1>10. Replaces(p, inv)
  BY <1>4, <1>7, <1>8 DEF Replaces, TypeOK
<1>11. p.cust \in Customer
  BY <1>7 DEF PeriodId
<1>12. Counts(p.cust, AtLeastZero(exposure[p.cust] - 0))
  BY <1>4, <1>5, <1>11 DEF Counts, AtLeastZero, TypeOK
<1>13. inv.paid > inv.total => inv.status = "paid"
  BY <1>2, <1>4, <1>6, <1>7, <1>9 DEF InvoicesBilled
<1>14. inv.paid = old.paid + 0
  BY <1>7, <1>9 DEF Invoice
<1>15. Pays(p, inv, 0)
  BY <1>2, <1>5, <1>6, <1>9, <1>10, <1>12, <1>13, <1>14 DEF Pays
<1>16. RecordsKept(t)
  BY <1>2, <1>5, <1>10 DEF RecordsKept, Replaces
<1>17. SessionsKept(t) /\ tx'[t].op = "idle"
  BY <1>5, Ends
<1> QED
  BY <1>7, <1>9, <1>15, <1>16, <1>17 DEF Committed

LEMMA PaymentPays ==
  ASSUME LedgerInv, AccountInv, NEW t \in Txn, CommitPay(t)
  PROVE  /\ Committed(t)
         /\ \E p \in PeriodId : \E inv \in Invoice : \E n \in Nat : Pays(p, inv, n)
<1>0. PICK r : r = tx[t]
  OBVIOUS
<1>1. PICK p : p = r.period
  OBVIOUS
<1>2. PICK old : old = invoices[p]
  OBVIOUS
<1>3. PICK inv : inv = Paid(old)
  OBVIOUS
<1>4. r \in TxState /\ TypeOK /\ Control(t) /\ KnowsPeriod(t) /\ KnowsDue(t)
  BY <1>0, Session DEF AccountInv, SessionKnows
<1>5. /\ r.op = "pay" /\ r.pc = "commit" /\ Finish(t)
      /\ invoices' = [invoices EXCEPT ![p] = Paid(@)]
      /\ exposure' = [exposure EXCEPT ![r.cust] = AtLeastZero(@ + r.amount)]
      /\ orders' = orders /\ periods' = periods /\ entries' = entries
  BY <1>0, <1>1 DEF CommitPay
<1>6. /\ p # None /\ Holds(t, <<"installment", p>>, "X") /\ old # None
      /\ r.amount = -old.due /\ p.cust = r.cust
  BY <1>0, <1>1, <1>2, <1>4, <1>5 DEF KnowsPeriod, KnowsDue
<1>7. p \in PeriodId /\ r.cust \in Customer
  BY <1>0, <1>1, <1>4, <1>5, <1>6 DEF Control, TxState
<1>8. old \in Invoice
  BY <1>2, <1>4, <1>6, <1>7 DEF TypeOK
<1>9. /\ inv \in Invoice /\ inv.items = old.items /\ inv.total = old.total
      /\ inv.status = "paid" <=> inv.total <= inv.paid
  BY <1>3, <1>8, PaidInvoice
<1>10. inv.paid = old.paid + old.due /\ inv.credited = old.credited
  BY <1>3, <1>8 DEF Paid, Invoice
<1>11. invoices' = [invoices EXCEPT ![p] = inv]
  BY <1>2, <1>3, <1>5
<1>12. Replaces(p, inv)
  BY <1>4, <1>7, <1>11 DEF Replaces, TypeOK
<1>13. exposure[r.cust] + r.amount = exposure[r.cust] - old.due
  BY <1>4, <1>6, <1>7, <1>8 DEF TypeOK, Invoice
<1>14. Counts(p.cust, AtLeastZero(exposure[p.cust] - old.due))
  BY <1>4, <1>5, <1>6, <1>7, <1>13 DEF Counts, TypeOK
<1>15. inv.paid > inv.total => inv.status = "paid"
  BY <1>9 DEF Invoice
<1>16. Pays(p, inv, old.due)
  BY <1>2, <1>5, <1>6, <1>9, <1>10, <1>12, <1>14, <1>15 DEF Pays
<1>17. RecordsKept(t)
  BY <1>5, <1>6, <1>12 DEF RecordsKept, Replaces
<1>18. SessionsKept(t) /\ tx'[t].op = "idle"
  BY <1>5, Ends
<1>19. old.due \in Nat
  BY <1>8 DEF Invoice
<1> QED
  BY <1>7, <1>9, <1>16, <1>17, <1>18, <1>19 DEF Committed

LEMMA CloseBills ==
  ASSUME LedgerInv, AccountInv, NEW t \in Txn, CommitClose(t)
  PROVE  Committed(t) /\ \E p \in PeriodId : \E inv \in Invoice : Bills(p, inv)
<1>0. PICK r : r = tx[t]
  OBVIOUS
<1>1. PICK p : p = r.period
  OBVIOUS
<1>2. PICK inv : inv = NewInvoice(r.items)
  OBVIOUS
<1>3. PICK n : n = r.next
  OBVIOUS
<1>4. r \in TxState /\ SessionOK(t) /\ TypeOK
  BY <1>0, Session
<1>5. /\ r.op \in {"close_customer", "close_reference"} /\ r.pc = "commit"
      /\ invoices' = [invoices EXCEPT ![p] = inv]
      /\ periods' = WithNext([periods EXCEPT ![p] = "closed"], r)
      /\ IF r.op = "close_customer" THEN Finish(t) ELSE NextInLoop(t)
      /\ orders' = orders /\ entries' = entries /\ exposure' = exposure
  BY <1>0, <1>1, <1>2 DEF CommitClose
<1>6. /\ p # None /\ invoices[p] = None /\ periods[p] = "open"
      /\ r.items = EntriesOf(p) /\ Subtotal(r.items) \in Nat
  BY <1>0, <1>1, <1>4, <1>5 DEF SessionOK, ClosingHeld, Closing
<1>7. p \in PeriodId
  BY <1>1, <1>4, <1>6 DEF TxState
<1>8. /\ inv \in Invoice /\ inv.items = EntriesOf(p)
      /\ inv.total = Subtotal(EntriesOf(p)) /\ inv.paid = 0 /\ inv.credited = {}
  <2>1. r.items \in SUBSET Entry
    BY <1>4 DEF TxState
  <2>2. inv \in Invoice /\ inv.items = r.items
    BY <1>2, <1>6, <2>1, NewInvoiceTyped
  <2>3. inv.total = Subtotal(r.items) /\ inv.paid = 0 /\ inv.credited = {}
    BY <1>2 DEF NewInvoice
  <2>4. inv.total = Subtotal(EntriesOf(p))
    BY <1>6, <2>3, Zenon
  <2> QED
    BY <1>6, <2>2, <2>3, <2>4
<1>9. n # None => n \in PeriodId /\ periods[n] = "none"
  BY <1>0, <1>3, <1>4 DEF SessionOK, NextHeld, TxState
<1>10. \A q \in PeriodId : periods'[q] = IF q = n THEN "open"
                                         ELSE IF q = p THEN "closed" ELSE periods[q]
  <2>1. n = None => \A q \in PeriodId : q # n
    BY NoneRow
  <2> QED
    BY <1>3, <1>4, <1>5, <1>9, <2>1 DEF WithNext, TypeOK
<1>11. n # p
  BY <1>6, <1>9
<1>12. Replaces(p, inv)
  BY <1>4, <1>5, <1>7 DEF Replaces, TypeOK
<1>13. /\ periods'[p] = "closed"
       /\ \A q \in PeriodId : q # p => periods'[q] = periods[q] \/ periods[q] = "none"
  <2>1. \A q \in PeriodId : q = n => periods[q] = "none"
    BY <1>9, NoneRow
  <2> QED
    BY <1>7, <1>10, <1>11, <2>1
<1>14. Bills(p, inv)
  BY <1>5, <1>6, <1>8, <1>12, <1>13 DEF Bills
<1>15. RecordsKept(t)
  <2>1. \A q \in PeriodId : invoices[q] # None => invoices'[q] = invoices[q]
    BY <1>6, <1>12 DEF Replaces
  <2>2. \A q \in PeriodId : periods[q] = "closed" => periods'[q] = "closed"
    BY <1>6, <1>13
  <2> QED
    BY <1>5, <2>1, <2>2 DEF RecordsKept
<1>16. SessionsKept(t) /\ tx'[t].op \in {"idle", "close_reference"}
  <2>1. CASE r.op = "close_customer"
    BY <1>5, <2>1, Ends
  <2>2. CASE r.op = "close_reference"
    <3>1. PICK T : T = r.todo \ {r.period}
      OBVIOUS
    <3>2. PICK s : s = [r EXCEPT !.todo = T, !.period = None, !.items = {}, !.pc = "pick_period"]
      OBVIOUS
    <3>3. NextInLoop(t) /\ tx \in [Txn -> TxState]
      BY <1>5, <2>2, Session
    <3>4. tx' = [tx EXCEPT ![t] = s] /\ locks' = WithoutLocks(t)
      BY <1>0, <3>1, <3>2, <3>3 DEF NextInLoop
    <3>5. s.op = "close_reference"
      BY <1>4, <2>2, <3>2 DEF TxState
    <3> QED
      BY <1>4, <3>4, <3>5, OwnStatement
  <2> QED
    BY <1>5, <2>1, <2>2
<1> QED
  BY <1>7, <1>8, <1>14, <1>15, <1>16 DEF Committed

-------------------------------------------------------------------------------
(* The rows of an order.                                                     *)

OrdersOK == \A o \in Order : ChargedOnce(o) /\ CreditedOnce(o)

\* An entry more leaves the entries finite, owned, and above those of invoices.
LEMMA EntryMore ==
  ASSUME RowsOK, NEW type, NEW o \in Order, NEW e \in Entry, Writes(type, o, e),
         invoices' = invoices
  PROVE  EntriesOwned' /\ InvoicesBilled' /\ IsFiniteSet(entries')
<1>1. entries' = entries \cup {e} /\ e.period.cust = Owner[e.order] /\ IsFiniteSet(entries)
  BY DEF Writes, RowsOK
<1>2. EntriesOwned'
  BY <1>1 DEF RowsOK, EntriesOwned
<1>3. InvoicesBilled'
  BY <1>1 DEF RowsOK, InvoicesBilled
<1>4. IsFiniteSet(entries')
  BY <1>1, FS_AddElement
<1> QED
  BY <1>2, <1>3, <1>4

LEMMA ChargedOrders ==
  ASSUME TypeOK, RowsOK, NEW o \in Order, NEW e \in Entry, Charges(o, e)
  PROVE  OrdersOK'
<1>1. /\ e.type = "order" /\ e.order = o /\ entries' = entries \cup {e}
      /\ orders[o] = "none" /\ Sets(o, "confirmed") /\ invoices' = invoices
  BY DEF Charges, Writes
<1>2. ASSUME NEW x \in Order PROVE ChargedOnce(x)' /\ CreditedOnce(x)'
  <2>1. ChargedOnce(x) /\ CreditedOnce(x)
    BY DEF RowsOK
  <2>2. orders'[x] = IF x = o THEN "confirmed" ELSE orders[x]
    BY <1>1 DEF Sets
  <2>3. CreditsOf(x)' = CreditsOf(x) /\ CreditedInvoices(x)' = CreditedInvoices(x)
    BY <1>1 DEF CreditsOf, CreditedInvoices
  <2>4. ChargedOnce(x)'
    <3>1. CASE x = o
      <4>1. \A f \in entries : f.order # x
        BY <1>1, <2>1, <3>1 DEF ChargedOnce
      <4> QED
        BY <1>1, <2>2, <3>1, <4>1 DEF ChargedOnce
    <3>2. CASE x # o
      BY <1>1, <2>1, <2>2, <3>2 DEF ChargedOnce
    <3> QED
      BY <3>1, <3>2
  <2>5. CreditedOnce(x)'
    <3>1. x = o => orders[x] # "cancelled"
      BY <1>1
    <3> QED
      BY <1>1, <2>1, <2>2, <2>3, <3>1 DEF CreditedOnce
  <2> QED
    BY <2>4, <2>5
<1> QED
  BY <1>2 DEF OrdersOK

LEMMA CancelledOrders ==
  ASSUME TypeOK, RowsOK, NEW o \in Order, NEW e \in Entry,
         Writes("order_cancellation", o, e), orders[o] = "confirmed",
         Sets(o, "cancelled"), invoices' = invoices
  PROVE  OrdersOK'
<1>1. e.type = "order_cancellation" /\ e.order = o /\ entries' = entries \cup {e}
  BY DEF Writes
<1>2. ASSUME NEW x \in Order PROVE ChargedOnce(x)' /\ CreditedOnce(x)'
  <2>1. ChargedOnce(x) /\ CreditedOnce(x)
    BY DEF RowsOK
  <2>2. orders'[x] = IF x = o THEN "cancelled" ELSE orders[x]
    BY DEF Sets
  <2>3. CreditedInvoices(x)' = CreditedInvoices(x)
    BY DEF CreditedInvoices
  <2>4. ChargedOnce(x)'
    <3>1. CASE x = o
      BY <1>1, <2>1, <2>2, <3>1 DEF ChargedOnce
    <3>2. CASE x # o
      BY <1>1, <2>1, <2>2, <3>2 DEF ChargedOnce
    <3> QED
      BY <3>1, <3>2
  <2>5. CreditedOnce(x)'
    <3>1. CASE x = o
      <4>1. CreditsOf(x) = {} /\ CreditedInvoices(x) = {}
        BY <2>1, <3>1 DEF CreditedOnce
      <4>2. CreditsOf(x)' = {e} /\ e \in entries'
        BY <1>1, <3>1, <4>1 DEF CreditsOf
      <4> QED
        BY <2>2, <2>3, <3>1, <4>1, <4>2 DEF CreditedOnce
    <3>2. CASE x # o
      <4>1. CreditsOf(x)' = CreditsOf(x)
        BY <1>1, <3>2 DEF CreditsOf
      <4> QED
        BY <1>1, <2>1, <2>2, <2>3, <3>2, <4>1 DEF CreditedOnce
    <3> QED
      BY <3>1, <3>2
  <2> QED
    BY <2>4, <2>5
<1> QED
  BY <1>2 DEF OrdersOK

\* An amendment credits an order on its invoice, or none.
LEMMA AmendedOrders ==
  ASSUME TypeOK, RowsOK, NEW p \in PeriodId, NEW inv \in Invoice, NEW n \in Int,
         Amends(p, inv, n)
  PROVE  OrdersOK'
<1>1. /\ invoices[p] # None /\ inv # None /\ Replaces(p, inv) /\ entries' = entries
  BY NoneRow DEF Amends
<1>2. ASSUME NEW x \in Order PROVE ChargedOnce(x)' /\ CreditedOnce(x)'
  <2>1. ChargedOnce(x) /\ CreditedOnce(x)
    BY DEF RowsOK
  <2>2. CreditsOf(x)' = CreditsOf(x)
    BY <1>1 DEF CreditsOf
  <2>3. CASE orders' = orders /\ inv.credited = invoices[p].credited
    <3>1. CreditedInvoices(x)' = CreditedInvoices(x)
      BY <1>1, <2>3 DEF CreditedInvoices, Replaces
    <3> QED
      BY <1>1, <2>1, <2>2, <2>3, <3>1 DEF ChargedOnce, CreditedOnce
  <2>4. ASSUME NEW o \in Order, orders[o] = "confirmed", Sets(o, "cancelled"),
               inv.credited = invoices[p].credited \cup {o}
        PROVE  ChargedOnce(x)' /\ CreditedOnce(x)'
    <3>1. orders'[x] = IF x = o THEN "cancelled" ELSE orders[x]
      BY <2>4 DEF Sets
    <3>2. ChargedOnce(x)'
      BY <1>1, <2>1, <2>4, <3>1 DEF ChargedOnce
    <3>3. CASE x = o
      <4>1. CreditsOf(x) = {} /\ CreditedInvoices(x) = {}
        BY <2>1, <2>4, <3>3 DEF CreditedOnce
      <4>2. CreditedInvoices(x)' = {p}
        BY <1>1, <2>4, <3>3, <4>1 DEF CreditedInvoices, Replaces
      <4> QED
        BY <2>2, <3>1, <3>2, <3>3, <4>1, <4>2 DEF CreditedOnce
    <3>4. CASE x # o
      <4>1. CreditedInvoices(x)' = CreditedInvoices(x)
        BY <1>1, <2>4, <3>4 DEF CreditedInvoices, Replaces
      <4> QED
        BY <1>1, <2>1, <2>2, <3>1, <3>2, <3>4, <4>1 DEF CreditedOnce
    <3> QED
      BY <3>3, <3>4
  <2> QED
    BY <2>3, <2>4 DEF Amends
<1> QED
  BY <1>2 DEF OrdersOK

\* An invoice that is new, or paid more, credits what it credited before.
LEMMA SameOrders ==
  ASSUME RowsOK, NEW p \in PeriodId, NEW inv \in Invoice, Replaces(p, inv),
         \/ invoices[p] = None /\ inv.credited = {}
         \/ invoices[p] # None /\ inv.credited = invoices[p].credited,
         orders' = orders, entries' = entries
  PROVE  OrdersOK'
<1>1. \A x : CreditsOf(x)' = CreditsOf(x)
  BY DEF CreditsOf
<1>2. \A x \in Order : CreditedInvoices(x)' = CreditedInvoices(x)
  BY NoneRow DEF CreditedInvoices, Replaces
<1>3. \A x \in Order : ChargedOnce(x)' /\ CreditedOnce(x)'
  BY <1>1, <1>2 DEF RowsOK, ChargedOnce, CreditedOnce
<1> QED
  BY <1>3 DEF OrdersOK

\* The invoice that replaces another one has entries, and is paid if overpaid.
LEMMA InvoiceReplaced ==
  ASSUME RowsOK, NEW p \in PeriodId, NEW inv \in Invoice, Replaces(p, inv),
         inv.items \subseteq entries, inv.paid > inv.total => inv.status = "paid",
         entries' = entries
  PROVE  EntriesOwned' /\ InvoicesBilled' /\ IsFiniteSet(entries')
<1>1. EntriesOwned' /\ IsFiniteSet(entries')
  BY DEF RowsOK, EntriesOwned
<1>2. InvoicesBilled'
  BY DEF RowsOK, InvoicesBilled, Replaces
<1> QED
  BY <1>1, <1>2

-------------------------------------------------------------------------------
(* The balance of a period.                                                  *)

LEMMA Amounts ==
  \A e \in Entry : /\ AmountOf[e] = IF e.type = "order" THEN Price[e.order] ELSE -Price[e.order]
                   /\ PriceOf[e] = Price[e.order]
                   /\ Price[e.order] \in Nat /\ AmountOf[e] \in Int
BY LedgerAssumption DEF AmountOf, PriceOf, Amount, Entry

\* Sets of entries are finite, and have sums.
LEMMA SumsOfEntries ==
  ASSUME TypeOK, RowsOK, NEW S \in SUBSET entries
  PROVE  /\ IsFiniteSet(S)
         /\ \A x \in S : x \in Entry /\ AmountOf[x] \in Int /\ PriceOf[x] \in Nat
         /\ SumFunctionOnSet(AmountOf, S) \in Int
         /\ SumFunctionOnSet(PriceOf, S) \in Nat
<1>1. IsFiniteSet(S)
  BY FS_Subset DEF RowsOK
<1>2. \A x \in S : x \in Entry /\ AmountOf[x] \in Int /\ PriceOf[x] \in Nat
  BY Amounts DEF TypeOK
<1> QED
  BY <1>1, <1>2, SumInt, SumNat

LEMMA PartsOfPeriod ==
  ASSUME NEW p
  PROVE  /\ EntriesOf(p) \in SUBSET entries /\ CarriedTo(p) \in SUBSET entries
         /\ LiveIn(p) \in SUBSET entries
BY DEF EntriesOf, CarriedTo, LiveIn

\* A period without a new entry keeps its balance.
LEMMA SameBalance ==
  ASSUME RowsOK, NEW q \in PeriodId,
         \A x : x.period = q => (x \in entries' <=> x \in entries)
  PROVE  Balanced(q)'
<1>1. EntriesOf(q)' = EntriesOf(q)
  BY DEF EntriesOf
<1>2. \A o : ChargedTo(o, q)' <=> ChargedTo(o, q)
  BY DEF ChargedTo
<1>3. CarriedTo(q)' = CarriedTo(q) /\ LiveIn(q)' = LiveIn(q)
  BY <1>1, <1>2 DEF CarriedTo, LiveIn
<1>4. Balanced(q)
  BY DEF RowsOK
<1> QED
  BY <1>1, <1>3, <1>4, Zenon DEF Balanced

\* How the sums of a period move with one entry more.
LEMMA EntryAdds ==
  ASSUME TypeOK, RowsOK, NEW q \in PeriodId, NEW e \in Entry, e \notin entries,
         entries' = entries \cup {e}, e.period = q
  PROVE  SumFunctionOnSet(AmountOf, EntriesOf(q)')
           = SumFunctionOnSet(AmountOf, EntriesOf(q)) + AmountOf[e]
<1>1. PICK S : S = EntriesOf(q)
  OBVIOUS
<1>2. PICK R : R = EntriesOf(q)'
  OBVIOUS
<1>3. IsFiniteSet(S) /\ \A x \in S : AmountOf[x] \in Int
  BY <1>1, PartsOfPeriod, SumsOfEntries
<1>4. e \notin S /\ \A x : x \in R <=> x \in S \/ x = e
  BY <1>1, <1>2 DEF EntriesOf
<1>5. AmountOf[e] \in Int
  BY Amounts
<1>6. SumFunctionOnSet(AmountOf, R) = SumFunctionOnSet(AmountOf, S) + AmountOf[e]
  BY <1>3, <1>4, <1>5, SumGrow
<1> QED
  BY <1>1, <1>2, <1>6

LEMMA ChargeBalances ==
  ASSUME TypeOK, RowsOK, NEW o \in Order, NEW e \in Entry, Charges(o, e), NEW q \in PeriodId
  PROVE  Balanced(q)'
<1>1. /\ e.type = "order" /\ e.order = o /\ e \notin entries /\ entries' = entries \cup {e}
      /\ orders[o] = "none"
  BY DEF Charges, Writes
<1>2. \A f \in entries : f.order # o
  BY <1>1 DEF RowsOK, ChargedOnce
<1>3. CASE e.period # q
  BY <1>1, <1>3, SameBalance
<1>4. CASE e.period = q
  <2>1. SumFunctionOnSet(AmountOf, EntriesOf(q)')
          = SumFunctionOnSet(AmountOf, EntriesOf(q)) + Price[o]
    BY <1>1, <1>4, EntryAdds, Amounts
  <2>2. CarriedTo(q)' = CarriedTo(q)
    BY <1>1, <1>2 DEF CarriedTo, EntriesOf, ChargedTo
  <2>3. PICK L : L = LiveIn(q)
    OBVIOUS
  <2>4. PICK M : M = LiveIn(q)'
    OBVIOUS
  <2>5. e \notin L /\ \A x : x \in M <=> x \in L \/ x = e
    <3>1. \A x : x \in LiveIn(q)' <=> x \in LiveIn(q) \/ x = e
      BY <1>1, <1>2, <1>4 DEF LiveIn, EntriesOf
    <3> QED
      BY <1>1, <2>3, <2>4, <3>1 DEF LiveIn, EntriesOf
  <2>6. IsFiniteSet(L) /\ \A x \in L : PriceOf[x] \in Int
    BY <2>3, PartsOfPeriod, SumsOfEntries
  <2>7. PriceOf[e] = Price[o] /\ PriceOf[e] \in Int
    BY <1>1, Amounts
  <2>8. SumFunctionOnSet(PriceOf, M) = SumFunctionOnSet(PriceOf, L) + Price[o]
    BY <2>5, <2>6, <2>7, SumGrow
  <2>9. SumFunctionOnSet(PriceOf, CarriedTo(q)') = SumFunctionOnSet(PriceOf, CarriedTo(q))
    BY <2>2, Zenon
  <2>10. /\ SumFunctionOnSet(AmountOf, EntriesOf(q)) \in Int
         /\ SumFunctionOnSet(PriceOf, CarriedTo(q)) \in Int
         /\ SumFunctionOnSet(PriceOf, LiveIn(q)) \in Int /\ Price[o] \in Int
    BY <2>7, PartsOfPeriod, SumsOfEntries
  <2>11. Balanced(q)
    BY DEF RowsOK
  <2> QED
    BY <2>1, <2>3, <2>4, <2>8, <2>9, <2>10, <2>11 DEF Balanced
<1> QED
  BY <1>3, <1>4

LEMMA CreditBalances ==
  ASSUME TypeOK, RowsOK, NEW o \in Order, NEW e \in Entry, Credits(o, e), NEW q \in PeriodId
  PROVE  Balanced(q)'
<1>1. /\ e.type = "order_cancellation" /\ e.order = o
      /\ e \notin entries /\ entries' = entries \cup {e}
      /\ orders[o] = "confirmed" /\ ChargedTo(o, e.period)
  BY DEF Credits, Writes
<1>2. \A f \in entries : f.type = "order_cancellation" => f.order # o
  BY <1>1 DEF RowsOK, CreditedOnce, CreditsOf
<1>3. CASE e.period # q
  BY <1>1, <1>3, SameBalance
<1>4. CASE e.period = q
  <2>1. PICK c \in entries : c.type = "order" /\ c.order = o /\ c.period = q
    BY <1>1, <1>4 DEF ChargedTo
  <2>2. \A f \in entries : f.type = "order" /\ f.order = o => f = c
    BY <1>1, <2>1 DEF RowsOK, ChargedOnce
  <2>3. SumFunctionOnSet(AmountOf, EntriesOf(q)')
          = SumFunctionOnSet(AmountOf, EntriesOf(q)) - Price[o]
    <3>1. AmountOf[e] = -Price[o] /\ Price[o] \in Int
      BY <1>1, Amounts
    <3>2. SumFunctionOnSet(AmountOf, EntriesOf(q)) \in Int
      BY PartsOfPeriod, SumsOfEntries
    <3>3. SumFunctionOnSet(AmountOf, EntriesOf(q)')
            = SumFunctionOnSet(AmountOf, EntriesOf(q)) + AmountOf[e]
      BY <1>1, <1>4, EntryAdds
    <3> QED
      BY <3>1, <3>2, <3>3
  <2>4. \A x : ChargedTo(x, q)' <=> ChargedTo(x, q)
    BY <1>1 DEF ChargedTo
  <2>5. CarriedTo(q)' = CarriedTo(q)
    BY <1>1, <1>4, <2>4 DEF CarriedTo, EntriesOf
  <2>6. PICK L : L = LiveIn(q)
    OBVIOUS
  <2>7. c \in L
    BY <1>2, <2>1, <2>6 DEF LiveIn, EntriesOf
  <2>8. LiveIn(q)' = L \ {c}
    <3>1. \A x : x \in LiveIn(q)' <=> x \in LiveIn(q) /\ x.order # o
      BY <1>1, <1>4 DEF LiveIn, EntriesOf
    <3>2. \A x \in LiveIn(q) : x.order = o <=> x = c
      BY <2>1, <2>2 DEF LiveIn, EntriesOf
    <3> QED
      BY <2>6, <3>1, <3>2
  <2>9. IsFiniteSet(L) /\ \A x \in L : PriceOf[x] \in Int
    BY <2>6, PartsOfPeriod, SumsOfEntries
  <2>10. SumFunctionOnSet(PriceOf, L) = PriceOf[c] + SumFunctionOnSet(PriceOf, L \ {c})
    BY <2>7, <2>9, SumRemove
  <2>11. PriceOf[c] = Price[o] /\ Price[o] \in Int
    BY <2>1, Amounts DEF TypeOK
  <2>12. /\ SumFunctionOnSet(PriceOf, CarriedTo(q)') = SumFunctionOnSet(PriceOf, CarriedTo(q))
         /\ SumFunctionOnSet(PriceOf, LiveIn(q)') = SumFunctionOnSet(PriceOf, L \ {c})
         /\ SumFunctionOnSet(PriceOf, L) = SumFunctionOnSet(PriceOf, LiveIn(q))
    BY <2>5, <2>6, <2>8, Zenon
  <2>13. SumFunctionOnSet(PriceOf, L \ {c}) \in Int
    <3>1. L \ {c} \in SUBSET entries
      BY <2>6, PartsOfPeriod
    <3> QED
      BY <3>1, SumsOfEntries
  <2>14. /\ SumFunctionOnSet(AmountOf, EntriesOf(q)) \in Int
         /\ SumFunctionOnSet(PriceOf, CarriedTo(q)) \in Int
    BY PartsOfPeriod, SumsOfEntries
  <2>15. Balanced(q)
    BY DEF RowsOK
  <2> QED
    BY <2>3, <2>10, <2>11, <2>12, <2>13, <2>14, <2>15 DEF Balanced
<1> QED
  BY <1>3, <1>4

LEMMA CarryBalances ==
  ASSUME TypeOK, RowsOK, NEW o \in Order, NEW e \in Entry, Carries(o, e), NEW q \in PeriodId
  PROVE  Balanced(q)'
<1>1. /\ e.type = "order_cancellation" /\ e.order = o
      /\ e \notin entries /\ entries' = entries \cup {e}
      /\ orders[o] = "confirmed" /\ ChargedAndClosed(o) /\ periods[e.period] # "closed"
  BY DEF Carries, Writes, Opens
<1>2. ~ChargedTo(o, e.period)
  BY <1>1, PeriodOfCharge DEF ChargedAndClosed
<1>3. CASE e.period # q
  BY <1>1, <1>3, SameBalance
<1>4. CASE e.period = q
  <2>1. SumFunctionOnSet(AmountOf, EntriesOf(q)')
          = SumFunctionOnSet(AmountOf, EntriesOf(q)) - Price[o]
    <3>1. AmountOf[e] = -Price[o] /\ Price[o] \in Int
      BY <1>1, Amounts
    <3>2. SumFunctionOnSet(AmountOf, EntriesOf(q)) \in Int
      BY PartsOfPeriod, SumsOfEntries
    <3>3. SumFunctionOnSet(AmountOf, EntriesOf(q)')
            = SumFunctionOnSet(AmountOf, EntriesOf(q)) + AmountOf[e]
      BY <1>1, <1>4, EntryAdds
    <3> QED
      BY <3>1, <3>2, <3>3
  <2>2. \A x : ChargedTo(x, q)' <=> ChargedTo(x, q)
    BY <1>1 DEF ChargedTo
  <2>3. LiveIn(q)' = LiveIn(q)
    <3>1. \A x \in EntriesOf(q) : x.type = "order" => x.order # o
      BY <1>2, <1>4 DEF EntriesOf, ChargedTo
    <3> QED
      BY <1>1, <1>4, <3>1 DEF LiveIn, EntriesOf
  <2>4. PICK C : C = CarriedTo(q)
    OBVIOUS
  <2>5. PICK D : D = CarriedTo(q)'
    OBVIOUS
  <2>6. e \notin C /\ \A x : x \in D <=> x \in C \/ x = e
    <3>1. \A x : x \in CarriedTo(q)' <=> x \in CarriedTo(q) \/ x = e
      BY <1>1, <1>2, <1>4, <2>2 DEF CarriedTo, EntriesOf
    <3> QED
      BY <1>1, <2>4, <2>5, <3>1 DEF CarriedTo, EntriesOf
  <2>7. IsFiniteSet(C) /\ \A x \in C : PriceOf[x] \in Int
    BY <2>4, PartsOfPeriod, SumsOfEntries
  <2>8. PriceOf[e] = Price[o] /\ PriceOf[e] \in Int
    BY <1>1, Amounts
  <2>9. SumFunctionOnSet(PriceOf, D) = SumFunctionOnSet(PriceOf, C) + Price[o]
    BY <2>6, <2>7, <2>8, SumGrow
  <2>10. SumFunctionOnSet(PriceOf, LiveIn(q)') = SumFunctionOnSet(PriceOf, LiveIn(q))
    BY <2>3, Zenon
  <2>11. /\ SumFunctionOnSet(AmountOf, EntriesOf(q)) \in Int
         /\ SumFunctionOnSet(PriceOf, CarriedTo(q)) \in Int
         /\ SumFunctionOnSet(PriceOf, LiveIn(q)) \in Int /\ Price[o] \in Int
    BY <2>8, PartsOfPeriod, SumsOfEntries
  <2>12. Balanced(q)
    BY DEF RowsOK
  <2> QED
    BY <2>1, <2>4, <2>5, <2>9, <2>10, <2>11, <2>12 DEF Balanced
<1> QED
  BY <1>3, <1>4

-------------------------------------------------------------------------------
(* Every step keeps the invariant.                                           *)

\* What a step can have done to the tables.
Booked == \E o \in Order : \E e \in Entry : Charges(o, e) \/ Credits(o, e) \/ Carries(o, e)

Invoiced == \E p \in PeriodId : \E inv \in Invoice :
              \/ Bills(p, inv)
              \/ \E n \in Int : Amends(p, inv, n)
              \/ \E n \in Nat : Pays(p, inv, n)

LEMMA BookedRows ==
  ASSUME TypeOK, RowsOK, Booked
  PROVE  RowsOK'
<1>1. PICK o \in Order, e \in Entry : Charges(o, e) \/ Credits(o, e) \/ Carries(o, e)
  BY DEF Booked
<1>2. OrdersOK'
  BY <1>1, ChargedOrders, CancelledOrders DEF Credits, Carries
<1>3. \E type : Writes(type, o, e)
  BY <1>1 DEF Charges, Credits, Carries
<1>4. invoices' = invoices
  BY <1>1 DEF Charges, Credits, Carries
<1>5. EntriesOwned' /\ InvoicesBilled' /\ IsFiniteSet(entries')
  BY <1>3, <1>4, EntryMore
<1>6. \A q \in PeriodId : Balanced(q)'
  BY <1>1, ChargeBalances, CreditBalances, CarryBalances
<1> QED
  BY <1>2, <1>5, <1>6 DEF RowsOK, OrdersOK

LEMMA InvoicedRows ==
  ASSUME TypeOK, RowsOK, Invoiced
  PROVE  RowsOK'
<1>1. PICK p \in PeriodId, inv \in Invoice :
        \/ Bills(p, inv)
        \/ \E n \in Int : Amends(p, inv, n)
        \/ \E n \in Nat : Pays(p, inv, n)
  BY DEF Invoiced
<1>2. Replaces(p, inv) /\ entries' = entries
  BY <1>1 DEF Bills, Amends, Pays
<1>3. OrdersOK'
  <2>1. CASE Bills(p, inv)
    BY <1>2, <2>1, SameOrders DEF Bills
  <2>2. ASSUME NEW n \in Int, Amends(p, inv, n) PROVE OrdersOK'
    BY <2>2, AmendedOrders
  <2>3. ASSUME NEW n \in Nat, Pays(p, inv, n) PROVE OrdersOK'
    BY <1>2, <2>3, SameOrders DEF Pays
  <2> QED
    BY <1>1, <2>1, <2>2, <2>3
<1>4. inv.items \subseteq entries
  <2>1. invoices[p] # None => invoices[p].items \subseteq entries
    BY DEF RowsOK, InvoicesBilled
  <2> QED
    BY <1>1, <2>1 DEF Bills, Amends, Pays, EntriesOf
<1>5. inv.paid > inv.total => inv.status = "paid"
  <2>1. inv.paid \in Nat /\ inv.total \in Nat
    BY DEF Invoice
  <2> QED
    BY <1>1, <2>1 DEF Bills, Amends, Pays
<1>6. EntriesOwned' /\ InvoicesBilled' /\ IsFiniteSet(entries')
  BY <1>2, <1>4, <1>5, InvoiceReplaced
<1>7. \A q \in PeriodId : Balanced(q)'
  BY <1>2, SameBalance
<1> QED
  BY <1>3, <1>6, <1>7 DEF RowsOK, OrdersOK

\* A commit of a session books, invoices, or keeps the tables.
LEMMA CommitKnows ==
  ASSUME LedgerInv, AccountInv, NEW t \in Txn, Committed(t), Booked \/ Invoiced
  PROVE  AccountInv'
<1>1. RowsOK'
  BY BookedRows, InvoicedRows DEF LedgerInv, AccountInv
<1> QED
  BY <1>1, KnowingCommit DEF Committed

\* Every step is a statement, which keeps the tables, or a commit.
LEMMA AccountStep ==
  ASSUME LedgerInv, AccountInv, [Next]_vars
  PROVE  AccountInv' /\ (UNCHANGED tables \/ Booked \/ Invoiced)
<1>1. CASE NextMonth \/ UNCHANGED vars
  BY <1>1, NobodyKnows DEF NextMonth, vars
<1>2. ASSUME NEW t \in Txn, CheckoutStep(t)
      PROVE  AccountInv' /\ (UNCHANGED tables \/ Booked)
  <2>1. CASE CommitCheckout(t)
    <3>1. Committed(t) /\ Booked
      BY <2>1, CheckoutCharges DEF Booked
    <3> QED
      BY <3>1, CommitKnows
  <2>2. CASE InsertOrder(t) \/ \E o \in Order : CheckoutBegin(t, o)
    <3>1. AccountInv'
      BY <2>2, InsertOrderKnows, CheckoutBeginKnows
    <3> QED
      BY <2>2, <3>1 DEF InsertOrder, CheckoutBegin
  <2> QED
    BY <1>2, <2>1, <2>2 DEF CheckoutStep
<1>3. ASSUME NEW t \in Txn, CloseStep(t)
      PROVE  AccountInv' /\ (UNCHANGED tables \/ Invoiced)
  <2>1. CASE CommitClose(t)
    <3>1. Committed(t) /\ Invoiced
      BY <2>1, CloseBills DEF Invoiced
    <3> QED
      BY <3>1, CommitKnows
  <2>2. CASE \/ \E c \in Customer : CloseCustomerBegin(t, c)
             \/ \E m \in Month : CloseReferenceBegin(t, m)
             \/ \E p \in PeriodId : PickPeriod(t, p)
             \/ ReadEntries(t) \/ SkipPeriod(t) \/ CloseReferenceEnd(t)
    <3>1. AccountInv'
      BY <2>2, ClosingKnows
    <3> QED
      BY <2>2, <3>1 DEF CloseCustomerBegin, CloseReferenceBegin, PickPeriod, ReadEntries,
                        SkipPeriod, CloseReferenceEnd
  <2> QED
    BY <1>3, <2>1, <2>2 DEF CloseStep
<1>4. ASSUME NEW t \in Txn, CancelStep(t)
      PROVE  AccountInv' /\ (UNCHANGED tables \/ Booked)
  <2>1. CASE CommitCancel(t) \/ CommitCarry(t)
    <3>1. Committed(t) /\ Booked
      BY <2>1, CancelCredits, CarryCarries DEF Booked
    <3> QED
      BY <3>1, CommitKnows
  <2>2. CASE \/ \E o \in Order : CancelBegin(t, o)
             \/ ReadPeriod(t) \/ InsertCredit(t) \/ ReadInvoice(t)
    <3>1. AccountInv'
      BY <2>2, CancelBeginKnows, ReadPeriodKnows, InsertCreditKnows, ReadInvoiceKnows
    <3> QED
      BY <2>2, <3>1 DEF CancelBegin, ReadPeriod, InsertCredit, ReadInvoice
  <2> QED
    BY <1>4, <2>1, <2>2 DEF CancelStep
<1>5. ASSUME NEW t \in Txn, InvoiceStep(t)
      PROVE  AccountInv' /\ (UNCHANGED tables \/ Invoiced)
  <2>1. CASE CommitAdjust(t) \/ ActivatePlan(t) \/ CommitPay(t)
    <3>1. Committed(t) /\ Invoiced
      BY <2>1, AdjustAmends, PlanPaysNothing, PaymentPays DEF Invoiced
    <3> QED
      BY <3>1, CommitKnows
  <2>2. CASE \/ \E p \in PeriodId : \E n \in Adjustments : AdjustBegin(t, p, n)
             \/ LockInvoice(t)
             \/ \E p \in PeriodId : SelectPlanBegin(t, p) \/ PayBegin(t, p)
    <3>1. AccountInv'
      BY <2>2, AdjustBeginKnows, LockInvoiceKnows, ClosingKnows, PayBeginKnows
    <3> QED
      BY <2>2, <3>1 DEF AdjustBegin, LockInvoice, SelectPlanBegin, PayBegin
  <2> QED
    BY <1>5, <2>1, <2>2 DEF InvoiceStep
<1>6. ASSUME NEW t \in Txn, SharedStep(t)
      PROVE  AccountInv' /\ UNCHANGED tables
  <2>1. AccountInv'
    BY <1>6, LockCustomerKnows, FindOpenPeriodKnows, FindNoOpenPeriodKnows, AwaitPeriodKnows,
       InsertPeriodKnows, ClosingKnows DEF SharedStep
  <2>2. UNCHANGED tables
    BY <1>6 DEF SharedStep, LockCustomer, FindOpenPeriod, FindNoOpenPeriod, AwaitPeriod,
                InsertPeriod, Abort
  <2> QED
    BY <2>1, <2>2
<1> QED
  BY <1>1, <1>2, <1>3, <1>4, <1>5, <1>6 DEF Next

LEMMA AccountInitially ==
  ASSUME Init
  PROVE  AccountInv
<1>1. entries = {} /\ \A o : EntriesOf(o) = {} /\ CarriedTo(o) = {} /\ LiveIn(o) = {}
  BY DEF Init, EntriesOf, CarriedTo, LiveIn
<1>2. ASSUME NEW t \in Txn PROVE SessionKnows(t)
  <2>1. tx[t].op = "idle" /\ tx[t].pc = "idle"
    BY DEF Init, Idle
  <2> QED
    BY <2>1 DEF SessionKnows, KnowsOrder, KnowsCharge, KnowsPeriod, KnowsDue
<1>3. \A o \in Order : ChargedOnce(o) /\ CreditedOnce(o)
  BY <1>1 DEF Init, ChargedOnce, CreditedOnce, CreditsOf, CreditedInvoices
<1>4. EntriesOwned /\ InvoicesBilled
  BY <1>1 DEF Init, EntriesOwned, InvoicesBilled
<1>5. IsFiniteSet(entries)
  BY <1>1, FS_EmptySet
<1>6. ASSUME NEW p \in PeriodId PROVE Balanced(p)
  <2>1. /\ SumFunctionOnSet(AmountOf, EntriesOf(p)) = 0
        /\ SumFunctionOnSet(PriceOf, CarriedTo(p)) = 0
        /\ SumFunctionOnSet(PriceOf, LiveIn(p)) = 0
    BY <1>1, SumEmpty, Zenon
  <2> QED
    BY <2>1 DEF Balanced
<1> QED
  BY <1>2, <1>3, <1>4, <1>5, <1>6 DEF AccountInv, RowsOK

\* What checkouts, cancellations and payments rely on holds in every state, and
\* the rows of orders, periods and invoices fit together.
THEOREM AccountIsInvariant == Spec => []AccountInv
<1>1. Init => AccountInv
  BY AccountInitially
<1>2. LedgerInv /\ AccountInv /\ [Next]_vars => AccountInv'
  BY AccountStep
<1> QED
  BY <1>1, <1>2, LedgerIsInvariant, PTL DEF Spec

\* An order has one charge once it is confirmed and one credit once it is
\* cancelled, an entry or an invoice, whichever requests run concurrently.
THEOREM OrdersChargedAndCreditedOnce == Spec => []ChargedAndCreditedOnce
<1>1. ASSUME TypeOK, RowsOK, NEW o \in Order
      PROVE  /\ Cardinality({e \in entries : e.type = "order" /\ e.order = o})
                  = IF orders[o] = "none" THEN 0 ELSE 1
             /\ Cardinality(CreditsOf(o)) + Cardinality(CreditedInvoices(o))
                  = IF orders[o] = "cancelled" THEN 1 ELSE 0
  <2>1. ChargedOnce(o) /\ CreditedOnce(o)
    BY <1>1 DEF RowsOK
  <2>2. Cardinality({}) = 0 /\ \A x : Cardinality({x}) = 1
    BY FS_EmptySet, FS_Singleton, Zenon
  <2>3. Cardinality({e \in entries : e.type = "order" /\ e.order = o})
          = IF orders[o] = "none" THEN 0 ELSE 1
    <3>1. PICK C : C = {e \in entries : e.type = "order" /\ e.order = o}
      OBVIOUS
    <3>2. orders[o] = "none" => C = {}
      BY <2>1, <3>1 DEF ChargedOnce
    <3>3. orders[o] # "none" => \E e : C = {e}
      BY <2>1, <3>1 DEF ChargedOnce
    <3>4. Cardinality(C) = IF orders[o] = "none" THEN 0 ELSE 1
      BY <2>2, <3>2, <3>3, Zenon
    <3> QED
      BY <3>1, <3>4, Zenon
  <2>4. PICK E : E = CreditsOf(o)
    OBVIOUS
  <2>5. PICK I : I = CreditedInvoices(o)
    OBVIOUS
  <2>6. \/ orders[o] # "cancelled" /\ E = {} /\ I = {}
        \/ orders[o] = "cancelled" /\ I = {} /\ \E e : E = {e}
        \/ orders[o] = "cancelled" /\ E = {} /\ \E p : I = {p}
    BY <2>1, <2>4, <2>5 DEF CreditedOnce
  <2>7. \/ orders[o] # "cancelled" /\ Cardinality(E) = 0 /\ Cardinality(I) = 0
        \/ orders[o] = "cancelled" /\ Cardinality(I) = 0 /\ Cardinality(E) = 1
        \/ orders[o] = "cancelled" /\ Cardinality(E) = 0 /\ Cardinality(I) = 1
    BY <2>2, <2>6, Zenon
  <2>8. Cardinality(E) + Cardinality(I) = IF orders[o] = "cancelled" THEN 1 ELSE 0
    BY <2>7
  <2> QED
    BY <2>3, <2>4, <2>5, <2>8
<1>2. LedgerInv /\ AccountInv => ChargedAndCreditedOnce
  BY <1>1 DEF LedgerInv, AccountInv, ChargedAndCreditedOnce
<1> QED
  BY <1>2, LedgerIsInvariant, AccountIsInvariant, PTL

-------------------------------------------------------------------------------
(* The exposure counter.                                                     *)

\* What the customer owes, as sums over the rows themselves.
Unbilled(c) == {e \in entries : e.period.cust = c /\ periods[e.period] = "open"}

CarriedOf(c) == {e \in entries : /\ e.type = "order_cancellation" /\ Owner[e.order] = c
                                 /\ ~ChargedTo(e.order, e.period)}

Debts == [p \in PeriodId |-> IF invoices[p] = None THEN 0
                             ELSE invoices[p].total - invoices[p].paid]

Worth(c) == SumFunctionOnSet(AmountOf, Unbilled(c)) + SumFunctionOnSet(Debts, InvoicesOf(c))
              + SumFunctionOnSet(PriceOf, CarriedOf(c))

\* No credit of c was lost, and no invoice credited below what was paid.
Accounted(c) == /\ \A e \in LostCredits : e.period.cust # c
                /\ \A p \in InvoicesOf(c) : ~Overpaid(p)

\* Nothing owed is negative, so that the counter is never clipped at zero.
Solvent == \A c \in Customer : Accounted(c) => Worth(c) \in Nat

Explained == \A c \in Customer : Accounted(c) => exposure[c] = Worth(c)

\* A customer has finitely many periods.
LEMMA FewInvoices ==
  ASSUME NEW c \in Customer
  PROVE  IsFiniteSet(InvoicesOf(c))
<1> DEFINE S == Month \X (1 .. MaxCycle)
<1> DEFINE P == {p \in PeriodId : p.cust = c}
<1> DEFINE f == [s \in S |-> [cust |-> c, month |-> s[1], cycle |-> s[2]]]
<1>1. IsFiniteSet(S)
  <2>1. IsFiniteSet(Month) /\ IsFiniteSet(1 .. MaxCycle)
    BY FS_Interval, LedgerAssumption DEF Month
  <2> QED
    BY <2>1, FS_Product
<1>2. f \in Surjection(S, P)
  <2>1. \A s \in S : f[s] \in P
    BY DEF PeriodId
  <2>2. ASSUME NEW p \in P PROVE \E s \in S : f[s] = p
    <3>1. p = [cust |-> c, month |-> p.month, cycle |-> p.cycle]
      BY DEF PeriodId
    <3>2. <<p.month, p.cycle>> \in S
      BY DEF PeriodId
    <3>3. f[<<p.month, p.cycle>>] = p
      BY <3>1, <3>2
    <3> QED
      BY <3>2, <3>3
  <2> QED
    BY <2>1, <2>2 DEF Surjection
<1> HIDE DEF S, f
<1>3. IsFiniteSet(P)
  BY <1>1, <1>2, FS_Surjection
<1>4. InvoicesOf(c) \in SUBSET P
  BY DEF InvoicesOf
<1> QED
  BY <1>3, <1>4, FS_Subset

LEMMA WorthParts ==
  ASSUME TypeOK, RowsOK, NEW c \in Customer
  PROVE  /\ Unbilled(c) \in SUBSET entries /\ CarriedOf(c) \in SUBSET entries
         /\ \A p \in InvoicesOf(c) : Debts[p] \in Int
         /\ SumFunctionOnSet(AmountOf, Unbilled(c)) \in Int
         /\ SumFunctionOnSet(Debts, InvoicesOf(c)) \in Int
         /\ SumFunctionOnSet(PriceOf, CarriedOf(c)) \in Nat
         /\ Worth(c) \in Int
<1>1. Unbilled(c) \in SUBSET entries /\ CarriedOf(c) \in SUBSET entries
  BY DEF Unbilled, CarriedOf
<1>2. ASSUME NEW p \in InvoicesOf(c) PROVE Debts[p] \in Int
  <2>1. p \in PeriodId /\ invoices[p] \in Invoice /\ invoices[p] # None
    BY DEF InvoicesOf, TypeOK
  <2> QED
    BY <2>1 DEF Debts, Invoice
<1>3. SumFunctionOnSet(Debts, InvoicesOf(c)) \in Int
  BY <1>2, FewInvoices, SumInt
<1>4. /\ SumFunctionOnSet(AmountOf, Unbilled(c)) \in Int
      /\ SumFunctionOnSet(PriceOf, CarriedOf(c)) \in Nat
  BY <1>1, SumsOfEntries
<1> QED
  BY <1>1, <1>2, <1>3, <1>4 DEF Worth

\* A subtotal is the sum of the amounts.
LEMMA SubtotalSum ==
  ASSUME TypeOK, RowsOK, NEW S \in SUBSET entries
  PROVE  Subtotal(S) = SumFunctionOnSet(AmountOf, S)
<1>1. IsFiniteSet(S) /\ \A e \in S : e \in Entry /\ AmountOf[e] \in Int
  BY SumsOfEntries
<1>2. PICK g : g = [e \in S |-> Amount(e)]
  OBVIOUS
<1>3. DOMAIN g = S /\ \A e \in S : g[e] = AmountOf[e]
  BY <1>1, <1>2 DEF AmountOf
<1>4. SumFunction(g) = SumFunctionOnSet(g, S)
  BY <1>3, Zenon DEF SumFunction
<1>5. SumFunctionOnSet(g, S) = SumFunctionOnSet(AmountOf, S)
  BY <1>1, <1>3, SumSame
<1>6. Subtotal(S) = SumFunction(g)
  BY <1>2, Zenon DEF Subtotal
<1> QED
  BY <1>4, <1>5, <1>6

\* All the unbilled entries of a customer are those of the open period.
LEMMA OneUnbilled ==
  ASSUME TypeOK, OneOpenPeriod, NEW c \in Customer,
         NEW p \in PeriodId, p.cust = c, periods[p] = "open"
  PROVE  Unbilled(c) = EntriesOf(p)
<1>1. \A e \in entries : e.period \in PeriodId
  BY DEF TypeOK, Entry
<1> QED
  BY <1>1 DEF Unbilled, EntriesOf, OneOpenPeriod

\* What a customer owes is never negative: a credit in the open period is of a
\* purchase of the same period, or of one that was paid for.
LEMMA WorthNatural ==
  ASSUME TypeOK, RowsOK, OneOpenPeriod, NEW c \in Customer, Accounted(c)
  PROVE  Worth(c) \in Nat
<1>1. SumFunctionOnSet(Debts, InvoicesOf(c)) \in Nat
  <2>1. ASSUME NEW p \in InvoicesOf(c) PROVE Debts[p] \in Nat
    <3>1. p \in PeriodId /\ invoices[p] \in Invoice /\ invoices[p] # None
      BY DEF InvoicesOf, TypeOK
    <3>2. ~(invoices[p].paid > invoices[p].total)
      BY DEF Accounted, Overpaid
    <3> QED
      BY <3>1, <3>2 DEF Debts, Invoice
  <2> QED
    BY <2>1, FewInvoices, SumNat
<1>2. SumFunctionOnSet(AmountOf, Unbilled(c)) + SumFunctionOnSet(PriceOf, CarriedOf(c)) >= 0
  <2>1. CASE \A p \in PeriodId : ~(p.cust = c /\ periods[p] = "open")
    <3>1. Unbilled(c) = {}
      BY <2>1 DEF Unbilled, TypeOK, Entry
    <3>2. SumFunctionOnSet(AmountOf, Unbilled(c)) = 0
      BY <3>1, SumEmpty, Zenon
    <3> QED
      BY <3>2, WorthParts
  <2>2. ASSUME NEW p \in PeriodId, p.cust = c, periods[p] = "open"
        PROVE  SumFunctionOnSet(AmountOf, Unbilled(c))
                 + SumFunctionOnSet(PriceOf, CarriedOf(c)) >= 0
    <3>1. SumFunctionOnSet(AmountOf, Unbilled(c)) = SumFunctionOnSet(AmountOf, EntriesOf(p))
      BY <2>2, OneUnbilled, Zenon
    <3>2. CarriedTo(p) \in SUBSET CarriedOf(c)
      BY <2>2 DEF CarriedTo, CarriedOf, EntriesOf, RowsOK, EntriesOwned
    <3>3. SumFunctionOnSet(PriceOf, CarriedTo(p)) <= SumFunctionOnSet(PriceOf, CarriedOf(c))
      <4>1. IsFiniteSet(CarriedOf(c)) /\ \A x \in CarriedOf(c) : PriceOf[x] \in Nat
        BY WorthParts, SumsOfEntries
      <4> QED
        BY <3>2, <4>1, SumOfPart
    <3>4. /\ SumFunctionOnSet(PriceOf, LiveIn(p)) \in Nat
          /\ SumFunctionOnSet(PriceOf, CarriedTo(p)) \in Nat
          /\ SumFunctionOnSet(AmountOf, EntriesOf(p)) \in Int
          /\ SumFunctionOnSet(PriceOf, CarriedOf(c)) \in Nat
      BY PartsOfPeriod, SumsOfEntries, WorthParts
    <3>5. Balanced(p)
      BY DEF RowsOK
    <3> QED
      BY <3>1, <3>3, <3>4, <3>5 DEF Balanced
  <2> QED
    BY <2>1, <2>2
<1> QED
  BY <1>1, <1>2, WorthParts DEF Worth

\* How the counter of c moves: with what c owes, and never below zero.
CounterMoves(c) == \E d \in Int : /\ Worth(c)' = Worth(c) + d
                                  /\ exposure'[c] = AtLeastZero(exposure[c] + d)

\* An entry of an open period adds its amount to the unbilled of its customer.
LEMMA UnbilledGrows ==
  ASSUME TypeOK, EntriesExist, RowsOK, NEW type, NEW o \in Order, NEW e \in Entry,
         Writes(type, o, e), Opens(e.period), NEW c \in Customer
  PROVE  SumFunctionOnSet(AmountOf, Unbilled(c)')
           = SumFunctionOnSet(AmountOf, Unbilled(c)) + IF c = Owner[o] THEN AmountOf[e] ELSE 0
<1>1. /\ e \notin entries /\ entries' = entries \cup {e} /\ e.period.cust = Owner[o]
      /\ e.period \in PeriodId /\ \A p \in PeriodId : periods'[p] = IF p = e.period THEN "open" ELSE periods[p]
  BY DEF Writes, Opens, Entry
<1>2. \A f \in entries : /\ f.period \in PeriodId
                         /\ periods'[f.period] = "open" <=> periods[f.period] = "open"
  BY <1>1 DEF EntriesExist, TypeOK, Entry, Opens
<1>3. PICK S : S = Unbilled(c)
  OBVIOUS
<1>4. PICK R : R = Unbilled(c)'
  OBVIOUS
<1>5. /\ e \notin S
      /\ \A x : x \in R <=> x \in S \/ (x = e /\ c = Owner[o])
  <2>1. \A x : x \in Unbilled(c)' <=> x \in Unbilled(c) \/ (x = e /\ c = Owner[o])
    BY <1>1, <1>2 DEF Unbilled
  <2> QED
    BY <1>1, <1>3, <1>4, <2>1 DEF Unbilled
<1>6. IsFiniteSet(S) /\ \A x \in S : AmountOf[x] \in Int
  BY <1>3, WorthParts, SumsOfEntries
<1>7. AmountOf[e] \in Int /\ SumFunctionOnSet(AmountOf, S) \in Int
  BY <1>3, Amounts, WorthParts
<1>8. CASE c = Owner[o]
  <2>1. SumFunctionOnSet(AmountOf, R) = SumFunctionOnSet(AmountOf, S) + AmountOf[e]
    BY <1>5, <1>6, <1>7, <1>8, SumGrow
  <2> QED
    BY <1>3, <1>4, <1>8, <2>1
<1>9. CASE c # Owner[o]
  <2>1. R = S
    BY <1>5, <1>9
  <2>2. SumFunctionOnSet(AmountOf, R) = SumFunctionOnSet(AmountOf, S)
    BY <2>1, Zenon
  <2> QED
    BY <1>3, <1>4, <1>7, <1>9, <2>2
<1> QED
  BY <1>8, <1>9

\* Without a change of invoices the debts stay.
LEMMA SameDebts ==
  ASSUME invoices' = invoices, NEW c
  PROVE  SumFunctionOnSet(Debts', InvoicesOf(c)') = SumFunctionOnSet(Debts, InvoicesOf(c))
<1>1. Debts' = Debts
  BY DEF Debts
<1>2. InvoicesOf(c)' = InvoicesOf(c)
  BY DEF InvoicesOf
<1> QED
  BY <1>1, <1>2, Zenon

\* An order that is credited in the period of its charge, or charged, is not
\* carried.
LEMMA SameCarried ==
  ASSUME RowsOK, NEW o \in Order, NEW e \in Entry, Charges(o, e) \/ Credits(o, e), NEW c
  PROVE  SumFunctionOnSet(PriceOf, CarriedOf(c)') = SumFunctionOnSet(PriceOf, CarriedOf(c))
<1>1. /\ e \notin entries /\ entries' = entries \cup {e} /\ e.order = o
      /\ \/ e.type = "order" /\ orders[o] = "none"
         \/ e.type = "order_cancellation" /\ ChargedTo(o, e.period)
  BY DEF Charges, Credits, Writes
<1>2. CASE e.type = "order" /\ orders[o] = "none"
  <2>1. \A f \in entries : f.order # o
    BY <1>2 DEF RowsOK, ChargedOnce
  <2>2. \A f \in entries : ChargedTo(f.order, f.period)' <=> ChargedTo(f.order, f.period)
    BY <1>1, <2>1 DEF ChargedTo
  <2>3. CarriedOf(c)' = CarriedOf(c)
    BY <1>1, <1>2, <2>2 DEF CarriedOf
  <2> QED
    BY <2>3, Zenon
<1>3. CASE e.type = "order_cancellation" /\ ChargedTo(o, e.period)
  <2>1. \A x, p : ChargedTo(x, p)' <=> ChargedTo(x, p)
    BY <1>1, <1>3 DEF ChargedTo
  <2>2. CarriedOf(c)' = CarriedOf(c)
    BY <1>1, <1>3, <2>1 DEF CarriedOf
  <2> QED
    BY <2>2, Zenon
<1> QED
  BY <1>1, <1>2, <1>3

LEMMA ChargeMoves ==
  ASSUME LedgerInv, AccountInv, NEW o \in Order, NEW e \in Entry, Charges(o, e),
         NEW c \in Customer
  PROVE  CounterMoves(c)
<1>1. TypeOK /\ EntriesExist /\ RowsOK
  BY DEF LedgerInv, AccountInv
<1>2. /\ Writes("order", o, e) /\ Opens(e.period) /\ invoices' = invoices
      /\ Counts(Owner[o], exposure[Owner[o]] + Price[o])
  BY DEF Charges
<1>3. AmountOf[e] = Price[o] /\ Price[o] \in Nat
  BY <1>2, Amounts DEF Writes
<1>4. PICK d : d = IF c = Owner[o] THEN Price[o] ELSE 0
  OBVIOUS
<1>5. SumFunctionOnSet(AmountOf, Unbilled(c)') = SumFunctionOnSet(AmountOf, Unbilled(c)) + d
  BY <1>1, <1>2, <1>3, <1>4, UnbilledGrows
<1>6. /\ SumFunctionOnSet(Debts', InvoicesOf(c)') = SumFunctionOnSet(Debts, InvoicesOf(c))
      /\ SumFunctionOnSet(PriceOf, CarriedOf(c)') = SumFunctionOnSet(PriceOf, CarriedOf(c))
  BY <1>1, <1>2, SameDebts, SameCarried
<1>7. Worth(c)' = Worth(c) + d
  BY <1>1, <1>3, <1>4, <1>5, <1>6, WorthParts DEF Worth
<1>8. exposure'[c] = AtLeastZero(exposure[c] + d)
  BY <1>1, <1>2, <1>3, <1>4 DEF Counts, AtLeastZero, TypeOK
<1> QED
  BY <1>3, <1>4, <1>7, <1>8 DEF CounterMoves

\* The credit of a closed period is lost; another one lowers what is unbilled.
LEMMA CreditMoves ==
  ASSUME LedgerInv, AccountInv, NEW o \in Order, NEW e \in Entry, Credits(o, e),
         NEW c \in Customer, Accounted(c)'
  PROVE  CounterMoves(c)
<1>1. TypeOK /\ EntriesExist /\ RowsOK /\ ClosedIffInvoiced
  BY DEF LedgerInv, AccountInv
<1>2. /\ Writes("order_cancellation", o, e) /\ ChargedTo(o, e.period)
      /\ periods' = periods /\ invoices' = invoices
      /\ Counts(Owner[o], AtLeastZero(exposure[Owner[o]] - Price[o]))
  BY DEF Credits
<1>3. AmountOf[e] = -Price[o] /\ Price[o] \in Nat
  BY <1>2, Amounts DEF Writes
<1>4. PICK d : d = IF c = Owner[o] THEN -Price[o] ELSE 0
  OBVIOUS
<1>5. /\ e.period \in PeriodId /\ e.period.cust = Owner[o] /\ e.type = "order_cancellation"
      /\ e \notin entries /\ entries' = entries \cup {e}
  BY <1>2 DEF Writes, Entry
<1>6. periods[e.period] \in {"open", "closed"}
  BY <1>1, <1>2, <1>5 DEF ChargedTo, EntriesExist, TypeOK
<1>7. SumFunctionOnSet(AmountOf, Unbilled(c)') = SumFunctionOnSet(AmountOf, Unbilled(c)) + d
  <2>1. CASE periods[e.period] = "open"
    <3>1. Opens(e.period)
      BY <1>2, <2>1 DEF Opens
    <3> QED
      BY <1>1, <1>2, <1>3, <1>4, <3>1, UnbilledGrows
  <2>2. CASE periods[e.period] = "closed"
    <3>1. invoices[e.period] # None /\ invoices[e.period].items \subseteq entries
      BY <1>1, <1>5, <2>2 DEF ClosedIffInvoiced, RowsOK, InvoicesBilled
    <3>2. e \in LostCredits'
      BY <1>2, <1>5, <2>2, <3>1 DEF LostCredits
    <3>3. c # Owner[o]
      BY <1>5, <3>2 DEF Accounted
    <3>4. Unbilled(c)' = Unbilled(c)
      BY <1>2, <1>5, <3>3 DEF Unbilled
    <3>5. SumFunctionOnSet(AmountOf, Unbilled(c)') = SumFunctionOnSet(AmountOf, Unbilled(c))
      BY <3>4, Zenon
    <3> QED
      BY <1>1, <1>4, <3>3, <3>5, WorthParts
  <2> QED
    BY <1>6, <2>1, <2>2
<1>8. /\ SumFunctionOnSet(Debts', InvoicesOf(c)') = SumFunctionOnSet(Debts, InvoicesOf(c))
      /\ SumFunctionOnSet(PriceOf, CarriedOf(c)') = SumFunctionOnSet(PriceOf, CarriedOf(c))
  BY <1>1, <1>2, SameDebts, SameCarried
<1>9. Worth(c)' = Worth(c) + d
  BY <1>1, <1>3, <1>4, <1>7, <1>8, WorthParts DEF Worth
<1>10. exposure'[c] = AtLeastZero(exposure[c] + d)
  BY <1>1, <1>2, <1>3, <1>4 DEF Counts, AtLeastZero, TypeOK
<1> QED
  BY <1>3, <1>4, <1>9, <1>10 DEF CounterMoves

\* A credit carried over lowers what is unbilled by what is carried.
LEMMA CarryMoves ==
  ASSUME LedgerInv, AccountInv, NEW o \in Order, NEW e \in Entry, Carries(o, e),
         NEW c \in Customer
  PROVE  CounterMoves(c)
<1>1. TypeOK /\ EntriesExist /\ RowsOK
  BY DEF LedgerInv, AccountInv
<1>2. /\ Writes("order_cancellation", o, e) /\ Opens(e.period) /\ invoices' = invoices
      /\ exposure' = exposure /\ orders[o] = "confirmed" /\ ChargedAndClosed(o)
  BY DEF Carries
<1>3. /\ e.type = "order_cancellation" /\ e.order = o
      /\ e \notin entries /\ entries' = entries \cup {e}
  BY <1>2 DEF Writes
<1>4. AmountOf[e] = -Price[o] /\ PriceOf[e] = Price[o] /\ Price[o] \in Nat
  BY <1>3, Amounts
<1>5. PICK d : d = IF c = Owner[o] THEN Price[o] ELSE 0
  OBVIOUS
<1>6. SumFunctionOnSet(AmountOf, Unbilled(c)') = SumFunctionOnSet(AmountOf, Unbilled(c)) - d
  <2>1. SumFunctionOnSet(AmountOf, Unbilled(c)')
          = SumFunctionOnSet(AmountOf, Unbilled(c)) + IF c = Owner[o] THEN AmountOf[e] ELSE 0
    BY <1>1, <1>2, UnbilledGrows
  <2> QED
    BY <1>1, <1>4, <1>5, <2>1, WorthParts
<1>7. ~ChargedTo(o, e.period)
  BY <1>1, <1>2, PeriodOfCharge DEF ChargedAndClosed, Opens
<1>8. SumFunctionOnSet(PriceOf, CarriedOf(c)') = SumFunctionOnSet(PriceOf, CarriedOf(c)) + d
  <2>1. \A x, p : ChargedTo(x, p)' <=> ChargedTo(x, p)
    BY <1>3 DEF ChargedTo
  <2>2. PICK S : S = CarriedOf(c)
    OBVIOUS
  <2>3. PICK R : R = CarriedOf(c)'
    OBVIOUS
  <2>4. e \notin S /\ \A x : x \in R <=> x \in S \/ (x = e /\ c = Owner[o])
    <3>1. \A x : x \in CarriedOf(c)' <=> x \in CarriedOf(c) \/ (x = e /\ c = Owner[o])
      BY <1>3, <1>7, <2>1 DEF CarriedOf
    <3> QED
      BY <1>3, <2>2, <2>3, <3>1 DEF CarriedOf
  <2>5. IsFiniteSet(S) /\ \A x \in S : PriceOf[x] \in Int
    BY <1>1, <2>2, WorthParts, SumsOfEntries
  <2>6. SumFunctionOnSet(PriceOf, S) \in Int
    BY <1>1, <2>2, WorthParts
  <2>7. CASE c = Owner[o]
    <3>1. SumFunctionOnSet(PriceOf, R) = SumFunctionOnSet(PriceOf, S) + PriceOf[e]
      BY <1>4, <2>4, <2>5, <2>7, SumGrow
    <3> QED
      BY <1>4, <1>5, <2>2, <2>3, <2>7, <3>1
  <2>8. CASE c # Owner[o]
    <3>1. R = S
      BY <2>4, <2>8
    <3>2. SumFunctionOnSet(PriceOf, R) = SumFunctionOnSet(PriceOf, S)
      BY <3>1, Zenon
    <3> QED
      BY <1>5, <2>2, <2>3, <2>6, <2>8, <3>2
  <2> QED
    BY <2>7, <2>8
<1>9. SumFunctionOnSet(Debts', InvoicesOf(c)') = SumFunctionOnSet(Debts, InvoicesOf(c))
  BY <1>2, SameDebts
<1>10. Worth(c)' = Worth(c) + 0
  BY <1>1, <1>4, <1>5, <1>6, <1>8, <1>9, WorthParts DEF Worth
<1>11. exposure'[c] = AtLeastZero(exposure[c] + 0)
  BY <1>1, <1>2 DEF AtLeastZero, TypeOK
<1> QED
  BY <1>10, <1>11 DEF CounterMoves

\* An invoice that owes d more, beside the same entries and periods.
LEMMA DebtMoves ==
  ASSUME TypeOK, RowsOK, NEW p \in PeriodId, NEW inv \in Invoice, Replaces(p, inv),
         invoices[p] # None, entries' = entries, periods' = periods, NEW n \in Int,
         inv.total - inv.paid = invoices[p].total - invoices[p].paid + n,
         NEW c \in Customer
  PROVE  Worth(c)' = Worth(c) + IF c = p.cust THEN n ELSE 0
<1>1. \A o, q : ChargedTo(o, q)' <=> ChargedTo(o, q)
  BY DEF ChargedTo
<1>2. Unbilled(c)' = Unbilled(c) /\ CarriedOf(c)' = CarriedOf(c)
  BY <1>1 DEF Unbilled, CarriedOf
<1>3. /\ SumFunctionOnSet(AmountOf, Unbilled(c)') = SumFunctionOnSet(AmountOf, Unbilled(c))
      /\ SumFunctionOnSet(PriceOf, CarriedOf(c)') = SumFunctionOnSet(PriceOf, CarriedOf(c))
  BY <1>2, Zenon
<1>4. \A q \in PeriodId : invoices'[q] = IF q = p THEN inv ELSE invoices[q]
  BY DEF Replaces
<1>5. inv # None
  BY NoneRow
<1>6. InvoicesOf(c)' = InvoicesOf(c)
  BY <1>4, <1>5 DEF InvoicesOf
<1>7. PICK I : I = InvoicesOf(c)
  OBVIOUS
<1>8. PICK g : g = Debts'
  OBVIOUS
<1>9. /\ IsFiniteSet(I) /\ \A q \in I : Debts[q] \in Int /\ q \in PeriodId
      /\ SumFunctionOnSet(Debts, I) \in Int
  BY <1>7, FewInvoices, WorthParts DEF InvoicesOf
<1>10. \A q \in PeriodId : g[q] = IF q = p THEN Debts[p] + n ELSE Debts[q]
  BY <1>4, <1>5, <1>8 DEF Debts
<1>11. SumFunctionOnSet(g, I) = SumFunctionOnSet(Debts, I) + IF c = p.cust THEN n ELSE 0
  <2>1. CASE c = p.cust
    <3>1. p \in I
      BY <1>7, <2>1 DEF InvoicesOf
    <3>2. \A q \in I : g[q] \in Int /\ (q # p => g[q] = Debts[q])
      BY <1>9, <1>10
    <3>3. SumFunctionOnSet(g, I) = SumFunctionOnSet(Debts, I) - Debts[p] + g[p]
      BY <1>9, <3>1, <3>2, SumChange
    <3> QED
      BY <1>9, <1>10, <2>1, <3>1, <3>3
  <2>2. CASE c # p.cust
    <3>1. \A q \in I : g[q] = Debts[q]
      BY <1>7, <1>9, <1>10, <2>2 DEF InvoicesOf
    <3>2. SumFunctionOnSet(g, I) = SumFunctionOnSet(Debts, I)
      BY <1>9, <3>1, SumSame
    <3> QED
      BY <1>9, <2>2, <3>2
  <2> QED
    BY <2>1, <2>2
<1>12. SumFunctionOnSet(Debts', InvoicesOf(c)') = SumFunctionOnSet(g, I)
  BY <1>6, <1>7, <1>8, Zenon
<1>13. SumFunctionOnSet(Debts, InvoicesOf(c)) = SumFunctionOnSet(Debts, I)
  BY <1>7, Zenon
<1> QED
  BY <1>3, <1>9, <1>11, <1>12, <1>13, WorthParts DEF Worth

LEMMA AmendMoves ==
  ASSUME LedgerInv, AccountInv, NEW p \in PeriodId, NEW inv \in Invoice, NEW n \in Int,
         Amends(p, inv, n), NEW c \in Customer
  PROVE  CounterMoves(c)
<1>1. TypeOK /\ RowsOK
  BY DEF LedgerInv, AccountInv
<1>2. /\ invoices[p] # None /\ Replaces(p, inv) /\ entries' = entries /\ periods' = periods
      /\ inv.total = invoices[p].total + n /\ inv.paid = invoices[p].paid
      /\ Counts(p.cust, AtLeastZero(exposure[p.cust] + n))
  BY DEF Amends
<1>3. invoices[p] \in Invoice
  BY <1>1, <1>2 DEF TypeOK
<1>4. inv.total - inv.paid = invoices[p].total - invoices[p].paid + n
  BY <1>2, <1>3 DEF Invoice
<1>5. PICK d : d = IF c = p.cust THEN n ELSE 0
  OBVIOUS
<1>6. Worth(c)' = Worth(c) + d
  BY <1>1, <1>2, <1>4, <1>5, DebtMoves
<1>7. exposure'[c] = AtLeastZero(exposure[c] + d)
  BY <1>1, <1>2, <1>5 DEF Counts, AtLeastZero, TypeOK
<1> QED
  BY <1>5, <1>6, <1>7 DEF CounterMoves

LEMMA PaymentMoves ==
  ASSUME LedgerInv, AccountInv, NEW p \in PeriodId, NEW inv \in Invoice, NEW n \in Nat,
         Pays(p, inv, n), NEW c \in Customer
  PROVE  CounterMoves(c)
<1>1. TypeOK /\ RowsOK
  BY DEF LedgerInv, AccountInv
<1>2. /\ invoices[p] # None /\ Replaces(p, inv) /\ entries' = entries /\ periods' = periods
      /\ inv.total = invoices[p].total /\ inv.paid = invoices[p].paid + n
      /\ Counts(p.cust, AtLeastZero(exposure[p.cust] - n))
  BY DEF Pays
<1>3. invoices[p] \in Invoice
  BY <1>1, <1>2 DEF TypeOK
<1>4. inv.total - inv.paid = invoices[p].total - invoices[p].paid + (-n)
  BY <1>2, <1>3 DEF Invoice
<1>5. PICK d : d = IF c = p.cust THEN -n ELSE 0
  OBVIOUS
<1>6. Worth(c)' = Worth(c) + d
  BY <1>1, <1>2, <1>4, <1>5, DebtMoves
<1>7. exposure'[c] = AtLeastZero(exposure[c] + d)
  <2>1. exposure[c] \in Nat
    BY <1>1 DEF TypeOK
  <2>2. CASE c = p.cust
    <3>1. exposure[c] + d = exposure[c] - n
      BY <1>5, <2>1, <2>2
    <3> QED
      BY <1>2, <2>2, <3>1 DEF Counts
  <2>3. CASE c # p.cust
    BY <1>2, <1>5, <2>1, <2>3 DEF Counts, AtLeastZero
  <2> QED
    BY <2>2, <2>3
<1> QED
  BY <1>5, <1>6, <1>7 DEF CounterMoves

\* A closing turns what is unbilled into the debt of an invoice.
LEMMA BillMoves ==
  ASSUME LedgerInv, AccountInv, NEW p \in PeriodId, NEW inv \in Invoice, Bills(p, inv),
         NEW c \in Customer
  PROVE  CounterMoves(c)
<1>1. TypeOK /\ RowsOK /\ EntriesExist /\ OneOpenPeriod
  BY DEF LedgerInv, AccountInv
<1>2. /\ invoices[p] = None /\ Replaces(p, inv)
      /\ inv.total = Subtotal(EntriesOf(p)) /\ inv.paid = 0
      /\ periods[p] = "open" /\ periods'[p] = "closed"
      /\ \A q \in PeriodId : q # p => periods'[q] = periods[q] \/ periods[q] = "none"
      /\ entries' = entries /\ exposure' = exposure
  BY DEF Bills
<1>3. \A f \in entries : f.period \in PeriodId /\ periods[f.period] # "none"
  BY <1>1 DEF TypeOK, Entry, EntriesExist
<1>4. \A f \in entries : f.period # p => periods'[f.period] = periods[f.period]
  BY <1>2, <1>3
<1>5. SumFunctionOnSet(PriceOf, CarriedOf(c)') = SumFunctionOnSet(PriceOf, CarriedOf(c))
  <2>1. \A o, q : ChargedTo(o, q)' <=> ChargedTo(o, q)
    BY <1>2 DEF ChargedTo
  <2>2. CarriedOf(c)' = CarriedOf(c)
    BY <1>2, <2>1 DEF CarriedOf
  <2> QED
    BY <2>2, Zenon
<1>6. \A q \in PeriodId : invoices'[q] = IF q = p THEN inv ELSE invoices[q]
  BY <1>2 DEF Replaces
<1>7. inv # None
  BY NoneRow
<1>8. PICK I : I = InvoicesOf(c)
  OBVIOUS
<1>9. PICK J : J = InvoicesOf(c)'
  OBVIOUS
<1>10. PICK g : g = Debts'
  OBVIOUS
<1>11. /\ IsFiniteSet(I) /\ \A q \in I : Debts[q] \in Int
       /\ SumFunctionOnSet(Debts, I) \in Int
  BY <1>1, <1>8, FewInvoices, WorthParts
<1>12. /\ p \notin I
       /\ \A q : q \in J <=> q \in I \/ (q = p /\ c = p.cust)
  <2>1. \A q : q \in InvoicesOf(c)' <=> q \in InvoicesOf(c) \/ (q = p /\ c = p.cust)
    BY <1>2, <1>6, <1>7 DEF InvoicesOf
  <2> QED
    BY <1>2, <1>8, <1>9, <2>1 DEF InvoicesOf
<1>13. g[p] = inv.total /\ \A q \in I : g[q] = Debts[q]
  <2>1. inv.total - 0 = inv.total
    BY DEF Invoice
  <2> QED
    BY <1>2, <1>6, <1>7, <1>8, <1>10, <1>12, <2>1 DEF Debts, InvoicesOf
<1>14. SumFunctionOnSet(AmountOf, Unbilled(c)') + SumFunctionOnSet(g, J)
         = SumFunctionOnSet(AmountOf, Unbilled(c)) + SumFunctionOnSet(Debts, I)
  <2>1. CASE c = p.cust
    <3>1. Unbilled(c)' = {}
      <4>1. \A f \in entries : f.period.cust = c /\ periods[f.period] = "open" => f.period = p
        BY <1>1, <1>2, <1>3, <2>1 DEF OneOpenPeriod
      <4> QED
        BY <1>2, <1>4, <4>1 DEF Unbilled
    <3>2. SumFunctionOnSet(AmountOf, Unbilled(c)') = 0
      BY <3>1, SumEmpty, Zenon
    <3>3. Unbilled(c) = EntriesOf(p)
      BY <1>1, <1>2, <2>1, OneUnbilled
    <3>4. inv.total = SumFunctionOnSet(AmountOf, EntriesOf(p))
      BY <1>1, <1>2, PartsOfPeriod, SubtotalSum
    <3>5. inv.total = SumFunctionOnSet(AmountOf, Unbilled(c))
      BY <3>3, <3>4, Zenon
    <3>6. inv.total \in Int
      BY DEF Invoice
    <3>7. SumFunctionOnSet(g, J) = SumFunctionOnSet(Debts, I) + inv.total
      BY <1>11, <1>12, <1>13, <2>1, <3>6, SumGrow
    <3> QED
      BY <1>11, <3>2, <3>5, <3>6, <3>7
  <2>2. CASE c # p.cust
    <3>1. Unbilled(c)' = Unbilled(c)
      BY <1>2, <1>4, <2>2 DEF Unbilled
    <3>2. SumFunctionOnSet(AmountOf, Unbilled(c)') = SumFunctionOnSet(AmountOf, Unbilled(c))
      BY <3>1, Zenon
    <3>3. J = I
      BY <1>12, <2>2
    <3>4. SumFunctionOnSet(g, J) = SumFunctionOnSet(g, I)
      BY <3>3, Zenon
    <3>5. SumFunctionOnSet(g, I) = SumFunctionOnSet(Debts, I)
      BY <1>11, <1>13, SumSame
    <3> QED
      BY <3>2, <3>4, <3>5
  <2> QED
    BY <2>1, <2>2
<1>15. SumFunctionOnSet(Debts', InvoicesOf(c)') = SumFunctionOnSet(g, J)
  BY <1>9, <1>10, Zenon
<1>16. SumFunctionOnSet(Debts, InvoicesOf(c)) = SumFunctionOnSet(Debts, I)
  BY <1>8, Zenon
<1>17. Worth(c)' = Worth(c) + 0
  <2>1. Worth(c)' = Worth(c)
    <3>1. /\ SumFunctionOnSet(AmountOf, Unbilled(c)) \in Int
          /\ SumFunctionOnSet(PriceOf, CarriedOf(c)) \in Int
      BY <1>1, WorthParts
    <3> QED
      BY <1>5, <1>14, <1>15, <1>16, <3>1 DEF Worth
  <2> QED
    BY <1>1, <2>1, WorthParts
<1>18. exposure'[c] = AtLeastZero(exposure[c] + 0)
  BY <1>1, <1>2 DEF AtLeastZero, TypeOK
<1> QED
  BY <1>17, <1>18 DEF CounterMoves

\* What a commit does to the counter of c, unless it loses a credit of c.
LEMMA TablesMove ==
  ASSUME LedgerInv, AccountInv, Booked \/ Invoiced, NEW c \in Customer, Accounted(c)'
  PROVE  CounterMoves(c)
<1>1. ASSUME Booked PROVE CounterMoves(c)
  BY <1>1, ChargeMoves, CreditMoves, CarryMoves DEF Booked
<1>2. ASSUME Invoiced PROVE CounterMoves(c)
  BY <1>2, BillMoves, AmendMoves, PaymentMoves DEF Invoiced
<1> QED
  BY <1>1, <1>2

\* A credit that is lost stays lost, and a paid invoice keeps its total.
LEMMA AccountedBefore ==
  ASSUME LedgerInv, AccountInv, LedgerInv', [Next]_vars, NEW c \in Customer, Accounted(c)'
  PROVE  Accounted(c)
<1>1. TypeOK /\ RowsOK /\ ClosedIffInvoiced
  BY DEF LedgerInv, AccountInv
<1>2. \A p \in PeriodId : InvoiceKept(p)
  BY FrozenStep
<1>3. /\ entries \subseteq entries'
      /\ \A p \in PeriodId : periods[p] = "closed" => periods'[p] = "closed"
  BY AccountStep
     DEF tables, Booked, Invoiced, Charges, Credits, Carries, Bills, Amends, Pays, Writes, Opens
<1>4. ASSUME NEW e \in LostCredits PROVE e.period.cust # c
  <2>1. /\ e \in entries /\ e.type = "order_cancellation" /\ e.period \in PeriodId
        /\ periods[e.period] = "closed" /\ e \notin invoices[e.period].items
    BY <1>1 DEF LostCredits, TypeOK, Entry
  <2>2. invoices'[e.period].items = invoices[e.period].items
    BY <1>1, <1>2, <2>1 DEF ClosedIffInvoiced, InvoiceKept
  <2>3. e \in LostCredits'
    BY <1>3, <2>1, <2>2 DEF LostCredits
  <2> QED
    BY <2>3 DEF Accounted
<1>5. ASSUME NEW p \in InvoicesOf(c) PROVE ~Overpaid(p)
  <2>1. p \in PeriodId /\ p.cust = c /\ invoices[p] # None /\ InvoiceKept(p)
    BY <1>2 DEF InvoicesOf
  <2>2. invoices'[p] # None
    BY <2>1 DEF InvoiceKept
  <2>3. invoices[p] \in Invoice /\ invoices'[p] \in Invoice
    BY <1>1, <2>1, <2>2 DEF LedgerInv, TypeOK
  <2>4. Overpaid(p) => Overpaid(p)'
    BY <1>1, <2>1, <2>3 DEF InvoiceKept, Overpaid, RowsOK, InvoicesBilled, Invoice
  <2>5. p \in InvoicesOf(c)'
    BY <2>1, <2>2 DEF InvoicesOf
  <2> QED
    BY <2>4, <2>5 DEF Accounted
<1> QED
  BY <1>4, <1>5 DEF Accounted

\* The counter is never clipped: what it would become is never negative.
LEMMA ExplainedStep ==
  ASSUME LedgerInv, AccountInv, LedgerInv', Solvent', [Next]_vars, Explained
  PROVE  Explained'
<1>1. SUFFICES ASSUME NEW c \in Customer, Accounted(c)'
               PROVE  exposure'[c] = Worth(c)'
  BY DEF Explained
<1>2. exposure[c] = Worth(c)
  BY <1>1, AccountedBefore DEF Explained
<1>3. CASE Booked \/ Invoiced
  <2>1. PICK d \in Int : Worth(c)' = Worth(c) + d /\ exposure'[c] = AtLeastZero(exposure[c] + d)
    BY <1>1, <1>3, TablesMove DEF CounterMoves
  <2>2. Worth(c)' \in Nat
    BY <1>1 DEF Solvent
  <2> QED
    BY <1>2, <2>1, <2>2 DEF AtLeastZero
<1>4. CASE UNCHANGED tables
  <2>1. exposure' = exposure /\ entries' = entries /\ periods' = periods /\ invoices' = invoices
    BY <1>4 DEF tables
  <2>2. Unbilled(c)' = Unbilled(c) /\ CarriedOf(c)' = CarriedOf(c)
    BY <2>1 DEF Unbilled, CarriedOf, ChargedTo
  <2>3. /\ SumFunctionOnSet(AmountOf, Unbilled(c)') = SumFunctionOnSet(AmountOf, Unbilled(c))
        /\ SumFunctionOnSet(PriceOf, CarriedOf(c)') = SumFunctionOnSet(PriceOf, CarriedOf(c))
    BY <2>2, Zenon
  <2>4. Worth(c)' = Worth(c)
    BY <2>1, <2>3, SameDebts DEF Worth
  <2> QED
    BY <1>2, <2>1, <2>4
<1> QED
  BY <1>3, <1>4, AccountStep

LEMMA ExplainedInitially ==
  ASSUME Init
  PROVE  Explained
<1>1. SUFFICES ASSUME NEW c \in Customer PROVE exposure[c] = Worth(c)
  BY DEF Explained
<1>2. Unbilled(c) = {} /\ CarriedOf(c) = {} /\ InvoicesOf(c) = {}
  BY DEF Init, Unbilled, CarriedOf, InvoicesOf
<1>3. /\ SumFunctionOnSet(AmountOf, Unbilled(c)) = 0
      /\ SumFunctionOnSet(PriceOf, CarriedOf(c)) = 0
      /\ SumFunctionOnSet(Debts, InvoicesOf(c)) = 0
  BY <1>2, SumEmpty, Zenon
<1> QED
  BY <1>3 DEF Init, Worth

\* The sums of the property are those over the rows.
LEMMA WorthIsOwed ==
  ASSUME LedgerInv, AccountInv, NEW c \in Customer
  PROVE  Worth(c) = Owed(c) + Carried(c)
<1>1. TypeOK /\ RowsOK
  BY DEF LedgerInv, AccountInv
<1>2. Subtotal({e \in entries : e.period.cust = c /\ periods[e.period] = "open"})
        = SumFunctionOnSet(AmountOf, Unbilled(c))
  <2>1. Subtotal(Unbilled(c)) = SumFunctionOnSet(AmountOf, Unbilled(c))
    BY <1>1, WorthParts, SubtotalSum
  <2> QED
    BY <2>1, Zenon DEF Unbilled
<1>3. SumFunction([p \in InvoicesOf(c) |-> invoices[p].total - invoices[p].paid])
        = SumFunctionOnSet(Debts, InvoicesOf(c))
  <2>1. PICK I : I = InvoicesOf(c)
    OBVIOUS
  <2>2. PICK g : g = [p \in I |-> invoices[p].total - invoices[p].paid]
    OBVIOUS
  <2>3. DOMAIN g = I /\ \A p \in I : g[p] = Debts[p] /\ Debts[p] \in Int
    BY <1>1, <2>1, <2>2, WorthParts DEF Debts, InvoicesOf
  <2>4. SumFunction(g) = SumFunctionOnSet(g, I)
    BY <2>3, Zenon DEF SumFunction
  <2>5. SumFunctionOnSet(g, I) = SumFunctionOnSet(Debts, I)
    BY <2>1, <2>3, FewInvoices, SumSame
  <2>6. SumFunction(g) = SumFunctionOnSet(Debts, InvoicesOf(c))
    BY <2>1, <2>4, <2>5, Zenon
  <2> QED
    BY <2>1, <2>2, <2>6, Zenon
<1>4. Carried(c) = SumFunctionOnSet(PriceOf, CarriedOf(c))
  <2>1. PICK C : C = {e \in entries : /\ e.type = "order_cancellation" /\ Owner[e.order] = c
                                      /\ e.period # PeriodOf(e.order)}
    OBVIOUS
  <2>2. ASSUME NEW e \in entries, e.type = "order_cancellation"
        PROVE  e.period # PeriodOf(e.order) <=> ~ChargedTo(e.order, e.period)
    <3>1. e.order \in Order
      BY <1>1 DEF TypeOK, Entry
    <3>2. orders[e.order] # "none"
      BY <1>1, <2>2, <3>1 DEF RowsOK, CreditedOnce, CreditsOf
    <3> QED
      BY <1>1, <3>1, <3>2, PeriodOfCharge
  <2>3. C = CarriedOf(c)
    BY <2>1, <2>2 DEF CarriedOf
  <2>4. PICK g : g = [e \in C |-> Price[e.order]]
    OBVIOUS
  <2>5. IsFiniteSet(C) /\ \A e \in C : PriceOf[e] \in Int /\ PriceOf[e] = Price[e.order]
    <3>1. C \in SUBSET entries
      BY <2>1
    <3>2. IsFiniteSet(C) /\ \A e \in C : e \in Entry /\ PriceOf[e] \in Nat
      BY <1>1, <3>1, SumsOfEntries
    <3> QED
      BY <3>2, Amounts
  <2>6. DOMAIN g = C /\ \A e \in C : g[e] = PriceOf[e]
    BY <2>4, <2>5
  <2>7. SumFunction(g) = SumFunctionOnSet(g, C)
    BY <2>6, Zenon DEF SumFunction
  <2>8. SumFunctionOnSet(g, C) = SumFunctionOnSet(PriceOf, C)
    BY <2>5, <2>6, SumSame
  <2>9. Carried(c) = SumFunction(g)
    BY <2>1, <2>4, Zenon DEF Carried
  <2> QED
    BY <2>3, <2>7, <2>8, <2>9, Zenon
<1>5. Owed(c) = SumFunctionOnSet(AmountOf, Unbilled(c)) + SumFunctionOnSet(Debts, InvoicesOf(c))
  BY <1>2, <1>3 DEF Owed
<1> QED
  BY <1>4, <1>5 DEF Worth

\* RN-007: the exposure of a customer is what was bought and is not invoiced, what
\* the invoices still owe, and the orders cancelled after their invoice was paid;
\* unless a credit was lost to a closing or an invoice credited below what was paid.
THEOREM ExposureIsExplained == Spec => []ExposureExplained
<1>1. Init => Explained
  BY ExplainedInitially
<1>2. LedgerInv /\ AccountInv => Solvent
  BY WorthNatural DEF Solvent, LedgerInv, AccountInv
<1>3. LedgerInv /\ AccountInv /\ LedgerInv' /\ Solvent' /\ [Next]_vars /\ Explained
        => Explained'
  BY ExplainedStep
<1>4. Spec => []Explained
  BY <1>1, <1>2, <1>3, LedgerIsInvariant, AccountIsInvariant, PTL DEF Spec
<1>5. LedgerInv /\ AccountInv /\ Explained => ExposureExplained
  BY WorthIsOwed DEF Explained, Accounted, ExposureExplained
<1> QED
  BY <1>4, <1>5, LedgerIsInvariant, AccountIsInvariant, PTL
===============================================================================
