-------------------------------- MODULE Ledger --------------------------------
(***************************************************************************)
(* The account of a customer: orders, billing periods, billing entries,    *)
(* invoices and the exposure counter, under the transactions that the API  *)
(* and the worker run on them concurrently (packages sales and billing).   *)
(*                                                                         *)
(* A slot of Txn is one database session serving one request at a time.    *)
(* PostgreSQL runs it at READ COMMITTED: a read sees what is committed     *)
(* when its statement starts, a row lock is kept until the transaction     *)
(* ends, and nobody sees a write before the commit.  So an action is       *)
(* either one statement that reads or takes a row lock, or the commit,     *)
(* which makes every write of the transaction visible at once.             *)
(***************************************************************************)
EXTENDS Integers, FiniteSets, FiniteSetsExt, RowLocks

CONSTANTS
  Customer,
  Order,        \* checkout attempts; an order is named by its idempotency key
  Owner,        \* Owner[o]: the customer who sends checkout o
  Price,        \* Price[o]: its total in cents
  CreditLimit,  \* CreditLimit[c]: credit_limit_cents
  Operations,   \* the kinds of request that the environment sends
  MaxMonth,     \* bound: competence months
  MaxCycle,     \* bound: cycles of one customer in one month
  MaxAdjust,    \* bound: amount of one manual adjustment
  None          \* SQL NULL

AllOperations == {"checkout", "close_customer", "close_reference", "cancel",
                  "adjust", "select_plan", "pay"}

ASSUME LedgerAssumption ==
  /\ Owner \in [Order -> Customer]
  /\ Price \in [Order -> Nat \ {0}]
  /\ CreditLimit \in [Customer -> Nat]
  /\ Operations \subseteq AllOperations
  /\ MaxMonth \in Nat \ {0} /\ MaxCycle \in Nat \ {0} /\ MaxAdjust \in Nat
  /\ None \notin Customer \cup Order

Month == 1 .. MaxMonth

\* UNIQUE (customer_id, reference_year, reference_month, cycle_number)
PeriodId == [cust : Customer, month : Month, cycle : 1 .. MaxCycle]

\* A row of billing_entries; month is the month of occurred_at.
Entry == [type : {"order", "order_cancellation"}, order : Order,
          period : PeriodId, month : Month]

Amount(e) == IF e.type = "order" THEN Price[e.order] ELSE -Price[e.order]

Subtotal(E) == SumFunction([e \in E |-> Amount(e)])

\* A row of invoices with its payment plan: due is the one instalment of an
\* active plan, credited the orders whose cancellation the invoice took.
Invoice == [items : SUBSET Entry, total : Nat, paid : Nat,
            status : {"open", "partially_paid", "paid"},
            plan : {"pending_selection", "active", "completed"},
            due : Nat, credited : SUBSET Order]

ASSUME NoneRow == None \notin PeriodId \cup Invoice

VARIABLES
  month,      \* the current month in America/Sao_Paulo
  orders,     \* [Order -> status]
  periods,    \* [PeriodId -> status]
  entries,    \* rows of billing_entries
  invoices,   \* [PeriodId -> the invoice of the period, or None]
  exposure,   \* [Customer -> current_exposure_cents]
  tx          \* [Txn -> what the session is doing]

tables == <<orders, periods, entries, invoices, exposure>>
vars == <<month, tables, locks, tx>>

-------------------------------------------------------------------------------
(* The rows that transactions lock.  <<"open_key", c>> is the entry of c in  *)
(* the index billing_periods_one_open_per_customer.                          *)

Row == ({"order"} \X Order) \cup ({"customer", "open_key"} \X Customer)
         \cup ({"period", "invoice", "installment"} \X PeriodId)

Lock == LocksOn(Row)

-------------------------------------------------------------------------------
Idle == [op |-> "idle", pc |-> "idle", cust |-> None, order |-> None,
         period |-> None, next |-> None, items |-> {}, amount |-> 0,
         todo |-> {}, month |-> 1]

Pc == {"idle", "insert_order", "lock_customer", "find_period", "await_period",
       "insert_period", "pick_period", "read_entries", "read_period",
       "insert_credit", "read_invoice", "lock_invoice", "activate_plan",
       "commit", "commit_carry"}

Request(t, op, pc, c) ==
  [Idle EXCEPT !.op = op, !.pc = pc, !.cust = c, !.month = month]

\* End of the request: commit or rollback release every lock of the session.
Finish(t) ==
  /\ tx' = [tx EXCEPT ![t] = Idle]
  /\ locks' = WithoutLocks(t)

\* mutant: the counters are not clipped.
NotClipped(n) == n

\* GREATEST(0, n)
AtLeastZero(n) == IF n < 0 THEN 0 ELSE n

OpenPeriods(c) == {p \in PeriodId : p.cust = c /\ periods[p] = "open"}

EntriesOf(p) == {e \in entries : e.period = p}

\* The period that the 'order' entry of o was written to.
PeriodOf(o) == (CHOOSE e \in entries : e.type = "order" /\ e.order = o).period

NewInvoice(E) == [items |-> E, total |-> Subtotal(E), paid |-> 0,
                  status |-> "open", plan |-> "pending_selection",
                  due |-> 0, credited |-> {}]

Remaining(inv) == AtLeastZero(inv.total - inv.paid)

Init ==
  /\ month = 1
  /\ orders = [o \in Order |-> "none"]
  /\ periods = [p \in PeriodId |-> "none"]
  /\ entries = {}
  /\ invoices = [p \in PeriodId |-> None]
  /\ exposure = [c \in Customer |-> 0]
  /\ locks = {}
  /\ tx = [t \in Txn |-> Idle]

-------------------------------------------------------------------------------
(* Statements shared by several requests.                                   *)

\* UPDATE customers SET current_exposure_cents ...: the row lock it takes.
LockCustomer(t) ==
  LET r == tx[t] IN
  /\ r.pc = "lock_customer"
  /\ CanLock(t, <<"customer", r.cust>>, "X")
  /\ locks' = WithLock(t, <<"customer", r.cust>>, "X")
  /\ tx' = [tx EXCEPT ![t].pc =
              IF r.op = "checkout" THEN "find_period" ELSE "commit"]
  /\ UNCHANGED <<month, tables>>

\* Where a request goes on once it holds, or has inserted, the open period.
WithPeriod(op) == CASE op = "checkout"        -> "commit"
                    [] op = "cancel"          -> "commit_carry"
                    [] op = "close_customer"  -> "read_entries"

\* mutant: the SELECT has no FOR UPDATE.
FindOpenPeriodUnlocked(t, p) ==
  /\ tx[t].pc = "find_period"
  /\ p \in OpenPeriods(tx[t].cust)
  /\ tx' = [tx EXCEPT ![t].period = p, ![t].pc = WithPeriod(tx[t].op)]
  /\ UNCHANGED <<month, tables, locks>>

\* SELECT ... WHERE status = 'open' FOR UPDATE finds an open period: it locks
\* the row, or queues behind the transaction that holds it.
FindOpenPeriod(t, p) ==
  LET free == CanLock(t, <<"period", p>>, "X") IN
  /\ tx[t].pc = "find_period"
  /\ p \in OpenPeriods(tx[t].cust)
  /\ locks' = IF free THEN WithLock(t, <<"period", p>>, "X") ELSE locks
  /\ tx' = [tx EXCEPT ![t].period = p,
                      ![t].pc = IF free THEN WithPeriod(tx[t].op) ELSE "await_period"]
  /\ UNCHANGED <<month, tables>>

\* The same statement finds none: EnsureOpenPeriodTx goes on to insert one
\* (CloseCustomerOpenPeriod fails with ErrNoOpenPeriod, see Abort).
FindNoOpenPeriod(t) ==
  /\ tx[t].pc = "find_period" /\ tx[t].op # "close_customer"
  /\ OpenPeriods(tx[t].cust) = {}
  /\ tx' = [tx EXCEPT ![t].pc = "insert_period"]
  /\ UNCHANGED <<month, tables, locks>>

\* The queued SELECT gets the row and re-evaluates its WHERE on that row alone:
\* a period opened since the statement started stays invisible to it.
AwaitPeriod(t) ==
  LET r == tx[t]
      open == periods[r.period] = "open"
  IN
  /\ r.pc = "await_period"
  /\ CanLock(t, <<"period", r.period>>, "X")
  /\ open \/ r.op # "close_customer"
  /\ locks' = IF open THEN WithLock(t, <<"period", r.period>>, "X") ELSE locks
  /\ tx' = [tx EXCEPT ![t].period = IF open THEN r.period ELSE None,
                      ![t].pc = IF open THEN WithPeriod(r.op) ELSE "insert_period"]
  /\ UNCHANGED <<month, tables>>

\* MAX(cycle_number) + 1 of the customer and the month.
IsNextCycle(p) ==
  LET taken == {n \in 1 .. MaxCycle : periods[[p EXCEPT !.cycle = n]] # "none"}
  IN  (\A n \in taken : n < p.cycle) /\ p.cycle - 1 \in taken \cup {0}

\* The competence of a new period: that of the purchase or of the credit, and
\* for the next cycle of a closing the current month.
Competence(r) == IF r.op = "close_customer" THEN month ELSE r.month

AfterInsert(op) == IF op = "cancel" THEN "commit_carry" ELSE "commit"

\* mutant: no index billing_periods_one_open_per_customer.
InsertPeriodWithoutIndex(t, p) ==
  LET r == tx[t] IN
  /\ r.pc = "insert_period"
  /\ p.cust = r.cust /\ p.month = Competence(r) /\ IsNextCycle(p)
  /\ tx' = [tx EXCEPT ![t].next = p, ![t].pc = AfterInsert(r.op)]
  /\ UNCHANGED <<month, tables, locks>>

\* SELECT MAX(cycle_number) and INSERT of the next open period.  The index
\* billing_periods_one_open_per_customer makes the INSERT wait for another one
\* in flight and fail beside a committed open period, the one that this
\* transaction is closing excepted.
InsertPeriod(t, p) ==
  LET r == tx[t] IN
  /\ r.pc = "insert_period"
  /\ p.cust = r.cust /\ p.month = Competence(r) /\ IsNextCycle(p)
  /\ CanLock(t, <<"open_key", r.cust>>, "X")
  /\ OpenPeriods(r.cust) \subseteq {r.period}
  /\ locks' = WithLock(t, <<"open_key", r.cust>>, "X")
  /\ tx' = [tx EXCEPT ![t].next = p, ![t].pc = AfterInsert(r.op)]
  /\ UNCHANGED <<month, tables>>

\* The periods after the commit of a transaction that may have inserted one.
WithNext(f, r) == IF r.next = None THEN f ELSE [f EXCEPT ![r.next] = "open"]

EntryPeriod(r) == IF r.next = None THEN r.period ELSE r.next

-------------------------------------------------------------------------------
(* Checkout (sales/service.go).  Cart, prices and stock are in the amount    *)
(* of the order and in Abort.                                                *)

\* Before the transaction starts: no order has the key, and the customer row,
\* read without a lock, leaves room for the total under the limit.
CheckoutBegin(t, o) ==
  LET c == Owner[o] IN
  /\ "checkout" \in Operations
  /\ tx[t] = Idle
  /\ orders[o] = "none"
  /\ Price[o] <= AtLeastZero(CreditLimit[c] - exposure[c])
  /\ tx' = [tx EXCEPT ![t] = [Request(t, "checkout", "insert_order", c)
                                EXCEPT !.order = o]]
  /\ UNCHANGED <<month, tables, locks>>

\* INSERT INTO orders: orders_idempotency_key_unique makes it wait for a
\* transaction that has inserted the same key and fail if that one commits.
InsertOrder(t) ==
  LET o == tx[t].order IN
  /\ tx[t].pc = "insert_order"
  /\ CanLock(t, <<"order", o>>, "X")
  /\ orders[o] = "none"
  /\ locks' = WithLock(t, <<"order", o>>, "X")
  /\ tx' = [tx EXCEPT ![t].pc = "lock_customer", ![t].month = month]
  /\ UNCHANGED <<month, tables>>

CommitCheckout(t) ==
  LET r == tx[t] IN
  /\ r.op = "checkout" /\ r.pc = "commit"
  /\ orders' = [orders EXCEPT ![r.order] = "confirmed"]
  /\ exposure' = [exposure EXCEPT ![r.cust] = @ + Price[r.order]]
  /\ periods' = WithNext(periods, r)
  /\ entries' = entries \cup {[type |-> "order", order |-> r.order,
                                period |-> EntryPeriod(r), month |-> r.month]}
  /\ Finish(t)
  /\ UNCHANGED <<month, invoices>>

-------------------------------------------------------------------------------
(* Closing (billing/close.go, billing/cycle.go).                             *)

\* The customer closes the running cycle.
CloseCustomerBegin(t, c) ==
  /\ "close_customer" \in Operations
  /\ tx[t] = Idle
  /\ tx' = [tx EXCEPT ![t] = Request(t, "close_customer", "find_period", c)]
  /\ UNCHANGED <<month, tables, locks>>

\* The worker (on day 1, the month before) or an administrator (any month)
\* lists the open periods of a month, then closes each in a transaction.
CloseReferenceBegin(t, m) ==
  LET listed == {p \in PeriodId : p.month = m /\ periods[p] = "open"} IN
  /\ "close_reference" \in Operations
  /\ tx[t] = Idle
  /\ listed # {}
  /\ tx' = [tx EXCEPT ![t] = [Request(t, "close_reference", "pick_period", None)
                                EXCEPT !.todo = listed]]
  /\ UNCHANGED <<month, tables, locks>>

\* closePeriodTx: SELECT ... FROM billing_periods WHERE id = $1 FOR UPDATE.
PickPeriod(t, p) ==
  /\ tx[t].pc = "pick_period"
  /\ p \in tx[t].todo
  /\ CanLock(t, <<"period", p>>, "X")
  /\ locks' = WithLock(t, <<"period", p>>, "X")
  /\ tx' = [tx EXCEPT ![t].period = p, ![t].pc = "read_entries"]
  /\ UNCHANGED <<month, tables>>

\* No invoice yet, the period still open, and something to bill.
Billable(p) == /\ invoices[p] = None
               /\ periods[p] = "open"
               /\ Subtotal(EntriesOf(p)) \in Nat \ {0}

\* mutant: the closing updates the customer's row while it holds the period.
ReadEntriesLockCustomer(t) ==
  LET r == tx[t] IN
  /\ r.pc = "read_entries"
  /\ Billable(r.period)
  /\ tx' = [tx EXCEPT ![t].items = EntriesOf(r.period), ![t].cust = r.period.cust,
                      ![t].pc = "lock_customer"]
  /\ UNCHANGED <<month, tables, locks>>

ReadEntries(t) ==
  LET r == tx[t] IN
  /\ r.pc = "read_entries"
  /\ Billable(r.period)
  /\ tx' = [tx EXCEPT ![t].items = EntriesOf(r.period),
                      ![t].pc = IF r.op = "close_customer" THEN "insert_period"
                                                           ELSE "commit"]
  /\ UNCHANGED <<month, tables, locks>>

\* The loop goes on with the next period.
NextInLoop(t) ==
  /\ tx' = [tx EXCEPT ![t].todo = @ \ {tx[t].period}, ![t].period = None,
                      ![t].items = {}, ![t].pc = "pick_period"]
  /\ locks' = WithoutLocks(t)

\* The period has its invoice already (returned as it is), or is empty.
SkipPeriod(t) ==
  LET p == tx[t].period IN
  /\ tx[t].op = "close_reference" /\ tx[t].pc = "read_entries"
  /\ invoices[p] # None \/ (periods[p] = "open" /\ Subtotal(EntriesOf(p)) <= 0)
  /\ NextInLoop(t)
  /\ UNCHANGED <<month, tables>>

\* mutant: the period is not marked closed.
CommitCloseLeavesOpen(t) ==
  LET r == tx[t] IN
  /\ r.op \in {"close_customer", "close_reference"} /\ r.pc = "commit"
  /\ invoices' = [invoices EXCEPT ![r.period] = NewInvoice(r.items)]
  /\ IF r.op = "close_customer" THEN Finish(t) ELSE NextInLoop(t)
  /\ UNCHANGED <<month, orders, periods, entries, exposure>>

CommitClose(t) ==
  LET r == tx[t] IN
  /\ r.op \in {"close_customer", "close_reference"} /\ r.pc = "commit"
  /\ invoices' = [invoices EXCEPT ![r.period] = NewInvoice(r.items)]
  /\ periods' = WithNext([periods EXCEPT ![r.period] = "closed"], r)
  /\ IF r.op = "close_customer" THEN Finish(t) ELSE NextInLoop(t)
  /\ UNCHANGED <<month, orders, entries, exposure>>

CloseReferenceEnd(t) ==
  /\ tx[t].pc = "pick_period" /\ tx[t].todo = {}
  /\ Finish(t)
  /\ UNCHANGED <<month, tables>>

-------------------------------------------------------------------------------
(* Cancellation by an administrator (sales/admin_orders.go,                  *)
(* billing/order_cancel_billing.go).                                         *)

\* mutant: the order is read without FOR UPDATE.
CancelBeginUnlocked(t, o) ==
  /\ "cancel" \in Operations
  /\ tx[t] = Idle
  /\ orders[o] = "confirmed"
  /\ tx' = [tx EXCEPT ![t] = [Request(t, "cancel", "read_period", Owner[o])
                                EXCEPT !.order = o, !.amount = -Price[o]]]
  /\ UNCHANGED <<month, tables, locks>>

\* SELECT ... FROM orders WHERE id = $1 FOR UPDATE, status confirmed.
CancelBegin(t, o) ==
  /\ "cancel" \in Operations
  /\ tx[t] = Idle
  /\ CanLock(t, <<"order", o>>, "X")
  /\ orders[o] = "confirmed"
  /\ locks' = WithLock(t, <<"order", o>>, "X")
  /\ tx' = [tx EXCEPT ![t] = [Request(t, "cancel", "read_period", Owner[o])
                                EXCEPT !.order = o, !.amount = -Price[o]]]
  /\ UNCHANGED <<month, tables>>

\* The period of the order and its status are read without a lock.
ReadPeriod(t) ==
  LET p == PeriodOf(tx[t].order) IN
  /\ tx[t].pc = "read_period"
  /\ tx' = [tx EXCEPT ![t].period = p,
                      ![t].pc = IF periods[p] = "open" THEN "insert_credit"
                                                       ELSE "read_invoice"]
  /\ UNCHANGED <<month, tables, locks>>

\* Seen open: the credit goes to that period.  The foreign key of the entry
\* waits for a transaction that is closing the period, and then goes ahead.
InsertCredit(t) ==
  LET p == tx[t].period IN
  /\ tx[t].pc = "insert_credit"
  /\ CanLock(t, <<"period", p>>, "S")
  /\ locks' = WithLock(t, <<"period", p>>, "S")
  /\ tx' = [tx EXCEPT ![t].pc = "lock_customer"]
  /\ UNCHANGED <<month, tables>>

\* Seen closed: a paid invoice sends the credit to the open period, any other
\* takes it as an adjustment.  The status is read without a lock.
ReadInvoice(t) ==
  LET r == tx[t]
      paid == invoices[r.period].status = "paid"
  IN
  /\ r.pc = "read_invoice"
  /\ tx' = [tx EXCEPT ![t].pc = IF paid THEN "find_period" ELSE "lock_invoice",
                      ![t].period = IF paid THEN None ELSE r.period]
  /\ UNCHANGED <<month, tables, locks>>

CreditEntry(r) == [type |-> "order_cancellation", order |-> r.order,
                   period |-> EntryPeriod(r), month |-> r.month]

\* The period was open when it was read: r.period holds the credit, the
\* exposure goes down by the order.
CommitCancel(t) ==
  LET r == tx[t] IN
  /\ r.op = "cancel" /\ r.pc = "commit" /\ Holds(t, <<"period", r.period>>, "S")
  /\ orders' = [orders EXCEPT ![r.order] = "cancelled"]
  /\ entries' = entries \cup {CreditEntry(r)}
  /\ exposure' = [exposure EXCEPT ![r.cust] = AtLeastZero(@ + r.amount)]
  /\ Finish(t)
  /\ UNCHANGED <<month, periods, invoices>>

\* The invoice was paid: the credit is carried to the open period and the
\* exposure stays as it is.
CommitCarry(t) ==
  LET r == tx[t] IN
  /\ r.pc = "commit_carry"
  /\ orders' = [orders EXCEPT ![r.order] = "cancelled"]
  /\ entries' = entries \cup {CreditEntry(r)}
  /\ periods' = WithNext(periods, r)
  /\ Finish(t)
  /\ UNCHANGED <<month, invoices, exposure>>

-------------------------------------------------------------------------------
(* Adjustments of an invoice (billing/adjustment.go and                      *)
(* billing/invoice_credit_tx.go, which a cancellation shares).               *)

AdjustBegin(t, p, n) ==
  /\ "adjust" \in Operations
  /\ tx[t] = Idle
  /\ invoices[p] # None
  /\ tx' = [tx EXCEPT ![t] = [Request(t, "adjust", "lock_invoice", p.cust)
                                EXCEPT !.period = p, !.amount = n]]
  /\ UNCHANGED <<month, tables, locks>>

\* Bound: manual adjustments keep the total within the orders of the model.
WithinBound(r, total) ==
  r.op = "adjust" => total <= MaxAdjust + Subtotal(invoices[r.period].items)

\* mutant: an invoice that is paid already can be adjusted.
LockInvoicePaidToo(t) ==
  LET r == tx[t]
      inv == invoices[r.period]
      newTotal == inv.total + r.amount
  IN
  /\ r.pc = "lock_invoice"
  /\ CanLock(t, <<"invoice", r.period>>, "X")
  /\ r.op # "pay" => newTotal >= 0 /\ WithinBound(r, newTotal)
  /\ locks' = WithLock(t, <<"invoice", r.period>>, "X")
  /\ tx' = [tx EXCEPT ![t].pc = "lock_customer"]
  /\ UNCHANGED <<month, tables>>

\* SELECT ... FROM invoices FOR UPDATE and the checks under the lock.
LockInvoice(t) ==
  LET r == tx[t]
      inv == invoices[r.period]
      newTotal == inv.total + r.amount
  IN
  /\ r.pc = "lock_invoice"
  /\ CanLock(t, <<"invoice", r.period>>, "X")
  /\ r.op # "pay" => /\ inv.status # "paid"
                     /\ newTotal >= 0 /\ newTotal >= inv.paid
                     /\ WithinBound(r, newTotal)
  /\ locks' = WithLock(t, <<"invoice", r.period>>, "X")
  /\ tx' = [tx EXCEPT ![t].pc = "lock_customer"]
  /\ UNCHANGED <<month, tables>>

\* invoiceStatusAfterAdjustment
Adjusted(inv, r) ==
  LET newTotal == inv.total + r.amount IN
  [inv EXCEPT !.total = newTotal,
              !.status = IF newTotal <= inv.paid THEN "paid" ELSE @,
              !.credited = IF r.op = "cancel" THEN @ \cup {r.order} ELSE @]

CommitAdjust(t) ==
  LET r == tx[t] IN
  /\ r.op \in {"adjust", "cancel"} /\ r.pc = "commit"
  /\ Holds(t, <<"invoice", r.period>>, "X")
  /\ invoices' = [invoices EXCEPT ![r.period] = Adjusted(@, r)]
  /\ exposure' = [exposure EXCEPT ![r.cust] = AtLeastZero(@ + r.amount)]
  /\ orders' = IF r.op = "cancel" THEN [orders EXCEPT ![r.order] = "cancelled"]
                                  ELSE orders
  /\ Finish(t)
  /\ UNCHANGED <<month, periods, entries>>

-------------------------------------------------------------------------------
(* Payment of an invoice in one instalment (billing/payment_plan.go,         *)
(* payments/service.go).                                                     *)

\* SelectPaymentPlan reads the invoice before its transaction starts.
SelectPlanBegin(t, p) ==
  /\ "select_plan" \in Operations
  /\ tx[t] = Idle
  /\ invoices[p] # None
  /\ Remaining(invoices[p]) > 0
  /\ tx' = [tx EXCEPT ![t] = [Request(t, "select_plan", "activate_plan", p.cust)
                                EXCEPT !.period = p,
                                       !.amount = Remaining(invoices[p])]]
  /\ UNCHANGED <<month, tables, locks>>

\* The transaction: plan still to be selected, instalments inserted; their
\* foreign key waits for whoever has the invoice.
ActivatePlan(t) ==
  LET r == tx[t] IN
  /\ r.pc = "activate_plan"
  /\ CanLock(t, <<"invoice", r.period>>, "S")
  /\ invoices[r.period].plan = "pending_selection"
  /\ invoices' = [invoices EXCEPT ![r.period].plan = "active",
                                  ![r.period].due = r.amount]
  /\ Finish(t)
  /\ UNCHANGED <<month, orders, periods, entries, exposure>>

\* ApplyInstallmentPaymentTx: SELECT ... FROM invoice_installments FOR UPDATE,
\* not paid yet.  (What the webhook locks before it belongs to the payments.)
PayBegin(t, p) ==
  /\ "pay" \in Operations
  /\ tx[t] = Idle
  /\ invoices[p] # None
  /\ invoices[p].plan = "active"
  /\ CanLock(t, <<"installment", p>>, "X")
  /\ locks' = WithLock(t, <<"installment", p>>, "X")
  /\ tx' = [tx EXCEPT ![t] = [Request(t, "pay", "lock_invoice", p.cust)
                                EXCEPT !.period = p, !.amount = -invoices[p].due]]
  /\ UNCHANGED <<month, tables>>

Paid(inv) ==
  LET newPaid == inv.paid + inv.due IN
  [inv EXCEPT !.paid = newPaid, !.plan = "completed",
              !.status = IF newPaid >= inv.total THEN "paid" ELSE "partially_paid"]

\* mutant: a payment does not give the limit back.
CommitPayKeepsExposure(t) ==
  LET r == tx[t] IN
  /\ r.op = "pay" /\ r.pc = "commit"
  /\ invoices' = [invoices EXCEPT ![r.period] = Paid(@)]
  /\ Finish(t)
  /\ UNCHANGED <<month, orders, periods, entries, exposure>>

CommitPay(t) ==
  LET r == tx[t] IN
  /\ r.op = "pay" /\ r.pc = "commit"
  /\ invoices' = [invoices EXCEPT ![r.period] = Paid(@)]
  /\ exposure' = [exposure EXCEPT ![r.cust] = AtLeastZero(@ + r.amount)]
  /\ Finish(t)
  /\ UNCHANGED <<month, orders, periods, entries>>

-------------------------------------------------------------------------------
\* An error return, a lost connection, the victim of a deadlock, a crash of
\* the process: the transaction rolls back.  Periods that the loop of
\* CloseOpenPeriodsForReference has already closed stay closed.
Abort(t) ==
  /\ tx[t] # Idle
  /\ Finish(t)
  /\ UNCHANGED <<month, tables>>

\* Midnight of the first day of a month.
NextMonth ==
  /\ month < MaxMonth
  /\ month' = month + 1
  /\ UNCHANGED <<tables, locks, tx>>

Adjustments == (-MaxAdjust .. MaxAdjust) \ {0}

CheckoutStep(t) == \/ \E o \in Order : CheckoutBegin(t, o)
                   \/ InsertOrder(t)
                   \/ CommitCheckout(t)

CloseStep(t) == \/ \E c \in Customer : CloseCustomerBegin(t, c)
                \/ \E m \in Month : CloseReferenceBegin(t, m)
                \/ \E p \in PeriodId : PickPeriod(t, p)
                \/ ReadEntries(t)
                \/ SkipPeriod(t)
                \/ CommitClose(t)
                \/ CloseReferenceEnd(t)

CancelStep(t) == \/ \E o \in Order : CancelBegin(t, o)
                 \/ ReadPeriod(t)
                 \/ InsertCredit(t)
                 \/ ReadInvoice(t)
                 \/ CommitCancel(t)
                 \/ CommitCarry(t)

InvoiceStep(t) == \/ \E p \in PeriodId, n \in Adjustments : AdjustBegin(t, p, n)
                  \/ LockInvoice(t)
                  \/ CommitAdjust(t)
                  \/ \E p \in PeriodId : SelectPlanBegin(t, p) \/ PayBegin(t, p)
                  \/ ActivatePlan(t)
                  \/ CommitPay(t)

SharedStep(t) == \/ LockCustomer(t)
                 \/ \E p \in PeriodId : FindOpenPeriod(t, p)
                 \/ FindNoOpenPeriod(t)
                 \/ AwaitPeriod(t)
                 \/ \E p \in PeriodId : InsertPeriod(t, p)
                 \/ Abort(t)

Next ==
  \/ NextMonth
  \/ \E t \in Txn : \/ CheckoutStep(t) \/ CloseStep(t) \/ CancelStep(t)
                     \/ InvoiceStep(t) \/ SharedStep(t)

Spec == Init /\ [][Next]_vars

-------------------------------------------------------------------------------
(* Types.                                                                    *)

TxState == [op : AllOperations \cup {"idle"}, pc : Pc,
            cust : Customer \cup {None}, order : Order \cup {None},
            period : PeriodId \cup {None}, next : PeriodId \cup {None},
            items : SUBSET Entry, amount : Int, todo : SUBSET PeriodId,
            month : Month]

\* Every table and every session has the columns and the values of its type;
\* totals, payments and the exposure never go below zero.
TypeOK ==
  /\ month \in Month
  /\ orders \in [Order -> {"none", "confirmed", "cancelled"}]
  /\ periods \in [PeriodId -> {"none", "open", "closed"}]
  /\ entries \subseteq Entry
  /\ invoices \in [PeriodId -> Invoice \cup {None}]
  /\ exposure \in [Customer -> Nat]
  /\ locks \subseteq Lock
  /\ tx \in [Txn -> TxState]

-------------------------------------------------------------------------------
(* Properties.                                                               *)

\* Two cycles of a customer are never open at once, whatever checkouts,
\* cancellations and closings insert periods concurrently
\* (EnsureOpenPeriodTx, OpenNextCycleTx).
OneOpenPeriod ==
  \A p, q \in PeriodId : p.cust = q.cust /\ periods[p] = "open" /\ periods[q] = "open"
                           => p = q

\* A period is closed exactly when its invoice exists: no closing loses the
\* invoice, and none is issued for a period that still takes purchases.
ClosedIffInvoiced ==
  \A p \in PeriodId : periods[p] = "closed" <=> invoices[p] # None

\* No purchase slips past a closing: every 'order' entry of a closed period is
\* an item of its invoice, even when the checkout and the closing overlap.
PurchasesInvoiced ==
  \A e \in entries : e.type = "order" /\ periods[e.period] = "closed"
                        => e \in invoices[e.period].items

CreditsOf(o) == {e \in entries : e.type = "order_cancellation" /\ e.order = o}

CreditedInvoices(o) ==
  {p \in PeriodId : invoices[p] # None /\ o \in invoices[p].credited}

\* An order is charged to one period when it is confirmed, and credited in one
\* place - an entry or an invoice - when it is cancelled and never before.
ChargedAndCreditedOnce ==
  \A o \in Order :
    /\ Cardinality({e \in entries : e.type = "order" /\ e.order = o})
          = IF orders[o] = "none" THEN 0 ELSE 1
    /\ Cardinality(CreditsOf(o)) + Cardinality(CreditedInvoices(o))
          = IF orders[o] = "cancelled" THEN 1 ELSE 0

InvoiceKept(p) ==
  invoices[p] # None =>
    /\ invoices'[p] # None
    /\ invoices'[p].items = invoices[p].items
    /\ invoices'[p].paid >= invoices[p].paid
    /\ invoices[p].status = "paid" => /\ invoices'[p].total = invoices[p].total
                                      /\ invoices'[p].status = "paid"

InvoicesKept == \A p \in PeriodId : InvoiceKept(p)

\* Closing again, late payments and adjustments never rewrite what was billed:
\* an invoice keeps its items, what was paid on it stays paid, and a paid
\* invoice keeps its total and its status.
InvoiceFrozen == [][InvoicesKept]_vars

InvoicesOf(c) == {p \in PeriodId : p.cust = c /\ invoices[p] # None}

\* RN-007: purchases not invoiced, credits included, and what invoices still owe.
Owed(c) ==
  Subtotal({e \in entries : e.period.cust = c /\ periods[e.period] = "open"})
    + SumFunction([p \in InvoicesOf(c) |-> invoices[p].total - invoices[p].paid])

\* Orders cancelled after their invoice was paid.
Carried(c) ==
  LET credits == {e \in entries : /\ e.type = "order_cancellation" /\ Owner[e.order] = c
                                  /\ e.period # PeriodOf(e.order)}
  IN  SumFunction([e \in credits |-> Price[e.order]])

\* Credits written to a period after its invoice was drawn up.
LostCredits == {e \in entries : /\ e.type = "order_cancellation"
                                /\ periods[e.period] = "closed"
                                /\ e \notin invoices[e.period].items}

Overpaid(p) == invoices[p].paid > invoices[p].total

\* Where the exposure counter can leave RN-007: it is what the customer owes,
\* plus the orders cancelled after payment, as long as no credit was lost to a
\* closing and no invoice was credited below what had been asked for it.
ExposureExplained ==
  \A c \in Customer :
    (\A e \in LostCredits : e.period.cust # c) /\ (\A p \in InvoicesOf(c) : ~Overpaid(p))
      => exposure[c] = Owed(c) + Carried(c)

\* The row that the next statement of t waits for, and the lock it takes.
Wants(t) ==
  LET r == tx[t] IN
  CASE r.pc = "insert_order"  -> {<<<<"order", r.order>>, "X">>}
    [] r.pc = "lock_customer" -> {<<<<"customer", r.cust>>, "X">>}
    [] r.pc = "await_period"  -> {<<<<"period", r.period>>, "X">>}
    [] r.pc = "insert_period" -> {<<<<"open_key", r.cust>>, "X">>}
    [] r.pc = "pick_period"   -> {<<<<"period", p>>, "X">> : p \in r.todo}
    [] r.pc = "insert_credit" -> {<<<<"period", r.period>>, "S">>}
    [] r.pc = "lock_invoice"  -> {<<<<"invoice", r.period>>, "X">>}
    [] r.pc = "activate_plan" -> {<<<<"invoice", r.period>>, "S">>}
    [] OTHER -> {}

WaitsFor(t, u) ==
  \E w \in Wants(t), l \in locks :
    l.row = w[1] /\ l.tx = u /\ u # t /\ "X" \in {l.mode, w[2]}

Deadlocked(S) == S # {} /\ \A t \in S : \E u \in S : WaitsFor(t, u)

\* Checkouts, closings, manual adjustments and plan selections take the rows of
\* the ledger in compatible orders: a cycle of waits over these rows always has a
\* cancellation or a payment in it.
CompatibleLockOrders ==
  \A S \in SUBSET Txn :
    Deadlocked(S) => \E t \in S : tx[t].op \in {"cancel", "pay"}

\* RF-VEN-004, RN-005: no purchase takes the customer over the approved limit.
WithinLimit == \A c \in Customer : exposure[c] <= CreditLimit[c]

\* RF-VEN-017, RN-015: a cancellation is either credited on an invoice or
\* waits in a period that is still to be invoiced.
NoLostCredit == LostCredits = {}

-------------------------------------------------------------------------------
(* Why the safety properties hold: what the locks of a session guarantee      *)
(* while its transaction is in flight (LedgerProofs proves it inductive).     *)

PcOf == [idle            |-> {"idle"},
         checkout        |-> {"insert_order", "lock_customer", "find_period",
                              "await_period", "insert_period", "commit"},
         close_customer  |-> {"find_period", "await_period", "read_entries",
                              "insert_period", "commit"},
         close_reference |-> {"pick_period", "read_entries", "commit"},
         cancel          |-> {"read_period", "insert_credit", "read_invoice",
                              "find_period", "await_period", "insert_period",
                              "lock_invoice", "lock_customer", "commit",
                              "commit_carry"},
         adjust          |-> {"lock_invoice", "lock_customer", "commit"},
         select_plan     |-> {"activate_plan"},
         pay             |-> {"lock_invoice", "lock_customer", "commit"}]

\* Each request is at one of its own statements and knows what that one uses.
Control(t) ==
  LET r == tx[t] IN
  /\ r.pc \in PcOf[r.op]
  /\ r.op \notin {"idle", "close_reference"} => r.cust \in Customer
  /\ r.op \in {"checkout", "cancel"} => r.order \in Order
  /\ r.pc \in {"await_period", "read_entries", "insert_credit", "read_invoice",
               "lock_invoice", "activate_plan"} => r.period # None
  /\ r.op # "checkout" /\ r.pc \in {"lock_customer", "commit"} => r.period # None
  /\ r.op = "checkout" /\ r.pc \in {"insert_order", "lock_customer"}
       => r.period = None
  /\ r.op # "close_customer" /\ r.pc \in {"find_period", "insert_period"}
       => r.period = None
  /\ r.op # "close_customer" /\ r.next # None => r.period = None
  /\ r.next # None => r.pc \in {"commit", "commit_carry"}
  /\ r.op = "select_plan" => r.amount \in Nat

\* A purchase, or a credit carried over, goes to a period that is locked and
\* open, or to one that the transaction inserts.
PeriodHeld(t) ==
  LET r == tx[t]
      charges == r.pc = "commit_carry" \/ (r.op = "checkout" /\ r.pc = "commit")
  IN
  charges /\ r.next = None => /\ r.period # None
                              /\ Holds(t, <<"period", r.period>>, "X")
                              /\ periods[r.period] = "open"

\* A session that inserts a period is the only one to do so for the customer.
NextHeld(t) ==
  LET r == tx[t] IN
  r.next # None => /\ Holds(t, <<"open_key", r.cust>>, "X")
                   /\ r.next.cust = r.cust
                   /\ periods[r.next] = "none"
                   /\ OpenPeriods(r.cust) \subseteq {r.period}

Closing(t) == tx[t].op \in {"close_customer", "close_reference"}
                /\ tx[t].pc \in {"insert_period", "commit"}

\* From the entries it has read to its commit, a closing keeps its period as
\* it is: open, without invoice, and with those entries.
ClosingHeld(t) ==
  LET r == tx[t] IN
  /\ r.pc = "read_entries" \/ Closing(t)
       => r.period # None /\ Holds(t, <<"period", r.period>>, "X")
  /\ Closing(t) => /\ invoices[r.period] = None
                   /\ periods[r.period] = "open"
                   /\ r.items = EntriesOf(r.period)
                   /\ Subtotal(r.items) \in Nat

\* What a request has seen without a lock, and what of it stays true.
SeenExists(t) ==
  LET r == tx[t] IN
  /\ r.op = "cancel" => orders[r.order] # "none"
  /\ r.op = "cancel" /\ r.pc \in {"insert_credit", "lock_customer", "commit"}
       => periods[r.period] # "none"
  /\ r.pc \in {"read_invoice", "lock_invoice", "activate_plan"}
       => invoices[r.period] # None

\* The checks made under the invoice's lock hold until the commit.
InvoiceHeld(t) ==
  LET r == tx[t] IN
  /\ \A p \in PeriodId : Holds(t, <<"invoice", p>>, "X") =>
       /\ r.op \in {"adjust", "cancel", "pay"}
       /\ r.pc \in {"lock_customer", "commit"}
       /\ r.period = p
       /\ invoices[p] # None
       /\ r.op # "pay" => /\ invoices[p].status # "paid"
                          /\ invoices[p].total + r.amount >= 0
                          /\ invoices[p].total + r.amount >= invoices[p].paid
  /\ r.op \in {"adjust", "pay"} /\ r.pc \in {"lock_customer", "commit"}
       => Holds(t, <<"invoice", r.period>>, "X")

SessionOK(t) == /\ Control(t) /\ PeriodHeld(t) /\ NextHeld(t)
                /\ ClosingHeld(t) /\ SeenExists(t) /\ InvoiceHeld(t)

\* Entries name periods that exist, and the orders confirmed have theirs.
EntriesExist == \A e \in entries : periods[e.period] # "none"

OrdersCharged ==
  \A o \in Order : orders[o] # "none" =>
    \E e \in entries : e.type = "order" /\ e.order = o

PaidCovered ==
  \A p \in PeriodId : invoices[p] # None /\ invoices[p].status = "paid"
                        => invoices[p].total <= invoices[p].paid

LedgerInv == /\ TypeOK /\ MutexOK
             /\ \A t \in Txn : SessionOK(t)
             /\ EntriesExist /\ OrdersCharged /\ PaidCovered
             /\ OneOpenPeriod /\ ClosedIffInvoiced /\ PurchasesInvoiced
===============================================================================
