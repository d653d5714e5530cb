---------------------------------- MODULE Pix ----------------------------------
(***************************************************************************)
(* The payment of one invoice: its plan, the instalments, the Pix charges  *)
(* and the events of the payment gateway, under concurrent requests, late  *)
(* and repeated events, overdue marking, adjustments and resets (packages  *)
(* billing and payments).                                                  *)
(*                                                                         *)
(* As in Ledger, an action is a statement that reads or takes row locks,   *)
(* or a commit.  The statements of a request that is not a transaction     *)
(* commit one by one.  The exposure of the customer belongs to Ledger.     *)
(***************************************************************************)
EXTENDS Integers, Sequences, FiniteSets, FiniteSetsExt, RowLocks

CONSTANTS
  Charge,         \* charges that can be created
  Event,          \* identifiers of gateway events
  InvoiceTotal,   \* total_cents of the invoice when it is drawn up
  MinInstallment, \* minimum_installment_amount_cents
  MaxInstallment, \* maximum_installments
  AllowInstallmentAfterDueDate, \* the policy of that name
  Operations,     \* the kinds of request that the environment sends
  MaxPlan,        \* bound: how often a plan is selected
  MaxDay,         \* bound: days
  Adjustments,    \* signed amounts of the manual adjustments
  MaxTotal,       \* bound: total_cents after an adjustment
  None            \* SQL NULL

AllOperations == {"select", "reset", "create", "create_for_invoice", "webhook",
                  "overdue", "adjust"}

ASSUME PixAssumption ==
  /\ InvoiceTotal \in Nat \ {0} /\ MinInstallment \in Nat \ {0}
  /\ MaxInstallment \in Nat \ {0} /\ AllowInstallmentAfterDueDate \in BOOLEAN
  /\ MaxPlan \in Nat /\ MaxDay \in Nat \ {0}
  /\ Adjustments \subseteq Int \ {0} /\ MaxTotal \in Nat
  /\ Operations \subseteq AllOperations
  /\ None \notin Charge \cup Event

Number == 1 .. MaxInstallment

\* A row of invoice_installments: the plan-th selection, its number.
InstId == [plan : 1 .. MaxPlan, number : Number]

InstStatus == {"scheduled", "open", "pix_active", "paid", "overdue"}

Inst == [amount : Nat, status : InstStatus]

\* A row of payment_charges; live while expires_at has not gone by.
ChargeRow == [inst : InstId \cup {None}, amount : Nat, live : BOOLEAN,
              status : {"pending", "expired", "paid"}]

ASSUME NoneRow == None \notin InstId \cup Inst \cup ChargeRow

VARIABLES
  day,        \* instalment n is due on day n
  invoice,    \* total, paid, status and due day
  plan,       \* status of the payment plan
  selections, \* how often a plan has been selected
  insts,      \* [InstId -> row of invoice_installments, or None]
  charges,    \* [Charge -> row of payment_charges, or None]
  payments,   \* rows of payments, named by the event that made them
  events,     \* rows of payment_events
  settled,    \* charges that the customer has paid at the gateway
  tx          \* [Txn -> what the session is doing]

tables == <<invoice, plan, selections, insts, charges, payments, events>>
vars == <<day, settled, tables, locks, tx>>

-------------------------------------------------------------------------------
Row == ({"plan", "invoice"} \X {None}) \cup ({"inst"} \X InstId)
         \cup ({"charge"} \X Charge) \cup ({"event"} \X Event)

Idle == [op |-> "idle", pc |-> "idle", inst |-> None, charge |-> None,
         event |-> None, amount |-> 0, count |-> 0]

Pc == {"idle", "lock_plan", "look_up", "insert_charge", "mark_active",
       "lock_charge", "insert_payment", "lock_inst", "lock_invoice",
       "mark_invoice", "mark_by_date", "commit"}

Request(op, pc) == [Idle EXCEPT !.op = op, !.pc = pc]

Finish(t) ==
  /\ tx' = [tx EXCEPT ![t] = Idle]
  /\ locks' = WithoutLocks(t)

\* Invoice.RemainingCents
Remaining(inv) == IF inv.total > inv.paid THEN inv.total - inv.paid ELSE 0

\* The rows of the plan that is selected now.
Rows == {i \in InstId : insts[i] # None}

\* remaining_cents of an instalment, which is paid at once or not at all
Left(row) == IF row.status = "paid" THEN 0 ELSE row.amount

\* MaxInstallments
MaxCount(total) ==
  LET byMin == total \div MinInstallment
  IN  IF byMin < 1 THEN 1 ELSE Min({byMin, MaxInstallment})

\* DistributeInstallmentAmounts: the cents left over go to the last parts.
Distribute(total, count) ==
  [n \in 1 .. count |-> (total \div count)
                          + IF n > count - (total % count) THEN 1 ELSE 0]

Init ==
  /\ day = 1
  /\ invoice = [total |-> InvoiceTotal, paid |-> 0, status |-> "open", due |-> 1]
  /\ plan = "pending_selection" /\ selections = 0
  /\ insts = [i \in InstId |-> None]
  /\ charges = [c \in Charge |-> None]
  /\ payments = {} /\ events = {} /\ settled = {}
  /\ locks = {}
  /\ tx = [t \in Txn |-> Idle]

-------------------------------------------------------------------------------
(* Selection and reset of the plan (billing/payment_plan.go).                *)

\* The amount to divide is read before the transaction.
SelectBegin(t, n) ==
  /\ "select" \in Operations
  /\ tx[t] = Idle
  /\ Remaining(invoice) > 0
  /\ selections < MaxPlan
  /\ tx' = [tx EXCEPT ![t] = [Request("select", "lock_plan") EXCEPT
                                !.amount = Remaining(invoice), !.count = n]]
  /\ UNCHANGED <<day, settled, tables, locks>>

\* SELECT ... FROM invoice_payment_plans FOR UPDATE and the checks under the
\* lock; a payment takes the same lock when it updates the plan.
LockPlan(t) ==
  LET r == tx[t] IN
  /\ r.pc = "lock_plan"
  /\ CanLock(t, <<"plan", None>>, "X")
  /\ r.op = "select" => /\ plan = "pending_selection"
                        /\ r.count <= MaxCount(r.amount)
                        /\ r.count > 1 => AllowInstallmentAfterDueDate \/ day <= invoice.due
                        /\ selections < MaxPlan
  /\ locks' = WithLock(t, <<"plan", None>>, "X")
  /\ tx' = [tx EXCEPT ![t].pc = IF r.op = "webhook" THEN "lock_invoice" ELSE "commit"]
  /\ UNCHANGED <<day, settled, tables>>

CommitSelect(t) ==
  LET r == tx[t]
      amounts == Distribute(r.amount, r.count)
      chosen(i) == i.plan = selections + 1 /\ i.number <= r.count
      status(n) == IF n = 1 THEN "open" ELSE "scheduled"
  IN
  /\ r.op = "select" /\ r.pc = "commit"
  /\ CanLock(t, <<"invoice", None>>, "S")
  /\ plan' = "active" /\ selections' = selections + 1
  /\ insts' = [i \in InstId |->
                 IF chosen(i) THEN [amount |-> amounts[i.number],
                                    status |-> status(i.number)]
                              ELSE insts[i]]
  /\ Finish(t)
  /\ UNCHANGED <<day, settled, invoice, charges, payments, events>>

\* The plan is locked, and no instalment is paid yet.
ResetBegin(t) ==
  /\ "reset" \in Operations
  /\ tx[t] = Idle
  /\ CanLock(t, <<"plan", None>>, "X")
  /\ \A i \in Rows : insts[i].status # "paid"
  /\ locks' = WithLock(t, <<"plan", None>>, "X")
  /\ tx' = [tx EXCEPT ![t] = Request("reset", "commit")]
  /\ UNCHANGED <<day, settled, tables>>

\* The instalments are deleted: the foreign key of payment_charges makes that
\* fail when a charge was ever made for one of them.
CommitReset(t) ==
  /\ tx[t].op = "reset" /\ tx[t].pc = "commit"
  /\ \A i \in Rows : CanLock(t, <<"inst", i>>, "X")
  /\ \A c \in Charge : charges[c] # None => charges[c].inst \notin Rows
  /\ plan' = "pending_selection"
  /\ insts' = [i \in InstId |-> None]
  /\ Finish(t)
  /\ UNCHANGED <<day, settled, invoice, selections, charges, payments, events>>

-------------------------------------------------------------------------------
(* Charges (payments/service.go): no transaction, each statement on its own.  *)

\* GetInstallmentForCustomer and ValidateInstallmentForPix: the instalment is
\* open and the one before it is paid.
CreateBegin(t, i) ==
  /\ "create" \in Operations
  /\ tx[t] = Idle
  /\ i \in Rows
  /\ insts[i].status = "open"
  /\ i.number > 1 => insts[[i EXCEPT !.number = @ - 1]].status = "paid"
  /\ tx' = [tx EXCEPT ![t] = [Request("create", "look_up") EXCEPT
                                !.inst = i, !.amount = Left(insts[i])]]
  /\ UNCHANGED <<day, settled, tables, locks>>

\* CreateOrReusePixCharge: for the whole invoice, once its plan is completed.
CreateForInvoiceBegin(t) ==
  /\ "create_for_invoice" \in Operations
  /\ tx[t] = Idle
  /\ plan = "completed"
  /\ Remaining(invoice) > 0
  /\ tx' = [tx EXCEPT ![t] = [Request("create_for_invoice", "look_up") EXCEPT
                                !.amount = Remaining(invoice)]]
  /\ UNCHANGED <<day, settled, tables, locks>>

\* Charges that can be handed out again: pending, not past expires_at.
Reusable(i) == {c \in Charge : /\ charges[c] # None /\ charges[c].inst = i
                               /\ charges[c].status = "pending" /\ charges[c].live}

\* The invoice has something left to pay; a charge that is found is returned,
\* and only when there is none does the gateway make another.
LookUp(t) ==
  LET r == tx[t] IN
  /\ r.pc = "look_up"
  /\ r.inst # None => Remaining(invoice) > 0
  /\ tx' = [tx EXCEPT ![t] = IF Reusable(r.inst) # {} THEN Idle
                             ELSE [r EXCEPT !.pc = "insert_charge"]]
  /\ UNCHANGED <<day, settled, tables, locks>>

\* mutant: payment_charges without the foreign key to the instalment.
InsertChargeNoKey(t, c) ==
  LET r == tx[t] IN
  /\ r.pc = "insert_charge"
  /\ charges[c] = None
  /\ CanLock(t, <<"invoice", None>>, "S")
  /\ charges' = [charges EXCEPT ![c] = [inst |-> r.inst, amount |-> r.amount,
                                        status |-> "pending", live |-> TRUE]]
  /\ tx' = [tx EXCEPT ![t] = IF r.inst = None THEN Idle
                                              ELSE [@ EXCEPT !.pc = "mark_active"]]
  /\ UNCHANGED <<day, settled, invoice, plan, selections, insts, payments, events, locks>>

\* INSERT INTO payment_charges, after the answer of the gateway; the foreign
\* keys wait for, and require, the invoice and the instalment.
InsertCharge(t, c) ==
  LET r == tx[t] IN
  /\ r.pc = "insert_charge"
  /\ charges[c] = None
  /\ CanLock(t, <<"invoice", None>>, "S")
  /\ r.inst # None => insts[r.inst] # None /\ CanLock(t, <<"inst", r.inst>>, "S")
  /\ charges' = [charges EXCEPT ![c] = [inst |-> r.inst, amount |-> r.amount,
                                        status |-> "pending", live |-> TRUE]]
  /\ tx' = [tx EXCEPT ![t] = IF r.inst = None THEN Idle
                                              ELSE [@ EXCEPT !.pc = "mark_active"]]
  /\ UNCHANGED <<day, settled, invoice, plan, selections, insts, payments, events, locks>>

\* mutant: the UPDATE has no condition on the status.
MarkActiveAlways(t) ==
  LET i == tx[t].inst IN
  /\ tx[t].pc = "mark_active"
  /\ CanLock(t, <<"inst", i>>, "X")
  /\ insts' = [insts EXCEPT ![i].status = "pix_active"]
  /\ tx' = [tx EXCEPT ![t] = Idle]
  /\ UNCHANGED <<day, settled, invoice, plan, selections, charges, payments, events, locks>>

\* UPDATE invoice_installments ... WHERE status = 'open'; its error is ignored.
MarkActive(t) ==
  LET i == tx[t].inst IN
  /\ tx[t].pc = "mark_active"
  /\ CanLock(t, <<"inst", i>>, "X")
  /\ insts' = IF insts[i].status = "open" THEN [insts EXCEPT ![i].status = "pix_active"]
                                          ELSE insts
  /\ tx' = [tx EXCEPT ![t] = Idle]
  /\ UNCHANGED <<day, settled, invoice, plan, selections, charges, payments, events, locks>>

-------------------------------------------------------------------------------
(* The webhook (payments/service.go, billing/payment_plan.go).               *)

\* mutant: the event is not looked for among those there are.
WebhookBeginAgain(t, e, c) ==
  /\ "webhook" \in Operations
  /\ tx[t] = Idle
  /\ c \in settled
  /\ CanLock(t, <<"event", e>>, "X")
  /\ locks' = WithLock(t, <<"event", e>>, "X")
  /\ tx' = [tx EXCEPT ![t] = [Request("webhook", "lock_charge") EXCEPT
                                !.event = e, !.charge = c]]
  /\ UNCHANGED <<day, settled, tables>>

\* INSERT INTO payment_events ... ON CONFLICT DO NOTHING: waits for the same
\* event in flight, and ends the request when the event is there already.
WebhookBegin(t, e, c) ==
  /\ "webhook" \in Operations
  /\ tx[t] = Idle
  /\ c \in settled
  /\ CanLock(t, <<"event", e>>, "X")
  /\ e \notin events
  /\ locks' = WithLock(t, <<"event", e>>, "X")
  /\ tx' = [tx EXCEPT ![t] = [Request("webhook", "lock_charge") EXCEPT
                                !.event = e, !.charge = c]]
  /\ UNCHANGED <<day, settled, tables>>

\* mutant: a charge past its expiry is refused.
LockChargeLive(t) ==
  LET c == tx[t].charge IN
  /\ tx[t].pc = "lock_charge"
  /\ CanLock(t, <<"charge", c>>, "X")
  /\ \/ /\ charges[c].live
        /\ locks' = WithLock(t, <<"charge", c>>, "X")
        /\ tx' = [tx EXCEPT ![t].pc = "insert_payment", ![t].inst = charges[c].inst,
                            ![t].amount = charges[c].amount]
     \/ ~charges[c].live /\ Finish(t)
  /\ UNCHANGED <<day, settled, tables>>

\* SELECT ... FROM payment_charges FOR UPDATE.  Neither the status nor the
\* expiry of the charge is looked at.
LockCharge(t) ==
  LET c == tx[t].charge IN
  /\ tx[t].pc = "lock_charge"
  /\ CanLock(t, <<"charge", c>>, "X")
  /\ locks' = WithLock(t, <<"charge", c>>, "X")
  /\ tx' = [tx EXCEPT ![t].pc = "insert_payment", ![t].inst = charges[c].inst,
                      ![t].amount = charges[c].amount]
  /\ UNCHANGED <<day, settled, tables>>

\* INSERT INTO payments: its foreign keys lock the invoice and the instalment.
InsertPayment(t) ==
  LET r == tx[t]
      rows == {<<"invoice", None>>} \cup
                (IF r.inst = None THEN {} ELSE {<<"inst", r.inst>>})
  IN
  /\ r.pc = "insert_payment"
  /\ \A row \in rows : CanLock(t, row, "S")
  /\ locks' = locks \cup {[row |-> row, tx |-> t, mode |-> "S"] : row \in rows}
  /\ tx' = [tx EXCEPT ![t].pc = IF r.inst = None THEN "lock_invoice" ELSE "lock_inst"]
  /\ UNCHANGED <<day, settled, tables>>

\* mutant: only the amount of the instalment is compared.
PayableByAmount(r) == r.amount = insts[r.inst].amount

\* The instalment is up for payment and the amount is what is left of it.
Payable(r) == /\ insts[r.inst].status \in {"open", "pix_active"}
              /\ r.amount = Left(insts[r.inst])

\* ApplyInstallmentPaymentTx: SELECT ... FROM invoice_installments FOR UPDATE.
LockInst(t) ==
  LET r == tx[t] IN
  /\ r.pc = "lock_inst"
  /\ CanLock(t, <<"inst", r.inst>>, "X")
  /\ Payable(r)
  /\ locks' = WithLock(t, <<"inst", r.inst>>, "X")
  /\ tx' = [tx EXCEPT ![t].pc = "lock_plan"]
  /\ UNCHANGED <<day, settled, tables>>

\* The instalment is not payable: the transaction rolls back, the row of
\* payment_events with it, and the gateway gets an error.
RejectPayment(t) ==
  LET r == tx[t] IN
  /\ r.pc = "lock_inst"
  /\ CanLock(t, <<"inst", r.inst>>, "X")
  /\ ~Payable(r)
  /\ Finish(t)
  /\ UNCHANGED <<day, settled, tables>>

\* SELECT ... FROM invoices FOR UPDATE, or the UPDATE of the invoice.
LockInvoice(t) ==
  /\ tx[t].pc = "lock_invoice"
  /\ CanLock(t, <<"invoice", None>>, "X")
  /\ locks' = WithLock(t, <<"invoice", None>>, "X")
  /\ tx' = [tx EXCEPT ![t].pc = "commit"]
  /\ UNCHANGED <<day, settled, tables>>

\* What a webhook writes whichever way the payment is applied.
RecordPayment(r) ==
  /\ charges' = [charges EXCEPT ![r.charge].status = "paid"]
  /\ payments' = payments \cup {[event |-> r.event, charge |-> r.charge,
                                 inst |-> r.inst, amount |-> r.amount]}
  /\ events' = events \cup {r.event}

\* mutant: the instalments are counted as they were before the payment.
UnpaidBefore(f) == {i \in InstId : insts[i] # None /\ insts[i].status # "paid"}

Unpaid(f) == {i \in InstId : f[i] # None /\ f[i].status # "paid"}

\* The instalment is paid and the next one opens; the last one completes the
\* plan.  An invoice with a balance takes the due day of the next instalment.
CommitInstallment(t) ==
  LET r == tx[t]
      next == [r.inst EXCEPT !.number = @ + 1]
      paid == [insts EXCEPT ![r.inst].status = "paid"]
      opens == next \in InstId /\ insts[next] # None /\ insts[next].status = "scheduled"
      newPaid == invoice.paid + r.amount
      left == Unpaid(paid)
  IN
  /\ r.pc = "commit" /\ r.op = "webhook" /\ r.inst # None
  /\ opens => CanLock(t, <<"inst", next>>, "X")
  /\ insts' = IF opens THEN [paid EXCEPT ![next].status = "open"] ELSE paid
  /\ plan' = IF left = {} THEN "completed" ELSE plan
  /\ invoice' = [invoice EXCEPT
                   !.paid = newPaid,
                   !.status = IF newPaid >= invoice.total THEN "paid" ELSE "partially_paid",
                   !.due = IF newPaid >= invoice.total \/ left = {} THEN @
                           ELSE Min({i.number : i \in left})]
  /\ RecordPayment(r)
  /\ Finish(t)
  /\ UNCHANGED <<day, settled, selections>>

\* The charge is for the invoice: UPDATE invoices without any check.
CommitInvoicePayment(t) ==
  LET r == tx[t] IN
  /\ r.pc = "commit" /\ r.op = "webhook" /\ r.inst = None
  /\ invoice' = [invoice EXCEPT !.paid = @ + r.amount,
                                !.status = IF invoice.paid + r.amount >= invoice.total
                                             THEN "paid" ELSE @]
  /\ RecordPayment(r)
  /\ Finish(t)
  /\ UNCHANGED <<day, settled, plan, selections, insts>>

-------------------------------------------------------------------------------
(* Overdue marking by the worker (billing/payment_plan.go, billing/close.go). *)

Late == {i \in Rows : insts[i].status \in {"open", "pix_active"} /\ day > i.number}

\* UPDATE invoice_installments ... WHERE due_date < today.
OverdueBegin(t) ==
  /\ "overdue" \in Operations
  /\ tx[t] = Idle
  /\ \A i \in Late : CanLock(t, <<"inst", i>>, "X")
  /\ locks' = locks \cup {[row |-> <<"inst", i>>, tx |-> t, mode |-> "X"] : i \in Late}
  /\ tx' = [tx EXCEPT ![t] = Request("overdue", "mark_invoice")]
  /\ UNCHANGED <<day, settled, tables>>

\* UPDATE invoices with an overdue instalment, and commit.
MarkInvoice(t) ==
  LET mine == {i \in Rows : Holds(t, <<"inst", i>>, "X")}
      marked == [i \in InstId |-> IF i \in mine THEN [insts[i] EXCEPT !.status = "overdue"]
                                                ELSE insts[i]]
      overdue == \E i \in Rows : marked[i].status = "overdue"
      hit == overdue /\ invoice.status \in {"open", "partially_paid"}
  IN
  /\ tx[t].pc = "mark_invoice"
  /\ hit => CanLock(t, <<"invoice", None>>, "X")
  /\ insts' = marked
  /\ invoice' = IF hit THEN [invoice EXCEPT !.status = "overdue"] ELSE invoice
  /\ tx' = [tx EXCEPT ![t].pc = "mark_by_date"]
  /\ locks' = WithoutLocks(t)
  /\ UNCHANGED <<day, settled, plan, selections, charges, payments, events>>

\* MarkOverdueInvoices: UPDATE invoices past their due day with a balance.
MarkByDate(t) ==
  LET hit == /\ invoice.status \in {"open", "partially_paid"}
             /\ day > invoice.due /\ invoice.paid < invoice.total
  IN
  /\ tx[t].pc = "mark_by_date"
  /\ hit => CanLock(t, <<"invoice", None>>, "X")
  /\ invoice' = IF hit THEN [invoice EXCEPT !.status = "overdue"] ELSE invoice
  /\ Finish(t)
  /\ UNCHANGED <<day, settled, plan, selections, insts, charges, payments, events>>

-------------------------------------------------------------------------------
(* Adjustments (billing/adjustment.go, billing/invoice_credit_tx.go).        *)

\* mutant: the new total is not compared with what has been paid.
AdjustBeginUnchecked(t, n) ==
  /\ "adjust" \in Operations
  /\ tx[t] = Idle
  /\ CanLock(t, <<"invoice", None>>, "X")
  /\ invoice.status # "paid"
  /\ invoice.total + n <= MaxTotal
  /\ locks' = WithLock(t, <<"invoice", None>>, "X")
  /\ tx' = [tx EXCEPT ![t] = [Request("adjust", "commit") EXCEPT !.amount = n]]
  /\ UNCHANGED <<day, settled, tables>>

\* SELECT ... FROM invoices FOR UPDATE, and the checks of an adjustment.
AdjustBegin(t, n) ==
  /\ "adjust" \in Operations
  /\ tx[t] = Idle
  /\ CanLock(t, <<"invoice", None>>, "X")
  /\ invoice.status # "paid"
  /\ invoice.total + n >= invoice.paid
  /\ invoice.total + n <= MaxTotal
  /\ locks' = WithLock(t, <<"invoice", None>>, "X")
  /\ tx' = [tx EXCEPT ![t] = [Request("adjust", "commit") EXCEPT !.amount = n]]
  /\ UNCHANGED <<day, settled, tables>>

\* An invoice that is covered becomes paid, and its pending charges expire.
CommitAdjust(t) ==
  LET total == invoice.total + tx[t].amount
      covered == total <= invoice.paid
      pending == {c \in Charge : charges[c] # None /\ charges[c].status = "pending"}
  IN
  /\ tx[t].op = "adjust" /\ tx[t].pc = "commit"
  /\ covered => \A c \in pending : CanLock(t, <<"charge", c>>, "X")
  /\ invoice' = [invoice EXCEPT !.total = total,
                                !.status = IF covered THEN "paid" ELSE @]
  /\ charges' = [c \in Charge |-> IF covered /\ c \in pending
                                    THEN [charges[c] EXCEPT !.status = "expired"]
                                    ELSE charges[c]]
  /\ Finish(t)
  /\ UNCHANGED <<day, settled, plan, selections, insts, payments, events>>

-------------------------------------------------------------------------------
\* An error return, the victim of a deadlock, a crash.
Abort(t) ==
  /\ tx[t] # Idle
  /\ Finish(t)
  /\ UNCHANGED <<day, settled, tables>>

NextDay ==
  /\ day < MaxDay
  /\ day' = day + 1
  /\ UNCHANGED <<settled, tables, locks, tx>>

\* expires_at goes by, 24 hours after the charge was made.
ChargeExpires(c) ==
  /\ charges[c] # None /\ charges[c].live
  /\ charges' = [charges EXCEPT ![c].live = FALSE]
  /\ UNCHANGED <<day, settled, invoice, plan, selections, insts, payments, events, locks, tx>>

\* The customer pays at the gateway, which accepts a charge until it expires
\* and then sends its events as often as it takes.
PayAtGateway(c) ==
  /\ charges[c] # None /\ charges[c].live
  /\ settled' = settled \cup {c}
  /\ c \notin settled
  /\ UNCHANGED <<day, tables, locks, tx>>

PlanStep(t) == \/ \E n \in Number : SelectBegin(t, n)
               \/ ResetBegin(t) \/ LockPlan(t) \/ CommitSelect(t) \/ CommitReset(t)

ChargeStep(t) == \/ \E i \in InstId : CreateBegin(t, i)
                 \/ CreateForInvoiceBegin(t) \/ LookUp(t)
                 \/ \E c \in Charge : InsertCharge(t, c)
                 \/ MarkActive(t)

WebhookStep(t) == \/ LockCharge(t) \/ InsertPayment(t) \/ LockInst(t)
                  \/ RejectPayment(t) \/ LockInvoice(t) \/ CommitInstallment(t)
                  \/ CommitInvoicePayment(t)

InvoiceStep(t) == \/ OverdueBegin(t) \/ MarkInvoice(t) \/ MarkByDate(t)
                  \/ \E n \in Adjustments : AdjustBegin(t, n)
                  \/ CommitAdjust(t)

Next ==
  \/ NextDay
  \/ \E c \in Charge : ChargeExpires(c) \/ PayAtGateway(c)
  \/ \E t \in Txn :
       \/ PlanStep(t) \/ ChargeStep(t) \/ WebhookStep(t) \/ InvoiceStep(t) \/ Abort(t)
       \/ \E e \in Event, c \in Charge : WebhookBegin(t, e, c)

Spec == Init /\ [][Next]_vars

-------------------------------------------------------------------------------
(* Types.                                                                    *)

Invoice == [total : Nat, paid : Nat, due : Number,
            status : {"open", "partially_paid", "paid", "overdue"}]

Payment == [event : Event, charge : Charge, inst : InstId \cup {None}, amount : Nat]

TxState == [op : AllOperations \cup {"idle"}, pc : Pc, inst : InstId \cup {None},
            charge : Charge \cup {None}, event : Event \cup {None},
            amount : Int, count : Nat]

\* Every row and every session has the columns and the values of its type.
TypeOK ==
  /\ day \in 1 .. MaxDay
  /\ invoice \in Invoice
  /\ plan \in {"pending_selection", "active", "completed"}
  /\ selections \in 0 .. MaxPlan
  /\ insts \in [InstId -> Inst \cup {None}]
  /\ charges \in [Charge -> ChargeRow \cup {None}]
  /\ payments \subseteq Payment
  /\ events \subseteq Event
  /\ settled \subseteq Charge
  /\ locks \subseteq LocksOn(Row)
  /\ tx \in [Txn -> TxState]

-------------------------------------------------------------------------------
(* Properties.                                                               *)

PaidRows == {i \in Rows : insts[i].status = "paid"}

\* Money is booked once: what the invoice has been paid is the sum of the rows
\* of payments, each made by an event of its own, however often and by however
\* many requests the gateway's events are delivered (ProcessWebhook).
PaymentsAddUp ==
  /\ invoice.paid = SumFunction([p \in payments |-> p.amount])
  /\ events = {p.event : p \in payments}
  /\ \A p, q \in payments : p.event = q.event => p = q

\* An instalment is paid by one payment: two charges of the same instalment,
\* both paid by the customer, do not count twice (ApplyInstallmentPaymentTx).
OnePaymentPerInstalment ==
  \A i \in InstId :
    Cardinality({p \in payments : p.inst = i}) = IF i \in PaidRows THEN 1 ELSE 0

\* The plan is completed exactly when it has instalments and all are paid, and
\* while it runs exactly one instalment - the first not paid - is up for payment.
PlanFollowsInstalments ==
  /\ plan = "pending_selection" <=> Rows = {}
  /\ plan = "completed" <=> Rows # {} /\ Rows = PaidRows
  /\ plan = "active" => \E n \in Number : \A i \in Rows :
       /\ i.number < n <=> insts[i].status = "paid"
       /\ i.number > n <=> insts[i].status = "scheduled"

\* No charge outlives its instalment: a reset never removes an instalment that
\* a request in flight is charging (ResetPaymentPlan, foreign keys).
ChargesHaveInstalment ==
  \A c \in Charge : charges[c] # None /\ charges[c].inst # None
                      => charges[c].inst \in Rows

\* The instalments in order, as the abstract specification sees them.
Numbered(rows, n) == CHOOSE i \in rows : i.number = n

Parts == [n \in 1 .. Cardinality(Rows) |-> insts[Numbered(Rows, n)].amount]

Promise == INSTANCE Collection WITH parts <- Parts,
                                    collected <- Cardinality(PaidRows),
                                    received <- invoice.paid

\* The charges, the webhook and the plan implement the abstract collection.
CollectsAsPromised == Promise!Spec

-------------------------------------------------------------------------------
(* Fairness.  Whoever pays at the gateway is notified again until the webhook *)
(* succeeds; every request ends, since locks are given in the order in which  *)
(* they are asked for; and nothing fails for ever: from some time on, a       *)
(* webhook ends only by its own decision.  (With one session there is no      *)
(* deadlock, whose victim would be a failure of another kind.)                *)

Recorded(c) == \E p \in payments : p.charge = c

Notify(c) == ~Recorded(c) /\ \E t \in Txn, e \in Event : WebhookBegin(t, e, c)

EndsRequest(t) ==
  /\ tx[t] # Idle
  /\ PlanStep(t) \/ ChargeStep(t) \/ WebhookStep(t) \/ InvoiceStep(t) \/ Abort(t)

WebhookFails(t) == tx[t].op = "webhook" /\ Abort(t) /\ ~WebhookStep(t)

FairSpec ==
  /\ Spec
  /\ \A t \in Txn : SF_vars(EndsRequest(t))
  /\ \A c \in Charge : SF_vars(Notify(c))
  /\ <>[][\A t \in Txn : ~WebhookFails(t)]_vars

\* An instalment takes no payment after it is marked overdue, nor a second one.
ClosedToPayment(c) ==
  /\ charges[c] # None
  /\ \E i \in Rows : charges[c].inst = i /\ insts[i].status \in {"overdue", "paid"}

\* What the customer has paid at the gateway is recorded in the end, even when
\* the charge has expired or was expired by an adjustment, unless the instalment
\* was marked overdue or paid by another charge meanwhile (ProcessWebhook).
PaymentsRecordedWhileOpen ==
  \A c \in Charge : c \in settled ~> Recorded(c) \/ ClosedToPayment(c)

\* RF-PIX-016: what the customer has paid at the gateway is recorded.
PaymentsRecorded == \A c \in Charge : c \in settled ~> Recorded(c)

===============================================================================
