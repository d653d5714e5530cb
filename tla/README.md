# PontoQAP — TLA+ models and proofs

PontoQAP is a staff store with a monthly tab: customers buy on account, the
purchases of a cycle are closed into an invoice, and the invoice is paid by Pix
in one or more instalments. The backend is a Go API and a Go worker over one
PostgreSQL database (`backend/cmd/api`, `backend/cmd/worker`). There is no
in-memory state worth modelling: everything that can go wrong goes wrong
between transactions of several processes on the same rows. The models are
therefore models of *transactions*: one action per statement that reads or
locks, and one for the commit.

## Inventory

Paths are under `backend/internal/` unless said otherwise.

| Component | State it keeps | Operations | Interacts with |
|---|---|---|---|
| sales: checkout (`sales/service.go`) | `carts`, `cart_items`, `orders`, `order_items` | get/add/set/clear cart, checkout | prices of the catalog, stock of the inventory, limit of the customer, open period of the billing |
| sales: cancellation (`sales/admin_orders.go`) | `orders.status` | cancel a confirmed order | credit in the billing, stock return |
| billing: periods, closing (`billing/service.go`, `cycle.go`, `close.go`) | `billing_periods`, `billing_entries`, `invoices`, `invoice_items` | open a period on demand, close one (customer), close a month (worker, administrator), mark overdue | checkout and cancellation write entries; creates the payment plan |
| billing: adjustments (`adjustment.go`, `invoice_credit_tx.go`, `settlement.go`) | `billing_adjustments`, totals and status of an invoice, exposure | credit or debit on an unpaid invoice | expires pending Pix charges when the invoice reaches zero |
| billing: plans and instalments (`payment_plan.go`, `installment_*.go`, `calendar.go`) | `invoice_payment_plans`, `invoice_installments`, policies, holidays | offer options, select, pay, mark overdue, reset | paid from the webhook |
| billing: reminders (`reminders.go`) | `billing_reminders`, `invoices.status` | notices at D+2, escalation at D+3 | outbox |
| payments (`payments/service.go`) | `payment_charges`, `payments`, `webhook_events` | create or reuse a charge, process a webhook | gateway, instalments |
| inventory (`inventory/`) | `inventory_balances`, `inventory_lots`, movements | entry, outbound, adjustment, sale, return | cost feeds the price of the catalog |
| jobs, outbox, worker (`jobs/`, `notification/`, `backend/cmd/worker`) | `jobs`, `outbox_events` | enqueue, publish, claim, complete, fail; daily maintenance; mail | closing, reminders, overdue marking, mail server |
| customers (`customers/`) | `customers`: status, limit, exposure; `customer_limit_history` | register, approve, block, change limit | checked by the checkout, exposure written by sales and billing |
| identity (`identity/`) | `users`, `user_roles`, `sessions`, `email_verification_tokens`, `admin_invitations` | verify e-mail, login, second factor, invite, change role or status | its permissions guard every administrative request |
| catalog (`catalog/`) | `products`, `skus`, `price_history`, promotion quota, default margin | create and edit, change price, reprice, price a line, consume quota | average cost from the inventory; prices of the checkout |
| reports, forecasting, audit, platform, clients, infrastructure | — | read-only, wiring, deployment | see "Not modelled" |

**Hard behaviours.** PostgreSQL runs at READ COMMITTED and the code mixes
locked reads (`FOR UPDATE`), unlocked reads whose result is used later, and
reads through the pool outside the transaction it is in. So the hazards are:
two transactions in an order nobody tested (checkout against closing, closing
against closing, cancellation against closing, payment against adjustment);
checks made on stale rows (limit, period status, remaining amount); row locks
taken in different orders; loops that commit step by step and stop at the
first error; retries (idempotency keys, webhooks, jobs) and late events;
workers that stop between two commits; administrative requests that are no
transaction at all; connections taken from the pool while one is held.
`PROJECT.json`, "hazards", lists each at its line with the property that would catch it.

**What makes each part correct.** Closing: one open period per customer; a
period is closed if and only if it has its invoice; each purchase is billed
exactly once. Cancellation: one credit per cancelled order, in a place that
will be billed. Exposure: equal to what the customer owes (RN-007). Limit: never
exceeded. Plans: instalments add up to the invoice, the plan is immutable once
active. Pix: one live charge per instalment, one payment per charge, every
payment applied once. Inventory: balance equals the lots and is what the movements lead to.
Catalog: no unit beyond the quota at the promotional price, a history that names every
price. Worker: one holder for each item, every event settled, months closed in time,
unpaid invoices chased. Customers: a limit that its history explains. Identity: an
administrator remains, one internal role for each user, a second factor whose secret
was proved.

## Modules

| Module | Models | Proofs | Instance |
|---|---|---|---|
| `RowLocks` | row locks of sessions, used by `Ledger`, `Pix`, `Store`, `Accounts` | | |
| `Ledger` | orders, periods, entries, invoices, exposure under concurrent transactions | `LedgerProofs` | `MCLedger` |
| `Collection` | abstract: what an invoice in instalments promises | | |
| `Pix` | one invoice: plan, charges, webhooks; implements `Collection` | `PixProofs` | `MCPix` |
| `Schedule` | months, business days, due dates, division into instalments | | |
| `Maintenance` | the worker's daily maintenance on invoices and plans; uses `Schedule` | `MaintenanceProofs` | `MCMaintenance` |
| `Delivery` | abstract: what a queue promises | | |
| `Outbox` | outbox and job queue with crashes; implements `Delivery` | `OutboxProofs` | `MCOutbox` |
| `Pricing` | average cost, sale price, promotional line, lots first in first out | | |
| `Warehouse` | abstract: what the shop promises about stock and orders | | |
| `Store` | cart, checkout, stock, movements, prices; uses `Pricing`, implements `Warehouse` | `StoreProofs`, `ShopProofs` | `MCStore` |
| `Accounts` | users, customers, sessions, second factor, invitations, roles | `AccountsProofs` | `MCAccounts` |
| `Sums` | lemmas only: sums over finite sets, used by the other proofs | | |

Where two components write the same rows they are in one module, because the
point is the locks they take on common rows: orders and billing in `Ledger`,
plans and payments in `Pix`, sales, inventory and catalog in `Store`, identity
and customers in `Accounts`. Where the interface is narrow the modules meet in
an abstraction: an order of `Ledger` is a price and the possibility to abort,
which `Store` details; the closing of `Ledger` and the payment of `Pix` are each
one step of `Maintenance`, whose subject is time; the event that these publish
is an item of `Outbox`. In the definitions, one that begins with the comment
`mutant:` is a deliberately broken variant of the definition that follows it, kept
to show that a property notices; no specification uses it.

## Ledger: what is modelled and how

A member of `Txn` is a database session that serves one request at a time; `tx`
holds the local variables of the handler it runs and the statement it is
before (`pc`); `locks` holds the row locks of the transactions in flight. A
write becomes visible at commit, so every write of a transaction is in its
`Commit...` action, while the lock that a write takes is in the action of the
statement. `Abort` is enabled before every statement: it stands for an error
return, a deadlock victim, a lost connection and a crash of the process.

| Actions | Code |
|---|---|
| `CheckoutBegin`, `InsertOrder`, `LockCustomer`, `FindOpenPeriod` or `FindNoOpenPeriod` or `AwaitPeriod`, `InsertPeriod`, `CommitCheckout` | `sales/service.go` `Checkout`, `billing/service.go` `AddOrderEntryTx`, `EnsureOpenPeriodTx` |
| `CloseCustomerBegin`, `FindOpenPeriod`, `ReadEntries`, `InsertPeriod`, `CommitClose` | `billing/cycle.go` `CloseCustomerOpenPeriod`, `OpenNextCycleTx` |
| `CloseReferenceBegin`, `PickPeriod`, `ReadEntries` or `SkipPeriod`, `CommitClose`, `CloseReferenceEnd` | `billing/close.go` `CloseOpenPeriodsForReference`, `closePeriodTx` |
| `CancelBegin`, `ReadPeriod`, then `InsertCredit`, or `ReadInvoice` and the adjustment or the carried credit; `CommitCancel`, `CommitAdjust`, `CommitCarry` | `sales/admin_orders.go` `AdminCancelOrder`, `billing/order_cancel_billing.go` |
| `AdjustBegin`, `LockInvoice`, `LockCustomer`, `CommitAdjust` | `billing/adjustment.go`, `invoice_credit_tx.go`, `settlement.go` |
| `SelectPlanBegin`, `ActivatePlan` | `billing/payment_plan.go` `SelectPaymentPlan` |
| `PayBegin`, `LockInvoice`, `LockCustomer`, `CommitPay` | `billing/payment_plan.go` `ApplyInstallmentPaymentTx` |

PostgreSQL is the external part: lock conflicts, the release at commit and
rollback, the queued `SELECT ... FOR UPDATE` that re-evaluates its condition on
the row it was queued for and sees no newer row (`AwaitPeriod`), the unique
index `billing_periods_one_open_per_customer` that makes an insert wait and
fail (`InsertPeriod`), the KEY SHARE lock of a foreign key (`InsertCredit`).

Left out, and why it does not change the answers: the cart, prices and stock of
a checkout are its `Price` and the `Abort` of any of their checks; the status
`overdue` of an invoice is folded into `open` and `partially_paid`, because the
modelled code tests only whether the status is `paid`; the instalments of a
plan are folded into one, so a plan is paid at once (`Pix` has several); numbers, descriptions, audit rows are not state of any property.

## Pix: what is modelled and how

`Pix` is about one invoice after its closing. It has the same sessions, locks and
commits as the ledger; a request that is not a transaction (the creation of a
charge) has no lock between its statements and commits each at once. `insts` is
the table of instalments, named by the selection they come from and their
number, so that an instalment of a plan that was reset is not taken for one of
the next; `settled` is what the customer has paid at the gateway, which the
program learns from a webhook only.

| Actions | Code |
|---|---|
| `SelectBegin`, `LockPlan`, `CommitSelect` | `billing/payment_plan.go` `SelectPaymentPlan`, `installment_calculator.go` |
| `ResetBegin`, `CommitReset` | `ResetPaymentPlan` |
| `CreateBegin`, `LookUp`, `InsertCharge`, `MarkActive` | `payments/service.go` `CreateOrReusePixChargeForInstallment`, `ValidateInstallmentForPix`, `MarkInstallmentPixActive` |
| `CreateForInvoiceBegin`, `LookUp`, `InsertCharge` | `CreateOrReusePixCharge` |
| `WebhookBegin`, `LockCharge`, `InsertPayment`, then `LockInst` (or `RejectPayment`), `LockPlan`, `LockInvoice`, `CommitInstallment`; or `LockInvoice`, `CommitInvoicePayment` | `ProcessWebhook`, `ApplyInstallmentPaymentTx`, `syncInvoiceDueFromInstallmentsTx` |
| `OverdueBegin`, `MarkInvoice`, `MarkByDate` | `MarkOverdueInstallments`, `MarkOverdueInvoices` |
| `AdjustBegin`, `CommitAdjust` | `AddInvoiceAdjustment`, `settlement.go` |
| `ChargeExpires`, `PayAtGateway`, `NextDay`, `Abort` | the gateway, time, failures |

The gateway is external: it accepts a charge until it expires, and may send an
event at any time afterwards, any number of times, under any new identifier.
`Collection` is what all of this promises: the customer chooses a division of
the amount, its parts come in once each and in order, a division is withdrawn
only while nothing of it has come in, and money beyond the division comes in
only after it. The refinement mapping takes the amounts of the selected
instalments for `parts`, the number of paid ones for `collected` and
`paid_cents` of the invoice for `received`.

Left out: the exposure (in `Ledger`), months and business days (instalment n is
due on day n), the amounts in the event (the gateway confirms the amount of the
charge), signatures.

## Maintenance and Schedule: what is modelled and how

Here a worker's transaction is one action, since what other sessions do inside
such a transaction is the subject of `Ledger` and `Pix`; the actions of several
workers, customers and administrators interleave between them. A worker lists
invoices first and then treats each in a transaction of its own, so its listing
(`todo`) may be stale. Time is counted in half-days and passes over a given set
of instants: in the evening the date of the server, in UTC, is ahead of the
date in Sao Paulo (`ServerDates`).

| Actions | Code |
|---|---|
| `Wake`, `Closing` | `jobs/runner.go` `ScheduleDailyMaintenance`, `billing/close.go` `RunScheduledClosingIfDue`, `CloseOpenPeriodsForReference` |
| `ListReminders`, `Remind`, `ListEscalations`, `Escalate` | `billing/reminders.go` |
| `EnqueueOverdue`, `AcquireJob`, `MarkInstallments`, `MarkInvoices`, `JobEnds`, `JobFails` | `jobs/runner.go`, `billing/payment_plan.go` `MarkOverdueInstallments`, `billing/close.go` `MarkOverdueInvoices` |
| `MaintenanceFails`, `Crash`, `Restart`, `Advance` | `cmd/worker/main.go`: an error ends the maintenance of the day, whose time is noted all the same |
| `Purchase`, `CloseByHand`, `SelectPlan`, `PayInstallment` | customers: `AddOrderEntryTx`, `CloseCustomerOpenPeriod`, `SelectPaymentPlan`, `ApplyInstallmentPaymentTx` |
| `UpsertCalendarDay`, `CreateInstallmentPolicyVersion` | administrators: `calendar.go`, `installment_policy.go` |

`Schedule` holds the pure part: a moment is a day and the zone its midnight is
in, because a date that comes from the database or from a request body is
midnight UTC, which is still the day before in Sao Paulo. Months and weekdays
are constants, so that any calendar may be given.

## Outbox and Delivery: what is modelled and how

The two queues are tables claimed alike (`FOR UPDATE SKIP LOCKED`, mark, commit,
handle) and differ in what a failure does, so one module has both and an item is
an event or a job.

| Actions | Code |
|---|---|
| `Insert` | `jobs/repository.go` `Enqueue`, `PublishOutbox` |
| `Select`, `Claim`, `ClaimFails` | `Acquire`, `jobs/outbox.go` `AcquireOutbox` |
| `Handle` | `jobs/runner.go` `Handler.Handle`, `notification/outbox_handler.go` |
| `Settle`, `SettleFails` | `Complete`, `Fail`, `CompleteOutbox`, `FailOutbox`, whose errors the loops ignore |
| `BatchDone`, `Crash`, `Restart` | `cmd/worker/main.go`, `ProcessOutbox` |

`Delivery` is what the code promises, and no more: an item is handled by one
worker at a time until it is done or given up, and it is lost to the worker that
held it when that worker stops or cannot record the outcome. Nothing in the
code takes up such an item again.

## Store, Pricing and Warehouse: what is modelled and how

As in `Ledger`, an action is a statement that reads or locks, or a commit. A
product has one SKU (`CreateProduct` inserts both), so an item stands for both
rows. A request that changes the cost or the quota goes on, after its commit, to
recalculate prices, without a transaction around it (`price` in `tx`).

| Actions | Code |
|---|---|
| `GetOrCreateCart`, `AddCartItem`, `SetCartItemQuantity`, `ClearCart`, `CreateCart`, `ChangeItems` | `sales/service.go`, cart |
| `Checkout`, `ReadCart`, `PriceLine`, `InsertOrder`, `TakeLots`, `TakeBalance`, `CommitCheckout` | `Checkout`, `catalog/promo_pricing.go` `PriceLine`, `ConsumePromoQuotaTx`, `inventory/movements.go` `applyMovementTx`, `lots.go` |
| `AdminCancelOrder`, `TakeBalance`, `CommitCancel` | `sales/admin_orders.go`, `inventory/returns.go` |
| `RegisterEntry`, `RegisterOutbound`, `RegisterAdjustment`, `CreateProduct`, `TakeLots`, `TakeBalance`, `CommitMovement` | `inventory/movements.go`, `catalog/service.go` |
| `Recalculate`, `ReadMargin`, `ReadAverage`, `LockPrice`, `SetPrice`, `ChangeSKUPrice` | `catalog/pricing.go` `RecalculateSKU`, `catalog/service.go` `ChangeSKUPrice` |
| `UpdateProduct`, `WriteProduct`, `UpdateSKU`, `WriteSKU`, `SetRemainingLotsUnitCost`, `SetDefaultMarginPercent`, `RepriceAllProducts` | `catalog/admin.go`, `pricing.go`, `inventory/lots.go` |

The variable `promo` is a ghost: what was granted, sold, and written back by an
edit that had read the quota before it was used.

`Warehouse` knows none of the statements: an order takes the units of all its
lines in one step and only units that are there, is placed once and cancelled
once at most, and its cancellation gives back exactly those units; any other
movement is of one item. The refinement mapping takes the balance of an item for
its units (none when it has no row), and the status and the lines of an order row
for its state and lines (`UnitsOf`, `StateOf`, `LinesOf`).

## Accounts: what is modelled and how

Most of these requests are no transaction: each statement is an action, and what
was read first (`seen`, `arg`) decides later. Transactions that wait for nothing
after their first write are one action.

| Actions | Code |
|---|---|
| `Register`; `VerifyEmail`, `Verified`; `ResendVerification`, `EnqueueVerification`, `Enqueued` | `customers/service.go` `Register`, `identity/verification.go` |
| `Approve`, `ActivateApproved`, `RecordApproval`; `ChangeLimit`, `LimitChanged`; `Block`, `Unblock` | `customers/service.go`, `admin.go` |
| `Login`, `WrongPassword`, `CheckLogin`, `UpdateUserLoginState`, `RevokeUserSessions`, `CreateSession`, `DropError`, `Logout` | `identity/service.go` |
| `SetupMFA`, `VerifyMFA`, `EnableMFA` | `SetupMFA`, `VerifyMFA`, `step_up.go` |
| `CreateInvitation`, `Invited`, `RevokeInvitation`, `Withdrawn`, `AcceptInvitation`, `Accepted` | `identity/admin_users.go` |
| `AssignStaffRoleFromCustomer`, `SetUserRole`, `SetUserStatus`, `RevokeStaffSessions`, `EnsureNotLastActiveAdmin`, `DeleteRoles`, `InsertRole`, `UpdateUserStatus` | `admin_users.go`, `postgres/admin_users.go` |

Four variables are ghosts: `granted` (the limits that approvals gave, and after how
many rows of the history), `proved`
(the secrets a code was shown of), and `unguarded` and `crossed`, which note
exactly those overlaps in which the code's guards of the last administrator and of
the single role do not hold. The properties say that nothing else breaks them.

## Runs

| Run | Instance | What it shows |
|---|---|---|
| `ledger_concurrent` | 2 sessions, 1 customer, 2 orders, 1 month, 2 cycles, adjustments of 1 | the safety properties below hold under every interleaving of all requests |
| `ledger_two_months` | 2 sessions, 2 customers with 2 orders and 1, 2 months, 2 cycles; purchases and closings | `OneOpenPeriod` across a change of month, which opens periods on demand; `PurchasesInvoiced` when the closing loop holds several periods |
| `ledger_lost_credit` | checkout, closing, cancellation | **violated** `NoLostCredit` |
| `ledger_limit_race` | two checkouts, limit for one | **violated** `WithinLimit` |
| `pix_concurrent` | 2 sessions, 2 charges, 2 events, total 2 in up to 2 instalments, 2 days, one selection | the safety properties of `Pix`, and that it implements `Collection` |
| `pix_recorded` | 1 session, 2 charges, 2 events, a plan selected up to twice, fairness | `PaymentsRecordedWhileOpen` |
| `pix_unrecorded` | 1 session, 1 charge, fairness | **violated** `PaymentsRecorded` |
| `maintenance` | 2 workers, the invoice of one December, 3 cents, 4 instants, 1 upset (a change of policy or calendar, a crash or an error), fairness | closing in time, notices, overdue marking, plan amounts and options |
| `schedule_business_day` | 1 worker, the same invoice, no change, no fault | **violated** `InstallmentDueOnBusinessDay` |
| `outbox` | 2 workers, 2 events, 1 job, 1 fault, fairness | one holder, every event settled, implements `Delivery` |
| `store` | 2 sessions, 3 items (one to be created), 2 carts, 2 keys, quantities of 1, 3 requests | stock, lots, movements, quota and price history, implements `Warehouse` |
| `accounts` | 2 sessions, 4 users (two administrators, one registered, one unknown), 2 limits, 3 requests | limits, administrators, roles, second factor |

`OneOpenPeriod`, `ClosedIffInvoiced` and `PurchasesInvoiced` say that closings
and purchases do not lose or double anything; `ChargedAndCreditedOnce` that an
order is charged and credited at most once; `InvoiceFrozen` (an action
property) that no later step rewrites an invoice; `CompatibleLockOrders`
that a deadlock over the rows of the ledger needs a cancellation or a payment
(stock and charge rows are locked by other modules of the code);
`ExposureExplained` that the exposure is what the customer owes except for the
known causes.

For `Pix`: `PaymentsAddUp` says that every delivery of an event books its money
once or not at all; `OnePaymentPerInstalment` that two charges of an instalment,
both paid by the customer, are not both accepted; `PlanFollowsInstalments` that
exactly the first unpaid instalment is up for payment and the plan completes
with the last; `ChargesHaveInstalment` that a reset never removes an instalment
from under a request; `CollectsAsPromised` is the refinement.
`PaymentsRecordedWhileOpen` (liveness) says that money paid at the gateway is
recorded in the end, even when the charge has expired meanwhile, and names the
two cases in which it is not.

For `Maintenance`: `ClosedInTime` says that a period with purchases is invoiced
when the first of the next month is over, unless a worker has failed;
`UnpaidChased` (liveness) that an invoice unpaid three days after its closing is
escalated or paid in the end, whatever faults there were; `NoticesPerWorker`
that two workers with the same listing send a notice once each and no more;
`PaidStaysPaid` that no stale listing makes a paid invoice owed; `PartsAddUp` that
the amounts of a plan are what was divided and what is paid is what its
paid instalments add up to; `OfferedIsSelectable` that until the due day the options shown are
those that are accepted.

For `Outbox`: `ClaimedByOne`, `EventsSettle` (liveness) and the refinement
`DeliversAsPromised`.

For `Store`: `LotsMatchBalance` (sales lock the lots and then the balance, adjustments
the balance first, entries and returns only the balance), `MovementsChain`, `SoldIsOrdered` (what left and came back is what
the orders list, each once), `AdjustedToCount`, `PromoWithinQuota`, `PricesChain`
(every change names the price it replaced), `CollaboratorPaysNoMore`, and the refinement
`SellsAsPromised`: no order takes stock in part, twice or out of nothing, and none gives it back twice.

For `Accounts`: `LimitsChain` (one approval, however manager and verification
race; every change names the limit it replaced), `AnAdminRemains`,
`OneInternalRole`, `EnabledSecretProved`.

The four violations are disagreements between the code and its documents or
comments, described in `PROJECT.json`, "findings"; `pix_unrecorded` and
`schedule_business_day` need no concurrency.

**Bounds.** Two sessions are the smallest number that overlap, and every race
of the code is between two requests; two orders give a second purchase that
meets a closing, and one cancellation that leaves something to bill. With one
customer, everything meets on the same rows; customers share nothing but the
loop of the closing, which `ledger_two_months` gives two customers: it may stop,
or be overtaken, between the two. Two cycles allow a customer to close, buy and close
again. `MaxAdjust` bounds one manual adjustment and `WithinBound` the sum of them. Sessions and
the orders of one customer are interchangeable, so their permutations are a symmetry.
`CHECK_DEADLOCK FALSE` stands where a run has only requests that run out: a
limit used up, all orders placed and settled, no month left.

In `pix_concurrent` two charges are what two simultaneous requests make, and
with two events give the same event twice, two events for one charge and one
for each. A total of 2 divides into two instalments or one; the adjustments (a
credit of 2, a debit of 1) settle an invoice, leave a balance after the last
instalment, and would take the total below zero if the code did not look. On
day 2 the first instalment is late; the policy lets a plan be divided then in this
run (`AllowInstallmentAfterDueDate`), which adds to what can happen, and forbids it
in the other two, as the first version of the policy does. `pix_recorded` adds the second selection
of a plan after a reset. Money stays small because no guard depends on its
size.

In `maintenance` the period is a December, so the year changes; the instants are
the last day of the month, the day of the closing, the evening of the due day
(two server dates) and a day in the second month after, when every notice and the
second instalment are late. A total of 3 in up to 2 instalments leaves a cent
over. A worker claims up to five jobs at once (`JobBatch`, as in `cmd/worker`) and does
them one after the other, so that a second one may wait in its batch. Two workers with one fault give each stale listing, a maintenance cut off at
each point, and a restart on the same day; the changes of policy and calendar share
the bound `MaxUpsets` with the faults, which touch nothing they touch. The last instant repeats itself, as
each day after it would. `outbox` has a batch of two and one more item than a
worker needs, so that batches overlap, a failed event is tried again and given
up, and a claim is lost. `store` has three requests over two sessions: two that
race and one before or after them (a cancellation after a checkout, an edit of a
promotion that ran out); quantities of 1 out of a stock of 2 make the second sale
meet the first on the same lot, and two items make two lines. `accounts` has three
requests likewise; the second administrator is also a customer and has mistyped
four times, so that one more locks the account; `MaxRequests` counts deadlines that
pass as well.

**Fairness.** `Pix`: a paid charge is notified again
until it is recorded (the gateway repeats what is not answered with success, and
`ProcessWebhook` answers a rejected payment with an error); every request ends
(locks are granted in the order they were asked for, and a transaction ends by
commit or rollback); and from some time on no webhook is cut off by a failure of
the database or of the process. The last is an assumption on the environment,
without which nothing at all would be recorded; deadlocks would be such
failures, so the liveness runs have one session. `Outbox`: a worker that is up goes
on (its loop is a ticker and waits for nothing that another worker holds, thanks to
`SKIP LOCKED`), and one that is down is started again (`restart: unless-stopped` in
`infra/compose/compose.production.yaml`). `Maintenance` assumes less: some worker
goes on as long as one can, and time passes. Faults are bounded (`MaxFaults`,
`MaxUpsets`); customers and administrators owe nothing. `Store`,
`Accounts` and `Ledger` state safety only.

## Proofs

Every theorem is about all values of the constants: any number of sessions,
workers, customers, orders, items, charges, events, requests, any prices and
amounts. The assumptions are those that the modules name (`LedgerAssumption`,
`PixAssumption`, `StoreAssumption`, `OutboxAssumption`, `AccountsAssumption`,
`MaintenanceAssumption`, `ScheduleAssumption`), `NoneRow` and `NoneIsApart`: the
constants have their types, the rows at the start are rows the program can have,
`None` is no row, the instants are finitely many, the months follow each other
without a gap, each 28 to 31 days long, with one after that of each period, and they
reach as far as the last instalment of the policies (`MonthsReach`). TLC evaluates
them in the runs.

| Module | Theorem | Statement |
|---|---|---|
| `LedgerProofs` | `LedgerIsInvariant` | `Spec => []LedgerInv` |
| | `TypeCorrect` | `Spec => []TypeOK` |
| | `AlwaysOneOpenPeriod` | `Spec => []OneOpenPeriod` |
| | `AlwaysClosedIffInvoiced` | `Spec => []ClosedIffInvoiced` |
| | `AlwaysPurchasesInvoiced` | `Spec => []PurchasesInvoiced` |
| | `InvoicesStayFrozen` | `Spec => InvoiceFrozen` |
| | `LockOrdersAreCompatible` | `Spec => []CompatibleLockOrders` |
| | `AccountIsInvariant` | `Spec => []AccountInv` |
| | `OrdersChargedAndCreditedOnce` | `Spec => []ChargedAndCreditedOnce` |
| | `ExposureIsExplained` | `Spec => []ExposureExplained` |
| `PixProofs` | `Invariant` | `Spec => []PixInv` |
| | `Types` | `Spec => []TypeOK` |
| | `NoChargeOutlivesItsInstalment` | `Spec => []ChargesHaveInstalment` |
| | `ThePlanFollowsItsInstalments` | `Spec => []PlanFollowsInstalments` |
| | `PaidByOnePayment` | `Spec => []OnePaymentPerInstalment` |
| | `MoneyIsBookedOnce` | `Spec => []PaymentsAddUp` |
| | `PixImplementsCollection` | `Spec => CollectsAsPromised` |
| `OutboxProofs` | `OutboxInvariant` | `Spec => []OutboxInv` |
| | `TypeCorrect` | `Spec => []TypeOK` |
| | `AlwaysClaimedByOne` | `Spec => []ClaimedByOne` |
| | `ImplementsDelivery` | `Spec => DeliversAsPromised` |
| `StoreProofs` | `StoreInvariant` | `Spec => []StoreInv` |
| | `MovementsFormChain` | `Spec => []MovementsChain` |
| | `AdjustmentsLeaveTheCount` | `Spec => []AdjustedToCount` |
| `ShopProofs` | `ShopInvariant` | `Spec => []ShopInv` |
| | `Types` | `Spec => []TypeOK` |
| | `LotsHoldTheBalance` | `Spec => []LotsMatchBalance` |
| | `SoldAndReturnedOnce` | `Spec => []SoldIsOrdered` |
| | `QuotaIsNotOversold` | `Spec => []PromoWithinQuota` |
| | `PricesFormChain` | `Spec => []PricesChain` |
| | `CollaboratorsPayNoMore` | `Spec => []CollaboratorPaysNoMore` |
| | `ShopImplementsWarehouse` | `Spec => SellsAsPromised` |
| `AccountsProofs` | `AccountsInvariant` | `Spec => []AccountsInv` |
| | `AccountsTypeOK` | `Spec => []TypeOK` |
| | `AdministratorRemains` | `Spec => []AnAdminRemains` |
| | `RolesAreSingle` | `Spec => []OneInternalRole` |
| | `SecretsProved` | `Spec => []EnabledSecretProved` |
| | `LimitsFormChain` | `Spec => []LimitsChain` |
| `MaintenanceProofs` | `MaintenanceInvariant` | `Spec => []MaintenanceInv` |
| | `MaintenanceTypeOK` | `Spec => []TypeOK` |
| | `NoticesAreBounded` | `Spec => []NoticesPerWorker` |
| | `InstalmentsAddUp` | `Spec => []PartsAddUp` |
| | `MonthsAreClosedInTime` | `Spec => []ClosedInTime` |
| | `PaidInvoicesStayPaid` | `Spec => PaidStaysPaid` |
| | `OffersCanBeSelected` | `Spec => [](FewHolidays => OfferedIsSelectable)` |

**Ledger.** None of the safety properties is inductive alone: a state in which a closing
holds a list of entries that is no longer the period's satisfies them and leads
to one that does not. `LedgerInv` adds what the locks give: `MutexOK` (no two
conflicting locks on a row), `Control` (which requests are at which statement
and what they know), `PeriodHeld` (a checkout about to commit has its period
locked and open, or inserts it), `NextHeld` (it is the only one to insert a
period for the customer), `ClosingHeld` (a closing keeps its period open, without
invoice and with the entries it has read), `SeenExists` and `InvoiceHeld` (the
checks made under the lock of the invoice hold until the commit). The step
proof has one lemma per action; the lemmas on locks (`GiveLocks...`) show
that taking and releasing rows keeps `MutexOK` and what other sessions hold.
For `CompatibleLockOrders` every row has a rank (order, invoice and the other rows
of a request 1, customer 2, period 3, the place of a new period in the index 4), and
`LocksInOrder` says that a session that is neither a cancellation nor a payment
holds rows below the rank it waits for only. A chain of waits among such sessions
then climbs from rank to rank and cannot close.

**The money of the ledger.** `AccountInv` says what the sessions know of the money:
a checkout that its order is new, a cancellation that its order is confirmed and,
once it has read the period, that the order is charged there (`KnowsOrder`,
`KnowsCharge`), a payment that its amount is what the instalment owes (`KnowsDue`);
and what that makes of the rows: an order has one charge and, when it is cancelled,
one credit (`ChargedOnce`, `CreditedOnce`), the entries of a period add up to its
purchases without credit less the credits carried into it (`Balanced`).
`ExposureIsExplained` takes the counter apart over it: `Worth` is the sum of the
unbilled entries, of what the invoices still ask for and of the credits that were
carried, each commit moves it by exactly what it adds to the counter
(`Explained`), and as it is no negative number (`Solvent`) the `GREATEST(0, ...)` of the
code never clips. Both stop when a credit is lost or an invoice credited below
what was paid, the two causes that `ExposureExplained` names; the lost credits are
the finding of `ledger_lost_credit`.

**Sums.** `SumFunctionOnSet` is a recursion, and a theorem about it needs an
induction. `Sums` does it without the library's induction rules, which take an
operator: the smaller of two counterexamples exists because the proper subsets of
a finite set are well-founded (`SetInduction`), so two solutions of the recursion
agree (`SumUnique`), and one exists. From there on the sums are used by what an
element that comes (`SumAdd`), goes (`SumRemove`), changes (`SumChange`) or is one of
several (`SumUnion`) does to them.

**Pix.** `PixInv` is `TypeOK`, `MutexOK` and what the sessions and the tables say of
each other. A session that holds the plan or an instalment knows what it has read
of it (`SelectOK`, `ResetOK`, `WebhookOK`, ...). The tables have an event and a charge for every
payment and a payment for every paid instalment (`PaymentsOK`), a row for every
charge (`ChargesOK`), and a plan that is divided into k parts of which the first
n - 1 are paid, the n-th is up and the rest wait (`PlanOK`). The last is why the first
scheduled instalment is the one to open after a payment. For the refinement
a commit that selects is `Choose` of `Collection`, one that resets `Withdraw`, one that pays the n-th
instalment collects its part, and all the others leave its variables alone.
`Booked` adds that what the invoice has been paid is the sum of the payments.

**Outbox.** `OutboxInv` is `TypeOK` and `ClaimedByOne` together: the second needs that a
worker has locks only while it claims and a batch only while it handles, which is
in the first; the first needs that nobody else settles the item at hand, which is
in the second. For the refinement each action is a step of `Delivery` or leaves
its variables alone: a claim is `Take`, a settlement `Release`, a settlement that
fails `Release` with the outcome "lost", a crash `Stop`.

**Store.** A movement row is written at the commit from the balance that was read
several statements before. `StoreInv` says why that is right: `BalanceMutex` (no two
sessions have the balance of one item locked) and `SessionOK`, whose part `Taken`
says that a line that is done with has its balance locked, equal to what the
session remembers and enough for the movement, and whose part `Counted` says that
the difference an adjustment goes on with is that of its count to the locked
balance. `TablesOK` and the two properties complete it.

**The shop.** `ShopInv` extends this to the other rows a request of `Store` locks and
writes later. What was read of a product is the same until the checkout or the change of price that
locked it ends (`Priced`, `PriceRead`), an order that is being placed does not
exist and one that is being cancelled is confirmed with the same lines
(`OrderTaken`), and the lots that were read are still the first ones of the item, new
ones having come behind them only, and enough for what is taken (`LotsTaken`): therefore
taking them at the commit, first in first out, takes all of the quantity, and `LotsMatchBalance` follows
although entries never wait for the lots. `RowRead` says of an edit that
a quota it does not change is written back as it was read, or as none; `Quotas` counts what that restores. What left by sales
is compared to the orders with the lemmas of `Sums` (`SoldIsOrdered`).
`CollaboratorPaysNoMore` needs that rounding and the price of a cost are monotone.

For the refinement of `Warehouse` most steps change nothing it sees (`Unseen`,
`CartUnseen`, `RequestUnseen`, `StatementUnseen`); the three commits do. A checkout
that has all its lines holds the balance of each, knows it, and has found it enough
(`Taken` of `StoreInv`, now with what a request asks of its items in `RequestOK`),
and its key has no order: it is `Place` (`CheckoutPlaces`). A cancellation has
its order confirmed and locked, with the lines it read: it is `Cancel`
(`CancellationGivesBack`), where a second one would have to start from an order
that is not cancelled. A movement concerns one item, whose balance it holds: it
is `Move` (`MovementMoves`).

**Accounts.** A request acts on what it read several statements before, so
`AccountsInv` says what each session still knows. `Types` (the rows, and `RequestOK`:
what the position of a request in its handler says of its user and argument, for
instance that the secret an `EnableMFA` is about to write is one the user has
shown a code of) is proved first, people, papers, requests and locks in turn.
`SingleRoles` adds that the session between DELETE and INSERT of an uncrossed
user is the only one and has seen every row there is. `Guarded` adds that as long
as `unguarded` is false one session at most changes the staff, and that past the
count it knows of another active administrator (or gives the role, or
activates): whoever made the request when it did not count. The step proof
separates the steps that leave all this alone (`Quiet`) from those that do not.

`LimitsChain` has an invariant of its own, `LimitInv`, proved from `AccountsInv`:
two sessions never hold the same customer, a session between the two statements of
`ChangeLimit` (or of `VerifyEmail`, for a pending customer) holds the customer and
still has the limit (the status) it read, an approved customer is not pending any
more, and the rows of the history with the approval lead to the limit (`LimitOK`).
A step moves the limit of one customer in one of four ways (`LimitMoves`: nothing,
a new customer, an approval, a row of history), and each keeps the chain; the last
row of its kind is found by induction over the rows (`NatInductionOnSet` of `Sums`,
which is about sets and not about operators).

**Maintenance.** `MaintenanceInv` has four parts. `TablesOK`: an invoice with a pending
plan has no instalments and the due day of its closing, any other has instalments
that add up to it, and what it has been paid is the sum of the paid ones (`PeriodOK`).
Each action changes the rows of a period in one of a few ways (`RowSteps`: nothing, a
closing, a plan, a payment, marks), and each keeps `PeriodOK`; that the parts add up
is `DistributeAdds`, by induction over the number of parts that got a cent
of the remainder. That their dates are days rests on two facts about `Schedule`, which chooses:
every day lies in one month (`MonthFound`), and of the days tried the first
business day exists (`BusinessDayFound`). `WorkersOK`: whoever reminds or
escalates has listed invoices, which are never taken back (`InvoiceStays`).
`NoticesOK`: the notices published about an invoice and the workers that still list
it are together no more than the workers, because a worker lists it only as long as
it is not marked, and then nothing has been published: whoever publishes marks
it in the same transaction. `TimeOK`: as long as nobody has failed, on the day of the
closing every worker is about to look for open periods, or has this one in its list,
and time does not pass before they have gone through it.

**Options and calendar.** `OffersCanBeSelected` compares two computations the code
makes apart from each other: the options shown come from a division of the total by the minimum
of the snapshot (`MaxCountBounds`), while a selection distributes the total,
compares the first part with that minimum (`PartsLarge`) and computes the dates. These
exist because the months of the model reach that far and a business
day comes within the days tried (`PlanHasDates`). That needs the hypothesis
`FewHolidays`: no stretch of a year has 52 holidays. Without it the property is
false of the code: with every day of a year marked as a holiday, options would be
shown and no date be found. Under it, one of the Mondays of the year is
no holiday, as there are 52 of them (`BusinessDayAhead`). That a plan not yet
selected still owes the whole invoice is `PendingOwesAll`, from `PeriodOK`.

**Only model-checked.** Every safety property and every refinement that a passing run checks is a
theorem, `OfferedIsSelectable` under `FewHolidays`. Liveness
(`PaymentsRecordedWhileOpen`, `EventsSettle`, `UnpaidChased`) is out of the prover's
reach and stays with TLC, as do the properties that a run shows violated.

## Observations

Found while modelling. They are behaviour of the modelled code, some of it
perhaps intended; the models have each of them, and the properties are stated
around those that matter.

- A cancelled order of a paid invoice is carried to the open period, and the
  exposure is not lowered (`order_cancel_billing.go:68`): it stays above what is
  owed. `ExposureExplained` counts exactly these credits.
- A purchase goes to the open period, also when that is of the month before
  (`billing/service.go:27`).
- A checkout queued behind a closing sees neither the old period open nor the new
  one, and fails on the unique index (`AwaitPeriod`, then no `InsertPeriod`).
- Two requests at once make two live charges of an instalment; only one can be
  booked. Once a charge of it has expired, or it is overdue, an instalment can get
  no further charge.
- The loop of the closing stops at its first error, and the maintenance of a day
  that failed is noted as done. A period that was empty on the first is never
  asked for again by the worker.
- A claim whose worker stops stays claimed. An event is tried once more than its
  limit says, because the attempts are read before they are counted.
- Dates entered through the API are midnight UTC and stored a day early.
- `UpdateProduct` writes back the promotion quota it has read, sold units included.
- A cart may be ordered twice with two keys; two requests may create two active
  carts; what is put into a cart during its checkout is lost.
- An adjustment of an item without a balance row locks nothing and adds its
  difference to a concurrent entry.
- `RoundSalePriceCents` makes a price below 25 cents 0; a manual price is shown in
  the catalog, but a line is charged by cost and margin; a cancellation does not recalculate
  prices.
- Two overlapping staff changes may leave no active administrator, and two
  crossing replacements of a role two roles. An accepted invitation may demote an
  administrator and makes a disabled user active; the verification of an e-mail makes the user active
  whatever the status.
- An approval by verification leaves no row in the history of limits; concurrent
  resends leave two live tokens; concurrent wrong passwords count once.

## Not modelled

See `PROJECT.json`, "components". Reports, forecasting, billing views and the audit
log read or append and no decision depends on them; HTTP translation, mail contents, password,
token and JWT contents, signatures, images and categories carry no state of a property; clients and deployment
are outside the program. Left out of modelled parts: profile edits, collaborator
categories (their margin is a constant), numbers of orders and invoices. The
connection pool is not modelled: whether checkouts that hold a connection and ask
for another meet in sufficient number depends on its size and on the load.
The modules are not composed into one specification: the product of `Ledger`, `Pix` and
`Store` is out of TLC's reach, and their interface is described under "Modules".
