------------------------------ MODULE Maintenance ------------------------------
(***************************************************************************)
(* The daily maintenance of the worker processes (monthly closing,         *)
(* reminders, escalations, overdue marking) and what it works on: invoices *)
(* with their plans, whose dates come from the calendar and whose terms    *)
(* come from the policy (cmd/worker, jobs/runner.go, package billing).     *)
(*                                                                         *)
(* Each transaction of a worker is one action; what other sessions do      *)
(* inside such transactions is the subject of Ledger and Pix, and the      *)
(* delivery of the mails that are published here is that of Outbox.  Time  *)
(* is counted in half-days (now \div 2 is the day in Sao Paulo) and passes *)
(* over the instants of the constant Instants.  A worker polls every few   *)
(* seconds, so time passes only when no worker that is up has work to do.  *)
(***************************************************************************)
EXTENDS Schedule, FiniteSetsExt, Functions

CONSTANTS
  WorkerId,       \* worker processes
  Period,         \* billing periods of as many customers
  RefMonth,       \* [Period -> month]
  InvoiceTotal,   \* total_cents of each invoice
  Policies,       \* contents that an installment policy may be given
  DefaultPolicy,  \* the first version (migration 000008)
  CalendarInput,  \* <<day, is_business_day>> that an administrator may enter
  JobBatch,       \* how many jobs a worker claims at a time (Batch)
  Instants,       \* half-days at which something happens
  MaxUpsets,      \* bound: changes of the policy and of the calendar, crashes and
                  \* errors of the database, all together
  None            \* SQL NULL

Horizon == CHOOSE t \in Instants : \A u \in Instants : u <= t

ASSUME MaintenanceAssumption ==
  /\ IsFiniteSet(WorkerId) /\ WorkerId # {}
  /\ IsFiniteSet(Instants) /\ Instants \subseteq Nat /\ Instants # {}
  /\ RefMonth \in [Period -> Month]
  /\ \A p \in Period : MonthsLater(RefMonth[p], 1) \in Month
  /\ InvoiceTotal \in Nat \ {0}
  /\ DefaultPolicy \in Policies
  /\ CalendarInput \subseteq Int \X BOOLEAN
  /\ \A r \in Policies :
       /\ DOMAIN r = {"enabled", "minInvoice", "minInstallment", "maximum",
                      "interval", "afterDue", "adjust"}
       /\ r.enabled \in BOOLEAN /\ r.afterDue \in BOOLEAN /\ r.adjust \in BOOLEAN
       /\ r.minInvoice \in Nat \ {0} /\ r.minInstallment \in Nat \ {0}
       /\ r.maximum \in Nat \ {0} /\ r.interval \in Nat \ {0}
  /\ JobBatch \in Nat \ {0} /\ MaxUpsets \in Nat

\* The months of the model reach as far as the instalments of its invoices.
ASSUME MonthsReach ==
  \A p \in Period, r \in Policies : \A n \in 1 .. r.maximum :
    LET m == MonthsLater(MonthsLater(RefMonth[p], 1), MonthsToAdd(r.interval, n))
    IN  {m, MonthsLater(m, 1)} \subseteq Month

VARIABLES
  now,       \* half-days since day 0
  faults,    \* how many crashes and database errors there have been
  calendar,  \* table business_calendar
  policy,    \* terms of the active row of installment_policies
  bought,    \* [Period -> when the first purchase was made, or None]
  invoice,   \* [Period -> row of invoices with its plan, or None]
  insts,     \* [Period -> rows of invoice_installments, in order]
  notices,   \* [kind, period -> number of outbox events published]
  jobs,      \* number of pending mark_overdue jobs
  worker     \* [WorkerId -> what the process is doing]

billing == <<calendar, policy, bought, invoice, insts>>
vars == <<now, faults, billing, notices, jobs, worker>>

InvoiceStatus == {"open", "partially_paid", "overdue", "paid"}
InstStatus == {"scheduled", "open", "overdue", "paid"}
EventKind == {"invoice.closed", "invoice.payment_reminder", "invoice.payment_escalation"}

InvoiceRow == [paid : Nat, status : InvoiceStatus, closed : Nat, due : Int,
               reminded : BOOLEAN, escalated : BOOLEAN,
               plan : {"pending_selection", "active", "completed"}, terms : Policies]

InstRow == [due : Int, amount : Nat, status : InstStatus]

\* When the first purchase was made: before the day of the closing, or not.
PurchaseTime == {"in_month", "later"}

\* None is a value of its own.
ASSUME NoneIsApart == None \notin InvoiceRow \cup PurchaseTime

Pc == {"down", "idle", "close", "remind", "escalate",
       "overdue_installments", "overdue_invoices"}

\* todo: rows of a listing; last: lastMaintenance; held: jobs that are claimed and
\* come after the one at hand.
Starting == [pc |-> "idle", todo |-> {}, last |-> None, held |-> 0]

Day == now \div 2

\* How far administrators and failures have gone from the undisturbed run.
Upsets ==
  faults + Cardinality(DOMAIN calendar) + IF policy = DefaultPolicy THEN 0 ELSE 1

\* now::date, in the zone of the server, which is ahead in the evening.
ServerDates == IF now % 2 = 1 THEN {Day, Day + 1} ELSE {Day}

Init ==
  /\ now = CHOOSE t \in Instants : \A u \in Instants : t <= u
  /\ faults = 0
  /\ calendar = [d \in {} |-> TRUE]
  /\ policy = DefaultPolicy
  /\ bought = [p \in Period |-> None]
  /\ invoice = [p \in Period |-> None]
  /\ insts = [p \in Period |-> <<>>]
  /\ notices = [n \in EventKind \X Period |-> 0]
  /\ jobs = 0
  /\ worker = [w \in WorkerId |-> Starting]

-------------------------------------------------------------------------------
(* Customers and administrators.                                             *)

\* PublishOutbox, in the transaction of its caller
Published(kind, p) == [notices EXCEPT ![<<kind, p>>] = @ + 1]

FirstOfNextMonth(p) == MonthStart[MonthsLater(RefMonth[p], 1)]

\* Checkout: an entry in the open period.
Purchase(p) ==
  /\ invoice[p] = None /\ bought[p] = None
  /\ bought' = [bought EXCEPT ![p] = IF Day < FirstOfNextMonth(p) THEN "in_month" ELSE "later"]
  /\ UNCHANGED <<now, faults, calendar, policy, invoice, insts, notices, jobs, worker>>

\* The rows that closePeriodTx and createPendingPaymentPlanTx insert.
NewInvoice(p) ==
  [paid |-> 0, status |-> "open", closed |-> now, due |-> DueAtForCompetence(RefMonth[p]),
   reminded |-> FALSE, escalated |-> FALSE, plan |-> "pending_selection",
   terms |-> policy]

\* ClosePeriodWithType: a period that is closed, or empty, stays as it is.
Closes(p) == invoice[p] = None /\ bought[p] # None

ClosePeriod(p) ==
  IF Closes(p)
    THEN /\ invoice' = [invoice EXCEPT ![p] = NewInvoice(p)]
         /\ notices' = Published("invoice.closed", p)
    ELSE UNCHANGED <<invoice, notices>>

\* CloseCustomerOpenPeriod and the closing by an administrator
CloseByHand(p) ==
  /\ Closes(p)
  /\ ClosePeriod(p)
  /\ UNCHANGED <<now, faults, calendar, policy, bought, insts, jobs, worker>>

Remaining(p) ==
  IF InvoiceTotal > invoice[p].paid THEN InvoiceTotal - invoice[p].paid ELSE 0

Pending(p) == invoice[p] # None /\ invoice[p].plan = "pending_selection"

Late(p) == Day > invoice[p].due

\* mutant: the kill switch of the live policy is not looked at
PaymentOptionsSnapshot(p) == 1 .. MaxCount(Remaining(p), invoice[p].terms, invoice[p].terms.enabled)

\* GetPaymentOptions: the counts that are offered for a pending plan
PaymentOptions(p) == 1 .. MaxCount(Remaining(p), invoice[p].terms, policy.enabled)

\* The checks of SelectPaymentPlan, with the live policy and the snapshot.
Selectable(p, n) ==
  /\ Remaining(p) > 0
  /\ n <= MaxCount(Remaining(p), invoice[p].terms, policy.enabled)
  /\ n > 1 => /\ policy.afterDue \/ ~Late(p)
              /\ Distribute(Remaining(p), n)[1] >= invoice[p].terms.minInstallment
  /\ DatesExist(calendar, At(invoice[p].due), invoice[p].terms.interval, n)

SelectPlan(p, n) ==
  LET terms == invoice[p].terms
      dates == BuildInstallmentDueDates(calendar, At(invoice[p].due), terms.interval,
                                        terms.adjust, n)
      amounts == Distribute(Remaining(p), n)
  IN
  /\ Pending(p) /\ Selectable(p, n)
  /\ insts' = [insts EXCEPT ![p] =
       [i \in 1 .. n |-> [due |-> dates[i], amount |-> amounts[i],
                          status |-> IF i = 1 THEN "open" ELSE "scheduled"]]]
  /\ invoice' = [invoice EXCEPT ![p].plan = "active"]
  /\ UNCHANGED <<now, faults, calendar, policy, bought, notices, jobs, worker>>

\* The rows after instalment n is paid: the next scheduled one is opened.
PaidRows(p, n) ==
  [i \in DOMAIN insts[p] |->
     IF i = n THEN [insts[p][i] EXCEPT !.status = "paid"]
     ELSE IF i = n + 1 /\ insts[p][i].status = "scheduled"
       THEN [insts[p][i] EXCEPT !.status = "open"]
     ELSE insts[p][i]]

\* nextUnpaidInstallmentDueDateTx
UnpaidDates(p, n) ==
  {insts[p][i].due : i \in {j \in DOMAIN insts[p] : j # n /\ insts[p][j].status # "paid"}}

\* The invoice after instalment n is paid; its due day is that of the next one.
PaidInvoice(p, n) ==
  LET paid == invoice[p].paid + insts[p][n].amount
      rest == UnpaidDates(p, n)
  IN  [invoice[p] EXCEPT !.paid = paid,
                         !.status = IF paid >= InvoiceTotal THEN "paid" ELSE "partially_paid",
                         !.plan = IF rest = {} THEN "completed" ELSE @,
                         !.due = IF paid >= InvoiceTotal \/ rest = {} THEN @
                                 ELSE dueAtFromInstallmentDate(Min(rest))]

\* ApplyInstallmentPaymentTx: the payment of an open instalment, as the webhook
\* makes it.
PayInstallment(p, n) ==
  /\ n \in DOMAIN insts[p] /\ insts[p][n].status = "open"
  /\ insts' = [insts EXCEPT ![p] = PaidRows(p, n)]
  /\ invoice' = [invoice EXCEPT ![p] = PaidInvoice(p, n)]
  /\ UNCHANGED <<now, faults, calendar, policy, bought, notices, jobs, worker>>

\* The handler parses the date as midnight UTC.
UpsertCalendarDay(day, business) ==
  /\ Upsets < MaxUpsets
  /\ calendar' = UpsertRow(calendar, Date(day), business)
  /\ calendar' # calendar
  /\ UNCHANGED <<now, faults, policy, bought, invoice, insts, notices, jobs, worker>>

CreateInstallmentPolicyVersion(terms) ==
  /\ Upsets < MaxUpsets
  /\ policy' = terms
  /\ UNCHANGED <<now, faults, calendar, bought, invoice, insts, notices, jobs, worker>>

-------------------------------------------------------------------------------
(* The maintenance of a worker (cmd/worker/main.go, jobs/runner.go).         *)

At_(w, pc) == worker[w].pc = pc

Goto(w, pc) == worker' = [worker EXCEPT ![w].pc = pc]

\* More than 12 hours since the last; the last instant stands for all days
\* after it, on each of which the maintenance is done again.
MaintenanceDue(w) ==
  worker[w].last # None => now > worker[w].last \/ (now = Horizon /\ jobs = 0)

\* RunScheduledClosingIfDue, CloseOpenPeriodsForReference: on day 1 the open
\* periods of the month before are listed.
Wake(w) ==
  /\ At_(w, "idle") /\ MaintenanceDue(w)
  /\ worker' = [worker EXCEPT ![w] =
       [@ EXCEPT !.pc = "close",
                 !.todo = IF IsMonthlyClosingDay(Day)
                            THEN {p \in Period : invoice[p] = None
                                    /\ RefMonth[p] = PreviousMonth(MonthOf(Day))}
                            ELSE {}]]
  /\ UNCHANGED <<now, faults, billing, notices, jobs>>

Closing(w, p) ==
  /\ At_(w, "close") /\ p \in worker[w].todo
  /\ ClosePeriod(p)
  /\ worker' = [worker EXCEPT ![w].todo = @ \ {p}]
  /\ UNCHANGED <<now, faults, calendar, policy, bought, insts, jobs>>

\* The invoices that are unpaid so many half-days after their closing.
Unpaid(p, halfDays) ==
  /\ invoice[p] # None
  /\ invoice[p].status \in {"open", "overdue", "partially_paid"}
  /\ invoice[p].paid < InvoiceTotal
  /\ invoice[p].closed + halfDays <= now

\* A loop has ended when its listing is empty; the next statement is this query.
ListReminders(w) ==
  /\ At_(w, "close") /\ worker[w].todo = {}
  /\ worker' = [worker EXCEPT ![w] =
       [@ EXCEPT !.pc = "remind",
                 !.todo = {p \in Period : Unpaid(p, 4) /\ ~invoice[p].reminded}]]
  /\ UNCHANGED <<now, faults, billing, notices, jobs>>

\* mutant: the notice is published and the invoice is not marked
RemindUnmarked(w, p) ==
  /\ At_(w, "remind") /\ p \in worker[w].todo
  /\ notices' = Published("invoice.payment_reminder", p)
  /\ worker' = [worker EXCEPT ![w].todo = @ \ {p}]
  /\ UNCHANGED <<now, faults, billing, jobs>>

\* One transaction per invoice, which does not look at the invoice again.
Remind(w, p) ==
  /\ At_(w, "remind") /\ p \in worker[w].todo
  /\ notices' = Published("invoice.payment_reminder", p)
  /\ invoice' = [invoice EXCEPT ![p].reminded = TRUE]
  /\ worker' = [worker EXCEPT ![w].todo = @ \ {p}]
  /\ UNCHANGED <<now, faults, calendar, policy, bought, insts, jobs>>

\* mutant: an invoice that is already overdue is not listed
ListEscalationsOfOpen(w) ==
  /\ At_(w, "remind") /\ worker[w].todo = {}
  /\ worker' = [worker EXCEPT ![w] =
       [@ EXCEPT !.pc = "escalate",
                 !.todo = {p \in Period : /\ Unpaid(p, 6) /\ ~invoice[p].escalated
                                          /\ invoice[p].status # "overdue"}]]
  /\ UNCHANGED <<now, faults, billing, notices, jobs>>

ListEscalations(w) ==
  /\ At_(w, "remind") /\ worker[w].todo = {}
  /\ worker' = [worker EXCEPT ![w] =
       [@ EXCEPT !.pc = "escalate",
                 !.todo = {p \in Period : Unpaid(p, 6) /\ ~invoice[p].escalated}]]
  /\ UNCHANGED <<now, faults, billing, notices, jobs>>

\* mutant: the invoice is marked overdue although it has been paid meanwhile
EscalatedAlways(p) == [invoice[p] EXCEPT !.escalated = TRUE, !.status = "overdue"]

\* UPDATE ... WHERE paid_cents < total_cents; the mark is set in any case.
Escalated(p) ==
  [invoice[p] EXCEPT !.escalated = TRUE,
                     !.status = IF invoice[p].paid < InvoiceTotal THEN "overdue" ELSE @]

Escalate(w, p) ==
  /\ At_(w, "escalate") /\ p \in worker[w].todo
  /\ notices' = Published("invoice.payment_escalation", p)
  /\ invoice' = [invoice EXCEPT ![p] = Escalated(p)]
  /\ worker' = [worker EXCEPT ![w].todo = @ \ {p}]
  /\ UNCHANGED <<now, faults, calendar, policy, bought, insts, jobs>>

\* Enqueue; main notes the time of the maintenance.
EnqueueOverdue(w) ==
  /\ At_(w, "escalate") /\ worker[w].todo = {}
  /\ jobs' = jobs + 1
  /\ worker' = [worker EXCEPT ![w] = [@ EXCEPT !.pc = "idle", !.last = now]]
  /\ UNCHANGED <<now, faults, billing, notices>>

\* An error ends the maintenance, whose time is noted all the same.
MaintenanceFails(w) ==
  /\ worker[w].pc \in {"close", "remind", "escalate"}
  /\ Upsets < MaxUpsets
  /\ faults' = faults + 1
  /\ worker' = [worker EXCEPT ![w] =
                  [@ EXCEPT !.pc = "idle", !.todo = {}, !.last = now]]
  /\ UNCHANGED <<now, billing, notices, jobs>>

Maintenance(w) ==
  \/ Wake(w)
  \/ \E p \in Period : Closing(w, p) \/ Remind(w, p) \/ Escalate(w, p)
  \/ ListReminders(w)
  \/ ListEscalations(w)
  \/ EnqueueOverdue(w)

-------------------------------------------------------------------------------
(* The mark_overdue job (jobs/runner.go, Handler.Handle).                    *)

\* mutant: a job is taken although another worker has taken the last one
AcquireJobTaken(w) ==
  /\ At_(w, "idle") /\ ~MaintenanceDue(w)
  /\ jobs' = jobs - 1
  /\ Goto(w, "overdue_installments")
  /\ UNCHANGED <<now, faults, billing, notices>>

\* Acquire: a batch is claimed, and its jobs are done one after the other.
AcquireJob(w) ==
  LET batch == IF jobs < JobBatch THEN jobs ELSE JobBatch IN
  /\ At_(w, "idle") /\ ~MaintenanceDue(w)
  /\ jobs > 0 /\ jobs' = jobs - batch
  /\ worker' = [worker EXCEPT ![w] =
                  [@ EXCEPT !.pc = "overdue_installments", !.held = batch - 1]]
  /\ UNCHANGED <<now, faults, billing, notices>>

\* The loop of Tick goes on with the next job, also after one that failed.
JobEnds(w) ==
  LET r == worker[w] IN
  worker' = [worker EXCEPT ![w] =
    IF r.held > 0 THEN [r EXCEPT !.pc = "overdue_installments", !.held = r.held - 1]
                  ELSE [r EXCEPT !.pc = "idle"]]

Overdue(row, today) == row.status = "open" /\ row.due < today

\* MarkOverdueInstallments: the instalments, then the invoices that have one.
MarkInstallments(w, today) ==
  LET after == [p \in Period |-> [i \in DOMAIN insts[p] |->
                  IF Overdue(insts[p][i], today)
                    THEN [insts[p][i] EXCEPT !.status = "overdue"] ELSE insts[p][i]]]
  IN
  /\ At_(w, "overdue_installments") /\ today \in ServerDates
  /\ insts' = after
  /\ invoice' = [p \in Period |->
       IF /\ invoice[p] # None
          /\ invoice[p].status \in {"open", "partially_paid"}
          /\ \E i \in DOMAIN after[p] : after[p][i].status = "overdue"
         THEN [invoice[p] EXCEPT !.status = "overdue"] ELSE invoice[p]]
  /\ Goto(w, "overdue_invoices")
  /\ UNCHANGED <<now, faults, calendar, policy, bought, notices, jobs>>

\* MarkOverdueInvoices, the second statement, and the end of the job
MarkInvoices(w) ==
  /\ At_(w, "overdue_invoices")
  /\ invoice' = [p \in Period |->
       IF /\ invoice[p] # None
          /\ invoice[p].status \in {"open", "partially_paid"}
          /\ Late(p) /\ invoice[p].paid < InvoiceTotal
         THEN [invoice[p] EXCEPT !.status = "overdue"] ELSE invoice[p]]
  /\ JobEnds(w)
  /\ UNCHANGED <<now, faults, calendar, policy, bought, insts, notices, jobs>>

\* Fail: the job is pending again, and what its first statement did stays.
JobFails(w) ==
  /\ worker[w].pc \in {"overdue_installments", "overdue_invoices"}
  /\ Upsets < MaxUpsets
  /\ faults' = faults + 1
  /\ jobs' = jobs + 1
  /\ JobEnds(w)
  /\ UNCHANGED <<now, billing, notices>>

Job(w) ==
  \/ AcquireJob(w)
  \/ \E today \in ServerDates : MarkInstallments(w, today)
  \/ MarkInvoices(w)

-------------------------------------------------------------------------------
(* Crashes, restarts and time.                                               *)

\* What the process held is forgotten: nothing takes up its claims again.
Crash(w) ==
  /\ ~At_(w, "down") /\ Upsets < MaxUpsets
  /\ faults' = faults + 1
  /\ worker' = [worker EXCEPT ![w] = [Starting EXCEPT !.pc = "down"]]
  /\ UNCHANGED <<now, billing, notices, jobs>>

Restart(w) ==
  /\ At_(w, "down")
  /\ worker' = [worker EXCEPT ![w] = Starting]
  /\ UNCHANGED <<now, faults, billing, notices, jobs>>

Asleep(w) ==
  \/ At_(w, "down")
  \/ At_(w, "idle") /\ ~MaintenanceDue(w) /\ jobs = 0

Advance ==
  /\ \A w \in WorkerId : Asleep(w)
  /\ \E t \in Instants : /\ t > now /\ \A u \in Instants : u > now => t <= u
                         /\ now' = t
  /\ UNCHANGED <<faults, billing, notices, jobs, worker>>

\* The requests: a customer closes the cycle, an administrator closes periods; a
\* customer chooses a number of instalments; administrators edit policy and calendar.
ClosePeriods == \E p \in Period : CloseByHand(p)

SelectMyPaymentPlan == \E p \in Period, n \in 1 .. InvoiceTotal : SelectPlan(p, n)

PutInstallmentPolicy == \E terms \in Policies : CreateInstallmentPolicyVersion(terms)

UpsertCalendar == \E input \in CalendarInput : UpsertCalendarDay(input[1], input[2])

Next ==
  \/ \E p \in Period : Purchase(p)
  \/ \E p \in Period, n \in 1 .. InvoiceTotal : PayInstallment(p, n)
  \/ ClosePeriods \/ SelectMyPaymentPlan \/ PutInstallmentPolicy \/ UpsertCalendar
  \/ \E w \in WorkerId : \/ Maintenance(w) \/ MaintenanceFails(w)
                         \/ Job(w) \/ JobFails(w)
                         \/ Crash(w) \/ Restart(w)
  \/ Advance

Spec == Init /\ [][Next]_vars

\* As long as a worker has something to do, or is down and is started again by its
\* supervisor, some worker goes on; and time passes.  No worker in particular is
\* owed a step; faults, customers and administrators owe nothing.
FairSpec ==
  /\ Spec
  /\ WF_vars(\E w \in WorkerId : Maintenance(w) \/ Job(w) \/ Restart(w))
  /\ WF_vars(Advance)

-------------------------------------------------------------------------------
\* The rows keep their columns' types; a worker has listed rows that exist.
TypeOK ==
  /\ now \in Instants
  /\ faults \in 0 .. MaxUpsets
  /\ calendar \in [DOMAIN calendar -> BOOLEAN]
  /\ policy \in Policies
  /\ bought \in [Period -> PurchaseTime \cup {None}]
  /\ invoice \in [Period -> InvoiceRow \cup {None}]
  /\ insts \in [Period -> Seq(InstRow)]
  /\ notices \in [EventKind \X Period -> Nat]
  /\ jobs \in Nat
  /\ worker \in [WorkerId -> [pc : Pc, todo : SUBSET Period, last : Instants \cup {None},
                              held : Nat]]
  /\ \A w \in WorkerId : worker[w].pc \in {"remind", "escalate"}
       => \A p \in worker[w].todo : invoice[p] # None

\* Listing and marking are separate transactions and neither locks the invoice:
\* an invoice may be reminded and escalated once by each worker, not more
\* (processPaymentReminders, processPaymentEscalations), and is closed once.
NoticesPerWorker ==
  \A p \in Period :
    /\ notices[<<"invoice.closed", p>>] <= 1
    /\ notices[<<"invoice.payment_reminder", p>>] <= Cardinality(WorkerId)
    /\ notices[<<"invoice.payment_escalation", p>>] <= Cardinality(WorkerId)

\* A period with purchases before the day of the closing is invoiced when that
\* day is over, unless a worker has failed (RunScheduledClosingIfDue).
ClosedInTime ==
  \A p \in Period :
    /\ faults = 0
    /\ Day > FirstOfNextMonth(p) /\ FirstOfNextMonth(p) \in {t \div 2 : t \in Instants}
    /\ bought[p] = "in_month"
    => invoice[p] # None

\* The instalments of a plan add up to what was divided, to the cent, and what
\* the invoice has received is what its paid instalments add up to
\* (DistributeInstallmentAmounts, ApplyInstallmentPaymentTx).
PartsAddUp ==
  \A p \in Period :
    LET amount == [i \in DOMAIN insts[p] |-> insts[p][i].amount]
        paidParts == {i \in DOMAIN insts[p] : insts[p][i].status = "paid"}
    IN  /\ insts[p] # <<>> => SumFunctionOnSet(amount, DOMAIN insts[p]) = InvoiceTotal
        /\ invoice[p] # None => invoice[p].paid = SumFunctionOnSet(amount, paidParts)

\* Until the due day, the counts that are offered are the counts that can be
\* selected, whatever happened to the policy since the closing
\* (GetPaymentOptions, SelectPaymentPlan).
OfferedIsSelectable ==
  \A p \in Period : Pending(p) /\ ~Late(p) =>
    PaymentOptions(p) = {n \in 1 .. InvoiceTotal : Selectable(p, n)}

\* No step of a worker, however stale its listing, makes a paid invoice owed.
PaidStaysPaid ==
  [][\A p \in Period : invoice[p] # None /\ invoice[p].status = "paid"
       => invoice'[p] # None /\ invoice'[p].status = "paid"]_vars

Chased(p) == invoice[p] # None /\ (invoice[p].status = "paid" \/ invoice[p].escalated)

\* An invoice that is unpaid three days after its closing is escalated or paid
\* in the end, whatever crashes and errors there were (processPaymentEscalations).
UnpaidChased == \A p \in Period : Unpaid(p, 6) ~> Chased(p)

\* docs/parcelas.md, and the comment of NextBusinessDay: an instalment is due on a
\* business day, from the due day of the invoice on.
InstallmentDueOnBusinessDay ==
  \A p \in Period :
    (insts[p] # <<>> /\ invoice[p].terms.adjust /\ calendar = [d \in {} |-> TRUE]) =>
      /\ insts[p][1].due >= DueAtForCompetence(RefMonth[p])
      /\ \A i \in DOMAIN insts[p] : ~Weekend(insts[p][i].due)
===============================================================================
