--------------------------- MODULE MaintenanceProofs ---------------------------
(***************************************************************************)
(* Proofs about Maintenance, for any number of workers and periods and any *)
(* calendar: the types, the instalments of an invoice, the notices that    *)
(* are published about it, and that it is closed in time.                  *)
(***************************************************************************)
EXTENDS Maintenance, TLAPS, Sums

AmountsOf(p) == [i \in DOMAIN insts[p] |-> insts[p][i].amount]

PaidPartsOf(p) == {i \in DOMAIN insts[p] : insts[p][i].status = "paid"}

\* The parts of the invoice of p are what was divided, and the paid ones what
\* has come in.
AddsUp(p) ==
  /\ insts[p] # <<>> => SumFunctionOnSet(AmountsOf(p), DOMAIN insts[p]) = InvoiceTotal
  /\ invoice[p] # None => invoice[p].paid = SumFunctionOnSet(AmountsOf(p), PaidPartsOf(p))

\* An invoice has a plan that is pending, with the due day of the closing, or instalments.
PeriodOK(p) ==
  /\ invoice[p] \in InvoiceRow \cup {None} /\ insts[p] \in Seq(InstRow)
  /\ insts[p] # <<>> <=> invoice[p] # None /\ invoice[p].plan # "pending_selection"
  /\ Pending(p) => invoice[p].due = DueAtForCompetence(RefMonth[p])
  /\ invoice[p] # None /\ invoice[p].status = "paid" => invoice[p].paid >= InvoiceTotal
  /\ AddsUp(p)

TablesOK ==
  /\ now \in Instants /\ faults \in 0 .. MaxUpsets /\ jobs \in Nat
  /\ calendar \in [DOMAIN calendar -> BOOLEAN] /\ IsFiniteSet(DOMAIN calendar)
  /\ policy \in Policies
  /\ bought \in [Period -> PurchaseTime \cup {None}]
  /\ DOMAIN invoice = Period /\ invoice = [p \in Period |-> invoice[p]]
  /\ DOMAIN insts = Period /\ insts = [p \in Period |-> insts[p]]
  /\ \A p \in Period : PeriodOK(p)

WorkerRow == [pc : Pc, todo : SUBSET Period, last : Instants \cup {None}, held : Nat]

WorkersOK ==
  /\ worker \in [WorkerId -> WorkerRow]
  /\ \A w \in WorkerId : worker[w].pc \in {"remind", "escalate"}
       => \A p \in worker[w].todo : invoice[p] # None

\* The workers that will still publish a notice about p.
Listed(pc, p) == {w \in WorkerId : worker[w].pc = pc /\ p \in worker[w].todo}

OncePerWorker(kind, pc, p) ==
  notices[<<kind, p>>] + Cardinality(Listed(pc, p)) <= Cardinality(WorkerId)

NoticesOK ==
  /\ notices \in [EventKind \X Period -> Nat]
  /\ \A p \in Period :
       /\ notices[<<"invoice.closed", p>>] = IF invoice[p] = None THEN 0 ELSE 1
       /\ notices[<<"invoice.payment_reminder", p>>] > 0 => invoice[p] # None /\ invoice[p].reminded
       /\ notices[<<"invoice.payment_escalation", p>>] > 0 => invoice[p] # None /\ invoice[p].escalated
       /\ OncePerWorker("invoice.payment_reminder", "remind", p)
       /\ OncePerWorker("invoice.payment_escalation", "escalate", p)

\* On the day of the closing w will still come to p.
WillClose(w, p) ==
  \/ worker[w].pc = "idle" /\ worker[w].last # now
  \/ worker[w].pc = "close" /\ p \in worker[w].todo

ClosingDays == {t \div 2 : t \in Instants}

\* With purchases of the month, and no invoice yet.
Unbilled(p) == bought[p] = "in_month" /\ invoice[p] = None

\* As long as no worker has failed, every worker comes to an open period on the day
\* of its closing; after that day, none is open.
InTime(p) ==
  faults = 0 /\ Unbilled(p) =>
    /\ Day = FirstOfNextMonth(p) => \A w \in WorkerId : WillClose(w, p)
    /\ Day > FirstOfNextMonth(p) => FirstOfNextMonth(p) \notin ClosingDays

TimeOK ==
  /\ \A w \in WorkerId : worker[w].last # None => worker[w].last <= now
  /\ faults = 0 => \A w \in WorkerId : worker[w].pc # "down"
  /\ \A p \in Period : InTime(p)

MaintenanceInv == TablesOK /\ WorkersOK /\ NoticesOK /\ TimeOK

-------------------------------------------------------------------------------
(* Dates and amounts.                                                        *)

\* The month after a month, and back.
LEMMA MonthAfter ==
  ASSUME NEW m \in Int \X (1 .. 12)
  PROVE  /\ MonthsLater(m, 1) \in Int \X (1 .. 12)
         /\ 12 * MonthsLater(m, 1)[1] + MonthsLater(m, 1)[2] = 12 * m[1] + m[2] + 1
         /\ PreviousMonth(MonthsLater(m, 1)) = m
<1>1. PICK y \in Int, k \in 1 .. 12 : m = <<y, k>>
  OBVIOUS
<1>2. CASE k = 12
  <2>1. MonthsLater(m, 1) = <<y + 1, 1>>
    BY <1>1, <1>2 DEF MonthsLater
  <2> QED
    BY <1>1, <1>2, <2>1 DEF PreviousMonth
<1>3. CASE k < 12
  <2>1. MonthsLater(m, 1) = <<y, k + 1>>
    BY <1>1, <1>3 DEF MonthsLater
  <2> QED
    BY <1>1, <1>3, <2>1 DEF PreviousMonth
<1> QED
  BY <1>2, <1>3

\* A day that is not before all months has a month.
LEMMA MonthFound ==
  ASSUME NEW day \in Int, NEW k \in Month, MonthStart[k] <= day
  PROVE  /\ MonthOf(day) \in Month /\ MonthStart[MonthOf(day)] <= day
         /\ MonthsLater(MonthOf(day), 1) \in Month
              => day < MonthStart[MonthsLater(MonthOf(day), 1)]
<1> DEFINE begun == {m \in Month : MonthStart[m] <= day}
           ages == {day - MonthStart[m] : m \in begun}
<1>1. \A m \in Month : m \in Int \X (1 .. 12) /\ MonthStart[m] \in Nat
  BY ScheduleAssumption
<1>2. ages \in SUBSET Nat /\ ages # {}
  <2>1. \A m \in begun : day - MonthStart[m] \in Nat
    BY <1>1
  <2>2. k \in begun
    OBVIOUS
  <2> HIDE DEF begun
  <2> QED
    BY <2>1, <2>2
<1>3. PICK a \in ages : \A b \in ages : a <= b
  BY <1>2, NatMin
<1>4. PICK m \in begun : a = day - MonthStart[m]
  OBVIOUS
<1>5. ASSUME MonthsLater(m, 1) \in Month PROVE day < MonthStart[MonthsLater(m, 1)]
  <2>1. m \in Int \X (1 .. 12) /\ m[1] \in Int /\ m[2] \in Int
    BY <1>1
  <2>2. 12 * m[1] + m[2] < 12 * MonthsLater(m, 1)[1] + MonthsLater(m, 1)[2]
    BY <2>1, MonthAfter
  <2>3. MonthStart[m] < MonthStart[MonthsLater(m, 1)]
    <3>1. m \in Month
      OBVIOUS
    <3> HIDE DEF begun, ages
    <3> QED
      BY <1>5, <2>2, <3>1, ScheduleAssumption
  <2>4. MonthStart[m] \in Nat /\ MonthStart[MonthsLater(m, 1)] \in Nat
    BY <1>1, <1>5
  <2> SUFFICES ASSUME MonthStart[MonthsLater(m, 1)] <= day PROVE FALSE
    BY <2>4
  <2>5. day - MonthStart[MonthsLater(m, 1)] \in ages
    BY <1>5
  <2> HIDE DEF begun, ages
  <2>6. a <= day - MonthStart[MonthsLater(m, 1)]
    BY <1>3, <2>5
  <2> QED
    BY <1>4, <2>3, <2>4, <2>6
<1>6. /\ m \in Month /\ MonthStart[m] <= day
      /\ MonthsLater(m, 1) \in Month => day < MonthStart[MonthsLater(m, 1)]
  BY <1>5
<1> HIDE DEF begun, ages
<1> QED
  BY <1>6 DEF MonthOf

\* The first day of a month is in that month.
LEMMA MonthOfFirstDay ==
  ASSUME NEW m \in Month
  PROVE  MonthOf(MonthStart[m]) = m
<1> PICK k : k = MonthOf(MonthStart[m])
  OBVIOUS
<1>1. \A j \in Month : j \in Int \X (1 .. 12) /\ MonthStart[j] \in Nat
  BY ScheduleAssumption
<1>2. /\ k \in Month /\ MonthStart[k] <= MonthStart[m]
      /\ MonthsLater(k, 1) \in Month => MonthStart[m] < MonthStart[MonthsLater(k, 1)]
  BY <1>1, MonthFound
<1> DEFINE at(j) == 12 * j[1] + j[2]
<1>3. ~(at(m) < at(k))
  <2>1. at(m) < at(k) => MonthStart[m] < MonthStart[k]
    BY <1>2, ScheduleAssumption
  <2> QED
    BY <1>1, <1>2, <2>1
<1>4. ~(at(k) < at(m))
  <2> SUFFICES ASSUME at(k) < at(m) PROVE FALSE
    OBVIOUS
  <2> PICK n : n = MonthsLater(k, 1)
    OBVIOUS
  <2>1. n \in Month
    BY <1>2, ScheduleAssumption
  <2>2. at(n) = at(k) + 1
    BY <1>1, <1>2, MonthAfter
  <2>3. at(k) \in Int /\ at(m) \in Int /\ at(n) \in Int
    BY <1>1, <1>2, <2>1
  <2>4. MonthStart[m] < MonthStart[n]
    BY <1>2, <2>1
  <2>5. CASE at(n) < at(m)
    <3>1. MonthStart[n] < MonthStart[m]
      BY <2>1, <2>5, ScheduleAssumption
    <3> QED
      BY <1>1, <2>1, <2>4, <3>1
  <2>6. CASE at(n) = at(m)
    <3>1. n = m
      BY <1>1, <2>1, <2>6
    <3> QED
      BY <1>1, <2>4, <3>1
  <2> QED
    BY <2>2, <2>3, <2>5, <2>6
<1> QED
  BY <1>1, <1>2, <1>3, <1>4

\* Where one of the days tried is a business day, the first of them is found.
LEMMA BusinessDayFound ==
  ASSUME NEW cal, NEW day \in Int,
         {d \in Tried(Date(day)) : IsBusinessDay(cal, Date(d))} # {}
  PROVE  NextBusinessDay(cal, Date(day)) \in Int
<1> DEFINE first == LocalDay(Date(day))
           found == {d \in Tried(Date(day)) : IsBusinessDay(cal, Date(d))}
           waits == {d - first : d \in found}
<1>1. first \in Int /\ Tried(Date(day)) = first .. first + 365
  BY DEF LocalDay, Date, Tried
<1> HIDE DEF first
<1>2. waits \in SUBSET Nat /\ waits # {}
  BY <1>1
<1>3. PICK a \in waits : \A b \in waits : a <= b
  BY <1>2, NatMin
<1>4. PICK d \in found : a = d - first
  OBVIOUS
<1>5. ASSUME NEW e \in first .. d - 1, IsBusinessDay(cal, Date(e)) PROVE FALSE
  <2>1. d \in Int /\ d <= first + 365
    BY <1>1
  <2>2. e \in found
    BY <1>1, <1>5, <2>1
  <2>3. e - first \in waits
    BY <2>2
  <2> HIDE DEF found, waits
  <2>4. a <= e - first
    BY <1>3, <2>3
  <2> QED
    BY <1>1, <1>4, <2>1, <2>4
<1>6. d \in Tried(Date(day)) /\ IsBusinessDay(cal, Date(d))
  OBVIOUS
<1>7. Tried(Date(day)) \subseteq Int
  BY <1>1
<1> HIDE DEF found, waits
<1>8. \E x \in Tried(Date(day)) :
        IsBusinessDay(cal, Date(x)) /\ \A e \in LocalDay(Date(day)) .. x - 1 : ~IsBusinessDay(cal, Date(e))
  BY <1>5, <1>6 DEF first
<1> QED
  BY <1>7, <1>8 DEF NextBusinessDay

\* The dates of the instalments are days.
LEMMA DatesTyped ==
  ASSUME NEW cal, NEW due \in Int, NEW k \in Month, MonthStart[k] <= due,
         NEW interval, NEW adjust \in BOOLEAN, NEW count \in Nat,
         DatesExist(cal, At(due), interval, count)
  PROVE  \A n \in 1 .. count :
           BuildInstallmentDueDates(cal, At(due), interval, adjust, count)[n] \in Int
<1> SUFFICES ASSUME NEW n \in 1 .. count
             PROVE  BuildInstallmentDueDates(cal, At(due), interval, adjust, count)[n] \in Int
  OBVIOUS
<1> PICK raw : raw = RawDueDate(At(due), interval, n)
  OBVIOUS
<1>1. calendarDateOnly(At(due)).day = due
  BY DEF calendarDateOnly, Date, At, LocalDay
<1> PICK m : m = MonthsLater(MonthOf(due), MonthsToAdd(interval, n))
  OBVIOUS
<1>2. /\ m \in Month /\ MonthsLater(m, 1) \in Month
      /\ {d \in Tried(Date(raw)) : IsBusinessDay(cal, Date(d))} # {}
  BY <1>1 DEF DatesExist
<1>3. \A j \in Month : MonthStart[j] \in Int
  BY ScheduleAssumption
<1>4. MonthOf(due) \in Month
  BY MonthFound
<1>5. DayOfMonth(due) \in Int /\ lastDayOfMonth(m) \in Int
  BY <1>2, <1>3, <1>4 DEF DayOfMonth, lastDayOfMonth
<1>6. raw \in Int
  BY <1>1, <1>2, <1>3, <1>5 DEF RawDueDate, AddMonthsPreserveDay
<1>7. NextBusinessDay(cal, Date(raw)) \in Int
  BY <1>2, <1>6, BusinessDayFound
<1>8. BuildInstallmentDueDates(cal, At(due), interval, adjust, count)[n]
        = IF adjust THEN NextBusinessDay(cal, Date(raw)) ELSE raw
  BY DEF BuildInstallmentDueDates
<1> QED
  BY <1>6, <1>7, <1>8

\* The parts that an amount is divided into add up to it.
LEMMA DistributeAdds ==
  ASSUME NEW total \in Nat, NEW count \in Nat \ {0}
  PROVE  /\ \A n \in 1 .. count : Distribute(total, count)[n] \in Nat
         /\ SumFunctionOnSet(Distribute(total, count), 1 .. count) = total
<1>1. PICK q \in Nat, r \in 0 .. count - 1 :
        q = total \div count /\ r = total % count /\ total = q * count + r
  OBVIOUS
<1> PICK f : f = Distribute(total, count)
  OBVIOUS
<1>2. \A n \in 1 .. count : f[n] = q + IF n > count - r THEN 1 ELSE 0
  BY <1>1 DEF Distribute
<1>3. \A n \in 1 .. count : f[n] \in Nat
  BY <1>2
<1> DEFINE extra(k) == IF k > count - r THEN k - (count - r) ELSE 0
           T == {k \in Nat : k <= count => SumFunctionOnSet(f, 1 .. k) = k * q + extra(k)}
<1>4. 0 \in T
  BY SumEmpty
<1>5. ASSUME NEW k \in Nat, k \in T PROVE k + 1 \in T
  <2>1. extra(k) \in Nat /\ extra(k + 1) = extra(k) + IF k + 1 > count - r THEN 1 ELSE 0
    OBVIOUS
  <2> HIDE DEF extra
  <2> SUFFICES ASSUME k + 1 <= count
               PROVE  SumFunctionOnSet(f, 1 .. k + 1) = (k + 1) * q + extra(k + 1)
    OBVIOUS
  <2>2. SumFunctionOnSet(f, 1 .. k) = k * q + extra(k)
    BY <1>5
  <2>3. 1 .. k + 1 = (1 .. k) \cup {k + 1} /\ k + 1 \notin 1 .. k
    OBVIOUS
  <2>4. IsFiniteSet(1 .. k) /\ \A x \in (1 .. k) \cup {k + 1} : f[x] \in Int
    <3>1. \A x \in (1 .. k) \cup {k + 1} : x \in 1 .. count
      OBVIOUS
    <3>2. \A x \in (1 .. k) \cup {k + 1} : f[x] \in Int
      BY <1>3, <3>1
    <3> QED
      BY <3>2, FS_Interval
  <2>5. SumFunctionOnSet(f, (1 .. k) \cup {k + 1}) = SumFunctionOnSet(f, 1 .. k) + f[k + 1]
    BY <2>3, <2>4, SumAdd
  <2>6. SumFunctionOnSet(f, 1 .. k + 1) = SumFunctionOnSet(f, 1 .. k) + f[k + 1]
    BY <2>3, <2>5, Zenon
  <2>7. PICK d \in {0, 1} : f[k + 1] = q + d /\ extra(k + 1) = extra(k) + d
    BY <1>2, <2>1
  <2>8. PICK kq \in Nat : kq = k * q /\ (k + 1) * q = kq + q
    OBVIOUS
  <2> QED
    BY <2>1, <2>2, <2>6, <2>7, <2>8
<1>6. 0 \in T /\ \A k \in Nat : k \in T => k + 1 \in T
  BY <1>4, <1>5
<1>7. SumFunctionOnSet(f, 1 .. count) = count * q + extra(count)
  <2> HIDE DEF T
  <2>1. count \in T
    BY <1>6, NatInductionOnSet
  <2> HIDE DEF extra
  <2> QED
    BY <2>1 DEF T
<1>8. extra(count) = r
  OBVIOUS
<1> HIDE DEF extra, T
<1> QED
  BY SMTT(30), <1>1, <1>3, <1>7, <1>8

-------------------------------------------------------------------------------
(* What a step does to an invoice and its instalments.                       *)

\* The rows keep their amounts, and the paid ones stay the paid ones.
RowsMarked(p) ==
  /\ insts'[p] \in Seq(InstRow) /\ DOMAIN insts'[p] = DOMAIN insts[p]
  /\ \A i \in DOMAIN insts[p] : /\ insts'[p][i].amount = insts[p][i].amount
                                /\ insts'[p][i].status = "paid" <=> insts[p][i].status = "paid"

InvoiceMarked(p) ==
  /\ invoice'[p] # None <=> invoice[p] # None
  /\ invoice[p] # None => \E s \in InvoiceStatus, a, b \in BOOLEAN :
       /\ invoice'[p] = [invoice[p] EXCEPT !.status = s, !.reminded = a, !.escalated = b]
       /\ s = "paid" <=> invoice[p].status = "paid"
       /\ (invoice[p].reminded => a) /\ (invoice[p].escalated => b)

Started(p) == Closes(p) /\ invoice'[p] = NewInvoice(p) /\ insts'[p] = insts[p]

PlanRows(p, n) ==
  LET terms == invoice[p].terms
      dates == BuildInstallmentDueDates(calendar, At(invoice[p].due), terms.interval,
                                        terms.adjust, n)
      amounts == Distribute(Remaining(p), n)
  IN  [i \in 1 .. n |-> [due |-> dates[i], amount |-> amounts[i],
                         status |-> IF i = 1 THEN "open" ELSE "scheduled"]]

Planned(p, n) ==
  /\ Pending(p) /\ Selectable(p, n)
  /\ insts'[p] = PlanRows(p, n)
  /\ invoice'[p] = [invoice[p] EXCEPT !.plan = "active"]

PaidPart(p, n) ==
  /\ n \in DOMAIN insts[p] /\ insts[p][n].status = "open"
  /\ insts'[p] = PaidRows(p, n) /\ invoice'[p] = PaidInvoice(p, n)

InvoiceStep(p) ==
  \/ InvoiceMarked(p) /\ RowsMarked(p)
  \/ Started(p)
  \/ \E n \in 1 .. InvoiceTotal : Planned(p, n) \/ PaidPart(p, n)

LEMMA PoliciesTyped ==
  \A r \in Policies : r.interval \in Nat \ {0} /\ r.adjust \in BOOLEAN /\ r.minInstallment \in Nat
BY MaintenanceAssumption

\* The rows of a plan, which is of what the invoice asks for.
LEMMA PlanRowsAddUp ==
  ASSUME NEW p \in Period, PeriodOK(p), NEW n \in 1 .. InvoiceTotal, Pending(p), Selectable(p, n)
  PROVE  /\ insts[p] = <<>> /\ invoice[p].paid = 0
         /\ PlanRows(p, n) \in Seq(InstRow) /\ DOMAIN PlanRows(p, n) = 1 .. n
         /\ \A i \in 1 .. n : PlanRows(p, n)[i].status # "paid"
         /\ SumFunctionOnSet([i \in 1 .. n |-> PlanRows(p, n)[i].amount], 1 .. n) = InvoiceTotal
<1>0. InvoiceTotal \in Nat \ {0}
  BY MaintenanceAssumption
<1>1. /\ insts[p] = <<>> /\ invoice[p] \in InvoiceRow
      /\ invoice[p].due = DueAtForCompetence(RefMonth[p])
  BY DEF PeriodOK, Pending
<1>2. invoice[p].paid = 0
  <2>1. PaidPartsOf(p) = {}
    BY <1>1 DEF PaidPartsOf
  <2>2. invoice[p].paid = SumFunctionOnSet(AmountsOf(p), PaidPartsOf(p))
    BY DEF PeriodOK, AddsUp, Pending
  <2>3. invoice[p].paid = SumFunctionOnSet(AmountsOf(p), {})
    BY <2>1, <2>2, Zenon
  <2> QED
    BY <2>3, SumEmpty
<1>3. Remaining(p) = InvoiceTotal
  BY <1>0, <1>2 DEF Remaining
<1> PICK dates : dates = BuildInstallmentDueDates(calendar, At(invoice[p].due),
                           invoice[p].terms.interval, invoice[p].terms.adjust, n)
  OBVIOUS
<1> PICK amounts : amounts = Distribute(InvoiceTotal, n)
  OBVIOUS
<1>4. n \in Nat \ {0}
  BY <1>0
<1>5. \A i \in 1 .. n : dates[i] \in Int
  <2> PICK k : k = MonthsLater(RefMonth[p], 1)
    OBVIOUS
  <2>1. k \in Month /\ MonthStart[k] \in Nat
    BY MaintenanceAssumption, ScheduleAssumption
  <2>2. invoice[p].due \in Int /\ MonthStart[k] <= invoice[p].due
    BY <1>1, <2>1 DEF DueAtForCompetence
  <2>3. invoice[p].terms.adjust \in BOOLEAN
    BY <1>1, PoliciesTyped DEF InvoiceRow
  <2>4. DatesExist(calendar, At(invoice[p].due), invoice[p].terms.interval, n)
    BY DEF Selectable
  <2> QED
    BY <1>4, <2>1, <2>2, <2>3, <2>4, DatesTyped
<1>6. /\ \A i \in 1 .. n : amounts[i] \in Nat
      /\ SumFunctionOnSet(amounts, 1 .. n) = InvoiceTotal
  BY <1>0, <1>4, DistributeAdds
<1> PICK rows : rows = PlanRows(p, n)
  OBVIOUS
<1>7. rows = [i \in 1 .. n |-> [due |-> dates[i], amount |-> amounts[i],
                                status |-> IF i = 1 THEN "open" ELSE "scheduled"]]
  BY <1>3 DEF PlanRows
<1>8. \A i \in 1 .. n : /\ rows[i] \in InstRow /\ rows[i].amount = amounts[i]
                        /\ rows[i].status # "paid"
  BY <1>5, <1>6, <1>7 DEF InstRow, InstStatus
<1>9. rows \in Seq(InstRow) /\ DOMAIN rows = 1 .. n
  BY <1>4, <1>7, <1>8
<1>10. SumFunctionOnSet([i \in 1 .. n |-> rows[i].amount], 1 .. n) = InvoiceTotal
  <2> PICK f : f = [i \in 1 .. n |-> rows[i].amount]
    OBVIOUS
  <2>1. \A i \in 1 .. n : f[i] = amounts[i] /\ amounts[i] \in Int
    BY <1>6, <1>8
  <2>2. IsFiniteSet(1 .. n)
    BY <1>4, FS_Interval
  <2>3. SumFunctionOnSet(f, 1 .. n) = SumFunctionOnSet(amounts, 1 .. n)
    BY <2>1, <2>2, SumSame
  <2> QED
    BY <1>6, <2>3
<1> QED
  BY <1>1, <1>2, <1>8, <1>9, <1>10

\* The instalments of an invoice are finitely many amounts.
LEMMA PartsTyped ==
  ASSUME NEW p, insts[p] \in Seq(InstRow)
  PROVE  /\ IsFiniteSet(DOMAIN insts[p]) /\ IsFiniteSet(PaidPartsOf(p))
         /\ \A i \in DOMAIN insts[p] : /\ insts[p][i] \in InstRow
                                       /\ AmountsOf(p)[i] = insts[p][i].amount
                                       /\ AmountsOf(p)[i] \in Nat
<1>1. Len(insts[p]) \in Nat /\ DOMAIN insts[p] = 1 .. Len(insts[p])
  OBVIOUS
<1>2. IsFiniteSet(DOMAIN insts[p])
  BY <1>1, FS_Interval
<1>3. PaidPartsOf(p) \subseteq DOMAIN insts[p]
  BY DEF PaidPartsOf
<1>4. IsFiniteSet(PaidPartsOf(p))
  BY <1>2, <1>3, FS_Subset
<1>5. \A i \in DOMAIN insts[p] : insts[p][i] \in InstRow
  BY <1>1
<1> QED
  BY <1>2, <1>4, <1>5 DEF AmountsOf, InstRow

\* The next due day is a day.
LEMMA NextDueTyped ==
  ASSUME NEW p, insts[p] \in Seq(InstRow), NEW n, UnpaidDates(p, n) # {}
  PROVE  dueAtFromInstallmentDate(Min(UnpaidDates(p, n))) \in Int
<1> DEFINE unpaid == {j \in DOMAIN insts[p] : j # n /\ insts[p][j].status # "paid"}
           due == [i \in DOMAIN insts[p] |-> insts[p][i].due]
<1>1. /\ IsFiniteSet(unpaid) /\ unpaid # {}
      /\ \A i \in unpaid : due[i] \in Int /\ due[i] = insts[p][i].due
  <2>1. unpaid \subseteq DOMAIN insts[p] /\ unpaid # {}
    BY DEF UnpaidDates
  <2>2. IsFiniteSet(unpaid)
    BY <2>1, PartsTyped, FS_Subset
  <2> QED
    BY <2>1, <2>2, PartsTyped DEF InstRow
<1>2. UnpaidDates(p, n) = {due[i] : i \in unpaid}
  BY DEF UnpaidDates
<1> HIDE DEF unpaid, due
<1>3. PICK i \in unpaid : \A j \in unpaid : due[i] <= due[j]
  BY <1>1, SetMin
<1>4. \E x \in UnpaidDates(p, n) : \A y \in UnpaidDates(p, n) : x <= y
  BY <1>2, <1>3
<1>5. UnpaidDates(p, n) \subseteq Int
  BY <1>1, <1>2
<1>6. Min(UnpaidDates(p, n)) \in Int
  BY <1>4, <1>5 DEF Min
<1> QED
  BY <1>6 DEF dueAtFromInstallmentDate, LocalDay, Date

\* The rows after a payment: one more is paid.
LEMMA PaidRowsTyped ==
  ASSUME NEW p, insts[p] \in Seq(InstRow), NEW n \in DOMAIN insts[p], insts[p][n].status = "open"
  PROVE  /\ PaidRows(p, n) \in Seq(InstRow) /\ DOMAIN PaidRows(p, n) = DOMAIN insts[p]
         /\ \A i \in DOMAIN insts[p] :
              /\ PaidRows(p, n)[i].amount = insts[p][i].amount
              /\ PaidRows(p, n)[i].status = "paid" <=> insts[p][i].status = "paid" \/ i = n
<1> PICK rows : rows = PaidRows(p, n)
  OBVIOUS
<1>1. rows = [i \in DOMAIN insts[p] |-> rows[i]]
  BY DEF PaidRows
<1>2. ASSUME NEW i \in DOMAIN insts[p]
      PROVE  /\ rows[i] \in InstRow /\ rows[i].amount = insts[p][i].amount
             /\ rows[i].status = "paid" <=> insts[p][i].status = "paid" \/ i = n
  <2>1. insts[p][i] \in InstRow
    BY PartsTyped
  <2>2. rows[i] = IF i = n THEN [insts[p][i] EXCEPT !.status = "paid"]
                  ELSE IF i = n + 1 /\ insts[p][i].status = "scheduled"
                    THEN [insts[p][i] EXCEPT !.status = "open"]
                  ELSE insts[p][i]
    BY DEF PaidRows
  <2> QED
    BY <2>1, <2>2 DEF InstRow, InstStatus
<1>3. Len(insts[p]) \in Nat /\ DOMAIN insts[p] = 1 .. Len(insts[p])
  OBVIOUS
<1>4. rows \in [1 .. Len(insts[p]) -> InstRow]
  BY <1>1, <1>2, <1>3
<1>5. rows \in Seq(InstRow)
  BY <1>3, <1>4
<1> QED
  BY <1>1, <1>2, <1>5

\* The invoice after a payment.
LEMMA PaidInvoiceTyped ==
  ASSUME NEW p, insts[p] \in Seq(InstRow), invoice[p] \in InvoiceRow,
         NEW n \in DOMAIN insts[p]
  PROVE  /\ PaidInvoice(p, n) \in InvoiceRow
         /\ PaidInvoice(p, n).paid = invoice[p].paid + insts[p][n].amount
         /\ PaidInvoice(p, n).plan \in {invoice[p].plan, "completed"}
         /\ PaidInvoice(p, n).status = "paid" <=> PaidInvoice(p, n).paid >= InvoiceTotal
         /\ PaidInvoice(p, n).reminded = invoice[p].reminded
         /\ PaidInvoice(p, n).escalated = invoice[p].escalated
<1> PICK paid : paid = invoice[p].paid + insts[p][n].amount
  OBVIOUS
<1> PICK due : due = IF paid >= InvoiceTotal \/ UnpaidDates(p, n) = {} THEN invoice[p].due
                     ELSE dueAtFromInstallmentDate(Min(UnpaidDates(p, n)))
  OBVIOUS
<1> PICK row : row = PaidInvoice(p, n)
  OBVIOUS
<1>1. row = [invoice[p] EXCEPT !.paid = paid,
               !.status = IF paid >= InvoiceTotal THEN "paid" ELSE "partially_paid",
               !.plan = IF UnpaidDates(p, n) = {} THEN "completed" ELSE invoice[p].plan,
               !.due = due]
  BY DEF PaidInvoice
<1>2. invoice[p].paid \in Nat /\ insts[p][n].amount \in Nat /\ invoice[p].due \in Int
  BY PartsTyped DEF InvoiceRow
<1>3. paid \in Nat /\ due \in Int
  BY <1>2, NextDueTyped
<1> HIDE DEF InvoiceRow
<1>4. row \in InvoiceRow
  BY <1>1, <1>3 DEF InvoiceRow, InvoiceStatus
<1>5. /\ row.paid = paid /\ row.plan \in {invoice[p].plan, "completed"}
      /\ row.status = "paid" <=> paid >= InvoiceTotal
      /\ row.reminded = invoice[p].reminded /\ row.escalated = invoice[p].escalated
  BY <1>1 DEF InvoiceRow
<1> QED
  BY <1>4, <1>5

\* The same rows, when one has become paid: what has come in grows by its amount.
LEMMA OnePartPaid ==
  ASSUME NEW p, insts[p] \in Seq(InstRow), NEW n \in DOMAIN insts[p], insts[p][n].status = "open",
         insts'[p] = PaidRows(p, n)
  PROVE  /\ AmountsOf(p)' = AmountsOf(p)
         /\ SumFunctionOnSet(AmountsOf(p), PaidPartsOf(p)')
              = SumFunctionOnSet(AmountsOf(p), PaidPartsOf(p)) + insts[p][n].amount
<1>1. AmountsOf(p)' = AmountsOf(p)
  BY PaidRowsTyped DEF AmountsOf
<1>2. PaidPartsOf(p)' = PaidPartsOf(p) \cup {n} /\ n \notin PaidPartsOf(p)
  BY PaidRowsTyped DEF PaidPartsOf
<1> PICK f : f = AmountsOf(p)
  OBVIOUS
<1> PICK S : S = PaidPartsOf(p)
  OBVIOUS
<1>3. IsFiniteSet(S) /\ n \notin S /\ f[n] = insts[p][n].amount
  BY <1>2, PartsTyped
<1>4. \A x \in S \cup {n} : f[x] \in Int
  <2>1. S \cup {n} \subseteq DOMAIN insts[p]
    BY DEF PaidPartsOf
  <2>2. \A x \in DOMAIN insts[p] : f[x] \in Int
    BY PartsTyped
  <2> QED
    BY <2>1, <2>2
<1>5. SumFunctionOnSet(f, S \cup {n}) = SumFunctionOnSet(f, S) + f[n]
  BY <1>3, <1>4, SumAdd
<1>6. SumFunctionOnSet(f, PaidPartsOf(p)') = SumFunctionOnSet(f, S) + f[n]
  BY <1>2, <1>5, Zenon
<1> QED
  BY <1>1, <1>3, <1>6

LEMMA PeriodPaid ==
  ASSUME NEW p \in Period, PeriodOK(p), NEW n, PaidPart(p, n)
  PROVE  PeriodOK(p)'
<1>1. /\ insts[p] \in Seq(InstRow) /\ insts[p] # <<>> /\ invoice[p] # None
      /\ invoice[p] \in InvoiceRow /\ invoice[p].plan # "pending_selection"
      /\ n \in DOMAIN insts[p] /\ insts[p][n].status = "open"
      /\ insts'[p] = PaidRows(p, n) /\ invoice'[p] = PaidInvoice(p, n)
  BY DEF PeriodOK, PaidPart
<1>2. /\ insts'[p] \in Seq(InstRow) /\ DOMAIN insts'[p] = DOMAIN insts[p]
  BY <1>1, PaidRowsTyped
<1>3. insts'[p] # <<>>
  BY <1>1, <1>2
<1>4. /\ invoice'[p] \in InvoiceRow /\ invoice'[p].plan # "pending_selection"
      /\ invoice'[p].paid = invoice[p].paid + insts[p][n].amount
      /\ invoice'[p].status = "paid" => invoice'[p].paid >= InvoiceTotal
  BY <1>1, PaidInvoiceTyped
<1>5. invoice'[p] # None
  BY <1>4, NoneIsApart
<1>6. AddsUp(p)'
  <2>1. /\ AmountsOf(p)' = AmountsOf(p)
        /\ SumFunctionOnSet(AmountsOf(p), PaidPartsOf(p)')
             = SumFunctionOnSet(AmountsOf(p), PaidPartsOf(p)) + insts[p][n].amount
    BY <1>1, OnePartPaid
  <2>2. /\ SumFunctionOnSet(AmountsOf(p), DOMAIN insts[p]) = InvoiceTotal
        /\ invoice[p].paid = SumFunctionOnSet(AmountsOf(p), PaidPartsOf(p))
    BY <1>1 DEF PeriodOK, AddsUp
  <2>3. SumFunctionOnSet(AmountsOf(p)', DOMAIN insts'[p]) = InvoiceTotal
    BY <1>2, <2>1, <2>2, Zenon
  <2>4. SumFunctionOnSet(AmountsOf(p)', PaidPartsOf(p)') = invoice[p].paid + insts[p][n].amount
    BY <2>1, <2>2, Zenon
  <2> QED
    BY <1>4, <2>3, <2>4 DEF AddsUp
<1> QED
  BY <1>2, <1>3, <1>4, <1>5, <1>6 DEF PeriodOK, Pending

LEMMA PeriodPlanned ==
  ASSUME NEW p \in Period, PeriodOK(p), NEW n \in 1 .. InvoiceTotal, Planned(p, n)
  PROVE  PeriodOK(p)'
<1> PICK rows : rows = PlanRows(p, n)
  OBVIOUS
<1>1. /\ Pending(p) /\ Selectable(p, n) /\ insts'[p] = rows
      /\ invoice'[p] = [invoice[p] EXCEPT !.plan = "active"]
      /\ invoice[p] # None /\ invoice[p] \in InvoiceRow
      /\ invoice[p].status = "paid" => invoice[p].paid >= InvoiceTotal
  BY DEF Planned, PeriodOK, Pending
<1>2. /\ invoice[p].paid = 0
      /\ rows \in Seq(InstRow) /\ DOMAIN rows = 1 .. n
      /\ \A i \in 1 .. n : rows[i].status # "paid"
      /\ SumFunctionOnSet([i \in 1 .. n |-> rows[i].amount], 1 .. n) = InvoiceTotal
  BY <1>1, PlanRowsAddUp
<1>3. InvoiceTotal \in Nat \ {0} /\ 1 \in 1 .. n
  BY MaintenanceAssumption
<1>4. rows # <<>>
  BY <1>2, <1>3
<1>5. /\ invoice'[p] \in InvoiceRow /\ invoice'[p].plan = "active"
      /\ invoice'[p].paid = 0 /\ invoice'[p].status = invoice[p].status
  BY <1>1, <1>2 DEF InvoiceRow
<1>6. invoice'[p] # None
  BY <1>5, NoneIsApart
<1>7. AddsUp(p)'
  <2>1. AmountsOf(p)' = [i \in 1 .. n |-> rows[i].amount] /\ DOMAIN insts'[p] = 1 .. n
    BY <1>1, <1>2 DEF AmountsOf
  <2>2. PaidPartsOf(p)' = {}
    BY <1>1, <1>2 DEF PaidPartsOf
  <2>3. SumFunctionOnSet(AmountsOf(p)', DOMAIN insts'[p]) = InvoiceTotal
    BY <1>2, <2>1, Zenon
  <2>4. SumFunctionOnSet(AmountsOf(p)', {}) = 0
    BY SumEmpty
  <2>5. SumFunctionOnSet(AmountsOf(p)', PaidPartsOf(p)') = 0
    BY <2>2, <2>4, Zenon
  <2> QED
    BY <1>5, <2>3, <2>5 DEF AddsUp
<1> QED
  BY <1>1, <1>2, <1>4, <1>5, <1>6, <1>7 DEF PeriodOK, Pending

LEMMA NewInvoiceTyped ==
  ASSUME NEW p \in Period, now \in Instants, policy \in Policies
  PROVE  NewInvoice(p) \in InvoiceRow /\ NewInvoice(p) # None
<1>1. DueAtForCompetence(RefMonth[p]) \in Int /\ now \in Nat
  BY MaintenanceAssumption, ScheduleAssumption DEF DueAtForCompetence
<1>2. NewInvoice(p) \in InvoiceRow
  BY <1>1 DEF NewInvoice, InvoiceRow, InvoiceStatus
<1> QED
  BY <1>2, NoneIsApart

LEMMA PeriodStarted ==
  ASSUME NEW p \in Period, PeriodOK(p), now \in Instants, policy \in Policies, Started(p)
  PROVE  PeriodOK(p)'
<1>1. /\ invoice[p] = None /\ insts'[p] = insts[p] /\ insts[p] = <<>>
      /\ invoice'[p] = NewInvoice(p)
  BY DEF Started, Closes, PeriodOK
<1>2. InvoiceTotal \in Nat \ {0}
  BY MaintenanceAssumption
<1>3. /\ invoice'[p] \in InvoiceRow /\ invoice'[p].plan = "pending_selection"
      /\ invoice'[p].due = DueAtForCompetence(RefMonth[p])
      /\ invoice'[p].paid = 0 /\ invoice'[p].status = "open"
  BY <1>1, NewInvoiceTyped DEF NewInvoice
<1>4. invoice'[p] # None
  BY <1>1, NewInvoiceTyped
<1>5. AddsUp(p)'
  <2>1. PaidPartsOf(p)' = {}
    BY <1>1 DEF PaidPartsOf
  <2>2. SumFunctionOnSet(AmountsOf(p)', {}) = 0
    BY SumEmpty
  <2>3. SumFunctionOnSet(AmountsOf(p)', PaidPartsOf(p)') = 0
    BY <2>1, <2>2, Zenon
  <2> QED
    BY <1>1, <1>3, <2>3 DEF AddsUp
<1> QED
  BY <1>1, <1>3, <1>4, <1>5 DEF PeriodOK, Pending

LEMMA PeriodMarked ==
  ASSUME NEW p \in Period, PeriodOK(p), InvoiceMarked(p), RowsMarked(p)
  PROVE  PeriodOK(p)'
<1>1. /\ insts[p] \in Seq(InstRow) /\ insts'[p] \in Seq(InstRow)
      /\ DOMAIN insts'[p] = DOMAIN insts[p]
  BY DEF PeriodOK, RowsMarked
<1>2. insts'[p] = <<>> <=> insts[p] = <<>>
  BY <1>1
<1>3. AmountsOf(p)' = AmountsOf(p) /\ PaidPartsOf(p)' = PaidPartsOf(p)
  BY DEF RowsMarked, AmountsOf, PaidPartsOf
<1>4. SumFunctionOnSet(AmountsOf(p)', DOMAIN insts'[p]) = SumFunctionOnSet(AmountsOf(p), DOMAIN insts[p])
  BY <1>1, <1>3, Zenon
<1>5. SumFunctionOnSet(AmountsOf(p)', PaidPartsOf(p)') = SumFunctionOnSet(AmountsOf(p), PaidPartsOf(p))
  BY <1>3, Zenon
<1>6. CASE invoice[p] = None
  <2>1. invoice'[p] = None
    BY <1>6 DEF InvoiceMarked
  <2> QED
    BY <1>1, <1>2, <1>4, <1>6, <2>1 DEF PeriodOK, AddsUp, Pending
<1>7. CASE invoice[p] # None
  <2>1. PICK s \in InvoiceStatus, a \in BOOLEAN, b \in BOOLEAN :
          /\ invoice'[p] = [invoice[p] EXCEPT !.status = s, !.reminded = a, !.escalated = b]
          /\ s = "paid" <=> invoice[p].status = "paid"
    BY <1>7 DEF InvoiceMarked
  <2>2. invoice[p] \in InvoiceRow /\ invoice'[p] # None
    BY <1>7 DEF PeriodOK, InvoiceMarked
  <2>3. /\ invoice'[p] \in InvoiceRow /\ invoice'[p].plan = invoice[p].plan
        /\ invoice'[p].paid = invoice[p].paid /\ invoice'[p].due = invoice[p].due
        /\ invoice'[p].status = "paid" <=> invoice[p].status = "paid"
    BY Zenon, <2>1, <2>2 DEF InvoiceRow
  <2>4. AddsUp(p)'
    BY <1>2, <1>4, <1>5, <1>7, <2>3 DEF PeriodOK, AddsUp
  <2> QED
    BY <1>1, <1>2, <1>7, <2>2, <2>3, <2>4 DEF PeriodOK, Pending
<1> QED
  BY <1>6, <1>7

LEMMA PeriodKept ==
  ASSUME NEW p \in Period, PeriodOK(p), now \in Instants, policy \in Policies, InvoiceStep(p)
  PROVE  PeriodOK(p)'
BY PeriodMarked, PeriodStarted, PeriodPlanned, PeriodPaid DEF InvoiceStep

LEMMA RowsTyped ==
  ASSUME NEW p \in Period, PeriodOK(p)
  PROVE  /\ insts[p] \in Seq(InstRow)
         /\ invoice[p] # None => invoice[p] \in InvoiceRow
         /\ invoice[p] = None => insts[p] = <<>>
BY DEF PeriodOK

LEMMA NothingDone ==
  ASSUME NEW p \in Period, PeriodOK(p), invoice'[p] = invoice[p], insts'[p] = insts[p]
  PROVE  InvoiceStep(p)
<1>1. RowsMarked(p)
  BY RowsTyped DEF RowsMarked
<1>2. InvoiceMarked(p)
  <2> SUFFICES ASSUME invoice[p] # None
               PROVE  \E s \in InvoiceStatus, a, b \in BOOLEAN :
                        /\ invoice[p] = [invoice[p] EXCEPT !.status = s, !.reminded = a, !.escalated = b]
                        /\ s = "paid" <=> invoice[p].status = "paid"
                        /\ (invoice[p].reminded => a) /\ (invoice[p].escalated => b)
    BY Zenon DEF InvoiceMarked
  <2> PICK r : r = invoice[p]
    OBVIOUS
  <2>1. r \in InvoiceRow
    BY RowsTyped
  <2>2. /\ r.status \in InvoiceStatus /\ r.reminded \in BOOLEAN /\ r.escalated \in BOOLEAN
        /\ r = [r EXCEPT !.status = r.status, !.reminded = r.reminded, !.escalated = r.escalated]
    BY <2>1 DEF InvoiceRow
  <2> QED
    BY <2>2, Zenon
<1> QED
  BY <1>1, <1>2 DEF InvoiceStep

\* The tables of invoices and of instalments, and what a step does to each period.
RowSteps ==
  /\ invoice' = [p \in Period |-> invoice'[p]]
  /\ insts' = [p \in Period |-> insts'[p]]
  /\ \A p \in Period : InvoiceStep(p)

LEMMA NoRowChanges ==
  ASSUME TablesOK, UNCHANGED <<invoice, insts>>
  PROVE  RowSteps
BY NothingDone DEF RowSteps, TablesOK

LEMMA OneRowChanges ==
  ASSUME TablesOK, NEW p \in Period, NEW row, NEW rows,
         invoice' = [invoice EXCEPT ![p] = row], insts' = [insts EXCEPT ![p] = rows],
         invoice'[p] = row /\ insts'[p] = rows => InvoiceStep(p)
  PROVE  RowSteps
<1>1. invoice'[p] = row /\ insts'[p] = rows
  BY DEF TablesOK
<1>2. ASSUME NEW q \in Period PROVE InvoiceStep(q)
  <2>1. CASE q = p
    BY <1>1, <2>1
  <2>2. CASE q # p
    <3>1. invoice'[q] = invoice[q] /\ insts'[q] = insts[q] /\ PeriodOK(q)
      BY <2>2 DEF TablesOK
    <3> QED
      BY <3>1, NothingDone
  <2> QED
    BY <2>1, <2>2
<1>3. /\ invoice' = [q \in Period |-> invoice'[q]] /\ insts' = [q \in Period |-> insts'[q]]
  BY DEF TablesOK
<1> QED
  BY <1>2, <1>3 DEF RowSteps

LEMMA ClosingSteps ==
  ASSUME TablesOK, NEW p \in Period, ClosePeriod(p), UNCHANGED insts
  PROVE  RowSteps
<1>1. CASE Closes(p)
  <2>1. invoice' = [invoice EXCEPT ![p] = NewInvoice(p)]
    BY <1>1 DEF ClosePeriod
  <2>2. insts' = [insts EXCEPT ![p] = insts[p]]
    BY DEF TablesOK
  <2>3. invoice'[p] = NewInvoice(p) /\ insts'[p] = insts[p] => InvoiceStep(p)
    BY <1>1 DEF InvoiceStep, Started
  <2> QED
    BY <2>1, <2>2, <2>3, OneRowChanges
<1>2. CASE ~Closes(p)
  BY <1>2, NoRowChanges DEF ClosePeriod
<1> QED
  BY <1>1, <1>2

LEMMA SelectPlanSteps ==
  ASSUME TablesOK, NEW p \in Period, NEW n \in 1 .. InvoiceTotal, SelectPlan(p, n)
  PROVE  RowSteps
<1>1. /\ invoice' = [invoice EXCEPT ![p].plan = "active"]
      /\ insts' = [insts EXCEPT ![p] = PlanRows(p, n)]
      /\ Pending(p) /\ Selectable(p, n)
  BY DEF SelectPlan, PlanRows
<1>2. invoice' = [invoice EXCEPT ![p] = [invoice[p] EXCEPT !.plan = "active"]]
  BY <1>1
<1>3. invoice'[p] = [invoice[p] EXCEPT !.plan = "active"] /\ insts'[p] = PlanRows(p, n)
        => InvoiceStep(p)
  BY <1>1 DEF InvoiceStep, Planned
<1> QED
  BY <1>1, <1>2, <1>3, OneRowChanges

LEMMA PayInstallmentSteps ==
  ASSUME TablesOK, NEW p \in Period, NEW n \in 1 .. InvoiceTotal, PayInstallment(p, n)
  PROVE  RowSteps
<1>1. /\ invoice' = [invoice EXCEPT ![p] = PaidInvoice(p, n)]
      /\ insts' = [insts EXCEPT ![p] = PaidRows(p, n)]
      /\ n \in DOMAIN insts[p] /\ insts[p][n].status = "open"
  BY DEF PayInstallment
<1>2. invoice'[p] = PaidInvoice(p, n) /\ insts'[p] = PaidRows(p, n) => InvoiceStep(p)
  BY <1>1 DEF InvoiceStep, PaidPart
<1> QED
  BY <1>1, <1>2, OneRowChanges

\* Where a worker writes to a single invoice.
LEMMA MarkSteps ==
  ASSUME TablesOK, NEW p \in Period, invoice[p] # None, UNCHANGED insts,
         NEW s \in InvoiceStatus, NEW a \in BOOLEAN, NEW b \in BOOLEAN,
         invoice' = [invoice EXCEPT ![p] =
           [invoice[p] EXCEPT !.status = s, !.reminded = a, !.escalated = b]],
         s = "paid" <=> invoice[p].status = "paid",
         invoice[p].reminded => a, invoice[p].escalated => b
  PROVE  RowSteps
<1> PICK row : row = [invoice[p] EXCEPT !.status = s, !.reminded = a, !.escalated = b]
  OBVIOUS
<1>1. insts' = [insts EXCEPT ![p] = insts[p]]
  BY DEF TablesOK
<1>2. ASSUME invoice'[p] = row, insts'[p] = insts[p] PROVE InvoiceStep(p)
  <2>1. PeriodOK(p)
    BY DEF TablesOK
  <2>2. RowsMarked(p)
    BY <1>2, <2>1, RowsTyped DEF RowsMarked
  <2>3. row # None
    <3>1. row \in InvoiceRow
      BY <2>1, RowsTyped DEF InvoiceRow
    <3> QED
      BY <3>1, NoneIsApart
  <2>4. InvoiceMarked(p)
    BY <1>2, <2>3, Zenon DEF InvoiceMarked
  <2> QED
    BY <2>2, <2>4 DEF InvoiceStep
<1> QED
  BY ZenonT(60), <1>1, <1>2, OneRowChanges

LEMMA RemindSteps ==
  ASSUME TablesOK, WorkersOK, NEW w \in WorkerId, NEW p \in Period, Remind(w, p)
  PROVE  RowSteps
<1>1. /\ invoice' = [invoice EXCEPT ![p].reminded = TRUE] /\ insts' = insts
      /\ invoice[p] # None
  BY DEF Remind, WorkersOK, At_
<1> PICK r : r = invoice[p]
  OBVIOUS
<1>2. r \in InvoiceRow
  BY <1>1, RowsTyped DEF TablesOK
<1>3. /\ r.status \in InvoiceStatus /\ r.escalated \in BOOLEAN
      /\ [r EXCEPT !.reminded = TRUE]
           = [r EXCEPT !.status = r.status, !.reminded = TRUE, !.escalated = r.escalated]
  BY <1>2 DEF InvoiceRow
<1>4. invoice' = [invoice EXCEPT ![p] = [r EXCEPT !.reminded = TRUE]]
  BY <1>1
<1>5. invoice' = [invoice EXCEPT ![p] =
        [r EXCEPT !.status = r.status, !.reminded = TRUE, !.escalated = r.escalated]]
  BY <1>3, <1>4
<1> QED
  BY <1>1, <1>3, <1>5, MarkSteps

LEMMA EscalateSteps ==
  ASSUME TablesOK, WorkersOK, NEW w \in WorkerId, NEW p \in Period, Escalate(w, p)
  PROVE  RowSteps
<1>1. /\ invoice' = [invoice EXCEPT ![p] = Escalated(p)] /\ insts' = insts
      /\ invoice[p] # None
  BY DEF Escalate, WorkersOK, At_
<1> PICK r : r = invoice[p]
  OBVIOUS
<1> PICK s : s = IF r.paid < InvoiceTotal THEN "overdue" ELSE r.status
  OBVIOUS
<1>2. /\ r \in InvoiceRow /\ r.paid \in Nat /\ InvoiceTotal \in Nat \ {0}
      /\ r.status = "paid" => r.paid >= InvoiceTotal
  BY <1>1, RowsTyped, MaintenanceAssumption DEF TablesOK, PeriodOK, InvoiceRow
<1>3. s \in InvoiceStatus /\ (s = "paid" <=> r.status = "paid")
  BY <1>2 DEF InvoiceRow, InvoiceStatus
<1>4. /\ r.reminded \in BOOLEAN
      /\ Escalated(p) = [r EXCEPT !.status = s, !.reminded = r.reminded, !.escalated = TRUE]
  BY <1>2 DEF InvoiceRow, Escalated
<1>5. invoice' = [invoice EXCEPT ![p] =
        [r EXCEPT !.status = s, !.reminded = r.reminded, !.escalated = TRUE]]
  BY <1>1, <1>4
<1> QED
  BY <1>1, <1>3, <1>4, <1>5, MarkSteps

\* One status becomes another, or nothing happens to the invoice.
LEMMA StatusMarked ==
  ASSUME NEW p \in Period, PeriodOK(p), NEW b \in BOOLEAN,
         b => invoice[p] # None /\ invoice[p].status # "paid",
         invoice'[p] = IF b THEN [invoice[p] EXCEPT !.status = "overdue"] ELSE invoice[p]
  PROVE  InvoiceMarked(p)
<1> PICK r : r = invoice[p]
  OBVIOUS
<1>1. CASE r = None
  BY <1>1 DEF InvoiceMarked
<1>2. CASE r # None
  <2>1. r \in InvoiceRow
    BY <1>2, RowsTyped
  <2> PICK s : s = IF b THEN "overdue" ELSE r.status
    OBVIOUS
  <2>2. /\ s \in InvoiceStatus /\ r.reminded \in BOOLEAN /\ r.escalated \in BOOLEAN
        /\ invoice'[p] = [r EXCEPT !.status = s, !.reminded = r.reminded, !.escalated = r.escalated]
        /\ s = "paid" <=> r.status = "paid"
    <3>1. CASE b
      <4>1. /\ invoice'[p] = [r EXCEPT !.status = "overdue"] /\ s = "overdue"
            /\ r.status # "paid"
        BY <3>1
      <4>2. [r EXCEPT !.status = "overdue"]
              = [r EXCEPT !.status = "overdue", !.reminded = r.reminded, !.escalated = r.escalated]
        BY <2>1 DEF InvoiceRow
      <4>3. r.reminded \in BOOLEAN /\ r.escalated \in BOOLEAN
        BY <2>1 DEF InvoiceRow
      <4> QED
        BY <4>1, <4>2, <4>3, Zenon DEF InvoiceStatus
    <3>2. CASE ~b
      <4>1. invoice'[p] = r /\ s = r.status
        BY <3>2
      <4>2. /\ r = [r EXCEPT !.status = r.status, !.reminded = r.reminded, !.escalated = r.escalated]
            /\ r.status \in InvoiceStatus /\ r.reminded \in BOOLEAN /\ r.escalated \in BOOLEAN
        BY <2>1 DEF InvoiceRow
      <4> QED
        BY <4>1, <4>2, Zenon
    <3> QED
      BY <3>1, <3>2, Zenon
  <2>3. invoice'[p] # None
    <3>1. invoice'[p] \in InvoiceRow
      BY <2>1, <2>2 DEF InvoiceRow
    <3> QED
      BY <3>1, NoneIsApart
  <2> QED
    BY <1>2, <2>2, <2>3, Zenon DEF InvoiceMarked
<1> QED
  BY <1>1, <1>2

LEMMA MarkInstallmentsSteps ==
  ASSUME TablesOK, NEW w \in WorkerId, NEW today, MarkInstallments(w, today)
  PROVE  RowSteps
<1> DEFINE after == [p \in Period |-> [i \in DOMAIN insts[p] |->
                      IF Overdue(insts[p][i], today)
                        THEN [insts[p][i] EXCEPT !.status = "overdue"] ELSE insts[p][i]]]
           late(p) == /\ invoice[p] # None
                      /\ invoice[p].status \in {"open", "partially_paid"}
                      /\ \E i \in DOMAIN after[p] : after[p][i].status = "overdue"
<1>1. /\ insts' = after
      /\ invoice' = [p \in Period |-> IF late(p)
                       THEN [invoice[p] EXCEPT !.status = "overdue"] ELSE invoice[p]]
  BY Zenon DEF MarkInstallments
<1>2. ASSUME NEW p \in Period PROVE RowsMarked(p)
  <2> PICK s : s = insts[p]
    OBVIOUS
  <2> PICK rows : rows = insts'[p]
    OBVIOUS
  <2>1. s \in Seq(InstRow)
    BY RowsTyped DEF TablesOK
  <2>2. rows = [i \in DOMAIN s |-> IF Overdue(s[i], today)
                  THEN [s[i] EXCEPT !.status = "overdue"] ELSE s[i]]
    BY <1>1
  <2>3. ASSUME NEW i \in DOMAIN s
        PROVE  /\ rows[i] \in InstRow /\ rows[i].amount = s[i].amount
               /\ rows[i].status = "paid" <=> s[i].status = "paid"
    <3>1. s[i] \in InstRow
      BY <2>1
    <3>2. rows[i] = IF Overdue(s[i], today) THEN [s[i] EXCEPT !.status = "overdue"] ELSE s[i]
      BY <2>2
    <3> QED
      BY <3>1, <3>2 DEF InstRow, InstStatus, Overdue
  <2>4. Len(s) \in Nat /\ DOMAIN s = 1 .. Len(s)
    BY <2>1
  <2>5. rows \in [1 .. Len(s) -> InstRow]
    BY <2>2, <2>3, <2>4
  <2>6. rows \in Seq(InstRow) /\ DOMAIN rows = DOMAIN s
    BY <2>4, <2>5
  <2> QED
    BY <2>3, <2>6 DEF RowsMarked
<1> HIDE DEF after
<1>3. ASSUME NEW p \in Period PROVE InvoiceMarked(p)
  <2> PICK b \in BOOLEAN : b <=> late(p)
    BY Zenon
  <2>1. b => invoice[p] # None /\ invoice[p].status # "paid"
    BY DEF late
  <2> HIDE DEF late
  <2>2. invoice'[p] = IF b THEN [invoice[p] EXCEPT !.status = "overdue"] ELSE invoice[p]
    BY <1>1
  <2>3. PeriodOK(p)
    BY DEF TablesOK
  <2> QED
    BY <2>1, <2>2, <2>3, StatusMarked
<1>4. ASSUME NEW p \in Period PROVE InvoiceStep(p)
  BY <1>2, <1>3 DEF InvoiceStep
<1>5. invoice' = [p \in Period |-> invoice'[p]]
  <2> HIDE DEF late
  <2> QED
    BY <1>1
<1>6. insts' = [p \in Period |-> insts'[p]]
  BY <1>1 DEF after
<1> QED
  BY <1>4, <1>5, <1>6 DEF RowSteps

LEMMA MarkInvoicesSteps ==
  ASSUME TablesOK, NEW w \in WorkerId, MarkInvoices(w)
  PROVE  RowSteps
<1> DEFINE late(p) == /\ invoice[p] # None
                      /\ invoice[p].status \in {"open", "partially_paid"}
                      /\ Late(p) /\ invoice[p].paid < InvoiceTotal
<1>1. /\ insts' = insts
      /\ invoice' = [p \in Period |-> IF late(p)
                       THEN [invoice[p] EXCEPT !.status = "overdue"] ELSE invoice[p]]
  BY Zenon DEF MarkInvoices
<1>2. ASSUME NEW p \in Period PROVE RowsMarked(p)
  <2>1. PeriodOK(p)
    BY DEF TablesOK
  <2> QED
    BY <1>1, <2>1, RowsTyped DEF RowsMarked
<1>3. ASSUME NEW p \in Period PROVE InvoiceMarked(p)
  <2> PICK b \in BOOLEAN : b <=> late(p)
    BY Zenon
  <2>1. b => invoice[p] # None /\ invoice[p].status # "paid"
    BY DEF late
  <2> HIDE DEF late
  <2>2. invoice'[p] = IF b THEN [invoice[p] EXCEPT !.status = "overdue"] ELSE invoice[p]
    BY <1>1
  <2>3. PeriodOK(p)
    BY DEF TablesOK
  <2> QED
    BY <2>1, <2>2, <2>3, StatusMarked
<1>4. ASSUME NEW p \in Period PROVE InvoiceStep(p)
  BY <1>2, <1>3 DEF InvoiceStep
<1>5. invoice' = [p \in Period |-> invoice'[p]]
  <2> HIDE DEF late
  <2> QED
    BY <1>1
<1>6. insts' = [p \in Period |-> insts'[p]]
  BY <1>1 DEF TablesOK
<1> QED
  BY <1>4, <1>5, <1>6 DEF RowSteps

\* What any step does to the invoices.
LEMMA Steps ==
  ASSUME TablesOK, WorkersOK, [Next]_vars
  PROVE  RowSteps
<1>1. CASE UNCHANGED vars
  BY <1>1, NoRowChanges DEF vars, billing
<1>2. ASSUME NEW p \in Period, Purchase(p) PROVE RowSteps
  BY <1>2, NoRowChanges DEF Purchase
<1>3. ASSUME NEW p \in Period, NEW n \in 1 .. InvoiceTotal, PayInstallment(p, n) PROVE RowSteps
  BY <1>3, PayInstallmentSteps
<1>4. CASE ClosePeriods
  BY <1>4, ClosingSteps DEF ClosePeriods, CloseByHand
<1>5. CASE SelectMyPaymentPlan
  BY <1>5, SelectPlanSteps DEF SelectMyPaymentPlan
<1>6. CASE PutInstallmentPolicy \/ UpsertCalendar
  BY <1>6, NoRowChanges
  DEF PutInstallmentPolicy, CreateInstallmentPolicyVersion, UpsertCalendar, UpsertCalendarDay
<1>7. ASSUME NEW w \in WorkerId, Maintenance(w) PROVE RowSteps
  <2>1. CASE Wake(w) \/ ListReminders(w) \/ ListEscalations(w) \/ EnqueueOverdue(w)
    BY <2>1, NoRowChanges DEF Wake, ListReminders, ListEscalations, EnqueueOverdue, billing
  <2>2. ASSUME NEW p \in Period, Closing(w, p) PROVE RowSteps
    BY <2>2, ClosingSteps DEF Closing
  <2>3. ASSUME NEW p \in Period, Remind(w, p) PROVE RowSteps
    BY <2>3, RemindSteps
  <2>4. ASSUME NEW p \in Period, Escalate(w, p) PROVE RowSteps
    BY <2>4, EscalateSteps
  <2> QED
    BY <1>7, <2>1, <2>2, <2>3, <2>4 DEF Maintenance
<1>8. ASSUME NEW w \in WorkerId, Job(w) PROVE RowSteps
  BY <1>8, NoRowChanges, MarkInstallmentsSteps, MarkInvoicesSteps DEF Job, AcquireJob, billing
<1>9. ASSUME NEW w \in WorkerId, MaintenanceFails(w) \/ JobFails(w) \/ Crash(w) \/ Restart(w)
      PROVE  RowSteps
  BY <1>9, NoRowChanges DEF MaintenanceFails, JobFails, Crash, Restart, billing
<1>10. CASE Advance
  BY <1>10, NoRowChanges DEF Advance, billing
<1> QED
  BY <1>1, <1>2, <1>3, <1>4, <1>5, <1>6, <1>7, <1>8, <1>9, <1>10 DEF Next

\* An invoice is never taken back.
LEMMA InvoiceStays ==
  ASSUME NEW p \in Period, PeriodOK(p), InvoiceStep(p), invoice[p] # None
  PROVE  /\ invoice'[p] # None
         /\ invoice[p].reminded => invoice'[p].reminded
         /\ invoice[p].escalated => invoice'[p].escalated
         /\ invoice[p].status = "paid" => invoice'[p].status = "paid"
<1> PICK r : r = invoice[p]
  OBVIOUS
<1>0. r \in InvoiceRow /\ insts[p] \in Seq(InstRow)
  BY RowsTyped
<1>1. CASE InvoiceMarked(p) /\ RowsMarked(p)
  <2>1. PICK s \in InvoiceStatus, a \in BOOLEAN, b \in BOOLEAN :
          /\ invoice'[p] = [r EXCEPT !.status = s, !.reminded = a, !.escalated = b]
          /\ s = "paid" <=> r.status = "paid"
          /\ (r.reminded => a) /\ (r.escalated => b)
    BY <1>1 DEF InvoiceMarked
  <2>2. invoice'[p] # None
    BY <1>1 DEF InvoiceMarked
  <2>3. /\ [r EXCEPT !.status = s, !.reminded = a, !.escalated = b].reminded = a
        /\ [r EXCEPT !.status = s, !.reminded = a, !.escalated = b].escalated = b
        /\ [r EXCEPT !.status = s, !.reminded = a, !.escalated = b].status = s
    BY <1>0 DEF InvoiceRow
  <2> QED
    BY <2>1, <2>2, <2>3, Zenon
<1>2. CASE Started(p)
  BY <1>2 DEF Started, Closes
<1>3. ASSUME NEW n \in 1 .. InvoiceTotal, Planned(p, n)
      PROVE  /\ invoice'[p] # None
             /\ invoice'[p].reminded = r.reminded /\ invoice'[p].escalated = r.escalated
             /\ invoice'[p].status = r.status
  <2>1. /\ invoice'[p] \in InvoiceRow
        /\ invoice'[p].reminded = r.reminded /\ invoice'[p].escalated = r.escalated
        /\ invoice'[p].status = r.status
    BY <1>0, <1>3 DEF Planned, InvoiceRow
  <2> QED
    BY <2>1, NoneIsApart
<1>4. ASSUME NEW n \in 1 .. InvoiceTotal, PaidPart(p, n)
      PROVE  /\ invoice'[p] # None
             /\ invoice'[p].reminded = r.reminded /\ invoice'[p].escalated = r.escalated
             /\ r.status = "paid" => invoice'[p].status = "paid"
  <2>1. /\ invoice'[p] = PaidInvoice(p, n) /\ n \in DOMAIN insts[p]
        /\ r.status = "paid" => r.paid >= InvoiceTotal
    BY <1>4 DEF PaidPart, PeriodOK
  <2>2. /\ invoice'[p] \in InvoiceRow
        /\ invoice'[p].paid = r.paid + insts[p][n].amount
        /\ invoice'[p].status = "paid" <=> invoice'[p].paid >= InvoiceTotal
        /\ invoice'[p].reminded = r.reminded /\ invoice'[p].escalated = r.escalated
    BY <1>0, <2>1, PaidInvoiceTyped
  <2>3. r.paid \in Nat /\ insts[p][n].amount \in Nat /\ InvoiceTotal \in Nat
    <3>1. insts[p][n] \in InstRow
      BY <1>0, <2>1, PartsTyped
    <3>2. r.paid \in Nat /\ insts[p][n].amount \in Nat
      BY <1>0, <3>1 DEF InvoiceRow, InstRow
    <3> QED
      BY <3>2, MaintenanceAssumption
  <2>4. r.status = "paid" => invoice'[p].paid >= InvoiceTotal
    BY <2>1, <2>2, <2>3
  <2> QED
    BY <2>2, <2>4, NoneIsApart
<1> QED
  BY <1>1, <1>2, <1>3, <1>4 DEF InvoiceStep

-------------------------------------------------------------------------------
(* Types.                                                                    *)

LEMMA UpsertTyped ==
  ASSUME NEW cal, cal \in [DOMAIN cal -> BOOLEAN], IsFiniteSet(DOMAIN cal),
         NEW entry, NEW business \in BOOLEAN
  PROVE  /\ UpsertRow(cal, entry, business) \in [DOMAIN UpsertRow(cal, entry, business) -> BOOLEAN]
         /\ IsFiniteSet(DOMAIN UpsertRow(cal, entry, business))
<1> PICK date : date = calendarDateOnly(entry).day
  OBVIOUS
<1> PICK new : new = UpsertRow(cal, entry, business)
  OBVIOUS
<1>1. new = [d \in DOMAIN cal \cup {date} |-> IF d = date THEN business ELSE cal[d]]
  BY DEF UpsertRow
<1>2. DOMAIN new = DOMAIN cal \cup {date} /\ new \in [DOMAIN new -> BOOLEAN]
  BY <1>1
<1>3. IsFiniteSet(DOMAIN cal \cup {date})
  BY FS_AddElement
<1> QED
  BY <1>2, <1>3

LEMMA FaultsLeft ==
  ASSUME TablesOK, Upsets < MaxUpsets
  PROVE  faults + 1 \in 0 .. MaxUpsets
<1>1. faults \in Nat /\ MaxUpsets \in Nat /\ Cardinality(DOMAIN calendar) \in Nat
  BY FS_CardinalityType, MaintenanceAssumption DEF TablesOK
<1> PICK c \in Nat : c = Cardinality(DOMAIN calendar)
  BY <1>1
<1> PICK d \in {0, 1} : d = IF policy = DefaultPolicy THEN 0 ELSE 1
  OBVIOUS
<1>2. faults + c + d < MaxUpsets
  BY DEF Upsets
<1> QED
  BY <1>1, <1>2

\* What is not about a period.
SettingsOK ==
  /\ now \in Instants /\ faults \in 0 .. MaxUpsets /\ jobs \in Nat
  /\ calendar \in [DOMAIN calendar -> BOOLEAN] /\ IsFiniteSet(DOMAIN calendar)
  /\ policy \in Policies
  /\ bought \in [Period -> PurchaseTime \cup {None}]

LEMMA SettingsKept ==
  ASSUME TablesOK, [Next]_vars
  PROVE  SettingsOK'
<1>0. SettingsOK
  BY DEF TablesOK, SettingsOK
<1>1. CASE UNCHANGED vars
  BY <1>0, <1>1 DEF vars, billing, SettingsOK
<1>2. ASSUME NEW p \in Period, Purchase(p) PROVE SettingsOK'
  <2>1. bought' \in [Period -> PurchaseTime \cup {None}]
    BY <1>0, <1>2 DEF Purchase, SettingsOK, PurchaseTime
  <2> QED
    BY <1>0, <1>2, <2>1 DEF Purchase, SettingsOK
<1>3. ASSUME NEW p \in Period, NEW n \in 1 .. InvoiceTotal, PayInstallment(p, n) PROVE SettingsOK'
  BY <1>0, <1>3 DEF PayInstallment, SettingsOK
<1>4. CASE ClosePeriods \/ SelectMyPaymentPlan
  BY <1>0, <1>4 DEF ClosePeriods, CloseByHand, SelectMyPaymentPlan, SelectPlan, SettingsOK
<1>5. CASE PutInstallmentPolicy
  BY <1>0, <1>5 DEF PutInstallmentPolicy, CreateInstallmentPolicyVersion, SettingsOK
<1>6. CASE UpsertCalendar
  <2>1. PICK input \in CalendarInput : UpsertCalendarDay(input[1], input[2])
    BY <1>6 DEF UpsertCalendar
  <2>2. input[2] \in BOOLEAN
    BY MaintenanceAssumption
  <2>3. calendar' \in [DOMAIN calendar' -> BOOLEAN] /\ IsFiniteSet(DOMAIN calendar')
    BY <1>0, <2>1, <2>2, UpsertTyped DEF UpsertCalendarDay, SettingsOK
  <2> QED
    BY <1>0, <2>1, <2>3 DEF UpsertCalendarDay, SettingsOK
<1>7. ASSUME NEW w \in WorkerId, Maintenance(w) PROVE SettingsOK'
  <2>1. UNCHANGED <<now, faults, calendar, policy, bought>> /\ jobs' \in {jobs, jobs + 1}
    BY <1>7 DEF Maintenance, Wake, Closing, Remind, Escalate, ListReminders, ListEscalations,
                EnqueueOverdue, billing
  <2> QED
    BY <1>0, <2>1 DEF SettingsOK
<1>8. ASSUME NEW w \in WorkerId, Job(w) PROVE SettingsOK'
  <2>1. UNCHANGED <<now, faults, calendar, policy, bought>>
    BY <1>8 DEF Job, AcquireJob, MarkInstallments, MarkInvoices, billing
  <2>2. CASE AcquireJob(w)
    <3>1. jobs' \in Nat
      BY <1>0, <2>2, MaintenanceAssumption DEF AcquireJob, SettingsOK
    <3> QED
      BY <1>0, <2>1, <3>1 DEF SettingsOK
  <2>3. CASE jobs' = jobs
    BY <1>0, <2>1, <2>3 DEF SettingsOK
  <2> QED
    BY <1>8, <2>2, <2>3 DEF Job, MarkInstallments, MarkInvoices
<1>9. ASSUME NEW w \in WorkerId, MaintenanceFails(w) \/ JobFails(w) \/ Crash(w) \/ Restart(w)
      PROVE  SettingsOK'
  <2>1. /\ UNCHANGED <<now, calendar, policy, bought>> /\ jobs' \in {jobs, jobs + 1}
        /\ faults' = faults \/ (Upsets < MaxUpsets /\ faults' = faults + 1)
    BY <1>9 DEF MaintenanceFails, JobFails, Crash, Restart, billing
  <2>2. faults' \in 0 .. MaxUpsets
    BY <1>0, <2>1, FaultsLeft DEF SettingsOK
  <2> QED
    BY <1>0, <2>1, <2>2 DEF SettingsOK
<1>10. CASE Advance
  BY <1>0, <1>10 DEF Advance, billing, SettingsOK
<1> QED
  BY <1>1, <1>2, <1>3, <1>4, <1>5, <1>6, <1>7, <1>8, <1>9, <1>10 DEF Next

LEMMA TablesKept ==
  ASSUME TablesOK, WorkersOK, [Next]_vars
  PROVE  TablesOK'
<1>1. RowSteps
  BY Steps
<1>2. SettingsOK'
  BY SettingsKept
<1>3. \A p \in Period : PeriodOK(p)'
  BY <1>1, PeriodKept DEF TablesOK, RowSteps
<1>4. /\ DOMAIN invoice' = Period /\ invoice' = [p \in Period |-> invoice'[p]]
      /\ DOMAIN insts' = Period /\ insts' = [p \in Period |-> insts'[p]]
  BY <1>1 DEF RowSteps
<1> QED
  BY <1>2, <1>3, <1>4 DEF TablesOK, SettingsOK

\* Where a single worker moves, or none.
LEMMA OneWorkerMoves ==
  ASSUME WorkersOK, NEW w \in WorkerId, NEW r \in WorkerRow, worker' = [worker EXCEPT ![w] = r],
         r.pc \in {"remind", "escalate"} => \A p \in r.todo : invoice'[p] # None,
         \A p \in Period : invoice[p] # None => invoice'[p] # None
  PROVE  WorkersOK'
<1>1. worker' \in [WorkerId -> WorkerRow]
  BY DEF WorkersOK
<1>2. ASSUME NEW v \in WorkerId, worker'[v].pc \in {"remind", "escalate"},
             NEW p \in worker'[v].todo
      PROVE  invoice'[p] # None
  <2>1. CASE v = w
    <3>1. worker'[v] = r
      BY <2>1 DEF WorkersOK
    <3> QED
      BY <1>2, <3>1
  <2>2. CASE v # w
    <3>1. worker'[v] = worker[v] /\ worker[v].todo \subseteq Period
      BY <2>2 DEF WorkersOK, WorkerRow
    <3> QED
      BY <1>2, <3>1 DEF WorkersOK
  <2> QED
    BY <2>1, <2>2
<1> QED
  BY <1>1, <1>2 DEF WorkersOK

JobPc == {"idle", "overdue_installments", "overdue_invoices"}

\* A step of a job leaves the worker idle, or at a job.
LEMMA JobMoves ==
  ASSUME TablesOK, WorkersOK, NEW w \in WorkerId, Job(w) \/ JobFails(w)
  PROVE  \E r \in WorkerRow : /\ worker' = [worker EXCEPT ![w] = r]
                              /\ r.pc \in JobPc /\ r.last = worker[w].last
<1>1. worker[w] \in WorkerRow /\ worker \in [WorkerId -> WorkerRow] /\ JobPc \subseteq Pc
  BY DEF WorkersOK, JobPc, Pc
<1>2. ASSUME NEW pc \in JobPc, NEW held \in Nat,
             worker' = [worker EXCEPT ![w] = [worker[w] EXCEPT !.pc = pc, !.held = held]]
      PROVE  \E r \in WorkerRow : /\ worker' = [worker EXCEPT ![w] = r]
                                  /\ r.pc \in JobPc /\ r.last = worker[w].last
  <2> PICK r : r = [worker[w] EXCEPT !.pc = pc, !.held = held]
    OBVIOUS
  <2>1. r \in WorkerRow /\ r.pc = pc /\ r.last = worker[w].last
    BY <1>1 DEF WorkerRow
  <2> QED
    BY <1>2, <2>1
<1>3. ASSUME NEW pc \in JobPc, worker' = [worker EXCEPT ![w] = [worker[w] EXCEPT !.pc = pc]]
      PROVE  \E r \in WorkerRow : /\ worker' = [worker EXCEPT ![w] = r]
                                  /\ r.pc \in JobPc /\ r.last = worker[w].last
  <2> PICK r : r = [worker[w] EXCEPT !.pc = pc]
    OBVIOUS
  <2>1. r \in WorkerRow /\ r.pc = pc /\ r.last = worker[w].last
    BY <1>1 DEF WorkerRow
  <2> QED
    BY <1>3, <2>1
<1>4. CASE AcquireJob(w)
  <2> PICK batch : batch = IF jobs < JobBatch THEN jobs ELSE JobBatch
    OBVIOUS
  <2>1. batch - 1 \in Nat
    BY <1>4, MaintenanceAssumption DEF AcquireJob, TablesOK
  <2>2. worker' = [worker EXCEPT ![w] =
                     [worker[w] EXCEPT !.pc = "overdue_installments", !.held = batch - 1]]
    BY <1>4 DEF AcquireJob
  <2>3. "overdue_installments" \in JobPc
    BY DEF JobPc
  <2> QED
    BY <1>2, <2>1, <2>2, <2>3
<1>5. ASSUME NEW today, MarkInstallments(w, today)
      PROVE  worker' = [worker EXCEPT ![w] = [worker[w] EXCEPT !.pc = "overdue_invoices"]]
  BY <1>5 DEF MarkInstallments, Goto
<1>6. CASE JobEnds(w)
  <2>1. CASE worker[w].held > 0
    <3>1. worker[w].held - 1 \in Nat
      BY <1>1, <2>1 DEF WorkerRow
    <3>2. worker' = [worker EXCEPT ![w] =
            [worker[w] EXCEPT !.pc = "overdue_installments", !.held = worker[w].held - 1]]
      BY <1>6, <2>1 DEF JobEnds
    <3>3. "overdue_installments" \in JobPc
      BY DEF JobPc
    <3> QED
      BY <1>2, <3>1, <3>2, <3>3
  <2>2. CASE ~(worker[w].held > 0)
    <3>1. worker' = [worker EXCEPT ![w] = [worker[w] EXCEPT !.pc = "idle"]]
      BY <1>6, <2>2 DEF JobEnds
    <3>2. "idle" \in JobPc
      BY DEF JobPc
    <3> QED
      BY <1>3, <3>1, <3>2
  <2> QED
    BY <2>1, <2>2
<1>7. "overdue_invoices" \in JobPc
  BY DEF JobPc
<1> QED
  BY <1>3, <1>4, <1>5, <1>6, <1>7 DEF Job, JobFails, MarkInvoices

LEMMA WorkersKept ==
  ASSUME TablesOK, WorkersOK, [Next]_vars
  PROVE  WorkersOK'
<1>1. \A p \in Period : invoice[p] # None => invoice'[p] # None
  BY Steps, InvoiceStays DEF TablesOK, RowSteps
<1>2. now \in Instants /\ \A w \in WorkerId : worker[w] \in WorkerRow
  BY DEF TablesOK, WorkersOK
<1>3. ASSUME UNCHANGED worker PROVE WorkersOK'
  <2>1. \A w \in WorkerId : worker[w].todo \subseteq Period
    BY <1>2 DEF WorkerRow
  <2> QED
    BY <1>1, <1>3, <2>1 DEF WorkersOK
<1>4. ASSUME NEW p \in Period, Purchase(p) PROVE WorkersOK'
  BY <1>3, <1>4 DEF Purchase
<1>5. ASSUME NEW p \in Period, NEW n \in 1 .. InvoiceTotal, PayInstallment(p, n) PROVE WorkersOK'
  BY <1>3, <1>5 DEF PayInstallment
<1>6. CASE ClosePeriods \/ SelectMyPaymentPlan
  BY <1>3, <1>6 DEF ClosePeriods, CloseByHand, SelectMyPaymentPlan, SelectPlan
<1>7. CASE PutInstallmentPolicy \/ UpsertCalendar
  BY <1>3, <1>7
  DEF PutInstallmentPolicy, CreateInstallmentPolicyVersion, UpsertCalendar, UpsertCalendarDay
<1>8. ASSUME NEW w \in WorkerId, NEW r \in WorkerRow, worker' = [worker EXCEPT ![w] = r],
             r.pc \in {"remind", "escalate"} => \A p \in r.todo : invoice[p] # None
      PROVE  WorkersOK'
  <2>1. r.todo \subseteq Period
    BY DEF WorkerRow
  <2>2. r.pc \in {"remind", "escalate"} => \A p \in r.todo : invoice'[p] # None
    BY <1>1, <1>8, <2>1
  <2> QED
    BY <1>1, <1>8, <2>2, OneWorkerMoves
<1>9. ASSUME NEW w \in WorkerId, Wake(w) PROVE WorkersOK'
  <2>1. PICK todo \in SUBSET Period :
          worker' = [worker EXCEPT ![w] = [worker[w] EXCEPT !.pc = "close", !.todo = todo]]
    BY <1>9 DEF Wake
  <2> PICK r : r = [worker[w] EXCEPT !.pc = "close", !.todo = todo]
    OBVIOUS
  <2>2. r \in WorkerRow /\ r.pc = "close" /\ worker' = [worker EXCEPT ![w] = r]
    BY <1>2, <2>1 DEF WorkerRow, Pc
  <2> QED
    BY <1>8, <2>2
<1>10. ASSUME NEW w \in WorkerId, ListReminders(w) PROVE WorkersOK'
  <2> PICK todo : todo = {p \in Period : Unpaid(p, 4) /\ ~invoice[p].reminded}
    OBVIOUS
  <2> PICK r : r = [worker[w] EXCEPT !.pc = "remind", !.todo = todo]
    OBVIOUS
  <2>1. worker' = [worker EXCEPT ![w] = r]
    BY <1>10 DEF ListReminders
  <2>2. todo \in SUBSET Period /\ \A p \in todo : invoice[p] # None
    BY DEF Unpaid
  <2>3. r \in WorkerRow /\ r.todo = todo
    BY <1>2, <2>2 DEF WorkerRow, Pc
  <2> QED
    BY <1>8, <2>1, <2>2, <2>3
<1>11. ASSUME NEW w \in WorkerId, ListEscalations(w) PROVE WorkersOK'
  <2> PICK todo : todo = {p \in Period : Unpaid(p, 6) /\ ~invoice[p].escalated}
    OBVIOUS
  <2> PICK r : r = [worker[w] EXCEPT !.pc = "escalate", !.todo = todo]
    OBVIOUS
  <2>1. worker' = [worker EXCEPT ![w] = r]
    BY <1>11 DEF ListEscalations
  <2>2. todo \in SUBSET Period /\ \A p \in todo : invoice[p] # None
    BY DEF Unpaid
  <2>3. r \in WorkerRow /\ r.todo = todo
    BY <1>2, <2>2 DEF WorkerRow, Pc
  <2> QED
    BY <1>8, <2>1, <2>2, <2>3
<1>12. ASSUME NEW w \in WorkerId, NEW p \in Period, Closing(w, p) \/ Remind(w, p) \/ Escalate(w, p)
       PROVE  WorkersOK'
  <2> PICK todo : todo = worker[w].todo \ {p}
    OBVIOUS
  <2> PICK r : r = [worker[w] EXCEPT !.todo = todo]
    OBVIOUS
  <2>1. worker' = [worker EXCEPT ![w] = r]
    BY <1>12 DEF Closing, Remind, Escalate
  <2>2. r \in WorkerRow /\ r.todo = todo /\ r.pc = worker[w].pc
    BY <1>2 DEF WorkerRow
  <2>3. worker[w].pc \in {"remind", "escalate"} => \A q \in todo : invoice[q] # None
    BY DEF WorkersOK
  <2> QED
    BY <1>8, <2>1, <2>2, <2>3
<1>13. ASSUME NEW w \in WorkerId, EnqueueOverdue(w) \/ MaintenanceFails(w) PROVE WorkersOK'
  <2>1. CASE EnqueueOverdue(w)
    <3> PICK r : r = [worker[w] EXCEPT !.pc = "idle", !.last = now]
      OBVIOUS
    <3>1. worker' = [worker EXCEPT ![w] = r]
      BY <2>1 DEF EnqueueOverdue
    <3>2. r \in WorkerRow /\ r.pc = "idle"
      BY <1>2 DEF WorkerRow, Pc
    <3> QED
      BY <1>8, <3>1, <3>2
  <2>2. CASE MaintenanceFails(w)
    <3> PICK r : r = [worker[w] EXCEPT !.pc = "idle", !.todo = {}, !.last = now]
      OBVIOUS
    <3>1. worker' = [worker EXCEPT ![w] = r]
      BY <2>2 DEF MaintenanceFails
    <3>2. r \in WorkerRow /\ r.pc = "idle"
      BY <1>2 DEF WorkerRow, Pc
    <3> QED
      BY <1>8, <3>1, <3>2
  <2> QED
    BY <1>13, <2>1, <2>2
<1>14. ASSUME NEW w \in WorkerId, Crash(w) \/ Restart(w) PROVE WorkersOK'
  <2>1. PICK pc \in {"down", "idle"} :
          worker' = [worker EXCEPT ![w] = [pc |-> pc, todo |-> {}, last |-> None, held |-> 0]]
    BY <1>14 DEF Crash, Restart, Starting
  <2> PICK r : r = [pc |-> pc, todo |-> {}, last |-> None, held |-> 0]
    OBVIOUS
  <2>2. r \in WorkerRow /\ r.todo = {} /\ worker' = [worker EXCEPT ![w] = r]
    BY <2>1 DEF WorkerRow, Pc
  <2> QED
    BY <1>8, <2>2
<1>15. ASSUME NEW w \in WorkerId, Job(w) \/ JobFails(w) PROVE WorkersOK'
  <2>1. PICK r \in WorkerRow : worker' = [worker EXCEPT ![w] = r] /\ r.pc \in JobPc
    BY <1>15, JobMoves
  <2> QED
    BY <1>8, <2>1 DEF JobPc
<1>16. CASE Advance \/ UNCHANGED vars
  BY <1>3, <1>16 DEF Advance, vars
<1>17. ASSUME NEW w \in WorkerId, Maintenance(w) PROVE WorkersOK'
  BY <1>9, <1>10, <1>11, <1>12, <1>13, <1>17 DEF Maintenance
<1> QED
  BY <1>4, <1>5, <1>6, <1>7, <1>13, <1>14, <1>15, <1>16, <1>17 DEF Next

-------------------------------------------------------------------------------
(* The notices about an invoice.                                             *)

\* Nobody lists p who did not, or one of those who did has published, or nothing
\* has been published about it.
OnceStep(kind, pc, p) ==
  \/ notices'[<<kind, p>>] = notices[<<kind, p>>] /\ Listed(pc, p)' \subseteq Listed(pc, p)
  \/ /\ notices'[<<kind, p>>] = notices[<<kind, p>>] + 1
     /\ \E w \in Listed(pc, p) : Listed(pc, p)' \subseteq Listed(pc, p) \ {w}
  \/ notices'[<<kind, p>>] = 0

LEMMA OnceKept ==
  ASSUME NEW kind, NEW pc, NEW p, OncePerWorker(kind, pc, p), OnceStep(kind, pc, p),
         notices[<<kind, p>>] \in Nat
  PROVE  OncePerWorker(kind, pc, p)'
<1> PICK A : A = Listed(pc, p)
  OBVIOUS
<1> PICK B : B = Listed(pc, p)'
  OBVIOUS
<1> PICK n : n = notices[<<kind, p>>]
  OBVIOUS
<1> PICK m : m = notices'[<<kind, p>>]
  OBVIOUS
<1>1. IsFiniteSet(WorkerId) /\ A \subseteq WorkerId /\ B \subseteq WorkerId
  BY MaintenanceAssumption DEF Listed
<1>2. IsFiniteSet(A) /\ IsFiniteSet(B) /\ Cardinality(B) <= Cardinality(WorkerId)
  BY <1>1, FS_Subset
<1>3. Cardinality(WorkerId) \in Nat /\ Cardinality(A) \in Nat /\ Cardinality(B) \in Nat
  BY <1>1, <1>2, FS_CardinalityType
<1>4. n + Cardinality(A) <= Cardinality(WorkerId)
  BY DEF OncePerWorker
<1> SUFFICES m + Cardinality(B) <= Cardinality(WorkerId)
  BY DEF OncePerWorker
<1>5. CASE m = n /\ B \subseteq A
  <2>1. Cardinality(B) <= Cardinality(A)
    BY <1>2, <1>5, FS_Subset
  <2> QED
    BY <1>3, <1>4, <1>5, <2>1
<1>6. ASSUME m = n + 1, NEW w \in A, B \subseteq A \ {w} PROVE m + Cardinality(B) <= Cardinality(WorkerId)
  <2>1. IsFiniteSet(A \ {w}) /\ Cardinality(A \ {w}) = Cardinality(A) - 1
    BY <1>2, FS_RemoveElement
  <2>2. Cardinality(B) <= Cardinality(A \ {w})
    BY <1>6, <2>1, FS_Subset
  <2> QED
    BY <1>3, <1>4, <1>6, <2>1, <2>2
<1>7. CASE m = 0
  BY <1>2, <1>3, <1>7
<1> QED
  BY <1>5, <1>6, <1>7 DEF OnceStep

\* What a step may publish about an invoice.
NoticeStep(p) ==
  /\ notices'[<<"invoice.closed", p>>] = notices[<<"invoice.closed", p>>]
       + IF invoice[p] = None /\ invoice'[p] # None THEN 1 ELSE 0
  /\ notices'[<<"invoice.payment_reminder", p>>] # notices[<<"invoice.payment_reminder", p>>]
       => invoice'[p] # None /\ invoice'[p].reminded
  /\ notices'[<<"invoice.payment_escalation", p>>] # notices[<<"invoice.payment_escalation", p>>]
       => invoice'[p] # None /\ invoice'[p].escalated
  /\ OnceStep("invoice.payment_reminder", "remind", p)
  /\ OnceStep("invoice.payment_escalation", "escalate", p)

NoticeSteps ==
  notices' \in [EventKind \X Period -> Nat] /\ \A p \in Period : NoticeStep(p)

LEMMA NoticesFrom ==
  ASSUME TablesOK, NoticesOK, RowSteps, NoticeSteps
  PROVE  NoticesOK'
<1>0. notices' \in [EventKind \X Period -> Nat]
  BY DEF NoticeSteps
<1>1. ASSUME NEW p \in Period
      PROVE  /\ notices'[<<"invoice.closed", p>>] = IF invoice'[p] = None THEN 0 ELSE 1
             /\ notices'[<<"invoice.payment_reminder", p>>] > 0
                  => invoice'[p] # None /\ invoice'[p].reminded
             /\ notices'[<<"invoice.payment_escalation", p>>] > 0
                  => invoice'[p] # None /\ invoice'[p].escalated
             /\ OncePerWorker("invoice.payment_reminder", "remind", p)'
             /\ OncePerWorker("invoice.payment_escalation", "escalate", p)'
  <2>1. /\ notices[<<"invoice.closed", p>>] = IF invoice[p] = None THEN 0 ELSE 1
        /\ notices[<<"invoice.payment_reminder", p>>] > 0 => invoice[p] # None /\ invoice[p].reminded
        /\ notices[<<"invoice.payment_escalation", p>>] > 0 => invoice[p] # None /\ invoice[p].escalated
        /\ OncePerWorker("invoice.payment_reminder", "remind", p)
        /\ OncePerWorker("invoice.payment_escalation", "escalate", p)
    BY DEF NoticesOK
  <2>2. NoticeStep(p)
    BY DEF NoticeSteps
  <2>3. invoice[p] # None => /\ invoice'[p] # None
                             /\ invoice[p].reminded => invoice'[p].reminded
                             /\ invoice[p].escalated => invoice'[p].escalated
    BY InvoiceStays DEF TablesOK, RowSteps
  <2>4. \A k \in EventKind : notices[<<k, p>>] \in Nat
    BY DEF NoticesOK
  <2>5. /\ notices[<<"invoice.payment_reminder", p>>] \in Nat
        /\ notices[<<"invoice.payment_escalation", p>>] \in Nat
    BY <2>4, Zenon DEF EventKind
  <2>6. notices'[<<"invoice.closed", p>>] = IF invoice'[p] = None THEN 0 ELSE 1
    BY <2>1, <2>2, <2>3 DEF NoticeStep
  <2>7. /\ OncePerWorker("invoice.payment_reminder", "remind", p)'
        /\ OncePerWorker("invoice.payment_escalation", "escalate", p)'
    BY <2>1, <2>2, <2>5, OnceKept DEF NoticeStep
  <2>8. notices'[<<"invoice.payment_reminder", p>>] > 0
          => invoice'[p] # None /\ invoice'[p].reminded
    BY <2>1, <2>2, <2>3, Zenon DEF NoticeStep
  <2>9. notices'[<<"invoice.payment_escalation", p>>] > 0
          => invoice'[p] # None /\ invoice'[p].escalated
    BY <2>1, <2>2, <2>3, Zenon DEF NoticeStep
  <2> QED
    BY <2>6, <2>7, <2>8, <2>9
<1> QED
  BY <1>0, <1>1 DEF NoticesOK

LEMMA PublishedNotices ==
  ASSUME NoticesOK, NEW kind \in EventKind, NEW p \in Period, notices' = Published(kind, p)
  PROVE  /\ notices' \in [EventKind \X Period -> Nat]
         /\ notices'[<<kind, p>>] = notices[<<kind, p>>] + 1
         /\ \A k \in EventKind, q \in Period :
              k # kind \/ q # p => notices'[<<k, q>>] = notices[<<k, q>>]
<1> PICK f : f = notices
  OBVIOUS
<1>1. f \in [EventKind \X Period -> Nat]
  BY DEF NoticesOK
<1>2. notices' = [f EXCEPT ![<<kind, p>>] = f[<<kind, p>>] + 1]
  BY DEF Published
<1> QED
  BY <1>1, <1>2

\* A worker that goes on no longer lists p, or lists it as before.
LEMMA ListedShrinks ==
  ASSUME NEW w \in WorkerId, NEW r, worker \in [WorkerId -> WorkerRow],
         worker' = [worker EXCEPT ![w] = r], NEW pc, NEW p,
         r.pc = pc /\ p \in r.todo => worker[w].pc = pc /\ p \in worker[w].todo
  PROVE  /\ Listed(pc, p)' \subseteq Listed(pc, p)
         /\ ~(r.pc = pc /\ p \in r.todo) => Listed(pc, p)' \subseteq Listed(pc, p) \ {w}
<1>1. ASSUME NEW v \in WorkerId, worker'[v].pc = pc, p \in worker'[v].todo
      PROVE  /\ worker[v].pc = pc /\ p \in worker[v].todo
             /\ v = w => r.pc = pc /\ p \in r.todo
  <2>1. CASE v = w
    <3>1. worker'[v] = r
      BY <2>1
    <3> QED
      BY <1>1, <2>1, <3>1
  <2>2. CASE v # w
    <3>1. worker'[v] = worker[v]
      BY <2>2
    <3> QED
      BY <1>1, <2>2, <3>1
  <2> QED
    BY <2>1, <2>2
<1> QED
  BY <1>1 DEF Listed

\* Nothing is published, nothing closed, and no listing grows.
LEMMA NothingPublished ==
  ASSUME NoticesOK, UNCHANGED notices,
         \A p \in Period : invoice[p] = None => invoice'[p] = None,
         \A p \in Period : /\ Listed("remind", p)' \subseteq Listed("remind", p)
                           /\ Listed("escalate", p)' \subseteq Listed("escalate", p)
  PROVE  NoticeSteps
<1>1. ASSUME NEW p \in Period PROVE NoticeStep(p)
  <2>1. notices[<<"invoice.closed", p>>] \in Nat
    BY DEF NoticesOK, EventKind
  <2>2. /\ OnceStep("invoice.payment_reminder", "remind", p)
        /\ OnceStep("invoice.payment_escalation", "escalate", p)
    BY Zenon DEF OnceStep
  <2> QED
    BY <2>1, <2>2 DEF NoticeStep
<1> QED
  BY <1>1 DEF NoticeSteps, NoticesOK

LEMMA NobodyMoves ==
  ASSUME NoticesOK, UNCHANGED <<notices, worker>>,
         \A p \in Period : invoice[p] = None => invoice'[p] = None
  PROVE  NoticeSteps
<1>1. \A pc, p : Listed(pc, p)' = Listed(pc, p)
  BY DEF Listed
<1> QED
  BY <1>1, NothingPublished

\* A worker that neither reminds nor escalates.
LEMMA WorkerIsQuiet ==
  ASSUME WorkersOK, NoticesOK, UNCHANGED notices,
         \A p \in Period : invoice[p] = None => invoice'[p] = None,
         NEW w \in WorkerId, NEW r, worker' = [worker EXCEPT ![w] = r],
         r.pc \notin {"remind", "escalate"}
  PROVE  NoticeSteps
<1>1. \A p : /\ Listed("remind", p)' \subseteq Listed("remind", p)
             /\ Listed("escalate", p)' \subseteq Listed("escalate", p)
  BY ListedShrinks DEF WorkersOK
<1> QED
  BY <1>1, NothingPublished

LEMMA CloseNotices ==
  ASSUME TablesOK, NoticesOK, NEW p \in Period, ClosePeriod(p),
         \A q \in Period : /\ Listed("remind", q)' \subseteq Listed("remind", q)
                           /\ Listed("escalate", q)' \subseteq Listed("escalate", q)
  PROVE  NoticeSteps
<1>1. CASE Closes(p)
  <2>1. /\ invoice' = [invoice EXCEPT ![p] = NewInvoice(p)]
        /\ notices' = Published("invoice.closed", p)
        /\ invoice[p] = None
    BY <1>1 DEF ClosePeriod, Closes
  <2>2. invoice'[p] # None
    BY <2>1, NewInvoiceTyped DEF TablesOK
  <2>3. /\ notices' \in [EventKind \X Period -> Nat]
        /\ notices'[<<"invoice.closed", p>>] = notices[<<"invoice.closed", p>>] + 1
        /\ \A k \in EventKind, q \in Period :
             k # "invoice.closed" \/ q # p => notices'[<<k, q>>] = notices[<<k, q>>]
    BY <2>1, PublishedNotices DEF EventKind
  <2>4. ASSUME NEW q \in Period PROVE NoticeStep(q)
    <3>1. /\ notices'[<<"invoice.payment_reminder", q>>] = notices[<<"invoice.payment_reminder", q>>]
          /\ notices'[<<"invoice.payment_escalation", q>>] = notices[<<"invoice.payment_escalation", q>>]
      BY <2>3, Zenon DEF EventKind
    <3>2. /\ OnceStep("invoice.payment_reminder", "remind", q)
          /\ OnceStep("invoice.payment_escalation", "escalate", q)
      BY <3>1, Zenon DEF OnceStep
    <3>3. notices'[<<"invoice.closed", q>>] = notices[<<"invoice.closed", q>>]
            + IF invoice[q] = None /\ invoice'[q] # None THEN 1 ELSE 0
      <4>1. CASE q = p
        BY <2>1, <2>2, <2>3, <4>1
      <4>2. CASE q # p
        <5>1. notices'[<<"invoice.closed", q>>] = notices[<<"invoice.closed", q>>]
          BY <2>3, <4>2, Zenon DEF EventKind
        <5>2. notices[<<"invoice.closed", q>>] \in Nat
          BY DEF NoticesOK, EventKind
        <5>3. invoice'[q] = invoice[q]
          BY <2>1, <4>2 DEF TablesOK
        <5> QED
          BY <5>1, <5>2, <5>3
      <4> QED
        BY <4>1, <4>2
    <3> QED
      BY <3>1, <3>2, <3>3 DEF NoticeStep
  <2> QED
    BY <2>3, <2>4 DEF NoticeSteps
<1>2. CASE ~Closes(p)
  BY <1>2, NothingPublished DEF ClosePeriod
<1> QED
  BY <1>1, <1>2

LEMMA ListNotices ==
  ASSUME WorkersOK, NoticesOK, UNCHANGED <<notices, invoice>>,
         NEW w \in WorkerId, NEW r, worker' = [worker EXCEPT ![w] = r],
         \/ r.pc = "remind" /\ \A p \in r.todo : invoice[p] # None /\ ~invoice[p].reminded
         \/ r.pc = "escalate" /\ \A p \in r.todo : invoice[p] # None /\ ~invoice[p].escalated
  PROVE  NoticeSteps
<1>1. ASSUME NEW p \in Period PROVE NoticeStep(p)
  <2>0. /\ notices[<<"invoice.closed", p>>] \in Nat
        /\ notices[<<"invoice.payment_reminder", p>>] \in Nat
        /\ notices[<<"invoice.payment_escalation", p>>] \in Nat
    BY DEF NoticesOK, EventKind
  <2>1. OnceStep("invoice.payment_reminder", "remind", p)
    <3>1. CASE r.pc = "remind" /\ p \in r.todo
      <4>1. ~(notices[<<"invoice.payment_reminder", p>>] > 0)
        BY <3>1 DEF NoticesOK
      <4>2. notices'[<<"invoice.payment_reminder", p>>] = 0
        BY <2>0, <4>1
      <4> QED
        BY <4>2 DEF OnceStep
    <3>2. CASE ~(r.pc = "remind" /\ p \in r.todo)
      BY ZenonT(60), <3>2, ListedShrinks DEF OnceStep, WorkersOK
    <3> QED
      BY <3>1, <3>2
  <2>2. OnceStep("invoice.payment_escalation", "escalate", p)
    <3>1. CASE r.pc = "escalate" /\ p \in r.todo
      <4>1. ~(notices[<<"invoice.payment_escalation", p>>] > 0)
        BY <3>1 DEF NoticesOK
      <4>2. notices'[<<"invoice.payment_escalation", p>>] = 0
        BY <2>0, <4>1
      <4> QED
        BY <4>2 DEF OnceStep
    <3>2. CASE ~(r.pc = "escalate" /\ p \in r.todo)
      BY ZenonT(60), <3>2, ListedShrinks DEF OnceStep, WorkersOK
    <3> QED
      BY <3>1, <3>2
  <2> QED
    BY <2>0, <2>1, <2>2 DEF NoticeStep
<1> QED
  BY <1>1 DEF NoticeSteps, NoticesOK

\* One notice is published, and its invoice leaves the listing.
LEMMA PublishNotices ==
  ASSUME TablesOK, WorkersOK, NoticesOK, NEW w \in WorkerId, NEW p \in Period,
         p \in worker[w].todo,
         worker' = [worker EXCEPT ![w] = [worker[w] EXCEPT !.todo = worker[w].todo \ {p}]],
         \A q \in Period : invoice[q] = None => invoice'[q] = None,
         invoice'[p] # None,
         \/ /\ worker[w].pc = "remind" /\ invoice'[p].reminded
            /\ notices' = Published("invoice.payment_reminder", p)
         \/ /\ worker[w].pc = "escalate" /\ invoice'[p].escalated
            /\ notices' = Published("invoice.payment_escalation", p)
  PROVE  NoticeSteps
<1>1. PICK r : r = [worker[w] EXCEPT !.todo = worker[w].todo \ {p}]
  OBVIOUS
<1>2. worker[w] \in WorkerRow
  BY DEF WorkersOK
<1>3. r.pc = worker[w].pc /\ r.todo = worker[w].todo \ {p} /\ worker' = [worker EXCEPT ![w] = r]
  BY <1>2, <1>1 DEF WorkerRow
<1>4. ASSUME NEW pc, NEW q
      PROVE  /\ Listed(pc, q)' \subseteq Listed(pc, q)
             /\ q = p => Listed(pc, q)' \subseteq Listed(pc, q) \ {w}
  <2>1. worker \in [WorkerId -> WorkerRow]
    BY DEF WorkersOK
  <2>2. /\ worker' = [worker EXCEPT ![w] = r]
        /\ r.pc = pc /\ q \in r.todo => worker[w].pc = pc /\ q \in worker[w].todo
        /\ q = p => q \notin r.todo
    BY <1>3
  <2>3. /\ Listed(pc, q)' \subseteq Listed(pc, q)
        /\ ~(r.pc = pc /\ q \in r.todo) => Listed(pc, q)' \subseteq Listed(pc, q) \ {w}
    BY <2>1, <2>2, ListedShrinks
  <2> QED
    BY <2>2, <2>3
<1>5. w \in Listed(worker[w].pc, p)
  BY DEF Listed
<1>6. PICK kind \in {"invoice.payment_reminder", "invoice.payment_escalation"} :
        /\ notices' = Published(kind, p)
        /\ kind = "invoice.payment_reminder" => worker[w].pc = "remind" /\ invoice'[p].reminded
        /\ kind = "invoice.payment_escalation" => worker[w].pc = "escalate" /\ invoice'[p].escalated
  <2>1. CASE /\ worker[w].pc = "remind" /\ invoice'[p].reminded
             /\ notices' = Published("invoice.payment_reminder", p)
    BY <2>1, Zenon
  <2>2. CASE /\ worker[w].pc = "escalate" /\ invoice'[p].escalated
             /\ notices' = Published("invoice.payment_escalation", p)
    BY <2>2, Zenon
  <2> QED
    BY <2>1, <2>2
<1>7. /\ notices' \in [EventKind \X Period -> Nat]
      /\ notices'[<<kind, p>>] = notices[<<kind, p>>] + 1
      /\ \A k \in EventKind, q \in Period :
           k # kind \/ q # p => notices'[<<k, q>>] = notices[<<k, q>>]
  <2>1. kind \in EventKind
    BY DEF EventKind
  <2> QED
    BY <1>6, <2>1, PublishedNotices
<1>8. ASSUME NEW q \in Period PROVE NoticeStep(q)
  <2>1. notices'[<<"invoice.closed", q>>] = notices[<<"invoice.closed", q>>]
          + IF invoice[q] = None /\ invoice'[q] # None THEN 1 ELSE 0
    <3>1. notices'[<<"invoice.closed", q>>] = notices[<<"invoice.closed", q>>]
      BY <1>6, <1>7, Zenon DEF EventKind
    <3>2. notices[<<"invoice.closed", q>>] \in Nat
      BY DEF NoticesOK, EventKind
    <3> QED
      BY <3>1, <3>2
  <2>2. /\ OnceStep("invoice.payment_reminder", "remind", q)
        /\ notices'[<<"invoice.payment_reminder", q>>] # notices[<<"invoice.payment_reminder", q>>]
             => invoice'[q] # None /\ invoice'[q].reminded
    <3>1. CASE kind = "invoice.payment_reminder" /\ q = p
      <4>1. notices'[<<"invoice.payment_reminder", p>>] = notices[<<"invoice.payment_reminder", p>>] + 1
        BY <1>7, <3>1
      <4>2. w \in Listed("remind", p) /\ Listed("remind", p)' \subseteq Listed("remind", p) \ {w}
        BY <1>4, <1>5, <1>6, <3>1
      <4> QED
        BY <1>6, <3>1, <4>1, <4>2 DEF OnceStep
    <3>2. CASE kind # "invoice.payment_reminder" \/ q # p
      <4>1. notices'[<<"invoice.payment_reminder", q>>] = notices[<<"invoice.payment_reminder", q>>]
        BY <1>7, <3>2, Zenon DEF EventKind
      <4> QED
        BY <1>4, <4>1, Zenon DEF OnceStep
    <3> QED
      BY <3>1, <3>2
  <2>3. /\ OnceStep("invoice.payment_escalation", "escalate", q)
        /\ notices'[<<"invoice.payment_escalation", q>>] # notices[<<"invoice.payment_escalation", q>>]
             => invoice'[q] # None /\ invoice'[q].escalated
    <3>1. CASE kind = "invoice.payment_escalation" /\ q = p
      <4>1. notices'[<<"invoice.payment_escalation", p>>] = notices[<<"invoice.payment_escalation", p>>] + 1
        BY <1>7, <3>1
      <4>2. w \in Listed("escalate", p) /\ Listed("escalate", p)' \subseteq Listed("escalate", p) \ {w}
        BY <1>4, <1>5, <1>6, <3>1
      <4> QED
        BY <1>6, <3>1, <4>1, <4>2 DEF OnceStep
    <3>2. CASE kind # "invoice.payment_escalation" \/ q # p
      <4>1. notices'[<<"invoice.payment_escalation", q>>] = notices[<<"invoice.payment_escalation", q>>]
        BY <1>7, <3>2, Zenon DEF EventKind
      <4> QED
        BY <1>4, <4>1, Zenon DEF OnceStep
    <3> QED
      BY <3>1, <3>2
  <2> QED
    BY <2>1, <2>2, <2>3 DEF NoticeStep
<1> QED
  BY <1>7, <1>8 DEF NoticeSteps

LEMMA JobNotices ==
  ASSUME TablesOK, WorkersOK, NoticesOK, NEW w \in WorkerId, Job(w) \/ JobFails(w)
  PROVE  NoticeSteps
<1>1. PICK r \in WorkerRow : worker' = [worker EXCEPT ![w] = r] /\ r.pc \in JobPc
  BY JobMoves
<1>2. UNCHANGED notices
  BY DEF Job, JobFails, AcquireJob, MarkInstallments, MarkInvoices
<1>3. ASSUME NEW p \in Period, invoice[p] = None PROVE invoice'[p] = None
  <2>1. CASE UNCHANGED invoice
    BY <1>3, <2>1
  <2>2. ASSUME NEW today, MarkInstallments(w, today) PROVE invoice'[p] = None
    BY <1>3, <2>2, Zenon DEF MarkInstallments
  <2>3. CASE MarkInvoices(w)
    BY <1>3, <2>3 DEF MarkInvoices
  <2> QED
    BY <2>1, <2>2, <2>3 DEF Job, JobFails, AcquireJob, billing
<1>4. r.pc \notin {"remind", "escalate"}
  BY <1>1 DEF JobPc
<1> QED
  BY <1>1, <1>2, <1>3, <1>4, WorkerIsQuiet

LEMMA MaintenanceNotices ==
  ASSUME TablesOK, WorkersOK, NoticesOK, NEW w \in WorkerId, Maintenance(w)
  PROVE  NoticeSteps
<1>0. worker[w] \in WorkerRow /\ worker \in [WorkerId -> WorkerRow]
  BY DEF WorkersOK
<1>1. CASE Wake(w)
  <2>1. PICK todo \in SUBSET Period :
          worker' = [worker EXCEPT ![w] = [worker[w] EXCEPT !.pc = "close", !.todo = todo]]
    BY <1>1 DEF Wake
  <2>2. PICK r : r = [worker[w] EXCEPT !.pc = "close", !.todo = todo]
    OBVIOUS
  <2>3. worker' = [worker EXCEPT ![w] = r] /\ r.pc \notin {"remind", "escalate"}
    BY <1>0, <2>1, <2>2 DEF WorkerRow
  <2>4. UNCHANGED <<notices, invoice>>
    BY <1>1 DEF Wake, billing
  <2> QED
    BY <2>3, <2>4, WorkerIsQuiet
<1>2. CASE ListReminders(w)
  <2>1. PICK todo : todo = {p \in Period : Unpaid(p, 4) /\ ~invoice[p].reminded}
    OBVIOUS
  <2>2. PICK r : r = [worker[w] EXCEPT !.pc = "remind", !.todo = todo]
    OBVIOUS
  <2>3. worker' = [worker EXCEPT ![w] = r]
    BY <1>2, <2>1, <2>2 DEF ListReminders
  <2>4. r.pc = "remind" /\ r.todo = todo
    BY <1>0, <2>2 DEF WorkerRow
  <2>5. \A p \in todo : invoice[p] # None /\ ~invoice[p].reminded
    BY <2>1 DEF Unpaid
  <2>6. UNCHANGED <<notices, invoice>>
    BY <1>2 DEF ListReminders, billing
  <2> QED
    BY <2>3, <2>4, <2>5, <2>6, ListNotices
<1>3. CASE ListEscalations(w)
  <2>1. PICK todo : todo = {p \in Period : Unpaid(p, 6) /\ ~invoice[p].escalated}
    OBVIOUS
  <2>2. PICK r : r = [worker[w] EXCEPT !.pc = "escalate", !.todo = todo]
    OBVIOUS
  <2>3. worker' = [worker EXCEPT ![w] = r]
    BY <1>3, <2>1, <2>2 DEF ListEscalations
  <2>4. r.pc = "escalate" /\ r.todo = todo
    BY <1>0, <2>2 DEF WorkerRow
  <2>5. \A p \in todo : invoice[p] # None /\ ~invoice[p].escalated
    BY <2>1 DEF Unpaid
  <2>6. UNCHANGED <<notices, invoice>>
    BY <1>3 DEF ListEscalations, billing
  <2> QED
    BY <2>3, <2>4, <2>5, <2>6, ListNotices
<1>4. CASE EnqueueOverdue(w)
  <2>1. PICK r : r = [worker[w] EXCEPT !.pc = "idle", !.last = now]
    OBVIOUS
  <2>2. worker' = [worker EXCEPT ![w] = r] /\ r.pc \notin {"remind", "escalate"}
    BY <1>0, <1>4, <2>1 DEF EnqueueOverdue, WorkerRow
  <2>3. UNCHANGED <<notices, invoice>>
    BY <1>4 DEF EnqueueOverdue, billing
  <2> QED
    BY <2>2, <2>3, WorkerIsQuiet
<1>5. ASSUME NEW p \in Period, Closing(w, p) PROVE NoticeSteps
  <2>1. PICK r : r = [worker[w] EXCEPT !.todo = worker[w].todo \ {p}]
    OBVIOUS
  <2>2. worker' = [worker EXCEPT ![w] = r] /\ r.pc = "close" /\ ClosePeriod(p)
    BY <1>0, <1>5, <2>1 DEF Closing, At_, WorkerRow
  <2>3. \A q : /\ Listed("remind", q)' \subseteq Listed("remind", q)
               /\ Listed("escalate", q)' \subseteq Listed("escalate", q)
    BY <1>0, <2>2, ListedShrinks
  <2> QED
    BY <2>2, <2>3, CloseNotices
<1>6. ASSUME NEW p \in Period, Remind(w, p) \/ Escalate(w, p) PROVE NoticeSteps
  <2>1. /\ p \in worker[w].todo /\ invoice[p] # None
        /\ worker' = [worker EXCEPT ![w] = [worker[w] EXCEPT !.todo = worker[w].todo \ {p}]]
    BY <1>6 DEF Remind, Escalate, At_, WorkersOK
  <2>2. invoice[p] \in InvoiceRow
    BY <2>1, RowsTyped DEF TablesOK
  <2>3. CASE Remind(w, p)
    <3>1. /\ worker[w].pc = "remind" /\ notices' = Published("invoice.payment_reminder", p)
          /\ invoice' = [invoice EXCEPT ![p] = [invoice[p] EXCEPT !.reminded = TRUE]]
      BY <2>3 DEF Remind, At_
    <3>2. invoice'[p] = [invoice[p] EXCEPT !.reminded = TRUE]
      BY <3>1 DEF TablesOK
    <3>3. invoice'[p] \in InvoiceRow /\ invoice'[p].reminded
      BY <2>2, <3>2 DEF InvoiceRow
    <3>4. invoice'[p] # None
      BY <3>3, NoneIsApart
    <3>5. \A q \in Period : invoice[q] = None => invoice'[q] = None
      BY <2>1, <3>1 DEF TablesOK
    <3> QED
      BY <2>1, <3>1, <3>3, <3>4, <3>5, PublishNotices
  <2>4. CASE Escalate(w, p)
    <3>1. /\ worker[w].pc = "escalate" /\ notices' = Published("invoice.payment_escalation", p)
          /\ invoice' = [invoice EXCEPT ![p] = Escalated(p)]
      BY <2>4 DEF Escalate, At_
    <3>2. invoice'[p] = Escalated(p)
      BY <3>1 DEF TablesOK
    <3>3. invoice'[p] \in InvoiceRow /\ invoice'[p].escalated
      BY <2>2, <3>2 DEF InvoiceRow, Escalated, InvoiceStatus
    <3>4. invoice'[p] # None
      BY <3>3, NoneIsApart
    <3>5. \A q \in Period : invoice[q] = None => invoice'[q] = None
      BY <2>1, <3>1 DEF TablesOK
    <3> QED
      BY <2>1, <3>1, <3>3, <3>4, <3>5, PublishNotices
  <2> QED
    BY <1>6, <2>3, <2>4
<1> QED
  BY <1>1, <1>2, <1>3, <1>4, <1>5, <1>6 DEF Maintenance

LEMMA NoticesKept ==
  ASSUME TablesOK, WorkersOK, NoticesOK, [Next]_vars
  PROVE  NoticesOK'
<1>0. NoticeSteps
  <2>1. ASSUME UNCHANGED <<notices, worker, invoice>> PROVE NoticeSteps
    BY <2>1, NobodyMoves
  <2>2. CASE UNCHANGED vars
    BY <2>1, <2>2 DEF vars, billing
  <2>3. ASSUME NEW p \in Period, Purchase(p) PROVE NoticeSteps
    BY <2>1, <2>3 DEF Purchase
  <2>4. ASSUME NEW p \in Period, NEW n \in 1 .. InvoiceTotal, PayInstallment(p, n) \/ SelectPlan(p, n)
        PROVE  NoticeSteps
    <3>1. UNCHANGED <<notices, worker>>
      BY <2>4 DEF PayInstallment, SelectPlan
    <3>2. invoice[p] # None
      <4>1. CASE SelectPlan(p, n)
        BY <4>1 DEF SelectPlan, Pending
      <4>2. CASE PayInstallment(p, n)
        <5>1. n \in DOMAIN insts[p]
          BY <4>2 DEF PayInstallment
        <5>2. insts[p] # <<>>
          BY <5>1
        <5> QED
          BY <5>2, RowsTyped DEF TablesOK
      <4> QED
        BY <2>4, <4>1, <4>2
    <3>3. \A q \in Period \ {p} : invoice'[q] = invoice[q]
      BY <2>4 DEF PayInstallment, SelectPlan, TablesOK
    <3> QED
      BY <3>1, <3>2, <3>3, NobodyMoves
  <2>5. CASE ClosePeriods
    <3>1. PICK p \in Period : CloseByHand(p)
      BY <2>5 DEF ClosePeriods
    <3>2. ClosePeriod(p) /\ UNCHANGED worker
      BY <3>1 DEF CloseByHand
    <3>3. \A pc, q : Listed(pc, q)' = Listed(pc, q)
      BY <3>2 DEF Listed
    <3> QED
      BY <3>2, <3>3, CloseNotices
  <2>6. CASE PutInstallmentPolicy \/ UpsertCalendar
    BY <2>1, <2>6
    DEF PutInstallmentPolicy, CreateInstallmentPolicyVersion, UpsertCalendar, UpsertCalendarDay
  <2>7. CASE Advance
    BY <2>1, <2>7 DEF Advance, billing
  <2>8. ASSUME NEW w \in WorkerId, MaintenanceFails(w) PROVE NoticeSteps
    <3>1. PICK r : r = [worker[w] EXCEPT !.pc = "idle", !.todo = {}, !.last = now]
      OBVIOUS
    <3>2. worker' = [worker EXCEPT ![w] = r]
      BY <2>8, <3>1 DEF MaintenanceFails
    <3>3. worker[w] \in WorkerRow
      BY DEF WorkersOK
    <3>4. r.pc \notin {"remind", "escalate"}
      BY <3>1, <3>3 DEF WorkerRow
    <3>5. UNCHANGED <<notices, invoice>>
      BY <2>8 DEF MaintenanceFails, billing
    <3> QED
      BY <3>2, <3>4, <3>5, WorkerIsQuiet
  <2>9. ASSUME NEW w \in WorkerId, Crash(w) \/ Restart(w) PROVE NoticeSteps
    <3>1. PICK r : worker' = [worker EXCEPT ![w] = r] /\ r.pc \notin {"remind", "escalate"}
      BY <2>9 DEF Crash, Restart, Starting
    <3>2. UNCHANGED <<notices, invoice>>
      BY <2>9 DEF Crash, Restart, billing
    <3> QED
      BY <3>1, <3>2, WorkerIsQuiet
  <2> QED
    BY <2>2, <2>3, <2>4, <2>5, <2>6, <2>7, <2>8, <2>9, JobNotices, MaintenanceNotices
    DEF Next, SelectMyPaymentPlan
<1> QED
  BY <1>0, Steps, NoticesFrom

-------------------------------------------------------------------------------
(* The closing of the month.                                                 *)

LEMMA InstantsTyped ==
  \A t \in Instants : t \in Nat /\ t \in Int
BY MaintenanceAssumption

LEMMA HalvesAscend ==
  \A t, u \in Int : t <= u => t \div 2 <= u \div 2
OBVIOUS

LEMMA FirstTyped ==
  \A p \in Period : FirstOfNextMonth(p) \in Int
BY MaintenanceAssumption, ScheduleAssumption DEF FirstOfNextMonth

\* Nobody moves, and time does not pass.
LEMMA TimeStands ==
  ASSUME TimeOK, UNCHANGED <<now, faults, worker>>,
         \A p \in Period : Unbilled(p)' => Unbilled(p) \/ Day < FirstOfNextMonth(p),
         now \in Int, \A p \in Period : FirstOfNextMonth(p) \in Int
  PROVE  TimeOK'
<1>1. ASSUME NEW p \in Period PROVE InTime(p)'
  <2> SUFFICES ASSUME faults' = 0, Unbilled(p)'
               PROVE  /\ Day' = FirstOfNextMonth(p)' => \A w \in WorkerId : WillClose(w, p)'
                      /\ Day' > FirstOfNextMonth(p)' => FirstOfNextMonth(p)' \notin ClosingDays'
    BY DEF InTime
  <2>1. /\ Day' = Day /\ FirstOfNextMonth(p)' = FirstOfNextMonth(p) /\ ClosingDays' = ClosingDays
        /\ \A w : WillClose(w, p)' = WillClose(w, p)
    BY DEF Day, FirstOfNextMonth, ClosingDays, WillClose
  <2>2. CASE Unbilled(p)
    <3>1. InTime(p) /\ faults = 0
      BY DEF TimeOK
    <3> QED
      BY <2>1, <2>2, <3>1 DEF InTime
  <2>3. CASE Day < FirstOfNextMonth(p)
    <3>1. Day \in Int
      BY DEF Day
    <3> QED
      BY <2>1, <2>3, <3>1
  <2> QED
    BY <2>2, <2>3
<1>2. /\ \A w \in WorkerId : worker'[w].last # None => worker'[w].last <= now'
      /\ faults' = 0 => \A w \in WorkerId : worker'[w].pc # "down"
  BY DEF TimeOK
<1> QED
  BY <1>1, <1>2 DEF TimeOK

\* A worker moves.
LEMMA WorkerTime ==
  ASSUME TimeOK, WorkersOK, UNCHANGED <<now, bought>>,
         \A p \in Period : invoice[p] # None => invoice'[p] # None,
         NEW w \in WorkerId, NEW r, worker' = [worker EXCEPT ![w] = r],
         r.last # None => r.last <= now,
         faults' = 0 => faults = 0 /\ r.pc # "down",
         \A p \in Period :
           faults' = 0 /\ Unbilled(p)' /\ Day = FirstOfNextMonth(p) /\ WillClose(w, p)
             => (r.pc = "idle" /\ r.last # now) \/ (r.pc = "close" /\ p \in r.todo)
  PROVE  TimeOK'
<1>0. worker'[w] = r /\ \A v \in WorkerId \ {w} : worker'[v] = worker[v]
  BY DEF WorkersOK
<1>1. ASSUME NEW p \in Period PROVE InTime(p)'
  <2> SUFFICES ASSUME faults' = 0, Unbilled(p)'
               PROVE  /\ Day' = FirstOfNextMonth(p)' => \A v \in WorkerId : WillClose(v, p)'
                      /\ Day' > FirstOfNextMonth(p)' => FirstOfNextMonth(p)' \notin ClosingDays'
    BY DEF InTime
  <2>1. Day' = Day /\ FirstOfNextMonth(p)' = FirstOfNextMonth(p) /\ ClosingDays' = ClosingDays
    BY DEF Day, FirstOfNextMonth, ClosingDays
  <2>2. Unbilled(p) /\ faults = 0
    BY DEF Unbilled
  <2>3. InTime(p)
    BY DEF TimeOK
  <2>4. ASSUME Day = FirstOfNextMonth(p), NEW v \in WorkerId PROVE WillClose(v, p)'
    <3>1. WillClose(v, p)
      BY <2>2, <2>3, <2>4 DEF InTime
    <3>2. CASE v = w
      <4>1. (r.pc = "idle" /\ r.last # now) \/ (r.pc = "close" /\ p \in r.todo)
        BY <2>4, <3>1, <3>2
      <4> QED
        BY <1>0, <3>2, <4>1 DEF WillClose
    <3>3. CASE v # w
      BY <1>0, <3>1, <3>3 DEF WillClose
    <3> QED
      BY <3>2, <3>3
  <2> QED
    BY <2>1, <2>2, <2>3, <2>4 DEF InTime
<1>2. /\ \A v \in WorkerId : worker'[v].last # None => worker'[v].last <= now'
      /\ faults' = 0 => \A v \in WorkerId : worker'[v].pc # "down"
  BY <1>0 DEF TimeOK
<1> QED
  BY <1>1, <1>2 DEF TimeOK

\* A worker that is not due has done the maintenance of this half-day.
LEMMA NotDue ==
  ASSUME TablesOK, WorkersOK, TimeOK, NEW w \in WorkerId, ~MaintenanceDue(w)
  PROVE  worker[w].last = now
<1>1. worker[w].last # None /\ ~(now > worker[w].last)
  BY DEF MaintenanceDue
<1>2. worker[w].last \in Instants /\ now \in Instants
  BY <1>1 DEF WorkersOK, WorkerRow, TablesOK
<1>3. worker[w].last \in Int /\ now \in Int
  BY <1>2, InstantsTyped, Zenon
<1>4. worker[w].last <= now
  BY <1>1 DEF TimeOK
<1> QED
  BY <1>1, <1>3, <1>4

\* The periods that are due to be closed on this day are those that a worker lists.
LEMMA ClosingListed ==
  ASSUME TablesOK, NEW p \in Period, Day = FirstOfNextMonth(p)
  PROVE  IsMonthlyClosingDay(Day) /\ RefMonth[p] = PreviousMonth(MonthOf(Day))
<1> PICK m : m = RefMonth[p]
  OBVIOUS
<1> PICK k : k = MonthsLater(m, 1)
  OBVIOUS
<1>1. m \in Month /\ k \in Month /\ m \in Int \X (1 .. 12) /\ MonthStart[k] \in Nat
  BY MaintenanceAssumption, ScheduleAssumption
<1>2. PreviousMonth(k) = m
  BY <1>1, MonthAfter
<1>3. Day = MonthStart[k] /\ MonthOf(Day) = k
  BY <1>1, MonthOfFirstDay DEF FirstOfNextMonth
<1> QED
  BY <1>1, <1>2, <1>3 DEF IsMonthlyClosingDay, DayOfMonth

LEMMA MaintenanceTime ==
  ASSUME TablesOK, WorkersOK, TimeOK, NEW w \in WorkerId, Maintenance(w),
         \A p \in Period : invoice[p] # None => invoice'[p] # None
  PROVE  TimeOK'
<1>1. /\ worker[w] \in WorkerRow /\ now \in Int
      /\ worker[w].last # None => worker[w].last <= now
  BY InstantsTyped DEF TablesOK, WorkersOK, TimeOK
<1>2. UNCHANGED <<now, faults, bought>>
  BY DEF Maintenance, Wake, Closing, Remind, Escalate, ListReminders, ListEscalations,
         EnqueueOverdue, billing
<1>3. CASE Wake(w)
  <2>1. PICK todo : /\ worker' = [worker EXCEPT ![w] = [worker[w] EXCEPT !.pc = "close", !.todo = todo]]
                    /\ IsMonthlyClosingDay(Day) => todo = {p \in Period : invoice[p] = None
                                                      /\ RefMonth[p] = PreviousMonth(MonthOf(Day))}
    BY <1>3 DEF Wake
  <2>2. PICK r : r = [worker[w] EXCEPT !.pc = "close", !.todo = todo]
    OBVIOUS
  <2>3. /\ worker' = [worker EXCEPT ![w] = r]
        /\ r.pc = "close" /\ r.todo = todo /\ r.last = worker[w].last
    BY <1>1, <2>1, <2>2 DEF WorkerRow
  <2>4. UNCHANGED invoice
    BY <1>3 DEF Wake, billing
  <2>5. ASSUME NEW p \in Period, Unbilled(p)', Day = FirstOfNextMonth(p) PROVE p \in r.todo
    <3>1. invoice[p] = None
      BY <2>4, <2>5 DEF Unbilled
    <3> QED
      BY <2>1, <2>3, <2>5, <3>1, ClosingListed
  <2> QED
    BY <1>1, <1>2, <2>3, <2>5, WorkerTime
<1>4. ASSUME NEW p \in Period, Closing(w, p) PROVE TimeOK'
  <2>1. PICK r : r = [worker[w] EXCEPT !.todo = worker[w].todo \ {p}]
    OBVIOUS
  <2>2. /\ worker' = [worker EXCEPT ![w] = r]
        /\ r.pc = "close" /\ r.todo = worker[w].todo \ {p} /\ r.last = worker[w].last
    BY <1>1, <1>4, <2>1 DEF Closing, At_, WorkerRow
  <2>3. ~Unbilled(p)'
    <3>1. CASE Closes(p)
      <4>1. invoice'[p] = NewInvoice(p)
        BY <1>4, <3>1 DEF Closing, ClosePeriod, TablesOK
      <4>2. NewInvoice(p) # None
        BY NewInvoiceTyped DEF TablesOK
      <4> QED
        BY <4>1, <4>2 DEF Unbilled
    <3>2. CASE ~Closes(p)
      <4>1. UNCHANGED invoice
        BY <1>4, <3>2 DEF Closing, ClosePeriod
      <4>2. bought[p] = "in_month" => bought[p] # None
        BY NoneIsApart DEF PurchaseTime
      <4> QED
        BY <1>2, <3>2, <4>1, <4>2 DEF Unbilled, Closes
    <3> QED
      BY <3>1, <3>2
  <2>4. ASSUME NEW q \in Period, Unbilled(q)', WillClose(w, q) PROVE q \in r.todo
    BY <2>2, <2>3, <2>4, <1>4 DEF WillClose, Closing, At_
  <2> QED
    BY <1>1, <1>2, <2>2, <2>4, WorkerTime
<1>5. CASE ListReminders(w)
  <2>1. PICK r : r = [worker[w] EXCEPT !.pc = "remind",
                                       !.todo = {p \in Period : Unpaid(p, 4) /\ ~invoice[p].reminded}]
    OBVIOUS
  <2>2. /\ worker' = [worker EXCEPT ![w] = r]
        /\ r.pc = "remind" /\ r.last = worker[w].last
    BY <1>1, <1>5, <2>1 DEF ListReminders, WorkerRow
  <2>3. \A p : ~WillClose(w, p)
    BY <1>5 DEF WillClose, ListReminders, At_
  <2> QED
    BY <1>1, <1>2, <2>2, <2>3, WorkerTime
<1>6. CASE ListEscalations(w)
  <2>1. PICK r : r = [worker[w] EXCEPT !.pc = "escalate",
                                       !.todo = {p \in Period : Unpaid(p, 6) /\ ~invoice[p].escalated}]
    OBVIOUS
  <2>2. /\ worker' = [worker EXCEPT ![w] = r]
        /\ r.pc = "escalate" /\ r.last = worker[w].last
    BY <1>1, <1>6, <2>1 DEF ListEscalations, WorkerRow
  <2>3. \A p : ~WillClose(w, p)
    BY <1>6 DEF WillClose, ListEscalations, At_
  <2> QED
    BY <1>1, <1>2, <2>2, <2>3, WorkerTime
<1>7. CASE EnqueueOverdue(w)
  <2>1. PICK r : r = [worker[w] EXCEPT !.pc = "idle", !.last = now]
    OBVIOUS
  <2>2. worker' = [worker EXCEPT ![w] = r] /\ r.pc = "idle" /\ r.last = now
    BY <1>1, <1>7, <2>1 DEF EnqueueOverdue, WorkerRow
  <2>3. r.last <= now
    BY <1>1, <2>2
  <2>4. \A p : ~WillClose(w, p)
    BY <1>7 DEF WillClose, EnqueueOverdue, At_
  <2> QED
    BY <1>2, <2>2, <2>3, <2>4, WorkerTime
<1>8. ASSUME NEW p \in Period, Remind(w, p) \/ Escalate(w, p) PROVE TimeOK'
  <2>1. PICK r : r = [worker[w] EXCEPT !.todo = worker[w].todo \ {p}]
    OBVIOUS
  <2>2. /\ worker' = [worker EXCEPT ![w] = r] /\ r.pc \in {"remind", "escalate"}
        /\ r.pc = worker[w].pc /\ r.last = worker[w].last
    BY <1>1, <1>8, <2>1 DEF Remind, Escalate, At_, WorkerRow
  <2>3. \A q : ~WillClose(w, q)
    BY <2>2 DEF WillClose
  <2> QED
    BY <1>1, <1>2, <2>2, <2>3, WorkerTime
<1> QED
  BY <1>3, <1>4, <1>5, <1>6, <1>7, <1>8 DEF Maintenance

LEMMA JobTime ==
  ASSUME TablesOK, WorkersOK, TimeOK, NEW w \in WorkerId, Job(w),
         \A p \in Period : invoice[p] # None => invoice'[p] # None
  PROVE  TimeOK'
<1>1. /\ worker[w] \in WorkerRow /\ now \in Int
      /\ worker[w].last # None => worker[w].last <= now
  BY InstantsTyped DEF TablesOK, WorkersOK, TimeOK
<1>2. UNCHANGED <<now, faults, bought>>
  BY DEF Job, AcquireJob, MarkInstallments, MarkInvoices, billing
<1>3. PICK r \in WorkerRow : /\ worker' = [worker EXCEPT ![w] = r]
                             /\ r.pc \in JobPc /\ r.last = worker[w].last
  BY JobMoves
<1>4. r.pc # "down" /\ (r.last # None => r.last <= now)
  BY <1>1, <1>3 DEF JobPc
<1>5. \A p : ~WillClose(w, p)
  <2>1. CASE AcquireJob(w)
    <3>1. worker[w].pc = "idle" /\ worker[w].last = now
      BY <2>1, NotDue DEF AcquireJob, At_
    <3> QED
      BY <3>1 DEF WillClose
  <2>2. CASE worker[w].pc \in {"overdue_installments", "overdue_invoices"}
    BY <2>2 DEF WillClose
  <2> QED
    BY <2>1, <2>2 DEF Job, MarkInstallments, MarkInvoices, At_
<1> QED
  BY <1>1, <1>2, <1>3, <1>4, <1>5, WorkerTime

\* A failure is counted, and a worker that is started again has failed.
LEMMA FailureTime ==
  ASSUME TablesOK, WorkersOK, TimeOK, NEW w \in WorkerId,
         MaintenanceFails(w) \/ JobFails(w) \/ Crash(w) \/ Restart(w)
  PROVE  TimeOK'
<1>1. /\ worker[w] \in WorkerRow /\ now \in Int /\ faults \in Nat
      /\ worker[w].last # None => worker[w].last <= now
  BY InstantsTyped DEF TablesOK, WorkersOK, TimeOK
<1>2. UNCHANGED <<now, bought, invoice>>
  BY DEF MaintenanceFails, JobFails, Crash, Restart, billing
<1>3. faults' # 0
  <2>1. CASE Restart(w)
    BY <2>1 DEF Restart, At_, TimeOK
  <2>2. CASE faults' = faults + 1
    BY <1>1, <2>2
  <2> QED
    BY <2>1, <2>2 DEF MaintenanceFails, JobFails, Crash
<1>4. PICK r : worker' = [worker EXCEPT ![w] = r] /\ (r.last # None => r.last <= now)
  <2>1. CASE MaintenanceFails(w)
    <3>1. PICK r : r = [worker[w] EXCEPT !.pc = "idle", !.todo = {}, !.last = now]
      OBVIOUS
    <3>2. worker' = [worker EXCEPT ![w] = r] /\ r.last = now
      BY <1>1, <2>1, <3>1 DEF MaintenanceFails, WorkerRow
    <3>3. r.last <= now
      BY <1>1, <3>2
    <3> QED
      BY <3>2, <3>3
  <2>2. CASE JobFails(w)
    <3>1. PICK r \in WorkerRow : worker' = [worker EXCEPT ![w] = r] /\ r.last = worker[w].last
      BY <2>2, JobMoves
    <3> QED
      BY <1>1, <3>1
  <2>3. CASE Crash(w) \/ Restart(w)
    <3>1. PICK r : worker' = [worker EXCEPT ![w] = r] /\ r.last = None
      BY <2>3 DEF Crash, Restart, Starting
    <3> QED
      BY <3>1
  <2> QED
    BY <2>1, <2>2, <2>3
<1> QED
  BY <1>2, <1>3, <1>4, WorkerTime

LEMMA AdvanceTime ==
  ASSUME TablesOK, WorkersOK, TimeOK, Advance
  PROVE  TimeOK'
<1>1. /\ now \in Int /\ now' \in Int /\ now' > now
      /\ \A u \in Instants : u > now => now' <= u
  BY InstantsTyped DEF Advance, TablesOK
<1>2. UNCHANGED <<faults, bought, invoice, worker>>
  BY DEF Advance, billing
<1>3. ASSUME NEW w \in WorkerId, faults = 0 PROVE worker[w].pc = "idle" /\ worker[w].last = now
  BY <1>3, NotDue DEF Advance, Asleep, At_, TimeOK
<1>4. ASSUME NEW w \in WorkerId, worker[w].last # None PROVE worker[w].last <= now'
  <2>1. worker[w].last \in Instants
    BY <1>4 DEF WorkersOK, WorkerRow
  <2>2. worker[w].last \in Int
    BY <2>1, InstantsTyped, Zenon
  <2>3. worker[w].last <= now
    BY <1>4 DEF TimeOK
  <2> QED
    BY <1>1, <2>2, <2>3
<1>5. ASSUME NEW p \in Period PROVE InTime(p)'
  <2> SUFFICES ASSUME faults' = 0, Unbilled(p)'
               PROVE  /\ Day' = FirstOfNextMonth(p)' => \A w \in WorkerId : WillClose(w, p)'
                      /\ Day' > FirstOfNextMonth(p)' => FirstOfNextMonth(p)' \notin ClosingDays'
    BY DEF InTime
  <2>1. PICK first : first = FirstOfNextMonth(p)
    OBVIOUS
  <2>2. first \in Int /\ FirstOfNextMonth(p)' = first /\ ClosingDays' = ClosingDays
    BY <2>1, FirstTyped DEF FirstOfNextMonth, ClosingDays
  <2>3. faults = 0 /\ Unbilled(p)
    BY <1>2 DEF Unbilled
  <2>4. ASSUME NEW w \in WorkerId PROVE WillClose(w, p)' /\ ~WillClose(w, p)
    BY <1>1, <1>2, <1>3, <2>3 DEF WillClose
  <2>5. ASSUME now' \div 2 > first, first \in ClosingDays PROVE FALSE
    <3>1. PICK u \in Instants : first = u \div 2
      BY <2>5 DEF ClosingDays
    <3>2. u \in Int
      BY InstantsTyped
    <3>3. CASE u > now
      <4>1. now' <= u
        BY <1>1, <3>3
      <4>2. now' \div 2 <= u \div 2
        BY <1>1, <3>2, <4>1, HalvesAscend
      <4>3. now' \div 2 \in Int /\ u \div 2 \in Int
        BY <1>1, <3>2
      <4> QED
        BY <2>5, <3>1, <4>2, <4>3
    <3>4. CASE u <= now
      <4>1. now \div 2 >= first
        BY <1>1, <3>1, <3>2, <3>4, HalvesAscend
      <4>2. now \div 2 # first
        BY <2>1, <2>3, <2>4, MaintenanceAssumption DEF TimeOK, InTime, Day
      <4>3. now \div 2 > first
        BY <1>1, <2>2, <4>1, <4>2
      <4> QED
        BY <2>1, <2>3, <2>5, <4>3 DEF TimeOK, InTime, Day
    <3> QED
      BY <1>1, <3>2, <3>3, <3>4
  <2> QED
    BY <2>2, <2>4, <2>5 DEF Day
<1> QED
  BY <1>2, <1>4, <1>5 DEF TimeOK

LEMMA TimeKept ==
  ASSUME TablesOK, WorkersOK, TimeOK, [Next]_vars
  PROVE  TimeOK'
<1>1. \A p \in Period : invoice[p] # None => invoice'[p] # None
  BY Steps, InvoiceStays DEF TablesOK, RowSteps
<1>2. now \in Int /\ \A p \in Period : FirstOfNextMonth(p) \in Int
  BY InstantsTyped, FirstTyped DEF TablesOK
<1>3. ASSUME UNCHANGED <<now, faults, worker, bought>> PROVE TimeOK'
  <2>1. \A p \in Period : Unbilled(p)' => Unbilled(p)
    BY <1>1, <1>3 DEF Unbilled
  <2> QED
    BY <1>2, <1>3, <2>1, TimeStands
<1>4. ASSUME NEW p \in Period, Purchase(p) PROVE TimeOK'
  <2>1. /\ UNCHANGED <<now, faults, worker, invoice>>
        /\ bought' = [bought EXCEPT ![p] = IF Day < FirstOfNextMonth(p) THEN "in_month" ELSE "later"]
    BY <1>4 DEF Purchase
  <2>2. ASSUME NEW q \in Period, Unbilled(q)' PROVE Unbilled(q) \/ Day < FirstOfNextMonth(q)
    BY <2>1, <2>2 DEF Unbilled, TablesOK
  <2> QED
    BY <1>2, <2>1, <2>2, TimeStands
<1>5. ASSUME NEW p \in Period, NEW n \in 1 .. InvoiceTotal, PayInstallment(p, n) PROVE TimeOK'
  BY <1>3, <1>5 DEF PayInstallment
<1>6. CASE ClosePeriods \/ SelectMyPaymentPlan
  BY <1>3, <1>6 DEF ClosePeriods, CloseByHand, SelectMyPaymentPlan, SelectPlan
<1>7. CASE PutInstallmentPolicy \/ UpsertCalendar
  BY <1>3, <1>7
  DEF PutInstallmentPolicy, CreateInstallmentPolicyVersion, UpsertCalendar, UpsertCalendarDay
<1>8. CASE UNCHANGED vars
  BY <1>3, <1>8 DEF vars, billing
<1> QED
  BY <1>1, <1>4, <1>5, <1>6, <1>7, <1>8, MaintenanceTime, JobTime, FailureTime, AdvanceTime DEF Next

-------------------------------------------------------------------------------
(* The theorems.                                                             *)

LEMMA StartOK == Init => MaintenanceInv
<1> SUFFICES ASSUME Init PROVE MaintenanceInv
  OBVIOUS
<1>1. now \in Instants
  <2>1. \E t \in Instants : \A u \in Instants : t <= u
    BY MaintenanceAssumption, NatMin
  <2> QED
    BY <2>1 DEF Init
<1>2. TablesOK
  <2>1. /\ faults \in 0 .. MaxUpsets /\ policy \in Policies /\ jobs \in Nat
        /\ bought \in [Period -> PurchaseTime \cup {None}]
    BY MaintenanceAssumption DEF Init
  <2>2. calendar \in [DOMAIN calendar -> BOOLEAN] /\ DOMAIN calendar = {}
    BY DEF Init
  <2>3. IsFiniteSet(DOMAIN calendar)
    BY <2>2, FS_EmptySet
  <2>4. ASSUME NEW p \in Period PROVE PeriodOK(p)
    <3>1. invoice[p] = None /\ insts[p] = <<>>
      BY DEF Init
    <3> QED
      BY <3>1 DEF PeriodOK, AddsUp, Pending
  <2>5. /\ DOMAIN invoice = Period /\ invoice = [p \in Period |-> invoice[p]]
        /\ DOMAIN insts = Period /\ insts = [p \in Period |-> insts[p]]
    BY DEF Init
  <2> QED
    BY <1>1, <2>1, <2>2, <2>3, <2>4, <2>5 DEF TablesOK
<1>3. \A w \in WorkerId : worker[w] = [pc |-> "idle", todo |-> {}, last |-> None, held |-> 0]
  BY DEF Init, Starting
<1>4. WorkersOK
  <2>1. worker \in [WorkerId -> WorkerRow]
    BY DEF Init, Starting, WorkerRow, Pc
  <2> QED
    BY <1>3, <2>1 DEF WorkersOK
<1>5. NoticesOK
  <2>1. \A k \in EventKind, p \in Period : notices[<<k, p>>] = 0
    BY DEF Init
  <2>2. notices \in [EventKind \X Period -> Nat]
    BY DEF Init
  <2>3. \A p \in Period : /\ notices[<<"invoice.closed", p>>] = 0
                          /\ notices[<<"invoice.payment_reminder", p>>] = 0
                          /\ notices[<<"invoice.payment_escalation", p>>] = 0
    BY <2>1 DEF EventKind
  <2>4. \A p : Listed("remind", p) = {} /\ Listed("escalate", p) = {}
    BY <1>3 DEF Listed
  <2>5. Cardinality({}) = 0 /\ Cardinality(WorkerId) \in Nat
    BY FS_EmptySet, FS_CardinalityType, MaintenanceAssumption
  <2>6. ASSUME NEW p \in Period
        PROVE  /\ OncePerWorker("invoice.payment_reminder", "remind", p)
               /\ OncePerWorker("invoice.payment_escalation", "escalate", p)
    <3>1. Cardinality(Listed("remind", p)) = 0 /\ Cardinality(Listed("escalate", p)) = 0
      BY <2>4, <2>5, Zenon
    <3>2. /\ notices[<<"invoice.payment_reminder", p>>] = 0
          /\ notices[<<"invoice.payment_escalation", p>>] = 0
      BY <2>3, Zenon
    <3>3. 0 + 0 <= Cardinality(WorkerId)
      BY <2>5
    <3> QED
      BY <3>1, <3>2, <3>3, Zenon DEF OncePerWorker
  <2>7. \A p \in Period : invoice[p] = None
    BY DEF Init
  <2> QED
    BY <2>2, <2>3, <2>6, <2>7 DEF NoticesOK
<1>6. TimeOK
  <2>1. \A p \in Period : bought[p] # "in_month"
    BY NoneIsApart DEF Init, PurchaseTime
  <2>2. \A w \in WorkerId : worker[w].last = None /\ worker[w].pc # "down"
    BY <1>3
  <2> QED
    BY <2>1, <2>2 DEF TimeOK, InTime, Unbilled
<1> QED
  BY <1>2, <1>4, <1>5, <1>6 DEF MaintenanceInv

\* Tables, workers, notices and the time of the closing fit together in every
\* state that the daily maintenance and the requests can reach.
THEOREM MaintenanceInvariant == Spec => []MaintenanceInv
<1>1. Init => MaintenanceInv
  BY StartOK
<1>2. MaintenanceInv /\ [Next]_vars => MaintenanceInv'
  BY TablesKept, WorkersKept, NoticesKept, TimeKept DEF MaintenanceInv
<1> QED
  BY <1>1, <1>2, PTL DEF Spec

\* The rows have their columns' types, and a worker that reminds or escalates has
\* listed invoices that exist, whatever happens after the listing.
THEOREM MaintenanceTypeOK == Spec => []TypeOK
<1>1. MaintenanceInv => TypeOK
  <2> SUFFICES ASSUME MaintenanceInv PROVE TypeOK
    OBVIOUS
  <2>1. TablesOK /\ WorkersOK /\ NoticesOK
    BY DEF MaintenanceInv
  <2>2. /\ invoice \in [Period -> InvoiceRow \cup {None}]
        /\ insts \in [Period -> Seq(InstRow)]
    <3>1. \A p \in Period : invoice[p] \in InvoiceRow \cup {None} /\ insts[p] \in Seq(InstRow)
      BY <2>1 DEF TablesOK, PeriodOK
    <3>2. /\ invoice = [p \in Period |-> invoice[p]]
          /\ insts = [p \in Period |-> insts[p]]
      BY <2>1 DEF TablesOK
    <3> QED
      BY <3>1, <3>2
  <2>3. notices \in [EventKind \X Period -> Nat]
    BY <2>1 DEF NoticesOK
  <2> QED
    BY <2>1, <2>2, <2>3 DEF TablesOK, WorkersOK, WorkerRow, TypeOK
<1> QED
  BY <1>1, MaintenanceInvariant, PTL

\* However the listings of the workers overlap, and whatever fails, an invoice is
\* reminded and escalated once by each worker at most (processPaymentReminders).
THEOREM NoticesAreBounded == Spec => []NoticesPerWorker
<1>1. MaintenanceInv => NoticesPerWorker
  <2> SUFFICES ASSUME MaintenanceInv, NEW p \in Period
               PROVE  /\ notices[<<"invoice.closed", p>>] <= 1
                      /\ notices[<<"invoice.payment_reminder", p>>] <= Cardinality(WorkerId)
                      /\ notices[<<"invoice.payment_escalation", p>>] <= Cardinality(WorkerId)
    BY DEF NoticesPerWorker
  <2>1. NoticesOK
    BY DEF MaintenanceInv
  <2>2. /\ notices[<<"invoice.payment_reminder", p>>] \in Nat
        /\ notices[<<"invoice.payment_escalation", p>>] \in Nat
    BY <2>1 DEF NoticesOK, EventKind
  <2>3. Cardinality(WorkerId) \in Nat
    BY FS_CardinalityType, MaintenanceAssumption
  <2>4. \A pc : Cardinality(Listed(pc, p)) \in Nat
    <3>1. ASSUME NEW pc PROVE Cardinality(Listed(pc, p)) \in Nat
      <4>1. Listed(pc, p) \subseteq WorkerId
        BY DEF Listed
      <4> QED
        BY <4>1, FS_Subset, FS_CardinalityType, MaintenanceAssumption
    <3> QED
      BY <3>1
  <2>5. /\ OncePerWorker("invoice.payment_reminder", "remind", p)
        /\ OncePerWorker("invoice.payment_escalation", "escalate", p)
        /\ notices[<<"invoice.closed", p>>] = IF invoice[p] = None THEN 0 ELSE 1
    BY <2>1 DEF NoticesOK
  <2> QED
    BY <2>2, <2>3, <2>4, <2>5 DEF OncePerWorker
<1> QED
  BY <1>1, MaintenanceInvariant, PTL

\* Whatever was divided and paid, instalments add up to the invoice and payments
\* to the paid instalments (DistributeInstallmentAmounts, ApplyInstallmentPaymentTx).
THEOREM InstalmentsAddUp == Spec => []PartsAddUp
<1>1. MaintenanceInv => PartsAddUp
  BY DEF MaintenanceInv, TablesOK, PeriodOK, AddsUp, AmountsOf, PaidPartsOf, PartsAddUp
<1> QED
  BY <1>1, MaintenanceInvariant, PTL

\* With any number of workers, a month with purchases is invoiced on the day of its
\* closing, if none fails and some instant is on that day (RunScheduledClosingIfDue).
THEOREM MonthsAreClosedInTime == Spec => []ClosedInTime
<1>1. MaintenanceInv => ClosedInTime
  BY DEF MaintenanceInv, TimeOK, InTime, Unbilled, ClosingDays, ClosedInTime
<1> QED
  BY <1>1, MaintenanceInvariant, PTL

\* A paid invoice stays paid: an escalation or an overdue mark of a stale listing
\* does not touch it (processPaymentEscalations, MarkOverdueInvoices).
THEOREM PaidInvoicesStayPaid == Spec => PaidStaysPaid
<1>1. MaintenanceInv /\ [Next]_vars =>
        [\A p \in Period : invoice[p] # None /\ invoice[p].status = "paid"
           => invoice'[p] # None /\ invoice'[p].status = "paid"]_vars
  BY Steps, InvoiceStays DEF MaintenanceInv, TablesOK, RowSteps
<1> QED
  BY <1>1, MaintenanceInvariant, PTL DEF Spec, PaidStaysPaid


-------------------------------------------------------------------------------
(* What is offered for a pending plan, and what can be selected.             *)

\* In no year that begins with a holiday are there 52 of them: a week is never
\* all holidays for as long as NextBusinessDay tries.
FewHolidays ==
  \A first \in DOMAIN calendar :
    Cardinality({d \in DOMAIN calendar : d \in first .. first + 365 /\ ~calendar[d]}) < 52

\* A day between the first of a month and that of the next is in that month.
LEMMA MonthOfDay ==
  ASSUME NEW m \in Month, NEW day \in Int, MonthsLater(m, 1) \in Month,
         MonthStart[m] <= day, day < MonthStart[MonthsLater(m, 1)]
  PROVE  MonthOf(day) = m
<1> PICK k : k = MonthOf(day)
  OBVIOUS
<1> PICK next : next = MonthsLater(m, 1)
  OBVIOUS
<1>1. \A j \in Month : j \in Int \X (1 .. 12) /\ MonthStart[j] \in Nat
  BY ScheduleAssumption
<1>2. /\ k \in Month /\ MonthStart[k] <= day
      /\ MonthsLater(k, 1) \in Month => day < MonthStart[MonthsLater(k, 1)]
  BY MonthFound
<1> DEFINE at(j) == 12 * j[1] + j[2]
<1>3. ~(at(m) < at(k))
  <2> SUFFICES ASSUME at(m) < at(k) PROVE FALSE
    OBVIOUS
  <2>1. at(next) = at(m) + 1 /\ next \in Month
    BY <1>1, MonthAfter
  <2>2. at(k) \in Int /\ at(m) \in Int /\ at(next) \in Int
    BY <1>1, <1>2, <2>1
  <2>3. CASE at(next) < at(k)
    <3>1. MonthStart[next] < MonthStart[k]
      BY <1>2, <2>1, <2>3, ScheduleAssumption
    <3> QED
      BY <1>1, <1>2, <2>1, <3>1
  <2>4. CASE at(next) = at(k)
    <3>1. next = k
      BY <1>1, <1>2, <2>1, <2>4
    <3> QED
      BY <1>1, <1>2, <2>1, <3>1
  <2> QED
    BY <2>1, <2>2, <2>3, <2>4
<1>4. ~(at(k) < at(m))
  <2> SUFFICES ASSUME at(k) < at(m) PROVE FALSE
    OBVIOUS
  <2> PICK n : n = MonthsLater(k, 1)
    OBVIOUS
  <2>1. n \in Month
    BY <1>2, ScheduleAssumption
  <2>2. at(n) = at(k) + 1
    BY <1>1, <1>2, MonthAfter
  <2>3. at(k) \in Int /\ at(m) \in Int /\ at(n) \in Int
    BY <1>1, <1>2, <2>1
  <2>4. day < MonthStart[n]
    BY <1>2, <2>1
  <2>5. CASE at(n) < at(m)
    <3>1. MonthStart[n] < MonthStart[m]
      BY <2>1, <2>5, ScheduleAssumption
    <3> QED
      BY <1>1, <2>1, <2>4, <3>1
  <2>6. CASE at(n) = at(m)
    <3>1. n = m
      BY <1>1, <2>1, <2>6
    <3> QED
      BY <1>1, <2>4, <3>1
  <2> QED
    BY <2>2, <2>3, <2>5, <2>6
<1> QED
  BY <1>1, <1>2, <1>3, <1>4

\* Some one of any seven days in a row is a Monday.
LEMMA MondayAhead ==
  ASSUME NEW b \in Int
  PROVE \E o \in 0 .. 6 : (b + o) % 7 = 1
<1>1. b % 7 \in 0 .. 6
  OBVIOUS
<1>2. CASE b % 7 <= 1
  <2>1. (b + (1 - (b % 7))) % 7 = 1
    OBVIOUS
  <2> QED
    BY <1>1, <1>2, <2>1
<1>3. CASE b % 7 > 1
  <2>1. (b + (8 - (b % 7))) % 7 = 1
    OBVIOUS
  <2> QED
    BY <1>1, <1>3, <2>1
<1> QED
  BY <1>1, <1>2, <1>3

\* The Mondays of fifty-two weeks, counted.
LEMMA FiftyTwoMondays ==
  Cardinality(0 .. 51) = 52
<1>1. \A a, b \in Int : Cardinality(a .. b) = IF a > b THEN 0 ELSE b - a + 1
  BY FS_Interval
<1>2. \A n \in Nat : Cardinality(0 .. n) = n + 1
  <2> TAKE n \in Nat
  <2>1. Cardinality(0 .. n) = IF 0 > n THEN 0 ELSE n - 0 + 1
    BY <1>1
  <2> QED
    BY <2>1
<1>3. Cardinality(0 .. 51) = 51 + 1
  BY <1>2, Zenon
<1> QED
  BY <1>3

\* A division with its rest.
LEMMA Quotient ==
  ASSUME NEW n \in Nat, NEW d \in Nat \ {0}
  PROVE \E q \in Nat, r \in 0 .. d - 1 : q = n \div d /\ n = q * d + r
OBVIOUS

\* Of a year of days, one that is in no week of holidays is a business day: the
\* 52 Mondays cannot all be holidays.
LEMMA BusinessDayAhead ==
  ASSUME NEW raw \in Int, FewHolidays,
         calendar \in [DOMAIN calendar -> BOOLEAN], IsFiniteSet(DOMAIN calendar)
  PROVE  {d \in Tried(Date(raw)) : IsBusinessDay(calendar, Date(d))} # {}
<1> SUFFICES ASSUME \A d \in Tried(Date(raw)) : ~IsBusinessDay(calendar, Date(d)) PROVE FALSE
  OBVIOUS
<1> PICK a \in Int : a = raw - 2
  OBVIOUS
<1>1. \A d \in a .. a + 365 :
        IF d \in DOMAIN calendar THEN ~calendar[d] ELSE Weekend(d)
  <2> SUFFICES ASSUME NEW d \in a .. a + 365
               PROVE  IF d \in DOMAIN calendar THEN ~calendar[d] ELSE Weekend(d)
    OBVIOUS
  <2>1. Tried(Date(raw)) = raw - 1 .. raw - 1 + 365
    BY DEF Tried, Date, LocalDay
  <2>2. d + 1 \in Tried(Date(raw)) /\ d + 1 \in Int /\ (d + 1) - 1 = d
    BY <2>1
  <2>3. calendarDateOnly(Date(d + 1)).day = d
    BY <2>2 DEF calendarDateOnly, Date, LocalDay
  <2> QED
    BY <2>2, <2>3 DEF IsBusinessDay
<1>2. FirstWeekday \in 0 .. 6
  BY ScheduleAssumption
<1>3. PICK o \in 0 .. 6 : (FirstWeekday + a + o) % 7 = 1
  <2> PICK b \in Int : b = FirstWeekday + a
    BY <1>2
  <2>1. \E o \in 0 .. 6 : (b + o) % 7 = 1
    BY MondayAhead
  <2> QED
    BY <1>2, <2>1
<1> PICK first \in Int : first = a + o
  OBVIOUS
<1> DEFINE monday == [k \in 0 .. 51 |-> first + 7 * k]
           holidays == {d \in DOMAIN calendar : d \in first .. first + 365 /\ ~calendar[d]}
<1>4. ASSUME NEW k \in 0 .. 51 PROVE monday[k] \in holidays
  <2>1. /\ monday[k] = first + 7 * k /\ monday[k] \in Int
        /\ monday[k] \in a .. a + 365 /\ monday[k] \in first .. first + 365
    OBVIOUS
  <2>2. (FirstWeekday + (first + 7 * k)) % 7 = 1
    BY SMTT(30), <1>2, <1>3
  <2>3. ~Weekend(monday[k])
    BY <2>1, <2>2 DEF Weekend
  <2> HIDE DEF monday
  <2> QED
    BY <1>1, <2>1, <2>3
<1>5. monday \in Injection(0 .. 51, holidays)
  <2>1. \A k, j \in 0 .. 51 : monday[k] = monday[j] => k = j
    OBVIOUS
  <2>2. monday \in [0 .. 51 -> holidays]
    BY <1>4
  <2> HIDE DEF monday, holidays
  <2> QED
    BY <2>1, <2>2 DEF Injection, IsInjective
<1>6. IsFiniteSet(holidays) /\ holidays \subseteq DOMAIN calendar
  <2>1. holidays \in SUBSET DOMAIN calendar
    OBVIOUS
  <2> HIDE DEF holidays
  <2> QED
    BY <2>1, FS_Subset
<1>7. 52 <= Cardinality(holidays) /\ Cardinality(holidays) \in Nat
  <2>1. Cardinality(0 .. 51) = 52
    BY FiftyTwoMondays
  <2> HIDE DEF monday, holidays
  <2> QED
    BY <1>5, <1>6, <2>1, FS_Injection, FS_CardinalityType
<1>8. first \in DOMAIN calendar
  <2>1. monday[0] = first
    OBVIOUS
  <2> HIDE DEF monday, holidays
  <2> QED
    BY <1>4, <1>6, <2>1
<1>9. Cardinality(holidays) < 52
  BY <1>8 DEF FewHolidays
<1> HIDE DEF holidays
<1> QED
  BY <1>7, <1>9

\* The number that is offered: at least one, no more than the policy allows, and
\* so few that every part is at least the minimum.
LEMMA MaxCountBounds ==
  ASSUME NEW total \in Nat \ {0}, NEW terms \in Policies, NEW enabled,
         NEW max, max = MaxCount(total, terms, enabled)
  PROVE  /\ max \in Nat /\ 1 <= max /\ max <= total /\ max <= terms.maximum
         /\ max > 1 => max <= total \div terms.minInstallment
<1>1. terms.minInstallment \in Nat \ {0} /\ terms.maximum \in Nat \ {0}
  BY MaintenanceAssumption
<1> PICK least \in Nat \ {0} : least = terms.minInstallment
  BY <1>1
<1>2. PICK q \in Nat, r \in 0 .. least - 1 : q = total \div least /\ total = q * least + r
  BY Quotient
<1>3. q <= total
  <2>1. q * least >= q
    OBVIOUS
  <2> PICK ql \in Nat : ql = q * least
    OBVIOUS
  <2> QED
    BY <1>2, <2>1
<1> QED
  BY <1>1, <1>2, <1>3 DEF MaxCount

\* A part of so few is at least the minimum, the first one included.
LEMMA PartsLarge ==
  ASSUME NEW total \in Nat, NEW least \in Nat \ {0}, NEW n \in Nat \ {0}, n <= total \div least
  PROVE  Distribute(total, n)[1] >= least
<1>1. PICK q \in Nat, r \in 0 .. least - 1 : q = total \div least /\ total = q * least + r
  OBVIOUS
<1>2. PICK s \in Nat, u \in 0 .. n - 1 : s = total \div n /\ total = s * n + u
  OBVIOUS
<1>3. s >= least
  <2> SUFFICES ASSUME s + 1 <= least PROVE FALSE
    OBVIOUS
  <2>1. (s + 1) * n <= least * n
    OBVIOUS
  <2>2. least * n <= least * q /\ least * q = q * least
    BY <1>1
  <2>3. (s + 1) * n = s * n + n
    OBVIOUS
  <2> PICK sn, ln, lq, ql, s1n \in Int :
        sn = s * n /\ ln = least * n /\ lq = least * q /\ ql = q * least /\ s1n = (s + 1) * n
    OBVIOUS
  <2> QED
    BY <1>1, <1>2, <2>1, <2>2, <2>3
<1>4. Distribute(total, n)[1] = s + IF 1 > n - (total % n) THEN 1 ELSE 0
  BY <1>2 DEF Distribute
<1> QED
  BY <1>3, <1>4

\* The dates of so many instalments exist, where there are not too many holidays.
LEMMA PlanHasDates ==
  ASSUME NEW p \in Period, NEW terms \in Policies, NEW n \in Nat, n <= terms.maximum, FewHolidays,
         calendar \in [DOMAIN calendar -> BOOLEAN], IsFiniteSet(DOMAIN calendar)
  PROVE  DatesExist(calendar, At(DueAtForCompetence(RefMonth[p])), terms.interval, n)
<1> PICK due : due = DueAtForCompetence(RefMonth[p])
  OBVIOUS
<1> PICK k : k = MonthsLater(RefMonth[p], 1)
  OBVIOUS
<1> PICK interval : interval = terms.interval
  OBVIOUS
<1>1. terms.maximum \in Nat \ {0} /\ interval \in Nat \ {0}
  BY MaintenanceAssumption
<1>2. k \in Month /\ due = MonthStart[k] + 9 /\ \A j \in Month : MonthStart[j] \in Nat
  BY MaintenanceAssumption, ScheduleAssumption DEF DueAtForCompetence
<1>3. \A j \in 1 .. n :
        /\ MonthsLater(k, MonthsToAdd(interval, j)) \in Month
        /\ MonthsLater(MonthsLater(k, MonthsToAdd(interval, j)), 1) \in Month
  BY <1>1, MonthsReach
<1>4. ASSUME NEW j \in 1 .. n
      PROVE  LET m == MonthsLater(MonthOf(calendarDateOnly(At(due)).day), MonthsToAdd(interval, j))
             IN  /\ {m, MonthsLater(m, 1)} \subseteq Month
                 /\ {d \in Tried(Date(RawDueDate(At(due), interval, j))) :
                       IsBusinessDay(calendar, Date(d))} # {}
  <2>1. calendarDateOnly(At(due)).day = due /\ due \in Int
    BY <1>2 DEF calendarDateOnly, Date, At, LocalDay
  <2>2. MonthsLater(k, 1) \in Month
    <3>1. MonthsToAdd(interval, 1) = 0
      BY <1>1 DEF MonthsToAdd
    <3>2. 1 \in 1 .. n
      OBVIOUS
    <3>3. MonthsLater(k, 0) = k
      <4>1. k \in Int \X (1 .. 12)
        BY <1>2, ScheduleAssumption
      <4> QED
        BY <4>1 DEF MonthsLater
    <3> QED
      BY <1>3, <3>1, <3>2, <3>3
  <2>3. MonthOf(due) = k
    <3>1. MonthStart[MonthsLater(k, 1)] - MonthStart[k] \in 28 .. 31
      BY <1>2, <2>2, ScheduleAssumption
    <3>2. MonthStart[k] <= due /\ due < MonthStart[MonthsLater(k, 1)]
      BY <1>2, <2>2, <3>1
    <3> QED
      BY <1>2, <2>1, <2>2, <3>2, MonthOfDay
  <2> PICK m : m = MonthsLater(k, MonthsToAdd(interval, j))
    OBVIOUS
  <2>4. m \in Month /\ MonthsLater(m, 1) \in Month
    BY <1>3
  <2> PICK raw : raw = RawDueDate(At(due), interval, j)
    OBVIOUS
  <2>5. raw \in Int
    <3>1. DayOfMonth(due) \in Int /\ lastDayOfMonth(m) \in Int
      BY <1>2, <2>1, <2>3, <2>4 DEF DayOfMonth, lastDayOfMonth
    <3> QED
      BY <1>2, <2>1, <2>3, <2>4, <3>1 DEF RawDueDate, AddMonthsPreserveDay
  <2> QED
    BY <2>1, <2>3, <2>4, <2>5, BusinessDayAhead
<1> QED
  BY <1>4 DEF DatesExist

\* The invoice of a pending plan owes its total, since its closing.
LEMMA PendingOwesAll ==
  ASSUME NEW p \in Period, PeriodOK(p), Pending(p)
  PROVE  /\ invoice[p] \in InvoiceRow /\ Remaining(p) = InvoiceTotal
         /\ invoice[p].due = DueAtForCompetence(RefMonth[p])
<1>0. InvoiceTotal \in Nat \ {0}
  BY MaintenanceAssumption
<1>1. /\ insts[p] = <<>> /\ invoice[p] \in InvoiceRow
      /\ invoice[p].due = DueAtForCompetence(RefMonth[p])
  BY DEF PeriodOK, Pending
<1>2. PaidPartsOf(p) = {}
  BY <1>1 DEF PaidPartsOf
<1>3. invoice[p].paid = SumFunctionOnSet(AmountsOf(p), PaidPartsOf(p))
  BY DEF PeriodOK, AddsUp, Pending
<1>4. invoice[p].paid = SumFunctionOnSet(AmountsOf(p), {})
  BY <1>2, <1>3, Zenon
<1>5. Remaining(p) = InvoiceTotal
  BY <1>0, <1>4, SumEmpty DEF Remaining
<1> QED
  BY <1>1, <1>5

\* Until the due day, every number of instalments that a customer is offered can
\* be selected, and no other: the dates exist, no part is below the minimum of the
\* snapshot, and the live policy is asked the same question twice, unless the
\* calendar has a year with a holiday in every week (GetPaymentOptions,
\* SelectPaymentPlan).
THEOREM OffersCanBeSelected == Spec => [](FewHolidays => OfferedIsSelectable)
<1>1. MaintenanceInv => (FewHolidays => OfferedIsSelectable)
  <2> SUFFICES ASSUME MaintenanceInv, FewHolidays, NEW p \in Period, Pending(p), ~Late(p)
               PROVE  PaymentOptions(p) = {n \in 1 .. InvoiceTotal : Selectable(p, n)}
    BY DEF OfferedIsSelectable
  <2>1. /\ PeriodOK(p) /\ calendar \in [DOMAIN calendar -> BOOLEAN]
        /\ IsFiniteSet(DOMAIN calendar)
    BY DEF MaintenanceInv, TablesOK
  <2> PICK total : total = InvoiceTotal
    OBVIOUS
  <2> PICK terms : terms = invoice[p].terms
    OBVIOUS
  <2>2. /\ terms \in Policies /\ Remaining(p) = total /\ total \in Nat \ {0}
        /\ invoice[p].due = DueAtForCompetence(RefMonth[p])
    BY <2>1, PendingOwesAll, MaintenanceAssumption DEF InvoiceRow
  <2> PICK max : max = MaxCount(total, terms, policy.enabled)
    OBVIOUS
  <2>3. /\ max \in Nat /\ 1 <= max /\ max <= total /\ max <= terms.maximum
        /\ max > 1 => max <= total \div terms.minInstallment
    BY <2>2, MaxCountBounds
  <2>4. PaymentOptions(p) = 1 .. max
    BY <2>2 DEF PaymentOptions
  <2>5. ASSUME NEW n \in 1 .. max PROVE n \in 1 .. total /\ Selectable(p, n)
    <3>1. n \in Nat \ {0} /\ n <= terms.maximum /\ n <= total /\ n <= max
      BY <2>2, <2>3, MaintenanceAssumption
    <3>2. DatesExist(calendar, At(invoice[p].due), terms.interval, n)
      BY <2>1, <2>2, <3>1, PlanHasDates
    <3>3. n > 1 => Distribute(total, n)[1] >= terms.minInstallment
      <4>1. terms.minInstallment \in Nat \ {0}
        BY <2>2, MaintenanceAssumption
      <4> PICK q \in Nat : q = total \div terms.minInstallment
        BY <2>2, <4>1
      <4>2. n > 1 => n <= q
        BY <2>3, <3>1
      <4> QED
        BY <2>2, <3>1, <4>1, <4>2, PartsLarge
    <3> QED
      BY <2>2, <2>3, <3>1, <3>2, <3>3 DEF Selectable
  <2>6. ASSUME NEW n \in 1 .. total, Selectable(p, n) PROVE n \in 1 .. max
    BY <2>2, <2>3, <2>6 DEF Selectable
  <2> QED
    BY <2>4, <2>5, <2>6
<1> QED
  BY <1>1, MaintenanceInvariant, PTL

===============================================================================
