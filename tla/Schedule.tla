-------------------------------- MODULE Schedule --------------------------------
(***************************************************************************)
(* Dates of the billing: months, business days, the due day of an invoice  *)
(* and of its instalments, and their amounts (package billing).            *)
(*                                                                         *)
(* A day is its distance from the first day of MonthStart.  A time.Time is *)
(* a day and the zone its midnight is in: a date that comes from the       *)
(* database, from an API body or from calendarDateOnly is midnight UTC,    *)
(* which in Sao Paulo is still the evening of the day before.              *)
(***************************************************************************)
EXTENDS Integers, Sequences, FiniteSets

CONSTANTS
  MonthStart,   \* [<<year, month>> -> first day of that month]
  FirstWeekday  \* weekday of day 0, Sunday being 0

Month == DOMAIN MonthStart

\* time.Month arithmetic of AddMonthsPreserveDay and DueAtForCompetence
MonthsLater(m, n) ==
  LET k == m[2] - 1 + n IN <<m[1] + (k \div 12), (k % 12) + 1>>

\* The months follow each other without a gap, each as long as months are.
ASSUME ScheduleAssumption ==
  /\ Month \subseteq Int \X (1 .. 12)
  /\ MonthStart \in [Month -> Nat]
  /\ \A m, k \in Month : 12 * m[1] + m[2] < 12 * k[1] + k[2] =>
       MonthStart[m] < MonthStart[k] /\ MonthsLater(m, 1) \in Month
  /\ \A m \in Month : MonthsLater(m, 1) \in Month =>
       MonthStart[MonthsLater(m, 1)] - MonthStart[m] \in 28 .. 31
  /\ FirstWeekday \in 0 .. 6

Zone == {"local", "utc"}
Moment == [day : Int, zone : Zone]

At(day) == [day |-> day, zone |-> "local"]
Date(day) == [day |-> day, zone |-> "utc"]

\* The calendar day that a moment falls on in Sao Paulo.
LocalDay(t) == IF t.zone = "utc" THEN t.day - 1 ELSE t.day

\* mutant: the year stays the same
PreviousMonthSameYear(m) == <<m[1], m[2] - 1>>

PreviousMonth(m) == IF m[2] = 1 THEN <<m[1] - 1, 12>> ELSE <<m[1], m[2] - 1>>

MonthOf(day) ==
  CHOOSE m \in Month : /\ MonthStart[m] <= day
                       /\ MonthsLater(m, 1) \in Month => day < MonthStart[MonthsLater(m, 1)]

DayOfMonth(day) == day - MonthStart[MonthOf(day)] + 1

lastDayOfMonth(m) == MonthStart[MonthsLater(m, 1)] - MonthStart[m]

IsMonthlyClosingDay(day) == DayOfMonth(day) = 1

\* Day 10 of the month after; the time of day is 23:59:59.
DueAtForCompetence(m) == MonthStart[MonthsLater(m, 1)] + 9

-------------------------------------------------------------------------------
(* Business days.  cal is the table business_calendar: [days -> BOOLEAN].    *)

calendarDateOnly(t) == Date(LocalDay(t))

UpsertRow(cal, entry, business) ==
  LET date == calendarDateOnly(entry).day
  IN  [d \in DOMAIN cal \cup {date} |-> IF d = date THEN business ELSE cal[d]]

Weekend(day) == (FirstWeekday + day) % 7 \in {0, 6}

IsBusinessDay(cal, t) ==
  LET date == calendarDateOnly(t).day
  IN  IF date \in DOMAIN cal THEN cal[date] ELSE ~Weekend(date)

NthBusinessDay(cal, m, n) ==
  LET days == MonthStart[m] .. MonthStart[m] + lastDayOfMonth(m) - 1
      upTo(d) == {e \in days : e <= d /\ IsBusinessDay(cal, At(e))}
  IN  {d \in days : IsBusinessDay(cal, At(d))
                      /\ Cardinality(upTo(d)) = IF n < 1 THEN 1 ELSE n}

\* The days that NextBusinessDay tries.
Tried(t) == LocalDay(t) .. LocalDay(t) + 365

NextBusinessDay(cal, t) ==
  CHOOSE d \in Tried(t) :
    IsBusinessDay(cal, Date(d)) /\ \A e \in LocalDay(t) .. d - 1 : ~IsBusinessDay(cal, Date(e))

AddMonthsPreserveDay(day, n) ==
  LET m == MonthsLater(MonthOf(day), n)
  IN  MonthStart[m] - 1 + IF DayOfMonth(day) > lastDayOfMonth(m)
                            THEN lastDayOfMonth(m) ELSE DayOfMonth(day)

\* BuildInstallmentDueDates, from the due moment of the invoice
MonthsToAdd(interval, n) == (n - 1) * IF interval < 1 THEN 1 ELSE interval

RawDueDate(firstDue, interval, n) ==
  AddMonthsPreserveDay(calendarDateOnly(firstDue).day, MonthsToAdd(interval, n))

\* No ErrNoBusinessDay, in the months of the model.
DatesExist(cal, firstDue, interval, count) ==
  \A n \in 1 .. count :
    LET m == MonthsLater(MonthOf(calendarDateOnly(firstDue).day), MonthsToAdd(interval, n)) IN
    /\ {m, MonthsLater(m, 1)} \subseteq Month
    /\ {d \in Tried(Date(RawDueDate(firstDue, interval, n))) : IsBusinessDay(cal, Date(d))} # {}

BuildInstallmentDueDates(cal, firstDue, interval, adjust, count) ==
  [n \in 1 .. count |->
     LET raw == RawDueDate(firstDue, interval, n)
     IN  IF adjust THEN NextBusinessDay(cal, Date(raw)) ELSE raw]

\* The column due_date is scanned as midnight UTC.
dueAtFromInstallmentDate(date) == LocalDay(Date(date))

-------------------------------------------------------------------------------
(* Number and amounts of the instalments.                                    *)

\* MaxInstallments; terms: the snapshot of the policy in the plan
MaxCount(total, terms, liveEnabled) ==
  LET byMin == total \div terms.minInstallment IN
  IF total <= 0 \/ ~liveEnabled \/ total < terms.minInvoice \/ byMin < 1 THEN 1
  ELSE IF byMin > terms.maximum THEN terms.maximum ELSE byMin

Eligible(max, liveEnabled) == liveEnabled /\ max > 1

\* mutant: the cents left over are dropped
DistributeRoundedDown(total, count) == [n \in 1 .. count |-> total \div count]

\* DistributeInstallmentAmounts: the cents left over go to the last parts.
Distribute(total, count) ==
  [n \in 1 .. count |-> (total \div count)
                          + IF n > count - (total % count) THEN 1 ELSE 0]
===============================================================================
