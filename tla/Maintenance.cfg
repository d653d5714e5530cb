SPECIFICATION FairSpec
CONSTANTS
  MonthStart <- TwoYears
  FirstWeekday = 4
  WorkerId = {w1, w2}
  Period = {p1}
  RefMonth <- December
  InvoiceTotal = 3
  Policies <- OnAndOff
  DefaultPolicy <- Default
  CalendarInput <- Holiday
  JobBatch = 5
  Instants <- LateInvoice
  MaxUpsets = 1
  None = None
INVARIANTS
  TypeOK
  NoticesPerWorker
  ClosedInTime
  PartsAddUp
  OfferedIsSelectable
PROPERTIES
  PaidStaysPaid
  UnpaidChased
