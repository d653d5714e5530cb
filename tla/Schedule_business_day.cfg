SPECIFICATION Spec
CONSTANTS
  MonthStart <- TwoYears
  FirstWeekday = 4
  WorkerId = {w1}
  Period = {p1}
  RefMonth <- December
  InvoiceTotal = 3
  Policies <- OnAndOff
  DefaultPolicy <- Default
  CalendarInput <- Holiday
  JobBatch = 5
  Instants <- LateInvoice
  MaxUpsets = 0
  None = None
INVARIANT
  InstallmentDueOnBusinessDay
