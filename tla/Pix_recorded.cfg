SPECIFICATION FairSpec
CONSTANTS
  Txn = {t1}
  Charge = {c1, c2}
  Event = {e1, e2}
  InvoiceTotal = 2
  MinInstallment = 1
  MaxInstallment = 2
  AllowInstallmentAfterDueDate = FALSE
  Operations <- EveryOperation
  MaxPlan = 2
  MaxDay = 2
  Adjustments <- CreditTwoDebitOne
  MaxTotal = 3
  None = None
PROPERTIES
  PaymentsRecordedWhileOpen
CHECK_DEADLOCK FALSE
