SPECIFICATION FairSpec
CONSTANTS
  Txn = {t1}
  Charge = {c1}
  Event = {e1}
  InvoiceTotal = 2
  MinInstallment = 1
  MaxInstallment = 2
  AllowInstallmentAfterDueDate = FALSE
  Operations <- PlanAndPay
  MaxPlan = 1
  MaxDay = 2
  Adjustments <- CreditTwoDebitOne
  MaxTotal = 3
  None = None
PROPERTIES
  PaymentsRecorded
CHECK_DEADLOCK FALSE
