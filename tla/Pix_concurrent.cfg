SPECIFICATION Spec
CONSTANTS
  Txn = {t1, t2}
  Charge = {c1, c2}
  Event = {e1, e2}
  InvoiceTotal = 2
  MinInstallment = 1
  MaxInstallment = 2
  AllowInstallmentAfterDueDate = TRUE
  Operations <- EveryOperation
  MaxPlan = 1
  MaxDay = 2
  Adjustments <- CreditTwoDebitOne
  MaxTotal = 3
  None = None
INVARIANTS
  TypeOK
  PaymentsAddUp
  OnePaymentPerInstalment
  PlanFollowsInstalments
  ChargesHaveInstalment
PROPERTIES
  CollectsAsPromised
SYMMETRY Interchangeable
CHECK_DEADLOCK FALSE
