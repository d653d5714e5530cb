SPECIFICATION Spec
CONSTANTS
  Txn = {t1, t2}
  Customer = {Ana, Bea}
  Order = {o1, o2, o3}
  Ana = Ana
  Owner <- OwnedApart
  Price <- Prices
  CreditLimit <- Limits
  Operations <- PurchasesAndClosings
  MaxMonth = 2
  MaxCycle = 2
  MaxAdjust = 0
  None = None
INVARIANTS
  OneOpenPeriod
  PurchasesInvoiced
SYMMETRY Sessions
CHECK_DEADLOCK FALSE
