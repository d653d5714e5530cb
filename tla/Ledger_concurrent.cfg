SPECIFICATION Spec
CONSTANTS
  Txn = {t1, t2}
  Customer = {Ana}
  Order = {o1, o2}
  Ana = Ana
  Owner <- OwnerOfAll
  Price <- Prices
  CreditLimit <- Limits
  Operations <- EveryOperation
  MaxMonth = 1
  MaxCycle = 2
  MaxAdjust = 1
  None = None
INVARIANTS
  TypeOK
  ClosedIffInvoiced
  ChargedAndCreditedOnce
  ExposureExplained
  CompatibleLockOrders
PROPERTY
  InvoiceFrozen
SYMMETRY Interchangeable
