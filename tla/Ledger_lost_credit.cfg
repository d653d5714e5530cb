SPECIFICATION Spec
CONSTANTS
  Txn = {t1, t2}
  Customer = {Ana}
  Order = {o1, o2}
  Ana = Ana
  Owner <- OwnerOfAll
  Price <- Prices
  CreditLimit <- Limits
  Operations = {"checkout", "close_reference", "cancel"}
  MaxMonth = 1
  MaxCycle = 2
  MaxAdjust = 1
  None = None
INVARIANT NoLostCredit
SYMMETRY Interchangeable
