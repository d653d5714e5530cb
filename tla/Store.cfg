SPECIFICATION Spec
CONSTANTS
  Txn = {t1, t2}
  Item = {i1, i2, i3}
  Cart = {c1, c2}
  Key = {k1, k2}
  Opening <- StockOfTwo
  InCart <- OneOfEach
  Edits <- PromotionAndName
  Costs = {100}
  Margins = {50}
  CollabMargin = 10
  MaxQuantity = 1
  MaxRequests = 3
  None = None
INVARIANTS
  TypeOK
  LotsMatchBalance
  MovementsChain
  SoldIsOrdered
  PromoWithinQuota
  PricesChain
  AdjustedToCount
  CollaboratorPaysNoMore
PROPERTY
  SellsAsPromised
SYMMETRY Interchangeable
CHECK_DEADLOCK FALSE
