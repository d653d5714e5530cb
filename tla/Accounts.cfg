SPECIFICATION Spec
CONSTANTS
  Txn = {t1, t2}
  boss = boss
  clerk = clerk
  fresh = fresh
  stranger = stranger
  User = {boss, clerk, fresh, stranger}
  Opening <- Office
  SignedIn <- BothAdmins
  Unverified <- Newcomer
  Limits = {100, 200}
  DefaultLimit = 50
  AdminMFARequired = TRUE
  MaxRequests = 3
  None = None
INVARIANTS
  TypeOK
  LimitsChain
  AnAdminRemains
  OneInternalRole
  EnabledSecretProved
SYMMETRY Interchangeable
CHECK_DEADLOCK FALSE
