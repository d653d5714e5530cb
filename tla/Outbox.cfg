SPECIFICATION FairSpec
CONSTANTS
  WorkerId = {w1, w2}
  Event = {e1, e2}
  Job = {j1}
  Batch = 2
  AttemptLimit = 1
  MaxFaults = 1
  MaxAttempts = 2
  None = None
INVARIANTS
  TypeOK
  ClaimedByOne
PROPERTIES
  EventsSettle
  DeliversAsPromised
