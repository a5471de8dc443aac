SPECIFICATION Spec
CONSTANTS
  Ids = {1, 2, 3}
  Filters = {"any", "pending", "expired", "acknowledged"}
  Limits = {1, 2}
  Lifetime = 1
  Receipts = {"acknowledged"}
  Delay = 1
  TicksPerSecond = 2
  MaxTime = 2
INVARIANTS
  TypeOK
  ListedOnceInOrder
  NothingSkipped
  ShownAsFiltered
CHECK_DEADLOCK FALSE
