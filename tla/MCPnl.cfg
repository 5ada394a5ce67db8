SPECIFICATION FairSpec
CONSTANTS
  Swap <- MCSwap
  Wad = 10
  Handlers = {handler}
  Reconciler = reconciler
  BatchSize = 2
  None = None
  Readers = {"ann"}
  MaxDeliveries = 2
  MaxFaults = 2
INVARIANTS TypeOK NothingSkipped TotalsExact
PROPERTIES FoldsOne Reconciled CacheSettles
CHECK_DEADLOCK FALSE
