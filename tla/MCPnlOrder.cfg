SPECIFICATION Spec
CONSTANTS
  Swap <- MCSwap
  Wad = 10
  Handlers = {handler}
  Reconciler = reconciler
  BatchSize = 2
  None = None
  Readers = {}
  MaxDeliveries = 1
  MaxFaults = 0
INVARIANT Converges
CHECK_DEADLOCK FALSE
