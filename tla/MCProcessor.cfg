SPECIFICATION FairSpec
CONSTANTS
  NumLogs = 3
  BlockOf <- MCBlockOf
  Kind <- MCKind
  PoolOf <- MCPoolOf
  MaxBlock = 3
  StartBlock = 0
  BackfillFrom = 0
  BatchSize = 2
  BackfillBatch = 1
  Modes = {"live", "backfill"}
INVARIANTS TypeOK CursorCovered FannedPersisted SwapsLinked NothingSkipped
PROPERTY EventuallyIndexed
