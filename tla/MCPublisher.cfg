SPECIFICATION PubFairSpec
CONSTANTS
  Batches <- MCBatches
  Channelled = {1, 2, 3}
  Targets = {t1}
  Attempts = 2
  DlqCap = 1
  MaxFanouts = 2
INVARIANTS PubTypeOK Accounted DlqKeepsNewest 
PROPERTIES RefannedOnlyExcused DeliveriesEnd
