SPECIFICATION FairSpec
CONSTANTS
  MaxSockets = 2
  MaxReconnectAttempts = 1
  MaxFaults = 2
  Consumers = {"trades", "firehose", "panel"}
  Wants <- MCWants
  MaxFrames = 1
INVARIANTS TypeOK ServerInStep
PROPERTIES NeverStarved ServedOrTold
