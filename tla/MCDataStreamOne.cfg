SPECIFICATION Spec
CONSTANTS
  MaxSockets = 3
  MaxReconnectAttempts = 1
  MaxFaults = 2
  Consumers = {"trades", "firehose", "panel"}
  Wants <- MCWants
  MaxFrames = 1
INVARIANTS OneConnection
