SPECIFICATION FairSpec
CONSTANTS
  At <- MCAt
  Interval <- MCInterval
  Hooks = {"hook"}
  MaxConns = 2
  MaxGaps = 1
  Failures = TRUE
  MaxPosts = 2
  MaxNow = 2
INVARIANTS TypeOK SeenIsClaimed LostOnlyByOverlap
PROPERTY CallsReturn
