SPECIFICATION Spec
CONSTANTS
  At <- MCAt
  Interval <- MCInterval
  Hooks = {"hook"}
  MaxConns = 3
  MaxGaps = 1
  Failures = FALSE
  MaxPosts = 1
  MaxNow = 2
INVARIANT ClaimedIsFolded
