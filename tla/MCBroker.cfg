SPECIFICATION FairSpec
CONSTANTS
  Conns = {"c"}
  Channels = {"swap", "state"}
  Pools = {"p"}
  Msgs <- MCMsgs
  MaxBuf = 2
  MaxConns = 1
  MaxMsgs = 4
INVARIANTS TypeOK IndexExact WakeupKept NewestTickKept
PROPERTY FeedSpec
