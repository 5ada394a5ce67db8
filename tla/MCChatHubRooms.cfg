SPECIFICATION Spec
CONSTANTS
  Conns = {"c", "d"}
  Rooms = {"r"}
  Wallets = {"w", "v"}
  Actor <- MCActor
  MaxSend = 1
  MaxPosts = 1
  MaxConns = 2
INVARIANT OccupiedSubscribed
CHECK_DEADLOCK FALSE
