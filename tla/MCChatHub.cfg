SPECIFICATION Spec
CONSTANTS
  Conns = {"c", "d"}
  Rooms = {"r"}
  Wallets = {"w", "v"}
  Actor <- MCActor
  MaxSend = 1
  MaxPosts = 2
  MaxConns = 2
INVARIANTS TypeOK RefsExact NothingLeaked NoHoles
CHECK_DEADLOCK FALSE
