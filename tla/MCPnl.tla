------------------------------- MODULE MCPnl -------------------------------
(***************************************************************************)
(* Two users.  The first buys and sells a part; the second buys.  Wad is   *)
(* small, so that the average cost is truncated as it is in the code.      *)
(***************************************************************************)
EXTENDS Pnl

Buy(u, usdl, token) == [user |-> u, isBuy |-> TRUE, usdl |-> usdl, token |-> token]
Sell(u, usdl, token) == [user |-> u, isBuy |-> FALSE, usdl |-> usdl, token |-> token]

MCSwap == <<Buy("ann", 3, 2), Sell("ann", 4, 1), Buy("bob", 1, 1)>>
=============================================================================
