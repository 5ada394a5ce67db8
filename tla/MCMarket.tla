------------------------------ MODULE MCMarket ------------------------------
(***************************************************************************)
(* Two pools of different shape; rates are quarters.                        *)
(***************************************************************************)
EXTENDS Market

MCVirtual == [p |-> 2, q |-> 1]
MCSupply == [p |-> 4, q |-> 2]
MCChosen == [p |-> {"airdrop", "lp"}, q |-> {"claim", "burn"}]
MCMaxUnpaid == [p |-> 1, q |-> 0]
MCMaxSpare == [p |-> 1, q |-> 0, fees |-> 1]
=============================================================================
