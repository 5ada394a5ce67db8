------------------------------ MODULE MCBroker ------------------------------
(***************************************************************************)
(* A discrete event and a coalesced state tick of one pool, on a channel   *)
(* each, for one client that comes and goes.                               *)
(***************************************************************************)
EXTENDS Broker

MCMsgs == {[chan |-> "swap", pool |-> "p", key |-> ""],
           [chan |-> "state", pool |-> "p", key |-> "state:p"]}
=============================================================================
