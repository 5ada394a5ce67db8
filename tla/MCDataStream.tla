--------------------------- MODULE MCDataStream ---------------------------
(***************************************************************************)
(* A trade list of pool p, a firehose of swaps of all pools, and a panel   *)
(* of pool q that also wants state ticks.                                  *)
(***************************************************************************)
EXTENDS DataStream

MCWants == [trades   |-> [channels |-> {"swap"}, pools |-> {"p"}],
            firehose |-> [channels |-> {"swap"}, pools |-> {}],
            panel    |-> [channels |-> {"swap", "state"}, pools |-> {"q"}]]
=============================================================================
