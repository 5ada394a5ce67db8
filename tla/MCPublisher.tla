---------------------------- MODULE MCPublisher ----------------------------
(***************************************************************************)
(* Two batches, {1, 2} and {3}, so that one of them has an order to keep;  *)
(* either can be handed over again.  Every event has a Redis channel.      *)
(***************************************************************************)
EXTENDS Publisher

MCBatches == {{1, 2}, {3}}
=============================================================================
