---------------------------- MODULE MCProcessor ----------------------------
(***************************************************************************)
(* The processor on three logs: a pool created in block 1, then in block 2 *)
(* a log that is skipped and a swap of that pool; block 3 is empty.  A     *)
(* live batch holds two blocks and a backfill batch one, so that a backfill*)
(* and the live loop cut the chain differently.                            *)
(***************************************************************************)
EXTENDS Processor

MCBlockOf == <<1, 2, 2>>
MCKind == <<"MarketCreated", "Unusable", "Swap">>
MCPoolOf == <<"p", "p", "p">>
=============================================================================
