----------------------------- MODULE MCCandles -----------------------------
(***************************************************************************)
(* Two swaps of one pool under two timeframes: in the shorter one each has *)
(* its own candle, and the gap filler may write the second one first; in   *)
(* the longer one they share a candle.                                     *)
(***************************************************************************)
EXTENDS Candles

MCAt == <<0, 1>>
MCInterval == <<1, 2>>
=============================================================================
