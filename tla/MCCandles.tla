----------------------------- MODULE MCCandles -----------------------------
(* A refresh and a backtest over ranges that overlap, one of which leaves  *)
(* candles missing on both sides; pages of two rows.                       *)
EXTENDS CandleStore

AllRanges == {<<1, 2>>, <<0, 2>>, <<0, 3>>}
OneRange == {<<0, 2>>}
=============================================================================
