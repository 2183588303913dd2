----------------------------- MODULE MCBacktest -----------------------------
(***************************************************************************)
(* Backtest with four candles (a wide one, a gap up, a gap down and a fall), *)
(* and a capital so small that one lot can lose the margin.                 *)
(***************************************************************************)
EXTENDS Backtest

Candle(o, h, l, c) == [open |-> o, high |-> h, low |-> l, close |-> c]
TheBars == {Candle(4, 5, 3, 4), Candle(5, 5, 5, 5), Candle(3, 3, 3, 3)}
TheRates == {-1, 1}
=============================================================================
