------------------------------ MODULE MCEngine ------------------------------
(* Small instances of BacktestEngine and PaperStrategy for TLC. *)
EXTENDS PaperStrategy

CONSTANTS s1, s2

Candle(open, high, low, close) ==
    [open |-> open, high |-> high, low |-> low, close |-> close]

(* A candle that swings through the grid and ends where it began, a fall    *)
(* below every stop, a rise above the grid and every target, and a fall     *)
(* that only a trailing stop notices.                                       *)
SwingFallRise == {Candle(10, 12, 8, 10), Candle(9, 9, 6, 6), Candle(10, 14, 10, 14)}
SwingFallRiseDip == SwingFallRise \cup {Candle(12, 12, 8, 8)}

Member(symbol, weight, length) ==
    [symbol |-> symbol, weight |-> weight, length |-> length]

(* Two symbols of half the weight, and one of the whole. *)
HalvesOrWhole == {<<Member(s1, 5, 4), Member(s2, 5, 3)>>, <<Member(s1, 10, 5)>>}
Whole == {<<Member(s1, 10, 5)>>}
Halves == {<<Member(s1, 5, 4), Member(s2, 5, 3)>>}
WholeLonger == {<<Member(s1, 10, 7)>>}
=============================================================================
