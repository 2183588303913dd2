--------------------------- MODULE MCSignalRounds ---------------------------
EXTENDS SignalRounds

CONSTANTS a, b

Quiet == [low |-> 2, mid |-> 3, up |-> 4, xlow |-> 1, xup |-> 5, atr |-> 1, average |-> "LONG",
          ranging |-> TRUE, rsi |-> "low", equity |-> 10]
Wild  == [Quiet EXCEPT !.low = 2, !.mid = 2, !.up = 2, !.xlow = 2, !.xup = 2, !.average = "SHORT",
                       !.ranging = FALSE, !.rsi = "high", !.atr = 2, !.equity = 4]
MCWeather == {Quiet, Wild}
AllKinds == Kinds
MCInstances == {a, b}
Alike == Permutations(MCInstances)
=============================================================================
