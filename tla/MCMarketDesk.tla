---------------------------- MODULE MCMarketDesk ----------------------------
(***************************************************************************)
(* MarketDesk with two accounts, an order that opens and one that closes   *)
(* the same leg, two intervals of which the longer is two of the shorter,  *)
(* and two symbols.  An entry trail is never armed in the archive.         *)
(***************************************************************************)
EXTENDS MarketDesk

TheAccounts == {[env |-> "demo", key |-> 1], [env |-> "live", key |-> 2]}
TheFirst == [env |-> "demo", key |-> 1]
TheAct == [o \in Orders |-> IF o = "opening" THEN "open" ELSE "close"]
TheLeg == [o \in Orders |-> "LONG"]
TheFrames == <<"1m", "5m">>
TheCounts == [i \in Intervals |-> 1]
TheTrails == {<<0, 0>>}
TheEntries == <<10, 11>>
TheSteps == [i \in Intervals |-> IF i = "1m" THEN 1 ELSE 2]
=============================================================================
