----------------------------- MODULE MCOffices -----------------------------
(***************************************************************************)
(* Offices on small histories and figures, two pairs of pages, two tasks   *)
(* of each kind that overlap, and two feeds that share an item.            *)
(***************************************************************************)
EXTENDS Offices

TheScores == {-1, 0, 1, 5}
TheReturns == {-1, 0, 1}
TheSessions == {<<"governance", "accounts">>, <<"backtest", "backtestHistory">>}
ThePosts == [p \in {"strategy", "futures", "governance"} |-> IF p = "governance" THEN 3 ELSE 2]
TheRatios == {-5, 50, 1500}
TheLevers == {-3, 1, 9}
TheFeeds == [s \in Sources |-> IF s = "f1" THEN <<"a", "b">> ELSE <<"b">>]
=============================================================================
