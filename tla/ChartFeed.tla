------------------------------ MODULE ChartFeed ------------------------------
(***************************************************************************)
(* The chart of a page (useCandles and mergeLivePrice in api/hooks.ts) fed *)
(* by the socket of ws/realtime.ts: the candles are fetched when the page  *)
(* opens and after a reconnection, and every price that arrives is drawn   *)
(* over the candles fetched last.  Time is counted in periods.             *)
(***************************************************************************)
EXTENDS Integers, Sequences, SequencesExt

CONSTANTS Prices,      \* positive integers
          MaxPeriod,   \* last period
          ChartLimit,  \* candles kept
          MaxTrades,   \* bound on the prices
          MaxDrops,    \* bound on the disconnections and the failed requests
          NoPrice

ASSUME ChartAssumption ==
    /\ Prices \subseteq Nat \ {0} /\ ChartLimit \in Nat \ {0}
    /\ {MaxPeriod, MaxTrades, MaxDrops} \subseteq Nat

VARIABLES clock,       \* the period that is open
          series,      \* the server's candles, one for every period so far
          wire,        \* prices on their way to the browser
          connected, seenConnected,
          live,        \* the last price that arrived
          request,     \* "rest", "asked" or "answered"
          carries,     \* candles an answer under way carries
          base,        \* query.data
          chart,       \* the candles drawn
          drops

chartVars == <<clock, series, wire, connected, seenConnected, live, request, carries, base, chart, drops>>

LastCandle(s, n) == SubSeq(s, IF Len(s) > n THEN Len(s) - n + 1 ELSE 1, Len(s))

FlatCandle(time, p) == [time |-> time, high |-> p, low |-> p, close |-> p]

Widened(c, p) == [c EXCEPT !.close = p, !.high = IF p > @ THEN p ELSE @, !.low = IF p < @ THEN p ELSE @]

\* Mutant: a gap is jumped over.
MergeOverGap(candles, p, now) ==
    CASE now = Last(candles).time -> Front(candles) \o <<Widened(Last(candles), p)>>
      [] now > Last(candles).time -> LastCandle(Append(candles, FlatCandle(now, p)), ChartLimit)
      [] OTHER -> candles

\* A price falls into the browser's current period: into the last candle, into a new one
\* after it, or nowhere when there is a gap or the candles are ahead.
MergeLivePrice(candles, p, now) ==
    CASE now = Last(candles).time -> Front(candles) \o <<Widened(Last(candles), p)>>
      [] now = Last(candles).time + 1 -> LastCandle(Append(candles, FlatCandle(now, p)), ChartLimit)
      [] OTHER -> candles

Drawn(candles, p, now) == IF candles = <<>> \/ p = NoPrice THEN candles ELSE MergeLivePrice(candles, p, now)

----------------------------------------------------------------------------
\* A trade moves the server's candle and is broadcast.
Trade ==
    /\ Len(wire) < MaxTrades
    /\ \E p \in Prices :
          /\ series' = Front(series) \o <<Widened(Last(series), p)>>
          /\ wire' = IF connected THEN Append(wire, p) ELSE wire
    /\ UNCHANGED <<clock, connected, seenConnected, live, request, carries, base, chart, drops>>

\* The next period opens at the last price.
Roll ==
    /\ clock < MaxPeriod /\ clock' = clock + 1
    /\ series' = Append(series, FlatCandle(clock + 1, Last(series).close))
    /\ UNCHANGED <<wire, connected, seenConnected, live, request, carries, base, chart, drops>>

PriceArrives ==
    /\ wire # <<>> /\ wire' = Tail(wire)
    /\ live' = Head(wire) /\ chart' = Drawn(base, live', clock)
    /\ UNCHANGED <<clock, series, connected, seenConnected, request, carries, base, drops>>

Disconnect ==
    /\ connected /\ drops < MaxDrops /\ drops' = drops + 1
    /\ connected' = FALSE /\ wire' = <<>>
    /\ UNCHANGED <<clock, series, seenConnected, live, request, carries, base, chart>>

\* The first connection fetches nothing: the page does.
Connect ==
    /\ ~connected /\ connected' = TRUE /\ seenConnected' = TRUE
    /\ request' = IF seenConnected THEN "asked" ELSE request
    /\ UNCHANGED <<clock, series, wire, live, carries, base, chart, drops>>

ServerAnswers ==
    /\ request = "asked" /\ request' = "answered"
    /\ carries' = LastCandle(series, ChartLimit)
    /\ UNCHANGED <<clock, series, wire, connected, seenConnected, live, base, chart, drops>>

CandlesArrive ==
    /\ request = "answered" /\ request' = "rest"
    /\ base' = carries /\ chart' = Drawn(carries, live, clock)
    /\ UNCHANGED <<clock, series, wire, connected, seenConnected, live, carries, drops>>

\* After its retry.
CandlesFail ==
    /\ request # "rest" /\ drops < MaxDrops /\ drops' = drops + 1
    /\ request' = "rest"
    /\ UNCHANGED <<clock, series, wire, connected, seenConnected, live, carries, base, chart>>

ChartInit ==
    /\ clock = 1 /\ \E p \in Prices : series = <<FlatCandle(1, p)>>
    /\ wire = <<>> /\ connected = FALSE /\ seenConnected = FALSE /\ live = NoPrice
    /\ request = "asked" /\ carries = <<>> /\ base = <<>> /\ chart = <<>> /\ drops = 0

ChartNext ==
    \/ Trade \/ Roll \/ PriceArrives \/ Disconnect \/ Connect
    \/ ServerAnswers \/ CandlesArrive \/ CandlesFail

ChartSpec == ChartInit /\ [][ChartNext]_chartVars

----------------------------------------------------------------------------
\* The chart never has a hole nor draws a period twice, however late the answer and
\* however long the connection was gone.
NoHoles == \A i \in 2..Len(chart) : chart[i].time = chart[i - 1].time + 1

=============================================================================
