------------------------------ MODULE Backtest ------------------------------
(***************************************************************************)
(* A back-test: the replay of recorded candles ("bars") or of recorded      *)
(* trades, mark prices and funding settlements ("events"), with a strategy  *)
(* that after the warm-up is called once per bar and may open lots, close   *)
(* lots, place stop orders and cancel them.  The strategy is any: within a  *)
(* tick it makes any calls in any order.                                    *)
(***************************************************************************)
EXTENDS SimBooks

CONSTANTS Bars,            \* the candles [open, high, low, close] of a recording
          Prices,          \* the prices of trades, of marks and of stop orders
          Quantities,
          Rates,           \* funding rates, money per tick and unit
          WarmupBars,
          MaxBars,         \* bound: bars of a recording
          MaxEvents,       \* bound: trades, marks and settlements of a recording
          MaxOrders        \* bound: lots opened and stop orders placed

VARIABLES
    engine,       \* "bars" or "events"
    phase,        \* "market" while the recording is replayed, "tick" while the strategy runs
    book,         \* the broker's accounts
    market,       \* the event broker's prices
    bars, events, \* how much of the recording was replayed
    asked,        \* how many lots and stop orders were asked for
    before,       \* history: how many fills there were before the last step of the market
    bar,          \* history: the last candle
    cancelled,    \* history: the stop orders that were cancelled
    doomed        \* history: the lots that were open when the margin was breached, until
                  \* the next fills

vars == <<engine, phase, book, market, bars, events, asked, before, bar, cancelled, doomed>>

NoBar == [open |-> 0, high |-> 0, low |-> 0, close |-> 0]

Init ==
    /\ engine \in {"bars", "events"}
    /\ phase = "market"
    /\ book = Empty
    /\ market = NoMarket
    /\ bars = 0
    /\ events = 0
    /\ asked = 0
    /\ before = 0
    /\ bar = NoBar
    /\ cancelled = {}
    /\ doomed = {}

-----------------------------------------------------------------------------
(* The recording. *)

Replayed(b) == book' = b /\ before' = Len(book.trades)

\* The strategy is called from the first bar after the warm-up on.
NextBar ==
    /\ bars < MaxBars
    /\ bars' = bars + 1
    /\ phase' = IF bars >= WarmupBars THEN "tick" ELSE "market"

BarOfCandles(c) ==
    /\ engine = "bars" /\ phase = "market"
    /\ Replayed(BeginBar(book, c))
    /\ NextBar
    /\ bar' = c
    /\ UNCHANGED <<engine, market, events, asked, cancelled, doomed>>

NextEvent ==
    /\ engine = "events" /\ phase = "market"
    /\ events < MaxEvents
    /\ events' = events + 1

Trade(p) ==
    /\ NextEvent
    /\ Replayed(AggTrade(book, p))
    /\ market' = [market EXCEPT !.last = p, !.seen = TRUE]
    /\ doomed' = {}
    /\ UNCHANGED <<engine, phase, bars, asked, bar, cancelled>>

MarkTick(p) ==
    /\ NextEvent
    /\ Replayed(MarkPrice(book, p))
    /\ market' = [market EXCEPT !.mark = p]
    /\ doomed' = IF Breached(book, p) THEN doomed \cup OpenLots(book) ELSE doomed
    /\ UNCHANGED <<engine, phase, bars, asked, bar, cancelled>>

\* A settlement is recorded with its mark price, or without.
FundingSettlement(rate, p) ==
    /\ NextEvent
    /\ Replayed(Funded(book, IF p # 0 THEN p ELSE CurrentMark(market), rate))
    /\ UNCHANGED <<engine, phase, market, bars, asked, bar, cancelled, doomed>>

BarOfEvents(c) ==
    /\ engine = "events" /\ phase = "market"
    /\ Replayed(BarClose(book, market, c))
    /\ market' = IF market.seen THEN market ELSE [market EXCEPT !.last = c.close, !.mark = c.close]
    /\ doomed' = IF market.seen THEN doomed ELSE {}
    /\ NextBar
    /\ UNCHANGED <<engine, events, asked, bar, cancelled>>

-----------------------------------------------------------------------------
(* The strategy's tick. *)

Asks(b) ==
    /\ phase = "tick"
    /\ book' = b
    /\ UNCHANGED <<engine, phase, market, bars, events, before, bar, doomed>>

AskOpen(d, q) ==
    /\ asked < MaxOrders
    /\ Asks(OpenLot(book, asked + 1, d, q))
    /\ asked' = asked + 1
    /\ UNCHANGED cancelled

AskStop(d, q, price) ==
    /\ asked < MaxOrders
    /\ Asks(PlaceStop(book, asked + 1, d, q, price))
    /\ asked' = asked + 1
    /\ UNCHANGED cancelled

AskClose(id) ==
    /\ MayClose(book, id)
    /\ Asks(CloseLot(book, id))
    /\ UNCHANGED <<asked, cancelled>>

AskCancel(id) ==
    /\ id \in DOMAIN book.stops
    /\ Asks(Cancel(book, id))
    /\ cancelled' = cancelled \cup {id}
    /\ UNCHANGED asked

EndTick ==
    /\ phase = "tick"
    /\ phase' = "market"
    /\ UNCHANGED <<engine, book, market, bars, events, asked, before, bar, cancelled, doomed>>

Next ==
    \/ \E c \in Bars : BarOfCandles(c) \/ BarOfEvents(c)
    \/ \E p \in Prices : Trade(p) \/ MarkTick(p)
    \/ \E rate \in Rates, p \in Prices \cup {0} : FundingSettlement(rate, p)
    \/ \E d \in {"LONG", "SHORT"}, q \in Quantities :
          \/ AskOpen(d, q)
          \/ \E p \in Prices : AskStop(d, q, p)
    \/ \E id \in 1..MaxOrders : AskClose(id) \/ AskCancel(id)
    \/ EndTick

Spec == Init /\ [][Next]_vars

-----------------------------------------------------------------------------
(* What is true of every replay. *)

New == SubSeq(book.trades, before + 1, Len(book.trades))
Flow(S) == FoldLeft(LAMBDA t, f : t - FeeUnit * f.dir * f.qty * f.price, 0, S)
Money(f) == [dir |-> f.dir, qty |-> f.qty, price |-> FeeUnit * f.price, fee |-> f.fee]
Fills == [k \in DOMAIN book.trades |-> Money(book.trades[k])]

\* The equity, which is computed from lots, sums and funding, is what the fills
\* say: the capital, what was paid and received for the fills and their fees, the
\* funding, and the net quantity at the mark; whatever the mark.  No fee and no
\* price difference is counted twice or lost between a lot's floating and its
\* realized result.
EquityIsExplained ==
    \A mark \in Prices :
        Equity(book, mark) =
            FeeUnit * Capital + Flow(book.trades) - Fees(book) + book.funding
            + FeeUnit * NetQty(book) * mark

\* The report adds up: with every lot closed the rounds it lists, and nothing
\* else, make the difference between the equity and the capital, and every lot
\* is counted as a layer of exactly one of them.
ReportAddsUp ==
    OpenLots(book) = {} =>
        /\ TotalPnl(book) = Equity(book, 0) - FeeUnit * Capital
        /\ FoldLeft(LAMBDA t, r : t + r.layers, 0, book.closed) = Cardinality(DOMAIN book.lots)

\* An order is filled once: no lot is opened or closed twice, none is closed
\* before it is opened, and a stop order that was cancelled is never filled.
OneFillPerOrder ==
    /\ \A j, k \in DOMAIN book.trades :
          /\ j # k /\ book.trades[j].id = book.trades[k].id
             => book.trades[j].kind # book.trades[k].kind
          /\ book.trades[j].id = book.trades[k].id /\ book.trades[j].kind = "CLOSE"
             => k <= j
    /\ \A k \in DOMAIN book.trades : book.trades[k].id \notin cancelled

\* The bar broker fills at prices the bar has: before the slippage no fill is
\* above the bar's high or below its low.  A stop order that the market jumped
\* over is filled at the open, not at the price it asked for.
FillsInsideBar ==
    engine = "bars" =>
        \A k \in DOMAIN New :
            New[k].price - New[k].dir * Slippage \in bar.low..bar.high

\* Every fill is one the market and the orders allow.
FillsAreReal == OneFillPerOrder /\ FillsInsideBar

\* A breach of the maintenance margin ends the position: no lot that was open
\* when it was noticed survives the next fills, whether or not the strategy was
\* closing it.
BreachEndsPosition ==
    [][\A p \in Prices : Trade(p) => doomed \cap OpenLots(book') = {}]_vars

\* The position derived by netting the fills agrees with the lots, and its
\* realized result with the round trips of the same fills; with every lot closed
\* the round trips' price differences less all fees are what the broker realized.
NettingAgrees ==
    LET position == Position(Fills)
        trips == Trips(Fills)
    IN /\ position.qty = NetQty(book)
       /\ Same(position.realized, Total(trips, LAMBDA t : t.net))
       /\ OpenLots(book) = {} =>
             Same(Total(trips, LAMBDA t : t.gross), Frac(book.realized + Fees(book)))

\* The accounts that are kept of the same fills agree: equity, report and netting.
BooksAddUp == EquityIsExplained /\ ReportAddsUp /\ NettingAgrees

=============================================================================
