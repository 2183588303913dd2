------------------------------ MODULE SimBooks ------------------------------
(***************************************************************************)
(* The accounts both back-test brokers keep: lots, stop orders, market      *)
(* orders accepted but not filled, rounds and sums.  The bar broker fills   *)
(* market orders at the open of the next bar, closes before opens, and stop *)
(* orders by the bar's high and low.  The event broker fills market orders  *)
(* by the next trade, in the order they were asked for; every trade is      *)
(* compared with the stop orders, a mark price may liquidate, and funding   *)
(* is paid when it is settled; before the first trade a bar's close stands  *)
(* in for one.  The market it sees is [last, mark, seen].  A book b is      *)
(*                                                                         *)
(*   lots      id -> [dir, qty, entry, fee, status, round, busy]            *)
(*   stops     id -> [dir, qty, price]                                      *)
(*   pending   sequence of [type: "open"/"close"/"liquidate", id, dir, qty] *)
(*   rounds    sequence of [lots, realized, funding, open, settled]         *)
(*   current   the round that takes new lots, 0 if there is none            *)
(*   closed    what the report says of the rounds, as they were settled     *)
(*   realized, funding                                                      *)
(*   trades    the fills, in order                                          *)
(*                                                                         *)
(* Prices are in ticks; the slippage and the penalty of a liquidation are   *)
(* numbers of ticks, and the fee of a fill is FeeRate money per tick and    *)
(* unit, a tick being FeeUnit money.                                        *)
(***************************************************************************)
EXTENDS Integers, Sequences, FiniteSets, Functions, FiniteSetsExt, SequencesExt, TLC

CONSTANTS Capital, Slippage, FeeRate, FeeUnit,
          BarFunding,     \* money per tick and unit that a long pays per bar
          Penalty,        \* ticks that a liquidation costs
          MaintNum, MaintDen   \* maintenance margin MaintNum/MaintDen

Empty == [lots |-> <<>>, stops |-> <<>>, pending |-> <<>>, rounds |-> <<>>, current |-> 0,
          closed |-> <<>>, realized |-> 0, funding |-> 0, trades |-> <<>>]

Dir(d) == IF d = "LONG" THEN 1 ELSE -1
Fee(price, qty) == FeeRate * price * qty
OpenLots(b) == {i \in DOMAIN b.lots : b.lots[i].status = "OPEN"}

Worth(b, i, mark) ==
    FeeUnit * Dir(b.lots[i].dir) * (mark - b.lots[i].entry) * b.lots[i].qty - b.lots[i].fee
Equity(b, mark) ==
    FeeUnit * Capital + b.realized + b.funding + MapThenSumSet(LAMBDA i : Worth(b, i, mark), OpenLots(b))
NetQty(b) == MapThenSumSet(LAMBDA i : Dir(b.lots[i].dir) * b.lots[i].qty, OpenLots(b))

-----------------------------------------------------------------------------
(* What the strategy may ask for within a tick. *)

OpenLot(b, id, d, q) ==
    [b EXCEPT !.pending = Append(@, [type |-> "open", id |-> id, dir |-> d, qty |-> q])]

MayClose(b, id) == id \in OpenLots(b)
CloseLot(b, id) ==
    IF b.lots[id].busy THEN b
    ELSE [b EXCEPT !.lots[id].busy = TRUE, !.pending = Append(@, [type |-> "close", id |-> id])]

PlaceStop(b, id, d, q, price) ==
    [b EXCEPT !.stops = (id :> [dir |-> d, qty |-> q, price |-> price]) @@ @]

\* Mutant: a cancelled order stays.
CancelKept(b, id) == b
Cancel(b, id) == [b EXCEPT !.stops = Restrict(@, DOMAIN @ \ {id})]

-----------------------------------------------------------------------------
(* Fills. *)

Against(d, ref) == IF d = "LONG" THEN ref + Slippage ELSE ref - Slippage
Opposite(d) == IF d = "LONG" THEN "SHORT" ELSE "LONG"

FreshRound == [lots |-> {}, realized |-> 0, funding |-> 0, open |-> 0, settled |-> FALSE]
EnsureRound(b) ==
    IF b.current # 0 /\ ~b.rounds[b.current].settled THEN b
    ELSE [b EXCEPT !.rounds = Append(@, FreshRound), !.current = Len(b.rounds) + 1]

Fill(kind, id, d, q, price) ==
    [kind |-> kind, id |-> id, dir |-> Dir(d), qty |-> q, price |-> price, fee |-> Fee(price, q)]

ExecuteOpen(b, id, d, q, ref) ==
    LET price == Against(d, ref)
        c == EnsureRound(b)
    IN [c EXCEPT
          !.lots = (id :> [dir |-> d, qty |-> q, entry |-> price, fee |-> Fee(price, q),
                           status |-> "OPEN", round |-> c.current, busy |-> FALSE]) @@ @,
          !.rounds[c.current] = [@ EXCEPT !.lots = @ \cup {id}, !.open = @ + 1],
          !.trades = Append(@, Fill("OPEN", id, d, q, price))]

\* Mutant: the fee of the opening is left out.
PnlOfClose(l, price) == FeeUnit * Dir(l.dir) * (price - l.entry) * l.qty - Fee(price, l.qty)
\* settleLotPnl.
Pnl(l, price) == FeeUnit * Dir(l.dir) * (price - l.entry) * l.qty - l.fee - Fee(price, l.qty)

SettleRound(b, r) ==
    IF b.rounds[r].open > 0 THEN b
    ELSE [b EXCEPT !.rounds[r].settled = TRUE,
                   !.closed = Append(@, [realized |-> b.rounds[r].realized,
                                         funding |-> b.rounds[r].funding,
                                         layers |-> Cardinality(b.rounds[r].lots)]),
                   !.current = IF @ = r THEN 0 ELSE @]

ExecuteClose(b, id, ref) ==
    LET l == b.lots[id]
        price == Against(Opposite(l.dir), ref)
        c == [b EXCEPT
                !.lots[id].status = "CLOSED",
                !.realized = @ + Pnl(l, price),
                !.rounds[l.round] = [@ EXCEPT !.realized = @ + Pnl(l, price), !.open = @ - 1],
                !.trades = Append(@, Fill("CLOSE", id, Opposite(l.dir), l.qty, price))]
    IN IF id \notin OpenLots(b) THEN b ELSE SettleRound(c, l.round)

\* A funding payment of `rate' money per tick and unit, at `mark'.
FundLot(b, id, mark, rate) ==
    LET l == b.lots[id]
        paid == -Dir(l.dir) * l.qty * mark * rate
    IN [b EXCEPT !.funding = @ + paid, !.rounds[l.round].funding = @ + paid]
Funded(b, mark, rate) ==
    FoldLeft(LAMBDA c, id : FundLot(c, id, mark, rate), b, SetToSeq(OpenLots(b)))

-----------------------------------------------------------------------------
(* The bar broker. *)

ClosesFirst(orders) ==
    SelectSeq(orders, LAMBDA p : p.type = "close") \o SelectSeq(orders, LAMBDA p : p.type = "open")

FillMarket(b, p, ref) ==
    IF p.type = "close" THEN ExecuteClose(b, p.id, ref) ELSE ExecuteOpen(b, p.id, p.dir, p.qty, ref)

FillPending(b, ref) ==
    [FoldLeft(LAMBDA c, p : FillMarket(c, p, ref), b, ClosesFirst(b.pending)) EXCEPT !.pending = <<>>]

Crossed(s, bar) == IF s.dir = "LONG" THEN bar.high >= s.price ELSE bar.low <= s.price
Gap(s, bar) == IF s.dir = "LONG" THEN Max({s.price, bar.open}) ELSE Min({s.price, bar.open})

TriggerStop(b, id, bar) ==
    IF ~Crossed(b.stops[id], bar) THEN b
    ELSE ExecuteOpen(Cancel(b, id), id, b.stops[id].dir, b.stops[id].qty, Gap(b.stops[id], bar))
TriggerStops(b, bar) ==
    FoldLeft(LAMBDA c, id : TriggerStop(c, id, bar), b, SetToSortSeq(DOMAIN b.stops, <))

AccrueFunding(b, bar) == IF BarFunding > 0 THEN Funded(b, bar.close, BarFunding) ELSE b

\* beginBar.
BeginBar(b, bar) == AccrueFunding(TriggerStops(FillPending(b, bar.open), bar), bar)

-----------------------------------------------------------------------------
(* The event broker. *)

NoMarket == [last |-> 0, mark |-> 0, seen |-> FALSE]
CurrentMark(m) == IF m.mark # 0 THEN m.mark ELSE m.last

FillEvent(b, p, ref, penalty) ==
    CASE p.type = "close" -> ExecuteClose(b, p.id, ref)
      [] p.type = "open"  -> ExecuteOpen(b, p.id, p.dir, p.qty, ref)
      [] p.type = "liquidate" ->
            ExecuteClose(b, p.id, IF b.lots[p.id].dir = "LONG" THEN ref - penalty ELSE ref + penalty)
DrainPending(b, ref, penalty) ==
    [FoldLeft(LAMBDA c, p : FillEvent(c, p, ref, penalty), b, b.pending) EXCEPT !.pending = <<>>]

Passed(s, price) == IF s.dir = "LONG" THEN price >= s.price ELSE price <= s.price
TriggerByTrade(b, price) ==
    FoldLeft(LAMBDA c, id : IF ~Passed(c.stops[id], price) THEN c
                            ELSE ExecuteOpen(Cancel(c, id), id, c.stops[id].dir, c.stops[id].qty, price),
             b, SetToSortSeq(DOMAIN b.stops, <))

AggTrade(b, price) == TriggerByTrade(DrainPending(b, price, Penalty), price)

Notional(b, mark) == MapThenSumSet(LAMBDA i : b.lots[i].qty * mark, OpenLots(b))
Breached(b, mark) ==
    Notional(b, mark) > 0 /\ MaintDen * Equity(b, mark) < MaintNum * FeeUnit * Notional(b, mark)

\* Mutant: only the lot that was opened first is liquidated.
LiquidateFirst(b) ==
    IF \E i \in OpenLots(b) : ~b.lots[i].busy
    THEN LET i == Min({i \in OpenLots(b) : ~b.lots[i].busy})
         IN [b EXCEPT !.lots[i].busy = TRUE, !.pending = Append(@, [type |-> "liquidate", id |-> i])]
    ELSE b
Liquidate(b) ==
    LET free == {i \in OpenLots(b) : ~b.lots[i].busy}
    IN [b EXCEPT !.lots = [i \in DOMAIN @ |-> IF i \in free THEN [@[i] EXCEPT !.busy = TRUE] ELSE @[i]],
                 !.pending = @ \o SetToSeq({[type |-> "liquidate", id |-> i] : i \in free})]

MarkPrice(b, mark) == IF Breached(b, mark) THEN Liquidate(b) ELSE b

BarClose(b, m, bar) ==
    IF m.seen THEN b ELSE TriggerByTrade(DrainPending(b, bar.close, 0), bar.close)

-----------------------------------------------------------------------------
(* The report. *)

\* totalPnl of computePerformance.
TotalPnl(b) == FoldLeft(LAMBDA t, r : t + r.realized + r.funding, 0, b.closed)
Fees(b) == FoldLeft(LAMBDA t, f : t + f.fee, 0, b.trades)

-----------------------------------------------------------------------------
(* Netting: the two ways the program nets a sequence of fills of one symbol, *)
(* the position (applyFuturesFill) and the round trips (computeFuturesRound- *)
(* Trips).  A fill is [dir, qty, price, fee], dir being 1 for BUY and -1 for *)
(* SELL.  Average prices are fractions <<n, d>> with d > 0.                  *)

Frac(n) == <<n, 1>>
Plus(a, b) == IF a[2] = b[2] THEN <<a[1] + b[1], a[2]>>
              ELSE <<a[1] * b[2] + b[1] * a[2], a[2] * b[2]>>
Times(a, n) == <<a[1] * n, a[2]>>
Over(a, n) == IF a[1] % n = 0 THEN <<a[1] \div n, a[2]>> ELSE <<a[1], a[2] * n>>
Same(a, b) == a[1] * b[2] = b[1] * a[2]

Size(q) == IF q < 0 THEN -q ELSE q
Sign(q) == IF q > 0 THEN 1 ELSE IF q < 0 THEN -1 ELSE 0
Smaller(a, b) == IF a < b THEN a ELSE b

-----------------------------------------------------------------------------
(* The net position: reduce first, then turn. *)

Flat == [qty |-> 0, entry |-> Frac(0), realized |-> Frac(0), fee |-> 0]

\* What is closed by a fill against a position s, and its share of the fee.
Closing(s, f) == Smaller(f.qty, Size(s.qty))
FeeShare(s, f) == Over(Frac(f.fee * Closing(s, f)), f.qty)
Gross(s, f) == Times(Plus(Frac(Sign(s.qty) * f.price), Times(s.entry, -Sign(s.qty))), Closing(s, f))

Averaged(s, f) ==
    Over(Plus(Times(s.entry, Size(s.qty)), Frac(f.price * f.qty)), Size(s.qty) + f.qty)

\* applyFuturesFill.
ApplyFill(s, f) ==
    LET paid == [s EXCEPT !.fee = @ + f.fee]
        rest == f.qty - Closing(s, f)
    IN IF s.qty = 0 THEN [paid EXCEPT !.qty = f.dir * f.qty, !.entry = Frac(f.price)]
       ELSE IF Sign(s.qty) = f.dir THEN [paid EXCEPT !.qty = @ + f.dir * f.qty, !.entry = Averaged(s, f)]
       ELSE [paid EXCEPT !.qty = @ + f.dir * f.qty,
                         !.realized = Plus(@, Plus(Gross(s, f), Times(FeeShare(s, f), -1))),
                         !.entry = IF rest > 0 THEN Frac(f.price)
                                   ELSE IF s.qty + f.dir * f.qty = 0 THEN Frac(0) ELSE @]

Position(fills) == FoldLeft(ApplyFill, Flat, fills)

-----------------------------------------------------------------------------
(* Round trips: one for every fill against the position. *)

NoTrips == [qty |-> 0, entry |-> Frac(0), openQty |-> 0, openFee |-> Frac(0), trips |-> <<>>]

\* The fee of the opening side is shared out by quantity: the quantity that is
\* left is reduced, the fee that is left is not.
Trip(s, f) ==
    [qty |-> Closing(s, f), closed |-> f,
     fee |-> Plus(Over(Times(s.openFee, Closing(s, f)), s.openQty), FeeShare(s, f)),
     gross |-> Gross(s, f), net |-> Plus(Gross(s, f), Times(FeeShare(s, f), -1))]

TripStep(s, f) ==
    LET rest == f.qty - Closing(s, f)
    IN IF s.qty = 0
       THEN [s EXCEPT !.qty = f.dir * f.qty, !.entry = Frac(f.price), !.openQty = f.qty,
                      !.openFee = Frac(f.fee)]
       ELSE IF Sign(s.qty) = f.dir
       THEN [s EXCEPT !.qty = @ + f.dir * f.qty, !.entry = Averaged(s, f), !.openQty = @ + f.qty,
                      !.openFee = Plus(@, Frac(f.fee))]
       ELSE IF rest > 0
       THEN [qty |-> f.dir * rest, entry |-> Frac(f.price), openQty |-> rest,
             openFee |-> Over(Frac(f.fee * rest), f.qty), trips |-> Append(s.trips, Trip(s, f))]
       ELSE [s EXCEPT !.qty = @ + f.dir * f.qty,
                      !.entry = IF s.qty + f.dir * f.qty = 0 THEN Frac(0) ELSE @,
                      !.openQty = @ - Closing(s, f),
                      !.trips = Append(@, Trip(s, f))]

Trips(fills) == FoldLeft(TripStep, NoTrips, fills).trips

Total(S, of(_)) == FoldLeft(LAMBDA t, x : Plus(t, of(x)), Frac(0), S)
=============================================================================
