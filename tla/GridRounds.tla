----------------------------- MODULE GridRounds -----------------------------
(***************************************************************************)
(* One instance of a martingale grid against its account.  The runner reads *)
(* a context (Observe), the strategy decides on it and its calls take       *)
(* effect later (Act): in between the exchange may fill a stop order, book  *)
(* a market order or settle a close.  The price moves between ticks.        *)
(***************************************************************************)
EXTENDS GridV2

CONSTANTS
    Modes,          \* [version, sw, filter, firstMarket, top]: top, the highest price, a bound
    Weather,        \* what the candles and the account say, apart from the price
    Scores,         \* the scores the brain may hold
    Others,         \* the position of the other instances on the symbol
    Jump, MaxBars,
    LateBooking,    \* a market order may be booked after its bar has closed
    Outside         \* the modes in which somebody else may close lots

\* What normalizeParams clamps the parameters to.
NormalParams ==
    /\ BaseQty \in Nat \ {0} /\ LotMultiplier \in 1..3 /\ MaxLayers \in 1..12
    /\ Step \in Nat \ {0} /\ FirstStep \in Nat /\ Cooldown \in Nat
    /\ {BasketStart, BasketGiveback, BasketStopLoss, BasketTakeProfit, PivotLoss} \subseteq Nat
    /\ FirstTrailBars \in 1..24 /\ RebalanceRatio \in 1..20 /\ PairMaxShare \in 0..100
    /\ {TrendRange, TrendConfirm, TrendDirEnter, TrendDirExit, TrailStep, TriggerFloor} \subseteq Nat

\* The first generation has no switches.
KnownModes ==
    \A m \in Modes : /\ m.version \in {"v1", "v2"} /\ (m.version = "v1" => m.sw = {})
                     /\ m.firstMarket \in BOOLEAN /\ m.top \in Nat \ {0}

ASSUME GridAssumption ==
    NormalParams /\ KnownModes /\ MaxBars \in Nat /\ LateBooking \in BOOLEAN /\ Outside \subseteq Modes

VARIABLES
    mode,       \* the strategy and its switches, fixed by the configuration
    price, bar,
    lots,       \* the lots of the instance, with the close order each waits for
    orders,     \* its stop orders at the exchange
    flight,     \* market orders sent and not booked yet
    st,         \* what the strategy object keeps for the instance
    ctx,        \* the context of the tick under way, <<>> between ticks
    quit        \* the last exit every lot accepted while no market order was under
                \* way, until a close of it fails

vars == <<mode, price, bar, lots, orders, flight, st, ctx, quit>>

Fresh == [peak |-> 0, lock |-> 0, stopped |-> -9, armed |-> FALSE, first |-> FALSE,
          firstSide |-> "none", firstPeak |-> 0, trail |-> FALSE, trailPeak |-> 0,
          score |-> 0, dir |-> 0, seen |-> 0]
NoQuit == [bar |-> -9, why |-> "none"]

\* Odd numbers on the long side, even ones on the short side: the least that is free.
IdOf(n, d) == IF d = "LONG" THEN 2 * n - 1 ELSE 2 * n
FreeId(S, d) == IdOf(Min({n \in 1..(Cardinality(S) + 1) : IdOf(n, d) \notin Ids(S)}), d)
Signed(S) == MapThenSumSet(LAMBDA l : Sign(l.dir) * l.qty, S)

Init ==
    /\ mode \in Modes
    /\ price = (mode.top + 1) \div 2 /\ bar = 1
    /\ lots = {} /\ orders = {} /\ flight = {}
    /\ st = Fresh /\ ctx = <<>> /\ quit = NoQuit

-----------------------------------------------------------------------------
(* A tick. *)

View(l) == [id |-> l.id, dir |-> l.dir, entry |-> l.entry, qty |-> l.qty,
            opened |-> l.opened, busy |-> l.state # "open"]

Context(w) ==
    [lots |-> {View(l) : l \in lots}, orders |-> orders, price |-> price, bar |-> bar,
     sw |-> mode.sw, filter |-> mode.filter, firstMarket |-> mode.firstMarket,
     scores |-> Scores, netQty |-> Signed(lots) + Others, trend |-> w.trend,
     target |-> w.target, choppy |-> w.choppy, mom |-> w.mom, funds |-> w.funds,
     funding |-> w.funding, extreme |-> w.extreme]

\* buildContext: one snapshot of lots, orders, candles and account.
Observe ==
    /\ ctx = <<>>
    /\ ctx' \in {Context(w) : w \in Weather}
    /\ UNCHANGED <<mode, price, bar, lots, orders, flight, st, quit>>

Outcomes == IF mode.version = "v1" THEN OnTickV1(ctx, st) ELSE OnTickV2(ctx, st)

Placed(S, new) ==
    S \cup {[id |-> FreeId(S, p.dir), dir |-> p.dir, stop |-> p.stop, qty |-> p.qty] : p \in new}

Answered(l, o) ==
    CASE l.id \in o.close  -> [l EXCEPT !.state = "closing"]
      [] l.id \in o.failed -> [l EXCEPT !.state = "refused"]
      [] OTHER             -> l

\* closeLot refuses a lot that is no longer open.
Act ==
    /\ ctx # <<>>
    /\ \E o \in Outcomes :
        /\ \A id \in o.close : \E l \in lots : l.id = id /\ l.state = "open"
        /\ st' = o.st
        /\ lots' = {Answered(l, o) : l \in lots}
        /\ orders' = Placed({q \in orders : q.id \notin o.cancel}, o.place)
        /\ flight' = flight \cup {[id |-> FreeId(flight, f.dir), dir |-> f.dir, qty |-> f.qty] : f \in o.open}
        /\ quit' = IF /\ o.close # {} /\ o.failed = {}
                      /\ flight' = {} /\ \A l \in lots' : l.state = "closing"
                   THEN [bar |-> bar, why |-> o.reason] ELSE quit
    /\ ctx' = <<>>
    /\ UNCHANGED <<mode, price, bar>>

-----------------------------------------------------------------------------
(* The market, the exchange and the rest of the platform. *)

Move ==
    /\ ctx = <<>>
    /\ price' \in {p \in 1..mode.top : p # price /\ AbsOf(p - price) <= Jump}
    /\ UNCHANGED <<mode, bar, lots, orders, flight, st, ctx, quit>>

NewBar ==
    /\ ctx = <<>> /\ bar < MaxBars
    /\ LateBooking \/ flight = {}
    /\ bar' = bar + 1
    /\ UNCHANGED <<mode, price, lots, orders, flight, st, ctx, quit>>

Entered(d, entry, qty) ==
    lots \cup {[id |-> FreeId(lots, d), dir |-> d, entry |-> entry, qty |-> qty, opened |-> bar,
                state |-> "open"]}

Trigger(o) ==
    /\ IF o.dir = "LONG" THEN price >= o.stop ELSE price <= o.stop
    /\ orders' = orders \ {o}
    /\ lots' = Entered(o.dir, o.stop, o.qty)
    /\ UNCHANGED <<mode, price, bar, flight, st, ctx, quit>>

Book(f) ==
    /\ flight' = flight \ {f}
    /\ lots' = Entered(f.dir, price, f.qty)
    /\ UNCHANGED <<mode, price, bar, orders, st, ctx, quit>>

\* A close fills, or ends without a fill and is retried after its back-off.
Settle(l) ==
    /\ l.state = "closing"
    /\ \/ lots' = lots \ {l} /\ UNCHANGED quit
       \/ lots' = (lots \ {l}) \cup {[l EXCEPT !.state = "refused"]} /\ quit' = NoQuit
    /\ UNCHANGED <<mode, price, bar, orders, flight, st, ctx>>

BackoffEnds(l) ==
    /\ l.state = "refused"
    /\ lots' = (lots \ {l}) \cup {[l EXCEPT !.state = "open"]}
    /\ UNCHANGED <<mode, price, bar, orders, flight, st, ctx, quit>>

\* A protective stop or the operator closes the lot.
ClosedOutside(l) ==
    /\ mode \in Outside
    /\ lots' = lots \ {l}
    /\ UNCHANGED <<mode, price, bar, orders, flight, st, ctx, quit>>

Next ==
    \/ Observe \/ Act \/ Move \/ NewBar
    \/ \E o \in orders : Trigger(o)
    \/ \E f \in flight : Book(f)
    \/ \E l \in lots : Settle(l) \/ BackoffEnds(l) \/ ClosedOutside(l)

Spec == Init /\ [][Next]_vars

-----------------------------------------------------------------------------
(* Properties. *)

PerSide(d) == Cardinality(Of(lots, d)) + Cardinality(Of(orders, d)) + Cardinality(Of(flight, d))

\* With every switch off the second generation does, in every context it can be
\* in, exactly what the first one does: the same calls and the same memory of
\* the peak, the bar lock and the last stop.
Visible(o) == [o EXCEPT !.st = [peak |-> o.st.peak, lock |-> o.st.lock, stopped |-> o.st.stopped]]
OffIsV1 ==
    ctx # <<>> /\ mode.version = "v2" /\ mode.sw = {} =>
        {Visible(o) : o \in OnTickV2(ctx, st)} = {Visible(o) : o \in OnTickV1(ctx, st)}

\* A side never holds more layers than its cap: lots, stop orders that would
\* become lots and market orders still to be booked.  A context does not show
\* the latter, so a first layer at the market may exceed the cap by one.
LayersWithinCap ==
    \A d \in Dirs : PerSide(d) <= MaxLayers + (IF mode.firstMarket THEN 1 ELSE 0)

\* A tick that opens or places something.
Adds == orders' \ orders # {} \/ flight' \ flight # {}
\* Without the exit chain a tick that finds no exit reason while lots still close goes on to
\* place layers, and one that outlives the lots passes by the cooldown.
Orphaned(c) == "chain" \notin c.sw /\ c.orders # {}
\* After a stop loss that every lot accepted, with no market order still to be booked, no
\* first layer is opened or placed for Cooldown bars, while the closes settle one by one and
\* however often ticks decide in between, unless an orphaned layer is left at the exchange.
Cooled ==
    [][ctx # <<>> /\ ctx' = <<>> /\ quit.why = "STOP_LOSS" /\ bar - quit.bar < Cooldown
       /\ ctx.lots = {} /\ ~Orphaned(ctx) => ~Adds]_vars
=============================================================================
