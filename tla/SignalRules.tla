----------------------------- MODULE SignalRules -----------------------------
(***************************************************************************)
(* The three signal strategies (donchian-breakout, trend-following and     *)
(* mean-reversion): when an empty instance enters, what size it takes, and  *)
(* when a tick closes a lot.  A context c carries what the candles say:     *)
(* the entry channel or band [low, mid, up], the exit channel [xlow, xup],  *)
(* the direction of the averages, the range of the market.  Prices are      *)
(* levels above Base, times are counted in bars.                           *)
(*                                                                         *)
(* mem is what the strategy object keeps, for all its instances together:   *)
(*   closedAt   when it last closed a lot                                  *)
(*   since      lot -> when it was opened (entryTimes)                     *)
(*   stops      lot -> its trailing stop (chandelierStops)                 *)
(*   refs       lot -> the band it was opened at (entryRefs)               *)
(***************************************************************************)
EXTENDS Integers, FiniteSets, FiniteSetsExt, Functions, TLC

CONSTANTS
    ChandelierK, MaxHold, Cooldown,        \* params of the strategies
    TakeProfit, StopLoss,                  \* fixed exits of the trend strategy
    StopAtrMult,                           \* hard stop of the mean reversion
    RiskPct, SizingAtr, MaxLeverage,       \* sizing
    Base,                                  \* the price that level 0 stands for
    QtyUnit                                \* units of quantity in one coin

Dirs == {"LONG", "SHORT"}
Kinds == {"donchian", "trend", "reversion"}

Forget == [closedAt |-> -99, since |-> <<>>, stops |-> <<>>, refs |-> <<>>]

\* The better of two stops for a position of direction d.
Tighter(d, a, b) == IF d = "LONG" THEN Max({a, b}) ELSE Min({a, b})
Reached(d, price, stop) == IF d = "LONG" THEN price <= stop ELSE price >= stop
Distance(d, from, price) == IF d = "LONG" THEN price - from ELSE from - price

-----------------------------------------------------------------------------
(* Sizing: a move of SizingAtr average ranges costs RiskPct of the equity. *)

\* computeRiskScaledQty.
CeilDiv(a, b) == (a + b - 1) \div b
RiskSized(c) ==
    LET byRisk == (QtyUnit * c.equity * RiskPct) \div (100 * SizingAtr * c.atr)
        cap    == (QtyUnit * c.equity * MaxLeverage) \div (Base + c.price)
        qty    == Min({byRisk, cap})
    IN IF c.equity <= 0 \/ c.atr <= 0 THEN [qty |-> 0, leverage |-> 0]
       ELSE [qty |-> qty,
             leverage |-> Max({1, Min({MaxLeverage, CeilDiv(qty * (Base + c.price), QtyUnit * c.equity)})})]

-----------------------------------------------------------------------------
(* Entering. *)

\* The direction a signal asks for.
Signal(kind, c) ==
    CASE kind = "donchian"  -> IF c.price > c.up THEN {"LONG"}
                               ELSE IF c.price < c.low THEN {"SHORT"} ELSE {}
      [] kind = "trend"     -> IF c.ranging THEN {} ELSE {c.average}
      [] kind = "reversion" -> IF c.ranging /\ c.price < c.low /\ c.rsi = "low" THEN {"LONG"}
                               ELSE IF c.ranging /\ c.price > c.up /\ c.rsi = "high" THEN {"SHORT"} ELSE {}

Cooled(c, mem) == c.now - mem.closedAt >= Cooldown

Entries(kind, c, mem) ==
    IF c.lots = {} /\ Cooled(c, mem) /\ c.atr > 0 /\ RiskSized(c).qty > 0 THEN Signal(kind, c) ELSE {}

Trail(d, c) == IF d = "LONG" THEN c.price - ChandelierK * c.atr ELSE c.price + ChandelierK * c.atr
Band(c) == [low |-> c.low, mid |-> c.mid, up |-> c.up]

\* What the strategy remembers of a lot whose id the answer named.
Entered(kind, c, mem, id, d) ==
    [mem EXCEPT !.since = (id :> c.now) @@ @,
                !.stops = IF kind = "reversion" THEN @ ELSE (id :> Trail(d, c)) @@ @,
                !.refs  = IF kind = "reversion" THEN (id :> Band(c)) @@ @ ELSE @]

-----------------------------------------------------------------------------
(* Looking at a lot that is held. *)

\* Mutant: a lot not known yet counts as opened now.
SinceNow(c, mem, l) ==
    IF l.id \in DOMAIN mem.since THEN mem ELSE [mem EXCEPT !.since = (l.id :> c.now) @@ @]
SinceKnown(c, mem, l) ==
    IF l.id \in DOMAIN mem.since THEN mem ELSE [mem EXCEPT !.since = (l.id :> l.opened) @@ @]

\* A lot without a band gets the band of the moment; when the price has passed
\* its middle already, the middle is put one range beyond the entry.
Middle(c, l) ==
    IF Distance(l.dir, c.mid, c.price) < 0 THEN c.mid
    ELSE IF l.dir = "LONG" THEN Max({c.mid, l.entry + c.atr}) ELSE Min({c.mid, l.entry - c.atr})
RefsKnown(c, mem, l) ==
    IF l.id \in DOMAIN mem.refs THEN mem
    ELSE [mem EXCEPT !.refs = (l.id :> [Band(c) EXCEPT !.mid = Middle(c, l)]) @@ @]

\* Mutant: the stop follows the price both ways.
TrailedBothWays(c, mem, l) == [mem EXCEPT !.stops = (l.id :> Trail(l.dir, c)) @@ @]
Trailed(c, mem, l) ==
    [mem EXCEPT !.stops =
        (l.id :> IF l.id \in DOMAIN mem.stops THEN Tighter(l.dir, mem.stops[l.id], Trail(l.dir, c))
                 ELSE Trail(l.dir, c)) @@ @]

Aged(c, mem, l) == c.now - mem.since[l.id] >= MaxHold

\* The reverse channel is looked at before the stop moves.
Broken(c, l) == IF l.dir = "LONG" THEN c.price < c.xlow ELSE c.price > c.xup

ByTrailing(c, mem, l) ==
    CASE Reached(l.dir, c.price, mem.stops[l.id])                               -> "STOP_LOSS"
      [] ~Reached(l.dir, c.price, mem.stops[l.id]) /\ Aged(c, mem, l)             -> "SIGNAL"
      [] OTHER                                                                  -> "none"

ByFixed(c, l) ==
    CASE Distance(l.dir, l.entry, c.price) >= TakeProfit                          -> "TAKE_PROFIT"
      [] Distance(l.dir, l.entry, c.price) <= -StopLoss                           -> "STOP_LOSS"
      [] OTHER                                                                  -> "none"

ByBand(c, mem, l) ==
    LET r   == mem.refs[l.id]
        bar == IF l.dir = "LONG" THEN r.low ELSE r.up
    IN CASE Distance(l.dir, r.mid, c.price) >= 0                                -> "TAKE_PROFIT"
         [] Distance(l.dir, r.mid, c.price) < 0
            /\ Distance(l.dir, bar, c.price) < -StopAtrMult * c.atr             -> "STOP_LOSS"
         [] OTHER -> IF Aged(c, mem, l) THEN "SIGNAL" ELSE "none"

\* decideExit: what is remembered, and the reason to close.
Look(kind, c, mem, l) ==
    LET known == SinceKnown(c, mem, l)
        moved == Trailed(c, known, l)
        band  == RefsKnown(c, known, l)
    IN CASE kind = "donchian" /\ Broken(c, l) -> [mem |-> known, exit |-> "SIGNAL"]
         [] kind = "donchian" /\ ~Broken(c, l) -> [mem |-> moved, exit |-> ByTrailing(c, moved, l)]
         [] kind = "trend" -> [mem |-> moved,
                               exit |-> IF ByTrailing(c, moved, l) # "none"
                                        THEN ByTrailing(c, moved, l) ELSE ByFixed(c, l)]
         [] kind = "reversion" -> [mem |-> band, exit |-> ByBand(c, band, l)]

\* An accepted close starts the pause and forgets the lot.
Closed(c, mem, id) ==
    [closedAt |-> c.now,
     since |-> Restrict(mem.since, DOMAIN mem.since \ {id}),
     stops |-> Restrict(mem.stops, DOMAIN mem.stops \ {id}),
     refs  |-> Restrict(mem.refs, DOMAIN mem.refs \ {id})]
=============================================================================
