----------------------------- MODULE GridRules -----------------------------
(***************************************************************************)
(* What both generations of the martingale grid compute from one context   *)
(* snapshot, and the pure rules of the second one: the profit of a set of  *)
(* lots, the exit chain, the pending discipline, the score-driven sizing,  *)
(* the sticky direction of the market brain and the extreme-market fuse.   *)
(*                                                                         *)
(* Prices are small integers.  A ratio of the notional is a price distance *)
(* per unit of quantity (every entry is close to the price), so PctScale   *)
(* makes the division by the total quantity exact.  A score of the brain   *)
(* is a class between -4 and 4; the thresholds are classes too.            *)
(***************************************************************************)
EXTENDS Integers, FiniteSets, FiniteSetsExt

CONSTANTS
    BaseQty, LotMultiplier, MaxLayers,     \* params of a layer
    Step, FirstStep,                       \* gridStep and the first distance
    BasketStart, BasketGiveback,           \* trailing take profit, as distances
    BasketStopLoss, BasketTakeProfit,      \* fixed exits, 0 switches them off
    Cooldown,                              \* bars without a first layer after a stop
    EntryFee, ExitFee,                     \* per unit of quantity
    PctScale,                              \* a multiple of every total quantity
    FirstTrailBars, SideTarget, PivotLoss, \* params of the second generation
    PairMaxShare, RebalanceRatio, TrailStep, TriggerFloor,
    TrendRange, TrendConfirm, TrendDirEnter, TrendDirExit

Dirs == {"LONG", "SHORT"}
Opposite(d) == IF d = "LONG" THEN "SHORT" ELSE "LONG"

\* A price that lies n beyond price in the direction of d.
Ahead(d, price, n) == IF d = "LONG" THEN price + n ELSE price - n

\* price is at least n worse for a lot of direction d than ref.
Adverse(d, price, ref, n) == IF d = "LONG" THEN price <= ref - n ELSE price >= ref + n

Of(lots, d) == {l \in lots : l.dir = d}
Qty(lots) == MapThenSumSet(LAMBDA l : l.qty, lots)

\* StrategyLotView.unrealizedPnl has paid the entry fee already.
Unrealized(l, price) ==
    (IF l.dir = "LONG" THEN price - l.entry ELSE l.entry - price) * l.qty - EntryFee * l.qty
LotNet(l, price) == Unrealized(l, price) - ExitFee * l.qty
NetUsdt(lots, price) == MapThenSumSet(LAMBDA l : LotNet(l, price), lots)
NetPct(lots, price) == (PctScale * NetUsdt(lots, price)) \div Qty(lots)

LayerQty(layers) == BaseQty * LotMultiplier ^ layers
Worst(lots, d) == IF d = "LONG" THEN Min({l.entry : l \in lots}) ELSE Max({l.entry : l \in lots})

-----------------------------------------------------------------------------
(* The brain: adaptive smoothing and the sticky direction. *)

AbsOf(n) == IF n < 0 THEN -n ELSE n
SignOf(n) == IF n > 0 THEN 1 ELSE IF n < 0 THEN -1 ELSE 0

\* The smoothing moves the score part of the way to its target.
Smoothed(score, target, Scores) ==
    {x \in Scores : Min({score, target}) <= x /\ x <= Max({score, target})}

StickyDir(dir, score, choppy) ==
    CASE choppy                                                      -> 0
      [] ~choppy /\ dir = 0                                          ->
            IF AbsOf(score) >= TrendDirEnter THEN SignOf(score) ELSE 0
      [] ~choppy /\ dir # 0 /\ SignOf(score) = -dir
                 /\ AbsOf(score) >= TrendDirEnter                      -> SignOf(score)
      [] OTHER -> IF AbsOf(score) <= TrendDirExit THEN 0 ELSE dir

-----------------------------------------------------------------------------
(* Score-driven sizing.  A ratio is rounded to one price unit. *)

WithTrend(score, d) == (score > 0) <=> (d = "LONG")

DirectionalStep(score, d) ==
    CASE AbsOf(score) <= TrendRange                             -> Step
      [] AbsOf(score) > TrendRange /\ AbsOf(score) < TrendConfirm -> Step + 1
      [] OTHER -> IF WithTrend(score, d) THEN Max({1, Step - 1}) ELSE Step + 1

ScoreLotMultiplier(score) == IF AbsOf(score) <= TrendRange THEN LotMultiplier ELSE 1
BasketStartNow(score) == IF AbsOf(score) <= TrendRange THEN BasketStart ELSE BasketStart + 1
SideTargetNow(score, d) ==
    CASE AbsOf(score) <= TrendRange                     -> SideTarget
      [] AbsOf(score) > TrendRange /\ WithTrend(score, d) -> SideTarget + 1
      [] OTHER                                         -> Max({1, SideTarget - 1})

-----------------------------------------------------------------------------
(* The exit chain. *)

ScoreDomain(score, dir) ==
    IF AbsOf(score) <= TrendRange THEN "range" ELSE IF dir = 0 THEN "neutral" ELSE "trend"

\* Per cent of the risk side that the protected side must keep.
ProtectionMinRatio(score) == IF AbsOf(score) < TrendConfirm THEN 0 ELSE 55

\* The price fell back n from its best, seen from a position of that sign.
Retraced(sign, peak, price, n) == IF sign > 0 THEN price <= peak - n ELSE price >= peak + n
Better(sign, peak, price) == IF sign > 0 THEN Max({peak, price}) ELSE Min({peak, price})

AdverseDist(l, price) == Max({0, IF l.dir = "LONG" THEN l.entry - price ELSE price - l.entry})

\* guarded: the profit side is the trend side, which may not be sold out.
MayPair(p, r, price, protect, risk, guarded, score) ==
    /\ LotNet(r, price) < 0 /\ LotNet(p, price) > 0
    /\ LotNet(p, price) + LotNet(r, price) >= 1
    /\ guarded =>
         /\ 100 * p.qty <= PairMaxShare * Qty(protect)
         /\ LET left == Qty(risk) - r.qty
            IN left > 0 => 100 * (Qty(protect) - p.qty) >= left * ProtectionMinRatio(score)

\* Deepest loss first, then the larger loss, the closer size, the better net.
PairKey(pr, price) ==
    <<AdverseDist(pr.risk, price), -LotNet(pr.risk, price),
      -AbsOf(pr.profit.qty - pr.risk.qty), LotNet(pr.profit, price)>>
Precedes(a, b) ==
    \E i \in 1..4 : a[i] > b[i] /\ \A j \in 1..(i - 1) : a[j] = b[j]

ReductionPairs(profits, risks, price, guarded, score) ==
    LET pairs == {pr \in [profit : profits, risk : risks] :
                    MayPair(pr.profit, pr.risk, price, profits, risks, guarded, score)}
    IN {pr \in pairs : \A q \in pairs : ~Precedes(PairKey(q, price), PairKey(pr, price))}

-----------------------------------------------------------------------------
(* The pending discipline. *)

Prices(lots, orders) == {l.entry : l \in lots} \cup {o.stop : o \in orders}

RebalanceEligible(ours, theirs) ==
    /\ Qty(ours) > 0
    /\ Qty(theirs) > RebalanceRatio * Qty(ours)
    /\ Qty(theirs) - Qty(ours) > 2 * BaseQty

\* canAddLayer: two steps against the worst lot and one beyond every price of
\* the side, or an imbalance that lets the side break out of its own range.
CanAddLayer(d, price, step, lots, orders, rebalance) ==
    LET any  == Prices(lots, orders)
        near == IF d = "LONG" THEN Min(any) ELSE Max(any)
        far  == IF d = "LONG" THEN Max(any) ELSE Min(any)
    IN CASE lots = {} -> "first"
         [] lots # {} /\ Adverse(d, price, Worst(lots, d), 2 * step)
                      /\ Adverse(d, price, near, step) -> "regression"
         [] lots # {} /\ rebalance /\ ~Adverse(d, price, far, 1) -> "rebalance"
         [] OTHER -> "no"

ShouldTrail(d, pending, target) ==
    IF d = "LONG" THEN pending - target >= TrailStep ELSE target - pending >= TrailStep

ApplyTriggerFloor(d, stop, price) ==
    IF d = "LONG" THEN Max({stop, price + TriggerFloor}) ELSE Min({stop, price - TriggerFloor})

MarginPrecheck(funds, notional) == notional > 0 /\ funds > notional

-----------------------------------------------------------------------------
(* The extreme-market fuse: what one candle window says. *)

BlocksSide(g, d) ==
    \/ g.spike
    \/ g.body = Opposite(d)         \* a large body against the side
    \/ g.thin = d                   \* too little volume in its direction
=============================================================================
