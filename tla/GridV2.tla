------------------------------- MODULE GridV2 -------------------------------
(***************************************************************************)
(* One tick of the second martingale grid (martingale-grid-v2.strategy.ts): *)
(* the tick of the first one with a market brain, an exit chain, a pending  *)
(* discipline and an extreme-market fuse, each behind a switch of c.sw.     *)
(* Outcomes are those of GridV1.                                           *)
(***************************************************************************)
EXTENDS GridV1

On(c, switch) == switch \in c.sw
NeedsBrain(c) == c.sw \cap {"brain", "sizing", "chain", "pivot"} # {}

\* One score per closed bar; the same bar is not fed to the brain twice.
RefreshRegime(c, s) ==
    IF ~NeedsBrain(c) \/ s.seen = c.bar THEN {s}
    ELSE {[s EXCEPT !.score = x, !.dir = StickyDir(s.dir, x, c.choppy), !.seen = c.bar]
          : x \in Smoothed(s.score, c.target, c.scores)}

NewBasket(c, s) ==
    IF c.lots # {} THEN s
    ELSE [s EXCEPT !.peak = 0, !.armed = FALSE, !.first = FALSE, !.firstPeak = 0,
                   !.firstSide = "none", !.trail = FALSE, !.trailPeak = 0]

StepFor(c, s, d) == IF On(c, "sizing") THEN DirectionalStep(s.score, d) ELSE Step
StartNow(c, s) == IF On(c, "sizing") THEN BasketStartNow(s.score) ELSE BasketStart

\* The chain took the tick: the orders K were withdrawn, the lots X were told
\* to close, the lots F among them refused.
Took(s, K, X, F, why) == [Quiet(s) EXCEPT !.cancel = K, !.close = X \ F, !.failed = F, !.reason = why]

-----------------------------------------------------------------------------
(* 1. The trail of a lone first lot, armed in its first bars. *)

Lone(c) == CHOOSE l \in c.lots : TRUE
LoneSeen(c, s) ==
    IF s.first /\ s.firstSide # Lone(c).dir
    THEN [s EXCEPT !.first = FALSE, !.firstPeak = 0, !.firstSide = Lone(c).dir]
    ELSE [s EXCEPT !.firstSide = Lone(c).dir]
LoneArms(c, s) ==
    /\ ~s.first
    /\ c.bar - Lone(c).opened <= FirstTrailBars
    /\ NetUsdt(c.lots, c.price) >= StepFor(c, s, Lone(c).dir) * Lone(c).qty
Sign(d) == IF d = "LONG" THEN 1 ELSE -1

\* The withdrawals around the trails are not checked: any of them may fail.
FirstTrail(c, s) ==
    LET l    == Lone(c)
        best == IF s.first THEN Better(Sign(l.dir), s.firstPeak, c.price) ELSE c.price
        gone == s.first /\ Retraced(Sign(l.dir), best, c.price, StepFor(c, s, l.dir))
        kept == [s EXCEPT !.first = ~gone, !.firstPeak = IF gone THEN 0 ELSE best]
    IN {Took(kept, K, IF gone THEN {l.id} ELSE {}, F, IF gone THEN "TAKE_PROFIT" ELSE "none")
        : K \in SUBSET Ids(c.orders), F \in SUBSET (IF gone THEN {l.id} ELSE {})}

-----------------------------------------------------------------------------
(* 2. The trail of the armed basket, which holds the tick to itself.  Its    *)
(* direction is the sign of the net position of the account.                *)

BasketTrail(c, s) ==
    LET sign == IF c.netQty >= 0 THEN 1 ELSE -1
        best == Better(sign, s.trailPeak, c.price)
        gone == Retraced(sign, best, c.price, BasketGiveback)
        X    == IF gone THEN Ids(c.lots) ELSE {}
        t    == IF gone THEN [s EXCEPT !.trail = FALSE, !.trailPeak = 0, !.peak = 0]
                        ELSE [s EXCEPT !.trailPeak = best]
    IN {Took(t, K, X, F, IF gone THEN "TAKE_PROFIT" ELSE "none")
        : K \in SUBSET Ids(c.orders), F \in SUBSET X}

-----------------------------------------------------------------------------
(* 3. The targets of the sides, by the domain of the score. *)

Hit(c, s, d) ==
    /\ Of(c.lots, d) # {}
    /\ NetUsdt(Of(c.lots, d), c.price) >= SideTargetNow(s.score, d) * Qty(Of(c.lots, d))

CloseSideExit(c, s, d) ==
    LET mine == Ids(Pending(c, d))
        done == [s EXCEPT !.peak = 0, !.armed = FALSE, !.trail = FALSE, !.trailPeak = 0]
    IN {Took(s, K, {}, {}, "none") : K \in CutShort(mine)}
       \cup {Took(done, mine, Ids(Of(c.lots, d)), F, "TAKE_PROFIT") : F \in SUBSET Ids(Of(c.lots, d))}

PairsOf(c, s, d, guarded) ==
    ReductionPairs(Of(c.lots, d), Of(c.lots, Opposite(d)), c.price, guarded, s.score)

PairReduction(c, s, pairs) ==
    {Took(s, K, {}, {}, "none") : K \in CutShort(Ids(c.orders))}
    \cup UNION {{Took([s EXCEPT !.peak = 0, !.armed = FALSE], Ids(c.orders), pick, F, "SIGNAL")
                 : F \in SUBSET pick} : pick \in {{pr.profit.id, pr.risk.id} : pr \in pairs}}

TrendSide(s) == IF s.score > 0 THEN "LONG" ELSE "SHORT"
\* The side that ran its target, the long side first.
HitSide(c, s) == IF Hit(c, s, "LONG") THEN "LONG" ELSE "SHORT"
AnyHit(c, s) == Hit(c, s, "LONG") \/ Hit(c, s, "SHORT")
Alone(c, d) == Of(c.lots, Opposite(d)) = {}

\* What the chain does for the sides; {} when it leaves them alone.
SideTargets(c, s) ==
    LET domain == ScoreDomain(s.score, s.dir)
        with   == TrendSide(s)
        d      == HitSide(c, s)
    IN CASE domain = "range" /\ AnyHit(c, s)                 -> CloseSideExit(c, s, d)
         [] domain = "neutral" /\ AnyHit(c, s) /\ Alone(c, d) -> CloseSideExit(c, s, d)
         [] domain = "neutral" /\ AnyHit(c, s) /\ ~Alone(c, d)
            /\ PairsOf(c, s, d, FALSE) # {}    -> PairReduction(c, s, PairsOf(c, s, d, FALSE))
         [] domain = "trend" /\ Hit(c, s, Opposite(with))
                                               -> CloseSideExit(c, s, Opposite(with))
         [] domain = "trend" /\ ~Hit(c, s, Opposite(with)) /\ Hit(c, s, with) /\ Alone(c, with)
                                               -> CloseSideExit(c, s, with)
         [] domain = "trend" /\ ~Hit(c, s, Opposite(with)) /\ Hit(c, s, with) /\ ~Alone(c, with)
            /\ PairsOf(c, s, with, TRUE) # {}  -> PairReduction(c, s, PairsOf(c, s, with, TRUE))
         [] OTHER -> {}

-----------------------------------------------------------------------------
(* 4. Arming the basket. *)

Arms(c, s) ==
    /\ StartNow(c, s) > 0
    /\ NetUsdt(c.lots, c.price) >= Qty(c.lots) * StartNow(c, s) + Step * AbsOf(c.netQty)
ArmBasket(c, s) ==
    {Took([s EXCEPT !.trail = TRUE, !.armed = TRUE, !.trailPeak = c.price], K, {}, {}, "none")
     : K \in SUBSET Ids(c.orders)}

\* {} when the chain leaves the tick to the fixed exits of the basket.
RunExitChain(c, s) ==
    LET alone == Cardinality(c.lots) = 1
        t     == IF alone THEN LoneSeen(c, s)
                 ELSE [s EXCEPT !.first = FALSE, !.firstPeak = IF s.first THEN 0 ELSE @]
    IN CASE Waiting(c)                                                -> {Quiet(s)}
         [] ~Waiting(c) /\ alone /\ (t.first \/ LoneArms(c, t)) -> FirstTrail(c, t)
         [] ~Waiting(c) /\ ~(alone /\ (t.first \/ LoneArms(c, t)))
            /\ t.trail                                                -> BasketTrail(c, t)
         [] OTHER -> IF SideTargets(c, t) # {} THEN SideTargets(c, t)
                     ELSE IF Arms(c, t) THEN ArmBasket(c, t) ELSE {}

\* What the chain leaves in the state when it does not take the tick.
AfterChain(c, s) ==
    IF Cardinality(c.lots) = 1 THEN LoneSeen(c, s)
    ELSE [s EXCEPT !.first = FALSE, !.firstPeak = IF s.first THEN 0 ELSE @]

-----------------------------------------------------------------------------
(* The fixed exits, the outermost guard; the trail is the chain's when it is on. *)

Armed(c, s) == [s EXCEPT !.armed = StartNow(c, s) > 0 /\ s.peak >= PctScale * StartNow(c, s)]

ByTrailV2(c, s) ==
    LET pct == NetPct(c.lots, c.price)
    IN /\ ~On(c, "chain")
       /\ StartNow(c, s) > 0 /\ pct > 0
       /\ s.peak >= PctScale * StartNow(c, s)
       /\ s.peak - pct >= PctScale * BasketGiveback

ExitReasonV2(c, s) ==
    LET net  == NetUsdt(c.lots, c.price)
        lost == BasketStopLoss > 0 /\ net <= -BasketStopLoss * Qty(c.lots)
    IN CASE lost                                                     -> "STOP_LOSS"
         [] ~lost /\ (\/ BasketTakeProfit > 0 /\ net >= BasketTakeProfit
                      \/ ByTrailV2(c, s))                            -> "TAKE_PROFIT"
         [] OTHER                                                    -> "none"

-----------------------------------------------------------------------------
(* The sides and the layers. *)

\* A deep loss against a moving market opens the other side too.
PivotAlarm(c) ==
    /\ On(c, "pivot")
    /\ (Of(c.lots, "LONG") = {}) # (Of(c.lots, "SHORT") = {})
    /\ MapThenSumSet(LAMBDA l : Unrealized(l, c.price), c.lots) < -PivotLoss
    /\ c.mom = (IF Of(c.lots, "LONG") # {} THEN -1 ELSE 1)

ResolveSidesV2(c, s) ==
    CASE ~c.filter \/ PivotAlarm(c)                                  -> Dirs
      [] c.filter /\ ~PivotAlarm(c) /\ c.lots = {} /\ On(c, "brain")  ->
            IF (IF s.dir # 0 THEN s.dir ELSE SignOf(s.score)) >= 0 THEN {"LONG"} ELSE {"SHORT"}
      [] OTHER                                                       -> ResolveSides(c)

DisciplineTarget(c, s, d, orders) ==
    LET step == StepFor(c, s, d)
        via  == CanAddLayer(d, c.price, step, Of(c.lots, d), orders,
                            RebalanceEligible(Of(c.lots, d), Of(c.lots, Opposite(d))))
        far  == IF via = "first" THEN Max({step, FirstStep}) ELSE step
    IN IF via = "no" THEN {} ELSE {ApplyTriggerFloor(d, Ahead(d, c.price, far), c.price)}

\* Swap the pending order for one nearer the price, of the same size.
TrailSwap(c, s, d) ==
    LET old  == CHOOSE o \in Pending(c, d) : \A q \in Pending(c, d) : o.id <= q.id
        goal == DisciplineTarget(c, s, d, Pending(c, d))
        go   == {x \in goal : ShouldTrail(d, old.stop, x) /\ MarginPrecheck(c.funds, old.qty)}
    IN {Quiet(s)}
       \cup {[Quiet(s) EXCEPT !.cancel = {old.id}, !.place = P]
             : P \in UNION {{{}, {[dir |-> d, stop |-> x, qty |-> old.qty]}} : x \in go}}

FirstAtMarketV2(c, s, d) ==
    IF On(c, "discipline") /\ c.bar # s.lock /\ ~MarginPrecheck(c.funds, BaseQty)
    THEN {[Quiet([s EXCEPT !.lock = c.bar]) EXCEPT !.cancel = K] : K \in SUBSET Ids(Pending(c, d))}
    ELSE FirstAtMarket(c, s, d)

\* Mutant: the distance to the worst lot is not asked for.
StopsForAnyDistance(c, s, d) ==
    IF On(c, "discipline") THEN DisciplineTarget(c, s, d, {})
    ELSE {Ahead(d, c.price, IF Of(c.lots, d) = {} THEN Max({StepFor(c, s, d), FirstStep})
                            ELSE StepFor(c, s, d))}
StopsForV2(c, s, d) ==
    IF On(c, "discipline") THEN DisciplineTarget(c, s, d, {})
    ELSE IF Of(c.lots, d) = {} THEN {Ahead(d, c.price, Max({StepFor(c, s, d), FirstStep}))}
    ELSE IF Adverse(d, c.price, Worst(Of(c.lots, d), d), StepFor(c, s, d))
         THEN {Ahead(d, c.price, StepFor(c, s, d))} ELSE {}

NextLayerV2(c, s, d, layers) ==
    LET mult == IF On(c, "sizing") THEN ScoreLotMultiplier(s.score) ELSE LotMultiplier
        qty  == BaseQty * mult ^ layers
    IN {Quiet(s)}
       \cup {[Quiet(s) EXCEPT !.place = {[dir |-> d, stop |-> x, qty |-> qty]}]
             : x \in {y \in StopsForV2(c, s, d) :
                        y > 0 /\ (On(c, "discipline") => MarginPrecheck(c.funds, qty))}}

EnsureSideV2(c, s, d) ==
    LET lots   == Cardinality(Of(c.lots, d))
        layers == Layers(c, d)
        capped == On(c, "discipline") /\ lots >= MaxLayers
        shut   == capped \/ AtCap(c, d) \/ (On(c, "pauseAroundFunding") /\ c.funding)
    IN CASE Cooling(c, s, d)                       -> {Quiet(s)}
         [] ~Cooling(c, s, d) /\ capped            ->
                {[Quiet(s) EXCEPT !.cancel = K] : K \in SUBSET Ids(Pending(c, d))}
         [] ~Cooling(c, s, d) /\ ~capped /\ shut   -> {Quiet(s)}
         [] ~Cooling(c, s, d) /\ ~shut /\ lots = 0 /\ c.firstMarket -> FirstAtMarketV2(c, s, d)
         [] ~Cooling(c, s, d) /\ ~shut /\ ~(lots = 0 /\ c.firstMarket) /\ Pending(c, d) # {} ->
                IF On(c, "discipline") THEN TrailSwap(c, s, d) ELSE {Quiet(s)}
         [] OTHER                                  -> NextLayerV2(c, s, d, layers)

EnsureGridV2(c, s) ==
    LET blocked == IF On(c, "guard") THEN {d \in Dirs : BlocksSide(c.extreme, d)} ELSE {}
        sides   == ResolveSidesV2(c, s) \ blocked
    IN IF On(c, "guard") /\ c.extreme.spike THEN {Quiet(s)}
       ELSE UNION {{Joined(a, b) : b \in IF "SHORT" \in sides THEN EnsureSideV2(c, a.st, "SHORT")
                                         ELSE {Quiet(a.st)}}
                   : a \in IF "LONG" \in sides THEN EnsureSideV2(c, s, "LONG") ELSE {Quiet(s)}}

\* An armed basket is kept free of pending orders.
HoldEmpty(c, s) == {[Quiet(s) EXCEPT !.cancel = K] : K \in SUBSET Ids(c.orders)}

AfterExits(c, s) ==
    LET t   == IF c.lots = {} THEN s ELSE Armed(c, WithPeak(c, s))
        why == IF c.lots = {} THEN "none" ELSE ExitReasonV2(c, t)
    IN CASE why # "none"                                             -> FullExit(c, t, why)
         [] why = "none" /\ c.lots # {} /\ On(c, "discipline") /\ t.armed -> HoldEmpty(c, t)
         [] OTHER                                                    -> EnsureGridV2(c, t)

OnTickV2(c, s0) ==
    UNION {LET s     == NewBasket(c, r)
               t     == IF c.lots = {} THEN s ELSE WithPeak(c, s)
               chain == IF On(c, "chain") /\ c.lots # {} THEN RunExitChain(c, t) ELSE {}
           IN IF chain # {} THEN chain
              ELSE AfterExits(c, IF On(c, "chain") /\ c.lots # {} THEN AfterChain(c, t) ELSE s)
           : r \in RefreshRegime(c, s0)}
=============================================================================
