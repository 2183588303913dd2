------------------------------- MODULE GridV1 -------------------------------
(***************************************************************************)
(* One tick of the first martingale grid (martingale-grid.strategy.ts), as  *)
(* a relation: from the context c the runner read and the state s kept for *)
(* the instance, the set of everything the tick may do.  The answers of    *)
(* the executor are part of an outcome, so one tick has several.           *)
(*                                                                         *)
(* c: [lots, orders, price, bar, trend, ...]; an outcome o:                *)
(*   st              the state the tick leaves                             *)
(*   cancel, close   the orders withdrawn and the lots told to close       *)
(*   failed          the lots whose close was refused                      *)
(*   reason          the close reason given                                *)
(*   open, place     the market and the stop orders accepted               *)
(***************************************************************************)
EXTENDS GridRules

Quiet(s) == [st |-> s, cancel |-> {}, close |-> {}, failed |-> {}, reason |-> "none",
             open |-> {}, place |-> {}]

\* The second outcome was decided after the first one, from the same context.
Joined(a, b) == [b EXCEPT !.cancel = @ \cup a.cancel, !.open = @ \cup a.open,
                          !.place = @ \cup a.place]

Pending(c, d) == Of(c.orders, d)

\* Closes of the basket are under way.
Waiting(c) == \E l \in c.lots : l.busy

\* Lots and stop orders of a side together.
Layers(c, d) == Cardinality(Of(c.lots, d)) + Cardinality(Pending(c, d))

\* Mutant: one layer too many.
AtCapLate(c, d) == Layers(c, d) > MaxLayers
AtCap(c, d) == Layers(c, d) >= MaxLayers
Ids(S) == {x.id : x \in S}

\* Orders are withdrawn one after the other until one refuses.
CutShort(ids) == (SUBSET ids) \ {ids}

ResetWhenFlat(c, s) == IF c.lots = {} THEN [s EXCEPT !.peak = 0] ELSE s

-----------------------------------------------------------------------------
(* The basket exit. *)

WithPeak(c, s) == [s EXCEPT !.peak = Max({@, NetPct(c.lots, c.price)})]

ByTrail(c, s) ==
    LET pct == NetPct(c.lots, c.price)
    IN /\ BasketStart > 0 /\ pct > 0
       /\ s.peak >= PctScale * BasketStart
       /\ s.peak - pct >= PctScale * BasketGiveback

ExitReason(c, s) ==
    LET net == NetUsdt(c.lots, c.price)
    IN CASE BasketStopLoss > 0 /\ net <= -BasketStopLoss * Qty(c.lots) -> "STOP_LOSS"
         [] ~(BasketStopLoss > 0 /\ net <= -BasketStopLoss * Qty(c.lots))
            /\ (\/ BasketTakeProfit > 0 /\ net >= BasketTakeProfit
                \/ ByTrail(c, s))                               -> "TAKE_PROFIT"
         [] OTHER -> "none"

\* Mutant: an exit forgets when it stopped out.
FullExitForgetful(c, s, why) ==
    IF Waiting(c) THEN {Quiet(s)}
    ELSE {[Quiet(s) EXCEPT !.cancel = K] : K \in CutShort(Ids(c.orders))}
         \cup {[Quiet(IF F # {} THEN s ELSE [s EXCEPT !.peak = 0])
                EXCEPT !.cancel = Ids(c.orders), !.close = Ids(c.lots) \ F,
                       !.failed = F, !.reason = why] : F \in SUBSET Ids(c.lots)}

\* A refused cancellation aborts the exit; a refused close leaves the peak and
\* the cooldown as they are, so that the exit is decided again.
FullExit(c, s, why) ==
    IF Waiting(c) THEN {Quiet(s)}
    ELSE {[Quiet(s) EXCEPT !.cancel = K] : K \in CutShort(Ids(c.orders))}
         \cup {[Quiet(IF F # {} THEN s
                      ELSE [s EXCEPT !.peak = 0,
                                     !.stopped = IF why = "STOP_LOSS" THEN c.bar ELSE @])
                EXCEPT !.cancel = Ids(c.orders), !.close = Ids(c.lots) \ F,
                       !.failed = F, !.reason = why] : F \in SUBSET Ids(c.lots)}

-----------------------------------------------------------------------------
(* The single-sided pyramid. *)

ResolveSides(c) ==
    LET n(d) == Cardinality(Of(c.lots, d))
    IN CASE n("LONG") > 0 /\ n("SHORT") = 0 -> {"LONG"}
         [] n("SHORT") > 0 /\ n("LONG") = 0 -> {"SHORT"}
         [] n("LONG") > 0 /\ n("SHORT") > 0 ->
                IF n("LONG") >= n("SHORT") THEN {"LONG"} ELSE {"SHORT"}
         [] OTHER -> IF c.trend >= 0 THEN {"LONG"} ELSE {"SHORT"}

-----------------------------------------------------------------------------
(* One side of the grid. *)

Cooling(c, s, d) ==
    Of(c.lots, d) = {} /\ Pending(c, d) = {} /\ Cooldown > 0 /\ c.bar - s.stopped < Cooldown

\* The first layer at the market, once per bar; what the withdrawals of the
\* stop orders in the way answer is not looked at.
AtMarket(c, s, d, K, ok) ==
    [Quiet([s EXCEPT !.lock = IF ok THEN c.bar ELSE 0])
     EXCEPT !.cancel = K, !.open = IF ok THEN {[dir |-> d, qty |-> BaseQty]} ELSE {}]
FirstAtMarket(c, s, d) ==
    IF c.bar = s.lock THEN {Quiet(s)}
    ELSE {AtMarket(c, s, d, K, ok) : K \in SUBSET Ids(Pending(c, d)), ok \in BOOLEAN}

StopFor(c, d) ==
    IF Of(c.lots, d) = {} THEN Ahead(d, c.price, Max({Step, FirstStep})) ELSE Ahead(d, c.price, Step)

GoneFar(c, d) == Of(c.lots, d) # {} => Adverse(d, c.price, Worst(Of(c.lots, d), d), Step)

NextLayer(c, s, d, layers) ==
    IF Pending(c, d) # {} \/ ~GoneFar(c, d) \/ StopFor(c, d) <= 0 THEN {Quiet(s)}
    ELSE {Quiet(s),      \* the exchange refused it
          [Quiet(s) EXCEPT !.place = {[dir |-> d, stop |-> StopFor(c, d),
                                       qty |-> LayerQty(layers)]}]}

EnsureSide(c, s, d) ==
    LET layers == Layers(c, d)
    IN CASE Cooling(c, s, d) \/ AtCap(c, d) -> {Quiet(s)}
         [] ~(Cooling(c, s, d) \/ AtCap(c, d))
            /\ Of(c.lots, d) = {} /\ c.firstMarket      -> FirstAtMarket(c, s, d)
         [] OTHER                                       -> NextLayer(c, s, d, layers)

EnsureGrid(c, s, sides) ==
    UNION {{Joined(a, b) : b \in IF "SHORT" \in sides THEN EnsureSide(c, a.st, "SHORT")
                                 ELSE {Quiet(a.st)}}
           : a \in IF "LONG" \in sides THEN EnsureSide(c, s, "LONG") ELSE {Quiet(s)}}

OnTickV1(c, s0) ==
    LET s   == ResetWhenFlat(c, s0)
        t   == IF c.lots = {} THEN s ELSE WithPeak(c, s)
        why == IF c.lots = {} THEN "none" ELSE ExitReason(c, t)
    IN IF why # "none" THEN FullExit(c, t, why)
       ELSE EnsureGrid(c, t, IF c.filter THEN ResolveSides(c) ELSE Dirs)
=============================================================================
