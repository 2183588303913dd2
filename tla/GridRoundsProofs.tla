-------------------------- MODULE GridRoundsProofs --------------------------
(***************************************************************************)
(* Proofs about a martingale grid against its account: what one tick may   *)
(* add in whatever context, how many layers a side holds, what follows a    *)
(* stop loss, and that the second generation with every switch off is the   *)
(* first one.                                                              *)
(***************************************************************************)
EXTENDS GridRounds, FiniteSetTheorems, WellFoundedInduction, TLAPS

-----------------------------------------------------------------------------
(* What a strategy keeps, and what one tick may do.                         *)

Kept == {"peak", "lock", "stopped", "armed", "first", "firstSide", "firstPeak", "trail",
         "trailPeak", "score", "dir", "seen"}
Memory(s) == DOMAIN s = Kept

AddsNothing(o) == o.place = {} /\ o.open = {}

\* Of a side a tick adds nothing, or one layer below the cap.
AtMostOne(c, d, o) ==
  \/ Of(o.place, d) = {} /\ Of(o.open, d) = {}
  \/ /\ ~AtCap(c, d)
     /\ \E p : \/ Of(o.place, d) = {p} /\ Of(o.open, d) = {}
               \/ Of(o.place, d) = {} /\ Of(o.open, d) = {p}

\* A first layer at the market takes the lock of the bar, which nobody else then takes.
LockFine(c, s, o) ==
  /\ o.open # {} => c.firstMarket /\ c.bar # s.lock /\ o.st.lock = c.bar
  /\ c.bar = s.lock => o.st.lock = s.lock

\* Only an exit that every lot accepted stops out, and it leaves no order.
StopFine(c, s, o) ==
  /\ o.reason = "STOP_LOSS" /\ o.failed = {} /\ o.close # {} =>
       o.cancel = Ids(c.orders) /\ AddsNothing(o) /\ o.st.stopped = c.bar
  /\ o.st.stopped \in {s.stopped, c.bar}

TickFine(c, s, o) ==
  /\ Memory(o.st)
  /\ \A p \in o.place \cup o.open : p.dir \in Dirs
  /\ \A d \in Dirs : AtMostOne(c, d, o)
  /\ LockFine(c, s, o)
  /\ StopFine(c, s, o)

\* A tick, or a part of it, that looks after the layers and closes nothing.
Fields == {"st", "cancel", "close", "failed", "reason", "open", "place"}
LayersOnly(s, o) ==
  /\ DOMAIN o = Fields /\ Memory(o.st) /\ o.st.stopped = s.stopped
  /\ o.close = {} /\ o.failed = {} /\ o.reason = "none"

\* One side of the grid.
SideFine(c, s, d, o) ==
  /\ LayersOnly(s, o) /\ LockFine(c, s, o)
  /\ \A p \in o.place \cup o.open : p.dir = d
  /\ AtMostOne(c, d, o)

LEMMA QuietFine == ASSUME NEW c, NEW s, Memory(s), NEW d PROVE SideFine(c, s, d, Quiet(s))
BY DEF SideFine, LayersOnly, LockFine, AtMostOne, Quiet, Fields, Of

LEMMA CancelFine ==
  ASSUME NEW c, NEW s, Memory(s), NEW d, NEW K
  PROVE  SideFine(c, s, d, [Quiet(s) EXCEPT !.cancel = K])
BY DEF SideFine, LayersOnly, LockFine, AtMostOne, Quiet, Fields, Of

LEMMA PlaceFine ==
  ASSUME NEW c, NEW s, Memory(s), NEW d, ~AtCap(c, d), NEW x, NEW q, NEW K
  PROVE  /\ SideFine(c, s, d, [Quiet(s) EXCEPT !.place = {[dir |-> d, stop |-> x, qty |-> q]}])
         /\ SideFine(c, s, d, [Quiet(s) EXCEPT !.cancel = K,
                                               !.place = {[dir |-> d, stop |-> x, qty |-> q]}])
<1> DEFINE p == [dir |-> d, stop |-> x, qty |-> q]
<1>1. p.dir = d
  OBVIOUS
<1> HIDE DEF p
<1>2. Of({p}, d) = {p} /\ Of({}, d) = {}
  BY <1>1 DEF Of
<1>3. /\ SideFine(c, s, d, [Quiet(s) EXCEPT !.place = {p}])
      /\ SideFine(c, s, d, [Quiet(s) EXCEPT !.cancel = K, !.place = {p}])
  BY <1>1, <1>2 DEF SideFine, LayersOnly, LockFine, AtMostOne, Quiet, Fields
<1> QED
  BY <1>3 DEF p

LEMMA FirstFine ==
  ASSUME NEW c, NEW s, Memory(s), NEW d, ~AtCap(c, d), c.firstMarket,
         NEW o \in FirstAtMarket(c, s, d)
  PROVE  SideFine(c, s, d, o)
<1>1. CASE c.bar = s.lock
  BY <1>1, QuietFine DEF FirstAtMarket
<1>2. CASE c.bar # s.lock
  <2>1. PICK K \in SUBSET Ids(Pending(c, d)), ok \in BOOLEAN : o = AtMarket(c, s, d, K, ok)
    BY <1>2 DEF FirstAtMarket
  <2> DEFINE p == [dir |-> d, qty |-> BaseQty]
             t == [s EXCEPT !.lock = IF ok THEN c.bar ELSE 0]
  <2>2. p.dir = d
    OBVIOUS
  <2>3. Memory(t) /\ t.stopped = s.stopped /\ t.lock = IF ok THEN c.bar ELSE 0
    BY DEF Memory, Kept
  <2>4. o = [Quiet(t) EXCEPT !.cancel = K, !.open = IF ok THEN {p} ELSE {}]
    BY <2>1 DEF AtMarket
  <2> HIDE DEF p, t
  <2>5. Of({p}, d) = {p} /\ Of({}, d) = {}
    BY <2>2 DEF Of
  <2>6. /\ DOMAIN o = Fields /\ o.st = t /\ o.place = {} /\ o.close = {} /\ o.failed = {} /\ o.reason = "none"
        /\ o.open = IF ok THEN {p} ELSE {}
    BY <2>4 DEF Quiet, Fields
  <2>7. CASE ok
    BY <1>2, <2>2, <2>3, <2>5, <2>6, <2>7 DEF SideFine, LayersOnly, LockFine, AtMostOne
  <2>8. CASE ~ok
    BY <1>2, <2>2, <2>3, <2>5, <2>6, <2>8 DEF SideFine, LayersOnly, LockFine, AtMostOne
  <2> QED
    BY <2>7, <2>8
<1> QED
  BY <1>1, <1>2

LEMMA EnsureSideFine ==
  ASSUME NEW c, NEW s, Memory(s), NEW d, NEW o \in EnsureSide(c, s, d)
  PROVE  /\ SideFine(c, s, d, o)
         /\ Cooling(c, s, d) => o = Quiet(s)
<1>1. CASE Cooling(c, s, d) \/ AtCap(c, d)
  BY <1>1, QuietFine DEF EnsureSide
<1>2. CASE ~(Cooling(c, s, d) \/ AtCap(c, d)) /\ Of(c.lots, d) = {} /\ c.firstMarket
  BY <1>2, FirstFine DEF EnsureSide
<1>3. CASE ~(Cooling(c, s, d) \/ AtCap(c, d)) /\ ~(Of(c.lots, d) = {} /\ c.firstMarket)
  <2>1. o \in NextLayer(c, s, d, Layers(c, d))
    BY <1>3 DEF EnsureSide
  <2> QED
    <3> DEFINE p == [dir |-> d, stop |-> StopFor(c, d), qty |-> LayerQty(Layers(c, d))]
    <3>1. o = Quiet(s) \/ o = [Quiet(s) EXCEPT !.place = {p}]
      BY <2>1, Zenon DEF NextLayer
    <3>2. ~AtCap(c, d) /\ ~Cooling(c, s, d)
      BY <1>3
    <3>3. SideFine(c, s, d, [Quiet(s) EXCEPT !.place = {p}])
      BY <3>2, PlaceFine
    <3> QED
      BY <3>1, <3>2, <3>3, QuietFine
<1> QED
  BY <1>1, <1>2, <1>3

\* The long side is looked after first, the short side with what that left.
LEMMA JoinedFine ==
  ASSUME NEW c, NEW s, NEW a, NEW b, SideFine(c, s, "LONG", a), SideFine(c, a.st, "SHORT", b)
  PROVE  TickFine(c, s, Joined(a, b)) /\ LayersOnly(s, Joined(a, b))
<1> DEFINE o == Joined(a, b)
<1>1. /\ o.st = b.st /\ o.place = b.place \cup a.place /\ o.open = b.open \cup a.open
      /\ o.close = {} /\ o.failed = {} /\ o.reason = "none"
  BY DEF Joined, SideFine, LayersOnly, Fields
<1> HIDE DEF o
<1>2. LayersOnly(s, o)
  <2>1. DOMAIN o = DOMAIN b
    BY DEF Joined, o
  <2> QED
    BY <1>1, <2>1 DEF SideFine, LayersOnly
<1>3. /\ Of(o.place, "LONG") = Of(a.place, "LONG") /\ Of(o.open, "LONG") = Of(a.open, "LONG")
      /\ Of(o.place, "SHORT") = Of(b.place, "SHORT") /\ Of(o.open, "SHORT") = Of(b.open, "SHORT")
  BY <1>1 DEF SideFine, Of
<1>4. \A d \in Dirs : AtMostOne(c, d, o)
  BY <1>3 DEF SideFine, AtMostOne, Dirs
<1>5. LockFine(c, s, o)
  BY <1>1 DEF SideFine, LockFine
<1>6. StopFine(c, s, o)
  BY <1>1, <1>2 DEF StopFine, LayersOnly
<1>7. \A p \in o.place \cup o.open : p.dir \in Dirs
  BY <1>1 DEF SideFine, Dirs
<1> QED
  BY <1>2, <1>4, <1>5, <1>6, <1>7 DEF TickFine, LayersOnly, o

\* When both sides wait for the cooldown nothing is added.
Rests(c, s) == \A d \in Dirs : Cooling(c, s, d)

LEMMA QuietJoined == ASSUME NEW s PROVE AddsNothing(Joined(Quiet(s), Quiet(s)))
BY DEF AddsNothing, Joined, Quiet

LEMMA EnsureGridFine ==
  ASSUME NEW c, NEW s, Memory(s), NEW sides, NEW o \in EnsureGrid(c, s, sides)
  PROVE  TickFine(c, s, o) /\ LayersOnly(s, o) /\ (Rests(c, s) => AddsNothing(o))
<1> DEFINE A == IF "LONG" \in sides THEN EnsureSide(c, s, "LONG") ELSE {Quiet(s)}
           B(a) == IF "SHORT" \in sides THEN EnsureSide(c, a.st, "SHORT") ELSE {Quiet(a.st)}
<1>1. PICK a \in A : \E b \in B(a) : o = Joined(a, b)
  BY DEF EnsureGrid
<1> PICK b \in B(a) : o = Joined(a, b)
  BY <1>1
<1>2. SideFine(c, s, "LONG", a) /\ (Rests(c, s) => a = Quiet(s))
  BY <1>1, QuietFine, EnsureSideFine DEF Rests, Dirs
<1>3. Memory(a.st)
  BY <1>2 DEF SideFine, LayersOnly
<1>4. SideFine(c, a.st, "SHORT", b) /\ (Rests(c, a.st) => b = Quiet(a.st))
  BY <1>1, <1>3, QuietFine, EnsureSideFine DEF Rests, Dirs
<1>5. Quiet(s).st = s
  BY DEF Quiet
<1> HIDE DEF A, B
<1> QED
  BY <1>1, <1>2, <1>4, <1>5, JoinedFine, QuietJoined

-----------------------------------------------------------------------------
(* The sides of the second generation. *)

LEMMA TrailSwapFine ==
  ASSUME NEW c, NEW s, Memory(s), NEW d, ~AtCap(c, d), NEW o \in TrailSwap(c, s, d)
  PROVE  SideFine(c, s, d, o)
<1> DEFINE old == CHOOSE q \in Pending(c, d) : \A r \in Pending(c, d) : q.id <= r.id
           goal == DisciplineTarget(c, s, d, Pending(c, d))
           go == {x \in goal : ShouldTrail(d, old.stop, x) /\ MarginPrecheck(c.funds, old.qty)}
           new(x) == [dir |-> d, stop |-> x, qty |-> old.qty]
<1>1. o = Quiet(s) \/ \E P \in UNION {{{}, {new(x)}} : x \in go} :
                        o = [Quiet(s) EXCEPT !.cancel = {old.id}, !.place = P]
  BY DEF TrailSwap
<1>2. CASE o = Quiet(s)
  BY <1>2, QuietFine
<1>3. CASE \E P \in UNION {{{}, {new(x)}} : x \in go} :
             o = [Quiet(s) EXCEPT !.cancel = {old.id}, !.place = P]
  <2>1. PICK P \in UNION {{{}, {new(x)}} : x \in go} :
          o = [Quiet(s) EXCEPT !.cancel = {old.id}, !.place = P]
    BY <1>3
  <2>2. PICK x \in go : P = {} \/ P = {new(x)}
    <3>1. PICK T \in {{{}, {new(x)}} : x \in go} : P \in T
      BY Zenon
    <3> HIDE DEF go, new
    <3>2. PICK x \in go : T = {{}, {new(x)}}
      BY <3>1
    <3> QED
      BY <3>1, <3>2
  <2> HIDE DEF old, go
  <2>3. CASE P = {}
    <3>1. /\ DOMAIN o = Fields /\ o.st = s /\ o.open = {} /\ o.place = {}
          /\ o.close = {} /\ o.failed = {} /\ o.reason = "none"
      BY <2>1, <2>3 DEF Quiet, Fields
    <3> QED
      BY <3>1 DEF SideFine, LayersOnly, LockFine, AtMostOne, Of
  <2>4. CASE P = {new(x)}
    BY <2>1, <2>4, PlaceFine
  <2> QED
    BY <2>2, <2>3, <2>4
<1> QED
  BY <1>1, <1>2, <1>3

LEMMA FirstFineV2 ==
  ASSUME NEW c, NEW s, Memory(s), NEW d, ~AtCap(c, d), c.firstMarket,
         NEW o \in FirstAtMarketV2(c, s, d)
  PROVE  SideFine(c, s, d, o)
<1>1. CASE On(c, "discipline") /\ c.bar # s.lock /\ ~MarginPrecheck(c.funds, BaseQty)
  <2> DEFINE t == [s EXCEPT !.lock = c.bar]
  <2>1. PICK K \in SUBSET Ids(Pending(c, d)) : o = [Quiet(t) EXCEPT !.cancel = K]
    BY <1>1 DEF FirstAtMarketV2
  <2>2. Memory(t) /\ t.stopped = s.stopped /\ t.lock = c.bar
    BY DEF Memory, Kept
  <2> HIDE DEF t
  <2>3. SideFine(c, t, d, o)
    BY <2>1, <2>2, CancelFine
  <2>4. o.open = {}
    BY <2>1 DEF Quiet
  <2> QED
    BY <1>1, <2>2, <2>3, <2>4 DEF SideFine, LayersOnly, LockFine
<1>2. CASE ~(On(c, "discipline") /\ c.bar # s.lock /\ ~MarginPrecheck(c.funds, BaseQty))
  BY <1>2, FirstFine DEF FirstAtMarketV2
<1> QED
  BY <1>1, <1>2

LEMMA NextLayerFineV2 ==
  ASSUME NEW c, NEW s, Memory(s), NEW d, ~AtCap(c, d), NEW layers,
         NEW o \in NextLayerV2(c, s, d, layers)
  PROVE  SideFine(c, s, d, o)
<1> DEFINE mult == IF On(c, "sizing") THEN ScoreLotMultiplier(s.score) ELSE LotMultiplier
           amount == BaseQty * mult ^ layers
           new(x) == [dir |-> d, stop |-> x, qty |-> amount]
<1>1. o = Quiet(s) \/ \E x \in StopsForV2(c, s, d) : o = [Quiet(s) EXCEPT !.place = {new(x)}]
  BY DEF NextLayerV2
<1>2. \A x : SideFine(c, s, d, [Quiet(s) EXCEPT !.place = {new(x)}])
  <2> HIDE DEF amount
  <2> QED
    BY PlaceFine
<1> HIDE DEF new
<1> QED
  BY <1>1, <1>2, QuietFine

LEMMA EnsureSideFineV2 ==
  ASSUME NEW c, NEW s, Memory(s), NEW d, NEW o \in EnsureSideV2(c, s, d)
  PROVE  /\ SideFine(c, s, d, o)
         /\ Cooling(c, s, d) => o = Quiet(s)
<1> DEFINE lone == Cardinality(Of(c.lots, d))
           capped == On(c, "discipline") /\ lone >= MaxLayers
           shut == capped \/ AtCap(c, d) \/ (On(c, "pauseAroundFunding") /\ c.funding)
           first == lone = 0 /\ c.firstMarket
<1>1. CASE Cooling(c, s, d)
  BY <1>1, QuietFine DEF EnsureSideV2
<1>2. CASE ~Cooling(c, s, d) /\ capped
  <2>1. PICK K \in SUBSET Ids(Pending(c, d)) : o = [Quiet(s) EXCEPT !.cancel = K]
    BY <1>2 DEF EnsureSideV2
  <2> QED
    BY <1>2, <2>1, CancelFine
<1>3. CASE ~Cooling(c, s, d) /\ ~capped /\ shut
  BY <1>3, QuietFine DEF EnsureSideV2
<1>4. CASE ~Cooling(c, s, d) /\ ~shut /\ first
  <2>1. o \in FirstAtMarketV2(c, s, d)
    BY <1>4 DEF EnsureSideV2
  <2> QED
    BY <1>4, <2>1, FirstFineV2
<1>5. CASE ~Cooling(c, s, d) /\ ~shut /\ ~first /\ Pending(c, d) # {}
  <2>1. o \in IF On(c, "discipline") THEN TrailSwap(c, s, d) ELSE {Quiet(s)}
    BY <1>5 DEF EnsureSideV2
  <2> QED
    BY <1>5, <2>1, TrailSwapFine, QuietFine
<1>6. CASE ~Cooling(c, s, d) /\ ~shut /\ ~first /\ Pending(c, d) = {}
  <2>1. o \in NextLayerV2(c, s, d, Layers(c, d))
    BY <1>6 DEF EnsureSideV2
  <2> QED
    BY <1>6, <2>1, NextLayerFineV2
<1> QED
  BY <1>1, <1>2, <1>3, <1>4, <1>5, <1>6

LEMMA EnsureGridFineV2 ==
  ASSUME NEW c, NEW s, Memory(s), NEW o \in EnsureGridV2(c, s)
  PROVE  TickFine(c, s, o) /\ LayersOnly(s, o) /\ (Rests(c, s) => AddsNothing(o))
<1> DEFINE blocked == IF On(c, "guard") THEN {d \in Dirs : BlocksSide(c.extreme, d)} ELSE {}
           sides == ResolveSidesV2(c, s) \ blocked
           A == IF "LONG" \in sides THEN EnsureSideV2(c, s, "LONG") ELSE {Quiet(s)}
           B(a) == IF "SHORT" \in sides THEN EnsureSideV2(c, a.st, "SHORT") ELSE {Quiet(a.st)}
<1>1. CASE On(c, "guard") /\ c.extreme.spike
  <2>1. o = Quiet(s)
    BY <1>1 DEF EnsureGridV2
  <2>2. SideFine(c, s, "LONG", o) /\ SideFine(c, s, "SHORT", o) /\ AddsNothing(o) /\ StopFine(c, s, o)
    BY <2>1, QuietFine DEF AddsNothing, StopFine, Quiet
  <2> QED
    BY <2>2 DEF SideFine, LayersOnly, TickFine, Dirs, AddsNothing
<1>2. CASE ~(On(c, "guard") /\ c.extreme.spike)
  <2>1. PICK a \in A : \E b \in B(a) : o = Joined(a, b)
    BY <1>2 DEF EnsureGridV2
  <2> PICK b \in B(a) : o = Joined(a, b)
    BY <2>1
  <2> HIDE DEF sides
  <2>2. SideFine(c, s, "LONG", a) /\ (Rests(c, s) => a = Quiet(s))
    BY <2>1, QuietFine, EnsureSideFineV2 DEF Rests, Dirs
  <2>3. Memory(a.st)
    BY <2>2 DEF SideFine, LayersOnly
  <2>4. SideFine(c, a.st, "SHORT", b) /\ (Rests(c, a.st) => b = Quiet(a.st))
    BY <2>1, <2>3, QuietFine, EnsureSideFineV2 DEF Rests, Dirs
  <2>5. Quiet(s).st = s
    BY DEF Quiet
  <2> HIDE DEF A, B
  <2> QED
    BY <2>1, <2>2, <2>4, <2>5, JoinedFine, QuietJoined
<1> QED
  BY <1>1, <1>2

-----------------------------------------------------------------------------
(* Exits and whole ticks. *)

\* A memory that differs in nothing the layers and the cooldown look at.
SameLocks(s, t) == Memory(t) /\ t.lock = s.lock /\ t.stopped = s.stopped

LEMMA FullExitFine ==
  ASSUME NEW c, NEW s, Memory(s), NEW why, NEW o \in FullExit(c, s, why)
  PROVE  TickFine(c, s, o)
<1> DEFINE Left(F) == IF F # {} THEN s
                      ELSE [s EXCEPT !.peak = 0, !.stopped = IF why = "STOP_LOSS" THEN c.bar ELSE @]
<1>1. \/ o = Quiet(s)
      \/ o \in {[Quiet(s) EXCEPT !.cancel = K] : K \in CutShort(Ids(c.orders))}
      \/ o \in {[Quiet(Left(F)) EXCEPT !.cancel = Ids(c.orders), !.close = Ids(c.lots) \ F,
                                       !.failed = F, !.reason = why] : F \in SUBSET Ids(c.lots)}
  BY Zenon DEF FullExit
<1>2. \A F : /\ Memory(Left(F)) /\ Left(F).lock = s.lock
             /\ F = {} /\ why = "STOP_LOSS" => Left(F).stopped = c.bar
             /\ Left(F).stopped \in {s.stopped, c.bar}
  BY DEF Memory, Kept
<1> HIDE DEF Left
<1>4. /\ AddsNothing(o)
      /\ \/ o.st = s /\ o.close = {}
         \/ \E F : o.st = Left(F) /\ o.failed = F /\ o.cancel = Ids(c.orders) /\ o.reason = why
  <2>1. CASE o = Quiet(s)
    BY <2>1 DEF Quiet, AddsNothing
  <2>2. CASE o \in {[Quiet(s) EXCEPT !.cancel = K] : K \in CutShort(Ids(c.orders))}
    <3>1. PICK K : o = [Quiet(s) EXCEPT !.cancel = K]
      BY <2>2
    <3> QED
      BY <3>1 DEF Quiet, AddsNothing
  <2>3. CASE o \in {[Quiet(Left(F)) EXCEPT !.cancel = Ids(c.orders), !.close = Ids(c.lots) \ F,
                                           !.failed = F, !.reason = why] : F \in SUBSET Ids(c.lots)}
    <3>1. PICK F : o = [Quiet(Left(F)) EXCEPT !.cancel = Ids(c.orders), !.close = Ids(c.lots) \ F,
                                             !.failed = F, !.reason = why]
      BY <2>3
    <3>2. /\ o.place = {} /\ o.open = {} /\ o.st = Left(F) /\ o.failed = F
          /\ o.cancel = Ids(c.orders) /\ o.reason = why
      BY <3>1 DEF Quiet
    <3> QED
      BY <3>2 DEF AddsNothing
  <2> QED
    BY <1>1, <2>1, <2>2, <2>3
<1>5. Memory(o.st) /\ o.st.lock = s.lock
  BY <1>2, <1>4
<1>6. StopFine(c, s, o)
  BY <1>2, <1>4 DEF StopFine
<1> QED
  BY <1>4, <1>5, <1>6 DEF TickFine, LockFine, AtMostOne, AddsNothing, Of

\* The chain closes lots and withdraws orders; it neither adds nor stops out.
ChainFine(s, o) == SameLocks(s, o.st) /\ AddsNothing(o) /\ o.reason # "STOP_LOSS"

LEMMA ChainIsFine ==
  ASSUME NEW c, NEW s, NEW o, ChainFine(s, o)
  PROVE  TickFine(c, s, o)
BY DEF ChainFine, SameLocks, TickFine, LockFine, StopFine, AtMostOne, AddsNothing, Of

LEMMA TookFine ==
  ASSUME NEW s, NEW t, SameLocks(s, t), NEW K, NEW X, NEW F, NEW why, why # "STOP_LOSS"
  PROVE  ChainFine(s, Took(t, K, X, F, why))
BY DEF ChainFine, SameLocks, AddsNothing, Took, Quiet

LEMMA FirstTrailFine ==
  ASSUME NEW c, NEW s, Memory(s), NEW o \in FirstTrail(c, s)
  PROVE  ChainFine(s, o)
<1> DEFINE l == Lone(c)
           best == IF s.first THEN Better(Sign(l.dir), s.firstPeak, c.price) ELSE c.price
           gone == s.first /\ Retraced(Sign(l.dir), best, c.price, StepFor(c, s, l.dir))
           t == [s EXCEPT !.first = ~gone, !.firstPeak = IF gone THEN 0 ELSE best]
           why == IF gone THEN "TAKE_PROFIT" ELSE "none"
<1>1. \E K, F : o = Took(t, K, IF gone THEN {l.id} ELSE {}, F, why)
  BY DEF FirstTrail
<1>2. SameLocks(s, t)
  BY DEF SameLocks, Memory, Kept
<1>3. why # "STOP_LOSS"
  OBVIOUS
<1> HIDE DEF t, why, gone
<1> QED
  BY <1>1, <1>2, <1>3, TookFine

LEMMA BasketTrailFine ==
  ASSUME NEW c, NEW s, Memory(s), NEW o \in BasketTrail(c, s)
  PROVE  ChainFine(s, o)
<1> DEFINE sign == IF c.netQty >= 0 THEN 1 ELSE -1
           best == Better(sign, s.trailPeak, c.price)
           gone == Retraced(sign, best, c.price, BasketGiveback)
           X == IF gone THEN Ids(c.lots) ELSE {}
           t == IF gone THEN [s EXCEPT !.trail = FALSE, !.trailPeak = 0, !.peak = 0]
                ELSE [s EXCEPT !.trailPeak = best]
           why == IF gone THEN "TAKE_PROFIT" ELSE "none"
<1>1. \E K, F : o = Took(t, K, X, F, why)
  BY DEF BasketTrail
<1>2. SameLocks(s, t)
  BY DEF SameLocks, Memory, Kept
<1>3. why # "STOP_LOSS"
  OBVIOUS
<1> HIDE DEF t, why, X, gone
<1> QED
  BY <1>1, <1>2, <1>3, TookFine

LEMMA CloseSideFine ==
  ASSUME NEW c, NEW s, Memory(s), NEW d, NEW o \in CloseSideExit(c, s, d)
  PROVE  ChainFine(s, o)
<1> DEFINE t == [s EXCEPT !.peak = 0, !.armed = FALSE, !.trail = FALSE, !.trailPeak = 0]
<1>1. \/ \E K : o = Took(s, K, {}, {}, "none")
      \/ \E F : o = Took(t, Ids(Pending(c, d)), Ids(Of(c.lots, d)), F, "TAKE_PROFIT")
  BY DEF CloseSideExit
<1>2. SameLocks(s, s) /\ SameLocks(s, t)
  BY DEF SameLocks, Memory, Kept
<1> HIDE DEF t
<1> QED
  BY <1>1, <1>2, TookFine

LEMMA PairReductionFine ==
  ASSUME NEW c, NEW s, Memory(s), NEW pairs, NEW o \in PairReduction(c, s, pairs)
  PROVE  ChainFine(s, o)
<1> DEFINE t == [s EXCEPT !.peak = 0, !.armed = FALSE]
           Picked(pick) == {Took(t, Ids(c.orders), pick, F, "SIGNAL") : F \in SUBSET pick}
           Picks == {{pr.profit.id, pr.risk.id} : pr \in pairs}
<1>1. \/ \E K : o = Took(s, K, {}, {}, "none")
      \/ o \in UNION {Picked(pick) : pick \in Picks}
  BY DEF PairReduction
<1>2. SameLocks(s, s) /\ SameLocks(s, t)
  BY DEF SameLocks, Memory, Kept
<1>3. ASSUME o \in UNION {Picked(pick) : pick \in Picks}
      PROVE  \E pick, F : o = Took(t, Ids(c.orders), pick, F, "SIGNAL")
  <2> HIDE DEF t, Picks
  <2>1. PICK pick \in Picks : o \in Picked(pick)
    BY <1>3
  <2> QED
    BY <2>1
<1> HIDE DEF t, Picks, Picked
<1> QED
  BY <1>1, <1>2, <1>3, TookFine

LEMMA SideTargetsFine ==
  ASSUME NEW c, NEW s, Memory(s), NEW o \in SideTargets(c, s)
  PROVE  ChainFine(s, o)
<1>1. \/ \E d : o \in CloseSideExit(c, s, d)
      \/ \E pairs : o \in PairReduction(c, s, pairs)
  BY DEF SideTargets
<1> QED
  BY <1>1, CloseSideFine, PairReductionFine

LEMMA ArmBasketFine ==
  ASSUME NEW c, NEW s, Memory(s), NEW o \in ArmBasket(c, s)
  PROVE  ChainFine(s, o)
<1> DEFINE t == [s EXCEPT !.trail = TRUE, !.armed = TRUE, !.trailPeak = c.price]
<1>1. \E K : o = Took(t, K, {}, {}, "none")
  BY DEF ArmBasket
<1>2. SameLocks(s, t)
  BY DEF SameLocks, Memory, Kept
<1> HIDE DEF t
<1> QED
  BY <1>1, <1>2, TookFine

LEMMA AfterChainFine == ASSUME NEW c, NEW s, Memory(s) PROVE SameLocks(s, AfterChain(c, s))
BY DEF SameLocks, Memory, Kept, AfterChain, LoneSeen

LEMMA RunExitChainFine ==
  ASSUME NEW c, NEW s, Memory(s), NEW o \in RunExitChain(c, s)
  PROVE  ChainFine(s, o)
<1> DEFINE t == AfterChain(c, s)
           lone == Cardinality(c.lots) = 1 /\ (t.first \/ LoneArms(c, t))
<1>1. \/ o = Quiet(s)
      \/ o \in FirstTrail(c, t) \/ o \in BasketTrail(c, t)
      \/ o \in SideTargets(c, t) \/ o \in ArmBasket(c, t)
  BY DEF RunExitChain, AfterChain
<1>2. SameLocks(s, t)
  BY AfterChainFine
<1>3. CASE o = Quiet(s)
  BY <1>3 DEF ChainFine, SameLocks, AddsNothing, Quiet
<1>4. CASE o # Quiet(s)
  <2>1. ChainFine(t, o)
    BY <1>1, <1>2, <1>4, FirstTrailFine, BasketTrailFine, SideTargetsFine, ArmBasketFine
       DEF SameLocks
  <2> QED
    BY <1>2, <2>1 DEF ChainFine, SameLocks
<1> QED
  BY <1>3, <1>4

\* A tick decided from another memory with the same locks is as good.
LEMMA SameTick ==
  ASSUME NEW c, NEW s, NEW t, SameLocks(s, t), NEW o, TickFine(c, t, o)
  PROVE  TickFine(c, s, o)
BY DEF SameLocks, TickFine, LockFine, StopFine

\* Every tick of the first generation, from whatever context.
LEMMA TickV1 ==
  ASSUME NEW c, NEW s, Memory(s), NEW o \in OnTickV1(c, s)
  PROVE  TickFine(c, s, o)
<1> DEFINE r == ResetWhenFlat(c, s)
           t == IF c.lots = {} THEN r ELSE WithPeak(c, r)
           why == IF c.lots = {} THEN "none" ELSE ExitReason(c, t)
           sides == IF c.filter THEN ResolveSides(c) ELSE Dirs
<1>1. SameLocks(s, t)
  BY DEF SameLocks, Memory, Kept, ResetWhenFlat, WithPeak
<1>2. o \in IF why # "none" THEN FullExit(c, t, why) ELSE EnsureGrid(c, t, sides)
  BY DEF OnTickV1
<1> HIDE DEF t, why, sides
<1>3. TickFine(c, t, o)
  BY <1>1, <1>2, FullExitFine, EnsureGridFine DEF SameLocks
<1> QED
  BY <1>1, <1>3, SameTick

\* What the second generation has decided of its memory before it looks at the basket.
LEMMA BrainFine ==
  ASSUME NEW c, NEW s, Memory(s), NEW r \in RefreshRegime(c, s)
  PROVE  /\ SameLocks(s, NewBasket(c, r))
         /\ SameLocks(s, WithPeak(c, NewBasket(c, r)))
<1>1. SameLocks(s, r)
  <2>1. CASE r = s
    BY <2>1 DEF SameLocks
  <2>2. CASE r # s
    <3>1. PICK x : r = [s EXCEPT !.score = x, !.dir = StickyDir(s.dir, x, c.choppy), !.seen = c.bar]
      BY <2>2 DEF RefreshRegime
    <3> QED
      BY <3>1 DEF SameLocks, Memory, Kept
  <2> QED
    BY <2>1, <2>2
<1>2. SameLocks(s, NewBasket(c, r))
  BY <1>1 DEF SameLocks, Memory, Kept, NewBasket
<1> QED
  BY <1>2 DEF SameLocks, Memory, Kept, WithPeak

LEMMA AfterExitsFine ==
  ASSUME NEW c, NEW s, Memory(s), NEW o \in AfterExits(c, s)
  PROVE  /\ TickFine(c, s, o)
         /\ c.lots = {} /\ Rests(c, s) => LayersOnly(s, o) /\ AddsNothing(o)
<1> DEFINE t == IF c.lots = {} THEN s ELSE Armed(c, WithPeak(c, s))
           why == IF c.lots = {} THEN "none" ELSE ExitReasonV2(c, t)
<1>1. SameLocks(s, t) /\ (c.lots = {} => t = s /\ why = "none")
  BY DEF SameLocks, Memory, Kept, Armed, WithPeak
<1>2. o \in IF why # "none" THEN FullExit(c, t, why)
            ELSE IF c.lots # {} /\ On(c, "discipline") /\ t.armed THEN HoldEmpty(c, t)
            ELSE EnsureGridV2(c, t)
  BY DEF AfterExits
<1> HIDE DEF t, why
<1>3. CASE why # "none"
  BY <1>1, <1>2, <1>3, FullExitFine, SameTick DEF SameLocks
<1>4. CASE why = "none" /\ c.lots # {} /\ On(c, "discipline") /\ t.armed
  <2>1. PICK K : o = [Quiet(t) EXCEPT !.cancel = K]
    BY <1>2, <1>4 DEF HoldEmpty
  <2>2. ChainFine(t, o)
    BY <1>1, <2>1 DEF ChainFine, SameLocks, AddsNothing, Quiet
  <2> QED
    BY <1>1, <1>4, <2>2, ChainIsFine, SameTick
<1>5. CASE why = "none" /\ ~(c.lots # {} /\ On(c, "discipline") /\ t.armed)
  <2>1. TickFine(c, t, o) /\ LayersOnly(t, o) /\ (Rests(c, t) => AddsNothing(o))
    BY <1>1, <1>2, <1>5, EnsureGridFineV2 DEF SameLocks
  <2> QED
    BY <1>1, <2>1, SameTick
<1> QED
  BY <1>3, <1>4, <1>5

\* Every tick of the second generation, with whatever switches.
LEMMA TickV2 ==
  ASSUME NEW c, NEW s, Memory(s), NEW o \in OnTickV2(c, s)
  PROVE  TickFine(c, s, o)
<1> DEFINE N(r) == NewBasket(c, r)
           T(r) == IF c.lots = {} THEN N(r) ELSE WithPeak(c, N(r))
           Chained(r) == IF On(c, "chain") /\ c.lots # {} THEN RunExitChain(c, T(r)) ELSE {}
           Then(r) == IF On(c, "chain") /\ c.lots # {} THEN AfterChain(c, T(r)) ELSE N(r)
<1>1. PICK r \in RefreshRegime(c, s) :
        o \in IF Chained(r) # {} THEN Chained(r) ELSE AfterExits(c, Then(r))
  BY DEF OnTickV2
<1>2. SameLocks(s, N(r)) /\ SameLocks(s, T(r))
  BY BrainFine
<1>3. SameLocks(s, Then(r))
  BY <1>2, AfterChainFine DEF SameLocks
<1>4. CASE Chained(r) # {}
  <2>1. ChainFine(T(r), o)
    BY <1>1, <1>2, <1>4, RunExitChainFine DEF SameLocks
  <2> HIDE DEF T
  <2> QED
    BY <1>2, <2>1, ChainIsFine, SameTick
<1>5. CASE Chained(r) = {}
  <2> HIDE DEF Chained, Then
  <2> QED
    BY <1>1, <1>3, <1>5, AfterExitsFine, SameTick DEF SameLocks
<1> QED
  BY <1>4, <1>5

\* While the closes of an exit are under way a tick of the chain does nothing, and neither
\* does one of the cooldown that finds no lot and no order.
LEMMA RestingTick ==
  ASSUME NEW c, NEW s, Memory(s), NEW o \in OnTickV2(c, s), On(c, "chain") \/ c.lots = {},
         c.lots # {} => Waiting(c),
         c.lots = {} => Rests(c, s)
  PROVE  AddsNothing(o) /\ o.close = {} /\ o.failed = {} /\ o.st.stopped = s.stopped
<1> DEFINE N(r) == NewBasket(c, r)
           T(r) == IF c.lots = {} THEN N(r) ELSE WithPeak(c, N(r))
           Chained(r) == IF On(c, "chain") /\ c.lots # {} THEN RunExitChain(c, T(r)) ELSE {}
           Then(r) == IF On(c, "chain") /\ c.lots # {} THEN AfterChain(c, T(r)) ELSE N(r)
<1>1. PICK r \in RefreshRegime(c, s) :
        o \in IF Chained(r) # {} THEN Chained(r) ELSE AfterExits(c, Then(r))
  BY DEF OnTickV2
<1>2. SameLocks(s, N(r)) /\ SameLocks(s, T(r))
  BY BrainFine
<1>3. CASE c.lots # {}
  <2>1. RunExitChain(c, T(r)) = {Quiet(T(r))}
    BY <1>3 DEF RunExitChain
  <2>2. o = Quiet(T(r))
    BY <1>1, <1>3, <2>1
  <2> HIDE DEF T
  <2> QED
    BY <1>2, <2>2 DEF Quiet, AddsNothing, SameLocks
<1>4. CASE c.lots = {}
  <2>1. o \in AfterExits(c, N(r))
    BY <1>1, <1>4
  <2>2. Rests(c, N(r))
    BY <1>2, <1>4 DEF Rests, Cooling, SameLocks
  <2>3. LayersOnly(N(r), o) /\ AddsNothing(o)
    BY <1>2, <1>4, <2>1, <2>2, AfterExitsFine DEF SameLocks
  <2> HIDE DEF N
  <2> QED
    BY <1>2, <2>3 DEF LayersOnly, SameLocks
<1> QED
  BY <1>3, <1>4

-----------------------------------------------------------------------------
(* Counting lots and orders by their side. *)

LEMMA OfFinite ==
  ASSUME NEW S, IsFiniteSet(S), NEW d
  PROVE  IsFiniteSet(Of(S, d)) /\ Cardinality(Of(S, d)) \in Nat
<1>1. Of(S, d) \in SUBSET S
  BY DEF Of
<1> QED
  BY <1>1, FS_Subset, FS_CardinalityType

LEMMA OfSubset ==
  ASSUME NEW S, IsFiniteSet(S), NEW T \in SUBSET S, NEW d
  PROVE  IsFiniteSet(T) /\ Cardinality(Of(T, d)) <= Cardinality(Of(S, d))
<1>1. Of(T, d) \in SUBSET Of(S, d)
  BY DEF Of
<1> QED
  BY <1>1, OfFinite, FS_Subset

LEMMA OfRemoved ==
  ASSUME NEW S, IsFiniteSet(S), NEW x \in S, NEW d
  PROVE  /\ IsFiniteSet(S \ {x})
         /\ Cardinality(Of(S \ {x}, d)) = Cardinality(Of(S, d)) - (IF x.dir = d THEN 1 ELSE 0)
<1>1. IF x.dir = d THEN x \in Of(S, d) /\ Of(S \ {x}, d) = Of(S, d) \ {x} ELSE Of(S \ {x}, d) = Of(S, d)
  BY DEF Of
<1>2. IsFiniteSet(Of(S, d)) /\ Cardinality(Of(S, d)) \in Nat
  BY OfFinite
<1>3. x \in Of(S, d) => Cardinality(Of(S, d) \ {x}) = Cardinality(Of(S, d)) - 1
  BY <1>2, FS_RemoveElement
<1>4. IsFiniteSet(S \ {x})
  BY FS_RemoveElement
<1>5. CASE x.dir = d
  <2>1. Cardinality(Of(S \ {x}, d)) = Cardinality(Of(S, d)) - 1
    BY <1>1, <1>3, <1>5
  <2> QED
    BY <1>4, <1>5, <2>1
<1>6. CASE x.dir # d
  <2>1. Cardinality(Of(S \ {x}, d)) = Cardinality(Of(S, d)) - 0
    BY <1>1, <1>2, <1>6
  <2> QED
    BY <1>4, <1>6, <2>1
<1> QED
  BY <1>5, <1>6

LEMMA OneMore ==
  ASSUME NEW T, IsFiniteSet(T), NEW x
  PROVE  IsFiniteSet(T \cup {x}) /\ Cardinality(T \cup {x}) <= Cardinality(T) + 1
<1> DEFINE a == Cardinality(T \cup {x})
           b == Cardinality(T)
<1>1. IsFiniteSet(T \cup {x}) /\ (a = b \/ a = b + 1)
  BY FS_AddElement
<1>2. b \in Nat
  BY FS_CardinalityType
<1> HIDE DEF a, b
<1>3. a <= b + 1
  BY <1>1, <1>2
<1> QED
  BY <1>1, <1>3 DEF a, b

\* At most one of each side comes to a set.
LEMMA OfAdded ==
  ASSUME NEW S, IsFiniteSet(S), NEW R, \A r \in R : r.dir \in Dirs,
         \A d \in Dirs : Of(R, d) = {} \/ \E r : Of(R, d) = {r}
  PROVE  /\ IsFiniteSet(S \cup R) /\ IsFiniteSet(R)
         /\ \A d \in Dirs : Cardinality(Of(S \cup R, d))
                              <= Cardinality(Of(S, d)) + (IF Of(R, d) = {} THEN 0 ELSE 1)
<1>1. \A d \in Dirs : IsFiniteSet(Of(R, d))
  BY FS_Singleton, FS_EmptySet
<1>2. R = Of(R, "LONG") \cup Of(R, "SHORT")
  BY DEF Of, Dirs
<1>3. IsFiniteSet(R)
  <2>1. IsFiniteSet(Of(R, "LONG") \cup Of(R, "SHORT"))
    BY <1>1, FS_Union DEF Dirs
  <2> QED
    BY <1>2, <2>1
<1>4. IsFiniteSet(S \cup R)
  BY <1>3, FS_Union
<1>5. ASSUME NEW d \in Dirs
      PROVE  Cardinality(Of(S \cup R, d)) <= Cardinality(Of(S, d)) + (IF Of(R, d) = {} THEN 0 ELSE 1)
  <2>1. IsFiniteSet(Of(S, d)) /\ Cardinality(Of(S, d)) \in Nat
    BY OfFinite
  <2>2. Of(S \cup R, d) = Of(S, d) \cup Of(R, d)
    BY DEF Of
  <2>3. CASE Of(R, d) = {}
    <3>1. Of(S \cup R, d) = Of(S, d)
      BY <2>2, <2>3
    <3> QED
      BY <2>1, <2>3, <3>1
  <2>4. CASE Of(R, d) # {}
    <3>1. PICK r : Of(R, d) = {r}
      BY <2>4
    <3>2. Cardinality(Of(S, d) \cup {r}) <= Cardinality(Of(S, d)) + 1
      BY <2>1, OneMore
    <3>3. Of(S \cup R, d) = Of(S, d) \cup {r}
      BY <2>2, <3>1
    <3> QED
      BY <2>4, <3>2, <3>3
  <2> QED
    BY <2>3, <2>4
<1> QED
  BY <1>3, <1>4, <1>5

\* What identifies the elements of two sets pairs them, side by side.
Apart(S) == \A x, y \in S : x.id = y.id => x = y
Paired(S, T) ==
  /\ \A x \in S : \E y \in T : y.id = x.id /\ y.dir = x.dir
  /\ \A y \in T : \E x \in S : y.id = x.id /\ y.dir = x.dir

LEMMA OfPaired ==
  ASSUME NEW S, IsFiniteSet(S), NEW T, Apart(S), Apart(T), Paired(S, T)
  PROVE  IsFiniteSet(T) /\ \A d : Cardinality(Of(T, d)) = Cardinality(Of(S, d))
<1> DEFINE f == [x \in S |-> CHOOSE y \in T : y.id = x.id /\ y.dir = x.dir]
<1>1. \A x \in S : f[x] \in T /\ f[x].id = x.id /\ f[x].dir = x.dir
  BY DEF Paired
<1> HIDE DEF f
<1>2. \A y \in T : \E x \in S : f[x] = y /\ x.dir = y.dir
  BY <1>1 DEF Paired, Apart
<1>3. IsFiniteSet(T)
  <2> DEFINE g == [x \in S |-> f[x]]
  <2>1. g \in Surjection(S, T)
    BY <1>1, <1>2 DEF Surjection
  <2> HIDE DEF g
  <2> QED
    BY <2>1, FS_Surjection
<1>4. ASSUME NEW d PROVE Cardinality(Of(T, d)) = Cardinality(Of(S, d))
  <2> DEFINE h == [x \in Of(S, d) |-> f[x]]
  <2>1. h \in [Of(S, d) -> Of(T, d)]
    BY <1>1 DEF Of
  <2>2. \A y \in Of(T, d) : \E x \in Of(S, d) : h[x] = y
    BY <1>2 DEF Of
  <2>3. \A x, y \in Of(S, d) : h[x] = h[y] => x = y
    BY <1>1 DEF Of, Apart
  <2> HIDE DEF h
  <2>4. h \in Surjection(Of(S, d), Of(T, d))
    BY <2>1, <2>2 DEF Surjection
  <2>5. h \in Injection(Of(S, d), Of(T, d))
    BY <2>1, <2>3 DEF Injection, IsInjective
  <2>6. IsFiniteSet(Of(S, d))
    BY OfFinite
  <2> QED
    BY <2>4, <2>5, <2>6, FS_Surjection
<1> QED
  BY <1>3, <1>4

LEMMA Least ==
  ASSUME NEW T, T \subseteq Nat, T # {}
  PROVE  \E x \in T : \A y \in T : x <= y
<1> DEFINE R == OpToRel(<, Nat)
<1>1. IsWellFoundedOn(R, Nat)
  BY NatLessThanWellFounded
<1>2. PICK x \in T : \A y \in T : ~(<<y, x>> \in R)
  <2> HIDE DEF R
  <2> QED
    BY <1>1, WFMin
<1>3. \A y \in T : ~(y < x)
  BY <1>2 DEF OpToRel
<1> QED
  BY <1>3

\* Among one number more than there are elements one is free.
LEMMA FreeIdIsFree ==
  ASSUME NEW S, IsFiniteSet(S), NEW d
  PROVE  FreeId(S, d) \notin Ids(S)
<1> DEFINE m == Cardinality(S)
           F == {n \in 1..(m + 1) : IdOf(n, d) \notin Ids(S)}
<1>1. m \in Nat
  BY FS_CardinalityType
<1>2. F # {}
  <2> SUFFICES ASSUME F = {} PROVE FALSE
    OBVIOUS
  <2>1. \A n \in 1..(m + 1) : \E x \in S : x.id = IdOf(n, d)
    BY DEF Ids
  <2> DEFINE f == [n \in 1..(m + 1) |-> CHOOSE x \in S : x.id = IdOf(n, d)]
  <2>2. f \in [1..(m + 1) -> S] /\ \A n \in 1..(m + 1) : f[n].id = IdOf(n, d)
    BY <2>1
  <2>3. IsFiniteSet(1..(m + 1)) /\ Cardinality(1..(m + 1)) = m + 1
    BY <1>1, FS_Interval
  <2> HIDE DEF f
  <2>4. PICK j, k \in 1..(m + 1) : j # k /\ f[j] = f[k]
    <3>1. Cardinality(S) < Cardinality(1..(m + 1))
      BY <1>1, <2>3
    <3> DEFINE D == 1..(m + 1)
    <3>2. IsFiniteSet(D) /\ Cardinality(S) < Cardinality(D) /\ f \in [D -> S]
      BY <2>2, <2>3, <3>1
    <3> HIDE DEF D
    <3>3. \E j, k \in D : j # k /\ f[j] = f[k]
      BY <3>2, FS_PigeonHole
    <3> QED
      BY <3>3 DEF D
  <2>5. IdOf(j, d) = IdOf(k, d)
    BY <2>2, <2>4
  <2> QED
    BY <1>1, <2>4, <2>5 DEF IdOf
<1>3. F \subseteq Nat
  BY <1>1
<1> HIDE DEF F
<1>4. Min(F) \in F
  BY <1>2, <1>3, Least DEF Min
<1>5. IdOf(Min(F), d) \notin Ids(S)
  BY <1>4 DEF F
<1> QED
  BY <1>5 DEF FreeId, F

-----------------------------------------------------------------------------
(* The account and the context. *)

LotFields == {"id", "dir", "entry", "qty", "opened", "state"}

LotsFine(S) ==
  /\ IsFiniteSet(S)
  /\ \A l \in S : DOMAIN l = LotFields
  /\ Apart(S)

\* A context shows what was there when it was read; since then orders have only gone.
ContextFine ==
  ctx # <<>> =>
    /\ ctx.bar = bar /\ ctx.sw = mode.sw /\ ctx.firstMarket = mode.firstMarket
    /\ ctx.price \in Int /\ IsFiniteSet(ctx.lots) /\ IsFiniteSet(ctx.orders)
    /\ orders \subseteq ctx.orders

BooksFine ==
  /\ mode \in Modes /\ price \in Int /\ bar \in Nat
  /\ LotsFine(lots) /\ IsFiniteSet(orders) /\ IsFiniteSet(flight)
  /\ Memory(st)
  /\ ContextFine

LEMMA InitBooks == Init => BooksFine
<1> SUFFICES ASSUME Init PROVE BooksFine
  OBVIOUS
<1>1. mode \in Modes /\ price \in Int /\ bar \in Nat
  BY GridAssumption DEF Init, KnownModes
<1>2. LotsFine(lots) /\ IsFiniteSet(orders) /\ IsFiniteSet(flight)
  BY FS_EmptySet DEF Init, LotsFine, Apart
<1>3. Memory(st)
  BY DEF Init, Memory, Kept, Fresh
<1> QED
  BY <1>1, <1>2, <1>3 DEF BooksFine, ContextFine, Init

\* The tick of either generation.
LEMMA AnyTick ==
  ASSUME BooksFine, NEW o \in Outcomes
  PROVE  TickFine(ctx, st, o)
BY TickV1, TickV2, GridAssumption DEF BooksFine, Outcomes, KnownModes

\* The context shows as many lots and orders of a side as there are.
LEMMA ShownAll ==
  ASSUME BooksFine, NEW w
  PROVE  /\ IsFiniteSet(Context(w).lots) /\ Context(w).orders = orders
         /\ \A d : Layers(Context(w), d) = Cardinality(Of(lots, d)) + Cardinality(Of(orders, d))
<1> DEFINE T == {View(l) : l \in lots}
<1>1. Context(w).lots = T /\ Context(w).orders = orders
  BY DEF Context
<1>2. IsFiniteSet(lots) /\ Apart(lots)
  BY DEF BooksFine, LotsFine
<1>3. Apart(T) /\ Paired(lots, T)
  <2>1. \A l \in lots : View(l).id = l.id /\ View(l).dir = l.dir
    BY DEF View
  <2>2. Apart(T)
    BY <1>2, <2>1 DEF Apart
  <2>3. Paired(lots, T)
    BY <2>1 DEF Paired
  <2> QED
    BY <2>2, <2>3
<1> HIDE DEF T
<1>4. IsFiniteSet(T) /\ \A d : Cardinality(Of(T, d)) = Cardinality(Of(lots, d))
  BY <1>2, <1>3, OfPaired
<1> QED
  BY <1>1, <1>4 DEF Layers, Pending

\* A lot that enters has a number of its own.
LEMMA EnteredFine ==
  ASSUME LotsFine(lots), NEW d, NEW entry, NEW qty
  PROVE  /\ LotsFine(Entered(d, entry, qty))
         /\ \A e : Cardinality(Of(Entered(d, entry, qty), e))
                              <= Cardinality(Of(lots, e)) + (IF e = d THEN 1 ELSE 0)
<1> DEFINE n == [id |-> FreeId(lots, d), dir |-> d, entry |-> entry, qty |-> qty, opened |-> bar,
                 state |-> "open"]
<1>1. DOMAIN n = LotFields /\ n.dir = d /\ n.id = FreeId(lots, d)
  BY DEF LotFields
<1>2. Entered(d, entry, qty) = lots \cup {n}
  BY DEF Entered
<1> HIDE DEF n
<1>3. \A l \in lots : l.id # n.id
  BY <1>1, FreeIdIsFree DEF LotsFine, Ids
<1>4. IsFiniteSet(lots)
  BY DEF LotsFine
<1>5. IsFiniteSet(lots \cup {n})
  BY <1>4, FS_AddElement
<1>6. ASSUME NEW e
      PROVE  Cardinality(Of(lots \cup {n}, e)) <= Cardinality(Of(lots, e)) + (IF e = d THEN 1 ELSE 0)
  <2>1. IsFiniteSet(Of(lots, e)) /\ Cardinality(Of(lots, e)) \in Nat
    BY <1>4, OfFinite
  <2>2. CASE e = d
    <3>1. Of(lots \cup {n}, e) = Of(lots, e) \cup {n}
      BY <1>1, <2>2 DEF Of
    <3>2. Cardinality(Of(lots, e) \cup {n}) <= Cardinality(Of(lots, e)) + 1
      BY <2>1, OneMore
    <3> QED
      BY <2>2, <3>1, <3>2
  <2>3. CASE e # d
    <3>1. Of(lots \cup {n}, e) = Of(lots, e)
      BY <1>1, <2>3 DEF Of
    <3> QED
      BY <2>1, <2>3, <3>1
  <2> QED
    BY <2>2, <2>3
<1>7. LotsFine(lots \cup {n})
  BY <1>1, <1>3, <1>5 DEF LotsFine, Apart
<1> QED
  BY <1>2, <1>6, <1>7

\* The state of a lot changes, and nothing else of it.
LEMMA RestatedFine ==
  ASSUME LotsFine(lots), NEW l \in lots, NEW x
  PROVE  LET S == (lots \ {l}) \cup {[l EXCEPT !.state = x]}
         IN  LotsFine(S) /\ \A d \in Dirs : Cardinality(Of(S, d)) = Cardinality(Of(lots, d))
<1> DEFINE m == [l EXCEPT !.state = x]
           S == (lots \ {l}) \cup {m}
<1>1. DOMAIN m = LotFields /\ m.id = l.id /\ m.dir = l.dir
  BY DEF LotsFine, LotFields
<1> HIDE DEF m
<1>2. Apart(S) /\ Paired(lots, S)
  BY <1>1 DEF LotsFine, Apart, Paired
<1>3. \A k \in S : DOMAIN k = LotFields
  BY <1>1 DEF LotsFine
<1> HIDE DEF S
<1>4. IsFiniteSet(S) /\ \A d : Cardinality(Of(S, d)) = Cardinality(Of(lots, d))
  BY <1>2, OfPaired DEF LotsFine
<1>5. LotsFine(S) /\ \A d \in Dirs : Cardinality(Of(S, d)) = Cardinality(Of(lots, d))
  BY <1>2, <1>3, <1>4 DEF LotsFine
<1> QED
  BY <1>5 DEF S, m

\* Orders come from what a tick asked for.
LEMMA PlacedFine ==
  ASSUME NEW S, IsFiniteSet(S), NEW new, \A p \in new : p.dir \in Dirs,
         \A d \in Dirs : Of(new, d) = {} \/ \E p : Of(new, d) = {p}, NEW R,
         \A r \in R : \E p \in new : r.dir = p.dir,
         \A d \in Dirs, p, q \in R : p.dir = d /\ q.dir = d => p = q
  PROVE  /\ IsFiniteSet(S \cup R)
         /\ \A d \in Dirs : Cardinality(Of(S \cup R, d))
                              <= Cardinality(Of(S, d)) + (IF Of(new, d) = {} THEN 0 ELSE 1)
<1>1. \A r \in R : r.dir \in Dirs
  OBVIOUS
<1>2. \A d \in Dirs : Of(R, d) = {} \/ \E r : Of(R, d) = {r}
  BY DEF Of
<1>3. \A d \in Dirs : Of(new, d) = {} => Of(R, d) = {}
  BY DEF Of
<1>4. \A d \in Dirs : Cardinality(Of(S, d)) \in Nat
  BY OfFinite
<1>5. /\ IsFiniteSet(S \cup R)
      /\ \A d \in Dirs : Cardinality(Of(S \cup R, d))
                           <= Cardinality(Of(S, d)) + (IF Of(R, d) = {} THEN 0 ELSE 1)
  BY <1>1, <1>2, OfAdded
<1>6. ASSUME NEW d \in Dirs
      PROVE  Cardinality(Of(S \cup R, d)) <= Cardinality(Of(S, d)) + (IF Of(new, d) = {} THEN 0 ELSE 1)
  <2>1. Cardinality(Of(S \cup R, d)) \in Nat
    BY <1>5, OfFinite
  <2>2. CASE Of(new, d) = {}
    <3>1. Cardinality(Of(S \cup R, d)) <= Cardinality(Of(S, d)) + 0
      BY <1>3, <1>5, <2>2
    <3> QED
      BY <2>2, <3>1
  <2>3. CASE Of(new, d) # {}
    <3> DEFINE a == Cardinality(Of(S \cup R, d))
               b == Cardinality(Of(S, d))
    <3>0. a \in Nat /\ b \in Nat /\ (a <= b + 0 \/ a <= b + 1)
      BY <1>4, <1>5, <2>1
    <3> HIDE DEF a, b
    <3>2. a <= b + 1
      BY <3>0
    <3>1. Cardinality(Of(S \cup R, d)) <= Cardinality(Of(S, d)) + 1
      BY <3>2 DEF a, b
    <3> QED
      BY <2>3, <3>1
  <2> QED
    BY <2>2, <2>3
<1> QED
  BY <1>5, <1>6

Extra(S, d) == IF Of(S, d) = {} THEN 0 ELSE 1

\* What the end of a tick with outcome o makes of lots, orders and market orders.
Acted(o) ==
  /\ st' = o.st /\ ctx' = <<>> /\ UNCHANGED <<mode, price, bar>>
  /\ LotsFine(lots') /\ IsFiniteSet(orders') /\ IsFiniteSet(flight')
  /\ \A d \in Dirs :
       /\ Cardinality(Of(lots', d)) = Cardinality(Of(lots, d))
       /\ Cardinality(Of(orders', d)) <= Cardinality(Of(orders, d)) + Extra(o.place, d)
       /\ Cardinality(Of(flight', d)) <= Cardinality(Of(flight, d)) + Extra(o.open, d)
  /\ o.open = {} => flight' = flight
  /\ o.place = {} => orders' = {q \in orders : q.id \notin o.cancel}

LEMMA AnsweredFine ==
  ASSUME LotsFine(lots), NEW o
  PROVE  LET T == {Answered(l, o) : l \in lots}
         IN  LotsFine(T) /\ \A d : Cardinality(Of(T, d)) = Cardinality(Of(lots, d))
<1> DEFINE T == {Answered(l, o) : l \in lots}
<1>1. \A l \in lots : /\ DOMAIN Answered(l, o) = LotFields
                      /\ Answered(l, o).id = l.id /\ Answered(l, o).dir = l.dir
  BY DEF Answered, LotsFine, LotFields
<1>2. Apart(T)
  BY <1>1 DEF LotsFine, Apart
<1>3. Paired(lots, T)
  BY <1>1 DEF Paired
<1>4. \A k \in T : DOMAIN k = LotFields
  BY <1>1
<1> HIDE DEF T
<1>5. IsFiniteSet(T) /\ \A d : Cardinality(Of(T, d)) = Cardinality(Of(lots, d))
  BY <1>2, <1>3, OfPaired DEF LotsFine
<1>6. LotsFine(T) /\ \A d : Cardinality(Of(T, d)) = Cardinality(Of(lots, d))
  BY <1>2, <1>4, <1>5 DEF LotsFine
<1> QED
  BY <1>6 DEF T

LEMMA ActFine ==
  ASSUME BooksFine, Act
  PROVE  \E o \in Outcomes :
           /\ TickFine(ctx, st, o) /\ Acted(o)
           /\ lots' = {Answered(l, o) : l \in lots}
           /\ quit' = IF /\ o.close # {} /\ o.failed = {}
                         /\ flight' = {} /\ \A l \in lots' : l.state = "closing"
                      THEN [bar |-> bar, why |-> o.reason] ELSE quit
<1>1. PICK o \in Outcomes :
        /\ st' = o.st
        /\ lots' = {Answered(l, o) : l \in lots}
        /\ orders' = Placed({q \in orders : q.id \notin o.cancel}, o.place)
        /\ flight' = flight \cup {[id |-> FreeId(flight, f.dir), dir |-> f.dir, qty |-> f.qty] : f \in o.open}
        /\ quit' = IF /\ o.close # {} /\ o.failed = {}
                      /\ flight' = {} /\ \A l \in lots' : l.state = "closing"
                   THEN [bar |-> bar, why |-> o.reason] ELSE quit
  BY DEF Act
<1>2. TickFine(ctx, st, o)
  BY AnyTick
<1>3. LotsFine(lots') /\ \A d : Cardinality(Of(lots', d)) = Cardinality(Of(lots, d))
  BY <1>1, AnsweredFine DEF BooksFine
<1>4. /\ \A p \in o.place : p.dir \in Dirs
      /\ \A p \in o.open : p.dir \in Dirs
      /\ \A d \in Dirs : Of(o.place, d) = {} \/ \E p : Of(o.place, d) = {p}
      /\ \A d \in Dirs : Of(o.open, d) = {} \/ \E p : Of(o.open, d) = {p}
  BY <1>2 DEF TickFine, AtMostOne
<1> DEFINE S == {q \in orders : q.id \notin o.cancel}
           R == {[id |-> FreeId(S, p.dir), dir |-> p.dir, stop |-> p.stop, qty |-> p.qty] : p \in o.place}
           Q == {[id |-> FreeId(flight, f.dir), dir |-> f.dir, qty |-> f.qty] : f \in o.open}
<1>5. orders' = S \cup R /\ flight' = flight \cup Q
  BY <1>1 DEF Placed
<1>6. S \subseteq orders /\ IsFiniteSet(S) /\ \A d : Cardinality(Of(S, d)) <= Cardinality(Of(orders, d))
  <2>1. S \in SUBSET orders /\ IsFiniteSet(orders)
    BY DEF BooksFine
  <2> HIDE DEF S
  <2> QED
    BY <2>1, OfSubset
<1>7. /\ \A r \in R : \E p \in o.place : r.dir = p.dir
      /\ \A d \in Dirs, p, q \in R : p.dir = d /\ q.dir = d => p = q
  <2> HIDE DEF S
  <2>1. \A d \in Dirs, p, q \in o.place : p.dir = d /\ q.dir = d => p = q
    BY <1>4 DEF Of
  <2> QED
    BY <2>1
<1>8. /\ \A r \in Q : \E p \in o.open : r.dir = p.dir
      /\ \A d \in Dirs, p, q \in Q : p.dir = d /\ q.dir = d => p = q
  <2>1. \A d \in Dirs, p, q \in o.open : p.dir = d /\ q.dir = d => p = q
    BY <1>4 DEF Of
  <2> QED
    BY <2>1
<1>9. o.place = {} => R = {}
  OBVIOUS
<1>10. o.open = {} => Q = {}
  OBVIOUS
<1> HIDE DEF S, R, Q
<1>11. IsFiniteSet(flight)
  BY DEF BooksFine
<1>12. /\ IsFiniteSet(S \cup R)
       /\ \A d \in Dirs : Cardinality(Of(S \cup R, d)) <= Cardinality(Of(S, d)) + Extra(o.place, d)
  BY <1>4, <1>6, <1>7, PlacedFine DEF Extra
<1>13. /\ IsFiniteSet(flight \cup Q)
       /\ \A d \in Dirs : Cardinality(Of(flight \cup Q, d)) <= Cardinality(Of(flight, d)) + Extra(o.open, d)
  BY <1>4, <1>8, <1>11, PlacedFine DEF Extra
<1>14. ASSUME NEW d \in Dirs
       PROVE  Cardinality(Of(orders', d)) <= Cardinality(Of(orders, d)) + Extra(o.place, d)
  <2> DEFINE a == Cardinality(Of(orders', d))
             b == Cardinality(Of(S, d))
             e == Cardinality(Of(orders, d))
             x == Extra(o.place, d)
  <2>1. a \in Nat /\ b \in Nat /\ e \in Nat /\ x \in Nat
    BY <1>5, <1>6, <1>12, OfFinite DEF BooksFine, Extra
  <2>2. a <= b + x /\ b <= e
    BY <1>5, <1>6, <1>12
  <2> HIDE DEF a, b, e, x
  <2>3. a <= e + x
    BY <2>1, <2>2
  <2> QED
    BY <2>3 DEF a, e, x
<1>15. o.place = {} => orders' = {q \in orders : q.id \notin o.cancel}
  BY <1>5, <1>9 DEF S
<1>16. o.open = {} => flight' = flight
  BY <1>5, <1>10
<1>17. ctx' = <<>> /\ UNCHANGED <<mode, price, bar>>
  BY DEF Act
<1>18. IsFiniteSet(orders') /\ IsFiniteSet(flight')
  BY <1>5, <1>12, <1>13
<1>19. Acted(o)
  BY <1>1, <1>3, <1>5, <1>13, <1>14, <1>15, <1>16, <1>17, <1>18 DEF Acted
<1> QED
  BY <1>1, <1>2, <1>19

LEMMA BooksStep == BooksFine /\ [Next]_vars => BooksFine'
<1> SUFFICES ASSUME BooksFine, [Next]_vars PROVE BooksFine'
  OBVIOUS
<1>1. CASE UNCHANGED vars
  BY <1>1 DEF BooksFine, ContextFine, LotsFine, Apart, Memory, vars
<1>2. CASE Observe
  <2>1. PICK w \in Weather : ctx' = Context(w)
    BY <1>2 DEF Observe
  <2>2. IsFiniteSet(ctx'.lots) /\ ctx'.orders = orders
    BY <2>1, ShownAll
  <2>3. /\ ctx'.bar = bar /\ ctx'.sw = mode.sw /\ ctx'.firstMarket = mode.firstMarket
        /\ ctx'.price = price
    BY <2>1 DEF Context
  <2>4. UNCHANGED <<mode, price, bar, lots, orders, flight, st>>
    BY <1>2 DEF Observe
  <2> QED
    BY <2>2, <2>3, <2>4 DEF BooksFine, ContextFine, LotsFine, Apart, Memory
<1>3. CASE Act
  <2>1. PICK o \in Outcomes : TickFine(ctx, st, o) /\ Acted(o)
    BY <1>3, ActFine
  <2> QED
    BY <2>1 DEF BooksFine, ContextFine, LotsFine, Apart, Memory, Acted, TickFine
<1>4. CASE Move
  <2>1. price' \in Int
    BY <1>4 DEF Move
  <2> QED
    BY <1>4, <2>1 DEF Move, BooksFine, ContextFine, LotsFine, Apart, Memory
<1>5. CASE NewBar
  BY <1>5 DEF NewBar, BooksFine, ContextFine, LotsFine, Apart, Memory
<1>6. ASSUME NEW o \in orders, Trigger(o) PROVE BooksFine'
  <2>2. IsFiniteSet(orders') /\ orders' \subseteq orders
    BY <1>6, FS_RemoveElement DEF Trigger, BooksFine
  <2>3. LotsFine(lots')
    BY <1>6, EnteredFine DEF Trigger, BooksFine
  <2> QED
    BY <1>6, <2>2, <2>3 DEF Trigger, BooksFine, ContextFine, Memory, LotsFine, Apart
<1>7. ASSUME NEW f \in flight, Book(f) PROVE BooksFine'
  <2>2. IsFiniteSet(flight')
    BY <1>7, FS_RemoveElement DEF Book, BooksFine
  <2>3. LotsFine(lots')
    BY <1>7, EnteredFine DEF Book, BooksFine
  <2> QED
    BY <1>7, <2>2, <2>3 DEF Book, BooksFine, ContextFine, Memory, LotsFine, Apart
<1>8. ASSUME NEW l \in lots, Settle(l) \/ BackoffEnds(l) \/ ClosedOutside(l) PROVE BooksFine'
  <2>1. UNCHANGED <<mode, price, bar, orders, flight, st, ctx>>
    BY <1>8 DEF Settle, BackoffEnds, ClosedOutside
  <2>2. \/ lots' = lots \ {l}
        \/ \E x : lots' = (lots \ {l}) \cup {[l EXCEPT !.state = x]}
    BY <1>8 DEF Settle, BackoffEnds, ClosedOutside
  <2>3. LotsFine(lots')
    <3>1. CASE lots' = lots \ {l}
      BY <3>1, FS_RemoveElement DEF BooksFine, LotsFine, Apart
    <3>2. CASE \E x : lots' = (lots \ {l}) \cup {[l EXCEPT !.state = x]}
      BY <3>2, RestatedFine DEF BooksFine
    <3> QED
      BY <2>2, <3>1, <3>2
  <2> QED
    BY <2>1, <2>3 DEF BooksFine, ContextFine, Memory, LotsFine, Apart
<1> QED
  BY <1>1, <1>2, <1>3, <1>4, <1>5, <1>6, <1>7, <1>8 DEF Next

-----------------------------------------------------------------------------
(* A side keeps its cap.  A context does not show the market orders still to  *)
(* be booked; while they are booked within their bar the lock of the bar       *)
(* admits one of them, and the tick that sent it was below the cap.            *)

Locked == bar = st.lock /\ mode.firstMarket
One(b) == IF b THEN 1 ELSE 0

CapInv ==
  /\ flight # {} => Locked
  /\ \A d \in Dirs : /\ Cardinality(Of(flight, d)) <= 1
                     /\ PerSide(d) <= MaxLayers + One(mode.firstMarket)
  /\ ctx # <<>> => \A d \in Dirs : PerSide(d) <= Layers(ctx, d) + One(Locked)

LEMMA Numbers ==
  ASSUME BooksFine
  PROVE  /\ MaxLayers \in Nat
         /\ \A b : One(b) \in Nat
         /\ \A d \in Dirs : /\ Cardinality(Of(lots, d)) \in Nat
                            /\ Cardinality(Of(orders, d)) \in Nat
                            /\ Cardinality(Of(flight, d)) \in Nat
                            /\ PerSide(d) \in Nat
                            /\ ctx # <<>> => Layers(ctx, d) \in Nat
<1>1. MaxLayers \in Nat /\ \A b : One(b) \in Nat
  BY GridAssumption DEF NormalParams, One
<1>2. \A d \in Dirs : /\ Cardinality(Of(lots, d)) \in Nat
                      /\ Cardinality(Of(orders, d)) \in Nat
                      /\ Cardinality(Of(flight, d)) \in Nat
  BY OfFinite DEF BooksFine, LotsFine
<1>3. \A d \in Dirs : PerSide(d) \in Nat
  BY <1>2 DEF PerSide
<1>4. ctx # <<>> => \A d \in Dirs : Layers(ctx, d) \in Nat
  BY OfFinite DEF BooksFine, ContextFine, Layers, Pending
<1> QED
  BY <1>1, <1>2, <1>3, <1>4

LEMMA InitCap == Init => CapInv
<1> SUFFICES ASSUME Init PROVE CapInv
  OBVIOUS
<1>1. \A d : Of(lots, d) = {} /\ Of(orders, d) = {} /\ Of(flight, d) = {}
  BY DEF Init, Of
<1>2. \A d : PerSide(d) = 0 /\ Cardinality(Of(flight, d)) = 0
  <2>1. Cardinality({}) = 0
    BY FS_EmptySet
  <2> QED
    BY <1>1, <2>1 DEF PerSide
<1>3. MaxLayers \in Nat /\ \A b : One(b) \in Nat
  BY GridAssumption DEF NormalParams, One
<1>4. flight = {} /\ ctx = <<>>
  BY DEF Init
<1>5. ASSUME NEW d \in Dirs
      PROVE  Cardinality(Of(flight, d)) <= 1 /\ PerSide(d) <= MaxLayers + One(mode.firstMarket)
  <2>1. MaxLayers + One(mode.firstMarket) \in Nat
    BY <1>3
  <2> QED
    BY <1>2, <2>1
<1> QED
  BY <1>4, <1>5 DEF CapInv

\* A step that adds nothing and does not let a bar end over a market order.
LEMMA CapStays ==
  ASSUME BooksFine, BooksFine', CapInv, UNCHANGED <<mode, st>>, ctx' = ctx,
         flight' \subseteq flight, \A d \in Dirs : PerSide(d)' <= PerSide(d),
         bar' = bar \/ (flight = {} /\ ctx = <<>>)
  PROVE  CapInv'
<1>1. flight' # {} => Locked'
  BY DEF CapInv, Locked
<1>2. \A d \in Dirs : Cardinality(Of(flight', d)) <= Cardinality(Of(flight, d))
  BY OfSubset DEF BooksFine
<1>3. ASSUME NEW d \in Dirs
      PROVE  /\ Cardinality(Of(flight', d)) <= 1
             /\ PerSide(d)' <= MaxLayers + One(mode.firstMarket)
  <2>1. PerSide(d)' \in Nat /\ Cardinality(Of(flight', d)) \in Nat
    BY OfFinite DEF BooksFine, LotsFine, PerSide
  <2>2. Cardinality(Of(flight, d)) \in Nat /\ PerSide(d) \in Nat
    BY Numbers
  <2>3. MaxLayers + One(mode.firstMarket) \in Nat
    BY Numbers
  <2>4. Cardinality(Of(flight, d)) <= 1 /\ PerSide(d) <= MaxLayers + One(mode.firstMarket)
    BY DEF CapInv
  <2>5. Cardinality(Of(flight', d)) <= 1
    BY <1>2, <2>1, <2>2, <2>4
  <2>6. PerSide(d)' <= PerSide(d)
    OBVIOUS
  <2> QED
    BY <2>1, <2>2, <2>3, <2>4, <2>5, <2>6
<1>4. ctx' # <<>> => \A d \in Dirs : PerSide(d)' <= Layers(ctx', d) + One(Locked')
  <2> SUFFICES ASSUME ctx # <<>>, NEW d \in Dirs PROVE PerSide(d)' <= Layers(ctx, d) + One(Locked')
    OBVIOUS
  <2>1. Locked' <=> Locked
    BY DEF Locked
  <2>2. PerSide(d) <= Layers(ctx, d) + One(Locked)
    BY DEF CapInv
  <2>3. One(Locked') = One(Locked)
    BY <2>1 DEF One
  <2>4. PerSide(d)' \in Nat
    BY OfFinite DEF BooksFine, LotsFine, PerSide
  <2>5. Layers(ctx, d) \in Nat /\ One(Locked) \in Nat /\ PerSide(d) \in Nat
    BY Numbers
  <2>6. PerSide(d)' <= PerSide(d)
    OBVIOUS
  <2>7. One(Locked') \in Nat
    BY <2>3, <2>5
  <2> QED
    BY <2>2, <2>3, <2>4, <2>5, <2>6
<1> QED
  BY <1>1, <1>3, <1>4 DEF CapInv

\* The tick: what it adds to a side it adds below the cap.
LEMMA CapAct ==
  ASSUME BooksFine, BooksFine', CapInv, Act
  PROVE  CapInv'
<1>1. PICK o \in Outcomes : TickFine(ctx, st, o) /\ Acted(o)
  BY ActFine
<1>2. ctx # <<>> /\ ctx.bar = bar /\ ctx.firstMarket = mode.firstMarket
  BY DEF Act, BooksFine, ContextFine
<1>3. o.open # {} => mode.firstMarket /\ bar # st.lock /\ st'.lock = bar
  BY <1>1, <1>2 DEF TickFine, LockFine, Acted
<1>4. bar = st.lock => st'.lock = st.lock
  BY <1>1, <1>2 DEF TickFine, LockFine, Acted
<1>5. bar' = bar /\ mode' = mode /\ ctx' = <<>> /\ (o.open = {} => flight' = flight)
  BY <1>1 DEF Acted
<1>6. o.open # {} => flight = {} /\ Locked'
  BY <1>3, <1>5 DEF CapInv, Locked
<1>7. flight' # {} => Locked'
  BY <1>4, <1>5, <1>6 DEF CapInv, Locked
<1>8. Locked => Locked'
  BY <1>4, <1>5 DEF Locked
<1>9. ASSUME NEW d \in Dirs
      PROVE  /\ Cardinality(Of(flight', d)) <= 1
             /\ PerSide(d)' <= MaxLayers + One(mode.firstMarket)
  <2> DEFINE l == Cardinality(Of(lots, d))    l2 == Cardinality(Of(lots', d))
             s == Cardinality(Of(orders, d))  s2 == Cardinality(Of(orders', d))
             f == Cardinality(Of(flight, d))  f2 == Cardinality(Of(flight', d))
             x == Extra(o.place, d)           y == Extra(o.open, d)
             n == Layers(ctx, d)              k == One(Locked)
             e == One(mode.firstMarket)
  <2>1. /\ l \in Nat /\ s \in Nat /\ f \in Nat /\ n \in Nat /\ k \in Nat /\ e \in Nat
        /\ MaxLayers \in Nat
    BY <1>2, Numbers
  <2>2. l2 \in Nat /\ s2 \in Nat /\ f2 \in Nat
    BY OfFinite DEF BooksFine, LotsFine
  <2>3. PerSide(d) = l + s + f /\ PerSide(d)' = l2 + s2 + f2
    BY DEF PerSide
  <2>4. l2 = l /\ s2 <= s + x /\ f2 <= f + y
    BY <1>1 DEF Acted
  <2>5. f <= 1 /\ l + s + f <= MaxLayers + e /\ l + s + f <= n + k
    BY <1>2, <2>3 DEF CapInv
  <2>6. k <= e
    BY DEF One, Locked
  <2>7. o.open # {} => f = 0
    <3> SUFFICES ASSUME o.open # {} PROVE f = 0
      OBVIOUS
    <3>1. Of(flight, d) = {}
      BY <1>6 DEF Of
    <3> QED
      BY <3>1, FS_EmptySet
  <2>8. /\ x \in 0..1 /\ y \in 0..1
        /\ y = 1 => o.open # {}
    BY DEF Extra, Of
  <2>9. \/ x = 0 /\ y = 0
        \/ n < MaxLayers /\ x + y <= 1
    <3>1. AtMostOne(ctx, d, o)
      BY <1>1 DEF TickFine
    <3>2. ~AtCap(ctx, d) => n < MaxLayers
      BY <2>1 DEF AtCap
    <3>3. CASE Of(o.place, d) = {} /\ Of(o.open, d) = {}
      BY <3>3 DEF Extra
    <3>4. CASE ~AtCap(ctx, d) /\ (Of(o.place, d) = {} \/ Of(o.open, d) = {})
      <4>1. x + y <= 1
        BY <3>4 DEF Extra
      <4> QED
        BY <3>2, <3>4, <4>1
    <3> QED
      BY <3>1, <3>3, <3>4 DEF AtMostOne
  <2> HIDE DEF l, l2, s, s2, f, f2, x, y, n, k, e
  <2>10. f2 <= 1
    BY <2>1, <2>2, <2>4, <2>5, <2>7, <2>8
  <2>11. l2 + s2 + f2 <= MaxLayers + e
    BY <2>1, <2>2, <2>4, <2>5, <2>6, <2>8, <2>9
  <2> QED
    BY <2>3, <2>10, <2>11 DEF f2, e
<1> QED
  BY <1>5, <1>7, <1>9 DEF CapInv

LEMMA CapStep ==
  ASSUME BooksFine, BooksFine', CapInv, [Next]_vars, ~LateBooking
  PROVE  CapInv'
<1>1. CASE UNCHANGED vars
  <2>1. \A d \in Dirs : PerSide(d)' = PerSide(d)
    BY <1>1 DEF vars, PerSide
  <2> QED
    BY <1>1, <2>1, Numbers, CapStays DEF vars
<1>2. CASE Observe
  <2>1. PICK w \in Weather : ctx' = Context(w)
    BY <1>2 DEF Observe
  <2>2. UNCHANGED <<mode, price, bar, lots, orders, flight, st, quit>>
    BY <1>2 DEF Observe
  <2>3. ASSUME NEW d \in Dirs PROVE PerSide(d)' <= Layers(ctx', d) + One(Locked')
    <3> DEFINE l == Cardinality(Of(lots, d))
               s == Cardinality(Of(orders, d))
               f == Cardinality(Of(flight, d))
    <3>1. PerSide(d)' = l + s + f /\ (Locked' <=> Locked)
      BY <2>2 DEF PerSide, Locked
    <3>2. Layers(ctx', d) = l + s
      BY <2>1, ShownAll
    <3>3. l \in Nat /\ s \in Nat /\ f \in Nat /\ f <= 1
      BY Numbers DEF CapInv
    <3>4. ~Locked => f = 0
      <4> SUFFICES ASSUME ~Locked PROVE f = 0
        OBVIOUS
      <4>1. Of(flight, d) = {}
        BY DEF CapInv, Of
      <4> QED
        BY <4>1, FS_EmptySet
    <3> HIDE DEF l, s, f
    <3>5. f <= One(Locked')
      BY <3>1, <3>3, <3>4 DEF One
    <3>6. One(Locked') \in Nat
      BY DEF One
    <3> QED
      BY <3>1, <3>2, <3>3, <3>5, <3>6
  <2>4. \A d \in Dirs : PerSide(d)' = PerSide(d)
    BY <2>2 DEF PerSide
  <2> QED
    BY <2>2, <2>3, <2>4 DEF CapInv, Locked
<1>3. CASE Act
  BY <1>3, CapAct
<1>4. CASE Move \/ NewBar
  <2>1. \A d \in Dirs : PerSide(d)' = PerSide(d)
    BY <1>4 DEF Move, NewBar, PerSide
  <2>2. /\ UNCHANGED <<mode, st>> /\ ctx' = ctx /\ flight' \subseteq flight
        /\ bar' = bar \/ (flight = {} /\ ctx = <<>>)
    BY <1>4 DEF Move, NewBar
  <2> QED
    BY <2>1, <2>2, Numbers, CapStays
<1>5. ASSUME NEW o \in orders, Trigger(o) PROVE CapInv'
  <2>1. /\ UNCHANGED <<mode, st>> /\ ctx' = ctx /\ flight' = flight /\ bar' = bar
        /\ orders' = orders \ {o} /\ lots' = Entered(o.dir, o.stop, o.qty)
    BY <1>5 DEF Trigger
  <2>2. \A d \in Dirs : PerSide(d)' <= PerSide(d)
    <3> TAKE d \in Dirs
    <3> DEFINE l == Cardinality(Of(lots, d))    l2 == Cardinality(Of(lots', d))
               s == Cardinality(Of(orders, d))  s2 == Cardinality(Of(orders', d))
               f == Cardinality(Of(flight, d))
               x == IF o.dir = d THEN 1 ELSE 0
    <3>1. l \in Nat /\ s \in Nat /\ f \in Nat /\ x \in Nat
      BY Numbers
    <3>2. l2 \in Nat /\ s2 \in Nat
      BY OfFinite DEF BooksFine, LotsFine
    <3>3. s2 = s - x
      BY <2>1, OfRemoved DEF BooksFine
    <3>4. l2 <= l + x
      BY <2>1, EnteredFine DEF BooksFine
    <3>5. PerSide(d) = l + s + f /\ PerSide(d)' = l2 + s2 + f
      BY <2>1 DEF PerSide
    <3> HIDE DEF l, l2, s, s2, f, x
    <3> QED
      BY <3>1, <3>2, <3>3, <3>4, <3>5
  <2> QED
    BY <2>1, <2>2, CapStays
<1>6. ASSUME NEW f \in flight, Book(f) PROVE CapInv'
  <2>1. /\ UNCHANGED <<mode, st>> /\ ctx' = ctx /\ flight' = flight \ {f} /\ bar' = bar
        /\ orders' = orders /\ lots' = Entered(f.dir, price, f.qty)
    BY <1>6 DEF Book
  <2>2. \A d \in Dirs : PerSide(d)' <= PerSide(d)
    <3> TAKE d \in Dirs
    <3> DEFINE l == Cardinality(Of(lots, d))    l2 == Cardinality(Of(lots', d))
               s == Cardinality(Of(orders, d))
               m == Cardinality(Of(flight, d))  m2 == Cardinality(Of(flight', d))
               x == IF f.dir = d THEN 1 ELSE 0
    <3>1. l \in Nat /\ s \in Nat /\ m \in Nat /\ x \in Nat
      BY Numbers
    <3>2. l2 \in Nat /\ m2 \in Nat
      BY OfFinite DEF BooksFine, LotsFine
    <3>3. m2 = m - x
      BY <2>1, OfRemoved DEF BooksFine
    <3>4. l2 <= l + x
      BY <2>1, EnteredFine DEF BooksFine
    <3>5. PerSide(d) = l + s + m /\ PerSide(d)' = l2 + s + m2
      BY <2>1 DEF PerSide
    <3> HIDE DEF l, l2, s, m, m2, x
    <3> QED
      BY <3>1, <3>2, <3>3, <3>4, <3>5
  <2> QED
    BY <2>1, <2>2, CapStays
<1>7. ASSUME NEW l \in lots, Settle(l) \/ BackoffEnds(l) \/ ClosedOutside(l) PROVE CapInv'
  <2>1. UNCHANGED <<mode, price, bar, orders, flight, st, ctx>>
    BY <1>7 DEF Settle, BackoffEnds, ClosedOutside
  <2>2. \/ lots' = lots \ {l}
        \/ \E x : lots' = (lots \ {l}) \cup {[l EXCEPT !.state = x]}
    BY <1>7 DEF Settle, BackoffEnds, ClosedOutside
  <2>3. \A d \in Dirs : Cardinality(Of(lots', d)) <= Cardinality(Of(lots, d))
    <3>1. \A d \in Dirs : Cardinality(Of(lots, d)) \in Nat
      BY Numbers
    <3>2. CASE lots' = lots \ {l}
      <4>1. lots' \in SUBSET lots
        BY <3>2
      <4> QED
        BY <4>1, OfSubset DEF BooksFine, LotsFine
    <3>3. CASE \E x : lots' = (lots \ {l}) \cup {[l EXCEPT !.state = x]}
      <4>1. PICK x : lots' = (lots \ {l}) \cup {[l EXCEPT !.state = x]}
        BY <3>3
      <4>2. LotsFine(lots)
        BY DEF BooksFine
      <4>3. \A d \in Dirs : Cardinality(Of((lots \ {l}) \cup {[l EXCEPT !.state = x]}, d))
                              = Cardinality(Of(lots, d))
        BY <4>2, RestatedFine
      <4>4. \A d \in Dirs : Cardinality(Of(lots', d)) = Cardinality(Of(lots, d))
        BY <4>1, <4>3
      <4> QED
        BY <3>1, <4>4
    <3> QED
      BY <2>2, <3>2, <3>3
  <2>4. \A d \in Dirs : PerSide(d)' <= PerSide(d)
    <3> TAKE d \in Dirs
    <3> DEFINE a == Cardinality(Of(lots, d))    b == Cardinality(Of(lots', d))
               s == Cardinality(Of(orders, d))  f == Cardinality(Of(flight, d))
    <3>1. a \in Nat /\ s \in Nat /\ f \in Nat /\ b \in Nat
      BY Numbers, OfFinite DEF BooksFine, LotsFine
    <3>2. PerSide(d) = a + s + f /\ PerSide(d)' = b + s + f
      BY <2>1 DEF PerSide
    <3>3. b <= a
      BY <2>3
    <3> HIDE DEF a, b, s, f
    <3> QED
      BY <3>1, <3>2, <3>3
  <2> QED
    BY <2>1, <2>4, CapStays
<1> QED
  BY <1>1, <1>2, <1>3, <1>4, <1>5, <1>6, <1>7 DEF Next

\* LayersWithinCap: a side never holds more layers than its cap, whatever the parameters,
\* switches, candles and scores, as long as market orders are booked within their bar; one
\* more is the price of first layers at the market.
THEOREM LayersKeepCap == ~LateBooking => (Spec => []LayersWithinCap)
<1> SUFFICES ASSUME ~LateBooking PROVE Spec => []LayersWithinCap
  OBVIOUS
<1>1. Init => BooksFine /\ CapInv
  BY InitBooks, InitCap
<1>2. BooksFine /\ CapInv /\ [Next]_vars => (BooksFine /\ CapInv)'
  BY BooksStep, CapStep
<1>3. CapInv => LayersWithinCap
  BY DEF CapInv, LayersWithinCap, One
<1> QED
  BY <1>1, <1>2, <1>3, PTL DEF Spec

-----------------------------------------------------------------------------
(* The cooldown.  From a stop loss that every lot accepted to the end of the  *)
(* cooldown the memory holds that exit or a later one; with the exit chain    *)
(* the account holds nothing but closes under way.                            *)

Counting == quit.why = "STOP_LOSS" /\ bar - quit.bar < Cooldown
StoppedOut == quit.why = "STOP_LOSS" /\ "chain" \in mode.sw /\ bar - quit.bar < Cooldown

Resting ==
  /\ flight = {} /\ orders = {} /\ st.stopped = quit.bar
  /\ \A l \in lots : l.state = "closing"
  /\ ctx # <<>> => ctx.orders = {} /\ \A v \in ctx.lots : v.busy

CoolInv ==
  /\ quit.bar \in Int /\ quit.bar <= bar
  /\ StoppedOut => Resting
  /\ st.stopped \in Int
  /\ quit.why = "STOP_LOSS" => quit.bar <= st.stopped

\* In the cooldown a tick that finds nothing adds nothing, in either generation.
LEMMA CoolingTick ==
  ASSUME BooksFine, CoolInv, Counting, ctx # <<>>, ctx.lots = {}, ctx.orders = {},
         NEW o \in Outcomes
  PROVE  AddsNothing(o)
<1>1. ctx.bar = bar /\ bar \in Nat /\ Memory(st)
  BY DEF BooksFine, ContextFine
<1>2. Cooldown > 0 /\ ctx.bar - st.stopped < Cooldown
  <2>1. /\ quit.bar \in Int /\ st.stopped \in Int /\ quit.bar <= bar /\ quit.bar <= st.stopped
        /\ bar - quit.bar < Cooldown
    BY DEF CoolInv, Counting
  <2>2. Cooldown \in Nat
    BY GridAssumption DEF NormalParams
  <2> QED
    BY <1>1, <2>1, <2>2
<1>3. \A d : Of(ctx.lots, d) = {} /\ Pending(ctx, d) = {}
  BY DEF Of, Pending
<1>4. Rests(ctx, st)
  BY <1>2, <1>3 DEF Rests, Cooling
<1>5. CASE mode.version = "v1"
  <2> DEFINE sides == IF ctx.filter THEN ResolveSides(ctx) ELSE Dirs
  <2>1. o \in OnTickV1(ctx, st)
    BY <1>5 DEF Outcomes
  <2>2. o \in EnsureGrid(ctx, ResetWhenFlat(ctx, st), sides)
    BY <2>1 DEF OnTickV1
  <2>3. SameLocks(st, ResetWhenFlat(ctx, st))
    BY <1>1 DEF SameLocks, Memory, Kept, ResetWhenFlat
  <2>4. Rests(ctx, ResetWhenFlat(ctx, st)) /\ Memory(ResetWhenFlat(ctx, st))
    BY <1>4, <2>3 DEF Rests, Cooling, SameLocks
  <2> HIDE DEF sides
  <2> QED
    BY <2>2, <2>4, EnsureGridFine
<1>6. CASE mode.version # "v1"
  <2>1. o \in OnTickV2(ctx, st)
    BY <1>6 DEF Outcomes
  <2> QED
    BY <1>1, <1>4, <2>1, RestingTick
<1> QED
  BY <1>5, <1>6

LEMMA InitCool == Init => CoolInv
<1> SUFFICES ASSUME Init PROVE CoolInv
  OBVIOUS
<1>1. quit.bar = -9 /\ quit.why = "none" /\ bar = 1 /\ st.stopped = -9
  BY DEF Init, NoQuit, Fresh
<1> QED
  BY <1>1 DEF CoolInv, StoppedOut

\* What a tick of the cooldown does: nothing.
LEMMA RestingAct ==
  ASSUME BooksFine, CoolInv, StoppedOut, ctx # <<>>, NEW o \in Outcomes
  PROVE  AddsNothing(o) /\ o.close = {} /\ o.failed = {} /\ o.st.stopped = st.stopped
<1>1. mode.version = "v2" /\ ctx.sw = mode.sw /\ ctx.bar = bar
  BY GridAssumption DEF BooksFine, ContextFine, KnownModes, StoppedOut
<1>2. o \in OnTickV2(ctx, st) /\ On(ctx, "chain") /\ Memory(st)
  BY <1>1 DEF Outcomes, On, StoppedOut, BooksFine
<1>3. ctx.lots # {} => Waiting(ctx)
  BY DEF CoolInv, Resting, Waiting
<1>4. ASSUME ctx.lots = {} PROVE Rests(ctx, st)
  <2>1. Cooldown > 0 /\ ctx.bar - st.stopped < Cooldown
    BY <1>1, GridAssumption DEF CoolInv, Resting, StoppedOut, NormalParams, BooksFine
  <2>2. \A d : Of(ctx.lots, d) = {} /\ Pending(ctx, d) = {}
    BY <1>4 DEF CoolInv, Resting, Of, Pending
  <2> QED
    BY <2>1, <2>2 DEF Rests, Cooling
<1> QED
  BY <1>2, <1>3, <1>4, RestingTick

LEMMA CoolAct ==
  ASSUME BooksFine, CoolInv, Act
  PROVE  CoolInv'
<1>1. PICK o \in Outcomes :
        /\ TickFine(ctx, st, o) /\ Acted(o)
        /\ lots' = {Answered(l, o) : l \in lots}
        /\ quit' = IF /\ o.close # {} /\ o.failed = {}
                      /\ flight' = {} /\ \A l \in lots' : l.state = "closing"
                   THEN [bar |-> bar, why |-> o.reason] ELSE quit
  BY ActFine
<1>2. ctx # <<>> /\ ctx.bar = bar /\ orders \subseteq ctx.orders /\ bar \in Nat
  BY DEF Act, BooksFine, ContextFine
<1>3. UNCHANGED <<mode, bar>> /\ ctx' = <<>> /\ st' = o.st
  BY <1>1 DEF Acted
<1>9. /\ st'.stopped \in Int
      /\ quit.why = "STOP_LOSS" => quit.bar <= st'.stopped
  <2>1. st'.stopped \in {st.stopped, bar}
    BY <1>1, <1>2, <1>3 DEF TickFine, StopFine
  <2> QED
    BY <1>2, <2>1 DEF CoolInv
<1>4. CASE quit' = quit
  <2>1. quit'.bar \in Int /\ quit'.bar <= bar'
    BY <1>3, <1>4 DEF CoolInv
  <2>2. ASSUME StoppedOut' PROVE Resting'
    <3>1. StoppedOut
      BY <1>3, <1>4, <2>2 DEF StoppedOut
    <3>2. AddsNothing(o) /\ o.close = {} /\ o.failed = {} /\ o.st.stopped = st.stopped
      BY <1>2, <3>1, RestingAct
    <3>3. orders' \subseteq orders /\ flight' = flight
      BY <1>1, <3>2 DEF Acted, AddsNothing
    <3>4. \A l \in lots : Answered(l, o) = l
      BY <3>2 DEF Answered
    <3>5. lots' = lots
      BY <1>1, <3>4
    <3> QED
      BY <1>3, <1>4, <3>1, <3>2, <3>3, <3>5 DEF CoolInv, Resting
  <2> QED
    BY <1>4, <1>9, <2>1, <2>2 DEF CoolInv
<1>5. CASE quit' # quit
  <2>1. /\ o.close # {} /\ o.failed = {} /\ flight' = {} /\ \A l \in lots' : l.state = "closing"
        /\ quit' = [bar |-> bar, why |-> o.reason]
    BY <1>1, <1>5
  <2>2. quit'.bar = bar' /\ quit'.bar \in Int /\ quit'.bar <= bar' /\ quit'.why = o.reason
    BY <1>2, <1>3, <2>1
  <2>3. ASSUME StoppedOut' PROVE Resting'
    <3>1. o.reason = "STOP_LOSS"
      BY <2>2, <2>3 DEF StoppedOut
    <3>2. o.cancel = Ids(ctx.orders) /\ AddsNothing(o) /\ o.st.stopped = bar
      BY <1>1, <1>2, <2>1, <3>1 DEF TickFine, StopFine
    <3>3. orders' = {}
      BY <1>1, <1>2, <3>2 DEF Acted, AddsNothing, Ids
    <3> QED
      BY <1>3, <2>1, <2>2, <3>2, <3>3 DEF Resting
  <2>4. quit'.why = "STOP_LOSS" => st'.stopped = bar
    BY <1>1, <1>2, <1>3, <2>1, <2>2 DEF TickFine, StopFine
  <2> QED
    BY <1>2, <1>3, <1>9, <2>2, <2>3, <2>4 DEF CoolInv
<1> QED
  BY <1>4, <1>5

LEMMA CoolStep == BooksFine /\ CoolInv /\ [Next]_vars => CoolInv'
<1> SUFFICES ASSUME BooksFine, CoolInv, [Next]_vars PROVE CoolInv'
  OBVIOUS
<1>1. CASE UNCHANGED vars
  BY <1>1 DEF vars, CoolInv, StoppedOut, Resting
<1>2. CASE Observe
  <2>1. PICK w \in Weather : ctx' = Context(w)
    BY <1>2 DEF Observe
  <2>2. ctx'.orders = orders /\ ctx'.lots = {View(l) : l \in lots}
    BY <2>1 DEF Context
  <2>3. \A l \in lots : l.state = "closing" => View(l).busy
    BY DEF View
  <2>4. UNCHANGED <<mode, bar, lots, orders, flight, st, quit>>
    BY <1>2 DEF Observe
  <2>5. StoppedOut' => StoppedOut
    BY <2>4 DEF StoppedOut
  <2> QED
    BY <2>2, <2>3, <2>4, <2>5 DEF CoolInv, Resting
<1>3. CASE Act
  BY <1>3, CoolAct
<1>4. CASE Move
  BY <1>4 DEF Move, CoolInv, StoppedOut, Resting
<1>5. CASE NewBar
  <2>1. UNCHANGED <<mode, lots, orders, flight, st, ctx, quit>> /\ bar' = bar + 1 /\ bar \in Nat
    BY <1>5 DEF NewBar, BooksFine
  <2>2. Cooldown \in Nat
    BY GridAssumption DEF NormalParams
  <2>3. quit'.bar \in Int /\ quit'.bar <= bar' /\ (StoppedOut' => StoppedOut)
    BY <2>1, <2>2 DEF CoolInv, StoppedOut
  <2> QED
    BY <2>1, <2>3 DEF CoolInv, Resting
<1>6. ASSUME NEW o \in orders, Trigger(o) PROVE CoolInv'
  <2>1. ~StoppedOut /\ UNCHANGED <<mode, bar, st, quit>>
    BY <1>6 DEF CoolInv, Resting, Trigger
  <2> QED
    BY <2>1 DEF CoolInv, StoppedOut
<1>7. ASSUME NEW f \in flight, Book(f) PROVE CoolInv'
  <2>1. ~StoppedOut /\ UNCHANGED <<mode, bar, st, quit>>
    BY <1>7 DEF CoolInv, Resting, Book
  <2> QED
    BY <2>1 DEF CoolInv, StoppedOut
<1>8. ASSUME NEW l \in lots, Settle(l) \/ BackoffEnds(l) \/ ClosedOutside(l) PROVE CoolInv'
  <2>1. UNCHANGED <<mode, bar, orders, flight, st, ctx>>
    BY <1>8 DEF Settle, BackoffEnds, ClosedOutside
  <2>2. CASE quit' = NoQuit
    <3>1. quit'.bar = -9 /\ quit'.why = "none" /\ bar \in Nat
      BY <2>2 DEF NoQuit, BooksFine
    <3> QED
      BY <2>1, <3>1 DEF CoolInv, StoppedOut
  <2>3. CASE quit' = quit /\ lots' = lots \ {l}
    BY <2>1, <2>3 DEF CoolInv, StoppedOut, Resting
  <2>4. CASE BackoffEnds(l)
    <3>1. ~StoppedOut /\ quit' = quit
      BY <2>4 DEF BackoffEnds, CoolInv, Resting
    <3> QED
      BY <2>1, <3>1 DEF CoolInv, StoppedOut
  <2> QED
    BY <1>8, <2>2, <2>3, <2>4 DEF Settle, ClosedOutside
<1> QED
  BY <1>1, <1>2, <1>3, <1>4, <1>5, <1>6, <1>7, <1>8 DEF Next

\* Cooled: after a stop loss that every lot accepted no tick of an account without lots opens
\* or places anything for Cooldown bars, whatever happens between its ticks, unless a close of
\* it fails or, without the exit chain, a layer placed while the lots closed has been left.
THEOREM CooldownKept == Spec => Cooled
<1>1. Init => BooksFine /\ CoolInv
  BY InitBooks, InitCool
<1>2. BooksFine /\ CoolInv /\ [Next]_vars => (BooksFine /\ CoolInv)'
  BY BooksStep, CoolStep
<1>3. BooksFine /\ CoolInv /\ [Next]_vars =>
        [ctx # <<>> /\ ctx' = <<>> /\ quit.why = "STOP_LOSS" /\ bar - quit.bar < Cooldown
         /\ ctx.lots = {} /\ ~Orphaned(ctx) => ~Adds]_vars
  <2> SUFFICES ASSUME BooksFine, CoolInv, Next, ctx # <<>>, ctx' = <<>>, Counting,
                      ctx.lots = {}, ~Orphaned(ctx)
               PROVE  ~Adds
    BY DEF Counting
  <2>1. Act
    BY DEF Next, Observe, Move, NewBar, Trigger, Book, Settle, BackoffEnds, ClosedOutside
  <2>2. PICK o \in Outcomes : Acted(o)
    BY <2>1, ActFine
  <2>3. ctx.orders = {}
    <3>1. CASE "chain" \in ctx.sw
      BY <3>1 DEF BooksFine, ContextFine, Counting, StoppedOut, CoolInv, Resting
    <3>2. CASE "chain" \notin ctx.sw
      BY <3>2 DEF Orphaned
    <3> QED
      BY <3>1, <3>2
  <2>4. AddsNothing(o)
    BY <2>2, <2>3, CoolingTick
  <2> QED
    BY <2>2, <2>4 DEF Acted, AddsNothing, Adds
<1> QED
  BY <1>1, <1>2, <1>3, PTL DEF Spec, Cooled

-----------------------------------------------------------------------------
(* The second generation with every switch off.  Its sides are those of the  *)
(* first one; what it remembers besides shows in no call.                   *)

LEMMA OffSide ==
  ASSUME NEW c, c.sw = {}, c.price \in Int, NEW d, IsFiniteSet(Of(c.lots, d)), NEW s
  PROVE  EnsureSideV2(c, s, d) = EnsureSide(c, s, d)
<1> DEFINE layers == Layers(c, d)
<1>1. \A x : ~On(c, x)
  BY DEF On
<1>2. Cardinality(Of(c.lots, d)) = 0 <=> Of(c.lots, d) = {}
  BY FS_EmptySet
<1>3. Step \in Nat /\ FirstStep \in Nat
  BY GridAssumption DEF NormalParams
<1>4. Max({Step, FirstStep}) \in Nat
  BY <1>3 DEF Max
<1>5. StopFor(c, d) \in Int
  BY <1>3, <1>4 DEF StopFor, Ahead
<1>6. StepFor(c, s, d) = Step
  BY <1>1 DEF StepFor
<1>7. StopsForV2(c, s, d) = IF GoneFar(c, d) THEN {StopFor(c, d)} ELSE {}
  <2>1. CASE Of(c.lots, d) = {}
    <3>1. GoneFar(c, d) /\ StopFor(c, d) = Ahead(d, c.price, Max({Step, FirstStep}))
      BY <2>1 DEF GoneFar, StopFor
    <3>2. StopsForV2(c, s, d) = {Ahead(d, c.price, Max({Step, FirstStep}))}
      BY <1>1, <1>6, <2>1 DEF StopsForV2
    <3> QED
      BY <3>1, <3>2
  <2>2. CASE Of(c.lots, d) # {}
    <3>1. /\ GoneFar(c, d) <=> Adverse(d, c.price, Worst(Of(c.lots, d), d), Step)
          /\ StopFor(c, d) = Ahead(d, c.price, Step)
      BY <2>2 DEF GoneFar, StopFor
    <3>2. StopsForV2(c, s, d) = IF Adverse(d, c.price, Worst(Of(c.lots, d), d), Step)
                                THEN {Ahead(d, c.price, Step)} ELSE {}
      BY <1>1, <1>6, <2>2 DEF StopsForV2
    <3> QED
      BY <3>1, <3>2
  <2> QED
    BY <2>1, <2>2
<1> DEFINE new(x) == [Quiet(s) EXCEPT !.place = {[dir |-> d, stop |-> x, qty |-> LayerQty(layers)]}]
<1>8. NextLayerV2(c, s, d, layers) = {Quiet(s)} \cup {new(x) : x \in {y \in StopsForV2(c, s, d) : y > 0}}
  BY <1>1 DEF NextLayerV2, LayerQty
<1>9. NextLayer(c, s, d, layers) = IF Pending(c, d) # {} \/ ~GoneFar(c, d) \/ StopFor(c, d) <= 0
                                   THEN {Quiet(s)} ELSE {Quiet(s), new(StopFor(c, d))}
  BY DEF NextLayer
<1> HIDE DEF new, layers
<1>10. Pending(c, d) = {} => NextLayerV2(c, s, d, layers) = NextLayer(c, s, d, layers)
  <2>1. CASE GoneFar(c, d) /\ StopFor(c, d) > 0
    <3>1. {y \in StopsForV2(c, s, d) : y > 0} = {StopFor(c, d)}
      BY <1>7, <2>1
    <3>2. {new(x) : x \in {StopFor(c, d)}} = {new(StopFor(c, d))}
      OBVIOUS
    <3>3. ~(StopFor(c, d) <= 0)
      BY <1>5, <2>1
    <3> QED
      BY <1>8, <1>9, <2>1, <3>1, <3>2, <3>3
  <2>2. CASE ~(GoneFar(c, d) /\ StopFor(c, d) > 0)
    <3>1. {y \in StopsForV2(c, s, d) : y > 0} = {}
      BY <1>7, <2>2
    <3>2. ~GoneFar(c, d) \/ StopFor(c, d) <= 0
      BY <1>5, <2>2
    <3> QED
      BY <1>8, <1>9, <3>1, <3>2
  <2> QED
    BY <2>1, <2>2
<1>11. FirstAtMarketV2(c, s, d) = FirstAtMarket(c, s, d)
  BY <1>1 DEF FirstAtMarketV2
<1>12. Pending(c, d) # {} => NextLayer(c, s, d, layers) = {Quiet(s)}
  BY <1>9
<1>13. CASE Cooling(c, s, d) \/ AtCap(c, d)
  BY <1>1, <1>13 DEF EnsureSideV2, EnsureSide
<1>14. CASE ~(Cooling(c, s, d) \/ AtCap(c, d)) /\ Of(c.lots, d) = {} /\ c.firstMarket
  BY <1>1, <1>2, <1>11, <1>14 DEF EnsureSideV2, EnsureSide
<1>15. CASE ~(Cooling(c, s, d) \/ AtCap(c, d)) /\ ~(Of(c.lots, d) = {} /\ c.firstMarket)
  <2>1. EnsureSide(c, s, d) = NextLayer(c, s, d, layers)
    BY <1>15 DEF EnsureSide, layers
  <2>2. CASE Pending(c, d) # {}
    <3>1. EnsureSideV2(c, s, d) = {Quiet(s)}
      BY <1>1, <1>2, <1>15, <2>2 DEF EnsureSideV2
    <3> QED
      BY <1>12, <2>1, <2>2, <3>1
  <2>3. CASE Pending(c, d) = {}
    <3>1. EnsureSideV2(c, s, d) = NextLayerV2(c, s, d, layers)
      BY <1>1, <1>2, <1>15, <2>3 DEF EnsureSideV2, layers
    <3> QED
      BY <1>10, <2>1, <2>3, <3>1
  <2> QED
    BY <2>2, <2>3
<1> QED
  BY <1>13, <1>14, <1>15

LEMMA OffGrid ==
  ASSUME NEW c, c.sw = {}, c.price \in Int, IsFiniteSet(c.lots), NEW s
  PROVE  EnsureGridV2(c, s) = EnsureGrid(c, s, IF c.filter THEN ResolveSides(c) ELSE Dirs)
<1> DEFINE sides == IF c.filter THEN ResolveSides(c) ELSE Dirs
<1>1. \A x : ~On(c, x)
  BY DEF On
<1>2. ResolveSidesV2(c, s) = sides
  <2>1. ~PivotAlarm(c)
    BY <1>1, Zenon DEF PivotAlarm
  <2> QED
    BY <1>1, <2>1 DEF ResolveSidesV2
<1> HIDE DEF sides
<1>3. \A d, r : EnsureSideV2(c, r, d) = EnsureSide(c, r, d)
  BY OffSide, OfFinite
<1>4. EnsureGridV2(c, s)
        = UNION {{Joined(a, b) : b \in IF "SHORT" \in sides THEN EnsureSideV2(c, a.st, "SHORT")
                                       ELSE {Quiet(a.st)}}
                 : a \in IF "LONG" \in sides THEN EnsureSideV2(c, s, "LONG") ELSE {Quiet(s)}}
  BY <1>1, <1>2 DEF EnsureGridV2
<1>5. EnsureGridV2(c, s) = EnsureGrid(c, s, sides)
  BY <1>3, <1>4 DEF EnsureGrid
<1> QED
  BY <1>5 DEF sides

\* Two memories that agree on what the first generation keeps, and two outcomes that agree
\* but for them.
Alike(s, t) ==
  /\ Memory(s) /\ Memory(t)
  /\ s.peak = t.peak /\ s.lock = t.lock /\ s.stopped = t.stopped
Like(o, p) ==
  /\ DOMAIN o = Fields /\ DOMAIN p = Fields /\ Alike(o.st, p.st)
  /\ \A x \in Fields \ {"st"} : o[x] = p[x]
Matched(A, B) == \A o \in A : \E p \in B : Like(o, p)

LEMMA LikeVisible == ASSUME NEW o, NEW p, Like(o, p) PROVE Visible(o) = Visible(p)
<1> DEFINE v(x) == [peak |-> x.peak, lock |-> x.lock, stopped |-> x.stopped]
<1>1. v(o.st) = v(p.st)
  BY DEF Like, Alike
<1>2. Visible(o) = [o EXCEPT !.st = v(o.st)] /\ Visible(p) = [p EXCEPT !.st = v(p.st)]
  BY DEF Visible
<1> HIDE DEF v
<1>3. [o EXCEPT !.st = v(o.st)] = [p EXCEPT !.st = v(o.st)]
  BY DEF Like
<1> QED
  BY <1>1, <1>2, <1>3

LEMMA QuietLike == ASSUME NEW s, NEW t, Alike(s, t) PROVE Like(Quiet(s), Quiet(t))
BY DEF Like, Quiet, Fields

\* An outcome, field by field.
Made(s, K, X, F, why, O, P) ==
  [st |-> s, cancel |-> K, close |-> X, failed |-> F, reason |-> why, open |-> O, place |-> P]

LEMMA MadeLike ==
  ASSUME NEW s, NEW t, Alike(s, t), NEW K, NEW X, NEW F, NEW why, NEW O, NEW P
  PROVE  Like(Made(s, K, X, F, why, O, P), Made(t, K, X, F, why, O, P))
BY DEF Like, Made, Fields

LEMMA SideMatched ==
  ASSUME NEW c, NEW s, NEW t, Alike(s, t), NEW d
  PROVE  Matched(EnsureSide(c, s, d), EnsureSide(c, t, d))
<1>1. Cooling(c, s, d) <=> Cooling(c, t, d)
  BY DEF Cooling, Alike
<1>2. CASE Cooling(c, s, d) \/ AtCap(c, d)
  BY <1>1, <1>2, QuietLike DEF EnsureSide, Matched
<1>3. CASE ~(Cooling(c, s, d) \/ AtCap(c, d)) /\ Of(c.lots, d) = {} /\ c.firstMarket
  <2>1. /\ EnsureSide(c, s, d) = FirstAtMarket(c, s, d)
        /\ EnsureSide(c, t, d) = FirstAtMarket(c, t, d)
    BY <1>1, <1>3 DEF EnsureSide
  <2>2. CASE c.bar = s.lock
    BY <2>1, <2>2, QuietLike DEF FirstAtMarket, Matched, Alike
  <2>3. CASE c.bar # s.lock
    <3>1. ASSUME NEW o \in FirstAtMarket(c, s, d) PROVE \E p \in FirstAtMarket(c, t, d) : Like(o, p)
      <4>1. PICK K \in SUBSET Ids(Pending(c, d)), ok \in BOOLEAN : o = AtMarket(c, s, d, K, ok)
        BY <2>3 DEF FirstAtMarket
      <4>2. AtMarket(c, t, d, K, ok) \in FirstAtMarket(c, t, d)
        BY <2>3 DEF FirstAtMarket, Alike
      <4> DEFINE x == IF ok THEN c.bar ELSE 0
                 O == IF ok THEN {[dir |-> d, qty |-> BaseQty]} ELSE {}
                 s2 == [s EXCEPT !.lock = x]
                 t2 == [t EXCEPT !.lock = x]
      <4>3. Alike(s2, t2)
        BY DEF Alike, Memory, Kept
      <4>4. /\ AtMarket(c, s, d, K, ok) = [Quiet(s2) EXCEPT !.cancel = K, !.open = O]
            /\ AtMarket(c, t, d, K, ok) = [Quiet(t2) EXCEPT !.cancel = K, !.open = O]
        BY DEF AtMarket
      <4> HIDE DEF x, O, s2, t2
      <4>5. /\ AtMarket(c, s, d, K, ok) = Made(s2, K, {}, {}, "none", O, {})
            /\ AtMarket(c, t, d, K, ok) = Made(t2, K, {}, {}, "none", O, {})
        BY <4>4 DEF Quiet, Made
      <4> QED
        BY <4>1, <4>2, <4>3, <4>5, MadeLike
    <3> QED
      BY <2>1, <3>1 DEF Matched
  <2> QED
    BY <2>2, <2>3
<1>4. CASE ~(Cooling(c, s, d) \/ AtCap(c, d)) /\ ~(Of(c.lots, d) = {} /\ c.firstMarket)
  <2> DEFINE P == {[dir |-> d, stop |-> StopFor(c, d), qty |-> LayerQty(Layers(c, d))]}
             none == Pending(c, d) # {} \/ ~GoneFar(c, d) \/ StopFor(c, d) <= 0
             side(r) == IF none THEN {Quiet(r)} ELSE {Quiet(r), [Quiet(r) EXCEPT !.place = P]}
  <2>1. EnsureSide(c, s, d) = side(s) /\ EnsureSide(c, t, d) = side(t)
    BY <1>1, <1>4 DEF EnsureSide, NextLayer
  <2> HIDE DEF P, none
  <2>2. Like([Quiet(s) EXCEPT !.place = P], [Quiet(t) EXCEPT !.place = P])
    BY DEF Like, Quiet, Fields
  <2>3. Matched(side(s), side(t))
    BY <2>2, QuietLike DEF Matched
  <2> QED
    BY <2>1, <2>3
<1> QED
  BY <1>2, <1>3, <1>4

LEMMA JoinedLike ==
  ASSUME NEW a, NEW b, NEW x, NEW y, Like(a, x), Like(b, y)
  PROVE  Like(Joined(a, b), Joined(x, y))
BY DEF Like, Joined, Fields

LEMMA GridMatched ==
  ASSUME NEW c, NEW s, NEW t, Alike(s, t), NEW sides
  PROVE  Matched(EnsureGrid(c, s, sides), EnsureGrid(c, t, sides))
<1> DEFINE A(r) == IF "LONG" \in sides THEN EnsureSide(c, r, "LONG") ELSE {Quiet(r)}
           B(r) == IF "SHORT" \in sides THEN EnsureSide(c, r, "SHORT") ELSE {Quiet(r)}
<1>1. \A r : EnsureGrid(c, r, sides) = UNION {{Joined(a, b) : b \in B(a.st)} : a \in A(r)}
  BY DEF EnsureGrid
<1>2. \A r, q : Alike(r, q) => Matched(A(r), A(q)) /\ Matched(B(r), B(q))
  BY SideMatched, QuietLike DEF Matched
<1> HIDE DEF A, B
<1>3. ASSUME NEW o \in EnsureGrid(c, s, sides) PROVE \E p \in EnsureGrid(c, t, sides) : Like(o, p)
  <2>1. PICK a \in A(s) : \E b \in B(a.st) : o = Joined(a, b)
    BY <1>1
  <2>2. PICK b \in B(a.st) : o = Joined(a, b)
    BY <2>1
  <2>3. PICK x \in A(t) : Like(a, x)
    BY <1>2, <2>1 DEF Matched
  <2>4. Alike(a.st, x.st)
    BY <2>3 DEF Like
  <2>5. PICK y \in B(x.st) : Like(b, y)
    BY <1>2, <2>2, <2>4 DEF Matched
  <2>6. Joined(x, y) \in EnsureGrid(c, t, sides)
    BY <1>1, <2>3, <2>5
  <2> QED
    BY <2>2, <2>3, <2>5, <2>6, JoinedLike
<1> QED
  BY <1>3 DEF Matched

LEMMA ExitMatched ==
  ASSUME NEW c, NEW s, NEW t, Alike(s, t), NEW why
  PROVE  Matched(FullExit(c, s, why), FullExit(c, t, why))
<1> DEFINE Left(r, F) == IF F # {} THEN r
                         ELSE [r EXCEPT !.peak = 0, !.stopped = IF why = "STOP_LOSS" THEN c.bar ELSE @]
           Cut(r, K) == [Quiet(r) EXCEPT !.cancel = K]
           Gone(r, F) == [Quiet(Left(r, F)) EXCEPT !.cancel = Ids(c.orders), !.close = Ids(c.lots) \ F,
                                                   !.failed = F, !.reason = why]
<1>1. \A r : FullExit(c, r, why) = IF Waiting(c) THEN {Quiet(r)}
                                   ELSE {Cut(r, K) : K \in CutShort(Ids(c.orders))}
                                        \cup {Gone(r, F) : F \in SUBSET Ids(c.lots)}
  BY DEF FullExit
<1>2. \A K : Like(Cut(s, K), Cut(t, K))
  BY DEF Like, Quiet, Fields
<1>3. \A F : Like(Gone(s, F), Gone(t, F))
  <2>1. \A F : Alike(Left(s, F), Left(t, F))
    BY DEF Alike, Memory, Kept
  <2> TAKE F
  <2> DEFINE s2 == Left(s, F)
             t2 == Left(t, F)
             K == Ids(c.orders)
             X == Ids(c.lots) \ F
  <2>2. /\ Gone(s, F) = [Quiet(s2) EXCEPT !.cancel = K, !.close = X, !.failed = F, !.reason = why]
        /\ Gone(t, F) = [Quiet(t2) EXCEPT !.cancel = K, !.close = X, !.failed = F, !.reason = why]
        /\ Alike(s2, t2)
    BY <2>1
  <2> HIDE DEF s2, t2, K, X, Gone
  <2>3. /\ Gone(s, F) = Made(s2, K, X, F, why, {}, {})
        /\ Gone(t, F) = Made(t2, K, X, F, why, {}, {})
    BY <2>2 DEF Quiet, Made
  <2> QED
    BY <2>2, <2>3, MadeLike
<1> HIDE DEF Left, Cut, Gone
<1>4. ASSUME NEW o \in FullExit(c, s, why) PROVE \E p \in FullExit(c, t, why) : Like(o, p)
  <2>1. CASE Waiting(c)
    BY <1>1, <2>1, QuietLike
  <2>2. CASE ~Waiting(c)
    BY <1>1, <1>2, <1>3, <2>2
  <2> QED
    BY <2>1, <2>2
<1> QED
  BY <1>4 DEF Matched

\* The two generations reach the same decision from memories that agree.
LEMMA OffTick ==
  ASSUME NEW c, c.sw = {}, c.price \in Int, IsFiniteSet(c.lots), NEW s, Memory(s)
  PROVE  Matched(OnTickV2(c, s), OnTickV1(c, s)) /\ Matched(OnTickV1(c, s), OnTickV2(c, s))
<1> DEFINE n == NewBasket(c, s)
           u == IF c.lots = {} THEN n ELSE Armed(c, WithPeak(c, n))
           r == ResetWhenFlat(c, s)
           t == IF c.lots = {} THEN r ELSE WithPeak(c, r)
           sides == IF c.filter THEN ResolveSides(c) ELSE Dirs
           why == IF c.lots = {} THEN "none" ELSE ExitReason(c, t)
           Tick(q) == IF why # "none" THEN FullExit(c, q, why) ELSE EnsureGrid(c, q, sides)
<1>1. \A x : ~On(c, x)
  BY DEF On
<1>2. Alike(u, t)
  <2>1. CASE c.lots = {}
    BY <2>1 DEF Alike, Memory, Kept, NewBasket, ResetWhenFlat
  <2>2. CASE c.lots # {}
    BY <2>2 DEF Alike, Memory, Kept, NewBasket, ResetWhenFlat, Armed, WithPeak
  <2> QED
    BY <2>1, <2>2
<1>3. OnTickV1(c, s) = Tick(t)
  BY DEF OnTickV1
<1>4. OnTickV2(c, s) = AfterExits(c, n)
  <2>1. RefreshRegime(c, s) = {s}
    BY DEF RefreshRegime, NeedsBrain
  <2> DEFINE chain(q) == IF On(c, "chain") /\ c.lots # {}
                         THEN RunExitChain(c, IF c.lots = {} THEN NewBasket(c, q)
                                              ELSE WithPeak(c, NewBasket(c, q)))
                         ELSE {}
             out(q) == IF chain(q) # {} THEN chain(q)
                       ELSE AfterExits(c, IF On(c, "chain") /\ c.lots # {}
                                          THEN AfterChain(c, IF c.lots = {} THEN NewBasket(c, q)
                                                             ELSE WithPeak(c, NewBasket(c, q)))
                                          ELSE NewBasket(c, q))
  <2>2. OnTickV2(c, s) = UNION {out(q) : q \in RefreshRegime(c, s)}
    BY DEF OnTickV2
  <2>3. out(s) = AfterExits(c, n)
    BY <1>1
  <2> HIDE DEF out, n
  <2> QED
    BY <2>1, <2>2, <2>3
<1>5. (IF c.lots = {} THEN "none" ELSE ExitReasonV2(c, u)) = why
  <2>1. u.peak = t.peak
    BY <1>2 DEF Alike
  <2>2. StartNow(c, u) = BasketStart
    BY <1>1 DEF StartNow
  <2> HIDE DEF u, t
  <2>3. ByTrailV2(c, u) <=> ByTrail(c, t)
    BY <1>1, <2>1, <2>2 DEF ByTrailV2, ByTrail
  <2>4. ExitReasonV2(c, u) = ExitReason(c, t)
    BY <2>3 DEF ExitReasonV2, ExitReason
  <2> QED
    BY <2>4
<1>6. AfterExits(c, n) = Tick(u)
  <2>1. EnsureGridV2(c, u) = EnsureGrid(c, u, sides)
    BY OffGrid
  <2> HIDE DEF sides
  <2>2. AfterExits(c, n) = IF why # "none" THEN FullExit(c, u, why) ELSE EnsureGridV2(c, u)
    <3>1. u = IF c.lots = {} THEN n ELSE Armed(c, WithPeak(c, n))
      OBVIOUS
    <3> HIDE DEF n, u, why
    <3> QED
      BY <1>1, <1>5, <3>1 DEF AfterExits
  <2> QED
    BY <2>1, <2>2
<1>7. Alike(t, u)
  BY <1>2 DEF Alike
<1> HIDE DEF n, u, r, t, sides, why
<1>8. \A q, v : Alike(q, v) => Matched(Tick(q), Tick(v))
  BY ExitMatched, GridMatched
<1> QED
  BY <1>2, <1>3, <1>4, <1>6, <1>7, <1>8

\* OffIsV1: with every switch off the second generation does in every context exactly what
\* the first one does, whatever the parameters.
THEOREM OffIsFirst == Spec => []OffIsV1
<1>1. BooksFine => OffIsV1
  <2> SUFFICES ASSUME BooksFine, ctx # <<>>, mode.sw = {}
               PROVE  {Visible(o) : o \in OnTickV2(ctx, st)} = {Visible(o) : o \in OnTickV1(ctx, st)}
    BY DEF OffIsV1
  <2>1. ctx.sw = {} /\ ctx.price \in Int /\ IsFiniteSet(ctx.lots) /\ Memory(st)
    BY DEF BooksFine, ContextFine
  <2> DEFINE A == OnTickV2(ctx, st)
             B == OnTickV1(ctx, st)
  <2>2. Matched(A, B) /\ Matched(B, A)
    BY <2>1, OffTick
  <2> HIDE DEF A, B
  <2>3. {Visible(o) : o \in A} = {Visible(o) : o \in B}
    BY <2>2, LikeVisible DEF Matched
  <2> QED
    BY <2>3 DEF A, B
<1> QED
  BY <1>1, InitBooks, BooksStep, PTL DEF Spec

=============================================================================
