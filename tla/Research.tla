------------------------------ MODULE Research ------------------------------
(***************************************************************************)
(* The algorithms of apps/server/src/backtest/research that decide whether *)
(* a strategy is robust, as the methods `research` and `sweep` of          *)
(* backtest.service.ts run them.  A job is one call: its input is chosen   *)
(* at the start, its step computes the result; only the bootstrap takes    *)
(* several steps, one per block drawn.  Bars, days and folds are numbered  *)
(* from 1.  Performance figures are integers, of which only the order, the *)
(* sums and the ratios matter.  Returns are logarithmic, so an equity is a *)
(* sum of returns and a drawdown a difference.                             *)
(***************************************************************************)
EXTENDS Integers, Sequences, FiniteSets, SequencesExt, FiniteSetsExt

CONSTANTS MaxBars,     \* bound on the length of a history that is split
          MAX_COMBOS,  \* more choices of held-out folds than these are thinned
          Marks,       \* performance figures in the PBO matrices
          Scores,      \* performance figures of the combinations of a sweep
          Returns,     \* logarithmic returns
          Closes       \* daily closes

ASSUME ResearchAssumption ==
    /\ MaxBars \in Nat /\ MAX_COMBOS \in Nat \ {0} /\ Marks \subseteq Int /\ Scores \subseteq Int
    /\ Returns \subseteq Int /\ Closes \subseteq Int

VARIABLE job           \* [kind, in, out]

Abs(x) == IF x < 0 THEN -x ELSE x

----------------------------------------------------------------------------
(* A slice of the history is replayed by a fresh strategy; the figures of  *)
(* its first `warmup` bars are dropped, and a return needs two bars.       *)

SliceFrom(s, first) == IF first > s.warmup THEN first - s.warmup ELSE 1

Judged(s, first, last) == (SliceFrom(s, first) + s.warmup + 1) .. last

\* Walk-forward: a window trains on `train` bars and tests the next `test`.
TrainingEnds(s) ==
    {e \in (s.warmup + s.train) .. (s.bars - s.test) :
        (e - s.warmup - s.train) % s.step = 0}

WalkForward(s) ==
    [e \in TrainingEnds(s) |->
        [train  |-> (e - s.train + 1) .. e,
         judged |-> Judged(s, e + 1, e + s.test)]]

\* CPCV: consecutive folds after the warm-up, of which the last takes the rest.
FoldSize(s) == (s.bars - s.warmup) \div s.folds

FoldFrom(s, f) == s.warmup + (f - 1) * FoldSize(s) + 1

\* Mutant: the last fold is as long as the others.
FoldToEven(s, f) == s.warmup + f * FoldSize(s)

FoldTo(s, f) == IF f = s.folds THEN s.bars ELSE s.warmup + f * FoldSize(s)

FoldJudged(s, f) ==
    IF FoldTo(s, f) - FoldFrom(s, f) + 1 <= s.warmup
      THEN {}
      ELSE LET returns == Judged(s, FoldFrom(s, f), FoldTo(s, f))
           IN  {b \in returns : Cardinality({c \in returns : c < b}) >= s.embargo}

\* The choices of the held-out folds in the order in which they are listed: by the first
\* fold in which they differ.  Too many of them are thinned: every step-th is kept.
Earlier(c, d) == c # d /\ Min((c \ d) \cup (d \ c)) \in c

HeldChoices(s) == kSubset(s.held, 1 .. s.folds)

KeptChoices(s) ==
    LET step == (Cardinality(HeldChoices(s)) + MAX_COMBOS - 1) \div MAX_COMBOS
    IN  {c \in HeldChoices(s) : Cardinality({d \in HeldChoices(s) : Earlier(d, c)}) % step = 0}

\* Every choice that is kept is one out-of-sample path.
Paths(s) == [combo \in KeptChoices(s) |-> [f \in combo |-> FoldJudged(s, f)]]

----------------------------------------------------------------------------
(* PBO: the configuration that is best in one half of the time subsets is  *)
(* ranked among all in the other half.                                     *)

Total(row, subsets) == MapThenSumSet(LAMBDA j : row[j], subsets)

Halves(m) == kSubset((Len(m[1]) + 1) \div 2, DOMAIN m[1])

\* The first of the best.
Winner(m, half) ==
    CHOOSE i \in DOMAIN m :
        /\ \A k \in DOMAIN m : Total(m[k], half) <= Total(m[i], half)
        /\ \A k \in 1 .. (i - 1) : Total(m[k], half) < Total(m[i], half)

\* Ties share the average rank: 2 (N - 1) times the relative rank.
TwiceRank(m, i, rest) ==
    2 * Cardinality({k \in DOMAIN m : Total(m[k], rest) < Total(m[i], rest)})
      + Cardinality({k \in DOMAIN m : Total(m[k], rest) = Total(m[i], rest)}) - 1

\* The logit of the relative rank is negative.
Disappoints(m, half) ==
    TwiceRank(m, Winner(m, half), DOMAIN m[1] \ half) < Len(m) - 1

\* How many of the halves disappoint; the reported figure is n / (all + n).
Cscv(m) == Cardinality({half \in Halves(m) : Disappoints(m, half)})

----------------------------------------------------------------------------
(* The sweep: the champion among the combinations of a grid that traded,   *)
(* and the drop to its neighbours, one grid value away in one dimension.   *)

Combos(grid) == {c \in [DOMAIN grid -> UNION {ToSet(grid[k]) : k \in DOMAIN grid}] :
                    \A k \in DOMAIN grid : c[k] \in ToSet(grid[k])}

Sorted(values) == SortSeq(values, <)

Adjacent(values, v) ==
    LET sorted == Sorted(values)
        at == CHOOSE p \in DOMAIN sorted : sorted[p] = v
    IN  {sorted[p] : p \in DOMAIN sorted \cap {at - 1, at + 1}}

Neighbours(grid, c) ==
    UNION {{[c EXCEPT ![k] = v] : v \in Adjacent(grid[k], c[k])} : k \in DOMAIN grid}

\* A drop of more than a fifth is a lonely peak; a champion of zero has no drop.
Plateau(grid, score, c) ==
    \A n \in Neighbours(grid, c) : 5 * (score[c] - score[n]) <= Abs(score[c]) \/ score[c] = 0

Champions(s) ==
    LET pool == IF s.traded = {} THEN Combos(s.grid) ELSE s.traded
    IN  {c \in pool : \A d \in pool : s.score[d] <= s.score[c]}

----------------------------------------------------------------------------
(* The regime of a day, from the closes; windows of the smallest length    *)
(* the options admit (2 for the trend and the volatility, 3 to look back). *)

DayReturn(closes, d) == closes[d + 1] - closes[d]

\* The squared returns of the two days that end the window with day d.
Unrest(closes, d) ==
    DayReturn(closes, d - 1) * DayReturn(closes, d - 1)
      + DayReturn(closes, d - 2) * DayReturn(closes, d - 2)

Remembered(d) == {e \in (d - 3) .. (d - 1) : e > 2}

Regime(closes, d) ==
    LET trend == 2 * closes[d] - (closes[d] + closes[d - 1])
        calmer == Cardinality({e \in Remembered(d) : Unrest(closes, e) <= Unrest(closes, d)})
        all == Cardinality(Remembered(d))
    IN  CASE trend = 0 -> "neutral"
          [] trend # 0 /\ 5 * calmer > 3 * all -> IF trend > 0 THEN "bull_highvol" ELSE "bear_highvol"
          [] trend # 0 /\ 5 * calmer < 2 * all -> IF trend > 0 THEN "bull_lowvol" ELSE "bear_lowvol"
          [] OTHER -> "neutral"

\* A day is labelled once two look-back values stand behind it.
Labelled(closes) == {d \in DOMAIN closes : d > 3 /\ Cardinality(Remembered(d)) >= 2}

Regimes(closes) == [d \in Labelled(closes) |-> Regime(closes, d)]

----------------------------------------------------------------------------
(* The block bootstrap: blocks of the returns until the length is reached, *)
(* the drawdown kept while they are laid down.                             *)

FreshJob == [drawn |-> <<>>, equity |-> 0, peak |-> 0, dd |-> 0]

Lay(path, r, p) ==
    LET equity == path.equity + r[p]
        peak == IF equity > path.peak THEN equity ELSE path.peak
    IN  [drawn |-> Append(path.drawn, p), equity |-> equity, peak |-> peak,
         dd |-> IF peak - equity > path.dd THEN peak - equity ELSE path.dd]

LayBlock(path, s, start) ==
    LET left == Len(s.returns) - Len(path.drawn)
        size == IF s.block < left THEN s.block ELSE left
    IN  FoldLeft(LAMBDA q, k : Lay(q, s.returns, start + k - 1), path, [k \in 1 .. size |-> k])

----------------------------------------------------------------------------
Splits == [bars : 1 .. MaxBars, warmup : 0 .. 2, train : 1 .. 3, test : 1 .. 3, step : 1 .. 3]

\* Fewer than two bars per fold are refused, and held is cut to the folds.
Foldings == {s \in [bars : 1 .. MaxBars, warmup : 0 .. 2, folds : 2 .. 4, held : 1 .. 2, embargo : 0 .. 1] :
                s.bars - s.warmup >= 2 * s.folds /\ s.held < s.folds}

Grids == {<<<<1, 3, 2>>>>, <<<<2, 1>>, <<1, 2>>>>}

ResearchInit ==
    \/ \E s \in Splits : job = [kind |-> "walk", in |-> s, out |-> <<>>]
    \/ \E s \in Foldings : job = [kind |-> "cpcv", in |-> s, out |-> <<>>]
    \/ \E n \in 2 .. 3 : \E m \in [1 .. n -> [1 .. 4 -> Marks]] :
          job = [kind |-> "pbo", in |-> m, out |-> <<>>]
    \/ \E grid \in Grids : \E score \in [Combos(grid) -> Scores], traded \in SUBSET Combos(grid) :
          job = [kind |-> "sweep", in |-> [grid |-> grid, score |-> score, traded |-> traded], out |-> <<>>]
    \/ \E closes \in [1 .. 6 -> Closes] : job = [kind |-> "regime", in |-> closes, out |-> <<>>]
    \/ \E returns \in [1 .. 4 -> Returns], block \in 1 .. 4 :
          job = [kind |-> "bootstrap", in |-> [returns |-> returns, block |-> block], out |-> FreshJob]

Finish(out) == job' = [job EXCEPT !.out = <<out>>]

SplitForward == job.kind = "walk" /\ job.out = <<>> /\ Finish(WalkForward(job.in))

SplitFolds == job.kind = "cpcv" /\ job.out = <<>> /\ Finish(Paths(job.in))

RankConfigs == job.kind = "pbo" /\ job.out = <<>> /\ Finish(Cscv(job.in))

SweepGrid ==
    /\ job.kind = "sweep" /\ job.out = <<>>
    /\ \E c \in Champions(job.in) :
          Finish([champion |-> c, passed |-> Plateau(job.in.grid, job.in.score, c)])

LabelDays == job.kind = "regime" /\ job.out = <<>> /\ Finish(Regimes(job.in))

DrawBlock ==
    /\ job.kind = "bootstrap" /\ Len(job.out.drawn) < Len(job.in.returns)
    /\ \E start \in 1 .. (Len(job.in.returns) - job.in.block + 1) :
          job' = [job EXCEPT !.out = LayBlock(job.out, job.in, start)]

ResearchNext ==
    SplitForward \/ SplitFolds \/ RankConfigs \/ SweepGrid \/ LabelDays \/ DrawBlock

ResearchSpec == ResearchInit /\ [][ResearchNext]_job

----------------------------------------------------------------------------
Done(kind) == job.kind = kind /\ job.out # <<>>

Between(a, b) == {v \in a .. b : v # a /\ v # b}

\* Every window is judged on bars after its training, where the strategy has a
\* full warm-up behind it; no bar is judged twice when the step is at least the
\* test; and no stretch of the history that a window should test is left out.
\* The out-of-sample paths of CPCV judge every bar after the warm-up but the
\* first ones of each fold, unless there are so many that they are thinned; no
\* more are run than allowed, one at least; and a path never judges a bar twice.
OosIsCausal ==
    /\ Done("walk") =>
          \A e \in DOMAIN job.out[1] :
             LET w == job.out[1][e] IN
             /\ \A b \in w.judged : (\A t \in w.train : t < b) /\ b > job.in.warmup
             /\ Cardinality(w.judged) = job.in.test - 1
             /\ job.in.step >= job.in.test =>
                   \A d \in DOMAIN job.out[1] \ {e} : job.out[1][d].judged \cap w.judged = {}
    /\ Done("cpcv") =>
          LET tested == UNION {UNION Range(job.out[1][c]) : c \in DOMAIN job.out[1]}
              lost == {b \in (job.in.warmup + 1) .. job.in.bars : b \notin tested}
          IN  /\ \A c \in DOMAIN job.out[1] : \A f, g \in c :
                    f # g => job.out[1][c][f] \cap job.out[1][c][g] = {}
              /\ Cardinality(DOMAIN job.out[1]) \in 1 .. MAX_COMBOS
              /\ (FoldSize(job.in) > job.in.warmup /\ Cardinality(HeldChoices(job.in)) <= MAX_COMBOS) =>
                    Cardinality(lost) = job.in.folds * (1 + job.in.embargo)

\* What the count stands for, by the definition of the overfitting probability:
\* a half counts when more configurations do better than its winner in the other
\* half than do worse; and a configuration that is best in every time subset
\* never disappoints.
DisappointmentsCounted ==
    Done("pbo") =>
        LET m == job.in
            lost(half) == \E i \in DOMAIN m :
                LET rest == DOMAIN m[1] \ half
                    better == {k \in DOMAIN m : Total(m[k], rest) > Total(m[i], rest)}
                    worse == {k \in DOMAIN m : Total(m[k], rest) < Total(m[i], rest)}
                IN  i = Winner(m, half) /\ Cardinality(better) > Cardinality(worse)
        IN  /\ job.out[1] = Cardinality({half \in Halves(m) : lost(half)})
            /\ (\E i \in DOMAIN m : \A k \in DOMAIN m \ {i}, j \in DOMAIN m[1] : m[i][j] > m[k][j])
                  => job.out[1] = 0

\* A champion is rejected exactly when a combination that differs from it in one
\* parameter, with no grid value in between, does worse by more than a fifth: the
\* worst of its neighbours decides.  (The comment at the head of plateau.ts says that
\* the best of them does: it would let a champion with one good and one bad neighbour
\* pass, which the code rejects.)
PeakIsRejected ==
    Done("sweep") =>
        LET grid == job.in.grid
            c == job.out[1].champion
            near(d) == \E k \in DOMAIN grid :
                          /\ d[k] # c[k] /\ \A l \in DOMAIN grid \ {k} : d[l] = c[l]
                          /\ ToSet(grid[k]) \cap (Between(c[k], d[k]) \cup Between(d[k], c[k])) = {}
        IN  /\ (~job.out[1].passed <=>
                   /\ job.in.score[c] # 0
                   /\ \E d \in Combos(grid) :
                         near(d) /\ 5 * (job.in.score[c] - job.in.score[d]) > Abs(job.in.score[c]))
            /\ \A d \in job.in.traded : c \in job.in.traded /\ job.in.score[d] <= job.in.score[c]

\* The label of a day does not change when later closes do.
LabelsLookBack ==
    Done("regime") =>
        \A d \in DOMAIN job.out[1], x \in Closes :
            Regime([k \in DOMAIN job.in |-> IF k > d THEN x ELSE job.in[k]], d) = job.out[1][d]

\* The drawdown reported for a path is the worst fall between two of its points.
DrawdownIsWorst ==
    job.kind = "bootstrap" =>
        LET equity(n) == MapThenSumSet(LAMBDA k : job.in.returns[job.out.drawn[k]], 1 .. n)
            points == 0 .. Len(job.out.drawn)
        IN  /\ Len(job.out.drawn) <= Len(job.in.returns)
            /\ job.out.dd = Max({equity(p[1]) - equity(p[2]) :
                                   p \in {q \in points \X points : q[1] <= q[2]}})

\* The result of every job means what the judgement takes it for.
ResultsHold ==
    OosIsCausal /\ DisappointmentsCounted /\ PeakIsRejected /\ LabelsLookBack /\ DrawdownIsWorst
=============================================================================
