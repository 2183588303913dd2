---------------------------- MODULE BasketsProofs ----------------------------
(***************************************************************************)
(* Baskets, for any lots, instances, tasks and protections: types, that    *)
(* what an instance opened stays its own and in its baskets, and, for      *)
(* every basket on which tasks did not meet, that its row tells of its     *)
(* lots, that its closing is announced once, and that an instance which    *)
(* has lost too much is stopped.                                           *)
(*                                                                         *)
(* The argument: while a basket is `clean` one task at most is at work on  *)
(* it, from the opening or closing of a lot to the saving of the totals    *)
(* computed after it, and its lots change by nobody else; so the row is    *)
(* true whenever nobody is at work, and open whenever somebody is.         *)
(***************************************************************************)
EXTENDS Baskets, FiniteSetTheorems, SequenceTheorems, WellFoundedInduction, TLAPS

Placing == {"resolve", "code", "create", "attach"}
Holding == {"attach", "origin", "lots", "funding", "save"}
Working == {"next", "lots", "funding", "save"}
Reading == {"settle", "archive", "claim"}

\* The lots of basket b in the table tbl.
LotsIn(tbl, b) == [l \in {k \in Lots : tbl[k].basket = b} |-> tbl[l]]

\* The row tells of the lots v.
Tells(row, v) ==
  /\ row.layers = Cardinality(DOMAIN v)
  /\ row.realized = SumFunction([l \in {k \in DOMAIN v : v[k].st = "CLOSED"} |-> v[l].pnl])
  /\ row.st = "CLOSED" <=> \A l \in DOMAIN v : v[l].st = "CLOSED"

\* A lot that a task read belongs to whom its basket does.
PairFits(e, tbl, rows) ==
  /\ tbl[e[1]].st # "NONE"
  /\ tbl[e[1]].opener # Manual => e[3] = tbl[e[1]].opener
  /\ e[2] # NoBasket => /\ e[2] \in DOMAIN rows
                        /\ tbl[e[1]].opener # Manual => rows[e[2]].inst = tbl[e[1]].opener

\* A lot as it is in the table.
AsIs(tbl, l) == <<l, tbl[l].basket, tbl[l].inst>>

\* What the local variables t of a task rely on, given the tables.
Fits(t, tbl, rows) ==
  /\ t.pc \in Placing \cup {"origin"} => tbl[t.lot].st # "NONE"
  /\ t.pc \in Placing => tbl[t.lot].basket = NoBasket /\ t.todo = {}
  /\ t.pc = "create" => t.basket \in 1..(Len(rows) + 1)
  /\ t.pc \in Holding => t.basket \in DOMAIN rows /\ t.row.inst = rows[t.basket].inst
  /\ t.pc \in {"attach", "origin"} /\ tbl[t.lot].opener # Manual => t.row.inst = tbl[t.lot].opener
  /\ t.pc = "origin" => t.todo = {<<t.lot, t.basket, tbl[t.lot].opener>>}
  /\ \A e \in t.todo : PairFits(e, tbl, rows)
  /\ t.pc \in Reading => \A e, f \in t.todo : e[1] = f[1] => e = f

\* No two tasks place the same lot, and a lot that is being placed has been
\* read without a basket, if at all.
Apart(t, u) ==
  t.pc \in Placing =>
    /\ u.pc \in Placing => t.lot # u.lot
    /\ \A e \in u.todo : e[1] = t.lot => e[2] = NoBasket

\* The lots that have had their chance of a new basket: there is one for each
\* basket, so the baskets are never more than the lots.
Placed(tbl, tasks) ==
  {l \in Lots : tbl[l].st # "NONE"
                /\ \A w \in Tasks : tasks[w].pc \in {"resolve", "code", "create"} => tasks[w].lot # l}

WorksOn(t, b) ==
  \/ t.pc \in Holding /\ t.basket = b
  \/ t.pc \in Working /\ \E e \in t.todo : e[2] = b

\* What the task holds of a clean basket b with the row r and the lots v.
HoldsTrue(t, b, r, v) ==
  /\ t.pc \in Holding \cup {"next"} => \A e, f \in t.todo : e[2] = b /\ f[2] = b => e = f
  /\ t.pc \in Reading => \A e \in t.todo : e[2] = b => e[1] \in DOMAIN v
  /\ WorksOn(t, b) => r.st = "OPEN" /\ (t.pc # "attach" => v # << >>)
  /\ t.pc \in {"attach", "origin", "lots"} /\ t.basket = b => t.row = r
  /\ t.pc \in {"lots", "funding", "save"} /\ t.basket = b =>
       ~t.wasClosed /\ \A e \in t.todo : e[2] # b
  /\ t.pc \in {"funding", "save"} /\ t.basket = b => Tells(t.row, v)

Clean(b) ==
  /\ \A v, w \in Tasks : WorksOn(task[v], b) /\ WorksOn(task[w], b) => v = w
  /\ \A w \in Tasks : HoldsTrue(task[w], b, baskets[b], LotsIn(lots, b))
  /\ (\A w \in Tasks : ~WorksOn(task[w], b)) =>
       Tells(baskets[b], LotsIn(lots, b)) /\ LotsIn(lots, b) # << >>
  /\ announced[b] = IF baskets[b].st = "CLOSED" THEN 1 ELSE 0

\* Nothing that an instance is to be stopped for waits unjudged, unless tasks
\* met on one of its baskets.
Judgement(i) ==
  /\ i \in running \ unjudged
  /\ \A e \in evals : e[1] # i
  /\ \A b \in DOMAIN baskets \cap mixed : baskets[b].inst # i
  => ~Halts(Nets(Closed(i)))

\* The inductive invariant.
AllFit == \A w \in Tasks : Fits(task[w], lots, baskets)
AllApart == \A v, w \in Tasks : v # w => Apart(task[v], task[w])
AllOwned == \A l \in Lots : lots[l].basket # NoBasket => PairFits(AsIs(lots, l), lots, baskets)
AllKept == \A l \in Lots : lots[l].opener # Manual => lots[l].inst = lots[l].opener
Counted == Len(baskets) <= Cardinality(Placed(lots, task))
AllClean == \A b \in DOMAIN baskets \ mixed : Clean(b)
Unannounced == \A b \in BasketIds \ DOMAIN baskets : announced[b] = 0
AllJudged == \A i \in Instances : Judgement(i)

IInv == TypeOK /\ AllFit /\ AllApart /\ AllOwned /\ AllKept /\ Counted /\ AllClean /\ Unannounced /\ AllJudged

-----------------------------------------------------------------------------
(* Numbers and tables *)

LEMMA Sizes ==
  /\ IsFiniteSet(Lots) /\ Cardinality(Lots) \in Nat /\ Lots \subseteq Nat /\ BasketIds \subseteq Nat
  /\ NoBasket \notin BasketIds /\ NoBasket \in Nat /\ 0 \in Times
BY BasketsAssumption, FS_CardinalityType DEF BasketIds, NoBasket, Times

\* Every set of numbers has a least one: the form of induction used below.
LEMMA Least ==
  ASSUME NEW T, T \subseteq Nat, T # {}
  PROVE  \E x \in T : \A y \in T : x <= y
<1> DEFINE R == OpToRel(<, Nat)
<1>1. IsWellFoundedOn(R, Nat)
  BY NatLessThanWellFounded
<1>2. PICK x \in T : \A y \in T : ~(<<y, x>> \in R)
  <2> HIDE DEF R
  <2> QED
    BY <1>1, WFMin
<1>3. \A y \in T : ~(y < x)
  BY <1>2 DEF OpToRel
<1> QED
  BY <1>3

\* The newest of some baskets, or the lot opened last, is one of them.
LEMMA Greatest ==
  ASSUME NEW n \in Nat, NEW S, S \subseteq 1..n, S # {}
  PROVE  Max(S) \in S
<1> DEFINE T == {n - y : y \in S}
<1>1. PICK x \in T : \A z \in T : x <= z
  <2>1. PICK y \in S : TRUE
    OBVIOUS
  <2>2. n - y \in T /\ T \subseteq Nat
    OBVIOUS
  <2> QED
    BY <2>2, Least
<1>2. n - x \in S /\ \A y \in S : n - x >= y
  BY <1>1
<1>3. \E m \in S : \A y \in S : m >= y
  BY <1>2
<1> QED
  BY <1>3 DEF Max

\* Integers have an integer sum.  The library sums along a function that is
\* recursive on the subsets of the domain: it exists ...
Step(f, g, s) == IF s = {} THEN 0 ELSE LET x == CHOOSE y \in s : TRUE IN f[x] + g[s \ {x}]

LEMMA SumsExist ==
  ASSUME NEW D, IsFiniteSet(D), NEW f \in [D -> Int]
  PROVE  \E g \in [SUBSET D -> Int] : \A s \in SUBSET D : g[s] = Step(f, g, s)
<1> DEFINE Upto(m) == \E g \in [SUBSET D -> Int] :
                        \A s \in SUBSET D : Cardinality(s) <= m => g[s] = Step(f, g, s)
           T == {m \in Nat : ~Upto(m)}
<1>1. \A s \in SUBSET D : IsFiniteSet(s) /\ Cardinality(s) \in Nat /\ Cardinality(s) <= Cardinality(D)
  BY FS_Subset, FS_CardinalityType
<1>2. Upto(0)
  <2>1. [s \in SUBSET D |-> 0] \in [SUBSET D -> Int]
    OBVIOUS
  <2>2. \A s \in SUBSET D : Cardinality(s) <= 0 => s = {}
    BY <1>1, FS_EmptySet
  <2> QED
    BY <2>1, <2>2 DEF Step
<1>3. ASSUME NEW m \in Nat, Upto(m) PROVE Upto(m + 1)
  <2>1. PICK g \in [SUBSET D -> Int] : \A s \in SUBSET D : Cardinality(s) <= m => g[s] = Step(f, g, s)
    BY <1>3
  <2> DEFINE h == [s \in SUBSET D |-> Step(f, g, s)]
  <2>2. ASSUME NEW s \in SUBSET D, s # {}
        PROVE  LET x == CHOOSE y \in s : TRUE IN
               x \in s /\ s \ {x} \in SUBSET D /\ Cardinality(s \ {x}) = Cardinality(s) - 1
    BY <1>1, <2>2, FS_RemoveElement
  <2>3. h \in [SUBSET D -> Int]
    BY <2>2 DEF Step
  <2>4. ASSUME NEW s \in SUBSET D, Cardinality(s) <= m + 1 PROVE h[s] = Step(f, h, s)
    <3>1. CASE s = {}
      BY <3>1 DEF Step
    <3>2. CASE s # {}
      <4> DEFINE x == CHOOSE y \in s : TRUE
      <4>1. s \ {x} \in SUBSET D /\ Cardinality(s \ {x}) <= m
        BY <1>1, <2>2, <2>4, <3>2
      <4>2. h[s \ {x}] = g[s \ {x}]
        BY <2>1, <4>1
      <4> QED
        BY <3>2, <4>2 DEF Step
    <3> QED
      BY <3>1, <3>2
  <2> QED
    BY <2>3, <2>4
<1>4. \A m \in Nat : Upto(m)
  <2> SUFFICES ASSUME T # {} PROVE FALSE
    OBVIOUS
  <2>1. PICK x \in T : \A y \in T : x <= y
    <3> HIDE DEF Upto
    <3> QED
      BY Least
  <2> HIDE DEF Upto
  <2>2. x # 0
    BY <1>2, <2>1
  <2>3. x - 1 \in Nat /\ Upto(x - 1)
    BY <2>1, <2>2
  <2> QED
    BY <1>3, <2>1, <2>3
<1>5. PICK g \in [SUBSET D -> Int] :
        \A s \in SUBSET D : Cardinality(s) <= Cardinality(D) => g[s] = Step(f, g, s)
  BY <1>1, <1>4
<1> QED
  BY <1>1, <1>5

\* ... and gives integers only.
LEMMA SumIsInt ==
  ASSUME NEW D, IsFiniteSet(D), NEW f \in [D -> Int]
  PROVE  SumFunction(f) \in Int
<1> DEFINE R(g) == g = [s \in SUBSET D |-> Step(f, g, s)]
           sum == CHOOSE g : R(g)
           T == {m \in Nat : \E s \in SUBSET D : Cardinality(s) = m /\ sum[s] \notin Int}
<1>1. \A s \in SUBSET D : IsFiniteSet(s) /\ Cardinality(s) \in Nat
  BY FS_Subset, FS_CardinalityType
<1>2. R(sum)
  <2>1. \E g : R(g)
    <3>1. PICK g \in [SUBSET D -> Int] : \A s \in SUBSET D : g[s] = Step(f, g, s)
      BY SumsExist
    <3>2. g = [s \in SUBSET D |-> Step(f, g, s)]
      BY <3>1
    <3> QED
      BY <3>2
  <2> QED
    BY <2>1
<1> HIDE DEF sum
<1>3. \A s \in SUBSET D : sum[s] = Step(f, sum, s)
  BY <1>2
<1>4. T = {}
  <2> SUFFICES ASSUME T # {} PROVE FALSE
    OBVIOUS
  <2>1. PICK m \in T : \A y \in T : m <= y
    BY Least
  <2>2. PICK s \in SUBSET D : Cardinality(s) = m /\ sum[s] \notin Int
    BY <2>1
  <2>3. s # {}
    BY <1>3, <2>2 DEF Step
  <2> DEFINE x == CHOOSE y \in s : TRUE
  <2>4. x \in s /\ s \ {x} \in SUBSET D /\ Cardinality(s \ {x}) = m - 1 /\ m - 1 \in Nat
    <3>1. x \in s /\ s \ {x} \in SUBSET D
      BY <2>3
    <3>2. Cardinality(s \ {x}) = Cardinality(s) - 1
      BY <1>1, <3>1, FS_RemoveElement
    <3> QED
      BY <1>1, <2>2, <3>1, <3>2
  <2>5. m - 1 \notin T
    BY <2>1, <2>4
  <2>6. sum[s \ {x}] \in Int
    BY <2>4, <2>5
  <2> QED
    BY <1>3, <2>2, <2>3, <2>4, <2>6 DEF Step
<1>5. sum[D] \in Int
  <2>1. D \in SUBSET D /\ Cardinality(D) \in Nat
    BY <1>1
  <2> QED
    BY <1>4, <2>1
<1>6. SumFunction(f) = sum[D]
  BY DEF SumFunction, SumFunctionOnSet, FoldFunctionOnSet, MapThenFoldSet, sum, Step
<1> QED
  BY <1>5, <1>6

-----------------------------------------------------------------------------
(* Rows *)

LEMMA LotsInFacts ==
  ASSUME NEW tbl, NEW b
  PROVE  /\ DOMAIN LotsIn(tbl, b) = {l \in Lots : tbl[l].basket = b}
         /\ \A l \in DOMAIN LotsIn(tbl, b) : LotsIn(tbl, b)[l] = tbl[l]
         /\ LotsIn(tbl, b) # << >> <=> \E l \in Lots : tbl[l].basket = b
<1>1. /\ DOMAIN LotsIn(tbl, b) = {l \in Lots : tbl[l].basket = b}
      /\ \A l \in DOMAIN LotsIn(tbl, b) : LotsIn(tbl, b)[l] = tbl[l]
  BY DEF LotsIn
<1>2. ASSUME LotsIn(tbl, b) # << >> PROVE DOMAIN LotsIn(tbl, b) # {}
  <2> SUFFICES ASSUME {l \in Lots : tbl[l].basket = b} = {} PROVE FALSE
    BY <1>1
  <2>1. LotsIn(tbl, b) = [l \in {} |-> tbl[l]]
    BY DEF LotsIn
  <2>2. << >> = [l \in {} |-> tbl[l]]
    OBVIOUS
  <2> QED
    BY <1>2, <2>1, <2>2
<1>3. DOMAIN << >> = {}
  OBVIOUS
<1> QED
  BY <1>1, <1>2, <1>3

\* The lots of a basket are told of by the row that was computed from them.
LEMMA RecomputedTells ==
  ASSUME TypeOK, NEW row \in BasketRow, NEW b \in BasketIds, LotsOf(b) # {}
  PROVE  LET new == Recomputed(row, LotsOf(b)) IN
         /\ new \in BasketRow
         /\ new.inst = row.inst
         /\ row.st = "OPEN" => Tells(new, LotsIn(lots, b))
         /\ row.st = "OPEN" => (new.st = "CLOSED" <=> \A l \in LotsOf(b) : lots[l].st = "CLOSED")
<1> DEFINE S == LotsOf(b)
           C == {l \in S : lots[l].st = "CLOSED"}
           v == LotsIn(lots, b)
           new == Recomputed(row, S)
<1>1. S \subseteq Lots /\ C \subseteq Lots /\ IsFiniteSet(S) /\ IsFiniteSet(C)
  BY Sizes, FS_Subset DEF LotsOf
<1>2. Cardinality(S) \in 0..Cardinality(Lots)
  BY <1>1, Sizes, FS_Subset, FS_CardinalityType
<1>3. Results(C) \in Int
  <2>1. [l \in C |-> lots[l].pnl] \in [C -> Int]
    BY <1>1 DEF TypeOK, LotRow
  <2> QED
    BY <1>1, <2>1, SumIsInt DEF Results
<1>4. lots[Max(S)].closedAt \in Times
  <2>1. Max(S) \in S
    BY <1>1, Sizes, Greatest, BasketsAssumption
  <2> QED
    BY <1>1, <2>1 DEF TypeOK, LotRow
<1>5. DOMAIN v = S /\ \A l \in S : v[l] = lots[l]
  BY DEF LotsOf, LotsIn
<1>6. Results(C) = SumFunction([l \in {k \in DOMAIN v : v[k].st = "CLOSED"} |-> v[l].pnl])
  <2>1. {k \in DOMAIN v : v[k].st = "CLOSED"} = C
    BY <1>5
  <2>2. [l \in C |-> v[l].pnl] = [l \in C |-> lots[l].pnl]
    BY <1>5
  <2> QED
    BY <2>1, <2>2 DEF Results
<1>7. C # S <=> ~\A l \in S : lots[l].st = "CLOSED"
  OBVIOUS
<1>8. new = IF C # S THEN [row EXCEPT !.layers = Cardinality(S), !.realized = Results(C)]
            ELSE [row EXCEPT !.layers = Cardinality(S), !.realized = Results(C), !.st = "CLOSED",
                             !.closedAt = IF row.closedAt # 0 THEN row.closedAt ELSE lots[Max(S)].closedAt]
  BY DEF Recomputed, BasketRow
<1> HIDE DEF S, C, v, new
<1>9. new \in BasketRow /\ new.inst = row.inst
  BY <1>2, <1>3, <1>4, <1>8 DEF BasketRow
<1>10. /\ new.layers = Cardinality(S) /\ new.realized = Results(C)
       /\ new.st = IF C # S THEN row.st ELSE "CLOSED"
  BY <1>8 DEF BasketRow
<1>11. row.st = "OPEN" => Tells(new, v)
  BY <1>5, <1>6, <1>7, <1>10 DEF Tells
<1> QED
  BY <1>7, <1>9, <1>10, <1>11 DEF S, v, new

-----------------------------------------------------------------------------
(* What a step leaves as it was *)

\* Nothing that other tasks rely on is lost: lots and baskets keep their owners.
Grown(tbl, new, rows, more) ==
  /\ \A l \in Lots : tbl[l].st # "NONE" => new[l].st # "NONE" /\ new[l].opener = tbl[l].opener
  /\ Len(rows) \in Nat /\ Len(more) \in Nat /\ Len(rows) <= Len(more)
  /\ DOMAIN rows = 1..Len(rows) /\ DOMAIN more = 1..Len(more)
  /\ \A b \in DOMAIN rows : more[b].inst = rows[b].inst

LEMMA PairStaysFit ==
  ASSUME NEW e, e[1] \in Lots, NEW tbl, NEW new, NEW rows, NEW more,
         Grown(tbl, new, rows, more), PairFits(e, tbl, rows)
  PROVE  PairFits(e, new, more)
BY DEF Grown, PairFits

LEMMA StaysFit ==
  ASSUME NEW t \in Task, NEW tbl, NEW new, NEW rows, NEW more,
         Grown(tbl, new, rows, more), Fits(t, tbl, rows),
         t.pc \in Placing => new[t.lot].basket = NoBasket
  PROVE  Fits(t, new, more)
<1>1. t.lot \in Lots /\ \A e \in t.todo : e[1] \in Lots
  BY DEF Task, InMemory
<1>2. \A e \in t.todo : PairFits(e, new, more)
  BY <1>1, PairStaysFit DEF Fits
<1>3. t.pc = "create" => t.basket \in 1..(Len(more) + 1)
  BY DEF Fits, Grown
<1>4. /\ t.pc \in Placing \cup {"origin"} => new[t.lot].st # "NONE"
      /\ t.pc \in {"attach", "origin"} /\ new[t.lot].opener # Manual => t.row.inst = new[t.lot].opener
      /\ t.pc = "origin" => t.todo = {<<t.lot, t.basket, new[t.lot].opener>>}
  BY <1>1 DEF Fits, Grown, Placing
<1>5. t.pc \in Holding => t.basket \in DOMAIN more /\ t.row.inst = more[t.basket].inst
  BY DEF Fits, Grown
<1> QED
  BY <1>2, <1>3, <1>4, <1>5 DEF Fits

\* A clean basket stays clean in a step of w that has nothing to do with it.
Aside(w, b) ==
  /\ \A v \in Tasks \ {w} : task'[v] = task[v]
  /\ ~WorksOn(task[w], b) /\ ~WorksOn(task'[w], b)
  /\ HoldsTrue(task'[w], b, baskets[b], LotsIn(lots, b))
  /\ LotsIn(lots', b) = LotsIn(lots, b) /\ baskets'[b] = baskets[b] /\ announced'[b] = announced[b]

LEMMA CleanAside ==
  ASSUME NEW w \in Tasks, NEW b, Clean(b), Aside(w, b)
  PROVE  Clean(b)'
<1>1. \A v \in Tasks : WorksOn(task'[v], b) <=> WorksOn(task[v], b)
  BY DEF Aside
<1>2. \A v \in Tasks : HoldsTrue(task'[v], b, baskets'[b], LotsIn(lots', b))
  BY DEF Aside, Clean
<1> QED
  BY <1>1, <1>2 DEF Aside, Clean

\* A judgement stands while the closed baskets of the instance do.
LEMMA JudgementStands ==
  ASSUME NEW i \in Instances, Judgement(i), Closed(i)' = Closed(i),
         i \in running' \ unjudged' => i \in running \ unjudged,
         i \in running' \ unjudged' =>
           \A e \in evals : e[1] = i => \E f \in evals' : f[1] = i,
         \A b \in DOMAIN baskets \cap mixed :
           b \in DOMAIN baskets' \cap mixed' /\ baskets'[b].inst = baskets[b].inst
  PROVE  Judgement(i)'
<1> SUFFICES ASSUME /\ i \in running' \ unjudged'
                    /\ \A e \in evals' : e[1] # i
                    /\ \A b \in DOMAIN baskets' \cap mixed' : baskets'[b].inst # i
             PROVE  ~Halts(Nets(Closed(i)'))
  BY DEF Judgement
<1> QED
  BY DEF Judgement

\* What a clean basket needs when w is the only one who works on it.
LEMMA CleanWorked ==
  ASSUME NEW w \in Tasks, NEW b, Clean(b),
         \A v \in Tasks \ {w} : task'[v] = task[v] /\ ~WorksOn(task[v], b),
         HoldsTrue(task'[w], b, baskets'[b], LotsIn(lots', b)),
         DOMAIN LotsIn(lots, b) \subseteq DOMAIN LotsIn(lots', b),
         ~WorksOn(task'[w], b) => Tells(baskets'[b], LotsIn(lots', b)) /\ LotsIn(lots', b) # << >>,
         announced'[b] = IF baskets'[b].st = "CLOSED" THEN 1 ELSE 0
  PROVE  Clean(b)'
<1>1. \A v \in Tasks : WorksOn(task'[v], b) => v = w
  OBVIOUS
<1>2. \A v \in Tasks \ {w} : HoldsTrue(task'[v], b, baskets'[b], LotsIn(lots', b))
  BY DEF Clean, HoldsTrue, WorksOn, Holding, Working, Reading
<1> QED
  BY <1>1, <1>2 DEF Clean

LEMMA Domains ==
  ASSUME TypeOK
  PROVE  /\ Len(baskets) \in Nat /\ DOMAIN baskets = 1..Len(baskets) /\ DOMAIN baskets \subseteq BasketIds
         /\ \A b \in DOMAIN baskets : baskets[b] \in BasketRow
BY Sizes DEF TypeOK, BasketIds

\* As many lots have been placed as before, or more.
LEMMA StillCounted ==
  ASSUME Counted, TypeOK, Len(baskets') = Len(baskets), Placed(lots, task) \subseteq Placed(lots', task')
  PROVE  Counted'
<1>1. IsFiniteSet(Placed(lots', task'))
  BY Sizes, FS_Subset DEF Placed
<1>2. Cardinality(Placed(lots, task)) <= Cardinality(Placed(lots', task'))
  BY <1>1, FS_Subset
<1>3. Cardinality(Placed(lots, task)) \in Nat /\ Cardinality(Placed(lots', task')) \in Nat
  BY <1>1, FS_Subset, FS_CardinalityType
<1> QED
  BY <1>2, <1>3, Domains DEF Counted

\* A step that changes no more than the local variables of w, and perhaps which
\* baskets are mixed.
LEMMA TaskOnly ==
  ASSUME IInv, NEW w \in Tasks, NEW t \in Task, Do(w, t),
         UNCHANGED <<lots, baskets, running, evals, unjudged, now, crashes, announced>>,
         mixed \subseteq mixed', mixed' \subseteq BasketIds,
         Fits(t, lots, baskets),
         \A v \in Tasks \ {w} : Apart(t, task[v]) /\ Apart(task[v], t),
         t.pc \in {"resolve", "code", "create"} =>
           task[w].pc \in {"resolve", "code", "create"} /\ t.lot = task[w].lot,
         \A b \in DOMAIN baskets \ mixed' : Clean(b) => Clean(b)'
  PROVE  IInv'
<1>1. task' = [task EXCEPT ![w] = t] /\ task \in [Tasks -> Task]
  BY DEF Do, IInv, TypeOK
<1>2. TypeOK'
  BY <1>1 DEF IInv, TypeOK
<1>3. AllFit'
  BY <1>1 DEF IInv, AllFit
<1>4. AllApart'
  BY <1>1 DEF IInv, AllApart
<1>5. AllOwned' /\ AllKept' /\ Unannounced'
  BY DEF IInv, AllOwned, AllKept, AsIs, Unannounced
<1>6. Counted'
  <2>1. Placed(lots, task) \subseteq Placed(lots', task')
    BY <1>1 DEF Placed
  <2> QED
    BY <2>1, StillCounted DEF IInv
<1>7. AllClean'
  BY DEF IInv, AllClean
<1>8. AllJudged'
  <2>1. \A i \in Instances : Closed(i)' = Closed(i)
    BY DEF Closed
  <2> QED
    BY <2>1, JudgementStands DEF IInv, AllJudged
<1> QED
  BY <1>2, <1>3, <1>4, <1>5, <1>6, <1>7, <1>8 DEF IInv

LEMMA IdleFacts ==
  /\ Idle \in Task /\ Idle.pc = "idle" /\ Idle.todo = {} /\ Idle.basket = NoBasket
  /\ \A tbl, rows : Fits(Idle, tbl, rows)
  /\ \A t : Apart(Idle, t) /\ Apart(t, Idle)
  /\ \A b, r, v : ~WorksOn(Idle, b) /\ HoldsTrue(Idle, b, r, v)
<1>1. (CHOOSE l \in Lots : TRUE) \in Lots
  BY BasketsAssumption
<1>2. NoRow \in BasketRow
  BY Sizes, BasketsAssumption DEF NoRow, BasketRow, Owners, Times
<1>3. Idle \in Task /\ Idle.pc = "idle" /\ Idle.todo = {} /\ Idle.basket = NoBasket
  BY <1>1, <1>2 DEF Idle, Task, InMemory, Steps
<1> QED
  BY <1>3 DEF Fits, Apart, WorksOn, HoldsTrue, Placing, Holding, Working, Reading

\* Between two recomputations.
Between(t, todo) == t \in Task /\ t.todo = todo /\ t.pc = IF todo = {} THEN "idle" ELSE "next"

LEMMA Proceeds ==
  ASSUME TypeOK, NEW w \in Tasks, NEW todo \in SUBSET InMemory,
         Proceed(w, todo)
  PROVE  \E t : Do(w, t) /\ Between(t, todo)
<1>1. CASE todo = {}
  BY <1>1, IdleFacts DEF Proceed, Between
<1>2. CASE todo # {}
  <2> DEFINE t == [Idle EXCEPT !.pc = "next", !.todo = todo]
  <2>1. t \in Task /\ t.pc = "next" /\ t.todo = todo
    BY IdleFacts DEF TypeOK, Task, InMemory, Steps
  <2> QED
    BY <1>2, <2>1 DEF Proceed, Between
<1> QED
  BY <1>1, <1>2

LEMMA BetweenFacts ==
  ASSUME NEW todo, NEW t, Between(t, todo)
  PROVE  /\ \A tbl, rows : (\A e \in todo : PairFits(e, tbl, rows)) => Fits(t, tbl, rows)
         /\ \A u : Apart(t, u)
         /\ \A u : (u.pc \in Placing => \A e \in todo : e[1] = u.lot => e[2] = NoBasket) => Apart(u, t)
         /\ t.pc \notin {"resolve", "code", "create"}
         /\ \A b : WorksOn(t, b) <=> \E e \in todo : e[2] = b
         /\ \A b, r, v : /\ \A e, f \in todo : e[2] = b /\ f[2] = b => e = f
                         /\ (\E e \in todo : e[2] = b) => r.st = "OPEN" /\ v # << >>
                         => HoldsTrue(t, b, r, v)
BY DEF Between, Fits, Apart, WorksOn, HoldsTrue, Placing, Holding, Working, Reading

-----------------------------------------------------------------------------
(* The steps *)

LEMMA InitInvariant == Init => IInv
<1> SUFFICES ASSUME Init PROVE IInv
  OBVIOUS
<1>1. TypeOK
  <2>1. baskets \in Seq(BasketRow) /\ Len(baskets) = 0
    BY DEF Init
  <2> QED
    BY <2>1, Sizes, IdleFacts, BasketsAssumption DEF Init, TypeOK, LotRow, Owners, Times
<1>2. AllFit /\ AllApart
  BY IdleFacts DEF Init, AllFit, AllApart
<1>3. DOMAIN baskets = {} /\ Len(baskets) = 0
  BY DEF Init
<1>4. Counted
  <2>1. IsFiniteSet(Placed(lots, task))
    BY Sizes, FS_Subset DEF Placed
  <2> QED
    BY <1>3, <2>1, FS_CardinalityType DEF Counted
<1> QED
  BY <1>1, <1>2, <1>3, <1>4 DEF Init, IInv, AllOwned, AllKept, AllClean, Unannounced, AllJudged, Judgement

\* Reading lots that are to be closed.
LEMMA ReadStep ==
  ASSUME IInv, NEW w \in Tasks, At(w, "idle"), NEW S \in SUBSET OpenLots,
         NEW owner \in [S -> Owners], \A l \in S : lots[l].opener # Manual => owner[l] = lots[l].opener,
         NEW pc \in Reading,
         Do(w, [Idle EXCEPT !.pc = pc, !.todo = {<<l, lots[l].basket, owner[l]>> : l \in S}]),
         UNCHANGED <<lots, baskets, breaker, now, crashes, announced, mixed>>
  PROVE  IInv'
<1> DEFINE read == {<<l, lots[l].basket, owner[l]>> : l \in S}
           t == [Idle EXCEPT !.pc = pc, !.todo = read]
<1>1. S \subseteq Lots /\ \A l \in S : lots[l].st = "OPEN"
  BY DEF OpenLots
<1>2. read \subseteq InMemory
  BY <1>1 DEF InMemory, IInv, TypeOK, LotRow
<1>3. \A e \in read : e[1] \in S /\ e[2] = lots[e[1]].basket
                        /\ e[3] = owner[e[1]] /\ e = <<e[1], e[2], e[3]>>
  OBVIOUS
<1>4. t \in Task /\ t.pc = pc /\ t.todo = read
  BY <1>2, IdleFacts DEF Task, InMemory, Steps, Reading
<1> HIDE DEF t, read
<1>5. \A e \in read : PairFits(e, lots, baskets)
  BY <1>1, <1>3 DEF IInv, AllOwned, AsIs, PairFits
<1>6. Fits(t, lots, baskets)
  BY <1>3, <1>4, <1>5 DEF Fits, Reading, Placing, Holding
<1>7. \A v \in Tasks \ {w} : Apart(t, task[v]) /\ Apart(task[v], t)
  BY <1>3, <1>4 DEF IInv, AllFit, Fits, Apart, Reading, Placing
<1>8. ASSUME NEW b \in DOMAIN baskets \ mixed', Clean(b) PROVE Clean(b)'
  <2>1. task'[w] = t /\ \A v \in Tasks \ {w} : task'[v] = task[v]
    BY DEF Do, t, read, IInv, TypeOK
  <2>2. ~WorksOn(task[w], b) /\ ~WorksOn(t, b)
    BY <1>4 DEF At, WorksOn, Reading, Holding, Working
  <2>3. HoldsTrue(t, b, baskets[b], LotsIn(lots, b))
    <3>1. \A e \in t.todo : e[2] = b => e[1] \in DOMAIN LotsIn(lots, b)
      BY <1>1, <1>3, <1>4 DEF LotsIn
    <3> QED
      BY <1>4, <2>2, <3>1 DEF HoldsTrue, Reading, Holding
  <2> QED
    BY <1>8, <2>1, <2>2, <2>3, CleanAside DEF Aside
<1> QED
  BY <1>4, <1>6, <1>7, <1>8, TaskOnly DEF t, read, breaker, Reading, IInv, TypeOK

\* A lot that is read to be closed is to keep its owner.
LEMMA AsReadStep ==
  ASSUME IInv, NEW w \in Tasks, At(w, "idle"), NEW S \in SUBSET OpenLots,
         NEW pc \in {"settle", "archive"}, Do(w, [Idle EXCEPT !.pc = pc, !.todo = AsRead(S)]),
         UNCHANGED <<lots, baskets, breaker, now, crashes, announced, mixed>>
  PROVE  IInv'
<1> DEFINE owner == [l \in S |-> lots[l].inst]
<1>1. owner \in [S -> Owners] /\ \A l \in S : lots[l].opener # Manual => owner[l] = lots[l].opener
  BY DEF IInv, AllKept, TypeOK, LotRow, OpenLots
<1>2. AsRead(S) = {<<l, lots[l].basket, owner[l]>> : l \in S} /\ pc \in Reading
  BY DEF AsRead, Reading
<1> HIDE DEF owner
<1> QED
  BY <1>1, <1>2, ReadStep

LEMMA SettleReadStep ==
  ASSUME IInv, NEW w \in Tasks, NEW l \in Lots, SettleRead(w, l) PROVE IInv'
BY AsReadStep DEF SettleRead, OpenLots

LEMMA ArchiveReadStep ==
  ASSUME IInv, NEW w \in Tasks, ArchiveRead(w) PROVE IInv'
BY AsReadStep DEF ArchiveRead

\* Only lots that no instance opened are without an owner.
LEMMA ClaimReadStep ==
  ASSUME IInv, NEW w \in Tasks, NEW i \in Instances, ClaimRead(w, i) PROVE IInv'
<1> DEFINE S == {l \in OpenLots : lots[l].inst = Manual}
           owner == [l \in S |-> i]
<1>1. owner \in [S -> Owners] /\ \A l \in S : lots[l].opener = Manual /\ owner[l] = i
  BY DEF Owners, IInv, AllKept, OpenLots
<1>2. S \in SUBSET OpenLots /\ "claim" \in Reading
  BY DEF Reading
<1>3. {<<l, lots[l].basket, i>> : l \in S} = {<<l, lots[l].basket, owner[l]>> : l \in S}
  OBVIOUS
<1>4. /\ Do(w, [Idle EXCEPT !.pc = "claim", !.todo = {<<l, lots[l].basket, i>> : l \in S}])
      /\ At(w, "idle") /\ UNCHANGED <<lots, baskets, breaker, now, crashes, announced, mixed>>
  BY DEF ClaimRead
<1> HIDE DEF S, owner
<1> QED
  BY <1>1, <1>2, <1>3, <1>4, ReadStep

\* A step of w between the opening of a lot and its attaching, that keeps the lot.
LEMMA PlaceStep ==
  ASSUME IInv, NEW w \in Tasks, task[w].pc \in {"resolve", "code"},
         NEW t \in Task, Do(w, t), t.pc \in Placing, t.lot = task[w].lot, t.todo = task[w].todo,
         UNCHANGED <<lots, baskets, breaker, now, crashes, announced>>,
         mixed \subseteq mixed', mixed' \subseteq BasketIds,
         t.pc = "create" => t.basket \in 1..(Len(baskets) + 1),
         t.pc = "attach" => /\ t.basket \in DOMAIN baskets /\ t.row = baskets[t.basket]
                            /\ lots[t.lot].opener # Manual => t.row.inst = lots[t.lot].opener
                            /\ t.row.st = "OPEN"
                            /\ t.basket \notin mixed' => \A v \in Tasks \ {w} : ~WorksOn(task[v], t.basket)
  PROVE  IInv'
<1>1. Fits(t, lots, baskets)
  BY DEF IInv, AllFit, Fits, Placing, Holding, Reading
<1>2. \A v \in Tasks \ {w} : Apart(t, task[v]) /\ Apart(task[v], t)
  BY DEF IInv, AllApart, Apart, Placing
<1>3. ASSUME NEW b \in DOMAIN baskets \ mixed', Clean(b) PROVE Clean(b)'
  <2>1. task'[w] = t /\ \A v \in Tasks \ {w} : task'[v] = task[v]
    BY DEF Do, IInv, TypeOK
  <2>2. t.todo = {} /\ ~WorksOn(task[w], b)
    BY DEF IInv, AllFit, Fits, Placing, WorksOn, Holding, Working
  <2>3. CASE t.pc = "attach" /\ t.basket = b
    <3>1. HoldsTrue(t, b, baskets[b], LotsIn(lots, b)) /\ WorksOn(t, b)
      BY <2>2, <2>3 DEF HoldsTrue, WorksOn, Holding, Working, Reading
    <3> QED
      BY <1>3, <2>1, <2>3, <3>1, CleanWorked DEF Clean
  <2>4. CASE ~(t.pc = "attach" /\ t.basket = b)
    <3>1. HoldsTrue(t, b, baskets[b], LotsIn(lots, b)) /\ ~WorksOn(t, b)
      BY <2>2, <2>4 DEF HoldsTrue, WorksOn, Placing, Holding, Working, Reading
    <3> QED
      BY <1>3, <2>1, <2>2, <3>1, CleanAside DEF Aside
  <2> QED
    BY <2>3, <2>4
<1> QED
  BY <1>1, <1>2, <1>3, TaskOnly DEF breaker

LEMMA ResolveStep ==
  ASSUME IInv, NEW w \in Tasks, Resolve(w) PROVE IInv'
<1> DEFINE l == task[w].lot
           open == OpenBaskets(lots[l].opener)
           b == Max(open)
<1>1. task[w] \in Task /\ task[w].pc = "resolve" /\ l \in Lots /\ mixed \subseteq BasketIds
  BY DEF Resolve, At, IInv, TypeOK, Task
<1>2. CASE open = {}
  <2> DEFINE t == [task[w] EXCEPT !.pc = "code"]
  <2>1. t \in Task /\ t.pc = "code" /\ t.lot = task[w].lot /\ t.todo = task[w].todo
    BY <1>1 DEF Task, InMemory, Steps
  <2>2. Do(w, t) /\ mixed' = mixed
    BY <1>2 DEF Resolve, Go
  <2> QED
    BY <1>1, <2>1, <2>2, PlaceStep DEF Resolve, Placing, breaker
<1>3. CASE open # {}
  <2> DEFINE t == [task[w] EXCEPT !.pc = "attach", !.basket = b, !.row = baskets[b]]
  <2>1. b \in open
    <3>1. open \subseteq 1..Len(baskets) /\ Len(baskets) \in Nat
      BY Domains DEF OpenBaskets, IInv
    <3> QED
      BY <1>3, <3>1, Greatest
  <2>2. /\ b \in DOMAIN baskets /\ b \in BasketIds /\ baskets[b] \in BasketRow /\ baskets[b].st = "OPEN"
        /\ lots[l].opener # Manual => baskets[b].inst = lots[l].opener
    BY <2>1, Domains DEF OpenBaskets, IInv
  <2> HIDE DEF b
  <2>3. /\ t \in Task /\ t.pc = "attach" /\ t.lot = task[w].lot /\ t.todo = task[w].todo
        /\ t.basket = b /\ t.row = baskets[b]
    BY <1>1, <2>2 DEF Task, InMemory, Steps
  <2>4. Do(w, t) /\ Enter(w, b)
    BY <1>3 DEF Resolve, b
  <2>5. /\ mixed \subseteq mixed' /\ mixed' \subseteq BasketIds
        /\ b \notin mixed' => \A v \in Tasks \ {w} : ~WorksOn(task[v], b)
    BY <1>1, <2>2, <2>4 DEF Enter, AtWork, At, WorksOn, Holding, Working
  <2> HIDE DEF t
  <2>6. UNCHANGED <<lots, baskets, breaker, now, crashes, announced>>
    BY DEF Resolve
  <2> QED
    BY <1>1, <2>2, <2>3, <2>4, <2>5, <2>6, PlaceStep DEF Placing
<1> QED
  BY <1>2, <1>3

LEMMA CodeStep ==
  ASSUME IInv, NEW w \in Tasks, Code(w) PROVE IInv'
<1> DEFINE n == Len(baskets) + 1
           t == [task[w] EXCEPT !.pc = "create", !.basket = n]
<1>1. task[w] \in Task /\ task[w].pc = "code" /\ mixed \subseteq BasketIds
  BY DEF Code, At, IInv, TypeOK
<1>2. n \in BasketIds
  <2> DEFINE P == Placed(lots, task)
             l == task[w].lot
  <2>1. P \subseteq Lots /\ l \in Lots /\ l \notin P /\ IsFiniteSet(P) /\ IsFiniteSet(P \cup {l})
    BY <1>1, Sizes, FS_Subset DEF Placed, Task
  <2>2. Cardinality(P \cup {l}) = Cardinality(P) + 1 /\ Cardinality(P \cup {l}) <= Cardinality(Lots)
    BY <2>1, Sizes, FS_AddElement, FS_Subset
  <2>3. Cardinality(P) \in Nat
    BY <2>1, FS_CardinalityType
  <2> QED
    BY <2>2, <2>3, Sizes, Domains DEF IInv, Counted, BasketIds
<1>3. t \in Task /\ t.pc = "create" /\ t.lot = task[w].lot /\ t.todo = task[w].todo /\ t.basket = n
  BY <1>1, <1>2 DEF Task, InMemory, Steps
<1>4. n \in 1..(Len(baskets) + 1)
  BY Domains DEF IInv
<1> QED
  BY <1>1, <1>3, <1>4, PlaceStep DEF Code, Placing, breaker

\* A recomputation that reads the row of its basket.
LEMMA RecomputeReadStep ==
  ASSUME IInv, NEW w \in Tasks, NEW e \in task[w].todo, RecomputeRead(w, e) PROVE IInv'
<1> DEFINE todo == task[w].todo \ {e}
<1>1. /\ task[w] \in Task /\ task[w].pc = "next" /\ e \in InMemory
      /\ todo \in SUBSET InMemory /\ mixed \subseteq BasketIds
  BY DEF RecomputeRead, At, IInv, TypeOK, Task
<1>2. \A f \in task[w].todo : PairFits(f, lots, baskets)
  BY DEF IInv, AllFit, Fits
<1>3. \A v \in Tasks \ {w} : task[v].pc \in Placing =>
        \A f \in task[w].todo : f[1] = task[v].lot => f[2] = NoBasket
  BY DEF IInv, AllApart, Apart
<1>4. UNCHANGED <<lots, baskets, running, evals, unjudged, now, crashes, announced, mixed>>
  BY DEF RecomputeRead, breaker
<1>5. CASE e[2] = NoBasket
  <2>1. PICK t : Do(w, t) /\ Between(t, todo)
    BY <1>1, <1>5, Proceeds DEF RecomputeRead, IInv
  <2>2. t \in Task /\ Fits(t, lots, baskets) /\ \A v \in Tasks \ {w} : Apart(t, task[v]) /\ Apart(task[v], t)
    <3>1. \A f \in todo : PairFits(f, lots, baskets)
      BY <1>2
    <3>2. Fits(t, lots, baskets)
      BY <2>1, <3>1, BetweenFacts
    <3>3. \A v \in Tasks \ {w} : task[v].pc \in Placing =>
            \A f \in todo : f[1] = task[v].lot => f[2] = NoBasket
      BY <1>3
    <3>4. \A v \in Tasks \ {w} : Apart(t, task[v]) /\ Apart(task[v], t)
      BY <2>1, <3>3, BetweenFacts
    <3> QED
      BY <2>1, <3>2, <3>4 DEF Between
  <2>3. ASSUME NEW b \in DOMAIN baskets \ mixed', Clean(b) PROVE Clean(b)'
    <3>1. task'[w] = t /\ \A v \in Tasks \ {w} : task'[v] = task[v]
      BY <2>1 DEF Do, IInv, TypeOK
    <3>2. b # NoBasket
      BY Domains, Sizes DEF IInv
    <3>3. WorksOn(t, b) <=> WorksOn(task[w], b)
      <4>1. WorksOn(t, b) <=> \E f \in todo : f[2] = b
        BY <2>1, BetweenFacts
      <4>2. WorksOn(task[w], b) <=> \E f \in task[w].todo : f[2] = b
        BY <1>1 DEF WorksOn, Holding, Working
      <4> QED
        BY <1>5, <3>2, <4>1, <4>2
    <3>4. HoldsTrue(t, b, baskets[b], LotsIn(lots, b))
      <4>1. HoldsTrue(task[w], b, baskets[b], LotsIn(lots, b))
        BY <2>3 DEF Clean
      <4>2. \A f, g \in todo : f[2] = b /\ g[2] = b => f = g
        BY <1>1, <4>1 DEF HoldsTrue
      <4>3. (\E f \in todo : f[2] = b) => baskets[b].st = "OPEN" /\ LotsIn(lots, b) # << >>
        BY <1>1, <4>1 DEF HoldsTrue, WorksOn, Working
      <4> QED
        BY <2>1, <4>2, <4>3, BetweenFacts
    <3>5. \A v \in Tasks : WorksOn(task'[v], b) <=> WorksOn(task[v], b)
      BY <3>1, <3>3
    <3>6. \A v \in Tasks : HoldsTrue(task'[v], b, baskets'[b], LotsIn(lots', b))
      BY <1>4, <2>3, <3>1, <3>4 DEF Clean
    <3> QED
      BY <1>4, <2>3, <3>5, <3>6 DEF Clean
  <2> QED
    BY <1>1, <1>4, <2>1, <2>2, <2>3, TaskOnly, BetweenFacts
<1>6. CASE e[2] # NoBasket
  <2> DEFINE c == e[2]
             t == [task[w] EXCEPT !.pc = "lots", !.basket = c, !.row = baskets[c],
                                  !.wasClosed = baskets[c].st = "CLOSED", !.todo = todo]
  <2>1. c \in DOMAIN baskets /\ c \in BasketIds /\ baskets[c] \in BasketRow
    BY <1>2, <1>6, Domains DEF PairFits, IInv
  <2>2. t \in Task
    BY <1>1, <2>1 DEF Task, InMemory, Steps
  <2>3. /\ t.pc = "lots" /\ t.basket = c /\ t.row = baskets[c] /\ t.todo = todo
        /\ t.wasClosed = (baskets[c].st = "CLOSED")
    BY <1>1 DEF Task
  <2>4. Do(w, t)
    <3>1. [task[w] EXCEPT !.pc = "lots", !.basket = c, !.row = baskets[c],
                          !.wasClosed = baskets[c].st = "CLOSED", !.todo = @ \ {e}] = t
      BY <1>1 DEF Task
    <3> QED
      BY <1>6, <3>1 DEF RecomputeRead
  <2> HIDE DEF t
  <2>5. Fits(t, lots, baskets)
    BY <1>2, <2>1, <2>3 DEF Fits, Placing, Holding, Reading
  <2>6. \A v \in Tasks \ {w} : Apart(t, task[v]) /\ Apart(task[v], t)
    BY <1>3, <2>3 DEF Apart, Placing
  <2>7. ASSUME NEW b \in DOMAIN baskets \ mixed', Clean(b) PROVE Clean(b)'
    <3>1. task'[w] = t /\ \A v \in Tasks \ {w} : task'[v] = task[v]
      BY <2>4 DEF Do, IInv, TypeOK
    <3>2. WorksOn(t, b) <=> WorksOn(task[w], b)
      BY <1>1, <2>3 DEF WorksOn, Holding, Working
    <3>3. HoldsTrue(task[w], b, baskets[b], LotsIn(lots, b))
      BY <2>7 DEF Clean
    <3>4. \A f, g \in task[w].todo : f[2] = b /\ g[2] = b => f = g
      BY <1>1, <3>3 DEF HoldsTrue
    <3>5. WorksOn(task[w], b) => baskets[b].st = "OPEN" /\ LotsIn(lots, b) # << >>
      BY <1>1, <3>3 DEF HoldsTrue
    <3>6. c = b => WorksOn(task[w], b) /\ \A f \in todo : f[2] # b
      BY <1>1, <3>4 DEF WorksOn, Working
    <3>7. HoldsTrue(t, b, baskets[b], LotsIn(lots, b))
      BY <2>3, <3>2, <3>4, <3>5, <3>6 DEF HoldsTrue, Reading
    <3>8. \A v \in Tasks : WorksOn(task'[v], b) <=> WorksOn(task[v], b)
      BY <3>1, <3>2
    <3>9. \A v \in Tasks : HoldsTrue(task'[v], b, baskets'[b], LotsIn(lots', b))
      BY <1>4, <2>7, <3>1, <3>7 DEF Clean
    <3> QED
      BY <1>4, <2>7, <3>8, <3>9 DEF Clean
  <2> QED
    BY <1>1, <1>4, <2>2, <2>3, <2>4, <2>5, <2>6, <2>7, TaskOnly
<1> QED
  BY <1>5, <1>6

\* What w has left to do keeps a clean basket clean, as long as it is all that w
\* had to do with it.
LEMMA CleanMovesOn ==
  ASSUME NEW w \in Tasks, NEW b, Clean(b), NEW t, Between(t, task[w].todo), task'[w] = t,
         \A v \in Tasks \ {w} : task'[v] = task[v], task[w].pc \in {"origin", "lots", "save"},
         WorksOn(task[w], b) <=> \E e \in task[w].todo : e[2] = b,
         LotsIn(lots', b) = LotsIn(lots, b), baskets'[b] = baskets[b], announced'[b] = announced[b]
  PROVE  Clean(b)'
<1>1. WorksOn(t, b) <=> WorksOn(task[w], b)
  BY BetweenFacts
<1>2. HoldsTrue(task[w], b, baskets[b], LotsIn(lots, b))
  BY DEF Clean
<1>3. \A e, f \in task[w].todo : e[2] = b /\ f[2] = b => e = f
  BY <1>2 DEF HoldsTrue, Holding
<1>4. (\E e \in task[w].todo : e[2] = b) => baskets[b].st = "OPEN" /\ LotsIn(lots, b) # << >>
  BY <1>2 DEF HoldsTrue
<1>5. HoldsTrue(t, b, baskets[b], LotsIn(lots, b))
  BY <1>3, <1>4, BetweenFacts
<1>6. \A v \in Tasks : WorksOn(task'[v], b) <=> WorksOn(task[v], b)
  BY <1>1
<1>7. \A v \in Tasks : HoldsTrue(task'[v], b, baskets'[b], LotsIn(lots', b))
  BY <1>5 DEF Clean
<1> QED
  BY <1>6, <1>7 DEF Clean

\* A recomputation that goes on with a row t.row computed from the lots.
LEMMA ComputeStep ==
  ASSUME IInv, NEW w \in Tasks, task[w].pc \in {"lots", "funding"},
         NEW t \in Task, Do(w, t), t.pc \in {"funding", "save"}, t.lot = task[w].lot,
         t.todo = task[w].todo, t.basket = task[w].basket, t.wasClosed = task[w].wasClosed,
         t.row.inst = task[w].row.inst,
         t.basket \notin mixed => Tells(t.row, LotsIn(lots, t.basket)),
         UNCHANGED <<lots, baskets, breaker, now, crashes, announced, mixed>>
  PROVE  IInv'
<1>1. Fits(t, lots, baskets)
  BY DEF IInv, AllFit, Fits, Placing, Holding, Reading
<1>2. \A v \in Tasks \ {w} : Apart(t, task[v]) /\ Apart(task[v], t)
  BY DEF IInv, AllApart, Apart, Placing
<1>3. ASSUME NEW b \in DOMAIN baskets \ mixed', Clean(b) PROVE Clean(b)'
  <2>1. task'[w] = t /\ \A v \in Tasks \ {w} : task'[v] = task[v]
    BY DEF Do, IInv, TypeOK
  <2>2. WorksOn(t, b) <=> WorksOn(task[w], b)
    BY DEF WorksOn, Holding, Working
  <2>3. HoldsTrue(task[w], b, baskets[b], LotsIn(lots, b))
    BY <1>3 DEF Clean
  <2>4. HoldsTrue(t, b, baskets[b], LotsIn(lots, b))
    BY <2>2, <2>3 DEF HoldsTrue, Reading, Holding
  <2>5. \A v \in Tasks : WorksOn(task'[v], b) <=> WorksOn(task[v], b)
    BY <2>1, <2>2
  <2>6. \A v \in Tasks : HoldsTrue(task'[v], b, baskets'[b], LotsIn(lots', b))
    BY <1>3, <2>1, <2>4 DEF Clean
  <2> QED
    BY <1>3, <2>5, <2>6 DEF Clean
<1> QED
  BY <1>1, <1>2, <1>3, TaskOnly DEF breaker, IInv, TypeOK

LEMMA RecomputeLotsStep ==
  ASSUME IInv, NEW w \in Tasks, RecomputeLots(w) PROVE IInv'
<1> DEFINE c == task[w].basket
           S == LotsOf(c)
           row == Recomputed(task[w].row, S)
<1>1. /\ task[w] \in Task /\ task[w].pc = "lots" /\ c \in DOMAIN baskets /\ c \in BasketIds
      /\ task[w].row \in BasketRow
  BY Domains DEF RecomputeLots, At, IInv, TypeOK, Task, AllFit, Fits, Holding
<1>2. /\ c \notin mixed => /\ task[w].row = baskets[c] /\ baskets[c].st = "OPEN"
                           /\ LotsIn(lots, c) # << >>
  <2>1. c \notin mixed => HoldsTrue(task[w], c, baskets[c], LotsIn(lots, c))
    BY <1>1 DEF IInv, AllClean, Clean
  <2> QED
    BY <1>1, <2>1 DEF HoldsTrue, WorksOn, Holding
<1>3. UNCHANGED <<lots, baskets, breaker, now, crashes, announced, mixed>>
  BY DEF RecomputeLots
<1>4. CASE S = {}
  <2>1. c \in mixed
    <3>1. ~\E l \in Lots : lots[l].basket = c
      BY <1>4 DEF LotsOf
    <3>2. LotsIn(lots, c) = << >>
      BY <3>1, LotsInFacts
    <3> QED
      BY <1>2, <3>2
  <2>2. PICK t : Do(w, t) /\ Between(t, task[w].todo)
    BY <1>1, <1>4, Proceeds DEF RecomputeLots, IInv, Task
  <2>3. t \in Task /\ t.todo = task[w].todo /\ Fits(t, lots, baskets)
    <3>1. \A e \in task[w].todo : PairFits(e, lots, baskets)
      BY DEF IInv, AllFit, Fits
    <3> QED
      BY <2>2, <3>1, BetweenFacts DEF Between
  <2>4. \A v \in Tasks \ {w} : Apart(t, task[v]) /\ Apart(task[v], t)
    BY <2>2, <2>3, BetweenFacts DEF IInv, AllApart, Apart
  <2>5. ASSUME NEW b \in DOMAIN baskets \ mixed', Clean(b) PROVE Clean(b)'
    <3>1. task'[w] = t /\ \A v \in Tasks \ {w} : task'[v] = task[v]
      BY <2>2 DEF Do, IInv, TypeOK
    <3>2. b # c
      BY <1>3, <2>1
    <3>3. WorksOn(task[w], b) <=> \E e \in task[w].todo : e[2] = b
      BY <1>1, <3>2 DEF WorksOn, Working
    <3> QED
      BY <1>1, <1>3, <2>2, <2>5, <3>1, <3>3, CleanMovesOn
  <2>6. t.pc \notin {"resolve", "code", "create"}
    BY <2>2, BetweenFacts
  <2> QED
    BY <1>3, <2>2, <2>3, <2>4, <2>5, <2>6, TaskOnly DEF breaker, IInv, TypeOK
<1>5. CASE S # {}
  <2> DEFINE pc == IF \A l \in S : lots[l].st = "CLOSED" THEN "funding" ELSE "save"
             t == [task[w] EXCEPT !.row = row, !.pc = pc]
  <2>1. row \in BasketRow /\ row.inst = task[w].row.inst
        /\ (task[w].row.st = "OPEN" => Tells(row, LotsIn(lots, c)))
    BY <1>1, <1>5, RecomputedTells DEF IInv
  <2> HIDE DEF row
  <2>2. t \in Task /\ t.row = row /\ t.pc \in {"funding", "save"} /\ t.basket = c
        /\ t.lot = task[w].lot /\ t.todo = task[w].todo /\ t.wasClosed = task[w].wasClosed
    BY <1>1, <2>1 DEF Task, InMemory, Steps
  <2>3. Do(w, t)
    BY <1>5 DEF RecomputeLots, row
  <2> HIDE DEF t
  <2> QED
    BY <1>1, <1>2, <1>3, <2>1, <2>2, <2>3, ComputeStep
<1> QED
  BY <1>4, <1>5

LEMMA FundingStep ==
  ASSUME IInv, NEW w \in Tasks, Funding(w) PROVE IInv'
<1> DEFINE c == task[w].basket
<1>1. /\ task[w] \in Task /\ task[w].pc = "funding" /\ c \in DOMAIN baskets
      /\ task[w].row \in BasketRow
  BY DEF Funding, At, IInv, TypeOK, Task, AllFit, Fits, Holding
<1>2. c \notin mixed => Tells(task[w].row, LotsIn(lots, c))
  BY <1>1 DEF IInv, AllClean, Clean, HoldsTrue
<1>3. UNCHANGED <<lots, baskets, breaker, now, crashes, announced, mixed>>
  BY DEF Funding
<1>4. CASE Go(w, "save")
  <2> DEFINE t == [task[w] EXCEPT !.pc = "save"]
  <2>1. t \in Task /\ t.row = task[w].row /\ t.pc = "save" /\ t.basket = c
        /\ t.lot = task[w].lot /\ t.todo = task[w].todo /\ t.wasClosed = task[w].wasClosed
    BY <1>1 DEF Task, InMemory, Steps
  <2> QED
    BY <1>1, <1>2, <1>3, <1>4, <2>1, ComputeStep DEF Go
<1>5. ASSUME NEW fee \in FundingFees, Do(w, [task[w] EXCEPT !.pc = "save", !.row.funding = fee])
      PROVE  IInv'
  <2> DEFINE r == [task[w].row EXCEPT !.funding = fee]
             t == [task[w] EXCEPT !.pc = "save", !.row = r]
  <2>1. /\ r \in BasketRow /\ r.inst = task[w].row.inst /\ r.st = task[w].row.st
        /\ r.layers = task[w].row.layers /\ r.realized = task[w].row.realized
    BY <1>1 DEF BasketRow
  <2>2. c \notin mixed => Tells(r, LotsIn(lots, c))
    BY <1>2, <2>1 DEF Tells
  <2>3. t = [task[w] EXCEPT !.pc = "save", !.row.funding = fee]
    BY <1>1 DEF Task
  <2> HIDE DEF r
  <2>4. t \in Task /\ t.row = r /\ t.pc = "save" /\ t.basket = c
        /\ t.lot = task[w].lot /\ t.todo = task[w].todo /\ t.wasClosed = task[w].wasClosed
    BY <1>1, <2>1 DEF Task, InMemory, Steps
  <2>5. Do(w, t)
    BY <1>5, <2>3
  <2> HIDE DEF t
  <2> QED
    BY <1>1, <1>3, <2>1, <2>2, <2>4, <2>5, ComputeStep
<1> QED
  BY <1>4, <1>5 DEF Funding

-----------------------------------------------------------------------------
(* The steps that change a table *)

\* A step of w in which the tables grow.
LEMMA TablesStep ==
  ASSUME IInv, TypeOK', NEW w \in Tasks, NEW t \in Task, Do(w, t),
         Grown(lots, lots', baskets, baskets'),
         Fits(t, lots', baskets'),
         \A v \in Tasks \ {w} : task[v].pc \in Placing => lots'[task[v].lot].basket = NoBasket,
         \A v \in Tasks \ {w} : Apart(t, task[v]) /\ Apart(task[v], t),
         \A l \in Lots : lots'[l].basket # NoBasket => PairFits(AsIs(lots', l), lots', baskets'),
         \A l \in Lots : lots'[l].opener # Manual => lots'[l].inst = lots'[l].opener,
         Counted',
         \A b \in DOMAIN baskets' \ mixed' : Clean(b)',
         Unannounced',
         \A i \in Instances : Judgement(i) => Judgement(i)'
  PROVE  IInv'
<1>1. task' = [task EXCEPT ![w] = t] /\ task \in [Tasks -> Task]
  BY DEF Do, IInv, TypeOK
<1>2. AllFit'
  <2> SUFFICES ASSUME NEW v \in Tasks PROVE Fits(task'[v], lots', baskets')
    BY DEF AllFit
  <2>1. CASE v = w
    BY <1>1, <2>1
  <2>2. CASE v # w
    BY <1>1, <2>2, StaysFit DEF IInv, AllFit
  <2> QED
    BY <2>1, <2>2
<1>3. AllApart'
  BY <1>1 DEF IInv, AllApart
<1> QED
  BY <1>2, <1>3 DEF IInv, AllOwned, AllKept, AllClean, AllJudged

\* A lot that is opened has no basket, and nobody knows it.
LEMMA InsertLotStep ==
  ASSUME IInv, NEW w \in Tasks, NEW l \in Lots, NEW i \in Placers, InsertLot(w, l, i)
  PROVE  IInv'
<1> DEFINE r == [lots[l] EXCEPT !.st = "OPEN", !.opener = i, !.inst = i]
           t == [Idle EXCEPT !.pc = "resolve", !.lot = l]
<1>1. lots[l].st = "NONE" /\ lots[l].basket = NoBasket /\ lots[l] \in LotRow
  BY DEF InsertLot, IInv, AllOwned, AsIs, PairFits, TypeOK
<1>2. r \in LotRow /\ r.st = "OPEN" /\ r.opener = i /\ r.inst = i /\ r.basket = NoBasket
  BY <1>1, BasketsAssumption DEF LotRow
<1>3. lots' = [lots EXCEPT ![l] = r] /\ Do(w, t)
      /\ UNCHANGED <<baskets, running, evals, now, crashes, announced, mixed, unjudged>>
  BY DEF InsertLot, history, IInv, TypeOK
<1>4. t \in Task /\ t.pc = "resolve" /\ t.lot = l /\ t.todo = {}
  BY IdleFacts DEF Task, InMemory, Steps
<1> HIDE DEF r, t
<1>5. task'[w] = t /\ \A v \in Tasks \ {w} : task'[v] = task[v]
  BY <1>3 DEF Do, IInv, TypeOK
<1>6. lots'[l] = r /\ \A k \in Lots \ {l} : lots'[k] = lots[k]
  BY <1>3 DEF IInv, TypeOK
<1>7. TypeOK'
  BY <1>2, <1>3, <1>4 DEF Do, IInv, TypeOK
<1>8. Grown(lots, lots', baskets, baskets')
  BY <1>1, <1>3, <1>6, Domains DEF Grown, IInv
<1>9. Fits(t, lots', baskets')
  BY <1>2, <1>4, <1>6 DEF Fits, Placing, Holding, Reading
<1>10. \A v \in Tasks : /\ task[v].pc \in Placing => task[v].lot # l
                        /\ \A e \in task[v].todo : e[1] # l
  BY <1>1 DEF IInv, AllFit, Fits, PairFits
<1>11. \A v \in Tasks \ {w} : task[v].pc \in Placing => lots'[task[v].lot].basket = NoBasket
  BY <1>6, <1>10 DEF IInv, AllFit, Fits, TypeOK, Task
<1>12. \A v \in Tasks \ {w} : Apart(t, task[v]) /\ Apart(task[v], t)
  BY <1>4, <1>10 DEF Apart
<1>13. \A k \in Lots : lots'[k].basket # NoBasket => PairFits(AsIs(lots', k), lots', baskets')
  <2> TAKE k \in Lots
  <2> HAVE lots'[k].basket # NoBasket
  <2>1. k # l /\ lots'[k] = lots[k]
    BY <1>2, <1>6
  <2> QED
    BY <1>3, <2>1 DEF IInv, AllOwned, AsIs, PairFits
<1>18. \A k \in Lots : lots'[k].opener # Manual => lots'[k].inst = lots'[k].opener
  BY <1>2, <1>6 DEF IInv, AllKept
<1>14. Counted'
  <2>1. Placed(lots, task) \subseteq Placed(lots', task')
    BY <1>1, <1>4, <1>5, <1>6 DEF Placed
  <2> QED
    BY <1>3, <2>1, StillCounted DEF IInv
<1>15. ASSUME NEW b \in DOMAIN baskets' \ mixed' PROVE Clean(b)'
  <2>1. b \in DOMAIN baskets \ mixed /\ b # NoBasket
    BY <1>3, Domains, Sizes DEF IInv
  <2>2. LotsIn(lots', b) = LotsIn(lots, b)
    BY <1>1, <1>2, <1>6, <2>1 DEF LotsIn
  <2>3. ~WorksOn(task[w], b) /\ ~WorksOn(t, b)
    BY <1>4 DEF InsertLot, At, WorksOn, Holding, Working
  <2>4. HoldsTrue(t, b, baskets[b], LotsIn(lots, b))
    BY <1>4, <2>3 DEF HoldsTrue, Holding, Reading
  <2> QED
    BY <1>3, <1>5, <2>1, <2>2, <2>3, <2>4, CleanAside DEF Aside, IInv, AllClean
<1>16. Unannounced'
  BY <1>3 DEF IInv, Unannounced
<1>17. ASSUME NEW j \in Instances, Judgement(j) PROVE Judgement(j)'
  <2>1. Closed(j)' = Closed(j)
    BY <1>3 DEF Closed
  <2> QED
    BY <1>3, <1>17, <2>1, JudgementStands
<1> QED
  BY <1>3, <1>4, <1>7, <1>8, <1>9, <1>11, <1>12, <1>13, <1>14, <1>15, <1>16, <1>17, <1>18, TablesStep

\* A task gives up before its lot has a basket.
LEMMA GiveUpStep ==
  ASSUME IInv, NEW w \in Tasks, task[w].pc \in {"resolve", "code", "create"}, Do(w, Idle),
         UNCHANGED <<lots, baskets, breaker, now, crashes, announced, mixed>>
  PROVE  IInv'
<1>1. ASSUME NEW b \in DOMAIN baskets \ mixed', Clean(b) PROVE Clean(b)'
  <2>1. task'[w] = Idle /\ \A v \in Tasks \ {w} : task'[v] = task[v]
    BY DEF Do, IInv, TypeOK
  <2>2. ~WorksOn(task[w], b)
    BY DEF WorksOn, Holding, Working
  <2> QED
    BY <1>1, <2>1, <2>2, IdleFacts, CleanAside DEF Aside
<1> QED
  BY <1>1, IdleFacts, TaskOnly DEF breaker, IInv, TypeOK

LEMMA CreateStep ==
  ASSUME IInv, NEW w \in Tasks, Create(w) PROVE IInv'
<1> DEFINE l == task[w].lot
           c == task[w].basket
           row == [NoRow EXCEPT !.inst = lots[l].opener]
           t == [task[w] EXCEPT !.pc = "attach", !.row = row]
<1>1. /\ task[w] \in Task /\ task[w].pc = "create" /\ task[w].todo = {} /\ l \in Lots
      /\ c \in 1..(Len(baskets) + 1) /\ c \in {NoBasket} \cup BasketIds /\ lots[l] \in LotRow
      /\ lots[l].st # "NONE" /\ lots[l].basket = NoBasket
  BY DEF Create, At, IInv, TypeOK, Task, AllFit, Fits, Placing
<1>2. UNCHANGED <<lots, running, evals, unjudged, now, crashes, announced, mixed>>
  BY DEF Create, breaker
<1>3. CASE c <= Len(baskets)
  <2>1. Do(w, Idle) /\ baskets' = baskets
    BY <1>3 DEF Create
  <2> QED
    BY <1>1, <1>2, <2>1, GiveUpStep DEF breaker
<1>4. CASE ~(c <= Len(baskets))
  <2>1. /\ Len(baskets) \in Nat /\ DOMAIN baskets = 1..Len(baskets) /\ DOMAIN baskets \subseteq BasketIds
        /\ baskets \in Seq(BasketRow)
    BY Domains DEF IInv, TypeOK
  <2>2. c = Len(baskets) + 1 /\ c \in BasketIds /\ c \notin DOMAIN baskets
    BY <1>1, <1>4, <2>1 DEF NoBasket
  <2>3. row \in BasketRow /\ row.inst = lots[l].opener /\ row.st = "OPEN"
    <3>1. row = [st |-> "OPEN", inst |-> lots[l].opener, origin |-> "manual", layers |-> 0,
                 realized |-> 0, funding |-> 0, closedAt |-> 0]
      BY DEF NoRow
    <3>2. lots[l].opener \in Owners
      BY <1>1 DEF LotRow
    <3>3. 0 \in 0..Cardinality(Lots) /\ 0 \in Times
      BY Sizes, BasketsAssumption DEF Times
    <3> QED
      BY <3>1, <3>2, <3>3 DEF BasketRow
  <2>4. baskets' = Append(baskets, row) /\ Do(w, t)
    BY <1>4 DEF Create
  <2> HIDE DEF row
  <2>5. t \in Task /\ t.pc = "attach" /\ t.lot = l /\ t.basket = c /\ t.row = row /\ t.todo = {}
    BY <1>1, <2>3 DEF Task, InMemory, Steps
  <2> HIDE DEF t
  <2>6. /\ Len(baskets') = c /\ DOMAIN baskets' = DOMAIN baskets \cup {c} /\ baskets'[c] = row
        /\ \A b \in DOMAIN baskets : baskets'[b] = baskets[b]
        /\ DOMAIN baskets' = 1..Len(baskets') /\ baskets' \in Seq(BasketRow)
    BY <2>1, <2>2, <2>3, <2>4
  <2>7. task'[w] = t /\ \A v \in Tasks \ {w} : task'[v] = task[v]
    BY <2>4 DEF Do, IInv, TypeOK
  <2>8. TypeOK'
    <3>1. Len(baskets') <= Cardinality(Lots)
      BY <2>2, <2>6, Sizes DEF BasketIds
    <3>2. task' \in [Tasks -> Task]
      BY <2>4, <2>5 DEF Do, IInv, TypeOK
    <3> QED
      BY <1>2, <2>6, <3>1, <3>2 DEF IInv, TypeOK
  <2>9. Grown(lots, lots', baskets, baskets')
    BY <1>2, <2>1, <2>2, <2>6 DEF Grown
  <2>10. Fits(t, lots', baskets')
    BY <1>1, <1>2, <2>3, <2>5, <2>6 DEF Fits, Placing, Reading, PairFits
  <2>11. \A v \in Tasks \ {w} : task[v].pc \in Placing => lots'[task[v].lot].basket = NoBasket
    BY <1>2 DEF IInv, AllFit, Fits
  <2>12. \A v \in Tasks \ {w} : Apart(t, task[v]) /\ Apart(task[v], t)
    BY <1>1, <2>5 DEF IInv, AllApart, Apart, Placing
  <2>13. \A k \in Lots : lots'[k].basket # NoBasket => PairFits(AsIs(lots', k), lots', baskets')
    BY <1>2, <2>6 DEF IInv, AllOwned, AsIs, PairFits
  <2>19. \A k \in Lots : lots'[k].opener # Manual => lots'[k].inst = lots'[k].opener
    BY <1>2 DEF IInv, AllKept
  <2>14. Counted'
    <3> DEFINE P == Placed(lots, task)
               Q == Placed(lots', task')
    <3>1. P \subseteq Lots /\ Q \subseteq Lots /\ l \notin P /\ P \cup {l} \subseteq Q
      <4>1. \A v \in Tasks \ {w} : task[v].pc \in Placing => task[v].lot # l
        BY <1>1 DEF IInv, AllApart, Apart, Placing
      <4> QED
        BY <1>1, <1>2, <2>5, <2>7, <4>1 DEF Placed, Placing
    <3>2. IsFiniteSet(P) /\ IsFiniteSet(P \cup {l}) /\ IsFiniteSet(Q)
      BY <1>1, <3>1, Sizes, FS_Subset
    <3>3. Cardinality(P \cup {l}) = Cardinality(P) + 1 /\ Cardinality(P \cup {l}) <= Cardinality(Q)
      BY <3>1, <3>2, FS_AddElement, FS_Subset
    <3>4. Cardinality(P) \in Nat /\ Cardinality(Q) \in Nat
      BY <3>2, FS_CardinalityType
    <3> QED
      BY <2>1, <2>2, <2>6, <3>3, <3>4 DEF IInv, Counted
  <2>15. \A v \in Tasks : ~WorksOn(task[v], c)
    <3>1. \A v \in Tasks : Fits(task[v], lots, baskets)
      BY DEF IInv, AllFit
    <3>2. c # NoBasket
      BY <2>2, Sizes
    <3> QED
      BY <2>2, <3>1, <3>2 DEF WorksOn, Fits, PairFits
  <2>16. ASSUME NEW b \in DOMAIN baskets' \ mixed' PROVE Clean(b)'
    <3>1. CASE b = c
      <4>1. \A v \in Tasks \ {w} : ~WorksOn(task'[v], b)
        BY <2>7, <2>15, <3>1
      <4>2. WorksOn(t, b)
        BY <2>5, <3>1 DEF WorksOn, Holding
      <4>3. HoldsTrue(t, b, baskets'[b], LotsIn(lots', b))
        BY <2>3, <2>5, <2>6, <3>1 DEF HoldsTrue, Holding, Reading
      <4>4. ASSUME NEW v \in Tasks \ {w} PROVE HoldsTrue(task[v], b, baskets'[b], LotsIn(lots', b))
        <5>1. Fits(task[v], lots, baskets) /\ c # NoBasket /\ ~WorksOn(task[v], b)
          BY <2>2, <2>15, <3>1, Sizes DEF IInv, AllFit
        <5>2. \A e \in task[v].todo : e[2] # b
          BY <2>2, <3>1, <5>1 DEF Fits, PairFits
        <5> QED
          BY <5>1, <5>2 DEF HoldsTrue, WorksOn, Holding, Working
      <4>5. announced'[b] = 0 /\ baskets'[b].st = "OPEN"
        BY <1>2, <2>2, <2>3, <2>6, <3>1 DEF IInv, Unannounced
      <4> QED
        BY <2>7, <4>1, <4>2, <4>3, <4>4, <4>5 DEF Clean
    <3>2. CASE b # c
      <4>1. b \in DOMAIN baskets \ mixed /\ baskets'[b] = baskets[b]
        BY <1>2, <2>6, <2>16, <3>2
      <4>2. ~WorksOn(task[w], b) /\ ~WorksOn(t, b)
        BY <1>1, <2>5, <3>2 DEF WorksOn, Holding, Working
      <4>3. HoldsTrue(t, b, baskets[b], LotsIn(lots, b))
        BY <2>5, <3>2, <4>2 DEF HoldsTrue, Reading
      <4> QED
        BY <1>2, <2>7, <4>1, <4>2, <4>3, CleanAside DEF Aside, IInv, AllClean
    <3> QED
      BY <3>1, <3>2
  <2>17. Unannounced'
    BY <1>2, <2>6 DEF IInv, Unannounced
  <2>18. ASSUME NEW j \in Instances, Judgement(j) PROVE Judgement(j)'
    <3>1. Closed(j)' = Closed(j)
      <4>1. {b \in DOMAIN baskets' : baskets'[b].st = "CLOSED" /\ baskets'[b].inst = j}
              = {b \in DOMAIN baskets : baskets[b].st = "CLOSED" /\ baskets[b].inst = j}
        BY <2>3, <2>6
      <4> QED
        BY <2>6, <4>1 DEF Closed
    <3> QED
      BY <1>2, <2>6, <2>18, <3>1, JudgementStands
  <2> QED
    BY <2>4, <2>5, <2>8, <2>9, <2>10, <2>11, <2>12, <2>13, <2>14, <2>16, <2>17, <2>18, <2>19, TablesStep
<1> QED
  BY <1>3, <1>4

\* The lot gets its basket; from here on the basket has a lot.
LEMMA AttachStep ==
  ASSUME IInv, NEW w \in Tasks, Attach(w) PROVE IInv'
<1> DEFINE l == task[w].lot
           c == task[w].basket
           r == [st |-> "OPEN", opener |-> lots[l].opener, inst |-> lots[l].opener, basket |-> c, pnl |-> 0,
                 closedAt |-> 0]
           t == [task[w] EXCEPT !.pc = "origin", !.todo = {<<l, c, lots[l].opener>>}]
<1>1. /\ task[w] \in Task /\ task[w].pc = "attach" /\ l \in Lots /\ lots[l] \in LotRow
      /\ c \in DOMAIN baskets /\ c \in BasketIds /\ lots[l].st # "NONE" /\ lots[l].basket = NoBasket
      /\ task[w].todo = {} /\ task[w].row.inst = baskets[c].inst
      /\ (lots[l].opener # Manual => task[w].row.inst = lots[l].opener)
  BY Domains DEF Attach, At, IInv, TypeOK, Task, AllFit, Fits, Placing, Holding
<1>2. r \in LotRow /\ r.st = "OPEN" /\ r.opener = lots[l].opener /\ r.inst = r.opener /\ r.basket = c
  <2>1. 0 \in Times /\ c \in {NoBasket} \cup BasketIds /\ lots[l] \in LotRow
    BY <1>1, Sizes
  <2> QED
    BY <2>1 DEF LotRow
<1>3. t \in Task /\ t.pc = "origin" /\ t.lot = l /\ t.basket = c /\ t.todo = {<<l, c, lots[l].opener>>}
      /\ t.row = task[w].row
  <2>1. {<<l, c, lots[l].opener>>} \in SUBSET InMemory
    BY <1>1 DEF InMemory, LotRow
  <2> QED
    BY <1>1, <2>1 DEF Task, InMemory, Steps
<1>4. lots' = [lots EXCEPT ![l] = r] /\ Do(w, t)
      /\ UNCHANGED <<baskets, running, evals, now, crashes, announced, mixed, unjudged>>
  BY DEF Attach, breaker
<1> HIDE DEF r, t
<1>5. task'[w] = t /\ \A v \in Tasks \ {w} : task'[v] = task[v]
  BY <1>4 DEF IInv, TypeOK, Do
<1>6. lots'[l] = r /\ \A k \in Lots \ {l} : lots'[k] = lots[k]
  BY <1>1, <1>4 DEF IInv, TypeOK
<1>7. TypeOK'
  BY <1>2, <1>3, <1>4 DEF Do, IInv, TypeOK
<1>8. Grown(lots, lots', baskets, baskets')
  BY <1>1, <1>2, <1>4, <1>6, Domains DEF Grown, IInv
<1>9. PairFits(<<l, c, lots[l].opener>>, lots', baskets')
  BY <1>1, <1>2, <1>4, <1>6 DEF PairFits
<1>10. Fits(t, lots', baskets')
  BY <1>1, <1>2, <1>3, <1>4, <1>6, <1>9 DEF Fits, Placing, Holding, Reading
<1>11. \A v \in Tasks \ {w} : /\ task[v].pc \in Placing => task[v].lot # l
                              /\ \A e \in task[v].todo : e[1] = l => e[2] = NoBasket
  BY <1>1 DEF IInv, AllApart, Apart, Placing
<1>12. \A v \in Tasks \ {w} : task[v].pc \in Placing => lots'[task[v].lot].basket = NoBasket
  BY <1>6, <1>11 DEF IInv, AllFit, Fits, TypeOK, Task
<1>13. \A v \in Tasks \ {w} : Apart(t, task[v]) /\ Apart(task[v], t)
  BY <1>3, <1>11 DEF Apart, Placing
<1>14. \A k \in Lots : lots'[k].basket # NoBasket => PairFits(AsIs(lots', k), lots', baskets')
  <2> TAKE k \in Lots
  <2> HAVE lots'[k].basket # NoBasket
  <2>1. CASE k = l
    BY <1>2, <1>6, <1>9, <2>1 DEF AsIs
  <2>2. CASE k # l
    BY <1>4, <1>6, <2>2 DEF IInv, AllOwned, AsIs, PairFits
  <2> QED
    BY <2>1, <2>2
<1>19. \A k \in Lots : lots'[k].opener # Manual => lots'[k].inst = lots'[k].opener
  BY <1>2, <1>6 DEF IInv, AllKept
<1>15. Counted'
  <2>1. Placed(lots, task) \subseteq Placed(lots', task')
    BY <1>1, <1>2, <1>3, <1>5, <1>6 DEF Placed
  <2> QED
    BY <1>4, <2>1, StillCounted DEF IInv
<1>16. ASSUME NEW b \in DOMAIN baskets' \ mixed' PROVE Clean(b)'
  <2>1. b \in DOMAIN baskets \ mixed /\ b # NoBasket /\ Clean(b)
    BY <1>4, Domains, Sizes DEF IInv, AllClean
  <2>2. CASE b = c
    <3>1. WorksOn(task[w], b) /\ WorksOn(t, b)
      BY <1>1, <1>3, <2>2 DEF WorksOn, Holding
    <3>2. \A v \in Tasks \ {w} : ~WorksOn(task[v], b)
      BY <2>1, <3>1 DEF Clean
    <3>3. HoldsTrue(task[w], b, baskets[b], LotsIn(lots, b))
      BY <2>1 DEF Clean
    <3>4. task[w].row = baskets[b] /\ baskets[b].st = "OPEN"
      BY <1>1, <2>2, <3>1, <3>3 DEF HoldsTrue
    <3>5. DOMAIN LotsIn(lots, b) \subseteq DOMAIN LotsIn(lots', b)
      BY <1>1, <1>6, <2>1 DEF LotsIn
    <3>6. LotsIn(lots', b) # << >>
      <4>1. lots'[l].basket = b
        BY <1>2, <1>6, <2>2
      <4> QED
        BY <1>1, <4>1, LotsInFacts
    <3>7. HoldsTrue(t, b, baskets'[b], LotsIn(lots', b))
      BY <1>3, <1>4, <3>4, <3>6 DEF HoldsTrue, Reading
    <3>8. announced'[b] = IF baskets'[b].st = "CLOSED" THEN 1 ELSE 0
      BY <1>4, <2>1 DEF Clean
    <3> QED
      BY <1>5, <2>1, <3>1, <3>2, <3>5, <3>7, <3>8, CleanWorked
  <2>3. CASE b # c
    <3>1. LotsIn(lots', b) = LotsIn(lots, b)
      BY <1>1, <1>2, <1>6, <2>1, <2>3 DEF LotsIn
    <3>2. ~WorksOn(task[w], b) /\ ~WorksOn(t, b)
      BY <1>1, <1>3, <2>3 DEF WorksOn, Holding, Working
    <3>3. HoldsTrue(t, b, baskets[b], LotsIn(lots, b))
      BY <1>3, <2>3, <3>2 DEF HoldsTrue, Reading
    <3> QED
      BY <1>4, <1>5, <2>1, <3>1, <3>2, <3>3, CleanAside DEF Aside
  <2> QED
    BY <2>2, <2>3
<1>17. Unannounced'
  BY <1>4 DEF IInv, Unannounced
<1>18. ASSUME NEW j \in Instances, Judgement(j) PROVE Judgement(j)'
  <2>1. Closed(j)' = Closed(j)
    BY <1>4 DEF Closed
  <2> QED
    BY <1>4, <1>18, <2>1, JudgementStands
<1> QED
  BY <1>3, <1>4, <1>7, <1>8, <1>10, <1>12, <1>13, <1>14, <1>15, <1>16, <1>17, <1>18, <1>19, TablesStep

\* The row of a basket is written: by the task that has held it, for the owner
\* it has.
LEMMA RowWritten ==
  ASSUME IInv, NEW c \in DOMAIN baskets, NEW r \in BasketRow, r.inst = baskets[c].inst,
         baskets' = [baskets EXCEPT ![c] = r]
  PROVE  /\ baskets' \in Seq(BasketRow) /\ Len(baskets') = Len(baskets) /\ DOMAIN baskets' = DOMAIN baskets
         /\ baskets'[c] = r /\ \A b \in DOMAIN baskets \ {c} : baskets'[b] = baskets[b]
         /\ \A b \in DOMAIN baskets : baskets'[b].inst = baskets[b].inst
         /\ lots' = lots => Grown(lots, lots', baskets, baskets')
<1>1. baskets \in Seq(BasketRow) /\ Len(baskets) \in Nat /\ DOMAIN baskets = 1..Len(baskets)
  BY Domains DEF IInv, TypeOK
<1>2. /\ baskets' \in Seq(BasketRow) /\ Len(baskets') = Len(baskets) /\ DOMAIN baskets' = DOMAIN baskets
      /\ baskets'[c] = r /\ \A b \in DOMAIN baskets \ {c} : baskets'[b] = baskets[b]
  BY <1>1
<1> QED
  BY <1>1, <1>2 DEF Grown

\* A row that stays open, or is not clean, concerns no judgement.
LEMMA JudgedAfterWriting ==
  ASSUME IInv, NEW c \in DOMAIN baskets, NEW r \in BasketRow, r.inst = baskets[c].inst,
         baskets' = [baskets EXCEPT ![c] = r], NEW j \in Instances, Judgement(j),
         UNCHANGED <<running, evals, unjudged, mixed>>,
         c \in mixed \/ (r.st = "OPEN" /\ baskets[c].st = "OPEN") \/ j # r.inst
  PROVE  Judgement(j)'
<1>1. /\ DOMAIN baskets' = DOMAIN baskets /\ baskets'[c] = r
      /\ \A b \in DOMAIN baskets \ {c} : baskets'[b] = baskets[b]
      /\ \A b \in DOMAIN baskets : baskets'[b].inst = baskets[b].inst
  BY RowWritten
<1>2. CASE c \in mixed /\ j = r.inst
  BY <1>1, <1>2 DEF Judgement
<1>3. CASE j # r.inst \/ (r.st = "OPEN" /\ baskets[c].st = "OPEN")
  <2>1. {b \in DOMAIN baskets' : baskets'[b].st = "CLOSED" /\ baskets'[b].inst = j}
          = {b \in DOMAIN baskets : baskets[b].st = "CLOSED" /\ baskets[b].inst = j}
    BY <1>1, <1>3
  <2>2. \A b \in DOMAIN baskets : baskets[b].st = "CLOSED" /\ baskets[b].inst = j => baskets'[b] = baskets[b]
    BY <1>1, <1>3
  <2>3. Closed(j)' = Closed(j)
    BY <2>1, <2>2 DEF Closed
  <2> QED
    BY <1>1, <2>3, JudgementStands
<1> QED
  BY <1>2, <1>3

LEMMA OriginStep ==
  ASSUME IInv, NEW w \in Tasks, Origin(w) PROVE IInv'
<1> DEFINE c == task[w].basket
           todo == task[w].todo
           r == [task[w].row EXCEPT !.origin = "mixed"]
<1>1. /\ task[w] \in Task /\ task[w].pc = "origin" /\ task[w].row \in BasketRow
      /\ c \in DOMAIN baskets /\ task[w].row.inst = baskets[c].inst
      /\ todo = {<<task[w].lot, c, lots[task[w].lot].opener>>} /\ todo \in SUBSET InMemory
  BY DEF Origin, At, IInv, TypeOK, Task, AllFit, Fits, Holding
<1>2. PICK t : Do(w, t) /\ Between(t, todo)
  BY <1>1, Proceeds DEF Origin, IInv
<1>3. UNCHANGED <<lots, running, evals, unjudged, now, crashes, announced, mixed>>
  BY DEF Origin, breaker
<1>4. t \in Task /\ t.pc \notin {"resolve", "code", "create"}
  BY <1>2, BetweenFacts DEF Between
<1>5. Fits(t, lots, baskets)
  <2>1. \A e \in todo : PairFits(e, lots, baskets)
    BY DEF IInv, AllFit, Fits
  <2> QED
    BY <1>2, <2>1, BetweenFacts
<1>6. \A v \in Tasks \ {w} : Apart(t, task[v]) /\ Apart(task[v], t)
  <2>1. \A v \in Tasks \ {w} : task[v].pc \in Placing => \A e \in todo : e[1] = task[v].lot => e[2] = NoBasket
    BY DEF IInv, AllApart, Apart
  <2> QED
    BY <1>2, <2>1, BetweenFacts
<1>7. task'[w] = t /\ \A v \in Tasks \ {w} : task'[v] = task[v]
  BY <1>2 DEF Do, IInv, TypeOK
<1>8. \A b : WorksOn(task[w], b) <=> \E e \in todo : e[2] = b
  BY <1>1 DEF WorksOn, Holding, Working
<1>9. CASE baskets' = baskets
  <2>1. ASSUME NEW b \in DOMAIN baskets \ mixed', Clean(b) PROVE Clean(b)'
    BY <1>1, <1>2, <1>3, <1>7, <1>8, <1>9, <2>1, CleanMovesOn
  <2> QED
    BY <1>2, <1>3, <1>4, <1>5, <1>6, <1>9, <2>1, TaskOnly DEF IInv, TypeOK
<1>10. CASE baskets' = [baskets EXCEPT ![c] = r]
  <2>1. r \in BasketRow /\ r.inst = baskets[c].inst /\ r.st = task[w].row.st
    BY <1>1 DEF BasketRow
  <2> HIDE DEF r
  <2>2. /\ baskets' \in Seq(BasketRow) /\ Len(baskets') = Len(baskets) /\ DOMAIN baskets' = DOMAIN baskets
        /\ baskets'[c] = r /\ \A b \in DOMAIN baskets \ {c} : baskets'[b] = baskets[b]
        /\ Grown(lots, lots', baskets, baskets')
    BY <1>1, <1>3, <1>10, <2>1, RowWritten
  <2>3. TypeOK'
    BY <1>2, <1>3, <1>4, <2>2 DEF Do, IInv, TypeOK
  <2>4. Fits(t, lots', baskets')
    BY <1>3, <1>4, <1>5, <2>2, StaysFit DEF IInv, AllFit, Fits
  <2>5. \A v \in Tasks \ {w} : task[v].pc \in Placing => lots'[task[v].lot].basket = NoBasket
    BY <1>3 DEF IInv, AllFit, Fits
  <2>6. \A l \in Lots : lots'[l].basket # NoBasket => PairFits(AsIs(lots', l), lots', baskets')
    BY <1>3, <2>2, PairStaysFit DEF IInv, AllOwned, AsIs
  <2>12. \A l \in Lots : lots'[l].opener # Manual => lots'[l].inst = lots'[l].opener
    BY <1>3 DEF IInv, AllKept
  <2>7. Counted'
    <3>1. Placed(lots, task) \subseteq Placed(lots', task')
      BY <1>3, <1>4, <1>7 DEF Placed
    <3> QED
      BY <2>2, <3>1, StillCounted DEF IInv
  <2>8. c \notin mixed => task[w].row = baskets[c] /\ baskets[c].st = "OPEN" /\ LotsIn(lots, c) # << >>
    <3>1. c \notin mixed => HoldsTrue(task[w], c, baskets[c], LotsIn(lots, c)) /\ WorksOn(task[w], c)
      BY <1>1 DEF IInv, AllClean, Clean, WorksOn, Holding
    <3> QED
      BY <1>1, <3>1 DEF HoldsTrue
  <2>9. ASSUME NEW b \in DOMAIN baskets' \ mixed' PROVE Clean(b)'
    <3>1. b \in DOMAIN baskets \ mixed /\ Clean(b)
      BY <1>3, <2>2 DEF IInv, AllClean
    <3>2. CASE b = c
      <4>1. WorksOn(task[w], b) /\ WorksOn(t, b)
        BY <1>1, <1>2, <1>8, <3>2, BetweenFacts
      <4>2. \A v \in Tasks \ {w} : ~WorksOn(task[v], b)
        BY <3>1, <4>1 DEF Clean
      <4>3. baskets'[b].st = "OPEN" /\ baskets[b].st = "OPEN" /\ LotsIn(lots', b) # << >>
        BY <1>3, <2>1, <2>2, <2>8, <3>1, <3>2
      <4>4. HoldsTrue(t, b, baskets'[b], LotsIn(lots', b))
        BY <1>1, <1>2, <4>3, BetweenFacts
      <4>5. announced'[b] = IF baskets'[b].st = "CLOSED" THEN 1 ELSE 0
        BY <1>3, <3>1, <4>3 DEF Clean
      <4>6. DOMAIN LotsIn(lots, b) \subseteq DOMAIN LotsIn(lots', b)
        BY <1>3
      <4> QED
        BY <1>7, <3>1, <4>1, <4>2, <4>4, <4>5, <4>6, CleanWorked
    <3>3. CASE b # c
      <4>1. baskets'[b] = baskets[b]
        BY <2>2, <3>1, <3>3
      <4> QED
        BY <1>1, <1>2, <1>3, <1>7, <1>8, <3>1, <4>1, CleanMovesOn
    <3> QED
      BY <3>2, <3>3
  <2>10. Unannounced'
    BY <1>3, <2>2 DEF IInv, Unannounced
  <2>11. ASSUME NEW j \in Instances, Judgement(j) PROVE Judgement(j)'
    <3>1. c \in mixed \/ (r.st = "OPEN" /\ baskets[c].st = "OPEN")
      BY <2>1, <2>8
    <3> QED
      BY <1>1, <1>3, <1>10, <2>1, <2>11, <3>1, JudgedAfterWriting
  <2> QED
    BY <1>2, <1>4, <1>6, <2>2, <2>3, <2>4, <2>5, <2>6, <2>7, <2>9, <2>10, <2>11, <2>12, TablesStep
<1> QED
  BY <1>9, <1>10 DEF Origin

\* The totals are written.  The basket was open if it is clean, so it is announced
\* exactly if they close it, and an instance that runs is then to be judged.
LEMMA SaveStep ==
  ASSUME IInv, NEW w \in Tasks, Save(w) PROVE IInv'
<1> DEFINE c == task[w].basket
           todo == task[w].todo
           r == task[w].row
           closes == r.st = "CLOSED" /\ ~task[w].wasClosed
<1>1. /\ task[w] \in Task /\ task[w].pc = "save" /\ r \in BasketRow
      /\ c \in DOMAIN baskets /\ c \in BasketIds /\ r.inst = baskets[c].inst
      /\ todo \in SUBSET InMemory
  BY Domains DEF Save, At, IInv, TypeOK, Task, AllFit, Fits, Holding
<1>2. PICK t : Do(w, t) /\ Between(t, todo)
  BY <1>1, Proceeds DEF Save, IInv
<1>3. /\ UNCHANGED <<lots, running, now, crashes, mixed>>
      /\ baskets' = [baskets EXCEPT ![c] = r]
      /\ announced' = IF closes THEN [announced EXCEPT ![c] = @ + 1] ELSE announced
  BY DEF Save
<1>4. \/ /\ closes /\ r.inst \in running
         /\ evals' = evals \cup {<<r.inst, "evaluate">>} /\ unjudged' = unjudged \ {r.inst}
      \/ /\ ~(closes /\ r.inst \in running)
         /\ evals' = evals /\ unjudged' = unjudged
  BY DEF Save
<1>5. t \in Task /\ t.pc \notin {"resolve", "code", "create"}
  BY <1>2, BetweenFacts DEF Between
<1>6. Fits(t, lots, baskets)
  <2>1. \A e \in todo : PairFits(e, lots, baskets)
    BY DEF IInv, AllFit, Fits
  <2> QED
    BY <1>2, <2>1, BetweenFacts
<1>7. \A v \in Tasks \ {w} : Apart(t, task[v]) /\ Apart(task[v], t)
  <2>1. \A v \in Tasks \ {w} : task[v].pc \in Placing => \A e \in todo : e[1] = task[v].lot => e[2] = NoBasket
    BY DEF IInv, AllApart, Apart
  <2> QED
    BY <1>2, <2>1, BetweenFacts
<1>8. task'[w] = t /\ \A v \in Tasks \ {w} : task'[v] = task[v]
  BY <1>2 DEF Do, IInv, TypeOK
<1>9. /\ baskets' \in Seq(BasketRow) /\ Len(baskets') = Len(baskets) /\ DOMAIN baskets' = DOMAIN baskets
      /\ baskets'[c] = r /\ \A b \in DOMAIN baskets \ {c} : baskets'[b] = baskets[b]
      /\ \A b \in DOMAIN baskets : baskets'[b].inst = baskets[b].inst
      /\ Grown(lots, lots', baskets, baskets')
  BY <1>1, <1>3, RowWritten
<1>10. TypeOK'
  <2>1. announced' \in [BasketIds -> Nat]
    BY <1>1, <1>3 DEF IInv, TypeOK
  <2>2. evals' \subseteq Instances \X {"evaluate", "stop"} /\ unjudged' \subseteq Instances
    BY <1>4 DEF IInv, TypeOK
  <2>3. task' \in [Tasks -> Task]
    BY <1>2, <1>5 DEF Do, IInv, TypeOK
  <2> QED
    BY <1>3, <1>9, <2>1, <2>2, <2>3 DEF IInv, TypeOK
<1>11. Fits(t, lots', baskets')
  BY <1>3, <1>5, <1>6, <1>9, StaysFit DEF IInv, AllFit, Fits
<1>12. \A v \in Tasks \ {w} : task[v].pc \in Placing => lots'[task[v].lot].basket = NoBasket
  BY <1>3 DEF IInv, AllFit, Fits
<1>13. \A l \in Lots : lots'[l].basket # NoBasket => PairFits(AsIs(lots', l), lots', baskets')
  BY <1>3, <1>9, PairStaysFit DEF IInv, AllOwned, AsIs
<1>19. \A l \in Lots : lots'[l].opener # Manual => lots'[l].inst = lots'[l].opener
  BY <1>3 DEF IInv, AllKept
<1>14. Counted'
  <2>1. Placed(lots, task) \subseteq Placed(lots', task')
    BY <1>3, <1>5, <1>8 DEF Placed
  <2> QED
    BY <1>9, <2>1, StillCounted DEF IInv
<1>15. c \notin mixed => /\ WorksOn(task[w], c) /\ baskets[c].st = "OPEN" /\ LotsIn(lots, c) # << >>
                         /\ ~task[w].wasClosed /\ Tells(r, LotsIn(lots, c))
                         /\ \A e \in todo : e[2] # c
  <2>1. c \notin mixed => HoldsTrue(task[w], c, baskets[c], LotsIn(lots, c)) /\ WorksOn(task[w], c)
    BY <1>1 DEF IInv, AllClean, Clean, WorksOn, Holding
  <2> QED
    BY <1>1, <2>1 DEF HoldsTrue
<1>16. ASSUME NEW b \in DOMAIN baskets' \ mixed' PROVE Clean(b)'
  <2>1. b \in DOMAIN baskets \ mixed /\ Clean(b)
    BY <1>3, <1>9, <1>16 DEF IInv, AllClean
  <2>2. CASE b = c
    <3>1. \A v \in Tasks \ {w} : ~WorksOn(task[v], b)
      BY <1>15, <2>1, <2>2 DEF Clean
    <3>2. HoldsTrue(t, b, baskets'[b], LotsIn(lots', b))
      BY <1>2, <1>15, <2>1, <2>2, BetweenFacts
    <3>3. ~WorksOn(t, b)
      BY <1>2, <1>15, <2>1, <2>2, BetweenFacts
    <3>4. Tells(baskets'[b], LotsIn(lots', b)) /\ LotsIn(lots', b) # << >>
      BY <1>3, <1>9, <1>15, <2>1, <2>2
    <3>5. announced'[b] = IF baskets'[b].st = "CLOSED" THEN 1 ELSE 0
      <4>1. announced[b] = 0
        BY <1>15, <2>1, <2>2 DEF Clean
      <4>2. announced'[b] = IF closes THEN 1 ELSE 0
        BY <1>1, <1>3, <2>2, <4>1 DEF IInv, TypeOK
      <4> QED
        BY <1>9, <1>15, <2>1, <2>2, <4>2
    <3>6. DOMAIN LotsIn(lots, b) \subseteq DOMAIN LotsIn(lots', b)
      BY <1>3
    <3> QED
      BY <1>8, <2>1, <3>1, <3>2, <3>4, <3>5, <3>6, CleanWorked
  <2>3. CASE b # c
    <3>1. WorksOn(task[w], b) <=> \E e \in todo : e[2] = b
      BY <1>1, <2>3 DEF WorksOn, Working
    <3>2. baskets'[b] = baskets[b] /\ announced'[b] = announced[b]
      BY <1>3, <1>9, <2>1, <2>3
    <3> QED
      BY <1>1, <1>2, <1>3, <1>8, <2>1, <3>1, <3>2, CleanMovesOn
  <2> QED
    BY <2>2, <2>3
<1>17. Unannounced'
  BY <1>1, <1>3, <1>9 DEF IInv, Unannounced
<1>18. ASSUME NEW j \in Instances, Judgement(j) PROVE Judgement(j)'
  <2>1. CASE closes /\ r.inst \in running
    <3>1. CASE j = r.inst
      <4>1. <<j, "evaluate">> \in evals' /\ <<j, "evaluate">>[1] = j
        BY <1>4, <2>1, <3>1
      <4> QED
        BY <4>1 DEF Judgement
    <3>2. CASE j # r.inst
      <4>1. Closed(j)' = Closed(j)
        <5>1. {b \in DOMAIN baskets' : baskets'[b].st = "CLOSED" /\ baskets'[b].inst = j}
                = {b \in DOMAIN baskets : baskets[b].st = "CLOSED" /\ baskets[b].inst = j}
          BY <1>1, <1>9, <3>2
        <5>2. \A b \in DOMAIN baskets : baskets[b].inst = j => baskets'[b] = baskets[b]
          BY <1>1, <1>9, <3>2
        <5> QED
          BY <5>1, <5>2 DEF Closed
      <4> QED
        BY <1>3, <1>4, <1>9, <1>18, <2>1, <3>2, <4>1, JudgementStands
    <3> QED
      BY <3>1, <3>2
  <2>2. CASE ~(closes /\ r.inst \in running)
    <3>1. evals' = evals /\ unjudged' = unjudged
      BY <1>4, <2>2
    <3>2. CASE c \in mixed \/ r.st = "OPEN" \/ j # r.inst
      <4>1. c \in mixed \/ (r.st = "OPEN" /\ baskets[c].st = "OPEN") \/ j # r.inst
        BY <1>15, <3>2
      <4> QED
        BY <1>1, <1>3, <1>18, <3>1, <4>1, JudgedAfterWriting
    <3>3. CASE c \notin mixed /\ r.st = "CLOSED" /\ j = r.inst
      BY <1>3, <1>15, <2>2, <3>3 DEF Judgement
    <3> QED
      BY <1>1, <3>2, <3>3 DEF BasketRow
  <2> QED
    BY <2>1, <2>2
<1> QED
  BY <1>2, <1>5, <1>7, <1>9, <1>10, <1>11, <1>12, <1>13, <1>14, <1>16, <1>17, <1>18, <1>19, TablesStep

\* A lot that is saved is saved as it was read.
LEMMA ReadFacts ==
  ASSUME NEW w, task[w].todo \subseteq InMemory, \A e, f \in task[w].todo : e[1] = f[1] => e = f
  PROVE  \A e \in task[w].todo : /\ e[1] \in Lots /\ e[2] \in {NoBasket} \cup BasketIds /\ e[3] \in Owners
                                 /\ e = <<e[1], e[2], e[3]>> /\ Read(w, e[1]) = e
<1> TAKE e \in task[w].todo
<1>1. (CHOOSE f \in task[w].todo : f[1] = e[1]) = e
  OBVIOUS
<1> QED
  BY <1>1 DEF Read, InMemory

\* Lots are saved, closed, as they were read.  If the basket of one stays clean,
\* the lot was read in it, was open, and nobody else was at work.
LEMMA CloseSaveStep ==
  ASSUME IInv, NEW w \in Tasks, CloseSave(w) PROVE IInv'
<1> DEFINE todo == task[w].todo
           closed == {e[1] : e \in todo}
           read(l) == Read(w, l)[2]
           own(l) == Read(w, l)[3]
<1>1. /\ task[w] \in Task /\ task[w].pc \in Reading
      /\ todo \in SUBSET InMemory
      /\ \A e \in todo : PairFits(e, lots, baskets)
      /\ \A e, f \in todo : e[1] = f[1] => e = f
  BY DEF CloseSave, IInv, TypeOK, Task, AllFit, Fits, Reading
<1>2. \A e \in todo : /\ e[1] \in Lots /\ e[1] \in closed /\ e = <<e[1], e[2], e[3]>>
                      /\ e[2] \in {NoBasket} \cup BasketIds /\ read(e[1]) = e[2]
                      /\ e[3] \in Owners /\ own(e[1]) = e[3]
  BY <1>1, ReadFacts
<1>3. \A l \in closed : l \in Lots /\ \E e \in todo : e[1] = l /\ e[2] = read(l) /\ e[3] = own(l)
  BY <1>2
<1>4. closed \subseteq Lots
  BY <1>2
<1> HIDE DEF closed, read, own
<1>5. PICK pnl \in IF At(w, "settle") THEN Outcomes ELSE {0} :
        lots' = [l \in Lots |->
                   IF l \notin closed THEN lots[l]
                   ELSE [st |-> "CLOSED", opener |-> lots[l].opener, inst |-> own(l), basket |-> read(l),
                         pnl |-> pnl, closedAt |-> now + 1]]
  BY DEF CloseSave, closed, read, own
<1>6. /\ mixed' = mixed \cup
           {b \in BasketIds :
              \/ \E l \in closed : lots[l].basket = b /\ (read(l) # b \/ lots[l].st = "CLOSED")
              \/ \E l \in closed : read(l) = b /\ \E v \in Tasks \ {w} : AtWork(v, b)
              \/ \E k, l \in closed : k # l /\ read(k) = b /\ read(l) = b}
      /\ now' = now + 1 /\ now + crashes < MaxCloses
      /\ UNCHANGED <<baskets, running, evals, unjudged, crashes, announced>>
  BY DEF CloseSave, breaker, closed, read, own
<1>7. PICK t : Do(w, t) /\ Between(t, todo)
  BY <1>1, Proceeds DEF CloseSave, IInv
<1>8. t \in Task /\ t.pc \notin {"resolve", "code", "create"}
  BY <1>7, BetweenFacts DEF Between
<1>9. task'[w] = t /\ \A v \in Tasks \ {w} : task'[v] = task[v]
  BY <1>7 DEF Do, IInv, TypeOK
<1>10. /\ \A l \in Lots \ closed : lots'[l] = lots[l]
       /\ \A l \in closed : /\ lots'[l].st = "CLOSED" /\ lots'[l].opener = lots[l].opener
                            /\ lots'[l].inst = own(l)
                            /\ lots'[l].basket = read(l)
  BY <1>4, <1>5
<1>11. TypeOK'
  <2>1. now + 1 \in Times /\ pnl \in Int
    BY <1>5, <1>6, BasketsAssumption DEF IInv, TypeOK, Times
  <2>2. lots' \in [Lots -> LotRow]
    <3>1. \A l \in closed : [st |-> "CLOSED", opener |-> lots[l].opener, inst |-> own(l), basket |-> read(l),
                             pnl |-> pnl, closedAt |-> now + 1] \in LotRow
      BY <1>2, <1>3, <2>1 DEF IInv, TypeOK, LotRow
    <3>2. \A l \in Lots : lots[l] \in LotRow
      BY DEF IInv, TypeOK
    <3> QED
      BY <1>5, <3>1, <3>2
  <2>3. task' \in [Tasks -> Task]
    BY <1>7, <1>8 DEF Do, IInv, TypeOK
  <2>4. mixed' \subseteq BasketIds
    BY <1>6 DEF IInv, TypeOK
  <2> QED
    BY <1>6, <2>1, <2>2, <2>3, <2>4 DEF IInv, TypeOK
<1>12. Grown(lots, lots', baskets, baskets')
  BY <1>6, <1>10, Domains DEF Grown, IInv
<1>13. \A e \in todo : PairFits(e, lots', baskets')
  BY <1>1, <1>2, <1>12, PairStaysFit
<1>14. Fits(t, lots', baskets')
  BY <1>7, <1>13, BetweenFacts
<1>15. \A v \in Tasks \ {w} : task[v].pc \in Placing => \A e \in todo : e[1] = task[v].lot => e[2] = NoBasket
  BY DEF IInv, AllApart, Apart
<1>16. \A v \in Tasks \ {w} : Apart(t, task[v]) /\ Apart(task[v], t)
  BY <1>7, <1>15, BetweenFacts
<1>17. \A v \in Tasks \ {w} : task[v].pc \in Placing => lots'[task[v].lot].basket = NoBasket
  <2> TAKE v \in Tasks \ {w}
  <2> HAVE task[v].pc \in Placing
  <2>1. task[v].lot \in Lots /\ lots[task[v].lot].basket = NoBasket
    BY DEF IInv, TypeOK, Task, AllFit, Fits
  <2>2. task[v].lot \in closed => read(task[v].lot) = NoBasket
    BY <1>3, <1>15
  <2> QED
    BY <1>10, <2>1, <2>2
<1>18. \A l \in Lots : lots'[l].basket # NoBasket => PairFits(AsIs(lots', l), lots', baskets')
  <2> TAKE l \in Lots
  <2> HAVE lots'[l].basket # NoBasket
  <2>1. CASE l \in closed
    <3>1. PICK e \in todo : e[1] = l /\ e[2] = read(l) /\ e[3] = own(l)
      BY <1>3, <2>1
    <3>2. e = AsIs(lots', l)
      BY <1>2, <1>10, <2>1, <3>1 DEF AsIs
    <3> QED
      BY <1>13, <3>2
  <2>2. CASE l \notin closed
    <3>1. lots'[l] = lots[l] /\ PairFits(AsIs(lots, l), lots, baskets) /\ AsIs(lots, l)[1] = l
      BY <1>10, <2>2 DEF IInv, AllOwned, AsIs
    <3>2. PairFits(AsIs(lots, l), lots', baskets')
      BY <1>12, <3>1, PairStaysFit
    <3> QED
      BY <3>1, <3>2 DEF AsIs
  <2> QED
    BY <2>1, <2>2
<1>23. \A l \in Lots : lots'[l].opener # Manual => lots'[l].inst = lots'[l].opener
  <2>1. \A l \in closed : lots[l].opener # Manual => own(l) = lots[l].opener
    BY <1>1, <1>3 DEF PairFits
  <2> QED
    BY <1>10, <2>1 DEF IInv, AllKept
<1>19. Counted'
  <2>1. Placed(lots, task) \subseteq Placed(lots', task')
    BY <1>8, <1>9, <1>10 DEF Placed
  <2> QED
    BY <1>6, <2>1, StillCounted DEF IInv
<1>20. ASSUME NEW b \in DOMAIN baskets' \ mixed' PROVE Clean(b)'
  <2>1. b \in DOMAIN baskets \ mixed /\ b \in BasketIds /\ b # NoBasket /\ Clean(b)
    BY <1>6, Domains, Sizes DEF IInv, AllClean
  <2>2. /\ \A l \in closed : lots[l].basket = b => read(l) = b /\ lots[l].st # "CLOSED"
        /\ \A l \in closed : read(l) = b => \A v \in Tasks \ {w} : ~AtWork(v, b)
        /\ \A k, l \in closed : read(k) = b /\ read(l) = b => k = l
    BY <1>6, <1>20, <2>1
  <2>3. HoldsTrue(task[w], b, baskets[b], LotsIn(lots, b)) /\ ~WorksOn(task[w], b)
    BY <1>1, <2>1 DEF Clean, Reading, WorksOn, Holding, Working
  <2>4. \A l \in closed : read(l) = b => lots[l].basket = b
    <3> TAKE l \in closed
    <3> HAVE read(l) = b
    <3>1. PICK e \in todo : e[1] = l /\ e[2] = b
      BY <1>3
    <3>2. e[1] \in DOMAIN LotsIn(lots, b)
      BY <1>1, <2>3, <3>1 DEF HoldsTrue
    <3> QED
      BY <3>1, <3>2 DEF LotsIn
  <2>5. {l \in Lots : lots'[l].basket = b} = {l \in Lots : lots[l].basket = b}
    BY <1>4, <1>10, <2>2, <2>4
  <2>6. DOMAIN LotsIn(lots', b) = DOMAIN LotsIn(lots, b)
    BY <2>5 DEF LotsIn
  <2>7. WorksOn(t, b) <=> \E e \in todo : e[2] = b
    BY <1>7, BetweenFacts
  <2>8. CASE \E l \in closed : read(l) = b
    <3>1. PICK l \in closed : read(l) = b
      BY <2>8
    <3>2. \A v \in Tasks \ {w} : ~WorksOn(task[v], b)
      BY <2>2, <3>1 DEF AtWork, At, WorksOn, Holding, Working
    <3>3. Tells(baskets[b], LotsIn(lots, b)) /\ LotsIn(lots, b) # << >>
      BY <2>1, <2>3, <3>2 DEF Clean
    <3>4. l \in Lots /\ lots[l].basket = b /\ lots[l].st # "CLOSED"
      BY <1>4, <2>2, <2>4, <3>1
    <3>5. baskets[b].st = "OPEN"
      <4>1. l \in DOMAIN LotsIn(lots, b) /\ LotsIn(lots, b)[l] = lots[l]
        BY <3>4 DEF LotsIn
      <4>2. baskets[b].st # "CLOSED"
        BY <3>3, <3>4, <4>1 DEF Tells
      <4> QED
        BY <2>1, <4>2, Domains DEF IInv, BasketRow
    <3>6. LotsIn(lots', b) # << >>
      <4>1. \E k \in Lots : lots'[k].basket = b
        BY <2>5, <3>4
      <4> QED
        BY <4>1, LotsInFacts
    <3>7. \A e, f \in todo : e[2] = b /\ f[2] = b => e = f
      BY <1>1, <1>2, <2>2
    <3>8. HoldsTrue(t, b, baskets'[b], LotsIn(lots', b))
      BY <1>6, <1>7, <3>5, <3>6, <3>7, BetweenFacts
    <3>9. WorksOn(t, b)
      BY <1>3, <2>7, <3>1
    <3>10. announced'[b] = IF baskets'[b].st = "CLOSED" THEN 1 ELSE 0
      BY <1>6, <2>1 DEF Clean
    <3> QED
      BY <1>9, <2>1, <2>6, <3>2, <3>8, <3>9, <3>10, CleanWorked
  <2>9. CASE ~\E l \in closed : read(l) = b
    <3>1. \A l \in DOMAIN LotsIn(lots, b) : lots'[l] = lots[l]
      BY <1>10, <2>2, <2>9 DEF LotsIn
    <3>2. LotsIn(lots', b) = LotsIn(lots, b)
      BY <2>5, <3>1 DEF LotsIn
    <3>3. \A e \in todo : e[2] # b
      BY <1>2, <2>9
    <3>4. ~WorksOn(t, b)
      BY <2>7, <3>3
    <3>5. HoldsTrue(t, b, baskets[b], LotsIn(lots, b))
      BY <1>7, <3>3, BetweenFacts
    <3> QED
      BY <1>6, <1>9, <2>1, <2>3, <3>2, <3>4, <3>5, CleanAside DEF Aside
  <2> QED
    BY <2>8, <2>9
<1>21. Unannounced'
  BY <1>6 DEF IInv, Unannounced
<1>22. ASSUME NEW j \in Instances, Judgement(j) PROVE Judgement(j)'
  <2>1. Closed(j)' = Closed(j)
    BY <1>6 DEF Closed
  <2>2. mixed \subseteq mixed'
    BY <1>6
  <2> QED
    BY <1>6, <1>22, <2>1, <2>2, JudgementStands
<1> QED
  BY <1>7, <1>8, <1>11, <1>12, <1>14, <1>16, <1>17, <1>18, <1>19, <1>20, <1>21, <1>22, <1>23, TablesStep

\* Two views of the lots of a basket of which a row tells the same.
Alike(v, u) ==
  /\ DOMAIN v = DOMAIN u /\ (v # << >> <=> u # << >>)
  /\ \A l \in DOMAIN v : u[l].st = v[l].st /\ (v[l].st = "CLOSED" => u[l].pnl = v[l].pnl)

LEMMA AlikeTold ==
  ASSUME NEW v, NEW u, Alike(v, u)
  PROVE  /\ \A row : Tells(row, v) => Tells(row, u)
         /\ \A t, b, r : HoldsTrue(t, b, r, v) => HoldsTrue(t, b, r, u)
<1>1. {k \in DOMAIN v : v[k].st = "CLOSED"} = {k \in DOMAIN u : u[k].st = "CLOSED"}
  BY DEF Alike
<1>2. [l \in {k \in DOMAIN v : v[k].st = "CLOSED"} |-> v[l].pnl]
        = [l \in {k \in DOMAIN u : u[k].st = "CLOSED"} |-> u[l].pnl]
  BY <1>1 DEF Alike
<1>3. ASSUME NEW row, Tells(row, v) PROVE Tells(row, u)
  <2>1. row.layers = Cardinality(DOMAIN u) /\ (row.st = "CLOSED" <=> \A l \in DOMAIN u : u[l].st = "CLOSED")
    BY <1>3 DEF Tells, Alike
  <2>2. row.realized = SumFunction([l \in {k \in DOMAIN u : u[k].st = "CLOSED"} |-> u[l].pnl])
    BY <1>2, <1>3 DEF Tells
  <2> QED
    BY <2>1, <2>2 DEF Tells
<1> QED
  BY <1>3 DEF HoldsTrue, Alike

\* An adoption leaves the lots of a clean basket open or closed as they are.
LEMMA ClaimSaveStep ==
  ASSUME IInv, NEW w \in Tasks, ClaimSave(w) PROVE IInv'
<1> DEFINE todo == task[w].todo
           claimed == {e[1] : e \in todo}
           read(l) == Read(w, l)[2]
           own(l) == Read(w, l)[3]
<1>1. /\ task[w] \in Task /\ task[w].pc \in Reading
      /\ todo \in SUBSET InMemory
      /\ \A e \in todo : PairFits(e, lots, baskets)
      /\ \A e, f \in todo : e[1] = f[1] => e = f
  BY DEF ClaimSave, At, IInv, TypeOK, Task, AllFit, Fits, Reading
<1>2. \A e \in todo : /\ e[1] \in Lots /\ e[1] \in claimed /\ e = <<e[1], e[2], e[3]>>
                      /\ e[2] \in {NoBasket} \cup BasketIds /\ read(e[1]) = e[2]
                      /\ e[3] \in Owners /\ own(e[1]) = e[3]
  BY <1>1, ReadFacts
<1>3. \A l \in claimed : l \in Lots /\ \E e \in todo : e[1] = l /\ e[2] = read(l) /\ e[3] = own(l)
  BY <1>2
<1>4. claimed \subseteq Lots
  BY <1>2
<1>5. lots' = [l \in Lots |->
                IF l \notin claimed THEN lots[l]
                ELSE [st |-> "OPEN", opener |-> lots[l].opener, inst |-> own(l), basket |-> read(l),
                      pnl |-> 0, closedAt |-> 0]]
  BY DEF ClaimSave
<1>6. /\ mixed' = mixed \cup {b \in BasketIds : \E l \in claimed :
                      lots[l].basket = b /\ (read(l) # b \/ lots[l].st = "CLOSED")}
      /\ now' = now + 1 /\ now + crashes < MaxCloses /\ Do(w, Idle)
      /\ UNCHANGED <<baskets, running, evals, unjudged, crashes, announced>>
  BY DEF ClaimSave, breaker
<1> HIDE DEF claimed, read, own
<1>9. task'[w] = Idle /\ \A v \in Tasks \ {w} : task'[v] = task[v]
  BY <1>6 DEF Do, IInv, TypeOK
<1>10. /\ \A l \in Lots \ claimed : lots'[l] = lots[l]
       /\ \A l \in claimed : /\ lots'[l].st = "OPEN" /\ lots'[l].opener = lots[l].opener
                             /\ lots'[l].inst = own(l)
                             /\ lots'[l].basket = read(l)
  BY <1>4, <1>5
<1>11. TypeOK'
  <2>1. now + 1 \in Times /\ 0 \in Int /\ 0 \in Times
    BY <1>6, BasketsAssumption DEF IInv, TypeOK, Times
  <2>2. lots' \in [Lots -> LotRow]
    <3>1. \A l \in claimed : [st |-> "OPEN", opener |-> lots[l].opener, inst |-> own(l), basket |-> read(l),
                              pnl |-> 0, closedAt |-> 0] \in LotRow
      BY <1>2, <1>3, <2>1 DEF IInv, TypeOK, LotRow
    <3>2. \A l \in Lots : lots[l] \in LotRow
      BY DEF IInv, TypeOK
    <3> QED
      BY <1>5, <3>1, <3>2
  <2>3. task' \in [Tasks -> Task]
    BY <1>6, IdleFacts DEF Do, IInv, TypeOK
  <2>4. mixed' \subseteq BasketIds
    BY <1>6 DEF IInv, TypeOK
  <2> QED
    BY <1>6, <2>1, <2>2, <2>3, <2>4 DEF IInv, TypeOK
<1>12. Grown(lots, lots', baskets, baskets')
  BY <1>6, <1>10, Domains DEF Grown, IInv
<1>13. \A e \in todo : PairFits(e, lots', baskets')
  BY <1>1, <1>2, <1>12, PairStaysFit
<1>15. \A v \in Tasks \ {w} : task[v].pc \in Placing => \A e \in todo : e[1] = task[v].lot => e[2] = NoBasket
  BY DEF IInv, AllApart, Apart
<1>17. \A v \in Tasks \ {w} : task[v].pc \in Placing => lots'[task[v].lot].basket = NoBasket
  <2> TAKE v \in Tasks \ {w}
  <2> HAVE task[v].pc \in Placing
  <2>1. task[v].lot \in Lots /\ lots[task[v].lot].basket = NoBasket
    BY DEF IInv, TypeOK, Task, AllFit, Fits
  <2>2. task[v].lot \in claimed => read(task[v].lot) = NoBasket
    BY <1>3, <1>15
  <2> QED
    BY <1>10, <2>1, <2>2
<1>18. \A l \in Lots : lots'[l].basket # NoBasket => PairFits(AsIs(lots', l), lots', baskets')
  <2> TAKE l \in Lots
  <2> HAVE lots'[l].basket # NoBasket
  <2>1. CASE l \in claimed
    <3>1. PICK e \in todo : e[1] = l /\ e[2] = read(l) /\ e[3] = own(l)
      BY <1>3, <2>1
    <3>2. e = AsIs(lots', l)
      BY <1>2, <1>10, <2>1, <3>1 DEF AsIs
    <3> QED
      BY <1>13, <3>2
  <2>2. CASE l \notin claimed
    <3>1. lots'[l] = lots[l] /\ PairFits(AsIs(lots, l), lots, baskets) /\ AsIs(lots, l)[1] = l
      BY <1>10, <2>2 DEF IInv, AllOwned, AsIs
    <3>2. PairFits(AsIs(lots, l), lots', baskets')
      BY <1>12, <3>1, PairStaysFit
    <3> QED
      BY <3>1, <3>2 DEF AsIs
  <2> QED
    BY <2>1, <2>2
<1>23. \A l \in Lots : lots'[l].opener # Manual => lots'[l].inst = lots'[l].opener
  <2>1. \A l \in claimed : lots[l].opener # Manual => own(l) = lots[l].opener
    BY <1>1, <1>3 DEF PairFits
  <2> QED
    BY <1>10, <2>1 DEF IInv, AllKept
<1>19. Counted'
  <2>1. Placed(lots, task) \subseteq Placed(lots', task')
    BY <1>9, <1>10, IdleFacts DEF Placed
  <2> QED
    BY <1>6, <2>1, StillCounted DEF IInv
<1>20. ASSUME NEW b \in DOMAIN baskets' \ mixed' PROVE Clean(b)'
  <2> DEFINE v == LotsIn(lots, b)
             u == LotsIn(lots', b)
  <2>1. b \in DOMAIN baskets \ mixed /\ b \in BasketIds /\ b # NoBasket /\ Clean(b)
    BY <1>6, Domains, Sizes DEF IInv, AllClean
  <2>2. \A l \in claimed : lots[l].basket = b => read(l) = b /\ lots[l].st # "CLOSED"
    BY <1>6, <1>20, <2>1
  <2>3. HoldsTrue(task[w], b, baskets[b], v) /\ ~WorksOn(task[w], b)
    BY <1>1, <2>1 DEF Clean, Reading, WorksOn, Holding, Working
  <2>4. \A l \in claimed : read(l) = b => lots[l].basket = b
    <3> TAKE l \in claimed
    <3> HAVE read(l) = b
    <3>1. PICK e \in todo : e[1] = l /\ e[2] = b
      BY <1>3
    <3>2. e[1] \in DOMAIN LotsIn(lots, b)
      BY <1>1, <2>3, <3>1 DEF HoldsTrue
    <3> QED
      BY <3>1, <3>2 DEF LotsIn
  <2>5. {l \in Lots : lots'[l].basket = b} = {l \in Lots : lots[l].basket = b}
    BY <1>4, <1>10, <2>2, <2>4
  <2>6. /\ DOMAIN v = {l \in Lots : lots[l].basket = b} /\ DOMAIN u = DOMAIN v
        /\ \A l \in DOMAIN v : v[l] = lots[l] /\ u[l] = lots'[l]
        /\ v # << >> <=> u # << >>
    <3>1. /\ DOMAIN v = {l \in Lots : lots[l].basket = b} /\ \A l \in DOMAIN v : v[l] = lots[l]
          /\ DOMAIN u = {l \in Lots : lots'[l].basket = b} /\ \A l \in DOMAIN u : u[l] = lots'[l]
      BY DEF LotsIn
    <3>2. /\ v # << >> <=> \E l \in Lots : lots[l].basket = b
          /\ u # << >> <=> \E l \in Lots : lots'[l].basket = b
      <4> HIDE DEF LotsIn
      <4>1. v # << >> <=> \E l \in Lots : lots[l].basket = b
        BY LotsInFacts
      <4>2. u # << >> <=> \E l \in Lots : lots'[l].basket = b
        BY LotsInFacts
      <4> QED
        BY <4>1, <4>2
    <3>3. (\E l \in Lots : lots'[l].basket = b) <=> \E l \in Lots : lots[l].basket = b
      BY <2>5
    <3> HIDE DEF v, u
    <3> QED
      BY <2>5, <3>1, <3>2, <3>3
  <2>7. \A l \in DOMAIN v : lots'[l].st = lots[l].st /\ (l \in claimed => lots[l].st # "CLOSED")
    <3> TAKE l \in DOMAIN v
    <3>1. CASE l \in claimed
      <4>1. l \in Lots /\ lots[l].basket = b
        BY <2>6
      <4>2. lots[l].st # "CLOSED" /\ lots[l].st # "NONE" /\ lots[l] \in LotRow
        BY <1>1, <1>3, <2>2, <3>1, <4>1 DEF PairFits, IInv, TypeOK
      <4> QED
        BY <1>10, <3>1, <4>2 DEF LotRow
    <3>2. CASE l \notin claimed
      BY <1>10, <2>6, <3>2
    <3> QED
      BY <3>1, <3>2
  <2>8. \A l \in DOMAIN v : lots[l].st = "CLOSED" => lots'[l].pnl = lots[l].pnl
    BY <1>10, <2>6, <2>7
  <2>9. Alike(v, u)
    BY <2>6, <2>7, <2>8 DEF Alike
  <2> HIDE DEF v, u
  <2>10. ~WorksOn(Idle, b) /\ HoldsTrue(Idle, b, baskets'[b], u)
    BY IdleFacts
  <2>11. \A x \in Tasks : HoldsTrue(task'[x], b, baskets'[b], u)
    BY <1>6, <1>9, <2>1, <2>9, <2>10, AlikeTold DEF Clean, v
  <2>12. \A x \in Tasks : WorksOn(task'[x], b) <=> WorksOn(task[x], b)
    BY <1>9, <2>3, <2>10
  <2>13. (\A x \in Tasks : ~WorksOn(task[x], b)) => Tells(baskets'[b], u) /\ u # << >>
    BY <1>6, <2>1, <2>6, <2>9, AlikeTold DEF Clean, v
  <2>14. announced'[b] = IF baskets'[b].st = "CLOSED" THEN 1 ELSE 0
    BY <1>6, <2>1 DEF Clean
  <2>15. \A x, y \in Tasks : WorksOn(task[x], b) /\ WorksOn(task[y], b) => x = y
    BY <2>1 DEF Clean
  <2> QED
    BY <2>11, <2>12, <2>13, <2>14, <2>15 DEF Clean, u
<1>21. Unannounced'
  BY <1>6 DEF IInv, Unannounced
<1>22. ASSUME NEW j \in Instances, Judgement(j) PROVE Judgement(j)'
  <2>1. Closed(j)' = Closed(j)
    BY <1>6 DEF Closed
  <2>2. mixed \subseteq mixed'
    BY <1>6
  <2> QED
    BY <1>6, <1>22, <2>1, <2>2, JudgementStands
<1> QED
  BY <1>6, <1>11, <1>12, <1>17, <1>18, <1>19, <1>20, <1>21, <1>22, <1>23, IdleFacts, TablesStep

-----------------------------------------------------------------------------
(* The breaker, and a crash *)

LEMMA BreakerStep ==
  ASSUME IInv, UNCHANGED <<lots, baskets, task, now, announced, mixed, crashes>>,
         running' \subseteq Instances, evals' \subseteq Instances \X {"evaluate", "stop"},
         unjudged' \subseteq Instances,
         \A j \in Instances : Judgement(j) => Judgement(j)'
  PROVE  IInv'
<1>1. TypeOK'
  BY DEF IInv, TypeOK
<1>2. AllFit' /\ AllApart' /\ AllOwned' /\ AllKept' /\ Unannounced' /\ Counted'
  BY DEF IInv, AllFit, AllApart, AllOwned, AllKept, AsIs, Unannounced, Counted
<1>3. AllClean'
  BY DEF IInv, AllClean, Clean
<1> QED
  BY <1>1, <1>2, <1>3 DEF IInv, AllJudged

LEMMA EvaluateStep ==
  ASSUME IInv, NEW i \in Instances, Evaluate(i) PROVE IInv'
<1>1. /\ UNCHANGED <<lots, baskets, task, running, now, crashes, announced, mixed, unjudged>>
      /\ evals' = (evals \ {<<i, "evaluate">>}) \cup (IF Halts(Nets(Closed(i))) THEN {<<i, "stop">>} ELSE {})
  BY DEF Evaluate, history
<1>2. ASSUME NEW j \in Instances, Judgement(j) PROVE Judgement(j)'
  <2>1. Closed(j)' = Closed(j)
    BY <1>1 DEF Closed
  <2>2. CASE j = i /\ Halts(Nets(Closed(i)))
    <3>1. <<j, "stop">> \in evals' /\ <<j, "stop">>[1] = j
      BY <1>1, <2>2
    <3> QED
      BY <3>1 DEF Judgement
  <2>3. CASE j = i /\ ~Halts(Nets(Closed(i)))
    <3>1. ~Halts(Nets(Closed(j)'))
      BY <2>1, <2>3
    <3> QED
      BY <3>1 DEF Judgement
  <2>4. CASE j # i
    <3>1. \A e \in evals : e[1] = j => e \in evals'
      BY <1>1, <2>4
    <3> QED
      BY <1>1, <1>2, <2>1, <3>1, JudgementStands
  <2> QED
    BY <2>2, <2>3, <2>4
<1> QED
  BY <1>1, <1>2, BreakerStep DEF IInv, TypeOK

LEMMA TripStep ==
  ASSUME IInv, NEW i \in Instances, Trip(i) PROVE IInv'
<1>1. /\ UNCHANGED <<lots, baskets, task, now, crashes, announced, mixed, unjudged>>
      /\ evals' = evals \ {<<i, "stop">>} /\ running' = running \ {i}
  BY DEF Trip, history
<1>2. ASSUME NEW j \in Instances, Judgement(j) PROVE Judgement(j)'
  <2>1. Closed(j)' = Closed(j)
    BY <1>1 DEF Closed
  <2>2. CASE j = i
    BY <1>1, <2>2 DEF Judgement
  <2>3. CASE j # i
    <3>1. \A e \in evals : e[1] = j => e \in evals'
      BY <1>1, <2>3
    <3> QED
      BY <1>1, <1>2, <2>1, <2>3, <3>1, JudgementStands
  <2> QED
    BY <2>2, <2>3
<1> QED
  BY <1>1, <1>2, BreakerStep DEF IInv, TypeOK

LEMMA StartStep ==
  ASSUME IInv, NEW i \in Instances, Start(i) PROVE IInv'
<1>1. /\ UNCHANGED <<lots, baskets, task, evals, now, crashes, announced, mixed>>
      /\ running' = running \cup {i} /\ unjudged' = unjudged \cup {i}
  BY DEF Start
<1>2. ASSUME NEW j \in Instances, Judgement(j) PROVE Judgement(j)'
  <2>1. Closed(j)' = Closed(j)
    BY <1>1 DEF Closed
  <2> QED
    BY <1>1, <1>2, <2>1, JudgementStands
<1> QED
  BY <1>1, <1>2, BreakerStep DEF IInv, TypeOK

LEMMA CrashStep ==
  ASSUME IInv, Crash PROVE IInv'
<1>1. /\ UNCHANGED <<lots, baskets, running, now, announced>>
      /\ crashes < MaxCrashes /\ crashes' = crashes + 1
      /\ evals' = {} /\ unjudged' = unjudged \cup {e[1] : e \in evals}
      /\ mixed' = mixed \cup {b \in BasketIds : \E w \in Tasks :
                     task[w].basket = b \/ \E e \in task[w].todo : e[2] = b}
  BY DEF Crash
<1>2. task' = [w \in Tasks |-> Idle]
  BY DEF Crash
<1>3. TypeOK'
  <2>1. crashes' \in 0..MaxCrashes
    BY <1>1, BasketsAssumption DEF IInv, TypeOK
  <2>2. task' \in [Tasks -> Task]
    BY <1>2, IdleFacts
  <2>3. unjudged' \subseteq Instances
    <3>1. \A e \in evals : e[1] \in Instances
      BY DEF IInv, TypeOK
    <3> QED
      BY <1>1, <3>1 DEF IInv, TypeOK
  <2> QED
    BY <1>1, <2>1, <2>2, <2>3 DEF IInv, TypeOK
<1>4. AllFit' /\ AllApart' /\ AllOwned' /\ AllKept' /\ Unannounced'
  BY <1>1, <1>2, IdleFacts DEF IInv, AllFit, AllApart, AllOwned, AllKept, AsIs, Unannounced
<1>5. Counted'
  <2>1. Placed(lots, task) \subseteq Placed(lots', task')
    BY <1>1, <1>2, IdleFacts DEF Placed
  <2> QED
    BY <1>1, <2>1, StillCounted DEF IInv
<1>6. ASSUME NEW b \in DOMAIN baskets' \ mixed' PROVE Clean(b)'
  <2>1. b \in DOMAIN baskets \ mixed /\ b \in BasketIds /\ Clean(b)
    BY <1>1, Domains DEF IInv, AllClean
  <2>2. \A w \in Tasks : ~WorksOn(task[w], b)
    BY <1>1, <1>6, <2>1 DEF WorksOn
  <2>3. Tells(baskets[b], LotsIn(lots, b)) /\ LotsIn(lots, b) # << >>
    BY <2>1, <2>2 DEF Clean
  <2>4. \A w \in Tasks : ~WorksOn(task'[w], b) /\ HoldsTrue(task'[w], b, baskets'[b], LotsIn(lots', b))
    BY <1>2, IdleFacts
  <2>5. announced'[b] = IF baskets'[b].st = "CLOSED" THEN 1 ELSE 0
    BY <1>1, <2>1 DEF Clean
  <2> QED
    BY <1>1, <2>3, <2>4, <2>5 DEF Clean
<1>7. ASSUME NEW j \in Instances, Judgement(j) PROVE Judgement(j)'
  <2>1. Closed(j)' = Closed(j)
    BY <1>1 DEF Closed
  <2>2. j \in running' \ unjudged' => j \in running \ unjudged /\ \A e \in evals : e[1] # j
    BY <1>1
  <2> QED
    BY <1>1, <1>7, <2>1, <2>2, JudgementStands
<1> QED
  BY <1>3, <1>4, <1>5, <1>6, <1>7 DEF IInv, AllClean, AllJudged

LEMMA StutterStep ==
  ASSUME IInv, UNCHANGED vars PROVE IInv'
<1>1. ASSUME NEW j \in Instances, Judgement(j) PROVE Judgement(j)'
  <2>1. Closed(j)' = Closed(j)
    BY DEF vars, Closed
  <2> QED
    BY <1>1, <2>1, JudgementStands DEF vars
<1> QED
  BY <1>1, BreakerStep DEF vars, IInv, TypeOK

LEMMA StepInvariant == IInv /\ [Next]_vars => IInv'
<1> SUFFICES ASSUME IInv, [Next]_vars PROVE IInv'
  OBVIOUS
<1>1. ASSUME NEW w \in Tasks, NEW l \in Lots, SettleRead(w, l) PROVE IInv'
  BY <1>1, SettleReadStep
<1>2. ASSUME NEW w \in Tasks, NEW l \in Lots, NEW i \in Placers, InsertLot(w, l, i) PROVE IInv'
  BY <1>2, InsertLotStep
<1>3. ASSUME NEW w \in Tasks,
             Resolve(w) \/ Code(w) \/ Create(w) \/ Attach(w) \/ Origin(w) \/ ArchiveRead(w) \/ CloseSave(w)
             \/ ClaimSave(w)
      PROVE  IInv'
  BY <1>3, ResolveStep, CodeStep, CreateStep, AttachStep, OriginStep, ArchiveReadStep, CloseSaveStep,
     ClaimSaveStep
<1>4. ASSUME NEW w \in Tasks, NEW e \in task[w].todo, RecomputeRead(w, e) PROVE IInv'
  BY <1>4, RecomputeReadStep
<1>5. ASSUME NEW w \in Tasks, RecomputeLots(w) \/ Funding(w) \/ Save(w) PROVE IInv'
  BY <1>5, RecomputeLotsStep, FundingStep, SaveStep
<1>9. ASSUME NEW w \in Tasks, NEW i \in Instances, ClaimRead(w, i) PROVE IInv'
  BY <1>9, ClaimReadStep
<1>6. ASSUME NEW i \in Instances, Evaluate(i) \/ Trip(i) \/ Start(i) PROVE IInv'
  BY <1>6, EvaluateStep, TripStep, StartStep
<1>7. CASE Crash
  BY <1>7, CrashStep
<1>8. CASE UNCHANGED vars
  BY <1>8, StutterStep
<1> QED
  BY <1>1, <1>2, <1>3, <1>4, <1>5, <1>6, <1>7, <1>8, <1>9 DEF Next

LEMMA Invariance == Spec => []IInv
BY InitInvariant, StepInvariant, PTL DEF Spec

-----------------------------------------------------------------------------
\* Types, and with them that there are never more baskets than lots and that the
\* totals of a basket are integers.
THEOREM TypeCorrect == Spec => []TypeOK
<1>1. IInv => TypeOK
  BY DEF IInv
<1> QED
  BY <1>1, Invariance, PTL

\* What an instance opened is never adopted by another, nor counted in a basket of
\* another owner, whoever adopts the lots that nobody owns.
THEOREM OwnBasketKept == Spec => []OwnBasket
<1>1. IInv => OwnBasket
  BY DEF IInv, AllOwned, AllKept, AsIs, PairFits, OwnBasket
<1> QED
  BY <1>1, Invariance, PTL

LEMMA RestIsClean ==
  ASSUME IInv, NEW b, AtRest(b)
  PROVE  /\ b \in DOMAIN baskets /\ b \in BasketIds /\ Clean(b) /\ \A w \in Tasks : ~WorksOn(task[w], b)
         /\ Tells(baskets[b], LotsIn(lots, b))
<1>1. b \in DOMAIN baskets \ mixed /\ \A w \in Tasks : ~WorksOn(task[w], b)
  BY DEF AtRest, WorksOn
<1>2. Clean(b) /\ b \in BasketIds
  BY <1>1, Domains DEF IInv, AllClean
<1> QED
  BY <1>1, <1>2 DEF Clean

\* A basket on which tasks did not meet, and nobody is at work, was announced once
\* if it is closed, and never before.
THEOREM AnnouncedJustOnce == Spec => []AnnouncedOnce
<1>1. IInv => AnnouncedOnce
  BY RestIsClean DEF AnnouncedOnce, Clean
<1> QED
  BY <1>1, Invariance, PTL

\* ... and the board shows of it what its lots add up to.
THEOREM TotalsMatch == Spec => []TotalsMatchLots
<1>1. ASSUME IInv, NEW b, AtRest(b)
      PROVE  LET s == ToSummary(b) IN
             /\ s.row.layers = Cardinality(s.lots)
             /\ s.row.realized = Results(s.lots \ s.open)
             /\ s.row.st = "CLOSED" <=> s.open = {}
  <2> DEFINE S == LotsOf(b)
             v == LotsIn(lots, b)
             open == {l \in S : lots[l].st = "OPEN"}
  <2>1. b \in BasketIds /\ b # NoBasket /\ Tells(baskets[b], v)
    BY <1>1, RestIsClean, Sizes
  <2>2. DOMAIN v = S /\ \A l \in S : v[l] = lots[l]
    BY DEF LotsOf, LotsIn
  <2>3. \A l \in S : lots[l].st \in {"OPEN", "CLOSED"}
    <3>1. \A l \in S : l \in Lots /\ lots[l].basket # NoBasket /\ AsIs(lots, l)[1] = l
      BY <2>1 DEF LotsOf, AsIs
    <3>2. \A l \in S : lots[l].st # "NONE" /\ lots[l] \in LotRow
      BY <1>1, <3>1 DEF IInv, AllOwned, PairFits, TypeOK
    <3> QED
      BY <3>2 DEF LotRow
  <2>4. {k \in DOMAIN v : v[k].st = "CLOSED"} = S \ open
    BY <2>2, <2>3
  <2>5. [l \in S \ open |-> v[l].pnl] = [l \in S \ open |-> lots[l].pnl]
    BY <2>2
  <2>6. baskets[b].realized = Results(S \ open)
    BY <2>1, <2>4, <2>5 DEF Tells, Results
  <2>7. baskets[b].layers = Cardinality(S) /\ (baskets[b].st = "CLOSED" <=> open = {})
    BY <2>1, <2>2, <2>3 DEF Tells
  <2> QED
    BY <2>6, <2>7 DEF ToSummary
<1>2. IInv => TotalsMatchLots
  <2> SUFFICES ASSUME IInv, NEW k \in DOMAIN ListRecent(Cardinality(Lots)),
                      AtRest(ListRecent(Cardinality(Lots))[k].id)
               PROVE  LET s == ListRecent(Cardinality(Lots))[k] IN
                      /\ s.row.layers = Cardinality(s.lots)
                      /\ s.row.realized = Results(s.lots \ s.open)
                      /\ s.row.st = "CLOSED" <=> s.open = {}
    BY DEF TotalsMatchLots
  <2> DEFINE b == Len(baskets) - k + 1
  <2>1. ListRecent(Cardinality(Lots))[k] = ToSummary(b)
    BY DEF ListRecent
  <2>2. ToSummary(b).id = b
    BY DEF ToSummary
  <2> HIDE DEF b
  <2> QED
    BY <1>1, <2>1, <2>2
<1> QED
  BY <1>2, Invariance, PTL

\* An instance that has lost too much, and was judged since, does not run on.
THEOREM LosersStop == Spec => []LosersAreStopped
<1>1. IInv => LosersAreStopped
  BY DEF IInv, AllJudged, Judgement, LosersAreStopped, AtRest, TypeOK
<1> QED
  BY <1>1, Invariance, PTL
=============================================================================
