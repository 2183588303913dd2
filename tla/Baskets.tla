------------------------------- MODULE Baskets -------------------------------
(***************************************************************************)
(* basket.service.ts: the lots of one round, from the first opening to the *)
(* last closing, belong to a basket whose row holds their totals.  A new   *)
(* lot is attached to the open basket of its instance, or to a new one;    *)
(* after every opening and closing the row is computed again from all lots *)
(* of the basket.  A basket that closes is announced, and the announcement *)
(* makes the circuit breaker (protection.service.ts) judge the instance.   *)
(*                                                                         *)
(* Tasks are the placing of orders, the rounds of the order sync, and the  *)
(* archiving and the adoption at a start; each is cut at its awaits.  An   *)
(* entity read before an await is saved as it was read, with what the code *)
(* changed in memory.                                                      *)
(* Prices and quantities are left out: a lot has a net result.  Lots are   *)
(* numbered in the order of their opening; times count the closings and    *)
(* the adoptions.                                                          *)
(***************************************************************************)
EXTENDS Integers, FiniteSets, FiniteSetsExt, Functions, Sequences, SequencesExt

CONSTANTS
  Lots, Instances,
  Manual,             \* the owner of the lots that no instance opened
  Placers,            \* those whose orders are filled
  Outcomes,           \* what a lot may bring
  Tasks,
  FundingFees,        \* what the income of a basket's time may sum up to
  Protections,        \* the configuration of the breaker
  IncomeMayFail,      \* may the query for the funding fees of a basket throw
  MaxCloses, MaxCrashes  \* bound the model: closings, adoptions and crashes; crashes

NoBasket == 0
BasketIds == 1..Cardinality(Lots)
Times == 0..MaxCloses
Steps == {"idle", "resolve", "code", "create", "attach", "origin", "next", "lots", "funding",
          "save", "settle", "archive", "claim"}
Owners == Instances \cup {Manual}

ASSUME BasketsAssumption ==
  /\ IsFiniteSet(Lots) /\ Lots = 1..Cardinality(Lots) /\ Lots # {} /\ FundingFees \subseteq Int /\ Manual \notin Instances
  /\ Placers \subseteq Owners
  /\ Outcomes \subseteq Int
  /\ Protections \in [enabled: BOOLEAN, maxConsecutiveLosses: Nat, maxDrawdownPct: Nat,
                      capitalBaseUsdt: Nat, lookbackBaskets: Nat]
  /\ IncomeMayFail \in BOOLEAN /\ MaxCloses \in Nat /\ MaxCrashes \in Nat

VARIABLES
  lots,      \* table position_lots
  baskets,   \* table baskets; the code of a basket is its position
  task,      \* control and local variables of every task
  running,   \* the instances in the runner's map
  evals,     \* what the breaker is doing: <<instance, step>>
  now,       \* closings and adoptions so far
  crashes,
  \* history
  announced, \* how often each basket was announced as closed
  mixed,     \* baskets on which two tasks, or one twice, were at work
  unjudged   \* instances started, or forgotten by a crash, since their last judgement

vars == <<lots, baskets, task, running, evals, now, crashes, announced, mixed, unjudged>>
history == <<announced, mixed, unjudged>>
breaker == <<running, evals, unjudged>>

\* A lot keeps its opening order, and with it the instance that placed it; who
\* owns the lot is a column of its own.
LotRow == [st: {"NONE", "OPEN", "CLOSED"}, opener: Owners, inst: Owners,
           basket: {NoBasket} \cup BasketIds, pnl: Int, closedAt: Times]
BasketRow == [st: {"OPEN", "CLOSED"}, inst: Owners,
              origin: {"strategy", "manual", "mixed"}, layers: 0..Cardinality(Lots),
              realized: Int, funding: FundingFees \cup {0}, closedAt: Times]
NoRow == [st |-> "OPEN", inst |-> Manual, origin |-> "manual", layers |-> 0, realized |-> 0,
          funding |-> 0, closedAt |-> 0]
\* A lot in memory: <<lot, basket, owner>>.
InMemory == Lots \X ({NoBasket} \cup BasketIds) \X Owners
Task == [pc: Steps, lot: Lots, basket: {NoBasket} \cup BasketIds, row: BasketRow,
         wasClosed: BOOLEAN, todo: SUBSET InMemory]
Idle == [pc |-> "idle", lot |-> CHOOSE l \in Lots : TRUE, basket |-> NoBasket, row |-> NoRow,
         wasClosed |-> FALSE, todo |-> {}]

TypeOK ==
  /\ lots \in [Lots -> LotRow]
  /\ baskets \in Seq(BasketRow) /\ Len(baskets) <= Cardinality(Lots)
  /\ task \in [Tasks -> Task]
  /\ running \subseteq Instances /\ evals \subseteq Instances \X {"evaluate", "stop"}
  /\ now \in Times /\ crashes \in 0..MaxCrashes
  /\ announced \in [BasketIds -> Nat] /\ mixed \subseteq BasketIds /\ unjudged \subseteq Instances

Init ==
  /\ lots = [l \in Lots |-> [st |-> "NONE", opener |-> Manual, inst |-> Manual, basket |-> NoBasket,
                             pnl |-> 0, closedAt |-> 0]]
  /\ baskets = <<>>
  /\ task = [w \in Tasks |-> Idle]
  /\ running = {} /\ evals = {} /\ unjudged = {}
  /\ now = 0 /\ crashes = 0
  /\ announced = [b \in BasketIds |-> 0] /\ mixed = {}

At(w, step) == task[w].pc = step
Do(w, t) == task' = [task EXCEPT ![w] = t]
Go(w, step) == Do(w, [task[w] EXCEPT !.pc = step])
\* The recomputations of `todo` are left to be done.
Proceed(w, todo) ==
  Do(w, IF todo = {} THEN Idle ELSE [Idle EXCEPT !.pc = "next", !.todo = todo])

\* A task is at work on a basket from the resolution of a new lot, or from the
\* closing of lots, to the last recomputation that follows.
AtWork(w, b) ==
  \/ task[w].pc \in {"attach", "origin", "lots", "funding", "save"} /\ task[w].basket = b
  \/ task[w].pc \in {"next", "lots", "funding", "save"} /\ \E e \in task[w].todo : e[2] = b
Enter(w, b) == mixed' = IF \E v \in Tasks \ {w} : AtWork(v, b) THEN mixed \cup {b} ELSE mixed

-----------------------------------------------------------------------------
(* A lot is opened: createFromOpenFill, attachLot and resolveOpenBasket *)

InsertLot(w, l, i) ==
  /\ At(w, "idle") /\ lots[l].st = "NONE" /\ (l > 1 => lots[l - 1].st # "NONE")
  /\ lots' = [lots EXCEPT ![l].st = "OPEN", ![l].opener = i, ![l].inst = i]
  /\ Do(w, [Idle EXCEPT !.pc = "resolve", !.lot = l])
  /\ UNCHANGED <<baskets, running, evals, now, crashes, history>>

\* The newest open basket of the instance.  A condition on null is dropped from
\* the query, so a lot without instance gets the newest of all.
OpenBaskets(i) ==
  {b \in DOMAIN baskets : baskets[b].st = "OPEN" /\ (i = Manual \/ baskets[b].inst = i)}

Resolve(w) ==
  LET open == OpenBaskets(lots[task[w].lot].opener) IN
  /\ At(w, "resolve")
  /\ IF open = {} THEN Go(w, "code") /\ mixed' = mixed
     ELSE LET b == Max(open) IN
          /\ Do(w, [task[w] EXCEPT !.pc = "attach", !.basket = b, !.row = baskets[b]])
          /\ Enter(w, b)
  /\ UNCHANGED <<lots, baskets, breaker, now, crashes, announced>>

\* nextCode: one more than the number of baskets of the day.
Code(w) ==
  /\ At(w, "code")
  /\ Do(w, [task[w] EXCEPT !.pc = "create", !.basket = Len(baskets) + 1])
  /\ UNCHANGED <<lots, baskets, breaker, now, crashes, announced, mixed>>

\* The code is unique: one that was taken meanwhile throws, and the lot stays
\* without a basket.
Create(w) ==
  LET row == [NoRow EXCEPT !.inst = lots[task[w].lot].opener] IN
  /\ At(w, "create")
  /\ IF task[w].basket <= Len(baskets)
     THEN Do(w, Idle) /\ baskets' = baskets
     ELSE /\ baskets' = Append(baskets, row)
          /\ Do(w, [task[w] EXCEPT !.pc = "attach", !.row = row])
  /\ UNCHANGED <<lots, breaker, now, crashes, announced, mixed>>

\* The lot is saved as it was inserted, with its basket.
Attach(w) ==
  LET l == task[w].lot IN
  /\ At(w, "attach")
  /\ lots' = [lots EXCEPT ![l] = [st |-> "OPEN", opener |-> lots[l].opener, inst |-> lots[l].opener,
                                  basket |-> task[w].basket, pnl |-> 0, closedAt |-> 0]]
  /\ Do(w, [task[w] EXCEPT !.pc = "origin", !.todo = {<<l, task[w].basket, lots[l].opener>>}])
  /\ UNCHANGED <<baskets, breaker, now, crashes, announced, mixed>>

\* A basket with lots of both sources is saved as it was resolved, but `mixed`.
Origin(w) ==
  LET incoming == IF lots[task[w].lot].opener = Manual THEN "manual" ELSE "strategy"
      row == task[w].row IN
  /\ At(w, "origin")
  /\ baskets' = IF row.origin \in {"mixed", incoming} THEN baskets
                ELSE [baskets EXCEPT ![task[w].basket] = [row EXCEPT !.origin = "mixed"]]
  /\ Proceed(w, task[w].todo)
  /\ UNCHANGED <<lots, breaker, now, crashes, announced, mixed>>

-----------------------------------------------------------------------------
(* Lots are closed or adopted: settleFromCloseFill, reconcileOrphanLots,   *)
(* claimUnassigned                                                         *)

OpenLots == {l \in Lots : lots[l].st = "OPEN"}
AsRead(S) == {<<l, lots[l].basket, lots[l].inst>> : l \in S}
Read(w, l) == CHOOSE e \in task[w].todo : e[1] = l

\* Two closing orders of one lot may be settled at the same time.
SettleRead(w, l) ==
  /\ At(w, "idle") /\ l \in OpenLots
  /\ Do(w, [Idle EXCEPT !.pc = "settle", !.todo = AsRead({l})])
  /\ UNCHANGED <<lots, baskets, breaker, now, crashes, announced, mixed>>

ArchiveRead(w) ==
  /\ At(w, "idle") /\ OpenLots # {}
  /\ Do(w, [Idle EXCEPT !.pc = "archive", !.todo = AsRead(OpenLots)])
  /\ UNCHANGED <<lots, baskets, breaker, now, crashes, announced, mixed>>

\* The lots are saved as they were read, closed; what the exchange had closed
\* counts nothing.  A lot read before it was attached loses its basket again.
CloseSave(w) ==
  LET closed == {e[1] : e \in task[w].todo}
      read(l) == Read(w, l)[2] IN
  /\ task[w].pc \in {"settle", "archive"} /\ now + crashes < MaxCloses
  /\ \E pnl \in IF At(w, "settle") THEN Outcomes ELSE {0} :
       lots' = [l \in Lots |->
                  IF l \notin closed THEN lots[l]
                  ELSE [st |-> "CLOSED", opener |-> lots[l].opener, inst |-> Read(w, l)[3],
                        basket |-> read(l), pnl |-> pnl, closedAt |-> now + 1]]
  /\ mixed' = mixed \cup
       {b \in BasketIds :
          \/ \E l \in closed : lots[l].basket = b /\ (read(l) # b \/ lots[l].st = "CLOSED")
          \/ \E l \in closed : read(l) = b /\ \E v \in Tasks \ {w} : AtWork(v, b)
          \/ \E k, l \in closed : k # l /\ read(k) = b /\ read(l) = b}
  /\ now' = now + 1
  /\ Proceed(w, task[w].todo)
  /\ UNCHANGED <<baskets, breaker, crashes, announced>>

\* (a mistake the code avoids) all open lots are claimed
ClaimAll(w, i) ==
  /\ At(w, "idle") /\ i \notin running /\ OpenLots # {}
  /\ Do(w, [Idle EXCEPT !.pc = "claim", !.todo = {<<l, lots[l].basket, i>> : l \in OpenLots}])
  /\ UNCHANGED <<lots, baskets, breaker, now, crashes, announced, mixed>>

\* A start that adopts gives the open lots without an owner to the instance, ...
ClaimRead(w, i) ==
  LET unassigned == {l \in OpenLots : lots[l].inst = Manual} IN
  /\ At(w, "idle") /\ i \notin running /\ unassigned # {}
  /\ Do(w, [Idle EXCEPT !.pc = "claim", !.todo = {<<l, lots[l].basket, i>> : l \in unassigned}])
  /\ UNCHANGED <<lots, baskets, breaker, now, crashes, announced, mixed>>

\* ... and saves them as they were read, open: what was closed or attached meanwhile
\* is undone.  They stay in the baskets they are in.
ClaimSave(w) ==
  LET claimed == {e[1] : e \in task[w].todo} IN
  /\ At(w, "claim") /\ now + crashes < MaxCloses /\ now' = now + 1
  /\ lots' = [l \in Lots |->
                IF l \notin claimed THEN lots[l]
                ELSE [st |-> "OPEN", opener |-> lots[l].opener, inst |-> Read(w, l)[3],
                      basket |-> Read(w, l)[2], pnl |-> 0, closedAt |-> 0]]
  /\ mixed' = mixed \cup
       {b \in BasketIds : \E l \in claimed :
          lots[l].basket = b /\ (Read(w, l)[2] # b \/ lots[l].st = "CLOSED")}
  /\ Do(w, Idle)
  /\ UNCHANGED <<baskets, breaker, crashes, announced>>

-----------------------------------------------------------------------------
(* recompute *)

\* The basket of one of the lots is read ...
RecomputeRead(w, e) ==
  /\ At(w, "next") /\ e \in task[w].todo
  /\ IF e[2] = NoBasket
     THEN Proceed(w, task[w].todo \ {e})
     ELSE Do(w, [task[w] EXCEPT !.pc = "lots", !.basket = e[2], !.row = baskets[e[2]],
                                !.wasClosed = baskets[e[2]].st = "CLOSED", !.todo = @ \ {e}])
  /\ UNCHANGED <<lots, baskets, breaker, now, crashes, announced, mixed>>

LotsOf(b) == {l \in Lots : lots[l].basket = b}
Results(S) == SumFunction([l \in S |-> lots[l].pnl])

\* (a mistake the code avoids) the results are added to those of the row
RecomputedAdding(row, S) ==
  LET closed == {l \in S : lots[l].st = "CLOSED"} IN
  [row EXCEPT !.layers = Cardinality(S),
              !.realized = @ + Results(closed),
              !.st = IF closed = S THEN "CLOSED" ELSE @,
              !.closedAt = IF closed = S /\ @ = 0 THEN lots[Max(S)].closedAt ELSE @]

\* The totals of a basket with the lots S, written into its row.  A row that was
\* closed stays closed, and keeps its first time of closing; that is the time of
\* the lot opened last, not of the one closed last.
Recomputed(row, S) ==
  LET closed == {l \in S : lots[l].st = "CLOSED"}
      totals == [row EXCEPT !.layers = Cardinality(S),
                            !.realized = Results(closed)]
  IN IF closed # S THEN totals
     ELSE [totals EXCEPT !.st = "CLOSED",
                         !.closedAt = IF @ # 0 THEN @ ELSE lots[Max(S)].closedAt]

\* ... then all its lots ...
RecomputeLots(w) ==
  LET S == LotsOf(task[w].basket)
      row == Recomputed(task[w].row, S) IN
  /\ At(w, "lots")
  /\ IF S = {} THEN Proceed(w, task[w].todo)
     ELSE Do(w, [task[w] EXCEPT !.row = row,
                   !.pc = IF \A l \in S : lots[l].st = "CLOSED" THEN "funding" ELSE "save"])
  /\ UNCHANGED <<lots, baskets, breaker, now, crashes, announced, mixed>>

\* ... then, if it is closed, the sum of the funding fees that income.service.ts
\* has recorded for the symbol and the basket's time ...
Funding(w) ==
  /\ At(w, "funding")
  /\ \/ \E fee \in FundingFees : Do(w, [task[w] EXCEPT !.pc = "save", !.row.funding = fee])
     \/ IncomeMayFail /\ Go(w, "save")
  /\ UNCHANGED <<lots, baskets, breaker, now, crashes, announced, mixed>>

\* (a mistake the code avoids) the status is compared after it was changed
SaveCompared(w) ==
  /\ At(w, "save")
  /\ baskets' = [baskets EXCEPT ![task[w].basket] = task[w].row]
  /\ Proceed(w, task[w].todo)
  /\ UNCHANGED <<lots, running, evals, now, crashes, history>>

\* ... and the row is saved.  A basket that was open when it was read and is
\* closed now is announced; the runner hears it if the instance is in its map.
Save(w) ==
  LET b == task[w].basket
      row == task[w].row
      closes == row.st = "CLOSED" /\ ~task[w].wasClosed IN
  /\ At(w, "save")
  /\ baskets' = [baskets EXCEPT ![b] = row]
  /\ announced' = IF closes THEN [announced EXCEPT ![b] = @ + 1] ELSE announced
  /\ IF closes /\ row.inst \in running
     THEN evals' = evals \cup {<<row.inst, "evaluate">>} /\ unjudged' = unjudged \ {row.inst}
     ELSE UNCHANGED <<evals, unjudged>>
  /\ Proceed(w, task[w].todo)
  /\ UNCHANGED <<lots, running, now, crashes, mixed>>

-----------------------------------------------------------------------------
(* ProtectionService.evaluate and the runner that asks for it *)

\* The closed baskets of an instance ...
Closed(i) ==
  [b \in {c \in DOMAIN baskets : baskets[c].st = "CLOSED" /\ baskets[c].inst = i} |-> baskets[b]]

\* ... in the order of their times of closing, the latest ones only if the
\* configuration says so.
Judged(rows) ==
  LET inOrder == SetToSortSeq(DOMAIN rows, LAMBDA a, b : rows[a].closedAt <= rows[b].closedAt)
      n == Len(inOrder)
      first == IF Protections.lookbackBaskets \in 1..n THEN n - Protections.lookbackBaskets + 1 ELSE 1
      latest == SubSeq(inOrder, first, n)
  IN [k \in DOMAIN latest |-> rows[latest[k]]]
Nets(rows) == LET judged == Judged(rows) IN
  [k \in DOMAIN judged |-> judged[k].realized + judged[k].funding]

\* As many baskets as the limit, the latest ones, brought nothing; or the equity
\* has been below an earlier peak by the limit, at any time.
Halts(nets) ==
  LET n == Len(nets)
      equity[k \in 0..n] ==
        IF k = 0 THEN Protections.capitalBaseUsdt ELSE equity[k - 1] + nets[k]
      losses == Max({k \in 0..n : \A j \in (n - k + 1)..n : nets[j] <= 0})
      deepest == \E p \in 0..n, k \in 0..n :
                   p <= k /\ equity[p] > 0
                   /\ (equity[p] - equity[k]) * 100 >= Protections.maxDrawdownPct * equity[p]
  IN Protections.enabled /\ n > 0 /\ (losses >= Protections.maxConsecutiveLosses \/ deepest)

\* (a mistake the code avoids) the fees are not counted
EvaluateGross(i) ==
  LET gross == Nets([b \in DOMAIN Closed(i) |-> [Closed(i)[b] EXCEPT !.funding = 0]]) IN
  /\ <<i, "evaluate">> \in evals
  /\ evals' = (evals \ {<<i, "evaluate">>}) \cup (IF Halts(gross) THEN {<<i, "stop">>} ELSE {})
  /\ UNCHANGED <<lots, baskets, task, running, now, crashes, history>>

Evaluate(i) ==
  /\ <<i, "evaluate">> \in evals
  /\ evals' = (evals \ {<<i, "evaluate">>}) \cup (IF Halts(Nets(Closed(i))) THEN {<<i, "stop">>} ELSE {})
  /\ UNCHANGED <<lots, baskets, task, running, now, crashes, history>>

\* stopInstance (see RunnerLifecycle).
Trip(i) ==
  /\ <<i, "stop">> \in evals
  /\ evals' = evals \ {<<i, "stop">>} /\ running' = running \ {i}
  /\ UNCHANGED <<lots, baskets, task, now, crashes, history>>

\* The user starts an instance, whatever its record.  If the start adopts lots, it
\* has done so by ClaimRead and ClaimSave; what may refuse it is in RunnerLifecycle.
\* Bound: an instance that places nothing is only seen to adopt.
Start(i) ==
  /\ i \in Placers \ running
  /\ running' = running \cup {i} /\ unjudged' = unjudged \cup {i}
  /\ UNCHANGED <<lots, baskets, task, evals, now, crashes, announced, mixed>>

\* What a crash interrupts is not done; the runner resumes its instances.
Crash ==
  /\ crashes < MaxCrashes /\ now + crashes < MaxCloses /\ crashes' = crashes + 1
  /\ task' = [w \in Tasks |-> Idle] /\ evals' = {}
  /\ mixed' = mixed \cup {b \in BasketIds : \E w \in Tasks :
                 task[w].basket = b \/ \E e \in task[w].todo : e[2] = b}
  /\ unjudged' = unjudged \cup {e[1] : e \in evals}
  /\ UNCHANGED <<lots, baskets, running, now, announced>>

Next ==
  \/ \E w \in Tasks :
       \/ \E l \in Lots : SettleRead(w, l) \/ \E i \in Placers : InsertLot(w, l, i)
       \/ Resolve(w) \/ Code(w) \/ Create(w) \/ Attach(w) \/ Origin(w)
       \/ ArchiveRead(w) \/ CloseSave(w) \/ ClaimSave(w) \/ \E i \in Instances : ClaimRead(w, i)
       \/ \E e \in task[w].todo : RecomputeRead(w, e)
       \/ RecomputeLots(w) \/ Funding(w) \/ Save(w)
  \/ \E i \in Instances : Evaluate(i) \/ Trip(i) \/ Start(i)
  \/ Crash

Spec == Init /\ [][Next]_vars

-----------------------------------------------------------------------------
(* What the board shows: toSummary, listRecent *)

ToSummary(b) ==
  [id |-> b, row |-> baskets[b], lots |-> LotsOf(b),
   open |-> {l \in LotsOf(b) : lots[l].st = "OPEN"}]

\* The newest baskets first, each with its layers.
ListRecent(limit) ==
  LET n == Len(baskets) IN
  [k \in 1..(IF n < limit THEN n ELSE limit) |-> ToSummary(n - k + 1)]

-----------------------------------------------------------------------------
(* Properties *)

\* Nobody is at work on b, and nobody ever was together with another.
AtRest(b) ==
  /\ b \in DOMAIN baskets \ mixed
  /\ \A w \in Tasks : task[w].basket # b /\ \A e \in task[w].todo : e[2] # b

\* Where tasks did not meet, the row tells of all lots of the basket and nothing
\* else, in whatever order they were opened and closed: every result is counted
\* once, and the basket is closed when the last of its lots is.
TotalsMatchLots ==
  LET board == ListRecent(Cardinality(Lots)) IN
  \A k \in DOMAIN board :
    LET s == board[k] IN
    AtRest(s.id) =>
      /\ s.row.layers = Cardinality(s.lots)
      /\ s.row.realized = Results(s.lots \ s.open)
      /\ s.row.st = "CLOSED" <=> s.open = {}

\* A closed basket was announced once, and an open one never.
AnnouncedOnce ==
  \A b \in BasketIds : AtRest(b) => announced[b] = IF baskets[b].st = "CLOSED" THEN 1 ELSE 0

\* What an instance opened stays its own, and is counted in a basket of its own: no
\* start adopts it, although lots that nobody owns change hands, are saved as they
\* were read and may sit in anybody's basket, and baskets are found by tasks that
\* interleave.
OwnBasket ==
  \A l \in Lots :
    lots[l].opener # Manual =>
      /\ lots[l].inst = lots[l].opener
      /\ lots[l].basket # NoBasket => baskets[lots[l].basket].inst = lots[l].opener

\* An instance that runs on, and was started before the last of its baskets closed,
\* has not lost what the configuration allows it to lose.
LosersAreStopped ==
  \A i \in running \ unjudged :
    Halts(Nets(Closed(i))) =>
      \/ \E e \in evals : e[1] = i
      \/ \E b \in DOMAIN baskets : baskets[b].inst = i /\ ~AtRest(b)

=============================================================================
