----------------------------- MODULE OfficesProofs -----------------------------
(***************************************************************************)
(* Proofs about the parts of Offices, for any number of tasks, feeds,      *)
(* items, administrators, messages and failures.  A behaviour of Offices   *)
(* is one of each of its parts, so that what is proved of a part's own     *)
(* specification holds in Offices.                                         *)
(***************************************************************************)
EXTENDS Offices, SequenceTheorems, TLAPS

-----------------------------------------------------------------------------
(* The configuration row.  A task saves the whole row it read, so what it   *)
(* holds must be as usable as the row.                                      *)

Usable(r) ==
  /\ r = [leverage |-> r.leverage, ratio |-> r.ratio, stamp |-> r.stamp, intent |-> r.intent]
  /\ r.leverage \in Nat /\ r.leverage >= 1 /\ r.ratio \in 1..1000

Task(pc, read, field, to) == [pc |-> pc, read |-> read, field |-> field, to |-> to]

TaskOK(w) ==
  /\ w = Task(w.pc, w.read, w.field, w.to) /\ w.to \in Int
  /\ w.pc = "save" => Usable(w.read)

RowInv ==
  /\ DOMAIN works = Tasks
  /\ \A t \in Tasks : TaskOK(works[t])
  /\ begun \in Nat
  /\ row # NoRow => Usable(row)
  /\ dropped = {}

\* Whatever an update sends is brought into its bounds, and the other fields stay.
LEMMA WithUsable ==
  ASSUME NEW r, Usable(r), NEW field, NEW to \in Int
  PROVE  Usable(With(r, field, to))
<1> DEFINE Rec(l, a, s, i) == [leverage |-> l, ratio |-> a, stamp |-> s, intent |-> i]
<1>1. \A v \in Int : /\ Normalized("leverage", v) \in Nat /\ Normalized("leverage", v) >= 1
                     /\ Normalized("ratio", v) \in 1..1000
  BY DEF Normalized, AtLeast
<1>2. \A l, a, s, i : l \in Nat /\ l >= 1 /\ a \in 1..1000 => Usable(Rec(l, a, s, i))
  BY DEF Usable
<1>3. r = Rec(r.leverage, r.ratio, r.stamp, r.intent)
  BY DEF Usable
<1>4. CASE field = "leverage"
  <2>1. With(r, field, to) = Rec(Normalized("leverage", to), r.ratio, r.stamp, r.intent)
    BY <1>3, <1>4 DEF With
  <2> QED
    BY <1>1, <1>2, <2>1 DEF Usable
<1>5. CASE field = "ratio"
  <2>1. With(r, field, to) = Rec(r.leverage, Normalized("ratio", to), r.stamp, r.intent)
    BY <1>3, <1>5 DEF With
  <2> QED
    BY <1>1, <1>2, <2>1 DEF Usable
<1>6. CASE field = "stamp"
  <2>1. With(r, field, to) = Rec(r.leverage, r.ratio, to, r.intent)
    BY <1>3, <1>6 DEF With
  <2> QED
    BY <1>2, <2>1 DEF Usable
<1>7. CASE field \notin {"leverage", "ratio", "stamp"}
  <2>1. With(r, field, to) = Rec(r.leverage, r.ratio, r.stamp, FALSE)
    BY <1>3, <1>7 DEF With
  <2> QED
    BY <1>2, <2>1 DEF Usable
<1> QED
  BY <1>4, <1>5, <1>6, <1>7

\* Task t goes on, and what it holds to save is usable.
LEMMA TaskGoesOn ==
  ASSUME RowInv, NEW t \in Tasks, NEW w, TaskOK(w), works' = [works EXCEPT ![t] = w],
         row' # NoRow => Usable(row'), begun' \in Nat, dropped' = {}
  PROVE  RowInv'
<1>1. \A u \in Tasks : works'[u] = IF u = t THEN w ELSE works[u]
  BY DEF RowInv
<1>2. DOMAIN works' = Tasks
  BY DEF RowInv
<1>3. \A u \in Tasks : TaskOK(works'[u])
  BY <1>1 DEF RowInv
<1> QED
  BY <1>2, <1>3 DEF RowInv, TaskOK

LEMMA RestingOK == TaskOK(Resting)
BY DEF TaskOK, Task, Resting

LEMMA RowInit == ConfigInit => RowInv
BY RestingOK, ConfigAssumption DEF ConfigInit, RowInv, Defaults, Usable

LEMMA RowStep == RowInv /\ [ConfigNext]_configVars => RowInv'
<1> SUFFICES ASSUME RowInv, [ConfigNext]_configVars
             PROVE  RowInv'
  OBVIOUS
<1>1. (row # NoRow => Usable(row)) /\ begun \in Nat /\ dropped = {}
  BY DEF RowInv
<1>2. \A pc, read, field, to : to \in Int /\ (pc = "save" => Usable(read)) => TaskOK(Task(pc, read, field, to))
  BY DEF TaskOK, Task
<1>3. ASSUME NEW t \in Tasks, NEW pc, NEW read, pc = "save" => Usable(read), Goes(t, pc, read)
      PROVE  \E w : TaskOK(w) /\ works' = [works EXCEPT ![t] = w]
  <2> DEFINE w == Task(pc, read, works[t].field, works[t].to)
  <2>1. works[t].to \in Int
    BY DEF RowInv, TaskOK
  <2>2. works' = [works EXCEPT ![t] = w]
    BY <1>3 DEF Goes, Task
  <2>3. TaskOK(w)
    BY <1>2, <1>3, <2>1
  <2> HIDE DEF w
  <2> QED
    BY <2>2, <2>3
<1>4. CASE BeginTask
  <2>1. PICK t \in Tasks : \E c \in Changes(t) :
          works' = [works EXCEPT ![t] = Task("find", NoRow, c.field, c.to)]
    BY <1>4 DEF BeginTask, Task
  <2>2. PICK c \in Changes(t) :
          works' = [works EXCEPT ![t] = Task("find", NoRow, c.field, c.to)]
    BY <2>1
  <2> DEFINE w == Task("find", NoRow, c.field, c.to)
  <2>3. c.to \in Int
    BY <1>1, <1>4, ConfigAssumption DEF Changes
  <2>4. TaskOK(w)
    BY <1>2, <2>3
  <2>5. UNCHANGED <<row, dropped>> /\ begun' \in Nat
    BY <1>1, <1>4 DEF BeginTask
  <2> HIDE DEF w
  <2>6. works' = [works EXCEPT ![t] = w]
    BY <2>2 DEF w
  <2> QED
    BY <1>1, <2>4, <2>5, <2>6, TaskGoesOn
<1>5. CASE Find
  <2> DEFINE pc == IF row = NoRow THEN "insert" ELSE "save"
  <2>1. PICK t \in Tasks : Goes(t, pc, row)
    BY <1>5 DEF Find
  <2>2. pc = "save" => Usable(row)
    BY <1>1
  <2>3. UNCHANGED <<row, begun, dropped>>
    BY <1>5 DEF Find
  <2> HIDE DEF pc
  <2>4. PICK w : TaskOK(w) /\ works' = [works EXCEPT ![t] = w]
    BY <1>3, <2>1, <2>2
  <2> QED
    BY <1>1, <2>3, <2>4, TaskGoesOn
<1>6. CASE Insert
  <2>1. PICK t \in Tasks :
          IF row = NoRow
            THEN row' = Defaults /\ Goes(t, "save", Defaults)
            ELSE Goes(t, "find", NoRow) /\ UNCHANGED row
    BY <1>6 DEF Insert
  <2>2. UNCHANGED <<begun, dropped>>
    BY <1>6 DEF Insert
  <2>3. Usable(Defaults)
    BY DEF Usable, Defaults
  <2>4. PICK w : TaskOK(w) /\ works' = [works EXCEPT ![t] = w]
    <3>1. CASE row = NoRow
      BY <1>3, <2>1, <2>3, <3>1
    <3>2. CASE row # NoRow
      BY <1>3, <2>1, <2>3, <3>2
    <3> QED
      BY <3>1, <3>2
  <2>5. row' # NoRow => Usable(row')
    BY <1>1, <2>1, <2>3
  <2> QED
    BY <1>1, <2>2, <2>4, <2>5, TaskGoesOn
<1>7. CASE Save
  <2>1. PICK t \in Tasks : /\ works[t].pc = "save"
                           /\ row' = With(works[t].read, works[t].field, works[t].to)
                           /\ works' = [works EXCEPT ![t] = Resting]
    BY <1>7 DEF Save
  <2>2. Usable(row')
    BY <2>1, WithUsable DEF RowInv, TaskOK
  <2>3. UNCHANGED <<begun, dropped>>
    BY <1>7 DEF Save
  <2> QED
    BY <1>1, <2>1, <2>2, <2>3, RestingOK, TaskGoesOn
<1>8. CASE Breaks
  <2>1. PICK t \in Tasks : works' = [works EXCEPT ![t] = Resting]
    BY <1>8 DEF Breaks
  <2>2. UNCHANGED <<row, begun, dropped>>
    BY <1>8 DEF Breaks
  <2> QED
    BY <1>1, <2>1, <2>2, RestingOK, TaskGoesOn
<1>9. CASE UNCHANGED configVars
  BY <1>9 DEF configVars, RowInv
<1> QED
  BY <1>4, <1>5, <1>6, <1>7, <1>8, <1>9 DEF ConfigNext

-----------------------------------------------------------------------------
(* The news.                                                                *)

NewsInv ==
  /\ told \in [Items -> Nat] /\ pruned \in [Items -> Nat]
  /\ NewsOnce

LEMMA NewsStep == NewsInv /\ [NewsNext]_newsVars => NewsInv'
<1> SUFFICES ASSUME NewsInv, [NewsNext]_newsVars
             PROVE  NewsInv'
  OBVIOUS
<1>1. CASE SaveItem
  <2>1. PICK d \in Desks :
          LET i == Head(reading[d].left)
          IN  IF i \in newsItems THEN UNCHANGED <<newsItems, told>>
              ELSE newsItems' = newsItems \cup {i} /\ told' = [told EXCEPT ![i] = @ + 1]
    BY <1>1 DEF SaveItem
  <2> DEFINE i == Head(reading[d].left)
  <2>2. pruned' = pruned
    BY <1>1 DEF SaveItem
  <2>3. CASE i \in newsItems
    BY <2>1, <2>2, <2>3 DEF NewsInv, NewsOnce
  <2>4. CASE i \notin newsItems
    <3>1. newsItems' = newsItems \cup {i} /\ told' = [told EXCEPT ![i] = @ + 1]
      BY <2>1, <2>4
    <3> HIDE DEF i
    <3>2. /\ told' \in [Items -> Nat]
          /\ \A j \in Items : told'[j] = IF j = i THEN told[j] + 1 ELSE told[j]
      <4>1. told \in [Items -> Nat]
        BY DEF NewsInv
      <4>2. told' = [j \in Items |-> IF j = i THEN told[j] + 1 ELSE told[j]]
        BY <3>1, <4>1
      <4> QED
        BY <4>1, <4>2
    <3> QED
      BY <2>2, <2>4, <3>1, <3>2 DEF NewsInv, NewsOnce
  <2> QED
    BY <2>3, <2>4
<1>2. CASE Prune
  <2>1. PICK old \in SUBSET newsItems :
          /\ newsItems' = newsItems \ old
          /\ pruned' = [i \in Items |-> IF i \in old THEN pruned[i] + 1 ELSE pruned[i]]
    BY <1>2 DEF Prune
  <2>2. told' = told
    BY <1>2 DEF Prune
  <2> QED
    BY <2>1, <2>2 DEF NewsInv, NewsOnce
<1>3. CASE UNCHANGED <<newsItems, told, pruned>>
  BY <1>3 DEF NewsInv, NewsOnce
<1> QED
  BY <1>1, <1>2, <1>3 DEF NewsNext, FetchAll, SourceFails, FindItem, ListCalendar, RefreshCalendar,
     FetchEnds, AskModel, ModelAnswers, Age, newsVars

\* No step empties what the calendar shows: only a fetch that brought a week, or an answer
\* of the model, replaces it.
LEMMA WeeksStay == [NewsNext]_newsVars => (weeks # {} => weeks' # {})
<1>1. ASSUME FetchEnds PROVE weeks # {} => weeks' # {}
  BY <1>1 DEF FetchEnds, Fetched, Kept
<1>2. ASSUME ModelAnswers PROVE weeks' # {}
  BY <1>2 DEF ModelAnswers
<1> QED
  BY <1>1, <1>2 DEF NewsNext, FetchAll, SourceFails, FindItem, SaveItem, Prune, ListCalendar,
     RefreshCalendar, AskModel, Age, newsVars

-----------------------------------------------------------------------------
(* The strategy hub.  A listing is written some awaits after it was judged,  *)
(* so a request that is going to write one must still hold good evidence,    *)
(* and one that is being judged evidence of this very day.                   *)

AnyRun == [kind : {"sweep", "research"}, day : Nat, passes : BOOLEAN, kept : BOOLEAN]

\* Row i of rs is a run of the kind, and fresh on the day.
IsFresh(rs, i, kind, day) ==
  i \in DOMAIN rs /\ rs[i].kind = kind /\ rs[i].day + Freshness >= day

Good(ref, rs) ==
  /\ ref # None
  /\ \/ ref.override
     \/ /\ ref.verdict = "pass"
        /\ IsFresh(rs, ref.runId, "sweep", ref.ts) /\ rs[ref.runId].passes
        /\ \E i \in DOMAIN rs : IsFresh(rs, i, "research", ref.ts) /\ rs[i].passes

\* What a request c holds, on a day with the rows rs.
CallOK(c, rs, day) ==
  /\ c.at \in {"sweep", "research"} => c.since = day /\ c.force \in BOOLEAN
  /\ c.at = "research" => c.sweep = None \/ IsFresh(rs, c.sweep, "sweep", day)
  /\ c.at \in {"open", "fill"} => c.enabled = FALSE \/ (c.enabled = TRUE /\ Good(c.ref, rs))

FileOK(f, rs) == f # Torn /\ f.enabled => Good(f.backtestRef, rs)

HubInv ==
  /\ runs \in Seq(AnyRun) /\ today \in Nat
  /\ DOMAIN call = Admins
  /\ \A a \in Admins : CallOK(call[a], runs, today)
  /\ shipped \/ FileOK(file, runs)

\* Rows are added, and one that is deleted keeps what it says.
Later(rs, ss) ==
  \A i \in DOMAIN rs : /\ i \in DOMAIN ss
                        /\ ss[i].kind = rs[i].kind /\ ss[i].day = rs[i].day
                        /\ ss[i].passes = rs[i].passes

LEMMA GoodStays == ASSUME NEW ref, NEW rs, NEW ss, Good(ref, rs), Later(rs, ss)
                   PROVE  Good(ref, ss)
BY DEF Good, IsFresh, Later

\* A request keeps what it holds while rows are added, and over a change of the day unless
\* it is being judged.
LEMMA CallStays ==
  ASSUME NEW c, NEW rs, NEW ss, NEW day, NEW day2, CallOK(c, rs, day), Later(rs, ss),
         day2 = day \/ c.at \notin {"sweep", "research"}
  PROVE  CallOK(c, ss, day2)
BY GoodStays DEF CallOK, IsFresh, Later

\* What is newest and fresh is a run of that kind.
LEMMA FreshIsFresh ==
  ASSUME HubInv, NEW kind, NEW day
  PROVE  LET i == OneOrNone(Fresh(kind, day)) IN i = None \/ IsFresh(runs, i, kind, day)
<1>1. \A i \in Fresh(kind, day) : IsFresh(runs, i, kind, day)
  BY DEF Fresh, Newest, IsFresh
<1>2. OneOrNone(Fresh(kind, day)) = None \/ OneOrNone(Fresh(kind, day)) \in Fresh(kind, day)
  BY DEF OneOrNone
<1> QED
  BY <1>1, <1>2

\* What a judgement that listed the strategy wrote is good evidence.
LEMMA JudgedGood ==
  ASSUME HubInv, NEW c, c.at = "research", CallOK(c, runs, today), NEW research,
         research = None \/ IsFresh(runs, research, "research", today),
         Passes(c.sweep, research) \/ c.force, c.force \in BOOLEAN
  PROVE  Good(Ref(c, research), runs)
<1> DEFINE ref == Ref(c, research)
<1>1. /\ ref.runId = IF c.sweep # None THEN c.sweep ELSE research
      /\ ref.verdict = IF Passes(c.sweep, research) THEN "pass" ELSE "overfit"
      /\ ref.ts = today
      /\ ref.override = (~Passes(c.sweep, research) /\ c.force)
  BY DEF Ref
<1>2. c.sweep = None \/ IsFresh(runs, c.sweep, "sweep", today)
  BY DEF CallOK
<1>3. ref # None
  <2>1. ref.runId \in Nat \cup {None}
    BY <1>1, <1>2 DEF IsFresh, HubInv
  <2>2. ref \in Refs
    BY <2>1 DEF Refs, Ref, HubInv
  <2> QED
    BY <2>2, NoneAssumption
<1> SUFFICES Good(ref, runs)
  OBVIOUS
<1> HIDE DEF ref
<1>4. CASE Passes(c.sweep, research)
  <2>1. /\ IsFresh(runs, c.sweep, "sweep", today) /\ runs[c.sweep].passes
        /\ IsFresh(runs, research, "research", today) /\ runs[research].passes
        /\ c.sweep # None
    BY <1>2, <1>4 DEF Passes
  <2> QED
    <3>1. ref.runId = c.sweep /\ ref.verdict = "pass" /\ ref.ts = today
      BY <1>1, <1>4, <2>1
    <3>2. \E i \in DOMAIN runs : IsFresh(runs, i, "research", ref.ts) /\ runs[i].passes
      BY <2>1, <3>1 DEF IsFresh
    <3>3. IsFresh(runs, ref.runId, "sweep", ref.ts) /\ runs[ref.runId].passes
      BY <2>1, <3>1
    <3> QED
      BY <1>3, <3>1, <3>2, <3>3, Zenon DEF Good
<1>5. CASE ~Passes(c.sweep, research)
  <2>1. c.force
    BY <1>5
  <2>2. ref.override
    BY <1>1, <1>5, <2>1, Zenon
  <2> QED
    BY <1>3, <2>2, Zenon DEF Good
<1> QED
  BY <1>4, <1>5

\* One request goes on.
LEMMA CallGoesOn ==
  ASSUME HubInv, NEW a \in Admins, NEW c, CallOK(c, runs, today), call' = [call EXCEPT ![a] = c],
         UNCHANGED <<runs, today>>, shipped' \/ FileOK(file', runs)
  PROVE  HubInv'
<1>1. DOMAIN call' = Admins /\ \A b \in Admins : call'[b] = IF b = a THEN c ELSE call[b]
  BY DEF HubInv
<1>2. \A b \in Admins : CallOK(call'[b], runs, today)
  BY <1>1 DEF HubInv
<1> QED
  BY <1>1, <1>2 DEF HubInv

\* No request does, but a run is added or deleted.
LEMMA RunsGoOn ==
  ASSUME HubInv, runs' \in Seq(AnyRun), Later(runs, runs'), UNCHANGED <<today, file, shipped, call>>
  PROVE  HubInv'
<1>1. \A a \in Admins : CallOK(call[a], runs', today)
  BY CallStays DEF HubInv
<1>2. FileOK(file, runs) => FileOK(file, runs')
  BY GoodStays DEF FileOK
<1> QED
  BY <1>1, <1>2 DEF HubInv

LEMMA HubInitially == HubInit => HubInv
<1> SUFFICES ASSUME HubInit PROVE HubInv
  OBVIOUS
<1>1. \A a \in Admins : CallOK(call[a], runs, today)
  BY DEF HubInit, CallOK, Idle
<1> QED
  BY <1>1 DEF HubInit, HubInv

LEMMA HubStep == HubInv /\ [HubNext]_hubVars => HubInv'
<1> SUFFICES ASSUME HubInv, [HubNext]_hubVars
             PROVE  HubInv'
  OBVIOUS
<1>1. CallOK(Idle, runs, today) /\ CallOK([at |-> "load"], runs, today)
  BY DEF CallOK, Idle
<1>2. /\ \A a \in Admins : CallOK(call[a], runs, today)
      /\ shipped \/ FileOK(file, runs)
      /\ DOMAIN call = Admins
  BY DEF HubInv
<1>3. \A at \in {"open", "fill"} : \A enabled, ref, alone :
        enabled = FALSE \/ (enabled = TRUE /\ Good(ref, runs))
          => CallOK(Writing(at, enabled, ref, alone), runs, today)
  BY DEF CallOK, Writing
<1>4. ASSUME NEW a \in Admins, NEW enabled \in BOOLEAN, NEW force \in BOOLEAN, SetEnabled(a, enabled, force)
      PROVE  HubInv'
  <2> DEFINE c == IF enabled THEN Judging("sweep", today, force, TRUE, None)
                  ELSE Writing("open", FALSE, None, TRUE)
  <2>1. CallOK(c, runs, today)
    <3>1. CallOK(Judging("sweep", today, force, TRUE, None), runs, today)
      BY DEF CallOK, Judging
    <3>2. CallOK(Writing("open", FALSE, None, TRUE), runs, today)
      BY <1>3
    <3> QED
      BY <3>1, <3>2
  <2>2. call' = [call EXCEPT ![a] = c]
    BY <1>4 DEF SetEnabled
  <2> HIDE DEF c
  <2> QED
    BY <1>2, <1>4, <2>1, <2>2, CallGoesOn DEF SetEnabled
<1>5. ASSUME NEW a \in Admins, ReadSweep(a) PROVE HubInv'
  <2> DEFINE i == OneOrNone(Fresh("sweep", call[a].since))
             c == Judging("research", call[a].since, call[a].force, call[a].holds, i)
  <2>1. call[a].since = today /\ call[a].force \in BOOLEAN
    BY <1>2, <1>5 DEF ReadSweep, CallOK
  <2>2. i = None \/ IsFresh(runs, i, "sweep", today)
    BY <2>1, FreshIsFresh
  <2>3. call' = [call EXCEPT ![a] = c]
    BY <1>5 DEF ReadSweep
  <2> HIDE DEF i
  <2>4. CallOK(c, runs, today)
    BY <2>1, <2>2 DEF CallOK, Judging
  <2> HIDE DEF c
  <2> QED
    BY <1>2, <1>5, <2>3, <2>4, CallGoesOn DEF ReadSweep
<1>6. ASSUME NEW a \in Admins, Judge(a) PROVE HubInv'
  <2> DEFINE c == call[a]
             research == OneOrNone(Fresh("research", c.since))
             d == IF ~Passes(c.sweep, research) /\ ~c.force THEN Idle
                  ELSE Writing("open", TRUE, Ref(c, research), TRUE)
  <2>1. c.at = "research" /\ CallOK(c, runs, today) /\ c.since = today /\ c.force \in BOOLEAN
    BY <1>2, <1>6 DEF Judge, CallOK
  <2>2. research = None \/ IsFresh(runs, research, "research", today)
    BY <2>1, FreshIsFresh
  <2>3. call' = [call EXCEPT ![a] = d]
    BY <1>6 DEF Judge
  <2>4. UNCHANGED <<runs, today, file, shipped>>
    BY <1>6 DEF Judge
  <2> HIDE DEF c, research
  <2>5. CallOK(d, runs, today)
    <3>1. CASE ~Passes(c.sweep, research) /\ ~c.force
      BY <1>1, <3>1
    <3>2. CASE Passes(c.sweep, research) \/ c.force
      <4>1. Good(Ref(c, research), runs)
        BY <2>1, <2>2, <3>2, JudgedGood
      <4> QED
        BY <1>3, <3>2, <4>1
    <3> QED
      BY <3>1, <3>2
  <2> HIDE DEF d
  <2> QED
    BY <1>2, <2>3, <2>4, <2>5, CallGoesOn
<1>7. ASSUME NEW a \in Admins, OpenFile(a) PROVE HubInv'
  <2> DEFINE c == Writing("fill", call[a].enabled, call[a].ref, call[a].alone)
  <2>1. CallOK(c, runs, today)
    BY <1>2, <1>3, <1>7 DEF OpenFile, CallOK
  <2>2. call' = [call EXCEPT ![a] = c]
    BY <1>7 DEF OpenFile
  <2>3. FileOK(file', runs)
    BY <1>7 DEF OpenFile, FileOK
  <2> HIDE DEF c
  <2> QED
    BY <1>7, <2>1, <2>2, <2>3, CallGoesOn DEF OpenFile
<1>8. ASSUME NEW a \in Admins, FillFile(a) PROVE HubInv'
  <2>1. \A b \in Admins : CallOK(call'[b], runs, today)
    <3> TAKE b \in Admins
    <3>1. CASE b = a
      BY <1>1, <1>8, <3>1 DEF FillFile
    <3>2. CASE b # a /\ call[b].at = "fill"
      <4>1. call'[b] = Writing("fill", call[b].enabled, call[b].ref, FALSE)
        BY <1>8, <3>2 DEF FillFile
      <4>2. call[b].enabled = FALSE \/ (call[b].enabled = TRUE /\ Good(call[b].ref, runs))
        BY <1>2, <3>2 DEF CallOK
      <4> QED
        BY <1>3, <4>1, <4>2
    <3>3. CASE b # a /\ call[b].at # "fill"
      BY <1>2, <1>8, <3>3 DEF FillFile
    <3> QED
      BY <3>1, <3>2, <3>3
  <2>2. FileOK(file', runs)
    BY <1>2, <1>8 DEF FillFile, FileOK, CallOK
  <2>3. DOMAIN call' = Admins /\ UNCHANGED <<runs, today>>
    BY <1>8 DEF FillFile
  <2> QED
    BY <2>1, <2>2, <2>3 DEF HubInv
<1>9. ASSUME NEW a \in Admins, WriteFails(a) PROVE HubInv'
  BY <1>1, <1>2, <1>9, CallGoesOn DEF WriteFails
<1>10. ASSUME NEW a \in Admins, Reload(a) PROVE HubInv'
  <2> DEFINE c == [at |-> "load"]
  <2>1. call' = [call EXCEPT ![a] = c] /\ CallOK(c, runs, today)
    BY <1>1, <1>10 DEF Reload
  <2> HIDE DEF c
  <2> QED
    BY <1>2, <1>10, <2>1, CallGoesOn DEF Reload
<1>11. ASSUME NEW a \in Admins, Scan(a) PROVE HubInv'
  <2> DEFINE c == [at |-> "publish", read |-> IF file = Torn THEN None ELSE file]
  <2>1. call' = [call EXCEPT ![a] = c]
    BY <1>11 DEF Scan
  <2>2. CallOK(c, runs, today)
    BY DEF CallOK
  <2> HIDE DEF c
  <2> QED
    BY <1>2, <1>11, <2>1, <2>2, CallGoesOn DEF Scan
<1>12. ASSUME NEW a \in Admins, PublishScan(a) PROVE HubInv'
  <2>1. \A b \in Admins : CallOK(call'[b], runs, today)
    <3> TAKE b \in Admins
    <3>1. CASE b = a
      BY <1>1, <1>12, <3>1 DEF PublishScan
    <3>2. CASE b # a /\ call[b].at \in {"sweep", "research"}
      <4>1. call'[b] = Judging(call[b].at, call[b].since, call[b].force, FALSE, call[b].sweep)
        BY <1>12, <3>2 DEF PublishScan
      <4> QED
        BY <1>2, <3>2, <4>1 DEF CallOK, Judging
    <3>3. CASE b # a /\ call[b].at \notin {"sweep", "research"}
      BY <1>2, <1>12, <3>3 DEF PublishScan
    <3> QED
      BY <3>1, <3>2, <3>3
  <2>2. DOMAIN call' = Admins /\ UNCHANGED <<runs, today, file, shipped>>
    BY <1>12 DEF PublishScan
  <2> QED
    BY <1>2, <2>1, <2>2 DEF HubInv
<1>13. ASSUME PersistSweep \/ PersistResearch PROVE HubInv'
  <2>1. PICK kind \in {"sweep", "research"}, passes \in BOOLEAN : Recorded(kind, passes)
    BY <1>13 DEF PersistSweep, PersistResearch, SweepPasses, ResearchPasses
  <2> DEFINE r == Run(kind, today, passes, TRUE)
  <2>2. r \in AnyRun
    BY DEF Run, AnyRun, HubInv
  <2>3. runs' = Append(runs, r) /\ UNCHANGED <<today, file, shipped, call>>
    BY <2>1 DEF Recorded
  <2> HIDE DEF r
  <2>4. runs' \in Seq(AnyRun) /\ Later(runs, runs')
    BY <2>2, <2>3 DEF HubInv, Later
  <2> QED
    BY <2>3, <2>4, RunsGoOn
<1>14. CASE DeleteRun
  <2>1. PICK i \in DOMAIN runs :
          runs' = [runs EXCEPT ![i] = Run(runs[i].kind, runs[i].day, runs[i].passes, FALSE)]
    BY <1>14 DEF DeleteRun
  <2> DEFINE r == Run(runs[i].kind, runs[i].day, runs[i].passes, FALSE)
  <2>2. /\ r \in AnyRun
        /\ r.kind = runs[i].kind /\ r.day = runs[i].day /\ r.passes = runs[i].passes
    <3>1. runs[i] \in AnyRun
      BY DEF HubInv
    <3> QED
      BY <3>1 DEF Run, AnyRun
  <2>3. runs' = [runs EXCEPT ![i] = r] /\ UNCHANGED <<today, file, shipped, call>>
    BY <1>14, <2>1 DEF DeleteRun
  <2> HIDE DEF r
  <2>4. runs' \in Seq(AnyRun) /\ Later(runs, runs')
    BY <2>2, <2>3 DEF HubInv, Later
  <2> QED
    BY <2>3, <2>4, RunsGoOn
<1>15. CASE NextDay
  <2>1. \A a \in Admins : CallOK(call[a], runs, today')
    BY <1>2, <1>15 DEF NextDay, CallOK
  <2> QED
    BY <1>2, <1>15, <2>1 DEF NextDay, HubInv
<1>16. CASE Crash
  BY <1>1, <1>2, <1>16 DEF Crash, HubInv
<1>17. CASE UNCHANGED hubVars
  BY <1>17 DEF hubVars, HubInv
<1> QED
  BY <1>4, <1>5, <1>6, <1>7, <1>8, <1>9, <1>10, <1>11, <1>12, <1>13, <1>14, <1>15, <1>16, <1>17
     DEF HubNext

-----------------------------------------------------------------------------
(* The chat desk.  A message is handled once, and an action bears the number *)
(* of its message: so the actions that wait, those that are being executed   *)
(* and those that are done are kept apart, each with the place of its        *)
(* question among the messages handled.                                      *)

HeldBack == [msg : Nat, tool : Tools, nth : Nat]
Performed == [action : HeldBack, by : Nat]

OneToOne(q) == \A i, j \in DOMAIN q : q[i] = q[j] => i = j

OrderOK(s, r, q, h) ==
  /\ s \in Seq(Kinds) /\ r \subseteq DOMAIN s
  /\ q \in Seq(r) /\ h \in Seq(r) /\ OneToOne(q) /\ OneToOne(h)
  /\ \A i \in DOMAIN q, j \in DOMAIN h : q[i] # h[j]

\* Message m was handled, and no cancellation since.
Asked(m, h, s) ==
  \E a \in DOMAIN h : h[a] = m /\ \A k \in a..Len(h) : s[h[k]] # "cancel"

\* The confirmation `by' was handled after message m, with no cancellation in between.
Sound(m, by, h, s) ==
  \E a, c \in DOMAIN h :
    /\ a < c /\ h[a] = m /\ h[c] = by /\ s[by] = "confirm"
    /\ \A k \in a..c : s[h[k]] # "cancel"

Undone(actions, d) == \A i \in DOMAIN actions, j \in DOMAIN d : actions[i] # d[j].action

DoneOK(d, h, s) ==
  /\ d \in Seq(Performed)
  /\ \A i, j \in DOMAIN d : d[i].action = d[j].action => i = j
  /\ \A i \in DOMAIN d : Sound(d[i].action.msg, d[i].by, h, s)

WaitOK(actions, h, s, d) ==
  /\ actions \in Seq(HeldBack) /\ actions # <<>> /\ OneToOne(actions) /\ Undone(actions, d)
  /\ \A i \in DOMAIN actions : Asked(actions[i].msg, h, s)

LeftOK(left, by, h, s, d) ==
  /\ left \in Seq(HeldBack) /\ left # <<>> /\ OneToOne(left) /\ Undone(left, d) /\ by \in Nat
  /\ \A i \in DOMAIN left : Sound(left[i].msg, by, h, s)

\* The actions with message m that wait are among the first held ones, and none is done.
HeldOK(m, held, p, d) ==
  /\ held \in Nat
  /\ \A j \in DOMAIN d : d[j].action.msg # m
  /\ p # Empty => \A i \in DOMAIN p.actions :
                    p.actions[i].msg = m => p.actions[i].nth \in 0..held

PendOK(p, h, s, d) == p # Empty => WaitOK(p.actions, h, s, d)

TurnOK(t, p, h, s, d) ==
  t # Empty =>
    \/ t.at = "execute" /\ p = Empty /\ LeftOK(t.left, t.by, h, s, d)
    \/ /\ t.at = "model" /\ h # <<>> /\ t.msg = h[Len(h)] /\ s[t.msg] = "ask"
       /\ HeldOK(t.msg, t.held, p, d)

ChatInv ==
  /\ OrderOK(said, receipts, queue, handled)
  /\ DoneOK(done, handled, said)
  /\ PendOK(pending, handled, said, done)
  /\ TurnOK(turn, pending, handled, said, done)

\* What has been said and handled stays so.
Grows(q, r) == Len(q) <= Len(r) /\ \A i \in 1..Len(q) : r[i] = q[i]

LEMMA SoundStays ==
  ASSUME NEW s \in Seq(Kinds), NEW s2 \in Seq(Kinds), NEW h \in Seq(DOMAIN s), NEW h2 \in Seq(Nat),
         Grows(s, s2), Grows(h, h2), NEW m, NEW by, Sound(m, by, h, s)
  PROVE  Sound(m, by, h2, s2)
<1>1. PICK a \in DOMAIN h, c \in DOMAIN h :
         /\ a < c /\ h[a] = m /\ h[c] = by /\ s[by] = "confirm"
         /\ \A k \in a..c : s[h[k]] # "cancel"
  BY DEF Sound
<1>2. /\ \A k \in DOMAIN h : k \in DOMAIN h2 /\ h2[k] = h[k] /\ h[k] \in DOMAIN s
      /\ \A k \in DOMAIN s : s2[k] = s[k]
  <2>1. /\ DOMAIN h = 1..Len(h) /\ DOMAIN s = 1..Len(s) /\ DOMAIN h2 = 1..Len(h2)
        /\ Len(h) \in Nat /\ Len(h2) \in Nat
    OBVIOUS
  <2>2. \A k \in DOMAIN h : h[k] \in DOMAIN s
    OBVIOUS
  <2>3. Len(h) <= Len(h2) /\ \A k \in 1..Len(h) : h2[k] = h[k]
    BY DEF Grows
  <2>4. \A k \in 1..Len(s) : s2[k] = s[k]
    BY DEF Grows
  <2> QED
    BY <2>1, <2>2, <2>3, <2>4
<1>3. \A k \in a..c : k \in DOMAIN h
  OBVIOUS
<1>4. \A k \in a..c : s2[h2[k]] # "cancel"
  BY <1>1, <1>2, <1>3
<1>5. a \in DOMAIN h2 /\ c \in DOMAIN h2 /\ h2[a] = m /\ h2[c] = by /\ s2[by] = "confirm"
  BY <1>1, <1>2
<1> QED
  BY <1>1, <1>4, <1>5 DEF Sound

\* A question stays unanswered while more is said ...
LEMMA AskedStays ==
  ASSUME NEW s \in Seq(Kinds), NEW s2 \in Seq(Kinds), NEW h \in Seq(DOMAIN s), Grows(s, s2),
         NEW m, Asked(m, h, s)
  PROVE  Asked(m, h, s2)
<1>1. PICK a \in DOMAIN h : h[a] = m /\ \A k \in a..Len(h) : s[h[k]] # "cancel"
  BY DEF Asked
<1>2. \A k \in a..Len(h) : k \in DOMAIN h /\ h[k] \in DOMAIN s
  OBVIOUS
<1>3. \A k \in DOMAIN s : s2[k] = s[k]
  <2>1. DOMAIN s = 1..Len(s)
    OBVIOUS
  <2> QED
    BY <2>1 DEF Grows
<1>4. \A k \in a..Len(h) : s2[h[k]] # "cancel"
  BY <1>1, <1>2, <1>3
<1> QED
  BY <1>1, <1>4 DEF Asked

\* ... and when another message is handled that does not cancel; one that confirms answers it.
LEMMA AskedNext ==
  ASSUME NEW s \in Seq(Kinds), NEW h \in Seq(DOMAIN s), NEW x \in DOMAIN s, NEW m,
         Asked(m, h, s), s[x] # "cancel"
  PROVE  /\ Asked(m, Append(h, x), s)
         /\ s[x] = "confirm" => Sound(m, x, Append(h, x), s)
<1>1. PICK a \in DOMAIN h : h[a] = m /\ \A k \in a..Len(h) : s[h[k]] # "cancel"
  BY DEF Asked
<1> DEFINE g == Append(h, x)
           c == Len(h) + 1
<1>2. /\ Len(g) = c /\ c \in DOMAIN g /\ g[c] = x /\ a \in DOMAIN g /\ a < c
      /\ \A k \in DOMAIN h : g[k] = h[k]
  OBVIOUS
<1>3. \A k \in a..c : s[g[k]] # "cancel"
  <2> TAKE k \in a..c
  <2>1. CASE k = c
    BY <1>2, <2>1
  <2>2. CASE k # c
    <3>1. k \in DOMAIN h /\ k \in a..Len(h)
      BY <1>1, <2>2
    <3> QED
      BY <1>1, <1>2, <3>1
  <2> QED
    BY <2>1, <2>2
<1> HIDE DEF g, c
<1> SUFFICES Asked(m, g, s) /\ (s[x] = "confirm" => Sound(m, x, g, s))
  BY DEF g
<1>4. g[a] = m
  BY <1>1, <1>2
<1> QED
  BY <1>2, <1>3, <1>4 DEF Asked, Sound

LEMMA SeqWider == ASSUME NEW r, NEW r2, r \subseteq r2, NEW q \in Seq(r) PROVE q \in Seq(r2)
<1>1. q = [i \in 1..Len(q) |-> q[i]] /\ Len(q) \in Nat /\ \A i \in 1..Len(q) : q[i] \in r2
  OBVIOUS
<1> QED
  BY <1>1

\* A sequence of different elements stays one when a new element is added, and loses its head
\* for good when that is taken.
LEMMA AddedApart ==
  ASSUME NEW r, NEW q \in Seq(r), OneToOne(q), NEW x \in r, \A i \in DOMAIN q : q[i] # x
  PROVE  /\ Append(q, x) \in Seq(r) /\ OneToOne(Append(q, x)) /\ Append(q, x) # <<>>
         /\ \A i \in DOMAIN Append(q, x) : Append(q, x)[i] = x \/ \E j \in DOMAIN q : Append(q, x)[i] = q[j]
<1> DEFINE g == Append(q, x)
<1>1. /\ g \in Seq(r) /\ DOMAIN g = 1..(Len(q) + 1) /\ g[Len(q) + 1] = x /\ g # <<>>
      /\ \A i \in 1..Len(q) : g[i] = q[i]
      /\ DOMAIN q = 1..Len(q) /\ Len(q) \in Nat
  OBVIOUS
<1> HIDE DEF g
<1>2. \A i \in DOMAIN g : i = Len(q) + 1 \/ i \in DOMAIN q
  BY <1>1
<1>3. OneToOne(g)
  BY <1>1, <1>2 DEF OneToOne
<1>4. \A i \in DOMAIN g : g[i] = x \/ \E j \in DOMAIN q : g[i] = q[j]
  BY <1>1, <1>2
<1> QED
  BY <1>1, <1>3, <1>4 DEF g

LEMMA HeadApart ==
  ASSUME NEW r, NEW q \in Seq(r), OneToOne(q), q # <<>>
  PROVE  /\ Head(q) \in r /\ Head(q) = q[1] /\ 1 \in DOMAIN q
         /\ Tail(q) \in Seq(r) /\ OneToOne(Tail(q))
         /\ \A i \in DOMAIN Tail(q) : Tail(q)[i] # Head(q) /\ \E j \in DOMAIN q : Tail(q)[i] = q[j]
         /\ Len(q) # 1 => Tail(q) # <<>>
<1> DEFINE g == Tail(q)
<1>1. /\ g \in Seq(r) /\ DOMAIN g = 1..(Len(q) - 1) /\ Len(q) \in Nat /\ Len(q) >= 1
      /\ \A i \in 1..(Len(q) - 1) : g[i] = q[i + 1]
      /\ DOMAIN q = 1..Len(q) /\ Head(q) = q[1] /\ q[1] \in r
      /\ Len(g) = Len(q) - 1
  OBVIOUS
<1> HIDE DEF g
<1>2. Len(q) # 1 => g # <<>>
  <2>1. g = <<>> => Len(g) = 0
    OBVIOUS
  <2> QED
    BY <1>1, <2>1
<1>3. \A i \in DOMAIN g : i + 1 \in DOMAIN q /\ g[i] = q[i + 1] /\ i + 1 # 1
  BY <1>1
<1>4. 1 \in DOMAIN q
  BY <1>1
<1>5. OneToOne(g)
  <2> SUFFICES ASSUME NEW i \in DOMAIN g, NEW j \in DOMAIN g, g[i] = g[j] PROVE i = j
    BY DEF OneToOne
  <2>1. i + 1 = j + 1
    BY <1>3 DEF OneToOne
  <2> QED
    BY <1>1, <2>1
<1>6. \A i \in DOMAIN g : g[i] # q[1] /\ \E j \in DOMAIN q : g[i] = q[j]
  BY <1>3, <1>4 DEF OneToOne
<1> QED
  BY <1>1, <1>2, <1>4, <1>5, <1>6 DEF g

\* The next message is taken from the queue: it was never handled before.
LEMMA NextMessage ==
  ASSUME ChatInv, queue # <<>>, queue' = Tail(queue), handled' = Append(handled, Head(queue)),
         UNCHANGED <<said, receipts, done>>
  PROVE  /\ OrderOK(said, receipts, queue', handled') /\ DoneOK(done, handled', said)
         /\ Head(queue) \in DOMAIN said /\ handled \in Seq(DOMAIN said)
         /\ \A i \in DOMAIN handled : handled[i] # Head(queue)
<1> DEFINE x == Head(queue)
<1>1. /\ said \in Seq(Kinds) /\ receipts \subseteq DOMAIN said
      /\ queue \in Seq(receipts) /\ handled \in Seq(receipts) /\ OneToOne(queue) /\ OneToOne(handled)
      /\ \A i \in DOMAIN queue, j \in DOMAIN handled : queue[i] # handled[j]
  BY DEF ChatInv, OrderOK
<1>2. /\ x \in receipts /\ x = queue[1] /\ 1 \in DOMAIN queue
      /\ queue' \in Seq(receipts) /\ OneToOne(queue')
      /\ \A i \in DOMAIN queue' : queue'[i] # x /\ \E j \in DOMAIN queue : queue'[i] = queue[j]
  BY <1>1, HeadApart
<1> HIDE DEF x
<1>3. \A j \in DOMAIN handled : handled[j] # x
  BY <1>1, <1>2
<1>4. /\ handled' \in Seq(receipts) /\ OneToOne(handled')
      /\ \A i \in DOMAIN handled' : handled'[i] = x \/ \E j \in DOMAIN handled : handled'[i] = handled[j]
  BY <1>1, <1>2, <1>3, AddedApart DEF x
<1>5. \A i \in DOMAIN queue', j \in DOMAIN handled' : queue'[i] # handled'[j]
  BY <1>1, <1>2, <1>4
<1>6. handled \in Seq(DOMAIN said) /\ handled' \in Seq(Nat)
  <2>1. DOMAIN said \subseteq Nat
    BY <1>1
  <2> QED
    BY <1>1, <1>4, <2>1, SeqWider
<1>7. Grows(handled, handled') /\ Grows(said, said)
  <2>1. /\ Len(handled') = Len(handled) + 1 /\ Len(handled) \in Nat
        /\ \A k \in 1..Len(handled) : handled'[k] = handled[k]
    BY <1>1, <1>2 DEF x
  <2> QED
    BY <1>1, <2>1 DEF Grows
<1>8. DoneOK(done, handled', said)
  <2>1. \A m, by : Sound(m, by, handled, said) => Sound(m, by, handled', said)
    BY <1>1, <1>6, <1>7, SoundStays
  <2> QED
    BY <2>1 DEF ChatInv, DoneOK
<1> QED
  BY <1>1, <1>2, <1>3, <1>4, <1>5, <1>6, <1>8 DEF OrderOK, x

\* An action that is asked for in a turn is new: it may join the actions that wait.
LEMMA PushOK ==
  ASSUME ChatInv, turn # Empty, turn.at = "model", NEW tool \in Tools, Push(Action(tool))
  PROVE  /\ PendOK(pending', handled, said, done)
         /\ HeldOK(turn.msg, turn.held + 1, pending', done)
<1> DEFINE x == Action(tool)
           m == turn.msg
           held == turn.held
<1>1. /\ handled # <<>> /\ m = handled[Len(handled)] /\ said[m] = "ask"
      /\ HeldOK(m, held, pending, done)
  BY DEF ChatInv, TurnOK
<1>2. handled \in Seq(receipts) /\ receipts \subseteq DOMAIN said /\ said \in Seq(Kinds)
  BY DEF ChatInv, OrderOK
<1>3. m \in Nat /\ held \in Nat
  BY <1>1, <1>2 DEF HeldOK
<1>4. Asked(m, handled, said)
  <2>1. Len(handled) \in DOMAIN handled /\ \A k \in Len(handled)..Len(handled) : k = Len(handled)
    BY <1>1, <1>2
  <2> QED
    BY <1>1, <2>1 DEF Asked
<1>5. x \in HeldBack /\ x.msg = m /\ x.nth = held + 1
  BY <1>3 DEF HeldBack, Action
<1> DEFINE actions == IF Alive THEN Append(pending.actions, x) ELSE <<x>>
<1>6. pending' # Empty => pending'.actions = actions
  BY DEF Push
<1> HIDE DEF x, m, held
<1>7. /\ held + 1 \in Nat /\ x.nth \in 0..(held + 1) /\ x.nth \notin 0..held
      /\ \A n \in 0..held : n \in 0..(held + 1)
  BY <1>3, <1>5
<1>8. \A j \in DOMAIN done : x # done[j].action
  BY <1>1, <1>5 DEF HeldOK
<1>9. /\ WaitOK(actions, handled, said, done)
      /\ \A i \in DOMAIN actions : actions[i].msg = m => actions[i].nth \in 0..(held + 1)
  <2>1. CASE Alive
    <3>1. pending # Empty
      BY <2>1 DEF Alive
    <3>2. WaitOK(pending.actions, handled, said, done)
      BY <3>1 DEF ChatInv, PendOK
    <3>3. \A i \in DOMAIN pending.actions : pending.actions[i] # x
      BY <1>1, <1>5, <1>7, <3>1 DEF HeldOK
    <3> DEFINE g == Append(pending.actions, x)
    <3>4. /\ g \in Seq(HeldBack) /\ OneToOne(g) /\ g # <<>>
          /\ \A i \in DOMAIN g : g[i] = x \/ \E j \in DOMAIN pending.actions : g[i] = pending.actions[j]
      BY <1>5, <3>2, <3>3, AddedApart DEF WaitOK
    <3> HIDE DEF g
    <3>5. WaitOK(g, handled, said, done)
      BY <1>4, <1>5, <1>8, <3>2, <3>4 DEF WaitOK, Undone
    <3>6. ASSUME NEW i \in DOMAIN g, g[i].msg = m
          PROVE  g[i].nth \in 0..(held + 1)
      <4>1. CASE g[i] = x
        BY <1>7, <4>1
      <4>2. CASE \E j \in DOMAIN pending.actions : g[i] = pending.actions[j]
        BY <1>1, <1>7, <3>1, <3>6, <4>2 DEF HeldOK
      <4> QED
        BY <3>4, <4>1, <4>2
    <3> QED
      BY <2>1, <3>5, <3>6 DEF g
  <2>2. CASE ~Alive
    <3> DEFINE g == <<x>>
    <3>1. /\ g \in Seq(HeldBack) /\ g # <<>> /\ \A i \in DOMAIN g : i = 1 /\ g[i] = x
      BY <1>5
    <3> HIDE DEF g
    <3>2. WaitOK(g, handled, said, done)
      BY <1>4, <1>5, <1>8, <3>1 DEF WaitOK, Undone, OneToOne
    <3> QED
      BY <1>7, <2>2, <3>1, <3>2 DEF g
  <2> QED
    BY <2>1, <2>2
<1> HIDE DEF actions
<1>10. PendOK(pending', handled, said, done)
  BY <1>6, <1>9 DEF PendOK
<1>11. HeldOK(m, held + 1, pending', done)
  BY <1>1, <1>6, <1>7, <1>9 DEF HeldOK
<1> QED
  BY <1>10, <1>11 DEF m, held

\* The next action is executed, or fails: it is no longer left, and done at most once.
LEMMA ExecuteOK ==
  ASSUME ChatInv, Execute
  PROVE  ChatInv'
<1> DEFINE x == Head(turn.left)
           by == turn.by
           d == [action |-> x, by |-> by]
           rest == Tail(turn.left)
<1>1. /\ turn # Empty /\ turn.at = "execute"
      /\ done' = done \/ done' = Append(done, d)
      /\ turn' = IF Len(turn.left) = 1 THEN Empty ELSE Executing(rest, by)
      /\ UNCHANGED <<handled, said, receipts, queue, pending>>
  BY DEF Execute
<1>2. pending = Empty /\ LeftOK(turn.left, by, handled, said, done)
  BY <1>1 DEF ChatInv, TurnOK
<1>3. /\ x \in HeldBack /\ x = turn.left[1] /\ 1 \in DOMAIN turn.left
      /\ rest \in Seq(HeldBack) /\ OneToOne(rest)
      /\ \A i \in DOMAIN rest : rest[i] # x /\ \E j \in DOMAIN turn.left : rest[i] = turn.left[j]
      /\ Len(turn.left) # 1 => rest # <<>>
  BY <1>2, HeadApart DEF LeftOK
<1>4. by \in Nat /\ Sound(x.msg, by, handled, said) /\ \A j \in DOMAIN done : done[j].action # x
  BY <1>2, <1>3 DEF LeftOK, Undone
<1>5. d \in Performed /\ d.action = x /\ d.by = by
  BY <1>3, <1>4 DEF Performed
<1> HIDE DEF x, by, d, rest
<1>6. /\ DoneOK(done, handled, said) /\ done \in Seq(Performed)
  BY DEF ChatInv, DoneOK
<1>7. /\ done' \in Seq(Performed)
      /\ \A i \in DOMAIN done' : done'[i] = d \/ (i \in DOMAIN done /\ done'[i] = done[i])
      /\ \A i, j \in DOMAIN done' : done'[i] = d /\ done'[j] = d => i = j
  <2>1. CASE done' = done
    <3>1. \A i \in DOMAIN done : done[i] # d
      BY <1>4, <1>5
    <3> QED
      BY <1>6, <2>1, <3>1
  <2>2. CASE done' = Append(done, d)
    <3>1. /\ DOMAIN done' = 1..(Len(done) + 1) /\ DOMAIN done = 1..Len(done) /\ Len(done) \in Nat
          /\ done'[Len(done) + 1] = d /\ \A i \in 1..Len(done) : done'[i] = done[i]
          /\ done' \in Seq(Performed)
      BY <1>5, <1>6, <2>2
    <3>2. \A i \in DOMAIN done : done[i] # d
      BY <1>4, <1>5
    <3>3. \A i \in DOMAIN done' : i = Len(done) + 1 \/ i \in DOMAIN done
      BY <3>1
    <3> QED
      BY <3>1, <3>2, <3>3
  <2> QED
    BY <1>1, <2>1, <2>2
<1>8. DoneOK(done', handled, said)
  <2>1. \A i, j \in DOMAIN done' : done'[i].action = done'[j].action => i = j
    BY <1>4, <1>5, <1>6, <1>7 DEF DoneOK
  <2>2. \A i \in DOMAIN done' : Sound(done'[i].action.msg, done'[i].by, handled, said)
    BY <1>4, <1>5, <1>6, <1>7 DEF DoneOK
  <2> QED
    BY <1>7, <2>1, <2>2 DEF DoneOK
<1>9. Len(turn.left) # 1 => LeftOK(rest, by, handled, said, done')
  <2>1. Undone(rest, done')
    BY <1>2, <1>3, <1>5, <1>7 DEF LeftOK, Undone
  <2>2. \A i \in DOMAIN rest : Sound(rest[i].msg, by, handled, said)
    BY <1>2, <1>3 DEF LeftOK
  <2> QED
    BY <1>3, <1>4, <2>1, <2>2 DEF LeftOK
<1>10. TurnOK(turn', pending, handled, said, done')
  <2>1. Len(turn.left) # 1 => turn'.at = "execute" /\ turn'.left = rest /\ turn'.by = by
    BY <1>1 DEF Executing
  <2> QED
    BY <1>1, <1>2, <1>9, <2>1 DEF TurnOK
<1>11. PendOK(pending, handled, said, done')
  BY <1>2 DEF PendOK
<1> QED
  BY <1>1, <1>8, <1>10, <1>11 DEF ChatInv

\* The message that is taken does not cancel: what waits is still asked for.
LEMMA WaitNext ==
  ASSUME ChatInv, NEW x \in DOMAIN said, said[x] # "cancel", handled \in Seq(DOMAIN said), pending # Empty
  PROVE  /\ WaitOK(pending.actions, Append(handled, x), said, done)
         /\ said[x] = "confirm" => LeftOK(pending.actions, x, Append(handled, x), said, done)
<1>1. WaitOK(pending.actions, handled, said, done) /\ said \in Seq(Kinds)
  BY DEF ChatInv, PendOK, OrderOK
<1>2. \A m : Asked(m, handled, said) =>
               /\ Asked(m, Append(handled, x), said)
               /\ said[x] = "confirm" => Sound(m, x, Append(handled, x), said)
  BY <1>1, AskedNext
<1>3. x \in Nat
  BY <1>1
<1> QED
  BY <1>1, <1>2, <1>3 DEF WaitOK, LeftOK

\* A message that was never handled asks for nothing that waits or is done.
LEMMA NewQuestion ==
  ASSUME ChatInv, NEW x, \A i \in DOMAIN handled : handled[i] # x
  PROVE  HeldOK(x, 0, pending, done)
<1>1. \A j \in DOMAIN done : done[j].action.msg # x
  BY DEF ChatInv, DoneOK, Sound
<1>2. pending # Empty => \A i \in DOMAIN pending.actions : pending.actions[i].msg # x
  BY DEF ChatInv, PendOK, WaitOK, Asked
<1> QED
  BY <1>1, <1>2 DEF HeldOK

LEMMA ChatInitially == ChatInit => ChatInv
BY DEF ChatInit, ChatInv, OrderOK, OneToOne, DoneOK, PendOK, TurnOK

\* More is said: nothing that was said before changes.
LEMMA SayOK == ASSUME ChatInv, Say PROVE ChatInv'
<1>1. PICK kind \in Kinds : said' = Append(said, kind)
  BY DEF Say
<1>2. UNCHANGED <<handled, receipts, queue, turn, pending, done>>
  BY DEF Say
<1>3. /\ said \in Seq(Kinds) /\ said' \in Seq(Kinds)
      /\ receipts \subseteq DOMAIN said /\ handled \in Seq(receipts)
  BY <1>1 DEF ChatInv, OrderOK
<1>4. Grows(said, said') /\ DOMAIN said \subseteq DOMAIN said' /\ Grows(handled, handled)
  <2>1. /\ Len(said') = Len(said) + 1 /\ Len(said) \in Nat /\ Len(handled) \in Nat
        /\ DOMAIN said = 1..Len(said) /\ DOMAIN said' = 1..(Len(said) + 1)
        /\ \A k \in 1..Len(said) : said'[k] = said[k]
    BY <1>1, <1>3
  <2> QED
    BY <2>1 DEF Grows
<1>5. handled \in Seq(DOMAIN said) /\ handled \in Seq(Nat)
  <2>1. DOMAIN said \subseteq Nat
    BY <1>3
  <2>2. receipts \subseteq Nat
    BY <1>3, <2>1
  <2> QED
    BY <1>3, <2>2, SeqWider
<1>6. /\ \A m, by : Sound(m, by, handled, said) => Sound(m, by, handled, said')
      /\ \A m : Asked(m, handled, said) => Asked(m, handled, said')
  <2>1. \A m, by : Sound(m, by, handled, said) => Sound(m, by, handled, said')
    BY <1>3, <1>4, <1>5, SoundStays
  <2>2. \A m : Asked(m, handled, said) => Asked(m, handled, said')
    BY <1>3, <1>4, <1>5, AskedStays
  <2> QED
    BY <2>1, <2>2
<1>7. OrderOK(said', receipts, queue, handled)
  BY <1>3, <1>4 DEF ChatInv, OrderOK
<1>8. DoneOK(done, handled, said') /\ PendOK(pending, handled, said', done)
  BY <1>6 DEF ChatInv, DoneOK, PendOK, WaitOK
<1>9. \A k \in DOMAIN said : said'[k] = said[k]
  BY <1>3, <1>4 DEF Grows
<1>10. handled # <<>> => handled[Len(handled)] \in DOMAIN said
  BY <1>5
<1>11. TurnOK(turn, pending, handled, said', done)
  <2>1. CASE turn = Empty
    BY <2>1 DEF TurnOK
  <2>2. CASE turn # Empty /\ turn.at = "execute"
    BY <1>6, <2>2 DEF ChatInv, TurnOK, LeftOK
  <2>3. CASE turn # Empty /\ turn.at # "execute"
    BY <1>9, <1>10, <2>3 DEF ChatInv, TurnOK
  <2> QED
    BY <2>1, <2>2, <2>3
<1> QED
  BY <1>2, <1>7, <1>8, <1>11 DEF ChatInv

\* A message is received: its number is neither queued nor handled.
LEMMA ReceiveOK == ASSUME ChatInv, Receive PROVE ChatInv'
<1>1. PICK i \in DOMAIN said : /\ i \notin receipts /\ receipts' = receipts \cup {i}
                              /\ queue' = Append(queue, i)
                              /\ UNCHANGED <<handled, said, turn, pending, done>>
  BY DEF Receive
<1>2. OrderOK(said, receipts, queue, handled)
  BY DEF ChatInv
<1>3. queue \in Seq(receipts') /\ handled \in Seq(receipts')
  BY <1>1, <1>2, SeqWider DEF OrderOK
<1>4. /\ \A k \in DOMAIN queue : queue[k] # i
      /\ \A k \in DOMAIN handled : handled[k] # i
  BY <1>1, <1>2 DEF OrderOK
<1>5. /\ queue' \in Seq(receipts') /\ OneToOne(queue')
      /\ \A k \in DOMAIN queue' : queue'[k] = i \/ \E j \in DOMAIN queue : queue'[k] = queue[j]
  <2>1. i \in receipts' /\ OneToOne(queue)
    BY <1>1, <1>2 DEF OrderOK
  <2>2. /\ Append(queue, i) \in Seq(receipts') /\ OneToOne(Append(queue, i))
        /\ \A k \in DOMAIN Append(queue, i) :
             Append(queue, i)[k] = i \/ \E j \in DOMAIN queue : Append(queue, i)[k] = queue[j]
    BY <1>3, <1>4, <2>1, AddedApart
  <2> QED
    BY <1>1, <2>2
<1>6. \A k \in DOMAIN queue', j \in DOMAIN handled : queue'[k] # handled[j]
  BY <1>2, <1>4, <1>5 DEF OrderOK
<1>7. OrderOK(said, receipts', queue', handled)
  BY <1>1, <1>2, <1>3, <1>5, <1>6 DEF OrderOK
<1> QED
  BY <1>1, <1>7 DEF ChatInv

LEMMA ChatStep == ChatInv /\ [ChatNext]_chatVars => ChatInv'
<1> SUFFICES ASSUME ChatInv, [ChatNext]_chatVars
             PROVE  ChatInv'
  OBVIOUS
<1>1. ASSUME turn = Empty, queue # <<>>, queue' = Tail(queue), handled' = Append(handled, Head(queue)),
             UNCHANGED <<said, receipts, done>>
      PROVE  /\ OrderOK(said, receipts, queue', handled') /\ DoneOK(done, handled', said)
             /\ Head(queue) \in DOMAIN said /\ handled \in Seq(DOMAIN said)
             /\ \A i \in DOMAIN handled : handled[i] # Head(queue)
  BY <1>1, NextMessage
<1>2. CASE Confirm
  <2> DEFINE x == Head(queue)
  <2>1. /\ OrderOK(said, receipts, queue', handled') /\ DoneOK(done, handled', said)
        /\ x \in DOMAIN said /\ handled \in Seq(DOMAIN said) /\ said[x] = "confirm"
    BY <1>1, <1>2 DEF Confirm
  <2>2. /\ handled' = Append(handled, x) /\ pending' = Empty /\ UNCHANGED <<said, receipts, done>>
        /\ turn' = IF Alive THEN Executing(pending.actions, x) ELSE Empty
    BY <1>2 DEF Confirm
  <2> HIDE DEF x
  <2>3. CASE Alive
    <3>1. LeftOK(pending.actions, x, handled', said, done)
      BY <2>1, <2>2, <2>3, WaitNext DEF Alive
    <3>2. turn'.at = "execute" /\ turn'.left = pending.actions /\ turn'.by = x
      BY <2>2, <2>3 DEF Executing
    <3>3. TurnOK(turn', pending', handled', said, done)
      BY <2>2, <3>1, <3>2 DEF TurnOK
    <3> QED
      BY <2>1, <2>2, <3>3 DEF ChatInv, PendOK
  <2>4. CASE ~Alive
    BY <2>1, <2>2, <2>4 DEF ChatInv, PendOK, TurnOK
  <2> QED
    BY <2>3, <2>4
<1>3. CASE Execute
  BY <1>3, ExecuteOK
<1>4. CASE Cancel
  BY <1>1, <1>4 DEF Cancel, ChatInv, PendOK, TurnOK
<1>5. CASE Reset
  <2> DEFINE x == Head(queue)
  <2>1. /\ OrderOK(said, receipts, queue', handled') /\ DoneOK(done, handled', said)
        /\ x \in DOMAIN said /\ handled \in Seq(DOMAIN said) /\ said[x] # "cancel"
    BY <1>1, <1>5 DEF Reset
  <2>2. handled' = Append(handled, x) /\ UNCHANGED <<pending, said, receipts, done, turn>> /\ turn = Empty
    BY <1>5 DEF Reset
  <2> HIDE DEF x
  <2>3. PendOK(pending, handled', said, done)
    BY <2>1, <2>2, WaitNext DEF PendOK
  <2> QED
    BY <2>1, <2>2, <2>3 DEF ChatInv, TurnOK
<1>6. CASE Ask
  <2> DEFINE x == Head(queue)
  <2>1. /\ OrderOK(said, receipts, queue', handled') /\ DoneOK(done, handled', said)
        /\ x \in DOMAIN said /\ handled \in Seq(DOMAIN said) /\ said[x] = "ask"
        /\ \A i \in DOMAIN handled : handled[i] # x
    BY <1>1, <1>6 DEF Ask
  <2>2. /\ handled' = Append(handled, x) /\ UNCHANGED <<pending, said, receipts, done>>
        /\ turn' = IF cooling THEN Empty ELSE Talking(x, session, 0, 0)
    BY <1>6 DEF Ask
  <2> HIDE DEF x
  <2>3. PendOK(pending, handled', said, done)
    BY <2>1, <2>2, WaitNext DEF PendOK
  <2>4. HeldOK(x, 0, pending, done)
    BY <2>1, NewQuestion
  <2>5. handled' # <<>> /\ handled'[Len(handled')] = x
    BY <2>1, <2>2
  <2>6. turn' # Empty => turn'.at = "model" /\ turn'.msg = x /\ turn'.held = 0
    BY <2>2 DEF Talking
  <2>7. TurnOK(turn', pending, handled', said, done)
    BY <2>1, <2>4, <2>5, <2>6 DEF TurnOK
  <2> QED
    BY <2>1, <2>2, <2>3, <2>7 DEF ChatInv
<1>7. CASE CallTool
  <2>1. /\ turn # Empty /\ turn.at = "model" /\ UNCHANGED <<handled, said, receipts, queue, done>>
    BY <1>7 DEF CallTool
  <2>2. /\ handled # <<>> /\ turn.msg = handled[Len(handled)] /\ said[turn.msg] = "ask"
        /\ HeldOK(turn.msg, turn.held, pending, done)
    BY <2>1 DEF ChatInv, TurnOK
  <2>3. PICK round, held : /\ turn' = Talking(turn.msg, turn.history, round, held)
                           /\ PendOK(pending', handled, said, done)
                           /\ HeldOK(turn.msg, held, pending', done)
    <3>1. PICK tool \in Tools, round \in {turn.rounds, turn.rounds + 1} :
            \/ /\ Push(Action(tool))
               /\ turn' = Talking(turn.msg, turn.history, round, turn.held + 1)
            \/ /\ turn' = Talking(turn.msg, turn.history, round, turn.held)
               /\ UNCHANGED pending
      BY <1>7 DEF CallTool
    <3>2. CASE Push(Action(tool)) /\ turn' = Talking(turn.msg, turn.history, round, turn.held + 1)
      BY <2>1, <3>2, PushOK
    <3>3. CASE turn' = Talking(turn.msg, turn.history, round, turn.held) /\ UNCHANGED pending
      BY <2>2, <3>3 DEF ChatInv
    <3> QED
      BY <3>1, <3>2, <3>3
  <2>4. turn'.at = "model" /\ turn'.msg = turn.msg /\ turn'.held = held
    BY <2>3 DEF Talking
  <2>5. TurnOK(turn', pending', handled, said, done)
    BY <2>2, <2>3, <2>4 DEF TurnOK
  <2> QED
    BY <2>1, <2>3, <2>5 DEF ChatInv
<1>8. CASE Answer \/ ModelFails
  BY <1>8 DEF Answer, ModelFails, ChatInv, TurnOK
<1>9. CASE Say
  BY <1>9, SayOK
<1>10. CASE Receive
  BY <1>10, ReceiveOK
<1>11. CASE ReceiveAgain \/ Tick
  BY <1>11 DEF ReceiveAgain, Tick, ChatInv
<1>12. CASE Restart
  <2>1. OrderOK(said, receipts, <<>>, handled)
    BY DEF ChatInv, OrderOK, OneToOne
  <2> QED
    BY <1>12, <2>1 DEF Restart, ChatInv, PendOK, TurnOK
<1>13. CASE UNCHANGED chatVars
  BY <1>13 DEF chatVars, ChatInv
<1> QED
  BY <1>2, <1>3, <1>4, <1>5, <1>6, <1>7, <1>8, <1>9, <1>10, <1>11, <1>12, <1>13 DEF ChatNext

-----------------------------------------------------------------------------
(* The forms of the admin pages.  A request is sent as it was agreed to, so  *)
(* the question on screen and the box of the reason must hold what they ask. *)

\* A request that goes live was agreed to, and one that lists gives its own reason.
Agreed(c) ==
  /\ c.call = "save" /\ c.patch.mode = "live" => c.agreed
  /\ c.call = "list" => c.reason \in {Nothing, c.strategy}

QuestionOK(q) == IF q.about = "goLive" THEN \E patch : q.c = SaveCall(patch) ELSE Agreed(q.c)

FormInv ==
  /\ "mode" \in DOMAIN server
  /\ \E Posted : posts \in Seq(Posted)
  /\ \A i \in DOMAIN posts : Agreed(posts[i].c)
  /\ question # Nothing => QuestionOK(question)
  /\ gate # Nothing => gate.reason \in {Nothing, gate.strategy}

\* What is left when one of a sequence is removed was in it.
LEMMA RemoveLeaves ==
  ASSUME NEW X, NEW s \in Seq(X), NEW i \in DOMAIN s
  PROVE  /\ RemoveAt(s, i) \in Seq(X)
         /\ \A j \in DOMAIN RemoveAt(s, i) : \E k \in DOMAIN s : RemoveAt(s, i)[j] = s[k]
<1> DEFINE u == SubSeq(s, 1, i - 1)
           v == SubSeq(s, i + 1, Len(s))
<1>1. DOMAIN s = 1..Len(s) /\ Len(s) \in Nat /\ i \in 1..Len(s) /\ \A j \in 1..Len(s) : s[j] \in X
  OBVIOUS
<1>2. u \in Seq(X) /\ Len(u) = i - 1 /\ \A j \in 1..(i - 1) : u[j] = s[j]
  <2>1. i - 1 \in Int /\ \A j \in 1..(i - 1) : s[j] \in X
    BY <1>1
  <2>2. /\ u \in Seq(X) /\ Len(u) = IF 1 <= i - 1 THEN (i - 1) - 1 + 1 ELSE 0
        /\ \A j \in 1..((i - 1) - 1 + 1) : u[j] = s[1 + j - 1]
    BY <2>1, SubSeqProperties
  <2> HIDE DEF u
  <2>3. ASSUME NEW j \in 1..(i - 1) PROVE u[j] = s[j]
    <3>1. j \in 1..((i - 1) - 1 + 1) /\ 1 + j - 1 = j
      BY <1>1
    <3> QED
      BY <2>2, <3>1
  <2> QED
    BY <1>1, <2>2, <2>3
<1>3. v \in Seq(X) /\ Len(v) = Len(s) - i /\ \A j \in 1..(Len(s) - i) : v[j] = s[j + i]
  <2>1. i + 1 \in Int /\ Len(s) \in Int /\ \A j \in (i + 1)..Len(s) : s[j] \in X
    BY <1>1
  <2>2. /\ v \in Seq(X) /\ Len(v) = IF i + 1 <= Len(s) THEN Len(s) - (i + 1) + 1 ELSE 0
        /\ \A j \in 1..(Len(s) - (i + 1) + 1) : v[j] = s[i + 1 + j - 1]
    BY <2>1, SubSeqProperties
  <2> HIDE DEF v
  <2>3. ASSUME NEW j \in 1..(Len(s) - i) PROVE v[j] = s[j + i]
    <3>1. j \in 1..(Len(s) - (i + 1) + 1) /\ i + 1 + j - 1 = j + i
      BY <1>1
    <3> QED
      BY <2>2, <3>1
  <2> QED
    BY <1>1, <2>2, <2>3
<1> HIDE DEF u, v
<1>4. /\ u \o v \in Seq(X) /\ Len(u \o v) = Len(u) + Len(v)
      /\ \A j \in 1..(Len(u) + Len(v)) : (u \o v)[j] = IF j <= Len(u) THEN u[j] ELSE v[j - Len(u)]
  BY <1>2, <1>3, ConcatProperties
<1>5. DOMAIN (u \o v) = 1..(Len(u) + Len(v))
  BY <1>4
<1>6. ASSUME NEW j \in DOMAIN (u \o v) PROVE \E k \in DOMAIN s : (u \o v)[j] = s[k]
  <2>1. CASE j <= Len(u)
    <3>1. j \in 1..(i - 1) /\ j \in DOMAIN s
      BY <1>1, <1>2, <1>3, <1>5, <2>1
    <3> QED
      BY <1>2, <1>4, <1>5, <2>1, <3>1
  <2>2. CASE ~(j <= Len(u))
    <3>1. j - Len(u) \in 1..(Len(s) - i) /\ j - Len(u) + i \in DOMAIN s
      BY <1>1, <1>2, <1>3, <1>5, <2>2
    <3> QED
      BY <1>3, <1>4, <1>5, <2>2, <3>1
  <2> QED
    BY <2>1, <2>2
<1> QED
  BY <1>4, <1>6 DEF RemoveAt, u, v

LEMMA FormInitially == FormInit => FormInv
<1> SUFFICES ASSUME FormInit PROVE FormInv
  OBVIOUS
<1>1. "mode" \in DOMAIN server
  BY DEF FormInit
<1>2. posts = <<>> /\ posts \in Seq({})
  BY DEF FormInit
<1> QED
  BY <1>1, <1>2 DEF FormInit, FormInv

\* A request that was agreed to is sent.
LEMMA SendOK ==
  ASSUME FormInv, NEW c, Agreed(c), Send(c)
  PROVE  (\E Posted : posts' \in Seq(Posted)) /\ \A i \in DOMAIN posts' : Agreed(posts'[i].c)
<1> DEFINE p == [c |-> c, at |-> "asked", says |-> "ok"]
<1>1. PICK X : posts \in Seq(X)
  BY DEF FormInv
<1>2. posts' = Append(posts, p) /\ p.c = c
  BY DEF Send
<1> HIDE DEF p
<1>3. posts \in Seq(X \cup {p})
  BY <1>1, SeqWider
<1>4. /\ posts' \in Seq(X \cup {p}) /\ DOMAIN posts' = 1..(Len(posts) + 1) /\ Len(posts) \in Nat
      /\ DOMAIN posts = 1..Len(posts)
      /\ posts'[Len(posts) + 1] = p /\ \A i \in 1..Len(posts) : posts'[i] = posts[i]
  BY <1>2, <1>3
<1>5. \A i \in DOMAIN posts' : i = Len(posts) + 1 \/ i \in DOMAIN posts
  BY <1>4
<1> QED
  BY <1>2, <1>4, <1>5 DEF FormInv

\* The posts that are left when one goes were agreed to.
LEMMA LeavesOK ==
  ASSUME FormInv, NEW i \in DOMAIN posts, posts' = RemoveAt(posts, i)
  PROVE  (\E Posted : posts' \in Seq(Posted)) /\ \A j \in DOMAIN posts' : Agreed(posts'[j].c)
<1>1. PICK X : posts \in Seq(X)
  BY DEF FormInv
<1>2. /\ posts' \in Seq(X)
      /\ \A j \in DOMAIN posts' : \E k \in DOMAIN posts : posts'[j] = posts[k]
  BY <1>1, RemoveLeaves
<1> QED
  BY <1>2 DEF FormInv

\* The question a page asks of real money, or the request that needs none.
LEMMA AskedOK ==
  ASSUME FormInv, NEW c, Agreed(c), ConfirmLiveIfNeeded(c)
  PROVE  /\ (\E Posted : posts' \in Seq(Posted)) /\ \A i \in DOMAIN posts' : Agreed(posts'[i].c)
         /\ question' # Nothing => QuestionOK(question')
<1>1. CASE seen.mode = "live"
  BY <1>1 DEF ConfirmLiveIfNeeded, AskFor, QuestionOK, FormInv
<1>2. CASE ~(seen.mode = "live")
  <2>1. Send(c) /\ question' = Nothing
    BY <1>2 DEF ConfirmLiveIfNeeded
  <2> QED
    BY <2>1, SendOK
<1> QED
  BY <1>1, <1>2

\* What the server handles keeps the field of the mode, which only a save changes.
LEMMA ServerKeeps ==
  ASSUME NEW c, "mode" \in DOMAIN server
  PROVE  /\ "mode" \in DOMAIN ServerAfter(c)
         /\ c.call # "save" => ServerAfter(c).mode = server.mode
         /\ c.call = "save" => ServerAfter(c).mode \in {server.mode, c.patch.mode}
<1>1. CASE c.call = "save"
  BY <1>1 DEF ServerAfter
<1>2. CASE c.call # "save"
  BY <1>2 DEF ServerAfter
<1> QED
  BY <1>1, <1>2

LEMMA FormStep == FormInv /\ [FormNext]_formVars => FormInv'
<1> SUFFICES ASSUME FormInv, [FormNext]_formVars PROVE FormInv'
  OBVIOUS
<1>1. CASE SubmitConfig
  <2> DEFINE c == StartCall(starting.symbol, FALSE, starting.symbol)
  <2>1. Agreed(c)
    BY DEF Agreed, StartCall
  <2>2. ConfirmLiveIfNeeded(c) /\ UNCHANGED <<server, gate>>
    BY <1>1 DEF SubmitConfig
  <2> HIDE DEF c
  <2> QED
    BY <2>1, <2>2, AskedOK DEF FormInv
<1>2. CASE QuickStart
  <2> DEFINE c == StartCall(Nothing, FALSE, Platform)
  <2>1. Agreed(c)
    BY DEF Agreed, StartCall
  <2>2. ConfirmLiveIfNeeded(c) /\ UNCHANGED <<server, gate>>
    BY <1>2 DEF QuickStart
  <2> HIDE DEF c
  <2> QED
    BY <2>1, <2>2, AskedOK DEF FormInv
<1>3. CASE Stop
  <2> DEFINE c == PlainCall("stop")
  <2>1. Agreed(c)
    BY DEF Agreed, PlainCall
  <2>2. Send(c) /\ UNCHANGED <<server, question, gate>>
    BY <1>3 DEF Stop
  <2> HIDE DEF c
  <2> QED
    BY <2>1, <2>2, SendOK DEF FormInv
<1>4. CASE CloseBasket \/ CloseRow \/ Disable
  <2>1. /\ UNCHANGED <<server, posts, gate>>
        /\ \E about, c : about # "goLive" /\ Agreed(c) /\ AskFor(about, c)
    BY <1>4 DEF CloseBasket, CloseRow, Disable, Agreed, PlainCall, CloseCall
  <2>2. QuestionOK(question')
    BY <2>1 DEF AskFor, QuestionOK
  <2> QED
    BY <2>1, <2>2 DEF FormInv
<1>5. CASE Accept
  <2>1. question # Nothing /\ QuestionOK(question) /\ UNCHANGED <<server, gate>>
    BY <1>5 DEF Accept, FormInv
  <2>2. CASE question.about = "blocked"
    <3>1. ConfirmLiveIfNeeded(question.c) /\ Agreed(question.c)
      BY <1>5, <2>1, <2>2 DEF Accept, QuestionOK
    <3> QED
      BY <2>1, <3>1, AskedOK DEF FormInv
  <2>3. CASE question.about = "goLive"
    <3>1. PICK patch : question.c = SaveCall(patch)
      BY <2>1, <2>3 DEF QuestionOK
    <3> DEFINE c == [question.c EXCEPT !.agreed = TRUE]
    <3>2. Agreed(c)
      BY <3>1 DEF Agreed, SaveCall
    <3>3. Send(c) /\ question' = Nothing
      BY <1>5, <2>3 DEF Accept
    <3> HIDE DEF c
    <3> QED
      BY <2>1, <3>2, <3>3, SendOK DEF FormInv
  <2>4. CASE question.about \notin {"blocked", "goLive"}
    <3>1. Send(question.c) /\ question' = Nothing /\ Agreed(question.c)
      BY <1>5, <2>1, <2>4 DEF Accept, QuestionOK
    <3> QED
      BY <2>1, <3>1, SendOK DEF FormInv
  <2> QED
    BY <2>2, <2>3, <2>4
<1>6. CASE SaveTradeParams
  <2> DEFINE c == SaveCall(Patch)
  <2>1. UNCHANGED <<server, gate>>
    BY <1>6 DEF SaveTradeParams
  <2>2. CASE Patch.mode = "live"
    <3>1. question' = [about |-> "goLive", c |-> c] /\ UNCHANGED posts
      BY <1>6, <2>2 DEF SaveTradeParams, AskFor
    <3>2. QuestionOK(question')
      BY <3>1 DEF QuestionOK
    <3> QED
      BY <2>1, <3>1, <3>2 DEF FormInv
  <2>3. CASE Patch.mode # "live"
    <3>1. Agreed(c)
      BY <2>3 DEF Agreed, SaveCall
    <3>2. Send(c) /\ UNCHANGED question
      BY <1>6, <2>3 DEF SaveTradeParams
    <3> HIDE DEF c
    <3> QED
      BY <2>1, <3>1, <3>2, SendOK DEF FormInv
  <2> QED
    BY <2>2, <2>3
<1>7. CASE TryEnable
  <2>1. PICK s : Send(ListCall(s, Nothing)) /\ UNCHANGED <<server, question, gate>>
    BY <1>7 DEF TryEnable
  <2> DEFINE c == ListCall(s, Nothing)
  <2>2. Agreed(c) /\ Send(c)
    BY <2>1 DEF Agreed, ListCall
  <2> HIDE DEF c
  <2> QED
    BY <2>1, <2>2, SendOK DEF FormInv
<1>8. CASE TypeReason
  <2>1. gate'.reason = gate'.strategy /\ UNCHANGED <<server, question, posts>>
    BY <1>8 DEF TypeReason
  <2> QED
    BY <2>1 DEF FormInv
<1>9. CASE Override
  <2> DEFINE c == ListCall(gate.strategy, gate.reason)
  <2>1. gate # Nothing /\ UNCHANGED <<server, question, gate>> /\ Send(c)
    BY <1>9 DEF Override
  <2>2. Agreed(c)
    BY <2>1 DEF Agreed, ListCall, FormInv
  <2> HIDE DEF c
  <2> QED
    BY <2>1, <2>2, SendOK DEF FormInv
<1>10. CASE ServerHandles
  <2>1. PICK i \in DOMAIN posts :
          /\ server' = ServerAfter(posts[i].c)
          /\ posts' = [posts EXCEPT ![i] = [c |-> @.c, at |-> "answered", says |-> Says(@.c)]]
    BY <1>10 DEF ServerHandles
  <2> DEFINE p == [c |-> posts[i].c, at |-> "answered", says |-> Says(posts[i].c)]
  <2>2. posts' = [posts EXCEPT ![i] = p] /\ p.c = posts[i].c
    BY <2>1
  <2> HIDE DEF p
  <2>3. PICK X : posts \in Seq(X)
    BY DEF FormInv
  <2>4. posts \in Seq(X \cup {p})
    BY <2>3, SeqWider
  <2>5. posts' \in Seq(X \cup {p}) /\ \A j \in DOMAIN posts' : j \in DOMAIN posts /\ posts'[j].c = posts[j].c
    BY <2>2, <2>4
  <2>6. "mode" \in DOMAIN server'
    BY <2>1, ServerKeeps DEF FormInv
  <2>7. UNCHANGED <<question, gate>>
    BY <1>10 DEF ServerHandles
  <2> QED
    BY <2>5, <2>6, <2>7 DEF FormInv
<1>11. CASE Answered
  <2>1. PICK i \in DOMAIN posts :
          /\ posts' = RemoveAt(posts, i)
          /\ IF posts[i].c.call = "start" THEN StartAnswered(posts[i].c, posts[i].says)
                                          ELSE UNCHANGED <<starting, question>>
          /\ gate' = IF posts[i].c.call = "list" THEN GateAfter(posts[i].c, posts[i].says) ELSE gate
    BY <1>11 DEF Answered, Ends
  <2>2. (\E Posted : posts' \in Seq(Posted)) /\ \A j \in DOMAIN posts' : Agreed(posts'[j].c)
    BY <2>1, LeavesOK
  <2>3. question' # Nothing => QuestionOK(question')
    <3>1. CASE UNCHANGED question
      BY <3>1 DEF FormInv
    <3>2. CASE question' # question
      <4>1. question' = [about |-> "blocked", c |-> StartCall(Nothing, TRUE, posts[i].c.asked)]
        BY <2>1, <3>2 DEF StartAnswered, AskFor
      <4> QED
        BY <4>1 DEF QuestionOK, Agreed, StartCall
    <3> QED
      BY <3>1, <3>2
  <2>4. gate' # Nothing => gate'.reason \in {Nothing, gate'.strategy}
    BY <2>1 DEF GateAfter, FormInv
  <2>5. UNCHANGED server
    BY <1>11 DEF Answered, Ends
  <2> QED
    BY <2>2, <2>3, <2>4, <2>5 DEF FormInv
<1>12. CASE Lost
  <2>1. UNCHANGED <<server, question, gate>> /\ \E i \in DOMAIN posts : posts' = RemoveAt(posts, i)
    BY <1>12 DEF Lost, Ends
  <2> QED
    BY <2>1, LeavesOK DEF FormInv
<1>13. CASE OtherAdmin
  <2>1. UNCHANGED <<question, gate, posts>> /\ DOMAIN server' = DOMAIN server
    BY <1>13 DEF OtherAdmin
  <2> QED
    BY <2>1 DEF FormInv
<1>14. CASE Dismiss \/ CancelGate
  BY <1>14 DEF Dismiss, CancelGate, FormInv
<1>15. CASE \/ OpenConfig \/ ChangeSymbol \/ ChangeParam \/ CancelConfig
            \/ EditDraft \/ ResetDraft \/ Refresh \/ UNCHANGED formVars
  <2>1. UNCHANGED <<server, question, gate, posts>>
    BY <1>15 DEF OpenConfig, ChangeSymbol, ChangeParam, CancelConfig, EditDraft, ResetDraft, Refresh, formVars
  <2> QED
    BY <2>1 DEF FormInv
<1> QED
  BY <1>1, <1>2, <1>3, <1>4, <1>5, <1>6, <1>7, <1>8, <1>9, <1>10, <1>11, <1>12, <1>13, <1>14, <1>15
     DEF FormNext

\* A step that takes the mode to live handles a save that was agreed to.
LEMMA LiveStep ==
  FormInv /\ [FormNext]_formVars =>
     [(server.mode # "live" /\ server'.mode = "live") =>
          \E i \in DOMAIN posts : posts[i].at = "asked" /\ posts'[i].at = "answered"
                                    /\ posts[i].c.call = "save" /\ posts[i].c.agreed]_formVars
<1> SUFFICES ASSUME FormInv, FormNext, server.mode # "live", server'.mode = "live"
             PROVE  \E i \in DOMAIN posts : posts[i].at = "asked" /\ posts'[i].at = "answered"
                                             /\ posts[i].c.call = "save" /\ posts[i].c.agreed
  OBVIOUS
<1>1. server' # server
  OBVIOUS
<1>2. ServerHandles \/ OtherAdmin
  BY <1>1 DEF FormNext, OpenConfig, ChangeSymbol, ChangeParam, CancelConfig, SubmitConfig, QuickStart,
              Stop, CloseBasket, CloseRow, Disable, Accept, Dismiss, EditDraft, ResetDraft, SaveTradeParams,
              TryEnable, TypeReason, Override, CancelGate, Answered, Lost, Refresh
<1>3. ~OtherAdmin
  <2> SUFFICES ASSUME OtherAdmin PROVE FALSE
    OBVIOUS
  <2> QED
    BY DEF OtherAdmin, FormInv
<1>4. PICK i \in DOMAIN posts :
        /\ posts[i].at = "asked"
        /\ server' = ServerAfter(posts[i].c)
        /\ posts' = [posts EXCEPT ![i] = [c |-> @.c, at |-> "answered", says |-> Says(@.c)]]
  BY <1>2, <1>3 DEF ServerHandles
<1>5. posts'[i].at = "answered"
  BY <1>4
<1>6. posts[i].c.call = "save" /\ posts[i].c.patch.mode = "live"
  BY <1>4, ServerKeeps DEF FormInv
<1>7. posts[i].c.agreed
  BY <1>6 DEF FormInv, Agreed
<1> QED
  BY <1>4, <1>5, <1>6, <1>7

-----------------------------------------------------------------------------
(* The pages of the browser.  Of a query without a timer the invariant says   *)
(* how old an answer, or what is kept of one, may be at most.                *)

LEMMA JoinedFrom ==
  ASSUME NEW f, NEW g, NEW x \in DOMAIN Joined(f, g)
  PROVE  \/ x \in DOMAIN f /\ Joined(f, g)[x] = f[x]
         \/ x \in DOMAIN g /\ Joined(f, g)[x] = g[x]
BY DEF Joined

\* What is said of a hook h called q: a query without a timer is one of five.
HookFine(q, h) ==
  /\ q = "analysis" => h.polls
  /\ ~h.polls =>
       \/ h.about = "accounts" /\ h.key = <<"accounts">>
       \/ h.about = "strategies" /\ h.key = <<"strategies", "listed">>
       \/ h.about = "strategies" /\ h.key = <<"strategies", "all">>
       \/ h.about = "runs" /\ h.key = <<"backtest-runs">>
       \/ h.about = "preview"

LEMMA HookTable == \A q \in DOMAIN Hooks : HookFine(q, Hooks[q])
<1> USE DEF Hook, HookFine
<1>1. \A q \in DOMAIN NewsHooks : HookFine(q, NewsHooks[q])
  BY DEF NewsHooks
<1>2. \A q \in DOMAIN MarketHooks : HookFine(q, MarketHooks[q])
  BY DEF MarketHooks
<1>3. \A q \in DOMAIN FuturesHooks : HookFine(q, FuturesHooks[q])
  BY DEF FuturesHooks
<1>4. \A q \in DOMAIN StrategyHooks : HookFine(q, StrategyHooks[q])
  BY DEF StrategyHooks
<1>5. \A q \in DOMAIN BacktestHooks : HookFine(q, BacktestHooks[q])
  BY DEF BacktestHooks
<1> HIDE DEF HookFine
<1>6. ASSUME NEW f, NEW g, \A q \in DOMAIN f : HookFine(q, f[q]), \A q \in DOMAIN g : HookFine(q, g[q])
      PROVE  \A q \in DOMAIN Joined(f, g) : HookFine(q, Joined(f, g)[q])
  <2> TAKE q \in DOMAIN Joined(f, g)
  <2>1. \/ q \in DOMAIN f /\ Joined(f, g)[q] = f[q]
        \/ q \in DOMAIN g /\ Joined(f, g)[q] = g[q]
    BY JoinedFrom
  <2>2. CASE q \in DOMAIN f /\ Joined(f, g)[q] = f[q]
    BY <1>6, <2>2
  <2>3. CASE q \in DOMAIN g /\ Joined(f, g)[q] = g[q]
    BY <1>6, <2>3
  <2> QED
    BY <2>1, <2>2, <2>3
<1> QED
  BY <1>1, <1>2, <1>3, <1>4, <1>5, <1>6 DEF Hooks

\* A change is of a topic whose queries it refreshes, those that refresh themselves apart.
DeedFine(d) ==
  /\ "accounts" \in d.changes => <<"accounts">> \in d.keys
  /\ "strategies" \in d.changes => <<"strategies">> \in d.keys
  /\ "runs" \in d.changes => <<"backtest-runs">> \in d.keys
  /\ "preview" \notin d.changes

LEMMA DeedTable == \A d \in DOMAIN Deeds : DeedFine(Deeds[d])
<1> USE DEF Deed, DeedFine
<1>1. \A d \in DOMAIN NewsDeeds : DeedFine(NewsDeeds[d])
  BY DEF NewsDeeds
<1>2. \A d \in DOMAIN FuturesDeeds : DeedFine(FuturesDeeds[d])
  BY DEF FuturesDeeds
<1>3. \A d \in DOMAIN StrategyDeeds : DeedFine(StrategyDeeds[d])
  BY DEF StrategyDeeds
<1>4. \A d \in DOMAIN BacktestDeeds : DeedFine(BacktestDeeds[d])
  BY DEF BacktestDeeds
<1> HIDE DEF DeedFine
<1>5. ASSUME NEW f, NEW g, \A d \in DOMAIN f : DeedFine(f[d]), \A d \in DOMAIN g : DeedFine(g[d])
      PROVE  \A d \in DOMAIN Joined(f, g) : DeedFine(Joined(f, g)[d])
  <2> TAKE d \in DOMAIN Joined(f, g)
  <2>1. \/ d \in DOMAIN f /\ Joined(f, g)[d] = f[d]
        \/ d \in DOMAIN g /\ Joined(f, g)[d] = g[d]
    BY JoinedFrom
  <2>2. CASE d \in DOMAIN f /\ Joined(f, g)[d] = f[d]
    BY <1>5, <2>2
  <2>3. CASE d \in DOMAIN g /\ Joined(f, g)[d] = g[d]
    BY <1>5, <2>3
  <2> QED
    BY <2>1, <2>2, <2>3
<1> QED
  BY <1>1, <1>2, <1>3, <1>4, <1>5 DEF Deeds

LEMMA Refreshed ==
  ASSUME NEW q \in DOMAIN Hooks, ~Hooks[q].polls, NEW d \in DOMAIN Deeds,
         Hooks[q].about \in Deeds[d].changes
  PROVE  Matches(q, Deeds[d].keys)
<1>1. HookFine(q, Hooks[q]) /\ DeedFine(Deeds[d])
  BY HookTable, DeedTable
<1>2. /\ IsPrefix(<<"accounts">>, <<"accounts">>)
      /\ IsPrefix(<<"strategies">>, <<"strategies", "listed">>)
      /\ IsPrefix(<<"strategies">>, <<"strategies", "all">>)
      /\ IsPrefix(<<"backtest-runs">>, <<"backtest-runs">>)
  BY DEF IsPrefix
<1> QED
  BY <1>1, <1>2 DEF HookFine, DeedFine, Matches

Entry == [data : Nat \cup {NoData}, stale : BOOLEAN, at : {"rest", "asked", "answered"}, carries : Nat,
          again : BOOLEAN, failed : BOOLEAN, late : BOOLEAN]
Work(versions) == [name : DOMAIN Deeds, at : {"asked", "done", "refused"}, leaves : versions]

WebTypes ==
  /\ DOMAIN shelf \subseteq DOMAIN Hooks /\ shelf \in [Queries -> Entry]
  /\ DOMAIN topic = {Hooks[q].about : q \in Queries}
  /\ topic \in [DOMAIN topic -> Nat] /\ own \in [DOMAIN topic -> Nat]
  /\ pages \subseteq DOMAIN Shown /\ screen \in pages \cup {"login"}
  /\ \A p \in pages : Shown[p] \cup {"overview"} \subseteq Queries
  /\ deed # NoData => deed \in Work([DOMAIN topic -> Nat])

\* Nobody knows of a version the server has not reached.
WebBacked ==
  \A t \in DOMAIN topic :
    /\ own[t] <= topic[t]
    /\ DeedIs("done") => deed.leaves[t] <= topic[t]

\* Of a query without a timer: an answer on its way was read after this browser's last change, unless
\* it is marked late; what is at rest is as new, unless it is marked stale, failed or late; and what is
\* at rest on screen is not stale.
Told(q, s, v, onScreen) ==
  /\ s.at = "answered" /\ ~s.late => s.carries >= v
  /\ s.at = "rest" /\ ~s.stale /\ ~s.failed /\ ~s.late /\ s.data # NoData => s.data >= v
  /\ onScreen /\ s.at = "rest" /\ ~s.failed => ~s.stale /\ s.data # NoData

WebInv ==
  /\ WebTypes
  /\ WebBacked
  /\ \A q \in Queries : ~Hooks[q].polls => Told(q, shelf[q], own[Hooks[q].about], q \in Mounted)

LEMMA AskingTold ==
  ASSUME NEW q, NEW s \in Entry, NEW v, NEW onScreen, NEW b \in BOOLEAN
  PROVE  /\ Asking(s) \in Entry /\ [Asking(s) EXCEPT !.stale = b] \in Entry
         /\ Told(q, Asking(s), v, onScreen) /\ Told(q, [Asking(s) EXCEPT !.stale = b], v, onScreen)
BY DEF Asking, Entry, Told

\* The session of a start and the one of a behaviour that follows another part.
LEMMA WebInitially == WebInit \/ WebIdle => WebInv
<1> SUFFICES ASSUME WebInit \/ WebIdle PROVE WebInv
  OBVIOUS
<1>1. PICK s \in Sessions :
        /\ pages = {s[1], s[2]} /\ screen = s[1]
        /\ shelf = [q \in Shown[s[1]] \cup Shown[s[2]] \cup {"overview"} |->
                      IF q \in Shown[s[1]] \cup {"overview"} THEN Asking(NothingOf) ELSE NothingOf]
        /\ topic = [t \in {Hooks[q].about : q \in DOMAIN shelf} |-> 0] /\ own = topic /\ deed = NoData
  <2>1. CASE WebInit
    BY <2>1 DEF WebInit
  <2>2. CASE WebIdle
    <3>1. PICK s \in Sessions : s = CHOOSE x \in Sessions : TRUE
      BY SessionsAssumption
    <3> QED
      BY <2>2, <3>1 DEF WebIdle
  <2> QED
    BY <2>1, <2>2
<1>2. s[1] \in DOMAIN Shown /\ s[2] \in DOMAIN Shown
  BY SessionsAssumption
<1>3. \A p \in DOMAIN Shown : Shown[p] \cup {"overview"} \subseteq DOMAIN Hooks
  BY DEF Shown, Hooks, Joined, NewsHooks, MarketHooks, FuturesHooks, StrategyHooks, BacktestHooks
<1>4. "login" \notin DOMAIN Shown
  BY DEF Shown
<1>5. NothingOf \in Entry /\ Asking(NothingOf) \in Entry
  BY DEF NothingOf, Asking, Entry
<1>6. /\ Queries = Shown[s[1]] \cup Shown[s[2]] \cup {"overview"} /\ Mounted = Shown[s[1]] \cup {"overview"}
      /\ \A q \in Queries : shelf[q] = IF q \in Mounted THEN Asking(NothingOf) ELSE NothingOf
  BY <1>1, <1>2, <1>4 DEF Queries, Mounted
<1>7. WebTypes
  BY <1>1, <1>2, <1>3, <1>5, <1>6 DEF WebTypes
<1>8. WebBacked
  BY <1>1 DEF WebBacked, DeedIs
<1>9. ASSUME NEW q \in Queries
      PROVE  Told(q, shelf[q], own[Hooks[q].about], q \in Mounted)
  <2>1. CASE q \in Mounted
    <3>1. shelf[q].at = "asked"
      BY <1>6, <2>1 DEF NothingOf, Asking
    <3> QED
      BY <3>1 DEF Told
  <2>2. CASE q \notin Mounted
    <3>1. shelf[q].at = "rest" /\ shelf[q].stale
      BY <1>6, <2>2 DEF NothingOf
    <3> QED
      BY <2>2, <3>1 DEF Told
  <2> QED
    BY <2>1, <2>2
<1> QED
  BY <1>6, <1>7, <1>8, <1>9 DEF WebInv

LEMMA WebStep == WebInv /\ [WebNext]_webVars => WebInv'
<1> SUFFICES ASSUME WebInv, [WebNext]_webVars PROVE WebInv'
  OBVIOUS
<1> DEFINE V(q) == own[Hooks[q].about]
<1>1. WebTypes /\ WebBacked
      /\ \A q \in Queries : shelf[q] \in Entry /\ Hooks[q].about \in DOMAIN topic /\ V(q) \in Nat
  BY DEF WebInv, WebTypes
\* One entry changes and nothing else, but for counters.
<1>2. ASSUME NEW q \in Queries, NEW e \in Entry, shelf' = [shelf EXCEPT ![q] = e],
             UNCHANGED <<pages, topic, own, screen, deed>>,
             ~Hooks[q].polls => Told(q, e, V(q), q \in Mounted)
      PROVE  WebInv'
  <2>1. /\ Queries' = Queries /\ Mounted' = Mounted
        /\ \A p \in Queries : shelf'[p] = IF p = q THEN e ELSE shelf[p]
    BY <1>1, <1>2 DEF Queries, Mounted
  <2>2. WebTypes' /\ WebBacked'
    BY <1>1, <1>2, <2>1 DEF WebTypes, WebBacked, DeedIs
  <2>3. \A p \in Queries : ~Hooks[p].polls => Told(p, shelf'[p], V(p), p \in Mounted)
    BY <1>2, <2>1 DEF WebInv
  <2> QED
    BY <1>2, <2>1, <2>2, <2>3 DEF WebInv
\* Nothing changes but the deed, counters, and topics that grow.
<1>3. ASSUME UNCHANGED <<pages, shelf, own, screen>>, topic' \in [DOMAIN topic -> Nat],
             \A t \in DOMAIN topic : topic[t] <= topic'[t],
             deed' # NoData => deed' \in Work([DOMAIN topic -> Nat]),
             DeedIs("done")' => \A t \in DOMAIN topic : deed'.leaves[t] <= topic'[t]
      PROVE  WebInv'
  <2>1. DOMAIN topic' = DOMAIN topic
    BY <1>3
  <2>2. WebTypes'
    BY <1>1, <1>3, <2>1 DEF WebTypes, Queries
  <2>3. WebBacked'
    <3> SUFFICES ASSUME NEW t \in DOMAIN topic
                 PROVE  own'[t] <= topic'[t] /\ (DeedIs("done")' => deed'.leaves[t] <= topic'[t])
      BY <2>1 DEF WebBacked
    <3>1. own[t] \in Nat /\ topic[t] \in Nat /\ topic'[t] \in Nat /\ own[t] <= topic[t]
      BY <1>1, <1>3 DEF WebTypes, WebBacked
    <3> QED
      BY <1>3, <3>1
  <2>4. Mounted' = Mounted /\ Queries' = Queries
    BY <1>3 DEF Mounted, Queries
  <2> QED
    BY <1>3, <2>2, <2>3, <2>4 DEF WebInv
\* A page is shown.
<1>4. ASSUME NEW p \in pages, NEW old, Show(p, old), UNCHANGED <<pages, topic, own, deed>>
      PROVE  WebInv'
  <2> DEFINE Wanted(q) == /\ q \in Shown[p] \cup {"overview"} /\ q \notin Mounted /\ shelf[q].at = "rest"
                          /\ shelf[q].data = NoData \/ shelf[q].stale \/ shelf[q].failed \/ old \/ q = "runList"
  <2>1. /\ screen' = p /\ Queries' = Queries
        /\ \A q \in Queries : shelf'[q] = IF Wanted(q) THEN Asking(shelf[q]) ELSE shelf[q]
        /\ shelf' = [q \in Queries |-> IF Wanted(q) THEN Asking(shelf[q]) ELSE shelf[q]]
    BY <1>4 DEF Show, Queries
  <2>2. \A q \in Mounted' : q \in Shown[p] \cup {"overview"}
    BY <2>1 DEF Mounted
  <2>3. \A q \in Queries : shelf'[q] \in Entry
    BY <1>1, <2>1, AskingTold
  <2>4. WebTypes' /\ WebBacked'
    BY <1>1, <1>4, <2>1, <2>3 DEF WebTypes, WebBacked, DeedIs
  <2>5. ASSUME NEW q \in Queries, ~Hooks[q].polls
        PROVE  Told(q, shelf'[q], V(q), q \in Mounted')
    <3>1. CASE Wanted(q)
      BY <1>1, <2>1, <3>1, AskingTold
    <3>2. CASE ~Wanted(q)
      <4>1. shelf'[q] = shelf[q] /\ Told(q, shelf[q], V(q), q \in Mounted)
        BY <2>1, <2>5, <3>2 DEF WebInv
      <4>2. q \in Mounted' /\ q \notin Mounted /\ shelf[q].at = "rest" =>
              ~shelf[q].stale /\ shelf[q].data # NoData
        BY <2>2, <3>2
      <4> QED
        BY <4>1, <4>2 DEF Told
    <3> QED
      BY <3>1, <3>2
  <2> QED
    BY <1>4, <2>1, <2>4, <2>5 DEF WebInv
<1>5. CASE ServerReads
  <2>1. PICK q \in Queries : /\ shelf[q].at = "asked"
                             /\ shelf' = [shelf EXCEPT ![q].at = "answered", ![q].carries = topic[Hooks[q].about]]
    BY <1>5 DEF ServerReads
  <2> DEFINE e == [shelf[q] EXCEPT !.at = "answered", !.carries = topic[Hooks[q].about]]
  <2>2. e \in Entry /\ shelf' = [shelf EXCEPT ![q] = e]
    BY <1>1, <2>1 DEF Entry, WebTypes
  <2>3. topic[Hooks[q].about] >= V(q)
    BY <1>1 DEF WebTypes, WebBacked
  <2>4. Told(q, e, V(q), q \in Mounted)
    BY <1>1, <2>3 DEF Told, Entry
  <2> QED
    BY <1>2, <1>5, <2>2, <2>4 DEF ServerReads
<1>6. CASE AnswerArrives
  <2>1. PICK q \in Queries : /\ shelf[q].at = "answered"
                             /\ shelf' = [shelf EXCEPT ![q].data = shelf[q].carries, ![q].stale = FALSE, ![q].at = "rest"]
    BY <1>6 DEF AnswerArrives
  <2> DEFINE e == [shelf[q] EXCEPT !.data = shelf[q].carries, !.stale = FALSE, !.at = "rest"]
  <2>2. e \in Entry /\ shelf' = [shelf EXCEPT ![q] = e]
    BY <1>1, <2>1 DEF Entry, WebTypes
  <2>3. ~Hooks[q].polls => Told(q, e, V(q), q \in Mounted)
    BY <1>1, <2>1, WebAssumption DEF Told, Entry, WebInv
  <2> QED
    BY <1>2, <1>6, <2>2, <2>3 DEF AnswerArrives
<1>7. CASE RequestFails
  <2>1. PICK q \in Queries : /\ shelf[q].at # "rest"
                             /\ \/ shelf' = [shelf EXCEPT ![q] = [@ EXCEPT !.at = "asked", !.again = FALSE, !.late = FALSE]]
                                \/ shelf' = [shelf EXCEPT ![q] = [@ EXCEPT !.at = "rest", !.failed = TRUE]]
    BY <1>7 DEF RequestFails
  <2>2. PICK e : /\ e \in {[shelf[q] EXCEPT !.at = "asked", !.again = FALSE, !.late = FALSE],
                            [shelf[q] EXCEPT !.at = "rest", !.failed = TRUE]}
                 /\ shelf' = [shelf EXCEPT ![q] = e]
    BY <2>1
  <2>3. e \in Entry /\ Told(q, e, V(q), q \in Mounted)
    BY <1>1, <2>2 DEF Told, Entry
  <2> QED
    BY <1>2, <1>7, <2>2, <2>3 DEF RequestFails
<1>8. CASE Poll
  <2>1. PICK q \in Mounted : shelf' = [shelf EXCEPT ![q] = Asking(@)]
    BY <1>8 DEF Poll
  <2>2. q \in Queries
    BY <1>1 DEF WebTypes, Mounted
  <2>3. Asking(shelf[q]) \in Entry /\ Told(q, Asking(shelf[q]), V(q), q \in Mounted)
    BY <1>1, <2>2, AskingTold
  <2> QED
    BY <1>2, <1>8, <2>1, <2>2, <2>3 DEF Poll
<1>9. CASE Navigate \/ Login
  BY <1>4, <1>9 DEF Navigate, Login
<1>10. CASE Unauthorized
  <2>1. screen' = "login" /\ Mounted' = {} /\ UNCHANGED <<pages, topic, own>>
    BY <1>10 DEF Unauthorized, Mounted
  <2>2. \/ deed' = NoData /\ UNCHANGED shelf
        \/ /\ \E q \in Queries : /\ shelf[q].at = "asked"
                                 /\ shelf' = [shelf EXCEPT ![q].at = "rest", ![q].failed = TRUE]
           /\ UNCHANGED deed
    BY <1>10 DEF Unauthorized
  <2>3. Queries' = Queries /\ \A q \in Queries : \/ shelf'[q] = shelf[q]
                                                \/ shelf'[q] = [shelf[q] EXCEPT !.at = "rest", !.failed = TRUE]
    BY <1>1, <2>2 DEF Queries, WebTypes
  <2>4. WebTypes' /\ WebBacked'
    <3>1. shelf' \in [Queries -> Entry]
      <4>1. \A q \in Queries : [shelf[q] EXCEPT !.at = "rest", !.failed = TRUE] \in Entry
        BY <1>1 DEF Entry
      <4>2. shelf \in [Queries -> Entry]
        BY <1>1 DEF WebTypes
      <4>3. ASSUME NEW q \in Queries, shelf' = [shelf EXCEPT ![q].at = "rest", ![q].failed = TRUE]
            PROVE  shelf' \in [Queries -> Entry]
        BY <4>1, <4>2, <4>3 DEF Queries
      <4> QED
        BY <2>2, <4>2, <4>3
    <3> QED
      BY <1>1, <2>1, <2>2, <2>3, <3>1 DEF WebTypes, WebBacked, DeedIs
  <2>5. ASSUME NEW q \in Queries, ~Hooks[q].polls
        PROVE  Told(q, shelf'[q], V(q), q \in Mounted')
    <3>1. Told(q, shelf[q], V(q), q \in Mounted) /\ shelf[q] \in Entry
      BY <1>1, <2>5 DEF WebInv
    <3> QED
      BY <2>1, <2>3, <3>1 DEF Told, Entry
  <2> QED
    BY <2>1, <2>3, <2>4, <2>5 DEF WebInv
<1>11. CASE Act
  <2>1. PICK d \in DOMAIN Deeds : deed' = [name |-> d, at |-> "asked", leaves |-> topic]
    BY <1>11 DEF Act
  <2>2. UNCHANGED <<pages, topic, shelf, own, screen>>
    BY <1>11 DEF Act
  <2>3. deed' \in Work([DOMAIN topic -> Nat]) /\ ~DeedIs("done")'
    BY <1>1, <2>1 DEF WebTypes, Work, DeedIs
  <2>4. \A t \in DOMAIN topic : topic[t] \in Nat
    BY <1>1 DEF WebTypes
  <2>5. topic \in [DOMAIN topic -> Nat]
    BY <1>1 DEF WebTypes
  <2> QED
    BY <1>3, <2>2, <2>3, <2>4, <2>5
<1>12. CASE ServerActs
  <2>1. deed # NoData /\ deed \in Work([DOMAIN topic -> Nat]) /\ topic \in [DOMAIN topic -> Nat]
    BY <1>1, <1>12 DEF ServerActs, DeedIs, WebTypes
  <2>2. UNCHANGED <<pages, shelf, own, screen>>
    BY <1>12 DEF ServerActs
  <2>3. \/ /\ topic' = [t \in DOMAIN topic |-> IF t \in Deeds[deed.name].changes THEN topic[t] + 1 ELSE topic[t]]
           /\ deed' = [deed EXCEPT !.at = "done", !.leaves = topic']
        \/ deed' = [deed EXCEPT !.at = "refused"] /\ topic' = topic
    BY <1>12 DEF ServerActs
  <2>4. topic' \in [DOMAIN topic -> Nat] /\ \A t \in DOMAIN topic : topic[t] <= topic'[t]
    BY <2>1, <2>3
  <2>5. deed' \in Work([DOMAIN topic -> Nat])
    BY <2>1, <2>3, <2>4 DEF Work
  <2>6. ASSUME DeedIs("done")', NEW t \in DOMAIN topic
        PROVE  deed'.leaves[t] <= topic'[t]
    <3>1. deed'.at = "done"
      BY <2>6 DEF DeedIs
    <3>2. deed' = [deed EXCEPT !.at = "done", !.leaves = topic']
      BY <2>1, <2>3, <3>1 DEF Work
    <3>3. deed'.leaves = topic' /\ topic'[t] \in Nat
      BY <2>1, <2>4, <3>2 DEF Work
    <3> QED
      BY <3>3
  <2> QED
    BY <1>3, <2>2, <2>4, <2>5, <2>6
<1>13. CASE DeedArrives
  <2> DEFINE d == Deeds[deed.name]
             Handed(q) == deed.name = "refreshAnalysis" /\ q = "analysis"
  <2>1. /\ deed # NoData /\ deed \in Work([DOMAIN topic -> Nat]) /\ topic \in [DOMAIN topic -> Nat]
        /\ own \in [DOMAIN topic -> Nat] /\ \A t \in DOMAIN topic : deed.leaves[t] <= topic[t]
        /\ deed.name \in DOMAIN Deeds /\ deed.leaves \in [DOMAIN topic -> Nat]
    BY <1>1, <1>13 DEF DeedArrives, DeedIs, WebTypes, WebBacked, Work
  <2>2. /\ shelf' = [q \in Queries |-> IF Handed(q)
                       THEN [shelf[q] EXCEPT !.data = deed.leaves["analysis"], !.stale = FALSE]
                       ELSE InvalidatedOf(q, d.keys)]
        /\ own' = [t \in DOMAIN own |-> IF t \in d.changes THEN deed.leaves[t] ELSE own[t]]
        /\ deed' = NoData /\ UNCHANGED <<pages, topic, screen>>
    BY <1>13 DEF DeedArrives
  <2>3. Queries' = Queries /\ Mounted' = Mounted /\ DOMAIN own = DOMAIN topic
    BY <2>1, <2>2 DEF Queries, Mounted
  <2>4. \A q \in Queries : InvalidatedOf(q, d.keys) \in Entry
    <3> TAKE q \in Queries
    <3>1. shelf[q] \in Entry /\ [Asking(shelf[q]) EXCEPT !.stale = TRUE] \in Entry
      BY <1>1, AskingTold
    <3>2. [shelf[q] EXCEPT !.stale = TRUE, !.late = shelf[q].at = "answered"] \in Entry
      BY <3>1 DEF Entry
    <3> QED
      BY <3>1, <3>2 DEF InvalidatedOf
  <2>5. \A q \in Queries : Handed(q) => deed.leaves["analysis"] \in Nat
    <3> SUFFICES ASSUME "analysis" \in Queries, deed.name = "refreshAnalysis"
                 PROVE  deed.leaves["analysis"] \in Nat
      OBVIOUS
    <3>1. Hooks["analysis"].about = "analysis"
      BY DEF Hooks, Joined, NewsHooks, MarketHooks, Hook
    <3> QED
      BY <1>1, <2>1, <3>1
  <2>6. \A q \in Queries : shelf'[q] \in Entry
    <3> TAKE q \in Queries
    <3>1. CASE Handed(q)
      <4>1. shelf'[q] = [shelf[q] EXCEPT !.data = deed.leaves["analysis"], !.stale = FALSE]
        BY <2>2, <3>1
      <4>2. deed.leaves["analysis"] \in Nat /\ shelf[q] \in Entry
        BY <1>1, <2>5, <3>1
      <4> QED
        BY <4>1, <4>2 DEF Entry
    <3>2. CASE ~Handed(q)
      BY <2>2, <2>4, <3>2
    <3> QED
      BY <3>1, <3>2
  <2>7. own' \in [DOMAIN topic -> Nat] /\ \A t \in DOMAIN topic : own'[t] <= topic[t]
    <3>1. \A t \in DOMAIN topic : own'[t] = IF t \in d.changes THEN deed.leaves[t] ELSE own[t]
      BY <2>2, <2>3
    <3>2. \A t \in DOMAIN topic : own[t] <= topic[t] /\ deed.leaves[t] <= topic[t]
      BY <1>1, <2>1 DEF WebBacked
    <3>3. own' \in [DOMAIN topic -> Nat]
      BY <2>1, <2>2, <2>3
    <3> QED
      BY <3>1, <3>2, <3>3
  <2>8. WebTypes' /\ WebBacked'
    <3>1. shelf' \in [Queries -> Entry]
      BY <2>2, <2>6
    <3> QED
      BY <1>1, <2>2, <2>3, <2>7, <3>1 DEF WebTypes, WebBacked, DeedIs
  <2>9. ASSUME NEW q \in Queries, ~Hooks[q].polls
        PROVE  Told(q, shelf'[q], own'[Hooks[q].about], q \in Mounted)
    <3>1. /\ q \in DOMAIN Hooks /\ Hooks[q].about \in DOMAIN topic /\ shelf[q] \in Entry
          /\ Told(q, shelf[q], V(q), q \in Mounted)
      BY <1>1, <2>9 DEF WebInv, WebTypes
    <3>2. ~Handed(q)
      BY <2>9, <3>1, HookTable DEF HookFine
    <3>3. shelf'[q] = InvalidatedOf(q, d.keys)
      BY <2>2, <3>2
    <3>4. Hooks[q].about \notin d.changes => own'[Hooks[q].about] = V(q)
      BY <2>2, <2>3, <3>1
    <3>5. CASE ~Matches(q, d.keys)
      <4>1. Hooks[q].about \notin d.changes
        BY <2>1, <2>9, <3>1, <3>5, Refreshed
      <4> QED
        BY <3>1, <3>3, <3>4, <3>5, <4>1 DEF InvalidatedOf
    <3> DEFINE Anew == q \in Mounted /\ (Unasked(q) \/ shelf[q].data # NoData)
    <3>6. CASE Matches(q, d.keys) /\ Anew
      <4>1. shelf'[q] = [Asking(shelf[q]) EXCEPT !.stale = TRUE]
        BY <3>3, <3>6 DEF InvalidatedOf
      <4>2. shelf'[q].at = "asked"
        BY <3>1, <4>1 DEF Asking, Entry
      <4> QED
        BY <4>2 DEF Told
    <3>7. CASE Matches(q, d.keys) /\ ~Anew
      <4>1. shelf'[q] = [shelf[q] EXCEPT !.stale = TRUE, !.late = shelf[q].at = "answered"]
        BY <3>3, <3>7 DEF InvalidatedOf
      <4>2. q \notin Mounted \/ shelf[q].at # "rest"
        BY <3>7 DEF Unasked
      <4> QED
        BY <3>1, <4>1, <4>2 DEF Told, Entry
    <3> QED
      BY <3>5, <3>6, <3>7
  <2> QED
    BY <2>2, <2>3, <2>8, <2>9 DEF WebInv
<1>14. CASE DeedFails \/ UNCHANGED webVars
  <2>1. UNCHANGED <<pages, topic, shelf, own, screen>> /\ (deed' = NoData \/ deed' = deed)
    BY <1>14 DEF DeedFails, webVars
  <2>2. topic \in [DOMAIN topic -> Nat] /\ \A t \in DOMAIN topic : topic[t] \in Nat
    BY <1>1 DEF WebTypes
  <2> QED
    BY <1>1, <1>3, <2>1, <2>2 DEF WebTypes, WebBacked, DeedIs
<1>15. CASE OthersAct
  <2>1. PICK t \in DOMAIN topic : topic' = [topic EXCEPT ![t] = @ + 1]
    BY <1>15 DEF OthersAct
  <2>2. UNCHANGED <<pages, shelf, own, screen, deed>>
    BY <1>15 DEF OthersAct
  <2>3. topic' \in [DOMAIN topic -> Nat] /\ \A u \in DOMAIN topic : topic[u] \in Nat /\ topic[u] <= topic'[u]
    BY <1>1, <2>1 DEF WebTypes
  <2>4. deed' # NoData => deed' \in Work([DOMAIN topic -> Nat])
    BY <1>1, <2>2 DEF WebTypes
  <2>5. ASSUME DeedIs("done")', NEW u \in DOMAIN topic
        PROVE  deed'.leaves[u] <= topic'[u]
    <3>1. DeedIs("done") /\ deed # NoData
      BY <2>2, <2>5 DEF DeedIs
    <3>2. deed.leaves[u] <= topic[u] /\ deed.leaves[u] \in Nat
      BY <1>1, <3>1 DEF WebTypes, WebBacked, Work
    <3> QED
      BY <2>2, <2>3, <3>2
  <2> QED
    BY <1>3, <2>2, <2>3, <2>4, <2>5
<1> QED
  BY <1>5, <1>6, <1>7, <1>8, <1>9, <1>10, <1>11, <1>12, <1>13, <1>14, <1>15 DEF WebNext

-----------------------------------------------------------------------------
(* Every part follows its own specification.                                *)

LEMMA PartsInit == Init => HubInit /\ ChatInit /\ FormInit /\ ConfigInit /\ NewsInit
BY DEF Init, HubIdle, FormIdle, ConfigIdle, NewsIdle

LEMMA PartsStep ==
  [Next]_vars => /\ [HubNext]_hubVars /\ [ChatNext]_chatVars /\ [FormNext]_formVars
                 /\ [ConfigNext]_configVars /\ [NewsNext]_newsVars
BY DEF Next, Lab, Pages, Rooms, vars, labVars, pageVars, roomVars

\* However the updates, the tick and the boot interleave, and whatever is sent, the row of
\* the configuration holds a leverage and a ratio an order can be sized with, and no
\* caller fails because another inserted the row first.
THEOREM RowStaysUsable == Spec => []UsableRow
<1>1. Init => RowInv
  BY PartsInit, RowInit
<1>2. RowInv /\ [Next]_vars => RowInv'
  BY PartsStep, RowStep
<1>3. RowInv => UsableRow
  BY DEF RowInv, UsableRow, Usable
<1> QED
  BY <1>1, <1>2, <1>3, PTL DEF Spec

\* Overlapping rounds of the news announce an item once for every time it was stored, and a
\* calendar that was shown is never replaced by an empty one.
THEOREM NewsStaySound == Spec => NewsIsSound
<1>1. Init => NewsInv
  BY PartsInit DEF NewsInit, NewsInv, NewsOnce
<1>2. NewsInv /\ [Next]_vars => NewsInv'
  BY PartsStep, NewsStep
<1>3. NewsInv => NewsOnce
  BY DEF NewsInv
<1>4. [Next]_vars => [weeks # {} => weeks' # {}]_newsVars
  BY PartsStep, WeeksStay
<1> QED
  BY <1>1, <1>2, <1>3, <1>4, PTL DEF Spec, NewsIsSound, CalendarKept

\* What the file of a strategy lists rests on an override somebody answered for, or on a
\* passing sweep and a passing research run that were fresh when it was judged, however
\* listings, scans, failed writes and crashes overlap.
THEOREM ListingWasJudged == Spec => []ListedWasJudged
<1>1. Init => HubInv
  BY PartsInit, HubInitially
<1>2. HubInv /\ [Next]_vars => HubInv'
  BY PartsStep, HubStep
<1>3. HubInv => ListedWasJudged
  BY DEF HubInv, FileOK, Good, IsFresh, ListedWasJudged
<1> QED
  BY <1>1, <1>2, <1>3, PTL DEF Spec

\* Whatever is delivered twice, confirmed again or lost in a restart, a write action that the
\* model asked for is executed at most once, for a confirmation that was handled after its
\* question with no cancellation in between.
THEOREM DoneAsConfirmed == Spec => []ConfirmedOnce
<1>1. Init => ChatInv
  BY PartsInit, ChatInitially
<1>2. ChatInv /\ [Next]_vars => ChatInv'
  BY PartsStep, ChatStep
<1>3. ChatInv => ConfirmedOnce
  BY DEF ChatInv, DoneOK, Sound, ConfirmedOnce
<1> QED
  BY <1>1, <1>2, <1>3, PTL DEF Spec

\* The mode goes live only by a save whose user agreed to real money, and a listing that
\* overrides the gate carries the reason typed for that strategy, however the edits, the
\* answers, the lost requests and the other admin interleave.
THEOREM ConsentKept == Spec => ConsentHolds
<1>1. Init => FormInv
  BY PartsInit, FormInitially
<1>2. FormInv /\ [Next]_vars => FormInv'
  BY PartsStep, FormStep
<1>3. FormInv => OverrideHasOwnReason
  BY DEF FormInv, Agreed, OverrideHasOwnReason
<1>4. FormInv /\ [Next]_vars =>
        [(server.mode # "live" /\ server'.mode = "live") =>
            \E i \in DOMAIN posts : posts[i].at = "asked" /\ posts'[i].at = "answered"
                                      /\ posts[i].c.call = "save" /\ posts[i].c.agreed]_formVars
  BY PartsStep, LiveStep
<1> QED
  BY <1>1, <1>2, <1>3, <1>4, PTL DEF Spec, ConsentHolds, LiveIsAgreed

\* What this browser changed shows on its pages: a query on screen at rest that has no timer and did
\* not fail shows the version of its last successful change, or a newer one, however navigations,
\* timers, failures, expired tokens and the changes of others interleave - unless its answer was under
\* way when that change succeeded and was not asked anew, off screen or during the first load.
THEOREM OwnWorkShows == Spec => []OwnChangeShows
<1>1. Init => WebInv
  BY WebInitially DEF Init
<1>2. WebInv /\ [Next]_vars => WebInv'
  <2>1. [Next]_vars => [WebNext]_webVars
    BY DEF Next, Lab, Pages, Rooms, vars, pageVars, labVars, roomVars, webVars
  <2> QED
    BY <2>1, WebStep
<1>3. WebInv => OwnChangeShows
  <2> SUFFICES ASSUME WebInv, NEW q \in Mounted, shelf[q].at = "rest", ~Hooks[q].polls,
                      ~shelf[q].failed, ~shelf[q].late
               PROVE  shelf[q].data # NoData /\ shelf[q].data >= own[Hooks[q].about]
    BY DEF OwnChangeShows
  <2>1. q \in Queries
    BY DEF WebInv, WebTypes, Mounted
  <2> QED
    BY <2>1 DEF WebInv, Told
<1> QED
  BY <1>1, <1>2, <1>3, PTL DEF Spec
=============================================================================
