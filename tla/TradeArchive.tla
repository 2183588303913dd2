---------------------------- MODULE TradeArchive ----------------------------
(***************************************************************************)
(* The trade archive of one instance of martingale_grid_v2: the event      *)
(* lines trade-record.service.ts appends to one file per slug and day, the *)
(* exit traces of the strategy, and the analysis of a day that             *)
(* analysis/trade-analyzer.ts makes of them and of the lots in the         *)
(* database.  A unit of time is a hundred seconds.  Prices, fees and       *)
(* results are integers; a rate times a notional is its amount.            *)
(***************************************************************************)
EXTENDS Integers, Sequences, FiniteSets, SequencesExt, FiniteSetsExt, TLC

CONSTANTS MaxHour,          \* bound on time
          DayLength,       \* the length of a day
          MaxLots,         \* bound on the lots
          MaxOpenings,     \* bound on those opened while the program runs
          MaxWatched,      \* bound on the lots while time passes and exits are judged
          MaxTraces,       \* bound on the judgements
          MaxLostLines,       \* bound on the appends that fail
          MaxLag,          \* bound on the lines that wait
          MaxSettlements,  \* bound on the settlements
          MaxJobs,         \* bound on the openings and settlements under way
          EntryPrice,      \* the price at which each lot is opened
          ExitPrices,      \* the prices of a fill that closes
          ExitReasons,     \* why a lot is closed
          TripFee,             \* the fee of a fill
          Nets,            \* the net results a judgement may see
          Bases,           \* how far the last price is ahead of the mark price
          Trails,          \* <<amount to the arming line, amount to the giveback>>
          TakeProfitUsdt,  \* basketTakeProfitUsdt
          StopLossUsdt,    \* basketStopLossUsdt
          SampleEvery,     \* an unchanged judgement is traced every so often
          NoTracer              \* no basket, no reason

ASSUME ArchiveAssumption ==
    /\ {MaxHour, MaxLots, MaxOpenings, MaxWatched, MaxTraces, MaxLostLines, MaxSettlements, MaxJobs, TripFee} \subseteq Nat
    /\ {MaxLag, DayLength, TakeProfitUsdt, StopLossUsdt, SampleEvery} \subseteq Nat \ {0}
    /\ EntryPrice \in [1 .. MaxLots -> Nat \ {0}] /\ ExitPrices \subseteq Nat \ {0}
    /\ Nets \subseteq Int /\ Bases \subseteq Int
    /\ Trails \subseteq Int \X Int

VARIABLES hour,       \* the clock
          lots,      \* the lots of the database, oldest first
          openBaskets, \* the baskets that are open, by the lot that made them
          jobs,        \* the openings and settlements under way
          backlog,     \* the lines waiting to be appended
          files,     \* the file of each slug and day
          tracer,    \* traceTick and traceSig of the instance
          lostLines, traces   \* how many there were

accountVars == <<lots, openBaskets, jobs>>

archiveVars == <<hour, accountVars, backlog, files, tracer, lostLines, traces>>

Day(t) == t \div DayLength

Days == 0 .. Day(MaxHour)

Slugs == {"instance", "_platform"}

\* Lots of the instance have its slug, lots opened by hand the platform's.
SlugOf(own) == IF own THEN "instance" ELSE "_platform"

Amount(f(_), s) == FoldLeft(LAMBDA sum, x : sum + f(x), 0, s)

----------------------------------------------------------------------------
(* The lines, and the queue that appends them one after the other.         *)

Stamped(line) == [k \in DOMAIN line \cup {"ts"} |-> IF k = "ts" THEN hour ELSE line[k]]
Event(own, line) == [file |-> <<SlugOf(own), Day(hour)>>, line |-> Stamped(line)]

AppendLine ==
    /\ backlog # <<>>
    /\ backlog' = Tail(backlog)
    /\ files' = [files EXCEPT ![Head(backlog).file] = Append(@, Head(backlog).line)]
    /\ UNCHANGED <<hour, accountVars, tracer, lostLines, traces>>

\* A line that cannot be written is gone; the next one is tried all the same.
AppendFails ==
    /\ backlog # <<>> /\ lostLines < MaxLostLines
    /\ backlog' = Tail(backlog) /\ lostLines' = lostLines + 1
    /\ UNCHANGED <<hour, accountVars, files, tracer, traces>>

\* Bound: the hours pass, and exits are judged, while few lots are there and no opening or
\* settlement is under way; lines may still wait.
AtRest == Len(lots) <= MaxWatched /\ \A k \in 1 .. MaxJobs : jobs[k] = NoTracer

Pass == hour < MaxHour /\ AtRest /\ hour' = hour + 1
        /\ UNCHANGED <<accountVars, backlog, files, tracer, lostLines, traces>>

----------------------------------------------------------------------------
(* A lot is opened and settled in steps, between which others take theirs: *)
(* whoever writes a row writes what it has read of it.                     *)

IsOpen(l) == l.open

Running(k, step) == jobs[k] # NoTracer /\ jobs[k].step = step

Goes(k, job) == jobs' = [jobs EXCEPT ![k] = job]

Free == LET idle == {k \in 1 .. MaxJobs : jobs[k] = NoTracer} IN IF idle = {} THEN {} ELSE {Min(idle)}

Job(type, i, step) ==
    [type |-> type, lot |-> i, step |-> step, code |-> NoTracer, exit |-> NoTracer,
     reason |-> NoTracer, wasOpen |-> FALSE, layers |-> <<>>]

\* `settled` counts the settlements of a lot, and lines say which lots they are about, for
\* the properties only.
Row(i, own, at, code) ==
    [id |-> i, own |-> own, open |-> TRUE, entry |-> EntryPrice[i], at |-> at, code |-> code,
     out |-> NoTracer, exit |-> NoTracer, reason |-> NoTracer, settled |-> 0]

OpenLot ==
    /\ Len(lots) < MaxLots /\ traces = 0 /\ Cardinality({i \in DOMAIN lots : lots[i].at >= 0}) < MaxOpenings
    /\ \E k \in Free, own \in BOOLEAN :
          /\ lots' = Append(lots, Row(Len(lots) + 1, own, hour, NoTracer))
          /\ Goes(k, Job("LOT_OPEN", Len(lots) + 1, "attach"))
    /\ UNCHANGED <<hour, openBaskets, backlog, files, tracer, lostLines, traces>>

\* The newest open basket of the owner, or a new one.  The row is saved as it was inserted:
\* open.
AttachLot(k) ==
    LET i == jobs[k].lot
        mine == {c \in openBaskets : lots[c].own = lots[i].own}
        code == IF mine = {} THEN i ELSE Max(mine)
    IN  /\ Running(k, "attach")
        /\ openBaskets' = openBaskets \cup {code}
        /\ lots' = [lots EXCEPT ![i].code = code, ![i].open = TRUE]
        /\ Goes(k, [jobs[k] EXCEPT !.step = "basket", !.code = code])
        /\ UNCHANGED <<hour, backlog, files, tracer, lostLines, traces>>

Settlements ==
    Cardinality({k \in 1 .. MaxJobs : Running(k, "close")}) + FoldLeft(LAMBDA n, l : n + l.settled, 0, lots)

SettleLot ==
    /\ Settlements < MaxSettlements
    /\ \E k \in Free, i \in 1 .. Len(lots), price \in ExitPrices, why \in ExitReasons :
          /\ IsOpen(lots[i])
          /\ Goes(k, [Job("LOT_SETTLE", i, "close") EXCEPT
                         !.code = lots[i].code, !.exit = price, !.reason = why])
    /\ UNCHANGED <<hour, lots, openBaskets, backlog, files, tracer, lostLines, traces>>

\* A settlement that read its lot before it was attached takes the basket from it.
CloseLot(k) ==
    LET j == jobs[k] IN
    /\ Running(k, "close")
    /\ lots' = [lots EXCEPT ![j.lot] = [@ EXCEPT !.open = FALSE, !.out = hour, !.exit = j.exit,
                               !.reason = j.reason, !.code = j.code, !.settled = @ + 1]]
    /\ Goes(k, [j EXCEPT !.step = IF j.code = NoTracer THEN "tell" ELSE "basket"])
    /\ UNCHANGED <<hour, openBaskets, backlog, files, tracer, lostLines, traces>>

ReadBasket(k) ==
    /\ Running(k, "basket")
    /\ Goes(k, [jobs[k] EXCEPT !.step = "layers", !.wasOpen = jobs[k].code \in openBaskets])
    /\ UNCHANGED <<hour, lots, openBaskets, backlog, files, tracer, lostLines, traces>>

LayersOf(code, ls) == SelectSeq(ls, LAMBDA l : l.code = code)

ReadLayers(k) ==
    LET layers == LayersOf(jobs[k].code, lots) IN
    /\ Running(k, "layers")
    /\ Goes(k, [jobs[k] EXCEPT !.step = IF layers = <<>> THEN "tell" ELSE "save", !.layers = layers])
    /\ UNCHANGED <<hour, lots, openBaskets, backlog, files, tracer, lostLines, traces>>

Pnl(l) == l.exit - l.entry - 2 * TripFee

\* The basket is closed once none of the layers read is open, and announced by whoever
\* read it open before.
SaveBasket(k) ==
    LET j == jobs[k]
        done == \A i \in DOMAIN j.layers : ~IsOpen(j.layers[i])
        round == [type |-> "BASKET", code |-> j.code, layers |-> Len(j.layers),
                  pnl |-> Amount(Pnl, j.layers), lots |-> {j.layers[i].id : i \in DOMAIN j.layers}]
    IN  /\ Running(k, "save") /\ Len(backlog) < MaxLag
        /\ openBaskets' = IF j.wasOpen /\ ~done THEN openBaskets \cup {j.code} ELSE openBaskets \ {j.code}
        /\ backlog' = IF j.wasOpen /\ done THEN Append(backlog, Event(lots[j.code].own, round)) ELSE backlog
        /\ Goes(k, [j EXCEPT !.step = "tell", !.wasOpen = FALSE, !.layers = <<>>])
        /\ UNCHANGED <<hour, lots, files, tracer, lostLines, traces>>

LineOf(j, l) ==
    IF j.type = "LOT_OPEN" THEN [type |-> j.type]
    ELSE [type |-> j.type, entry |-> l.entry, exit |-> j.exit, reason |-> j.reason, code |-> j.code,
          pnl |-> Pnl([exit |-> j.exit, entry |-> l.entry]), lots |-> {l.id}]

TellLot(k) ==
    LET l == lots[jobs[k].lot] IN
    /\ Running(k, "tell") /\ Len(backlog) < MaxLag
    /\ backlog' = Append(backlog, Event(l.own, LineOf(jobs[k], l)))
    /\ Goes(k, NoTracer)
    /\ UNCHANGED <<hour, lots, openBaskets, files, tracer, lostLines, traces>>

JobStep(k) ==
    \/ AttachLot(k) \/ CloseLot(k) \/ ReadBasket(k) \/ ReadLayers(k)
    \/ SaveBasket(k) \/ TellLot(k)

----------------------------------------------------------------------------
(* The exit judgement of the strategy and what it traces.                  *)

ReasonOf(net) == CASE net <= -StopLossUsdt  -> "STOP_LOSS"
                   [] net >= TakeProfitUsdt -> "TAKE_PROFIT"
                   [] OTHER                 -> NoTracer

\* What each rule still lacks.
Snapshot(net, basis, trail, inflight, cooling) ==
    [notExit |-> "NO_RULE_HIT", net |-> net, netAtLast |-> net + basis, exitFee |-> TripFee,
     tp |-> [thr |-> TakeProfitUsdt, gap |-> TakeProfitUsdt - net],
     sl |-> [thr |-> -StopLossUsdt, gap |-> net + StopLossUsdt],
     toArm |-> trail[1], toGiveback |-> trail[2], inflight |-> inflight, cooling |-> cooling]

\* A judgement that is the same as the last one traced is skipped, but for one in SampleEvery.
EmitExitTrace(key, armed, snap) ==
    LET tick == tracer.tick + 1
        sig == <<key, snap.net, armed>>
        skip == sig = tracer.sig /\ tick % SampleEvery # 0
    IN
    /\ tracer' = [tick |-> tick % SampleEvery, sig |-> sig]
    /\ backlog' = IF skip THEN backlog
                ELSE Append(backlog, Event(TRUE, snap @@ [type |-> "EXIT_TRACE"]))

CheckBasketExit ==
    /\ Len(backlog) < MaxLag /\ traces < MaxTraces /\ traces' = traces + 1
    /\ AtRest /\ \E i \in 1 .. Len(lots) : lots[i].own /\ IsOpen(lots[i])
    /\ \E net \in Nets, basis \in Bases, trail \in Trails, inflight, cooling, cancelled \in BOOLEAN :
          LET reason == ReasonOf(net) armed == trail[1] <= 0 IN
          CASE reason = NoTracer ->
                 EmitExitTrace(<<"NO_RULE_HIT", inflight>>, armed,
                               Snapshot(net, basis, trail, inflight, cooling))
            [] reason # NoTracer /\ inflight ->
                 EmitExitTrace(<<"INFIGHT_BACKOFF", inflight>>, armed,
                               [notExit |-> "INFIGHT_BACKOFF", exit |-> reason, net |-> net])
            [] reason # NoTracer /\ ~inflight /\ ~cancelled ->
                 EmitExitTrace(<<"CANCEL_FAIL">>, armed,
                               [notExit |-> "CANCEL_FAIL", exit |-> reason, net |-> net])
            [] OTHER -> EmitExitTrace(<<"EXIT", reason>>, armed, [exit |-> reason, net |-> net])
    /\ UNCHANGED <<hour, accountVars, files, lostLines>>

\* The lots opened the day before are in one basket.
ArchiveInit ==
    /\ \E n \in 0 .. MaxLots, own \in BOOLEAN :
          /\ lots = [i \in 1 .. n |-> Row(i, own, -1, 1)]
          /\ openBaskets = IF n = 0 THEN {} ELSE {1}
    /\ hour = 0 /\ backlog = <<>> /\ lostLines = 0 /\ traces = 0
    /\ jobs = [k \in 1 .. MaxJobs |-> NoTracer]
    /\ files = [f \in Slugs \X Days |-> <<>>]
    /\ tracer = [tick |-> 0, sig |-> NoTracer]

ArchiveNext ==
    \/ AppendLine \/ AppendFails \/ Pass \/ OpenLot \/ SettleLot \/ CheckBasketExit
    \/ \E k \in 1 .. MaxJobs : JobStep(k)

ArchiveSpec == ArchiveInit /\ [][ArchiveNext]_archiveVars

----------------------------------------------------------------------------
(* The analysis of a day.                                                  *)

\* The lines of the instance and of the platform, by time.
LoadEvents(day) ==
    LET both == files[<<"instance", day>>] \o files[<<"_platform", day>>]
        at(t) == SelectSeq(both, LAMBDA e : e.ts = t)
    IN  FlattenSeq([t \in 1 .. MaxHour + 1 |-> at(t - 1)])

OfType(type, events) == SelectSeq(events, LAMBDA e : e.type = type)

\* The lots of the instance whose life is within a day of the day analysed.
OpenLots(day) ==
    SelectSeq(lots, LAMBDA l : /\ l.own /\ Day(l.at) >= day - 1
                               /\ l.out = NoTracer \/ Day(l.out) <= day + 1)

\* The lot that was opened when the line was written, the nearest and oldest of several:
\* 0 when none was.
MatchOpenLot(line, known) ==
    LET far == [i \in DOMAIN known |->
                   IF known[i].at > line.ts THEN known[i].at - line.ts ELSE line.ts - known[i].at]
        near == {i \in DOMAIN known : far[i] <= 1}
    IN  IF near = {} THEN 0
        ELSE CHOOSE i \in near : \A j \in near : far[i] < far[j] \/ (far[i] = far[j] /\ i <= j)

FeeActual(lines, known) ==
    Amount(LAMBDA s : LET i == MatchOpenLot(s, known) IN
                      IF i = 0 THEN 0 ELSE IF known[i].out = NoTracer THEN TripFee ELSE 2 * TripFee, lines)

\* An exit that was judged and carried out, and the settlements that follow it.
SegExits(events) == SelectSeq(OfType("EXIT_TRACE", events), LAMBDA e : "notExit" \notin DOMAIN e)

SettledAfter(exit, events) ==
    SelectSeq(OfType("LOT_SETTLE", events), LAMBDA s : s.ts >= exit.ts /\ s.ts - exit.ts < 2)

LinesOf(code, events) == SelectSeq(OfType("LOT_SETTLE", events), LAMBDA s : s.code = code)

BuildBasket(code, round, events, known) ==
    LET lines == LinesOf(code, events) IN
    [code |-> code, fees |-> FeeActual(lines, known),
     layers |-> IF round = NoTracer THEN Len(lines) ELSE round.layers,
     pnl |-> IF round = NoTracer THEN Amount(LAMBDA s : s.pnl, lines) ELSE round.pnl,
     reason |-> IF lines = <<>> THEN NoTracer ELSE lines[1].reason]

\* Mutant: the lots of a basket that has a line are put together once more.
RoundsTwice(events, known) ==
    LET rounds == OfType("BASKET", events)
        rest == SelectSeq(OfType("LOT_SETTLE", events), LAMBDA s : s.code # NoTracer)
        codes == FoldLeft(LAMBDA cs, s : IF Contains(cs, s.code) THEN cs ELSE Append(cs, s.code),
                          <<>>, rest)
        rows == [i \in DOMAIN rounds |-> <<rounds[i].code, rounds[i]>>]
                \o [i \in DOMAIN codes |-> <<codes[i], NoTracer>>]
    IN  [i \in DOMAIN rows |-> BuildBasket(rows[i][1], rows[i][2], events, known)]

\* A round for every line of a basket; the lots whose basket has no line are put together
\* by its code.
Rounds(events, known) ==
    LET rounds == OfType("BASKET", events)
        seen == {rounds[i].code : i \in 1 .. Len(rounds)}
        settled == OfType("LOT_SETTLE", events)
        rest == SelectSeq(settled, LAMBDA s : s.code # NoTracer /\ s.code \notin seen)
        codes == FoldLeft(LAMBDA cs, s : IF Contains(cs, s.code) THEN cs ELSE Append(cs, s.code),
                          <<>>, rest)
        rows == [i \in DOMAIN rounds |-> <<rounds[i].code, rounds[i]>>]
                \o [i \in DOMAIN codes |-> <<codes[i], NoTracer>>]
    IN  [i \in DOMAIN rows |-> BuildBasket(rows[i][1], rows[i][2], events, known)]

AtLeast0(v) == IF v > 0 THEN v ELSE 0

Least(a, b) == IF a < b THEN a ELSE b

\* The parts of what the take profit lacks.
DecomposeGap(e) ==
    LET gap == e.tp.gap
        fee == AtLeast0(Least(gap, e.exitFee))
        basis == Least(AtLeast0(gap - fee), AtLeast0(e.netAtLast - e.net))
        arm == AtLeast0(e.toArm)
        giveback == AtLeast0(e.toGiveback)
        gated == e.inflight \/ e.cooling
        explained == IF gated THEN 0 ELSE fee + basis + arm + giveback
    IN  [total |-> gap, basis |-> basis, exitFee |-> fee, trailNotArmed |-> arm,
         trailNoRetrace |-> giveback, backoffOrCooldown |-> IF gated THEN gap ELSE 0,
         unattributed |-> AtLeast0(gap - explained)]

\* The gate first, then the largest part, the earlier of equals.
ClassifyMiss(e, d) ==
    LET parts == <<"basis", "exitFee", "trailNotArmed", "trailNoRetrace", "unattributed">>
        best == {i \in 1 .. Len(parts) :
                    /\ d[parts[i]] > 0
                    /\ \A j \in 1 .. Len(parts) : d[parts[j]] < d[parts[i]]
                                               \/ (d[parts[j]] = d[parts[i]] /\ i <= j)}
    IN  CASE e.inflight \/ e.cooling -> "backoffOrCooldown"
          [] OTHER -> IF best = {} THEN "NONE" ELSE parts[CHOOSE i \in best : TRUE]

\* The judgements in which the last price had crossed the line and the mark price had not.
BasisEvents(events) ==
    LET quiet == SelectSeq(OfType("EXIT_TRACE", events),
                           LAMBDA e : "notExit" \in DOMAIN e /\ e.notExit = "NO_RULE_HIT")
        missed(e) == SelectSeq(<<"TP", "SL">>, LAMBDA rule :
                         IF rule = "TP" THEN e.netAtLast >= e.tp.thr /\ e.net < e.tp.thr
                         ELSE e.netAtLast <= e.sl.thr /\ e.net > e.sl.thr)
        missOf(e, rule, d) ==
            [ts |-> e.ts, rule |-> rule, decomp |-> d, head |-> ClassifyMiss(e, d),
             gap |-> IF rule = "TP" THEN e.tp.thr - e.net ELSE e.net - e.sl.thr]
        misses(e, d) == [k \in DOMAIN missed(e) |-> missOf(e, missed(e)[k], d)]
        parts == [i \in DOMAIN quiet |-> DecomposeGap(quiet[i])]
    IN  FlattenSeq([i \in DOMAIN quiet |-> misses(quiet[i], parts[i])])

\* What the candles of the next ten minutes say of a miss.
Verdict(miss, crossed, events) ==
    LET exited == \E exit \in ToSet(SegExits(events)) : exit.ts > miss.ts /\ exit.ts - miss.ts < 6
    IN  IF crossed /\ ~exited THEN "suspect" ELSE IF crossed THEN "late" ELSE "right"

\* The report of a day; `crossed` says whether the market went on beyond the line.
Analyze(day, crossed) ==
    LET events == LoadEvents(day)
        known == OpenLots(day)
        rounds == Rounds(events, known)
        misses == BasisEvents(events)
        count(why) == Len(SelectSeq(rounds, LAMBDA r : r.reason = why))
    IN  [settled |-> OfType("LOT_SETTLE", events), rounds |-> rounds, misses |-> misses,
         pnlSum |-> Amount(LAMBDA r : r.pnl, rounds),
         tp |-> count("TAKE_PROFIT"), sl |-> count("STOP_LOSS"),
         fees |-> FeeActual(OfType("LOT_SETTLE", events), known),
         slips |-> LET exits == SegExits(events) IN
                   [i \in DOMAIN exits |-> Len(SettledAfter(exits[i], events))],
         audit |-> [i \in DOMAIN misses |-> Verdict(misses[i], crossed, events)]]

----------------------------------------------------------------------------
\* A day without a line has nothing to tell.
DaysOnFile == {day \in Days : \E slug \in Slugs : files[<<slug, day>>] # <<>>}

\* The rounds of a day add up to what its settlements say, whatever lines were lost, however
\* late they were written and whichever lot lost its basket; but the settlements of a basket
\* count as often as it was announced, twice when two of them recomputed it at once.  Left
\* out are days on which a basket is announced whose lots have not one line each on that day
\* (lines that were lost, or are in the file of another day), and lots that were settled twice.
RoundsAddUp ==
    \A day \in DaysOnFile :
        LET report == Analyze(day, FALSE)
            told == OfType("BASKET", LoadEvents(day))
            times(code) == Len(SelectSeq(told, LAMBDA b : b.code = code))
            whole(b) == LET of == SelectSeq(report.settled, LAMBDA s : s.code = b.code) IN
                        /\ Len(of) = Cardinality(b.lots)
                        /\ \A i \in DOMAIN of : of[i].lots \subseteq b.lots
            coded == SelectSeq(report.settled, LAMBDA s : s.code # NoTracer)
            counted(s) == s.pnl * (IF times(s.code) = 0 THEN 1 ELSE times(s.code))
        IN  (/\ \A i \in DOMAIN told : whole(told[i])
             /\ \A i \in DOMAIN lots : lots[i].settled < 2) =>
                report.pnlSum = Amount(counted, coded)

\* A missed take profit is explained to the last of it, by the fee of the exit and by the
\* distance of the two prices, as long as no gate held the exit back and no trail was in the
\* way.
MissIsExplained ==
    \A day \in DaysOnFile :
        LET misses == BasisEvents(LoadEvents(day)) IN
        \A i \in DOMAIN misses :
            LET d == misses[i].decomp IN
            (misses[i].rule = "TP" /\ d.backoffOrCooldown = 0 /\ d.trailNotArmed = 0 /\ d.trailNoRetrace = 0) =>
                /\ d.basis + d.exitFee = misses[i].gap /\ d.unattributed = 0
                /\ misses[i].head \in {"basis", "exitFee"}

\* A file is in the order in which its events happened, however slow its disk.
FilesInOrder ==
    \A f \in DOMAIN files : \A i, j \in DOMAIN files[f] : i < j => files[f][i].ts <= files[f][j].ts

\* What the analysis of a day reads is in order, and what it says of it adds up.
ArchiveTellsTruth == RoundsAddUp /\ MissIsExplained /\ FilesInOrder
=============================================================================
