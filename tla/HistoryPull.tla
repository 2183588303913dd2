---------------------------- MODULE HistoryPull ----------------------------
(***************************************************************************)
(* How the history of a symbol reaches the database and a back-test: the   *)
(* paged pulls of pull/history-pull.ts, the archive downloads of           *)
(* pull/archive-download.ts and pull/klines-archive.ts, the candles of     *)
(* historical-feed.ts and the events of event-driven/events-feed.ts.  A    *)
(* behaviour is about one table; a row is its number and its time, and     *)
(* only trades may share a time.  Time passes, and with it rows appear at  *)
(* the exchange.  Every page, every file of the archive and every failure  *)
(* is a step, and a pull may be run again.                                 *)
(***************************************************************************)
EXTENDS Integers, Sequences, FiniteSets, SequencesExt, FiniteSetsExt

CONSTANTS LastTime,    \* bound on time
          MaxRows,     \* bound on the rows the exchange has
          PageLimit,   \* rows per page
          Chunk,       \* the time slice of the trades pull
          MaxPages,    \* the pages it reads of a slice at most
          FileSpan,    \* the time one file of the archive covers
          MaxFiles,    \* how many files one call reads at most
          Horizon,     \* how far back the exchange gives the open interest
          MinCoverage, \* per cent of the settlements the check asks for
          MaxPulls,    \* bound on the calls
          Nil          \* no call, no report, no cached file

ASSUME PullAssumption ==
    /\ {LastTime, MaxRows, Horizon, MaxPulls} \subseteq Nat
    /\ {PageLimit, Chunk, MaxPages, FileSpan, MaxFiles} \subseteq Nat \ {0}
    /\ MinCoverage \in 0 .. 100

VARIABLES table,       \* funding, interest, trades or candles
          today,         \* the time
          truth,       \* the rows the exchange has when it is over
          published,   \* the files of the archive that are online
          db,          \* the rows stored
          pull,        \* the call under way
          pulls,       \* how many there were
          report,      \* what the last call that returned says
          fetched      \* the candles of a range cached on disk

pullVars == <<table, today, truth, published, db, pull, pulls, report, fetched>>

In(rows, from, to) == {r \in rows : r.t >= from /\ r.t <= to}

Before(r, s) == r.t < s.t \/ (r.t = s.t /\ r.id < s.id)

\* The oldest rows of an interval, as many as fit in a page.
Page(rows, from, to) ==
    {r \in In(rows, from, to) : Cardinality({s \in In(rows, from, to) : Before(s, r)}) < PageLimit}

\* What the exchange can tell of an interval ends with the present.
Reach(t) == IF t < today THEN t ELSE today

LastOf(rows) == Max({r.t : r \in rows})

File(t) == t \div FileSpan

Files(from, to) == {f \in File(from) .. File(to) : f < File(from) + MaxFiles}

----------------------------------------------------------------------------
(* A call is asked for the rows of [from, to]; it logs the files that are  *)
(* not online and reports those that failed.                               *)

Calls == CASE table = "trades"  -> {"api", "archive", "events"}
           [] table = "candles" -> {"archive", "backtest"}
           [] OTHER             -> {"api"}

\* Open interest older than the horizon is out of reach.
StartOf(from) == IF table = "interest" /\ from < today - Horizon THEN today - Horizon ELSE from

Begin ==
    /\ pull = Nil /\ pulls < MaxPulls
    /\ \E how \in Calls, from \in 0 .. 1, to \in (LastTime - 1) .. LastTime :
          /\ pull' = [how |-> how, from |-> StartOf(from), to |-> to, at |-> StartOf(from),
                      piece |-> StartOf(from), pages |-> 0, asOf |-> today,
                      got |-> {}, failed |-> {}, offline |-> {}, ok |-> TRUE]
          /\ pulls' = pulls + 1
          /\ report' = Nil
    /\ UNCHANGED <<table, today, truth, published, db, fetched>>

Return(p) == pull' = Nil /\ report' = p

\* The instants from..to, one settlement of the funding in each.
FundingSlots(from, to) == IF to < from THEN 0 ELSE to - from + 1

\* What the check of the data says of the rows a pull leaves behind: nearly all of the
\* settlements are there, or there are trades; it does not look at the other tables.
Quality(rows) ==
    CASE table = "funding" ->
            /\ FundingSlots(pull.from, pull.to) > 0
            /\ 100 * Cardinality(rows) >= MinCoverage * FundingSlots(pull.from, pull.to)
      [] table = "trades"  -> rows # {}
      [] OTHER             -> TRUE

\* A pull ends with the check of what is stored after it.
Judged(p) == Return([p EXCEPT !.ok = Quality(In(db', p.from, p.to))])

Continue(p) == pull' = p /\ UNCHANGED report

\* One page of a series whose rows have times of their own.
SeriesPage ==
    /\ pull # Nil /\ pull.how = "api" /\ table # "trades"
    /\ LET rows == IF pull.at < pull.to THEN Page(truth, pull.at, Reach(pull.to)) ELSE {} IN
       /\ db' = db \cup rows
       /\ IF rows = {} \/ Cardinality(rows) < PageLimit \/ LastOf(rows) + 1 >= pull.to
            THEN Judged(pull)
            ELSE Continue([pull EXCEPT !.at = LastOf(rows) + 1])
    /\ UNCHANGED <<table, today, truth, published, pulls, fetched>>

PieceEnd == IF pull.piece + Chunk - 1 < pull.to THEN pull.piece + Chunk - 1 ELSE pull.to

\* One page of a slice of the trades; a short page ends the slice, and so does the last
\* page a slice may have, however much of it is left.
TradesPage ==
    /\ pull # Nil /\ pull.how = "api" /\ table = "trades"
    /\ LET rows == Page(truth, pull.at, Reach(PieceEnd))
           next == pull.piece + Chunk
       IN
       /\ db' = db \cup rows
       /\ IF /\ Cardinality(rows) = PageLimit /\ LastOf(rows) + 1 <= PieceEnd
             /\ pull.pages + 1 < MaxPages
            THEN Continue([pull EXCEPT !.at = LastOf(rows) + 1, !.pages = @ + 1])
            ELSE IF next < pull.to
                   THEN Continue([pull EXCEPT !.piece = next, !.at = next, !.pages = 0])
                   ELSE Judged(pull)
    /\ UNCHANGED <<table, today, truth, published, pulls, fetched>>

\* One file of the archive: not online yet, out of reach, or read and stored.
ArchiveFile ==
    /\ pull # Nil /\ pull.how = "archive"
    /\ LET f == File(pull.at)
           rest == [pull EXCEPT !.at = (f + 1) * FileSpan]
           goOn(p) == IF f + 1 \in Files(pull.from, pull.to) THEN Continue(p) ELSE Judged(p)
       IN  \/ f \notin published /\ UNCHANGED db /\ goOn([rest EXCEPT !.offline = @ \cup {f}])
           \/ UNCHANGED db /\ goOn([rest EXCEPT !.failed = @ \cup {f}])
           \/ /\ f \in published
              /\ db' = db \cup {r \in In(truth, pull.from, pull.to) : File(r.t) = f}
              /\ goOn(rest)
    /\ UNCHANGED <<table, today, truth, published, pulls, fetched>>

\* A request out of retries or a batch that is refused ends the call with an error;
\* what was stored stays.
CallFails ==
    /\ pull # Nil
    /\ pull' = Nil
    /\ \/ UNCHANGED db
       \/ /\ pull.how = "archive" /\ File(pull.at) \in published
          /\ \E some \in SUBSET {r \in In(truth, pull.from, pull.to) : File(r.t) = File(pull.at)} :
                db' = db \cup some
    /\ UNCHANGED <<table, today, truth, published, pulls, report, fetched>>

\* The archive puts a file online when the time it covers is over.
Publish ==
    /\ \E f \in File(0) .. File(LastTime) :
          (f + 1) * FileSpan <= today /\ f \notin published /\ published' = published \cup {f}
    /\ UNCHANGED <<table, today, truth, db, pull, pulls, report, fetched>>

TimePasses ==
    /\ today < LastTime /\ today' = today + 1
    /\ UNCHANGED <<table, truth, published, db, pull, pulls, report, fetched>>

----------------------------------------------------------------------------
(* The readers: the candles of a back-test come from the cached file, from *)
(* the database if it has any, else from the exchange page by page.        *)

\* A file for exactly this range.
Cached == fetched # Nil /\ fetched.range = <<pull.from, pull.to>>

LoadCandles ==
    /\ pull # Nil /\ pull.how = "backtest" /\ pull.at = pull.from /\ pull.got = {}
    /\ Cached \/ In(db, pull.from, pull.to) # {}
    /\ Return([pull EXCEPT !.got = IF Cached THEN fetched.rows ELSE In(db, pull.from, pull.to)])
    /\ UNCHANGED <<table, today, truth, published, db, pulls, fetched>>

\* A candle closes with the unit of time in which it opened.  The file is written once
\* and for all, also when the range ends in the future.
FetchCandles ==
    /\ pull # Nil /\ pull.how = "backtest"
    /\ In(db, pull.from, pull.to) = {} /\ ~Cached
    /\ LET rows == Page(truth, pull.at, Reach(pull.to))
           got == pull.got \cup rows
       IN  IF rows = {} \/ LastOf(rows) >= pull.to \/ Cardinality(rows) < PageLimit
             THEN IF got = {}
                    THEN pull' = Nil /\ UNCHANGED <<report, fetched>>
                    ELSE /\ Return([pull EXCEPT !.got = got])
                         /\ fetched' = [range |-> <<pull.from, pull.to>>, asOf |-> pull.asOf, rows |-> got]
             ELSE /\ Continue([pull EXCEPT !.got = got, !.at = LastOf(rows) + 1])
                  /\ UNCHANGED fetched
    /\ UNCHANGED <<table, today, truth, published, db, pulls>>

\* Mutant: a page that is not full is taken for an empty one.
EventsPageFull ==
    /\ pull # Nil /\ pull.how = "events"
    /\ LET rows == Page(db, pull.at, pull.to) IN
       IF Cardinality(rows) < PageLimit
         THEN IF pull.got = {} THEN pull' = Nil /\ UNCHANGED report ELSE Return(pull)
         ELSE Continue([pull EXCEPT !.got = @ \cup rows, !.at = LastOf(rows) + 1])
    /\ UNCHANGED <<table, today, truth, published, db, pulls, fetched>>

\* The events of the event-driven engine are read from the database in pages.
EventsPage ==
    /\ pull # Nil /\ pull.how = "events"
    /\ LET rows == Page(db, pull.at, pull.to)
           p == [pull EXCEPT !.got = @ \cup rows]
       IN  IF Cardinality(rows) < PageLimit \/ LastOf(rows) >= pull.to
             THEN IF p.got = {} THEN pull' = Nil /\ UNCHANGED report ELSE Return(p)
             ELSE Continue([p EXCEPT !.at = LastOf(rows) + 1])
    /\ UNCHANGED <<table, today, truth, published, db, pulls, fetched>>

PullInit ==
    /\ table \in {"funding", "interest", "trades", "candles"}
    /\ \E n \in 1 .. MaxRows : \E time \in [1 .. n -> 0 .. LastTime] :
          /\ \A i \in 2 .. n : IF table = "trades" THEN time[i - 1] <= time[i] ELSE time[i - 1] < time[i]
          /\ truth = {[id |-> i, t |-> time[i]] : i \in 1 .. n}
    /\ today = LastTime - 1
    /\ published = {} /\ db = {} /\ pull = Nil /\ pulls = 0 /\ report = Nil /\ fetched = Nil

PullNext ==
    \/ Begin \/ SeriesPage \/ TradesPage \/ ArchiveFile \/ CallFails \/ Publish \/ TimePasses
    \/ LoadCandles \/ FetchCandles \/ EventsPage

PullSpec == PullInit /\ [][PullNext]_pullVars

----------------------------------------------------------------------------
Within(r, p) == r.t >= p.from /\ r.t < p.to
\* What the exchange had when the call began.
Asked(r, p) == Within(r, p) /\ r.t <= p.asOf

Shares(r, among) == \E s \in among : s # r /\ s.t = r.t
\* A slice up to the row holds as many trades as a call reads pages of.
Crowded(r, p) ==
    \E s \in p.from .. r.t : s > r.t - Chunk /\ Cardinality(In(db, s, r.t)) >= MaxPages * PageLimit

\* A pull that returns has stored every row the exchange had when it was called, up to the
\* last instant; or the gap has a name: a trade that shares its instant with one that is
\* stored, a slice with more trades than the pages read of it, a file that failed, was not
\* online, or is beyond the number one call reads.
WholeOrNamed ==
    report # Nil =>
        \A r \in truth : Asked(r, report) /\ r \notin db =>
            CASE report.how = "api" -> table = "trades" /\ (Shares(r, db) \/ Crowded(r, report))
              [] report.how = "archive" -> \/ File(r.t) \in report.failed \cup report.offline
                                           \/ File(r.t) \notin Files(report.from, report.to)
              [] OTHER -> TRUE

\* The back-test and the event-driven engine get every row of the source they read,
\* trades that share an instant excepted; and a cached range is a whole one, unless it had
\* not ended when it was fetched: then it stays what it was, however often it is asked for.
ReadersMissNothing ==
    /\ (report # Nil /\ report.how = "events") =>
          \A r \in db : Within(r, report) /\ r \notin report.got => Shares(r, report.got)
    /\ (fetched # Nil /\ fetched.range[2] <= fetched.asOf) =>
          In(truth, fetched.range[1], fetched.range[2]) = fetched.rows

\* A range that passes the check lacks at most the share of its settlements that the check
\* lets pass, one in a hundred as the program calls it, from the time they were asked for to
\* the present; and where the exchange has trades, a pull over its interface that returns
\* leaves a table that passes.
Lacking(from, to) == {t \in from .. to : \A r \in db : r.t # t}
CheckCanBeTrusted ==
    /\ (report # Nil /\ table = "funding" /\ report.ok) =>
          100 * Cardinality(Lacking(report.from, report.to))
              <= (100 - MinCoverage) * FundingSlots(report.from, report.to)
    /\ (report # Nil /\ table = "trades" /\ report.how = "api") =>
          ((\E r \in truth : Asked(r, report)) => report.ok)

\* Nothing is missing without a name, neither in the tables nor for their readers,
\* nor behind a check that passed.
HistoryIsWhole == WholeOrNamed /\ ReadersMissNothing /\ CheckCanBeTrusted
=============================================================================
