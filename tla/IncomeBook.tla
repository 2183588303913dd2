----------------------------- MODULE IncomeBook -----------------------------
(***************************************************************************)
(* The exchange's income rows (account/income.service.ts) and the profit   *)
(* calendar made of them and of the closed lots (overview.service.ts).     *)
(* The exchange posts a row for every commission, funding fee and - unless *)
(* it is a test network - realised profit, some of them late; the syncs of *)
(* the scheduler, which may overlap, copy a rolling window of them into    *)
(* the table.                                                              *)
(***************************************************************************)
EXTENDS Integers, Sequences, FiniteSets, SequencesExt, FiniteSetsExt

CONSTANTS Syncs,        \* the runs of the sync that may overlap
          Exchanges,    \* does the exchange report realised profits: a subset of BOOLEAN
          Profits,      \* profits of a closed lot, before fees
          MaxMoment,      \* last moment; a day has two
          Window,       \* moments a sync looks back
          IncomeLimit,    \* rows of an answer
          MaxIncomes,      \* bound on the exchange's rows
          MaxSyncs,     \* bound on the syncs
          MaxLosses     \* bound on failed syncs

ASSUME BookAssumption ==
    /\ Exchanges \subseteq BOOLEAN /\ Profits \subseteq Int
    /\ {MaxMoment, Window, IncomeLimit, MaxIncomes, MaxSyncs, MaxLosses} \subseteq Nat

VARIABLES reports,      \* this exchange reports realised profits
          moment,
          incomes,      \* rows of the exchange, in the order they arose
          posted,       \* how many of each: the ids the exchange lists
          holding,      \* open lots
          closures,     \* closed lots: [day, pnl]
          wallet,       \* history: day -> what the account really gained that day
          book,         \* the table exchange_incomes, a set: tranId is unique
          sync,         \* run -> where it is
          syncs,        \* syncs begun
          losses

bookVars == <<reports, moment, incomes, posted, holding, closures, wallet, book, sync, syncs, losses>>

DayOf(t) == t \div 2
CalendarDays == 0..DayOf(MaxMoment)

RowIds == DOMAIN incomes
Fee == 1

----------------------------------------------------------------------------
(* The account.  Every trade pays a fee; a closed lot is charged both.     *)

Arise(rows) ==
    /\ Len(incomes) + Len(rows) <= MaxIncomes
    /\ incomes' = incomes \o [i \in DOMAIN rows |-> [type |-> rows[i][1], amount |-> rows[i][2], at |-> moment]]

Gain(amount) == wallet' = [wallet EXCEPT ![DayOf(moment)] = @ + amount]

OpenTrade ==
    /\ Arise(<<<<"COMMISSION", -Fee>>>>) /\ Gain(-Fee) /\ holding' = holding + 1
    /\ UNCHANGED <<reports, moment, posted, closures, book, sync, syncs, losses>>

CloseTrade ==
    /\ holding > 0 /\ holding' = holding - 1
    /\ \E p \in Profits :
          /\ Arise(IF reports THEN <<<<"COMMISSION", -Fee>>, <<"REALIZED_PNL", p>>>> ELSE <<<<"COMMISSION", -Fee>>>>)
          /\ Gain(p - Fee)
          /\ closures' = Append(closures, [day |-> DayOf(moment), pnl |-> p - 2 * Fee])
    /\ UNCHANGED <<reports, moment, posted, book, sync, syncs, losses>>

SettleFunding ==
    /\ Arise(<<<<"FUNDING_FEE", -Fee>>>>) /\ Gain(-Fee)
    /\ UNCHANGED <<reports, moment, posted, holding, closures, book, sync, syncs, losses>>

Post ==
    /\ \E i \in RowIds \ posted : posted' = posted \cup {i}
    /\ UNCHANGED <<reports, moment, incomes, holding, closures, wallet, book, sync, syncs, losses>>

Later ==
    /\ moment < MaxMoment /\ moment' = moment + 1
    /\ UNCHANGED <<reports, incomes, posted, holding, closures, wallet, book, sync, syncs, losses>>

----------------------------------------------------------------------------
(* The sync.                                                               *)

SyncRest == [pc |-> "rest", rows |-> {}, fresh |-> {}]

\* The oldest IncomeLimit rows of the window.
PageSince(t) ==
    LET listed == SetToSortSeq({i \in posted : incomes[i].at >= t}, <)
    IN ToSet(SubSeq(listed, 1, IF Len(listed) < IncomeLimit THEN Len(listed) ELSE IncomeLimit))

SyncFetch ==
    /\ syncs < MaxSyncs /\ syncs' = syncs + 1
    /\ \E s \in Syncs :
          /\ sync[s].pc = "rest"
          /\ PageSince(moment - Window) # {}
          /\ sync' = [sync EXCEPT ![s] = [pc |-> "fetched", rows |-> PageSince(moment - Window), fresh |-> {}]]
    /\ UNCHANGED <<reports, moment, incomes, posted, holding, closures, wallet, book, losses>>

\* The rows that are in the table already are left out; so is a row listed twice.
SyncKnown ==
    /\ \E s \in Syncs :
          /\ sync[s].pc = "fetched"
          /\ sync' = [sync EXCEPT ![s] = IF sync[s].rows \subseteq book THEN SyncRest
                                         ELSE [@ EXCEPT !.pc = "known", !.fresh = sync[s].rows \ book]]
    /\ UNCHANGED <<reports, moment, incomes, posted, holding, closures, wallet, book, syncs, losses>>

\* Mutant: a row that is known makes the whole batch fail.
InsertedWhole(fresh) == IF fresh \cap book = {} THEN book \cup fresh ELSE book

\* One insertion; a row another sync has inserted meanwhile is ignored, not the batch.
Inserted(fresh) == book \cup fresh

SyncInsert ==
    /\ \E s \in Syncs :
          /\ sync[s].pc = "known"
          /\ book' = Inserted(sync[s].fresh)
          /\ sync' = [sync EXCEPT ![s] = SyncRest]
    /\ UNCHANGED <<reports, moment, incomes, posted, holding, closures, wallet, syncs, losses>>

\* The exchange or the database fails, or the process restarts: a warning, and the next
\* sync looks at the same window.
SyncLost ==
    /\ losses < MaxLosses /\ losses' = losses + 1
    /\ \E s \in Syncs : sync[s].pc # "rest" /\ sync' = [sync EXCEPT ![s] = SyncRest]
    /\ UNCHANGED <<reports, moment, incomes, posted, holding, closures, wallet, book, syncs>>

----------------------------------------------------------------------------
(* The calendar.                                                           *)

\* A day of the table by type (dailySummaryByDay).
DaySummary(d) ==
    LET OfType(types) == {i \in book : DayOf(incomes[i].at) = d /\ incomes[i].type \in types}
        Total(types) == SumFunctionOnSet([i \in RowIds |-> incomes[i].amount], OfType(types))
    IN [realizedCount |-> Cardinality(OfType({"REALIZED_PNL"})),
        fundingFee |-> Total({"FUNDING_FEE"}),
        net |-> Total({"REALIZED_PNL", "COMMISSION", "FUNDING_FEE"})]

\* A day of the closed lots (realizedPnlByDay).
LotsOn(d) == SumFunctionOnSet([i \in DOMAIN closures |-> closures[i].pnl],
                              {i \in DOMAIN closures : closures[i].day = d})

\* The exchange's net where it reports realised profits, else the lots and the funding.
MergePnlCalendar(lots, days) ==
    [d \in CalendarDays |-> IF days[d].realizedCount > 0 THEN days[d].net ELSE lots[d] + days[d].fundingFee]

PnlCalendar == MergePnlCalendar([d \in CalendarDays |-> LotsOn(d)], [d \in CalendarDays |-> DaySummary(d)])

BookInit ==
    /\ reports \in Exchanges
    /\ moment = 0 /\ incomes = <<>> /\ posted = {} /\ holding = 0 /\ closures = <<>>
    /\ wallet = [d \in CalendarDays |-> 0]
    /\ book = {} /\ sync = [s \in Syncs |-> SyncRest] /\ syncs = 0 /\ losses = 0

BookNext ==
    \/ OpenTrade \/ CloseTrade \/ SettleFunding \/ Post \/ Later
    \/ SyncFetch \/ SyncKnown \/ SyncInsert \/ SyncLost

BookSpec == BookInit /\ [][BookNext]_bookVars

----------------------------------------------------------------------------
\* Of the rows a sync has fetched none is lost unless the sync itself fails, whatever
\* another one inserts between its look at the table and its own insertion.
FetchedIsFiled ==
    [][losses' = losses =>
          \A s \in Syncs : (sync[s].pc # "rest" /\ sync'[s].pc = "rest") => sync[s].rows \subseteq book']_bookVars

\* Once every row is in the table, the calendar tells what the account gained: on every
\* day that has a realised profit when the exchange reports them, and over all days, when
\* no lot is open, when it does not ("真·净盈亏").
CalendarIsAccount ==
    book = RowIds =>
        \/ reports /\ \A d \in CalendarDays : DaySummary(d).realizedCount > 0 => PnlCalendar[d] = wallet[d]
        \/ ~reports /\ (holding = 0 => SumFunction([d \in CalendarDays |-> PnlCalendar[d] - wallet[d]]) = 0)

\* The book has every row, and the calendar every amount.
BookIsWhole == FetchedIsFiled /\ []CalendarIsAccount
=============================================================================
