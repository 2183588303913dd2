------------------------------ MODULE WebCache ------------------------------
(***************************************************************************)
(* What a browser shows of the server: the queries and mutations of        *)
(* apps/web/src/api/hooks.ts on the pages that use them, over the cache of *)
(* react-query (external), and the session of store/auth.ts behind the     *)
(* gate of router.tsx.  Every topic of the server is a version number,     *)
(* raised by whoever changes it; an answer carries the version that was    *)
(* current when the server read it.                                        *)
(***************************************************************************)
EXTENDS Integers, Sequences, FiniteSets, SequencesExt

CONSTANTS Sessions,     \* the pairs of pages a session may be about
          MaxVersion,   \* bound on the changes of a topic
          MaxActs,      \* bound on the user's mutations
          MaxMoves,     \* bound on the navigations and the timers that fire
          MaxLapses,    \* bound on failed requests and expired tokens
          NoData        \* nothing shown, nothing asked

ASSUME WebAssumption ==
    /\ {MaxVersion, MaxActs, MaxMoves, MaxLapses} \subseteq Nat
    /\ NoData \notin Nat

VARIABLES pages,        \* the pages of this session
          topic,        \* topic -> its version on the server
          shelf,        \* query -> what the browser has of it
          own,          \* topic -> the version of this browser's last successful change
          screen,       \* the page on screen, or "login"
          deed,         \* the mutation under way
          acts, moves, lapses

webVars == <<pages, topic, shelf, own, screen, deed, acts, moves, lapses>>

----------------------------------------------------------------------------
(* The hooks.  A query has a key, is about a topic and may refetch on a    *)
(* timer.  A mutation changes topics and, when it succeeds, invalidates    *)
(* every key that starts with one of its prefixes.                         *)

Joined(f, g) == [x \in DOMAIN f \cup DOMAIN g |-> IF x \in DOMAIN f THEN f[x] ELSE g[x]]

Hook(key, about, polls) == [key |-> key, about |-> about, polls |-> polls]

NewsHooks ==
    [news        |-> Hook(<<"news">>, "news", TRUE),
     newsSources |-> Hook(<<"news", "sources">>, "news", TRUE),
     keywords    |-> Hook(<<"news", "keywords">>, "news", TRUE),
     calendar    |-> Hook(<<"calendar">>, "calendar", TRUE),
     analysis    |-> Hook(<<"ai-market">>, "analysis", TRUE)]

MarketHooks ==
    [overview |-> Hook(<<"overview">>, "account", TRUE),
     pulse    |-> Hook(<<"pulse">>, "market", TRUE),
     orders   |-> Hook(<<"orders">>, "account", TRUE),
     lots     |-> Hook(<<"lots", "open">>, "account", TRUE)]

FuturesHooks ==
    [accounts  |-> Hook(<<"accounts">>, "accounts", FALSE),
     positions |-> Hook(<<"futures", "positions">>, "account", TRUE),
     margin    |-> Hook(<<"futures", "margin">>, "account", TRUE),
     config    |-> Hook(<<"futures", "config">>, "config", TRUE)]

StrategyHooks ==
    [strategies    |-> Hook(<<"strategies", "listed">>, "strategies", FALSE),
     allStrategies |-> Hook(<<"strategies", "all">>, "strategies", FALSE),
     status        |-> Hook(<<"strategy-status">>, "status", TRUE),
     leaderboard   |-> Hook(<<"leaderboard">>, "account", TRUE)]

BacktestHooks ==
    [runList |-> Hook(<<"backtest-runs">>, "runs", FALSE),
     preview |-> Hook(<<"backtest-run">>, "preview", FALSE)]

Hooks == Joined(Joined(NewsHooks, MarketHooks), Joined(FuturesHooks, Joined(StrategyHooks, BacktestHooks)))

\* The list of runs and the preview load once the history of the back-test page is opened;
\* the panes of the page stay mounted behind its tabs.
Shown ==
    [strategy   |-> {"strategies", "status", "config", "leaderboard"},
     governance |-> {"allStrategies"},
     futures    |-> {"config", "positions", "margin", "lots"},
     accounts   |-> {"accounts"},
     backtest   |-> {"strategies"},
     backtestHistory |-> {"strategies", "runList", "preview"},
     news       |-> {"news", "newsSources", "keywords", "calendar", "pulse"},
     aiMarket   |-> {"analysis"},
     phone      |-> {"config", "lots", "orders"}]

\* The mutations a page offers: the open history leaves the other tabs at hand.
Offers(page) == IF page = "backtestHistory" THEN {"backtest", "backtestHistory"} ELSE {page}

\* A session is about two pages.
ASSUME SessionsAssumption == Sessions # {} /\ Sessions \subseteq (DOMAIN Shown) \X (DOMAIN Shown)

Deed(page, changes, keys) == [page |-> page, changes |-> changes, keys |-> keys]

NewsDeeds ==
    [refreshNews     |-> Deed("news", {"news"}, {<<"news">>}),
     refreshCalendar |-> Deed("news", {"calendar"}, {<<"calendar">>})]

\* No query has the key of the orders that a trade invalidates.
FuturesDeeds ==
    [updateAccount |-> Deed("accounts", {"accounts"}, {<<"accounts">>}),
     testAccount   |-> Deed("accounts", {"accounts"}, {<<"accounts">>}),
     updateConfig  |-> Deed("futures", {"config"}, {<<"futures", "config">>}),
     placeOrder    |-> Deed("futures", {"account"},
                            {<<"futures", "positions">>, <<"futures", "orders">>, <<"lots">>, <<"overview">>})]

\* Mutant: listing a strategy does not refresh the list.
StrategyDeedsStale ==
    [setEnabled  |-> Deed("governance", {"strategies"}, {}),
     start       |-> Deed("strategy", {"status", "account"}, {<<"strategy-status">>, <<"lots">>}),
     stop        |-> Deed("strategy", {"status"}, {<<"strategy-status">>}),
     closeBasket |-> Deed("strategy", {"status", "account"},
                          {<<"strategy-status">>, <<"lots">>, <<"overview">>})]

StrategyDeeds ==
    [setEnabled  |-> Deed("governance", {"strategies"}, {<<"strategies">>}),
     start       |-> Deed("strategy", {"status", "account"}, {<<"strategy-status">>, <<"lots">>}),
     stop        |-> Deed("strategy", {"status"}, {<<"strategy-status">>}),
     closeBasket |-> Deed("strategy", {"status", "account"},
                          {<<"strategy-status">>, <<"lots">>, <<"overview">>})]

\* The fresh analysis is put into the cache instead.
BacktestDeeds ==
    [runBacktest     |-> Deed("backtest", {"runs"}, {<<"backtest-runs">>}),
     research        |-> Deed("backtest", {"runs"}, {<<"backtest-runs">>}),
     sweep           |-> Deed("backtest", {"runs"}, {<<"backtest-runs">>}),
     deleteRun       |-> Deed("backtestHistory", {"runs"}, {<<"backtest-runs">>}),
     refreshAnalysis |-> Deed("aiMarket", {"analysis"}, {})]

Deeds == Joined(Joined(NewsDeeds, FuturesDeeds), Joined(StrategyDeeds, BacktestDeeds))

\* The layout around every page shows the overview.
Mounted == IF screen = "login" THEN {} ELSE Shown[screen] \cup {"overview"}

Queries == DOMAIN shelf

Matches(q, keys) == \E k \in keys : IsPrefix(k, Hooks[q].key)

----------------------------------------------------------------------------
(* The cache.  `asked` is a request the server has not read yet; `late`    *)
(* marks an answer under way when its query was invalidated and not asked  *)
(* anew: off screen, or during its first load.                             *)

NothingOf == [data |-> NoData, stale |-> TRUE, at |-> "rest", carries |-> 0, again |-> TRUE, failed |-> FALSE,
              late |-> FALSE]

Asking(s) == [s EXCEPT !.at = "asked", !.again = TRUE, !.failed = FALSE, !.late = FALSE]

Unasked(q) == shelf[q].at = "rest"

\* A query on screen is asked anew, and a request under way is cancelled if there is data
\* to show meanwhile; the first load is joined as it is.  Off screen the entry is marked,
\* and whatever is under way goes on.
InvalidatedOf(q, keys) ==
    IF ~Matches(q, keys) THEN shelf[q]
    ELSE IF q \in Mounted /\ (Unasked(q) \/ shelf[q].data # NoData)
      THEN [Asking(shelf[q]) EXCEPT !.stale = TRUE]
      ELSE [shelf[q] EXCEPT !.stale = TRUE, !.late = shelf[q].at = "answered"]

ServerReads ==
    /\ \E q \in Queries :
          /\ shelf[q].at = "asked"
          /\ shelf' = [shelf EXCEPT ![q].at = "answered", ![q].carries = topic[Hooks[q].about]]
    /\ UNCHANGED <<pages, topic, own, screen, deed, acts, moves, lapses>>

AnswerArrives ==
    /\ \E q \in Queries :
          /\ shelf[q].at = "answered"
          /\ shelf' = [shelf EXCEPT ![q].data = shelf[q].carries, ![q].stale = FALSE, ![q].at = "rest"]
    /\ UNCHANGED <<pages, topic, own, screen, deed, acts, moves, lapses>>

\* One retry, none for the accounts; then the error is shown beside the old data.
RequestFails ==
    /\ lapses < MaxLapses /\ lapses' = lapses + 1
    /\ \E q \in Queries :
          /\ shelf[q].at # "rest"
          /\ shelf' = [shelf EXCEPT ![q] =
                          IF @.again /\ q # "accounts"
                            THEN [@ EXCEPT !.at = "asked", !.again = FALSE, !.late = FALSE]
                            ELSE [@ EXCEPT !.at = "rest", !.failed = TRUE]]
    /\ UNCHANGED <<pages, topic, own, screen, deed, acts, moves>>

\* The timer of a query on screen fires, or the window of the list of runs is focused; a request under way is shared.
Poll ==
    /\ moves < MaxMoves /\ moves' = moves + 1
    /\ \E q \in Mounted :
          /\ Hooks[q].polls \/ q = "runList"
          /\ shelf[q].at = "rest"
          /\ shelf' = [shelf EXCEPT ![q] = Asking(@)]
    /\ UNCHANGED <<pages, topic, own, screen, deed, acts, lapses>>

----------------------------------------------------------------------------
(* The pages and the session.                                              *)

\* A query that is mounted is asked when it has no data, was invalidated or failed, or
\* when its data is older than the stale time; the list of runs always.
Show(page, aged) ==
    /\ screen' = page
    /\ shelf' = [q \in Queries |->
                   IF q \in Shown[page] \cup {"overview"} /\ q \notin Mounted /\ shelf[q].at = "rest"
                      /\ (shelf[q].data = NoData \/ shelf[q].stale \/ shelf[q].failed \/ aged \/ q = "runList")
                     THEN Asking(shelf[q]) ELSE shelf[q]]

Navigate ==
    /\ screen # "login" /\ moves < MaxMoves /\ moves' = moves + 1
    /\ \E page \in pages \ {screen}, aged \in BOOLEAN : Show(page, aged)
    /\ UNCHANGED <<pages, topic, own, deed, acts, lapses>>

\* The token is refused wherever it is sent: it is cleared and the gate shows the login.
Unauthorized ==
    /\ screen # "login" /\ lapses < MaxLapses /\ lapses' = lapses + 1
    /\ screen' = "login"
    /\ \/ deed # NoData /\ deed' = NoData /\ UNCHANGED shelf
       \/ /\ \E q \in Queries : /\ shelf[q].at = "asked"
                            /\ shelf' = [shelf EXCEPT ![q].at = "rest", ![q].failed = TRUE]
          /\ UNCHANGED deed
    /\ UNCHANGED <<pages, topic, own, acts, moves>>

\* Back to the page the login interrupted.
Login ==
    /\ screen = "login"
    /\ \E page \in pages, aged \in BOOLEAN : Show(page, aged)
    /\ UNCHANGED <<pages, topic, own, deed, acts, moves, lapses>>

----------------------------------------------------------------------------
(* The mutations.                                                          *)

Act ==
    /\ screen # "login" /\ deed = NoData /\ acts < MaxActs /\ acts' = acts + 1
    /\ \E d \in DOMAIN Deeds :
          /\ Deeds[d].page \in Offers(screen)
          /\ deed' = [name |-> d, at |-> "asked", leaves |-> topic]
    /\ UNCHANGED <<pages, topic, shelf, own, screen, moves, lapses>>

DeedIs(at) == IF deed = NoData THEN FALSE ELSE deed.at = at

\* The server does it, or refuses: the listing of a strategy answers `ok: false`.
ServerActs ==
    /\ DeedIs("asked")
    /\ \/ /\ topic' = [t \in DOMAIN topic |-> IF t \in Deeds[deed.name].changes THEN topic[t] + 1 ELSE topic[t]]
          /\ deed' = [deed EXCEPT !.at = "done", !.leaves = topic']
       \/ deed' = [deed EXCEPT !.at = "refused"] /\ UNCHANGED topic
    /\ UNCHANGED <<pages, shelf, own, screen, acts, moves, lapses>>

\* A success invalidates; the fresh analysis is put into the cache itself.
DeedArrives ==
    /\ DeedIs("done")
    /\ shelf' = [q \in Queries |->
                   IF deed.name = "refreshAnalysis" /\ q = "analysis"
                     THEN [shelf[q] EXCEPT !.data = deed.leaves["analysis"], !.stale = FALSE]
                     ELSE InvalidatedOf(q, Deeds[deed.name].keys)]
    /\ own' = [t \in DOMAIN own |-> IF t \in Deeds[deed.name].changes THEN deed.leaves[t] ELSE own[t]]
    /\ deed' = NoData
    /\ UNCHANGED <<pages, topic, screen, acts, moves, lapses>>

\* A refusal or a lost answer shows an error and refreshes nothing.
DeedFails ==
    /\ deed # NoData
    /\ \/ DeedIs("refused") /\ UNCHANGED lapses
       \/ lapses < MaxLapses /\ lapses' = lapses + 1
    /\ deed' = NoData
    /\ UNCHANGED <<pages, topic, shelf, own, screen, acts, moves>>

\* The server changes without this browser.
OthersAct ==
    /\ acts < MaxActs /\ acts' = acts + 1
    /\ \E t \in DOMAIN topic : topic[t] < MaxVersion /\ topic' = [topic EXCEPT ![t] = @ + 1]
    /\ UNCHANGED <<pages, shelf, own, screen, deed, moves, lapses>>

WebInit ==
    /\ \E s \in Sessions :
          /\ pages = {s[1], s[2]}
          /\ screen = s[1]
          /\ shelf = [q \in Shown[s[1]] \cup Shown[s[2]] \cup {"overview"} |->
                        IF q \in Shown[s[1]] \cup {"overview"} THEN Asking(NothingOf) ELSE NothingOf]
    /\ topic = [t \in {Hooks[q].about : q \in DOMAIN shelf} |-> 0]
    /\ own = topic
    /\ deed = NoData /\ acts = 0 /\ moves = 0 /\ lapses = 0

WebNext ==
    \/ ServerReads \/ AnswerArrives \/ RequestFails \/ Poll \/ Navigate \/ Unauthorized \/ Login
    \/ Act \/ ServerActs \/ DeedArrives \/ DeedFails \/ OthersAct

WebSpec == WebInit /\ [][WebNext]_webVars

----------------------------------------------------------------------------
\* A page that has settled does not hide the user's own work: when no request of a
\* query on screen is under way, it shows what this browser last changed of its topic,
\* or says that its last request failed, or refetches on a timer - unless the answer
\* shown was already on its way when the success of the change came back, and the query
\* was off screen then or loading for the first time.
OwnChangeShows ==
    \A q \in Mounted :
        LET s == shelf[q] IN
        (s.at = "rest" /\ ~Hooks[q].polls /\ ~s.failed /\ ~s.late) =>
            s.data # NoData /\ s.data >= own[Hooks[q].about]
=============================================================================
