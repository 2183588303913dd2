------------------------------ MODULE Newsroom ------------------------------
(***************************************************************************)
(* What the platform tells of the world: the news (news.service.ts), the   *)
(* economic calendar (calendar.service.ts) and the market analysis of the  *)
(* language model (ai-market.service.ts).  A session is about one of them. *)
(* Rounds of the news overlap: the warm-up, the scheduler and the button   *)
(* of the page each fetch every source, and the sources of a round are     *)
(* read side by side, item by item.                                        *)
(***************************************************************************)
EXTENDS Integers, Sequences, FiniteSets, SequencesExt

CONSTANTS Sources,      \* feeds
          FeedOf,       \* source -> the items it lists, newest first
          FeedRounds,       \* runs of fetchAll that may overlap
          Readers,      \* requests for the calendar or the analysis
          MaxFeedRounds,    \* bound on the rounds
          MaxPrunes,    \* bound on the nightly prunings
          MaxAsks,      \* bound on the requests
          MaxOutages,   \* bound on the failures
          NoTask

Items == UNION {ToSet(FeedOf[s]) : s \in Sources}

ASSUME NewsAssumption == {MaxFeedRounds, MaxPrunes, MaxAsks, MaxOutages} \subseteq Nat

VARIABLES subject,      \* "news", "calendar" or "analysis"
          newsItems,        \* news_items, a set: the url is unique
          reading,      \* <<round, source>> -> where it is in the feed
          told,         \* history: item -> announcements
          pruned,       \* history: item -> prunings that removed it
          rounds, prunes,
          weeks,        \* the weeks of the calendar, or the analysis, kept in memory
          aged,         \* the cache is past its time
          fetching,     \* the fetch of the calendar that its readers share
          asks,         \* reader -> what it waits for
          asked, outages

newsVars == <<subject, newsItems, reading, told, pruned, rounds, prunes, weeks, aged, fetching, asks, asked, outages>>

Desks == FeedRounds \X Sources

----------------------------------------------------------------------------
(* The news.                                                               *)

\* Every source is fetched, each at most once in a round.
FetchAll ==
    /\ subject = "news" /\ rounds < MaxFeedRounds /\ rounds' = rounds + 1
    /\ \E r \in FeedRounds :
          /\ \A s \in Sources : reading[<<r, s>>] = NoTask
          /\ reading' = [d \in Desks |-> IF d[1] = r THEN [pc |-> "find", left |-> FeedOf[d[2]]] ELSE reading[d]]
    /\ UNCHANGED <<subject, newsItems, told, pruned, prunes, weeks, aged, fetching, asks, asked, outages>>

\* A source does not answer in time: the others of the round go on.
SourceFails ==
    /\ outages < MaxOutages /\ outages' = outages + 1
    /\ \E d \in Desks : reading[d] # NoTask /\ reading' = [reading EXCEPT ![d] = NoTask]
    /\ UNCHANGED <<subject, newsItems, told, pruned, rounds, prunes, weeks, aged, fetching, asks, asked>>

AfterItem(t) == IF Len(t.left) = 1 THEN NoTask ELSE [pc |-> "find", left |-> Tail(t.left)]

At(d, pc) == IF reading[d] = NoTask THEN FALSE ELSE reading[d].pc = pc

FindItem ==
    /\ \E d \in Desks :
          /\ At(d, "find")
          /\ reading' = [reading EXCEPT ![d] = IF Head(@.left) \in newsItems THEN AfterItem(@)
                                               ELSE [@ EXCEPT !.pc = "save"]]
    /\ UNCHANGED <<subject, newsItems, told, pruned, rounds, prunes, weeks, aged, fetching, asks, asked, outages>>

\* A url that was stored meanwhile violates the index: the source is given up for the
\* round.  A stored item is announced.
SaveItem ==
    /\ \E d \in Desks :
          /\ At(d, "save")
          /\ LET i == Head(reading[d].left)
             IN IF i \in newsItems
                  THEN reading' = [reading EXCEPT ![d] = NoTask] /\ UNCHANGED <<newsItems, told>>
                  ELSE /\ newsItems' = newsItems \cup {i}
                       /\ told' = [told EXCEPT ![i] = @ + 1]
                       /\ reading' = [reading EXCEPT ![d] = AfterItem(@)]
    /\ UNCHANGED <<subject, pruned, rounds, prunes, weeks, aged, fetching, asks, asked, outages>>

\* The nightly pruning removes the old items, which a feed may still list.
Prune ==
    /\ subject = "news" /\ prunes < MaxPrunes /\ prunes' = prunes + 1
    /\ \E old \in SUBSET newsItems :
          /\ newsItems' = newsItems \ old
          /\ pruned' = [i \in Items |-> IF i \in old THEN pruned[i] + 1 ELSE pruned[i]]
    /\ UNCHANGED <<subject, reading, told, rounds, weeks, aged, fetching, asks, asked, outages>>

----------------------------------------------------------------------------
(* The calendar.                                                           *)

Weeks == {"this", "next"}

\* A list is served from the cache while it is young and not empty; otherwise it waits
\* for the fetch under way, or begins one.
ListCalendar ==
    /\ subject = "calendar" /\ asked < MaxAsks /\ asked' = asked + 1
    /\ \E q \in Readers :
          /\ asks[q] = NoTask
          /\ IF weeks # {} /\ ~aged THEN UNCHANGED <<asks, fetching>>
             ELSE /\ asks' = [asks EXCEPT ![q] = "waits"]
                  /\ fetching' = TRUE
    /\ UNCHANGED <<subject, newsItems, reading, told, pruned, rounds, prunes, weeks, aged, outages>>

\* A forced refresh fetches by itself.
RefreshCalendar ==
    /\ subject = "calendar" /\ asked < MaxAsks /\ asked' = asked + 1
    /\ \E q \in Readers : asks[q] = NoTask /\ asks' = [asks EXCEPT ![q] = "fetches"]
    /\ UNCHANGED <<subject, newsItems, reading, told, pruned, rounds, prunes, weeks, aged, fetching, outages>>

\* Mutant: nothing is kept.
KeptNothing(got) == got

\* What the two feeds gave replaces the cache, unless neither gave anything.
Kept(got) == IF got = {} THEN weeks ELSE got

Fetched(got) ==
    /\ weeks' = Kept(got)
    /\ aged' = IF got = {} THEN aged ELSE FALSE
    /\ outages' = outages + Cardinality(Weeks \ got)

FetchEnds ==
    /\ \E got \in SUBSET Weeks :
          /\ outages + Cardinality(Weeks \ got) <= MaxOutages
          /\ Fetched(got)
    /\ \/ /\ fetching /\ fetching' = FALSE
          /\ asks' = [q \in Readers |-> IF asks[q] = "waits" THEN NoTask ELSE asks[q]]
       \/ /\ \E q \in Readers : asks[q] = "fetches" /\ asks' = [asks EXCEPT ![q] = NoTask]
          /\ UNCHANGED fetching
    /\ UNCHANGED <<subject, newsItems, reading, told, pruned, rounds, prunes, asked>>

----------------------------------------------------------------------------
(* The analysis.                                                           *)

\* A young answer of the cache serves; otherwise, and when forced, the model is asked.
AskModel ==
    /\ subject = "analysis" /\ asked < MaxAsks /\ asked' = asked + 1
    /\ \E q \in Readers, force \in BOOLEAN :
          /\ asks[q] = NoTask /\ (force \/ weeks = {} \/ aged)
          /\ asks' = [asks EXCEPT ![q] = "model"]
    /\ UNCHANGED <<subject, newsItems, reading, told, pruned, rounds, prunes, weeks, aged, fetching, outages>>

\* Its answer - or its failure - is kept.
ModelAnswers ==
    /\ \E q \in Readers : asks[q] = "model" /\ asks' = [asks EXCEPT ![q] = NoTask]
    /\ \/ weeks' = {"insight"} /\ UNCHANGED outages
       \/ outages < MaxOutages /\ outages' = outages + 1 /\ weeks' = {"error"}
    /\ aged' = FALSE
    /\ UNCHANGED <<subject, newsItems, reading, told, pruned, rounds, prunes, fetching, asked>>

Age ==
    /\ subject # "news" /\ weeks # {} /\ ~aged /\ aged' = TRUE
    /\ UNCHANGED <<subject, newsItems, reading, told, pruned, rounds, prunes, weeks, fetching, asks, asked, outages>>

NewsInit ==
    /\ subject \in {"news", "calendar", "analysis"}
    /\ newsItems = {} /\ reading = [d \in Desks |-> NoTask]
    /\ told = [i \in Items |-> 0] /\ pruned = [i \in Items |-> 0] /\ rounds = 0 /\ prunes = 0
    /\ weeks = {} /\ aged = FALSE /\ fetching = FALSE /\ asks = [q \in Readers |-> NoTask]
    /\ asked = 0 /\ outages = 0

NewsNext ==
    \/ FetchAll \/ SourceFails \/ FindItem \/ SaveItem \/ Prune
    \/ ListCalendar \/ RefreshCalendar \/ FetchEnds
    \/ AskModel \/ ModelAnswers \/ Age

NewsSpec == NewsInit /\ [][NewsNext]_newsVars

----------------------------------------------------------------------------
\* An item is announced once for every time it was stored: two rounds that read the same
\* feed, or two feeds that list the same item, do not announce it twice.
NewsOnce == \A i \in Items : told[i] = pruned[i] + (IF i \in newsItems THEN 1 ELSE 0)

\* A calendar once shown is never replaced by an empty one, whatever fails and however
\* the shared fetch and the forced ones end.
CalendarKept == [][weeks # {} => weeks' # {}]_newsVars

\* Overlapping rounds announce an item as often as it was stored, and a refresh that got
\* nothing leaves the calendar as it was shown.
NewsIsSound == []NewsOnce /\ CalendarKept
=============================================================================
