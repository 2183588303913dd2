----------------------------- MODULE MarketDesk -----------------------------
(***************************************************************************)
(* The parts of the program that talk to the exchange beside the trading   *)
(* loop, or keep what it said: the market service, the venue, the pulls of *)
(* history, the price chart, the income book and the archive of the        *)
(* trades.  The market service and the venue share the exchange registry;  *)
(* apart from that no part touches the state of another, so a behaviour    *)
(* follows one of them: `desk' says which, the others stay in one of their *)
(* initial states, and the interleavings of two desks, which nothing could *)
(* tell apart, are left out.                                               *)
(***************************************************************************)
EXTENDS MarketData, Venue, HistoryPull, ChartFeed, IncomeBook, TradeArchive

CONSTANTS MarketEvents, VenueEvents  \* of the outside world (bound the model)

ASSUME DeskAssumption == MarketEvents \in Nat /\ VenueEvents \in Nat

VARIABLE desk

tradingVars == <<registryVars, venueVars, marketVars>>
keptVars == <<pullVars, chartVars, bookVars, archiveVars>>

vars == <<tradingVars, keptVars, desk>>

----------------------------------------------------------------------------
(* An initial state for the desks a behaviour does not follow.             *)

MarketIdle == \A e \in Envs : ~dual[e] /\ Flat(e)

PullIdle ==
    /\ table = "trades" /\ today = LastTime - 1 /\ truth = {[id |-> 1, t |-> 0]}
    /\ published = {} /\ db = {} /\ pull = Nil /\ pulls = 0 /\ report = Nil /\ fetched = Nil

ChartIdle ==
    /\ clock = 1 /\ series = <<FlatCandle(1, CHOOSE p \in Prices : TRUE)>>
    /\ wire = <<>> /\ connected = FALSE /\ seenConnected = FALSE /\ live = NoPrice
    /\ request = "asked" /\ carries = <<>> /\ base = <<>> /\ chart = <<>> /\ drops = 0

BookIdle == BookInit /\ (reports <=> TRUE \in Exchanges)

----------------------------------------------------------------------------
Init ==
    /\ desk \in {"market", "venue", "pull", "chart", "books", "archive"}
    /\ RegistryInit /\ MarketInit /\ VenueInit
    /\ budget = IF desk = "venue" THEN VenueEvents ELSE MarketEvents
    /\ IF desk = "venue" THEN TRUE ELSE MarketIdle
    /\ IF desk = "pull" THEN PullInit ELSE PullIdle
    /\ IF desk = "chart" THEN ChartInit ELSE ChartIdle
    /\ IF desk = "books" THEN BookInit ELSE BookIdle
    /\ ArchiveInit /\ (desk = "archive" \/ lots = <<>>)

Trading ==
    /\ \/ desk = "market" /\ MarketNext /\ UNCHANGED venueVars
       \/ desk = "venue" /\ VenueNext /\ UNCHANGED marketVars
    /\ UNCHANGED <<keptVars, desk>>

Keeping ==
    /\ \/ desk = "pull" /\ PullNext /\ UNCHANGED <<chartVars, bookVars, archiveVars>>
       \/ desk = "chart" /\ ChartNext /\ UNCHANGED <<pullVars, bookVars, archiveVars>>
       \/ desk = "books" /\ BookNext /\ UNCHANGED <<pullVars, chartVars, archiveVars>>
       \/ desk = "archive" /\ ArchiveNext /\ UNCHANGED <<pullVars, chartVars, bookVars>>
    /\ UNCHANGED <<tradingVars, desk>>

Next == Trading \/ Keeping

Spec == Init /\ [][Next]_vars
=============================================================================
