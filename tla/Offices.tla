------------------------------ MODULE Offices ------------------------------
(***************************************************************************)
(* The parts of the program that neither trade nor talk to the exchange:   *)
(* the research algorithms, the strategy hub, the chat desk, the two       *)
(* halves of the web application, the configuration row and the news room. *)
(* They share no state, so a behaviour follows one of them: `desk' says    *)
(* which, the others stay in one of their initial states, and the          *)
(* interleavings of two desks, which nothing could tell apart, are left    *)
(* out.                                                                    *)
(***************************************************************************)
EXTENDS Research, StrategyHub, ChatDesk, WebCache, WebForms, ConfigRow, Newsroom

VARIABLE desk

labVars == <<job, hubVars>>
pageVars == <<webVars, formVars>>
roomVars == <<chatVars, configVars, newsVars>>

vars == <<labVars, pageVars, roomVars, desk>>

----------------------------------------------------------------------------
(* An initial state for the desks a behaviour does not follow.             *)

ResearchIdle ==
    job = [kind |-> "regime", in |-> [d \in 1 .. 6 |-> CHOOSE c \in Closes : TRUE], out |-> <<>>]

HubIdle == HubInit /\ ~file.enabled

WebIdle ==
    LET s == CHOOSE s \in Sessions : TRUE
        front == Shown[s[1]] \cup {"overview"}
    IN  /\ pages = {s[1], s[2]} /\ screen = s[1]
        /\ shelf = [q \in Shown[s[2]] \cup front |-> IF q \in front THEN Asking(NothingOf) ELSE NothingOf]
        /\ topic = [t \in {Hooks[q].about : q \in DOMAIN shelf} |-> 0] /\ own = topic
        /\ deed = NoData /\ acts = 0 /\ moves = 0 /\ lapses = 0

FormIdle == FormInit /\ page = "strategy" /\ server.mode = "testnet" /\ server.lots = {}

ConfigIdle == ConfigInit /\ row = NoRow

NewsIdle == NewsInit /\ subject = "news"

----------------------------------------------------------------------------
Init ==
    /\ desk \in {"research", "hub", "chat", "web", "forms", "config", "news"}
    /\ IF desk = "research" THEN ResearchInit ELSE ResearchIdle
    /\ IF desk = "hub" THEN HubInit ELSE HubIdle
    /\ ChatInit
    /\ IF desk = "web" THEN WebInit ELSE WebIdle
    /\ IF desk = "forms" THEN FormInit ELSE FormIdle
    /\ IF desk = "config" THEN ConfigInit ELSE ConfigIdle
    /\ IF desk = "news" THEN NewsInit ELSE NewsIdle

Lab ==
    /\ \/ desk = "research" /\ ResearchNext /\ UNCHANGED hubVars
       \/ desk = "hub" /\ HubNext /\ UNCHANGED job
    /\ UNCHANGED <<pageVars, roomVars, desk>>

Pages ==
    /\ \/ desk = "web" /\ WebNext /\ UNCHANGED formVars
       \/ desk = "forms" /\ FormNext /\ UNCHANGED webVars
    /\ UNCHANGED <<labVars, roomVars, desk>>

Rooms ==
    /\ \/ desk = "chat" /\ ChatNext /\ UNCHANGED <<configVars, newsVars>>
       \/ desk = "config" /\ ConfigNext /\ UNCHANGED <<chatVars, newsVars>>
       \/ desk = "news" /\ NewsNext /\ UNCHANGED <<chatVars, configVars>>
    /\ UNCHANGED <<labVars, pageVars, desk>>

Next == Lab \/ Pages \/ Rooms

Spec == Init /\ [][Next]_vars
=============================================================================
