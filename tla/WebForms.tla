------------------------------ MODULE WebForms ------------------------------
(***************************************************************************)
(* The forms of the admin pages that act on the server after a question:   *)
(* starting a strategy (AdminStrategy.tsx, MobileStrategy.tsx), closing    *)
(* the basket or a position row, the draft of the trade parameters         *)
(* (AdminFutures.tsx) and the listing of a strategy with the reason that   *)
(* overrides its gate (AdminStrategyGovernance.tsx).  The user goes on     *)
(* while a request is under way, and another admin changes the server.     *)
(***************************************************************************)
EXTENDS Integers, Sequences, FiniteSets, SequencesExt

CONSTANTS Symbols,      \* trading pairs
          Platform,     \* the pair of the platform's configuration
          Listable,     \* strategies whose gate refuses them
          MaxPosts,     \* page -> bound on the requests of the user
          MaxEdits,     \* bound on what the user types
          MaxOthers,    \* bound on the other admin's changes
          Nothing       \* no dialog, no question, no draft, no reason

ASSUME FormAssumption == Platform \in Symbols /\ {MaxEdits, MaxOthers} \subseteq Nat

VARIABLES
  page,       \* the page this session is on: "strategy", "futures" or "governance"
  server,     \* [mode, leverage, running, lots, listed]
  seen,       \* the configuration and the status the browser shows
  starting,   \* the start dialog: the pair in it and whose parameters it shows, or Nothing
  question,   \* the confirmation on screen and what it would do, or Nothing
  draft,      \* the trade parameters being edited, or Nothing
  gate,       \* the override box: the strategy and the reason typed, or Nothing
  posts,      \* requests under way
  submitting, \* the flag of the listing page that an enabling is under way
  edits, sent, others,
  touched     \* history: the fields the user changed in the draft

formVars == <<page, server, seen, starting, question, draft, gate, posts, submitting, edits, sent, others, touched>>

Modes == {"testnet", "live"}
Leverages == {1, 2}

----------------------------------------------------------------------------
(* Requests.                                                               *)

\* `asked` is the pair the user had chosen, `agreed` whether the user was asked about
\* real money: both are history, the server sees neither.
StartCall(symbol, adopt, asked) == [call |-> "start", symbol |-> symbol, adopt |-> adopt, asked |-> asked]
SaveCall(patch) == [call |-> "save", patch |-> patch, agreed |-> FALSE]
CloseCall(symbols) == [call |-> "close", symbols |-> symbols]
ListCall(s, reason) == [call |-> "list", strategy |-> s, reason |-> reason]
PlainCall(name) == [call |-> name]

Send(c) == /\ sent < MaxPosts[page] /\ sent' = sent + 1
           /\ posts' = Append(posts, [c |-> c, at |-> "asked", says |-> "ok"])
           /\ submitting' = (submitting \/ c.call = "list")

\* The end of any enabling lowers the flag, also while another is under way.
Ends(i) == posts' = RemoveAt(posts, i) /\ submitting' = (submitting /\ posts[i].c.call # "list")

AskFor(about, c) == question' = [about |-> about, c |-> c]

\* Real money is asked about when the page shows that the mode is live; a page that has
\* not loaded the configuration shows none.
ConfirmLiveIfNeeded(c) ==
    IF seen.mode = "live" THEN AskFor("live", c) /\ UNCHANGED <<posts, submitting, sent>>
                          ELSE Send(c) /\ question' = Nothing

----------------------------------------------------------------------------
(* Starting and stopping.                                                  *)

\* The parameters of the instance of that pair, or the defaults.
ValuesFor(symbol) == IF symbol \in seen.running THEN symbol ELSE Nothing

OpenConfig ==
    /\ page = "strategy" /\ question = Nothing /\ starting = Nothing
    /\ starting' = [symbol |-> Platform, params |-> ValuesFor(Platform), byHand |-> FALSE]
    /\ UNCHANGED <<page, server, seen, question, draft, gate, posts, submitting, edits, sent, others, touched>>

\* Another pair refills the parameters unless the user has touched one.
ChangeSymbol ==
    /\ starting # Nothing /\ question = Nothing /\ edits < MaxEdits /\ edits' = edits + 1
    /\ \E s \in Symbols :
          starting' = [starting EXCEPT !.symbol = s,
                                       !.params = IF starting.byHand THEN @ ELSE ValuesFor(s)]
    /\ UNCHANGED <<page, server, seen, question, draft, gate, posts, submitting, sent, others, touched>>

ChangeParam ==
    /\ starting # Nothing /\ question = Nothing /\ edits < MaxEdits /\ edits' = edits + 1
    /\ starting' = [starting EXCEPT !.byHand = TRUE]
    /\ UNCHANGED <<page, server, seen, question, draft, gate, posts, submitting, sent, others, touched>>

CancelConfig ==
    /\ starting # Nothing /\ question = Nothing /\ starting' = Nothing
    /\ UNCHANGED <<page, server, seen, question, draft, gate, posts, submitting, edits, sent, others, touched>>

\* The dialog's button names its pair.
SubmitConfig ==
    /\ starting # Nothing /\ question = Nothing
    /\ ConfirmLiveIfNeeded(StartCall(starting.symbol, FALSE, starting.symbol))
    /\ UNCHANGED <<page, server, seen, starting, draft, gate, edits, others, touched>>

\* The card of the desktop page opens the dialog while anything runs; otherwise it
\* starts the platform's pair, and so does the phone's page.
QuickStart ==
    /\ page = "strategy" /\ question = Nothing /\ starting = Nothing /\ seen.running = {}
    /\ ConfirmLiveIfNeeded(StartCall(Nothing, FALSE, Platform))
    /\ UNCHANGED <<page, server, seen, starting, draft, gate, edits, others, touched>>

Stop ==
    /\ page = "strategy" /\ question = Nothing /\ Send(PlainCall("stop"))
    /\ UNCHANGED <<page, server, seen, starting, question, draft, gate, edits, others, touched>>

CloseBasket ==
    /\ page = "strategy" /\ question = Nothing /\ AskFor("closeBasket", PlainCall("closeBasket"))
    /\ UNCHANGED <<page, server, seen, starting, draft, gate, posts, submitting, edits, sent, others, touched>>

\* A row of the positions is closed lot by lot, with the lots the page shows.
CloseRow ==
    /\ page = "futures" /\ question = Nothing /\ seen.lots # {} /\ AskFor("closeRow", CloseCall(seen.lots))
    /\ UNCHANGED <<page, server, seen, starting, draft, gate, posts, submitting, edits, sent, others, touched>>

Disable ==
    /\ page = "governance" /\ question = Nothing /\ \E s \in seen.listed : AskFor("disable", [call |-> "unlist", strategy |-> s])
    /\ UNCHANGED <<page, server, seen, starting, draft, gate, posts, submitting, edits, sent, others, touched>>

\* A take-over asks about real money again.
Accept ==
    /\ question # Nothing
    /\ CASE question.about = "blocked" -> ConfirmLiveIfNeeded(question.c)
         [] question.about = "goLive" -> Send([question.c EXCEPT !.agreed = TRUE]) /\ question' = Nothing
         [] OTHER -> Send(question.c) /\ question' = Nothing
    /\ UNCHANGED <<page, server, seen, starting, draft, gate, edits, others, touched>>

Dismiss ==
    /\ question # Nothing /\ question' = Nothing
    /\ UNCHANGED <<page, server, seen, starting, draft, gate, posts, submitting, edits, sent, others, touched>>

----------------------------------------------------------------------------
(* The draft of the trade parameters.                                      *)

Cur == IF draft = Nothing THEN [mode |-> seen.mode, leverage |-> seen.leverage] ELSE draft

\* An edit copies the fields shown beside it into the draft.
EditDraft ==
    /\ page = "futures" /\ question = Nothing /\ seen.loaded /\ edits < MaxEdits /\ edits' = edits + 1
    /\ \/ \E m \in Modes : draft' = [Cur EXCEPT !.mode = m] /\ touched' = touched \cup {"mode"}
       \/ \E l \in Leverages : draft' = [Cur EXCEPT !.leverage = l] /\ touched' = touched \cup {"leverage"}
    /\ UNCHANGED <<page, server, seen, starting, question, gate, posts, submitting, sent, others>>

ResetDraft ==
    /\ draft # Nothing /\ question = Nothing /\ draft' = Nothing /\ touched' = {}
    /\ UNCHANGED <<page, server, seen, starting, question, gate, posts, submitting, edits, sent, others>>

\* What differs from what is shown.
Patch == [f \in {"mode", "leverage"} |-> IF Cur[f] = seen[f] THEN Nothing ELSE Cur[f]]

\* Mutant: going live does not ask.
SaveUnasked ==
    /\ question = Nothing /\ seen.loaded
    /\ \E f \in DOMAIN Patch : Patch[f] # Nothing
    /\ Send(SaveCall(Patch)) /\ UNCHANGED question
    /\ UNCHANGED <<page, server, seen, starting, draft, gate, edits, others, touched>>

\* Going live asks; the question keeps the patch of the click.
SaveTradeParams ==
    /\ question = Nothing /\ seen.loaded
    /\ \E f \in DOMAIN Patch : Patch[f] # Nothing
    /\ IF Patch.mode = "live" THEN AskFor("goLive", SaveCall(Patch)) /\ UNCHANGED <<posts, submitting, sent>>
                              ELSE Send(SaveCall(Patch)) /\ UNCHANGED question
    /\ UNCHANGED <<page, server, seen, starting, draft, gate, edits, others, touched>>

----------------------------------------------------------------------------
(* The listing.                                                            *)

TryEnable ==
    /\ page = "governance" /\ question = Nothing /\ gate = Nothing
    /\ \E s \in Listable \ seen.listed : Send(ListCall(s, Nothing))
    /\ UNCHANGED <<page, server, seen, starting, question, draft, gate, edits, others, touched>>

\* `reason` names the strategy it was typed for.
TypeReason ==
    /\ IF gate = Nothing THEN FALSE ELSE gate.reason = Nothing
    /\ gate' = [strategy |-> gate.strategy, reason |-> gate.strategy]
    /\ UNCHANGED <<page, server, seen, starting, question, draft, posts, submitting, edits, sent, others, touched>>

\* The button is off while the flag is up, and until a reason is typed.
Override ==
    /\ IF gate = Nothing THEN FALSE ELSE gate.reason # Nothing
    /\ ~submitting
    /\ Send(ListCall(gate.strategy, gate.reason))
    /\ UNCHANGED <<page, server, seen, starting, question, draft, gate, edits, others, touched>>

CancelGate ==
    /\ gate # Nothing /\ gate' = Nothing
    /\ UNCHANGED <<page, server, seen, starting, question, draft, posts, submitting, edits, sent, others, touched>>

\* A refusal by the gate opens the box, with no reason; a listing closes it.
GateAfter(c, says) ==
    CASE says = "gated" -> [strategy |-> c.strategy, reason |-> Nothing]
      [] says = "ok" -> Nothing
      [] OTHER -> gate

----------------------------------------------------------------------------
(* The server and its answers.                                             *)

SymbolOf(c) == IF c.symbol = Nothing THEN Platform ELSE c.symbol

\* An instance that runs is refused; lots of the pair that nobody owns block a start
\* that does not take them over.
StartSays(c) ==
    CASE SymbolOf(c) \in server.running -> "refused"
      [] SymbolOf(c) \in server.lots /\ ~c.adopt -> "blocked"
      [] OTHER -> "ok"

ServerAfter(c) ==
    CASE c.call = "start" ->
           IF StartSays(c) = "ok" THEN [server EXCEPT !.running = @ \cup {SymbolOf(c)}, !.lots = @ \ {SymbolOf(c)}]
                                  ELSE server
      [] c.call = "stop" -> [server EXCEPT !.running = {}]
      [] c.call = "close" -> [server EXCEPT !.lots = @ \ c.symbols]
      [] c.call = "save" -> [server EXCEPT !.mode = IF c.patch.mode = Nothing THEN @ ELSE c.patch.mode,
                                           !.leverage = IF c.patch.leverage = Nothing THEN @ ELSE c.patch.leverage]
      [] c.call = "list" -> [server EXCEPT !.listed = IF c.reason = Nothing THEN @ ELSE @ \cup {c.strategy}]
      [] c.call = "unlist" -> [server EXCEPT !.listed = @ \ {c.strategy}]
      [] OTHER -> server

Says(c) == CASE c.call = "start" -> StartSays(c)
             [] c.call = "list" /\ c.reason = Nothing -> "gated"
             [] OTHER -> "ok"

ServerHandles ==
    /\ \E i \in DOMAIN posts :
          /\ posts[i].at = "asked"
          /\ server' = ServerAfter(posts[i].c)
          /\ posts' = [posts EXCEPT ![i] = [c |-> @.c, at |-> "answered", says |-> Says(@.c)]]
    /\ UNCHANGED <<page, seen, starting, question, draft, gate, submitting, edits, sent, others, touched>>

\* What the answer of a start does: the list of lots offers a take-over - without the
\* pair that was chosen - and a start closes the dialog.
StartAnswered(c, says) ==
    CASE says = "blocked" -> AskFor("blocked", StartCall(Nothing, TRUE, c.asked)) /\ UNCHANGED starting
      [] says = "ok" -> starting' = Nothing /\ UNCHANGED question
      [] OTHER -> UNCHANGED <<starting, question>>

\* A saved draft gives way to what the server says.  The pages cover each other's
\* questions, so an answer waits for none.
Answered ==
    /\ \E i \in DOMAIN posts :
          LET p == posts[i]
              c == p.c
          IN /\ p.at = "answered" /\ Ends(i)
             /\ IF c.call = "start" THEN StartAnswered(c, p.says) ELSE UNCHANGED <<starting, question>>
             /\ draft' = IF c.call = "save" THEN Nothing ELSE draft
             /\ touched' = IF c.call = "save" THEN {} ELSE touched
             /\ gate' = IF c.call = "list" THEN GateAfter(c, p.says) ELSE gate
    /\ UNCHANGED <<page, server, seen, edits, sent, others>>

\* The request or its answer is lost: an error is shown and every form stays as it was.
Lost ==
    /\ \E i \in DOMAIN posts : Ends(i)
    /\ UNCHANGED <<page, server, seen, starting, question, draft, gate, edits, sent, others, touched>>

\* A poll or an invalidation brings the configuration, the status and the lots.
Refresh ==
    /\ seen' = [mode |-> server.mode, leverage |-> server.leverage, running |-> server.running,
                lots |-> server.lots, listed |-> server.listed, loaded |-> TRUE]
    /\ UNCHANGED <<page, server, starting, question, draft, gate, posts, submitting, edits, sent, others, touched>>

OtherAdmin ==
    /\ others < MaxOthers /\ others' = others + 1
    /\ \/ \E l \in Leverages : server' = [server EXCEPT !.leverage = l]
       \/ server' = [server EXCEPT !.mode = "testnet"]
       \/ \E s \in Symbols : server' = [server EXCEPT !.lots = @ \cup {s}]
    /\ UNCHANGED <<page, seen, starting, question, draft, gate, posts, submitting, edits, sent, touched>>

FormInit ==
    /\ page \in {"strategy", "futures", "governance"}
    /\ server \in [mode : Modes, leverage : {1}, running : {{}}, lots : {{}, Symbols}, listed : {{}}]
    /\ seen = [mode |-> Nothing, leverage |-> Nothing, running |-> {}, lots |-> {}, listed |-> {}, loaded |-> FALSE]
    /\ starting = Nothing /\ question = Nothing /\ draft = Nothing /\ gate = Nothing
    /\ posts = <<>> /\ submitting = FALSE /\ edits = 0 /\ sent = 0 /\ others = 0 /\ touched = {}

FormNext ==
    \/ OpenConfig \/ ChangeSymbol \/ ChangeParam \/ CancelConfig \/ SubmitConfig \/ QuickStart
    \/ Stop \/ CloseBasket \/ CloseRow \/ Disable \/ Accept \/ Dismiss
    \/ EditDraft \/ ResetDraft \/ SaveTradeParams
    \/ TryEnable \/ TypeReason \/ Override \/ CancelGate
    \/ ServerHandles \/ Answered \/ Lost \/ Refresh \/ OtherAdmin

FormSpec == FormInit /\ [][FormNext]_formVars

----------------------------------------------------------------------------
\* The mode goes to live only by a save whose user has agreed to trade real money,
\* whatever the page showed, whoever changed the mode meanwhile and however the edits,
\* the refreshes and the saves interleave.
LiveIsAgreed ==
    [][(server.mode # "live" /\ server'.mode = "live") =>
          \E i \in DOMAIN posts : posts[i].at = "asked" /\ posts'[i].at = "answered"
                                    /\ posts[i].c.call = "save" /\ posts[i].c.agreed]_formVars

\* A listing that overrides the gate carries a reason typed for that strategy, though the
\* answer for one strategy may replace the box while the reason for another is typed.
OverrideHasOwnReason ==
    \A i \in DOMAIN posts :
        posts[i].c.call = "list" => posts[i].c.reason \in {Nothing, posts[i].c.strategy}

\* The change of the mode and the overridden listing are what their user agreed to.  A start
\* asks about real money by what the page shows, and is held to nothing here.
ConsentHolds == LiveIsAgreed /\ []OverrideHasOwnReason
=============================================================================
