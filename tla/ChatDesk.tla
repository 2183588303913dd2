------------------------------ MODULE ChatDesk ------------------------------
(***************************************************************************)
(* The chat robot of one group: feishu-bot.service.ts receives messages,   *)
(* drops repeated deliveries and queues them; feishu-agent.service.ts lets *)
(* the model work with tools (llm-chat.service.ts) and keeps the history;  *)
(* confirmation.store.ts holds the write actions the model asked for until *)
(* the group confirms, cancels or forgets them.  A message is its number   *)
(* and its kind; an action is the number of the message it came from, the  *)
(* tool and its place among the actions the model asked for in that turn.  *)
(***************************************************************************)
EXTENDS Integers, Sequences, FiniteSets, SequencesExt

CONSTANTS MaxMessages,  \* bound on the messages of the group
          MaxToolRounds,    \* LLM_MAX_TOOL_ROUNDS
          MaxHeld,      \* bound on the actions held back in a turn
          MaxNow,       \* bound on the clock, in units of the confirmation's life
          MaxTrouble,   \* bound on repeated deliveries, failures and restarts
          HistoryLimit, \* HISTORY_LIMIT
          Empty         \* no pending actions, no turn

ASSUME ChatAssumption ==
    /\ {MaxMessages, MaxToolRounds, MaxHeld, MaxNow, MaxTrouble} \subseteq Nat
    /\ HistoryLimit \in Nat \ {0}

VARIABLES said,         \* the messages of the group, in order: their kinds
          receipts,     \* the messages already received
          queue,        \* the messages waiting in the group's chain
          turn,         \* the message being processed
          pending,      \* the actions waiting for a confirmation
          session,      \* the stored history
          done,         \* the write actions executed, and the confirmation that did it
          handled,      \* the messages taken from the queue, in order
          now, trouble,
          cooling       \* the model failed and is not called

chatVars == <<said, receipts, queue, turn, pending, session, done, handled, now, trouble, cooling>>

Kinds == {"ask", "confirm", "cancel", "reset"}

\* The tools: those that read, the three that write, and external ones.
Tools == {"read", "write", "mcp"}

Intercepted(tool) == tool # "read"

\* A turn lets the model work on a question, or executes what was confirmed.
Talking(msg, history, rounds, held) ==
    [at |-> "model", msg |-> msg, history |-> history, rounds |-> rounds, held |-> held]

Executing(left, by) == [at |-> "execute", left |-> left, by |-> by]

Say ==
    /\ Len(said) < MaxMessages
    /\ \E kind \in Kinds : said' = Append(said, kind)
    /\ UNCHANGED <<handled, receipts, queue, turn, pending, session, done, now, trouble, cooling>>

\* The platform delivers a message, perhaps again; the receipt's key refuses the second.
Receive ==
    \E i \in DOMAIN said :
        /\ i \notin receipts
        /\ receipts' = receipts \cup {i}
        /\ queue' = Append(queue, i)
        /\ UNCHANGED <<handled, said, turn, pending, session, done, now, trouble, cooling>>

ReceiveAgain ==
    /\ trouble < MaxTrouble /\ trouble' = trouble + 1
    /\ \E i \in receipts : i \in DOMAIN said
    /\ UNCHANGED <<handled, said, receipts, queue, turn, pending, session, done, now, cooling>>

----------------------------------------------------------------------------
(* The pending actions.                                                    *)

Alive == IF pending = Empty THEN FALSE ELSE pending.expires > now

\* A push joins the actions that are still alive and starts their life anew.
Push(action) ==
    pending' = [actions |-> IF Alive THEN Append(pending.actions, action) ELSE <<action>>,
                expires |-> now + 1]

\* Mutant: the entry is left where it is until everything has been executed.
ConfirmKeeping ==
    /\ turn = Empty /\ queue # <<>> /\ said[Head(queue)] = "confirm"
    /\ queue' = Tail(queue)
    /\ handled' = Append(handled, Head(queue))
    /\ turn' = IF Alive THEN Executing(pending.actions, Head(queue)) ELSE Empty
    /\ UNCHANGED <<said, receipts, session, done, now, trouble, cooling, pending>>

\* The entry is taken out before anything is executed.
Confirm ==
    /\ turn = Empty /\ queue # <<>> /\ said[Head(queue)] = "confirm"
    /\ queue' = Tail(queue)
    /\ handled' = Append(handled, Head(queue))
    /\ pending' = Empty
    /\ turn' = IF Alive THEN Executing(pending.actions, Head(queue)) ELSE Empty
    /\ UNCHANGED <<said, receipts, session, done, now, trouble, cooling>>

\* Only the platform's own tools are known to the executor; a failure is reported
\* and the next action follows.
Execute ==
    /\ turn # Empty /\ turn.at = "execute"
    /\ LET a == Head(turn.left) IN
       \/ done' = IF a.tool = "write" THEN Append(done, [action |-> a, by |-> turn.by]) ELSE done
       \/ UNCHANGED done
    /\ turn' = IF Len(turn.left) = 1 THEN Empty ELSE Executing(Tail(turn.left), turn.by)
    /\ UNCHANGED <<handled, said, receipts, queue, pending, session, now, trouble, cooling>>

Cancel ==
    /\ turn = Empty /\ queue # <<>> /\ said[Head(queue)] = "cancel"
    /\ queue' = Tail(queue)
    /\ handled' = Append(handled, Head(queue))
    /\ pending' = Empty
    /\ UNCHANGED <<said, receipts, turn, session, done, now, trouble, cooling>>

Reset ==
    /\ turn = Empty /\ queue # <<>> /\ said[Head(queue)] = "reset"
    /\ queue' = Tail(queue)
    /\ handled' = Append(handled, Head(queue))
    /\ session' = <<>>
    /\ UNCHANGED <<said, receipts, turn, pending, done, now, trouble, cooling>>

----------------------------------------------------------------------------
(* A question: the history is read, the model is called round after round, *)
(* and the history is written back with the question and the answer.       *)

Ask ==
    /\ turn = Empty /\ queue # <<>> /\ said[Head(queue)] = "ask"
    /\ queue' = Tail(queue)
    /\ handled' = Append(handled, Head(queue))
    /\ turn' = IF cooling THEN Empty ELSE Talking(Head(queue), session, 0, 0)
    /\ UNCHANGED <<said, receipts, pending, session, done, now, trouble, cooling>>

Action(tool) == [msg |-> turn.msg, tool |-> tool, nth |-> turn.held + 1]

\* The model asks for tools, perhaps several in a round; one that writes is held back and
\* answered as pending, whether it was asked for before or not.
CallTool ==
    /\ turn # Empty /\ turn.at = "model"
    /\ \E tool \in Tools, round \in {turn.rounds, turn.rounds + 1} \cap 1 .. MaxToolRounds :
          IF Intercepted(tool)
            THEN /\ turn.held < MaxHeld
                 /\ Push(Action(tool))
                 /\ turn' = Talking(turn.msg, turn.history, round, turn.held + 1)
            ELSE /\ turn' = Talking(turn.msg, turn.history, round, turn.held)
                 /\ UNCHANGED pending
    /\ UNCHANGED <<handled, said, receipts, queue, session, done, now, trouble, cooling>>

\* The newest of the history, the question and the answer.
RememberedTurns(history, msg) ==
    LET all == Append(Append(history, <<"user", msg>>), <<"assistant", msg>>)
    IN  IF Len(all) <= HistoryLimit THEN all
        ELSE SubSeq(all, Len(all) - HistoryLimit + 1, Len(all))

\* An answer, or the fixed sentence after the last round.
Answer ==
    /\ turn # Empty /\ turn.at = "model"
    /\ session' = RememberedTurns(turn.history, turn.msg)
    /\ turn' = Empty
    /\ UNCHANGED <<handled, said, receipts, queue, pending, done, now, trouble, cooling>>

\* The model cannot be reached after the retries: no answer, no history, a pause.
ModelFails ==
    /\ turn # Empty /\ turn.at = "model" /\ turn.rounds < MaxToolRounds
    /\ trouble < MaxTrouble /\ trouble' = trouble + 1
    /\ turn' = Empty /\ cooling' = TRUE
    /\ UNCHANGED <<handled, said, receipts, queue, pending, session, done, now>>

----------------------------------------------------------------------------
Tick ==
    /\ now < MaxNow /\ now' = now + 1
    /\ cooling' = FALSE
    /\ UNCHANGED <<handled, said, receipts, queue, turn, pending, session, done, trouble>>

\* Memory is lost, receipts and history are not: what was queued is never processed.
Restart ==
    /\ trouble < MaxTrouble /\ trouble' = trouble + 1
    /\ queue' = <<>> /\ turn' = Empty /\ pending' = Empty /\ cooling' = FALSE
    /\ UNCHANGED <<handled, said, receipts, session, done, now>>

ChatInit ==
    /\ said = <<>> /\ receipts = {} /\ queue = <<>> /\ turn = Empty /\ pending = Empty
    /\ session = <<>> /\ done = <<>> /\ handled = <<>> /\ now = 0 /\ trouble = 0 /\ cooling = FALSE

ChatNext ==
    \/ Say \/ Receive \/ ReceiveAgain \/ Confirm \/ Execute \/ Cancel \/ Reset
    \/ Ask \/ CallTool \/ Answer \/ ModelFails \/ Tick \/ Restart

ChatSpec == ChatInit /\ [][ChatNext]_chatVars

----------------------------------------------------------------------------
\* Whatever is delivered twice, restarted or confirmed again: a write action is
\* executed at most once, for a confirmation that was handled after the question
\* it came from, with no cancellation in between.
ConfirmedOnce ==
    /\ \A i, j \in DOMAIN done : done[i].action = done[j].action => i = j
    /\ \A i \in DOMAIN done :
          \E a, c \in DOMAIN handled :
             /\ a < c /\ handled[a] = done[i].action.msg /\ handled[c] = done[i].by
             /\ said[done[i].by] = "confirm"
             /\ \A k \in a .. c : said[handled[k]] # "cancel"
=============================================================================
