------------------------------- MODULE Venue -------------------------------
(***************************************************************************)
(* The futures adapter between the platform and the exchange: the position *)
(* mode it remembers, the switch to hedge mode before a strategy starts,   *)
(* and the placing of market orders, whose parameters depend on that mode  *)
(* and whose requests are sent again when no answer comes.                 *)
(*                                                                         *)
(* The exchange is external: a request may be lost before it arrives or    *)
(* its answer may be lost on the way back; the exchange knows a client     *)
(* order id it has seen (KeepsIds), rejects parameters that do not fit the *)
(* mode of the account, and keeps one leg for each side in hedge mode and  *)
(* one net position in one-way mode.                                       *)
(***************************************************************************)
EXTENDS Registry

CONSTANTS
  Orders,    \* orders to place
  Act,       \* what an order is for: [Orders -> {"open", "close"}]
  Leg,       \* the leg it is for: [Orders -> Legs]
  KeepsIds,  \* does the exchange refuse a client order id it has seen
  Attempts,  \* requests sent for one call (3 in withRetry)
  Backoffs   \* rounds of ensureHedgeMode (4 in the code)

Legs == {"LONG", "SHORT"}
Other(l) == CHOOSE x \in Legs : x # l

ASSUME VenueAssumption ==
  /\ Act \in [Orders -> {"open", "close"}] /\ Leg \in [Orders -> Legs]
  /\ KeepsIds \in BOOLEAN /\ Attempts \in Nat \ {0} /\ Backoffs \in Nat \ {0}

VARIABLES
  order,     \* placeOrder() of every order: control and local variables
  ensure,    \* ensureHedgeMode()
  dual,      \* external: is the account of an environment in hedge mode
  legs,      \* external: its position, in one lot sizes
  executed,  \* external: the fills of every order, as changes of the legs
  switched   \* history: the mode was changed at the exchange by hand

venueVars == <<order, ensure, dual, legs, executed, switched>>

Envs == {acc.env : acc \in Accounts}
Call == [pc: {"idle", "row", "mode", "send", "ask", "post", "done", "failed"},
         account: Accounts, adapter: Handles \cup {NoAdapter},
         mode: Modes, tries: 0..Attempts, round: 0..Backoffs]
NoCall == [pc |-> "idle", account |-> FromEnv, adapter |-> NoAdapter,
           mode |-> "unknown", tries |-> 0, round |-> 0]

VenueInit ==
  /\ order = [o \in Orders |-> NoCall]
  /\ ensure = NoCall
  /\ \E d \in BOOLEAN, l \in Legs, q \in 0..1 :
       /\ dual = [e \in Envs |-> d]
       /\ legs = [e \in Envs |-> [x \in Legs |-> IF x = l THEN q ELSE 0]]
  /\ executed = [o \in Orders |-> <<>>]
  /\ switched = FALSE

EnvOf(call) == adapters[call.adapter].account.env

(***************************************************************************)
(* The registry's get(), for an order or for the switch: `next' is where   *)
(* the call goes on.                                                       *)
(***************************************************************************)
Got(call, next) == [call EXCEPT !.pc = next, !.adapter = cache]
Reading(call) == [call EXCEPT !.pc = "row", !.account = saved]
Made(call, next) ==
  [call EXCEPT !.pc = next, !.adapter = Len(adapters) + 1]

(***************************************************************************)
(* getPositionMode(): the mode the adapter remembers, or the answer of the *)
(* exchange; without one the account is taken for one-way, which is not    *)
(* remembered.                                                             *)
(***************************************************************************)
ModeWithoutAnswer == "one-way"

ModeOf(env) == IF dual[env] THEN "hedge" ELSE "one-way"

ReadMode(a, answered, mode) ==
  LET known == adapters[a].mode IN
  \/ /\ known # "unknown"
     /\ ~answered
     /\ mode = known
     /\ UNCHANGED adapters
  \/ /\ known = "unknown"
     /\ answered
     /\ mode = ModeOf(adapters[a].account.env)
     /\ Remember(a, mode)
  \/ /\ known = "unknown"
     /\ ~answered
     /\ mode = ModeWithoutAnswer
     /\ UNCHANGED adapters

(***************************************************************************)
(* The parameters of a market order.  In hedge mode the leg says which     *)
(* position is meant and reduceOnly must not be sent; in one-way mode the  *)
(* leg must not be sent and reduceOnly keeps a close from opening.         *)
(***************************************************************************)
Side(o) == IF (Act[o] = "open") = (Leg[o] = "LONG") THEN "BUY" ELSE "SELL"

\* mutant: reduceOnly is never sent
PayloadWithoutReduceOnly(o, mode) ==
  [side |-> Side(o), positionSide |-> IF mode = "hedge" THEN {Leg[o]} ELSE {},
   reduceOnly |-> FALSE, id |-> {o}]

\* mutant: the client order id is not sent
PayloadWithoutId(o, mode) ==
  [side |-> Side(o), positionSide |-> IF mode = "hedge" THEN {Leg[o]} ELSE {},
   reduceOnly |-> mode # "hedge" /\ Act[o] = "close", id |-> {}]

Payload(o, mode) ==
  [side |-> Side(o),
   positionSide |-> IF mode = "hedge" THEN {Leg[o]} ELSE {},
   reduceOnly |-> mode # "hedge" /\ Act[o] = "close",
   id |-> {o}]

Shift(e, leg, by) == legs' = [legs EXCEPT ![e][leg] = @ + by]

Fits(e, p) == /\ dual[e] <=> p.positionSide # {}
              /\ dual[e] => ~p.reduceOnly

Known(p) == KeepsIds /\ \E o \in p.id : executed[o] # <<>>

\* the leg an accepted request moves, and by how much; empty when rejected
Effect(e, p) ==
  LET buys == IF p.side = "BUY" THEN "LONG" ELSE "SHORT"
      against == Other(buys)
      moves == IF dual[e]
                 THEN {[leg |-> l, by |-> IF l = buys THEN 1 ELSE -1] : l \in p.positionSide}
                 ELSE IF legs[e][against] > 0 THEN {[leg |-> against, by |-> -1]}
                 ELSE IF p.reduceOnly THEN {} ELSE {[leg |-> buys, by |-> 1]}
  IN  IF ~Fits(e, p) \/ Known(p) THEN {}
      ELSE {x \in moves : legs[e][x.leg] + x.by >= 0}

Execute(o, e, p) ==
  \/ \E x \in Effect(e, p) :
       /\ Shift(e, x.leg, x.by)
       /\ executed' = [executed EXCEPT ![o] = Append(@, x)]
  \/ Effect(e, p) = {} /\ UNCHANGED <<legs, executed>>

(***************************************************************************)
(* withRetry(): an answer, good or bad, ends the call; without one the     *)
(* same signed request is sent again, at most Attempts times.              *)
(***************************************************************************)
Unanswered(call) ==
  [call EXCEPT !.tries = @ + 1,
               !.pc = IF call.tries + 1 = Attempts THEN "failed" ELSE @]

PlaceOrder(o) ==
  /\ order[o].pc = "idle"
  /\ order' = [order EXCEPT ![o] = IF Hit THEN Got(@, "mode") ELSE Reading(@)]
  /\ UNCHANGED <<registryVars, ensure, dual, legs, executed, switched>>

OrderAdapter(o) ==
  /\ order[o].pc = "row"
  /\ Create(order[o].account)
  /\ order' = [order EXCEPT ![o] = Made(@, "mode")]
  /\ UNCHANGED <<saved, stale, budget, ensure, dual, legs, executed, switched>>

OrderMode(o) ==
  /\ order[o].pc = "mode"
  /\ \E answered \in BOOLEAN, mode \in Modes \ {"unknown"} :
       /\ ReadMode(order[o].adapter, answered, mode)
       /\ order' = [order EXCEPT ![o].pc = "send", ![o].mode = mode]
  /\ UNCHANGED <<saved, cache, stale, budget, ensure, dual, legs, executed, switched>>

SendOrder(o) ==
  LET e == EnvOf(order[o])
      p == Payload(o, order[o].mode)
      answer == IF Effect(e, p) = {} THEN "failed" ELSE "done"
  IN  /\ order[o].pc = "send"
      /\ \/ /\ Execute(o, e, p)
            /\ order' = [order EXCEPT ![o].pc = answer]
            /\ UNCHANGED budget
         \/ /\ Happens                       \* the answer is lost
            /\ Execute(o, e, p)
            /\ order' = [order EXCEPT ![o] = Unanswered(@)]
         \/ /\ Happens                       \* the request is lost
            /\ order' = [order EXCEPT ![o] = Unanswered(@)]
            /\ UNCHANGED <<legs, executed>>
      /\ UNCHANGED <<saved, adapters, cache, stale, ensure, dual, switched>>

(***************************************************************************)
(* ensureHedgeMode() and setPositionMode(true), before a strategy starts.  *)
(***************************************************************************)
EnsureHedgeMode ==
  /\ ensure.pc = "idle"
  /\ ensure' = IF Hit THEN Got(ensure, "ask") ELSE Reading(ensure)
  /\ UNCHANGED <<registryVars, order, dual, legs, executed, switched>>

EnsureAdapter ==
  /\ ensure.pc = "row"
  /\ Create(ensure.account)
  /\ ensure' = Made(ensure, "ask")
  /\ UNCHANGED <<saved, stale, budget, order, dual, legs, executed, switched>>

AskMode ==
  /\ ensure.pc = "ask"
  /\ \E answered \in BOOLEAN, mode \in Modes \ {"unknown"} :
       /\ ReadMode(ensure.adapter, answered, mode)
       /\ ensure' = [ensure EXCEPT !.pc = IF mode = "hedge" THEN "done" ELSE "post",
                                   !.mode = mode, !.tries = 0]
  /\ UNCHANGED <<saved, cache, stale, budget, order, dual, legs, executed, switched>>

\* a network failure starts another round, as long as there is one
NextRound(call) ==
  IF call.tries + 1 < Attempts THEN [call EXCEPT !.tries = @ + 1]
  ELSE IF call.round + 1 < Backoffs THEN [call EXCEPT !.pc = "ask", !.round = @ + 1]
  ELSE [call EXCEPT !.pc = "failed"]

Flat(e) == \A l \in Legs : legs[e][l] = 0

\* what the exchange does with the switch: the mode of an account with a
\* position cannot change, and an account that is there already says so
CanSwitch(e) == ~dual[e] /\ Flat(e)

PostMode ==
  LET e == EnvOf(ensure) IN
  /\ ensure.pc = "post"
  /\ \/ /\ CanSwitch(e) \/ dual[e]           \* switched, or -4059: nothing to do
        /\ dual' = [dual EXCEPT ![e] = TRUE]
        /\ Remember(ensure.adapter, "hedge")
        /\ ensure' = [ensure EXCEPT !.pc = "done"]
        /\ UNCHANGED budget
     \/ /\ ~CanSwitch(e) /\ ~dual[e]         \* -4067: an order or position is open
        /\ ensure' = [ensure EXCEPT !.pc = "failed"]
        /\ UNCHANGED <<adapters, dual, budget>>
     \/ /\ Happens                           \* the request or its answer is lost
        /\ dual' \in {dual, [dual EXCEPT ![e] = @ \/ CanSwitch(e)]}
        /\ ensure' = NextRound(ensure)
        /\ UNCHANGED adapters
  /\ UNCHANGED <<saved, cache, stale, order, legs, executed, switched>>

\* the mode is changed in the exchange's own application
SwitchByHand(e) ==
  /\ Happens
  /\ Flat(e)
  /\ dual' = [dual EXCEPT ![e] = ~@]
  /\ switched' = TRUE
  /\ UNCHANGED <<saved, adapters, cache, stale, order, ensure, legs, executed>>

VenueNext ==
  \/ \E o \in Orders : PlaceOrder(o) \/ OrderAdapter(o) \/ OrderMode(o) \/ SendOrder(o)
  \/ EnsureHedgeMode \/ EnsureAdapter \/ AskMode \/ PostMode
  \/ \E e \in Envs : SwitchByHand(e)
  \/ (SaveSettings \/ SettingsSaved) /\ UNCHANGED venueVars

(***************************************************************************)
(* Properties.                                                             *)
(***************************************************************************)

(* The requests of one order are executed at most once, although a request *)
(* whose answer is lost is sent again (withRetry around every signed       *)
(* call): the client order id makes the second one a duplicate.            *)
OrderOnce == \A o \in Orders : Len(executed[o]) <= 1

(* "At worst a parameter is asked for, the direction is never wrong"       *)
(* (getPositionMode): with a mode that was guessed, remembered for too     *)
(* long or read from another account, a close only reduces its own leg and *)
(* an open never increases the opposite one.                               *)
NeverWrongSide ==
  \A o \in Orders : \A i \in DOMAIN executed[o] :
    LET x == executed[o][i] IN
    IF Act[o] = "close" THEN x = [leg |-> Leg[o], by |-> -1]
    ELSE x.leg = Leg[o] \/ x.by = -1

(* A start that was told the account is in hedge mode finds it so, with    *)
(* lost answers, repeated switches and a mode that could not be read,      *)
(* unless somebody changed it at the exchange meanwhile.                   *)
HedgeEnsured ==
  ensure.pc = "done" => dual[EnvOf(ensure)] \/ switched

(* Orders and the switch agree with the account on the sides of a position. *)
SidesAreRight == NeverWrongSide /\ HedgeEnsured
=============================================================================
