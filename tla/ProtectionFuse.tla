---------------------------- MODULE ProtectionFuse ----------------------------
(***************************************************************************)
(* The protective stops ("fuses") of futures-trading.service.ts: a lot     *)
(* that is opened gets a reduce-only stop order at Binance, one that is    *)
(* closed loses it, and reconcileProtections repairs what was missed.      *)
(*                                                                         *)
(* Workers open lots (placeOrder, syncPendingFills and repairMissingLots   *)
(* end in the same two calls), close them, record fuses that were          *)
(* triggered and cancel fuses together with the other orders of a stopped  *)
(* instance.  Rounds are runs of reconcileProtections, started every five  *)
(* minutes and not awaited.  A task is cut at the awaits; what remains to  *)
(* be done after a call is in its field `rest`.                            *)
(*                                                                         *)
(* Prices are left out, and with them the lots whose strategy asks for no  *)
(* fuse.  An identifier of a fuse is used again once nothing refers to it, *)
(* so that a bounded model runs for ever.                                  *)
(***************************************************************************)
EXTENDS Naturals, FiniteSets, Sequences

CONSTANTS
  Lots, Unaligned,   \* lots; those whose quantity is no multiple of the step
  MaxFuses,          \* fuses that exist at one time (bounds the model)
  Workers, Rounds,   \* tasks
  CancelMayFail,     \* may the call that cancels a live order fail
  ResponsesMayBeLost,  \* may an order reach the exchange and its response get lost
  MaxFaults          \* crashes, and fuses cancelled with the orders of a stopped
                     \* instance (bounds the model)

Tasks == Workers \cup Rounds
FuseIds == 1..MaxFuses
NoFuse == 0
Steps == {"idle", "create", "attach", "send", "record", "fail", "register", "detach",
          "cancelRead", "cancelLocal", "cancelCall", "saveCanceled", "saveError", "clear",
          "closing", "settle", "round", "orphans"}

ASSUME FuseAssumption ==
  /\ MaxFuses \in Nat \ {0} /\ MaxFaults \in Nat
  /\ Unaligned \subseteq Lots /\ Lots # {} /\ Workers \cap Rounds = {}
  /\ CancelMayFail \in BOOLEAN /\ ResponsesMayBeLost \in BOOLEAN

VARIABLES
  lots,      \* table position_lots: status and protectionOrderId
  orders,    \* table orders, the rows with source PROTECTION
  exch,      \* the exchange's own view of each fuse
  recorded,  \* fuses with a row in trade_fills
  task,      \* control and local variables of every task
  faults     \* crashes and stops so far

vars == <<lots, orders, exch, recorded, task, faults>>

LotRow == [st: {"NONE", "OPEN", "CLOSED"}, fuse: {NoFuse} \cup FuseIds]
FuseRow == [st: {"NONE", "NEW", "FILLED", "CANCELED", "FAILED"}, known: BOOLEAN, lot: Lots]
Task == [pc: Steps, lot: Lots, fuse: {NoFuse} \cup FuseIds, seen: {NoFuse} \cup FuseIds,
         todo: SUBSET (Lots \X ({NoFuse} \cup FuseIds)), rest: Seq(Steps)]
AnyLot == CHOOSE l \in Lots : TRUE
Idle == [pc |-> "idle", lot |-> AnyLot, fuse |-> NoFuse, seen |-> NoFuse, todo |-> {}, rest |-> <<>>]

TypeOK ==
  /\ lots \in [Lots -> LotRow]
  /\ orders \in [FuseIds -> FuseRow]
  /\ exch \in [FuseIds -> {"none", "live", "filled", "canceled"}]
  /\ recorded \subseteq FuseIds
  /\ task \in [Tasks -> Task]
  /\ faults \in [crashes: 0..MaxFaults, stops: 0..MaxFaults]

Init ==
  /\ lots = [l \in Lots |-> [st |-> "NONE", fuse |-> NoFuse]]
  /\ orders = [f \in FuseIds |-> [st |-> "NONE", known |-> FALSE, lot |-> AnyLot]]
  /\ exch = [f \in FuseIds |-> "none"]
  /\ recorded = {}
  /\ task = [w \in Tasks |-> Idle]
  /\ faults = [crashes |-> 0, stops |-> 0]

At(w, step) == task[w].pc = step
Do(w, t) == task' = [task EXCEPT ![w] = t]
Go(w, step) == Do(w, [task[w] EXCEPT !.pc = step])
\* A call of `step` for a lot whose entity names the fuse `seen`, `rest` to follow.
Call(w, step, l, seen, rest) ==
  Do(w, [task[w] EXCEPT !.pc = step, !.lot = l, !.fuse = seen, !.seen = seen, !.rest = rest])
\* The call returns to the next of the remaining steps, or throws to the last,
\* the loop around them; a loop holds no lot.
Resume(w, step, rest) ==
  Do(w, IF step \in {"round", "orphans"} THEN [Idle EXCEPT !.pc = step, !.todo = task[w].todo]
        ELSE [task[w] EXCEPT !.pc = step, !.rest = rest])
Return(w) == LET r == task[w].rest IN IF r = <<>> THEN Do(w, Idle) ELSE Resume(w, Head(r), Tail(r))
Throw(w)  == LET r == task[w].rest IN IF r = <<>> THEN Do(w, Idle) ELSE Resume(w, r[Len(r)], <<>>)

\* Nothing refers to a fuse that is not live any more, and its fill is booked.
Unused(f) ==
  /\ exch[f] # "live" /\ orders[f].st # "NEW" /\ (exch[f] = "filled" => f \in recorded)
  /\ \A l \in Lots : lots[l].fuse # f
  /\ \A w \in Tasks : task[w].fuse # f /\ task[w].seen # f /\ \A e \in task[w].todo : e[2] # f
Fresh(f) == Unused(f) /\ \A g \in FuseIds : Unused(g) => f <= g

FaultLeft == faults.crashes + faults.stops < MaxFaults

-----------------------------------------------------------------------------
(* attachProtectionForLot and placeProtectiveStop *)

\* The row is saved before the order is sent.
Insert(w, f, step, rest) ==
  /\ orders' = [orders EXCEPT ![f] = [st |-> "NEW", known |-> FALSE, lot |-> task[w].lot]]
  /\ exch' = [exch EXCEPT ![f] = "none"]
  /\ recorded' = recorded \ {f}
  /\ Do(w, [task[w] EXCEPT !.pc = step, !.fuse = f, !.rest = rest])
  /\ UNCHANGED <<lots, faults>>

\* A lot whose entity names a fuse has one.
AttachSkip(w) ==
  /\ At(w, "attach") /\ task[w].seen # NoFuse
  /\ Return(w)
  /\ UNCHANGED <<lots, orders, exch, recorded, faults>>

\* (a mistake the code avoids) the lot names the fuse before Binance has it
AttachEarly(w, f) ==
  /\ At(w, "attach") /\ task[w].seen = NoFuse /\ Fresh(f)
  /\ lots' = [lots EXCEPT ![task[w].lot].fuse = f]
  /\ orders' = [orders EXCEPT ![f] = [st |-> "NEW", known |-> FALSE, lot |-> task[w].lot]]
  /\ exch' = [exch EXCEPT ![f] = "none"]
  /\ recorded' = recorded \ {f}
  /\ Do(w, [task[w] EXCEPT !.pc = "send", !.fuse = f])
  /\ UNCHANGED faults

Attach(w, f) ==
  /\ At(w, "attach") /\ task[w].seen = NoFuse /\ Fresh(f)
  /\ Insert(w, f, "send", task[w].rest)

\* The call may also throw before the row is saved (no filters, a quantity below
\* the minimum); here it does when the model has no identifier left.
AttachThrows(w) ==
  /\ At(w, "attach") /\ task[w].seen = NoFuse /\ \A f \in FuseIds : ~Unused(f)
  /\ Throw(w)
  /\ UNCHANGED <<lots, orders, exch, recorded, faults>>

\* The exchange accepts or refuses it; a lost response counts as a refusal.
Send(w) ==
  /\ At(w, "send")
  /\ \/ /\ exch' = [exch EXCEPT ![task[w].fuse] = "live"]
        /\ Go(w, "record") \/ (ResponsesMayBeLost /\ Go(w, "fail"))
     \/ exch' = exch /\ Go(w, "fail")
  /\ UNCHANGED <<lots, orders, recorded, faults>>

\* The response is saved over the row; a stop that triggered at once may come as filled.
Record(w) ==
  LET f == task[w].fuse IN
  /\ At(w, "record")
  /\ \E st \in {"NEW", "FILLED"} :
       /\ st = "FILLED" => exch[f] = "filled"
       /\ orders' = [orders EXCEPT ![f] = [@ EXCEPT !.st = st, !.known = TRUE]]
  /\ Go(w, "register")
  /\ UNCHANGED <<lots, exch, recorded, faults>>

Fail(w) ==
  /\ At(w, "fail")
  /\ orders' = [orders EXCEPT ![task[w].fuse].st = "FAILED"]
  /\ Throw(w)
  /\ UNCHANGED <<lots, exch, recorded, faults>>

\* lots.attachProtection updates the two columns, whatever the lot has become.
\* A fuse that replaces another is followed by the cancellation of the old one.
Register(w) ==
  /\ At(w, "register")
  /\ lots' = [lots EXCEPT ![task[w].lot].fuse = task[w].fuse]
  /\ IF task[w].seen = NoFuse THEN Return(w)
     ELSE Do(w, [task[w] EXCEPT !.pc = "cancelRead", !.rest = Tail(@), !.fuse = task[w].seen])
  /\ UNCHANGED <<orders, exch, recorded, faults>>

-----------------------------------------------------------------------------
(* detachProtectionForLot and cancelOrder *)

Detach(w) ==
  LET f == lots[task[w].lot].fuse IN
  /\ At(w, "detach")
  /\ IF f = NoFuse THEN Return(w)
     ELSE Call(w, "cancelRead", task[w].lot, f, <<"clear">> \o task[w].rest)
  /\ UNCHANGED <<lots, orders, exch, recorded, faults>>

\* A fuse that is not open throws, which every caller swallows.
CancelRead(w) ==
  LET f == task[w].fuse IN
  /\ At(w, "cancelRead")
  /\ IF orders[f].st # "NEW" THEN Return(w)
     ELSE Go(w, IF orders[f].known THEN "cancelCall" ELSE "cancelLocal")
  /\ UNCHANGED <<lots, orders, exch, recorded, faults>>

\* An order without an exchangeOrderId is taken for a local one.
CancelLocal(w) ==
  /\ At(w, "cancelLocal")
  /\ orders' = [orders EXCEPT ![task[w].fuse] = [@ EXCEPT !.st = "CANCELED", !.known = FALSE]]
  /\ Return(w)
  /\ UNCHANGED <<lots, exch, recorded, faults>>

CancelCall(w) ==
  LET f == task[w].fuse IN
  /\ At(w, "cancelCall")
  /\ \/ exch[f] = "live" /\ exch' = [exch EXCEPT ![f] = "canceled"] /\ Go(w, "saveCanceled")
     \/ (exch[f] # "live" \/ CancelMayFail) /\ exch' = exch /\ Go(w, "saveError")
  /\ UNCHANGED <<lots, orders, recorded, faults>>

\* The entity is saved as it was read, with the new status or with the error.
CancelSave(w) ==
  /\ task[w].pc \in {"saveCanceled", "saveError"}
  /\ orders' = [orders EXCEPT ![task[w].fuse] =
                  [@ EXCEPT !.st = IF At(w, "saveCanceled") THEN "CANCELED" ELSE "NEW", !.known = TRUE]]
  /\ Return(w)
  /\ UNCHANGED <<lots, exch, recorded, faults>>

\* The lot forgets its fuse whether or not the cancellation succeeded.
Clear(w) ==
  /\ At(w, "clear")
  /\ lots' = [lots EXCEPT ![task[w].lot].fuse = NoFuse]
  /\ Return(w)
  /\ UNCHANGED <<orders, exch, recorded, faults>>

-----------------------------------------------------------------------------
(* Opening and closing lots *)

\* A task has an opening fill of l in hand: the order's own task, or the sync.
OpenFill(w, l) ==
  /\ w \in Workers /\ At(w, "idle") /\ lots[l].st = "NONE"
  /\ Do(w, [Idle EXCEPT !.pc = "create", !.lot = l])
  /\ UNCHANGED <<lots, orders, exch, recorded, faults>>

\* createFromOpenFill inserts the lot or returns the row there is, open or not;
\* the lot is then given a fuse.
Create(w) ==
  LET l == task[w].lot IN
  /\ At(w, "create")
  /\ lots' = IF lots[l].st = "NONE" THEN [lots EXCEPT ![l].st = "OPEN"] ELSE lots
  /\ Call(w, "attach", l, lots[l].fuse, <<>>)
  /\ UNCHANGED <<orders, exch, recorded, faults>>

\* A closing order is placed, by a tick only for a lot that has none pending.
PlaceClose(w, l) ==
  /\ w \in Workers /\ At(w, "idle") /\ lots[l].st = "OPEN"
  /\ Do(w, [Idle EXCEPT !.pc = "closing", !.lot = l])
  /\ UNCHANGED <<lots, orders, exch, recorded, faults>>

\* settleFromCloseFill, then the fuse is withdrawn.
CloseFill(w) ==
  /\ At(w, "closing")
  /\ lots' = [lots EXCEPT ![task[w].lot].st = "CLOSED"]
  /\ Go(w, "detach")
  /\ UNCHANGED <<orders, exch, recorded, faults>>

\* reconcileOrphanLots closes the lots the exchange no longer holds and leaves
\* their fuses to the next round.
Archive(l) ==
  /\ lots[l].st = "OPEN"
  /\ lots' = [lots EXCEPT ![l].st = "CLOSED"]
  /\ UNCHANGED <<orders, exch, recorded, task, faults>>

\* The runner cancels every open order of the instance.
StopInstance(w, f) ==
  /\ w \in Workers /\ At(w, "idle") /\ orders[f].st = "NEW" /\ FaultLeft
  /\ faults' = [faults EXCEPT !.stops = @ + 1]
  /\ Do(w, [Idle EXCEPT !.pc = "cancelRead", !.lot = orders[f].lot, !.fuse = f])
  /\ UNCHANGED <<lots, orders, exch, recorded>>

\* A round of syncPendingFills finds a triggered fuse and writes its fill ...
SyncFuse(w, f) ==
  /\ w \in Workers /\ At(w, "idle")
  /\ orders[f].st \in {"NEW", "FILLED"} /\ f \notin recorded /\ exch[f] = "filled"
  /\ recorded' = recorded \cup {f}
  /\ Do(w, [Idle EXCEPT !.pc = "settle", !.lot = orders[f].lot, !.fuse = f])
  /\ UNCHANGED <<lots, orders, exch, faults>>

\* ... saves the order, settles the lot it names if that is still open, and
\* withdraws its fuse.
Settle(w) ==
  LET l == task[w].lot IN
  /\ At(w, "settle")
  /\ orders' = [orders EXCEPT ![task[w].fuse].st = "FILLED"]
  /\ IF lots[l].st = "OPEN"
     THEN lots' = [lots EXCEPT ![l].st = "CLOSED"] /\ Go(w, "detach")
     ELSE lots' = lots /\ Do(w, Idle)
  /\ UNCHANGED <<exch, recorded, faults>>

-----------------------------------------------------------------------------
(* reconcileProtections *)

Listed(st) == {<<l, lots[l].fuse>> : l \in {x \in Lots : lots[x].st = st}}

RoundBegin(w) ==
  /\ w \in Rounds /\ At(w, "idle")
  /\ Do(w, [Idle EXCEPT !.pc = "round", !.todo = Listed("OPEN")])
  /\ UNCHANGED <<lots, orders, exch, recorded, faults>>

\* (a mistake the code avoids) a lot that names a fuse is taken to have it
RoundLotTrusting(w, e) ==
  LET next == [task[w] EXCEPT !.lot = e[1], !.fuse = e[2], !.seen = e[2], !.todo = @ \ {e}] IN
  /\ At(w, "round") /\ e \in task[w].todo
  /\ IF e[2] = NoFuse THEN Do(w, [next EXCEPT !.pc = "attach", !.rest = <<"round">>])
     ELSE Do(w, [task[w] EXCEPT !.todo = @ \ {e}])
  /\ UNCHANGED <<lots, orders, exch, recorded, faults>>

\* One lot, as the list had it: without a fuse it gets one; a fuse that is not
\* open is cleared, and the lot as it was read goes to attachProtectionForLot;
\* one of another quantity is replaced.
RoundLot(w, e) ==
  LET f == e[2]
      next == [task[w] EXCEPT !.lot = e[1], !.fuse = f, !.seen = f, !.todo = @ \ {e}] IN
  /\ At(w, "round") /\ e \in task[w].todo
  /\ \/ /\ f = NoFuse
        /\ Do(w, [next EXCEPT !.pc = "attach", !.rest = <<"round">>])
     \/ /\ f # NoFuse /\ orders[f].st # "NEW"
        /\ Do(w, [next EXCEPT !.pc = "clear", !.rest = <<"attach", "round">>])
     \/ /\ f # NoFuse /\ orders[f].st = "NEW" /\ e[1] \notin Unaligned
        /\ Do(w, [task[w] EXCEPT !.todo = @ \ {e}])
  /\ UNCHANGED <<lots, orders, exch, recorded, faults>>

RoundReplaceThrows(w, e) ==
  /\ At(w, "round") /\ e \in task[w].todo /\ e[1] \in Unaligned
  /\ e[2] # NoFuse /\ orders[e[2]].st = "NEW" /\ \A f \in FuseIds : ~Unused(f)
  /\ Do(w, [task[w] EXCEPT !.todo = @ \ {e}])
  /\ UNCHANGED <<lots, orders, exch, recorded, faults>>

RoundReplace(w, e, f) ==
  /\ At(w, "round") /\ e \in task[w].todo /\ e[1] \in Unaligned
  /\ e[2] # NoFuse /\ orders[e[2]].st = "NEW" /\ Fresh(f)
  /\ orders' = [orders EXCEPT ![f] = [st |-> "NEW", known |-> FALSE, lot |-> e[1]]]
  /\ exch' = [exch EXCEPT ![f] = "none"]
  /\ recorded' = recorded \ {f}
  /\ Do(w, [task[w] EXCEPT !.pc = "send", !.lot = e[1], !.fuse = f, !.seen = e[2],
                           !.todo = @ \ {e}, !.rest = <<"cancelRead", "round">>])
  /\ UNCHANGED <<lots, faults>>

\* listOrphanProtections
RoundOrphans(w) ==
  /\ At(w, "round") /\ task[w].todo = {}
  /\ Do(w, [Idle EXCEPT !.pc = "orphans",
                        !.todo = {e \in Listed("CLOSED") : e[2] # NoFuse}])
  /\ UNCHANGED <<lots, orders, exch, recorded, faults>>

Orphan(w, e) ==
  LET open == orders[e[2]].st = "NEW" IN
  /\ At(w, "orphans") /\ e \in task[w].todo
  /\ Do(w, [task[w] EXCEPT !.pc = IF open THEN "cancelRead" ELSE "clear", !.lot = e[1],
                           !.fuse = e[2], !.seen = e[2], !.todo = @ \ {e},
                           !.rest = IF open THEN <<"clear", "orphans">> ELSE <<"orphans">>])
  /\ UNCHANGED <<lots, orders, exch, recorded, faults>>

RoundEnd(w) ==
  /\ At(w, "orphans") /\ task[w].todo = {}
  /\ Do(w, Idle)
  /\ UNCHANGED <<lots, orders, exch, recorded, faults>>

-----------------------------------------------------------------------------
(* The exchange and the process *)

\* A reduce-only order fills while there is a position left to reduce: fewer
\* fills not yet booked than open lots.
Trigger(f) ==
  /\ exch[f] = "live"
  /\ Cardinality({g \in FuseIds : exch[g] = "filled" /\ (orders[g].st = "NEW" \/ g \notin recorded)})
       < Cardinality({l \in Lots : lots[l].st = "OPEN"})
  /\ exch' = [exch EXCEPT ![f] = "filled"]
  /\ UNCHANGED <<lots, orders, recorded, task, faults>>

Crash ==
  /\ FaultLeft
  /\ faults' = [faults EXCEPT !.crashes = @ + 1]
  /\ task' = [w \in Tasks |-> Idle]
  /\ UNCHANGED <<lots, orders, exch, recorded>>

Continue(w) ==
  \/ AttachSkip(w) \/ AttachThrows(w) \/ Send(w) \/ Record(w) \/ Fail(w) \/ Register(w) \/ Detach(w)
  \/ CancelRead(w) \/ CancelLocal(w) \/ CancelCall(w) \/ CancelSave(w) \/ Clear(w)
  \/ Create(w) \/ CloseFill(w) \/ Settle(w) \/ RoundOrphans(w) \/ RoundEnd(w)
  \/ \E f \in FuseIds : Attach(w, f)
  \/ \E e \in task[w].todo : RoundLot(w, e) \/ Orphan(w, e) \/ RoundReplaceThrows(w, e)
                       \/ \E f \in FuseIds : RoundReplace(w, e, f)

Next ==
  \/ \E w \in Tasks : Continue(w) \/ RoundBegin(w)
  \/ \E w \in Tasks, l \in Lots : OpenFill(w, l) \/ PlaceClose(w, l)
  \/ \E w \in Tasks, f \in FuseIds : StopInstance(w, f) \/ SyncFuse(w, f)
  \/ \E l \in Lots : Archive(l)
  \/ \E f \in FuseIds : Trigger(f)
  \/ Crash

Spec == Init /\ [][Next]_vars

\* The event loop goes on with what has begun and the scheduler starts the
\* rounds.  Binance refuses a fuse any number of times, not for ever, and a round
\* of the sync that can find a triggered fuse again and again finds it.
Accept(w) == Send(w) /\ task'[w].pc = "record"
Fairness ==
  /\ \A w \in Tasks : WF_vars(Continue(w)) /\ SF_vars(Accept(w))
  /\ \A w \in Rounds : WF_vars(RoundBegin(w))
  /\ \A w \in Workers : SF_vars(\E f \in FuseIds : SyncFuse(w, f))

FairSpec == Spec /\ Fairness

-----------------------------------------------------------------------------
(* Properties *)

\* A fuse a lot names was placed for this lot and accepted by Binance: the
\* record on which attaching is skipped is never about an order that is only on
\* its way, although the lot and the order are written by different tasks.
NamedFuseIsReal ==
  \A l \in Lots :
    LET f == lots[l].fuse IN f # NoFuse => orders[f].lot = l /\ exch[f] # "none"

\* An open lot gets its fuse in the end, or is closed: whatever fails while it is
\* opened, and whoever cancels the fuse, a later round attaches another (as long
\* as the model has one left).
ProtectedInTheEnd ==
  \A l \in Lots :
    lots[l].st = "OPEN" ~>
      \/ lots[l].st = "CLOSED"
      \/ lots[l].fuse # NoFuse /\ exch[lots[l].fuse] = "live"
      \/ \A f \in FuseIds : ~Unused(f)

=============================================================================
