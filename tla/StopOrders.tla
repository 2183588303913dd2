------------------------------ MODULE StopOrders ------------------------------
(***************************************************************************)
(* The stop orders a grid strategy leaves at Binance: placeStopOrder,      *)
(* cancelOrder and the reconciliation, on the same rows of `orders`.       *)
(*                                                                         *)
(*   - The tick (at most one runs) cancels orders it saw open and places   *)
(*     new ones.                                                           *)
(*   - Requests cancel the orders they find open: stopping an instance,    *)
(*     closing all baskets, the circuit breaker.                           *)
(*   - Rounds of syncPendingFills record the orders that were triggered.   *)
(*                                                                         *)
(* Each of them reads a row, waits for the exchange and saves the entity   *)
(* it read; save writes every column in which entity and row differ.  One  *)
(* instance is modelled, and orders fill as a whole.  What a fill does to  *)
(* the lots is in FuturesLedger, from which only the step that records it  *)
(* is kept.                                                                *)
(***************************************************************************)
EXTENDS Naturals

CONSTANTS
  MaxOrders,           \* number of stop orders ever placed (bounds the model)
  Ticker,              \* the strategy tick
  Requests,            \* requests that cancel all open orders
  Syncers,             \* rounds of syncPendingFills
  ResponsesMayBeLost,  \* may an order reach the exchange and its response get lost
  MaxCrashes           \* crashes of the process (bounds the model)

Cancelers == Requests \cup {Ticker}
Workers   == Cancelers \cup Syncers
OrderIds  == 1..MaxOrders

ASSUME StopOrdersAssumption ==
  /\ MaxOrders \in Nat \ {0} /\ MaxCrashes \in Nat
  /\ Requests \cap Syncers = {} /\ Ticker \notin Requests \cup Syncers
  /\ ResponsesMayBeLost \in BOOLEAN

VARIABLES
  orders,    \* table orders: status, and whether exchangeOrderId is set
  recorded,  \* orders with a row in trade_fills
  exch,      \* the exchange's own view of each order
  task,      \* control and local variables of every task
  crashes

vars == <<orders, recorded, exch, task, crashes>>

Row == [status: {"NONE", "NEW", "FILLED", "CANCELED", "FAILED"}, known: BOOLEAN]
Task == [pc: {"idle", "next", "cancelLocal", "cancelSend", "saveCanceled", "saveError",
              "strategy", "send", "record", "fail", "recordFill"},
         ord: 0..MaxOrders,
         todo: SUBSET OrderIds]
Idle == [pc |-> "idle", ord |-> 0, todo |-> {}]

TypeOK ==
  /\ orders \in [OrderIds -> Row]
  /\ recorded \subseteq OrderIds
  /\ exch \in [OrderIds -> {"none", "live", "filled", "canceled"}]
  /\ task \in [Workers -> Task]
  /\ crashes \in 0..MaxCrashes

Init ==
  /\ orders = [o \in OrderIds |-> [status |-> "NONE", known |-> FALSE]]
  /\ recorded = {}
  /\ exch = [o \in OrderIds |-> "none"]
  /\ task = [w \in Workers |-> Idle]
  /\ crashes = 0

At(w, step) == task[w].pc = step
Do(w, step, o, S) == task' = [task EXCEPT ![w] = [pc |-> step, ord |-> o, todo |-> S]]
Go(w, step) == Do(w, step, task[w].ord, task[w].todo)
Put(w, step) == Do(w, step, 0, task[w].todo)
Rest(w) == Do(w, "idle", 0, {})

-----------------------------------------------------------------------------
(* Cancelling *)

\* listOpenOrders, in the order of their creation
OpenOrders == {o \in OrderIds : orders[o].status = "NEW"}

\* cancelOpenOrdersSafely cancels what it finds; a read that fails ends it.
RequestCancel(w) ==
  /\ w \in Requests /\ At(w, "idle") /\ OpenOrders # {}
  /\ Do(w, "next", 0, OpenOrders)
  /\ UNCHANGED <<orders, recorded, exch, crashes>>

\* onTick: of the orders in its context the strategy cancels any, and goes on
\* to place others.
TickBegin ==
  /\ At(Ticker, "idle")
  /\ \E S \in SUBSET OpenOrders : Do(Ticker, "next", 0, S)
  /\ UNCHANGED <<orders, recorded, exch, crashes>>

\* cancelOrder reads the row: one that is no longer open throws, and one
\* without an exchangeOrderId is taken for a local order.
CancelRead(w, o) ==
  /\ At(w, "next") /\ o \in task[w].todo /\ \A p \in task[w].todo : o <= p
  /\ IF orders[o].status # "NEW" THEN Do(w, "next", 0, task[w].todo \ {o})
     ELSE Do(w, IF orders[o].known THEN "cancelSend" ELSE "cancelLocal", o, task[w].todo \ {o})
  /\ UNCHANGED <<orders, recorded, exch, crashes>>

\* Without a call; the entity is saved as it was read, without an
\* exchangeOrderId.
CancelLocal(w) ==
  /\ At(w, "cancelLocal")
  /\ orders' = [orders EXCEPT ![task[w].ord] = [status |-> "CANCELED", known |-> FALSE]]
  /\ Put(w, "next")
  /\ UNCHANGED <<recorded, exch, crashes>>

\* adapter.cancelOrder: a live order is cancelled and any other refused; a call
\* may also fail, before or after it took effect.
CancelSend(w) ==
  LET o == task[w].ord IN
  /\ At(w, "cancelSend")
  /\ \/ /\ exch[o] = "live" /\ exch' = [exch EXCEPT ![o] = "canceled"]
        /\ Go(w, "saveCanceled") \/ Go(w, "saveError")
     \/ exch' = exch /\ Go(w, "saveError")
  /\ UNCHANGED <<orders, recorded, crashes>>

SaveCanceled(w) ==
  /\ At(w, "saveCanceled")
  /\ orders' = [orders EXCEPT ![task[w].ord] = [status |-> "CANCELED", known |-> TRUE]]
  /\ Put(w, "next")
  /\ UNCHANGED <<recorded, exch, crashes>>

\* (a mistake the code avoids) a cancellation that failed counts as one
SaveErrorAsCanceled(w) ==
  /\ At(w, "saveError")
  /\ orders' = [orders EXCEPT ![task[w].ord] = [status |-> "CANCELED", known |-> TRUE]]
  /\ Put(w, "next")
  /\ UNCHANGED <<recorded, exch, crashes>>

\* The entity is saved with the error, and open as it was read.
SaveError(w) ==
  /\ At(w, "saveError")
  /\ orders' = [orders EXCEPT ![task[w].ord] = [status |-> "NEW", known |-> TRUE]]
  /\ Put(w, "next")
  /\ UNCHANGED <<recorded, exch, crashes>>

CancelDone(w) ==
  /\ At(w, "next") /\ task[w].todo = {}
  /\ Do(w, IF w = Ticker THEN "strategy" ELSE "idle", 0, {})
  /\ UNCHANGED <<orders, recorded, exch, crashes>>

-----------------------------------------------------------------------------
(* placeStopOrder *)

\* (a mistake the code avoids) the row is saved with the response only
PlaceStopUnsaved(o) ==
  /\ At(Ticker, "strategy") /\ orders[o].status = "NONE"
  /\ \A p \in OrderIds : p < o => orders[p].status # "NONE"
  /\ Do(Ticker, "send", o, {})
  /\ UNCHANGED <<orders, recorded, exch, crashes>>

\* The row is saved, NEW and without an exchangeOrderId, before the call.
PlaceStop(o) ==
  /\ At(Ticker, "strategy") /\ orders[o].status = "NONE"
  /\ \A p \in OrderIds : p < o => orders[p].status # "NONE"
  /\ orders' = [orders EXCEPT ![o].status = "NEW"]
  /\ Do(Ticker, "send", o, {})
  /\ UNCHANGED <<recorded, exch, crashes>>

\* Accepted (and filled at once when the price has passed it), refused, or
\* accepted with the response lost.
SendStop ==
  LET o == task[Ticker].ord IN
  /\ At(Ticker, "send")
  /\ \/ /\ \E s \in {"live", "filled"} : exch' = [exch EXCEPT ![o] = s]
        /\ Go(Ticker, "record") \/ (ResponsesMayBeLost /\ Go(Ticker, "fail"))
     \/ exch' = exch /\ Go(Ticker, "fail")
  /\ UNCHANGED <<orders, recorded, crashes>>

\* The entity is saved with its exchangeOrderId and the status of the response,
\* over whatever the row has become.
RecordStop ==
  LET o == task[Ticker].ord IN
  /\ At(Ticker, "record")
  /\ \E s \in {"NEW"} \cup (IF exch[o] = "filled" THEN {"FILLED"} ELSE {}) :
       orders' = [orders EXCEPT ![o] = [status |-> s, known |-> TRUE]]
  /\ Put(Ticker, "strategy")
  /\ UNCHANGED <<recorded, exch, crashes>>

FailStop ==
  /\ At(Ticker, "fail")
  /\ orders' = [orders EXCEPT ![task[Ticker].ord].status = "FAILED"]
  /\ Put(Ticker, "strategy")
  /\ UNCHANGED <<recorded, exch, crashes>>

TickDone ==
  /\ At(Ticker, "strategy")
  /\ Rest(Ticker)
  /\ UNCHANGED <<orders, recorded, exch, crashes>>

-----------------------------------------------------------------------------
(* The exchange, the reconciliation, and the process *)

Trigger(o) ==
  /\ exch[o] = "live"
  /\ exch' = [exch EXCEPT ![o] = "filled"]
  /\ UNCHANGED <<orders, recorded, task, crashes>>

\* The user cancels it at Binance, or Binance expires it.
CancelOutside(o) ==
  /\ exch[o] = "live"
  /\ exch' = [exch EXCEPT ![o] = "canceled"]
  /\ UNCHANGED <<orders, recorded, task, crashes>>

\* (a mistake the comment on the candidates warns of) only orders that are
\* known to be filled are looked up
SyncFoundFilled(w, o) ==
  /\ w \in Syncers /\ At(w, "idle")
  /\ orders[o].status = "FILLED" /\ o \notin recorded
  /\ exch[o] = "filled"
  /\ Do(w, "recordFill", o, {})
  /\ UNCHANGED <<orders, recorded, exch, crashes>>

\* A round finds an open order without a fill row filled at the exchange ...
SyncFound(w, o) ==
  /\ w \in Syncers /\ At(w, "idle")
  /\ orders[o].status \in {"NEW", "FILLED"} /\ o \notin recorded
  /\ exch[o] = "filled"
  /\ Do(w, "recordFill", o, {})
  /\ UNCHANGED <<orders, recorded, exch, crashes>>

\* ... and records it.  (Whether its exchangeOrderId is set no longer matters.)
SyncSave(w) ==
  LET o == task[w].ord IN
  /\ At(w, "recordFill")
  /\ recorded' = recorded \cup {o}
  /\ orders' = [orders EXCEPT ![o].status = "FILLED"]
  /\ Rest(w)
  /\ UNCHANGED <<exch, crashes>>

\* Memory is lost; the tables and the exchange's orders stay.
Crash ==
  /\ crashes < MaxCrashes
  /\ crashes' = crashes + 1
  /\ task' = [w \in Workers |-> Idle]
  /\ UNCHANGED <<orders, recorded, exch>>

Cancel(w) ==
  \/ RequestCancel(w) \/ CancelLocal(w) \/ CancelSend(w) \/ SaveCanceled(w) \/ SaveError(w)
  \/ CancelDone(w) \/ \E o \in OrderIds : CancelRead(w, o)

Tick == \/ TickBegin \/ SendStop \/ RecordStop \/ FailStop \/ TickDone
        \/ \E o \in OrderIds : PlaceStop(o)

Sync(w) == SyncSave(w) \/ \E o \in OrderIds : SyncFound(w, o)

Next ==
  \/ \E w \in Cancelers : Cancel(w)
  \/ Tick
  \/ \E w \in Syncers : Sync(w)
  \/ \E o \in OrderIds : Trigger(o) \/ CancelOutside(o)
  \/ Crash

Spec == Init /\ [][Next]_vars

\* The event loop goes on with what has begun, and the scheduler starts a round
\* of the sync every minute: one that can find a filled order again and again
\* finds it.
Fairness ==
  /\ \A w \in Syncers : WF_vars(SyncSave(w)) /\ SF_vars(\E o \in OrderIds : SyncFound(w, o))

FairSpec == Spec /\ Fairness

-----------------------------------------------------------------------------
(* Properties *)

\* What the rows of the orders say is so at the exchange, although three tasks
\* save what they read before they asked it: an order recorded as cancelled
\* that has an exchangeOrderId is cancelled, and a filled one is filled.
RowsTellTruth ==
  \A o \in OrderIds :
    /\ orders[o].status = "CANCELED" /\ orders[o].known => exch[o] = "canceled"
    /\ orders[o].status = "FILLED" => exch[o] = "filled"

\* A live order is open here at every moment, from before its call on and after
\* a crash too, so that the next cancellation and the next tick find it, unless
\* cancelOrder took it for a local one.
LiveIsOpen ==
  \A o \in OrderIds :
    exch[o] = "live" =>
      \/ orders[o].status = "NEW"
      \/ orders[o].status = "CANCELED" /\ ~orders[o].known

\* An order that is open here and triggered is recorded in the end, or was
\* taken for a local one and cancelled.
TriggeredIsRecorded ==
  \A o \in OrderIds :
    (exch[o] = "filled" /\ orders[o].status = "NEW")
      ~> (o \in recorded \/ orders[o].status \in {"CANCELED", "FAILED"})

=============================================================================
