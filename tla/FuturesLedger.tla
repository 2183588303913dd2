---------------------------- MODULE FuturesLedger ----------------------------
(***************************************************************************)
(* The futures ledger: how an order placed at Binance becomes a row of     *)
(* `orders`, a row of `trade_fills` and a position lot, while several      *)
(* asynchronous tasks of the one Node process work on the same tables:     *)
(*                                                                         *)
(*   - placeOrder, called by the strategy tick (at most one tick runs) and *)
(*     by HTTP requests (any number at a time);                            *)
(*   - syncPendingFills and repairMissingLots, which the scheduler starts  *)
(*     every minute without awaiting the previous round;                   *)
(*   - startInstance, whose first half archives the lots the exchange no   *)
(*     longer holds and adopts the lots no instance owns.                  *)
(*                                                                         *)
(* A task is cut at its awaits: one action is what it does between two of  *)
(* them that other tasks can see.  One symbol and one direction are        *)
(* modelled (in hedge mode the two directions have separate positions and  *)
(* separate lots).  Prices, fees and margins are left out; quantities are  *)
(* counted in steps of the symbol.  The protective stop of a lot           *)
(* (PROTECTION_MODE, off by default), the basket of a lot and what else    *)
(* startInstance does are components of their own.                         *)
(***************************************************************************)
EXTENDS Integers, FiniteSets, FiniteSetsExt

CONSTANTS
  MaxOrders,        \* number of orders ever placed (bounds the model)
  Qty,              \* quantity of an opening order, in steps
  Engine,           \* the strategy tick: placeOrder after looking at pending closes
  Manual,           \* HTTP requests: placeOrder without that look
  Syncers,          \* rounds of syncPendingFills that may overlap
  Repairers,        \* rounds of repairMissingLots that may overlap
  Starters,         \* requests that start an instance and adopt lots
  NoLot,            \* the null of orders."lotId"
  OrderTypes,       \* types an opening order may have
  UniqueOpenOrder,  \* is "IDX_lots_open_order" unique (migrations) or not (synchronize)
  SyncLimit,        \* rows a round of syncPendingFills works through (100)
  RepairLimit,      \* rows a round of repairMissingLots works through (50)
  MaxCrashes,       \* crashes of the process (bounds the model)
  ResponsesMayBeLost,  \* may an order reach the exchange and its response get lost
  MayCloseOutside   \* may the user close the position at the exchange by hand

Placers  == Engine \cup Manual
Workers  == Placers \cup Syncers \cup Repairers \cup Starters
OrderIds == 1..MaxOrders
LotIds   == OrderIds \X Workers  \* the row a task inserted for an opening order

ASSUME LedgerAssumption ==
  /\ MaxOrders \in Nat \ {0} /\ Qty \in Nat \ {0} /\ MaxCrashes \in Nat
  /\ Placers \cap (Syncers \cup Repairers) = {} /\ Syncers \cap Repairers = {}
  /\ Engine \cap Manual = {}
  /\ Starters \cap (Placers \cup Syncers \cup Repairers) = {}
  /\ OrderTypes \subseteq {"MARKET", "LIMIT"}
  /\ NoLot \notin LotIds
  /\ SyncLimit \in Nat \ {0} /\ RepairLimit \in Nat \ {0}
  /\ UniqueOpenOrder \in BOOLEAN /\ ResponsesMayBeLost \in BOOLEAN
  /\ MayCloseOutside \in BOOLEAN

VARIABLES
  orders,   \* table orders
  fills,    \* table trade_fills
  lots,     \* table position_lots
  exch,     \* the exchange's own view of each order
  pos,      \* the exchange's position in this direction
  task,     \* the control and the local variables of every task
  crashes   \* number of crashes so far

vars == <<orders, fills, lots, exch, pos, task, crashes>>
tables == <<orders, fills, lots>>
exchange == <<exch, pos>>

-----------------------------------------------------------------------------
(* The rows and the tasks *)

OrderStatus == {"NONE", "NEW", "FILLED", "PARTIALLY_FILLED", "EXPIRED", "FAILED"}
OrderRow == [status: OrderStatus, kind: {"open", "close"},
             type: {"MARKET", "LIMIT"}, lot: LotIds \cup {NoLot}, qty: 0..Qty]
FillRow == [order: OrderIds, qty: 1..Qty, by: Workers]
\* settledBy is history: the closing order whose fill settled the lot, 0 when
\* it was archived.  (The column closeOrderId is never written.)
LotRow == [st: {"NONE", "OPEN", "CLOSED"}, qty: 0..Qty,
           settledBy: 0..MaxOrders]
ExchangeOrder == [st: {"none", "live", "done"}, filled: 0..Qty]

Steps == {"idle", "decided", "closing", "send", "record", "confirm", "recover",
          "saveOrder", "saveFill", "fail", "positions", "archive", "archiveSave",
          "readFills", "next", "lotFind", "lotInsert", "attach", "lotGet", "lotClose",
          "claim", "claimSave"}
Task == [pc: Steps, ord: 0..MaxOrders, qty: 0..Qty, lot: LotIds \cup {NoLot},
         resp: {"none", "ok", "error", "reduceOnly"}, todo: SUBSET OrderIds,
         read: SUBSET LotIds]

NoOrder == [status |-> "NONE", kind |-> "open", type |-> "MARKET", lot |-> NoLot, qty |-> 0]
NoLotRow == [st |-> "NONE", qty |-> 0, settledBy |-> 0]
Idle == [pc |-> "idle", ord |-> 0, qty |-> 0, lot |-> NoLot, resp |-> "none",
         todo |-> {}, read |-> {}]

TypeOK ==
  /\ orders \in [OrderIds -> OrderRow]
  /\ fills \subseteq FillRow
  /\ lots \in [LotIds -> LotRow]
  /\ exch \in [OrderIds -> ExchangeOrder]
  /\ pos \in Nat
  /\ task \in [Workers -> Task]
  /\ crashes \in 0..MaxCrashes

Init ==
  /\ orders = [o \in OrderIds |-> NoOrder]
  /\ fills = {}
  /\ lots = [l \in LotIds |-> NoLotRow]
  /\ exch = [o \in OrderIds |-> [st |-> "none", filled |-> 0]]
  /\ pos = 0
  /\ task = [w \in Workers |-> Idle]
  /\ crashes = 0

At(w, step) == task[w].pc = step
Go(w, step) == task' = [task EXCEPT ![w].pc = step]

\* The task is through with its order: placeOrder returns, a round takes its
\* next row, and startInstance goes from archiving to adopting.
Finished(w) ==
  CASE w \in Placers  -> Idle
    [] w \in Starters -> [Idle EXCEPT !.pc = "claim"]
    [] OTHER -> [Idle EXCEPT !.pc = "next", !.todo = task[w].todo \ {task[w].ord}]
Finish(w) == task' = [task EXCEPT ![w] = Finished(w)]

IsNextId(o) == /\ orders[o].status = "NONE"
               /\ \A p \in OrderIds : p < o => orders[p].status # "NONE"

LotsOf(o) == {l \in LotIds : l[1] = o /\ lots[l].st # "NONE"}

\* The row of a lot as an entity read while it was open has it.
AsOpened(l) == [lots[l] EXCEPT !.st = "OPEN", !.settledBy = 0]

HasFill(o) == \E f \in fills : f.order = o
\* FILLED once the whole quantity is filled, PARTIALLY_FILLED below it
StatusFor(o, q) == IF q < orders[o].qty THEN "PARTIALLY_FILLED" ELSE "FILLED"

-----------------------------------------------------------------------------
(* placeOrder: from the request to the response *)

\* An opening order: everything up to the first save reads only what no other
\* task writes.
PlaceOpen(w, o, type) ==
  /\ w \in Placers /\ At(w, "idle") /\ IsNextId(o)
  /\ orders' = [orders EXCEPT ![o] = [status |-> "NEW", kind |-> "open", type |-> type,
                                      lot |-> NoLot, qty |-> Qty]]
  /\ task' = [task EXCEPT ![w] = [Idle EXCEPT !.pc = "send", !.ord = o]]
  /\ UNCHANGED <<fills, lots, exchange, crashes>>

\* listPendingCloseLotIds: the lots with a closing order in flight.  Closing
\* orders that failed in the last minute count as well; time is not modelled,
\* and a tick after that minute sees only these.
PendingCloseLots ==
  {orders[o].lot : o \in {p \in OrderIds : orders[p].kind = "close" /\ orders[p].status = "NEW"}}

\* The strategy tick has read the lots and the pending closes and wants out.
Decide(w, l) ==
  /\ w \in Engine /\ At(w, "idle")
  /\ lots[l].st = "OPEN" /\ l \notin PendingCloseLots
  /\ \E o \in OrderIds : IsNextId(o)
  /\ task' = [task EXCEPT ![w] = [Idle EXCEPT !.pc = "decided", !.lot = l]]
  /\ UNCHANGED <<tables, exchange, crashes>>

\* A request to close a lot names it; the page listed it when it was open.
Request(w, l) ==
  /\ w \in Manual /\ At(w, "idle") /\ lots[l].st # "NONE"
  /\ \E o \in OrderIds : IsNextId(o)
  /\ task' = [task EXCEPT ![w] = [Idle EXCEPT !.pc = "decided", !.lot = l]]
  /\ UNCHANGED <<tables, exchange, crashes>>

\* getOpenLot(lotId): absent or no longer OPEN throws BAD_REQUEST.
CheckLot(w) ==
  /\ At(w, "decided")
  /\ IF lots[task[w].lot].st = "OPEN" THEN Go(w, "closing") ELSE Finish(w)
  /\ UNCHANGED <<tables, exchange, crashes>>

\* Sizing and filters later, the closing order is saved with its lot.
PlaceClose(w, o) ==
  /\ At(w, "closing") /\ IsNextId(o)
  /\ orders' = [orders EXCEPT ![o] = [status |-> "NEW", kind |-> "close", type |-> "MARKET",
                                      lot |-> task[w].lot, qty |-> lots[task[w].lot].qty]]
  /\ task' = [task EXCEPT ![w].pc = "send", ![w].ord = o]
  /\ UNCHANGED <<fills, lots, exchange, crashes>>

Moves(o, q) == IF orders[o].kind = "open" THEN pos + q ELSE pos - q

\* adapter.placeOrder, accepted: q of it is filled at once and the response
\* says so, or the response is lost.  A closing order larger than the position
\* is refused.
SendAccepted(w, q, resp) ==
  LET o == task[w].ord IN
  /\ At(w, "send")
  /\ q <= orders[o].qty
  /\ orders[o].kind = "close" => pos >= orders[o].qty
  /\ resp # "ok" => ResponsesMayBeLost
  /\ resp = "reduceOnly" => orders[o].kind = "close"
  /\ exch' = [exch EXCEPT ![o] = [st |-> IF q < orders[o].qty THEN "live" ELSE "done",
                                  filled |-> q]]
  /\ pos' = Moves(o, q)
  /\ task' = [task EXCEPT ![w].pc = IF resp = "ok" THEN "record" ELSE "recover",
                          ![w].qty = IF resp = "ok" THEN q ELSE 0,
                          ![w].resp = resp]
  /\ UNCHANGED <<tables, crashes>>

\* Refused, or never sent because setMarginType or setLeverage failed first.
\* A closing order larger than the position is refused with -2022.
SendRefused(w) ==
  LET o == task[w].ord IN
  /\ At(w, "send")
  /\ task' = [task EXCEPT ![w].pc = "recover",
                          ![w].resp = IF orders[o].kind = "close" /\ pos < orders[o].qty
                                      THEN "reduceOnly" ELSE "error"]
  /\ UNCHANGED <<tables, exchange, crashes>>

\* What a response with the quantity q may say of the order: what follows from the
\* quantity, or that it has ended with no more than that (EXPIRED stands for the
\* statuses of an order that is over and not filled).
ResponseStatus(o, q) ==
  {IF q = 0 THEN "NEW" ELSE StatusFor(o, q)} \cup
  {s \in {"EXPIRED"} : exch[o].st = "done" /\ exch[o].filled = q /\ q < orders[o].qty}

\* The response is saved over the row, whatever the row has become meanwhile.
RecordResponse(w) ==
  LET o == task[w].ord
      q == task[w].qty IN
  /\ At(w, "record")
  /\ \E s \in ResponseStatus(o, q) : orders' = [orders EXCEPT ![o].status = s]
  /\ IF q > 0 THEN Go(w, "saveFill")
     ELSE IF orders[o].type = "MARKET" THEN Go(w, "confirm") ELSE Finish(w)
  /\ UNCHANGED <<fills, lots, exchange, crashes>>

\* (a mistake the code avoids) a poll's answer is taken without looking at
\* filledQuantity
ConfirmWithoutFill(w) ==
  LET o == task[w].ord IN
  /\ At(w, "confirm") \/ (At(w, "recover") /\ orders[o].type = "MARKET")
  /\ task' = [task EXCEPT ![w].pc = "saveOrder", ![w].qty = exch[o].filled]
  /\ UNCHANGED <<tables, exchange, crashes>>

\* confirmMarketFill, after a response without a fill or after an error, when
\* one of its polls sees a fill.  An error of a LIMIT order is not looked up.
ConfirmFound(w) ==
  LET o == task[w].ord IN
  /\ At(w, "confirm") \/ (At(w, "recover") /\ orders[o].type = "MARKET")
  /\ exch[o].filled > 0
  /\ task' = [task EXCEPT ![w].pc = "saveOrder", ![w].qty = exch[o].filled]
  /\ UNCHANGED <<tables, exchange, crashes>>

\* (a mistake the code avoids) an order not confirmed in time is given up
ConfirmTimeoutFails(w) ==
  /\ At(w, "confirm") \/ At(w, "recover")
  /\ Go(w, "fail")
  /\ UNCHANGED <<tables, exchange, crashes>>

\* No poll saw a fill within 2.8 s, or every poll failed.
ConfirmNothing(w) ==
  /\ \/ At(w, "confirm") /\ Finish(w)
     \/ At(w, "recover") /\ Go(w, "fail")
  /\ UNCHANGED <<tables, exchange, crashes>>

\* (a mistake the code avoids) the reconciliation only builds lots, and leaves
\* a filled closing order at that
SaveOrderOpensOnly(w) ==
  LET o == task[w].ord IN
  /\ At(w, "saveOrder")
  /\ orders' = [orders EXCEPT ![o].status = StatusFor(o, task[w].qty)]
  /\ IF w \in Placers THEN Go(w, "saveFill")
     ELSE IF orders[o].kind = "open" THEN Go(w, "lotFind") ELSE Finish(w)
  /\ UNCHANGED <<fills, lots, exchange, crashes>>

\* The confirmed fill is saved to the order: placeOrder before the fill row,
\* syncPendingFills after it.
SaveOrder(w) ==
  LET o == task[w].ord IN
  /\ At(w, "saveOrder")
  /\ orders' = [orders EXCEPT ![o].status = StatusFor(o, task[w].qty)]
  /\ Go(w, IF w \in Placers THEN "saveFill"
           ELSE IF orders[o].kind = "open" THEN "lotFind" ELSE "lotGet")
  /\ UNCHANGED <<fills, lots, exchange, crashes>>

\* A row of trade_fills; nothing makes its orderId unique.
SaveFill(w) ==
  LET o == task[w].ord IN
  /\ At(w, "saveFill")
  /\ fills' = fills \cup {[order |-> o, qty |-> task[w].qty, by |-> w]}
  /\ Go(w, IF w \in Syncers THEN "saveOrder"
           ELSE IF orders[o].kind = "open" THEN "lotFind" ELSE "lotGet")
  /\ UNCHANGED <<orders, lots, exchange, crashes>>

\* FAILED is saved; a closing order refused with -2022 starts a reconciliation.
SaveFailed(w) ==
  LET o == task[w].ord IN
  /\ At(w, "fail")
  /\ orders' = [orders EXCEPT ![o].status = "FAILED"]
  /\ IF orders[o].kind = "close" /\ task[w].resp = "reduceOnly"
     THEN Go(w, "positions") ELSE Finish(w)
  /\ UNCHANGED <<fills, lots, exchange, crashes>>

-----------------------------------------------------------------------------
(* Lots the exchange no longer holds are archived: after -2022, and before *)
(* an instance starts                                                      *)

StartInstance(w) ==
  /\ w \in Starters /\ At(w, "idle")
  /\ Go(w, "positions")
  /\ UNCHANGED <<tables, exchange, crashes>>

\* listPositions; a failed read or a position left ends it.
ReadPositions(w) ==
  /\ At(w, "positions")
  /\ \/ pos = 0 /\ Go(w, "archive")
     \/ Finish(w)
  /\ UNCHANGED <<tables, exchange, crashes>>

\* reconcileOrphanLots reads the open lots ...
ArchiveRead(w) ==
  LET open == {l \in LotIds : lots[l].st = "OPEN"} IN
  /\ At(w, "archive")
  /\ IF open = {} THEN Finish(w)
     ELSE task' = [task EXCEPT ![w].pc = "archiveSave", ![w].read = open]
  /\ UNCHANGED <<tables, exchange, crashes>>

\* ... and saves every one of them as closed with no profit.
ArchiveSave(w) ==
  /\ At(w, "archiveSave")
  /\ lots' = [l \in LotIds |-> IF l \in task[w].read
                               THEN [lots[l] EXCEPT !.st = "CLOSED", !.settledBy = 0]
                               ELSE lots[l]]
  /\ Finish(w)
  /\ UNCHANGED <<orders, fills, exchange, crashes>>

\* claimUnassigned reads the open lots no instance owns (owners are not
\* modelled: any of the open lots) ...
ClaimRead(w) ==
  /\ At(w, "claim")
  /\ \E S \in SUBSET {l \in LotIds : lots[l].st = "OPEN"} :
       task' = [task EXCEPT ![w] = IF S = {} THEN Idle
                                   ELSE [Idle EXCEPT !.pc = "claimSave", !.read = S]]
  /\ UNCHANGED <<tables, exchange, crashes>>

\* ... and saves each of them with its owner, and open as it was read: save
\* writes every column in which the entity differs from the row.
ClaimSave(w) ==
  /\ At(w, "claimSave")
  /\ lots' = [l \in LotIds |-> IF l \in task[w].read THEN AsOpened(l) ELSE lots[l]]
  /\ task' = [task EXCEPT ![w] = Idle]
  /\ UNCHANGED <<orders, fills, exchange, crashes>>

-----------------------------------------------------------------------------
(* LotService, called at the end of every one of the three *)

\* createFromOpenFill returns the lot of the order when there is one ...
LotFind(w) ==
  /\ At(w, "lotFind")
  /\ IF LotsOf(task[w].ord) # {} THEN Finish(w) ELSE Go(w, "lotInsert")
  /\ UNCHANGED <<tables, exchange, crashes>>

\* (a mistake the migrations avoid) nothing refuses the second row
LotInsertTwice(w) ==
  LET o == task[w].ord IN
  /\ At(w, "lotInsert")
  /\ lots' = [lots EXCEPT ![<<o, w>>] = [st |-> "OPEN", qty |-> task[w].qty,
                                         settledBy |-> 0]]
  /\ task' = [task EXCEPT ![w].pc = "attach", ![w].lot = <<o, w>>]
  /\ UNCHANGED <<orders, fills, exchange, crashes>>

\* ... and inserts it otherwise.  A unique index refuses the second row, and
\* the caller logs the exception.
LotInsert(w) ==
  LET o == task[w].ord IN
  /\ At(w, "lotInsert")
  /\ IF UniqueOpenOrder /\ LotsOf(o) # {}
     THEN Finish(w) /\ UNCHANGED lots
     ELSE /\ lots' = [lots EXCEPT ![<<o, w>>] = [st |-> "OPEN", qty |-> task[w].qty,
                                                 settledBy |-> 0]]
          /\ task' = [task EXCEPT ![w].pc = "attach", ![w].lot = <<o, w>>]
  /\ UNCHANGED <<orders, fills, exchange, crashes>>

\* attachLot finds or opens the basket, and saves the entity it inserted with
\* the basket's id: the row is open again, whatever has become of it.
LotAttach(w) ==
  /\ At(w, "attach")
  /\ lots' = [lots EXCEPT ![task[w].lot] = AsOpened(task[w].lot)]
  /\ Finish(w)
  /\ UNCHANGED <<orders, fills, exchange, crashes>>

\* settleFromCloseFill reads the lot of the closing order; one that is not
\* open is left alone.
LotGet(w) ==
  LET o == task[w].ord IN
  /\ At(w, "lotGet")
  /\ IF lots[orders[o].lot].st = "OPEN" THEN Go(w, "lotClose") ELSE Finish(w)
  /\ UNCHANGED <<tables, exchange, crashes>>

\* (the mistake orders."lotId" was added against) the fill settles the oldest
\* open lot
LotCloseOldest(w) ==
  LET o == task[w].ord IN
  /\ At(w, "lotClose")
  /\ \E l \in LotIds :
       /\ lots[l].st = "OPEN"
       /\ \A m \in LotIds : lots[m].st = "OPEN" => l[1] <= m[1]
       /\ lots' = [lots EXCEPT ![l].st = "CLOSED", ![l].settledBy = o]
  /\ Finish(w)
  /\ UNCHANGED <<orders, fills, exchange, crashes>>

\* The row is saved as closed, in full, whatever the filled quantity is.
LotClose(w) ==
  LET o == task[w].ord
      l == orders[o].lot IN
  /\ At(w, "lotClose")
  /\ lots' = [lots EXCEPT ![l].st = "CLOSED", ![l].settledBy = o]
  /\ Finish(w)
  /\ UNCHANGED <<orders, fills, exchange, crashes>>

-----------------------------------------------------------------------------
(* syncPendingFills *)

\* The first n of a set of orders, and the last n, by creation time.
FirstOf(S, n) == {o \in S : Cardinality({p \in S : p < o}) < n}
LastOf(S, n) == {o \in S : Cardinality({p \in S : p > o}) < n}

WithStatus(S) == {o \in OrderIds : orders[o].status \in S}

\* (a mistake the code avoids) only orders already known to be filled
SyncBeginFilledOnly(w) ==
  /\ w \in Syncers /\ At(w, "idle")
  /\ task' = [task EXCEPT ![w] =
       [Idle EXCEPT !.pc = "readFills",
                    !.todo = FirstOf(WithStatus({"FILLED", "PARTIALLY_FILLED"}), 2 * SyncLimit)]]
  /\ UNCHANGED <<tables, exchange, crashes>>

\* The candidates of a round: the oldest that are NEW, FILLED or
\* PARTIALLY_FILLED, whether they have been recorded before or not.
SyncBegin(w) ==
  /\ w \in Syncers /\ At(w, "idle")
  /\ task' = [task EXCEPT ![w] =
       [Idle EXCEPT !.pc = "readFills",
                    !.todo = FirstOf(WithStatus({"NEW", "FILLED", "PARTIALLY_FILLED"}),
                                     2 * SyncLimit)]]
  /\ UNCHANGED <<tables, exchange, crashes>>

\* Those with a fill row are dropped, once for the whole round.
SyncReadFills(w) ==
  /\ At(w, "readFills")
  /\ task' = [task EXCEPT ![w].pc = "next",
                          ![w].todo = FirstOf({o \in @ : ~HasFill(o)}, SyncLimit)]
  /\ UNCHANGED <<tables, exchange, crashes>>

Oldest(o, S) == o \in S /\ \A p \in S : o <= p
Newest(o, S) == o \in S /\ \A p \in S : p <= o

\* getOrder for the oldest row left sees a fill.
SyncFound(w, o) ==
  /\ w \in Syncers /\ At(w, "next") /\ Oldest(o, task[w].todo)
  /\ exch[o].filled > 0
  /\ task' = [task EXCEPT ![w].pc = "saveFill", ![w].ord = o, ![w].qty = exch[o].filled]
  /\ UNCHANGED <<tables, exchange, crashes>>

\* No fill yet, or getOrder failed: the row waits for another round.
SyncSkip(w, o) ==
  /\ w \in Syncers /\ At(w, "next") /\ Oldest(o, task[w].todo)
  /\ task' = [task EXCEPT ![w].todo = @ \ {o}]
  /\ UNCHANGED <<tables, exchange, crashes>>

\* A round of either kind has no row left.
RoundDone(w) ==
  /\ At(w, "next") /\ task[w].todo = {}
  /\ task' = [task EXCEPT ![w] = Idle]
  /\ UNCHANGED <<tables, exchange, crashes>>

-----------------------------------------------------------------------------
(* repairMissingLots *)

RepairBegin(w) ==
  /\ w \in Repairers /\ At(w, "idle")
  /\ task' = [task EXCEPT ![w] =
       [Idle EXCEPT !.pc = "next",
                    !.todo = LastOf({o \in WithStatus({"FILLED", "PARTIALLY_FILLED"}) :
                                       orders[o].kind = "open"}, RepairLimit)]]
  /\ UNCHANGED <<tables, exchange, crashes>>

\* The newest order left: no lot and a fill row to build it from, or nothing.
RepairCheck(w, o) ==
  /\ w \in Repairers /\ At(w, "next") /\ Newest(o, task[w].todo)
  /\ IF LotsOf(o) = {} /\ HasFill(o)
     THEN \E f \in fills :
            /\ f.order = o
            /\ task' = [task EXCEPT ![w].pc = "lotFind", ![w].ord = o, ![w].qty = f.qty]
     ELSE task' = [task EXCEPT ![w].todo = @ \ {o}]
  /\ UNCHANGED <<tables, exchange, crashes>>

-----------------------------------------------------------------------------
(* The exchange, its user, and the process *)

ExchangeFill(o) ==
  /\ exch[o].st = "live"
  /\ orders[o].kind = "close" => pos > 0
  /\ exch' = [exch EXCEPT ![o] = [st |-> IF @.filled + 1 < orders[o].qty THEN "live" ELSE "done",
                                  filled |-> @.filled + 1]]
  /\ pos' = Moves(o, 1)
  /\ UNCHANGED <<tables, task, crashes>>

\* The exchange expires what is left of an order.
ExchangeExpire(o) ==
  /\ exch[o].st = "live"
  /\ exch' = [exch EXCEPT ![o].st = "done"]
  /\ UNCHANGED <<tables, pos, task, crashes>>

CloseOutside ==
  /\ MayCloseOutside /\ pos > 0
  /\ pos' = 0
  /\ UNCHANGED <<tables, exch, task, crashes>>

\* The process dies and starts again: tables and exchange stay, tasks are gone.
Crash ==
  /\ crashes < MaxCrashes
  /\ crashes' = crashes + 1
  /\ task' = [w \in Workers |-> Idle]
  /\ UNCHANGED <<tables, exchange>>

\* What a task does once it has started.
Continue(w) ==
  \/ CheckLot(w) \/ (\E o \in OrderIds : PlaceClose(w, o))
  \/ (\E q \in 0..Qty, resp \in {"ok", "error", "reduceOnly"} : SendAccepted(w, q, resp))
  \/ SendRefused(w) \/ RecordResponse(w)
  \/ ConfirmFound(w) \/ ConfirmNothing(w)
  \/ SaveOrder(w) \/ SaveFill(w) \/ SaveFailed(w)
  \/ ReadPositions(w) \/ ArchiveRead(w) \/ ArchiveSave(w)
  \/ ClaimRead(w) \/ ClaimSave(w)
  \/ LotFind(w) \/ LotInsert(w) \/ LotAttach(w) \/ LotGet(w) \/ LotClose(w)
  \/ SyncReadFills(w) \/ RoundDone(w)
  \/ \E o \in OrderIds : SyncFound(w, o) \/ SyncSkip(w, o) \/ RepairCheck(w, o)

Start(w) ==
  \/ \E o \in OrderIds, type \in OrderTypes : PlaceOpen(w, o, type)
  \/ \E l \in LotIds : Decide(w, l) \/ Request(w, l)
  \/ SyncBegin(w) \/ RepairBegin(w) \/ StartInstance(w)

Next ==
  \/ \E w \in Workers : Start(w) \/ Continue(w)
  \/ \E o \in OrderIds : ExchangeFill(o) \/ ExchangeExpire(o)
  \/ CloseOutside
  \/ Crash

Spec == Init /\ [][Next]_vars

(***************************************************************************)
(* Fairness.  The event loop runs on, so a task that has started goes on;  *)
(* the scheduler's 5 s interval starts a sync and a repair round every     *)
(* minute as long as the process lives.  getOrder may fail or come too     *)
(* early any number of times, but not for ever: a round that queries a     *)
(* filled order again and again sees the fill.                             *)
(***************************************************************************)
Fairness ==
  /\ \A w \in Workers : WF_vars(Continue(w))
  /\ \A w \in Syncers : WF_vars(SyncBegin(w)) /\ SF_vars(\E o \in OrderIds : SyncFound(w, o))
  /\ \A w \in Repairers : WF_vars(RepairBegin(w))

FairSpec == Spec /\ Fairness

-----------------------------------------------------------------------------
(* Properties *)

\* A task that read the lot open has it still to save.
StillToSave(l) ==
  \E w \in Workers : \/ At(w, "attach") /\ task[w].lot = l
                     \/ At(w, "claimSave") /\ l \in task[w].read

\* What LotLifecycle sees: the lots of each opening order as one, and a lot
\* that a task will save as open as open.
Held(o) == IF LotsOf(o) = {} THEN "none"
           ELSE IF \E l \in LotsOf(o) : lots[l].st = "OPEN" \/ StillToSave(l) THEN "open"
           ELSE "closed"

Lifecycle == INSTANCE LotLifecycle WITH Orders <- OrderIds, held <- [o \in OrderIds |-> Held(o)]

\* An opening order is held once: none, then open, then closed for good,
\* although its lot may be inserted by three tasks, closed by two and saved
\* from an entity read earlier by two more.
HeldOnce == Lifecycle!Spec

\* The ledger never shows what did not happen at the exchange: an order
\* recorded as filled was filled, a fill row holds no more than was filled,
\* and a lot holds no more than its opening order filled.  Three callers write
\* these rows from answers that may be out of date when they are written.
BackedByExchange ==
  /\ \A o \in OrderIds :
       /\ orders[o].status = "FILLED" => exch[o].filled = orders[o].qty
       /\ orders[o].status = "PARTIALLY_FILLED" => exch[o].filled > 0
  /\ \A f \in fills : f.qty <= exch[f.order].filled
  /\ \A l \in LotIds : lots[l].st # "NONE" =>
       /\ orders[l[1]].kind = "open"
       /\ 0 < lots[l].qty /\ lots[l].qty <= exch[l[1]].filled

\* createFromOpenFill, called by placeOrder, syncPendingFills and
\* repairMissingLots at once, builds one lot for one opening order.
OneLotPerOpenOrder ==
  \A l, m \in LotIds :
    lots[l].st # "NONE" /\ lots[m].st # "NONE" /\ l[1] = m[1] => l = m

\* A lot that was settled was settled by a closing order placed for that very
\* lot, and that order was filled at the exchange.
SettledByOwnClose ==
  \A l \in LotIds :
    lots[l].settledBy # 0 =>
      LET o == lots[l].settledBy IN
      /\ lots[l].st = "CLOSED"
      /\ orders[o].kind = "close" /\ orders[o].lot = l
      /\ exch[o].filled > 0

\* A task that holds the order's fill and is going to build its lot.
Accounting(w, o) ==
  task[w].ord = o /\ task[w].pc \in {"saveOrder", "saveFill", "lotFind", "lotInsert"}

\* An opening order without a lot that is still going to get one: from a task
\* that is at it, from a later sync, which wants an order without a fill row,
\* or from a later repair, which wants one with it.  A NEW order with a fill row
\* is neither's, and one that expired is nobody's but its own task's.
Recoverable(o) ==
  /\ orders[o].kind = "open" /\ LotsOf(o) = {}
  /\ \/ orders[o].status \in {"FILLED", "PARTIALLY_FILLED"}
     \/ orders[o].status = "NEW" /\ (HasFill(o) => \E w \in Workers : Accounting(w, o))
     \/ orders[o].status = "EXPIRED" /\ \E w \in Workers : Accounting(w, o)

\* A lot that is open, or was archived rather than settled.
Tracked(l) == lots[l].st = "OPEN" \/ (lots[l].st = "CLOSED" /\ lots[l].settledBy = 0)

\* Whatever the exchange holds is in an open lot, or in the fill of an order a
\* round can still account for, or was archived.  What is in none of them has
\* no exit and no profit.
NoUntrackedPosition ==
  pos <= SumFunctionOnSet([l \in LotIds |-> lots[l].qty], {l \in LotIds : Tracked(l)})
         + SumFunctionOnSet([o \in OrderIds |-> exch[o].filled], {o \in OrderIds : Recoverable(o)})

\* A fill of an opening order becomes a lot in the end, whoever records it.
FilledOpenGetsLot ==
  \A o \in OrderIds :
    (orders[o].kind = "open" /\ exch[o].filled > 0) ~> (LotsOf(o) # {})

\* A fill of a closing order that is not recorded yet closes the lot in the
\* end.  (Once it is recorded nothing closes the lot again: see ClosedForGood.)
FilledCloseSettlesLot ==
  \A o \in OrderIds :
    (orders[o].kind = "close" /\ exch[o].filled > 0 /\ ~HasFill(o))
      ~> (orders[o].kind = "close" /\ lots[orders[o].lot].st = "CLOSED")
=============================================================================
