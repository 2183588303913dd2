------------------------- MODULE FuturesLedgerProofs -------------------------
(***************************************************************************)
(* Proofs about FuturesLedger, for any number of orders, tasks, crashes    *)
(* and any quantity: the ledger's types, that it never shows what did not  *)
(* happen at the exchange, that a settled lot was settled by its own       *)
(* closing order, where the index on openOrderId is unique, that an        *)
(* opening order has one lot, and, while nothing fails, that no position   *)
(* of the exchange is lost sight of.                                       *)
(***************************************************************************)
EXTENDS FuturesLedger, FiniteSetTheorems, WellFoundedInduction, TLAPS

Started(o) == orders[o].status # "NONE"
Exists(l)  == lots[l].st # "NONE"

\* What every order satisfies whatever the tasks are doing.
OrderFine(o) ==
  /\ ~Started(o) => exch[o].st = "none" /\ exch[o].filled = 0
  /\ exch[o].filled <= orders[o].qty
  /\ exch[o].st = "live" => exch[o].filled < orders[o].qty
  /\ Started(o) => 0 < orders[o].qty
  /\ Started(o) /\ orders[o].kind = "close" =>
       orders[o].lot \in LotIds /\ Exists(orders[o].lot)

\* Steps of a task that works on its order, among them those that carry a
\* fill to be written.
OnOrder == {"send", "record", "confirm", "recover", "saveOrder", "saveFill", "fail",
            "lotFind", "lotInsert", "lotGet", "lotClose"}
WithFill == {"saveOrder", "saveFill", "lotFind", "lotInsert", "lotGet", "lotClose"}

\* What the local variables t of task w satisfy: what it carries was read from
\* the tables or the exchange and is still backed by them.
TaskFine(w, t) ==
  /\ t.pc \in OnOrder => t.ord \in OrderIds /\ Started(t.ord)
  /\ t.pc = "send" => exch[t.ord].st = "none" /\ exch[t.ord].filled = 0
  /\ t.pc = "record" => t.qty <= exch[t.ord].filled
  /\ t.pc \in WithFill => 0 < t.qty /\ t.qty <= exch[t.ord].filled
  /\ t.pc \in {"lotFind", "lotInsert"} => orders[t.ord].kind = "open"
  /\ t.pc \in {"lotGet", "lotClose"} => orders[t.ord].kind = "close"
  /\ t.pc \in {"decided", "closing", "attach"} => t.lot \in LotIds /\ Exists(t.lot)
  /\ \A l \in t.read : Exists(l)
  /\ \A o \in t.todo : Started(o) /\ (w \in Repairers => orders[o].kind = "open")

\* No two tasks are about to send the same order.
SendsOwn ==
  \A v, w \in Workers :
    At(v, "send") /\ At(w, "send") /\ task[v].ord = task[w].ord => v = w

\* The inductive invariant.
IInv ==
  /\ TypeOK
  /\ \A o \in OrderIds : OrderFine(o)
  /\ \A w \in Workers : TaskFine(w, task[w])
  /\ SendsOwn
  /\ BackedByExchange
  /\ SettledByOwnClose

\* The tables and the exchange only ever gain: an order placed stays placed
\* and keeps its kind, its fill only grows, and a lot is never deleted.
Grows ==
  /\ \A o \in OrderIds : Started(o) => Started(o)' /\ orders'[o].kind = orders[o].kind
  /\ \A o \in OrderIds : exch[o].filled <= exch'[o].filled
  /\ \A l \in LotIds : Exists(l) => Exists(l)'

-----------------------------------------------------------------------------
(* Tasks and the tables around them *)

\* What a task carries stays true while other tasks let the tables grow.
LEMMA TaskFrame ==
  ASSUME TypeOK, TypeOK', Grows,
         NEW w \in Workers, NEW t \in Task, TaskFine(w, t),
         t.pc = "send" => exch'[t.ord] = exch[t.ord]
  PROVE  TaskFine(w, t)'
<1>1. t.todo \subseteq OrderIds /\ t.read \subseteq LotIds /\ t.qty \in 0..Qty
  BY DEF Task
<1>2. \A o \in OrderIds : exch[o].filled \in Nat /\ exch'[o].filled \in Nat
  BY LedgerAssumption DEF TypeOK, ExchangeOrder
<1>3. (t.pc \in OnOrder => t.ord \in OrderIds /\ Started(t.ord))'
  BY DEF TaskFine, Grows
<1>4. (t.pc = "send" => exch[t.ord].st = "none" /\ exch[t.ord].filled = 0)'
  BY DEF TaskFine
<1>5. (t.pc = "record" => t.qty <= exch[t.ord].filled)'
  BY <1>1, <1>2 DEF TaskFine, Grows, OnOrder
<1>6. (t.pc \in WithFill => 0 < t.qty /\ t.qty <= exch[t.ord].filled)'
  BY <1>1, <1>2 DEF TaskFine, Grows, OnOrder, WithFill
<1>7. /\ (t.pc \in {"lotFind", "lotInsert"} => orders[t.ord].kind = "open")'
      /\ (t.pc \in {"lotGet", "lotClose"} => orders[t.ord].kind = "close")'
  BY DEF TaskFine, Grows, OnOrder
<1>8. (t.pc \in {"decided", "closing", "attach"} => t.lot \in LotIds /\ Exists(t.lot))'
  BY DEF TaskFine, Grows
<1>9. (\A l \in t.read : Exists(l))'
  BY <1>1 DEF TaskFine, Grows
<1>10. (\A o \in t.todo : Started(o) /\ (w \in Repairers => orders[o].kind = "open"))'
  BY <1>1 DEF TaskFine, Grows
<1> QED
  BY <1>3, <1>4, <1>5, <1>6, <1>7, <1>8, <1>9, <1>10 DEF TaskFine

\* One task steps to t and lets the tables grow: all tasks are fine if t is.
LEMMA TasksStayFine ==
  ASSUME TypeOK, TypeOK', Grows, \A v \in Workers : TaskFine(v, task[v]),
         NEW w \in Workers, NEW t \in Task, task' = [task EXCEPT ![w] = t],
         TaskFine(w, t)',
         \A v \in Workers \ {w} : At(v, "send") => exch'[task[v].ord] = exch[task[v].ord]
  PROVE  \A v \in Workers : TaskFine(v, task[v])'
<1> SUFFICES ASSUME NEW v \in Workers PROVE TaskFine(v, task[v])'
  OBVIOUS
<1>1. CASE v = w
  <2>1. task'[v] = t
    BY <1>1 DEF TypeOK
  <2> QED
    BY <2>1, <1>1 DEF TaskFine, Started, Exists
<1>2. CASE v # w
  <2>1. task'[v] = task[v] /\ task[v] \in Task
    BY <1>2 DEF TypeOK
  <2>2. task[v].pc = "send" => exch'[task[v].ord] = exch[task[v].ord]
    BY <1>2 DEF At
  <2> DEFINE u == task[v]
  <2>3. TaskFine(v, u) /\ u \in Task /\ (u.pc = "send" => exch'[u.ord] = exch[u.ord])
    BY <2>1, <2>2
  <2> QED
    BY <2>1, <2>3, TaskFrame DEF TaskFine, Started, Exists
<1> QED
  BY <1>1, <1>2

\* A step of one task that leaves tables and exchange alone.
LEMMA TaskStep ==
  ASSUME IInv, NEW w \in Workers, NEW t \in Task, TaskFine(w, t), t.pc # "send",
         task' = [task EXCEPT ![w] = t],
         UNCHANGED <<tables, exchange, crashes>>
  PROVE  IInv'
<1> USE DEF tables, exchange
<1>1. TypeOK'
  BY DEF IInv, TypeOK
<1>2. Grows
  BY <1>1, LedgerAssumption DEF Grows, Started, Exists, TypeOK, ExchangeOrder
<1>3. TaskFine(w, t)'
  BY DEF TaskFine, Started, Exists
<1>4. \A v \in Workers : TaskFine(v, task[v])'
  BY <1>1, <1>2, <1>3, TasksStayFine DEF IInv
<1>5. \A o \in OrderIds : OrderFine(o)'
  BY DEF IInv, OrderFine, Started, Exists
<1>6. SendsOwn'
  BY DEF IInv, SendsOwn, At, TypeOK
<1>7. BackedByExchange' /\ SettledByOwnClose'
  BY DEF IInv, BackedByExchange, SettledByOwnClose
<1> QED
  BY <1>1, <1>4, <1>5, <1>6, <1>7 DEF IInv

\* Idle, what a task comes to when it is finished, is fine at any time.
LEMMA FinishedFine ==
  ASSUME IInv, NEW w \in Workers
  PROVE  /\ Idle \in Task /\ TaskFine(w, Idle)
         /\ Finished(w) \in Task /\ TaskFine(w, Finished(w)) /\ Finished(w).pc # "send"
<1>1. task[w] \in Task /\ TaskFine(w, task[w])
  BY DEF IInv, TypeOK
<1>2. Idle \in Task /\ TaskFine(w, Idle)
  BY LedgerAssumption DEF Idle, Task, Steps, TaskFine, OnOrder, WithFill
<1>3. CASE w \in Placers
  <2>1. Finished(w) = Idle
    BY <1>3, LedgerAssumption DEF Finished
  <2>2. Idle.pc = "idle"
    BY DEF Idle
  <2> QED
    BY <1>2, <2>1, <2>2
<1>4. CASE w \notin Placers /\ w \in Starters
  <2>1. Finished(w) = [Idle EXCEPT !.pc = "claim"]
    BY <1>4 DEF Finished
  <2>2. Finished(w) \in Task /\ Finished(w).pc = "claim"
    BY <1>2, <2>1 DEF Idle, Task, Steps
  <2>3. TaskFine(w, Finished(w))
    BY <2>1, <2>2 DEF Idle, TaskFine, OnOrder, WithFill
  <2> QED
    BY <1>2, <2>2, <2>3
<1>5. CASE w \notin Placers /\ w \notin Starters
  <2> DEFINE rest == task[w].todo \ {task[w].ord}
  <2>1. Finished(w) = [Idle EXCEPT !.pc = "next", !.todo = rest]
    BY <1>5 DEF Finished
  <2>2. rest \in SUBSET OrderIds
    BY <1>1 DEF Task
  <2>3. Finished(w) \in Task /\ Finished(w).pc = "next"
    <3> HIDE DEF rest
    <3> QED
      BY <1>2, <2>1, <2>2 DEF Idle, Task, Steps
  <2>4. TaskFine(w, Finished(w))
    BY <1>1, <2>1, <2>3 DEF Idle, TaskFine, OnOrder, WithFill
  <2> QED
    BY <1>2, <2>3, <2>4
<1> QED
  BY <1>2, <1>3, <1>4, <1>5

\* A finished task.
LEMMA FinishStep ==
  ASSUME IInv, NEW w \in Workers, Finish(w), UNCHANGED <<tables, exchange, crashes>>
  PROVE  IInv'
BY FinishedFine, TaskStep DEF Finish

\* A task that goes on to a step with nothing else changed.
LEMMA GoStep ==
  ASSUME IInv, NEW w \in Workers, NEW step \in Steps \ {"send"}, Go(w, step),
         TaskFine(w, [task[w] EXCEPT !.pc = step]),
         UNCHANGED <<tables, exchange, crashes>>
  PROVE  IInv'
<1> DEFINE t == [task[w] EXCEPT !.pc = step]
<1>1. task[w] \in Task
  BY DEF IInv, TypeOK
<1>2. t \in Task /\ t.pc # "send"
  BY <1>1 DEF Task
<1>3. task' = [task EXCEPT ![w] = t]
  BY DEF Go
<1> QED
  BY <1>2, <1>3, TaskStep

-----------------------------------------------------------------------------
(* The steps of a task that write no table *)

LEMMA PlacerControl ==
  ASSUME IInv, NEW w \in Workers,
         \/ \E l \in LotIds : Decide(w, l) \/ Request(w, l)
         \/ CheckLot(w) \/ SendRefused(w)
         \/ ConfirmFound(w) \/ ConfirmNothing(w) \/ ReadPositions(w) \/ ArchiveRead(w)
  PROVE  IInv'
<1>1. task[w] \in Task /\ TaskFine(w, task[w])
  BY DEF IInv, TypeOK
<1>2. ASSUME NEW l \in LotIds, Decide(w, l) \/ Request(w, l) PROVE IInv'
  <2> DEFINE t == [Idle EXCEPT !.pc = "decided", !.lot = l]
  <2>1. Exists(l) /\ task' = [task EXCEPT ![w] = t] /\ UNCHANGED <<tables, exchange, crashes>>
    BY <1>2 DEF Decide, Request, Exists
  <2>2. t \in Task /\ t.pc # "send"
    BY FinishedFine DEF Task, Steps
  <2>3. TaskFine(w, t)
    BY <2>1 DEF Idle, TaskFine, OnOrder, WithFill
  <2> QED
    BY <2>1, <2>2, <2>3, TaskStep
<1>3. CASE CheckLot(w)
  <2>1. TaskFine(w, [task[w] EXCEPT !.pc = "closing"])
    BY <1>1, <1>3 DEF CheckLot, At, Task, TaskFine, OnOrder, WithFill
  <2> QED
    BY <1>3, <2>1, GoStep, FinishStep DEF CheckLot, Steps
<1>5. CASE SendRefused(w)
  <2>1. PICK resp \in {"error", "reduceOnly"} :
           task' = [task EXCEPT ![w].pc = "recover", ![w].resp = resp]
    BY <1>5 DEF SendRefused
  <2> DEFINE t == [task[w] EXCEPT !.pc = "recover", !.resp = resp]
  <2>2. task' = [task EXCEPT ![w] = t] /\ UNCHANGED <<tables, exchange, crashes>>
    BY <1>5, <2>1 DEF SendRefused
  <2>3. t \in Task /\ t.pc # "send"
    BY <1>1 DEF Task, Steps
  <2>4. TaskFine(w, t)
    BY <1>1, <1>5 DEF SendRefused, At, Task, TaskFine, OnOrder, WithFill
  <2> QED
    BY <2>2, <2>3, <2>4, TaskStep
<1>6. CASE ConfirmFound(w)
  <2> DEFINE q == exch[task[w].ord].filled
             t == [task[w] EXCEPT !.pc = "saveOrder", !.qty = q]
  <2>1. task' = [task EXCEPT ![w] = t] /\ UNCHANGED <<tables, exchange, crashes>>
    BY <1>6 DEF ConfirmFound
  <2>2. task[w].ord \in OrderIds /\ Started(task[w].ord) /\ q \in 0..Qty /\ 0 < q
    BY <1>1, <1>6 DEF ConfirmFound, At, TaskFine, OnOrder, IInv, TypeOK, ExchangeOrder
  <2>3. t \in Task /\ t.pc # "send"
    BY <1>1, <2>2 DEF Task, Steps
  <2>4. TaskFine(w, t)
    BY <1>1, <2>2 DEF Task, TaskFine, OnOrder, WithFill
  <2> QED
    BY <2>1, <2>3, <2>4, TaskStep
<1>7. CASE ConfirmNothing(w)
  <2>1. CASE Finish(w)
    BY <1>7, <2>1, FinishStep DEF ConfirmNothing
  <2>2. CASE At(w, "recover") /\ Go(w, "fail")
    <3>1. TaskFine(w, [task[w] EXCEPT !.pc = "fail"])
      BY <1>1, <2>2 DEF At, Task, TaskFine, OnOrder, WithFill
    <3> QED
      BY <1>7, <2>2, <3>1, GoStep DEF ConfirmNothing, Steps
  <2> QED
    BY <1>7, <2>1, <2>2 DEF ConfirmNothing
<1>8. CASE ReadPositions(w)
  <2>1. CASE Finish(w)
    BY <1>8, <2>1, FinishStep DEF ReadPositions
  <2>2. CASE Go(w, "archive")
    <3>1. TaskFine(w, [task[w] EXCEPT !.pc = "archive"])
      BY <1>1 DEF Task, TaskFine, OnOrder, WithFill
    <3> QED
      BY <1>8, <2>2, <3>1, GoStep DEF ReadPositions, Steps
  <2> QED
    BY <1>8, <2>1, <2>2 DEF ReadPositions
<1>9. CASE ArchiveRead(w)
  <2> DEFINE open == {l \in LotIds : lots[l].st = "OPEN"}
             t == [task[w] EXCEPT !.pc = "archiveSave", !.read = open]
  <2>1. CASE Finish(w)
    BY <1>9, <2>1, FinishStep DEF ArchiveRead
  <2>2. CASE task' = [task EXCEPT ![w] = t]
    <3>1. t \in Task /\ t.pc # "send"
      BY <1>1 DEF Task, Steps
    <3>2. TaskFine(w, t)
      BY <1>1 DEF Task, TaskFine, OnOrder, WithFill, Exists
    <3> QED
      BY <1>9, <2>2, <3>1, <3>2, TaskStep DEF ArchiveRead
  <2> QED
    BY <1>9, <2>1, <2>2 DEF ArchiveRead
<1> QED
  BY <1>2, <1>3, <1>5, <1>6, <1>7, <1>8, <1>9

LEMMA RoundControl ==
  ASSUME IInv, NEW w \in Workers,
         \/ SyncBegin(w) \/ SyncReadFills(w) \/ RoundDone(w) \/ RepairBegin(w)
         \/ \E o \in OrderIds : SyncFound(w, o) \/ SyncSkip(w, o) \/ RepairCheck(w, o)
         \/ StartInstance(w) \/ ClaimRead(w) \/ LotFind(w) \/ LotGet(w)
  PROVE  IInv'
<1>1. task[w] \in Task /\ TaskFine(w, task[w])
  BY DEF IInv, TypeOK
<1>2. CASE SyncBegin(w)
  <2> DEFINE due == FirstOf(WithStatus({"NEW", "FILLED", "PARTIALLY_FILLED"}), 2 * SyncLimit)
             t == [Idle EXCEPT !.pc = "readFills", !.todo = due]
  <2>1. task' = [task EXCEPT ![w] = t] /\ UNCHANGED <<tables, exchange, crashes>>
    BY <1>2 DEF SyncBegin
  <2>2. t \in Task /\ t.pc # "send"
    <3>1. due \in SUBSET OrderIds
      BY DEF FirstOf, WithStatus
    <3> HIDE DEF due
    <3> QED
      BY <3>1, FinishedFine DEF Idle, Task, Steps
  <2>3. TaskFine(w, t)
    <3>1. \A o \in due : Started(o)
      BY DEF FirstOf, WithStatus, Started
    <3>2. w \notin Repairers
      BY <1>2, LedgerAssumption DEF SyncBegin
    <3> HIDE DEF due
    <3> QED
      BY <3>1, <3>2 DEF Idle, TaskFine, OnOrder, WithFill
  <2> QED
    BY <2>1, <2>2, <2>3, TaskStep
<1>3. CASE SyncReadFills(w)
  <2> DEFINE left == FirstOf({o \in task[w].todo : ~HasFill(o)}, SyncLimit)
             t == [task[w] EXCEPT !.pc = "next", !.todo = left]
  <2>1. task' = [task EXCEPT ![w] = t] /\ UNCHANGED <<tables, exchange, crashes>>
    BY <1>1, <1>3 DEF SyncReadFills, Task
  <2>2. t \in Task /\ t.pc # "send"
    <3>1. left \in SUBSET OrderIds
      BY <1>1 DEF Task, FirstOf
    <3> HIDE DEF left
    <3> QED
      BY <1>1, <3>1 DEF Task, Steps
  <2>3. TaskFine(w, t)
    <3>1. left \subseteq task[w].todo
      BY DEF FirstOf
    <3> HIDE DEF left
    <3> QED
      BY <1>1, <3>1 DEF Task, TaskFine, OnOrder, WithFill
  <2> QED
    BY <2>1, <2>2, <2>3, TaskStep
<1>4. CASE RoundDone(w)
  BY <1>4, FinishedFine, TaskStep DEF RoundDone, Idle
<1>5. CASE RepairBegin(w)
  <2> DEFINE due == LastOf({o \in WithStatus({"FILLED", "PARTIALLY_FILLED"}) :
                              orders[o].kind = "open"}, RepairLimit)
             t == [Idle EXCEPT !.pc = "next", !.todo = due]
  <2>1. task' = [task EXCEPT ![w] = t] /\ UNCHANGED <<tables, exchange, crashes>>
    BY <1>5 DEF RepairBegin
  <2>2. t \in Task /\ t.pc # "send"
    <3>1. due \in SUBSET OrderIds
      BY DEF LastOf, WithStatus
    <3> HIDE DEF due
    <3> QED
      BY <3>1, FinishedFine DEF Idle, Task, Steps
  <2>3. TaskFine(w, t)
    <3>1. \A o \in due : Started(o) /\ orders[o].kind = "open"
      BY DEF LastOf, WithStatus, Started
    <3> HIDE DEF due
    <3> QED
      BY <3>1 DEF Idle, TaskFine, OnOrder, WithFill
  <2> QED
    BY <2>1, <2>2, <2>3, TaskStep
<1>6. ASSUME NEW o \in OrderIds, SyncFound(w, o) PROVE IInv'
  <2> DEFINE q == exch[o].filled
             t == [task[w] EXCEPT !.pc = "saveFill", !.ord = o, !.qty = q]
  <2>1. task' = [task EXCEPT ![w] = t] /\ UNCHANGED <<tables, exchange, crashes>>
    BY <1>6 DEF SyncFound
  <2>2. Started(o) /\ q \in 0..Qty /\ 0 < q
    BY <1>1, <1>6 DEF SyncFound, Oldest, TaskFine, IInv, TypeOK, ExchangeOrder
  <2>3. t \in Task /\ t.pc # "send"
    <3>1. o \in 0..MaxOrders
      BY LedgerAssumption DEF OrderIds
    <3> HIDE DEF q
    <3> QED
      BY <1>1, <2>2, <3>1 DEF Task, Steps
  <2>4. TaskFine(w, t)
    BY <1>1, <2>2 DEF Task, TaskFine, OnOrder, WithFill
  <2> QED
    BY <2>1, <2>3, <2>4, TaskStep
<1>7. ASSUME NEW o \in OrderIds,
             task' = [task EXCEPT ![w].todo = @ \ {o}], UNCHANGED <<tables, exchange, crashes>>,
             At(w, "next")
      PROVE  IInv'
  <2> DEFINE left == task[w].todo \ {o}
             t == [task[w] EXCEPT !.todo = left]
  <2>1. task' = [task EXCEPT ![w] = t]
    BY <1>1, <1>7 DEF Task
  <2>2. t \in Task /\ t.pc # "send"
    <3>1. left \in SUBSET OrderIds
      BY <1>1 DEF Task
    <3> HIDE DEF left
    <3> QED
      BY <1>1, <1>7, <3>1 DEF Task, Steps, At
  <2>3. TaskFine(w, t)
    BY <1>1 DEF Task, TaskFine
  <2> QED
    BY <1>7, <2>1, <2>2, <2>3, TaskStep
<1>8. ASSUME NEW o \in OrderIds, RepairCheck(w, o) PROVE IInv'
  <2>1. CASE LotsOf(o) = {} /\ HasFill(o)
    <3>1. PICK f \in fills :
            f.order = o /\ task' = [task EXCEPT ![w].pc = "lotFind", ![w].ord = o, ![w].qty = f.qty]
      BY <1>8, <2>1 DEF RepairCheck
    <3> DEFINE t == [task[w] EXCEPT !.pc = "lotFind", !.ord = o, !.qty = f.qty]
    <3>2. task' = [task EXCEPT ![w] = t] /\ UNCHANGED <<tables, exchange, crashes>>
      BY <1>8, <3>1 DEF RepairCheck
    <3>3. f.qty \in 1..Qty /\ f.qty <= exch[o].filled
      BY <3>1 DEF IInv, TypeOK, FillRow, BackedByExchange
    <3>4. Started(o) /\ orders[o].kind = "open"
      BY <1>1, <1>8 DEF RepairCheck, Newest, TaskFine
    <3>5. t \in Task /\ t.pc # "send"
      <4>1. o \in 0..MaxOrders /\ f.qty \in 0..Qty
        BY <3>3, LedgerAssumption DEF OrderIds
      <4> QED
        BY <1>1, <4>1 DEF Task, Steps
    <3>6. TaskFine(w, t)
      BY <1>1, <3>3, <3>4 DEF Task, TaskFine, OnOrder, WithFill
    <3> QED
      BY <3>2, <3>5, <3>6, TaskStep
  <2>2. CASE ~(LotsOf(o) = {} /\ HasFill(o))
    BY <1>7, <1>8, <2>2 DEF RepairCheck
  <2> QED
    BY <2>1, <2>2
<1>9. CASE StartInstance(w)
  <2>1. TaskFine(w, [task[w] EXCEPT !.pc = "positions"])
    BY <1>1 DEF Task, TaskFine, OnOrder, WithFill
  <2> QED
    BY <1>9, <2>1, GoStep DEF StartInstance, Steps
<1>10. CASE ClaimRead(w)
  <2>1. PICK S \in SUBSET {l \in LotIds : lots[l].st = "OPEN"} :
          task' = [task EXCEPT ![w] = IF S = {} THEN Idle
                                      ELSE [Idle EXCEPT !.pc = "claimSave", !.read = S]]
    BY <1>10 DEF ClaimRead
  <2>2. UNCHANGED <<tables, exchange, crashes>>
    BY <1>10 DEF ClaimRead
  <2>3. CASE S = {}
    BY <2>1, <2>2, <2>3, FinishedFine, TaskStep DEF Idle
  <2>4. CASE S # {}
    <3> DEFINE t == [Idle EXCEPT !.pc = "claimSave", !.read = S]
    <3>1. t \in Task /\ t.pc # "send"
      BY FinishedFine DEF Idle, Task, Steps
    <3>2. TaskFine(w, t)
      BY DEF Idle, TaskFine, OnOrder, WithFill, Exists
    <3> QED
      BY <2>1, <2>2, <2>4, <3>1, <3>2, TaskStep
  <2> QED
    BY <2>3, <2>4
<1>11. CASE LotFind(w)
  <2>1. CASE Finish(w)
    BY <1>11, <2>1, FinishStep DEF LotFind
  <2>2. CASE Go(w, "lotInsert")
    <3>1. TaskFine(w, [task[w] EXCEPT !.pc = "lotInsert"])
      BY <1>1, <1>11 DEF LotFind, At, Task, TaskFine, OnOrder, WithFill
    <3> QED
      BY <1>11, <2>2, <3>1, GoStep DEF LotFind, Steps
  <2> QED
    BY <1>11, <2>1, <2>2 DEF LotFind
<1>12. CASE LotGet(w)
  <2>1. CASE Finish(w)
    BY <1>12, <2>1, FinishStep DEF LotGet
  <2>2. CASE Go(w, "lotClose")
    <3>1. TaskFine(w, [task[w] EXCEPT !.pc = "lotClose"])
      BY <1>1, <1>12 DEF LotGet, At, Task, TaskFine, OnOrder, WithFill
    <3> QED
      BY <1>12, <2>2, <3>1, GoStep DEF LotGet, Steps
  <2> QED
    BY <1>12, <2>1, <2>2 DEF LotGet
<1>13. ASSUME NEW o \in OrderIds, SyncSkip(w, o) PROVE IInv'
  BY <1>7, <1>13 DEF SyncSkip
<1> QED
  BY <1>2, <1>3, <1>4, <1>5, <1>6, <1>8, <1>9, <1>10, <1>11, <1>12, <1>13

-----------------------------------------------------------------------------
(* The steps that write a status or a fill *)

\* A status the exchange backs is saved to an order that was placed.
LEMMA StatusStep ==
  ASSUME IInv, NEW w \in Workers, NEW o \in OrderIds, Started(o),
         NEW s \in OrderStatus \ {"NONE"},
         s = "FILLED" => exch[o].filled = orders[o].qty,
         s = "PARTIALLY_FILLED" => exch[o].filled > 0,
         orders' = [orders EXCEPT ![o].status = s],
         NEW t \in Task, TaskFine(w, t), t.pc # "send",
         task' = [task EXCEPT ![w] = t],
         UNCHANGED <<fills, lots, exchange, crashes>>
  PROVE  IInv'
<1> USE DEF exchange
<1>1. \A p \in OrderIds :
        /\ orders'[p] = [orders[p] EXCEPT !.status = IF p = o THEN s ELSE @]
        /\ orders'[p] \in OrderRow
  BY DEF IInv, TypeOK, OrderRow, OrderStatus
<1>2. \A p \in OrderIds :
        /\ orders'[p].kind = orders[p].kind /\ orders'[p].lot = orders[p].lot
        /\ orders'[p].qty = orders[p].qty
        /\ p # o => orders'[p].status = orders[p].status
        /\ p = o => orders'[p].status = s
  BY <1>1 DEF IInv, TypeOK, OrderRow
<1>3. TypeOK'
  BY <1>1 DEF IInv, TypeOK
<1>4. Grows
  BY <1>2, <1>3, LedgerAssumption DEF Grows, Started, Exists, TypeOK, ExchangeOrder, OrderStatus
<1>5. TaskFine(w, t)'
  BY <1>3, <1>4, TaskFrame DEF IInv
<1>6. \A v \in Workers : TaskFine(v, task[v])'
  BY <1>3, <1>4, <1>5, TasksStayFine DEF IInv
<1>7. \A p \in OrderIds : OrderFine(p)'
  BY <1>2 DEF IInv, OrderFine, Started, Exists
<1>8. SendsOwn'
  BY DEF IInv, SendsOwn, At, TypeOK
<1>9. BackedByExchange'
  <2>1. \A l \in LotIds : l[1] \in OrderIds
    BY DEF LotIds
  <2> QED
    BY <1>2, <2>1 DEF IInv, BackedByExchange
<1>10. SettledByOwnClose'
  <2>1. \A l \in LotIds : lots[l].settledBy # 0 => lots[l].settledBy \in OrderIds
    BY LedgerAssumption DEF IInv, TypeOK, LotRow, OrderIds
  <2> QED
    BY <1>2, <2>1 DEF IInv, SettledByOwnClose
<1> QED
  BY <1>3, <1>6, <1>7, <1>8, <1>9, <1>10 DEF IInv

\* What StatusFor gives is backed by any fill it is given.
LEMMA StatusForBacked ==
  ASSUME IInv, NEW o \in OrderIds, NEW q \in 0..Qty, 0 < q, q <= exch[o].filled
  PROVE  /\ StatusFor(o, q) \in OrderStatus \ {"NONE"}
         /\ StatusFor(o, q) = "FILLED" => exch[o].filled = orders[o].qty
         /\ StatusFor(o, q) = "PARTIALLY_FILLED" => exch[o].filled > 0
<1>1. orders[o].qty \in 0..Qty /\ exch[o].filled \in 0..Qty /\ exch[o].filled <= orders[o].qty
  BY DEF IInv, TypeOK, OrderRow, ExchangeOrder, OrderFine
<1> QED
  BY <1>1, LedgerAssumption DEF StatusFor, OrderStatus

LEMMA StatusSaved ==
  ASSUME IInv, NEW w \in Workers, RecordResponse(w) \/ SaveOrder(w) \/ SaveFailed(w)
  PROVE  IInv'
<1> DEFINE o == task[w].ord
<1>1. task[w] \in Task /\ TaskFine(w, task[w])
  BY DEF IInv, TypeOK
<1>2. o \in OrderIds /\ Started(o) /\ task[w].qty \in 0..Qty
  BY <1>1 DEF RecordResponse, SaveOrder, SaveFailed, At, TaskFine, OnOrder, Task
<1>3. CASE RecordResponse(w)
  <2> PICK s \in ResponseStatus(o, task[w].qty) : orders' = [orders EXCEPT ![o].status = s]
    BY <1>3 DEF RecordResponse
  <2>1. task[w].qty <= exch[o].filled
    BY <1>1, <1>3 DEF RecordResponse, At, TaskFine
  <2>2. /\ s \in OrderStatus \ {"NONE"}
        /\ s = "FILLED" => exch[o].filled = orders[o].qty
        /\ s = "PARTIALLY_FILLED" => exch[o].filled > 0
    BY <1>2, <2>1, StatusForBacked DEF ResponseStatus, OrderStatus
  <2>3. orders' = [orders EXCEPT ![o].status = s] /\ UNCHANGED <<fills, lots, exchange, crashes>>
    BY <1>3 DEF RecordResponse
  <2>4. CASE task[w].qty > 0 /\ Go(w, "saveFill")
    <3> DEFINE t == [task[w] EXCEPT !.pc = "saveFill"]
    <3>1. t \in Task /\ t.pc # "send" /\ task' = [task EXCEPT ![w] = t]
      BY <1>1, <2>4 DEF Task, Steps, Go
    <3>2. TaskFine(w, t)
      BY <1>1, <1>2, <2>1, <2>4 DEF Task, TaskFine, OnOrder, WithFill
    <3> HIDE DEF t
    <3> QED
      BY <1>2, <2>2, <2>3, <3>1, <3>2, StatusStep
  <2>5. CASE Go(w, "confirm")
    <3> DEFINE t == [task[w] EXCEPT !.pc = "confirm"]
    <3>1. t \in Task /\ t.pc # "send" /\ task' = [task EXCEPT ![w] = t]
      BY <1>1, <2>5 DEF Task, Steps, Go
    <3>2. TaskFine(w, t)
      BY <1>1, <1>2 DEF Task, TaskFine, OnOrder, WithFill
    <3> HIDE DEF t
    <3> QED
      BY <1>2, <2>2, <2>3, <3>1, <3>2, StatusStep
  <2>6. CASE Finish(w)
    BY <1>2, <2>2, <2>3, <2>6, FinishedFine, StatusStep DEF Finish
  <2> QED
    BY <1>3, <2>4, <2>5, <2>6 DEF RecordResponse
<1>4. CASE SaveOrder(w)
  <2> DEFINE s == StatusFor(o, task[w].qty)
  <2>1. 0 < task[w].qty /\ task[w].qty <= exch[o].filled
    BY <1>1, <1>4 DEF SaveOrder, At, TaskFine, WithFill
  <2>2. /\ s \in OrderStatus \ {"NONE"}
        /\ s = "FILLED" => exch[o].filled = orders[o].qty
        /\ s = "PARTIALLY_FILLED" => exch[o].filled > 0
    BY <1>2, <2>1, StatusForBacked
  <2>3. /\ orders' = [orders EXCEPT ![o].status = s]
        /\ UNCHANGED <<fills, lots, exchange, crashes>>
    BY <1>4 DEF SaveOrder
  <2>4. PICK step \in {"saveFill", "lotFind", "lotGet"} :
          /\ Go(w, step)
          /\ step = "lotFind" => orders[o].kind = "open"
          /\ step = "lotGet" => orders[o].kind = "close"
    BY <1>2, <1>4 DEF SaveOrder, IInv, TypeOK, OrderRow
  <2> DEFINE t == [task[w] EXCEPT !.pc = step]
  <2>5. t \in Task /\ t.pc # "send" /\ task' = [task EXCEPT ![w] = t]
    BY <1>1, <2>4 DEF Task, Steps, Go
  <2>6. TaskFine(w, t)
    BY <1>1, <1>2, <2>1, <2>4 DEF Task, TaskFine, OnOrder, WithFill
  <2> HIDE DEF t, s
  <2> QED
    BY <1>2, <2>2, <2>3, <2>5, <2>6, StatusStep
<1>5. CASE SaveFailed(w)
  <2> DEFINE s == "FAILED"
  <2>1. /\ s \in OrderStatus \ {"NONE"}
        /\ s # "FILLED" /\ s # "PARTIALLY_FILLED"
        /\ orders' = [orders EXCEPT ![o].status = s]
        /\ UNCHANGED <<fills, lots, exchange, crashes>>
    BY <1>5 DEF SaveFailed, OrderStatus
  <2>2. CASE Go(w, "positions")
    <3> DEFINE t == [task[w] EXCEPT !.pc = "positions"]
    <3>1. t \in Task /\ t.pc # "send" /\ task' = [task EXCEPT ![w] = t]
      BY <1>1, <2>2 DEF Task, Steps, Go
    <3>2. TaskFine(w, t)
      BY <1>1 DEF Task, TaskFine, OnOrder, WithFill
    <3> HIDE DEF t, s
    <3> QED
      BY <1>2, <2>1, <3>1, <3>2, StatusStep
  <2>3. CASE Finish(w)
    <3> HIDE DEF s
    <3> QED
      BY <1>2, <2>1, <2>3, FinishedFine, StatusStep DEF Finish
  <2> QED
    BY <1>5, <2>2, <2>3 DEF SaveFailed
<1> QED
  BY <1>3, <1>4, <1>5

LEMMA FillSaved ==
  ASSUME IInv, NEW w \in Workers, SaveFill(w)
  PROVE  IInv'
<1> DEFINE o == task[w].ord
           q == task[w].qty
<1>1. task[w] \in Task /\ TaskFine(w, task[w])
  BY DEF IInv, TypeOK
<1>2. /\ o \in OrderIds /\ Started(o)
      /\ q \in 1..Qty /\ q <= exch[o].filled
  BY <1>1, LedgerAssumption DEF SaveFill, At, TaskFine, OnOrder, WithFill, Task
<1>3. /\ fills' = fills \cup {[order |-> o, qty |-> q, by |-> w]}
      /\ UNCHANGED <<orders, lots, exch, pos, crashes>>
  BY DEF SaveFill, exchange
<1>4. PICK step \in {"saveOrder", "lotFind", "lotGet"} :
        /\ Go(w, step)
        /\ step = "lotFind" => orders[o].kind = "open"
        /\ step = "lotGet" => orders[o].kind = "close"
  BY <1>2 DEF SaveFill, IInv, TypeOK, OrderRow
<1>5. PICK t \in Task : t = [task[w] EXCEPT !.pc = step]
  BY <1>1, <1>4 DEF Task, Steps
<1>6. task' = [task EXCEPT ![w] = t] /\ TaskFine(w, t)'
  <2>1. TaskFine(w, t)
    BY <1>1, <1>2, <1>4, <1>5 DEF Task, TaskFine, OnOrder, WithFill
  <2> QED
    BY <1>3, <1>4, <1>5, <2>1 DEF Go, TaskFine, Started, Exists
<1>7. [order |-> o, qty |-> q, by |-> w] \in FillRow
  BY <1>2 DEF FillRow
<1> HIDE DEF o, q
<1>8. TypeOK'
  BY <1>3, <1>5, <1>6, <1>7 DEF IInv, TypeOK
<1>9. Grows
  BY <1>3, <1>8, LedgerAssumption DEF Grows, Started, Exists, TypeOK, ExchangeOrder
<1>10. \A v \in Workers : TaskFine(v, task[v])'
  BY <1>3, <1>5, <1>6, <1>8, <1>9, TasksStayFine DEF IInv
<1>11. (\A p \in OrderIds : OrderFine(p))' /\ SettledByOwnClose'
  BY <1>3 DEF IInv, OrderFine, Started, Exists, SettledByOwnClose
<1>12. SendsOwn'
  BY <1>1, <1>4, <1>5, <1>6 DEF IInv, SendsOwn, Task, At, TypeOK
<1>13. BackedByExchange'
  BY <1>2, <1>3 DEF IInv, BackedByExchange
<1> QED
  BY <1>8, <1>10, <1>11, <1>12, <1>13 DEF IInv

-----------------------------------------------------------------------------
(* The steps that write lots *)

\* Lots are written and none deleted; a quantity that is new is backed by the
\* opening order, and a lot that is settled by its closing order.
LEMMA LotStep ==
  ASSUME IInv, NEW w \in Workers,
         lots' \in [LotIds -> LotRow],
         \A l \in LotIds : Exists(l) => Exists(l)',
         \A l \in LotIds : Exists(l)' =>
           \/ Exists(l) /\ lots'[l].qty = lots[l].qty
           \/ /\ orders[l[1]].kind = "open"
              /\ 0 < lots'[l].qty /\ lots'[l].qty <= exch[l[1]].filled,
         \A l \in LotIds : lots'[l].settledBy # 0 =>
           /\ lots'[l].st = "CLOSED"
           /\ orders[lots'[l].settledBy].kind = "close"
           /\ orders[lots'[l].settledBy].lot = l
           /\ exch[lots'[l].settledBy].filled > 0,
         NEW t \in Task, TaskFine(w, t)', t.pc # "send",
         task' = [task EXCEPT ![w] = t],
         UNCHANGED <<orders, fills, exchange, crashes>>
  PROVE  IInv'
<1> USE DEF exchange
<1>1. TypeOK'
  BY DEF IInv, TypeOK
<1>2. Grows
  BY <1>1, LedgerAssumption DEF Grows, Started, TypeOK, ExchangeOrder
<1>3. \A v \in Workers : TaskFine(v, task[v])'
  BY <1>1, <1>2, TasksStayFine DEF IInv
<1>4. \A o \in OrderIds : OrderFine(o)'
  BY DEF IInv, OrderFine, Started
<1>5. SendsOwn'
  BY DEF IInv, SendsOwn, At, TypeOK
<1>6. BackedByExchange'
  BY DEF IInv, BackedByExchange, Exists
<1>7. SettledByOwnClose'
  BY DEF SettledByOwnClose
<1> QED
  BY <1>1, <1>3, <1>4, <1>5, <1>6, <1>7 DEF IInv

\* The same for a task that is finished with it.
LEMMA LotFinishStep ==
  ASSUME IInv, NEW w \in Workers,
         task' = [task EXCEPT ![w] = Idle] \/ Finish(w),
         lots' \in [LotIds -> LotRow],
         \A l \in LotIds : Exists(l) => Exists(l)' /\ lots'[l].qty = lots[l].qty,
         \A l \in LotIds : ~Exists(l) => lots'[l] = lots[l],
         \A l \in LotIds : lots'[l].settledBy # 0 =>
           /\ lots'[l].st = "CLOSED"
           /\ orders[lots'[l].settledBy].kind = "close"
           /\ orders[lots'[l].settledBy].lot = l
           /\ exch[lots'[l].settledBy].filled > 0,
         UNCHANGED <<orders, fills, exchange, crashes>>
  PROVE  IInv'
<1>1. PICK t \in Task : /\ TaskFine(w, t) /\ t.pc # "send"
                        /\ task' = [task EXCEPT ![w] = t]
  <2>1. Idle.pc # "send"
    BY DEF Idle
  <2> QED
    BY <2>1, FinishedFine DEF Finish
<1>2. TaskFine(w, t)'
  <2>1. t.todo \subseteq OrderIds /\ t.read \subseteq LotIds
    BY DEF Task
  <2> QED
    BY <1>1, <2>1 DEF TaskFine, Started, exchange
<1>3. \A l \in LotIds : Exists(l)' => Exists(l) /\ lots'[l].qty = lots[l].qty
  BY DEF Exists
<1> QED
  BY <1>1, <1>2, <1>3, LotStep

\* A row written with another state is a row, and has its quantity still.
LEMMA RowWith ==
  ASSUME TypeOK, NEW l \in LotIds, NEW st \in {"NONE", "OPEN", "CLOSED"},
         NEW o \in 0..MaxOrders
  PROVE  LET row == [lots[l] EXCEPT !.st = st, !.settledBy = o]
         IN  row \in LotRow /\ row.st = st /\ row.settledBy = o /\ row.qty = lots[l].qty
<1>1. lots[l] \in LotRow
  BY DEF TypeOK
<1> QED
  BY <1>1 DEF LotRow

LEMMA AsOpenedRow ==
  ASSUME TypeOK, NEW l \in LotIds
  PROVE  /\ AsOpened(l) \in LotRow /\ AsOpened(l).st = "OPEN"
         /\ AsOpened(l).settledBy = 0 /\ AsOpened(l).qty = lots[l].qty
<1>1. 0 \in 0..MaxOrders
  BY LedgerAssumption
<1> QED
  BY <1>1, RowWith DEF AsOpened

LEMMA LotSaved ==
  ASSUME IInv, NEW w \in Workers,
         ArchiveSave(w) \/ ClaimSave(w) \/ LotAttach(w) \/ LotClose(w)
  PROVE  IInv'
<1>1. task[w] \in Task /\ TaskFine(w, task[w])
  BY DEF IInv, TypeOK
<1>2. TypeOK /\ SettledByOwnClose
  BY DEF IInv
<1>3. CASE ArchiveSave(w)
  <2>1. \A l \in LotIds : [lots[l] EXCEPT !.st = "CLOSED", !.settledBy = 0] \in LotRow
    <3>1. 0 \in 0..MaxOrders
      BY LedgerAssumption
    <3> QED
      BY <1>2, <3>1, RowWith
  <2>2. \A l \in LotIds :
          lots'[l] = IF l \in task[w].read THEN [lots[l] EXCEPT !.st = "CLOSED", !.settledBy = 0]
                     ELSE lots[l]
    BY <1>3 DEF ArchiveSave
  <2>3. lots' \in [LotIds -> LotRow]
    BY <1>2, <1>3, <2>1 DEF ArchiveSave, TypeOK
  <2>4. \A l \in LotIds : Exists(l) => Exists(l)' /\ lots'[l].qty = lots[l].qty
    BY <1>2, <2>2 DEF Exists, TypeOK, LotRow
  <2>5. \A l \in LotIds : ~Exists(l) => lots'[l] = lots[l]
    BY <1>1, <2>2 DEF TaskFine
  <2>6. \A l \in LotIds : lots'[l].settledBy # 0 => lots'[l] = lots[l]
    BY <1>2, <2>2 DEF TypeOK, LotRow
  <2>7. Finish(w) /\ UNCHANGED <<orders, fills, exchange, crashes>>
    BY <1>3 DEF ArchiveSave
  <2> QED
    BY <1>2, <2>3, <2>4, <2>5, <2>6, <2>7, LotFinishStep DEF SettledByOwnClose
<1>4. CASE ClaimSave(w)
  <2>1. \A l \in LotIds : lots'[l] = IF l \in task[w].read THEN AsOpened(l) ELSE lots[l]
    BY <1>4 DEF ClaimSave
  <2>2. lots' \in [LotIds -> LotRow]
    BY <1>2, <1>4, AsOpenedRow DEF ClaimSave, TypeOK
  <2>3. \A l \in LotIds : Exists(l) => Exists(l)' /\ lots'[l].qty = lots[l].qty
    BY <1>2, <2>1, AsOpenedRow DEF Exists
  <2>4. \A l \in LotIds : ~Exists(l) => lots'[l] = lots[l]
    BY <1>1, <2>1 DEF TaskFine
  <2>5. \A l \in LotIds : lots'[l].settledBy # 0 => lots'[l] = lots[l]
    BY <1>2, <2>1, AsOpenedRow
  <2>6. task' = [task EXCEPT ![w] = Idle] /\ UNCHANGED <<orders, fills, exchange, crashes>>
    BY <1>4 DEF ClaimSave
  <2>7. \A l \in LotIds : lots'[l].settledBy # 0 =>
          /\ lots'[l].st = "CLOSED"
          /\ orders[lots'[l].settledBy].kind = "close"
          /\ orders[lots'[l].settledBy].lot = l
          /\ exch[lots'[l].settledBy].filled > 0
    BY <1>2, <2>5 DEF SettledByOwnClose
  <2> QED
    BY <2>2, <2>3, <2>4, <2>6, <2>7, LotFinishStep
<1>5. CASE LotAttach(w)
  <2> DEFINE m == task[w].lot
  <2>1. m \in LotIds /\ Exists(m)
    BY <1>1, <1>5 DEF LotAttach, At, TaskFine
  <2>2. \A l \in LotIds : lots'[l] = IF l = m THEN AsOpened(l) ELSE lots[l]
    BY <1>2, <1>5 DEF LotAttach, TypeOK
  <2>3. lots' \in [LotIds -> LotRow]
    BY <1>2, <1>5, <2>1, AsOpenedRow DEF LotAttach, TypeOK
  <2>4. \A l \in LotIds : Exists(l) => Exists(l)' /\ lots'[l].qty = lots[l].qty
    BY <1>2, <2>2, AsOpenedRow DEF Exists
  <2>5. \A l \in LotIds : ~Exists(l) => lots'[l] = lots[l]
    BY <2>1, <2>2
  <2>6. \A l \in LotIds : lots'[l].settledBy # 0 => lots'[l] = lots[l]
    BY <1>2, <2>2, AsOpenedRow
  <2>7. Finish(w) /\ UNCHANGED <<orders, fills, exchange, crashes>>
    BY <1>5 DEF LotAttach
  <2> QED
    BY <1>2, <2>3, <2>4, <2>5, <2>6, <2>7, LotFinishStep DEF SettledByOwnClose
<1>6. CASE LotClose(w)
  <2> DEFINE o == task[w].ord
             m == orders[o].lot
  <2>1. /\ o \in OrderIds /\ o \in 1..MaxOrders /\ Started(o)
        /\ orders[o].kind = "close"
        /\ 0 < task[w].qty /\ task[w].qty <= exch[o].filled
    BY <1>1, <1>6 DEF LotClose, At, TaskFine, OnOrder, WithFill, OrderIds
  <2>2. m \in LotIds /\ Exists(m)
    BY <2>1 DEF IInv, OrderFine
  <2>3. exch[o].filled > 0
    BY <1>1, <1>2, <2>1, LedgerAssumption DEF TypeOK, ExchangeOrder, Task
  <2>4. lots' = [lots EXCEPT ![m].st = "CLOSED", ![m].settledBy = o]
    BY <1>6 DEF LotClose
  <2>5. lots' \in [LotIds -> LotRow]
    <3>1. o \in 0..MaxOrders
      BY <2>1, LedgerAssumption
    <3>2. [lots[m] EXCEPT !.st = "CLOSED", !.settledBy = o] \in LotRow
      BY <1>2, <2>2, <3>1, RowWith
    <3>3. lots' = [lots EXCEPT ![m] = [lots[m] EXCEPT !.st = "CLOSED", !.settledBy = o]]
      BY <2>4
    <3> QED
      BY <1>2, <3>2, <3>3 DEF TypeOK
  <2>6. \A l \in LotIds : /\ l # m => lots'[l] = lots[l]
                          /\ l = m => /\ lots'[l].st = "CLOSED" /\ lots'[l].settledBy = o
                                      /\ lots'[l].qty = lots[l].qty
    BY <1>2, <2>2, <2>4 DEF TypeOK, LotRow
  <2> HIDE DEF o, m
  <2>7. \A l \in LotIds : Exists(l) => Exists(l)' /\ lots'[l].qty = lots[l].qty
    BY <2>6 DEF Exists
  <2>8. \A l \in LotIds : ~Exists(l) => lots'[l] = lots[l]
    BY <2>2, <2>6
  <2>9. \A l \in LotIds : lots'[l].settledBy # 0 =>
          /\ lots'[l].st = "CLOSED"
          /\ orders[lots'[l].settledBy].kind = "close"
          /\ orders[lots'[l].settledBy].lot = l
          /\ exch[lots'[l].settledBy].filled > 0
    BY <1>2, <2>1, <2>3, <2>6 DEF SettledByOwnClose, m
  <2>10. Finish(w) /\ UNCHANGED <<orders, fills, exchange, crashes>>
    BY <1>6 DEF LotClose
  <2> QED
    BY <2>5, <2>7, <2>8, <2>9, <2>10, LotFinishStep
<1> QED
  BY <1>3, <1>4, <1>5, <1>6

LEMMA LotInserted ==
  ASSUME IInv, NEW w \in Workers, LotInsert(w)
  PROVE  IInv'
<1> DEFINE o == task[w].ord
<1>1. task[w] \in Task /\ TaskFine(w, task[w])
  BY DEF IInv, TypeOK
<1>2. /\ o \in OrderIds /\ orders[o].kind = "open"
      /\ task[w].qty \in 0..Qty /\ 0 < task[w].qty /\ task[w].qty <= exch[o].filled
  BY <1>1 DEF LotInsert, At, TaskFine, OnOrder, WithFill, Task
<1>3. PICK m \in LotIds : m = <<o, w>>
  BY <1>2 DEF LotIds
<1>4. CASE Finish(w) /\ UNCHANGED lots
  BY <1>4, FinishStep DEF LotInsert, tables
<1>5. CASE ~(UniqueOpenOrder /\ LotsOf(o) # {})
  <2>1. PICK row \in LotRow :
          row = [st |-> "OPEN", qty |-> task[w].qty, settledBy |-> 0]
    <3>1. 0 \in 0..MaxOrders
      BY LedgerAssumption
    <3>2. [st |-> "OPEN", qty |-> task[w].qty, settledBy |-> 0] \in LotRow
      BY <1>2, <3>1 DEF LotRow
    <3> QED
      BY <3>2
  <2>2. /\ lots' = [lots EXCEPT ![m] = row]
        /\ task' = [task EXCEPT ![w].pc = "attach", ![w].lot = m]
        /\ UNCHANGED <<orders, fills, exchange, crashes>>
    BY <1>3, <1>5, <2>1 DEF LotInsert
  <2>3. TypeOK /\ BackedByExchange /\ SettledByOwnClose
    BY DEF IInv
  <2>4. \A l \in LotIds : lots'[l] = IF l = m THEN row ELSE lots[l]
    BY <2>2, <2>3 DEF TypeOK
  <2>5. PICK t \in Task : t = [task[w] EXCEPT !.pc = "attach", !.lot = m]
    BY <1>1 DEF Task, Steps
  <2>6. task' = [task EXCEPT ![w] = t] /\ t.pc # "send"
    BY <1>1, <2>2, <2>5 DEF Task
  <2>7. row.st = "OPEN" /\ row.qty = task[w].qty /\ row.settledBy = 0
    BY <2>1
  <2>8. \A l \in LotIds : Exists(l) => Exists(l)'
    BY <2>4, <2>7 DEF Exists
  <2>9. TaskFine(w, t)'
    <3>1. t.lot = m /\ t.todo = task[w].todo /\ t.read = task[w].read /\ t.pc = "attach"
      BY <1>1, <2>5 DEF Task
    <3>2. Exists(m)'
      BY <2>4, <2>7 DEF Exists
    <3>3. \A l \in t.read : Exists(l)'
      BY <1>1, <2>8, <3>1 DEF TaskFine, Task
    <3>4. \A p \in t.todo : Started(p)' /\ (w \in Repairers => orders'[p].kind = "open")
      BY <1>1, <2>2, <3>1 DEF TaskFine, Started
    <3> QED
      BY <3>1, <3>2, <3>3, <3>4 DEF TaskFine, OnOrder, WithFill
  <2>10. lots' \in [LotIds -> LotRow]
    BY <2>2, <2>3 DEF TypeOK
  <2>11. \A l \in LotIds : Exists(l)' =>
           \/ Exists(l) /\ lots'[l].qty = lots[l].qty
           \/ /\ orders[l[1]].kind = "open"
              /\ 0 < lots'[l].qty /\ lots'[l].qty <= exch[l[1]].filled
    BY <1>2, <1>3, <2>4, <2>7 DEF Exists
  <2>12. \A l \in LotIds : lots'[l].settledBy # 0 =>
           /\ lots'[l].st = "CLOSED"
           /\ orders[lots'[l].settledBy].kind = "close"
           /\ orders[lots'[l].settledBy].lot = l
           /\ exch[lots'[l].settledBy].filled > 0
    BY <2>3, <2>4, <2>7 DEF SettledByOwnClose
  <2> QED
    BY <2>2, <2>6, <2>8, <2>9, <2>10, <2>11, <2>12, LotStep
<1> QED
  BY <1>4, <1>5 DEF LotInsert

-----------------------------------------------------------------------------
(* The steps that place and fill orders *)

\* A new order, and the task that is about to send it.
LEMMA Placed ==
  ASSUME IInv, NEW w \in Workers, NEW o \in OrderIds, orders[o].status = "NONE",
         NEW row \in OrderRow, row.status = "NEW", 0 < row.qty,
         row.kind = "close" => row.lot \in LotIds /\ Exists(row.lot),
         orders' = [orders EXCEPT ![o] = row],
         NEW t \in Task, t.pc = "send", t.ord = o,
         t.todo \subseteq task[w].todo, t.read \subseteq task[w].read,
         task' = [task EXCEPT ![w] = t],
         UNCHANGED <<fills, lots, exchange, crashes>>
  PROVE  IInv'
<1> USE DEF exchange
<1>1. TypeOK'
  BY DEF IInv, TypeOK
<1>2. \A p \in OrderIds : orders'[p] = IF p = o THEN row ELSE orders[p]
  BY DEF IInv, TypeOK
<1>3. exch[o].st = "none" /\ exch[o].filled = 0
  BY DEF IInv, OrderFine, Started
<1>4. Grows
  BY <1>1, <1>2, LedgerAssumption DEF Grows, Started, Exists, TypeOK, ExchangeOrder
<1>5. TaskFine(w, task[w]) /\ task[w] \in Task
  BY DEF IInv, TypeOK
<1>6. TaskFine(w, t)'
  <2>1. (\A p \in t.todo : Started(p) /\ (w \in Repairers => orders[p].kind = "open"))'
    BY <1>2, <1>5 DEF TaskFine, Task, Started
  <2>2. (\A l \in t.read : Exists(l))'
    BY <1>5 DEF TaskFine, Exists
  <2> QED
    BY <1>2, <1>3, <2>1, <2>2 DEF TaskFine, OnOrder, WithFill, Started
<1>7. \A v \in Workers : TaskFine(v, task[v])'
  BY <1>1, <1>4, <1>6, TasksStayFine DEF IInv
<1>8. \A p \in OrderIds : OrderFine(p)'
  BY <1>2, <1>3 DEF IInv, OrderFine, Started, Exists, OrderRow
<1>9. SendsOwn'
  <2>1. \A v \in Workers : At(v, "send") => task[v].ord # o
    BY DEF IInv, At, TaskFine, OnOrder, Started
  <2> QED
    BY <2>1 DEF IInv, SendsOwn, At, TypeOK
<1>10. BackedByExchange'
  <2>1. \A l \in LotIds : l[1] \in OrderIds
    BY DEF LotIds
  <2>2. \A l \in LotIds : lots[l].st # "NONE" => l[1] # o
    BY <1>1, <1>3, LedgerAssumption DEF IInv, BackedByExchange, TypeOK, LotRow, ExchangeOrder
  <2> QED
    BY <1>2, <2>1, <2>2 DEF IInv, BackedByExchange
<1>11. SettledByOwnClose'
  <2>1. \A l \in LotIds : lots[l].settledBy # 0 =>
          lots[l].settledBy \in OrderIds /\ lots[l].settledBy # o
    BY <1>3, LedgerAssumption DEF IInv, TypeOK, LotRow, OrderIds, SettledByOwnClose
  <2> QED
    BY <1>2, <2>1 DEF IInv, SettledByOwnClose
<1> QED
  BY <1>1, <1>7, <1>8, <1>9, <1>10, <1>11 DEF IInv

LEMMA OrderPlaced ==
  ASSUME IInv, NEW w \in Workers, NEW o \in OrderIds,
         (\E type \in OrderTypes : PlaceOpen(w, o, type)) \/ PlaceClose(w, o)
  PROVE  IInv'
<1>1. task[w] \in Task /\ TaskFine(w, task[w]) /\ o \in 0..MaxOrders
  BY DEF IInv, TypeOK, OrderIds
<1>2. ASSUME NEW type \in OrderTypes, PlaceOpen(w, o, type) PROVE IInv'
  <2>1. PICK row \in OrderRow :
          row = [status |-> "NEW", kind |-> "open", type |-> type, lot |-> NoLot, qty |-> Qty]
    <3>1. type \in {"MARKET", "LIMIT"} /\ Qty \in 0..Qty
      BY LedgerAssumption
    <3>2. [status |-> "NEW", kind |-> "open", type |-> type, lot |-> NoLot, qty |-> Qty]
            \in OrderRow
      BY <3>1 DEF OrderRow, OrderStatus
    <3> QED
      BY <3>2
  <2>2. PICK t \in Task : t = [Idle EXCEPT !.pc = "send", !.ord = o]
    BY <1>1, FinishedFine DEF Task, Steps
  <2>3. t.pc = "send" /\ t.ord = o /\ t.todo = {} /\ t.read = {}
    BY <2>2 DEF Idle
  <2>4. /\ orders[o].status = "NONE" /\ orders' = [orders EXCEPT ![o] = row]
        /\ task' = [task EXCEPT ![w] = t]
        /\ UNCHANGED <<fills, lots, exchange, crashes>>
    BY <1>2, <2>1, <2>2 DEF PlaceOpen, IsNextId
  <2>5. row.status = "NEW" /\ 0 < row.qty /\ row.kind = "open"
    BY <2>1, LedgerAssumption
  <2> QED
    BY <2>3, <2>4, <2>5, Placed
<1>3. CASE PlaceClose(w, o)
  <2> DEFINE m == task[w].lot
  <2>1. m \in LotIds /\ Exists(m)
    BY <1>1, <1>3 DEF PlaceClose, At, TaskFine
  <2>2. lots[m].qty \in 0..Qty /\ 0 < lots[m].qty
    BY <2>1 DEF IInv, TypeOK, LotRow, BackedByExchange, Exists
  <2> HIDE DEF m
  <2>3. PICK row \in OrderRow :
          row = [status |-> "NEW", kind |-> "close", type |-> "MARKET", lot |-> m,
                 qty |-> lots[m].qty]
    BY <2>1, <2>2 DEF OrderRow, OrderStatus
  <2>4. PICK t \in Task : t = [task[w] EXCEPT !.pc = "send", !.ord = o]
    BY <1>1 DEF Task, Steps
  <2>5. /\ t.pc = "send" /\ t.ord = o
        /\ t.todo = task[w].todo /\ t.read = task[w].read
    BY <1>1, <2>4 DEF Task
  <2>6. /\ orders[o].status = "NONE" /\ orders' = [orders EXCEPT ![o] = row]
        /\ task' = [task EXCEPT ![w] = t]
        /\ UNCHANGED <<fills, lots, exchange, crashes>>
    BY <1>3, <2>3, <2>4 DEF PlaceClose, IsNextId, m
  <2>7. row.status = "NEW" /\ 0 < row.qty /\ row.lot \in LotIds /\ Exists(row.lot)
    BY <2>1, <2>2, <2>3
  <2> QED
    BY <2>5, <2>6, <2>7, Placed
<1> QED
  BY <1>2, <1>3

\* Only the exchange's view of one order changes, its fill only growing, and
\* no other task is about to send it.
LEMMA ExchangeStep ==
  ASSUME IInv, NEW o \in OrderIds, Started(o),
         NEW view \in ExchangeOrder, exch' = [exch EXCEPT ![o] = view],
         exch[o].filled <= view.filled, view.filled <= orders[o].qty,
         view.st = "live" => view.filled < orders[o].qty,
         pos' \in Nat,
         UNCHANGED <<orders, fills, lots, crashes>>
  PROVE  /\ task' \in [Workers -> Task] => TypeOK'
         /\ Grows
         /\ \A p \in OrderIds : OrderFine(p)'
         /\ BackedByExchange' /\ SettledByOwnClose'
<1>1. \A p \in OrderIds : exch'[p] = IF p = o THEN view ELSE exch[p]
  BY DEF IInv, TypeOK
<1>2. \A p \in OrderIds : /\ exch[p] \in ExchangeOrder /\ exch'[p] \in ExchangeOrder
                          /\ exch[p].filled \in 0..Qty /\ exch'[p].filled \in 0..Qty
                          /\ exch[p].filled <= exch'[p].filled
                          /\ orders[p].qty \in 0..Qty
                          /\ exch[p].filled <= orders[p].qty
  BY <1>1, LedgerAssumption DEF IInv, TypeOK, ExchangeOrder, OrderRow, OrderFine
<1>3. task' \in [Workers -> Task] => TypeOK'
  BY <1>1, <1>2 DEF IInv, TypeOK
<1>4. Grows
  BY <1>2 DEF Grows, Started, Exists
<1>5. \A p \in OrderIds : OrderFine(p)'
  BY <1>1, <1>2 DEF IInv, OrderFine, Started, Exists
<1>6. BackedByExchange'
  <2>1. \A l \in LotIds : l[1] \in OrderIds /\ lots[l].qty \in 0..Qty
    BY DEF LotIds, IInv, TypeOK, LotRow
  <2>2. \A p \in OrderIds :
          /\ orders[p].status = "FILLED" => exch'[p].filled = orders[p].qty
          /\ orders[p].status = "PARTIALLY_FILLED" => exch'[p].filled > 0
    BY <1>1, <1>2, LedgerAssumption DEF IInv, BackedByExchange
  <2>3. \A f \in fills : f.qty <= exch'[f.order].filled
    BY <1>2, LedgerAssumption DEF IInv, BackedByExchange, TypeOK, FillRow
  <2>4. \A l \in LotIds : lots[l].st # "NONE" => lots[l].qty <= exch'[l[1]].filled
    BY <1>2, <2>1, LedgerAssumption DEF IInv, BackedByExchange
  <2> QED
    BY <2>2, <2>3, <2>4 DEF IInv, BackedByExchange
<1>7. SettledByOwnClose'
  <2>1. \A l \in LotIds : lots[l].settledBy # 0 => lots[l].settledBy \in OrderIds
    BY LedgerAssumption DEF IInv, TypeOK, LotRow, OrderIds
  <2> QED
    BY <1>2, <2>1, LedgerAssumption DEF IInv, SettledByOwnClose
<1> QED
  BY <1>3, <1>4, <1>5, <1>6, <1>7

LEMMA Sent ==
  ASSUME IInv, NEW w \in Workers, NEW q \in 0..Qty, NEW resp \in {"ok", "error", "reduceOnly"},
         SendAccepted(w, q, resp)
  PROVE  IInv'
<1>1. task[w] \in Task /\ TaskFine(w, task[w])
  BY DEF IInv, TypeOK
<1>2. PICK o \in OrderIds :
        /\ o = task[w].ord /\ Started(o)
        /\ exch[o].filled = 0 /\ exch[o].st = "none"
  BY <1>1 DEF SendAccepted, At, TaskFine, OnOrder
<1>3. PICK view \in ExchangeOrder :
        view = [st |-> IF q < orders[o].qty THEN "live" ELSE "done", filled |-> q]
  <2>1. [st |-> "live", filled |-> q] \in ExchangeOrder
        /\ [st |-> "done", filled |-> q] \in ExchangeOrder
    BY DEF ExchangeOrder
  <2> QED
    BY <2>1
<1>4. /\ exch' = [exch EXCEPT ![o] = view] /\ pos' = Moves(o, q)
      /\ q <= orders[o].qty
      /\ orders[o].kind = "close" => pos >= orders[o].qty
      /\ UNCHANGED <<orders, fills, lots, crashes>>
  BY <1>2, <1>3 DEF SendAccepted, tables
<1>5. orders[o].qty \in 0..Qty /\ orders[o].kind \in {"open", "close"} /\ pos \in Nat
  BY <1>2 DEF IInv, TypeOK, OrderRow
<1>6. pos' \in Nat
  BY <1>2, <1>4, <1>5, LedgerAssumption DEF Moves
<1>7. PICK t \in Task :
        t = [task[w] EXCEPT !.pc = IF resp = "ok" THEN "record" ELSE "recover",
                            !.qty = IF resp = "ok" THEN q ELSE 0,
                            !.resp = resp]
  <2>1. 0 \in 0..Qty
    BY LedgerAssumption
  <2> QED
    BY <1>1, <2>1 DEF Task, Steps
<1>8. task' = [task EXCEPT ![w] = t]
  BY <1>7 DEF SendAccepted
<1>9. /\ t.pc \in {"record", "recover"}
      /\ t.pc = "record" => t.qty = q
      /\ t.ord = o /\ t.todo = task[w].todo /\ t.read = task[w].read
  BY <1>1, <1>2, <1>7 DEF Task
<1>10. view.filled = q /\ (view.st = "live" => q < orders[o].qty)
  BY <1>3
<1>11. task' \in [Workers -> Task]
  BY <1>8 DEF IInv, TypeOK
<1>12. /\ TypeOK' /\ Grows /\ \A p \in OrderIds : OrderFine(p)'
       /\ BackedByExchange' /\ SettledByOwnClose'
  <2>1. exch[o].filled <= view.filled /\ view.filled <= orders[o].qty
    BY <1>2, <1>4, <1>10, LedgerAssumption
  <2>2. view.st = "live" => view.filled < orders[o].qty
    BY <1>10
  <2> QED
    BY <1>2, <1>4, <1>6, <1>11, <2>1, <2>2, ExchangeStep
<1>13. TaskFine(w, t)'
  <2>1. Started(o)' /\ exch'[o].filled = q
    BY <1>2, <1>4, <1>10 DEF IInv, TypeOK, Started
  <2>2. (\A p \in t.todo : Started(p) /\ (w \in Repairers => orders[p].kind = "open"))'
    BY <1>1, <1>4, <1>9 DEF TaskFine, Started
  <2>3. (\A l \in t.read : Exists(l))'
    BY <1>1, <1>4, <1>9 DEF TaskFine, Exists
  <2> QED
    BY <1>2, <1>9, <2>1, <2>2, <2>3 DEF TaskFine, OnOrder, WithFill
<1>14. \A v \in Workers \ {w} : At(v, "send") => exch'[task[v].ord] = exch[task[v].ord]
  BY <1>2, <1>4 DEF IInv, SendsOwn, SendAccepted, TypeOK
<1>15. \A v \in Workers : TaskFine(v, task[v])'
  BY <1>8, <1>12, <1>13, <1>14, TasksStayFine DEF IInv
<1>16. SendsOwn'
  BY <1>8, <1>9 DEF IInv, SendsOwn, At, TypeOK
<1> QED
  BY <1>12, <1>15, <1>16 DEF IInv

LEMMA ExchangeMoves ==
  ASSUME IInv, NEW o \in OrderIds, ExchangeFill(o) \/ ExchangeExpire(o)
  PROVE  IInv'
<1>1. /\ exch[o].st = "live" /\ Started(o) /\ exch[o].filled < orders[o].qty
      /\ exch[o] \in ExchangeOrder /\ exch[o].filled \in 0..Qty
      /\ orders[o].qty \in 0..Qty /\ orders[o].kind \in {"open", "close"} /\ pos \in Nat
  BY DEF ExchangeFill, ExchangeExpire, IInv, OrderFine, Started, TypeOK, ExchangeOrder, OrderRow
<1>2. PICK view \in ExchangeOrder :
        /\ exch' = [exch EXCEPT ![o] = view]
        /\ exch[o].filled <= view.filled /\ view.filled <= orders[o].qty
        /\ view.st = "live" => view.filled < orders[o].qty
  <2>1. CASE ExchangeFill(o)
    <3> DEFINE n == exch[o].filled + 1
    <3>1. n \in 0..Qty /\ n <= orders[o].qty /\ exch[o].filled <= n
      BY <1>1, LedgerAssumption
    <3>2. exch' = [exch EXCEPT ![o] = [st |-> IF n < orders[o].qty THEN "live" ELSE "done",
                                       filled |-> n]]
      BY <2>1 DEF ExchangeFill, IInv, TypeOK
    <3> HIDE DEF n
    <3>3. /\ [st |-> "live", filled |-> n] \in ExchangeOrder
          /\ [st |-> "done", filled |-> n] \in ExchangeOrder
      BY <3>1 DEF ExchangeOrder
    <3>4. CASE n < orders[o].qty
      BY <3>1, <3>2, <3>3, <3>4
    <3>5. CASE ~(n < orders[o].qty)
      BY <3>1, <3>2, <3>3, <3>5
    <3> QED
      BY <3>4, <3>5
  <2>2. CASE ExchangeExpire(o)
    <3>1. PICK view \in ExchangeOrder : view = [st |-> "done", filled |-> exch[o].filled]
      BY <1>1 DEF ExchangeOrder
    <3>2. exch' = [exch EXCEPT ![o] = view]
      <4>1. [exch[o] EXCEPT !.st = "done"] = [st |-> "done", filled |-> exch[o].filled]
        BY <1>1 DEF ExchangeOrder
      <4> QED
        BY <2>2, <3>1, <4>1 DEF ExchangeExpire
    <3>3. view.st = "done" /\ view.filled = exch[o].filled
      BY <3>1
    <3>4. exch[o].filled <= view.filled /\ view.filled <= orders[o].qty
      BY <1>1, <3>3, LedgerAssumption
    <3> QED
      BY <3>2, <3>3, <3>4
  <2> QED
    BY <2>1, <2>2
<1>3. pos' \in Nat
  BY <1>1 DEF ExchangeFill, ExchangeExpire, Moves
<1>4. UNCHANGED <<orders, fills, lots, crashes, task>>
  BY DEF ExchangeFill, ExchangeExpire, tables
<1>5. task' \in [Workers -> Task] /\ task' = task
  BY <1>4 DEF IInv, TypeOK
<1>6. /\ TypeOK' /\ Grows /\ \A p \in OrderIds : OrderFine(p)'
      /\ BackedByExchange' /\ SettledByOwnClose'
  BY <1>1, <1>2, <1>3, <1>4, <1>5, ExchangeStep
<1>7. ASSUME NEW v \in Workers PROVE TaskFine(v, task[v])'
  <2>1. PICK t \in Task : t = task[v] /\ TaskFine(v, t)
    BY DEF IInv, TypeOK
  <2>2. t.pc = "send" => exch'[t.ord] = exch[t.ord]
    BY <1>1, <1>2, <2>1 DEF TaskFine, OnOrder, IInv, TypeOK
  <2>3. TaskFine(v, t)'
    BY <1>6, <2>1, <2>2, TaskFrame DEF IInv
  <2> QED
    BY <1>5, <2>1, <2>3 DEF TaskFine, Started, Exists
<1>8. SendsOwn'
  BY <1>5 DEF IInv, SendsOwn, At
<1> QED
  BY <1>6, <1>7, <1>8 DEF IInv

LEMMA Outside ==
  ASSUME IInv, CloseOutside \/ Crash \/ UNCHANGED vars
  PROVE  IInv'
<1>1. UNCHANGED <<orders, fills, lots, exch>>
  BY DEF CloseOutside, Crash, vars, tables, exchange
<1>2. task' = task \/ task' = [v \in Workers |-> Idle]
  BY DEF CloseOutside, Crash, vars
<1>3. \A v \in Workers : task'[v] = task[v] \/ task'[v] = Idle
  BY <1>2
<1>4. TypeOK'
  <2>1. task' \in [Workers -> Task]
    BY <1>2, FinishedFine DEF IInv, TypeOK
  <2>2. pos' \in Nat /\ crashes' \in 0..MaxCrashes
    BY LedgerAssumption DEF CloseOutside, Crash, vars, exchange, IInv, TypeOK
  <2> QED
    BY <1>1, <2>1, <2>2 DEF IInv, TypeOK
<1>5. ASSUME NEW v \in Workers PROVE TaskFine(v, task[v])'
  <2>1. PICK t \in Task : t = task'[v] /\ TaskFine(v, t)
    BY <1>3, FinishedFine DEF IInv, TypeOK
  <2>2. TaskFine(v, t)'
    BY <1>1, <2>1 DEF TaskFine, Started, Exists
  <2> QED
    BY <2>1, <2>2 DEF TaskFine, Started, Exists
<1>6. (\A o \in OrderIds : OrderFine(o))' /\ BackedByExchange' /\ SettledByOwnClose'
  BY <1>1 DEF IInv, OrderFine, Started, Exists, BackedByExchange, SettledByOwnClose
<1>7. SendsOwn'
  <2>1. Idle.pc # "send"
    BY DEF Idle
  <2> QED
    BY <1>3, <2>1 DEF IInv, SendsOwn, At
<1> QED
  BY <1>4, <1>5, <1>6, <1>7 DEF IInv

-----------------------------------------------------------------------------
(* The theorems *)

LEMMA InitIInv == Init => IInv
<1> SUFFICES ASSUME Init PROVE IInv
  OBVIOUS
<1>1. 0 \in 0..MaxOrders /\ 0 \in 0..Qty /\ 0 \in 0..MaxCrashes /\ 0 \in Nat
  BY LedgerAssumption
<1>2. NoOrder \in OrderRow /\ NoLotRow \in LotRow
  BY <1>1 DEF NoOrder, OrderRow, OrderStatus, NoLotRow, LotRow
<1>3. Idle \in Task
  BY <1>1 DEF Idle, Task, Steps
<1>4. [st |-> "none", filled |-> 0] \in ExchangeOrder
  BY <1>1 DEF ExchangeOrder
<1>5. TypeOK
  BY <1>1, <1>2, <1>3, <1>4 DEF Init, TypeOK
<1>6. \A o \in OrderIds : OrderFine(o)
  BY DEF Init, OrderFine, Started, NoOrder
<1>7. \A w \in Workers : TaskFine(w, task[w])
  BY DEF Init, Idle, TaskFine, OnOrder, WithFill
<1>8. SendsOwn
  BY DEF Init, SendsOwn, At, Idle
<1>9. BackedByExchange
  BY DEF Init, BackedByExchange, NoOrder, NoLotRow
<1>10. SettledByOwnClose
  BY DEF Init, SettledByOwnClose, NoLotRow
<1> QED
  BY <1>5, <1>6, <1>7, <1>8, <1>9, <1>10 DEF IInv

\* Every action of the model keeps the inductive invariant.
LEMMA NextIInv == IInv /\ [Next]_vars => IInv'
<1> SUFFICES ASSUME IInv, [Next]_vars PROVE IInv'
  OBVIOUS
<1>1. ASSUME NEW w \in Workers, Start(w) PROVE IInv'
  BY <1>1, OrderPlaced, PlacerControl, RoundControl DEF Start
<1>2. ASSUME NEW w \in Workers, Continue(w) PROVE IInv'
  BY <1>2, OrderPlaced, PlacerControl, RoundControl, Sent, StatusSaved, FillSaved,
     LotSaved, LotInserted
  DEF Continue
<1>3. ASSUME NEW o \in OrderIds, ExchangeFill(o) \/ ExchangeExpire(o) PROVE IInv'
  BY <1>3, ExchangeMoves
<1>4. CASE CloseOutside \/ Crash \/ UNCHANGED vars
  BY <1>4, Outside
<1> QED
  BY <1>1, <1>2, <1>3, <1>4 DEF Next

THEOREM Invariance == Spec => []IInv
  BY InitIInv, NextIInv, PTL DEF Spec

\* The tables, the exchange and the tasks keep their types, for any number of
\* tasks of each kind and any interleaving of their steps.
THEOREM TypeCorrect == Spec => []TypeOK
<1>1. IInv => TypeOK
  BY DEF IInv
<1> QED
  BY <1>1, Invariance, PTL

\* The ledger never shows what did not happen at the exchange.
THEOREM LedgerBacked == Spec => []BackedByExchange
<1>1. IInv => BackedByExchange
  BY DEF IInv
<1> QED
  BY <1>1, Invariance, PTL

\* A settled lot was settled by the fill of a closing order placed for it.
THEOREM SettledByOwn == Spec => []SettledByOwnClose
<1>1. IInv => SettledByOwnClose
  BY DEF IInv
<1> QED
  BY <1>1, Invariance, PTL

-----------------------------------------------------------------------------
(* One lot per opening order *)

\* The steps that write position_lots.
LEMMA LotWriters ==
  ASSUME [Next]_vars, lots' # lots
  PROVE  \E w \in Workers :
           ArchiveSave(w) \/ ClaimSave(w) \/ LotInsert(w) \/ LotAttach(w) \/ LotClose(w)
<1>1. CASE \E w \in Workers : Start(w)
  BY <1>1 DEF Start, PlaceOpen, Decide, Request, SyncBegin, RepairBegin, StartInstance, tables
<1>2. ASSUME NEW w \in Workers, Continue(w)
      PROVE  ArchiveSave(w) \/ ClaimSave(w) \/ LotInsert(w) \/ LotAttach(w) \/ LotClose(w)
  BY <1>2
  DEF Continue, CheckLot, PlaceClose, SendAccepted, SendRefused, RecordResponse,
      ConfirmFound, ConfirmNothing, SaveOrder, SaveFill, SaveFailed, ReadPositions,
      ArchiveRead, ClaimRead, LotFind, LotGet, SyncReadFills, RoundDone, SyncFound, SyncSkip,
      RepairCheck, tables
<1>3. CASE (\E o \in OrderIds : ExchangeFill(o) \/ ExchangeExpire(o)) \/ CloseOutside \/ Crash
           \/ UNCHANGED vars
  BY <1>3 DEF ExchangeFill, ExchangeExpire, CloseOutside, Crash, vars, tables
<1> QED
  BY <1>1, <1>2, <1>3 DEF Next

\* Only an insertion makes a lot, and it makes the task's own.
LEMMA OnlyInsertMakesLots ==
  ASSUME IInv, [Next]_vars, NEW l \in LotIds, ~Exists(l), Exists(l)'
  PROVE  \E w \in Workers : /\ LotInsert(w) /\ l = <<task[w].ord, w>>
                            /\ UniqueOpenOrder => LotsOf(task[w].ord) = {}
                            /\ \A m \in LotIds : m # l => lots'[m] = lots[m]
<1>1. lots' # lots
  BY DEF Exists
<1>2. PICK w \in Workers :
        ArchiveSave(w) \/ ClaimSave(w) \/ LotInsert(w) \/ LotAttach(w) \/ LotClose(w)
  BY <1>1, LotWriters
<1>3. TypeOK /\ task[w] \in Task /\ TaskFine(w, task[w]) /\ Exists(l)' /\ lots \in [LotIds -> LotRow]
  BY DEF IInv, TypeOK
<1>4. ~ArchiveSave(w)
  BY <1>3 DEF ArchiveSave, TaskFine, Exists
<1>5. ~ClaimSave(w)
  BY <1>3 DEF ClaimSave, TaskFine, Exists
<1>6. ~LotAttach(w)
  BY <1>3 DEF LotAttach, At, TaskFine, Exists
<1>7. ~LotClose(w)
  <2>1. LotClose(w) => Exists(orders[task[w].ord].lot)
    BY <1>3 DEF LotClose, At, TaskFine, OnOrder, IInv, OrderFine
  <2> QED
    BY <1>3, <2>1 DEF LotClose, Exists
<1>8. LotInsert(w)
  BY <1>2, <1>4, <1>5, <1>6, <1>7
<1>9. /\ \A m \in LotIds : m # <<task[w].ord, w>> => lots'[m] = lots[m]
      /\ UniqueOpenOrder => LotsOf(task[w].ord) = {}
  BY <1>1, <1>3, <1>8 DEF LotInsert
<1>10. l = <<task[w].ord, w>>
  BY <1>3, <1>9 DEF Exists
<1> QED
  BY <1>8, <1>9, <1>10

\* Under the unique index of the migrations, an opening order has one lot,
\* whichever of the three callers of createFromOpenFill comes first.
THEOREM OneLot == ASSUME UniqueOpenOrder PROVE Spec => []OneLotPerOpenOrder
<1>1. Init => OneLotPerOpenOrder
  BY DEF Init, NoLotRow, OneLotPerOpenOrder
<1>2. ASSUME IInv, OneLotPerOpenOrder, [Next]_vars PROVE OneLotPerOpenOrder'
  <2> SUFFICES ASSUME NEW l \in LotIds, NEW m \in LotIds, Exists(l)', Exists(m)', l[1] = m[1]
               PROVE  l = m
    BY DEF OneLotPerOpenOrder, Exists
  <2>1. CASE Exists(l) /\ Exists(m)
    BY <1>2, <2>1 DEF OneLotPerOpenOrder, Exists
  <2>2. ASSUME NEW a \in LotIds, NEW b \in LotIds, Exists(a)', ~Exists(a), Exists(b)',
               a[1] = b[1]
        PROVE  a = b
    <3>1. PICK w \in Workers : /\ a = <<task[w].ord, w>> /\ LotsOf(task[w].ord) = {}
                               /\ \A k \in LotIds : k # a => lots'[k] = lots[k]
      BY <1>2, <2>2, OnlyInsertMakesLots
    <3>2. ~Exists(b)
      BY <2>2, <3>1 DEF LotsOf, Exists
    <3> QED
      BY <2>2, <3>1, <3>2 DEF Exists
  <2> QED
    BY <2>1, <2>2
<1> QED
  BY <1>1, <1>2, Invariance, PTL DEF Spec

-----------------------------------------------------------------------------
(* The ledger implements LotLifecycle *)

\* A lot that is open, or that a task will save as open.
Live(l) == lots[l].st = "OPEN" \/ StillToSave(l)

\* No task comes to hold a lot it will save as open.
NoneTaken ==
  \A w \in Workers : task'[w] = task[w] \/ task'[w].pc \notin {"attach", "claimSave"}

LEMMA StepTakesNone ==
  ASSUME TypeOK, NEW w \in Workers, NEW t, t.pc \notin {"attach", "claimSave"},
         task' = [task EXCEPT ![w] = t]
  PROVE  NoneTaken
BY DEF TypeOK, NoneTaken

LEMMA FinishTakesNone ==
  ASSUME TypeOK, NEW w \in Workers, Finish(w) \/ task' = [task EXCEPT ![w] = Idle]
  PROVE  NoneTaken
<1>1. \A v \in Workers : v # w => task'[v] = task[v]
  BY DEF Finish, TypeOK
<1>2. task'[w] \in {Finished(w), Idle}
  BY DEF Finish, TypeOK
<1>3. Finished(w).pc \in {"idle", "claim", "next"} /\ Idle.pc = "idle"
  <2>1. CASE w \in Placers
    BY <2>1, LedgerAssumption DEF Finished, Idle
  <2>2. CASE w \notin Placers /\ w \in Starters
    BY <2>2 DEF Finished, Idle
  <2>3. CASE w \notin Placers /\ w \notin Starters
    BY <2>3 DEF Finished, Idle
  <2> QED
    BY <2>1, <2>2, <2>3
<1> QED
  BY <1>1, <1>2, <1>3 DEF NoneTaken

LEMMA GoTakesNone ==
  ASSUME TypeOK, NEW w \in Workers, NEW step \in Steps \ {"attach", "claimSave"}, Go(w, step)
  PROVE  NoneTaken
BY DEF TypeOK, Task, Go, NoneTaken

\* The steps that neither insert a lot nor read lots to save them.
LEMMA OthersTakeNone ==
  ASSUME IInv, [Next]_vars,
         ~\E w \in Workers : ClaimRead(w) \/ LotInsert(w)
  PROVE  NoneTaken
<1> USE DEF NoneTaken
<1>1. TypeOK /\ \A w \in Workers : task[w] \in Task
  BY DEF IInv, TypeOK
<1>2. ASSUME NEW w \in Workers, Start(w) PROVE NoneTaken
  <2>1. ASSUME NEW o \in OrderIds, NEW type \in OrderTypes, PlaceOpen(w, o, type) PROVE NoneTaken
    BY <1>1, <2>1, StepTakesNone DEF PlaceOpen, Idle
  <2>2. ASSUME NEW l \in LotIds, Decide(w, l) \/ Request(w, l) PROVE NoneTaken
    BY <1>1, <2>2, StepTakesNone DEF Decide, Request, Idle
  <2>3. CASE SyncBegin(w)
    BY <1>1, <2>3, StepTakesNone DEF SyncBegin, Idle
  <2>4. CASE RepairBegin(w)
    BY <1>1, <2>4, StepTakesNone DEF RepairBegin, Idle
  <2>5. CASE StartInstance(w)
    BY <1>1, <2>5, GoTakesNone DEF StartInstance, Steps
  <2> QED
    BY <1>2, <2>1, <2>2, <2>3, <2>4, <2>5 DEF Start
<1>3. ASSUME NEW w \in Workers, Continue(w) PROVE NoneTaken
  <2>1. CASE CheckLot(w)
    BY <1>1, <2>1, FinishTakesNone, GoTakesNone DEF CheckLot, Steps
  <2>2. CASE \/ \E o \in OrderIds : PlaceClose(w, o)
             \/ \E q \in 0..Qty, resp \in {"ok", "error", "reduceOnly"} : SendAccepted(w, q, resp)
             \/ SendRefused(w)
    <3>1. PICK t : /\ task' = [task EXCEPT ![w] = t]
                   /\ t.pc \in {"send", "record", "recover"}
      <4>1. ASSUME NEW o \in OrderIds, PlaceClose(w, o)
            PROVE  \E t : task' = [task EXCEPT ![w] = t] /\ t.pc = "send"
        <5>1. task' = [task EXCEPT ![w] = [task[w] EXCEPT !.pc = "send", !.ord = o]]
          BY <4>1 DEF PlaceClose
        <5>2. [task[w] EXCEPT !.pc = "send", !.ord = o].pc = "send"
          BY <1>1 DEF Task
        <5> QED
          BY <5>1, <5>2
      <4>2. ASSUME NEW q \in 0..Qty, NEW resp \in {"ok", "error", "reduceOnly"},
                   SendAccepted(w, q, resp)
            PROVE  \E t : task' = [task EXCEPT ![w] = t] /\ t.pc \in {"record", "recover"}
        <5> DEFINE t == [task[w] EXCEPT !.pc = IF resp = "ok" THEN "record" ELSE "recover",
                                        !.qty = IF resp = "ok" THEN q ELSE 0, !.resp = resp]
        <5>1. task' = [task EXCEPT ![w] = t]
          BY <4>2 DEF SendAccepted
        <5>2. t.pc \in {"record", "recover"}
          BY <1>1 DEF Task
        <5> QED
          BY <5>1, <5>2
      <4>3. ASSUME SendRefused(w)
            PROVE  \E t : task' = [task EXCEPT ![w] = t] /\ t.pc = "recover"
        <5>1. PICK resp : task' = [task EXCEPT ![w] = [task[w] EXCEPT !.pc = "recover", !.resp = resp]]
          BY <4>3 DEF SendRefused
        <5>2. [task[w] EXCEPT !.pc = "recover", !.resp = resp].pc = "recover"
          BY <1>1 DEF Task
        <5> QED
          BY <5>1, <5>2
      <4> QED
        BY <2>2, <4>1, <4>2, <4>3
    <3> QED
      BY <1>1, <3>1, StepTakesNone
  <2>3. CASE LotAttach(w) \/ LotClose(w) \/ ArchiveSave(w) \/ ClaimSave(w)
             \/ RoundDone(w)
    BY <1>1, <2>3, FinishTakesNone DEF LotAttach, LotClose, ArchiveSave, ClaimSave, RoundDone
  <2>4. CASE RecordResponse(w) \/ ConfirmNothing(w) \/ SaveFailed(w) \/ ReadPositions(w)
             \/ LotFind(w) \/ LotGet(w)
    BY <1>1, <2>4, FinishTakesNone, GoTakesNone
    DEF RecordResponse, ConfirmNothing, SaveFailed, ReadPositions, LotFind, LotGet, Steps
  <2>5. CASE ConfirmFound(w) \/ SyncReadFills(w)
             \/ \E o \in OrderIds : SyncFound(w, o) \/ SyncSkip(w, o) \/ RepairCheck(w, o)
    <3>1. CASE ConfirmFound(w)
      BY <1>1, <3>1 DEF ConfirmFound, TypeOK, Task
    <3>2. CASE SyncReadFills(w)
      BY <1>1, <3>2 DEF SyncReadFills, TypeOK, Task
    <3>3. ASSUME NEW o \in OrderIds, SyncFound(w, o) PROVE NoneTaken
      BY <1>1, <3>3 DEF SyncFound, TypeOK, Task
    <3>4. ASSUME NEW o \in OrderIds, At(w, "next"), task' = [task EXCEPT ![w].todo = @ \ {o}]
          PROVE  NoneTaken
      BY <1>1, <3>4 DEF At, TypeOK, Task
    <3>5. ASSUME NEW o \in OrderIds, NEW f \in fills,
                 task' = [task EXCEPT ![w].pc = "lotFind", ![w].ord = o, ![w].qty = f.qty]
          PROVE  NoneTaken
      BY <1>1, <3>5 DEF TypeOK, Task
    <3>6. ASSUME NEW o \in OrderIds, SyncSkip(w, o) \/ RepairCheck(w, o) PROVE NoneTaken
      BY <3>4, <3>5, <3>6 DEF SyncSkip, RepairCheck
    <3> QED
      BY <2>5, <3>1, <3>2, <3>3, <3>6
  <2>6. CASE SaveOrder(w) \/ SaveFill(w)
    BY <1>1, <2>6 DEF SaveOrder, SaveFill, Go, TypeOK, Task
  <2>7. CASE ArchiveRead(w)
    <3>1. CASE Finish(w)
      BY <1>1, <3>1, FinishTakesNone
    <3>2. CASE ~Finish(w)
      BY <1>1, <2>7, <3>2 DEF ArchiveRead, TypeOK, Task
    <3> QED
      BY <3>1, <3>2
  <2> QED
    BY <1>3, <2>1, <2>2, <2>3, <2>4, <2>5, <2>6, <2>7 DEF Continue
<1>4. CASE (\E o \in OrderIds : ExchangeFill(o) \/ ExchangeExpire(o)) \/ CloseOutside
           \/ UNCHANGED vars
  BY <1>4 DEF ExchangeFill, ExchangeExpire, CloseOutside, vars, tables
<1>5. CASE Crash
  BY <1>5 DEF Crash, Idle
<1> QED
  BY <1>2, <1>3, <1>4, <1>5 DEF Next

\* Where no row is made and none becomes live, orders are only closed.
LEMMA OnlyCloses ==
  ASSUME \A l \in LotIds : Exists(l)' <=> Exists(l),
         \A l \in LotIds : Exists(l) /\ Live(l)' => Live(l)
  PROVE  Lifecycle!Next
<1>1. \A o \in OrderIds : LotsOf(o)' = LotsOf(o)
  BY DEF LotsOf, Exists
<1> DEFINE S == {o \in OrderIds : Held(o) = "open" /\ Held(o)' = "closed"}
<1>2. \A o \in OrderIds : (Held(o) = "none" <=> LotsOf(o) = {}) /\ (Held(o)' = "none" <=> LotsOf(o) = {})
  BY <1>1 DEF Held
<1>3. \A o \in OrderIds : Held(o)' = "open" => Held(o) = "open"
  BY <1>1 DEF Held, Live, LotsOf, Exists
<1>4. \A o \in OrderIds : /\ Held(o) \in {"none", "open", "closed"}
                          /\ Held(o)' \in {"none", "open", "closed"}
  BY DEF Held
<1>5. \A o \in OrderIds : Held(o)' = IF o \in S THEN "closed" ELSE Held(o)
  BY <1>2, <1>3, <1>4
<1>6. Lifecycle!Close(S)
  BY <1>5 DEF Lifecycle!Close
<1> QED
  BY <1>6 DEF Lifecycle!Next

\* A save that makes no lot deletes none, and opens none that was not live.
LEMMA SavesKeepLots ==
  ASSUME IInv, [Next]_vars, ~\E w \in Workers : LotInsert(w)
  PROVE  \A l \in LotIds : (Exists(l) => Exists(l)') /\ (lots'[l].st = "OPEN" => Live(l))
<1>1. TypeOK /\ \A w \in Workers : task[w] \in Task /\ TaskFine(w, task[w])
  BY DEF IInv, TypeOK
<1>2. CASE lots' = lots
  BY <1>2 DEF Exists, Live
<1>3. ASSUME NEW w \in Workers, ArchiveSave(w) PROVE
        \A l \in LotIds : (Exists(l) => Exists(l)') /\ (lots'[l].st = "OPEN" => Live(l))
  <2> SUFFICES ASSUME NEW l \in LotIds
               PROVE  (Exists(l) => Exists(l)') /\ (lots'[l].st = "OPEN" => Live(l))
    OBVIOUS
  <2>1. lots'[l] = lots[l] \/ lots'[l] = [lots[l] EXCEPT !.st = "CLOSED", !.settledBy = 0]
    BY <1>1, <1>3 DEF ArchiveSave
  <2>2. 0 \in 0..MaxOrders
    BY LedgerAssumption
  <2>3. [lots[l] EXCEPT !.st = "CLOSED", !.settledBy = 0].st = "CLOSED"
    BY <1>1, <2>2, RowWith
  <2> QED
    BY <2>1, <2>3 DEF Exists, Live
<1>4. ASSUME NEW w \in Workers, ClaimSave(w) PROVE
        \A l \in LotIds : (Exists(l) => Exists(l)') /\ (lots'[l].st = "OPEN" => Live(l))
  <2> SUFFICES ASSUME NEW l \in LotIds
               PROVE  (Exists(l) => Exists(l)') /\ (lots'[l].st = "OPEN" => Live(l))
    OBVIOUS
  <2>1. CASE l \in task[w].read
    BY <1>1, <1>4, <2>1, AsOpenedRow DEF ClaimSave, Exists, Live, StillToSave
  <2>2. CASE l \notin task[w].read
    BY <1>4, <2>2 DEF ClaimSave, Exists, Live
  <2> QED
    BY <2>1, <2>2
<1>5. ASSUME NEW w \in Workers, LotAttach(w) PROVE
        \A l \in LotIds : (Exists(l) => Exists(l)') /\ (lots'[l].st = "OPEN" => Live(l))
  <2> SUFFICES ASSUME NEW l \in LotIds
               PROVE  (Exists(l) => Exists(l)') /\ (lots'[l].st = "OPEN" => Live(l))
    OBVIOUS
  <2>1. CASE l = task[w].lot
    BY <1>1, <1>5, <2>1, AsOpenedRow DEF LotAttach, Exists, Live, StillToSave, TypeOK
  <2>2. CASE l # task[w].lot
    BY <1>1, <1>5, <2>2 DEF LotAttach, Exists, Live, TypeOK
  <2> QED
    BY <2>1, <2>2
<1>6. ASSUME NEW w \in Workers, LotClose(w) PROVE
        \A l \in LotIds : (Exists(l) => Exists(l)') /\ (lots'[l].st = "OPEN" => Live(l))
  <2> SUFFICES ASSUME NEW l \in LotIds
               PROVE  (Exists(l) => Exists(l)') /\ (lots'[l].st = "OPEN" => Live(l))
    OBVIOUS
  <2>1. CASE l = orders[task[w].ord].lot
    <3>1. PICK o \in OrderIds : o = task[w].ord
      BY <1>1, <1>6 DEF LotClose, At, TaskFine, OnOrder
    <3>2. lots'[l] = [lots[l] EXCEPT !.st = "CLOSED", !.settledBy = o]
      BY <1>1, <1>6, <2>1, <3>1 DEF LotClose, TypeOK
    <3>3. o \in 0..MaxOrders
      BY <3>1 DEF OrderIds
    <3> QED
      BY <1>1, <3>2, <3>3, RowWith DEF Exists, Live
  <2>2. CASE l # orders[task[w].ord].lot
    BY <1>1, <1>6, <2>2 DEF LotClose, Exists, Live, TypeOK
  <2> QED
    BY <2>1, <2>2
<1> QED
  BY <1>2, <1>3, <1>4, <1>5, <1>6, LotWriters

\* Every step opens one order, closes some, or leaves them all as they are.
LEMMA StepImplementsLifecycle ==
  ASSUME UniqueOpenOrder, IInv, [Next]_vars
  PROVE  [Lifecycle!Next]_[o \in OrderIds |-> Held(o)]
<1>1. TypeOK /\ \A w \in Workers : task[w] \in Task /\ TaskFine(w, task[w])
  BY DEF IInv, TypeOK
<1>2. CASE \E w \in Workers : ClaimRead(w)
  <2>1. PICK w \in Workers : ClaimRead(w)
    BY <1>2
  <2>2. UNCHANGED lots
    BY <2>1 DEF ClaimRead, tables
  <2>3. \A v \in Workers : v # w => task'[v] = task[v]
    BY <2>1 DEF ClaimRead, TypeOK
  <2>4. \A l \in task'[w].read : lots[l].st = "OPEN"
    BY <1>1, <2>1 DEF ClaimRead, Idle, TypeOK
  <2>5. task'[w].pc # "attach"
    BY <1>1, <2>1 DEF ClaimRead, Idle, TypeOK
  <2>6. \A l \in LotIds : Live(l)' => Live(l)
    BY <2>2, <2>3, <2>4, <2>5 DEF Live, StillToSave, At
  <2> QED
    BY <2>2, <2>6, OnlyCloses DEF Exists
<1>3. CASE \E w \in Workers : LotInsert(w)
  <2>1. PICK w \in Workers : LotInsert(w)
    BY <1>3
  <2>2. CASE Finish(w) /\ UNCHANGED lots
    <3>1. NoneTaken
      BY <1>1, <2>2, FinishTakesNone
    <3>2. \A l \in LotIds : Live(l)' => Live(l)
      BY <2>2, <3>1 DEF NoneTaken, Live, StillToSave, At
    <3> QED
      BY <2>2, <3>2, OnlyCloses DEF Exists
  <2>3. CASE LotsOf(task[w].ord) = {} /\ ~(Finish(w) /\ UNCHANGED lots)
    <3>1. PICK p \in OrderIds : p = task[w].ord
      BY <1>1, <2>1 DEF LotInsert, At, TaskFine, OnOrder
    <3>2. PICK m \in LotIds : m = <<p, w>>
      BY DEF LotIds
    <3>3. /\ lots'[m].st = "OPEN" /\ \A l \in LotIds : l # m => lots'[l] = lots[l]
          /\ task' = [task EXCEPT ![w].pc = "attach", ![w].lot = m]
      BY <1>1, <2>1, <2>3, <3>1, <3>2 DEF LotInsert, TypeOK
    <3>4. \A l \in LotIds : l # m => (StillToSave(l)' <=> StillToSave(l))
      <4>1. \A v \in Workers : v # w => task'[v] = task[v]
        BY <1>1, <3>3 DEF TypeOK
      <4>2. task'[w].pc = "attach" /\ task'[w].lot = m /\ task[w].pc = "lotInsert"
        BY <1>1, <2>1, <3>3 DEF LotInsert, At, TypeOK, Task
      <4> QED
        BY <4>1, <4>2 DEF StillToSave, At
    <3>5. LotsOf(p) = {} /\ Held(p) = "none" /\ Held(p)' = "open"
      BY <2>3, <3>1, <3>2, <3>3 DEF LotsOf, Held
    <3>6. \A o \in OrderIds : o # p => Held(o)' = Held(o)
      <4> SUFFICES ASSUME NEW o \in OrderIds, o # p PROVE Held(o)' = Held(o)
        OBVIOUS
      <4>1. \A l \in LotIds : l[1] = o => l # m
        BY <3>2
      <4>2. LotsOf(o)' = LotsOf(o)
        BY <3>3, <4>1 DEF LotsOf
      <4>3. \A l \in LotsOf(o) : lots'[l] = lots[l] /\ (StillToSave(l)' <=> StillToSave(l))
        BY <3>3, <3>4, <4>1 DEF LotsOf
      <4> QED
        BY <4>2, <4>3 DEF Held
    <3>7. Lifecycle!Open(p)
      BY <3>5, <3>6 DEF Lifecycle!Open
    <3> QED
      BY <3>7 DEF Lifecycle!Next
  <2> QED
    BY <2>1, <2>2, <2>3 DEF LotInsert
<1>4. CASE ~\E w \in Workers : ClaimRead(w) \/ LotInsert(w)
  <2>1. NoneTaken
    BY <1>4, OthersTakeNone
  <2>2. \A l \in LotIds : StillToSave(l)' => StillToSave(l)
    BY <2>1 DEF NoneTaken, StillToSave, At
  <2>3. \A l \in LotIds : Exists(l)' => Exists(l)
    BY <1>4, OnlyInsertMakesLots
  <2>4. \A l \in LotIds : (Exists(l) => Exists(l)') /\ (lots'[l].st = "OPEN" => Live(l))
    BY <1>4, SavesKeepLots
  <2>6. \A l \in LotIds : Live(l)' => Live(l)
    BY <2>2, <2>4 DEF Live
  <2> QED
    BY <2>3, <2>4, <2>6, OnlyCloses
<1> QED
  BY <1>2, <1>3, <1>4

\* Under the unique index an opening order is held once, whatever interleaving
\* of insertions, stale saves, settlements and archiving its lot goes through.
THEOREM ImplementsLifecycle == ASSUME UniqueOpenOrder PROVE Spec => HeldOnce
<1>1. Init => Lifecycle!Init
  <2> SUFFICES ASSUME Init PROVE \A o \in OrderIds : Held(o) = "none"
    BY DEF Lifecycle!Init
  <2> QED
    BY DEF Init, NoLotRow, Held, LotsOf
<1>2. IInv /\ [Next]_vars => [Lifecycle!Next]_[o \in OrderIds |-> Held(o)]
  BY StepImplementsLifecycle
<1> QED
  BY <1>1, <1>2, Invariance, PTL DEF Spec, HeldOnce, Lifecycle!Spec

-----------------------------------------------------------------------------
(* Sums over sets                                                           *)

\* Every set of numbers has a least one: the form of induction used below.
LEMMA Least ==
  ASSUME NEW T, T \subseteq Nat, T # {}
  PROVE  \E x \in T : \A y \in T : x <= y
<1> DEFINE R == OpToRel(<, Nat)
<1>1. IsWellFoundedOn(R, Nat)
  BY NatLessThanWellFounded
<1>2. PICK x \in T : \A y \in T : ~(<<y, x>> \in R)
  <2> HIDE DEF R
  <2> QED
    BY <1>1, WFMin
<1>3. \A y \in T : ~(y < x)
  BY <1>2 DEF OpToRel
<1> QED
  BY <1>3

\* The library sums along a function that is recursive on the subsets of S.
Pick(s) == CHOOSE x \in s : TRUE
Row(f, g, s) == IF s = {} THEN 0 ELSE f[Pick(s)] + g[s \ {Pick(s)}]
Adds(f, S, g) == g = [s \in SUBSET S |-> Row(f, g, s)]

LEMMA SumIs ==
  ASSUME NEW f, NEW S
  PROVE  SumFunctionOnSet(f, S) = (CHOOSE g : Adds(f, S, g))[S]
BY DEF SumFunctionOnSet, FoldFunctionOnSet, MapThenFoldSet, Adds, Row, Pick

LEMMA Picked ==
  ASSUME NEW s, IsFiniteSet(s), s # {}
  PROVE  /\ Pick(s) \in s /\ IsFiniteSet(s \ {Pick(s)})
         /\ Cardinality(s) \in Nat \ {0} /\ Cardinality(s \ {Pick(s)}) = Cardinality(s) - 1
<1>1. Pick(s) \in s
  BY DEF Pick
<1> QED
  BY <1>1, FS_RemoveElement, FS_CardinalityType, FS_EmptySet

\* It exists: the rows of the larger sets follow from those of the smaller.
LEMMA AddsExists ==
  ASSUME NEW f, NEW S, IsFiniteSet(S)
  PROVE  \E g : Adds(f, S, g)
<1> DEFINE Upto(m) == \E g : \A s \in SUBSET S : Cardinality(s) <= m => g[s] = Row(f, g, s)
           T == {m \in Nat : ~Upto(m)}
<1>1. \A s \in SUBSET S : IsFiniteSet(s) /\ Cardinality(s) \in Nat /\ Cardinality(s) <= Cardinality(S)
  BY FS_Subset, FS_CardinalityType
<1>2. Upto(0)
  <2>1. \A s \in SUBSET S : Cardinality(s) <= 0 => s = {}
    BY <1>1, FS_EmptySet
  <2>2. \A s \in SUBSET S : Cardinality(s) <= 0 => [r \in SUBSET S |-> 0][s] = Row(f, [r \in SUBSET S |-> 0], s)
    BY <2>1 DEF Row
  <2> QED
    BY <2>2
<1>3. ASSUME NEW m \in Nat, Upto(m) PROVE Upto(m + 1)
  <2>1. PICK g : \A s \in SUBSET S : Cardinality(s) <= m => g[s] = Row(f, g, s)
    BY <1>3
  <2> DEFINE h == [s \in SUBSET S |-> Row(f, g, s)]
  <2>2. ASSUME NEW s \in SUBSET S, Cardinality(s) <= m + 1 PROVE h[s] = Row(f, h, s)
    <3>1. CASE s = {}
      BY <3>1 DEF Row
    <3>2. CASE s # {}
      <4> DEFINE r == s \ {Pick(s)}
      <4>1. r \in SUBSET S /\ Cardinality(r) <= m
        BY <1>1, <2>2, <3>2, Picked
      <4>2. h[r] = g[r]
        BY <2>1, <4>1
      <4> QED
        BY <3>2, <4>2 DEF Row
    <3> QED
      BY <3>1, <3>2
  <2> QED
    BY <2>2
<1>4. \A m \in Nat : Upto(m)
  <2> SUFFICES ASSUME T # {} PROVE FALSE
    OBVIOUS
  <2>1. PICK x \in T : \A y \in T : x <= y
    <3> HIDE DEF Upto
    <3> QED
      BY Least
  <2> HIDE DEF Upto
  <2>2. x # 0
    BY <1>2, <2>1
  <2>3. x - 1 \in Nat /\ Upto(x - 1)
    BY <2>1, <2>2
  <2> QED
    BY <1>3, <2>1, <2>3
<1>5. PICK g : \A s \in SUBSET S : Cardinality(s) <= Cardinality(S) => g[s] = Row(f, g, s)
  <2> HIDE DEF Upto
  <2>1. Upto(Cardinality(S))
    BY <1>1, <1>4
  <2> USE DEF Upto
  <2> QED
    BY <2>1
<1> DEFINE h == [s \in SUBSET S |-> g[s]]
<1>6. \A s \in SUBSET S : h[s] = Row(f, h, s)
  <2> SUFFICES ASSUME NEW s \in SUBSET S PROVE h[s] = Row(f, h, s)
    OBVIOUS
  <2>1. g[s] = Row(f, g, s)
    BY <1>1, <1>5
  <2>2. s \ {Pick(s)} \in SUBSET S
    OBVIOUS
  <2> QED
    BY <2>1, <2>2 DEF Row
<1>7. h = [s \in SUBSET S |-> Row(f, h, s)]
  <2>1. h = [s \in SUBSET S |-> h[s]]
    OBVIOUS
  <2> HIDE DEF h
  <2>2. [s \in SUBSET S |-> h[s]] = [s \in SUBSET S |-> Row(f, h, s)]
    BY <1>6
  <2> QED
    BY <2>1, <2>2
<1> QED
  BY <1>7 DEF Adds

\* A sum of natural numbers is one, and it is at least the number of those that are
\* not zero.
LEMMA SumCounts ==
  ASSUME NEW S, IsFiniteSet(S), NEW f, \A x \in S : f[x] \in Nat
  PROVE  /\ SumFunctionOnSet(f, S) \in Nat
         /\ Cardinality({x \in S : f[x] > 0}) <= SumFunctionOnSet(f, S)
<1> DEFINE g == CHOOSE h : Adds(f, S, h)
           Pos(s) == {x \in s : f[x] > 0}
           Fine(s) == g[s] \in Nat /\ Cardinality(Pos(s)) <= g[s]
           T == {m \in Nat : \E s \in SUBSET S : Cardinality(s) = m /\ ~Fine(s)}
<1>1. Adds(f, S, g)
  BY AddsExists
<1>2. SumFunctionOnSet(f, S) = g[S]
  BY SumIs
<1> HIDE DEF g
<1>3. \A s \in SUBSET S : g[s] = Row(f, g, s) /\ IsFiniteSet(s) /\ Cardinality(s) \in Nat
  BY <1>1, FS_Subset, FS_CardinalityType DEF Adds
<1>4. T = {}
  <2> SUFFICES ASSUME T # {} PROVE FALSE
    OBVIOUS
  <2>1. PICK m \in T : \A y \in T : m <= y
    BY Least
  <2>2. PICK s \in SUBSET S : Cardinality(s) = m /\ ~Fine(s)
    BY <2>1
  <2>3. s # {}
    <3>1. Pos({}) = {} /\ Cardinality({}) = 0
      BY FS_EmptySet
    <3>2. g[{}] = 0
      BY <1>3 DEF Row
    <3>3. Fine({})
      BY <3>1, <3>2
    <3> QED
      BY <2>2, <3>3
  <2> DEFINE x == Pick(s)
             r == s \ {x}
  <2>4. x \in s /\ r \in SUBSET S /\ Cardinality(r) = m - 1 /\ m - 1 \in Nat /\ m - 1 < m
    <3>1. IsFiniteSet(s) /\ Cardinality(s) = m /\ m \in Nat
      BY <1>3, <2>2
    <3>2. /\ Pick(s) \in s /\ Cardinality(s) \in Nat \ {0}
          /\ Cardinality(s \ {Pick(s)}) = Cardinality(s) - 1
      BY <2>3, <3>1, Picked
    <3> QED
      BY <3>1, <3>2
  <2>5. Fine(r)
    <3>1. m - 1 \notin T
      <4>1. m \in Nat /\ \A y \in T : m <= y
        BY <2>1
      <4> HIDE DEF T
      <4> QED
        BY <4>1
    <3> HIDE DEF Fine, r
    <3> QED
      BY <2>4, <3>1
  <2>6. g[s] = f[x] + g[r] /\ f[x] \in Nat
    BY <1>3, <2>3, <2>4 DEF Row
  <2>7. IsFiniteSet(Pos(r))
    BY <1>3, <2>4, FS_Subset
  <2>8. Pos(s) = IF f[x] > 0 THEN Pos(r) \cup {x} ELSE Pos(r)
    BY <2>4
  <2>9. Cardinality(Pos(s)) <= Cardinality(Pos(r)) + (IF f[x] > 0 THEN 1 ELSE 0)
    <3>1. Cardinality(Pos(r)) \in Nat
      BY <2>7, FS_CardinalityType
    <3>2. Cardinality(Pos(r) \cup {x}) <= Cardinality(Pos(r)) + 1
      <4>1. Cardinality(Pos(r) \cup {x}) =
              IF x \in Pos(r) THEN Cardinality(Pos(r)) ELSE Cardinality(Pos(r)) + 1
        BY <2>7, FS_AddElement
      <4> QED
        BY <3>1, <4>1
    <3> HIDE DEF Pos
    <3> QED
      BY <2>8, <3>1, <3>2
  <2>10. Cardinality(Pos(s)) \in Nat /\ Cardinality(Pos(r)) \in Nat
    BY <1>3, <2>7, FS_Subset, FS_CardinalityType
  <2> HIDE DEF Pos, r, x
  <2>11. Fine(s)
    BY <2>5, <2>6, <2>9, <2>10
  <2> QED
    BY <2>2, <2>11
<1>5. Fine(S)
  <2>1. S \in SUBSET S /\ Cardinality(S) \in Nat
    BY <1>3
  <2> HIDE DEF Fine
  <2> QED
    BY <1>4, <2>1
<1> QED
  BY <1>2, <1>5

-----------------------------------------------------------------------------
(* No position is lost while nothing fails                                  *)

\* What the theorem is about: no response is lost, the process does not crash, and an
\* order is filled as a whole.
NothingFails == Qty = 1 /\ MaxCrashes = 0 /\ ~ResponsesMayBeLost /\ IsFiniteSet(Workers)

\* From the moment an order is sent until its response is recorded or it is given up, it
\* belongs to the task that sends it.
OnWay == {"send", "record", "confirm", "recover", "fail"}

FilledOrders(kind) == {o \in OrderIds : orders[o].kind = kind /\ exch[o].filled > 0}

\* The exchange holds no more than the opening orders bought and the closing ones left.
PositionBacked ==
  pos + Cardinality(FilledOrders("close")) <= Cardinality(FilledOrders("open"))

\* An opening order that reached the exchange is not recorded as failed, nor as expired
\* unless it ended there without a fill.
NeverGivenUp ==
  \A o \in OrderIds :
    /\ exch[o].filled > 0 => exch[o].st # "none"
    /\ orders[o].kind = "open" /\ exch[o].st # "none" =>
         \/ orders[o].status \in {"NEW", "FILLED", "PARTIALLY_FILLED"}
         \/ exch[o].st = "done" /\ exch[o].filled = 0

OwnOrder(w) ==
  /\ \A v \in Workers :
       task[v].pc \in OnWay /\ task[w].pc \in OnWay /\ task[v].ord = task[w].ord => v = w
  /\ task[w].pc = "send" => orders[task[w].ord].status = "NEW"
  /\ task[w].pc \in {"recover", "fail"} => exch[task[w].ord].st = "none"

\* The fill row of an opening order is never left alone: its lot exists, or the task that
\* wrote it, or another, is about to insert it.
FillsLead ==
  \A o \in OrderIds :
    orders[o].kind = "open" /\ HasFill(o) /\ LotsOf(o) = {} => \E w \in Workers : Accounting(w, o)

Kept == PositionBacked /\ NeverGivenUp /\ (\A w \in Workers : OwnOrder(w)) /\ FillsLead

LEMMA Counting ==
  ASSUME NothingFails
  PROVE  /\ IsFiniteSet(OrderIds) /\ IsFiniteSet(LotIds)
         /\ \A kind : /\ IsFiniteSet(FilledOrders(kind))
                      /\ Cardinality(FilledOrders(kind)) \in Nat
<1>1. IsFiniteSet(OrderIds)
  BY LedgerAssumption, FS_Interval DEF OrderIds
<1>2. IsFiniteSet(LotIds)
  BY <1>1, FS_Product DEF NothingFails, LotIds
<1>3. \A kind : FilledOrders(kind) \in SUBSET OrderIds
  BY DEF FilledOrders
<1>4. \A kind : IsFiniteSet(FilledOrders(kind))
  BY <1>1, <1>3, FS_Subset
<1> QED
  BY <1>1, <1>2, <1>4, FS_CardinalityType

LEMMA AtMost ==
  ASSUME NEW S, NEW T, IsFiniteSet(T), NEW f \in [S -> T],
         \A a, b \in S : f[a] = f[b] => a = b
  PROVE  /\ IsFiniteSet(S) /\ Cardinality(S) \in Nat /\ Cardinality(T) \in Nat
         /\ Cardinality(S) <= Cardinality(T)
<1>1. f \in Injection(S, T)
  BY DEF Injection, IsInjective
<1> QED
  BY <1>1, FS_Injection, FS_CardinalityType

\* The invariant says what the property says: a filled opening order is one a round can
\* still account for, or has a lot, and each lot that was settled was settled by a closing
\* order of its own.
LEMMA KeptIsTracked ==
  ASSUME NothingFails, IInv, Kept
  PROVE  NoUntrackedPosition
<1> DEFINE O == FilledOrders("open")
           C == FilledOrders("close")
           A == {o \in OrderIds : Recoverable(o) /\ exch[o].filled > 0}
           B == {o \in OrderIds : \E l \in LotsOf(o) : Tracked(l)}
           D == {o \in OrderIds : \E l \in LotsOf(o) : lots[l].settledBy # 0}
           T == {l \in LotIds : Tracked(l)}
           R == {o \in OrderIds : Recoverable(o)}
           qty == [l \in LotIds |-> lots[l].qty]
           filled == [o \in OrderIds |-> exch[o].filled]
<1>1. O \subseteq (A \cup B) \cup D
  <2> SUFFICES ASSUME NEW o \in O PROVE o \in A \cup B \cup D
    OBVIOUS
  <2>1. /\ o \in OrderIds /\ orders[o].kind = "open" /\ exch[o].filled > 0
        /\ orders[o].status \in {"NEW", "FILLED", "PARTIALLY_FILLED"}
    BY DEF FilledOrders, Kept, NeverGivenUp
  <2>2. CASE LotsOf(o) = {}
    <3>1. Recoverable(o)
      BY <2>1, <2>2 DEF Recoverable, Kept, FillsLead
    <3> QED
      BY <2>1, <3>1
  <2>3. CASE LotsOf(o) # {}
    <3>1. PICK l \in LotsOf(o) : TRUE
      BY <2>3
    <3>2. lots[l].st \in {"OPEN", "CLOSED"}
      BY <3>1 DEF LotsOf, IInv, TypeOK, LotRow
    <3>3. Tracked(l) \/ lots[l].settledBy # 0
      BY <3>2 DEF Tracked
    <3> QED
      BY <2>1, <3>1, <3>3
  <2> QED
    BY <2>2, <2>3
<1>2. /\ Cardinality(A) \in Nat /\ SumFunctionOnSet(filled, R) \in Nat
      /\ Cardinality(A) <= SumFunctionOnSet(filled, R)
  <2>1. IsFiniteSet(R) /\ IsFiniteSet(A)
    BY Counting, FS_Subset
  <2>2. \A o \in R : filled[o] \in Nat
    BY LedgerAssumption DEF IInv, TypeOK, ExchangeOrder
  <2>3. A = {o \in R : filled[o] > 0}
    OBVIOUS
  <2> HIDE DEF A, R, filled
  <2> QED
    BY <2>1, <2>2, <2>3, SumCounts, FS_CardinalityType
<1>3. /\ Cardinality(T) \in Nat /\ SumFunctionOnSet(qty, T) \in Nat
      /\ Cardinality(T) <= SumFunctionOnSet(qty, T) /\ IsFiniteSet(T)
  <2>1. IsFiniteSet(T)
    BY Counting, FS_Subset
  <2>2. \A l \in T : qty[l] \in Nat /\ qty[l] > 0
    BY LedgerAssumption DEF IInv, TypeOK, LotRow, BackedByExchange, Tracked
  <2>3. T = {l \in T : qty[l] > 0}
    BY <2>2
  <2> HIDE DEF T, qty
  <2> QED
    BY <2>1, <2>2, <2>3, SumCounts, FS_CardinalityType
<1>4. IsFiniteSet(B) /\ Cardinality(B) \in Nat /\ Cardinality(B) <= Cardinality(T)
  <2> DEFINE m == [o \in B |-> CHOOSE l \in LotsOf(o) : Tracked(l)]
  <2>1. \A o \in B : m[o] \in LotsOf(o) /\ Tracked(m[o])
    OBVIOUS
  <2>2. \A o \in B : m[o] \in T /\ m[o][1] = o
    BY <2>1 DEF LotsOf
  <2>3. m \in [B -> T] /\ \A a, b \in B : m[a] = m[b] => a = b
    BY <2>2
  <2> HIDE DEF m, B, T
  <2> QED
    BY <1>3, <2>3, AtMost
<1>5. IsFiniteSet(D) /\ Cardinality(D) \in Nat /\ Cardinality(D) <= Cardinality(C)
  <2> DEFINE m == [o \in D |-> CHOOSE l \in LotsOf(o) : lots[l].settledBy # 0]
             by == [o \in D |-> lots[m[o]].settledBy]
  <2>1. \A o \in D : m[o] \in LotsOf(o) /\ lots[m[o]].settledBy # 0
    OBVIOUS
  <2>2. \A o \in D : m[o] \in LotIds /\ m[o][1] = o
    BY <2>1 DEF LotsOf
  <2> HIDE DEF m
  <2>3. \A o \in D : by[o] \in OrderIds /\ by[o] \in C /\ orders[by[o]].lot = m[o]
    <3> SUFFICES ASSUME NEW o \in D
                 PROVE  by[o] \in OrderIds /\ by[o] \in C /\ orders[by[o]].lot = m[o]
      OBVIOUS
    <3>1. by[o] = lots[m[o]].settledBy /\ m[o] \in LotIds /\ by[o] # 0
      BY <2>1, <2>2
    <3>2. by[o] \in OrderIds
      BY <3>1, LedgerAssumption DEF IInv, TypeOK, LotRow, OrderIds
    <3>3. orders[by[o]].kind = "close" /\ orders[by[o]].lot = m[o] /\ exch[by[o]].filled > 0
      BY <3>1 DEF IInv, SettledByOwnClose
    <3> QED
      BY <3>2, <3>3 DEF FilledOrders
  <2>4. by \in [D -> C]
    BY <2>3
  <2>5. \A a, b \in D : by[a] = by[b] => a = b
    <3> HIDE DEF by, D
    <3> QED
      BY <2>2, <2>3
  <2> HIDE DEF by, D, C
  <2>6. IsFiniteSet(C)
    BY Counting DEF C
  <2> QED
    BY <2>4, <2>5, <2>6, AtMost
<1>6. Cardinality(O) <= Cardinality(A) + Cardinality(B) + Cardinality(D)
  <2>1. IsFiniteSet(A)
    BY Counting, FS_Subset
  <2>2. IsFiniteSet(A \cup B) /\ IsFiniteSet((A \cup B) \cup D)
    BY <1>4, <1>5, <2>1, FS_Union
  <2> HIDE DEF O, A, B, D
  <2>3. \A S, U : IsFiniteSet(S) /\ IsFiniteSet(U) => Cardinality(S \cup U) <= Cardinality(S) + Cardinality(U)
    <3> SUFFICES ASSUME NEW S, NEW U, IsFiniteSet(S), IsFiniteSet(U)
                 PROVE  Cardinality(S \cup U) <= Cardinality(S) + Cardinality(U)
      OBVIOUS
    <3>1. Cardinality(S \cup U) = Cardinality(S) + Cardinality(U) - Cardinality(S \cap U)
      BY FS_Union
    <3>2. IsFiniteSet(S \cap U)
      BY FS_Intersection
    <3> QED
      BY <3>1, <3>2, FS_CardinalityType
  <2>4. /\ Cardinality(A \cup B) <= Cardinality(A) + Cardinality(B)
        /\ Cardinality((A \cup B) \cup D) <= Cardinality(A \cup B) + Cardinality(D)
    BY <1>4, <1>5, <2>1, <2>2, <2>3
  <2>5. Cardinality(O) <= Cardinality((A \cup B) \cup D)
    BY <1>1, <2>2, FS_Subset
  <2>6. /\ Cardinality(A \cup B) \in Nat /\ Cardinality((A \cup B) \cup D) \in Nat
        /\ Cardinality(O) \in Nat /\ Cardinality(A) \in Nat /\ Cardinality(B) \in Nat
        /\ Cardinality(D) \in Nat
    BY <1>4, <1>5, <2>1, <2>2, FS_CardinalityType, Counting DEF O
  <2> QED
    BY <2>4, <2>5, <2>6
<1>7. pos + Cardinality(C) <= Cardinality(O) /\ pos \in Nat
  BY DEF Kept, PositionBacked, IInv, TypeOK
<1>8. Cardinality(C) \in Nat /\ Cardinality(O) \in Nat
  BY Counting
<1> HIDE DEF O, A, B, C, D
<1>9. pos <= SumFunctionOnSet(qty, T) + SumFunctionOnSet(filled, R)
  <2> HIDE DEF qty, filled, T, R
  <2> QED
    BY <1>2, <1>3, <1>4, <1>5, <1>6, <1>7, <1>8
<1> QED
  BY <1>9 DEF NoUntrackedPosition

\* The steps that write the exchange's side.
LEMMA ExchangeWriters ==
  ASSUME [Next]_vars, exch' # exch \/ pos' # pos
  PROVE  \/ \E w \in Workers, q \in 0..Qty, resp \in {"ok", "error", "reduceOnly"} :
              SendAccepted(w, q, resp)
         \/ \E o \in OrderIds : ExchangeFill(o) \/ ExchangeExpire(o)
         \/ CloseOutside
<1>1. CASE \E w \in Workers : Start(w)
  BY <1>1 DEF Start, PlaceOpen, Decide, Request, SyncBegin, RepairBegin, StartInstance, exchange
<1>2. ASSUME NEW w \in Workers, Continue(w),
             ~\E q \in 0..Qty, resp \in {"ok", "error", "reduceOnly"} : SendAccepted(w, q, resp)
      PROVE  FALSE
  BY <1>2
  DEF Continue, CheckLot, PlaceClose, SendRefused, RecordResponse,
      ConfirmFound, ConfirmNothing, SaveOrder, SaveFill, SaveFailed, ReadPositions,
      ArchiveRead, ArchiveSave, ClaimRead, ClaimSave, LotFind, LotInsert, LotAttach, LotGet,
      LotClose, SyncReadFills, RoundDone, SyncFound, SyncSkip, RepairCheck, exchange
<1>3. CASE Crash \/ UNCHANGED vars
  BY <1>3 DEF Crash, vars, exchange
<1> QED
  BY <1>1, <1>2, <1>3 DEF Next

\* The steps that write orders.
LEMMA OrderWriters ==
  ASSUME [Next]_vars, orders' # orders
  PROVE  \E w \in Workers :
           \/ \E o \in OrderIds, type \in OrderTypes : PlaceOpen(w, o, type)
           \/ \E o \in OrderIds : PlaceClose(w, o)
           \/ RecordResponse(w) \/ SaveOrder(w) \/ SaveFailed(w)
<1>1. ASSUME NEW w \in Workers, Start(w)
      PROVE  \E o \in OrderIds, type \in OrderTypes : PlaceOpen(w, o, type)
  BY <1>1 DEF Start, Decide, Request, SyncBegin, RepairBegin, StartInstance, tables
<1>2. ASSUME NEW w \in Workers, Continue(w)
      PROVE  \/ \E o \in OrderIds : PlaceClose(w, o)
             \/ RecordResponse(w) \/ SaveOrder(w) \/ SaveFailed(w)
  BY <1>2
  DEF Continue, CheckLot, SendAccepted, SendRefused,
      ConfirmFound, ConfirmNothing, SaveFill, ReadPositions,
      ArchiveRead, ArchiveSave, ClaimRead, ClaimSave, LotFind, LotInsert, LotAttach, LotGet,
      LotClose, SyncReadFills, RoundDone, SyncFound, SyncSkip, RepairCheck, tables
<1>3. CASE (\E o \in OrderIds : ExchangeFill(o) \/ ExchangeExpire(o)) \/ CloseOutside \/ Crash
           \/ UNCHANGED vars
  BY <1>3 DEF ExchangeFill, ExchangeExpire, CloseOutside, Crash, vars, tables
<1> QED
  BY <1>1, <1>2, <1>3 DEF Next

LEMMA KindsStay ==
  ASSUME IInv, [Next]_vars, NEW o \in OrderIds, Started(o)
  PROVE  /\ orders'[o].kind = orders[o].kind
         /\ LotsOf(o) # {} => LotsOf(o)' # {}
<1>1. orders'[o].kind = orders[o].kind
  <2>1. CASE orders' = orders
    BY <2>1
  <2>2. ASSUME NEW w \in Workers, NEW p \in OrderIds,
               (\E type \in OrderTypes : PlaceOpen(w, p, type)) \/ PlaceClose(w, p)
        PROVE  orders'[o] = orders[o]
    BY <2>2 DEF PlaceOpen, PlaceClose, IsNextId, Started, IInv, TypeOK
  <2>3. ASSUME NEW w \in Workers, RecordResponse(w) \/ SaveOrder(w) \/ SaveFailed(w)
        PROVE  orders'[o].kind = orders[o].kind
    <3>1. PICK p, st : orders' = [orders EXCEPT ![p].status = st]
      BY <2>3 DEF RecordResponse, SaveOrder, SaveFailed
    <3> QED
      BY <3>1 DEF IInv, TypeOK, OrderRow
  <2> QED
    BY <2>1, <2>2, <2>3, OrderWriters
<1>2. \A l \in LotIds : Exists(l) => Exists(l)'
  <2>1. CASE lots' = lots
    BY <2>1 DEF Exists
  <2>2. ASSUME NEW w \in Workers,
               ArchiveSave(w) \/ ClaimSave(w) \/ LotInsert(w) \/ LotAttach(w) \/ LotClose(w)
        PROVE  \A l \in LotIds : Exists(l) => Exists(l)'
    <3>1. lots \in [LotIds -> LotRow]
      BY DEF IInv, TypeOK
    <3>2. CASE ArchiveSave(w)
      BY <3>1, <3>2 DEF ArchiveSave, Exists, LotRow
    <3>3. CASE ClaimSave(w)
      BY <3>1, <3>3 DEF ClaimSave, AsOpened, Exists, LotRow
    <3>4. CASE LotInsert(w)
      BY <3>1, <3>4 DEF LotInsert, Exists
    <3>5. CASE LotAttach(w)
      BY <3>1, <3>5 DEF LotAttach, AsOpened, Exists, LotRow
    <3>6. CASE LotClose(w)
      BY <3>1, <3>6 DEF LotClose, Exists, LotRow
    <3> QED
      BY <2>2, <3>2, <3>3, <3>4, <3>5, <3>6
  <2> QED
    BY <2>1, <2>2, LotWriters
<1> QED
  BY <1>1, <1>2 DEF LotsOf, Exists

\* An order is filled at the exchange: the position moves with the count of its kind.
LEMMA OneMoreFilled ==
  ASSUME NothingFails, IInv, IInv', PositionBacked, NEW o \in OrderIds, Started(o),
         NEW q \in 0..1, exch[o].filled = 0, NEW view, view.filled = q,
         exch' = [exch EXCEPT ![o] = view], orders' = orders, pos' = Moves(o, q)
  PROVE  PositionBacked'
<1>1. \A kind : /\ FilledOrders(kind)' = IF q = 1 /\ orders[o].kind = kind
                                          THEN FilledOrders(kind) \cup {o} ELSE FilledOrders(kind)
                /\ o \notin FilledOrders(kind)
  BY LedgerAssumption DEF FilledOrders, IInv, TypeOK, ExchangeOrder
<1>2. \A kind : IsFiniteSet(FilledOrders(kind)) /\ Cardinality(FilledOrders(kind)) \in Nat
  BY Counting
<1>3. \A kind : Cardinality(FilledOrders(kind)') =
                  Cardinality(FilledOrders(kind)) + IF q = 1 /\ orders[o].kind = kind THEN 1 ELSE 0
  <2> SUFFICES ASSUME NEW kind
               PROVE  Cardinality(FilledOrders(kind)') =
                        Cardinality(FilledOrders(kind)) + IF q = 1 /\ orders[o].kind = kind THEN 1 ELSE 0
    OBVIOUS
  <2>1. Cardinality(FilledOrders(kind) \cup {o}) = Cardinality(FilledOrders(kind)) + 1
    BY <1>1, <1>2, FS_AddElement
  <2> QED
    BY <1>1, <1>2, <2>1
<1>4. orders[o].kind \in {"open", "close"} /\ pos \in Nat /\ pos' \in Nat
  BY DEF IInv, TypeOK, OrderRow
<1>5. pos' = IF orders[o].kind = "open" THEN pos + q ELSE pos - q
  BY DEF Moves
<1>6. /\ Cardinality(FilledOrders("open")') = Cardinality(FilledOrders("open")) + IF q = 1 /\ orders[o].kind = "open" THEN 1 ELSE 0
      /\ Cardinality(FilledOrders("close")') = Cardinality(FilledOrders("close")) + IF q = 1 /\ orders[o].kind = "close" THEN 1 ELSE 0
  BY <1>3
<1>7. pos + Cardinality(FilledOrders("close")) <= Cardinality(FilledOrders("open"))
  BY DEF PositionBacked
<1>8. pos' + Cardinality(FilledOrders("close")') <= Cardinality(FilledOrders("open")')
  <2>1. Cardinality(FilledOrders("open")) \in Nat /\ Cardinality(FilledOrders("close")) \in Nat
    BY <1>2
  <2> QED
    BY <1>4, <1>5, <1>6, <1>7, <2>1
<1> QED
  BY <1>8 DEF PositionBacked

LEMMA PositionStep ==
  ASSUME NothingFails, IInv, IInv', PositionBacked, [Next]_vars
  PROVE  PositionBacked'
<1>1. \A o \in OrderIds : /\ Started(o) => orders'[o].kind = orders[o].kind
                          /\ ~Started(o) => exch[o].filled = 0
  BY KindsStay DEF IInv, OrderFine
<1>2. CASE UNCHANGED <<exch, pos>>
  <2>1. \A o \in OrderIds : exch[o].filled > 0 => orders'[o].kind = orders[o].kind
    BY <1>1
  <2>2. \A kind : FilledOrders(kind)' = FilledOrders(kind)
    BY <1>2, <2>1 DEF FilledOrders
  <2> QED
    BY <1>2, <2>2 DEF PositionBacked
<1>3. ASSUME NEW w \in Workers, NEW q \in 0..Qty, NEW resp \in {"ok", "error", "reduceOnly"},
             SendAccepted(w, q, resp)
      PROVE  PositionBacked'
  <2>1. PICK o \in OrderIds : o = task[w].ord /\ Started(o) /\ exch[o].filled = 0
    BY <1>3 DEF SendAccepted, At, IInv, TaskFine, OnOrder
  <2>2. PICK view : view = [st |-> IF q < orders[o].qty THEN "live" ELSE "done", filled |-> q]
    OBVIOUS
  <2>3. q \in 0..1 /\ view.filled = q
    BY <2>2 DEF NothingFails
  <2>4. exch' = [exch EXCEPT ![o] = view] /\ orders' = orders /\ pos' = Moves(o, q)
    BY <1>3, <2>1, <2>2 DEF SendAccepted, tables
  <2> QED
    BY <2>1, <2>3, <2>4, OneMoreFilled
<1>4. ASSUME NEW o \in OrderIds, ExchangeFill(o) PROVE PositionBacked'
  <2>1. Started(o) /\ exch[o].filled = 0 /\ orders[o].qty = 1
    <3>1. exch[o].filled \in 0..Qty /\ orders[o].qty \in 0..Qty /\ exch[o].filled < orders[o].qty
      BY <1>4 DEF ExchangeFill, IInv, TypeOK, ExchangeOrder, OrderRow, OrderFine
    <3>2. Started(o)
      BY <1>4 DEF ExchangeFill, IInv, OrderFine
    <3> QED
      BY <3>1, <3>2 DEF NothingFails
  <2>2. PICK view : /\ view = [st |-> IF exch[o].filled + 1 < orders[o].qty THEN "live" ELSE "done",
                               filled |-> exch[o].filled + 1]
    OBVIOUS
  <2>3. exch' = [exch EXCEPT ![o] = view] /\ orders' = orders /\ pos' = Moves(o, 1)
    BY <1>4, <2>2 DEF ExchangeFill, tables
  <2>4. view.filled = 1 /\ 1 \in 0..1
    BY <2>1, <2>2
  <2> QED
    BY <2>1, <2>3, <2>4, OneMoreFilled
<1>5. ASSUME NEW o \in OrderIds, ExchangeExpire(o) PROVE PositionBacked'
  <2>1. \A p \in OrderIds : exch'[p].filled = exch[p].filled
    BY <1>5 DEF ExchangeExpire, IInv, TypeOK, ExchangeOrder
  <2>2. UNCHANGED <<orders, pos>>
    BY <1>5 DEF ExchangeExpire, tables
  <2>3. \A kind : FilledOrders(kind)' = FilledOrders(kind)
    BY <2>1, <2>2 DEF FilledOrders
  <2> QED
    BY <2>2, <2>3 DEF PositionBacked
<1>6. CASE CloseOutside
  <2>1. UNCHANGED <<orders, exch>> /\ pos' = 0 /\ pos \in Nat
    BY <1>6 DEF CloseOutside, tables, IInv, TypeOK
  <2>2. \A kind : FilledOrders(kind)' = FilledOrders(kind)
    BY <2>1 DEF FilledOrders
  <2>3. Cardinality(FilledOrders("open")) \in Nat /\ Cardinality(FilledOrders("close")) \in Nat
    BY Counting
  <2> QED
    BY <2>1, <2>2, <2>3 DEF PositionBacked
<1> QED
  BY <1>2, <1>3, <1>4, <1>5, <1>6, ExchangeWriters

LEMMA StatusKept ==
  ASSUME NothingFails, IInv, IInv', NeverGivenUp, \A w \in Workers : OwnOrder(w), [Next]_vars
  PROVE  NeverGivenUp'
<1> DEFINE Good == {"NEW", "FILLED", "PARTIALLY_FILLED"}
<1>1. \A o \in OrderIds : exch[o] \in ExchangeOrder /\ exch'[o] \in ExchangeOrder /\ orders[o] \in OrderRow
  BY DEF IInv, TypeOK
<1>2. \A o \in OrderIds : ~Started(o) => exch[o].st = "none" /\ exch[o].filled = 0
  BY DEF IInv, OrderFine
<1>3. CASE UNCHANGED exch
  <2>1. CASE orders' = orders
    BY <1>3, <2>1 DEF NeverGivenUp
  <2>2. ASSUME NEW w \in Workers, NEW o \in OrderIds,
               (\E type \in OrderTypes : PlaceOpen(w, o, type)) \/ PlaceClose(w, o)
        PROVE  NeverGivenUp'
    <3>1. exch'[o].st = "none" /\ \A p \in OrderIds : p # o => orders'[p] = orders[p]
      BY <1>2, <1>3, <2>2 DEF PlaceOpen, PlaceClose, IsNextId, Started, IInv, TypeOK
    <3>2. exch'[o].filled = 0
      BY <1>2, <1>3, <2>2 DEF PlaceOpen, PlaceClose, IsNextId, Started
    <3> QED
      BY <1>3, <3>1, <3>2 DEF NeverGivenUp
  <2>3. ASSUME NEW w \in Workers, RecordResponse(w) \/ SaveOrder(w)
        PROVE  NeverGivenUp'
    <3> DEFINE o == task[w].ord
               Over == exch[o].st = "done" /\ exch[o].filled = 0
    <3>1. PICK st : (st \in Good \/ Over) /\ orders' = [orders EXCEPT ![o].status = st]
      <4>1. StatusFor(o, task[w].qty) \in Good /\ "NEW" \in Good
        BY DEF StatusFor
      <4> HIDE DEF Good
      <4>2. CASE RecordResponse(w)
        <5>1. PICK st \in ResponseStatus(o, task[w].qty) : orders' = [orders EXCEPT ![o].status = st]
          BY <4>2 DEF RecordResponse
        <5>2. o \in OrderIds /\ task[w].qty \in Nat /\ orders[o].qty \in 0..Qty
          BY <1>1, <4>2 DEF RecordResponse, At, IInv, TypeOK, TaskFine, OnOrder, Task, OrderRow
        <5>3. st \in Good \/ (exch[o].st = "done" /\ exch[o].filled = task[w].qty /\ task[w].qty < orders[o].qty)
          BY <4>1, <5>1 DEF ResponseStatus
        <5>4. st \in Good \/ Over
          BY <5>2, <5>3 DEF NothingFails
        <5> QED
          BY <5>1, <5>4
      <4>3. CASE SaveOrder(w)
        <5>1. orders' = [orders EXCEPT ![o].status = StatusFor(o, task[w].qty)]
          BY <4>3 DEF SaveOrder
        <5> QED
          BY <4>1, <5>1
      <4> QED
        BY <2>3, <4>2, <4>3
    <3> HIDE DEF Good, o
    <3>2. \A p \in OrderIds : /\ orders'[p].kind = orders[p].kind
                              /\ orders'[p].status = orders[p].status \/ (p = o /\ orders'[p].status = st)
      BY <1>1, <3>1 DEF OrderRow, IInv, TypeOK
    <3>3. \A p \in OrderIds : \/ orders'[p].status \in Good \/ orders'[p].status = orders[p].status
                              \/ exch[p].st = "done" /\ exch[p].filled = 0
      BY <3>1, <3>2
    <3> QED
      BY <1>3, <3>2, <3>3 DEF NeverGivenUp, Good
  <2>4. ASSUME NEW w \in Workers, SaveFailed(w) PROVE NeverGivenUp'
    <3>1. exch[task[w].ord].st = "none" /\ orders' = [orders EXCEPT ![task[w].ord].status = "FAILED"]
      BY <2>4 DEF SaveFailed, At, OwnOrder
    <3>2. \A o \in OrderIds : o # task[w].ord => orders'[o] = orders[o]
      BY <3>1 DEF IInv, TypeOK
    <3> QED
      BY <1>3, <3>1, <3>2 DEF NeverGivenUp
  <2> QED
    BY <2>1, <2>2, <2>3, <2>4, OrderWriters
<1>4. ASSUME NEW w \in Workers, NEW q \in 0..Qty, NEW resp \in {"ok", "error", "reduceOnly"},
             SendAccepted(w, q, resp)
      PROVE  NeverGivenUp'
  <2>1. PICK o : /\ o = task[w].ord /\ orders[o].status = "NEW" /\ orders' = orders
                 /\ \E st \in {"live", "done"} : exch' = [exch EXCEPT ![o] = [st |-> st, filled |-> q]]
    BY <1>4 DEF SendAccepted, At, OwnOrder, tables
  <2>2. \A p \in OrderIds : p # o => exch'[p] = exch[p]
    BY <2>1 DEF IInv, TypeOK
  <2>3. o \in OrderIds => exch'[o].st # "none"
    BY <2>1 DEF IInv, TypeOK
  <2> QED
    BY <2>1, <2>2, <2>3 DEF NeverGivenUp
<1>5. ASSUME NEW o \in OrderIds, ExchangeFill(o) \/ ExchangeExpire(o) PROVE NeverGivenUp'
  <2>1. /\ orders' = orders /\ exch[o].st = "live"
        /\ \A p \in OrderIds : p # o => exch'[p] = exch[p]
    BY <1>5 DEF ExchangeFill, ExchangeExpire, tables, IInv, TypeOK
  <2>2. exch'[o].st \in {"live", "done"}
    BY <1>1, <1>5 DEF ExchangeFill, ExchangeExpire, IInv, TypeOK, ExchangeOrder
  <2> QED
    BY <2>1, <2>2 DEF NeverGivenUp
<1>6. CASE CloseOutside
  BY <1>3, <1>6 DEF CloseOutside
<1> QED
  BY <1>3, <1>4, <1>5, <1>6, ExchangeWriters

\* How a task comes to a step on its way: it takes an order that did not exist, or goes on
\* with the one it has.
Took(w, t) ==
  /\ w \in Workers /\ task' = [task EXCEPT ![w] = t]
  /\ \/ t.pc \notin OnWay
     \/ /\ t.pc = "send" /\ t.ord \in OrderIds /\ ~Started(t.ord)
        /\ (orders[t.ord].status = "NEW")'
     \/ /\ t.pc \in OnWay \ {"send"} /\ task[w].pc \in OnWay /\ t.ord = task[w].ord
        /\ t.pc \in {"recover", "fail"} => /\ task[w].pc \in {"send", "recover", "fail"}
                                           /\ UNCHANGED exch

LEMMA FinishedTook ==
  ASSUME NEW w \in Workers, Finish(w) \/ task' = [task EXCEPT ![w] = Idle]
  PROVE  \E t : Took(w, t)
<1>1. Idle.pc \notin OnWay
  BY DEF Idle, OnWay
<1>2. Finished(w).pc \notin OnWay
  <2>1. CASE w \in Placers
    BY <1>1, <2>1, LedgerAssumption DEF Finished
  <2>2. CASE w \notin Placers /\ w \in Starters
    BY <2>2 DEF Finished, Idle, OnWay
  <2>3. CASE w \notin Placers /\ w \notin Starters
    BY <2>3 DEF Finished, Idle, OnWay
  <2> QED
    BY <2>1, <2>2, <2>3
<1> QED
  BY <1>1, <1>2 DEF Finish, Took

LEMMA StepTook ==
  ASSUME NEW w \in Workers, NEW t, t.pc \notin OnWay, task' = [task EXCEPT ![w] = t]
  PROVE  \E u : Took(w, u)
BY DEF Took

LEMMA GoTook ==
  ASSUME TypeOK, NEW w \in Workers, NEW step \in Steps \ OnWay, Go(w, step)
  PROVE  \E t : Took(w, t)
<1>1. PICK t : t = [task[w] EXCEPT !.pc = step]
  OBVIOUS
<1>2. t.pc = step /\ task' = [task EXCEPT ![w] = t]
  BY <1>1 DEF Go, TypeOK, Task
<1> QED
  BY <1>2 DEF Took

LEMMA StartTook ==
  ASSUME IInv, NEW w \in Workers, Start(w)
  PROVE  \E t : Took(w, t)
<1>1. ASSUME NEW o \in OrderIds, NEW type \in OrderTypes, PlaceOpen(w, o, type)
      PROVE  \E t : Took(w, t)
  <2>1. PICK t : t = [Idle EXCEPT !.pc = "send", !.ord = o]
    OBVIOUS
  <2>2. t.pc = "send" /\ t.ord = o
    BY <2>1 DEF Idle
  <2>3. ~Started(o) /\ orders'[o].status = "NEW" /\ task' = [task EXCEPT ![w] = t]
    BY <1>1, <2>1 DEF PlaceOpen, IsNextId, Started, IInv, TypeOK
  <2> QED
    BY <2>2, <2>3 DEF Took
<1>2. ASSUME NEW l \in LotIds, Decide(w, l) \/ Request(w, l) PROVE \E t : Took(w, t)
  <2>1. PICK t : t = [Idle EXCEPT !.pc = "decided", !.lot = l]
    OBVIOUS
  <2>2. t.pc = "decided" /\ task' = [task EXCEPT ![w] = t]
    BY <1>2, <2>1 DEF Decide, Request, Idle
  <2> QED
    BY <2>2, StepTook DEF OnWay
<1>3. CASE SyncBegin(w) \/ RepairBegin(w)
  <2>1. \/ \E todo : task' = [task EXCEPT ![w] = [Idle EXCEPT !.pc = "readFills", !.todo = todo]]
        \/ \E todo : task' = [task EXCEPT ![w] = [Idle EXCEPT !.pc = "next", !.todo = todo]]
    BY <1>3 DEF SyncBegin, RepairBegin
  <2>2. ASSUME NEW step \in {"readFills", "next"}, NEW todo,
               task' = [task EXCEPT ![w] = [Idle EXCEPT !.pc = step, !.todo = todo]]
        PROVE  \E t : Took(w, t)
    <3>1. PICK t : t = [Idle EXCEPT !.pc = step, !.todo = todo]
      OBVIOUS
    <3>2. t.pc = step
      BY <3>1 DEF Idle
    <3> QED
      BY <2>2, <3>1, <3>2, StepTook DEF OnWay
  <2> QED
    BY <2>1, <2>2
<1>4. CASE StartInstance(w)
  BY <1>4, GoTook DEF StartInstance, Steps, OnWay, IInv
<1> QED
  BY <1>1, <1>2, <1>3, <1>4 DEF Start

LEMMA ContinueTook ==
  ASSUME NothingFails, IInv, NEW w \in Workers, Continue(w)
  PROVE  \E t : Took(w, t)
<1> DEFINE P == \E t : Took(w, t)
<1>1. TypeOK /\ task[w] \in Task
  BY DEF IInv, TypeOK
<1>2. CASE CheckLot(w)
  BY <1>1, <1>2, FinishedTook, GoTook DEF CheckLot, Steps, OnWay
<1>3. ASSUME NEW o \in OrderIds, PlaceClose(w, o) PROVE P
  <2>1. PICK t : t = [task[w] EXCEPT !.pc = "send", !.ord = o]
    OBVIOUS
  <2>2. t.pc = "send" /\ t.ord = o
    BY <1>1, <2>1 DEF Task
  <2>3. ~Started(o) /\ orders'[o].status = "NEW" /\ task' = [task EXCEPT ![w] = t]
    BY <1>3, <2>1 DEF PlaceClose, IsNextId, Started, IInv, TypeOK
  <2> QED
    BY <2>2, <2>3 DEF Took
<1>4. ASSUME NEW q \in 0..Qty, NEW resp \in {"ok", "error", "reduceOnly"}, SendAccepted(w, q, resp)
      PROVE  P
  <2>1. resp = "ok" /\ task[w].pc = "send"
    BY <1>4 DEF SendAccepted, At, NothingFails
  <2>2. PICK t : t = [task[w] EXCEPT !.pc = "record", !.qty = q, !.resp = resp]
    OBVIOUS
  <2>3. t.pc = "record" /\ t.ord = task[w].ord /\ task' = [task EXCEPT ![w] = t]
    BY <1>1, <1>4, <2>1, <2>2 DEF SendAccepted, Task
  <2> QED
    BY <2>1, <2>3 DEF Took, OnWay
<1>5. CASE SendRefused(w)
  <2>1. PICK t, resp : /\ t = [task[w] EXCEPT !.pc = "recover", !.resp = resp]
                       /\ task' = [task EXCEPT ![w] = t]
    BY <1>5 DEF SendRefused
  <2>2. t.pc = "recover" /\ t.ord = task[w].ord /\ task[w].pc = "send" /\ exch' = exch
    BY <1>1, <1>5, <2>1 DEF SendRefused, At, Task, exchange
  <2> QED
    BY <2>1, <2>2 DEF Took, OnWay
<1>6. ASSUME NEW step \in {"confirm", "fail"}, Go(w, step), task[w].pc \in OnWay,
             step = "fail" => task[w].pc = "recover" /\ exch' = exch
      PROVE  P
  <2>1. PICK t : t = [task[w] EXCEPT !.pc = step]
    OBVIOUS
  <2>2. t.pc = step /\ t.ord = task[w].ord /\ task' = [task EXCEPT ![w] = t]
    BY <1>1, <1>6, <2>1 DEF Go, Task
  <2> QED
    BY <1>6, <2>2 DEF Took, OnWay
<1>7. CASE RecordResponse(w)
  BY <1>1, <1>6, <1>7, FinishedTook, GoTook DEF RecordResponse, At, Steps, OnWay
<1>8. CASE ConfirmNothing(w)
  BY <1>6, <1>8, FinishedTook DEF ConfirmNothing, At, OnWay, exchange
<1>9. CASE ConfirmFound(w)
  <2>1. PICK t : t = [task[w] EXCEPT !.pc = "saveOrder", !.qty = exch[task[w].ord].filled]
    OBVIOUS
  <2>2. t.pc = "saveOrder" /\ task' = [task EXCEPT ![w] = t]
    BY <1>1, <1>9, <2>1 DEF ConfirmFound, Task
  <2> QED
    BY <2>2, StepTook DEF OnWay
<1>10. CASE SaveOrder(w) \/ SaveFill(w) \/ SaveFailed(w) \/ ReadPositions(w) \/ LotFind(w) \/ LotGet(w)
  BY <1>1, <1>10, FinishedTook, GoTook
  DEF SaveOrder, SaveFill, SaveFailed, ReadPositions, LotFind, LotGet, Steps, OnWay
<1>11. CASE ArchiveRead(w) \/ LotInsert(w)
  <2>1. Finish(w) \/ \E step \in {"archiveSave", "attach"} : \E r, l :
                       task' \in {[task EXCEPT ![w].pc = step, ![w].read = r],
                                  [task EXCEPT ![w].pc = step, ![w].lot = l]}
    BY <1>11 DEF ArchiveRead, LotInsert
  <2>2. ASSUME NEW step \in {"archiveSave", "attach"}, NEW r, NEW l,
               task' \in {[task EXCEPT ![w].pc = step, ![w].read = r],
                          [task EXCEPT ![w].pc = step, ![w].lot = l]}
        PROVE  P
    <3>1. PICK t : /\ t \in {[task[w] EXCEPT !.pc = step, !.read = r],
                             [task[w] EXCEPT !.pc = step, !.lot = l]}
                   /\ task' = [task EXCEPT ![w] = t]
      BY <2>2
    <3>2. t.pc = step
      BY <1>1, <3>1 DEF Task
    <3> QED
      BY <3>1, <3>2, StepTook DEF OnWay
  <2> QED
    BY <2>1, <2>2, FinishedTook
<1>12. CASE ArchiveSave(w) \/ ClaimSave(w) \/ LotAttach(w) \/ LotClose(w) \/ RoundDone(w)
  BY <1>12, FinishedTook DEF ArchiveSave, ClaimSave, LotAttach, LotClose, RoundDone
<1>13. CASE ClaimRead(w)
  <2>1. PICK S : task' = [task EXCEPT ![w] = IF S = {} THEN Idle
                                            ELSE [Idle EXCEPT !.pc = "claimSave", !.read = S]]
    BY <1>13 DEF ClaimRead
  <2>2. PICK t : t = IF S = {} THEN Idle ELSE [Idle EXCEPT !.pc = "claimSave", !.read = S]
    OBVIOUS
  <2>3. t.pc \in {"idle", "claimSave"}
    BY <2>2 DEF Idle
  <2> QED
    BY <2>1, <2>2, <2>3, StepTook DEF OnWay
<1>14. CASE SyncReadFills(w)
  <2>1. PICK t, todo : /\ t = [task[w] EXCEPT !.pc = "next", !.todo = todo]
                       /\ task' = [task EXCEPT ![w] = t]
    BY <1>14 DEF SyncReadFills
  <2>2. t.pc = "next"
    BY <1>1, <2>1 DEF Task
  <2> QED
    BY <2>1, <2>2, StepTook DEF OnWay
<1>15. ASSUME NEW o \in OrderIds, SyncFound(w, o) \/ SyncSkip(w, o) \/ RepairCheck(w, o) PROVE P
  <2>1. \/ \E step \in {"saveFill", "lotFind"} : \E q :
             task' = [task EXCEPT ![w].pc = step, ![w].ord = o, ![w].qty = q]
        \/ \E todo : task' = [task EXCEPT ![w].todo = todo]
    BY <1>15 DEF SyncFound, SyncSkip, RepairCheck
  <2>2. ASSUME NEW step \in {"saveFill", "lotFind"}, NEW q,
               task' = [task EXCEPT ![w].pc = step, ![w].ord = o, ![w].qty = q]
        PROVE  P
    <3>1. PICK t : t = [task[w] EXCEPT !.pc = step, !.ord = o, !.qty = q]
      OBVIOUS
    <3>2. t.pc = step
      BY <1>1, <3>1 DEF Task
    <3>3. task' = [task EXCEPT ![w] = t]
      BY <2>2, <3>1
    <3>4. t.pc \in {"next", "saveFill", "lotFind"}
      BY <2>2, <3>2
    <3> QED
      BY <3>3, <3>4, StepTook DEF OnWay
  <2>3. ASSUME NEW todo, task' = [task EXCEPT ![w].todo = todo]
        PROVE  P
    <3>1. PICK t : t = [task[w] EXCEPT !.todo = todo]
      OBVIOUS
    <3>2. task[w].pc = "next"
      BY <1>15 DEF SyncFound, SyncSkip, RepairCheck, At
    <3>3. t.pc = "next"
      BY <1>1, <3>1, <3>2 DEF Task
    <3>4. task' = [task EXCEPT ![w] = t]
      BY <2>3, <3>1
    <3>5. t.pc \in {"next", "saveFill", "lotFind"}
      BY <3>3
    <3> QED
      BY <3>4, <3>5, StepTook DEF OnWay
  <2> QED
    BY <2>1, <2>2, <2>3
<1> QED
  BY <1>2, <1>3, <1>4, <1>5, <1>7, <1>8, <1>9, <1>10, <1>11, <1>12, <1>13, <1>14, <1>15 DEF Continue

LEMMA SomeoneTook ==
  ASSUME NothingFails, IInv, [Next]_vars
  PROVE  UNCHANGED <<task, orders>> \/ \E w, t : Took(w, t)
<1>1. ~Crash
  BY DEF Crash, NothingFails, IInv, TypeOK
<1>2. CASE (\E o \in OrderIds : ExchangeFill(o) \/ ExchangeExpire(o)) \/ CloseOutside \/ UNCHANGED vars
  BY <1>2 DEF ExchangeFill, ExchangeExpire, CloseOutside, vars, tables
<1> QED
  BY <1>1, <1>2, StartTook, ContinueTook DEF Next

\* An order under way belongs to one task, and nobody else decides what becomes of it.
LEMMA OwnKept ==
  ASSUME NothingFails, IInv, IInv', NeverGivenUp, \A w \in Workers : OwnOrder(w), [Next]_vars
  PROVE  \A w \in Workers : OwnOrder(w)'
<1> DEFINE Alone(v, w) == task[v].pc \in OnWay /\ task[w].pc \in OnWay /\ task[v].ord = task[w].ord => v = w
<1>1. \A v \in Workers : task[v].pc \in OnWay => task[v].ord \in OrderIds /\ Started(task[v].ord)
  BY DEF IInv, TaskFine, OnOrder, OnWay
<1>2. \A v, w \in Workers : Alone(v, w)
  BY DEF OwnOrder
<1>3. UNCHANGED <<task, orders>> \/ \E w, t : Took(w, t)
  BY SomeoneTook
<1>4. \A v, w \in Workers : Alone(v, w)'
  <2>1. CASE UNCHANGED task
    BY <1>2, <2>1
  <2>2. ASSUME NEW u, NEW t, Took(u, t) PROVE \A v, w \in Workers : Alone(v, w)'
    <3>1. u \in Workers /\ \A v \in Workers : task'[v] = IF v = u THEN t ELSE task[v]
      BY <2>2 DEF Took, IInv, TypeOK
    <3>2. \A v \in Workers \ {u} : task[v].pc \in OnWay /\ t.pc \in OnWay => task[v].ord # t.ord
      <4>1. CASE t.pc = "send" /\ ~Started(t.ord)
        BY <1>1, <4>1
      <4>2. CASE task[u].pc \in OnWay /\ t.ord = task[u].ord
        BY <1>2, <3>1, <4>2
      <4> QED
        BY <2>2, <4>1, <4>2 DEF Took
    <3> QED
      BY <1>2, <3>1, <3>2
  <2> QED
    BY <1>3, <2>1, <2>2
<1>5. ASSUME NEW w \in Workers, task'[w].pc = "send" PROVE orders'[task'[w].ord].status = "NEW"
  <2>1. CASE task'[w] # task[w]
    <3>1. PICK u, t : Took(u, t)
      BY <1>3, <2>1
    <3>2. u = w /\ task'[w] = t
      BY <2>1, <3>1 DEF Took, IInv, TypeOK
    <3> QED
      BY <1>5, <3>1, <3>2 DEF Took, OnWay
  <2>2. CASE task'[w] = task[w]
    <3> DEFINE o == task[w].ord
    <3>1. /\ o \in OrderIds /\ Started(o) /\ orders[o].status = "NEW" /\ task[w].pc = "send"
          /\ exch[o].filled = 0
      BY <1>1, <1>5, <2>2 DEF OwnOrder, OnWay, IInv, TaskFine
    <3> HIDE DEF o
    <3>2. ASSUME NEW u \in Workers, RecordResponse(u) \/ SaveOrder(u) \/ SaveFailed(u)
          PROVE  task[u].ord # o
      <4>1. CASE RecordResponse(u) \/ SaveFailed(u)
        <5>1. task[u].pc \in {"record", "fail"}
          BY <4>1 DEF RecordResponse, SaveFailed, At
        <5>2. u # w /\ task[u].pc \in OnWay /\ task[w].pc \in OnWay
          BY <3>1, <5>1 DEF OnWay
        <5> QED
          BY <1>2, <5>2 DEF o
      <4>2. CASE SaveOrder(u)
        <5>1. TaskFine(u, task[u]) /\ task[u].pc = "saveOrder" /\ task[u] \in Task
          BY <4>2 DEF SaveOrder, At, IInv, TypeOK
        <5>2. 0 < task[u].qty /\ task[u].qty <= exch[task[u].ord].filled /\ task[u].qty \in 0..Qty
          BY <5>1 DEF TaskFine, WithFill, Task
        <5> QED
          BY <3>1, <5>2, LedgerAssumption
      <4> QED
        BY <3>2, <4>1, <4>2
    <3>3. orders'[o] = orders[o]
      <4>1. ASSUME NEW u \in Workers, NEW p \in OrderIds,
                   (\E type \in OrderTypes : PlaceOpen(u, p, type)) \/ PlaceClose(u, p)
            PROVE  orders'[o] = orders[o]
        BY <3>1, <4>1 DEF PlaceOpen, PlaceClose, IsNextId, Started, IInv, TypeOK
      <4>2. ASSUME NEW u \in Workers, RecordResponse(u) \/ SaveOrder(u) \/ SaveFailed(u)
            PROVE  orders'[o] = orders[o]
        <5>1. PICK st : orders' = [orders EXCEPT ![task[u].ord].status = st]
          BY <4>2 DEF RecordResponse, SaveOrder, SaveFailed
        <5> QED
          BY <3>1, <3>2, <4>2, <5>1 DEF IInv, TypeOK
      <4> QED
        BY <4>1, <4>2, OrderWriters
    <3> QED
      BY <2>2, <3>1, <3>3 DEF o
  <2> QED
    BY <2>1, <2>2
<1>6. ASSUME NEW w \in Workers, task'[w].pc \in {"recover", "fail"}
      PROVE  exch'[task'[w].ord].st = "none"
  <2>1. CASE task'[w] # task[w]
    <3>1. PICK u, t : Took(u, t)
      BY <1>3, <2>1
    <3>2. u = w /\ task'[w] = t
      BY <2>1, <3>1 DEF Took, IInv, TypeOK
    <3>3. task[w].pc \in {"send", "recover", "fail"} /\ t.ord = task[w].ord /\ exch' = exch
      BY <1>6, <3>1, <3>2 DEF Took, OnWay
    <3>4. exch[task[w].ord].st = "none"
      BY <3>3 DEF OwnOrder, IInv, TaskFine
    <3> QED
      BY <3>2, <3>3, <3>4
  <2>2. CASE task'[w] = task[w]
    <3> DEFINE o == task[w].ord
    <3>1. o \in OrderIds /\ exch[o].st = "none" /\ task[w].pc \in {"recover", "fail"}
      BY <1>1, <1>6, <2>2 DEF OwnOrder, OnWay
    <3> HIDE DEF o
    <3>2. exch'[o] = exch[o]
      <4>1. ASSUME NEW u \in Workers, NEW q \in 0..Qty, NEW resp \in {"ok", "error", "reduceOnly"},
                   SendAccepted(u, q, resp)
            PROVE  exch'[o] = exch[o]
        <5>1. u # w /\ task[u].pc \in OnWay /\ task[w].pc \in OnWay
          BY <3>1, <4>1 DEF SendAccepted, At, OnWay
        <5>2. task[u].ord # o
          BY <1>2, <5>1 DEF o
        <5> QED
          BY <3>1, <4>1, <5>2 DEF SendAccepted, IInv, TypeOK
      <4>2. ASSUME NEW p \in OrderIds, ExchangeFill(p) \/ ExchangeExpire(p)
            PROVE  exch'[o] = exch[o]
        BY <3>1, <4>2 DEF ExchangeFill, ExchangeExpire, IInv, TypeOK
      <4>3. CloseOutside => exch'[o] = exch[o]
        BY DEF CloseOutside
      <4> QED
        BY <4>1, <4>2, <4>3, ExchangeWriters
    <3> QED
      BY <2>2, <3>1, <3>2 DEF o
  <2> QED
    BY <2>1, <2>2
<1> QED
  BY <1>4, <1>5, <1>6 DEF OwnOrder

\* A task that is at the fill of an opening order stays at it until the lot exists.
LEMMA StaysAtIt ==
  ASSUME NothingFails, IInv, [Next]_vars, NEW o \in OrderIds, orders[o].kind = "open",
         NEW w \in Workers, Accounting(w, o)
  PROVE  Accounting(w, o)' \/ LotsOf(o)' # {}
<1> USE DEF Accounting
<1>1. TypeOK /\ task[w] \in Task /\ TaskFine(w, task[w]) /\ Started(o)
  BY DEF IInv, TypeOK, TaskFine, OnOrder
<1>2. task[w].pc \in {"saveOrder", "saveFill", "lotFind", "lotInsert"} /\ task[w].ord = o
  OBVIOUS
<1>3. CASE task'[w] = task[w]
  BY <1>3
<1>4. CASE task'[w] # task[w]
  <2>1. ~Crash
    BY DEF Crash, NothingFails, IInv, TypeOK
  <2>2. PICK v \in Workers : Start(v) \/ Continue(v)
    BY <1>4, <2>1 DEF Next, ExchangeFill, ExchangeExpire, CloseOutside, vars
  <2>3. v = w
    <3>1. \E t : Took(v, t)
      BY <2>2, StartTook, ContinueTook
    <3> QED
      BY <1>1, <1>4, <3>1 DEF Took, TypeOK
  <2>4. ~Start(w)
    BY <1>2 DEF Start, PlaceOpen, Decide, Request, SyncBegin, RepairBegin, StartInstance, At
  <2>5. SaveOrder(w) \/ SaveFill(w) \/ LotFind(w) \/ LotInsert(w)
    BY <1>2, <2>2, <2>3, <2>4
    DEF Continue, CheckLot, PlaceClose, SendAccepted, SendRefused, RecordResponse, ConfirmFound,
        ConfirmNothing, SaveFailed, ReadPositions, ArchiveRead, ArchiveSave, ClaimRead, ClaimSave,
        LotAttach, LotGet, LotClose, SyncReadFills, RoundDone, SyncFound, SyncSkip, RepairCheck, At
  <2>6. CASE SaveOrder(w) \/ SaveFill(w)
    <3>1. \E step \in {"saveFill", "saveOrder", "lotFind"} : Go(w, step)
      BY <1>2, <2>6 DEF SaveOrder, SaveFill
    <3> QED
      BY <1>1, <1>2, <3>1 DEF Go, TypeOK, Task
  <2>7. CASE LotFind(w)
    <3>1. CASE LotsOf(o) # {}
      BY <1>1, <3>1, KindsStay
    <3>2. CASE LotsOf(o) = {}
      <4>1. Go(w, "lotInsert")
        BY <1>2, <2>7, <3>2 DEF LotFind
      <4> QED
        BY <1>1, <1>2, <4>1 DEF Go, TypeOK, Task
    <3> QED
      BY <3>1, <3>2
  <2>8. CASE LotInsert(w)
    <3>1. CASE LotsOf(o) # {}
      BY <1>1, <3>1, KindsStay
    <3>2. CASE LotsOf(o) = {}
      <4>1. <<o, w>> \in LotIds /\ lots'[<<o, w>>].st = "OPEN"
        BY <1>1, <1>2, <2>8, <3>2 DEF LotInsert, TypeOK, LotIds
      <4> QED
        BY <4>1 DEF LotsOf
    <3> QED
      BY <3>1, <3>2
  <2> QED
    BY <2>5, <2>6, <2>7, <2>8
<1> QED
  BY <1>3, <1>4

\* Only saveFill writes a fill row, and the task that does is at it.
LEMMA FillsKept ==
  ASSUME NothingFails, IInv, IInv', FillsLead, [Next]_vars
  PROVE  FillsLead'
<1> SUFFICES ASSUME NEW o \in OrderIds, orders'[o].kind = "open", HasFill(o)', LotsOf(o)' = {}
             PROVE  \E w \in Workers : Accounting(w, o)'
  BY DEF FillsLead
<1>1. CASE HasFill(o)
  <2>1. Started(o)
    <3>1. PICK f \in fills : f.order = o
      BY <1>1 DEF HasFill
    <3>2. f.qty \in 1..Qty /\ f.qty <= exch[o].filled
      BY <3>1 DEF IInv, TypeOK, FillRow, BackedByExchange
    <3> QED
      BY <3>2, LedgerAssumption DEF IInv, OrderFine
  <2>2. orders[o].kind = "open" /\ LotsOf(o) = {}
    BY <2>1, KindsStay
  <2>3. PICK w \in Workers : Accounting(w, o)
    BY <1>1, <2>2 DEF FillsLead
  <2> QED
    BY <2>2, <2>3, StaysAtIt
<1>2. CASE ~HasFill(o)
  <2>1. fills' # fills
    BY <1>2 DEF HasFill
  <2>2. PICK w \in Workers : SaveFill(w)
    <3>1. ~\E w \in Workers : Start(w)
      BY <2>1 DEF Start, PlaceOpen, Decide, Request, SyncBegin, RepairBegin, StartInstance, tables
    <3>2. ASSUME NEW w \in Workers, Continue(w)
          PROVE  SaveFill(w)
      BY <2>1, <3>2
      DEF Continue, CheckLot, PlaceClose, SendAccepted, SendRefused, RecordResponse,
          ConfirmFound, ConfirmNothing, SaveOrder, SaveFailed, ReadPositions,
          ArchiveRead, ArchiveSave, ClaimRead, ClaimSave, LotFind, LotInsert, LotAttach, LotGet,
          LotClose, SyncReadFills, RoundDone, SyncFound, SyncSkip, RepairCheck, tables
    <3>3. ~((\E p \in OrderIds : ExchangeFill(p) \/ ExchangeExpire(p)) \/ CloseOutside \/ Crash
            \/ UNCHANGED vars)
      BY <2>1 DEF ExchangeFill, ExchangeExpire, CloseOutside, Crash, vars, tables
    <3> QED
      BY <3>1, <3>2, <3>3 DEF Next
  <2>3. task[w].ord = o /\ task[w].pc = "saveFill" /\ orders' = orders
    BY <1>2, <2>2 DEF SaveFill, HasFill, At
  <2>4. Accounting(w, o) /\ orders[o].kind = "open"
    BY <2>3 DEF Accounting
  <2> QED
    BY <2>4, StaysAtIt
<1> QED
  BY <1>1, <1>2

LEMMA KeptInitially == NothingFails /\ Init => Kept
<1> SUFFICES ASSUME NothingFails, Init PROVE Kept
  OBVIOUS
<1>1. \A kind : FilledOrders(kind) = {}
  BY DEF Init, FilledOrders
<1>2. PositionBacked
  BY <1>1, FS_EmptySet DEF Init, PositionBacked
<1>3. NeverGivenUp /\ FillsLead
  BY DEF Init, NeverGivenUp, FillsLead, HasFill
<1>4. \A w \in Workers : OwnOrder(w)
  BY DEF Init, Idle, OwnOrder, OnWay
<1> QED
  BY <1>2, <1>3, <1>4 DEF Kept

LEMMA KeptStep == NothingFails /\ IInv /\ Kept /\ [Next]_vars => Kept'
<1> SUFFICES ASSUME NothingFails, IInv, Kept, [Next]_vars PROVE Kept'
  OBVIOUS
<1>1. IInv'
  BY NextIInv
<1> QED
  BY <1>1, PositionStep, StatusKept, OwnKept, FillsKept DEF Kept

\* While no response is lost and the process does not crash, and an order is filled as a
\* whole, whatever the exchange holds is in an open lot, was archived, or is the fill of
\* an order that a later round still looks at: for any number of orders, of requests,
\* ticks, syncs, repairs and starts in any order, and whether or not the index is unique.
THEOREM NothingUntracked == ASSUME NothingFails PROVE Spec => []NoUntrackedPosition
<1>1. Init => Kept
  BY KeptInitially
<1>2. IInv /\ Kept /\ [Next]_vars => Kept'
  BY KeptStep
<1>3. IInv /\ Kept => NoUntrackedPosition
  BY KeptIsTracked
<1> QED
  BY <1>1, <1>2, <1>3, Invariance, PTL DEF Spec
=============================================================================
