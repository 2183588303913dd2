--------------------------- MODULE StopOrdersProofs ---------------------------
(***************************************************************************)
(* Proofs about StopOrders, for any number of orders, requests, rounds and *)
(* crashes, and with lost responses too: its state is well typed, and its  *)
(* rows tell the truth about the exchange.  While no response is lost, a   *)
(* live order is open here.                                                *)
(*                                                                         *)
(* RowsTellTruth is not inductive: a task saves what it learnt from the    *)
(* exchange some steps later, so the invariant says what each task in the  *)
(* middle of such a step still knows, and that an order without a row, and *)
(* the one the tick is about to send, have not reached the exchange.       *)
(***************************************************************************)
EXTENDS StopOrders, TLAPS

WithOrder == {"cancelLocal", "cancelSend", "saveCanceled", "saveError",
              "send", "record", "fail", "recordFill"}
OfTicker  == {"strategy", "send", "record", "fail"}
Steps     == {"idle", "next", "strategy"} \cup WithOrder

\* What a task w at step pc with order o relies on, given the rows and the
\* exchange's orders.
Fine(w, pc, o, rows, ex) ==
  /\ pc \in WithOrder => o \in OrderIds /\ rows[o].status # "NONE"
  /\ pc \in OfTicker => w = Ticker
  /\ pc = "saveCanceled" => ex[o] = "canceled"
  /\ pc = "recordFill" => ex[o] = "filled"
  /\ pc = "send" => ex[o] = "none"

\* What the row of order o says, given the exchange's orders.
RowFine(o) ==
  /\ orders[o].status = "NONE" => exch[o] = "none"
  /\ orders[o].status = "CANCELED" /\ orders[o].known => exch[o] = "canceled"
  /\ orders[o].status = "FILLED" => exch[o] = "filled"

TablesOK ==
  /\ orders \in [OrderIds -> Row]
  /\ recorded \subseteq OrderIds
  /\ exch \in [OrderIds -> {"none", "live", "filled", "canceled"}]

\* The inductive invariant.
IInv ==
  /\ TypeOK
  /\ \A o \in OrderIds : RowFine(o)
  /\ \A w \in Workers : Fine(w, task[w].pc, task[w].ord, orders, exch)

\* What no step undoes: a row stays a row, and what has ended at the exchange
\* has ended.
Steady ==
  \A o \in OrderIds :
    /\ orders[o].status # "NONE" => orders'[o].status # "NONE"
    /\ exch[o] \in {"canceled", "filled"} => exch'[o] = exch[o]

\* An order that has not reached the exchange has not reached it now.
NothingSent == \A o \in OrderIds : exch[o] = "none" => exch'[o] = "none"

\* The parts of the domain that the proofs use.
LEMMA Domain ==
  /\ Ticker \in Cancelers /\ Cancelers \subseteq Workers /\ Syncers \subseteq Workers
  /\ Ticker \notin Syncers /\ Ticker \in Workers
  /\ OrderIds \subseteq 0..MaxOrders /\ 0 \in 0..MaxOrders
BY StopOrdersAssumption DEF Workers, Cancelers, OrderIds

\* What the tables and the exchange do around them leaves tasks fine: whatever
\* they have learnt stays so, and only the tick sends the tick's order.
LEMMA OthersFine ==
  ASSUME NEW w \in Workers, NEW pc, NEW o, Fine(w, pc, o, orders, exch),
         Steady, w = Ticker => NothingSent
  PROVE  Fine(w, pc, o, orders', exch')
BY DEF Fine, Steady, NothingSent, WithOrder, OfTicker

\* Task w goes to step pc with order o and orders S to do.
LEMMA Frame ==
  ASSUME IInv, NEW w \in Workers, NEW pc \in Steps, NEW o \in 0..MaxOrders,
         NEW S \in SUBSET OrderIds, Do(w, pc, o, S),
         TablesOK', crashes' = crashes, Steady, NothingSent \/ w = Ticker,
         Fine(w, pc, o, orders', exch'), \A p \in OrderIds : RowFine(p)'
  PROVE  IInv'
<1>1. [pc |-> pc, ord |-> o, todo |-> S] \in Task
  BY DEF Task, Steps, WithOrder
<1>2. TypeOK'
  BY <1>1 DEF IInv, TypeOK, TablesOK, Do
<1>3. ASSUME NEW v \in Workers PROVE Fine(v, task[v].pc, task[v].ord, orders, exch)'
  <2>1. CASE v = w
    BY <2>1 DEF IInv, TypeOK, Do
  <2>2. CASE v # w
    <3>1. task'[v] = task[v] /\ Fine(v, task[v].pc, task[v].ord, orders, exch)
      BY <2>2 DEF IInv, TypeOK, Do
    <3>2. v = Ticker => NothingSent
      BY <2>2
    <3>3. Fine(v, task[v].pc, task[v].ord, orders', exch')
      BY <3>1, <3>2, OthersFine
    <3> QED
      BY <3>1, <3>3
  <2> QED
    BY <2>1, <2>2
<1> QED
  BY <1>2, <1>3 DEF IInv

\* ... and neither a row nor the exchange changes.
LEMMA TaskOnly ==
  ASSUME IInv, NEW w \in Workers, NEW pc \in Steps, NEW o \in 0..MaxOrders,
         NEW S \in SUBSET OrderIds, Do(w, pc, o, S),
         UNCHANGED <<orders, recorded, exch, crashes>>, Fine(w, pc, o, orders, exch)
  PROVE  IInv'
<1>1. TablesOK' /\ Steady /\ NothingSent
  BY DEF IInv, TypeOK, TablesOK, Steady, NothingSent
<1>2. Fine(w, pc, o, orders', exch') /\ \A p \in OrderIds : RowFine(p)'
  BY DEF IInv, RowFine
<1> QED
  BY <1>1, <1>2, Frame

\* ... and one row is saved, rightly: the exchange does not change.
LEMMA SavesRow ==
  ASSUME IInv, NEW w \in Workers, NEW pc \in Steps, NEW o \in 0..MaxOrders,
         NEW S \in SUBSET OrderIds, Do(w, pc, o, S),
         NEW p \in OrderIds, NEW r \in Row, orders' = [orders EXCEPT ![p] = r],
         recorded' \subseteq OrderIds, UNCHANGED <<exch, crashes>>,
         r.status # "NONE", Fine(w, pc, o, orders', exch),
         r.status = "CANCELED" /\ r.known => exch[p] = "canceled",
         r.status = "FILLED" => exch[p] = "filled"
  PROVE  IInv'
<1>1. TablesOK' /\ Steady /\ NothingSent
  BY DEF IInv, TypeOK, TablesOK, Steady, NothingSent
<1>2. \A q \in OrderIds : RowFine(q)'
  BY DEF IInv, TypeOK, RowFine
<1> QED
  BY <1>1, <1>2, Frame

\* Initially every task is idle and no order exists.
LEMMA InitInvariant == Init => IInv
<1> SUFFICES ASSUME Init PROVE IInv
  OBVIOUS
<1>1. Idle \in Task
  BY Domain DEF Idle, Task
<1>2. TypeOK
  BY <1>1, StopOrdersAssumption DEF Init, TypeOK, Row
<1>3. \A o \in OrderIds : RowFine(o)
  BY DEF Init, RowFine
<1>4. \A w \in Workers : Fine(w, task[w].pc, task[w].ord, orders, exch)
  BY DEF Init, Fine, Idle, WithOrder, OfTicker
<1> QED
  BY <1>2, <1>3, <1>4 DEF IInv

\* Every step keeps the invariant: one step of the proof per action.
LEMMA StepInvariant == IInv /\ [Next]_vars => IInv'
<1> SUFFICES ASSUME IInv, [Next]_vars
             PROVE  IInv'
  OBVIOUS
<1> USE Domain
<1>1. /\ orders \in [OrderIds -> Row] /\ recorded \subseteq OrderIds
      /\ exch \in [OrderIds -> {"none", "live", "filled", "canceled"}]
      /\ \A o \in OrderIds : RowFine(o)
  BY DEF IInv, TypeOK
<1>2. ASSUME NEW w \in Workers
      PROVE  /\ task[w].pc \in Steps /\ task[w].ord \in 0..MaxOrders
             /\ task[w].todo \in SUBSET OrderIds
             /\ Fine(w, task[w].pc, task[w].ord, orders, exch)
  BY DEF IInv, TypeOK, Task, Steps, WithOrder
<1>3. OpenOrders \in SUBSET OrderIds
  BY DEF OpenOrders
<1>4. ASSUME NEW w \in Cancelers, RequestCancel(w) PROVE IInv'
  BY <1>3, <1>4, TaskOnly DEF RequestCancel, Steps, Fine, WithOrder, OfTicker
<1>5. ASSUME NEW w \in Cancelers, NEW o \in OrderIds, CancelRead(w, o) PROVE IInv'
  <2>1. CASE orders[o].status # "NEW"
    BY <1>2, <1>5, <2>1, TaskOnly DEF CancelRead, Steps, Fine, WithOrder, OfTicker
  <2>2. CASE orders[o].status = "NEW"
    <3>1. PICK pc \in {"cancelSend", "cancelLocal"} : Do(w, pc, o, task[w].todo \ {o})
      BY <1>5, <2>2 DEF CancelRead
    <3> QED
      BY <1>2, <1>5, <2>2, <3>1, TaskOnly DEF CancelRead, Steps, Fine, WithOrder, OfTicker
  <2> QED
    BY <2>1, <2>2
<1>6. ASSUME NEW w \in Cancelers, CancelLocal(w) PROVE IInv'
  <2>1. task[w].ord \in OrderIds /\ [status |-> "CANCELED", known |-> FALSE] \in Row
    BY <1>2, <1>6 DEF CancelLocal, At, Fine, WithOrder, Row
  <2>2. Fine(w, "next", 0, orders', exch)
    BY DEF Fine, WithOrder, OfTicker
  <2> QED
    BY <1>1, <1>2, <1>6, <2>1, <2>2, SavesRow DEF CancelLocal, Put, Steps
<1>7. ASSUME NEW w \in Cancelers, CancelSend(w) PROVE IInv'
  <2> DEFINE o == task[w].ord
  <2>1. o \in OrderIds /\ orders[o].status # "NONE"
    BY <1>2, <1>7 DEF CancelSend, At, Fine, WithOrder
  <2>2. CASE exch[o] = "live" /\ exch' = [exch EXCEPT ![o] = "canceled"]
    <3>1. PICK pc \in {"saveCanceled", "saveError"} : Do(w, pc, o, task[w].todo)
      BY <1>7, <2>2 DEF CancelSend, Go
    <3>2. TablesOK' /\ Steady /\ NothingSent
      BY <1>1, <1>7, <2>2 DEF CancelSend, TablesOK, Steady, NothingSent
    <3>3. Fine(w, pc, o, orders', exch')
      BY <1>1, <1>7, <2>1, <2>2 DEF CancelSend, Fine, OfTicker
    <3>4. \A p \in OrderIds : RowFine(p)'
      BY <1>1, <1>7, <2>1, <2>2 DEF CancelSend, RowFine
    <3> QED
      BY <1>2, <1>7, <3>1, <3>2, <3>3, <3>4, Frame DEF CancelSend, Steps, WithOrder
  <2>3. CASE exch' = exch /\ Go(w, "saveError")
    BY <1>2, <1>7, <2>1, <2>3, TaskOnly DEF CancelSend, Go, Steps, Fine, WithOrder, OfTicker
  <2> QED
    BY <1>7, <2>2, <2>3 DEF CancelSend
<1>8. ASSUME NEW w \in Cancelers, SaveCanceled(w) PROVE IInv'
  <2>1. /\ task[w].ord \in OrderIds /\ exch[task[w].ord] = "canceled"
        /\ [status |-> "CANCELED", known |-> TRUE] \in Row
    BY <1>2, <1>8 DEF SaveCanceled, At, Fine, WithOrder, Row
  <2>2. Fine(w, "next", 0, orders', exch)
    BY DEF Fine, WithOrder, OfTicker
  <2> QED
    BY <1>1, <1>2, <1>8, <2>1, <2>2, SavesRow DEF SaveCanceled, Put, Steps
<1>9. ASSUME NEW w \in Cancelers, SaveError(w) PROVE IInv'
  <2>1. task[w].ord \in OrderIds /\ [status |-> "NEW", known |-> TRUE] \in Row
    BY <1>2, <1>9 DEF SaveError, At, Fine, WithOrder, Row
  <2>2. Fine(w, "next", 0, orders', exch)
    BY DEF Fine, WithOrder, OfTicker
  <2> QED
    BY <1>1, <1>2, <1>9, <2>1, <2>2, SavesRow DEF SaveError, Put, Steps
<1>10. ASSUME NEW w \in Cancelers, CancelDone(w) PROVE IInv'
  <2>1. PICK pc \in {"strategy", "idle"} : Do(w, pc, 0, {}) /\ (pc = "strategy" => w = Ticker)
    BY <1>10 DEF CancelDone
  <2> QED
    BY <1>10, <2>1, TaskOnly DEF CancelDone, Steps, Fine, WithOrder, OfTicker
<1>11. CASE TickBegin
  BY <1>3, <1>11, TaskOnly DEF TickBegin, Steps, Fine, WithOrder, OfTicker
<1>12. ASSUME NEW o \in OrderIds, PlaceStop(o) PROVE IInv'
  <2> DEFINE r == [orders[o] EXCEPT !.status = "NEW"]
  <2>1. r \in Row /\ r.status = "NEW" /\ orders' = [orders EXCEPT ![o] = r]
    BY <1>1, <1>12 DEF PlaceStop, Row
  <2>2. exch[o] = "none"
    BY <1>1, <1>12 DEF PlaceStop, RowFine
  <2>3. Fine(Ticker, "send", o, orders', exch)
    BY <1>1, <2>1, <2>2 DEF Fine
  <2>4. recorded' \subseteq OrderIds /\ UNCHANGED <<exch, crashes>> /\ Do(Ticker, "send", o, {})
    BY <1>1, <1>12 DEF PlaceStop
  <2>5. /\ Ticker \in Workers /\ "send" \in Steps /\ {} \in SUBSET OrderIds
        /\ o \in 0..MaxOrders
    BY DEF Steps, WithOrder
  <2> HIDE DEF r
  <2> QED
    BY <2>1, <2>2, <2>3, <2>4, <2>5, SavesRow
<1>13. CASE SendStop
  <2> DEFINE o == task[Ticker].ord
  <2>1. o \in OrderIds /\ orders[o].status # "NONE" /\ exch[o] = "none"
    BY <1>2, <1>13 DEF SendStop, At, Fine, WithOrder
  <2>2. PICK pc \in {"record", "fail"} : Do(Ticker, pc, o, task[Ticker].todo)
    BY <1>13 DEF SendStop, Go
  <2>3. exch' = exch \/ \E s \in {"live", "filled"} : exch' = [exch EXCEPT ![o] = s]
    BY <1>13 DEF SendStop
  <2>4. UNCHANGED <<orders, recorded, crashes>>
    BY <1>13 DEF SendStop
  <2>5. TablesOK' /\ Steady
    BY <1>1, <2>1, <2>3, <2>4 DEF TablesOK, Steady
  <2>6. Fine(Ticker, pc, o, orders', exch')
    BY <2>1, <2>4 DEF Fine
  <2>7. \A p \in OrderIds : RowFine(p)'
    <3> TAKE p \in OrderIds
    <3>1. p # o => exch'[p] = exch[p]
      BY <1>1, <2>3
    <3> QED
      BY <1>1, <2>1, <2>3, <2>4, <3>1 DEF RowFine
  <2> QED
    BY <1>2, <2>2, <2>4, <2>5, <2>6, <2>7, Frame DEF Steps, WithOrder
<1>14. CASE RecordStop
  <2> DEFINE o == task[Ticker].ord
  <2>1. o \in OrderIds
    BY <1>2, <1>14 DEF RecordStop, At, Fine, WithOrder
  <2>2. PICK s \in {"NEW", "FILLED"} :
          /\ orders' = [orders EXCEPT ![o] = [status |-> s, known |-> TRUE]]
          /\ s = "FILLED" => exch[o] = "filled"
    BY <1>14 DEF RecordStop
  <2>3. [status |-> s, known |-> TRUE] \in Row
    BY DEF Row
  <2>4. Fine(Ticker, "strategy", 0, orders', exch)
    BY DEF Fine, WithOrder
  <2> QED
    BY <1>1, <1>2, <1>14, <2>1, <2>2, <2>3, <2>4, SavesRow DEF RecordStop, Put, Steps
<1>15. CASE FailStop
  <2> DEFINE o == task[Ticker].ord
             r == [orders[o] EXCEPT !.status = "FAILED"]
  <2>1. o \in OrderIds
    BY <1>2, <1>15 DEF FailStop, At, Fine, WithOrder
  <2>2. r \in Row /\ r.status = "FAILED" /\ orders' = [orders EXCEPT ![o] = r]
    BY <1>1, <1>15, <2>1 DEF FailStop, Row
  <2>3. Fine(Ticker, "strategy", 0, orders', exch)
    BY DEF Fine, WithOrder
  <2> HIDE DEF r
  <2> QED
    BY <1>1, <1>2, <1>15, <2>1, <2>2, <2>3, SavesRow DEF FailStop, Put, Steps
<1>16. CASE TickDone
  BY <1>16, TaskOnly DEF TickDone, Rest, Steps, Fine, WithOrder, OfTicker
<1>17. ASSUME NEW w \in Syncers, NEW o \in OrderIds, SyncFound(w, o) PROVE IInv'
  BY <1>17, TaskOnly DEF SyncFound, Steps, Fine, WithOrder, OfTicker
<1>18. ASSUME NEW w \in Syncers, SyncSave(w) PROVE IInv'
  <2> DEFINE o == task[w].ord
             r == [orders[o] EXCEPT !.status = "FILLED"]
  <2>1. o \in OrderIds /\ exch[o] = "filled"
    BY <1>2, <1>18 DEF SyncSave, At, Fine, WithOrder
  <2>2. r \in Row /\ r.status = "FILLED" /\ orders' = [orders EXCEPT ![o] = r]
    BY <1>1, <1>18, <2>1 DEF SyncSave, Row
  <2>3. Fine(w, "idle", 0, orders', exch)
    BY DEF Fine, WithOrder, OfTicker
  <2>4. recorded' \subseteq OrderIds /\ UNCHANGED <<exch, crashes>> /\ Do(w, "idle", 0, {})
    BY <1>1, <1>18, <2>1 DEF SyncSave, Rest
  <2>5. w \in Workers /\ "idle" \in Steps /\ {} \in SUBSET OrderIds
    BY DEF Steps
  <2> HIDE DEF r
  <2> QED
    BY <2>1, <2>2, <2>3, <2>4, <2>5, SavesRow
<1>19. ASSUME NEW o \in OrderIds, Trigger(o) \/ CancelOutside(o) PROVE IInv'
  <2>1. /\ TablesOK' /\ Steady /\ NothingSent /\ TypeOK'
        /\ UNCHANGED <<orders, task>>
    BY <1>1, <1>19 DEF Trigger, CancelOutside, TablesOK, Steady, NothingSent, IInv, TypeOK
  <2>2. \A p \in OrderIds : RowFine(p)'
    BY <1>1, <1>19 DEF Trigger, CancelOutside, RowFine
  <2>3. \A w \in Workers : Fine(w, task[w].pc, task[w].ord, orders', exch')
    BY <1>2, <2>1, OthersFine
  <2> QED
    BY <2>1, <2>2, <2>3 DEF IInv
<1>20. CASE Crash
  <2>1. TypeOK'
    BY <1>20, StopOrdersAssumption DEF Crash, IInv, TypeOK, Idle, Task
  <2>2. \A w \in Workers : Fine(w, task[w].pc, task[w].ord, orders, exch)'
    BY <1>20 DEF Crash, Idle, Fine, WithOrder, OfTicker
  <2> QED
    BY <1>1, <1>20, <2>1, <2>2 DEF Crash, IInv, RowFine
<1>21. CASE UNCHANGED vars
  BY <1>21 DEF vars, IInv, TypeOK, RowFine
<1> QED
  BY <1>4, <1>5, <1>6, <1>7, <1>8, <1>9, <1>10, <1>11, <1>12, <1>13, <1>14, <1>15, <1>16, <1>17,
     <1>18, <1>19, <1>20, <1>21
     DEF Next, Cancel, Tick, Sync

\* The state stays well typed: rows, exchange and the local variables of tasks.
THEOREM TypeCorrect == Spec => []TypeOK
<1>1. IInv => TypeOK
  BY DEF IInv
<1> QED
  BY <1>1, InitInvariant, StepInvariant, PTL DEF Spec

\* An order recorded as cancelled with an exchangeOrderId is cancelled at the
\* exchange, and one recorded as filled is filled, whatever tasks interleave:
\* the code saves stale entities, yet never a final status that is not so.
THEOREM TruthKept == Spec => []RowsTellTruth
<1>1. IInv => RowsTellTruth
  BY DEF IInv, RowFine, RowsTellTruth
<1> QED
  BY <1>1, InitInvariant, StepInvariant, PTL DEF Spec

-----------------------------------------------------------------------------
(* Without lost responses a live order is open here.  What the tick knows of  *)
(* the order it is sending is not enough for that: its row has not failed,    *)
(* and one whose call failed has not reached the exchange.                    *)

Open(o) == orders[o].status = "NEW" \/ (orders[o].status = "CANCELED" /\ ~orders[o].known)

TickKnows ==
  /\ At(Ticker, "send") => orders[task[Ticker].ord].status # "FAILED"
  /\ At(Ticker, "fail") => exch[task[Ticker].ord] = "none"

LInv == LiveIsOpen /\ TickKnows

\* Of the tasks only w takes a step, which is not one towards a call.
Leaves(w) ==
  /\ \A v \in Workers \ {w} : task'[v] = task[v]
  /\ task'[w].pc \notin {"send", "fail"}

\* Only the tick saves a row as failed; and what is saved over an order that is
\* live keeps it open.
SavedBy(w, r) == r.status # "FAILED" \/ w = Ticker
Saves(p, r) ==
  exch[p] = "live" => r.status = "NEW" \/ (r.status = "CANCELED" /\ ~r.known)

\* One row is saved by another task, as open, or of an order that is not live.
LEMMA OthersSave ==
  ASSUME IInv, LInv, NEW w \in Workers, Leaves(w), exch' = exch,
         NEW p \in OrderIds, NEW r \in Row, orders' = [orders EXCEPT ![p] = r],
         SavedBy(w, r), Saves(p, r)
  PROVE  LInv'
<1>1. LiveIsOpen'
  BY DEF Saves, LInv, LiveIsOpen, IInv, TypeOK
<1>2. CASE w = Ticker
  BY <1>1, <1>2, Domain DEF LInv, TickKnows, At, Leaves, IInv, TypeOK
<1>3. CASE w # Ticker
  <2>1. task'[Ticker] = task[Ticker]
    BY <1>3, Domain DEF Leaves
  <2>2. At(Ticker, "send") => task[Ticker].ord \in OrderIds
    BY Domain DEF IInv, Fine, At, WithOrder
  <2> QED
    BY <1>1, <1>3, <2>1, <2>2 DEF SavedBy, LInv, TickKnows, At, IInv, TypeOK
<1> QED
  BY <1>2, <1>3

\* The rows stay, and so does the exchange unless a live order ends.
LEMMA OthersMove ==
  ASSUME IInv, LInv, NEW w \in Workers, Leaves(w), orders' = orders,
         exch' = exch \/ \E p \in OrderIds : /\ exch[p] = "live"
                                            /\ exch' = [exch EXCEPT ![p] = "canceled"]
  PROVE  LInv'
<1>1. \A q \in OrderIds : /\ exch'[q] = "live" => exch[q] = "live"
                          /\ exch[q] = "none" => exch'[q] = "none"
  BY DEF IInv, TypeOK
<1>2. LiveIsOpen'
  BY <1>1 DEF LInv, LiveIsOpen
<1>3. CASE w = Ticker
  BY <1>2, <1>3, Domain DEF LInv, TickKnows, At, Leaves, IInv, TypeOK
<1>4. CASE w # Ticker
  <2>1. task'[Ticker] = task[Ticker]
    BY <1>4, Domain DEF Leaves
  <2>2. At(Ticker, "fail") => task[Ticker].ord \in OrderIds
    BY Domain DEF IInv, Fine, At, WithOrder
  <2> QED
    BY <1>1, <1>2, <2>1, <2>2 DEF LInv, TickKnows, At
<1> QED
  BY <1>3, <1>4

LEMMA LiveStep == ~ResponsesMayBeLost /\ IInv /\ LInv /\ [Next]_vars => LInv'
<1> SUFFICES ASSUME ~ResponsesMayBeLost, IInv, LInv, [Next]_vars
             PROVE  LInv'
  OBVIOUS
<1> USE Domain
<1>1. /\ orders \in [OrderIds -> Row]
      /\ exch \in [OrderIds -> {"none", "live", "filled", "canceled"}]
      /\ \A o \in OrderIds : RowFine(o)
  BY DEF IInv, TypeOK
<1>2. ASSUME NEW w \in Workers
      PROVE  task[w].pc \in WithOrder => task[w].ord \in OrderIds
  BY DEF IInv, Fine
<1>3. ASSUME NEW w \in Cancelers, RequestCancel(w) PROVE LInv'
  BY <1>3, OthersMove DEF RequestCancel, Leaves, Do, IInv, TypeOK
<1>4. ASSUME NEW w \in Cancelers, NEW o \in OrderIds, CancelRead(w, o) PROVE LInv'
  <2>1. Leaves(w)
    BY <1>4 DEF CancelRead, Leaves, Do, IInv, TypeOK
  <2> QED
    BY <1>4, <2>1, OthersMove DEF CancelRead
<1>5. ASSUME NEW w \in Cancelers, CancelLocal(w) PROVE LInv'
  <2> DEFINE r == [status |-> "CANCELED", known |-> FALSE]
  <2>1. r \in Row /\ r.status = "CANCELED" /\ ~r.known /\ task[w].ord \in OrderIds
    BY <1>2, <1>5 DEF Row, CancelLocal, At, WithOrder
  <2>2. /\ orders' = [orders EXCEPT ![task[w].ord] = r] /\ exch' = exch
        /\ Leaves(w)
    BY <1>5 DEF CancelLocal, Put, Leaves, Do, IInv, TypeOK
  <2>3. SavedBy(w, r) /\ Saves(task[w].ord, r)
    BY <2>1, <2>2 DEF SavedBy, Saves
  <2> HIDE DEF r
  <2> QED
    BY <2>1, <2>2, <2>3, OthersSave
<1>6. ASSUME NEW w \in Cancelers, CancelSend(w) PROVE LInv'
  <2>1. task[w].ord \in OrderIds
    BY <1>2, <1>6 DEF CancelSend, At, WithOrder
  <2>2. Leaves(w)
    BY <1>6 DEF CancelSend, Go, Leaves, Do, IInv, TypeOK
  <2> QED
    BY <1>6, <2>1, <2>2, OthersMove DEF CancelSend
<1>7. ASSUME NEW w \in Cancelers, SaveCanceled(w) PROVE LInv'
  <2> DEFINE r == [status |-> "CANCELED", known |-> TRUE]
  <2>1. r \in Row /\ r.status = "CANCELED" /\ r.known /\ task[w].ord \in OrderIds
    BY <1>2, <1>7 DEF Row, SaveCanceled, At, WithOrder
  <2>2. /\ orders' = [orders EXCEPT ![task[w].ord] = r] /\ exch' = exch
        /\ Leaves(w)
    BY <1>7 DEF SaveCanceled, Put, Leaves, Do, IInv, TypeOK
  <2>3. exch[task[w].ord] = "canceled"
    BY <1>7 DEF SaveCanceled, At, IInv, Fine
  <2>4. SavedBy(w, r) /\ Saves(task[w].ord, r)
    BY <2>1, <2>2, <2>3 DEF SavedBy, Saves
  <2> HIDE DEF r
  <2> QED
    BY <2>1, <2>2, <2>3, <2>4, OthersSave
<1>8. ASSUME NEW w \in Cancelers, SaveError(w) PROVE LInv'
  <2> DEFINE r == [status |-> "NEW", known |-> TRUE]
  <2>1. r \in Row /\ r.status = "NEW" /\ r.known /\ task[w].ord \in OrderIds
    BY <1>2, <1>8 DEF Row, SaveError, At, WithOrder
  <2>2. /\ orders' = [orders EXCEPT ![task[w].ord] = r] /\ exch' = exch
        /\ Leaves(w)
    BY <1>8 DEF SaveError, Put, Leaves, Do, IInv, TypeOK
  <2>3. SavedBy(w, r) /\ Saves(task[w].ord, r)
    BY <2>1, <2>2 DEF SavedBy, Saves
  <2> HIDE DEF r
  <2> QED
    BY <2>1, <2>2, <2>3, OthersSave
<1>9. ASSUME NEW w \in Cancelers, CancelDone(w) PROVE LInv'
  <2>1. Leaves(w)
    BY <1>9 DEF CancelDone, Leaves, Do, IInv, TypeOK
  <2> QED
    BY <1>9, <2>1, OthersMove DEF CancelDone
<1>10. CASE TickBegin
  BY <1>10, OthersMove DEF TickBegin, Leaves, Do, IInv, TypeOK
<1>11. ASSUME NEW o \in OrderIds, PlaceStop(o) PROVE LInv'
  <2>1. exch' = exch /\ task'[Ticker].pc = "send" /\ task'[Ticker].ord = o
    BY <1>11 DEF PlaceStop, Do, IInv, TypeOK
  <2>2. orders'[o].status = "NEW" /\ \A p \in OrderIds \ {o} : orders'[p] = orders[p]
    BY <1>1, <1>11 DEF PlaceStop, Row
  <2> QED
    BY <2>1, <2>2 DEF LInv, LiveIsOpen, TickKnows, At
<1>12. CASE SendStop
  <2> DEFINE o == task[Ticker].ord
  <2>1. o \in OrderIds /\ orders[o].status # "FAILED" /\ exch[o] = "none" /\ orders[o].status # "NONE"
    BY <1>2, <1>12 DEF SendStop, At, IInv, Fine, WithOrder, LInv, TickKnows
  <2>2. Open(o)
    BY <1>1, <2>1 DEF RowFine, Row, Open
  <2>3. task'[Ticker].ord = o /\ orders' = orders
    BY <1>12 DEF SendStop, Go, Do, IInv, TypeOK
  <2>4. CASE \E s \in {"live", "filled"} : exch' = [exch EXCEPT ![o] = s] /\ Go(Ticker, "record")
    <3>1. task'[Ticker].pc = "record"
      BY <2>4 DEF Go, Do, IInv, TypeOK
    <3>2. \A p \in OrderIds \ {o} : exch'[p] = exch[p]
      BY <1>1, <2>4
    <3> QED
      BY <2>2, <2>3, <3>1, <3>2 DEF LInv, LiveIsOpen, TickKnows, At, Open
  <2>5. CASE exch' = exch /\ Go(Ticker, "fail")
    <3>1. task'[Ticker].pc = "fail"
      BY <2>5 DEF Go, Do, IInv, TypeOK
    <3> QED
      BY <2>1, <2>3, <2>5, <3>1 DEF LInv, LiveIsOpen, TickKnows, At
  <2> QED
    BY <1>12, <2>4, <2>5 DEF SendStop
<1>13. CASE RecordStop
  <2>1. PICK s \in {"NEW", "FILLED"} :
          /\ orders' = [orders EXCEPT ![task[Ticker].ord] = [status |-> s, known |-> TRUE]]
          /\ s = "FILLED" => exch[task[Ticker].ord] = "filled"
    BY <1>13 DEF RecordStop
  <2> DEFINE r == [status |-> s, known |-> TRUE]
  <2>2. r \in Row /\ r.status = s /\ task[Ticker].ord \in OrderIds
    BY <1>2, <1>13 DEF Row, RecordStop, At, WithOrder
  <2>3. /\ orders' = [orders EXCEPT ![task[Ticker].ord] = r] /\ exch' = exch
        /\ Leaves(Ticker)
    BY <1>13, <2>1 DEF RecordStop, Put, Leaves, Do, IInv, TypeOK
  <2>4. SavedBy(Ticker, r) /\ Saves(task[Ticker].ord, r)
    BY <2>1, <2>2, <2>3 DEF SavedBy, Saves
  <2> HIDE DEF r
  <2> QED
    BY <2>1, <2>2, <2>3, <2>4, OthersSave
<1>14. CASE FailStop
  <2> DEFINE r == [orders[task[Ticker].ord] EXCEPT !.status = "FAILED"]
  <2>1. task[Ticker].ord \in OrderIds /\ exch[task[Ticker].ord] = "none"
    BY <1>2, <1>14 DEF FailStop, At, WithOrder, LInv, TickKnows
  <2>2. r \in Row /\ orders' = [orders EXCEPT ![task[Ticker].ord] = r]
    BY <1>1, <1>14, <2>1 DEF FailStop, Row
  <2>3. exch' = exch /\ Leaves(Ticker)
    BY <1>14 DEF FailStop, Put, Leaves, Do, IInv, TypeOK
  <2>4. SavedBy(Ticker, r) /\ Saves(task[Ticker].ord, r)
    BY <2>1, <2>2, <2>3 DEF SavedBy, Saves
  <2> HIDE DEF r
  <2> QED
    BY <2>1, <2>2, <2>3, <2>4, OthersSave
<1>15. CASE TickDone
  BY <1>15, OthersMove DEF TickDone, Rest, Leaves, Do, IInv, TypeOK
<1>16. ASSUME NEW w \in Syncers, NEW o \in OrderIds, SyncFound(w, o) PROVE LInv'
  BY <1>16, OthersMove DEF SyncFound, Leaves, Do, IInv, TypeOK
<1>17. ASSUME NEW w \in Syncers, SyncSave(w) PROVE LInv'
  <2> DEFINE r == [orders[task[w].ord] EXCEPT !.status = "FILLED"]
  <2>1. task[w].ord \in OrderIds /\ exch[task[w].ord] = "filled"
    BY <1>2, <1>17 DEF SyncSave, At, WithOrder, IInv, Fine
  <2>2. r \in Row /\ orders' = [orders EXCEPT ![task[w].ord] = r] /\ r.status = "FILLED"
    BY <1>1, <1>17, <2>1 DEF SyncSave, Row
  <2>3. exch' = exch /\ Leaves(w)
    BY <1>17 DEF SyncSave, Rest, Leaves, Do, IInv, TypeOK
  <2>4. SavedBy(w, r) /\ Saves(task[w].ord, r)
    BY <2>1, <2>2 DEF SavedBy, Saves
  <2> HIDE DEF r
  <2> QED
    BY <2>1, <2>2, <2>3, <2>4, OthersSave
<1>18. ASSUME NEW o \in OrderIds, Trigger(o) \/ CancelOutside(o) PROVE LInv'
  <2>1. /\ UNCHANGED <<orders, task>> /\ exch[o] = "live"
        /\ exch' \in {[exch EXCEPT ![o] = "filled"], [exch EXCEPT ![o] = "canceled"]}
    BY <1>18 DEF Trigger, CancelOutside
  <2>2. \A q \in OrderIds : /\ exch'[q] = "live" => exch[q] = "live"
                            /\ exch[q] = "none" => exch'[q] = "none"
    BY <1>1, <2>1
  <2>3. At(Ticker, "fail") => task[Ticker].ord \in OrderIds
    BY <1>2 DEF At, WithOrder
  <2> QED
    BY <2>1, <2>2, <2>3 DEF LInv, LiveIsOpen, TickKnows, At
<1>19. CASE Crash
  BY <1>19 DEF Crash, Idle, LInv, LiveIsOpen, TickKnows, At
<1>20. CASE UNCHANGED vars
  BY <1>20 DEF vars, LInv, LiveIsOpen, TickKnows, At
<1> QED
  BY <1>3, <1>4, <1>5, <1>6, <1>7, <1>8, <1>9, <1>10, <1>11, <1>12, <1>13, <1>14, <1>15, <1>16,
     <1>17, <1>18, <1>19, <1>20 DEF Next, Cancel, Tick, Sync

\* While no response is lost, an order that is live at the exchange is open in
\* its row, at every moment and after any crash: placeStopOrder saves the row
\* before the call, and no stale entity that a task saves closes it, except
\* the cancellation that took it for a local order.
THEOREM LiveStaysOpen == ~ResponsesMayBeLost => (Spec => []LiveIsOpen)
<1> SUFFICES ASSUME ~ResponsesMayBeLost PROVE Spec => []LiveIsOpen
  OBVIOUS
<1>1. Init => LInv
  BY Domain DEF Init, Idle, LInv, LiveIsOpen, TickKnows, At
<1>2. IInv /\ LInv /\ [Next]_vars => LInv'
  BY LiveStep
<1>3. LInv => LiveIsOpen
  BY DEF LInv
<1> QED
  BY <1>1, <1>2, <1>3, InitInvariant, StepInvariant, PTL DEF Spec
=============================================================================
