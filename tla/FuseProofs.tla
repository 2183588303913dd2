------------------------------ MODULE FuseProofs ------------------------------
(***************************************************************************)
(* Proofs about ProtectionFuse, for any lots, tasks, number of fuses,      *)
(* crashes and stops, with cancellations that fail and responses that are  *)
(* lost: its state is well typed, and a fuse that a lot names is real.     *)
(*                                                                         *)
(* NamedFuseIsReal is not inductive: the lot gets the name of the fuse     *)
(* three steps after the row of the fuse was saved, so the invariant says  *)
(* what the task that places a fuse relies on meanwhile, and that nothing  *)
(* a task returns to brings it into the middle of a placement.             *)
(***************************************************************************)
EXTENDS ProtectionFuse, TLAPS

Placing == {"send", "record", "fail", "register"}
Canceling == {"cancelRead", "cancelLocal", "cancelCall", "saveCanceled", "saveError"}

\* What may be left to be done after a call at step pc.
RestFits(pc, r) ==
  /\ pc = "attach" => r = <<>> \/ r = <<"round">>
  /\ pc \in Placing => r = <<>> \/ r = <<"round">> \/ r = <<"cancelRead", "round">>
  /\ pc \in Canceling => r = <<>> \/ r = <<"round">> \/ r = <<"clear">> \/ r = <<"clear", "orphans">>
  /\ pc = "clear" => r = <<>> \/ r = <<"orphans">> \/ r = <<"attach", "round">>
  /\ pc \notin {"attach", "clear"} \cup Placing \cup Canceling => r = <<>>

\* What the local variables t of a task rely on, given the rows and the
\* exchange: a fuse being placed is the task's own, for its lot, and replaces
\* another exactly if that is to be cancelled next.
Fine(t, rows, ex) ==
  /\ t \in Task
  /\ RestFits(t.pc, t.rest)
  /\ t.pc \in Placing =>
       /\ t.fuse \in FuseIds /\ rows[t.fuse].lot = t.lot
       /\ t.rest = <<"cancelRead", "round">> <=> t.seen # NoFuse
  /\ t.pc \in {"record", "register"} => ex[t.fuse] # "none"

TablesOK ==
  /\ lots \in [Lots -> LotRow]
  /\ orders \in [FuseIds -> FuseRow]
  /\ exch \in [FuseIds -> {"none", "live", "filled", "canceled"}]
  /\ recorded \subseteq FuseIds
  /\ faults \in [crashes: 0..MaxFaults, stops: 0..MaxFaults]

\* The inductive invariant.
IInv ==
  /\ TablesOK
  /\ task \in [Tasks -> Task]
  /\ \A w \in Tasks : Fine(task[w], orders, exch)
  /\ NamedFuseIsReal

\* A step leaves to every fuse its lot and what the exchange knows of it, unless
\* nothing referred to the fuse.
Steady ==
  \A f \in FuseIds :
    \/ Unused(f)
    \/ orders'[f].lot = orders[f].lot /\ (exch[f] # "none" => exch'[f] # "none")

\* A lot keeps the name of its fuse, loses it, or gets that of a real one.
Named(l) ==
  \/ lots'[l].fuse \in {NoFuse, lots[l].fuse}
  \/ orders'[lots'[l].fuse].lot = l /\ exch'[lots'[l].fuse] # "none"

\* The parts of the domain that the proofs use.
LEMMA Domain ==
  /\ AnyLot \in Lots
  /\ NoFuse \notin FuseIds
  /\ Idle \in Task /\ Idle.pc = "idle" /\ Idle.rest = <<>>
<1>1. AnyLot \in Lots
  BY FuseAssumption DEF AnyLot
<1>2. NoFuse \notin FuseIds
  BY FuseAssumption DEF NoFuse, FuseIds
<1>3. <<>> \in Seq(Steps)
  OBVIOUS
<1> QED
  BY <1>1, <1>2, <1>3 DEF Idle, Task, Steps

\* The remaining steps, taken apart.
LEMMA RestFacts ==
  /\ <<>> \in Seq(Steps) /\ <<"round">> \in Seq(Steps) /\ <<"orphans">> \in Seq(Steps)
  /\ <<"clear">> \in Seq(Steps) /\ <<"clear", "orphans">> \in Seq(Steps)
  /\ <<"attach", "round">> \in Seq(Steps) /\ <<"cancelRead", "round">> \in Seq(Steps)
  /\ <<"round">> # <<"cancelRead", "round">> /\ <<>> # <<"cancelRead", "round">>
  /\ <<"clear">> # <<"cancelRead", "round">> /\ <<"clear", "orphans">> # <<"cancelRead", "round">>
BY DEF Steps

\* What is fine stays fine while nothing it relies on changes.
LEMMA StaysFine ==
  ASSUME NEW v \in Tasks, Fine(task[v], orders, exch), Steady
  PROVE  Fine(task[v], orders', exch')
<1>1. CASE task[v].pc \notin Placing
  BY <1>1 DEF Fine, Placing
<1>2. CASE task[v].pc \in Placing
  <2>1. task[v].fuse \in FuseIds /\ ~Unused(task[v].fuse)
    BY <1>2 DEF Fine, Unused
  <2> QED
    BY <2>1, <1>2 DEF Fine, Steady
<1> QED
  BY <1>1, <1>2

\* Names stay real.
LEMMA StaysNamed ==
  ASSUME TablesOK, TablesOK', NamedFuseIsReal, Steady, \A l \in Lots : Named(l)
  PROVE  NamedFuseIsReal'
<1> SUFFICES ASSUME NEW l \in Lots, lots'[l].fuse # NoFuse
             PROVE  orders'[lots'[l].fuse].lot = l /\ exch'[lots'[l].fuse] # "none"
  BY DEF NamedFuseIsReal
<1>1. CASE lots'[l].fuse = lots[l].fuse
  <2>1. lots[l].fuse \in FuseIds /\ ~Unused(lots[l].fuse)
    BY <1>1 DEF TablesOK, LotRow, Unused
  <2> QED
    BY <1>1, <2>1 DEF NamedFuseIsReal, Steady
<1> QED
  BY <1>1 DEF Named

\* A step of the task w, which then has the local variables t.
LEMMA Frame ==
  ASSUME IInv, NEW w \in Tasks, NEW t, Do(w, t), Fine(t, orders', exch'),
         TablesOK', Steady, \A l \in Lots : Named(l)
  PROVE  IInv'
<1>1. t \in Task
  BY DEF Fine
<1>2. task' \in [Tasks -> Task]
  BY <1>1 DEF IInv, Do
<1>3. ASSUME NEW v \in Tasks PROVE Fine(task[v], orders, exch)'
  <2>1. CASE v = w
    BY <2>1 DEF IInv, Do
  <2>2. CASE v # w
    BY <2>2, StaysFine DEF IInv, Do
  <2> QED
    BY <2>1, <2>2
<1>4. NamedFuseIsReal'
  BY StaysNamed DEF IInv
<1> QED
  BY <1>2, <1>3, <1>4 DEF IInv

\* ... and neither the tables nor the exchange changes.
LEMMA TaskOnly ==
  ASSUME IInv, NEW w \in Tasks, NEW t, Do(w, t), Fine(t, orders, exch),
         UNCHANGED <<lots, orders, exch, recorded, faults>>
  PROVE  IInv'
<1>1. Steady /\ \A l \in Lots : Named(l)
  BY DEF Steady, Named
<1>2. TablesOK'
  BY DEF IInv, TablesOK
<1> QED
  BY <1>1, <1>2, Frame

\* A step of nobody.
LEMMA TablesOnly ==
  ASSUME IInv, task' = task, TablesOK', Steady, \A l \in Lots : Named(l)
  PROVE  IInv'
<1>1. \A v \in Tasks : Fine(task[v], orders, exch)'
  BY StaysFine DEF IInv
<1> QED
  BY <1>1, StaysNamed DEF IInv

\* Where a call may return to.
Harmless(t) == t \in Task /\ RestFits(t.pc, t.rest) /\ t.pc \notin Placing

LEMMA HarmlessIsFine ==
  ASSUME NEW t, NEW rows, NEW ex, Harmless(t)
  PROVE  Fine(t, rows, ex)
BY DEF Harmless, Fine, Placing

\* A call that is not in the middle of a replacement returns to a step that
\* relies on nothing.
LEMMA Returns ==
  ASSUME NEW w \in Tasks, task[w] \in Task, RestFits(task[w].pc, task[w].rest),
         task[w].rest # <<"cancelRead", "round">>, Return(w)
  PROVE  \E t : Do(w, t) /\ Harmless(t)
<1> DEFINE loop(s) == [Idle EXCEPT !.pc = s, !.todo = task[w].todo]
           next(s, r) == [task[w] EXCEPT !.pc = s, !.rest = r]
<1>1. /\ Harmless(Idle) /\ Harmless(loop("round")) /\ Harmless(loop("orphans"))
  BY Domain, RestFacts DEF Harmless, Idle, Task, Steps, RestFits, Placing, Canceling
<1>2. /\ Harmless(next("clear", <<>>)) /\ Harmless(next("clear", <<"orphans">>))
      /\ Harmless(next("attach", <<"round">>))
  BY RestFacts DEF Harmless, Task, Steps, RestFits, Placing, Canceling
<1>3. CASE task[w].rest = <<>>
  BY <1>1, <1>3 DEF Return
<1>4. CASE task[w].rest = <<"round">>
  <2>1. Head(<<"round">>) = "round" /\ <<"round">> # <<>>
    OBVIOUS
  <2> QED
    BY <1>1, <1>4, <2>1 DEF Return, Resume
<1>5. CASE task[w].rest = <<"orphans">>
  <2>1. Head(<<"orphans">>) = "orphans" /\ <<"orphans">> # <<>>
    OBVIOUS
  <2> QED
    BY <1>1, <1>5, <2>1 DEF Return, Resume
<1>6. CASE task[w].rest = <<"clear">>
  <2>1. Head(<<"clear">>) = "clear" /\ Tail(<<"clear">>) = <<>> /\ <<"clear">> # <<>>
    OBVIOUS
  <2> QED
    BY <1>2, <1>6, <2>1 DEF Return, Resume
<1>7. CASE task[w].rest = <<"clear", "orphans">>
  <2>1. /\ Head(<<"clear", "orphans">>) = "clear" /\ Tail(<<"clear", "orphans">>) = <<"orphans">>
        /\ <<"clear", "orphans">> # <<>>
    OBVIOUS
  <2> QED
    BY <1>2, <1>7, <2>1 DEF Return, Resume
<1>8. CASE task[w].rest = <<"attach", "round">>
  <2>1. /\ Head(<<"attach", "round">>) = "attach" /\ Tail(<<"attach", "round">>) = <<"round">>
        /\ <<"attach", "round">> # <<>>
    OBVIOUS
  <2> QED
    BY <1>2, <1>8, <2>1 DEF Return, Resume
<1>9. \/ task[w].rest = <<>> \/ task[w].rest = <<"round">> \/ task[w].rest = <<"orphans">>
      \/ task[w].rest = <<"clear">> \/ task[w].rest = <<"clear", "orphans">>
      \/ task[w].rest = <<"attach", "round">>
  BY DEF RestFits
<1> QED
  BY <1>3, <1>4, <1>5, <1>6, <1>7, <1>8, <1>9

\* A call that throws does so to the loop around it.
LEMMA Throws ==
  ASSUME NEW w \in Tasks, task[w] \in Task, RestFits(task[w].pc, task[w].rest),
         task[w].pc \in {"attach", "fail"}, Throw(w)
  PROVE  \E t : Do(w, t) /\ Harmless(t)
<1> DEFINE loop == [Idle EXCEPT !.pc = "round", !.todo = task[w].todo]
<1>1. Harmless(Idle) /\ Harmless(loop)
  BY Domain, RestFacts DEF Harmless, Idle, Task, Steps, RestFits, Placing, Canceling
<1>2. \/ task[w].rest = <<>> \/ task[w].rest = <<"round">>
      \/ task[w].rest = <<"cancelRead", "round">>
  BY DEF RestFits, Placing
<1>3. CASE task[w].rest = <<>>
  BY <1>1, <1>3 DEF Throw
<1>4. CASE task[w].rest = <<"round">>
  <2>1. /\ <<"round">> # <<>> /\ Len(<<"round">>) = 1 /\ <<"round">>[1] = "round"
    OBVIOUS
  <2> QED
    BY <1>1, <1>4, <2>1 DEF Throw, Resume
<1>5. CASE task[w].rest = <<"cancelRead", "round">>
  <2>1. /\ <<"cancelRead", "round">> # <<>> /\ Len(<<"cancelRead", "round">>) = 2
        /\ <<"cancelRead", "round">>[2] = "round"
    OBVIOUS
  <2> QED
    BY <1>1, <1>5, <2>1 DEF Throw, Resume
<1> QED
  BY <1>2, <1>3, <1>4, <1>5

\* Initially no lot has a fuse and every task is idle.
LEMMA InitInvariant == Init => IInv
<1> SUFFICES ASSUME Init PROVE IInv
  OBVIOUS
<1>1. TablesOK
  BY Domain, FuseAssumption DEF Init, TablesOK, LotRow, FuseRow
<1>2. task \in [Tasks -> Task]
  BY Domain DEF Init
<1>3. ASSUME NEW w \in Tasks PROVE Fine(task[w], orders, exch)
  BY Domain DEF Init, Fine, RestFits, Placing, Canceling
<1>4. NamedFuseIsReal
  BY DEF Init, NamedFuseIsReal
<1> QED
  BY <1>1, <1>2, <1>3, <1>4 DEF IInv

\* A task goes to a step that relies on nothing ...
LEMMA Begins ==
  ASSUME IInv, NEW w \in Tasks, NEW t, Do(w, t), Harmless(t),
         UNCHANGED <<lots, orders, exch, recorded, faults>>
  PROVE  IInv'
BY HarmlessIsFine, TaskOnly

\* ... and the rows or the exchange change.
LEMMA Works ==
  ASSUME IInv, NEW w \in Tasks, NEW t, Do(w, t), Harmless(t), TablesOK',
         UNCHANGED <<lots, recorded, faults>>, Steady
  PROVE  IInv'
<1>1. \A l \in Lots : Named(l)
  BY DEF Named
<1> QED
  BY <1>1, HarmlessIsFine, Frame

\* ... and a lot is closed, opened, or forgets its fuse.
LEMMA Files ==
  ASSUME IInv, NEW w \in Tasks, NEW t, Do(w, t), Harmless(t), TablesOK',
         \A l \in Lots : lots'[l].fuse \in {NoFuse, lots[l].fuse},
         UNCHANGED <<exch, recorded, faults>>, Steady
  PROVE  IInv'
<1>1. \A l \in Lots : Named(l)
  BY DEF Named
<1> QED
  BY <1>1, HarmlessIsFine, Frame

\* The row of a fuse nothing refers to is saved, and its task is about to send it.
LEMMA Inserts ==
  ASSUME IInv, NEW w \in Tasks, NEW t, NEW f \in FuseIds, Unused(f), Do(w, t),
         t \in Task, t.pc = "send", t.fuse = f, RestFits("send", t.rest),
         t.rest = <<"cancelRead", "round">> <=> t.seen # NoFuse,
         orders' = [orders EXCEPT ![f] = [st |-> "NEW", known |-> FALSE, lot |-> t.lot]],
         exch' = [exch EXCEPT ![f] = "none"],
         recorded' = recorded \ {f}, UNCHANGED <<lots, faults>>
  PROVE  IInv'
<1>1. t.lot \in Lots
  BY DEF Task
<1>2. TablesOK'
  BY <1>1 DEF IInv, TablesOK, FuseRow
<1>3. Steady
  BY DEF IInv, TablesOK, Steady
<1>4. Fine(t, orders', exch')
  BY DEF Fine, IInv, TablesOK, Placing
<1>5. \A l \in Lots : Named(l)
  BY DEF Named
<1> QED
  BY <1>2, <1>3, <1>4, <1>5, Frame

\* The row of a fuse gets another status, and maybe learns whether it is known.
LEMMA RowSaved ==
  ASSUME TablesOK, NEW f, NEW r, orders' = [orders EXCEPT ![f] = r],
         f \in FuseIds => r \in FuseRow /\ r.lot = orders[f].lot,
         exch' = exch
  PROVE  orders' \in [FuseIds -> FuseRow] /\ Steady
<1>1. orders \in [FuseIds -> FuseRow]
  BY DEF TablesOK
<1>2. ASSUME NEW g \in FuseIds PROVE orders'[g] \in FuseRow /\ orders'[g].lot = orders[g].lot
  BY <1>1
<1>3. orders' \in [FuseIds -> FuseRow]
  BY <1>1, <1>2
<1> QED
  BY <1>2, <1>3 DEF Steady

\* A lot is closed, opened, or forgets its fuse.
LEMMA LotSaved ==
  ASSUME TablesOK, NEW l \in Lots, NEW st \in {"OPEN", "CLOSED"},
         lots' = [lots EXCEPT ![l].st = st]
  PROVE  lots' \in [Lots -> LotRow] /\ \A k \in Lots : lots'[k].fuse = lots[k].fuse
BY DEF TablesOK, LotRow

\* Every step keeps the invariant: one step of the proof per action.
LEMMA StepInvariant == IInv /\ [Next]_vars => IInv'
<1> SUFFICES ASSUME IInv, [Next]_vars
             PROVE  IInv'
  OBVIOUS
<1> USE Domain
<1>1. /\ lots \in [Lots -> LotRow] /\ orders \in [FuseIds -> FuseRow]
      /\ exch \in [FuseIds -> {"none", "live", "filled", "canceled"}]
      /\ recorded \subseteq FuseIds
      /\ faults \in [crashes: 0..MaxFaults, stops: 0..MaxFaults]
  BY DEF IInv, TablesOK
<1>2. ASSUME NEW w \in Tasks
      PROVE  /\ task[w] \in Task /\ RestFits(task[w].pc, task[w].rest)
             /\ Fine(task[w], orders, exch)
  BY DEF IInv, Fine
<1>3. ASSUME NEW w \in Tasks, AttachSkip(w) PROVE IInv'
  <2>1. PICK t : Do(w, t) /\ Harmless(t)
    BY <1>2, <1>3, RestFacts, Returns DEF AttachSkip, At, RestFits
  <2> QED
    BY <1>3, <2>1, Begins DEF AttachSkip
<1>4. ASSUME NEW w \in Tasks, NEW f \in FuseIds, Attach(w, f) PROVE IInv'
  <2> DEFINE t == [task[w] EXCEPT !.pc = "send", !.fuse = f, !.rest = task[w].rest]
  <2>1. /\ t \in Task /\ t.pc = "send" /\ t.fuse = f /\ t.lot = task[w].lot
        /\ t.seen = task[w].seen /\ t.rest = task[w].rest
    BY <1>2 DEF Task, Steps
  <2>2. RestFits("send", t.rest) /\ t.rest # <<"cancelRead", "round">> /\ t.seen = NoFuse
    BY <1>2, <1>4, <2>1, RestFacts DEF Attach, At, RestFits, Placing, Canceling
  <2>3. Unused(f) /\ Do(w, t)
    BY <1>4 DEF Attach, Fresh, Insert
  <2>4. /\ orders' = [orders EXCEPT ![f] = [st |-> "NEW", known |-> FALSE, lot |-> t.lot]]
        /\ exch' = [exch EXCEPT ![f] = "none"]
        /\ recorded' = recorded \ {f} /\ UNCHANGED <<lots, faults>>
    BY <1>4, <2>1 DEF Attach, Insert
  <2> HIDE DEF t
  <2> QED
    BY <2>1, <2>2, <2>3, <2>4, Inserts
<1>5. ASSUME NEW w \in Tasks, AttachThrows(w) PROVE IInv'
  <2>1. PICK t : Do(w, t) /\ Harmless(t)
    BY <1>2, <1>5, Throws DEF AttachThrows, At
  <2> QED
    BY <1>5, <2>1, Begins DEF AttachThrows
<1>6. ASSUME NEW w \in Tasks, Send(w) PROVE IInv'
  <2> DEFINE t(pc) == [task[w] EXCEPT !.pc = pc]
  <2>1. PICK pc \in {"record", "fail"} :
          /\ Do(w, t(pc))
          /\ \/ exch' = [exch EXCEPT ![task[w].fuse] = "live"]
             \/ exch' = exch /\ pc = "fail"
    BY <1>6 DEF Send, Go
  <2>2. /\ t(pc) \in Task /\ t(pc).pc = pc /\ t(pc).rest = task[w].rest
        /\ t(pc).fuse = task[w].fuse /\ t(pc).lot = task[w].lot /\ t(pc).seen = task[w].seen
    BY <1>2 DEF Task, Steps
  <2>3. UNCHANGED <<lots, orders, recorded, faults>> /\ task[w].pc = "send"
    BY <1>6 DEF Send, At
  <2>4. Fine(t(pc), orders', exch')
    BY <1>1, <1>2, <2>1, <2>2, <2>3 DEF Fine, RestFits, Placing, Canceling
  <2>5. TablesOK' /\ Steady /\ \A l \in Lots : Named(l)
    BY <1>1, <2>1, <2>3 DEF TablesOK, Steady, Named
  <2> HIDE DEF t
  <2> QED
    BY <2>1, <2>4, <2>5, Frame
<1>7. ASSUME NEW w \in Tasks, Record(w) PROVE IInv'
  <2> DEFINE t == [task[w] EXCEPT !.pc = "register"]
  <2>1. /\ t \in Task /\ t.pc = "register" /\ t.rest = task[w].rest
        /\ t.fuse = task[w].fuse /\ t.lot = task[w].lot /\ t.seen = task[w].seen
    BY <1>2 DEF Task, Steps
  <2>2. task[w].pc = "record" /\ UNCHANGED <<lots, exch, recorded, faults>> /\ Do(w, t)
    BY <1>7 DEF Record, At, Go
  <2> PICK st \in {"NEW", "FILLED"} :
        orders' = [orders EXCEPT ![task[w].fuse] = [@ EXCEPT !.st = st, !.known = TRUE]]
    BY <1>7 DEF Record
  <2>3. task[w].fuse \in FuseIds => /\ [orders[task[w].fuse] EXCEPT !.st = st, !.known = TRUE] \in FuseRow
                                    /\ [orders[task[w].fuse] EXCEPT !.st = st, !.known = TRUE].lot
                                         = orders[task[w].fuse].lot
    BY <1>1 DEF FuseRow
  <2>4. orders' \in [FuseIds -> FuseRow] /\ Steady
    BY <2>2, <2>3, RowSaved DEF IInv
  <2>5. TablesOK' /\ Steady /\ \A l \in Lots : Named(l)
    BY <1>1, <2>2, <2>4 DEF TablesOK, Named
  <2>6. Fine(t, orders', exch')
    BY <1>1, <1>2, <2>1, <2>2 DEF Fine, FuseRow, RestFits, Placing, Canceling
  <2> HIDE DEF t
  <2> QED
    BY <2>2, <2>5, <2>6, Frame
<1>8. ASSUME NEW w \in Tasks, Fail(w) PROVE IInv'
  <2>1. PICK t : Do(w, t) /\ Harmless(t)
    BY <1>2, <1>8, Throws DEF Fail, At
  <2>2. task[w].fuse \in FuseIds => /\ [orders[task[w].fuse] EXCEPT !.st = "FAILED"] \in FuseRow
                                    /\ [orders[task[w].fuse] EXCEPT !.st = "FAILED"].lot = orders[task[w].fuse].lot
    BY <1>1 DEF FuseRow
  <2>3. TablesOK' /\ Steady
    BY <1>1, <1>8, <2>2, RowSaved DEF Fail, IInv, TablesOK
  <2> QED
    BY <1>8, <2>1, <2>3, Works DEF Fail
<1>9. ASSUME NEW w \in Tasks, Register(w) PROVE IInv'
  <2>1. /\ task[w].pc = "register" /\ task[w].fuse \in FuseIds
        /\ orders[task[w].fuse].lot = task[w].lot /\ exch[task[w].fuse] # "none"
        /\ task[w].rest = <<"cancelRead", "round">> <=> task[w].seen # NoFuse
    BY <1>2, <1>9 DEF Register, At, Fine, Placing
  <2>2. PICK t : Do(w, t) /\ Harmless(t)
    <3>1. CASE task[w].seen = NoFuse
      BY <1>2, <1>9, <2>1, <3>1, Returns DEF Register
    <3>2. CASE task[w].seen # NoFuse
      <4> DEFINE u == [task[w] EXCEPT !.pc = "cancelRead", !.rest = <<"round">>, !.fuse = task[w].seen]
      <4>1. task[w].rest = <<"cancelRead", "round">> /\ Tail(<<"cancelRead", "round">>) = <<"round">>
        BY <2>1, <3>2
      <4>2. Do(w, u)
        BY <1>9, <3>2, <4>1 DEF Register
      <4>3. Harmless(u)
        BY <1>2, RestFacts DEF Harmless, Task, Steps, RestFits, Placing, Canceling
      <4> QED
        BY <4>2, <4>3
    <3> QED
      BY <3>1, <3>2
  <2>3. /\ lots' = [lots EXCEPT ![task[w].lot].fuse = task[w].fuse]
        /\ UNCHANGED <<orders, exch, recorded, faults>>
    BY <1>9 DEF Register
  <2>4. TablesOK' /\ Steady
    BY <1>1, <2>1, <2>3 DEF TablesOK, LotRow, Steady
  <2>5. \A l \in Lots : Named(l)
    BY <1>1, <2>1, <2>3 DEF LotRow, Named
  <2> QED
    BY <2>2, <2>4, <2>5, HarmlessIsFine, Frame
<1>10. ASSUME NEW w \in Tasks, Detach(w) PROVE IInv'
  <2> DEFINE f == lots[task[w].lot].fuse
             u == [task[w] EXCEPT !.pc = "cancelRead", !.lot = task[w].lot, !.fuse = f,
                                  !.seen = f, !.rest = <<"clear">>]
  <2>1. task[w].rest = <<>> /\ task[w].rest # <<"cancelRead", "round">>
    BY <1>2, <1>10, RestFacts DEF Detach, At, RestFits, Placing, Canceling
  <2>2. <<"clear">> \o task[w].rest = <<"clear">>
    BY <2>1
  <2>3. f \in {NoFuse} \cup FuseIds
    BY <1>1, <1>2 DEF LotRow, Task
  <2>4. Harmless(u)
    BY <1>2, <2>3, RestFacts DEF Harmless, Task, Steps, RestFits, Placing, Canceling
  <2>5. \E t : Do(w, t) /\ Harmless(t)
    <3>1. CASE f = NoFuse
      BY <1>2, <1>10, <2>1, <3>1, Returns DEF Detach
    <3>2. CASE f # NoFuse
      <4>1. Do(w, u)
        BY <1>10, <2>2, <3>2 DEF Detach, Call
      <4> QED
        BY <2>4, <4>1
    <3> QED
      BY <3>1, <3>2
  <2> QED
    BY <1>10, <2>5, Begins DEF Detach
<1>11. ASSUME NEW w \in Tasks, CancelRead(w) PROVE IInv'
  <2>1. task[w].pc = "cancelRead"
    BY <1>11 DEF CancelRead, At
  <2>2. \/ task[w].rest = <<>> \/ task[w].rest = <<"round">>
        \/ task[w].rest = <<"clear">> \/ task[w].rest = <<"clear", "orphans">>
    BY <1>2, <2>1 DEF RestFits, Canceling
  <2>3. task[w].rest # <<"cancelRead", "round">>
    BY <2>2, RestFacts
  <2>4. \E t : Do(w, t) /\ Harmless(t)
    <3>1. CASE Return(w)
      BY <1>2, <2>3, <3>1, Returns
    <3>2. ASSUME NEW pc \in {"cancelCall", "cancelLocal"}, Go(w, pc)
          PROVE  \E t : Do(w, t) /\ Harmless(t)
      <4>1. Harmless([task[w] EXCEPT !.pc = pc])
        BY <1>2, <2>1 DEF Harmless, Task, Steps, RestFits, Placing, Canceling
      <4> QED
        BY <3>2, <4>1 DEF Go
    <3> QED
      BY <1>11, <3>1, <3>2 DEF CancelRead
  <2> QED
    BY <1>11, <2>4, Begins DEF CancelRead
<1>12. ASSUME NEW w \in Tasks, CancelLocal(w) PROVE IInv'
  <2>1. PICK t : Do(w, t) /\ Harmless(t)
    BY <1>2, <1>12, RestFacts, Returns DEF CancelLocal, At, RestFits, Placing, Canceling
  <2>2. task[w].fuse \in FuseIds =>
          /\ [orders[task[w].fuse] EXCEPT !.st = "CANCELED", !.known = FALSE] \in FuseRow
          /\ [orders[task[w].fuse] EXCEPT !.st = "CANCELED", !.known = FALSE].lot = orders[task[w].fuse].lot
    BY <1>1 DEF FuseRow
  <2>3. TablesOK' /\ Steady
    BY <1>1, <1>12, <2>2, RowSaved DEF CancelLocal, IInv, TablesOK
  <2> QED
    BY <1>12, <2>1, <2>3, Works DEF CancelLocal
<1>13. ASSUME NEW w \in Tasks, CancelCall(w) PROVE IInv'
  <2>1. PICK pc \in {"saveCanceled", "saveError"} : Do(w, [task[w] EXCEPT !.pc = pc])
    BY <1>13 DEF CancelCall, Go
  <2>2. Harmless([task[w] EXCEPT !.pc = pc])
    BY <1>2, <1>13 DEF CancelCall, At, Harmless, Task, Steps, RestFits, Placing, Canceling
  <2>3. exch' = exch \/ (exch[task[w].fuse] = "live" /\ exch' = [exch EXCEPT ![task[w].fuse] = "canceled"])
    BY <1>13 DEF CancelCall
  <2>4. TablesOK' /\ Steady
    BY <1>1, <1>13, <2>3 DEF CancelCall, TablesOK, Steady
  <2> QED
    BY <1>13, <2>1, <2>2, <2>4, Works DEF CancelCall
<1>14. ASSUME NEW w \in Tasks, CancelSave(w) PROVE IInv'
  <2>1. task[w].rest # <<"cancelRead", "round">>
    BY <1>2, <1>14, RestFacts, SMTT(30) DEF CancelSave, RestFits, Placing, Canceling
  <2>2. PICK t : Do(w, t) /\ Harmless(t)
    BY <1>2, <1>14, <2>1, Returns DEF CancelSave
  <2> DEFINE f == task[w].fuse
             r == [orders[f] EXCEPT !.st = IF At(w, "saveCanceled") THEN "CANCELED" ELSE "NEW",
                                    !.known = TRUE]
  <2>3. f \in FuseIds => r \in FuseRow /\ r.lot = orders[f].lot
    BY <1>1 DEF FuseRow
  <2>4. orders' = [orders EXCEPT ![f] = r]
    BY <1>14 DEF CancelSave
  <2>5. TablesOK' /\ Steady
    <3> HIDE DEF r, f
    <3>1. orders' \in [FuseIds -> FuseRow] /\ Steady
      BY <1>14, <2>3, <2>4, RowSaved DEF CancelSave, IInv
    <3> QED
      BY <1>1, <1>14, <3>1 DEF CancelSave, TablesOK
  <2> QED
    BY <1>14, <2>2, <2>5, Works DEF CancelSave
<1>15. ASSUME NEW w \in Tasks, Clear(w) PROVE IInv'
  <2>1. PICK t : Do(w, t) /\ Harmless(t)
    BY <1>2, <1>15, RestFacts, Returns DEF Clear, At, RestFits, Placing, Canceling
  <2>2. TablesOK' /\ Steady /\ \A l \in Lots : lots'[l].fuse \in {NoFuse, lots[l].fuse}
    BY <1>1, <1>15 DEF Clear, TablesOK, LotRow, Steady
  <2> QED
    BY <1>15, <2>1, <2>2, Files DEF Clear
<1>16. ASSUME NEW w \in Tasks, Create(w) PROVE IInv'
  <2> DEFINE l == task[w].lot
             u == [task[w] EXCEPT !.pc = "attach", !.lot = l, !.fuse = lots[l].fuse,
                                  !.seen = lots[l].fuse, !.rest = <<>>]
  <2>1. Harmless(u) /\ Do(w, u)
    BY <1>1, <1>2, <1>16, RestFacts
       DEF Create, Call, Harmless, Task, Steps, LotRow, RestFits, Placing, Canceling
  <2>2. TablesOK' /\ Steady /\ \A k \in Lots : lots'[k].fuse \in {NoFuse, lots[k].fuse}
    BY <1>1, <1>2, <1>16 DEF Create, TablesOK, LotRow, Steady
  <2> QED
    BY <1>16, <2>1, <2>2, Files DEF Create
<1>17. ASSUME NEW w \in Tasks, CloseFill(w) PROVE IInv'
  <2>1. Harmless([task[w] EXCEPT !.pc = "detach"]) /\ Do(w, [task[w] EXCEPT !.pc = "detach"])
    BY <1>2, <1>17 DEF CloseFill, Go, At, Harmless, Task, Steps, RestFits, Placing, Canceling
  <2>2. task[w].lot \in Lots
    BY <1>2 DEF Task
  <2>3. lots' \in [Lots -> LotRow] /\ \A k \in Lots : lots'[k].fuse = lots[k].fuse
    BY <1>17, <2>2, LotSaved DEF CloseFill, IInv
  <2>4. TablesOK' /\ Steady /\ \A k \in Lots : lots'[k].fuse \in {NoFuse, lots[k].fuse}
    BY <1>1, <1>17, <2>3 DEF CloseFill, TablesOK, Steady
  <2> QED
    BY <1>17, <2>1, <2>4, Files DEF CloseFill
<1>18. ASSUME NEW w \in Tasks, Settle(w) PROVE IInv'
  <2>1. Harmless([task[w] EXCEPT !.pc = "detach"]) /\ Harmless(Idle)
    BY <1>2, <1>18 DEF Settle, At, Harmless, Task, Steps, RestFits, Placing, Canceling
  <2>2. PICK t : Do(w, t) /\ Harmless(t)
    BY <1>18, <2>1 DEF Settle, Go
  <2>3. task[w].lot \in Lots
    BY <1>2 DEF Task
  <2>4. lots' \in [Lots -> LotRow] /\ \A k \in Lots : lots'[k].fuse = lots[k].fuse
    BY <1>1, <1>18, <2>3, LotSaved DEF Settle, IInv
  <2>5. task[w].fuse \in FuseIds => /\ [orders[task[w].fuse] EXCEPT !.st = "FILLED"] \in FuseRow
                                    /\ [orders[task[w].fuse] EXCEPT !.st = "FILLED"].lot = orders[task[w].fuse].lot
    BY <1>1 DEF FuseRow
  <2>6. orders' \in [FuseIds -> FuseRow] /\ Steady
    BY <1>18, <2>5, RowSaved DEF Settle, IInv
  <2>7. TablesOK' /\ Steady /\ \A k \in Lots : lots'[k].fuse \in {NoFuse, lots[k].fuse}
    BY <1>1, <1>18, <2>4, <2>6 DEF Settle, TablesOK
  <2> QED
    BY <1>18, <2>2, <2>7, Files DEF Settle
<1>19. ASSUME NEW w \in Tasks, RoundOrphans(w) \/ RoundEnd(w) \/ RoundBegin(w) PROVE IInv'
  <2>1. ASSUME NEW st PROVE Listed(st) \in SUBSET (Lots \X ({NoFuse} \cup FuseIds))
    BY <1>1 DEF Listed, LotRow
  <2>2. {e \in Listed("CLOSED") : e[2] # NoFuse} \in SUBSET (Lots \X ({NoFuse} \cup FuseIds))
    BY <2>1
  <2>3. ASSUME NEW pc \in {"round", "orphans"}, NEW S \in SUBSET (Lots \X ({NoFuse} \cup FuseIds))
        PROVE  Harmless([Idle EXCEPT !.pc = pc, !.todo = S])
    BY DEF Harmless, Idle, Task, Steps, RestFits, Placing, Canceling
  <2>4. Harmless(Idle)
    BY DEF Harmless, RestFits, Placing, Canceling
  <2>5. PICK t : Do(w, t) /\ Harmless(t)
    BY <1>19, <2>1, <2>2, <2>3, <2>4 DEF RoundOrphans, RoundEnd, RoundBegin
  <2> QED
    BY <1>19, <2>5, Begins DEF RoundOrphans, RoundEnd, RoundBegin
<1>20. ASSUME NEW w \in Tasks, NEW e \in task[w].todo
       PROVE  e \in Lots \X ({NoFuse} \cup FuseIds) /\ e[1] \in Lots /\ e[2] \in {NoFuse} \cup FuseIds
  BY <1>2 DEF Task
<1>21. ASSUME NEW w \in Tasks, NEW e \in task[w].todo, NEW pc \in Steps \ Placing, NEW r \in Seq(Steps),
              RestFits(pc, r)
       PROVE  Harmless([task[w] EXCEPT !.pc = pc, !.lot = e[1], !.fuse = e[2], !.seen = e[2],
                                       !.todo = @ \ {e}, !.rest = r])
  BY <1>2, <1>20, <1>21 DEF Harmless, Task
<1>22. ASSUME NEW w \in Tasks, NEW e \in task[w].todo, At(w, "round")
       PROVE  Harmless([task[w] EXCEPT !.todo = @ \ {e}])
  BY <1>2, <1>22 DEF At, Harmless, Task, RestFits, Placing, Canceling
<1>23. ASSUME NEW w \in Tasks, NEW e \in task[w].todo, RoundLot(w, e) PROVE IInv'
  <2>1. Harmless([task[w] EXCEPT !.pc = "attach", !.lot = e[1], !.fuse = e[2], !.seen = e[2],
                                 !.todo = @ \ {e}, !.rest = <<"round">>])
    BY <1>21, RestFacts DEF Steps, RestFits, Placing, Canceling
  <2>2. Harmless([task[w] EXCEPT !.pc = "clear", !.lot = e[1], !.fuse = e[2], !.seen = e[2],
                                 !.todo = @ \ {e}, !.rest = <<"attach", "round">>])
    BY <1>21, RestFacts DEF Steps, RestFits, Placing, Canceling
  <2>3. PICK t : Do(w, t) /\ Harmless(t)
    BY <1>2, <1>22, <1>23, <2>1, <2>2 DEF RoundLot, Task
  <2> QED
    BY <1>23, <2>3, Begins DEF RoundLot
<1>24. ASSUME NEW w \in Tasks, NEW e \in task[w].todo, Orphan(w, e) PROVE IInv'
  <2>1. Harmless([task[w] EXCEPT !.pc = "cancelRead", !.lot = e[1], !.fuse = e[2], !.seen = e[2],
                                 !.todo = @ \ {e}, !.rest = <<"clear", "orphans">>])
    BY <1>21, RestFacts DEF Steps, RestFits, Placing, Canceling
  <2>2. Harmless([task[w] EXCEPT !.pc = "clear", !.lot = e[1], !.fuse = e[2], !.seen = e[2],
                                 !.todo = @ \ {e}, !.rest = <<"orphans">>])
    BY <1>21, RestFacts DEF Steps, RestFits, Placing, Canceling
  <2>3. PICK t : Do(w, t) /\ Harmless(t)
    <3>1. CASE orders[e[2]].st = "NEW"
      BY <1>24, <2>1, <3>1 DEF Orphan
    <3>2. CASE orders[e[2]].st # "NEW"
      BY <1>24, <2>2, <3>2 DEF Orphan
    <3> QED
      BY <3>1, <3>2
  <2> QED
    BY <1>24, <2>3, Begins DEF Orphan
<1>25. ASSUME NEW w \in Tasks, NEW e \in task[w].todo, RoundReplaceThrows(w, e) PROVE IInv'
  BY <1>22, <1>25, Begins DEF RoundReplaceThrows
<1>26. ASSUME NEW w \in Tasks, NEW e \in task[w].todo, NEW f \in FuseIds, RoundReplace(w, e, f)
       PROVE  IInv'
  <2> DEFINE t == [task[w] EXCEPT !.pc = "send", !.lot = e[1], !.fuse = f, !.seen = e[2],
                                  !.todo = @ \ {e}, !.rest = <<"cancelRead", "round">>]
  <2>1. /\ t \in Task /\ t.pc = "send" /\ t.fuse = f /\ t.lot = e[1]
        /\ t.seen = e[2] /\ t.rest = <<"cancelRead", "round">>
    BY <1>2, <1>20, RestFacts DEF Task, Steps
  <2>2. RestFits("send", <<"cancelRead", "round">>)
    BY DEF RestFits, Placing, Canceling
  <2>3. Unused(f) /\ Do(w, t) /\ e[2] # NoFuse
    BY <1>26 DEF RoundReplace, Fresh
  <2>4. /\ orders' = [orders EXCEPT ![f] = [st |-> "NEW", known |-> FALSE, lot |-> t.lot]]
        /\ exch' = [exch EXCEPT ![f] = "none"]
        /\ recorded' = recorded \ {f} /\ UNCHANGED <<lots, faults>>
    BY <1>26, <2>1 DEF RoundReplace
  <2> HIDE DEF t
  <2> QED
    BY <2>1, <2>2, <2>3, <2>4, Inserts
<1>27. ASSUME NEW pc \in {"create", "closing"}, NEW l \in Lots
       PROVE  Harmless([Idle EXCEPT !.pc = pc, !.lot = l])
  BY DEF Harmless, Idle, Task, Steps, RestFits, Placing, Canceling
<1>28. ASSUME NEW pc \in {"cancelRead", "settle"}, NEW l \in Lots, NEW f \in FuseIds
       PROVE  Harmless([Idle EXCEPT !.pc = pc, !.lot = l, !.fuse = f])
  BY DEF Harmless, Idle, Task, Steps, RestFits, Placing, Canceling
<1>29. ASSUME NEW w \in Tasks, NEW l \in Lots, OpenFill(w, l) \/ PlaceClose(w, l) PROVE IInv'
  BY <1>27, <1>29, Begins DEF OpenFill, PlaceClose
<1>30. ASSUME NEW w \in Tasks, NEW f \in FuseIds, StopInstance(w, f) PROVE IInv'
  <2>1. orders[f].lot \in Lots
    BY <1>1 DEF FuseRow
  <2>2. PICK t : Do(w, t) /\ Harmless(t)
    BY <1>28, <1>30, <2>1 DEF StopInstance
  <2>3. TablesOK' /\ Steady /\ \A l \in Lots : Named(l)
    BY <1>1, <1>30, FuseAssumption DEF StopInstance, FaultLeft, TablesOK, Steady, Named
  <2> QED
    BY <2>2, <2>3, HarmlessIsFine, Frame
<1>31. ASSUME NEW w \in Tasks, NEW f \in FuseIds, SyncFuse(w, f) PROVE IInv'
  <2>1. orders[f].lot \in Lots
    BY <1>1 DEF FuseRow
  <2>2. PICK t : Do(w, t) /\ Harmless(t)
    BY <1>28, <1>31, <2>1 DEF SyncFuse
  <2>3. TablesOK' /\ Steady /\ \A l \in Lots : Named(l)
    BY <1>1, <1>31 DEF SyncFuse, TablesOK, Steady, Named
  <2> QED
    BY <2>2, <2>3, HarmlessIsFine, Frame
<1>32. ASSUME NEW l \in Lots, Archive(l) PROVE IInv'
  <2>1. lots' \in [Lots -> LotRow] /\ \A k \in Lots : lots'[k].fuse = lots[k].fuse
    BY <1>32, LotSaved DEF Archive, IInv
  <2>2. TablesOK' /\ Steady /\ \A k \in Lots : Named(k)
    BY <1>1, <1>32, <2>1 DEF Archive, TablesOK, Steady, Named
  <2> QED
    BY <1>32, <2>2, TablesOnly DEF Archive
<1>33. ASSUME NEW f \in FuseIds, Trigger(f) PROVE IInv'
  <2>1. exch' = [exch EXCEPT ![f] = "filled"] /\ UNCHANGED <<lots, orders, recorded, task, faults>>
    BY <1>33 DEF Trigger
  <2>2. TablesOK' /\ Steady /\ \A k \in Lots : Named(k)
    BY <1>1, <2>1 DEF TablesOK, Steady, Named
  <2> QED
    BY <2>1, <2>2, TablesOnly
<1>34. ASSUME Crash PROVE IInv'
  <2>1. TablesOK'
    BY <1>1, <1>34, FuseAssumption DEF Crash, FaultLeft, TablesOK
  <2>2. task' \in [Tasks -> Task] /\ \A w \in Tasks : task'[w] = Idle
    BY <1>34 DEF Crash
  <2>3. Harmless(Idle)
    BY DEF Harmless, RestFits, Placing, Canceling
  <2>4. \A w \in Tasks : Fine(task[w], orders, exch)'
    BY <2>2, <2>3, HarmlessIsFine
  <2>5. NamedFuseIsReal'
    BY <1>34 DEF Crash, NamedFuseIsReal, IInv
  <2> QED
    BY <2>1, <2>2, <2>4, <2>5 DEF IInv
<1>35. CASE UNCHANGED vars
  <2>1. TablesOK' /\ Steady /\ task' = task /\ \A k \in Lots : Named(k)
    BY <1>1, <1>35 DEF vars, TablesOK, Steady, Named
  <2> QED
    BY <2>1, TablesOnly
<1>36. ASSUME NEW w \in Tasks, Continue(w) PROVE IInv'
  BY <1>3, <1>4, <1>5, <1>6, <1>7, <1>8, <1>9, <1>10, <1>11, <1>12, <1>13, <1>14, <1>15, <1>16,
     <1>17, <1>18, <1>19, <1>23, <1>24, <1>25, <1>26, <1>36 DEF Continue
<1> QED
  BY <1>19, <1>29, <1>30, <1>31, <1>32, <1>33, <1>34, <1>35, <1>36 DEF Next

-----------------------------------------------------------------------------
LEMMA Invariance == Spec => []IInv
BY InitInvariant, StepInvariant, PTL DEF Spec

\* Types: the tables, the exchange and the local variables of every task.
THEOREM TypeCorrect == Spec => []TypeOK
<1>1. IInv => TypeOK
  BY DEF IInv, TablesOK, TypeOK
<1> QED
  BY <1>1, Invariance, PTL

\* A fuse a lot names was placed for this lot and has reached the exchange.
THEOREM FuseIsReal == Spec => []NamedFuseIsReal
<1>1. IInv => NamedFuseIsReal
  BY DEF IInv
<1> QED
  BY <1>1, Invariance, PTL
=============================================================================
