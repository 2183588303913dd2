--------------------------- MODULE RunnerLifecycle ---------------------------
(***************************************************************************)
(* The strategy runner: which instances run, and which are to run again    *)
(* after a restart.  The map of running instances lives in memory, the     *)
(* running intent in strategy_instances."shouldRun", and three kinds of    *)
(* task work on both, interleaved at every await:                          *)
(*                                                                         *)
(*   - requests (HTTP, chat) that start or stop an instance;               *)
(*   - the circuit breaker, which stops an instance after its evaluation;  *)
(*   - the resumption 8 s after boot, which starts what is to run.         *)
(*                                                                         *)
(* What a start does to the lots is in FuturesLedger, and what a stop does *)
(* to the stop orders is in StopOrders; here they take time.  The table    *)
(* has a row for every instance from the beginning.                        *)
(***************************************************************************)
EXTENDS Naturals

CONSTANTS
  Instances,      \* strategy:symbol
  Users,          \* requests
  Breakers,       \* evaluations after a closed basket
  Booter,         \* the resumption
  NoInstance,
  ResumeMayFail,  \* may a start fail during the resumption
  MaxCrashes      \* crashes of the process (bounds the model)

Workers == Users \cup Breakers \cup {Booter}

ASSUME RunnerAssumption ==
  /\ MaxCrashes \in Nat /\ ResumeMayFail \in BOOLEAN
  /\ Users \cap Breakers = {} /\ Booter \notin Users \cup Breakers
  /\ NoInstance \notin Instances

VARIABLES
  map,        \* this.instances: the instances in memory
  shouldRun,  \* column shouldRun of strategy_instances
  task,       \* control and local variables of every task
  acked,      \* history: the last start or stop of an instance that returned
              \* and met no opposite one
  crashes

vars == <<map, shouldRun, task, acked, crashes>>

Task == [pc: {"idle", "boot", "next", "starting", "markRunning",
              "evaluate", "canceling", "markStopped"},
         inst: Instances \cup {NoInstance},
         queue: SUBSET Instances,  \* rows the resumption has still to start
         alone: BOOLEAN]           \* history: no opposite command was met

Idle == [pc |-> "idle", inst |-> NoInstance, queue |-> {}, alone |-> FALSE]
Boot == [w \in Workers |-> IF w = Booter THEN [Idle EXCEPT !.pc = "boot"] ELSE Idle]

TypeOK ==
  /\ map \subseteq Instances
  /\ shouldRun \in [Instances -> BOOLEAN]
  /\ task \in [Workers -> Task]
  /\ acked \in [Instances -> {"none", "started", "stopped"}]
  /\ crashes \in 0..MaxCrashes

Init ==
  /\ map = {}
  /\ shouldRun = [i \in Instances |-> FALSE]
  /\ task = Boot
  /\ acked = [i \in Instances |-> "none"]
  /\ crashes = 0

At(w, step) == task[w].pc = step
Go(w, step) == task' = [task EXCEPT ![w].pc = step]
Finished(w) == IF w = Booter THEN [task[w] EXCEPT !.pc = "next", !.inst = NoInstance] ELSE Idle

\* A start, or a stop, of the instance is under way.
Starting(w, i) == \/ task[w].inst = i /\ task[w].pc \in {"starting", "markRunning"}
                  \/ i \in task[w].queue
Stopping(w, i) == task[w].inst = i /\ task[w].pc \in {"canceling", "markStopped"}

\* w goes on as t, and meets what Other says is under way for an instance of
\* S: neither of the two is alone.
Meeting(w, t, S, Other(_, _)) ==
  task' = [v \in Workers |->
             IF v = w THEN [t EXCEPT !.alone = \A u \in Workers \ {w}, i \in S : ~Other(u, i)]
             ELSE IF \E i \in S : Other(v, i) THEN [task[v] EXCEPT !.alone = FALSE]
             ELSE task[v]]

-----------------------------------------------------------------------------
(* startInstance *)

\* An instance in the map is refused.  Otherwise positions are read, lots are
\* archived and adopted and hedge mode is switched on, and the map is not
\* looked at again.
StartRequest(w, i) ==
  /\ w \in Users /\ At(w, "idle") /\ i \notin map
  /\ Meeting(w, [Idle EXCEPT !.pc = "starting", !.inst = i], {i}, Stopping)
  /\ acked' = [acked EXCEPT ![i] = IF @ = "stopped" THEN "none" ELSE @]
  /\ UNCHANGED <<map, shouldRun, crashes>>

\* A position nobody owns blocks it, or hedge mode cannot be switched on.
StartRefused(w) ==
  /\ At(w, "starting")
  /\ w = Booter => ResumeMayFail
  /\ task' = [task EXCEPT ![w] = Finished(w)]
  /\ UNCHANGED <<map, shouldRun, acked, crashes>>

Enter(w) ==
  /\ At(w, "starting")
  /\ map' = map \cup {task[w].inst}
  /\ Go(w, "markRunning")
  /\ UNCHANGED <<shouldRun, acked, crashes>>

MarkRunning(w) ==
  LET i == task[w].inst IN
  /\ At(w, "markRunning")
  /\ shouldRun' = [shouldRun EXCEPT ![i] = TRUE]
  /\ acked' = [acked EXCEPT ![i] = IF task[w].alone THEN "started" ELSE @]
  /\ task' = [task EXCEPT ![w] = Finished(w)]
  /\ UNCHANGED <<map, crashes>>

\* resumeIfShould reads the rows once ...
Resume ==
  LET S == {i \in Instances : shouldRun[i]} IN
  /\ At(Booter, "boot")
  /\ Meeting(Booter, [Idle EXCEPT !.pc = "next", !.queue = S], S, Stopping)
  /\ UNCHANGED <<map, shouldRun, acked, crashes>>

\* (a mistake the code avoids) the first instance is resumed and the rest is not
ResumeFirst(i) ==
  /\ At(Booter, "next") /\ i \in task[Booter].queue
  /\ Meeting(Booter, [task[Booter] EXCEPT !.pc = "starting", !.inst = i, !.queue = {}],
             {i}, Stopping)
  /\ UNCHANGED <<map, shouldRun, acked, crashes>>

\* ... and starts them one after the other, unless they run already.
ResumeNext(i) ==
  /\ At(Booter, "next") /\ i \in task[Booter].queue
  /\ IF i \in map
     THEN task' = [task EXCEPT ![Booter].queue = @ \ {i}]
     ELSE Meeting(Booter, [task[Booter] EXCEPT !.pc = "starting", !.inst = i, !.queue = @ \ {i}],
                  {i}, Stopping)
  /\ UNCHANGED <<map, shouldRun, acked, crashes>>

-----------------------------------------------------------------------------
(* stopInstance, by request or by the circuit breaker *)

\* An instance in the map has its orders cancelled first; the intent is
\* cleared in any case.
StopBegin(w, i) ==
  /\ Meeting(w, [Idle EXCEPT !.pc = IF i \in map THEN "canceling" ELSE "markStopped", !.inst = i],
             {i}, Starting)
  /\ acked' = [acked EXCEPT ![i] = IF @ = "started" THEN "none" ELSE @]
  /\ UNCHANGED <<map, shouldRun, crashes>>

\* (a mistake the code avoids) an instance that does not run needs no stop
StopRunningOnly(w, i) ==
  /\ w \in Users /\ At(w, "idle")
  /\ IF i \in map THEN StopBegin(w, i)
     ELSE /\ acked' = [acked EXCEPT ![i] = IF \E v \in Workers : Starting(v, i)
                                           THEN @ ELSE "stopped"]
          /\ UNCHANGED <<map, shouldRun, task, crashes>>

StopRequest(w, i) == w \in Users /\ At(w, "idle") /\ StopBegin(w, i)

\* A basket of a running instance was closed: evaluate reads the closed ones.
Evaluate(w, i) ==
  /\ w \in Breakers /\ At(w, "idle") /\ i \in map
  /\ task' = [task EXCEPT ![w] = [Idle EXCEPT !.pc = "evaluate", !.inst = i]]
  /\ UNCHANGED <<map, shouldRun, acked, crashes>>

\* The verdict: tripProtection stops the instance, or nothing happens.
Trip(w) == At(w, "evaluate") /\ StopBegin(w, task[w].inst)

NoTrip(w) ==
  /\ At(w, "evaluate")
  /\ task' = [task EXCEPT ![w] = Idle]
  /\ UNCHANGED <<map, shouldRun, acked, crashes>>

\* The orders are cancelled, or not: the instance leaves the map.
Leave(w) ==
  /\ At(w, "canceling")
  /\ map' = map \ {task[w].inst}
  /\ Go(w, "markStopped")
  /\ UNCHANGED <<shouldRun, acked, crashes>>

MarkStopped(w) ==
  LET i == task[w].inst IN
  /\ At(w, "markStopped")
  /\ shouldRun' = [shouldRun EXCEPT ![i] = FALSE]
  /\ acked' = [acked EXCEPT ![i] = IF task[w].alone THEN "stopped" ELSE @]
  /\ task' = [task EXCEPT ![w] = Idle]
  /\ UNCHANGED <<map, crashes>>

-----------------------------------------------------------------------------

\* The process dies and starts again; the table stays.
Crash ==
  /\ crashes < MaxCrashes
  /\ crashes' = crashes + 1
  /\ map' = {}
  /\ task' = Boot
  /\ UNCHANGED <<shouldRun, acked>>

Begin(w) == \E i \in Instances : StartRequest(w, i) \/ StopRequest(w, i) \/ Evaluate(w, i)

Continue(w) == \/ StartRefused(w) \/ Enter(w) \/ MarkRunning(w)
               \/ Trip(w) \/ NoTrip(w) \/ Leave(w) \/ MarkStopped(w)

Resumption == Resume \/ \E i \in Instances : ResumeNext(i)

Next ==
  \/ \E w \in Workers : Begin(w) \/ Continue(w)
  \/ Resumption
  \/ Crash

Spec == Init /\ [][Next]_vars

\* The event loop goes on with what has begun, and the timer of the resumption
\* fires.
Fairness == WF_vars(Resumption) /\ \A w \in Workers : WF_vars(Continue(w))
FairSpec == Spec /\ Fairness

-----------------------------------------------------------------------------
(* Properties *)

\* What a start or a stop has promised holds until the opposite begins,
\* through evaluations, crashes and the resumption: a stopped instance neither
\* runs nor comes back, and a started one has its intent in the table.  A start
\* and a stop that overlap promise nothing.
AckedIntentKept ==
  \A i \in Instances :
    /\ acked[i] = "stopped" => i \notin map /\ ~shouldRun[i]
    /\ acked[i] = "started" => shouldRun[i]

\* A started instance runs again after any crash, unless somebody stops it.
ComesBack ==
  \A i \in Instances : (acked[i] = "started") ~> (i \in map \/ acked[i] # "started")

=============================================================================
