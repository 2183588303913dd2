------------------------- MODULE RunnerLifecycleProofs -------------------------
(***************************************************************************)
(* Proofs about RunnerLifecycle, for any instances, requests, breakers and *)
(* crashes: its state is well typed, and what a start or a stop promised   *)
(* is kept until the opposite begins.                                      *)
(*                                                                         *)
(* AckedIntentKept is not inductive: a task that is about to enter the map *)
(* or to write the intent could break the promise of another.  The         *)
(* invariant says why it does not: while a promise holds nobody works on   *)
(* the opposite (Promised), and a command that has met no opposite still   *)
(* meets none (Alone).                                                     *)
(***************************************************************************)
EXTENDS RunnerLifecycle, TLAPS

OnInstance == {"starting", "markRunning", "evaluate", "canceling", "markStopped"}
StopSteps  == {"canceling", "markStopped"}
StartSteps == {"starting", "markRunning"}

\* A task in the middle of something has an instance, and one that stops it
\* resumes none.
HasInstance ==
  \A w \in Workers :
    /\ task[w].pc \in OnInstance => task[w].inst \in Instances
    /\ task[w].pc \in StopSteps => task[w].queue = {}

\* While what was promised holds, nobody works on the opposite.
Promised ==
  \A i \in Instances :
    /\ acked[i] = "stopped" =>
         i \notin map /\ ~shouldRun[i] /\ \A v \in Workers : ~Starting(v, i)
    /\ acked[i] = "started" => shouldRun[i] /\ \A v \in Workers : ~Stopping(v, i)

\* A command alone has no opposite under way, and a stop alone that has left
\* the map finds the instance out of it.
AloneIn(w) == task[w].alone =>
  /\ task[w].pc \in StopSteps => \A v \in Workers : ~Starting(v, task[w].inst)
  /\ task[w].pc \in StartSteps => \A v \in Workers : ~Stopping(v, task[w].inst)
  /\ task[w].pc = "markStopped" => task[w].inst \notin map

Alone == \A w \in Workers : AloneIn(w)

\* The inductive invariant.
IInv == TypeOK /\ HasInstance /\ Promised /\ Alone

\* What every step of w is for the others: they stay where they are, and none
\* of them is alone that was not.
OthersStay(w) ==
  \A v \in Workers \ {w} :
    /\ task'[v].pc = task[v].pc /\ task'[v].inst = task[v].inst /\ task'[v].queue = task[v].queue
    /\ task'[v].alone => task[v].alone

\* w goes on as t, but for its alone.
GoesOn(w, t) == task'[w].pc = t.pc /\ task'[w].inst = t.inst /\ task'[w].queue = t.queue

\* Those who stay start and stop what they did.
LEMMA OthersSame ==
  ASSUME NEW w \in Workers, OthersStay(w), NEW v \in Workers \ {w}, NEW j
  PROVE  /\ Starting(v, j)' <=> Starting(v, j)
         /\ Stopping(v, j)' <=> Stopping(v, j)
BY DEF OthersStay, Starting, Stopping

\* A step of w leaves the others alone if it begins nothing against them.
LEMMA OthersAlone ==
  ASSUME HasInstance, Alone, map' = map, NEW w \in Workers, OthersStay(w),
         \A v \in Workers \ {w}, j \in Instances :
           task'[v].alone => /\ Stopping(v, j) => ~Starting(w, j)'
                             /\ Starting(v, j) => ~Stopping(w, j)'
  PROVE  \A v \in Workers \ {w} : AloneIn(v)'
<1> SUFFICES ASSUME NEW v \in Workers \ {w}, task'[v].alone PROVE AloneIn(v)'
  BY DEF AloneIn
<1>1. PICK j : j = task[v].inst
  OBVIOUS
<1>2. /\ task'[v].pc = task[v].pc /\ task'[v].inst = j /\ task[v].alone
      /\ task[v].pc \in OnInstance => j \in Instances
  BY <1>1 DEF OthersStay, HasInstance
<1>3. ASSUME task[v].pc \in StopSteps, NEW u \in Workers PROVE ~Starting(u, j)'
  <2>1. ~Starting(u, j) /\ Stopping(v, j) /\ j \in Instances
    BY <1>1, <1>2, <1>3 DEF Alone, AloneIn, Stopping, StopSteps, OnInstance
  <2> QED
    BY <2>1, OthersSame
<1>4. ASSUME task[v].pc \in StartSteps, NEW u \in Workers PROVE ~Stopping(u, j)'
  <2>1. ~Stopping(u, j) /\ Starting(v, j) /\ j \in Instances
    BY <1>1, <1>2, <1>4 DEF Alone, AloneIn, Starting, StartSteps, OnInstance
  <2> QED
    BY <2>1, OthersSame
<1>5. task[v].pc = "markStopped" => j \notin map'
  BY <1>1, <1>2 DEF Alone, AloneIn
<1> QED
  BY <1>2, <1>3, <1>4, <1>5 DEF AloneIn, Starting, Stopping

\* What the proofs use of the workers and the bounds.
LEMMA Domain ==
  /\ Booter \in Workers /\ Users \subseteq Workers /\ Breakers \subseteq Workers
  /\ MaxCrashes \in Nat /\ NoInstance \notin Instances
BY RunnerAssumption DEF Workers

\* What Meeting does when the opposite is a stop ...
LEMMA MeetingStops ==
  ASSUME TypeOK, NEW w \in Workers, NEW t \in Task, NEW S \in SUBSET Instances,
         Meeting(w, t, S, Stopping)
  PROVE  /\ task' \in [Workers -> Task] /\ OthersStay(w) /\ GoesOn(w, t)
         /\ task'[w].alone => \A v \in Workers \ {w}, i \in S : ~Stopping(v, i)
         /\ \A v \in Workers \ {w}, i \in S : Stopping(v, i) => ~task'[v].alone
<1>1. \A v \in Workers : task[v] \in Task
  BY DEF TypeOK
<1> QED
  BY <1>1 DEF Meeting, Task, OthersStay, GoesOn

\* ... and when it is a start.
LEMMA MeetingStarts ==
  ASSUME TypeOK, NEW w \in Workers, NEW t \in Task, NEW S \in SUBSET Instances,
         Meeting(w, t, S, Starting)
  PROVE  /\ task' \in [Workers -> Task] /\ OthersStay(w) /\ GoesOn(w, t)
         /\ task'[w].alone => \A v \in Workers \ {w}, i \in S : ~Starting(v, i)
         /\ \A v \in Workers \ {w}, i \in S : Starting(v, i) => ~task'[v].alone
<1>1. \A v \in Workers : task[v] \in Task
  BY DEF TypeOK
<1> QED
  BY <1>1 DEF Meeting, Task, OthersStay, GoesOn

\* Initially nothing runs and nothing was promised.
LEMMA InitInvariant == Init => IInv
<1> SUFFICES ASSUME Init PROVE IInv
  OBVIOUS
<1>1. /\ [Idle EXCEPT !.pc = "boot"] \in Task /\ Idle \in Task
      /\ \A w \in Workers : task[w] \in {[Idle EXCEPT !.pc = "boot"], Idle}
  BY DEF Init, Boot, Idle, Task
<1>2. TypeOK
  BY <1>1, RunnerAssumption DEF Init, Boot, TypeOK
<1> QED
  BY <1>1, <1>2
     DEF Init, IInv, Idle, HasInstance, Promised, Alone, AloneIn, OnInstance, StopSteps, StartSteps

\* A step of task w that goes on as t and meets nobody.
LEMMA MeetsNobody ==
  ASSUME TypeOK, NEW w \in Workers, NEW t \in Task, task' = [task EXCEPT ![w] = t]
  PROVE  /\ task' \in [Workers -> Task] /\ OthersStay(w) /\ GoesOn(w, t)
         /\ task'[w].alone = t.alone
BY DEF TypeOK, OthersStay, GoesOn

\* Task w goes on as t and so begins to start what is in S: the promises about
\* S are given up, and whoever stops it is not alone.
LEMMA StartBegins ==
  ASSUME IInv, NEW w \in Workers, NEW t \in Task, NEW S \in SUBSET Instances,
         Meeting(w, t, S, Stopping), UNCHANGED <<map, shouldRun, crashes>>,
         acked' \in [Instances -> {"none", "started", "stopped"}],
         \A j \in Instances : acked'[j] \in {"none", acked[j]},
         \A j \in S : acked'[j] # "stopped",
         t.pc \in {"next", "starting"},
         t.pc = "starting" => t.inst \in S,
         \A j \in t.queue : j \in S \/ Starting(w, j)
  PROVE  IInv'
<1>1. TypeOK /\ HasInstance /\ Promised /\ Alone
  BY DEF IInv
<1>2. /\ task' \in [Workers -> Task] /\ OthersStay(w) /\ GoesOn(w, t)
      /\ task'[w].alone => \A v \in Workers \ {w}, j \in S : ~Stopping(v, j)
      /\ \A v \in Workers \ {w}, j \in S : Stopping(v, j) => ~task'[v].alone
  BY <1>1, MeetingStops
<1>3. t.queue \subseteq Instances
  BY DEF Task
<1>4. \A j \in Instances : ~Stopping(w, j)' /\ (Starting(w, j)' => j \in S \/ Starting(w, j))
  BY <1>2 DEF GoesOn, Starting, Stopping
<1>5. TypeOK'
  BY <1>1, <1>2 DEF TypeOK
<1>6. HasInstance'
  BY <1>1, <1>2 DEF HasInstance, GoesOn, OthersStay, OnInstance, StopSteps
<1>7. Promised'
  <2>1. ASSUME NEW i \in Instances, acked'[i] = "stopped"
        PROVE  i \notin map /\ ~shouldRun[i] /\ \A v \in Workers : ~Starting(v, i)'
    <3>1. acked[i] = "stopped" /\ i \notin S
      BY <2>1
    <3> QED
      BY <1>1, <1>2, <1>4, <3>1, OthersSame DEF Promised
  <2>2. ASSUME NEW i \in Instances, acked'[i] = "started"
        PROVE  shouldRun[i] /\ \A v \in Workers : ~Stopping(v, i)'
    <3>1. acked[i] = "started"
      BY <2>2
    <3> QED
      BY <1>1, <1>2, <1>4, <3>1, OthersSame DEF Promised
  <2> QED
    BY <2>1, <2>2 DEF Promised
<1>8. AloneIn(w)'
  <2>1. task'[w].alone /\ task'[w].pc \in StartSteps =>
          \A v \in Workers : ~Stopping(v, t.inst)'
    BY <1>2, <1>4, OthersSame DEF GoesOn, StartSteps
  <2> QED
    BY <1>2, <2>1 DEF AloneIn, GoesOn, StopSteps, StartSteps, Starting, Stopping
<1>9. \A v \in Workers \ {w}, j \in Instances :
        task'[v].alone => /\ Stopping(v, j) => ~Starting(w, j)'
                          /\ Starting(v, j) => ~Stopping(w, j)'
  <2> SUFFICES ASSUME NEW v \in Workers \ {w}, NEW j \in Instances, task'[v].alone,
                      Stopping(v, j), Starting(w, j)'
               PROVE  FALSE
    BY <1>4
  <2>1. Starting(w, j)
    BY <1>2, <1>4
  <2>2. task[v].alone /\ task[v].pc \in StopSteps /\ task[v].inst = j
    BY <1>2 DEF OthersStay, Stopping, StopSteps
  <2> QED
    BY <1>1, <2>1, <2>2 DEF Alone, AloneIn
<1>10. Alone'
  BY <1>1, <1>2, <1>8, <1>9, OthersAlone DEF Alone
<1> QED
  BY <1>5, <1>6, <1>7, <1>10 DEF IInv

\* Task w begins to stop i: the promise that it runs is given up, and whoever
\* starts it is not alone.
LEMMA StopBegins ==
  ASSUME IInv, NEW w \in Workers, NEW i \in Instances, StopBegin(w, i)
  PROVE  IInv'
<1>1. TypeOK /\ HasInstance /\ Promised /\ Alone
  BY DEF IInv
<1>2. PICK pc \in StopSteps :
        /\ Meeting(w, [Idle EXCEPT !.pc = pc, !.inst = i], {i}, Starting)
        /\ pc = "markStopped" => i \notin map
  BY DEF StopBegin, StopSteps
<1>3. PICK t : t = [Idle EXCEPT !.pc = pc, !.inst = i]
  OBVIOUS
<1>4. t \in Task /\ t.pc = pc /\ t.inst = i /\ t.queue = {}
  BY <1>3 DEF Idle, Task, StopSteps
<1>5. /\ task' \in [Workers -> Task] /\ OthersStay(w) /\ GoesOn(w, t)
      /\ task'[w].alone => \A v \in Workers \ {w}, j \in {i} : ~Starting(v, j)
      /\ \A v \in Workers \ {w}, j \in {i} : Starting(v, j) => ~task'[v].alone
  <2>1. {i} \in SUBSET Instances /\ Meeting(w, t, {i}, Starting)
    BY <1>2, <1>3
  <2> QED
    BY <1>1, <1>4, <2>1, MeetingStarts
<1>6. \A j \in Instances : ~Starting(w, j)' /\ (Stopping(w, j)' => j = i)
  BY <1>4, <1>5 DEF GoesOn, Starting, Stopping, StopSteps
<1>7. UNCHANGED <<map, shouldRun, crashes>>
  BY DEF StopBegin
<1>8. /\ acked' \in [Instances -> {"none", "started", "stopped"}]
      /\ \A j \in Instances : acked'[j] \in {"none", acked[j]}
      /\ acked'[i] # "started"
  BY <1>1 DEF StopBegin, TypeOK
<1>9. TypeOK'
  BY <1>1, <1>5, <1>7, <1>8 DEF TypeOK
<1>10. HasInstance'
  BY <1>1, <1>4, <1>5 DEF HasInstance, GoesOn, OthersStay, OnInstance, StopSteps
<1>11. Promised'
  <2>1. ASSUME NEW j \in Instances, acked'[j] = "stopped"
        PROVE  j \notin map' /\ ~shouldRun'[j] /\ \A v \in Workers : ~Starting(v, j)'
    <3>1. acked[j] = "stopped"
      BY <1>8, <2>1
    <3> QED
      BY <1>1, <1>5, <1>6, <1>7, <3>1, OthersSame DEF Promised
  <2>2. ASSUME NEW j \in Instances, acked'[j] = "started"
        PROVE  shouldRun'[j] /\ \A v \in Workers : ~Stopping(v, j)'
    <3>1. acked[j] = "started" /\ j # i
      BY <1>8, <2>2
    <3> QED
      BY <1>1, <1>5, <1>6, <1>7, <3>1, OthersSame DEF Promised
  <2> QED
    BY <2>1, <2>2 DEF Promised
<1>12. AloneIn(w)'
  <2>1. task'[w].alone => \A v \in Workers : ~Starting(v, i)'
    BY <1>5, <1>6, OthersSame
  <2> QED
    BY <1>2, <1>4, <1>5, <1>7, <2>1
       DEF AloneIn, GoesOn, StopSteps, StartSteps, Starting, Stopping
<1>13. \A v \in Workers \ {w}, j \in Instances :
         task'[v].alone => /\ Stopping(v, j) => ~Starting(w, j)'
                           /\ Starting(v, j) => ~Stopping(w, j)'
  BY <1>5, <1>6
<1>14. Alone'
  BY <1>1, <1>5, <1>7, <1>12, <1>13, OthersAlone DEF Alone
<1> QED
  BY <1>9, <1>10, <1>11, <1>14 DEF IInv

\* Every step keeps the invariant: one step of the proof per action.
LEMMA StepInvariant == IInv /\ [Next]_vars => IInv'
<1> SUFFICES ASSUME IInv, [Next]_vars
             PROVE  IInv'
  OBVIOUS
<1> USE Domain
<1>1. TypeOK /\ HasInstance /\ Promised /\ Alone
  BY DEF IInv
<1>2. \A w \in Workers : task[w] \in Task
  BY <1>1 DEF TypeOK
<1>3. ASSUME NEW w \in Workers, NEW i \in Instances, StartRequest(w, i) PROVE IInv'
  <2>1. PICK t : t = [Idle EXCEPT !.pc = "starting", !.inst = i]
    OBVIOUS
  <2>2. t \in Task /\ t.pc = "starting" /\ t.inst = i /\ t.queue = {}
    BY <2>1 DEF Idle, Task
  <2>3. Meeting(w, t, {i}, Stopping) /\ UNCHANGED <<map, shouldRun, crashes>>
    BY <1>3, <2>1 DEF StartRequest
  <2>4. /\ acked' \in [Instances -> {"none", "started", "stopped"}]
        /\ \A j \in Instances : acked'[j] \in {"none", acked[j]}
        /\ acked'[i] # "stopped"
    BY <1>1, <1>3 DEF StartRequest, TypeOK
  <2> QED
    BY <2>2, <2>3, <2>4, StartBegins
<1>4. ASSUME NEW w \in Workers, StartRefused(w) PROVE IInv'
  <2>1. PICK t : t = Finished(w)
    OBVIOUS
  <2>2. t \in Task
    BY <1>1, <1>2, <1>4, <2>1 DEF StartRefused, At, Task, HasInstance, OnInstance, Finished, Idle
  <2>3. task' = [task EXCEPT ![w] = t]
    BY <1>2, <1>4, <2>1 DEF StartRefused
  <2>4. TypeOK'
    BY <1>1, <1>2, <1>4, <2>2, <2>3, MeetsNobody
       DEF StartRefused, TypeOK, At, HasInstance, OnInstance
  <2>5. HasInstance' /\ Promised' /\ Alone'
    BY <1>1, <1>2, <1>4, <2>1, <2>2, <2>3, MeetsNobody
       DEF StartRefused, Finished, Idle, TypeOK, At, Task, OthersStay, GoesOn, HasInstance, Promised, Alone,
           AloneIn, Starting, Stopping, OnInstance, StopSteps, StartSteps
  <2> QED
    BY <2>4, <2>5 DEF IInv
<1>5. ASSUME NEW w \in Workers, Enter(w) PROVE IInv'
  <2>1. PICK t : t = [task[w] EXCEPT !.pc = "markRunning"]
    OBVIOUS
  <2>2. t \in Task
    BY <1>1, <1>2, <1>5, <2>1 DEF Enter, At, Task, HasInstance, OnInstance, Go
  <2>3. task' = [task EXCEPT ![w] = t]
    BY <1>2, <1>5, <2>1 DEF Enter, Go
  <2>4. TypeOK'
    BY <1>1, <1>2, <1>5, <2>2, <2>3, MeetsNobody
       DEF Enter, TypeOK, At, HasInstance, OnInstance
  <2>5. HasInstance' /\ Promised' /\ Alone'
    BY <1>1, <1>2, <1>5, <2>1, <2>2, <2>3, MeetsNobody
       DEF Enter, Go, TypeOK, At, Task, OthersStay, GoesOn, HasInstance, Promised, Alone,
           AloneIn, Starting, Stopping, OnInstance, StopSteps, StartSteps
  <2> QED
    BY <2>4, <2>5 DEF IInv
<1>6. ASSUME NEW w \in Workers, MarkRunning(w) PROVE IInv'
  <2>1. PICK t : t = Finished(w)
    OBVIOUS
  <2>2. t \in Task
    BY <1>1, <1>2, <1>6, <2>1 DEF MarkRunning, At, Task, HasInstance, OnInstance, Finished, Idle
  <2>3. task' = [task EXCEPT ![w] = t]
    BY <1>2, <1>6, <2>1 DEF MarkRunning
  <2>4. TypeOK'
    BY <1>1, <1>2, <1>6, <2>2, <2>3, MeetsNobody
       DEF MarkRunning, TypeOK, At, HasInstance, OnInstance
  <2>5. HasInstance' /\ Promised' /\ Alone'
    BY <1>1, <1>2, <1>6, <2>1, <2>2, <2>3, MeetsNobody
       DEF MarkRunning, Finished, Idle, TypeOK, At, Task, OthersStay, GoesOn, HasInstance, Promised, Alone,
           AloneIn, Starting, Stopping, OnInstance, StopSteps, StartSteps
  <2> QED
    BY <2>4, <2>5 DEF IInv
<1>7. ASSUME NEW w \in Workers, NEW i \in Instances, StopRequest(w, i) PROVE IInv'
  BY <1>7, StopBegins DEF StopRequest
<1>8. ASSUME NEW w \in Workers, NEW i \in Instances, Evaluate(w, i) PROVE IInv'
  <2>1. PICK t : t = [Idle EXCEPT !.pc = "evaluate", !.inst = i]
    OBVIOUS
  <2>2. t \in Task
    BY <1>1, <1>2, <1>8, <2>1 DEF Evaluate, At, Task, HasInstance, OnInstance, Idle
  <2>3. task' = [task EXCEPT ![w] = t]
    BY <1>2, <1>8, <2>1 DEF Evaluate
  <2>4. TypeOK'
    BY <1>1, <1>2, <1>8, <2>2, <2>3, MeetsNobody
       DEF Evaluate, TypeOK, At, HasInstance, OnInstance
  <2>5. HasInstance' /\ Promised' /\ Alone'
    BY <1>1, <1>2, <1>8, <2>1, <2>2, <2>3, MeetsNobody
       DEF Evaluate, Idle, TypeOK, At, Task, OthersStay, GoesOn, HasInstance, Promised, Alone,
           AloneIn, Starting, Stopping, OnInstance, StopSteps, StartSteps
  <2> QED
    BY <2>4, <2>5 DEF IInv
<1>9. ASSUME NEW w \in Workers, Trip(w) PROVE IInv'
  <2>1. task[w].inst \in Instances /\ StopBegin(w, task[w].inst)
    BY <1>1, <1>9 DEF Trip, At, HasInstance, OnInstance
  <2> QED
    BY <2>1, StopBegins
<1>10. ASSUME NEW w \in Workers, NoTrip(w) PROVE IInv'
  <2>1. PICK t : t = Idle
    OBVIOUS
  <2>2. t \in Task
    BY <1>1, <1>2, <1>10, <2>1 DEF NoTrip, At, Task, HasInstance, OnInstance, Idle
  <2>3. task' = [task EXCEPT ![w] = t]
    BY <1>2, <1>10, <2>1 DEF NoTrip
  <2>4. TypeOK'
    BY <1>1, <1>2, <1>10, <2>2, <2>3, MeetsNobody
       DEF NoTrip, TypeOK, At, HasInstance, OnInstance
  <2>5. HasInstance' /\ Promised' /\ Alone'
    BY <1>1, <1>2, <1>10, <2>1, <2>2, <2>3, MeetsNobody
       DEF NoTrip, Idle, TypeOK, At, Task, OthersStay, GoesOn, HasInstance, Promised, Alone,
           AloneIn, Starting, Stopping, OnInstance, StopSteps, StartSteps
  <2> QED
    BY <2>4, <2>5 DEF IInv
<1>11. ASSUME NEW w \in Workers, Leave(w) PROVE IInv'
  <2>1. PICK t : t = [task[w] EXCEPT !.pc = "markStopped"]
    OBVIOUS
  <2>2. t \in Task
    BY <1>1, <1>2, <1>11, <2>1 DEF Leave, At, Task, HasInstance, OnInstance, Go
  <2>3. task' = [task EXCEPT ![w] = t]
    BY <1>2, <1>11, <2>1 DEF Leave, Go
  <2>4. TypeOK'
    BY <1>1, <1>2, <1>11, <2>2, <2>3, MeetsNobody
       DEF Leave, TypeOK, At, HasInstance, OnInstance
  <2>5. HasInstance' /\ Promised' /\ Alone'
    BY <1>1, <1>2, <1>11, <2>1, <2>2, <2>3, MeetsNobody
       DEF Leave, Go, TypeOK, At, Task, OthersStay, GoesOn, HasInstance, Promised, Alone,
           AloneIn, Starting, Stopping, OnInstance, StopSteps, StartSteps
  <2> QED
    BY <2>4, <2>5 DEF IInv
<1>12. ASSUME NEW w \in Workers, MarkStopped(w) PROVE IInv'
  <2>1. PICK t : t = Idle
    OBVIOUS
  <2>2. t \in Task
    BY <1>1, <1>2, <1>12, <2>1 DEF MarkStopped, At, Task, HasInstance, OnInstance, Idle
  <2>3. task' = [task EXCEPT ![w] = t]
    BY <1>2, <1>12, <2>1 DEF MarkStopped
  <2>4. TypeOK'
    BY <1>1, <1>2, <1>12, <2>2, <2>3, MeetsNobody
       DEF MarkStopped, TypeOK, At, HasInstance, OnInstance
  <2>5. HasInstance' /\ Promised' /\ Alone'
    BY <1>1, <1>2, <1>12, <2>1, <2>2, <2>3, MeetsNobody
       DEF MarkStopped, Idle, TypeOK, At, Task, OthersStay, GoesOn, HasInstance, Promised, Alone,
           AloneIn, Starting, Stopping, OnInstance, StopSteps, StartSteps
  <2> QED
    BY <2>4, <2>5 DEF IInv
<1>13. CASE Resume
  <2> DEFINE S == {i \in Instances : shouldRun[i]}
  <2>1. PICK t : t = [Idle EXCEPT !.pc = "next", !.queue = S]
    OBVIOUS
  <2>2. t \in Task /\ t.pc = "next" /\ t.queue = S
    BY <2>1 DEF Idle, Task
  <2>3. Meeting(Booter, t, S, Stopping) /\ UNCHANGED <<map, shouldRun, acked, crashes>>
    BY <1>13, <2>1 DEF Resume
  <2>4. /\ acked' \in [Instances -> {"none", "started", "stopped"}]
        /\ \A j \in Instances : acked'[j] \in {"none", acked[j]}
        /\ \A j \in S : acked'[j] # "stopped"
    BY <1>1, <2>3 DEF TypeOK, Promised
  <2>5. S \in SUBSET Instances
    OBVIOUS
  <2> HIDE DEF S
  <2> QED
    BY <2>2, <2>3, <2>4, <2>5, StartBegins
<1>14. ASSUME NEW i \in Instances, ResumeNext(i) PROVE IInv'
  <2>1. CASE i \in map
    <3>1. PICK t : t = [task[Booter] EXCEPT !.queue = @ \ {i}]
      OBVIOUS
    <3>2. t \in Task
      BY <1>2, <3>1 DEF Task
    <3>3. task' = [task EXCEPT ![Booter] = t]
      BY <1>2, <1>14, <2>1, <3>1 DEF ResumeNext
    <3>4. TypeOK'
      BY <1>1, <1>14, <2>1, <3>2, <3>3, MeetsNobody DEF ResumeNext, TypeOK
    <3>5. HasInstance' /\ Promised' /\ Alone'
      BY <1>1, <1>2, <1>14, <2>1, <3>1, <3>2, <3>3, MeetsNobody
         DEF ResumeNext, TypeOK, At, Task, OthersStay, GoesOn, HasInstance, Promised, Alone,
             AloneIn, Starting, Stopping, OnInstance, StopSteps, StartSteps
    <3> QED
      BY <3>4, <3>5 DEF IInv
  <2>2. CASE i \notin map
    <3>1. PICK t : t = [task[Booter] EXCEPT !.pc = "starting", !.inst = i, !.queue = @ \ {i}]
      OBVIOUS
    <3>2. /\ t \in Task /\ t.pc = "starting" /\ t.inst = i
          /\ \A j \in t.queue : Starting(Booter, j)
      BY <1>2, <3>1 DEF Task, Starting
    <3>3. Meeting(Booter, t, {i}, Stopping) /\ UNCHANGED <<map, shouldRun, acked, crashes>>
      BY <1>14, <2>2, <3>1 DEF ResumeNext
    <3>4. /\ acked' \in [Instances -> {"none", "started", "stopped"}]
          /\ \A j \in Instances : acked'[j] \in {"none", acked[j]}
          /\ acked'[i] # "stopped"
      BY <1>1, <1>14, <3>3 DEF ResumeNext, TypeOK, Promised, Starting
    <3> QED
      BY <3>2, <3>3, <3>4, StartBegins
  <2> QED
    BY <2>1, <2>2
<1>15. CASE Crash
  <2>1. /\ [Idle EXCEPT !.pc = "boot"] \in Task /\ Idle \in Task
        /\ task' \in [Workers -> {[Idle EXCEPT !.pc = "boot"], Idle}]
    BY <1>15 DEF Crash, Boot, Idle, Task
  <2>2. TypeOK'
    BY <1>1, <1>15, <2>1 DEF Crash, TypeOK
  <2>3. \A w \in Workers : task'[w].pc \in {"boot", "idle"} /\ task'[w].queue = {}
    BY <2>1 DEF Idle
  <2> QED
    BY <1>1, <1>15, <2>2, <2>3
       DEF IInv, Crash, HasInstance, Promised, Alone, AloneIn, Starting, Stopping,
           OnInstance, StopSteps, StartSteps
<1>16. CASE UNCHANGED vars
  BY <1>1, <1>16
     DEF vars, IInv, TypeOK, HasInstance, Promised, Alone, AloneIn, Starting, Stopping
<1> QED
  BY <1>3, <1>4, <1>5, <1>6, <1>7, <1>8, <1>9, <1>10, <1>11, <1>12, <1>13, <1>14, <1>15, <1>16
     DEF Next, Begin, Continue, Resumption

\* The state stays well typed: the map, the intents and the tasks.
THEOREM TypeCorrect == Spec => []TypeOK
<1>1. IInv => TypeOK
  BY DEF IInv
<1> QED
  BY <1>1, InitInvariant, StepInvariant, PTL DEF Spec

\* What a start or a stop promised is kept until the opposite begins: a stopped
\* instance neither runs nor has its intent in the table, and a started one
\* has, for any number of requests, breakers and crashes.
THEOREM PromiseKept == Spec => []AckedIntentKept
<1>1. IInv => AckedIntentKept
  BY DEF IInv, Promised, AckedIntentKept
<1> QED
  BY <1>1, InitInvariant, StepInvariant, PTL DEF Spec
=============================================================================
