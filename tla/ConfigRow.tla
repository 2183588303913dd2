------------------------------ MODULE ConfigRow ------------------------------
(***************************************************************************)
(* The one row of the platform's configuration (futures-config.service.ts) *)
(* and the tasks that read it, change a field of what they read and save   *)
(* the whole of it: the admin's updates, the tick of the runner, which     *)
(* stamps the last run without waiting for it, and the boot.               *)
(* `save` compares what it is given with the row as it is by then, so what *)
(* the task read earlier is written back over what changed meanwhile.      *)
(***************************************************************************)
EXTENDS Integers, FiniteSets

CONSTANTS Editors,       \* updates of a setting
          Stampers,     \* ticks
          Intents,      \* the boot's take-over of an old running intent, which clears it
          Ratios,       \* values sent for the ratio, in thousandths
          Levers,       \* values sent for the leverage, in halves
          MaxTasks,     \* bound on the tasks
          MaxBreaks,    \* bound on the database's failures
          NoRow

ASSUME ConfigAssumption ==
    /\ Ratios \subseteq Int /\ Levers \subseteq Int /\ {MaxTasks, MaxBreaks} \subseteq Nat
    /\ Editors \cap Stampers = {} /\ Intents \cap (Editors \cup Stampers) = {}

VARIABLES row,      \* [leverage, ratio, stamp, intent], or NoRow
          works,    \* task -> where it is and the row it read
          begun, breaks,
          dropped   \* history: tasks that failed though the database did not

configVars == <<row, works, begun, breaks, dropped>>

Tasks == Editors \cup Stampers \cup Intents

Defaults == [leverage |-> 5, ratio |-> 100, stamp |-> 0, intent |-> FALSE]

Resting == [pc |-> "rest", read |-> NoRow, field |-> "none", to |-> 0]

\* The bounds an update puts on a value: a leverage is a whole number of at least 1 (a
\* half rounds up), a ratio lies between 0.001 and 1.
AtLeast(a, b) == IF a < b THEN b ELSE a
Normalized(field, v) ==
    CASE field = "leverage" -> AtLeast((v + 1) \div 2, 1)
      [] field = "ratio" -> IF v > 1000 THEN 1000 ELSE AtLeast(v, 1)
      [] OTHER -> v

\* A task goes to step pc with the row it has read.
Goes(t, pc, read) == works' = [works EXCEPT ![t] = [pc |-> pc, read |-> read, field |-> @.field, to |-> @.to]]

Changes(t) ==
    CASE t \in Editors -> {[field |-> "leverage", to |-> v] : v \in Levers}
                           \cup {[field |-> "ratio", to |-> v] : v \in Ratios}
      [] t \in Stampers -> {[field |-> "stamp", to |-> begun + 1]}
      [] OTHER -> {[field |-> "intent", to |-> 0]}

BeginTask ==
    /\ begun < MaxTasks /\ begun' = begun + 1
    /\ \E t \in Tasks : \E c \in Changes(t) :
          /\ works[t].pc = "rest"
          /\ works' = [works EXCEPT ![t] = [pc |-> "find", read |-> NoRow, field |-> c.field, to |-> c.to]]
    /\ UNCHANGED <<row, breaks, dropped>>

\* getOrCreate: the row, or the defaults, to be inserted.
Find ==
    /\ \E t \in Tasks :
          /\ works[t].pc = "find"
          /\ Goes(t, IF row = NoRow THEN "insert" ELSE "save", row)
    /\ UNCHANGED <<row, begun, breaks, dropped>>

\* Mutant: the refusal of the unique key is an error of the caller.
InsertRefused ==
    /\ \E t \in Tasks :
          /\ works[t].pc = "insert"
          /\ IF row = NoRow
               THEN /\ row' = Defaults /\ Goes(t, "save", Defaults)
                    /\ UNCHANGED dropped
               ELSE /\ works' = [works EXCEPT ![t] = Resting] /\ dropped' = dropped \cup {t}
                    /\ UNCHANGED row
    /\ UNCHANGED <<begun, breaks>>

\* Another caller may have inserted it: the unique key refuses, and the row is read again.
Insert ==
    /\ \E t \in Tasks :
          /\ works[t].pc = "insert"
          /\ IF row = NoRow
               THEN row' = Defaults /\ Goes(t, "save", Defaults)
               ELSE Goes(t, "find", NoRow) /\ UNCHANGED row
    /\ UNCHANGED <<begun, breaks, dropped>>

With(r, field, to) ==
    CASE field = "leverage" -> [r EXCEPT !.leverage = Normalized(field, to)]
      [] field = "ratio" -> [r EXCEPT !.ratio = Normalized(field, to)]
      [] field = "stamp" -> [r EXCEPT !.stamp = to]
      [] OTHER -> [r EXCEPT !.intent = FALSE]

\* The whole entity, as it was read, with its change.
Save ==
    /\ \E t \in Tasks :
          /\ works[t].pc = "save"
          /\ row' = With(works[t].read, works[t].field, works[t].to)
          /\ works' = [works EXCEPT ![t] = Resting]
    /\ UNCHANGED <<begun, breaks, dropped>>

\* A database error: the tick's is swallowed, the others answer it.
Breaks ==
    /\ breaks < MaxBreaks /\ breaks' = breaks + 1
    /\ \E t \in Tasks : works[t].pc # "rest" /\ works' = [works EXCEPT ![t] = Resting]
    /\ UNCHANGED <<row, begun, dropped>>

ConfigInit == row \in {NoRow, [Defaults EXCEPT !.intent = TRUE]} /\ works = [t \in Tasks |-> Resting] /\ begun = 0 /\ breaks = 0 /\ dropped = {}

ConfigNext == BeginTask \/ Find \/ Insert \/ Save \/ Breaks

ConfigSpec == ConfigInit /\ [][ConfigNext]_configVars

----------------------------------------------------------------------------
\* Whatever is sent and however the saves interleave, the row holds a leverage and a
\* ratio an order can be sized with, and no caller that found no row fails for it.
UsableRow ==
    /\ row # NoRow => row.leverage >= 1 /\ row.ratio \in 1..1000
    /\ dropped = {}

=============================================================================
