---------------------------- MODULE LotLifecycle ----------------------------
(***************************************************************************)
(* What position_lots promises about one opening order: it is held at most *)
(* once.  There is no lot, then an open one, then a closed one, and a      *)
(* closed one is closed for good ("OPEN→CLOSED 才算完结").  Several are      *)
(* closed in one step when lots the exchange no longer holds are archived. *)
(***************************************************************************)
CONSTANT Orders

VARIABLE held

Init == held = [o \in Orders |-> "none"]

Open(o) == /\ held[o] = "none"
           /\ held' = [held EXCEPT ![o] = "open"]

Close(S) == /\ \A o \in S : held[o] = "open"
            /\ held' = [o \in Orders |-> IF o \in S THEN "closed" ELSE held[o]]

Next == (\E o \in Orders : Open(o)) \/ (\E S \in SUBSET Orders : Close(S))

Spec == Init /\ [][Next]_held
=============================================================================
