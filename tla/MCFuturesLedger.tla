--------------------------- MODULE MCFuturesLedger ---------------------------
(* Values for model-checking FuturesLedger. *)
EXTENDS FuturesLedger, TLC

\* Tasks of one kind are interchangeable.
TaskSymmetry == Permutations(Manual) \cup Permutations(Syncers) \cup Permutations(Repairers)
=============================================================================
