--------------------------- MODULE MCSyncService ---------------------------
(* SyncService for TLC: the credentials of a source are interchangeable.   *)
EXTENDS SyncService, TLC

Symmetry == Permutations(Origin)

(* Bound of the run about answers: explore up to the signal.               *)
Serving == mainPc = "serving" /\ ~ctxDone
=============================================================================
