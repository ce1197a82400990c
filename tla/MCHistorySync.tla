--------------------------- MODULE MCHistorySync ---------------------------
(* HistorySync for TLC: the models are interchangeable. *)
EXTENDS HistorySync, TLC

Symmetry == Permutations(Model)
=============================================================================
