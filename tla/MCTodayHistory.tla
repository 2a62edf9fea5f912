--------------------------- MODULE MCTodayHistory ---------------------------
(* Small instances of TodayHistory for TLC. *)
EXTENDS TodayHistory, TLC

Symmetry == Permutations(Slot)
=============================================================================
