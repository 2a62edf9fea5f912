------------------------- MODULE MCSessionAggregator -------------------------
(* Small instances of SessionAggregator for TLC. *)
EXTENDS SessionAggregator

CONSTANTS p1, x1  \* model values: a process and a session
=============================================================================
