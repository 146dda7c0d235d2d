--------------------------- MODULE MCReplayWindow ---------------------------
(* TLC instance of the duplicate filter: a window of 3 over counters 0..8. *)
EXTENDS ReplayWindowSpec
=============================================================================
