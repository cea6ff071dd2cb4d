--------------------------- MODULE MCParallelSilver ---------------------------
(* Small instances of ParallelSilver for TLC. *)
EXTENDS ParallelSilver
===============================================================================
