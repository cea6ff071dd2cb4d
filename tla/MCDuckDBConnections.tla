-------------------------- MODULE MCDuckDBConnections --------------------------
(* A small instance of DuckDBConnections for TLC. *)
EXTENDS DuckDBConnections

\* Thread 3 serves; threads 1 and 2 are a pipeline worker's.
TwoAndOne == [t \in Threads |-> IF t = 3 THEN "api" ELSE "worker"]
===============================================================================
