---------------------------- MODULE MCSilverCurated ----------------------------
(* Small instances of SilverCurated for TLC. *)
EXTENDS SilverCurated, TLC

Symmetric == Permutations(Runners) \cup Permutations(Runs)
===============================================================================
