---------------------------- MODULE MCBronzeWriter ----------------------------
(* Small instances of BronzeWriter for TLC. *)
EXTENDS BronzeWriter, TLC

Symmetric == Permutations(Writers) \cup Permutations(Datasets) \cup Permutations(Runs)
===============================================================================
