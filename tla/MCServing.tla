------------------------------- MODULE MCServing -------------------------------
(* Small instances of Serving for TLC. *)
EXTENDS Serving, TLC

CONSTANTS tile, geojson, h3

\* The first version of what DuckDB reads has nothing for the two parameters, while
\* the tile has features in both.
NothingAtFirst == {<<geojson, 1>>, <<h3, 1>>}

Symmetric == Permutations(Requests)
===============================================================================
