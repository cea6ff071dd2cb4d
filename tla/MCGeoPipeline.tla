----------------------------- MODULE MCGeoPipeline -----------------------------
(* Small instances of GeoPipeline for TLC. *)
EXTENDS GeoPipeline

\* uploads/a.7z, uploads/b.7z
NamesApart == [k \in Keys |-> k]

\* uploads/2024/a.7z, uploads/2025/a.7z
NamesAlike == [k \in Keys |-> 1]
===============================================================================
