------------------------------ MODULE IngestOnce ------------------------------
(***************************************************************************)
(* What the Bronze layer promises about an archive, whatever files and     *)
(* rows it keeps to do so: an archive is ingested at most once.  A failed  *)
(* attempt may be repeated; an ingested archive is never touched again.    *)
(*                                                                         *)
(* The promise is made for archives whose ingestions do not overlap in     *)
(* time.  An archive that two calls were ingesting at once is "contended", *)
(* and nothing is promised about it any more.                              *)
(***************************************************************************)
CONSTANT Archives

VARIABLE phase      \* phase[a]: what has become of archive a

Phases == {"new", "failed", "written", "contended"}

\* A phase from which an attempt to ingest may still start.
Open == {"new", "failed"}

Init == phase = [a \in Archives |-> "new"]

Move(a, from, to) ==
    /\ phase[a] \in from
    /\ phase' = [phase EXCEPT ![a] = to]

Fail(a)    == Move(a, Open, "failed")
Commit(a)  == Move(a, Open, "written")
Contend(a) == Move(a, Open, "contended")

Next == \E a \in Archives : Fail(a) \/ Commit(a) \/ Contend(a)

Spec == Init /\ [][Next]_phase
===============================================================================
