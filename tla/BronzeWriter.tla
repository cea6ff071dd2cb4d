----------------------------- MODULE BronzeWriter -----------------------------
(***************************************************************************)
(* write_bronze (geo_service/pipeline/bronze/writer.py): one call turns    *)
(* one dataset of one archive into one GeoParquet file and one row of      *)
(* geo_ingest_registry.  The row is keyed by the archive's SHA-256 alone;  *)
(* the file is named by dataset and archive; the temporary file is named   *)
(* by the final path and the run id.                                       *)
(*                                                                         *)
(* A call is not atomic: it reads the registry, writes the temporary file, *)
(* renames it over the final path, and commits the row, and the process    *)
(* may die, or another call may run, between any two of these.             *)
(*                                                                         *)
(* Two live calls never share a run id: it is a fresh uuid4, or the id of  *)
(* the DAG run, of which a retry starts only after the first try has gone. *)
(***************************************************************************)

CONSTANTS
    Writers,        \* processes that call write_bronze, over and over
    Archives,       \* archive contents, i.e. SHA-256 values
    Datasets,       \* dataset names (layers) an archive is ingested under
    Runs,           \* run ids
    Overlap,        \* may two calls be in progress at once?
    None            \* no file, no row, no path

ASSUME OverlapAssumption == Overlap \in BOOLEAN
ASSUME NoneAssumption == None \notin [run : Runs, whole : BOOLEAN]
                             \cup [status : {"WRITTEN", "FAILED"},
                                   dataset : Datasets, run : Runs,
                                   path : Datasets \cup {None}]
                             \cup Datasets

VARIABLES
    registry,       \* registry[a]: the committed row of archive a, or None
    final,          \* final[a, d]: the file <d>_<a>.parquet, or None
    tmp,            \* tmp[a, d, r]: the file <d>_<a>.parquet.tmp_<r>, or None
    pc,             \* pc[w]: how far w's call has come; "idle" between calls
    job,            \* job[w]: the arguments of w's last call
    result,         \* result[w]: how w's last call ended
    overlapped,     \* auxiliary: archives two calls were ingesting at once
    orphans         \* auxiliary: temporary files whose writer died

vars == <<registry, final, tmp, pc, job, result, overlapped, orphans>>

(***************************************************************************)
(* A file remembers the run that wrote it, and whether it was written to   *)
(* the end.  output_path is always <dataset>_<hash>.parquet, so the row    *)
(* keeps the dataset in the path beside the dataset_name column: the two   *)
(* are different columns, and the upsert updates only the first.           *)
(***************************************************************************)
Content == [run : Runs, whole : BOOLEAN]
Row == [status : {"WRITTEN", "FAILED"}, dataset : Datasets, run : Runs,
        path : Datasets \cup {None}]
Job == [archive : Archives, dataset : Datasets, run : Runs]

\* BronzeWriteResult; "none" while the call runs, and for good if an exception
\* left write_bronze or the process died.
Result == [status : {"none", "WRITTEN", "ALREADY_INGESTED", "FAILED"},
           path : Datasets \cup {None}]

\* The phases of a call that has found no WRITTEN row for its archive.
Busy == {"opening", "writing", "flushed", "published", "failed", "unlinked"}

TypeOK ==
    /\ registry \in [Archives -> Row \cup {None}]
    /\ final \in [Archives \X Datasets -> Content \cup {None}]
    /\ tmp \in [Archives \X Datasets \X Runs -> Content \cup {None}]
    /\ pc \in [Writers -> Busy \cup {"idle"}]
    /\ job \in [Writers -> Job]
    /\ result \in [Writers -> Result]
    /\ overlapped \subseteq Archives
    /\ orphans \subseteq Archives \X Datasets \X Runs

-------------------------------------------------------------------------------
FinalPath(w) == <<job[w].archive, job[w].dataset>>
TmpPath(w) == <<job[w].archive, job[w].dataset, job[w].run>>
Live == {w \in Writers : pc[w] # "idle"}

Ingested(a) == registry[a] # None /\ registry[a].status = "WRITTEN"

\* _check_already_ingested, with the status test forgotten: any row counts as
\* no row.
CheckIgnoresRow(a) == None

\* _check_already_ingested: the path of the WRITTEN row, if there is one.
CheckAlreadyIngested(a) == IF Ingested(a) THEN registry[a].path ELSE None

\* The upsert with output_path left out of its SET list.
UpsertKeepsPath(old, j, status, path) ==
    IF old = None
    THEN [status |-> status, dataset |-> j.dataset, run |-> j.run, path |-> path]
    ELSE [old EXCEPT !.status = status]

\* _REGISTRY_INSERT_SQL: a conflicting row keeps its dataset and run columns.
Upsert(old, j, status, path) ==
    IF old = None
    THEN [status |-> status, dataset |-> j.dataset, run |-> j.run, path |-> path]
    ELSE [old EXCEPT !.status = status, !.path = path]

Init ==
    /\ registry = [a \in Archives |-> None]
    /\ final = [p \in Archives \X Datasets |-> None]
    /\ tmp = [t \in Archives \X Datasets \X Runs |-> None]
    /\ pc = [w \in Writers |-> "idle"]
    /\ job \in [Writers -> Job]
    /\ result = [w \in Writers |-> [status |-> "none", path |-> None]]
    /\ overlapped = {}
    /\ orphans = {}

-------------------------------------------------------------------------------
Goto(w, from, to) == pc[w] \in from /\ pc' = [pc EXCEPT ![w] = to]
Return(w, status, path) == result' = [result EXCEPT ![w] = [status |-> status, path |-> path]]

\* The call begins: hash the archive, open the registry, look the hash up.
Invoke(w, j) ==
    /\ pc[w] = "idle"
    /\ Overlap \/ Live = {}
    /\ \A v \in Live : job[v].run # j.run
    /\ job' = [job EXCEPT ![w] = j]
    /\ UNCHANGED <<registry, final, tmp, orphans>>

\* "same archive -> ALREADY_INGESTED"
InvokeKnown(w, j) ==
    /\ Invoke(w, j)
    /\ CheckAlreadyIngested(j.archive) # None
    /\ Return(w, "ALREADY_INGESTED", CheckAlreadyIngested(j.archive))
    /\ UNCHANGED <<pc, overlapped>>

InvokeNew(w, j) ==
    /\ Invoke(w, j)
    /\ CheckAlreadyIngested(j.archive) = None
    /\ pc' = [pc EXCEPT ![w] = "opening"]
    /\ overlapped' = IF \E v \in Live : job[v].archive = j.archive
                     THEN overlapped \cup {j.archive}
                     ELSE overlapped
    /\ Return(w, "none", None)

\* sqlite3.OperationalError from the SELECT leaves write_bronze.
InvokeRaises(w, j) ==
    /\ Invoke(w, j)
    /\ Return(w, "none", None)
    /\ UNCHANGED <<pc, overlapped>>

\* to_parquet creates (or truncates) the temporary file ...
OpenTmp(w) ==
    /\ Goto(w, {"opening"}, "writing")
    /\ tmp' = [tmp EXCEPT ![TmpPath(w)] = [run |-> job[w].run, whole |-> FALSE]]
    /\ orphans' = orphans \ {TmpPath(w)}
    /\ UNCHANGED <<registry, final, job, result, overlapped>>

\* ... and closes it complete.
CloseTmp(w) ==
    /\ Goto(w, {"writing"}, "flushed")
    /\ tmp' = [tmp EXCEPT ![TmpPath(w)].whole = TRUE]
    /\ UNCHANGED <<registry, final, job, result, overlapped, orphans>>

\* The rename, without waiting for the file to be complete.
PublishEarly(w) ==
    /\ Goto(w, {"writing", "flushed"}, "published")
    /\ final' = [final EXCEPT ![FinalPath(w)] = tmp[TmpPath(w)]]
    /\ tmp' = [tmp EXCEPT ![TmpPath(w)] = None]
    /\ UNCHANGED <<registry, job, result, overlapped, orphans>>

\* os.replace(tmp_path, final_path)
Publish(w) ==
    /\ Goto(w, {"flushed"}, "published")
    /\ final' = [final EXCEPT ![FinalPath(w)] = tmp[TmpPath(w)]]
    /\ tmp' = [tmp EXCEPT ![TmpPath(w)] = None]
    /\ UNCHANGED <<registry, job, result, overlapped, orphans>>

\* to_parquet or os.replace raises; control reaches the except block.
WriteFails(w) ==
    /\ Goto(w, {"opening", "writing", "flushed"}, "failed")
    /\ UNCHANGED <<registry, final, tmp, job, result, overlapped, orphans>>

\* The except block, with the temporary file left where it is.
CleanUpForgets(w) ==
    /\ Goto(w, {"failed"}, "unlinked")
    /\ UNCHANGED <<registry, final, tmp, job, result, overlapped, orphans>>

\* if os.path.exists(tmp_path): os.unlink(tmp_path)
CleanUp(w) ==
    /\ Goto(w, {"failed"}, "unlinked")
    /\ tmp' = [tmp EXCEPT ![TmpPath(w)] = None]
    /\ orphans' = orphans \ {TmpPath(w)}
    /\ UNCHANGED <<registry, final, job, result, overlapped>>

Register(w, from, status, path) ==
    /\ Goto(w, {from}, "idle")
    /\ registry' = [registry EXCEPT ![job[w].archive] = Upsert(@, job[w], status, path)]
    /\ Return(w, status, path)
    /\ UNCHANGED <<final, tmp, job, overlapped, orphans>>

\* The row is committed as soon as the file is complete, before the rename.
RegisterBeforePublish(w) ==
    \/ Register(w, "flushed", "WRITTEN", job[w].dataset)
    \/ Register(w, "published", "WRITTEN", job[w].dataset)

\* A failure that is filed under the other status the table allows.
RegisterQuarantined(w) == Register(w, "unlinked", "QUARANTINED", None)

RegisterWritten(w) == Register(w, "published", "WRITTEN", job[w].dataset)
RegisterFailed(w) == Register(w, "unlinked", "FAILED", None)

\* _register raises (locked or full database): nothing is committed, and the
\* exception leaves write_bronze with the file as it is.
RegisterRaises(w) ==
    /\ Goto(w, {"published", "unlinked"}, "idle")
    /\ Return(w, "none", None)
    /\ UNCHANGED <<registry, final, tmp, job, overlapped, orphans>>

\* The process dies and is started again.
Crash(w) ==
    /\ Goto(w, Busy, "idle")
    /\ Return(w, "none", None)
    /\ orphans' = IF tmp[TmpPath(w)] # None THEN orphans \cup {TmpPath(w)} ELSE orphans
    /\ UNCHANGED <<registry, final, tmp, job, overlapped>>

Step(w) ==
    \/ OpenTmp(w) \/ CloseTmp(w) \/ Publish(w)
    \/ WriteFails(w) \/ CleanUp(w)
    \/ RegisterWritten(w) \/ RegisterFailed(w) \/ RegisterRaises(w)

Next ==
    \E w \in Writers :
        \/ \E j \in Job : InvokeKnown(w, j) \/ InvokeNew(w, j) \/ InvokeRaises(w, j)
        \/ Step(w)
        \/ Crash(w)

Spec == Init /\ [][Next]_vars

-------------------------------------------------------------------------------
(***************************************************************************)
(* Safety.                                                                 *)
(***************************************************************************)

\* A WRITTEN row always points at a published, complete file of its archive:
\* the rename happens before the commit, whatever crashes in between and
\* whoever else is writing the same archive (writer.py, lines 193-226).
WrittenHasFile ==
    \A a \in Archives : Ingested(a) =>
        /\ registry[a].path \in Datasets
        /\ final[<<a, registry[a].path>>] # None
        /\ final[<<a, registry[a].path>>].whole

\* No reader ever opens a half-written Bronze file under its final name
\* (writer.py, line 138: "avoids partial-write reads").
FinalNeverPartial ==
    \A p \in Archives \X Datasets : final[p] # None => final[p].whole

\* A caller that was told WRITTEN or ALREADY_INGESTED may rely on it: as long
\* as ingestions of the archive have not overlapped, the registry still says
\* WRITTEN and names the path the caller was given.
ResultHolds ==
    \A w \in Writers :
        LET a == job[w].archive IN
        /\ pc[w] = "idle"
        /\ result[w].status \in {"WRITTEN", "ALREADY_INGESTED"}
        /\ a \notin overlapped
        => /\ Ingested(a)
           /\ registry[a].path = result[w].path

\* A temporary file outlives its call only if the process died: every return
\* and every exception path renames or unlinks it (writer.py, lines 201-206).
TmpOwned ==
    \A t \in Archives \X Datasets \X Runs : tmp[t] # None =>
        \/ t \in orphans
        \/ \E w \in Live : TmpPath(w) = t

\* "SHA-256 idempotency: same archive -> ALREADY_INGESTED, no rewrite": once an
\* archive is WRITTEN, its row and its file never change again, unless two
\* calls were ingesting it at the same time (writer.py, lines 11 and 135).
NoRewrite ==
    [][\A a \in Archives :
          Ingested(a) /\ a \notin overlapped' =>
              /\ registry'[a] = registry[a]
              /\ final'[<<a, registry[a].path>>] = final[<<a, registry[a].path>>]]_vars

(***************************************************************************)
(* Refinement: the registry implements IngestOnce.                         *)
(***************************************************************************)
Phase(a) ==
    IF a \in overlapped THEN "contended"
    ELSE IF registry[a] = None THEN "new"
    ELSE IF registry[a].status = "WRITTEN" THEN "written"
    ELSE "failed"

Once == INSTANCE IngestOnce WITH phase <- [a \in Archives |-> Phase(a)]

\* An archive moves from new through any number of failures to written, and
\* stays there: the registry of writer.py is an ingest-once register for every
\* archive that is never ingested by two calls at once.
ImplementsIngestOnce == Once!Spec

(***************************************************************************)
(* The inductive invariant behind all of these.                            *)
(***************************************************************************)

\* Live calls have their temporary files to themselves.
RunsApart == \A v, w \in Live : job[v].run = job[w].run => v = w

\* A call that is writing has its temporary file, complete once it is closed;
\* a call that has renamed or unlinked it has it no more.
TmpTracked ==
    \A w \in Writers :
        /\ pc[w] \in {"writing", "flushed"} => tmp[TmpPath(w)] # None
        /\ pc[w] = "flushed" => tmp[TmpPath(w)].whole
        /\ pc[w] \in {"published", "unlinked"} => tmp[TmpPath(w)] = None

\* A call about to commit has published its file.
PublishedPresent == \A w \in Writers : pc[w] = "published" => final[FinalPath(w)] # None

\* Where calls have not overlapped, at most one is busy with an archive, and
\* only while the archive is not ingested.
Alone ==
    \A v, w \in Live : job[v].archive = job[w].archive /\ job[w].archive \notin overlapped =>
        /\ v = w
        /\ ~Ingested(job[w].archive)

IInv ==
    /\ TypeOK
    /\ RunsApart
    /\ TmpTracked
    /\ PublishedPresent
    /\ Alone
    /\ FinalNeverPartial
    /\ WrittenHasFile
    /\ ResultHolds
    /\ TmpOwned

(***************************************************************************)
(* What the code does not do.                                              *)
(***************************************************************************)

\* "Immutable Bronze" (writer.py, line 14; README.md, line 71): a published
\* Bronze file is never written again.  The code breaks this even when calls
\* never overlap: a call that dies, or whose commit fails, after the rename
\* leaves a file without a row, and the retry replaces it.
BronzeImmutable ==
    [][\A p \in Archives \X Datasets : final[p] # None => final'[p] = final[p]]_vars
===============================================================================
