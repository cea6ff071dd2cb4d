------------------------------ MODULE GeoPipeline ------------------------------
(***************************************************************************)
(* The runs of the DAG geo_pipeline_daily (dags/geo_pipeline_daily.py), as *)
(* far as they get: sense, inspect, branch, then skip or write Bronze.     *)
(*                                                                         *)
(* Airflow runs one DAG run at a time and one task at a time in it, tries  *)
(* a failed task a second time, and clears what a try pushed to XCom when  *)
(* the next try begins.  A try may be killed at any moment; find_new_      *)
(* archives then stops where it is.                                        *)
(*                                                                         *)
(* Both Bronze tasks call write_bronze(profile_dict, run_id=..., mode=...),*)
(* which is not its signature: the call raises TypeError before anything   *)
(* of write_bronze runs, and all tasks downstream end as upstream_failed.  *)
(* They therefore have no actions here.                                    *)
(***************************************************************************)
EXTENDS ArchiveDiscovery

CONSTANT MaxTries   \* retries + 1

ASSUME MaxTriesAssumption == MaxTries \in Nat \ {0}

VARIABLES
    task,           \* the task of the run that is running, "sensing" between runs
    try,            \* its try number
    runId,          \* XCom pipeline_run_id: the try that drew it, or None
    profile,        \* XCom dataset_profile, or None
    mode            \* what inspect_archive returned: its operation_mode

xcom == <<runId, profile, mode>>
vars == <<bucket, stage, call, task, try, xcom>>

Modes == {"analytical", "boundary_catalog", "geometry_only"}

\* archive_sha256 is the inspector's, archive_hash the discovery's.
Profile == [try : 1 .. MaxTries, key : Keys, archive_sha256 : Contents, archive_hash : Contents]

ASSUME NoProfileAssumption == None \notin Profile

TypeOK ==
    /\ DiscoveryTypeOK
    /\ task \in {"sensing", "inspecting", "branching", "skipping", "writing"}
    /\ try \in 1 .. MaxTries
    /\ runId \in 1 .. MaxTries \cup {None}
    /\ profile \in Profile \cup {None}
    /\ mode \in Modes \cup {"NO_NEW_ARCHIVES", None}

Init ==
    /\ DiscoveryInit
    /\ task = "sensing"
    /\ try = 1
    /\ runId = None /\ profile = None /\ mode = None

-------------------------------------------------------------------------------
\* Airflow moves on to a task's first try.
StartTask(t) == task' = t /\ try' = 1

\* Each DAG run has an XCom of its own.
EndRun ==
    /\ StartTask("sensing")
    /\ SetCall("idle")
    /\ runId' = None /\ profile' = None /\ mode' = None

\* A try of inspect_archive begins: XCom cleared, a run id drawn and pushed.
BeginInspect(n) ==
    /\ SetCall("called")
    /\ runId' = n
    /\ profile' = None
    /\ mode' = None

\* The sensor finds an object; if it finds none it gives up, and so does the run.
Sense ==
    /\ task = "sensing"
    /\ \E k \in Keys : bucket[k] # None
    /\ StartTask("inspecting")
    /\ BeginInspect(1)
    /\ UNCHANGED <<bucket, stage>>

Found == task = "inspecting" /\ find = "returned"
Inspected(m) ==
    /\ mode' = m
    /\ StartTask("branching")
    /\ SetCall("idle")
    /\ UNCHANGED <<bucket, stage, runId>>

\* Nothing new, or no shapefile to profile in the first archive found.
InspectNothing ==
    /\ Found
    /\ Inspected("NO_NEW_ARCHIVES")
    /\ UNCHANGED profile

\* profile_shapefile hashes the archive's file again.
InspectFirst ==
    /\ Found
    /\ discovered # <<>>
    /\ LET first == Head(discovered)
           file == staged[LocalPath(first.key)]
       IN /\ file # None
          /\ profile' = [try |-> try, key |-> first.key,
                         archive_sha256 |-> file, archive_hash |-> first.hash]
    /\ \E m \in Modes : Inspected(m)

\* The second try goes on with what the first one found.
RetryResumes ==
    /\ IF try < MaxTries
       THEN /\ try' = try + 1
            /\ find' = "returned"
            /\ UNCHANGED <<task, todo, known, current, discovered, outcome, hashed, xcom>>
       ELSE EndRun
    /\ UNCHANGED <<bucket, stage>>

\* One try more than there should be.
RetryOnceMore ==
    /\ IF try <= MaxTries
       THEN try' = try + 1 /\ BeginInspect(try + 1) /\ UNCHANGED task
       ELSE EndRun
    /\ UNCHANGED <<bucket, stage>>

\* Tries that are not counted.
RetryForever ==
    /\ BeginInspect(try)
    /\ UNCHANGED <<bucket, stage, task, try>>

\* Whatever went wrong in the try, the task starts afresh, or the run fails.
Retry ==
    /\ IF try < MaxTries
       THEN try' = try + 1 /\ BeginInspect(try + 1) /\ UNCHANGED task
       ELSE EndRun
    /\ UNCHANGED <<bucket, stage>>

\* find_new_archives raised, or the file or its shapefile cannot be read.
InspectRaises ==
    /\ task = "inspecting"
    /\ \/ find = "raised"
       \/ find = "returned" /\ discovered # <<>>
    /\ Retry

InspectKilled == task = "inspecting" /\ Retry

Branch ==
    /\ task = "branching"
    /\ StartTask(IF mode = "NO_NEW_ARCHIVES" THEN "skipping" ELSE "writing")
    /\ UNCHANGED <<bucket, stage, call, xcom>>

\* skip_no_new_archives
Skip ==
    /\ task = "skipping"
    /\ EndRun
    /\ UNCHANGED <<bucket, stage>>

\* TypeError, on every try.
WriteBronzeRaises ==
    /\ task = "writing"
    /\ IF try < MaxTries
       THEN try' = try + 1 /\ UNCHANGED <<task, call, xcom>>
       ELSE EndRun
    /\ UNCHANGED <<bucket, stage>>

Discover == task = "inspecting" /\ FindStep /\ UNCHANGED <<task, try, xcom>>

TaskStep ==
    \/ Discover
    \/ InspectNothing \/ InspectFirst \/ InspectRaises
    \/ Branch \/ Skip \/ WriteBronzeRaises

Next ==
    \/ Sense
    \/ TaskStep
    \/ InspectKilled
    \/ \E k \in Keys : Upload(k) /\ UNCHANGED <<task, try, xcom>>

\* A task that has started runs on: every call in it returns or times out.
Spec == Init /\ [][Next]_vars /\ WF_vars(TaskStep)

-------------------------------------------------------------------------------
(***************************************************************************)
(* Safety and liveness of a run.                                           *)
(***************************************************************************)

\* XCom holds a profile of one try and about one archive.
Coherent ==
    /\ profile # None
    /\ profile.try = runId
    /\ profile.archive_sha256 = profile.archive_hash
    /\ DestDir(profile.key, profile.archive_hash) \in whole

\* What the Bronze task pulls from XCom is of one try and about one archive: the
\* run id and the profile were pushed by the same try, both hashes of the profile
\* agree, and the directory of that archive is whole (lines 140-178, 206-208).
BronzeGetsOneArchive == task = "writing" => Coherent

\* "deterministic transforms: 1 retry only" (line 92): every run ends, however its
\* tries fail and whatever happens to the bucket meanwhile.
RunEnds == task # "sensing" ~> task = "sensing"

-------------------------------------------------------------------------------
(***************************************************************************)
(* What makes the above inductive.                                         *)
(***************************************************************************)
IInv == TypeOK /\ LoopState /\ FoundSettled

\* What a try pushes bears its number, and is about one archive unless it found none.
OneTry ==
    /\ task = "inspecting" => runId = try
    /\ task = "branching" => mode = "NO_NEW_ARCHIVES" \/ Coherent
    /\ task = "writing" => Coherent
===============================================================================
