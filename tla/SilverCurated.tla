---------------------------- MODULE SilverCurated ----------------------------
(***************************************************************************)
(* run_silver (geo_service/pipeline/silver/simplify.py): one call turns    *)
(* one Bronze source into the Curated file of its dataset, through an      *)
(* ephemeral Silver file named by dataset and run, and verifies the        *)
(* Curated file after it has been published.                               *)
(*                                                                         *)
(* A call is a sequence of file-system steps between which it may raise,   *)
(* its process may die, or a call of another process may run.  Two live    *)
(* calls never share a run id, as for write_bronze.                        *)
(*                                                                         *)
(* Of the geometry, only what verification looks at is kept: how many      *)
(* features are left after quarantine, whether the file renders, and       *)
(* whether its footer has the geo metadata.                                *)
(***************************************************************************)
EXTENDS Naturals

CONSTANTS
    Runners,        \* processes that call run_silver, over and over
    Datasets,       \* dataset names
    Runs,           \* run ids
    Counts,         \* feature counts left after quarantine
    Overlap,        \* may two calls be in progress at once?
    MayDie,         \* may a process die in the middle of a call?
    None            \* no file, no call

ASSUME OverlapAssumption == Overlap \in BOOLEAN /\ MayDie \in BOOLEAN
ASSUME CountsAssumption == Counts \subseteq Nat

VARIABLES
    silver,         \* silver[d, r]: <d>_<r>_silver.parquet
    writing,        \* writing[d, r]: <d>.parquet.writing_<r>
    curated,        \* curated[d]: <d>.parquet
    pc,             \* pc[w]: how far w's call has come; "idle" between calls
    job,            \* job[w]: the arguments of w's last call
    lastOk,         \* lastOk[d]: the last call on d, if it returned a SilverResult
    overlapped,     \* auxiliary: datasets two of the latest calls worked on at once
    leaked          \* auxiliary: files behind calls that raised or died

vars == <<silver, writing, curated, pc, job, lastOk, overlapped, leaked>>

Job == [dataset : Datasets, run : Runs, count : Counts]
File == [run : Runs, count : Counts, whole : BOOLEAN, renders : BOOLEAN, geo : BOOLEAN]
Paths == Datasets \X Runs

\* The phases of a call, in the order of run_silver.
Busy == {"transforming", "staging", "staged", "writing", "flushed", "failed",
         "published", "counted", "verified"}

TypeOK ==
    /\ silver \in [Paths -> {"absent", "partial", "whole"}]
    /\ writing \in [Paths -> File \cup {None}]
    /\ curated \in [Datasets -> File \cup {None}]
    /\ pc \in [Runners -> Busy \cup {"idle"}]
    /\ job \in [Runners -> Job]
    /\ lastOk \in [Datasets -> Job \cup {None}]
    /\ overlapped \subseteq Datasets
    /\ leaked \subseteq {"silver", "writing"} \X Paths

-------------------------------------------------------------------------------
Dataset(w) == job[w].dataset
Path(w) == <<job[w].dataset, job[w].run>>
Live == {w \in Runners : pc[w] # "idle"}

\* A quarantined feature is written with the others.
FileWithQuarantined(w, whole, renders, geo) ==
    [run |-> job[w].run, count |-> job[w].count + 1,
     whole |-> whole, renders |-> renders, geo |-> geo]

\* What to_parquet writes for this call, as far as it has got.
FileOf(w, whole, renders, geo) ==
    [run |-> job[w].run, count |-> job[w].count,
     whole |-> whole, renders |-> renders, geo |-> geo]

Goto(w, from, to) == pc[w] \in from /\ pc' = [pc EXCEPT ![w] = to]

\* The call is over without a result: what it leaves behind is nobody's.
Leave(w) ==
    leaked' = leaked \cup {<<"silver", p>> : p \in {q \in {Path(w)} : silver[q] # "absent"}}
                     \cup {<<"writing", p>> : p \in {q \in {Path(w)} : writing[q] # None}}

Init ==
    /\ silver = [p \in Paths |-> "absent"]
    /\ writing = [p \in Paths |-> None]
    /\ curated = [d \in Datasets |-> None]
    /\ pc = [w \in Runners |-> "idle"]
    /\ job \in [Runners -> Job]
    /\ lastOk = [d \in Datasets |-> None]
    /\ overlapped = {}
    /\ leaked = {}

-------------------------------------------------------------------------------
\* Load the source; expected_output_count is known once it has been repaired
\* and its null and empty geometries have been quarantined.
Invoke(w, j) ==
    /\ Goto(w, {"idle"}, "transforming")
    /\ Overlap \/ Live = {}
    /\ \A v \in Live : job[v].run # j.run
    /\ job' = [job EXCEPT ![w] = j]
    /\ lastOk' = [lastOk EXCEPT ![j.dataset] = None]
    /\ overlapped' = IF \E v \in Live : Dataset(v) = j.dataset
                     THEN overlapped \cup {j.dataset}
                     ELSE overlapped \ {j.dataset}
    /\ UNCHANGED <<silver, writing, curated, leaked>>

\* read_parquet, _normalize_crs (GeospatialValidationError), the repair or the
\* simplification raises: no file has been touched.
TransformRaises(w) ==
    /\ Goto(w, {"transforming"}, "idle")
    /\ UNCHANGED <<silver, writing, curated, job, lastOk, overlapped, leaked>>

\* _write_silver_tmp: to_parquet straight to the file's own name ...
StageOpen(w) ==
    /\ Goto(w, {"transforming"}, "staging")
    /\ silver' = [silver EXCEPT ![Path(w)] = "partial"]
    /\ leaked' = leaked \ {<<"silver", Path(w)>>}
    /\ UNCHANGED <<writing, curated, job, lastOk, overlapped>>

StageClose(w) ==
    /\ Goto(w, {"staging"}, "staged")
    /\ silver' = [silver EXCEPT ![Path(w)] = "whole"]
    /\ UNCHANGED <<writing, curated, job, lastOk, overlapped, leaked>>

\* ... which takes the file away again when it raises: pyarrow's write_table
\* does, there is no handler here.
StageRaises(w) ==
    /\ Goto(w, {"staging"}, "idle")
    /\ silver' = [silver EXCEPT ![Path(w)] = "absent"]
    /\ UNCHANGED <<writing, curated, job, lastOk, overlapped, leaked>>

\* _write_curated: to_parquet to the temporary name ...
WriteOpen(w) ==
    /\ Goto(w, {"staged"}, "writing")
    /\ writing' = [writing EXCEPT ![Path(w)] = FileOf(w, FALSE, FALSE, FALSE)]
    /\ leaked' = leaked \ {<<"writing", Path(w)>>}
    /\ UNCHANGED <<silver, curated, job, lastOk, overlapped>>

\* ... the outcome of which only verification will tell ...
WriteClose(w) ==
    /\ Goto(w, {"writing"}, "flushed")
    /\ \E renders, geo \in BOOLEAN :
        writing' = [writing EXCEPT ![Path(w)] = FileOf(w, TRUE, renders, geo)]
    /\ UNCHANGED <<silver, curated, job, lastOk, overlapped, leaked>>

\* The rename, of a file that is still being written.
PublishEarly(w) ==
    /\ Goto(w, {"writing", "flushed"}, "published")
    /\ curated' = [curated EXCEPT ![Dataset(w)] = writing[Path(w)]]
    /\ writing' = [writing EXCEPT ![Path(w)] = None]
    /\ UNCHANGED <<silver, job, lastOk, overlapped, leaked>>

\* The rename, skipped if the dataset has a Curated file already.
PublishUnlessThere(w) ==
    /\ Goto(w, {"flushed"}, "published")
    /\ curated' = [curated EXCEPT ![Dataset(w)] = IF @ = None THEN writing[Path(w)] ELSE @]
    /\ writing' = [writing EXCEPT ![Path(w)] = None]
    /\ UNCHANGED <<silver, job, lastOk, overlapped, leaked>>

\* ... and os.replace(tmp_path, final_path).
Publish(w) ==
    /\ Goto(w, {"flushed"}, "published")
    /\ curated' = [curated EXCEPT ![Dataset(w)] = writing[Path(w)]]
    /\ writing' = [writing EXCEPT ![Path(w)] = None]
    /\ UNCHANGED <<silver, job, lastOk, overlapped, leaked>>

\* The directory, to_parquet (which takes its file away) or os.replace raises.
WriteFails(w) ==
    /\ Goto(w, {"staged", "writing", "flushed"}, "failed")
    /\ writing' = IF pc[w] = "writing" THEN [writing EXCEPT ![Path(w)] = None] ELSE writing
    /\ UNCHANGED <<silver, curated, job, lastOk, overlapped, leaked>>

\* except Exception: raise, with the temporary file forgotten.
ReraiseOnly(w) ==
    /\ Goto(w, {"failed"}, "idle")
    /\ UNCHANGED <<silver, writing, curated, job, lastOk, overlapped, leaked>>

\* except Exception: unlink the temporary file if it exists; raise.
CleanUp(w) ==
    /\ Goto(w, {"failed"}, "idle")
    /\ writing' = [writing EXCEPT ![Path(w)] = None]
    /\ leaked' = (leaked \ {<<"writing", Path(w)>>}) \cup {<<"silver", Path(w)>>}
    /\ UNCHANGED <<silver, curated, job, lastOk, overlapped>>

-------------------------------------------------------------------------------
\* _verify_curated reads the published file back, whoever published it last:
\* checks 1 and 2, the feature count and gdf.plot() ...
Counted(w) == curated[Dataset(w)].count = job[w].count /\ curated[Dataset(w)].renders

VerifyCount(w) ==
    /\ Goto(w, {"published"}, "counted")
    /\ Counted(w)
    /\ UNCHANGED <<silver, writing, curated, job, lastOk, overlapped, leaked>>

\* Check 3 left out.
VerifyNoFooter(w) ==
    /\ Goto(w, {"counted"}, "verified")
    /\ UNCHANGED <<silver, writing, curated, job, lastOk, overlapped, leaked>>

\* ... and check 3, which reads the file a second time.
VerifyFooter(w) ==
    /\ Goto(w, {"counted"}, "verified")
    /\ curated[Dataset(w)].geo
    /\ UNCHANGED <<silver, writing, curated, job, lastOk, overlapped, leaked>>

\* AssertionError, or the file cannot be read or drawn: the Curated file stays
\* published, and the Silver file where it is.
VerifyRaises(w) ==
    /\ Goto(w, {"published", "counted"}, "idle")
    /\ Leave(w)
    /\ UNCHANGED <<silver, writing, curated, job, lastOk, overlapped>>

\* _delete_silver_tmp, and the SilverResult.
Finish(w) ==
    /\ Goto(w, {"verified"}, "idle")
    /\ silver' = [silver EXCEPT ![Path(w)] = "absent"]
    /\ lastOk' = [lastOk EXCEPT ![Dataset(w)] = job[w]]
    /\ UNCHANGED <<writing, curated, job, overlapped, leaked>>

\* The process dies and is started again.
Crash(w) ==
    /\ MayDie
    /\ Goto(w, Busy, "idle")
    /\ Leave(w)
    /\ UNCHANGED <<silver, writing, curated, job, lastOk, overlapped>>

Next ==
    \E w \in Runners :
        \/ \E j \in Job : Invoke(w, j)
        \/ TransformRaises(w)
        \/ StageOpen(w) \/ StageClose(w) \/ StageRaises(w)
        \/ WriteOpen(w) \/ WriteClose(w) \/ Publish(w) \/ WriteFails(w) \/ CleanUp(w)
        \/ VerifyCount(w) \/ VerifyFooter(w) \/ VerifyRaises(w)
        \/ Finish(w)
        \/ Crash(w)

Spec == Init /\ [][Next]_vars

-------------------------------------------------------------------------------
(***************************************************************************)
(* Safety.                                                                 *)
(***************************************************************************)

\* "Atomic: write temp -> os.replace -> final (avoids partial-read by
\* concurrent consumers)": the Curated file is complete at every moment,
\* however many calls write it (lines 320-331).
CuratedNeverPartial == \A d \in Datasets : curated[d] # None => curated[d].whole

\* A call that returned has verified the file it wrote, if that is still the
\* one in place: verification reads what is published, so another call's file
\* may be verified instead, but never is a defective file of its own accepted.
OwnFileVerified ==
    \A d \in Datasets :
        lastOk[d] # None /\ curated[d].run = lastOk[d].run =>
            /\ curated[d].count = lastOk[d].count
            /\ curated[d].renders
            /\ curated[d].geo

\* If the last call on a dataset has returned, its SilverResult describes the
\* Curated file in place, unless another call on it was in progress meanwhile; what
\* earlier calls have left behind makes no difference.  A call that raises after
\* its rename leaves its own file in place, and the results before it stale.
LastOkHolds ==
    \A d \in Datasets \ overlapped : lastOk[d] # None => curated[d].run = lastOk[d].run

\* No Silver or temporary file lies around but behind a call in progress, or
\* behind one that died, or raised after it had written its Silver file; the
\* temporary Curated file not even behind one whose write failed (lines 328-331).
FilesAccounted ==
    \A p \in Paths :
        /\ silver[p] # "absent" =>
            \/ <<"silver", p>> \in leaked
            \/ \E w \in Live : Path(w) = p /\ pc[w] # "transforming"
        /\ writing[p] # None =>
            \/ <<"writing", p>> \in leaked
            \/ \E w \in Live : Path(w) = p /\ pc[w] \in {"writing", "flushed", "failed"}

(***************************************************************************)
(* What the code does not do.                                              *)
(***************************************************************************)

\* "No Silver Parquet should persist beyond this function's return" (lines
\* 9-12), even if no process ever dies.  It does when _write_curated or
\* _verify_curated raises: there is no finally around steps 6 and 7.
SilverEphemeral ==
    \A p \in Paths : silver[p] # "absent" => \E w \in Live : Path(w) = p

-------------------------------------------------------------------------------
(***************************************************************************)
(* The inductive invariant behind these.                                   *)
(***************************************************************************)

\* What the temporary name stands for: nobody else writes to it.
RunsDistinct == \A v, w \in Live : v # w => job[v].run # job[w].run

\* A call renames the file it has written itself, to the end.
TempIsOwn ==
    \A w \in Runners : pc[w] = "flushed" =>
        /\ writing[Path(w)] \in File
        /\ writing[Path(w)].run = job[w].run
        /\ writing[Path(w)].count = job[w].count
        /\ writing[Path(w)].whole

\* Once published, a call's file stays, unless the dataset is overlapped; and
\* as long as it stays, what has been verified holds of it.
PublishedStays ==
    \A w \in Runners : pc[w] \in {"published", "counted", "verified"} =>
        /\ curated[Dataset(w)] \in File
        /\ Dataset(w) \notin overlapped => curated[Dataset(w)].run = job[w].run
        /\ curated[Dataset(w)].run = job[w].run =>
            /\ curated[Dataset(w)].count = job[w].count
            /\ pc[w] \in {"counted", "verified"} => curated[Dataset(w)].renders
            /\ pc[w] = "verified" => curated[Dataset(w)].geo

\* Two calls on a dataset at once overlap, and so do a call and an earlier
\* one's result, which is of another run then.
OverlapsSeen ==
    \A w \in Live :
        /\ \A v \in Live : v # w /\ Dataset(v) = Dataset(w) => Dataset(w) \in overlapped
        /\ lastOk[Dataset(w)] # None =>
            Dataset(w) \in overlapped /\ job[w].run # lastOk[Dataset(w)].run

\* A SilverResult is of a dataset that has a Curated file.
ResultHasFile == \A d \in Datasets : lastOk[d] # None => curated[d] \in File

IInv ==
    /\ TypeOK /\ RunsDistinct /\ TempIsOwn /\ PublishedStays /\ OverlapsSeen /\ ResultHasFile
    /\ CuratedNeverPartial /\ OwnFileVerified /\ LastOkHolds
===============================================================================
