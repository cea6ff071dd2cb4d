------------------------------ MODULE Day2Runner ------------------------------
(***************************************************************************)
(* Runs of scripts/run_day2.py, one after the other, in one output         *)
(* directory: Task A is GoldH3, Task B makes the PMTiles                   *)
(* (geo_service/pipeline/gold/pmtiles.py), Task C asks the operator.  Each *)
(* run has its own gate table; what it leaves on disk the next one finds.  *)
(*                                                                         *)
(* main catches four exceptions.  Any other one (a ValueError of Task A,   *)
(* the timeout of pmtiles verify, an I/O error) ends the process where it  *)
(* stands, as a kill does.                                                 *)
(***************************************************************************)
EXTENDS GoldH3

CONSTANTS
    Frames,         \* what the curated GeoParquet may hold
    MaxRuns,        \* bound: runs of the script
    None

ASSUME MaxRunsAssumption == MaxRuns \in Nat \ {0}
ASSUME FramesAssumption ==
    \A frame \in Frames :
        IsFiniteSet(DOMAIN frame) /\ \A i \in DOMAIN frame : frame[i].value \in Int \cup {NaN, Text}

VARIABLES
    run,            \* number of the current or last run
    pc,             \* where it is, "idle" when it has ended
    args,           \* its arguments, and whether the pmtiles CLI is installed
    gates,          \* GATES
    h3,             \* Task A's frame, its resolution (0: H3ResolutionError) and result
    code,           \* exit code of the last run, None while one is running
    geojson,        \* <dataset>.geojson: None, "partial" or "whole"
    pmtiles,        \* <dataset>.pmtiles, or None
    report          \* day2_gate_report.json and the run that saved it, or None

disk == <<geojson, pmtiles, report>>
vars == <<run, pc, args, gates, h3, code, disk>>

\* geojson: no --geojson, the file an earlier run left, or some other file.
Args == [task : {"h3", "pmtiles", "all"}, geojson : {"none", "leftover", "other"},
         browser : BOOLEAN, cli : BOOLEAN]

Gates == {"h3_jenks", "file", "verify", "size", "visible"}
Mandatory == Gates \ {"visible"}
GateTable == [Gates -> {TRUE, FALSE, None}]
AllNone == [g \in Gates |-> None]

\* finished: tippecanoe exited 0; whole: its input was a complete GeoJSON;
\* sound: pmtiles verify would pass; small: under 50 MB.
Tiles == [run : 1 .. MaxRuns, finished : BOOLEAN, whole : BOOLEAN,
          sound : BOOLEAN, small : BOOLEAN]
Report == [run : 1 .. MaxRuns, gates : GateTable]

ASSUME NoneAssumption ==
    None \notin BOOLEAN /\ None # 0 /\ (\A t \in Tiles : t # None) /\ (\A r \in Report : r # None)

Unfinished == [run |-> run, finished |-> FALSE, whole |-> FALSE,
               sound |-> FALSE, small |-> FALSE]

TypeOK ==
    /\ run \in 0 .. MaxRuns
    /\ pc \in {"idle", "load", "task_a", "save_h3", "export", "exporting", "generate",
               "tippecanoe", "size", "verify", "clean", "task_c", "save_report"}
    /\ args \in Args
    /\ gates \in GateTable
    /\ h3 = None \/ h3.frame \in Frames
    /\ code \in {0, 1, None}
    /\ geojson \in {None, "partial", "whole"}
    /\ pmtiles \in Tiles \cup {None}
    /\ report \in Report \cup {None}

Init ==
    /\ run = 0 /\ pc = "idle"
    /\ args = [task |-> "all", geojson |-> "none", browser |-> TRUE, cli |-> TRUE]
    /\ gates = AllNone /\ h3 = None /\ code = None
    /\ geojson = None /\ pmtiles = None /\ report = None

-------------------------------------------------------------------------------
Set(g, status) == [gates EXCEPT ![g] = status]

\* An exit code of its own for a halt.
HaltApart == pc' = "idle" /\ code' = 2

\* Caught by main: the report is printed and not saved.
Halt == pc' = "idle" /\ code' = 1
GoTo(step) == pc' = step /\ UNCHANGED code

\* --geojson and --no-browser are nothing to a run of Task A alone.
Start ==
    /\ pc = "idle"
    /\ run < MaxRuns
    /\ run' = run + 1
    /\ args' \in {a \in Args : a.task = "h3" => a.geojson = "none" /\ ~a.browser /\ ~a.cli}
    /\ gates' = AllNone /\ h3' = None /\ code' = None
    /\ pc' = "load"
    /\ UNCHANGED disk

\* An uncaught exception, or a kill.
Die ==
    /\ pc # "idle"
    /\ Halt
    /\ UNCHANGED <<run, args, gates, h3, disk>>

TaskB == IF args.geojson = "none" THEN "export" ELSE "generate"

Load ==
    /\ pc = "load"
    /\ GoTo(IF args.task = "pmtiles" THEN TaskB ELSE "task_a")
    /\ UNCHANGED <<run, args, gates, h3, disk>>

\* A ValueError is not caught: Die.
TaskA ==
    /\ pc = "task_a"
    /\ \E frame \in Frames :
        LET result == run_gold_h3(frame) IN
        \/ /\ result.raised = "H3ResolutionError"
           /\ gates' = Set("h3_jenks", FALSE)
           /\ h3' = [frame |-> frame, resolution |-> 0, hexes |-> <<>>]
           /\ Halt
        \/ \E hexes \in result.frames :
           /\ gates' = Set("h3_jenks", TRUE)
           /\ h3' = [frame |-> frame, resolution |-> result.resolution, hexes |-> hexes]
           /\ GoTo("save_h3")
    /\ UNCHANGED <<run, args, disk>>

SaveH3 ==
    /\ pc = "save_h3"
    /\ h3' = None
    /\ GoTo(IF args.task = "h3" THEN "save_report" ELSE TaskB)
    /\ UNCHANGED <<run, args, gates, disk>>

-------------------------------------------------------------------------------
\* Task B.  to_parquet, then to_file: the GeoJSON is written in place.
Export ==
    /\ pc = "export"
    /\ geojson' = "partial"
    /\ GoTo("exporting")
    /\ UNCHANGED <<run, args, gates, h3, pmtiles, report>>

ExportDone ==
    /\ pc = "exporting"
    /\ geojson' = "whole"
    /\ GoTo("generate")
    /\ UNCHANGED <<run, args, gates, h3, pmtiles, report>>

TileGenerationError ==
    /\ gates' = [gates EXCEPT !["file"] = FALSE, !["verify"] = FALSE, !["size"] = FALSE]
    /\ Halt

InputThere == args.geojson # "other" => geojson # None

\* The binary is not the pinned one.  main does not catch this error.
BinaryIntegrityError ==
    /\ pc = "generate"
    /\ InputThere
    /\ Halt
    /\ UNCHANGED <<run, args, gates, h3, disk>>

\* The input is not there, or tippecanoe is not.
GenerateRaises ==
    /\ pc = "generate"
    /\ TileGenerationError
    /\ UNCHANGED <<run, args, h3, disk>>

\* --force: whatever was published under the name is gone when tippecanoe starts.
Generate ==
    /\ pc = "generate"
    /\ InputThere
    /\ pmtiles' = Unfinished
    /\ GoTo("tippecanoe")
    /\ UNCHANGED <<run, args, gates, h3, geojson, report>>

\* The exit code is not looked at.
TippecanoeUnchecked ==
    /\ pc = "tippecanoe"
    /\ GoTo("size")
    /\ UNCHANGED <<run, args, gates, h3, disk>>

\* Non-zero exit, 600 s passed, or nothing in the output.
TippecanoeFails ==
    /\ pc = "tippecanoe"
    /\ TileGenerationError
    /\ UNCHANGED <<run, args, h3, disk>>

\* Cut-off GeoJSON is taken for as much as there is of it.
TippecanoeDone ==
    /\ pc = "tippecanoe"
    /\ \E sound, small \in BOOLEAN :
        pmtiles' = [Unfinished EXCEPT
                        !.finished = TRUE, !.sound = sound, !.small = small,
                        !.whole = args.geojson = "other" \/ geojson = "whole"]
    /\ GoTo("size")
    /\ UNCHANGED <<run, args, gates, h3, geojson, report>>

\* _check_file_size comes first; its error is taken to mean that all else passed.
SizeError ==
    /\ pc = "size"
    /\ ~pmtiles.small
    /\ gates' = [gates EXCEPT !["file"] = TRUE, !["verify"] = TRUE, !["size"] = FALSE]
    /\ Halt
    /\ UNCHANGED <<run, args, h3, disk>>

\* The limit is logged, not enforced.
SizeLogged ==
    /\ pc = "size"
    /\ GoTo("verify")
    /\ UNCHANGED <<run, args, gates, h3, disk>>

SizeOk ==
    /\ pc = "size"
    /\ pmtiles.small
    /\ GoTo("verify")
    /\ UNCHANGED <<run, args, gates, h3, disk>>

\* The gate table as main would have it if the error were swallowed.
VerifyErrorSwallowed ==
    /\ pc = "verify"
    /\ args.cli /\ ~pmtiles.sound
    /\ gates' = [gates EXCEPT !["file"] = TRUE, !["verify"] = FALSE]
    /\ GoTo("save_report")
    /\ UNCHANGED <<run, args, h3, disk>>

\* The size was fine, but its gate stays open.
VerifyError ==
    /\ pc = "verify"
    /\ args.cli /\ ~pmtiles.sound
    /\ gates' = [gates EXCEPT !["file"] = TRUE, !["verify"] = FALSE]
    /\ Halt
    /\ UNCHANGED <<run, args, h3, disk>>

\* Without the CLI there is a warning.
VerifyOk ==
    /\ pc = "verify"
    /\ args.cli => pmtiles.sound
    /\ GoTo("clean")
    /\ UNCHANGED <<run, args, gates, h3, disk>>

\* run_gold_pmtiles removes the GeoJSON it wrote; with --geojson nobody does.
Clean ==
    /\ pc = "clean"
    /\ geojson' = IF args.geojson = "none" THEN None ELSE geojson
    /\ gates' = [gates EXCEPT !["file"] = TRUE, !["verify"] = TRUE, !["size"] = TRUE]
    /\ GoTo(IF args.task = "all" /\ args.browser THEN "task_c" ELSE "save_report")
    /\ UNCHANGED <<run, args, h3, pmtiles, report>>

TaskC ==
    /\ pc = "task_c"
    /\ \E y \in BOOLEAN : gates' = Set("visible", y)
    /\ GoTo("save_report")
    /\ UNCHANGED <<run, args, h3, disk>>

\* A gate that was skipped passes, as it does in print_gate_report.
SaveReportSkipsPass ==
    /\ pc = "save_report"
    /\ report' = [run |-> run, gates |-> gates]
    /\ code' = IF \A g \in Mandatory : gates[g] # FALSE THEN 0 ELSE 1
    /\ pc' = "idle"
    /\ UNCHANGED <<run, args, gates, h3, geojson, pmtiles>>

SaveReport ==
    /\ pc = "save_report"
    /\ report' = [run |-> run, gates |-> gates]
    /\ code' = IF \A g \in Mandatory : gates[g] = TRUE THEN 0 ELSE 1
    /\ pc' = "idle"
    /\ UNCHANGED <<run, args, gates, h3, geojson, pmtiles>>

-------------------------------------------------------------------------------
Next ==
    \/ Start \/ Die \/ Load \/ TaskA \/ SaveH3
    \/ Export \/ ExportDone
    \/ BinaryIntegrityError \/ GenerateRaises \/ Generate
    \/ TippecanoeFails \/ TippecanoeDone
    \/ SizeError \/ SizeOk \/ VerifyError \/ VerifyOk \/ Clean
    \/ TaskC \/ SaveReport

Spec == Init /\ [][Next]_vars

-------------------------------------------------------------------------------
FeatureTotal(hexes) == MapThenSumSet(LAMBDA c : hexes[c].feature_count, DOMAIN hexes)
SumTotal(hexes) == MapThenSumSet(LAMBDA c : hexes[c].sum, DOMAIN hexes)

\* Task A loses no value and counts none twice: every feature with a value is in
\* the count and in the sum of exactly one hexagon.  One without is in no count,
\* which is not what feature_count is documented to be: CountIsMapped.
FeaturesConserved ==
    h3 # None /\ h3.resolution # 0 =>
        LET valued == {i \in DOMAIN h3.frame : h3.frame[i].value # NaN}
        IN /\ FeatureTotal(h3.hexes) = Cardinality(valued)
           /\ SumTotal(h3.hexes) = ValueSum(h3.frame, valued)

\* The higher class never has the lower mean, although the classes are computed
\* for some of the rows only and joined to all of them.
ClassesFollowMeans ==
    h3 # None =>
        \A c, d \in {e \in DOMAIN h3.hexes : h3.hexes[e].feature_count > 0} :
            Lower(h3.hexes[c], h3.hexes[d]) => h3.hexes[c].jenks_class <= h3.hexes[d].jenks_class

\* What the gate table says is so, in every state of a run.  A passed file gate
\* means that this run's tippecanoe exited 0, the size gate means what it says;
\* a passed verify gate means that the tiles were verified, or there is no CLI,
\* or the size gate has failed, and then nobody has looked.
GatesTruthful ==
    LET ours == pmtiles # None /\ pmtiles.run = run IN
    /\ gates["file"] = TRUE => ours /\ pmtiles.finished
    /\ gates["size"] = TRUE => ours /\ pmtiles.small
    /\ gates["size"] = FALSE /\ ours => ~pmtiles.finished \/ ~pmtiles.small
    /\ gates["verify"] = TRUE => ours /\ (pmtiles.sound \/ ~args.cli \/ gates["size"] = FALSE)
    /\ gates["verify"] = FALSE /\ ours => ~pmtiles.sound

\* A saved report that passes the tiles holds for the tiles on disk until a later
\* run starts tippecanoe; that run may fail and leave report and ruin together.
ReportHoldsUntilNextTiles ==
    report # None /\ report.gates["file"] = TRUE =>
        /\ pmtiles # None
        /\ pmtiles.run = report.run => pmtiles.finished /\ pmtiles.small
        /\ pmtiles.run >= report.run

\* The saved report never shows a failed gate but the operator's: every other
\* failure halts the run, or kills it, before the report is saved.
SavedReportNeverFails ==
    report # None => \A g \in Mandatory : report.gates[g] # FALSE

\* Exit code 0: both tasks ran, the tiles and the saved report are this run's,
\* and tiles of the curated file are of all of it and leave no GeoJSON behind.
ZeroMeansDone ==
    code = 0 =>
        /\ args.task = "all"
        /\ report # None /\ report.run = run /\ report.gates = gates
        /\ pmtiles.run = run /\ pmtiles.small /\ (pmtiles.sound \/ ~args.cli)
        /\ args.geojson = "none" => pmtiles.whole /\ geojson = None

\* As the gate is documented: enough of the hexagons have enough features each.
OccupancyHolds(frame, resolution) ==
    LET counts == feature_counts(frame, resolution)
        occupied == {hex \in DOMAIN counts : counts[hex] >= MIN_FEATURES_PER_HEX}
    IN 100 * Cardinality(occupied) >= MIN_OCCUPANCY_PERCENT * Cardinality(DOMAIN counts)

\* As the column is documented: feature_count is the features mapped to the hexagon.
CountIsMapped(frame, resolution, hexes) ==
    \A c \in DOMAIN hexes : hexes[c].feature_count = Cardinality(FeaturesIn(frame, resolution, c))

\* As the column is documented: class 0 is for hexagons without data.
ZeroMeansNoData(hexes) ==
    \A c \in DOMAIN hexes : hexes[c].jenks_class = 0 => hexes[c].feature_count = 0

\* What Task A returns is as h3_aggregate.py documents it: its resolution has
\* passed the occupancy gate, its counts are of features, its class 0 is "no data".
\* The code breaks each of the three.
FrameAsDocumented ==
    h3 # None /\ h3.resolution # 0 =>
        /\ OccupancyHolds(h3.frame, h3.resolution)
        /\ CountIsMapped(h3.frame, h3.resolution, h3.hexes)
        /\ ZeroMeansNoData(h3.hexes)

-------------------------------------------------------------------------------
(***************************************************************************)
(* The inductive invariant behind these: what is known at each step.       *)
(***************************************************************************)

\* What Task A keeps is what it returned for the frame it keeps.
ResultOfTaskA ==
    h3 # None =>
        \/ h3.resolution = 0 /\ h3.hexes = <<>>
        \/ Raised(h3.frame) = "nothing" /\ h3.hexes \in Aggregated(h3.frame, h3.resolution)

\* The occupancy gate as it is coded lets everything through: Task A halts for the
\* resolution only if no feature has a place, and any other frame gets the finest.
FinestUnlessEmpty ==
    h3 # None => h3.resolution = IF Located(h3.frame) = {} THEN 0 ELSE CANDIDATE_RESOLUTIONS[1]

BeforeTiles == {"load", "task_a", "save_h3", "export", "exporting", "generate"}
DuringTiles == {"tippecanoe", "size", "verify", "clean"}
TilesDone == pc = "task_c" \/ (pc = "save_report" /\ args.task # "h3")

TilesByStep ==
    /\ pmtiles # None => pmtiles.run <= run
    /\ pc \in BeforeTiles /\ pmtiles # None => pmtiles.run < run
    /\ pc = "tippecanoe" => pmtiles = Unfinished
    /\ pc \in {"size", "verify", "clean"} \/ TilesDone =>
        /\ pmtiles # None /\ pmtiles.run = run /\ pmtiles.finished
        /\ args.geojson = "none" => pmtiles.whole
    /\ pc \in {"verify", "clean"} \/ TilesDone => pmtiles.small
    /\ pc = "clean" \/ TilesDone => (args.cli => pmtiles.sound)

\* Task B's own input is whole when it is used, and gone when it has been.
InputByStep ==
    args.geojson = "none" =>
        /\ pc \in {"generate", "tippecanoe"} => geojson = "whole"
        /\ TilesDone => geojson = None

\* The gates of a task are open until it is over.
GatesByStep ==
    /\ pc \in {"load", "task_a"} => gates = AllNone
    /\ pc \in {"task_a", "save_h3"} => args.task # "pmtiles"
    /\ pc \in {"export", "exporting", "generate", "task_c"} \cup DuringTiles => args.task # "h3"
    /\ gates["h3_jenks"] = TRUE => args.task # "pmtiles"
    /\ gates["file"] = TRUE => args.task # "h3"
    /\ pc # "idle" => gates["h3_jenks"] # FALSE /\ code = None
    /\ pc # "idle" /\ ~TilesDone => \A g \in {"file", "verify", "size"} : gates[g] = None
    /\ TilesDone => \A g \in {"file", "verify", "size"} : gates[g] = TRUE

ReportIsEarlier ==
    /\ pc # "idle" => run > 0
    /\ report # None => report.run <= run /\ (pc # "idle" => report.run < run)

IInv ==
    /\ TypeOK /\ TilesByStep /\ InputByStep /\ GatesByStep /\ ReportIsEarlier
    /\ ResultOfTaskA /\ FinestUnlessEmpty /\ GatesTruthful
    /\ ReportHoldsUntilNextTiles /\ SavedReportNeverFails /\ ZeroMeansDone
===============================================================================
