# Verification of the Philippines geospatial platform

TLA+ models of the platform's pipeline and serving code, checked with TLC on
small instances and proved with TLAPS for every value of the constants. All
paths below are relative to the repository's root; `bronze/`, `silver/`,
`gold/`, `extract/` stand for `geo_service/pipeline/...`.

## 1. Inventory of the system

| Component | State it keeps | Operations | Talks to | What is hard |
|---|---|---|---|---|
| Bronze writer, `bronze/writer.py` | SQLite table `geo_ingest_registry` (one row per archive SHA-256), `<dataset>_<hash>.parquet`, `...tmp_<run>` | `write_bronze`: look up, write temporary file, rename, upsert | called by the DAG and `scripts/run_day1.py` (by neither with arguments it takes); its files are read by Silver | read-then-write without a lock; crash between rename and commit; retry after failure; row keyed by archive, file by dataset and archive |
| Parallel Silver, `silver/parallel.py` | per run only: futures, results by partition, quarantine entries | `run_silver_simplification` | DAG; one process pool per partition | worker crash, exception, hang, timeout; answers in any order; waiting on exit of pools |
| Sequential Silver, `silver/simplify.py` | `<dataset>_<run>_silver.parquet` (ephemeral), `<dataset>.parquet` (Curated), `.writing_<run>` | `run_silver`: load, transform, stage, write, verify, delete | reads Bronze; Curated is read by PMTiles and Day 2 | published before it is verified; deletion only on success; overlapping runs share the Curated name |
| TTL cache, `infra/cache.py` | dictionary key -> (expiry, value), lock | `get`, `set`; `delete`, `clear`, `purge_expired` have no caller | the four GET endpoints | lazy expiry; no bound on entries; one cache per uvicorn worker (`Dockerfile:108`, four workers) |
| Endpoints, `api/routes/{tiles,geojson,h3,metadata}.py` | one TTL cache each | GET handlers | Martin over HTTP (awaited), DuckDB (called on the event loop) | late answers overwrite newer ones; stale answers; empty answers |
| DAG, `dags/geo_pipeline_daily.py` | XCom values, task states; MinIO objects for Silver and Gold | sensor, inspect, branch, bronze, silver, gold, tiles, gate; one retry each | all pipeline components | retries of half-done tasks, Silver temp lifetime, one archive per run, Gold overwritten before the gate |
| Archive discovery, `extract/archive.py` | staging directory; reads PostgreSQL `geo_ingest_registry` | `find_new_archives`, `extract_archive`, `cleanup_staging` (no caller) | MinIO, PostgreSQL, DAG | registry read from another database than the one written; any read error means "nothing known"; files left behind by failures |
| Inspector, `extract/inspector.py` | none | `profile_shapefile`: operation mode, indicator | DAG | boundary cases of the classification |
| Deploy gate, `pipeline/deploy_gate.py` | none | `run_all_checks` | DAG, CLI | waivers count in the CLI and not in the DAG; the leak check passes every s3a path |
| Gold H3, `gold/h3_aggregate.py` | none | `select_resolution`, `aggregate_to_h3` | DAG, Day 2 | occupancy ratio is always 1; nulls are not counted; class numbers from 0 |
| PMTiles, `gold/pmtiles.py`, `scripts/run_day2.py` | `.geojson`, `.pmtiles`, gate table | `generate_pmtiles`, `run_gold_pmtiles`, the gate report | tippecanoe, pmtiles | checks after publication; verification skipped without the CLI; partly filled gate table |
| DuckDB manager, `infra/duckdb_conn.py` | write lock, thread-local read connections, singleton | `read_conn`, `write_conn`, `bootstrap_views` | endpoints, pipeline | readers that do not close against a writer that gives up after three attempts |
| SQL, `sql/` | dimensional schema, lineage, views | DDL and queries | nothing in the Python code writes it | SCD2 intervals, recursive lineage |
| API application, validation, limiter, health | none of their own | wiring | endpoints | - |
| Scripts, rendering, front end, tests, deployment | - | - | - | - |

Interactions that matter: pipeline and serving share files only. Atomic renames
are the only synchronisation between a writer and its readers, and no message
tells the serving layer that data has changed. Within the pipeline the DAG runs
one run at a time (`max_active_runs=1`, `dags/geo_pipeline_daily.py:105`), but
a second scheduler or another caller is not kept out, so the models of the
writers allow overlapping calls.

For each component, what makes it correct:

- Bronze: a WRITTEN row has a complete file; nobody sees a partial file; an
  ingested archive is not ingested again; what a caller was told stays true.
- Parallel Silver: rows are neither lost nor doubled unaccounted; faults stay in
  their partition; the output's order (by partition, and by row within one) does not
  depend on who finishes first; the run ends and leaves no process.
- Sequential Silver: the Curated file is complete; a returned result describes a
  verified file; strays have a failed call behind them.
- Serving: bounded staleness; no answer older than one given before; empty answers
  do not stick.
- DAG and discovery: every listed archive is settled; what was found keeps its file
  and hash; a retried task does not mix two tries; a run ends.
- Gold H3: no feature with a value is lost or counted twice; classes follow the means;
  class 0 means no data, `feature_count` is the features of the hexagon, the resolution
  has passed the occupancy gate (none of the three is so: findings 5, 6 and 7).
- PMTiles and the Day 2 runner: gate table, saved report and exit code say what
  happened to the tiles on disk.
- DuckDB: one writer at a time and nobody reading, in all processes; the write lock
  is given back on every path.

`PROJECT.json` lists every hazard at the line where it bites, with the
properties that would catch it.

## 2. Modules

| Module | What it is |
|---|---|
| `IngestOnce` | abstract specification of the Bronze registry: new -> failed* -> written, or contended |
| `BronzeWriter` | `write_bronze`, one action per step of the call |
| `BronzeWriterProofs` | its theorems |
| `ParallelSilver` | `run_silver_simplification`: main thread, one thread and one process per partition |
| `ParallelSilverProofs` | its theorems |
| `SilverCurated` | `run_silver`, one action per file-system step |
| `SilverCuratedProofs` | its theorems |
| `TTLCache` | the cache's methods as operators on a store |
| `Serving` | the GET handlers over `TTLCache`, the event loop, the clock and the data upstream |
| `ServingProofs` | its theorems |
| `ArchiveDiscovery` | `find_new_archives`, over a bucket that changes |
| `GeoPipeline` | extends it with the DAG's runs: sense, inspect, branch, skip or write Bronze |
| `GeoPipelineProofs` | theorems of both |
| `OneWriter` | abstract specification of the connection manager: threads that keep a connection, or one that writes |
| `DuckDBConnections` | the manager, its locks, retries and connections, and the file lock between processes |
| `DuckDBConnectionsProofs` | its theorems |
| `GoldH3` | `run_gold_h3` as operators: every result it may return for a frame |
| `Day2Runner` | extends it with runs of `run_day2.py`: tasks, gates, tiles, report, exit code |
| `Day2RunnerProofs` | theorems of both |
| `LibraryFacts` | lemmas about finite sets, sequences and sums that the proofs of `ParallelSilver` and `Day2Runner` share |
| `MC*` | small instances, one `.cfg` per run |

### BronzeWriter

`registry[a]` is the row of archive `a`; `final[a, d]` and `tmp[a, d, r]` are the
files, named as the code names them; `pc[w]` is how far process `w` has come.
`InvokeKnown/InvokeNew/InvokeRaises` are lines 140-161 (hash, open, look up, early
return); `OpenTmp`, `CloseTmp` are `to_parquet`; `Publish` is `os.replace`;
`WriteFails`, `CleanUp`, `RegisterFailed` the except block; `RegisterWritten` the
commit; `Crash` may strike between any two. The upsert keeps the dataset and run
columns of the conflicting row, as the SQL does.

`overlapped` and `orphans` are auxiliary: they remember which archives two calls
were ingesting at once, and which temporary files lost their writer, and no
action's guard reads them.

Assumptions: SHA-256 values and their 12-character prefixes do not collide, nor
do the 8-character prefixes of run ids; two live calls never share a run id
(uuid4, or one DAG run whose retry starts after the first try is gone). SQLite's
upsert is atomic. Machine crashes that lose a completed rename are not modelled.

### ParallelSilver

Rows are numbers `0 .. rows - 1`, row `k` in partition `k % NWorkers`, as
`gdf.iloc[i::n_workers]` deals them. `thread[p]` follows `_run_partition`,
`worker[p]` its process, `answer[p]` the tuple it will return. A worker ends in
one of four ways, chosen by the environment: finished, raised, crashed, hung. A
timeout may come at any moment before the answer. `LeavePool` is the exit of the
`with ProcessPoolExecutor` block, which waits for the process.
`_gdf_to_dict` (line 182) stands outside the try block: `SerialiseRaises` aborts the
run once the other threads are done, although line 11 promises "any exception ->
quarantine that partition, continue".

`InOrder` stands for the two places that put things in ascending order: the slice, which
keeps the order of the frame, and `sorted(results_by_idx)`. It is this module's own and not the
library's `SetToSortSeq`, because the provers cannot expand the latter.

What simplification does to a row is left out: a partition that comes back holds
its rows. (The worker imports `simplify_multi_resolution`, which `simplify.py`
does not define, and therefore always takes the fallback at line 120.)

### SilverCurated

`silver`, `writing` and `curated` are the three kinds of file. A file remembers
who wrote it, how many features it has, whether it renders and whether its footer
has the geo metadata: what verification looks at. Verification is two steps,
because the code reads the published file twice (lines 362 and 386), and another
process may replace it in between or before. `lastOk[d]` is the last call on `d`, if
it returned a result; of the results of earlier calls the properties say nothing, since a
call that raises after its rename leaves its own file in place. A `to_parquet` that raises
takes its file away (`StageRaises`, `WriteFails`: pyarrow's `write_table` does), so that only
a process that dies leaves a partial one; `MayDie` says whether processes die.

### TTLCache and Serving

The clock counts in units of which `Ttl` is one lifetime and `MaxFetch` the
longest fetch. Handlers are coroutines: `Miss` on an `Awaiting` key (tiles) gives the
event loop back, on any other key it keeps it until `Answer` or `AnswerError`.
`UpstreamReads` is the moment upstream looks at the data, anywhere between the
question and the answer. `Regenerate` is the pipeline replacing the data behind a
key; `Empty` says which version has nothing for which key, and `StoresEmpty` are the
keys whose empty answers are stored (geojson; tiles answers 204, h3 flags the
answer, metadata answers 404, and none stores).

Assumptions: upstream reads the current data (Martin and DuckDB keep no copy of
their own), and a fetch is over within `MaxFetch`; for tiles that is the 5 s timeout
of the HTTP client, for DuckDB, which has none, a bound of the model. One worker is
modelled; four run, each with caches of its own, so a client that moves between
workers may see answers go back in time, within the same staleness bound. The
`Cache-Control: max-age=3600` sent with tiles lets a client keep one for another
lifetime.

### ArchiveDiscovery and GeoPipeline

`bucket` is MinIO and `staged`, `whole` the staging directory: downloaded files by
name, and the extraction directories that are complete. The other variables of
`ArchiveDiscovery` are the locals of the call: `find` is how far it is, `todo` the listed
keys not looked at (taken in key order, as the listing returns them), `known` the
hashes from PostgreSQL, `discovered` the result. `outcome` and `hashed` are auxiliary: what
became of each key, and what was downloaded for it.
`ReadRegistry` returns what is on record or nothing (the `except` at line 274);
`MinioRaises` is listing or download failing, which has no handler; `ExtractFails` is
the `except` at 343. `Upload` may change any object between any two steps. `Recorded`
is a constant: `write_bronze` records in SQLite, and no code fills the table that is
read here.

`GeoPipeline` adds the task that runs, its try, and XCom. `BeginInspect` is the start of
a try: Airflow clears what the earlier try pushed, and the code draws a run id.
`InspectFirst` takes `discovered[0]` and hashes its file again, as `profile_shapefile`
does; whether there is a shapefile and which mode it gives is left open.
`InspectKilled` ends a try anywhere. `WriteBronzeRaises` is both Bronze tasks: they call
`write_bronze(profile_dict, run_id=..., mode=...)` (DAG lines 208, 214), which lacks two
required arguments and has one the function does not take, so every try is a
`TypeError` and Silver, Gold, tiles and the gate end as upstream_failed. (Silver and
Gold would then import `silver/crs.py`, `gold/h3_resolution_selector.py` and
`gold/kimball_loader.py`, which do not exist.) So the DAG as it stands ingests nothing.
Nor does `scripts/run_day1.py`, which imports `InspectionOrchestrator` and
`run_simplify_batch` (lines 49, 51), names no module defines, and calls `write_bronze` as the
DAG does (line 86). `BronzeWriter`, `ParallelSilver` and `SilverCurated` therefore model the
functions for any caller that keeps to their signatures; of the runners only
`scripts/run_day2.py` works, on a Curated file that is already there.

Assumptions: a killed try does nothing more once the next has begun; SHA-256 values
and their 12-character prefixes do not collide; `boto3` replaces the local file whole.

### OneWriter and DuckDBConnections

Threads belong to processes that open the same database file. Per process, `manager` is
`_manager` (a number, so that a second object could be told from the first), `managerLock`
is `_manager_lock`, and `writeLock[p][m]` the `_write_lock` of object `m`. `call[t]` is the call
thread `t` is in, `kept` the connections in `_thread_local`, `stray` those nobody keeps but
somebody may still refer to: a raising `LOAD spatial` leaves one to the garbage collector, and
a thread that ends (`ThreadEnds`: AnyIO, whose threads run `Depends(get_duckdb_conn)`, stops idle
ones) drops its own, which the handler it was handed to may go on using. `GetManager`, `TakeManagerLock`, `MakeManager`
are the double-checked creation (lines 208-215), `Enter` is the beginning of `read_conn`
(a thread with a connection has it back at once) or `write_conn`; `Connect` and
`ConnectFails` (refused by the file lock, or for any other reason) are one attempt each, `MaxAttempts` is tenacity's `stop_after_attempt`;
`LoadRaises` leaves `with self._write_lock` before the `try` (line 107). `Die` ends a process
and gives the operating system's file lock back with everything else.

`CanConnect` is the external part: DuckDB refuses a connection while another process
has the file open for writing, or, if it is for writing, has it open at all, and refuses
a second configuration within one process. DuckDB commits each statement unless
`BEGIN` was called, and nobody calls it; so `commit` and `rollback` (lines 110, 113) change
nothing, and when the second view of `bootstrap_views` fails the first one stays.
Waiting between attempts is left out: it changes nothing but the time.

The refinement maps `keeping` to the threads with a kept connection and `writing` to
those between their `connect` and `close`. What `OneWriter` does not promise is that a
writer ever gets in: a reading thread keeps its connection until it or its process ends, and
the writer gives up after its attempts. The views created here are not the one the H3
endpoint asks for (`geo_h3_aggregates`, `h3.py:125`, which only the PostgreSQL schema
creates), and `bootstrap_views` has no caller in the repository; both are outside the model.

### GoldH3 and Day2Runner

A frame is a sequence of features with a place and a value; `Empty` is an empty
centroid, `NaN` a null value, `Text` a column that is missing or not numeric. A place is a
number and its cell at a coarser resolution an integer quotient of it, which is all the
aggregation asks of H3: that cells of one resolution partition the places and refine
those of the next coarser one. The model takes the `h3` 3.x interface the code calls
(`geo_to_h3`), although `requirements.txt` does not exclude 4.x, which lacks it. Means are
kept as sum and count and compared by cross multiplication. `NaturalBreaks` is every way
to cut the distinct means into classes in their order, which contains whatever the
library's k-means finds; so the properties do not rest on that choice.
`FrameAsDocumented` is what the docstrings promise of the frame: `OccupancyHolds`, with
"occupied" read as line 8 has it (at least two features), `CountIsMapped` and
`ZeroMeansNoData`. The code keeps none of them. `FinestUnlessEmpty`, a part of the inductive
invariant, says what the comparison at line 90 amounts to: the occupancy ratio of line 71
has the same count above and below, so a coarser resolution is never chosen.
`FeaturesConserved` and `ClassesFollowMeans` are about the features that have a value; the
others are in no mean and, against line 137, in no count. A frame without any value gets
class 0 everywhere; versions of `mapclassify` that refuse to classify nothing raise
instead, which is a `Die` of `Day2Runner`.

In `Day2Runner`, `gates` is `GATES` (the three Task B gates are `file`, `verify`, `size`);
`geojson`, `pmtiles` and `report` are what one run leaves for the next. `pmtiles` remembers which
run's tippecanoe wrote it and whether it finished, was given a whole GeoJSON, would pass
`pmtiles verify` and is under the limit. `Generate` is the start of tippecanoe with
`--force`, which replaces the published file; checks come after. `Halt` is the `except`
of `main` (line 291): the report is printed and not saved. `Die` is any exception `main` does
not catch, or a kill, at any step; `BinaryIntegrityError` is one such that is always
possible. The arguments are chosen freely by `Start`, among them a `--geojson` that names
the file an earlier run left. A run with `--task h3` or `--task pmtiles` never exits
with 0 (line 305), whatever it achieved. The third branch of `run_task_b`
(line 158) cannot be reached from `main`, and the fixture module imported at line 267
does not exist, so that without a Curated file a run dies at `load`.

Assumptions: tippecanoe takes a cut-off GeoJSON for as much of it as there is; one run at
a time in an output directory; `write_text` of the report is one step.

## 3. Runs

| Run | Instance | Shows |
|---|---|---|
| `bronze` | 2 processes, 1 archive, 2 datasets, 2 run ids | the seven properties of the Bronze model under every overlap, failure and crash |
| `bronze_serial` (violation) | 1 process, 2 archives | a published Bronze file is replaced after a crash between rename and commit |
| `silver_parallel` | 3 partitions, 0-4 rows | conservation, isolation, order, no stray process, termination |
| `silver_timeout` (violation) | 1 partition, 1 row | a hung worker holds its partition past the timeout |
| `silver_curated` | 2 processes, 1 dataset, 2 run ids, 2 counts | the five properties of the Silver model under every overlap, failure and crash |
| `silver_ephemeral` (violation) | 1 process, which never dies | a Silver file outlives the call that wrote it |
| `serving` | 2 requests, a tile, a GeoJSON and an H3 key, 2 versions, clock 0-3 | staleness, order of answers, how long "no data" is told |
| `pipeline` | 2 objects, 2 names, 2 contents of which 1 on record, 2 tries | discovery settles and spoils nothing, Bronze gets one try's values about one archive, every run ends |
| `pipeline_names` (violation) | the same with 1 name | objects with equal file names spoil each other |
| `duckdb` | 2 threads of a worker, 1 of the API, 2 attempts | a writer is alone, `OneWriter` is implemented, the lock comes back |
| `day2` | 2 runs, every frame of up to 3 features over 4 places and 4 values, 2 classes | aggregation loses no value; gates, report and exit code are true |
| `day2_documented` (violation) | 1 run, 1 frame of 2 features in 2 hexagons, one without a value | the occupancy gate rejects nothing, a null is not counted, a hexagon with data has class 0 |

Why the bounds are enough. Two processes and one archive are what every race of
the Bronze model needs, since archives share nothing but the table; two datasets
because the row's path and the file's name may disagree; the serial run has two
archives. Three partitions and up to four rows give empty frames, fewer rows
than workers, as many, and one partition with two rows. In the Silver runs two
processes share the one dataset, and two counts make verification of a foreign
file fail or succeed. In the serving run `Ttl = MaxFetch = 1` and a clock to 3 let an
entry be stored late, live to its end, expire and be fetched again; the three keys are the
three kinds of handler (awaited, blocking and storing empty answers, blocking and not), and the
first version is empty for the last two, so that data arrives where there was none. Two
objects and two contents let an archive be replaced,
removed, uploaded twice, be known or new, and be first or second in the list; two
tries are what `retries: 1` gives. In the DuckDB run two threads of one process can race for
the manager and for the write lock, and the third has the file open in another
process; two attempts (three in the code) have a first, which goes on, and a last, which
raises. In the Day 2 run two places share a cell at the middle resolution and a third
does not, so a hexagon may hold one, two or three features, with, without and
partly with values; two classes (five in the code) are fewer than, equal to or more than
the distinct means; the second run finds what the first left. The order of features
in a frame is fixed, since no operator depends on it. `MaxRows`, `MaxVersion`, `MaxTime`,
`MaxRuns` and `MaxFetch` are the only bounds; all but `MaxFetch`, a property of the
deployment, are there for TLC.

`CHECK_DEADLOCK FALSE` stands in the ParallelSilver runs, where the program is one
call that ends, in the serving run, where the clock is bounded, in the pipeline
runs, where the sensor of an empty bucket waits, and in the Day 2 runs, where nobody
has to start another one. The other runs check for deadlock.

Every property has a mutant in `PROJECT.json`: a definition changed as a plausible
bug would change it, under which the run must fail. The mutated definitions stand
beside the originals.

Fairness. ParallelSilver, GeoPipeline and DuckDBConnections state liveness. `Fairness` is weak fairness of the
main thread, each orchestration thread, and each worker process: they are
scheduled by the operating system, nothing else is needed to continue them, and a
hang is a step a worker may take (after which it takes no more). `Terminates`
therefore says "if no worker hangs"; `TimeoutReleases` shows what a hang does.
In GeoPipeline it is weak fairness of `TaskStep`: Airflow keeps the task that has
started running, and the calls in it time out (MinIO 5 and 120 s, PostgreSQL 5 s).
Neither uploads, nor kills, nor the sensor are fair. `RunEnds` needs the bound on
tries, and that each loop shortens its list whatever its archives do.

In DuckDBConnections it is weak fairness of each thread's `Run`, the steps of a call it
has begun; calls, deaths and the collector are not fair. A thread that waits for a
lock is only enabled while the lock is free, so nothing is said of its turn:
`LockGivenBack` is about the holder, who never waits for anything but its own attempts.

Findings, each shown by a run with expected violation:

1. `bronze/writer.py:14`, "Immutable Bronze", does not hold across a crash (or a
   failed commit) between `os.replace` (201) and `_register` (225).
2. `silver/parallel.py:12`, "300-second per-partition timeout", does not release a
   partition whose worker hangs: the answer is returned from inside a with-block
   whose exit waits for the worker (188, 204-213).
3. `silver/simplify.py:9-12`, "No Silver Parquet should persist beyond this function's
   return": it persists when writing or verifying the Curated file raises, even if no
   process dies; the run shows it with a write that raises.
4. `extract/archive.py:52-53`, "local path to downloaded .7z/.zip", "SHA-256 of the
   archive file": not of the same file when two object keys end in the same name
   (`uploads/2024/a.7z`, `uploads/2025/a.7z`), since line 251 keeps only the name.
5. `gold/h3_aggregate.py:138`, "1–5 Jenks class (int; 0 = no data)": the classes of line 223 are
   numbered from 0 and missing ones are filled with 0 (line 224), so the lowest class is no
   data to every reader (`ClassZeroHasData` proves it of every frame with a value);
   `sql/init/001_geo_platform_schema.sql:390` would refuse it, and `h3.py:267` would look for
   colour -1.
6. `gold/h3_aggregate.py:137`, "feature_count : Features mapped to hex (int)": line 195 counts the
   values that are not null, so a hexagon may have fewer than its features, or 0, where
   `test_h3_aggregate.py:97` wants it positive (`NullsAreNotCounted`: every frame with a null is wrong
   somewhere).
7. `gold/h3_aggregate.py:8`, "≥70% hex occupancy, ≥2 features/hex", and line 41: the ratio of
   line 71 is 1 whenever a feature has a place, and the number of features per hexagon is only
   logged, so the finest resolution always passes (`FinestIsChosen`), also the fixture
   `test_h3_aggregate.py:35` calls "designed to fail resolution 7".

One run shows 5, 6 and 7: each conjunct of `FrameAsDocumented` is false in the state it ends
in.

## 4. Proofs

Every invariant and action property of a passing run, and both refinements, are
theorems `Spec => ...` for all values of the constants; `PROJECT.json` pairs
theorem and property. In each component they rest on an inductive invariant
`IInv`, defined beside the properties and checked by TLC before it was proved.
The proofs have one lemma per conjunct and step, or per action. What each
invariant adds to the properties, and why it is needed:

**`BronzeWriterProofs`**, for all writers, archives, datasets and run ids, with or without
overlap: six properties, and `Refinement`: `BronzeWriter` implements `IngestOnce`.

- `RunsApart` and `TmpTracked`: a call has its temporary file to itself, complete
  when it is renamed; without it, `Publish` might publish nothing or half a file.
- `PublishedPresent`: the file is there when the row is committed.
- `Alone`: for an archive that is not contended, at most one call is past the
  look-up, and only while there is no WRITTEN row; without it, a later commit might
  overwrite a WRITTEN row, which `NoRewrite`, `ResultHolds` and the refinement exclude.

**`ParallelSilverProofs`**, for any number of workers and rows: `TypeCorrect`, `Isolation`,
`NoOrphans`, `NoRowLost` (`Conserved`) and `OrderIsFixed` (`OutputOrdered`: ascending partitions,
and ascending rows within each, which is not the order of the input frame).

- `ThreadsStarted`: exactly the non-empty partitions have threads.
- `WorkersOwned`: a process lives only while its thread waits for it or leaves its pool;
  `FaultsBlamed`: a fault is on record before anything is made of it, and a thread that
  has left its call has an answer.
- `CollectedFinal`, `CollectedOnce`: what is collected is final, and collected once; without the
  second a partition could be in the output twice.
- `EndsComplete`, `OutputMade`: the run ends only when all is collected or all threads are
  done, and the output is the concatenation of the partitions that arrived, in order.

`Conserved` then says of a concatenation of ascending slices of any number and length that
it holds each row once. That the slices are disjoint is arithmetic on `k % NWorkers`; that the
concatenation has their rows, their order and the sum of their lengths comes from
`LibraryFacts`.

**`SilverCuratedProofs`**, for all runners, datasets, run ids and counts: all five properties.

- `RunsDistinct` and `TempIsOwn`: a call renames what it has written itself.
- `PublishedStays`: a call's own file has what has been verified so far, and stays its own
  unless the dataset is overlapped. It is needed because verification reads the published
  file twice, and between the two reads others may replace it.
- `OverlapsSeen` and `ResultHasFile` tie the auxiliary variables to the calls: a result of a
  dataset that is not overlapped has no live call beside it.

**`ServingProofs`**, for all requests, keys, versions, lifetimes and fetch times: the four
invariants and `OnlyRacesGoBack` (`NeverBackInTime`).

- `CallsFresh`, `EntriesFresh`, `LastFresh`: an answer was current since it was asked for, an entry
  no longer than a lifetime and a fetch before it expires, a response no longer than that
  before it was given. Each passes its bound on to the next.
- `EmptyNotStored`, `EmptyFresh`: what is not to be stored is not in the cache, so that a response
  "no data" is an answer and not a hit, and inherits the bound of `CallsFresh` without the lifetime.
- `LoopHeld`: a handler that does not await has the event loop, so no other can start.
- `NotRaced`: a key that is not raced has one fetch, only while it has no entry, and nothing
  in flight or stored that is older than what was served.

**`DuckDBConnectionsProofs`**, for all threads, processes and attempts: `TypeCorrect`,
`WriterIsAlone`, and `Refinement`: the manager implements `OneWriter` (`KeepsPromise`).

- `OneManager`: the double-checked creation makes one object per process; with two, their
  write locks would be two.
- `ConnectionsOpen`, `LockHeld`: from its connect to its close a call has a connection, and a
  writer the lock from before its connect until after its close.
- `FileLocked`: what `CanConnect` grants, kept by every step that opens, closes or dies.

**`GeoPipelineProofs`**, for any keys, names, contents and number of tries: `TypeCorrect` and
`NothingForgotten` (`Accounted`) from `LoopState` (the archive in work is still on the list and
on disk as it was downloaded) and `FoundSettled`, which keeps the books: each key is to do or
settled, as known exactly if the registry was read to have what was downloaded for it, and found
exactly if new. If, in addition, no two objects share a file name (`NamesDistinct`;
`pipeline_names` shows it is needed), `FoundStaysIntact` (`DiscoveredIntact`) and, with `OneTry` on
top, `BronzeInputCoherent` (`BronzeGetsOneArchive`). The argument is `FilesApart`: a key that is
to do never shares a file with one that has been found.

**`Day2RunnerProofs`**, for any frames, candidate resolutions, threshold, number of classes and
number of runs: all seven properties; and `FinestIsChosen`, `ClassZeroHasData` and
`NullsAreNotCounted`, which say how far findings 7, 5 and 6 reach: to every frame, every one with a value, every
one with a null.

- `ResultOfTaskA`: what Task A keeps is what it returned for that frame. The rest is about
  `GoldH3` alone: `PassesUnlessEmpty` (the gate compares a number with itself),
  `AggregatedConserves` (the hexagons partition the valued features, so counts and sums by
  hexagon add up), `AggregatedClasses`, `AggregatedClassZero` and `AggregatedMiscounts`.
- `TilesByStep`, `InputByStep`: what is known of tiles and GeoJSON at each step, for instance that
  tiles past `verify` are this run's, finished and small.
- `GatesByStep`: the gates of Task B stay open until it is over, so that a report saved
  by a run has them all passed or, for `--task h3`, all open.
- `ReportIsEarlier`: the saved report is of an earlier run until this one ends.

**`LibraryFacts`.** The library's induction theorems take an operator as a parameter, which
the provers cannot instantiate. Its least-element theorem for well-founded relations does
not, and induction goes by a least counterexample: the set of numbers (`LeastNat`) or of
finite subsets (`SmallestBad`) for which a fact fails would have a least member. That
proves that an ascending enumeration exists (`SortedExists`), what the recursion behind
`FlattenSeq` computes (`FlattenExists`, `FlattenSteps`, `ConcatToSet`), and that sums over finite sets
exist, are unique and can be taken by groups (`SumsExist`, `SumsUnique`, `SumByGroups`). A lemma
such as `ValuesAreSummed` carries this over to the library's `MapThenSumSet` for one operand.

Assumptions. `None` is none of the values it stands beside; `Overlap` and `MayDie` are Booleans; bounds that
count something are naturals, and positive where the code always has one (`NWorkers`,
`MaxAttempts`, `MaxTries`, `MaxRuns`, `MaxVersion`, `JENKS_CLASSES`); `Threads` is finite, since
managers are numbered by how many threads may make one; each thread has a process
and each object a name; keys are numbered, for the order of the listing. Frames are finite
and their values are integers, null or not numeric: an integer stands for the number the
code has, and rounding is not modelled. The resolutions are at least one
natural number, the threshold a percentage, the features per hexagon a natural number. TLC
evaluates all of them in every run.

Only model-checked: `Terminates`, `TimeoutReleases`, `RunEnds` and `LockGivenBack`, which are liveness
under fairness and outside what TLAPS 1.4.5 proves; and the violations, which are
counterexamples.

## 5. Plan

Done: the models of section 2, their runs, and the theorems of section 4.

To come, in this order:

1. The safety core of the liveness properties: for `RunEnds`, that every step of a task shortens
   the list, uses up a try or ends the run; for `LockGivenBack`, that attempts only grow and the
   holder never waits; for `Terminates`, that an ended worker leaves its thread a way on.
2. What the violated promises keep in restricted form: Bronze files without crashes between
   rename and commit, Silver files of calls that return.
3. The deploy gate, if the tasks after Bronze are ever started (section 6).

## 6. Not modelled, and why

The DAG's tasks after Bronze are never started (section 2), and the deploy gate, whose
verdict only they would wait for, with them: its 49 checks read files and settings
and change nothing. The inspector's classification is arithmetic on column names and
shares, and nothing modelled depends on its outcome. Which parameters an endpoint
refuses, and the bodies it answers with, are data: `Reject` is any refusal. (One body
is worth knowing: the standard deviation of a hexagon with one feature is NaN, which passes
the test for None at `h3.py:190`, and which `JSONResponse` refuses to encode.)
`cleanup_staging` has no caller, although `archive.py:378` names one. Geometry
(repair, reprojection, simplification, H3 indexing) is arithmetic on real numbers;
the rate limiter is a library; request validation, health probes, configuration,
secrets, metrics and logging keep no state that a later step reads; the SQL schema
is declarative and no Python code writes to it; rendering, front-end and load-test
code is I/O. `benchmark_parallel_vs_sequential` only measures.
