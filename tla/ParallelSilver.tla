---------------------------- MODULE ParallelSilver ----------------------------
(***************************************************************************)
(* run_silver_simplification (geo_service/pipeline/silver/parallel.py):    *)
(* the rows of a frame are dealt into NWorkers interleaved partitions; one *)
(* thread per non-empty partition drives one single-worker process pool;   *)
(* the main thread collects the answers as they come, and either           *)
(* concatenates what came back or raises if nothing did.                   *)
(*                                                                         *)
(* A worker process may finish, raise, be killed by a GEOS fault, or hang; *)
(* the thread's wait for it may time out at any moment before it answers.  *)
(* Leaving the pool's with-block waits for the worker process, whatever    *)
(* ended the wait.                                                         *)
(***************************************************************************)
EXTENDS Integers, Sequences, FiniteSets, SequencesExt

CONSTANTS
    NWorkers,       \* n_workers: the number of partitions
    MaxRows         \* bound on the length of the frame

ASSUME NWorkersAssumption == NWorkers \in Nat \ {0}
ASSUME MaxRowsAssumption == MaxRows \in Nat

VARIABLES
    rows,           \* n: the length of the frame; its rows are 0 .. rows - 1
    main,           \* how far run_silver_simplification has come
    thread,         \* thread[p]: how far _run_partition(p) has come
    worker,         \* worker[p]: the process of p's pool
    answer,         \* answer[p]: what _run_partition(p) will return
    arrived,        \* results_by_idx: partitions in the order they were stored
    quarantined,    \* quarantine_entries, in the order they were appended
    output,         \* the rows of combined_gdf, in order
    faulty          \* auxiliary: partitions struck by a fault of their own

vars == <<rows, main, thread, worker, answer, arrived, quarantined, output, faulty>>

Partitions == 0 .. NWorkers - 1

\* A fault inside the pool is named after its exception, say BrokenProcessPool.
Errors == {"TIMEOUT", "EXCEPTION", "EXECUTOR_CREATION_FAILED"}

TypeOK ==
    /\ rows \in 0 .. MaxRows
    /\ main \in {"called", "collecting", "aborting", "returned", "failed", "aborted"}
    /\ thread \in [Partitions -> {"none", "serialising", "creating", "waiting",
                                  "exiting", "done", "raised"}]
    /\ worker \in [Partitions -> {"none", "running", "hung", "finished", "raised", "crashed"}]
    /\ answer \in [Partitions -> Errors \cup {"none", "frame"}]
    /\ arrived \in Seq(Partitions)
    /\ quarantined \in Seq(Partitions)
    /\ output \in Seq(0 .. MaxRows - 1)
    /\ faulty \subseteq Partitions

-------------------------------------------------------------------------------
\* The numbers in S in ascending order.  (The definition of the library's
\* SetToSortSeq is not one the provers can expand.)
InOrder(S) ==
    CHOOSE s \in [1 .. Cardinality(S) -> S] : \A i, j \in DOMAIN s : i < j => s[i] < s[j]

\* gdf.iloc[p::n_workers]
PartitionOf(k) == k % NWorkers

\* The slice taken one row past the end of the frame.
RowsPastEnd(p) == InOrder({k \in 0 .. rows : PartitionOf(k) = p})

RowsOf(p) == InOrder({k \in 0 .. rows - 1 : PartitionOf(k) = p})
NonEmpty == {p \in Partitions : p < rows}

Collected == ToSet(arrived) \cup ToSet(quarantined)
Ended == {"returned", "failed", "aborted"}

Init ==
    /\ rows \in 0 .. MaxRows
    /\ main = "called"
    /\ thread = [p \in Partitions |-> "none"]
    /\ worker = [p \in Partitions |-> "none"]
    /\ answer = [p \in Partitions |-> "none"]
    /\ arrived = <<>>
    /\ quarantined = <<>>
    /\ output = <<>>
    /\ faulty = {}

-------------------------------------------------------------------------------
(* The main thread. *)

\* if n == 0: return ParallelResult(gdf=gpd.GeoDataFrame())
ReturnEmpty ==
    /\ main = "called" /\ rows = 0
    /\ main' = "returned"
    /\ UNCHANGED <<rows, thread, worker, answer, arrived, quarantined, output, faulty>>

\* The pool has a thread for every non-empty partition, so none has to queue.
Start ==
    /\ main = "called" /\ rows > 0
    /\ main' = "collecting"
    /\ thread' = [p \in Partitions |-> IF p \in NonEmpty THEN "serialising" ELSE "none"]
    /\ UNCHANGED <<rows, worker, answer, arrived, quarantined, output, faulty>>

\* The loop stores every answer, a missing frame included.
CollectStoresAll(p) ==
    /\ main = "collecting"
    /\ thread[p] = "done" /\ p \notin Collected
    /\ arrived' = Append(arrived, p)
    /\ quarantined' = IF answer[p] = "frame" THEN quarantined ELSE Append(quarantined, p)
    /\ UNCHANGED <<rows, main, thread, worker, answer, output, faulty>>

\* as_completed yields each finished future once, in any order.
Collect(p) ==
    /\ main = "collecting"
    /\ thread[p] = "done" /\ p \notin Collected
    /\ IF answer[p] = "frame"
       THEN arrived' = Append(arrived, p) /\ UNCHANGED quarantined
       ELSE quarantined' = Append(quarantined, p) /\ UNCHANGED arrived
    /\ UNCHANGED <<rows, main, thread, worker, answer, output, faulty>>

\* future.result() re-raises; the exception leaves the loop, but leaving the
\* thread pool's with-block waits for every other thread first.
CollectRaises(p) ==
    /\ main = "collecting"
    /\ thread[p] = "raised"
    /\ main' = "aborting"
    /\ UNCHANGED <<rows, thread, worker, answer, arrived, quarantined, output, faulty>>

Abort ==
    /\ main = "aborting"
    /\ \A p \in NonEmpty : thread[p] \in {"done", "raised"}
    /\ main' = "aborted"
    /\ UNCHANGED <<rows, thread, worker, answer, arrived, quarantined, output, faulty>>

\* The frames concatenated as they came: list(results_by_idx.values()).
ReturnAsArrived ==
    /\ main = "collecting" /\ Collected = NonEmpty /\ arrived # <<>>
    /\ main' = "returned"
    /\ output' = FlattenSeq([i \in DOMAIN arrived |-> RowsOf(arrived[i])])
    /\ UNCHANGED <<rows, thread, worker, answer, arrived, quarantined, faulty>>

\* ordered = [results_by_idx[i] for i in sorted(results_by_idx)]
Return ==
    /\ main = "collecting" /\ Collected = NonEmpty /\ arrived # <<>>
    /\ main' = "returned"
    /\ LET ordered == InOrder(ToSet(arrived))
       IN output' = FlattenSeq([i \in DOMAIN ordered |-> RowsOf(ordered[i])])
    /\ UNCHANGED <<rows, thread, worker, answer, arrived, quarantined, faulty>>

\* if not results_by_idx: raise RuntimeError
Fail ==
    /\ main = "collecting" /\ Collected = NonEmpty /\ arrived = <<>>
    /\ main' = "failed"
    /\ UNCHANGED <<rows, thread, worker, answer, arrived, quarantined, output, faulty>>

Main == ReturnEmpty \/ Start \/ (\E p \in Partitions : Collect(p) \/ CollectRaises(p))
        \/ Abort \/ Return \/ Fail

-------------------------------------------------------------------------------
(* The thread of a partition. *)

Advance(p, from, to) == thread[p] = from /\ thread' = [thread EXCEPT ![p] = to]
Answer(p, a) == answer' = [answer EXCEPT ![p] = a]
Blame(p, own) == faulty' = IF own THEN faulty \cup {p} ELSE faulty

\* partition_dict = _gdf_to_dict(partition)
Serialise(p) ==
    /\ Advance(p, "serialising", "creating")
    /\ UNCHANGED <<rows, main, worker, answer, arrived, quarantined, output, faulty>>

\* ... which stands before the try block: its exception leaves _run_partition.
SerialiseRaises(p) ==
    /\ Advance(p, "serialising", "raised")
    /\ Blame(p, TRUE)
    /\ UNCHANGED <<rows, main, worker, answer, arrived, quarantined, output>>

Submit(p) ==
    /\ Advance(p, "creating", "waiting")
    /\ worker' = [worker EXCEPT ![p] = "running"]
    /\ UNCHANGED <<rows, main, answer, arrived, quarantined, output, faulty>>

CreationFails(p) ==
    /\ Advance(p, "creating", "done")
    /\ Answer(p, "EXECUTOR_CREATION_FAILED")
    /\ Blame(p, TRUE)
    /\ UNCHANGED <<rows, main, worker, arrived, quarantined, output>>

\* future.result returns, and _dict_to_gdf rebuilds the frame ...
Deliver(p) ==
    /\ Advance(p, "waiting", "exiting")
    /\ worker[p] = "finished"
    /\ Answer(p, "frame")
    /\ UNCHANGED <<rows, main, worker, arrived, quarantined, output, faulty>>

\* ... or fails to; or future.result raises what the worker raised, or
\* BrokenProcessPool if the worker died.
Except(p) ==
    /\ Advance(p, "waiting", "exiting")
    /\ worker[p] \in {"finished", "raised", "crashed"}
    /\ Answer(p, "EXCEPTION")
    /\ Blame(p, worker[p] = "finished")
    /\ UNCHANGED <<rows, main, worker, arrived, quarantined, output>>

TimeOut(p) ==
    /\ Advance(p, "waiting", "exiting")
    /\ worker[p] \in {"running", "hung"}
    /\ Answer(p, "TIMEOUT")
    /\ Blame(p, TRUE)
    /\ UNCHANGED <<rows, main, worker, arrived, quarantined, output>>

\* shutdown(wait=False)
LeavePoolAtOnce(p) ==
    /\ Advance(p, "exiting", "done")
    /\ UNCHANGED <<rows, main, worker, answer, arrived, quarantined, output, faulty>>

\* Joining the worker in a way that never notices its death.
LeavePoolJoins(p) ==
    /\ Advance(p, "exiting", "done")
    /\ worker[p] \in {"finished", "raised"}
    /\ UNCHANGED <<rows, main, worker, answer, arrived, quarantined, output, faulty>>

\* ProcessPoolExecutor.__exit__: shutdown(wait=True)
LeavePool(p) ==
    /\ Advance(p, "exiting", "done")
    /\ worker[p] \notin {"running", "hung"}
    /\ UNCHANGED <<rows, main, worker, answer, arrived, quarantined, output, faulty>>

Thread(p) ==
    \/ Serialise(p) \/ SerialiseRaises(p)
    \/ Submit(p) \/ CreationFails(p)
    \/ Deliver(p) \/ Except(p) \/ TimeOut(p)
    \/ LeavePool(p)

-------------------------------------------------------------------------------
(* The worker process of a partition. *)

\* One pool for all partitions: a process that dies breaks every pending future.
WorkerTakesAll(p, how) ==
    /\ worker[p] = "running"
    /\ worker' = [q \in Partitions |->
                    IF q = p \/ (how = "crashed" /\ worker[q] = "running") THEN how ELSE worker[q]]
    /\ Blame(p, how # "finished")
    /\ UNCHANGED <<rows, main, thread, answer, arrived, quarantined, output>>

WorkerEnds(p, how) ==
    /\ worker[p] = "running"
    /\ worker' = [worker EXCEPT ![p] = how]
    /\ Blame(p, how # "finished")
    /\ UNCHANGED <<rows, main, thread, answer, arrived, quarantined, output>>

Worker(p) == \E how \in {"finished", "raised", "crashed", "hung"} : WorkerEnds(p, how)

Next == Main \/ \E p \in Partitions : Thread(p) \/ Worker(p)

\* Every thread runs on, and a worker that does not hang ends.
Fairness == WF_vars(Main) /\ \A p \in Partitions : WF_vars(Thread(p)) /\ WF_vars(Worker(p))

Spec == Init /\ [][Next]_vars /\ Fairness

-------------------------------------------------------------------------------
(***************************************************************************)
(* Safety.                                                                 *)
(***************************************************************************)

\* When the run answers, every row of the frame is accounted for exactly once:
\* in the output if its partition came back, else under one quarantine entry
\* (lines 311-332); a RuntimeError therefore means that every row was lost.
Conserved ==
    main \in {"returned", "failed"} =>
        /\ ToSet(output) = {k \in 0 .. rows - 1 : answer[PartitionOf(k)] = "frame"}
        /\ ToSet(quarantined) = {p \in NonEmpty : answer[p] # "frame"}
        /\ Len(output) = Cardinality(ToSet(output))
        /\ Len(quarantined) = Cardinality(ToSet(quarantined))
        /\ main = "failed" <=> rows > 0 /\ output = <<>>

\* "One GEOS SIGSEGV kills that worker process only; other partitions
\* continue" (lines 6-7): when the run answers, a partition that met no fault of
\* its own is among the results, whatever happened to the others.
FaultsIsolated == main \in {"returned", "failed"} => NonEmpty \ faulty \subseteq ToSet(arrived)

\* "Reconstruct in original partition order for determinism" (line 327): the
\* order of the output does not depend on the order the answers came in.
OutputOrdered ==
    \A i, j \in DOMAIN output : i < j =>
        \/ PartitionOf(output[i]) < PartitionOf(output[j])
        \/ PartitionOf(output[i]) = PartitionOf(output[j]) /\ output[i] < output[j]

\* No worker process outlives the run, however it ended: each thread leaves its
\* pool, and the main thread the thread pool, before the function is left.
NoWorkerLeft ==
    main \in Ended => \A p \in Partitions : worker[p] \notin {"running", "hung"}

(***************************************************************************)
(* The inductive invariant behind these.                                   *)
(***************************************************************************)

\* Exactly the non-empty partitions get a thread, once the run has started.
ThreadsStarted ==
    \A p \in Partitions : thread[p] = "none" <=> main = "called" \/ p \notin NonEmpty

\* A process lives only while its thread waits for it or leaves its pool.
WorkersOwned ==
    \A p \in Partitions : worker[p] \in {"running", "hung"} => thread[p] \in {"waiting", "exiting"}

\* A fault is on record before anything is made of it.
FaultsBlamed ==
    \A p \in Partitions :
        /\ worker[p] \in {"raised", "crashed"} => p \in faulty
        /\ answer[p] \in Errors => p \in faulty
        /\ thread[p] \in {"exiting", "done"} <=> answer[p] # "none"

\* Whatever was collected is final, and lies where its answer says.
CollectedFinal ==
    /\ \A p \in ToSet(arrived) : thread[p] = "done" /\ answer[p] = "frame"
    /\ \A p \in ToSet(quarantined) : thread[p] = "done" /\ answer[p] # "frame"

CollectedOnce == IsInjective(arrived) /\ IsInjective(quarantined)

EndsComplete ==
    /\ main \in {"returned", "failed"} => Collected = NonEmpty
    /\ main = "aborted" => \A p \in NonEmpty : thread[p] \in {"done", "raised"}

\* The output is made of what arrived, once and at the end.
OutputMade ==
    /\ main # "returned" => output = <<>>
    /\ main = "returned" /\ arrived = <<>> => output = <<>> /\ rows = 0
    /\ main = "returned" /\ arrived # <<>> =>
        LET ordered == InOrder(ToSet(arrived))
        IN output = FlattenSeq([i \in DOMAIN ordered |-> RowsOf(ordered[i])])
    /\ main = "failed" => arrived = <<>>
    /\ main \in {"collecting", "failed"} => rows > 0

IInv ==
    /\ TypeOK /\ ThreadsStarted /\ WorkersOwned /\ FaultsBlamed
    /\ CollectedFinal /\ CollectedOnce /\ EndsComplete /\ OutputMade

(***************************************************************************)
(* Liveness.                                                               *)
(***************************************************************************)

\* If no worker hangs, the run ends: crashes, exceptions, timeouts and failures
\* to start a process never leave the collecting loop waiting.
Terminates == [](\A p \in Partitions : worker[p] # "hung") => <>(main \in Ended)

(***************************************************************************)
(* What the code does not do.                                              *)
(***************************************************************************)

\* "300-second per-partition timeout" (line 12): a partition whose time is up is
\* given up.  It is not while its worker hangs: the thread answers TIMEOUT from
\* inside the pool's with-block, and leaving the block waits for the worker.
TimeoutReleases == \A p \in Partitions : answer[p] = "TIMEOUT" ~> thread[p] = "done"
===============================================================================
