---------------------------- MODULE DuckDBConnections ----------------------------
(***************************************************************************)
(* The DuckDB connection manager (geo_service/infra/duckdb_conn.py): the   *)
(* manager each process creates once, the read-only connection each thread *)
(* keeps, and the write connection opened under the manager's lock, which  *)
(* bootstrap_views is the one to use.                                      *)
(*                                                                         *)
(* Threads belong to processes (the serving API, a pipeline worker) that   *)
(* open the same file.  DuckDB gives a connection only if no process has   *)
(* the file open in the other way, and no other process for writing; it    *)
(* commits every statement by itself unless BEGIN was called, and nothing  *)
(* calls it: commit and rollback change nothing.                           *)
(***************************************************************************)
EXTENDS Naturals, FiniteSets

CONSTANTS
    Threads,
    Processes,
    ProcessOf,      \* thread |-> the process it runs in
    MaxAttempts,    \* stop_after_attempt
    None

ASSUME ConnectionsAssumption ==
    /\ IsFiniteSet(Threads)
    /\ ProcessOf \in [Threads -> Processes]
    /\ MaxAttempts \in Nat \ {0}
    /\ None \notin Threads
    /\ \A v \in SUBSET {"crosswalk", "h3_summary"} : v # None

VARIABLES
    manager,        \* process |-> _manager: which object it is, 0 for None
    managerLock,    \* process |-> the holder of _manager_lock
    writeLock,      \* process |-> manager |-> the holder of its _write_lock
    call,           \* thread |-> the call it is in
    kept,           \* <<thread, manager>> with a read connection in _thread_local
    stray,          \* <<process, kind>>: connections nobody keeps, open until the last
                    \* reference to them is gone
    views           \* the views of the database, or None when there is no file

vars == <<manager, managerLock, writeLock, call, kept, stray, views>>

Managers == 1 .. Cardinality(Threads)
Steps == {"idle", "get", "lock", "make", "wait", "connect", "load",
          "crosswalk", "h3_summary", "close", "unlock"}
Kinds == {"read", "write"}

\* open: the call's connection is open and neither kept nor closed yet.
Call == [kind : Kinds, at : Steps, of : Managers \cup {0},
         attempt : 0 .. MaxAttempts - 1, open : BOOLEAN]

Idle == [kind |-> "read", at |-> "idle", of |-> 0, attempt |-> 0, open |-> FALSE]

TypeOK ==
    /\ manager \in [Processes -> Managers \cup {0}]
    /\ managerLock \in [Processes -> Threads \cup {None}]
    /\ writeLock \in [Processes -> [Managers -> Threads \cup {None}]]
    /\ call \in [Threads -> Call]
    /\ kept \subseteq Threads \X Managers
    /\ stray \subseteq Processes \X Kinds
    /\ views = None \/ views \subseteq {"crosswalk", "h3_summary"}

Init ==
    /\ manager = [p \in Processes |-> 0]
    /\ managerLock = [p \in Processes |-> None]
    /\ writeLock = [p \in Processes |-> [m \in Managers |-> None]]
    /\ call = [t \in Threads |-> Idle]
    /\ kept = {} /\ stray = {}
    /\ views \in {None, {}}

-------------------------------------------------------------------------------
\* Who has the database open, and how.
HasOpen(p, kind) ==
    \/ \E t \in Threads : ProcessOf[t] = p /\ call[t].open /\ call[t].kind = kind
    \/ kind = "read" /\ \E c \in kept : ProcessOf[c[1]] = p
    \/ <<p, kind>> \in stray

keeping == {c[1] : c \in kept}

readers == {p \in Processes : HasOpen(p, "read")}
writers == {p \in Processes : HasOpen(p, "write")}

\* duckdb.connect: a file opened for writing is locked against everyone else,
\* and a process cannot open it a second time in a different way.
CanConnect(p, kind) ==
    IF kind = "read" THEN views # None /\ writers = {}
    ELSE readers = {} /\ writers \subseteq {p}

-------------------------------------------------------------------------------
At(t, step) == call[t].at = step
GoTo(t, step) == call' = [call EXCEPT ![t].at = step]
Return(t) == call' = [call EXCEPT ![t] = Idle]

Free(t) ==
    IF call[t].kind = "write"
    THEN writeLock' = [writeLock EXCEPT ![ProcessOf[t]][call[t].of] = None]
    ELSE UNCHANGED writeLock

\* read_conn, explain_bbox_pruning or get_duckdb_conn; bootstrap_views.
Begin(t) ==
    /\ At(t, "idle")
    /\ \E kind \in Kinds : call' = [call EXCEPT ![t].kind = kind, ![t].at = "get"]
    /\ UNCHANGED <<manager, managerLock, writeLock, kept, stray, views>>

\* The method of manager m begins: a thread with a connection has it returned.
Enter(t, m) ==
    IF call[t].kind = "read" /\ <<t, m>> \in kept THEN Return(t)
    ELSE call' = [call EXCEPT ![t].of = m,
                              ![t].at = IF call[t].kind = "read" THEN "connect" ELSE "wait"]

\* get_conn_manager looks without the lock first.
GetManager(t) ==
    /\ At(t, "get")
    /\ IF manager[ProcessOf[t]] = 0 THEN GoTo(t, "lock")
       ELSE Enter(t, manager[ProcessOf[t]])
    /\ UNCHANGED <<manager, managerLock, writeLock, kept, stray, views>>

TakeManagerLock(t) ==
    /\ At(t, "lock")
    /\ managerLock[ProcessOf[t]] = None
    /\ managerLock' = [managerLock EXCEPT ![ProcessOf[t]] = t]
    /\ GoTo(t, "make")
    /\ UNCHANGED <<manager, writeLock, kept, stray, views>>

\* No second look: whoever waited for the lock makes another manager.
MakeAnother(t) ==
    LET p == ProcessOf[t] IN
    /\ At(t, "make")
    /\ manager' = [manager EXCEPT ![p] = @ + 1]
    /\ managerLock' = [managerLock EXCEPT ![p] = None]
    /\ Enter(t, manager'[p])
    /\ UNCHANGED <<writeLock, kept, stray, views>>

\* Under the lock it looks again, and creates the manager if there is none.
MakeManager(t) ==
    LET p == ProcessOf[t] IN
    /\ At(t, "make")
    /\ manager' = [manager EXCEPT ![p] = IF @ = 0 THEN 1 ELSE @]
    /\ managerLock' = [managerLock EXCEPT ![p] = None]
    /\ Enter(t, manager'[p])
    /\ UNCHANGED <<writeLock, kept, stray, views>>

TakeWriteLock(t) ==
    /\ At(t, "wait")
    /\ writeLock[ProcessOf[t]][call[t].of] = None
    /\ writeLock' = [writeLock EXCEPT ![ProcessOf[t]][call[t].of] = t]
    /\ GoTo(t, "connect")
    /\ UNCHANGED <<manager, managerLock, kept, stray, views>>

\* Connecting for writing creates the file.
Connect(t) ==
    /\ At(t, "connect")
    /\ CanConnect(ProcessOf[t], call[t].kind)
    /\ call' = [call EXCEPT ![t].open = TRUE, ![t].at = "load"]
    /\ views' = IF views = None THEN {} ELSE views
    /\ UNCHANGED <<manager, managerLock, writeLock, kept, stray>>

\* An acquire and release by hand instead of "with": the raise skips the release.
ConnectFailsLocked(t) ==
    /\ At(t, "connect")
    /\ IF call[t].attempt + 1 < MaxAttempts
       THEN call' = [call EXCEPT ![t].attempt = @ + 1]
       ELSE Return(t)
    /\ UNCHANGED <<manager, managerLock, writeLock, kept, stray, views>>

\* An attempt too many.
ConnectFailsLate(t) ==
    /\ At(t, "connect")
    /\ IF call[t].attempt < MaxAttempts
       THEN call' = [call EXCEPT ![t].attempt = @ + 1] /\ UNCHANGED writeLock
       ELSE Return(t) /\ Free(t)
    /\ UNCHANGED <<manager, managerLock, kept, stray, views>>

\* An attempt fails, because of the file lock or for a reason of its own; the last
\* one raises, out of the lock.
ConnectFails(t) ==
    /\ At(t, "connect")
    /\ IF call[t].attempt + 1 < MaxAttempts
       THEN call' = [call EXCEPT ![t].attempt = @ + 1] /\ UNCHANGED writeLock
       ELSE Return(t) /\ Free(t)
    /\ UNCHANGED <<manager, managerLock, kept, stray, views>>

\* One connection in the manager, not one per thread.
LoadShared(t) ==
    /\ At(t, "load")
    /\ IF call[t].kind = "read"
       THEN kept' = {<<t, call[t].of>>} /\ Return(t)
       ELSE GoTo(t, "crosswalk") /\ UNCHANGED kept
    /\ UNCHANGED <<manager, managerLock, writeLock, stray, views>>

\* LOAD spatial (and PRAGMA threads): a reader's connection is kept by its thread.
Load(t) ==
    /\ At(t, "load")
    /\ IF call[t].kind = "read"
       THEN kept' = kept \cup {<<t, call[t].of>>} /\ Return(t)
       ELSE GoTo(t, "crosswalk") /\ UNCHANGED kept
    /\ UNCHANGED <<manager, managerLock, writeLock, stray, views>>

\* It raises before anything would close the connection.
LoadRaises(t) ==
    /\ At(t, "load")
    /\ stray' = stray \cup {<<ProcessOf[t], call[t].kind>>}
    /\ Return(t)
    /\ Free(t)
    /\ UNCHANGED <<manager, managerLock, kept, views>>

\* The two statements of bootstrap_views, each committed as it is executed.
CreateView(t) ==
    /\ call[t].at \in {"crosswalk", "h3_summary"}
    /\ views' = views \cup {call[t].at}
    /\ GoTo(t, IF At(t, "crosswalk") THEN "h3_summary" ELSE "close")
    /\ UNCHANGED <<manager, managerLock, writeLock, kept, stray>>

\* A Parquet file is missing; the rollback finds no transaction.
CreateViewRaises(t) ==
    /\ call[t].at \in {"crosswalk", "h3_summary"}
    /\ GoTo(t, "close")
    /\ UNCHANGED <<manager, managerLock, writeLock, kept, stray, views>>

Close(t) ==
    /\ At(t, "close")
    /\ call' = [call EXCEPT ![t].open = FALSE, ![t].at = "unlock"]
    /\ UNCHANGED <<manager, managerLock, writeLock, kept, stray, views>>

Unlock(t) ==
    /\ At(t, "unlock")
    /\ Return(t)
    /\ Free(t)
    /\ UNCHANGED <<manager, managerLock, kept, stray, views>>

Collect ==
    /\ \E c \in stray : stray' = stray \ {c}
    /\ UNCHANGED <<manager, managerLock, writeLock, call, kept, views>>

\* A thread ends between two calls, as a pool's threads do when they are idle, and
\* its _thread_local with it; another may be started in its place.  Its connection
\* is closed, unless a handler it was handed to still refers to it.
ThreadEnds(t) ==
    /\ At(t, "idle")
    /\ t \in keeping
    /\ kept' = {c \in kept : c[1] # t}
    /\ stray' \in {stray, stray \cup {<<ProcessOf[t], "read">>}}
    /\ UNCHANGED <<manager, managerLock, writeLock, call, views>>

\* A process ends or is killed; its successor starts with nothing.
Die(p) ==
    /\ manager' = [manager EXCEPT ![p] = 0]
    /\ managerLock' = [managerLock EXCEPT ![p] = None]
    /\ writeLock' = [writeLock EXCEPT ![p] = [m \in Managers |-> None]]
    /\ call' = [t \in Threads |-> IF ProcessOf[t] = p THEN Idle ELSE call[t]]
    /\ kept' = {c \in kept : ProcessOf[c[1]] # p}
    /\ stray' = {c \in stray : c[1] # p}
    /\ UNCHANGED views

-------------------------------------------------------------------------------
Run(t) ==
    \/ GetManager(t) \/ TakeManagerLock(t) \/ MakeManager(t) \/ TakeWriteLock(t)
    \/ Connect(t) \/ ConnectFails(t) \/ Load(t) \/ LoadRaises(t)
    \/ CreateView(t) \/ CreateViewRaises(t) \/ Close(t) \/ Unlock(t)

Next ==
    \/ \E t \in Threads : Begin(t) \/ Run(t) \/ ThreadEnds(t)
    \/ Collect
    \/ \E p \in Processes : Die(p)

\* Threads run; nobody has to call, to end, to die or to collect.
Fairness == \A t \in Threads : WF_vars(Run(t))

Spec == Init /\ [][Next]_vars /\ Fairness

-------------------------------------------------------------------------------
writing == {t \in Threads : call[t].kind = "write" /\ call[t].open}

\* Between its connect and its close a bootstrap is alone: no other thread of
\* any process has a connection for writing in use, and nobody reads.  Across
\* processes the file lock sees to it; within one only the write lock does,
\* and only because a process never has a second manager with another lock.
WriterAlone ==
    \A t \in writing : writing = {t} /\ readers = {}

\* Threads keep what they opened until they or their process end, each its own,
\* and writers come one at a time and only when nobody keeps anything: whatever
\* fails in between, a connect, LOAD spatial or a statement, the manager's callers
\* see no more.
Promised == INSTANCE OneWriter
KeepsPromise == Promised!Spec

\* The write lock is given back on every path out of write_conn: the failed
\* last attempt, a LOAD that raises, a statement that raises, and the end.
LockGivenBack ==
    \A p \in Processes : \A m \in Managers :
        writeLock[p][m] # None ~> writeLock[p][m] = None
-------------------------------------------------------------------------------
(***************************************************************************)
(* The inductive invariant behind WriterAlone and KeepsPromise.            *)
(***************************************************************************)

\* A process has at most one manager, and whatever its threads do is of it.
OneManager ==
    /\ \A p \in Processes : manager[p] \in {0, 1}
    /\ \A t \in Threads : call[t].of \in {0, manager[ProcessOf[t]]}
    /\ \A c \in kept : c[2] = manager[ProcessOf[c[1]]]

\* From its connect to its close a call has its connection, and there is a file.
Connected == {"load", "crosswalk", "h3_summary", "close"}
ConnectionsOpen ==
    \A t \in Threads :
        /\ call[t].open <=> call[t].at \in Connected
        /\ call[t].open => views # None

\* A call past "wait" has a manager, and a writer its lock.
LockHeld ==
    \A t \in Threads :
        /\ call[t].at \in Connected \cup {"wait", "connect", "unlock"} => call[t].of # 0
        /\ call[t].kind = "write" /\ call[t].at \in Connected \cup {"connect", "unlock"} =>
                writeLock[ProcessOf[t]][call[t].of] = t

\* The file is open for writing in one process, or for reading in any.
FileLocked ==
    \A p, q \in Processes :
        HasOpen(p, "write") => ~HasOpen(q, "read") /\ (HasOpen(q, "write") => p = q)

IInv == TypeOK /\ OneManager /\ ConnectionsOpen /\ LockHeld /\ FileLocked
===============================================================================
