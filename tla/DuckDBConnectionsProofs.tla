------------------------ MODULE DuckDBConnectionsProofs ------------------------
(***************************************************************************)
(* Proofs about DuckDBConnections, for any threads, processes and number   *)
(* of attempts.                                                            *)
(***************************************************************************)
EXTENDS DuckDBConnections, FiniteSetTheorems, TLAPS

\* Where there is a thread there is room for a manager.
LEMMA FirstManager ==
    ASSUME NEW t \in Threads
    PROVE  1 \in Managers /\ Cardinality(Threads) \in Nat
<1>1. Cardinality(Threads) \in Nat
    BY FS_CardinalityType, ConnectionsAssumption
<1>2. Cardinality(Threads) # 0
    BY FS_EmptySet, ConnectionsAssumption
<1>3. QED
    BY <1>1, <1>2 DEF Managers

\* The call of a thread that is in none.
LEMMA IdleCall == Idle \in Call
    BY ConnectionsAssumption DEF Idle, Call, Kinds, Steps

\* A call stays one when its step, or one more of its fields, is set.
LEMMA CallUpdates ==
    ASSUME NEW c \in Call
    PROVE  /\ \A s \in Steps : [c EXCEPT !.at = s] \in Call
           /\ \A s \in Steps, k \in Kinds : [c EXCEPT !.kind = k, !.at = s] \in Call
           /\ \A s \in Steps, m \in Managers : [c EXCEPT !.of = m, !.at = s] \in Call
           /\ \A s \in Steps, b \in BOOLEAN : [c EXCEPT !.open = b, !.at = s] \in Call
           /\ c.attempt + 1 < MaxAttempts => [c EXCEPT !.attempt = @ + 1] \in Call
<1>1. \A s \in Steps : [c EXCEPT !.at = s] \in Call
    BY DEF Call
<1>2. \A s \in Steps, k \in Kinds : [c EXCEPT !.kind = k, !.at = s] \in Call
    BY DEF Call
<1>3. \A s \in Steps, m \in Managers : [c EXCEPT !.of = m, !.at = s] \in Call
    BY DEF Call
<1>4. \A s \in Steps, b \in BOOLEAN : [c EXCEPT !.open = b, !.at = s] \in Call
    BY DEF Call
<1>5. c.attempt + 1 < MaxAttempts => [c EXCEPT !.attempt = @ + 1] \in Call
    <2>1. c.attempt + 1 < MaxAttempts => c.attempt + 1 \in 0 .. MaxAttempts - 1
        BY ConnectionsAssumption DEF Call
    <2>2. QED  BY <2>1 DEF Call
<1>6. QED
    BY <1>1, <1>2, <1>3, <1>4, <1>5

\* Leaving the lock.
LEMMA FreeType ==
    ASSUME TypeOK, NEW t \in Threads, Free(t)
    PROVE  writeLock' \in [Processes -> [Managers -> Threads \cup {None}]]
<1> DEFINE p == ProcessOf[t]
           locks == [writeLock[p] EXCEPT ![call[t].of] = None]
<1>1. p \in Processes /\ writeLock \in [Processes -> [Managers -> Threads \cup {None}]]
    BY ConnectionsAssumption DEF TypeOK
<1>2. locks \in [Managers -> Threads \cup {None}]
    BY <1>1
<1>3. writeLock' = writeLock \/ writeLock' = [writeLock EXCEPT ![p] = locks]
    BY <1>1 DEF Free
<1> HIDE DEF locks, p
<1>4. QED  BY <1>1, <1>2, <1>3

\* A step touches the call of its own thread only.
LEMMA CallStep ==
    ASSUME TypeOK, NEW t \in Threads, Begin(t) \/ Run(t)
    PROVE  /\ call' \in [Threads -> Call]
           /\ \A u \in Threads \ {t} : call'[u] = call[u]
<1> SUFFICES \E c \in Call : call' = [call EXCEPT ![t] = c]
    BY DEF TypeOK
<1>0. call[t] \in Call /\ call \in [Threads -> Call]
    BY DEF TypeOK
<1>1. CASE Begin(t)
    <2>1. PICK k \in Kinds : call' = [call EXCEPT ![t] = [call[t] EXCEPT !.kind = k, !.at = "get"]]
        BY <1>0, <1>1 DEF Begin
    <2>2. QED  BY <2>1, <1>0, CallUpdates DEF Steps
<1>2. CASE Return(t)
    BY <1>2, IdleCall DEF Return
<1>3. ASSUME NEW s \in Steps, GoTo(t, s)
      PROVE  \E c \in Call : call' = [call EXCEPT ![t] = c]
    <2>1. call' = [call EXCEPT ![t] = [call[t] EXCEPT !.at = s]]
        BY <1>0, <1>3 DEF GoTo
    <2>2. QED  BY <2>1, <1>0, CallUpdates
<1>4. ASSUME NEW m \in Managers, Enter(t, m)
      PROVE  \E c \in Call : call' = [call EXCEPT ![t] = c]
    <2>1. CASE ~Return(t)
        <3>1. PICK s \in {"connect", "wait"} : call' = [call EXCEPT ![t].of = m, ![t].at = s]
            BY <1>4, <2>1 DEF Enter
        <3>2. call' = [call EXCEPT ![t] = [call[t] EXCEPT !.of = m, !.at = s]]
            BY <1>0, <3>1
        <3>3. QED  BY <3>2, <1>0, CallUpdates DEF Steps
    <2>2. QED  BY <1>2, <2>1
<1>5. CASE GetManager(t)
    <2>1. manager[ProcessOf[t]] # 0 => manager[ProcessOf[t]] \in Managers
        BY ConnectionsAssumption DEF TypeOK
    <2>2. QED  BY <1>5, <2>1, <1>3, <1>4 DEF GetManager, Steps
<1>6. CASE MakeManager(t)
    <2>1. manager'[ProcessOf[t]] \in Managers
        BY <1>6, FirstManager, ConnectionsAssumption DEF MakeManager, TypeOK
    <2>2. QED  BY <1>6, <2>1, <1>4 DEF MakeManager
<1>7. CASE Connect(t)
    <2>1. call' = [call EXCEPT ![t] = [call[t] EXCEPT !.open = TRUE, !.at = "load"]]
        BY <1>0, <1>7 DEF Connect
    <2>2. QED  BY <2>1, <1>0, CallUpdates DEF Steps
<1>8. CASE ConnectFails(t)
    <2>1. CASE call[t].attempt + 1 < MaxAttempts
        <3>1. call' = [call EXCEPT ![t] = [call[t] EXCEPT !.attempt = @ + 1]]
            BY <1>0, <1>8, <2>1 DEF ConnectFails
        <3>2. QED  BY <2>1, <3>1, <1>0, CallUpdates
    <2>2. QED  BY <1>2, <1>8, <2>1 DEF ConnectFails
<1>9. CASE Close(t)
    <2>1. call' = [call EXCEPT ![t] = [call[t] EXCEPT !.open = FALSE, !.at = "unlock"]]
        BY <1>0, <1>9 DEF Close
    <2>2. QED  BY <2>1, <1>0, CallUpdates DEF Steps
<1>10. QED
    BY <1>1, <1>2, <1>3, <1>5, <1>6, <1>7, <1>8, <1>9 DEF Run, Steps, TakeManagerLock,
        TakeWriteLock, Load, LoadRaises, CreateView, CreateViewRaises, Unlock

\* Types.
LEMMA TypeStep ==
    ASSUME IInv, NEW t \in Threads, Begin(t) \/ Run(t)
    PROVE  TypeOK'
<1>0. TypeOK /\ call' \in [Threads -> Call] /\ ProcessOf[t] \in Processes
    BY CallStep, ConnectionsAssumption DEF IInv
<1>1. CASE Begin(t) \/ GetManager(t) \/ CreateViewRaises(t) \/ Close(t)
    BY <1>0, <1>1 DEF TypeOK, Begin, GetManager, CreateViewRaises, Close
<1>2. CASE TakeManagerLock(t)
    BY <1>0, <1>2 DEF TypeOK, TakeManagerLock
<1>3. CASE MakeManager(t)
    BY <1>0, <1>3, FirstManager DEF TypeOK, MakeManager
<1>4. CASE TakeWriteLock(t)
    BY <1>0, <1>4 DEF TypeOK, TakeWriteLock
<1>5. CASE Connect(t)
    BY <1>0, <1>5 DEF TypeOK, Connect
<1>6. CASE ConnectFails(t) \/ Unlock(t)
    <2>1. Free(t) \/ UNCHANGED writeLock
        BY <1>6 DEF ConnectFails, Unlock
    <2>2. QED  BY <1>0, <1>6, <2>1, FreeType DEF TypeOK, ConnectFails, Unlock
<1>7. CASE Load(t)
    <2>1. call[t].of \in Managers
        BY <1>0, <1>7 DEF Load, At, IInv, LockHeld, Connected, TypeOK, Call
    <2>2. QED  BY <1>0, <1>7, <2>1 DEF TypeOK, Load
<1>8. CASE LoadRaises(t)
    <2>1. call[t].kind \in Kinds
        BY <1>0 DEF TypeOK, Call
    <2>2. QED  BY <1>0, <1>8, <2>1, FreeType DEF TypeOK, LoadRaises
<1>9. CASE CreateView(t)
    <2>1. views # None
        BY <1>9 DEF CreateView, IInv, ConnectionsOpen, Connected
    <2>2. QED  BY <1>0, <1>9, <2>1 DEF TypeOK, CreateView
<1>10. QED
    BY <1>1, <1>2, <1>3, <1>4, <1>5, <1>6, <1>7, <1>8, <1>9 DEF Run

-------------------------------------------------------------------------------
\* The fields of a call after its step.
LEMMA CallFields ==
    ASSUME TypeOK, NEW t \in Threads
    PROVE  /\ \A s \in Steps : GoTo(t, s) =>
                /\ call'[t].at = s /\ call'[t].of = call[t].of
                /\ call'[t].kind = call[t].kind /\ call'[t].open = call[t].open
           /\ Return(t) => call'[t] = Idle
           /\ \A m \in Managers : Enter(t, m) =>
                \/ call'[t] = Idle
                \/ /\ call'[t].of = m /\ call'[t].open = call[t].open
                   /\ call'[t].kind = call[t].kind
                   /\ call'[t].at = IF call[t].kind = "read" THEN "connect" ELSE "wait"
           /\ Begin(t) => call'[t].at = "get" /\ call'[t].of = call[t].of /\ call'[t].open = call[t].open
           /\ Connect(t) => /\ call'[t].at = "load" /\ call'[t].of = call[t].of
                            /\ call'[t].kind = call[t].kind /\ call'[t].open = TRUE
           /\ Close(t) => /\ call'[t].at = "unlock" /\ call'[t].of = call[t].of
                          /\ call'[t].kind = call[t].kind /\ call'[t].open = FALSE
           /\ ConnectFails(t) =>
                \/ call'[t] = Idle
                \/ /\ call'[t].at = call[t].at /\ call'[t].of = call[t].of
                   /\ call'[t].kind = call[t].kind /\ call'[t].open = call[t].open
                   /\ UNCHANGED writeLock
<1>0. call \in [Threads -> Call] /\ call[t] \in Call
    BY DEF TypeOK
<1>1. ASSUME NEW s \in Steps, GoTo(t, s)
      PROVE  /\ call'[t].at = s /\ call'[t].of = call[t].of
             /\ call'[t].kind = call[t].kind /\ call'[t].open = call[t].open
    BY <1>0, <1>1 DEF GoTo, Call
<1>2. Return(t) => call'[t] = Idle
    BY <1>0 DEF Return
<1>3. ASSUME NEW m \in Managers, Enter(t, m)
      PROVE  \/ call'[t] = Idle
             \/ /\ call'[t].of = m /\ call'[t].open = call[t].open
                /\ call'[t].kind = call[t].kind
                /\ call'[t].at = IF call[t].kind = "read" THEN "connect" ELSE "wait"
    BY <1>0, <1>2, <1>3 DEF Enter, Call
<1>4. Begin(t) => call'[t].at = "get" /\ call'[t].of = call[t].of /\ call'[t].open = call[t].open
    BY <1>0 DEF Begin, Call
<1>5. Connect(t) => /\ call'[t].at = "load" /\ call'[t].of = call[t].of
                    /\ call'[t].kind = call[t].kind /\ call'[t].open = TRUE
    BY <1>0 DEF Connect, Call
<1>6. Close(t) => /\ call'[t].at = "unlock" /\ call'[t].of = call[t].of
                  /\ call'[t].kind = call[t].kind /\ call'[t].open = FALSE
    BY <1>0 DEF Close, Call
<1>7. ASSUME ConnectFails(t)
      PROVE  \/ call'[t] = Idle
             \/ /\ call'[t].at = call[t].at /\ call'[t].of = call[t].of
                /\ call'[t].kind = call[t].kind /\ call'[t].open = call[t].open
                /\ UNCHANGED writeLock
    BY <1>0, <1>2, <1>7 DEF ConnectFails, Call
<1>8. QED
    BY <1>1, <1>2, <1>3, <1>4, <1>5, <1>6, <1>7

\* Managers are made once; calls and kept connections are of the one there is.
LEMMA OneManagerStep ==
    ASSUME IInv, NEW t \in Threads, Begin(t) \/ Run(t)
    PROVE  OneManager'
<1> DEFINE p == ProcessOf[t]
<1>0. /\ TypeOK /\ OneManager /\ p \in Processes
      /\ \A u \in Threads \ {t} : call'[u] = call[u]
      /\ \A u \in Threads : ProcessOf[u] \in Processes
      /\ \A c \in kept : c[1] \in Threads /\ c[2] \in Managers
    BY CallStep, ConnectionsAssumption DEF IInv, TypeOK
<1>1. Idle.of = 0
    BY DEF Idle
<1>2. CASE UNCHANGED manager /\ UNCHANGED kept /\ call'[t].of \in {0, call[t].of, manager[p]}
    BY <1>0, <1>2 DEF OneManager
<1>3. CASE GetManager(t)
    <2>1. manager[p] # 0 => manager[p] \in Managers
        BY <1>0 DEF TypeOK
    <2>2. call'[t].of \in {0, call[t].of, manager[p]}
        BY <1>0, <1>1, <1>3, <2>1, CallFields DEF GetManager, Steps
    <2>3. QED  BY <1>2, <1>3, <2>2 DEF GetManager
<1>4. CASE MakeManager(t)
    <2>1. manager'[p] \in Managers /\ manager'[p] = 1
        BY <1>0, <1>4, FirstManager DEF MakeManager, TypeOK, OneManager
    <2>2. call'[t].of \in {0, manager'[p]}
        BY <1>0, <1>1, <1>4, <2>1, CallFields DEF MakeManager
    <2>3. \A q \in Processes : manager'[q] = manager[q] \/ (manager[q] = 0 /\ manager'[q] = 1)
        BY <1>0, <1>4 DEF MakeManager, TypeOK
    <2>4. \A c \in kept : manager[ProcessOf[c[1]]] # 0
        BY <1>0 DEF OneManager, Managers
    <2>5. kept' = kept
        BY <1>4 DEF MakeManager
    <2>6. QED  BY <1>0, <2>2, <2>3, <2>4, <2>5 DEF OneManager
<1>5. CASE Load(t)
    <2>1. call'[t].of \in {0, call[t].of} /\ UNCHANGED manager
        BY <1>0, <1>1, <1>5, CallFields DEF Load, Steps
    <2>2. call[t].of = manager[p]
        BY <1>0, <1>5 DEF Load, At, IInv, LockHeld, Connected, OneManager
    <2>3. \A c \in kept' : c \in kept \/ c = <<t, call[t].of>>
        BY <1>5 DEF Load
    <2>4. QED  BY <1>0, <2>1, <2>2, <2>3 DEF OneManager
<1>6. QED
    BY <1>0, <1>1, <1>2, <1>3, <1>4, <1>5, CallFields DEF Run, Begin, TakeManagerLock, TakeWriteLock,
        Connect, ConnectFails, LoadRaises, CreateView, CreateViewRaises, Close, Unlock, Steps

\* A call opens its connection as it enters the connected steps, closes it or
\* leaves it to the garbage collector as it leaves them, and no view is dropped.
LEMMA ConnectionsOpenStep ==
    ASSUME IInv, NEW t \in Threads, Begin(t) \/ Run(t)
    PROVE  ConnectionsOpen'
<1>0. /\ TypeOK /\ ConnectionsOpen
      /\ \A u \in Threads \ {t} : call'[u] = call[u]
    BY CallStep DEF IInv
<1>1. views # None => views' # None
    BY ConnectionsAssumption, <1>0 DEF TypeOK, Begin, Run, GetManager, TakeManagerLock, MakeManager,
        TakeWriteLock, Connect, ConnectFails, Load, LoadRaises, CreateView, CreateViewRaises, Close, Unlock
<1> SUFFICES /\ call'[t].open <=> call'[t].at \in Connected
             /\ call'[t].open => views' # None
    BY <1>0, <1>1 DEF ConnectionsOpen
<1>2. ~Idle.open /\ Idle.at \notin Connected
    BY DEF Idle, Connected
<1>3. CASE call'[t] = Idle
    BY <1>2, <1>3
<1>4. ASSUME call'[t].open = call[t].open, call'[t].at \in Connected <=> call[t].at \in Connected
      PROVE  /\ call'[t].open <=> call'[t].at \in Connected
             /\ call'[t].open => views' # None
    BY <1>0, <1>1, <1>4 DEF ConnectionsOpen
<1>5. CASE Connect(t)
    <2>1. views' # None
        BY <1>1, <1>5, ConnectionsAssumption DEF Connect
    <2>2. QED  BY <1>0, <1>5, <2>1, CallFields DEF Connected
<1>6. CASE Close(t)
    BY <1>0, <1>6, CallFields DEF Connected
<1>7. CASE Begin(t)
    BY <1>0, <1>4, <1>7, CallFields DEF Begin, At, Connected
<1>8. CASE GetManager(t)
    BY <1>0, <1>3, <1>4, <1>8, CallFields, ConnectionsAssumption DEF GetManager, At, Connected, Steps, TypeOK
<1>9. CASE MakeManager(t)
    <2>1. manager'[ProcessOf[t]] \in Managers
        BY <1>0, <1>9, FirstManager, ConnectionsAssumption DEF MakeManager, TypeOK
    <2>2. QED  BY <1>0, <1>3, <1>4, <1>9, <2>1, CallFields DEF MakeManager, At, Connected
<1>10. CASE ConnectFails(t)
    BY <1>0, <1>3, <1>4, <1>10, CallFields
<1>11. QED
    BY <1>0, <1>3, <1>4, <1>5, <1>6, <1>7, <1>8, <1>9, <1>10, CallFields DEF Run, At, TakeManagerLock,
        TakeWriteLock, Load, LoadRaises, CreateView, CreateViewRaises, Unlock, Steps, Connected

-------------------------------------------------------------------------------
\* Leaving the lock changes nobody else's.
LEMMA FreeOwn ==
    ASSUME IInv, NEW t \in Threads, Free(t),
           call[t].at \in Connected \cup {"connect", "unlock"}
    PROVE  \A q \in Processes, m \in Managers :
               writeLock[q][m] # t => writeLock'[q][m] = writeLock[q][m]
<1>1. CASE call[t].kind = "write"
    <2>1. writeLock[ProcessOf[t]][call[t].of] = t /\ ProcessOf[t] \in Processes
        BY <1>1, ConnectionsAssumption DEF IInv, LockHeld
    <2>2. writeLock' = [writeLock EXCEPT ![ProcessOf[t]] =
                            [writeLock[ProcessOf[t]] EXCEPT ![call[t].of] = None]]
        BY <1>1, <2>1 DEF Free, IInv, TypeOK
    <2>3. QED  BY <2>1, <2>2 DEF IInv, TypeOK
<1>2. CASE call[t].kind # "write"
    BY <1>2 DEF Free
<1>3. QED  BY <1>1, <1>2

\* A lock another thread holds is not touched by a step.
LEMMA LocksOfOthers ==
    ASSUME IInv, NEW t \in Threads, Begin(t) \/ Run(t)
    PROVE  \A q \in Processes, m \in Managers :
               writeLock[q][m] \notin {t, None} => writeLock'[q][m] = writeLock[q][m]
<1>1. CASE UNCHANGED writeLock
    BY <1>1
<1>2. CASE Free(t) /\ call[t].at \in Connected \cup {"connect", "unlock"}
    BY <1>2, FreeOwn
<1>3. CASE TakeWriteLock(t)
    <2>1. writeLock[ProcessOf[t]][call[t].of] = None /\ ProcessOf[t] \in Processes
        BY <1>3, ConnectionsAssumption DEF TakeWriteLock
    <2>2. writeLock' = [writeLock EXCEPT ![ProcessOf[t]] =
                            [writeLock[ProcessOf[t]] EXCEPT ![call[t].of] = t]]
        BY <1>3, <2>1 DEF TakeWriteLock, IInv, TypeOK
    <2>3. QED  BY <2>1, <2>2 DEF IInv, TypeOK
<1>4. QED
    BY <1>1, <1>2, <1>3 DEF Begin, Run, At, GetManager, TakeManagerLock, MakeManager, Connect, ConnectFails,
        Load, LoadRaises, CreateView, CreateViewRaises, Close, Unlock, Connected

\* The one clause of LockHeld that is about t.
LEMMA OwnLockHeld ==
    ASSUME IInv, NEW t \in Threads, Begin(t) \/ Run(t)
    PROVE  /\ call'[t].at \in Connected \cup {"wait", "connect", "unlock"} => call'[t].of # 0
           /\ call'[t].kind = "write" /\ call'[t].at \in Connected \cup {"connect", "unlock"} =>
                  writeLock'[ProcessOf[t]][call'[t].of] = t
<1> DEFINE p == ProcessOf[t]
           Held == writeLock[p][call[t].of] = t
           Goal == /\ call'[t].at \in Connected \cup {"wait", "connect", "unlock"} => call'[t].of # 0
                   /\ call'[t].kind = "write" /\ call'[t].at \in Connected \cup {"connect", "unlock"} =>
                          writeLock'[p][call'[t].of] = t
<1> SUFFICES Goal  OBVIOUS
<1>0. /\ TypeOK /\ p \in Processes
      /\ call[t].at \in Connected \cup {"wait", "connect", "unlock"} => call[t].of # 0
      /\ call[t].kind = "write" /\ call[t].at \in Connected \cup {"connect", "unlock"} => Held
      /\ call[t].of \in Managers \cup {0} /\ call[t].kind \in Kinds
    BY ConnectionsAssumption DEF IInv, LockHeld, TypeOK, Call
<1>1. CASE call'[t].at \in {"idle", "get", "lock", "make"}
    BY <1>1 DEF Connected
<1>2. CASE call'[t] = Idle
    BY <1>1, <1>2 DEF Idle
<1>3. ASSUME NEW m \in Managers, Enter(t, m)
      PROVE  Goal
    <2>1. m # 0
        BY DEF Managers
    <2>2. QED  BY <1>0, <1>2, <1>3, <2>1, CallFields DEF Connected, Kinds
<1>4. CASE /\ UNCHANGED writeLock
           /\ call[t].at \in Connected \cup {"connect", "unlock"}
           /\ call'[t].at \in Connected \cup {"connect", "unlock"}
           /\ call'[t].kind = call[t].kind /\ call'[t].of = call[t].of
    BY <1>0, <1>4
<1>5. CASE GetManager(t)
    <2>1. manager[p] # 0 => manager[p] \in Managers
        BY <1>0 DEF TypeOK
    <2>2. QED  BY <1>0, <1>1, <1>3, <1>5, <2>1, CallFields DEF GetManager, Steps
<1>6. CASE MakeManager(t)
    <2>1. manager'[p] \in Managers
        BY <1>0, <1>6, FirstManager DEF MakeManager, TypeOK
    <2>2. QED  BY <1>3, <1>6, <2>1 DEF MakeManager
<1>7. CASE TakeWriteLock(t)
    <2>1. /\ call'[t].of = call[t].of /\ call[t].of \in Managers /\ call[t].of # 0
          /\ writeLock[p] \in [Managers -> Threads \cup {None}]
        BY <1>0, <1>7, CallFields DEF TakeWriteLock, At, Steps, TypeOK
    <2>2. writeLock' = [writeLock EXCEPT ![p] = [writeLock[p] EXCEPT ![call[t].of] = t]]
        BY <1>0, <1>7, <2>1 DEF TakeWriteLock, TypeOK
    <2>3. writeLock'[p][call[t].of] = t
        BY <1>0, <2>1, <2>2 DEF TypeOK
    <2>4. QED  BY <2>1, <2>3
<1>8. CASE Connect(t)
    BY <1>0, <1>4, <1>8, CallFields DEF Connect, At, Connected
<1>9. CASE ConnectFails(t)
    BY <1>0, <1>2, <1>4, <1>9, CallFields DEF ConnectFails, At
<1>10. CASE Load(t) \/ CreateView(t) \/ CreateViewRaises(t) \/ Close(t)
    BY <1>0, <1>2, <1>4, <1>10, CallFields DEF Load, CreateView, CreateViewRaises, Close, At, Connected, Steps
<1>11. QED
    BY <1>0, <1>1, <1>2, <1>5, <1>6, <1>7, <1>8, <1>9, <1>10, CallFields
        DEF Run, Begin, TakeManagerLock, LoadRaises, Unlock, Steps

\* Locks: taken free, given back by the thread that took them.
LEMMA LockHeldStep ==
    ASSUME IInv, NEW t \in Threads, Begin(t) \/ Run(t)
    PROVE  LockHeld'
<1>1. ASSUME NEW u \in Threads \ {t}
      PROVE  /\ call'[u].at \in Connected \cup {"wait", "connect", "unlock"} => call'[u].of # 0
             /\ call'[u].kind = "write" /\ call'[u].at \in Connected \cup {"connect", "unlock"} =>
                    writeLock'[ProcessOf[u]][call'[u].of] = u
    <2>1. call'[u] = call[u] /\ ProcessOf[u] \in Processes /\ u \notin {t, None}
        BY CallStep, ConnectionsAssumption DEF IInv
    <2>2. call[u].of # 0 => call[u].of \in Managers
        BY DEF IInv, TypeOK, Call
    <2>3. QED  BY <2>1, <2>2, LocksOfOthers DEF IInv, LockHeld
<1>2. QED
    BY <1>1, OwnLockHeld DEF LockHeld, Connected

-------------------------------------------------------------------------------
\* A call opens its connection by a connect and keeps its kind while it is open.
LEMMA OpensByConnect ==
    ASSUME IInv, NEW t \in Threads, Begin(t) \/ Run(t), call'[t].open
    PROVE  call'[t].kind = call[t].kind /\ (call[t].open \/ Connect(t))
<1>0. /\ TypeOK
      /\ call[t].open <=> call[t].at \in Connected
    BY DEF IInv, ConnectionsOpen
<1>1. ~Idle.open
    BY DEF Idle
<1>2. CASE call'[t].kind = call[t].kind /\ call'[t].open = call[t].open
    BY <1>2
<1>3. CASE GetManager(t)
    <2>1. manager[ProcessOf[t]] # 0 => manager[ProcessOf[t]] \in Managers
        BY <1>0, ConnectionsAssumption DEF TypeOK
    <2>2. QED  BY <1>0, <1>1, <1>2, <1>3, <2>1, CallFields DEF GetManager, Steps
<1>4. CASE MakeManager(t)
    <2>1. manager'[ProcessOf[t]] \in Managers
        BY <1>0, <1>4, FirstManager, ConnectionsAssumption DEF MakeManager, TypeOK
    <2>2. QED  BY <1>0, <1>1, <1>2, <1>4, <2>1, CallFields DEF MakeManager
<1>5. CASE Begin(t)
    BY <1>0, <1>5, CallFields DEF Begin, At, Connected
<1>6. QED
    BY <1>0, <1>1, <1>2, <1>3, <1>4, <1>5, CallFields DEF Run, TakeManagerLock, TakeWriteLock,
        ConnectFails, Load, LoadRaises, CreateView, CreateViewRaises, Unlock, Steps

\* Only a connect opens the file: a connection kept, or left to the garbage
\* collector, was the call's own before.
LEMMA OpenStep ==
    ASSUME IInv, NEW t \in Threads, Begin(t) \/ Run(t)
    PROVE  \A q \in Processes, k \in Kinds :
               HasOpen(q, k)' => HasOpen(q, k) \/ (Connect(t) /\ q = ProcessOf[t] /\ k = call[t].kind)
<1>0. /\ TypeOK /\ \A u \in Threads \ {t} : call'[u] = call[u]
      /\ call[t].open <=> call[t].at \in Connected
    BY CallStep DEF IInv, ConnectionsOpen
<1>1. call'[t].open => call'[t].kind = call[t].kind /\ (call[t].open \/ Connect(t))
    BY OpensByConnect
<1>2. \A c \in kept' : c \in kept \/ (c[1] = t /\ call[t].open /\ call[t].kind = "read")
    BY <1>0 DEF Begin, Run, At, GetManager, TakeManagerLock, MakeManager, TakeWriteLock, Connect, ConnectFails,
        Load, LoadRaises, CreateView, CreateViewRaises, Close, Unlock, Connected
<1>3. \A c \in stray' : c \in stray \/ (c = <<ProcessOf[t], call[t].kind>> /\ call[t].open)
    BY <1>0 DEF Begin, Run, At, GetManager, TakeManagerLock, MakeManager, TakeWriteLock, Connect, ConnectFails,
        Load, LoadRaises, CreateView, CreateViewRaises, Close, Unlock, Connected
<1>4. TAKE q \in Processes, k \in Kinds
<1>5. ASSUME NEW u \in Threads, ProcessOf[u] = q, call'[u].open, call'[u].kind = k
      PROVE  HasOpen(q, k) \/ (Connect(t) /\ q = ProcessOf[t] /\ k = call[t].kind)
    BY <1>0, <1>1, <1>5 DEF HasOpen
<1>6. ASSUME k = "read", NEW c \in kept', ProcessOf[c[1]] = q
      PROVE  HasOpen(q, k)
    BY <1>2, <1>6 DEF HasOpen
<1>7. ASSUME <<q, k>> \in stray'
      PROVE  HasOpen(q, k)
    BY <1>3, <1>7 DEF HasOpen
<1>8. QED
    BY <1>5, <1>6, <1>7 DEF HasOpen

\* The file lock: a connect succeeds only where it leaves the file in one
\* process for writing, or in any for reading.
LEMMA FileLockedStep ==
    ASSUME IInv, NEW t \in Threads, Begin(t) \/ Run(t)
    PROVE  FileLocked'
<1>0. FileLocked /\ ProcessOf[t] \in Processes
    BY ConnectionsAssumption DEF IInv
<1>1. CASE ~Connect(t)
    <2>1. \A q \in Processes, k \in Kinds : HasOpen(q, k)' => HasOpen(q, k)
        BY <1>1, OpenStep
    <2>2. QED  BY <1>0, <2>1 DEF FileLocked, Kinds
<1>2. CASE Connect(t) /\ call[t].kind = "read"
    <2>1. \A q \in Processes : ~HasOpen(q, "write")
        BY <1>2 DEF Connect, CanConnect, writers
    <2>2. \A q \in Processes : HasOpen(q, "write")' => HasOpen(q, "write")
        BY <1>2, OpenStep DEF Kinds
    <2>3. QED  BY <2>1, <2>2 DEF FileLocked
<1>3. CASE Connect(t) /\ call[t].kind = "write"
    <2>1. \A q \in Processes : ~HasOpen(q, "read") /\ (HasOpen(q, "write") => q = ProcessOf[t])
        BY <1>3 DEF Connect, CanConnect, readers, writers
    <2>2. \A q \in Processes : ~HasOpen(q, "read")' /\ (HasOpen(q, "write")' => q = ProcessOf[t])
        BY <1>3, <2>1, OpenStep DEF Kinds
    <2>3. QED  BY <2>2 DEF FileLocked
<1>4. QED
    BY <1>1, <1>2, <1>3 DEF IInv, TypeOK, Call, Kinds

-------------------------------------------------------------------------------
\* The end of a process takes its threads' connections, calls and locks away.
LEMMA DieStep ==
    ASSUME IInv, NEW p \in Processes, Die(p)
    PROVE  IInv'
<1>1. ~Idle.open /\ Idle.of = 0 /\ Idle.at = "idle" /\ Idle \in Call
    BY IdleCall DEF Idle
<1>2. \A t \in Threads : ProcessOf[t] \in Processes
    BY ConnectionsAssumption
<1>3. \A t \in Threads : call'[t] = IF ProcessOf[t] = p THEN Idle ELSE call[t]
    BY DEF Die
<1>4. \A q \in Processes : manager'[q] = IF q = p THEN 0 ELSE manager[q]
    BY DEF Die, IInv, TypeOK
<1>5. \A q \in Processes : q # p => writeLock'[q] = writeLock[q]
    BY DEF Die, IInv, TypeOK
<1>6. /\ \A c \in kept' : c \in kept /\ ProcessOf[c[1]] # p
      /\ stray' \subseteq stray /\ views' = views
    BY DEF Die
<1>7. TypeOK'
    <2>1. call' \in [Threads -> Call]
        BY <1>1 DEF Die, TypeOK, IInv
    <2>2. kept' \subseteq Threads \X Managers /\ stray' \subseteq Processes \X Kinds
        BY <1>6 DEF IInv, TypeOK
    <2>3. QED  BY <1>6, <2>1, <2>2 DEF Die, TypeOK, IInv
<1>8. OneManager'
    <2>1. \A q \in Processes : manager'[q] \in {0, 1}
        BY <1>4 DEF IInv, OneManager
    <2>2. \A t \in Threads : call'[t].of \in {0, manager'[ProcessOf[t]]}
        BY <1>1, <1>2, <1>3, <1>4 DEF IInv, OneManager
    <2>3. ASSUME NEW c \in kept'
          PROVE  c[2] = manager'[ProcessOf[c[1]]]
        <3>1. c \in kept /\ c[1] \in Threads /\ ProcessOf[c[1]] # p
            BY <1>6 DEF IInv, TypeOK
        <3>2. QED  BY <1>2, <1>4, <3>1 DEF IInv, OneManager
    <2>4. QED  BY <2>1, <2>2, <2>3 DEF OneManager
<1>9. ConnectionsOpen'
    BY <1>1, <1>3, <1>6 DEF IInv, ConnectionsOpen, Connected
<1>10. LockHeld'
    <2>1. ASSUME NEW t \in Threads, ProcessOf[t] # p
          PROVE  call'[t] = call[t] /\ writeLock'[ProcessOf[t]] = writeLock[ProcessOf[t]]
        BY <1>2, <1>3, <1>5, <2>1
    <2>2. ASSUME NEW t \in Threads, ProcessOf[t] = p
          PROVE  call'[t].at = "idle"
        BY <1>1, <1>3, <2>2
    <2>3. QED  BY <2>1, <2>2 DEF IInv, LockHeld, Connected
<1>11. FileLocked'
    <2>1. \A q \in Processes, k \in Kinds : HasOpen(q, k)' => HasOpen(q, k)
        BY <1>1, <1>3, <1>6 DEF HasOpen
    <2>2. QED  BY <2>1 DEF IInv, FileLocked, Kinds
<1>12. QED
    BY <1>7, <1>8, <1>9, <1>10, <1>11 DEF IInv

\* The end of a thread takes its connection away, or leaves it as a stray of its
\* process, which had the file open for reading already.
LEMMA ThreadEndsStep ==
    ASSUME IInv, NEW t \in Threads, ThreadEnds(t)
    PROVE  IInv'
<1>1. /\ kept' \subseteq kept /\ t \in keeping
      /\ stray' \subseteq stray \cup {<<ProcessOf[t], "read">>}
      /\ UNCHANGED <<manager, managerLock, writeLock, call, views>>
    BY DEF ThreadEnds
<1>2. TypeOK'
    <2>1. stray' \subseteq Processes \X Kinds
        BY <1>1, ConnectionsAssumption DEF IInv, TypeOK, Kinds
    <2>2. QED  BY <1>1, <2>1 DEF IInv, TypeOK
<1>3. OneManager' /\ ConnectionsOpen' /\ LockHeld'
    BY <1>1 DEF IInv, OneManager, ConnectionsOpen, LockHeld
<1>4. HasOpen(ProcessOf[t], "read")
    BY <1>1 DEF keeping, HasOpen
<1>5. \A q \in Processes, k \in Kinds : HasOpen(q, k)' => HasOpen(q, k)
    BY <1>1, <1>4 DEF HasOpen
<1>6. FileLocked'
    BY <1>5 DEF IInv, FileLocked, Kinds
<1>7. QED  BY <1>2, <1>3, <1>6 DEF IInv

\* A collected connection only makes room.
LEMMA CollectStep ==
    ASSUME IInv, Collect
    PROVE  IInv'
<1>1. /\ stray' \subseteq stray
      /\ UNCHANGED <<manager, managerLock, writeLock, call, kept, views>>
    BY DEF Collect
<1>2. TypeOK' /\ OneManager' /\ ConnectionsOpen' /\ LockHeld'
    BY <1>1 DEF IInv, TypeOK, OneManager, ConnectionsOpen, LockHeld
<1>3. \A q \in Processes, k \in Kinds : HasOpen(q, k)' => HasOpen(q, k)
    BY <1>1 DEF HasOpen
<1>4. FileLocked'
    BY <1>3 DEF IInv, FileLocked, Kinds
<1>5. QED  BY <1>2, <1>4 DEF IInv

\* Init establishes the invariant.
LEMMA InitIInv == Init => IInv
<1> SUFFICES ASSUME Init PROVE IInv
    OBVIOUS
<1>1. ~Idle.open /\ Idle.of = 0 /\ Idle.at = "idle" /\ Idle \in Call
    BY IdleCall DEF Idle
<1>2. TypeOK
    BY <1>1 DEF Init, TypeOK
<1>3. OneManager /\ ConnectionsOpen /\ LockHeld
    BY <1>1 DEF Init, OneManager, ConnectionsOpen, LockHeld, Connected
<1>4. FileLocked
    BY <1>1 DEF Init, FileLocked, HasOpen
<1>5. QED  BY <1>2, <1>3, <1>4 DEF IInv

\* Every step keeps the invariant.
LEMMA NextIInv == IInv /\ [Next]_vars => IInv'
<1> SUFFICES ASSUME IInv, [Next]_vars PROVE IInv'
    OBVIOUS
<1>1. CASE \E t \in Threads : Begin(t) \/ Run(t)
    BY <1>1, TypeStep, OneManagerStep, ConnectionsOpenStep, LockHeldStep, FileLockedStep DEF IInv
<1>2. CASE UNCHANGED vars
    BY <1>2 DEF vars, IInv, TypeOK, OneManager, ConnectionsOpen, LockHeld, FileLocked, HasOpen
<1>3. QED
    BY <1>1, <1>2, ThreadEndsStep, DieStep, CollectStep DEF Next

\* The invariant holds in every behaviour, for any number of threads, processes
\* and attempts.
THEOREM IInvariant == Spec => []IInv
<1>1. QED  BY InitIInv, NextIInv, PTL DEF Spec

\* Every variable keeps its type: in particular a lock is only ever held by a
\* thread, and a process numbers no more managers than it has threads.
THEOREM TypeCorrect == Spec => []TypeOK
<1>1. IInv => TypeOK
    BY DEF IInv
<1>2. QED  BY <1>1, IInvariant, PTL

-------------------------------------------------------------------------------
\* Two threads of one process that are past the lock are the same.
LEMMA OnePastTheLock ==
    ASSUME IInv, NEW t \in Threads, NEW u \in Threads, ProcessOf[t] = ProcessOf[u],
           call[t].kind = "write", call[t].at \in Connected \cup {"connect", "unlock"},
           call[u].kind = "write", call[u].at \in Connected \cup {"connect", "unlock"}
    PROVE  t = u
<1>1. call[t].of # 0 /\ call[u].of # 0
    BY DEF IInv, LockHeld
<1>2. call[t].of = call[u].of
    BY <1>1 DEF IInv, OneManager
<1>3. QED  BY <1>2 DEF IInv, LockHeld

\* Two threads that write are the same: the file lock puts them in one process,
\* its one manager has one lock.
LEMMA OneWrites ==
    ASSUME IInv, NEW t \in writing, NEW u \in writing
    PROVE  t = u
<1>1. /\ t \in Threads /\ call[t].kind = "write" /\ call[t].at \in Connected /\ call[t].open
      /\ u \in Threads /\ call[u].kind = "write" /\ call[u].at \in Connected /\ call[u].open
    BY DEF writing, IInv, ConnectionsOpen
<1>2. ProcessOf[t] = ProcessOf[u]
    BY <1>1, ConnectionsAssumption DEF IInv, FileLocked, HasOpen
<1>3. QED  BY <1>1, <1>2, OnePastTheLock

\* A bootstrap is alone with the file, whatever the number of threads and
\* processes: no other thread writes and no process has it open for reading.
THEOREM WriterIsAlone == Spec => []WriterAlone
<1>1. ASSUME IInv, NEW t \in writing
      PROVE  writing = {t} /\ readers = {}
    <2>1. HasOpen(ProcessOf[t], "write") /\ ProcessOf[t] \in Processes
        BY ConnectionsAssumption DEF writing, HasOpen
    <2>2. readers = {}
        BY <1>1, <2>1 DEF IInv, FileLocked, readers
    <2>3. QED  BY <1>1, <2>2, OneWrites
<1>2. IInv => WriterAlone
    BY <1>1 DEF WriterAlone
<1>3. QED  BY <1>2, IInvariant, PTL

-------------------------------------------------------------------------------
\* A thread's step is one of OneWriter's, or none of its business.
LEMMA ThreadRefines ==
    ASSUME IInv, NEW t \in Threads, Begin(t) \/ Run(t)
    PROVE  [Promised!Next]_<<keeping, writing>>
<1>0. /\ TypeOK /\ ProcessOf[t] \in Processes
      /\ \A u \in Threads \ {t} : call'[u] = call[u]
      /\ call[t].open <=> call[t].at \in Connected
      /\ call[t].kind \in Kinds
    BY CallStep, ConnectionsAssumption DEF IInv, ConnectionsOpen, TypeOK, Call
<1>1. \A u \in Threads : u # t => (u \in writing' <=> u \in writing)
    BY <1>0 DEF writing
<1>2. writing' \subseteq Threads /\ writing \subseteq Threads
    BY DEF writing
<1>3. CASE Connect(t) /\ call[t].kind = "write"
    <2>1. readers = {} /\ writers \subseteq {ProcessOf[t]} /\ call[t].at = "connect"
        BY <1>3 DEF Connect, CanConnect, At
    <2>2. keeping = {} /\ UNCHANGED keeping
        <3>1. \A c \in kept : ProcessOf[c[1]] \in readers
            BY <1>0, ConnectionsAssumption DEF TypeOK, HasOpen, readers
        <3>2. QED  BY <1>3, <2>1, <3>1 DEF keeping, Connect
    <2>3. ASSUME NEW u \in writing
          PROVE  FALSE
        <3>1. u \in Threads /\ call[u].open /\ call[u].kind = "write" /\ ProcessOf[u] = ProcessOf[t]
            BY <2>1, ConnectionsAssumption DEF writing, writers, HasOpen
        <3>2. call[u].at \in Connected
            BY <3>1 DEF IInv, ConnectionsOpen
        <3>3. u = t
            BY <1>3, <2>1, <3>1, <3>2, OnePastTheLock
        <3>4. QED  BY <2>1, <3>2, <3>3 DEF Connected
    <2>4. t \in writing'
        BY <1>0, <1>3, CallFields DEF writing
    <2>5. writing = {} /\ writing' = {t}
        BY <1>1, <1>2, <2>3, <2>4
    <2>6. Promised!Start(t)
        BY <2>2, <2>5 DEF Promised!Start
    <2>7. QED  BY <2>6 DEF Promised!Next
<1>4. CASE Load(t) /\ call[t].kind = "read"
    <2>1. kept' = kept \cup {<<t, call[t].of>>} /\ call'[t] = Idle /\ call[t].open
        BY <1>0, <1>4, CallFields DEF Load, At, Connected
    <2>2. keeping' = keeping \cup {t}
        <3> DEFINE own == <<t, call[t].of>>
        <3>1. kept' = kept \cup {own} /\ own[1] = t
            BY <2>1
        <3> HIDE DEF own
        <3>2. {c[1] : c \in kept'} = {c[1] : c \in kept} \cup {t}
            BY <3>1
        <3>3. QED  BY <3>2 DEF keeping
    <2>3. HasOpen(ProcessOf[t], "read")
        BY <1>4, <2>1 DEF HasOpen
    <2>4. writing = {}
        BY <1>0, <2>3, ConnectionsAssumption DEF IInv, FileLocked, HasOpen, writing
    <2>5. t \notin writing'
        BY <2>1 DEF writing, Idle
    <2>6. writing' = writing
        BY <1>1, <1>2, <2>4, <2>5
    <2>7. Promised!Keep(t)
        BY <2>2, <2>4, <2>6 DEF Promised!Keep
    <2>8. QED  BY <2>7 DEF Promised!Next
<1>5. CASE ~(Connect(t) /\ call[t].kind = "write") /\ ~(Load(t) /\ call[t].kind = "read")
    <2>1. kept' = kept
        BY <1>5 DEF Begin, Run, GetManager, TakeManagerLock, MakeManager, TakeWriteLock, Connect,
            ConnectFails, Load, LoadRaises, CreateView, CreateViewRaises, Close, Unlock
    <2>2. UNCHANGED keeping
        BY <2>1 DEF keeping
    <2>3. t \in writing' => t \in writing
        BY <1>5, OpensByConnect DEF writing
    <2>4. CASE t \in writing /\ t \notin writing'
        <3>1. writing = {t} /\ writing' = {}
            BY <1>1, <1>2, <2>4, OneWrites
        <3>2. Promised!Finish(t)
            BY <2>2, <3>1 DEF Promised!Finish
        <3>3. QED  BY <3>2 DEF Promised!Next
    <2>5. CASE ~(t \in writing /\ t \notin writing')
        <3>1. writing' = writing
            BY <1>1, <1>2, <2>3, <2>5
        <3>2. QED  BY <2>2, <3>1
    <2>6. QED  BY <2>4, <2>5
<1>6. QED
    BY <1>3, <1>4, <1>5

\* So is every other step: a thread that ends leaves, and the end of a process ends
\* its threads' share.
LEMMA NextRefines == IInv /\ [Next]_vars => [Promised!Next]_<<keeping, writing>>
<1> SUFFICES ASSUME IInv, [Next]_vars PROVE [Promised!Next]_<<keeping, writing>>
    OBVIOUS
<1>1. CASE Collect \/ UNCHANGED vars
    BY <1>1 DEF Collect, vars, keeping, writing
<1>2. ASSUME NEW p \in Processes, Die(p)
      PROVE  [Promised!Next]_<<keeping, writing>>
    <2>1. keeping' = {t \in keeping : ProcessOf[t] # p}
        BY <1>2 DEF Die, keeping
    <2>2. \A t \in Threads : call'[t] = IF ProcessOf[t] = p THEN Idle ELSE call[t]
        BY <1>2 DEF Die
    <2>3. writing' = {t \in writing : ProcessOf[t] # p}
        BY <2>2 DEF writing, Idle
    <2>4. Promised!End(p)
        BY <2>1, <2>3 DEF Promised!End
    <2>5. QED  BY <2>4 DEF Promised!Next
<1>3. ASSUME NEW t \in Threads, ThreadEnds(t)
      PROVE  [Promised!Next]_<<keeping, writing>>
    <2>1. keeping' = keeping \ {t} /\ t \in keeping
        BY <1>3 DEF ThreadEnds, keeping
    <2>2. writing' = writing
        BY <1>3 DEF ThreadEnds, writing
    <2>3. Promised!Leave(t)
        BY <2>1, <2>2 DEF Promised!Leave
    <2>4. QED  BY <2>3 DEF Promised!Next
<1>4. QED
    BY <1>1, <1>2, <1>3, ThreadRefines DEF Next

\* The connection manager implements OneWriter, with the threads that keep a
\* connection as its readers and those with an open write connection as its
\* writer: every step of the code is one of OneWriter's or a stutter.
THEOREM Refinement == Spec => KeepsPromise
<1>1. Init => Promised!Init
    <2>1. ~Idle.open
        BY DEF Idle
    <2>2. QED  BY <2>1 DEF Init, Promised!Init, keeping, writing
<1>2. QED
    BY <1>1, NextRefines, IInvariant, PTL DEF Spec, KeepsPromise, Promised!Spec
===============================================================================
