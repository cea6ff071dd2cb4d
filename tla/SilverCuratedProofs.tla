-------------------------- MODULE SilverCuratedProofs --------------------------
(***************************************************************************)
(* Proofs about SilverCurated, for any runners, datasets, run ids, feature *)
(* counts, and with or without overlapping calls and processes that die.   *)
(***************************************************************************)
EXTENDS SilverCurated, TLAPS

\* A step of one runner.
Step(w) ==
    \/ \E j \in Job : Invoke(w, j)
    \/ TransformRaises(w)
    \/ StageOpen(w) \/ StageClose(w) \/ StageRaises(w)
    \/ WriteOpen(w) \/ WriteClose(w) \/ Publish(w) \/ WriteFails(w) \/ CleanUp(w)
    \/ VerifyCount(w) \/ VerifyFooter(w) \/ VerifyRaises(w)
    \/ Finish(w)
    \/ Crash(w)

\* The file a call writes.
LEMMA FileOfType ==
    ASSUME TypeOK, NEW w \in Runners, NEW a \in BOOLEAN, NEW b \in BOOLEAN, NEW c \in BOOLEAN
    PROVE  /\ FileOf(w, a, b, c) \in File
           /\ FileOf(w, a, b, c).run = job[w].run
           /\ FileOf(w, a, b, c).count = job[w].count
           /\ FileOf(w, a, b, c).whole = a
    BY DEF TypeOK, Job, File, FileOf

\* The arguments of a call, and the names of its files.
LEMMA PathType ==
    ASSUME TypeOK, NEW w \in Runners
    PROVE  /\ job[w] \in Job /\ Dataset(w) \in Datasets /\ job[w].run \in Runs
           /\ Path(w) \in Paths /\ Path(w) = <<Dataset(w), job[w].run>>
    BY DEF TypeOK, Job, Dataset, Path, Paths

\* A step moves the call of its own runner, and gives it new arguments only
\* when it begins.
LEMMA CallStep ==
    ASSUME TypeOK, NEW w \in Runners, Step(w)
    PROVE  /\ pc' \in [Runners -> Busy \cup {"idle"}]
           /\ \A v \in Runners \ {w} : pc'[v] = pc[v] /\ job'[v] = job[v]
           /\ job' \in [Runners -> Job]
           /\ job' = job \/ \E j \in Job : Invoke(w, j) /\ job'[w] = j
<1> USE DEF TypeOK, Goto, Busy
<1>1. CASE \E j \in Job : Invoke(w, j)
    BY <1>1 DEF Invoke
<1>2. CASE TransformRaises(w) \/ StageOpen(w) \/ StageClose(w) \/ StageRaises(w)
    BY <1>2 DEF TransformRaises, StageOpen, StageClose, StageRaises
<1>3. CASE WriteOpen(w) \/ WriteClose(w) \/ Publish(w) \/ WriteFails(w) \/ CleanUp(w)
    BY <1>3 DEF WriteOpen, WriteClose, Publish, WriteFails, CleanUp
<1>4. CASE VerifyCount(w) \/ VerifyFooter(w) \/ VerifyRaises(w) \/ Finish(w) \/ Crash(w)
    BY <1>4 DEF VerifyCount, VerifyFooter, VerifyRaises, Finish, Crash
<1>5. QED
    BY <1>1, <1>2, <1>3, <1>4 DEF Step

\* Leaving adds the call's own files to the leaked ones.
LEMMA LeaveType ==
    ASSUME TypeOK, NEW w \in Runners, Leave(w)
    PROVE  /\ leaked' \subseteq {"silver", "writing"} \X Paths
           /\ leaked \subseteq leaked'
           /\ silver[Path(w)] # "absent" => <<"silver", Path(w)>> \in leaked'
           /\ writing[Path(w)] # None => <<"writing", Path(w)>> \in leaked'
    BY PathType DEF Leave, TypeOK

\* Types.
LEMMA TypeStep ==
    ASSUME IInv, NEW w \in Runners, Step(w)
    PROVE  TypeOK'
<1>0. /\ TypeOK /\ Path(w) \in Paths /\ Dataset(w) \in Datasets /\ job[w] \in Job
      /\ pc' \in [Runners -> Busy \cup {"idle"}] /\ job' \in [Runners -> Job]
    BY PathType, CallStep DEF IInv
<1>1. CASE \E j \in Job : Invoke(w, j)
    BY <1>0, <1>1 DEF Invoke, TypeOK, Job
<1>2. CASE TransformRaises(w) \/ WriteFails(w) \/ VerifyCount(w) \/ VerifyFooter(w)
    BY <1>0, <1>2 DEF TransformRaises, WriteFails, VerifyCount, VerifyFooter, TypeOK
<1>3. CASE StageOpen(w) \/ StageClose(w) \/ StageRaises(w)
    BY <1>0, <1>3 DEF StageOpen, StageClose, StageRaises, TypeOK
<1>4. CASE VerifyRaises(w) \/ Crash(w)
    BY <1>0, <1>4, LeaveType DEF VerifyRaises, Crash, TypeOK
<1>5. CASE WriteOpen(w)
    BY <1>0, <1>5, FileOfType DEF WriteOpen, TypeOK
<1>6. CASE WriteClose(w)
    <2>1. PICK renders, geo \in BOOLEAN :
              writing' = [writing EXCEPT ![Path(w)] = FileOf(w, TRUE, renders, geo)]
        BY <1>6 DEF WriteClose
    <2>2. FileOf(w, TRUE, renders, geo) \in File
        BY <1>0, FileOfType
    <2>3. QED  BY <1>0, <1>6, <2>1, <2>2 DEF WriteClose, TypeOK
<1>7. CASE Publish(w)
    <2>1. writing[Path(w)] \in File
        BY <1>7 DEF IInv, TempIsOwn, Publish, Goto
    <2>2. QED  BY <1>0, <1>7, <2>1 DEF Publish, TypeOK
<1>8. CASE CleanUp(w)
    BY <1>0, <1>8 DEF CleanUp, TypeOK
<1>9. CASE Finish(w)
    BY <1>0, <1>9 DEF Finish, TypeOK
<1>10. QED
    BY <1>1, <1>2, <1>3, <1>4, <1>5, <1>6, <1>7, <1>8, <1>9 DEF Step

-------------------------------------------------------------------------------
\* Only a live call steps, unless it begins.
LEMMA OnlyLiveSteps ==
    ASSUME NEW w \in Runners, Step(w), \A j \in Job : ~Invoke(w, j)
    PROVE  w \in Live
    BY DEF Live, Step, Goto, Busy, TransformRaises, StageOpen, StageClose, StageRaises, WriteOpen, WriteClose,
        Publish, WriteFails, CleanUp, VerifyCount, VerifyFooter, VerifyRaises, Finish, Crash

\* A step leaves the files of other calls alone.
LEMMA OthersFiles ==
    ASSUME TypeOK, NEW w \in Runners, Step(w)
    PROVE  /\ \A p \in Paths \ {Path(w)} : silver'[p] = silver[p] /\ writing'[p] = writing[p]
           /\ \A d \in Datasets \ {Dataset(w)} : curated'[d] = curated[d]
           /\ curated' = curated \/ Publish(w)
    BY DEF TypeOK, Step, TransformRaises, StageOpen, StageClose, StageRaises, WriteOpen, WriteClose,
        Publish, WriteFails, CleanUp, VerifyCount, VerifyFooter, VerifyRaises, Finish, Crash, Invoke

\* Live calls have run ids of their own.
LEMMA RunsDistinctStep ==
    ASSUME IInv, NEW w \in Runners, Step(w)
    PROVE  RunsDistinct'
<1>0. /\ TypeOK /\ RunsDistinct
      /\ \A v \in Runners \ {w} : pc'[v] = pc[v] /\ job'[v] = job[v]
      /\ job' = job \/ \E j \in Job : Invoke(w, j) /\ job'[w] = j
    BY CallStep DEF IInv
<1>1. ASSUME NEW v \in Live', v # w, w \in Live'
      PROVE  job'[v].run # job'[w].run
    <2>1. v \in Live /\ v \in Runners /\ job'[v] = job[v]
        BY <1>0, <1>1 DEF Live
    <2>2. CASE \E j \in Job : Invoke(w, j) /\ job'[w] = j
        BY <2>1, <2>2 DEF Invoke
    <2>3. CASE job' = job /\ w \in Live
        BY <1>0, <1>1, <2>1, <2>3 DEF RunsDistinct
    <2>4. CASE job' = job /\ w \notin Live
        BY <1>0, <1>1, <2>1, <2>4, OnlyLiveSteps DEF Invoke, TypeOK
    <2>5. QED  BY <1>0, <2>2, <2>3, <2>4
<1>2. ASSUME NEW u \in Live', NEW v \in Live', u # v, u # w, v # w
      PROVE  job'[u].run # job'[v].run
    BY <1>0, <1>2 DEF Live, RunsDistinct
<1>3. QED  BY <1>1, <1>2 DEF RunsDistinct, Live

\* So live calls have temporary files of their own.
LEMMA PathsDiffer ==
    ASSUME IInv, NEW v \in Live, NEW w \in Live, v # w
    PROVE  Path(v) # Path(w)
    BY DEF IInv, RunsDistinct, Path

\* What a call renames is what it has written.
LEMMA TempIsOwnStep ==
    ASSUME IInv, NEW w \in Runners, Step(w)
    PROVE  TempIsOwn'
<1>0. /\ TypeOK
      /\ \A v \in Runners \ {w} : pc'[v] = pc[v] /\ job'[v] = job[v]
    BY CallStep DEF IInv
<1>1. ASSUME pc'[w] = "flushed"
      PROVE  /\ writing'[Path(w)'] \in File
             /\ writing'[Path(w)'].run = job'[w].run
             /\ writing'[Path(w)'].count = job'[w].count
             /\ writing'[Path(w)'].whole
    <2>1. WriteClose(w)
        BY <1>0, <1>1 DEF TypeOK, Step, Goto, TransformRaises, StageOpen, StageClose, StageRaises, WriteOpen,
            Publish, WriteFails, CleanUp, VerifyCount, VerifyFooter, VerifyRaises, Finish, Crash, Invoke
    <2>2. PICK renders, geo \in BOOLEAN :
              writing' = [writing EXCEPT ![Path(w)] = FileOf(w, TRUE, renders, geo)]
        BY <2>1 DEF WriteClose
    <2>3. writing'[Path(w)] = FileOf(w, TRUE, renders, geo) /\ job' = job
        BY <1>0, <2>1, <2>2, PathType DEF WriteClose, TypeOK
    <2>4. Path(w)' = Path(w)
        BY <2>3 DEF Path
    <2>5. /\ FileOf(w, TRUE, renders, geo) \in File
          /\ FileOf(w, TRUE, renders, geo).run = job[w].run
          /\ FileOf(w, TRUE, renders, geo).count = job[w].count
          /\ FileOf(w, TRUE, renders, geo).whole
        BY <1>0, FileOfType
    <2>6. QED  BY <2>3, <2>4, <2>5
<1>2. ASSUME NEW v \in Runners \ {w}, pc'[v] = "flushed"
      PROVE  Path(v)' = Path(v) /\ writing'[Path(v)] = writing[Path(v)]
    <2>1. v \in Live /\ Path(v)' = Path(v) /\ Path(v) \in Paths
        BY <1>0, <1>2, PathType DEF Live, Path
    <2>2. CASE \E j \in Job : Invoke(w, j)
        BY <2>1, <2>2 DEF Invoke
    <2>3. CASE w \in Live
        BY <1>0, <1>2, <2>1, <2>3, PathsDiffer, OthersFiles
    <2>4. QED  BY <2>2, <2>3, OnlyLiveSteps
<1>3. QED
    BY <1>0, <1>1, <1>2 DEF IInv, TempIsOwn

\* A published file is replaced only by a call that overlaps, under another run
\* id; the checks see the call's own file as long as it is in place.
LEMMA PublishedStaysStep ==
    ASSUME IInv, NEW w \in Runners, Step(w)
    PROVE  PublishedStays'
<1> DEFINE Done == {"published", "counted", "verified"}
           Stays(v) == /\ curated[Dataset(v)] \in File
                       /\ Dataset(v) \notin overlapped => curated[Dataset(v)].run = job[v].run
                       /\ curated[Dataset(v)].run = job[v].run =>
                           /\ curated[Dataset(v)].count = job[v].count
                           /\ pc[v] \in {"counted", "verified"} => curated[Dataset(v)].renders
                           /\ pc[v] = "verified" => curated[Dataset(v)].geo
<1>0. /\ TypeOK
      /\ \A v \in Runners \ {w} : pc'[v] = pc[v] /\ job'[v] = job[v]
      /\ \A v \in Runners : Dataset(v) \in Datasets
    BY CallStep, PathType DEF IInv
<1>1. ASSUME Publish(w)
      PROVE  /\ curated' = [curated EXCEPT ![Dataset(w)] = writing[Path(w)]]
             /\ curated'[Dataset(w)] = writing[Path(w)]
             /\ writing[Path(w)] \in File /\ writing[Path(w)].run = job[w].run
             /\ writing[Path(w)].count = job[w].count
             /\ w \in Live /\ UNCHANGED <<job, overlapped>> /\ pc'[w] = "published"
    BY <1>0, <1>1 DEF IInv, TempIsOwn, TypeOK, Publish, Goto, Live
<1>2. ASSUME pc'[w] \in Done
      PROVE  Stays(w)'
    <2>1. CASE Publish(w)
        BY <1>1, <2>1 DEF Dataset
    <2>2. CASE VerifyCount(w) \/ VerifyFooter(w)
        <3>1. /\ UNCHANGED <<job, curated, overlapped>> /\ pc[w] \in Done /\ pc'[w] \in Done
              /\ pc'[w] = "verified" => pc[w] = "counted" /\ curated[Dataset(w)].geo
              /\ pc'[w] = "counted" => curated[Dataset(w)].renders
            BY <1>0, <2>2 DEF VerifyCount, VerifyFooter, Counted, Goto, TypeOK
        <3>2. QED  BY <1>2, <3>1 DEF IInv, PublishedStays, Dataset
    <2>3. QED
        BY <1>0, <1>2, <2>1, <2>2 DEF TypeOK, Step, Goto, TransformRaises, StageOpen, StageClose, StageRaises,
            WriteOpen, WriteClose, WriteFails, CleanUp, VerifyRaises, Finish, Crash, Invoke
<1>3. ASSUME NEW v \in Runners \ {w}, pc'[v] \in Done
      PROVE  Stays(v)'
    <2>1. /\ Stays(v) /\ v \in Live /\ pc'[v] = pc[v] /\ job'[v] = job[v]
          /\ Dataset(v)' = Dataset(v) /\ Dataset(v) \in Datasets
        BY <1>0, <1>3 DEF IInv, PublishedStays, Live, Dataset
    <2>2. CASE Publish(w) /\ Dataset(v) = Dataset(w)
        <3>1. Dataset(v) \in overlapped /\ job[v].run # job[w].run
            BY <1>1, <1>3, <2>1, <2>2 DEF IInv, OverlapsSeen, RunsDistinct
        <3>2. QED  BY <1>1, <2>1, <2>2, <3>1
    <2>3. CASE \E j \in Job : Invoke(w, j)
        <3>1. curated' = curated /\ (Dataset(v) \notin overlapped' => Dataset(v) \notin overlapped)
            BY <2>1, <2>3 DEF Invoke
        <3>2. QED  BY <2>1, <3>1
    <2>4. CASE ~(Publish(w) /\ Dataset(v) = Dataset(w)) /\ ~\E j \in Job : Invoke(w, j)
        <3>1. curated'[Dataset(v)] = curated[Dataset(v)]
            BY <1>0, <2>1, <2>4, OthersFiles
        <3>2. overlapped' = overlapped
            BY <2>4 DEF Step, TransformRaises, StageOpen, StageClose, StageRaises, WriteOpen, WriteClose,
                Publish, WriteFails, CleanUp, VerifyCount, VerifyFooter, VerifyRaises, Finish, Crash
        <3>3. QED  BY <2>1, <3>1, <3>2
    <2>5. QED  BY <2>2, <2>3, <2>4
<1>4. QED
    BY <1>2, <1>3 DEF PublishedStays

\* Two calls on one dataset at once are seen to overlap when the later begins,
\* and the later call forgets the result there was.
LEMMA OverlapsSeenStep ==
    ASSUME IInv, NEW w \in Runners, Step(w)
    PROVE  OverlapsSeen'
<1>0. /\ TypeOK
      /\ \A v \in Runners \ {w} : pc'[v] = pc[v] /\ job'[v] = job[v]
      /\ \A v \in Runners : Dataset(v) \in Datasets
    BY CallStep, PathType DEF IInv
<1>1. \A v \in Live' : v # w => v \in Live /\ Dataset(v)' = Dataset(v) /\ job'[v] = job[v]
    BY <1>0 DEF Live, Dataset
<1>2. CASE \E j \in Job : Invoke(w, j)
    <2>1. PICK j \in Job : Invoke(w, j)
        BY <1>2
    <2>2. /\ job'[w] = j /\ Dataset(w)' = j.dataset /\ j.dataset \in Datasets
          /\ overlapped' = IF \E v \in Live : Dataset(v) = j.dataset
                           THEN overlapped \cup {j.dataset}
                           ELSE overlapped \ {j.dataset}
          /\ \A d \in Datasets : lastOk'[d] = IF d = j.dataset THEN None ELSE lastOk[d]
        BY <1>0, <2>1 DEF Invoke, TypeOK, Dataset, Job
    <2>3. ASSUME NEW v \in Live', v # w
          PROVE  /\ \A u \in Live' : u # v /\ Dataset(u)' = Dataset(v)' => Dataset(v)' \in overlapped'
                 /\ lastOk'[Dataset(v)'] # None =>
                        Dataset(v)' \in overlapped' /\ job'[v].run # lastOk'[Dataset(v)'].run
        BY <1>0, <1>1, <2>2, <2>3 DEF IInv, OverlapsSeen, Live
    <2>4. \A u \in Live' : u # w /\ Dataset(u)' = Dataset(w)' => Dataset(w)' \in overlapped'
        BY <1>1, <2>2
    <2>5. lastOk'[Dataset(w)'] = None
        BY <2>2
    <2>6. QED  BY <2>3, <2>4, <2>5 DEF OverlapsSeen
<1>3. CASE ~\E j \in Job : Invoke(w, j)
    <2>1. w \in Live
        BY <1>3, OnlyLiveSteps
    <2>2. UNCHANGED <<job, overlapped>>
        BY <1>3 DEF Step, TransformRaises, StageOpen, StageClose, StageRaises, WriteOpen, WriteClose,
            Publish, WriteFails, CleanUp, VerifyCount, VerifyFooter, VerifyRaises, Finish, Crash
    <2>3. \A v \in Live' : v \in Live /\ Dataset(v)' = Dataset(v) /\ Dataset(v) \in Datasets
        BY <1>0, <1>1, <2>1, <2>2 DEF Dataset, Live
    <2>4. CASE lastOk' = lastOk
        BY <2>2, <2>3, <2>4 DEF IInv, OverlapsSeen
    <2>5. CASE Finish(w)
        <3>1. /\ w \notin Live'
              /\ \A d \in Datasets : lastOk'[d] = IF d = Dataset(w) THEN job[w] ELSE lastOk[d]
            BY <1>0, <2>5 DEF Finish, Goto, TypeOK, Live
        <3>2. ASSUME NEW v \in Live', Dataset(v) = Dataset(w)
              PROVE  Dataset(v) \in overlapped /\ job[v].run # job[w].run
            BY <2>1, <2>3, <3>1, <3>2 DEF IInv, OverlapsSeen, RunsDistinct
        <3>3. QED  BY <2>2, <2>3, <3>1, <3>2 DEF IInv, OverlapsSeen
    <2>6. QED
        BY <1>3, <2>4, <2>5 DEF Step, TransformRaises, StageOpen, StageClose, StageRaises, WriteOpen, WriteClose,
            Publish, WriteFails, CleanUp, VerifyCount, VerifyFooter, VerifyRaises, Crash
<1>4. QED  BY <1>2, <1>3

\* What a step may do to a Curated file, and to the result of the last call.
LEMMA ResultStep ==
    ASSUME IInv, NEW w \in Runners, Step(w), NEW d \in Datasets
    PROVE  /\ \/ curated'[d] = curated[d]
              \/ /\ curated'[d] \in File /\ curated'[d].whole /\ curated'[d].run = job[w].run
                 /\ w \in Live /\ d = Dataset(w) /\ lastOk'[d] = lastOk[d] /\ overlapped' = overlapped
           /\ \/ lastOk'[d] \in {lastOk[d], None}
              \/ /\ lastOk'[d] = job[w] /\ d = Dataset(w) /\ pc[w] = "verified"
                 /\ curated' = curated /\ overlapped' = overlapped
           /\ lastOk'[d] # None => (d \in overlapped' <=> d \in overlapped)
<1>0. TypeOK
    BY DEF IInv
<1>1. CASE Publish(w)
    <2>1. /\ writing[Path(w)] \in File /\ writing[Path(w)].whole /\ writing[Path(w)].run = job[w].run
          /\ w \in Live /\ lastOk' = lastOk /\ overlapped' = overlapped
        BY <1>1 DEF IInv, TempIsOwn, Publish, Goto, Live
    <2>2. curated'[d] = IF d = Dataset(w) THEN writing[Path(w)] ELSE curated[d]
        BY <1>0, <1>1 DEF Publish, TypeOK
    <2>3. QED  BY <2>1, <2>2
<1>2. CASE Finish(w)
    BY <1>0, <1>2 DEF Finish, TypeOK, Goto
<1>3. CASE \E j \in Job : Invoke(w, j)
    BY <1>0, <1>3 DEF Invoke, TypeOK
<1>4. QED
    BY <1>1, <1>2, <1>3 DEF Step, TransformRaises, StageOpen, StageClose, StageRaises, WriteOpen, WriteClose,
        WriteFails, CleanUp, VerifyCount, VerifyFooter, VerifyRaises, Crash

\* A result stays true of the file in place, and the file in place complete.
LEMMA ResultsHoldStep ==
    ASSUME IInv, NEW w \in Runners, Step(w)
    PROVE  ResultHasFile' /\ CuratedNeverPartial' /\ OwnFileVerified' /\ LastOkHolds'
<1>1. ASSUME NEW d \in Datasets
      PROVE  /\ lastOk'[d] # None => curated'[d] \in File
             /\ curated'[d] # None => curated'[d].whole
             /\ lastOk'[d] # None /\ curated'[d].run = lastOk'[d].run =>
                  curated'[d].count = lastOk'[d].count /\ curated'[d].renders /\ curated'[d].geo
             /\ d \notin overlapped' => (lastOk'[d] # None => curated'[d].run = lastOk'[d].run)
    <2>1. CASE curated'[d] = curated[d] /\ lastOk'[d] \in {lastOk[d], None}
        BY <2>1, ResultStep DEF IInv, ResultHasFile, CuratedNeverPartial, OwnFileVerified, LastOkHolds
    <2>2. CASE /\ lastOk'[d] = job[w] /\ d = Dataset(w) /\ pc[w] = "verified"
               /\ curated' = curated /\ overlapped' = overlapped
        BY <2>2 DEF IInv, PublishedStays, CuratedNeverPartial
    <2>3. CASE /\ curated'[d] \in File /\ curated'[d].whole /\ curated'[d].run = job[w].run
               /\ w \in Live /\ d = Dataset(w) /\ lastOk'[d] = lastOk[d] /\ overlapped' = overlapped
        BY <2>3 DEF IInv, OverlapsSeen
    <2>4. QED  BY <2>1, <2>2, <2>3, ResultStep
<1>2. QED
    BY <1>1 DEF ResultHasFile, CuratedNeverPartial, OwnFileVerified, LastOkHolds

-------------------------------------------------------------------------------
\* Nothing is live, published or returned at first.
LEMMA InitIInv == Init => IInv
    BY DEF Init, IInv, TypeOK, RunsDistinct, TempIsOwn, PublishedStays, OverlapsSeen, ResultHasFile,
        CuratedNeverPartial, OwnFileVerified, LastOkHolds, Live

\* Every step keeps the invariant.
LEMMA NextIInv == IInv /\ [Next]_vars => IInv'
<1> SUFFICES ASSUME IInv, [Next]_vars PROVE IInv'
    OBVIOUS
<1>1. CASE Next
    <2>1. PICK w \in Runners : Step(w)
        BY <1>1 DEF Next, Step
    <2>2. QED
        BY <2>1, TypeStep, RunsDistinctStep, TempIsOwnStep, PublishedStaysStep, OverlapsSeenStep,
            ResultsHoldStep DEF IInv
<1>2. CASE UNCHANGED vars
    BY <1>2 DEF vars, IInv, TypeOK, RunsDistinct, TempIsOwn, PublishedStays, OverlapsSeen, ResultHasFile,
        CuratedNeverPartial, OwnFileVerified, LastOkHolds, Live, Dataset, Path
<1>3. QED  BY <1>1, <1>2

\* The invariant holds in every behaviour, for any runners, datasets and runs.
THEOREM IInvariant == Spec => []IInv
<1>1. QED  BY InitIInv, NextIInv, PTL DEF Spec

\* Every variable keeps its type: nothing but whole records is ever renamed.
THEOREM TypeCorrect == Spec => []TypeOK
<1>1. IInv => TypeOK
    BY DEF IInv
<1>2. QED  BY <1>1, IInvariant, PTL

\* Whoever opens a Curated file finds it complete, however many calls write it
\* at once and wherever they die: the rename moves only files written to the end.
THEOREM CuratedComplete == Spec => []CuratedNeverPartial
<1>1. IInv => CuratedNeverPartial
    BY DEF IInv
<1>2. QED  BY <1>1, IInvariant, PTL

\* A call never returns with a defective Curated file of its own in place.
THEOREM OwnVerified == Spec => []OwnFileVerified
<1>1. IInv => OwnFileVerified
    BY DEF IInv
<1>2. QED  BY <1>1, IInvariant, PTL

\* If the last call on a dataset has returned a SilverResult, it is of the file in
\* place, unless calls on the dataset overlapped, whatever raised or died before.
\* Of an earlier call's result nothing is said: a later one may have published its
\* file and raised.
THEOREM ResultsHold == Spec => []LastOkHolds
<1>1. IInv => LastOkHolds
    BY DEF IInv
<1>2. QED  BY <1>1, IInvariant, PTL

-------------------------------------------------------------------------------
\* The two halves of FilesAccounted, for one name.
SilverAccounted(p) ==
    silver[p] # "absent" =>
        \/ <<"silver", p>> \in leaked
        \/ \E w \in Live : Path(w) = p /\ pc[w] # "transforming"

WritingAccounted(p) ==
    writing[p] # None =>
        \/ <<"writing", p>> \in leaked
        \/ \E w \in Live : Path(w) = p /\ pc[w] \in {"writing", "flushed", "failed"}

\* What becomes of the files behind other calls, or behind none.
LEMMA OthersAccounted ==
    ASSUME TypeOK, FilesAccounted, NEW w \in Runners, Step(w), NEW p \in Paths,
           p # Path(w) \/ \E j \in Job : Invoke(w, j)
    PROVE  SilverAccounted(p)' /\ WritingAccounted(p)'
<1>1. \A v \in Runners \ {w} : /\ v \in Live => v \in Live'
                               /\ pc'[v] = pc[v] /\ Path(v)' = Path(v)
    BY CallStep DEF Live, Path
<1>2. SilverAccounted(p) /\ WritingAccounted(p)
    BY DEF FilesAccounted, SilverAccounted, WritingAccounted
<1>3. CASE \E j \in Job : Invoke(w, j)
    <2>1. UNCHANGED <<silver, writing, leaked>> /\ w \notin Live
        BY <1>3 DEF Invoke, Goto, Live
    <2>2. QED  BY <1>1, <1>2, <2>1 DEF SilverAccounted, WritingAccounted, Live
<1>4. CASE p # Path(w) /\ ~\E j \in Job : Invoke(w, j)
    <2>1. silver'[p] = silver[p] /\ writing'[p] = writing[p]
        BY <1>4, OthersFiles
    <2>2. <<"silver", p>> \in leaked => <<"silver", p>> \in leaked'
        BY <1>4 DEF Step, TransformRaises, StageOpen, StageClose, StageRaises, WriteOpen, WriteClose,
            Publish, WriteFails, CleanUp, VerifyCount, VerifyFooter, VerifyRaises, Finish, Crash, Leave
    <2>3. <<"writing", p>> \in leaked => <<"writing", p>> \in leaked'
        BY <1>4 DEF Step, TransformRaises, StageOpen, StageClose, StageRaises, WriteOpen, WriteClose,
            Publish, WriteFails, CleanUp, VerifyCount, VerifyFooter, VerifyRaises, Finish, Crash, Leave
    <2>4. QED  BY <1>1, <1>2, <1>4, <2>1, <2>2, <2>3 DEF SilverAccounted, WritingAccounted, Live
<1>5. QED  BY <1>3, <1>4

\* What becomes of the files of the call that steps: it keeps them, takes them
\* away, or leaves them behind and is known to.
LEMMA OwnAccounted ==
    ASSUME TypeOK, FilesAccounted, NEW w \in Runners, Step(w), \A j \in Job : ~Invoke(w, j)
    PROVE  SilverAccounted(Path(w))' /\ WritingAccounted(Path(w))'
<1> DEFINE p == Path(w)
<1>1. /\ \A v \in Runners \ {w} : /\ v \in Live => v \in Live'
                                  /\ pc'[v] = pc[v] /\ Path(v)' = Path(v)
      /\ Path(w)' = Path(w) /\ p \in Paths /\ w \in Live
    BY CallStep, OnlyLiveSteps, PathType DEF Live, Path
<1>2. SilverAccounted(p) /\ WritingAccounted(p)
    BY <1>1 DEF FilesAccounted, SilverAccounted, WritingAccounted
<1>3. CASE VerifyRaises(w) \/ Crash(w)
    <2>1. Leave(w) /\ UNCHANGED <<silver, writing>>
        BY <1>3 DEF VerifyRaises, Crash
    <2>2. QED  BY <1>1, <2>1, LeaveType DEF SilverAccounted, WritingAccounted
<1>4. CASE TransformRaises(w)
    <2>1. UNCHANGED <<silver, writing, leaked>> /\ pc[w] = "transforming"
        BY <1>4 DEF TransformRaises, Goto
    <2>2. QED  BY <1>1, <1>2, <2>1 DEF SilverAccounted, WritingAccounted, Live
<1>5. CASE CleanUp(w) \/ Finish(w) \/ StageRaises(w)
    <2>1. \/ writing'[p] = None /\ <<"silver", p>> \in leaked'
          \/ /\ writing' = writing /\ leaked' = leaked /\ silver'[p] = "absent"
             /\ pc[w] \in {"verified", "staging"}
        BY <1>1, <1>5 DEF CleanUp, Finish, StageRaises, Goto, TypeOK
    <2>2. QED  BY <1>1, <1>2, <2>1 DEF SilverAccounted, WritingAccounted, Live
<1>6. CASE /\ pc'[w] \notin {"idle", "transforming"}
           /\ \/ writing'[p] = None
              \/ pc'[w] \in {"writing", "flushed", "failed"}
              \/ /\ writing'[p] = writing[p] /\ pc[w] \notin {"writing", "flushed", "failed"}
                 /\ <<"writing", p>> \in leaked => <<"writing", p>> \in leaked'
    <2>1. w \in Live'
        BY <1>6 DEF Live
    <2>2. QED  BY <1>1, <1>2, <1>6, <2>1 DEF SilverAccounted, WritingAccounted, Live
<1>7. CASE StageOpen(w) \/ StageClose(w) \/ VerifyCount(w) \/ VerifyFooter(w)
    <2>1. /\ pc[w] \in {"transforming", "staging", "published", "counted"} /\ writing' = writing
          /\ pc'[w] \in {"staging", "staged", "counted", "verified"}
          /\ <<"writing", p>> \in leaked => <<"writing", p>> \in leaked'
        BY <1>7 DEF StageOpen, StageClose, VerifyCount, VerifyFooter, Goto, TypeOK
    <2>2. QED  BY <1>6, <2>1
<1>8. CASE WriteOpen(w) \/ WriteClose(w) \/ WriteFails(w)
    <2>1. pc'[w] \in {"writing", "flushed", "failed"}
        BY <1>8 DEF WriteOpen, WriteClose, WriteFails, Goto, TypeOK
    <2>2. QED  BY <1>6, <2>1
<1>9. CASE Publish(w)
    <2>1. pc'[w] = "published" /\ writing'[p] = None
        BY <1>1, <1>9 DEF Publish, Goto, TypeOK
    <2>2. QED  BY <1>6, <2>1
<1>10. QED
    BY <1>3, <1>4, <1>5, <1>7, <1>8, <1>9 DEF Step

\* No file lies about unaccounted for: a Silver file is behind a call that is
\* past its transform, or behind one that died, or raised after it had written
\* that file; a temporary Curated file is behind a write in progress, or one
\* that died.
THEOREM FilesAreAccounted == Spec => []FilesAccounted
<1>1. Init => FilesAccounted
    BY DEF Init, FilesAccounted
<1>2. ASSUME IInv, FilesAccounted, [Next]_vars
      PROVE  FilesAccounted'
    <2>1. CASE Next
        <3>1. PICK w \in Runners : Step(w)
            BY <2>1 DEF Next, Step
        <3>2. ASSUME NEW p \in Paths
              PROVE  SilverAccounted(p)' /\ WritingAccounted(p)'
            <4>1. CASE p # Path(w) \/ \E j \in Job : Invoke(w, j)
                BY <1>2, <3>1, <4>1, OthersAccounted DEF IInv
            <4>2. CASE p = Path(w) /\ \A j \in Job : ~Invoke(w, j)
                <5>1. Path(w)' = Path(w)
                    BY <1>2, <3>1, <4>2, CallStep DEF IInv, Path
                <5>2. SilverAccounted(Path(w))' /\ WritingAccounted(Path(w))'
                    BY <1>2, <3>1, <4>2, OwnAccounted DEF IInv
                <5>3. QED  BY <4>2, <5>1, <5>2 DEF SilverAccounted, WritingAccounted
            <4>3. QED  BY <4>1, <4>2
        <3>3. QED  BY <3>2 DEF FilesAccounted, SilverAccounted, WritingAccounted
    <2>2. CASE UNCHANGED vars
        BY <1>2, <2>2 DEF vars, FilesAccounted, Live, Path
    <2>3. QED  BY <1>2, <2>1, <2>2
<1>3. QED
    BY <1>1, <1>2, IInvariant, PTL DEF Spec
===============================================================================
