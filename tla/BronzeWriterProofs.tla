-------------------------- MODULE BronzeWriterProofs --------------------------
(***************************************************************************)
(* Proofs about BronzeWriter, for any writers, archives, datasets and run  *)
(* ids, and whether or not calls may overlap.  The inductive invariant is  *)
(* BronzeWriter!IInv; its conjuncts are preserved together, because each   *)
(* needs the others: a row points at a complete file because the rename    *)
(* moved a complete temporary file, and the temporary file is complete     *)
(* because no other live call has its name.                                *)
(***************************************************************************)
EXTENDS BronzeWriter, TLAPS

\* The arguments of a call, and the paths they give, have their types.
LEMMA JobFields ==
    ASSUME TypeOK, NEW w \in Writers
    PROVE  /\ job[w].archive \in Archives
           /\ job[w].dataset \in Datasets
           /\ job[w].run \in Runs
           /\ FinalPath(w) \in Archives \X Datasets
           /\ TmpPath(w) \in Archives \X Datasets \X Runs
BY DEF TypeOK, Job, FinalPath, TmpPath

\* "No row", "no file" and "no path" are none of the rows, files and paths.
LEMMA NoneIsNothing ==
    /\ None \notin Content
    /\ None \notin Row
    /\ None \notin Datasets
BY NoneAssumption DEF Content, Row

\* Two live calls never write to the same temporary file.
LEMMA TmpApart ==
    ASSUME RunsApart, NEW v \in Live, NEW w \in Live, TmpPath(v) = TmpPath(w)
    PROVE  v = w
BY DEF RunsApart, TmpPath

\* What a committed row looks like after an upsert.
LEMMA UpsertRow ==
    ASSUME TypeOK, NEW w \in Writers,
           NEW status \in {"WRITTEN", "FAILED"}, NEW path \in Datasets \cup {None}
    PROVE  LET row == Upsert(registry[job[w].archive], job[w], status, path) IN
           /\ row \in Row
           /\ row # None
           /\ row.status = status
           /\ row.path = path
<1>1. registry[job[w].archive] \in Row \cup {None}
    BY JobFields DEF TypeOK
<1>2. None \notin Row
    BY NoneIsNothing
<1>3. CASE registry[job[w].archive] = None
    BY <1>2, <1>3, JobFields DEF Upsert, Row
<1>4. CASE registry[job[w].archive] \in Row
    BY <1>2, <1>4 DEF Upsert, Row
<1>5. QED  BY <1>1, <1>3, <1>4

\* The archive of an ALREADY_INGESTED answer is ingested, under that path.
LEMMA CheckFindsRow ==
    ASSUME IInv, NEW a \in Archives
    PROVE  /\ CheckAlreadyIngested(a) \in Datasets \cup {None}
           /\ CheckAlreadyIngested(a) # None <=> Ingested(a)
           /\ Ingested(a) => CheckAlreadyIngested(a) = registry[a].path
BY NoneIsNothing DEF IInv, WrittenHasFile, CheckAlreadyIngested

-------------------------------------------------------------------------------
(* Each action preserves the inductive invariant. *)

\* A registry without rows and a directory without files.
LEMMA InitIInv == Init => IInv
<1> SUFFICES ASSUME Init PROVE IInv
    OBVIOUS
<1>1. TypeOK
    BY DEF Init, TypeOK, Result, Busy
<1>2. Live = {}
    BY DEF Init, Live
<1>3. QED
    BY <1>1, <1>2 DEF Init, IInv, RunsApart, TmpTracked, PublishedPresent, Alone,
        FinalNeverPartial, WrittenHasFile, ResultHolds, TmpOwned, Ingested

\* Hashing, looking up, and returning early (lines 140-161).
LEMMA InvokeStep ==
    ASSUME IInv, NEW w \in Writers, NEW j \in Job,
           InvokeKnown(w, j) \/ InvokeNew(w, j) \/ InvokeRaises(w, j)
    PROVE  IInv'
<1> DEFINE a == j.archive
<1> USE DEF IInv
<1>0. a \in Archives
    BY DEF Job
<1>1. /\ pc[w] = "idle"
      /\ job' = [job EXCEPT ![w] = j]
      /\ \A v \in Live : job[v].run # j.run
      /\ UNCHANGED <<registry, final, tmp, orphans>>
    BY DEF InvokeKnown, InvokeNew, InvokeRaises, Invoke
<1>2. pc' \in {pc, [pc EXCEPT ![w] = "opening"]}
    BY DEF InvokeKnown, InvokeNew, InvokeRaises
<1>3. overlapped \subseteq overlapped' /\ overlapped' \subseteq Archives
    BY <1>0 DEF TypeOK, InvokeKnown, InvokeNew, InvokeRaises
<1>4. \A v \in Writers \ {w} : job'[v] = job[v] /\ pc'[v] = pc[v] /\ result'[v] = result[v]
    BY <1>1, <1>2 DEF TypeOK, InvokeKnown, InvokeNew, InvokeRaises, Return
<1>5. job'[w] = j /\ pc'[w] \in {"idle", "opening"}
    BY <1>1, <1>2 DEF TypeOK
<1>6. \A v \in Live : v # w /\ v \in Writers
    BY <1>1 DEF Live
<1>7. /\ Live \subseteq Live'
      /\ Live' \subseteq Live \cup {w}
      /\ \A v \in Live : job'[v] = job[v]
    BY <1>1, <1>4, <1>5, <1>6 DEF Live
<1>8. TypeOK'
    <2>1. result' \in [Writers -> Result]
        BY <1>0, CheckFindsRow DEF TypeOK, InvokeKnown, InvokeNew, InvokeRaises, Return, Result
    <2>2. pc' \in [Writers -> Busy \cup {"idle"}] /\ job' \in [Writers -> Job]
        BY <1>1, <1>2 DEF TypeOK, Busy
    <2>3. QED  BY <1>1, <1>3, <2>1, <2>2 DEF TypeOK
<1>9. RunsApart'
    BY <1>1, <1>5, <1>7 DEF RunsApart
<1>10. TmpTracked' /\ PublishedPresent'
    BY <1>1, <1>4, <1>5 DEF TmpTracked, PublishedPresent, TmpPath, FinalPath
<1>11. Alone'
    <2>1. CASE Live' = Live
        BY <2>1, <1>1, <1>3, <1>7 DEF Alone, Ingested
    <2>2. CASE Live' # Live
        <3>1. InvokeNew(w, j)
            BY <2>2, <1>1, <1>4, <1>6, <1>7 DEF InvokeKnown, InvokeRaises, Live
        <3>2. ~Ingested(a)
            BY <3>1, <1>0, CheckFindsRow DEF InvokeNew
        <3>3. \A v \in Live : job[v].archive = a => a \in overlapped'
            BY <3>1, <1>0 DEF InvokeNew
        <3>4. QED  BY <3>2, <3>3, <1>1, <1>3, <1>5, <1>6, <1>7 DEF Alone, Ingested
    <2>3. QED  BY <2>1, <2>2
<1>12. FinalNeverPartial' /\ WrittenHasFile'
    BY <1>1 DEF FinalNeverPartial, WrittenHasFile, Ingested
<1>13. ResultHolds'
    <2> SUFFICES ASSUME NEW v \in Writers, pc'[v] = "idle",
                        result'[v].status \in {"WRITTEN", "ALREADY_INGESTED"},
                        job'[v].archive \notin overlapped'
                 PROVE  /\ Ingested(job'[v].archive)
                        /\ registry[job'[v].archive].path = result'[v].path
        BY <1>1 DEF ResultHolds, Ingested
    <2>1. CASE v # w
        BY <2>1, <1>3, <1>4 DEF ResultHolds
    <2>2. CASE v = w
        BY <2>2, <1>0, <1>5, CheckFindsRow
           DEF InvokeKnown, InvokeNew, InvokeRaises, Return, TypeOK
    <2>3. QED  BY <2>1, <2>2
<1>14. TmpOwned'
    BY <1>1, <1>7 DEF TmpOwned, TmpPath
<1>15. QED
    BY <1>8, <1>9, <1>10, <1>11, <1>12, <1>13, <1>14

\* What the steps of a call in progress leave alone: the other calls, every
\* job, and (except where a lemma below says otherwise) the set of live calls.
LEMMA StepFrame ==
    ASSUME IInv, NEW w \in Writers, Step(w) \/ Crash(w)
    PROVE  /\ pc[w] \in Busy /\ w \in Live
           /\ job' = job /\ overlapped' = overlapped
           /\ Live' \subseteq Live
           /\ \A v \in Writers : TmpPath(v)' = TmpPath(v) /\ FinalPath(v)' = FinalPath(v)
           /\ \A v \in Writers \ {w} : pc'[v] = pc[v] /\ result'[v] = result[v]
           /\ pc' \in [Writers -> Busy \cup {"idle"}]
<1> USE DEF IInv, TypeOK
<1>1. /\ pc[w] \in Busy
      /\ job' = job /\ overlapped' = overlapped
      /\ \A v \in Writers \ {w} : pc'[v] = pc[v]
      /\ pc' \in [Writers -> Busy \cup {"idle"}]
    BY DEF Step, Crash, OpenTmp, CloseTmp, Publish, WriteFails, CleanUp,
        RegisterWritten, RegisterFailed, RegisterRaises, Register, Goto, Busy
<1>2. \A v \in Writers \ {w} : result'[v] = result[v]
    BY DEF Step, Crash, OpenTmp, CloseTmp, Publish, WriteFails, CleanUp,
        RegisterWritten, RegisterFailed, RegisterRaises, Register, Return
<1>3. w \in Live /\ Live' \subseteq Live
    BY <1>1 DEF Live, Busy
<1>4. \A v \in Writers : TmpPath(v)' = TmpPath(v) /\ FinalPath(v)' = FinalPath(v)
    BY <1>1 DEF TmpPath, FinalPath
<1>5. QED  BY <1>1, <1>2, <1>3, <1>4

\* A step that touches only w's temporary file and moves w on.
LEMMA TmpStep ==
    ASSUME IInv, NEW w \in Writers, OpenTmp(w) \/ CloseTmp(w) \/ WriteFails(w) \/ CleanUp(w)
    PROVE  IInv'
<1> USE DEF IInv
<1>1. Step(w)
    BY DEF Step
<1>2. /\ UNCHANGED <<registry, final, result>>
      /\ \A t \in (Archives \X Datasets \X Runs) \ {TmpPath(w)} : tmp'[t] = tmp[t]
      /\ pc'[w] \in {"writing", "flushed", "failed", "unlinked"}
      /\ orphans \ {TmpPath(w)} \subseteq orphans' /\ orphans' \subseteq orphans
    BY DEF OpenTmp, CloseTmp, WriteFails, CleanUp, Goto, TypeOK
<1>3. /\ tmp' \in [Archives \X Datasets \X Runs -> Content \cup {None}]
      /\ pc'[w] \in {"writing", "flushed"} => tmp'[TmpPath(w)] # None
      /\ pc'[w] = "flushed" => tmp'[TmpPath(w)].whole
      /\ pc'[w] = "unlinked" => tmp'[TmpPath(w)] = None
    <2>1. TmpPath(w) \in Archives \X Datasets \X Runs /\ job[w].run \in Runs
        BY JobFields
    <2>2. CASE OpenTmp(w)
        <3>1. [run |-> job[w].run, whole |-> FALSE] \in Content
            BY <2>1 DEF Content
        <3>2. QED  BY <2>1, <2>2, <3>1, NoneIsNothing DEF OpenTmp, Goto, TypeOK
    <2>3. CASE CloseTmp(w)
        <3>1. tmp[TmpPath(w)] \in Content
            BY <2>1, <2>3 DEF CloseTmp, Goto, TypeOK, TmpTracked
        <3>2. [tmp[TmpPath(w)] EXCEPT !.whole = TRUE] \in Content
            BY <3>1 DEF Content
        <3>3. /\ tmp' = [tmp EXCEPT ![TmpPath(w)] = [tmp[TmpPath(w)] EXCEPT !.whole = TRUE]]
              /\ pc'[w] = "flushed"
            BY <2>3 DEF CloseTmp, Goto, TypeOK
        <3>4. [tmp[TmpPath(w)] EXCEPT !.whole = TRUE].whole
            BY <3>1 DEF Content
        <3>5. QED  BY <2>1, <3>2, <3>3, <3>4, NoneIsNothing DEF TypeOK
    <2>4. CASE WriteFails(w) \/ CleanUp(w)
        BY <2>1, <2>4 DEF WriteFails, CleanUp, Goto, TypeOK
    <2>5. QED  BY <2>2, <2>3, <2>4
<1>4. \A v \in Live : v # w => TmpPath(v) # TmpPath(w)
    BY <1>1, StepFrame, TmpApart
<1>5. TypeOK'
    BY <1>1, <1>2, <1>3, StepFrame DEF TypeOK
<1>6. RunsApart' /\ Alone'
    BY <1>1, <1>2, StepFrame DEF RunsApart, Alone, Ingested
<1>7. TmpTracked'
    <2> SUFFICES ASSUME NEW v \in Writers, pc'[v] # "idle"
                 PROVE  /\ pc'[v] \in {"writing", "flushed"} => tmp'[TmpPath(v)] # None
                        /\ pc'[v] = "flushed" => tmp'[TmpPath(v)].whole
                        /\ pc'[v] \in {"published", "unlinked"} => tmp'[TmpPath(v)] = None
        BY <1>1, StepFrame DEF TmpTracked
    <2>1. CASE v = w
        BY <2>1, <1>2, <1>3
    <2>2. CASE v # w
        <3>1. v \in Live /\ pc'[v] = pc[v]
            BY <1>1, <2>2, StepFrame DEF Live
        <3>2. tmp'[TmpPath(v)] = tmp[TmpPath(v)]
            BY <1>2, <1>4, <2>2, <3>1, JobFields
        <3>3. QED  BY <3>1, <3>2 DEF TmpTracked
    <2>3. QED  BY <2>1, <2>2
<1>8. PublishedPresent'
    BY <1>1, <1>2, StepFrame DEF PublishedPresent
<1>9. FinalNeverPartial' /\ WrittenHasFile'
    BY <1>2 DEF FinalNeverPartial, WrittenHasFile, Ingested
<1>10. ResultHolds'
    <2>1. pc'[w] # "idle"
        BY <1>2
    <2>2. QED  BY <2>1, <1>1, <1>2, StepFrame DEF ResultHolds, Ingested
<1>11. TmpOwned'
    <2>1. Live' = Live
        BY <1>1, <1>2, StepFrame DEF Live
    <2>2. ASSUME NEW t \in Archives \X Datasets \X Runs, tmp'[t] # None, t # TmpPath(w)
          PROVE  t \in orphans' \/ \E v \in Live : TmpPath(v) = t
        BY <2>2, <1>2 DEF TmpOwned
    <2>3. QED  BY <2>1, <2>2, <1>1, StepFrame DEF TmpOwned, Live
<1>12. QED
    BY <1>5, <1>6, <1>7, <1>8, <1>9, <1>10, <1>11

\* The temporary file takes its final name (os.replace).
LEMMA PublishStep ==
    ASSUME IInv, NEW w \in Writers, Publish(w)
    PROVE  IInv'
<1> USE DEF IInv
<1> DEFINE p == FinalPath(w)
           t == TmpPath(w)
<1>1. Step(w)
    BY DEF Step
<1>2. p \in Archives \X Datasets /\ t \in Archives \X Datasets \X Runs
    BY JobFields
<1>3. /\ tmp[t] \in Content /\ tmp[t] # None /\ tmp[t].whole
      /\ pc[w] = "flushed" /\ pc'[w] = "published"
    BY <1>2 DEF Publish, Goto, TypeOK, TmpTracked
<1>4. /\ final' = [final EXCEPT ![p] = tmp[t]]
      /\ tmp' = [tmp EXCEPT ![t] = None]
      /\ UNCHANGED <<registry, result, orphans>>
    BY DEF Publish
<1>5. \A v \in Live : v # w => TmpPath(v) # t
    BY <1>1, StepFrame, TmpApart
<1>6. TypeOK'
    BY <1>1, <1>2, <1>3, <1>4, StepFrame DEF TypeOK
<1>7. RunsApart' /\ Alone'
    BY <1>1, <1>4, StepFrame DEF RunsApart, Alone, Ingested
<1>8. TmpTracked'
    <2> SUFFICES ASSUME NEW v \in Writers, pc'[v] # "idle"
                 PROVE  /\ pc'[v] \in {"writing", "flushed"} => tmp'[TmpPath(v)] # None
                        /\ pc'[v] = "flushed" => tmp'[TmpPath(v)].whole
                        /\ pc'[v] \in {"published", "unlinked"} => tmp'[TmpPath(v)] = None
        BY <1>1, StepFrame DEF TmpTracked
    <2>1. CASE v = w
        BY <2>1, <1>2, <1>3, <1>4 DEF TypeOK
    <2>2. CASE v # w
        <3>1. v \in Live /\ pc'[v] = pc[v]
            BY <1>1, <2>2, StepFrame DEF Live
        <3>2. tmp'[TmpPath(v)] = tmp[TmpPath(v)]
            BY <2>2, <3>1, <1>4, <1>5, JobFields DEF TypeOK
        <3>3. QED  BY <3>1, <3>2 DEF TmpTracked
    <2>3. QED  BY <2>1, <2>2
<1>9. PublishedPresent'
    BY <1>1, <1>2, <1>3, <1>4, StepFrame, JobFields DEF PublishedPresent, TypeOK
<1>10. FinalNeverPartial'
    BY <1>2, <1>3, <1>4 DEF FinalNeverPartial, TypeOK
<1>11. WrittenHasFile'
    <2> SUFFICES ASSUME NEW a \in Archives, Ingested(a)
                 PROVE  /\ registry[a].path \in Datasets
                        /\ final'[<<a, registry[a].path>>] # None
                        /\ final'[<<a, registry[a].path>>].whole
        BY <1>4 DEF WrittenHasFile, Ingested
    <2>1. /\ registry[a].path \in Datasets
          /\ final[<<a, registry[a].path>>] # None
          /\ final[<<a, registry[a].path>>].whole
        BY DEF WrittenHasFile
    <2>2. <<a, registry[a].path>> \in Archives \X Datasets
        BY <2>1
    <2>3. QED  BY <2>1, <2>2, <1>2, <1>3, <1>4 DEF TypeOK
<1>12. ResultHolds'
    BY <1>1, <1>3, <1>4, StepFrame DEF ResultHolds, Ingested
<1>13. TmpOwned'
    <2>1. Live' = Live
        BY <1>1, <1>3, StepFrame DEF Live
    <2>2. ASSUME NEW u \in Archives \X Datasets \X Runs, tmp'[u] # None
          PROVE  u \in orphans' \/ \E v \in Live : TmpPath(v) = u
        BY <2>2, <1>2, <1>4 DEF TmpOwned, TypeOK
    <2>3. QED  BY <2>1, <2>2, <1>1, StepFrame DEF TmpOwned, Live
<1>14. QED
    BY <1>6, <1>7, <1>8, <1>9, <1>10, <1>11, <1>12, <1>13

\* A step by which a call ends without committing anything.
LEMMA EndStep ==
    ASSUME IInv, NEW w \in Writers, RegisterRaises(w) \/ Crash(w)
    PROVE  IInv'
<1> USE DEF IInv
<1>1. Step(w) \/ Crash(w)
    BY DEF Step
<1>2. /\ pc'[w] = "idle" /\ result'[w].status = "none"
      /\ UNCHANGED <<registry, final, tmp>>
      /\ result' \in [Writers -> Result]
    BY DEF RegisterRaises, Crash, Goto, Return, Result, TypeOK
<1>3. /\ orphans \subseteq orphans' /\ orphans' \subseteq orphans \cup {TmpPath(w)}
      /\ Crash(w) /\ tmp[TmpPath(w)] # None => TmpPath(w) \in orphans'
      /\ TmpPath(w) \in Archives \X Datasets \X Runs
    BY JobFields DEF RegisterRaises, Crash
<1>4. TypeOK'
    BY <1>1, <1>2, <1>3, StepFrame DEF TypeOK
<1>5. RunsApart' /\ Alone'
    BY <1>1, <1>2, StepFrame DEF RunsApart, Alone, Ingested
<1>6. TmpTracked' /\ PublishedPresent'
    BY <1>1, <1>2, StepFrame DEF TmpTracked, PublishedPresent
<1>7. FinalNeverPartial' /\ WrittenHasFile'
    BY <1>2 DEF FinalNeverPartial, WrittenHasFile, Ingested
<1>8. ResultHolds'
    BY <1>1, <1>2, StepFrame DEF ResultHolds, Ingested
<1>9. TmpOwned'
    <2> SUFFICES ASSUME NEW t \in Archives \X Datasets \X Runs, tmp[t] # None
                 PROVE  t \in orphans' \/ \E v \in Live' : TmpPath(v) = t
        BY <1>1, <1>2, StepFrame DEF TmpOwned, Live
    <2>1. CASE t = TmpPath(w)
        <3>1. CASE Crash(w)
            BY <2>1, <3>1, <1>3
        <3>2. CASE RegisterRaises(w)
            BY <2>1, <3>2 DEF RegisterRaises, Goto, TmpTracked
        <3>3. QED  BY <3>1, <3>2
    <2>2. CASE t # TmpPath(w)
        <3>1. \A v \in Live : v # w => v \in Live'
            BY <1>1, StepFrame DEF Live
        <3>2. QED  BY <2>2, <3>1, <1>3 DEF TmpOwned
    <2>3. QED  BY <2>1, <2>2
<1>10. QED
    BY <1>4, <1>5, <1>6, <1>7, <1>8, <1>9

\* A step by which a call ends with a committed row.
LEMMA RegisterStep ==
    ASSUME IInv, NEW w \in Writers, RegisterWritten(w) \/ RegisterFailed(w)
    PROVE  IInv'
<1> USE DEF IInv
<1> DEFINE a == job[w].archive
<1>1. Step(w)
    BY DEF Step
<1>2. PICK status \in {"WRITTEN", "FAILED"}, path \in Datasets \cup {None} :
        /\ Register(w, pc[w], status, path)
        /\ status = "WRITTEN" => pc[w] = "published" /\ path = job[w].dataset
        /\ pc[w] \in {"published", "unlinked"}
    <2>1. CASE RegisterWritten(w)
        BY <2>1, JobFields DEF RegisterWritten, Register, Goto
    <2>2. CASE RegisterFailed(w)
        BY <2>2 DEF RegisterFailed, Register, Goto
    <2>3. QED  BY <2>1, <2>2
<1> DEFINE row == Upsert(registry[a], job[w], status, path)
<1>3. row \in Row /\ row # None /\ row.status = status /\ row.path = path
    BY UpsertRow
<1>4. /\ registry' = [registry EXCEPT ![a] = row]
      /\ result' = [result EXCEPT ![w] = [status |-> status, path |-> path]]
      /\ pc'[w] = "idle"
      /\ UNCHANGED <<final, tmp, orphans>>
    BY <1>2 DEF Register, Goto, Return, TypeOK
<1>5. a \in Archives /\ FinalPath(w) = <<a, job[w].dataset>>
    BY JobFields DEF FinalPath
<1>6. \A b \in Archives : b # a => registry'[b] = registry[b]
    BY <1>4 DEF TypeOK
<1>7. registry'[a] = row
    BY <1>4, <1>5 DEF TypeOK
<1>8. \A v \in Live : v # w /\ job[v].archive = a => a \in overlapped
    BY <1>1, StepFrame DEF Alone
<1>9. a \notin overlapped => ~Ingested(a)
    BY <1>1, StepFrame DEF Alone
<1>10. TypeOK'
    <2>1. registry' \in [Archives -> Row \cup {None}]
        BY <1>3, <1>4 DEF TypeOK
    <2>2. result' \in [Writers -> Result]
        BY <1>4 DEF TypeOK, Result
    <2>3. QED  BY <2>1, <2>2, <1>1, <1>4, StepFrame DEF TypeOK
<1>11. RunsApart'
    BY <1>1, StepFrame DEF RunsApart
<1>12. TmpTracked' /\ PublishedPresent'
    BY <1>1, <1>4, StepFrame DEF TmpTracked, PublishedPresent
<1>13. Alone'
    <2> SUFFICES ASSUME NEW u \in Live', NEW v \in Live', job[u].archive = job[v].archive,
                        job[v].archive \notin overlapped
                 PROVE  u = v /\ ~Ingested(job[v].archive)'
        BY <1>1, StepFrame DEF Alone, Ingested
    <2>1. u \in Live /\ v \in Live /\ v # w
        BY <1>1, <1>4, StepFrame DEF Live
    <2>2. u = v /\ ~Ingested(job[v].archive)
        BY <2>1 DEF Alone
    <2>3. job[v].archive # a /\ job[v].archive \in Archives
        BY <2>1, <1>8, JobFields DEF Live
    <2>4. QED  BY <2>2, <2>3, <1>1, <1>6, StepFrame DEF Ingested
<1>14. FinalNeverPartial'
    BY <1>4 DEF FinalNeverPartial
<1>15. WrittenHasFile'
    <2> SUFFICES ASSUME NEW b \in Archives, Ingested(b)'
                 PROVE  /\ registry'[b].path \in Datasets
                        /\ final[<<b, registry'[b].path>>] # None
                        /\ final[<<b, registry'[b].path>>].whole
        BY <1>4 DEF WrittenHasFile, Ingested
    <2>1. CASE b = a
        <3>1. status = "WRITTEN" /\ pc[w] = "published" /\ path = job[w].dataset
            BY <2>1, <1>2, <1>3, <1>7 DEF Ingested
        <3>2. final[FinalPath(w)] # None /\ final[FinalPath(w)].whole
            BY <3>1, JobFields DEF PublishedPresent, FinalNeverPartial
        <3>3. QED  BY <3>1, <3>2, <2>1, <1>3, <1>5, <1>7, JobFields
    <2>2. CASE b # a
        BY <2>2, <1>6 DEF WrittenHasFile, Ingested
    <2>3. QED  BY <2>1, <2>2
<1>16. ResultHolds'
    <2> SUFFICES ASSUME NEW v \in Writers, pc'[v] = "idle",
                        result'[v].status \in {"WRITTEN", "ALREADY_INGESTED"},
                        job[v].archive \notin overlapped
                 PROVE  /\ Ingested(job[v].archive)'
                        /\ registry'[job[v].archive].path = result'[v].path
        BY <1>1, StepFrame DEF ResultHolds, Ingested
    <2>1. CASE v = w
        <3>1. result'[w].status = status /\ result'[w].path = path
            BY <1>4 DEF TypeOK
        <3>2. QED  BY <2>1, <3>1, <1>1, <1>3, <1>7, StepFrame DEF Ingested
    <2>2. CASE v # w
        <3>1. /\ pc[v] = "idle" /\ result'[v] = result[v]
              /\ job[v].archive \in Archives
            BY <2>2, <1>1, StepFrame, JobFields
        <3>2. Ingested(job[v].archive) /\ registry[job[v].archive].path = result[v].path
            BY <3>1 DEF ResultHolds
        <3>3. job[v].archive # a
            BY <3>2, <1>9
        <3>4. QED  BY <3>1, <3>2, <3>3, <1>1, <1>6, StepFrame DEF Ingested
    <2>3. QED  BY <2>1, <2>2
<1>17. TmpOwned'
    <2>1. tmp[TmpPath(w)] = None
        BY <1>2 DEF TmpTracked
    <2>2. \A v \in Live : v # w => v \in Live'
        BY <1>1, StepFrame DEF Live
    <2>3. QED  BY <2>1, <2>2, <1>1, <1>4, StepFrame DEF TmpOwned, Live
<1>18. QED
    BY <1>10, <1>11, <1>12, <1>13, <1>14, <1>15, <1>16, <1>17

-------------------------------------------------------------------------------
(* The theorems. *)

\* Every reachable state of write_bronze, with crashes and any overlap of
\* calls, satisfies the inductive invariant.
THEOREM IInvariant == Spec => []IInv
<1>1. Init => IInv
    BY InitIInv
<1>2. IInv /\ [Next]_vars => IInv'
    <2> SUFFICES ASSUME IInv, [Next]_vars PROVE IInv'
        OBVIOUS
    <2>1. ASSUME NEW w \in Writers, NEW j \in Job,
                 InvokeKnown(w, j) \/ InvokeNew(w, j) \/ InvokeRaises(w, j)
          PROVE  IInv'
        BY <2>1, InvokeStep
    <2>2. ASSUME NEW w \in Writers, Step(w)
          PROVE  IInv'
        <3>1. CASE OpenTmp(w) \/ CloseTmp(w) \/ WriteFails(w) \/ CleanUp(w)
            BY <3>1, TmpStep
        <3>2. CASE Publish(w)
            BY <3>2, PublishStep
        <3>3. CASE RegisterWritten(w) \/ RegisterFailed(w)
            BY <3>3, RegisterStep
        <3>4. CASE RegisterRaises(w)
            BY <3>4, EndStep
        <3>5. QED  BY <2>2, <3>1, <3>2, <3>3, <3>4 DEF Step
    <2>3. ASSUME NEW w \in Writers, Crash(w)
          PROVE  IInv'
        BY <2>3, EndStep
    <2>4. CASE UNCHANGED vars
        BY <2>4 DEF vars, IInv, TypeOK, RunsApart, TmpTracked, PublishedPresent, Alone,
            FinalNeverPartial, WrittenHasFile, ResultHolds, TmpOwned,
            Live, TmpPath, FinalPath, Ingested
    <2>5. QED  BY <2>1, <2>2, <2>3, <2>4 DEF Next
<1>3. QED  BY <1>1, <1>2, PTL DEF Spec

\* Registry rows, files, calls and results keep their types: in particular no
\* row ever has a status other than WRITTEN and FAILED (writer.py, line 73).
THEOREM TypeCorrect == Spec => []TypeOK
<1>1. IInv => TypeOK
    BY DEF IInv
<1>2. QED  BY <1>1, IInvariant, PTL

\* For any number of writers, archives and datasets, a WRITTEN row points at a
\* published, complete file, whatever crashes between rename and commit.
THEOREM WrittenRowsHaveFiles == Spec => []WrittenHasFile
<1>1. IInv => WrittenHasFile
    BY DEF IInv
<1>2. QED  BY <1>1, IInvariant, PTL

\* No Bronze file is ever partial under its final name, however many writers
\* share that name (the temp-file-then-rename of lines 192-201).
THEOREM NoPartialFile == Spec => []FinalNeverPartial
<1>1. IInv => FinalNeverPartial
    BY DEF IInv
<1>2. QED  BY <1>1, IInvariant, PTL

\* What a caller was told about an archive stays true while ingestions of that
\* archive do not overlap.
THEOREM ResultsHold == Spec => []ResultHolds
<1>1. IInv => ResultHolds
    BY DEF IInv
<1>2. QED  BY <1>1, IInvariant, PTL

\* Only the death of a process leaves a temporary file behind; every error
\* path of write_bronze removes its own.
THEOREM NoStrayTmp == Spec => []TmpOwned
<1>1. IInv => TmpOwned
    BY DEF IInv
<1>2. QED  BY <1>1, IInvariant, PTL

-------------------------------------------------------------------------------
(* Action properties: what a step may do to the rows and files of an archive. *)

\* The file under its final name changes only when a call renames one over it,
\* the row only when a call commits one; both while the call is live.
LEMMA WhoWrites ==
    ASSUME IInv, [Next]_vars, NEW a \in Archives, a \notin overlapped', Ingested(a)
    PROVE  /\ registry'[a] = registry[a]
           /\ \A d \in Datasets : final'[<<a, d>>] = final[<<a, d>>]
<1> USE DEF IInv
<1>1. ASSUME NEW w \in Live, Step(w) \/ Crash(w)
      PROVE  job[w].archive # a
    BY <1>1, StepFrame DEF Alone, Live
<1>2. ASSUME NEW w \in Writers, Step(w)
      PROVE  /\ registry'[a] = registry[a]
             /\ \A d \in Datasets : final'[<<a, d>>] = final[<<a, d>>]
    <2>1. job[w].archive # a
        BY <1>1, <1>2, StepFrame
    <2>2. CASE Publish(w)
        BY <2>1, <2>2, JobFields DEF Publish, TypeOK, FinalPath
    <2>3. CASE RegisterWritten(w) \/ RegisterFailed(w)
        BY <2>1, <2>3 DEF RegisterWritten, RegisterFailed, Register, TypeOK
    <2>4. QED  BY <1>2, <2>2, <2>3 DEF Step, OpenTmp, CloseTmp, WriteFails, CleanUp, RegisterRaises
<1>3. ASSUME NEW w \in Writers, NEW j \in Job, InvokeKnown(w, j) \/ InvokeNew(w, j) \/ InvokeRaises(w, j)
      PROVE  UNCHANGED <<registry, final>>
    BY <1>3 DEF InvokeKnown, InvokeNew, InvokeRaises, Invoke
<1>4. ASSUME NEW w \in Writers, Crash(w)
      PROVE  UNCHANGED <<registry, final>>
    BY <1>4 DEF Crash
<1>5. CASE UNCHANGED vars
    BY <1>5 DEF vars
<1>6. QED  BY <1>2, <1>3, <1>4, <1>5 DEF Next

\* "Same archive, no rewrite": an ingested archive's row and file never change
\* again, for any number of archives and retries, unless calls overlapped.
THEOREM NoRewriteHolds == Spec => NoRewrite
<1>1. IInv /\ [Next]_vars =>
        [\A a \in Archives :
            Ingested(a) /\ a \notin overlapped' =>
                /\ registry'[a] = registry[a]
                /\ final'[<<a, registry[a].path>>] = final[<<a, registry[a].path>>]]_vars
    <2> SUFFICES ASSUME IInv, [Next]_vars, NEW a \in Archives, Ingested(a), a \notin overlapped'
                 PROVE  /\ registry'[a] = registry[a]
                        /\ final'[<<a, registry[a].path>>] = final[<<a, registry[a].path>>]
        OBVIOUS
    <2>1. registry[a].path \in Datasets
        BY DEF IInv, WrittenHasFile
    <2>2. QED  BY <2>1, WhoWrites
<1>2. QED  BY <1>1, IInvariant, PTL DEF Spec, NoRewrite

-------------------------------------------------------------------------------
(* Refinement. *)

Abstract == [a \in Archives |-> Phase(a)]

\* A step that leaves every phase alone but a's moves a as IngestOnce does.
LEMMA OneMoves ==
    ASSUME NEW a \in Archives,
           \A b \in Archives \ {a} : Phase(b)' = Phase(b),
           Phase(a) \in Once!Open,
           Phase(a)' \in {"failed", "written", "contended"}
    PROVE  Once!Next
<1>1. Abstract' = [Abstract EXCEPT ![a] = Phase(a)']
    BY DEF Abstract
<1>2. Abstract[a] \in Once!Open
    BY DEF Abstract
<1>3. Once!Fail(a) \/ Once!Commit(a) \/ Once!Contend(a)
    BY <1>1, <1>2 DEF Abstract, Once!Fail, Once!Commit, Once!Contend, Once!Move
<1>4. QED  BY <1>3 DEF Once!Next

\* The phase of an archive depends on its row and on whether it is contended.
LEMMA PhaseFrame ==
    ASSUME NEW a \in Archives, registry'[a] = registry[a], a \in overlapped' <=> a \in overlapped
    PROVE  Phase(a)' = Phase(a)
BY DEF Phase

\* An archive that is neither ingested nor contended is open.
LEMMA OpenPhase ==
    ASSUME NEW a \in Archives, ~Ingested(a), a \notin overlapped
    PROVE  Phase(a) \in Once!Open
BY DEF Phase, Ingested, Once!Open

\* write_bronze with its registry implements the ingest-once register, for
\* every number of writers, archives, datasets and runs.
THEOREM Refinement == Spec => ImplementsIngestOnce
<1>1. Init => Once!Init
    BY DEF Init, Once!Init, Phase
<1>2. IInv /\ [Next]_vars => [Once!Next]_Abstract
    <2> SUFFICES ASSUME IInv, [Next]_vars
                 PROVE  Once!Next \/ \A a \in Archives : Phase(a)' = Phase(a)
        BY DEF Abstract
    <2>1. ASSUME NEW w \in Writers, NEW j \in Job, InvokeKnown(w, j) \/ InvokeNew(w, j) \/ InvokeRaises(w, j)
          PROVE  Once!Next \/ \A a \in Archives : Phase(a)' = Phase(a)
        <3>1. registry' = registry /\ j.archive \in Archives
            BY <2>1 DEF InvokeKnown, InvokeNew, InvokeRaises, Invoke, Job
        <3>2. CASE overlapped' = overlapped
            BY <3>1, <3>2, PhaseFrame
        <3>3. CASE overlapped' # overlapped
            <4>1. overlapped' = overlapped \cup {j.archive} /\ j.archive \notin overlapped
                  /\ ~Ingested(j.archive)
                BY <2>1, <3>1, <3>3, CheckFindsRow DEF InvokeKnown, InvokeNew, InvokeRaises
            <4>2. \A b \in Archives \ {j.archive} : Phase(b)' = Phase(b)
                BY <3>1, <4>1, PhaseFrame
            <4>3. Phase(j.archive)' = "contended"
                BY <4>1 DEF Phase
            <4>4. QED  BY <3>1, <4>1, <4>2, <4>3, OpenPhase, OneMoves
        <3>4. QED  BY <3>2, <3>3
    <2>2. ASSUME NEW w \in Writers, RegisterWritten(w) \/ RegisterFailed(w)
          PROVE  Once!Next \/ \A a \in Archives : Phase(a)' = Phase(a)
        <3>0. PICK a \in Archives : a = job[w].archive
            BY JobFields DEF IInv
        <3>1. w \in Live /\ overlapped' = overlapped
            BY <2>2, StepFrame DEF Step
        <3>2. PICK status \in {"WRITTEN", "FAILED"}, path \in Datasets \cup {None} :
                Register(w, pc[w], status, path)
            BY <2>2, JobFields DEF RegisterWritten, RegisterFailed, Register, Goto, IInv
        <3>3. /\ \A b \in Archives \ {a} : registry'[b] = registry[b]
              /\ registry'[a] # None /\ registry'[a].status = status
            <4> DEFINE row == Upsert(registry[a], job[w], status, path)
            <4>1. row # None /\ row.status = status
                BY <3>0, UpsertRow DEF IInv
            <4>2. registry' = [registry EXCEPT ![a] = row]
                BY <3>0, <3>2 DEF Register
            <4> HIDE DEF row
            <4>3. QED  BY <4>1, <4>2 DEF IInv, TypeOK
        <3>4. \A b \in Archives \ {a} : Phase(b)' = Phase(b)
            BY <3>1, <3>3, PhaseFrame
        <3>5. CASE a \in overlapped
            BY <3>1, <3>4, <3>5 DEF Phase
        <3>6. CASE a \notin overlapped
            <4>1. ~Ingested(a)
                BY <3>0, <3>1, <3>6 DEF IInv, Alone
            <4>2. Phase(a)' \in {"failed", "written"}
                BY <3>1, <3>3, <3>6 DEF Phase
            <4>3. QED  BY <3>1, <3>4, <3>6, <4>1, <4>2, OpenPhase, OneMoves
        <3>7. QED  BY <3>5, <3>6
    <2>3. ASSUME NEW w \in Writers, Step(w) \/ Crash(w), ~RegisterWritten(w), ~RegisterFailed(w)
          PROVE  \A a \in Archives : Phase(a)' = Phase(a)
        BY <2>3, PhaseFrame DEF Step, Crash, OpenTmp, CloseTmp, Publish, WriteFails, CleanUp,
            RegisterRaises
    <2>4. CASE UNCHANGED vars
        BY <2>4, PhaseFrame DEF vars
    <2>5. QED  BY <2>1, <2>2, <2>3, <2>4 DEF Next
<1>3. QED  BY <1>1, <1>2, IInvariant, PTL DEF Spec, ImplementsIngestOnce, Once!Spec, Abstract
===============================================================================
