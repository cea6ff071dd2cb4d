--------------------------- MODULE GeoPipelineProofs ---------------------------
(***************************************************************************)
(* Proofs about GeoPipeline and the discovery in it, for any keys, names,  *)
(* contents and number of tries.                                           *)
(***************************************************************************)
EXTENDS GeoPipeline, TLAPS

\* What a step of find_new_archives preserves.
DiscoveryInv == DiscoveryTypeOK /\ LoopState /\ FoundSettled

\* Appending an archive leaves those found before where they are.
LEMMA AppendFound ==
    ASSUME NEW s \in Seq(Discovered), NEW e \in Discovered
    PROVE  /\ Append(s, e) \in Seq(Discovered)
           /\ DOMAIN Append(s, e) = DOMAIN s \cup {Len(s) + 1}
           /\ Append(s, e)[Len(s) + 1] = e
           /\ \A i \in DOMAIN s : Append(s, e)[i] = s[i]
OBVIOUS

\* The list of those found holds keys with the hashes of contents.
LEMMA FoundTyped ==
    ASSUME discovered \in Seq(Discovered), NEW i \in DOMAIN discovered
    PROVE  discovered[i].key \in Keys /\ discovered[i].hash \in Contents
<1>1. discovered[i] \in Discovered
    OBVIOUS
<1>2. QED
    BY <1>1 DEF Discovered

\* A call that has not begun, or is gone, has nothing to keep.
LEMMA SetCallInv ==
    ASSUME DiscoveryInv, NEW to \in {"idle", "called"}, SetCall(to), UNCHANGED <<bucket, stage>>
    PROVE  DiscoveryInv'
<1>1. DiscoveryTypeOK'
    BY DEF DiscoveryInv, DiscoveryTypeOK, SetCall, stage
<1>2. LoopState' /\ FoundSettled'
    BY DEF SetCall, LoopState, FoundSettled
<1>3. QED
    BY <1>1, <1>2 DEF DiscoveryInv

\* Settling the archive in work with what is not an addition to the list.
LEMMA SettleInv ==
    ASSUME DiscoveryInv, find \in {"fetched", "extracting"},
           NEW what \in {"known", "failed"}, Settle(what),
           IF what = "known" THEN Hash \in known ELSE Hash \notin known,
           UNCHANGED <<bucket, whole, known, discovered>>,
           staged' \in [Names -> Contents \cup {None}]
    PROVE  DiscoveryInv'
<1>1. current \in todo /\ current \in Keys /\ Hash = hashed[current]
    BY DEF DiscoveryInv, LoopState, DiscoveryTypeOK
<1>2. DiscoveryTypeOK'
    BY <1>1 DEF DiscoveryInv, DiscoveryTypeOK, Settle
<1>3. LoopState'
    BY DEF Settle, LoopState
<1>4. FoundSettled'
    <2>1. /\ outcome' = [outcome EXCEPT ![current] = what] /\ todo' = todo \ {current}
          /\ find' = "looping" /\ hashed' = hashed
        BY DEF Settle
    <2>2. outcome[current] = "listed"
        BY <1>1 DEF DiscoveryInv, FoundSettled
    <2>3. \A k \in Keys : outcome'[k] = IF k = current THEN what ELSE outcome[k]
        BY <2>1 DEF DiscoveryInv, DiscoveryTypeOK
    <2>4. \A i \in DOMAIN discovered : discovered[i].key \in Keys
        BY FoundTyped DEF DiscoveryInv, DiscoveryTypeOK
    <2>5. \A k \in Keys : /\ outcome'[k] = "known" => hashed[k] \in known
                          /\ outcome'[k] \in {"new", "failed"} => hashed[k] \notin known
        BY <1>1, <2>3 DEF DiscoveryInv, FoundSettled
    <2>6. QED
        BY <2>1, <2>2, <2>3, <2>4, <2>5 DEF DiscoveryInv, FoundSettled
<1>5. QED
    BY <1>2, <1>3, <1>4 DEF DiscoveryInv

\* Every step of find_new_archives preserves what is known of it.
LEMMA FindInv ==
    ASSUME DiscoveryInv, FindStep
    PROVE  DiscoveryInv'
<1>1. CASE List
    <2>1. DiscoveryTypeOK' /\ LoopState'
        BY <1>1 DEF DiscoveryInv, DiscoveryTypeOK, List, LoopState, stage
    <2>2. FoundSettled'
        <3>1. /\ todo' = {k \in Keys : bucket[k] # None}
              /\ outcome' = [k \in Keys |-> IF k \in todo' THEN "listed" ELSE "unlisted"]
              /\ discovered' = <<>> /\ find' \in {"returned", "listed"}
            BY <1>1 DEF List, DiscoveryInv, LoopState
        <3>2. QED  BY <3>1 DEF FoundSettled
    <2>3. QED  BY <2>1, <2>2 DEF DiscoveryInv
<1>2. CASE ReadRegistry
    <2>1. DiscoveryTypeOK'
        BY <1>2, ContentsAssumption DEF DiscoveryInv, DiscoveryTypeOK, ReadRegistry, stage
    <2>2. LoopState' /\ FoundSettled'
        BY <1>2 DEF DiscoveryInv, LoopState, FoundSettled, ReadRegistry
    <2>3. QED  BY <2>1, <2>2 DEF DiscoveryInv
<1>3. CASE MinioRaises
    BY <1>3 DEF DiscoveryInv, DiscoveryTypeOK, LoopState, FoundSettled, MinioRaises, stage
<1>4. ASSUME NEW k \in Keys, Fetch(k)
      PROVE  DiscoveryInv'
    <2>1. LocalPath(k) \in Names /\ bucket[k] \in Contents
        BY <1>4, NamesAssumption DEF LocalPath, Fetch, DiscoveryInv, DiscoveryTypeOK
    <2>2. DiscoveryTypeOK'
        BY <1>4, <2>1 DEF DiscoveryInv, DiscoveryTypeOK, Fetch
    <2>3. Hash' # None /\ Hash' = hashed'[current']
        BY <1>4, <2>1, NoneAssumption DEF Hash, Fetch, LocalPath, DiscoveryInv, DiscoveryTypeOK
    <2>4. LoopState'
        BY <1>4, <2>3 DEF DiscoveryInv, LoopState, Fetch
    <2>5. /\ outcome[k] = "listed" /\ find' = "fetched"
          /\ \A j \in Keys : j # k => hashed'[j] = hashed[j]
          /\ UNCHANGED <<todo, known, discovered, outcome>>
        BY <1>4 DEF DiscoveryInv, DiscoveryTypeOK, FoundSettled, Fetch
    <2>6. \A i \in DOMAIN discovered : discovered[i].key \in Keys
        BY FoundTyped DEF DiscoveryInv, DiscoveryTypeOK
    <2>7. FoundSettled'
        BY <2>5, <2>6 DEF DiscoveryInv, FoundSettled
    <2>8. QED  BY <2>2, <2>4, <2>7 DEF DiscoveryInv
<1>5. CASE SkipKnown
    <2>1. staged' \in [Names -> Contents \cup {None}]
        BY <1>5 DEF SkipKnown, DiscoveryInv, DiscoveryTypeOK
    <2>2. QED  BY <1>5, <2>1, SettleInv DEF SkipKnown
<1>6. CASE BeginExtract
    <2>1. DiscoveryTypeOK'
        BY <1>6 DEF DiscoveryInv, DiscoveryTypeOK, BeginExtract
    <2>2. Hash' = Hash
        BY <1>6 DEF BeginExtract, Hash
    <2>3. LoopState' /\ FoundSettled'
        BY <1>6, <2>2 DEF DiscoveryInv, LoopState, FoundSettled, BeginExtract
    <2>4. QED  BY <2>1, <2>3 DEF DiscoveryInv
<1>7. CASE EndExtract
    <2> DEFINE e == [key |-> current, hash |-> Hash]
    <2>1. /\ current \in todo /\ current \in Keys
          /\ Hash \in Contents /\ Hash \notin known /\ Hash = hashed[current]
        BY <1>7, NamesAssumption DEF EndExtract, DiscoveryInv, LoopState, DiscoveryTypeOK, Hash, LocalPath
    <2>2. e \in Discovered
        BY <2>1 DEF Discovered
    <2>3. /\ find' = "looping" /\ discovered' = Append(discovered, e)
          /\ todo' = todo \ {current} /\ current' = None
          /\ outcome' = [outcome EXCEPT ![current] = "new"]
          /\ whole' = whole \cup {<<LocalPath(current), Hash>>}
          /\ UNCHANGED <<bucket, staged, known, hashed>>
        BY <1>7 DEF EndExtract, Settle, DestDir
    <2>4. discovered \in Seq(Discovered)
        BY DEF DiscoveryInv, DiscoveryTypeOK
    <2>5. /\ discovered' \in Seq(Discovered)
          /\ DOMAIN discovered' = DOMAIN discovered \cup {Len(discovered) + 1}
          /\ discovered'[Len(discovered) + 1] = e
          /\ \A i \in DOMAIN discovered : discovered'[i] = discovered[i]
        BY <2>2, <2>3, <2>4, AppendFound
    <2>6. DiscoveryTypeOK'
        <3>1. whole' \subseteq Names \X Contents
            <4>1. <<LocalPath(current), Hash>> \in Names \X Contents
                BY <2>1, NamesAssumption DEF LocalPath
            <4>2. whole \subseteq Names \X Contents
                BY DEF DiscoveryInv, DiscoveryTypeOK
            <4>3. QED  BY <2>3, <4>1, <4>2
        <3>2. outcome' \in [Keys -> {"unlisted", "listed", "known", "new", "failed"}]
            BY <2>3 DEF DiscoveryInv, DiscoveryTypeOK
        <3>3. QED
            BY <2>3, <2>5, <3>1, <3>2 DEF DiscoveryInv, DiscoveryTypeOK
    <2>7. LoopState'
        BY <2>3 DEF LoopState
    <2>8. outcome[current] = "listed"
        BY <2>1 DEF DiscoveryInv, FoundSettled
    <2>9. \A k \in Keys : outcome'[k] = IF k = current THEN "new" ELSE outcome[k]
        BY <2>3 DEF DiscoveryInv, DiscoveryTypeOK
    <2>10. \A i \in DOMAIN discovered :
               /\ discovered[i].key \in Keys
               /\ outcome[discovered[i].key] = "new"
               /\ discovered[i].hash = hashed[discovered[i].key]
        BY <2>4, FoundTyped DEF DiscoveryInv, FoundSettled
    <2>11. todo' = {k \in Keys : outcome'[k] = "listed"}
        BY <2>3, <2>9 DEF DiscoveryInv, FoundSettled
    <2>12. \A i \in DOMAIN discovered' :
               /\ outcome'[discovered'[i].key] = "new"
               /\ discovered'[i].hash = hashed'[discovered'[i].key]
        BY <2>1, <2>3, <2>5, <2>8, <2>9, <2>10
    <2>13. ASSUME NEW k \in Keys, outcome'[k] = "new"
           PROVE  \E i \in DOMAIN discovered' : discovered'[i].key = k
        <3>1. CASE k = current
            BY <2>5, <3>1
        <3>2. CASE k # current
            BY <2>5, <2>9, <2>13, <3>2 DEF DiscoveryInv, FoundSettled
        <3>3. QED  BY <3>1, <3>2
    <2>14. \A k \in Keys : /\ outcome'[k] = "known" => hashed'[k] \in known'
                           /\ outcome'[k] \in {"new", "failed"} => hashed'[k] \notin known'
        BY <2>1, <2>3, <2>9 DEF DiscoveryInv, FoundSettled
    <2>15. FoundSettled'
        BY <2>3, <2>11, <2>12, <2>13, <2>14 DEF FoundSettled
    <2>16. QED  BY <2>6, <2>7, <2>15 DEF DiscoveryInv
<1>8. CASE ExtractFails
    <2>1. staged' \in [Names -> Contents \cup {None}]
        BY <1>8 DEF ExtractFails, DiscoveryInv, DiscoveryTypeOK, stage
    <2>2. Hash \notin known
        BY <1>8 DEF ExtractFails, DiscoveryInv, LoopState
    <2>3. QED  BY <1>8, <2>1, <2>2, SettleInv DEF ExtractFails, stage
<1>9. CASE ReturnFound
    BY <1>9 DEF DiscoveryInv, DiscoveryTypeOK, LoopState, FoundSettled, ReturnFound, stage
<1>10. QED
    BY <1>1, <1>2, <1>3, <1>4, <1>5, <1>6, <1>7, <1>8, <1>9 DEF FindStep

-------------------------------------------------------------------------------
\* The end of a run, and the start of a try, whatever was before.
LEMMA EndRunInv ==
    ASSUME IInv, EndRun, UNCHANGED <<bucket, stage>>
    PROVE  IInv'
<1>1. DiscoveryInv'
    BY SetCallInv DEF EndRun, IInv, TypeOK, DiscoveryInv
<1>2. QED
    BY <1>1, MaxTriesAssumption DEF EndRun, StartTask, IInv, TypeOK, DiscoveryInv

\* A try begins with no call of find_new_archives in progress and no XCom.
LEMMA BeginInspectInv ==
    ASSUME IInv, NEW n \in 1 .. MaxTries, BeginInspect(n), task' = "inspecting", try' = n,
           UNCHANGED <<bucket, stage>>
    PROVE  IInv'
<1>1. DiscoveryInv'
    BY SetCallInv DEF BeginInspect, IInv, TypeOK, DiscoveryInv
<1>2. QED
    BY <1>1 DEF BeginInspect, IInv, TypeOK, DiscoveryInv

\* A failed try is followed by the next, or by the end of the run.
LEMMA RetryInv ==
    ASSUME IInv, task = "inspecting", Retry
    PROVE  IInv'
<1>1. CASE try < MaxTries
    <2>1. try + 1 \in 1 .. MaxTries
        BY <1>1, MaxTriesAssumption DEF IInv, TypeOK
    <2>2. QED  BY <1>1, <2>1, BeginInspectInv DEF Retry
<1>2. CASE ~(try < MaxTries)
    BY <1>2, EndRunInv DEF Retry
<1>3. QED
    BY <1>1, <1>2

\* The call inspect_archive made is over, and so are its variables.
LEMMA InspectedInv ==
    ASSUME IInv, NEW m \in Modes \cup {"NO_NEW_ARCHIVES"}, Inspected(m),
           profile' \in Profile \cup {None}
    PROVE  IInv'
<1>1. DiscoveryInv'
    BY SetCallInv DEF Inspected, IInv, TypeOK, DiscoveryInv
<1>2. QED
    BY <1>1, MaxTriesAssumption DEF Inspected, StartTask, IInv, TypeOK, DiscoveryInv

\* Nothing staged or found, and any bucket.
LEMMA InitIInv == Init => IInv
BY MaxTriesAssumption DEF Init, DiscoveryInit, IInv, TypeOK, DiscoveryTypeOK, LoopState, FoundSettled

\* A step of the task that runs.
LEMMA TaskInv ==
    ASSUME IInv, TaskStep
    PROVE  IInv'
<1>1. CASE Discover
    BY <1>1, FindInv DEF Discover, xcom, IInv, TypeOK, DiscoveryInv
<1>2. CASE InspectNothing
    BY <1>2, InspectedInv DEF InspectNothing, IInv, TypeOK
<1>3. CASE InspectFirst
    <2> DEFINE first == Head(discovered)
               pushed == [try |-> try, key |-> first.key,
                          archive_sha256 |-> staged[LocalPath(first.key)], archive_hash |-> first.hash]
    <2>1. /\ discovered # <<>> /\ profile' = pushed
          /\ staged[LocalPath(first.key)] # None
          /\ \E m \in Modes : Inspected(m)
        BY <1>3 DEF InspectFirst
    <2>2. discovered \in Seq(Discovered)
        BY DEF IInv, TypeOK, DiscoveryTypeOK
    <2>3. first \in Discovered
        BY <2>1, <2>2
    <2>4. first.key \in Keys /\ first.hash \in Contents
        BY <2>3 DEF Discovered
    <2>5. staged[LocalPath(first.key)] \in Contents /\ try \in 1 .. MaxTries
        BY <2>1, <2>4, NamesAssumption DEF IInv, TypeOK, DiscoveryTypeOK, LocalPath
    <2>6. profile' \in Profile
        BY <2>1, <2>4, <2>5 DEF Profile
    <2>7. QED  BY <2>1, <2>6, InspectedInv
<1>4. CASE InspectRaises
    BY <1>4, RetryInv DEF InspectRaises
<1>5. CASE Branch
    <2>1. DiscoveryInv'
        BY <1>5 DEF Branch, IInv, TypeOK, DiscoveryInv, DiscoveryTypeOK, LoopState, FoundSettled,
            stage, call, Hash, LocalPath
    <2>2. QED
        BY <1>5, <2>1, MaxTriesAssumption DEF Branch, StartTask, xcom, IInv, TypeOK, DiscoveryInv
<1>6. CASE Skip
    BY <1>6, EndRunInv DEF Skip
<1>7. CASE WriteBronzeRaises
    <2>1. CASE try < MaxTries
        <3>1. DiscoveryInv'
            BY <1>7, <2>1 DEF WriteBronzeRaises, IInv, TypeOK, DiscoveryInv, DiscoveryTypeOK,
                LoopState, FoundSettled, stage, call, Hash, LocalPath
        <3>2. QED
            BY <1>7, <2>1, <3>1, MaxTriesAssumption
            DEF WriteBronzeRaises, xcom, IInv, TypeOK, DiscoveryInv
    <2>2. CASE ~(try < MaxTries)
        BY <1>7, <2>2, EndRunInv DEF WriteBronzeRaises
    <2>3. QED  BY <2>1, <2>2
<1>8. QED
    BY <1>1, <1>2, <1>3, <1>4, <1>5, <1>6, <1>7 DEF TaskStep

\* The types, and the books of the discovery, hold in every reachable state.
THEOREM IInvariant == Spec => []IInv
<1>1. IInv /\ [Next]_vars => IInv'
    <2> SUFFICES ASSUME IInv, [Next]_vars PROVE IInv'
        OBVIOUS
    <2>1. CASE Sense
        BY <2>1, BeginInspectInv, MaxTriesAssumption DEF Sense, StartTask
    <2>2. CASE TaskStep
        BY <2>2, TaskInv
    <2>3. CASE InspectKilled
        BY <2>3, RetryInv DEF InspectKilled
    <2>4. ASSUME NEW k \in Keys, Upload(k), UNCHANGED <<task, try, xcom>>
          PROVE  IInv'
        BY <2>4 DEF Upload, IInv, TypeOK, DiscoveryTypeOK, LoopState, FoundSettled, stage, call, xcom,
            Hash, LocalPath
    <2>5. CASE UNCHANGED vars
        BY <2>5 DEF vars, IInv, TypeOK, DiscoveryTypeOK, LoopState, FoundSettled, stage, call, xcom,
            Hash, LocalPath
    <2>6. QED  BY <2>1, <2>2, <2>3, <2>4, <2>5 DEF Next
<1>2. QED  BY <1>1, InitIInv, PTL DEF Spec

\* Every variable keeps its type.
THEOREM TypeCorrect == Spec => []TypeOK
<1>1. IInv => TypeOK
    BY DEF IInv
<1>2. QED  BY <1>1, IInvariant, PTL

\* A call of find_new_archives that returns has settled every archive it listed, as
\* known exactly if the registry was read to have what was downloaded for it, and
\* returns those that are new with their hashes, whatever the bucket, the registry
\* and the extractions did meanwhile.
THEOREM NothingForgotten == Spec => []Accounted
<1>1. IInv => Accounted
    <2> SUFFICES ASSUME IInv, find = "returned" PROVE Accounted
        BY DEF Accounted
    <2>1. \A k \in Keys : outcome[k] # "listed"
        BY DEF IInv, LoopState, FoundSettled
    <2>2. \A i \in DOMAIN discovered : discovered[i].key \in Keys
        BY FoundTyped DEF IInv, TypeOK, DiscoveryTypeOK
    <2>3. {k \in Keys : outcome[k] = "new"} = {discovered[i].key : i \in DOMAIN discovered}
        BY <2>2 DEF IInv, FoundSettled
    <2>4. QED
        BY <2>1, <2>3 DEF IInv, FoundSettled, Accounted
<1>2. QED  BY <1>1, IInvariant, PTL

-------------------------------------------------------------------------------
\* A key that is still to do shares no file with one that has been found.
LEMMA FilesApart ==
    ASSUME NamesDistinct, IInv, NEW k \in todo, NEW i \in DOMAIN discovered
    PROVE  LocalPath(k) # LocalPath(discovered[i].key)
<1>1. discovered[i].key \in Keys /\ k \in Keys
    BY FoundTyped DEF IInv, TypeOK, DiscoveryTypeOK
<1>2. outcome[k] = "listed" /\ outcome[discovered[i].key] = "new"
    BY DEF IInv, FoundSettled
<1>3. QED
    BY <1>1, <1>2 DEF NamesDistinct, LocalPath

\* A step that touches neither files nor list keeps what has been found.
LEMMA IntactKept ==
    ASSUME DiscoveredIntact, UNCHANGED stage, discovered' \in {discovered, <<>>}
    PROVE  DiscoveredIntact'
<1>1. CASE discovered' = discovered
    BY <1>1 DEF DiscoveredIntact, stage, LocalPath, DestDir
<1>2. CASE discovered' = <<>>
    BY <1>2 DEF DiscoveredIntact
<1>3. QED
    BY <1>1, <1>2

\* With file names apart, no step of find_new_archives touches what it has found.
LEMMA FindIntact ==
    ASSUME NamesDistinct, IInv, DiscoveredIntact, FindStep
    PROVE  DiscoveredIntact'
<1>1. CASE List \/ ReadRegistry \/ MinioRaises \/ ExtractFails \/ ReturnFound
    BY <1>1, IntactKept DEF List, ReadRegistry, MinioRaises, ExtractFails, ReturnFound
<1>2. ASSUME NEW k \in Keys, Fetch(k)
      PROVE  DiscoveredIntact'
    <2>1. /\ k \in todo /\ staged' = [staged EXCEPT ![LocalPath(k)] = bucket[k]]
          /\ UNCHANGED <<whole, discovered>>
        BY <1>2 DEF Fetch
    <2>2. ASSUME NEW i \in DOMAIN discovered
          PROVE  staged'[LocalPath(discovered[i].key)] = staged[LocalPath(discovered[i].key)]
        BY <2>1, FilesApart DEF IInv, TypeOK, DiscoveryTypeOK
    <2>3. QED  BY <2>1, <2>2 DEF DiscoveredIntact, DestDir, LocalPath
<1>3. CASE SkipKnown
    <2>1. /\ current \in todo /\ staged' = [staged EXCEPT ![LocalPath(current)] = None]
          /\ UNCHANGED <<whole, discovered>>
        BY <1>3 DEF SkipKnown, IInv, LoopState
    <2>2. ASSUME NEW i \in DOMAIN discovered
          PROVE  staged'[LocalPath(discovered[i].key)] = staged[LocalPath(discovered[i].key)]
        BY <2>1, FilesApart DEF IInv, TypeOK, DiscoveryTypeOK
    <2>3. QED  BY <2>1, <2>2 DEF DiscoveredIntact, DestDir, LocalPath
<1>4. CASE BeginExtract
    <2>1. /\ current \in todo /\ whole' = whole \ {<<LocalPath(current), Hash>>}
          /\ UNCHANGED <<staged, discovered>>
        BY <1>4 DEF BeginExtract, IInv, LoopState, DestDir
    <2>2. ASSUME NEW i \in DOMAIN discovered
          PROVE  <<LocalPath(discovered[i].key), discovered[i].hash>> # <<LocalPath(current), Hash>>
        BY <2>1, FilesApart
    <2>3. QED  BY <2>1, <2>2 DEF DiscoveredIntact, DestDir, LocalPath
<1>5. CASE EndExtract
    <2> DEFINE e == [key |-> current, hash |-> Hash]
    <2>1. /\ current \in todo /\ current \in Keys /\ Hash \in Contents
        BY <1>5, NamesAssumption DEF EndExtract, IInv, TypeOK, LoopState, DiscoveryTypeOK, Hash, LocalPath
    <2>2. /\ discovered' = Append(discovered, e)
          /\ whole' = whole \cup {DestDir(current, Hash)} /\ UNCHANGED staged
        BY <1>5 DEF EndExtract
    <2>3. e \in Discovered /\ discovered \in Seq(Discovered)
        BY <2>1 DEF Discovered, IInv, TypeOK, DiscoveryTypeOK
    <2>4. /\ DOMAIN discovered' = DOMAIN discovered \cup {Len(discovered) + 1}
          /\ discovered'[Len(discovered) + 1] = e
          /\ \A i \in DOMAIN discovered : discovered'[i] = discovered[i]
        BY <2>2, <2>3, AppendFound
    <2>5. \A i \in DOMAIN discovered' :
              /\ staged'[LocalPath(discovered'[i].key)] = discovered'[i].hash
              /\ DestDir(discovered'[i].key, discovered'[i].hash) \in whole'
        BY <2>2, <2>4 DEF DiscoveredIntact, Hash
    <2>6. QED  BY <2>5 DEF DiscoveredIntact, LocalPath, DestDir
<1>6. QED
    BY <1>1, <1>2, <1>3, <1>4, <1>5 DEF FindStep

\* The list of a call is empty when a call begins or is gone.
LEMMA RunIntact ==
    ASSUME NamesDistinct, IInv, DiscoveredIntact, [Next]_vars
    PROVE  DiscoveredIntact'
<1>1. CASE Discover
    BY <1>1, FindIntact DEF Discover
<1>2. CASE Next /\ ~Discover
    <2>1. UNCHANGED stage /\ discovered' \in {discovered, <<>>}
        BY <1>2 DEF Next, TaskStep, Sense, InspectNothing, InspectFirst, InspectRaises, InspectKilled,
            Branch, Skip, WriteBronzeRaises, Upload, Retry, EndRun, BeginInspect, Inspected, SetCall,
            stage, call
    <2>2. QED  BY <2>1, IntactKept
<1>3. CASE UNCHANGED vars
    BY <1>3, IntactKept DEF vars, stage, call
<1>4. QED
    BY <1>1, <1>2, <1>3

\* If no two objects have the same file name, every archive found keeps its file, its
\* hash and its directory until the call that found it is over.
THEOREM FoundStaysIntact == ASSUME NamesDistinct PROVE Spec => []DiscoveredIntact
<1>1. Init => DiscoveredIntact
    BY DEF Init, DiscoveryInit, DiscoveredIntact
<1>2. IInv /\ DiscoveredIntact /\ [Next]_vars => DiscoveredIntact'
    BY RunIntact
<1>3. QED  BY <1>1, <1>2, IInvariant, PTL DEF Spec

-------------------------------------------------------------------------------
\* What is pushed after a whole try is about the archive found first.
LEMMA PushedCoherent ==
    ASSUME IInv, DiscoveredIntact, OneTry, InspectFirst
    PROVE  Coherent'
<1> DEFINE first == Head(discovered)
           pushed == [try |-> try, key |-> first.key,
                      archive_sha256 |-> staged[LocalPath(first.key)], archive_hash |-> first.hash]
<1>1. /\ discovered # <<>> /\ profile' = pushed
      /\ task = "inspecting" /\ UNCHANGED <<runId, whole>>
    BY DEF InspectFirst, Found, Inspected, stage
<1>2. discovered \in Seq(Discovered)
    BY DEF IInv, TypeOK, DiscoveryTypeOK
<1>3. 1 \in DOMAIN discovered /\ first = discovered[1]
    BY <1>1, <1>2
<1>4. staged[LocalPath(first.key)] = first.hash /\ DestDir(first.key, first.hash) \in whole
    BY <1>3 DEF DiscoveredIntact
<1>5. profile' # None
    <2>1. first.key \in Keys /\ first.hash \in Contents
        BY <1>2, <1>3, FoundTyped
    <2>2. pushed \in Profile
        BY <1>4, <2>1 DEF Profile, IInv, TypeOK
    <2>3. QED  BY <1>1, <2>2, NoProfileAssumption
<1>6. /\ profile'.try = runId' /\ profile'.archive_sha256 = profile'.archive_hash
      /\ DestDir(profile'.key, profile'.archive_hash) \in whole'
    BY <1>1, <1>4 DEF OneTry
<1>7. QED
    BY <1>5, <1>6 DEF Coherent, DestDir, LocalPath

\* XCom and the directories stay as they are once inspection is over.
LEMMA OneTryKept ==
    ASSUME OneTry, UNCHANGED <<whole, runId, profile, mode>>,
           \/ UNCHANGED <<task, try>>
           \/ task = "branching" /\ task' = (IF mode = "NO_NEW_ARCHIVES" THEN "skipping" ELSE "writing")
           \/ task = "writing" /\ UNCHANGED task
    PROVE  OneTry'
<1>1. Coherent' = Coherent
    BY DEF Coherent, DestDir, LocalPath
<1>2. QED
    BY <1>1 DEF OneTry

\* What a Bronze task will be given stays of one try, whatever the run does.
LEMMA RunOneTry ==
    ASSUME IInv, DiscoveredIntact, OneTry, [Next]_vars
    PROVE  OneTry'
<1>1. CASE Sense \/ Skip \/ InspectRaises \/ InspectKilled
    BY <1>1 DEF Sense, Skip, InspectRaises, InspectKilled, Retry, StartTask, EndRun, BeginInspect, OneTry
<1>2. CASE Discover
    BY <1>2 DEF Discover, xcom, OneTry
<1>3. CASE InspectNothing
    BY <1>3 DEF InspectNothing, Inspected, StartTask, OneTry
<1>4. CASE InspectFirst
    BY <1>4, PushedCoherent DEF InspectFirst, Inspected, StartTask, OneTry
<1>5. CASE Branch
    BY <1>5, OneTryKept DEF Branch, StartTask, stage, xcom
<1>6. CASE WriteBronzeRaises
    <2>1. CASE try < MaxTries
        BY <1>6, <2>1, OneTryKept DEF WriteBronzeRaises, stage, xcom
    <2>2. CASE ~(try < MaxTries)
        BY <1>6, <2>2 DEF WriteBronzeRaises, EndRun, StartTask, OneTry
    <2>3. QED  BY <2>1, <2>2
<1>7. ASSUME NEW k \in Keys, Upload(k), UNCHANGED <<task, try, xcom>>
      PROVE  OneTry'
    BY <1>7, OneTryKept DEF Upload, stage, xcom
<1>8. CASE UNCHANGED vars
    BY <1>8, OneTryKept DEF vars, stage, xcom
<1>9. QED
    BY <1>1, <1>2, <1>3, <1>4, <1>5, <1>6, <1>7, <1>8 DEF Next, TaskStep

\* If no two objects have the same file name, what a Bronze task pulls from XCom is of
\* one try of the inspection, and about one archive, however many tries there were.
THEOREM BronzeInputCoherent == ASSUME NamesDistinct PROVE Spec => []BronzeGetsOneArchive
<1>1. Init => OneTry
    BY DEF Init, OneTry
<1>2. IInv /\ DiscoveredIntact /\ OneTry /\ [Next]_vars => OneTry'
    BY RunOneTry
<1>3. OneTry => BronzeGetsOneArchive
    BY DEF OneTry, BronzeGetsOneArchive
<1>4. QED  BY <1>1, <1>2, <1>3, IInvariant, FoundStaysIntact, PTL DEF Spec
===============================================================================
