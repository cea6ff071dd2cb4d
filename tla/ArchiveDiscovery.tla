--------------------------- MODULE ArchiveDiscovery ---------------------------
(***************************************************************************)
(* find_new_archives (geo_service/pipeline/extract/archive.py): list the   *)
(* archives in the upload bucket, ask the registry which are known, then   *)
(* download, hash and extract the others one after the other into a        *)
(* staging directory that outlives the call.                               *)
(*                                                                         *)
(* The bucket belongs to others and may change between any two steps.  The *)
(* staging directory is used by one call at a time (max_active_runs=1).    *)
(* An archive is downloaded to the last component of its object key.       *)
(***************************************************************************)
EXTENDS Naturals, Sequences

CONSTANTS
    Keys,           \* object keys, numbered in the order the bucket lists them
    Names,          \* file names
    NameOf,         \* NameOf[k]: Path(k).name
    Contents,       \* archive contents, i.e. SHA-256 values
    Recorded,       \* those geo_ingest_registry holds with status != FAILED
    None            \* no object, no file, nothing

ASSUME KeysAssumption == Keys \subseteq Nat
ASSUME NamesAssumption == NameOf \in [Keys -> Names]
ASSUME ContentsAssumption == Recorded \subseteq Contents
ASSUME NoneAssumption == None \notin Contents \cup Keys

VARIABLES
    bucket,         \* bucket[k]: the content of object k, or None
    staged,         \* staged[n]: the content of file n in the staging directory
    whole,          \* the directories <stem of n>_<hash c> that hold all of c, <<n, c>>
    find,           \* how far find_new_archives has come
    todo,           \* keys listed and not yet looked at
    known,          \* the hashes read from the registry, or None before that
    current,        \* the key in work, or None
    discovered,     \* the list it will return
    outcome,        \* auxiliary: outcome[k]: what became of key k in this call
    hashed          \* auxiliary: hashed[k]: what this call downloaded for key k, or None

stage == <<staged, whole>>
call == <<find, todo, known, current, discovered, outcome, hashed>>

Discovered == [key : Keys, hash : Contents]

DiscoveryTypeOK ==
    /\ bucket \in [Keys -> Contents \cup {None}]
    /\ staged \in [Names -> Contents \cup {None}]
    /\ whole \subseteq Names \X Contents
    /\ find \in {"idle", "called", "listed", "looping", "fetched", "extracting",
                 "returned", "raised"}
    /\ todo \subseteq Keys
    /\ known \in (SUBSET Contents) \cup {None}
    /\ current \in Keys \cup {None}
    /\ discovered \in Seq(Discovered)
    /\ outcome \in [Keys -> {"unlisted", "listed", "known", "new", "failed"}]
    /\ hashed \in [Keys -> Contents \cup {None}]

-------------------------------------------------------------------------------
\* One file for every download.
LocalFixed(k) == CHOOSE n \in Names : TRUE

\* local_path = staging_dir / Path(key).name
LocalPath(k) == NameOf[k]

\* extract_archive: dest_dir = staging_root / f"{stem}_{archive_hash[:12]}"
DestDir(k, c) == <<LocalPath(k), c>>

DiscoveryInit ==
    /\ bucket \in [Keys -> Contents \cup {None}]
    /\ staged = [n \in Names |-> None]
    /\ whole = {}
    /\ find = "idle"
    /\ todo = {}
    /\ known = None
    /\ current = None
    /\ discovered = <<>>
    /\ outcome = [k \in Keys |-> "unlisted"]
    /\ hashed = [k \in Keys |-> None]

\* find_new_archives is called, or a call of it is over, its variables gone.
SetCall(to) ==
    /\ find' = to
    /\ todo' = {}
    /\ known' = None
    /\ current' = None
    /\ discovered' = <<>>
    /\ outcome' = [k \in Keys |-> "unlisted"]
    /\ hashed' = [k \in Keys |-> None]

\* _list_minio_archives; an empty bucket ends the call.
List ==
    /\ find = "called"
    /\ todo' = {k \in Keys : bucket[k] # None}
    /\ outcome' = [k \in Keys |-> IF k \in todo' THEN "listed" ELSE "unlisted"]
    /\ find' = IF todo' = {} THEN "returned" ELSE "listed"
    /\ UNCHANGED <<bucket, stage, known, current, discovered, hashed>>

\* _known_hashes: whatever goes wrong, nothing is known.
ReadRegistry ==
    /\ find = "listed"
    /\ find' = "looping"
    /\ known' \in {Recorded, {}}
    /\ UNCHANGED <<bucket, stage, todo, current, discovered, outcome, hashed>>

\* _download_archive and _sha256 for the next key of the list.
Fetch(k) ==
    /\ find = "looping"
    /\ k \in todo /\ \A j \in todo : k <= j
    /\ bucket[k] # None
    /\ staged' = [staged EXCEPT ![LocalPath(k)] = bucket[k]]
    /\ current' = k
    /\ hashed' = [hashed EXCEPT ![k] = bucket[k]]
    /\ find' = "fetched"
    /\ UNCHANGED <<bucket, whole, todo, known, discovered, outcome>>

\* Neither listing nor downloading has a handler: MinIO is unreachable, or the
\* object has gone since it was listed.
MinioRaises ==
    /\ find \in {"called", "looping"}
    /\ find = "looping" => todo # {}
    /\ find' = "raised"
    /\ UNCHANGED <<bucket, stage, todo, known, current, discovered, outcome, hashed>>

Hash == staged[LocalPath(current)]

\* The end of the loop's body.
Settle(what) ==
    /\ find' = "looping"
    /\ todo' = todo \ {current}
    /\ outcome' = [outcome EXCEPT ![current] = what]
    /\ current' = None
    /\ UNCHANGED hashed

\* unlink; continue, whatever the hash.
SkipUnchecked ==
    /\ find = "fetched"
    /\ Settle("known")
    /\ staged' = [staged EXCEPT ![LocalPath(current)] = None]
    /\ UNCHANGED <<bucket, whole, known, discovered>>

\* if archive_hash in known: unlink; continue
SkipKnown ==
    /\ find = "fetched"
    /\ Hash \in known
    /\ Settle("known")
    /\ staged' = [staged EXCEPT ![LocalPath(current)] = None]
    /\ UNCHANGED <<bucket, whole, known, discovered>>

\* extract_archive creates its directory, or finds it from an earlier call.
BeginExtract ==
    /\ find = "fetched"
    /\ Hash \notin known
    /\ whole' = whole \ {DestDir(current, Hash)}
    /\ find' = "extracting"
    /\ UNCHANGED <<bucket, staged, todo, known, current, discovered, outcome, hashed>>

EndExtract ==
    /\ find = "extracting"
    /\ whole' = whole \cup {DestDir(current, Hash)}
    /\ discovered' = Append(discovered, [key |-> current, hash |-> Hash])
    /\ Settle("new")
    /\ UNCHANGED <<bucket, staged, known>>

\* except Exception: log; continue.  File and directory stay.
ExtractFails ==
    /\ find = "extracting"
    /\ Settle("failed")
    /\ UNCHANGED <<bucket, stage, known, discovered>>

ReturnFound ==
    /\ find = "looping" /\ todo = {}
    /\ find' = "returned"
    /\ UNCHANGED <<bucket, stage, todo, known, current, discovered, outcome, hashed>>

FindStep ==
    \/ List \/ ReadRegistry \/ MinioRaises
    \/ \E k \in Keys : Fetch(k)
    \/ SkipKnown \/ BeginExtract \/ EndExtract \/ ExtractFails
    \/ ReturnFound

\* Somebody uploads an archive, replaces one, or takes one away.
Upload(k) ==
    /\ \E c \in Contents \cup {None} : bucket' = [bucket EXCEPT ![k] = c]
    /\ UNCHANGED <<stage, call>>

-------------------------------------------------------------------------------
(***************************************************************************)
(* Safety.                                                                 *)
(***************************************************************************)

\* "archive_path: local path to downloaded .7z/.zip; archive_hash: SHA-256 of the
\* archive file" (lines 52-53): of every archive found so far, the file and the
\* directory are there, whole, and of the content that was hashed, whatever the
\* loop downloads, unlinks or fails to extract after it.
DiscoveredIntact ==
    \A i \in DOMAIN discovered :
        LET k == discovered[i].key
            c == discovered[i].hash
        IN /\ staged[LocalPath(k)] = c
           /\ DestDir(k, c) \in whole

\* When the call returns, every archive it listed has been settled, by what was
\* downloaded for it: skipped if and only if the registry was read to have that
\* content, and else in the returned list with its hash, unless its extraction
\* failed.  No archive is skipped for another's sake, and one that could not be
\* extracted has not kept those behind it from being looked at.
Accounted ==
    find = "returned" =>
        /\ \A k \in Keys :
            /\ outcome[k] # "listed"
            /\ outcome[k] = "known" => hashed[k] \in known
            /\ outcome[k] \in {"new", "failed"} => hashed[k] \notin known
        /\ {k \in Keys : outcome[k] = "new"} = {discovered[i].key : i \in DOMAIN discovered}
        /\ \A i \in DOMAIN discovered : discovered[i].hash = hashed[discovered[i].key]

-------------------------------------------------------------------------------
(***************************************************************************)
(* What makes the above inductive.                                         *)
(***************************************************************************)

\* The archive in work is on the list and on disk as it was downloaded, and not known
\* once extraction has begun; nothing is found before the loop.
LoopState ==
    /\ find \in {"fetched", "extracting"} =>
            current \in todo /\ Hash # None /\ Hash = hashed[current]
    /\ find = "extracting" => Hash \notin known
    /\ find \in {"idle", "called", "listed"} => discovered = <<>>
    /\ find = "returned" => todo = {}

\* Each key is either still to do or settled by what was downloaded for it, which
\* nothing but a download of the same key changes; it is found exactly if it is new.
FoundSettled ==
    /\ todo = {k \in Keys : outcome[k] = "listed"}
    /\ find \in {"called", "listed"} => \A k \in Keys : outcome[k] \in {"unlisted", "listed"}
    /\ \A k \in Keys :
        /\ outcome[k] = "known" => hashed[k] \in known
        /\ outcome[k] \in {"new", "failed"} => hashed[k] \notin known
    /\ \A i \in DOMAIN discovered : /\ outcome[discovered[i].key] = "new"
                                   /\ discovered[i].hash = hashed[discovered[i].key]
    /\ \A k \in Keys : outcome[k] = "new" =>
            \E i \in DOMAIN discovered : discovered[i].key = k

\* No two objects have the same file name.
NamesDistinct == \A j, k \in Keys : NameOf[j] = NameOf[k] => j = k
===============================================================================
