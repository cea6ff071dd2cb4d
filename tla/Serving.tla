-------------------------------- MODULE Serving --------------------------------
(***************************************************************************)
(* The GET endpoints of geo_service/api/routes in one uvicorn worker: each *)
(* looks its key up in a TTLCache and, on a miss, asks upstream and stores *)
(* the answer.  Upstream is the Martin tile server for tiles.py, the Gold  *)
(* Parquet files read through DuckDB for h3.py, geojson.py, metadata.py.   *)
(*                                                                         *)
(* The handlers are coroutines on one event loop.  tiles.py awaits its     *)
(* upstream, and other handlers run meanwhile; the others call DuckDB      *)
(* without awaiting, and the loop stands still until it answers.  The data *)
(* upstream may be regenerated at any time; nobody tells the cache.        *)
(***************************************************************************)
EXTENDS TTLCache, Sequences, Integers

CONSTANTS
    Requests,       \* requests that may be in progress at once
    Keys,           \* cache keys: an endpoint with all its parameters
    Awaiting,       \* the keys whose upstream is awaited: tiles
    StoresEmpty,    \* the keys whose empty answers are stored: geojson
    Empty,          \* <<key, version>>: that version of the data has nothing for the key
    MaxFetch,       \* how long an answer may take (tiles.py: timeout=5.0)
    MaxVersion,     \* bound on the number of versions
    MaxTime         \* bound on the clock

ASSUME KeysAssumption == Awaiting \subseteq Keys /\ StoresEmpty \subseteq Keys
ASSUME NoneAssumption == None \notin Requests /\ None \notin Nat
ASSUME BoundsAssumption == MaxFetch \in Nat /\ MaxVersion \in Nat \ {0} /\ MaxTime \in Nat

VARIABLES
    now,            \* time.monotonic()
    since,          \* since[k][v]: when version v of k's data came to be
    store,          \* the caches of the worker, one entry per key
    loop,           \* the request that blocks the event loop, or None
    call,           \* call[r]: r's request upstream, or None
    last,           \* the last response of the worker, or None if it was an error
    newest,         \* auxiliary: newest[k]: the newest version served so far
    raced           \* auxiliary: keys fetched by two requests at once

vars == <<now, since, store, loop, call, last, newest, raced>>

Versions == 1 .. MaxVersion
Response == [key : Keys, version : Versions, at : 0 .. MaxTime]

\* A request upstream: for which key, sent when, and what upstream has read.
Call == [key : Keys, asked : 0 .. MaxTime, got : Versions \cup {None}]

TypeOK ==
    /\ now \in 0 .. MaxTime
    /\ since \in [Keys -> Seq(0 .. MaxTime)]
    /\ store \in [Keys -> Entry(Versions) \cup {None}]
    /\ loop \in Requests \cup {None}
    /\ call \in [Requests -> Call \cup {None}]
    /\ last \in Response \cup {None}
    /\ newest \in [Keys -> Versions \cup {0}]
    /\ raced \subseteq Keys

-------------------------------------------------------------------------------
Current(k) == Len(since[k])
InFlight(k) == {r \in Requests : call[r] # None /\ call[r].key = k}

Init ==
    /\ now = 0
    /\ since = [k \in Keys |-> <<0>>]
    /\ store = [k \in Keys |-> None]
    /\ loop = None
    /\ call = [r \in Requests |-> None]
    /\ last = None
    /\ newest = [k \in Keys |-> 0]
    /\ raced = {}

Respond(k, v) ==
    /\ last' = [key |-> k, version |-> v, at |-> now]
    /\ newest' = [newest EXCEPT ![k] = IF v > @ THEN v ELSE @]

\* The event loop runs a handler from its start to its answer, or to its await.
Arrive(r, k) ==
    /\ loop = None
    /\ call[r] = None
    /\ store' = AfterGet(store, k, now)

\* 400 or 422: a parameter is refused before the cache is looked at.
Reject(r) ==
    /\ loop = None
    /\ call[r] = None
    /\ last' = None
    /\ UNCHANGED <<now, since, store, loop, call, newest, raced>>

\* X-Cache: HIT
Hit(r, k) ==
    /\ Arrive(r, k)
    /\ CacheGet(store, k, now) # None
    /\ Respond(k, CacheGet(store, k, now))
    /\ UNCHANGED <<now, since, loop, call, raced>>

\* Goes upstream.  The key counts as raced from the moment a second fetch joins
\* the first, until one is made with no other in flight and no entry in place.
Ask(r, k) ==
    /\ Arrive(r, k)
    /\ CacheGet(store, k, now) = None
    /\ call' = [call EXCEPT ![r] = [key |-> k, asked |-> now, got |-> None]]
    /\ raced' = IF InFlight(k) # {} THEN raced \cup {k} ELSE raced \ {k}
    /\ UNCHANGED <<now, since, last, newest>>

\* DuckDB called in a thread, and awaited.
MissAwaitsAll(r, k) == Ask(r, k) /\ UNCHANGED loop

Miss(r, k) == Ask(r, k) /\ loop' = IF k \in Awaiting THEN None ELSE r

\* Upstream answers from a copy of the data it made earlier.
UpstreamReadsCopy(r) ==
    /\ call[r] # None /\ call[r].got = None
    /\ \E v \in 1 .. Current(call[r].key) : call' = [call EXCEPT ![r].got = v]
    /\ UNCHANGED <<now, since, store, loop, last, newest, raced>>

\* Upstream reads the data at some moment before it answers.
UpstreamReads(r) ==
    /\ call[r] # None /\ call[r].got = None
    /\ call' = [call EXCEPT ![r].got = Current(call[r].key)]
    /\ UNCHANGED <<now, since, store, loop, last, newest, raced>>

\* The handler goes on: it has the loop still, or gets it back.
Resume(r) ==
    /\ call[r] # None
    /\ loop \in {None, r}
    /\ call' = [call EXCEPT ![r] = None]
    /\ loop' = None

\* Whatever came back is stored.
StoredAlways(k, v) == TRUE

Stored(k, v) == k \in StoresEmpty \/ <<k, v>> \notin Empty

\* The answer is stored and sent whatever its status.
AnswerAnyStatus(r) ==
    /\ Resume(r)
    /\ LET k == call[r].key
           v == call[r].got
       IN /\ store' = IF Stored(k, v) THEN AfterSet(store, k, v, now) ELSE store
          /\ IF v = None THEN UNCHANGED <<last, newest>> ELSE Respond(k, v)
    /\ UNCHANGED <<now, since, raced>>

\* X-Cache: MISS; an empty tile is a 204 and an empty H3 answer is flagged, and
\* neither is stored.
Answer(r) ==
    /\ Resume(r)
    /\ call[r].got # None
    /\ LET k == call[r].key
           v == call[r].got
       IN /\ store' = IF Stored(k, v) THEN AfterSet(store, k, v, now) ELSE store
          /\ Respond(k, v)
    /\ UNCHANGED <<now, since, raced>>

\* 502 or 503: upstream is unreachable, too late, or raises.
AnswerError(r) ==
    /\ Resume(r)
    /\ last' = None
    /\ UNCHANGED <<now, since, store, newest, raced>>

-------------------------------------------------------------------------------
\* The pipeline replaces the data behind a key.
Regenerate(k) ==
    /\ Current(k) < MaxVersion
    /\ since' = [since EXCEPT ![k] = Append(@, now)]
    /\ UNCHANGED <<now, store, loop, call, last, newest, raced>>

\* An answer is there, or has been given up, after MaxFetch.
Tick ==
    /\ now < MaxTime
    /\ \A r \in Requests : call[r] # None => now < call[r].asked + MaxFetch
    /\ now' = now + 1
    /\ UNCHANGED <<since, store, loop, call, last, newest, raced>>

Next ==
    \/ \E r \in Requests, k \in Keys : Hit(r, k) \/ Miss(r, k)
    \/ \E r \in Requests : Reject(r) \/ UpstreamReads(r) \/ Answer(r) \/ AnswerError(r)
    \/ \E k \in Keys : Regenerate(k)
    \/ Tick

Spec == Init /\ [][Next]_vars

-------------------------------------------------------------------------------
(***************************************************************************)
(* Safety.                                                                 *)
(***************************************************************************)

\* When version v of k's data ceased to be current, if it has.
StaleSince(k, v) == since[k][v + 1]
StaleAt(k, v, t) == v < Current(k) /\ StaleSince(k, v) <= t

\* Nothing tells the cache that the data has been regenerated; all the same, no
\* response is older than one lifetime of an entry and one fetch: an entry that
\* was stored late, from an answer read early, is the worst case.
StalenessBounded ==
    last # None /\ StaleAt(last.key, last.version, last.at) =>
        last.at - StaleSince(last.key, last.version) <= Ttl + MaxFetch

\* A response is never older than one given before for the same key, unless two
\* requests were fetching that key at once and the late answer overwrote the
\* newer one; and that is over once the overwriting entry has expired.
NeverBackInTime ==
    [][last' \notin {None, last} /\ last'.version < newest[last'.key] => last'.key \in raced]_vars

\* Only an awaited fetch can meet another for the same key: the endpoints that
\* hold the event loop while DuckDB answers never go back in time.
BlockingNeverRaces == raced \subseteq Awaiting

\* No data is news: where empty answers are not stored, a response that says there
\* is none was true no longer than one fetch ago, however long entries live and
\* whoever asked before; data that has arrived since shows at the next request.
EmptyNotSticky ==
    last # None /\ last.key \notin StoresEmpty /\ <<last.key, last.version>> \in Empty
    /\ StaleAt(last.key, last.version, last.at) =>
        last.at - StaleSince(last.key, last.version) <= MaxFetch

-------------------------------------------------------------------------------
(***************************************************************************)
(* The inductive invariant behind these.                                   *)
(***************************************************************************)

\* Versions count up to the current one, and nobody has served a later one.
VersionsKnown ==
    \A k \in Keys : Current(k) \in 1 .. MaxVersion /\ newest[k] <= Current(k)

\* v was current for k at some moment since t.
CurrentSince(k, v, t) == v <= Current(k) /\ (v < Current(k) => t <= StaleSince(k, v))

\* An answer was current after it was asked for, no longer ago than MaxFetch.
CallsFresh ==
    \A r \in Requests : call[r] # None =>
        /\ call[r].asked <= now /\ now <= call[r].asked + MaxFetch
        /\ call[r].got # None => CurrentSince(call[r].key, call[r].got, call[r].asked)

\* An entry was current no longer than a lifetime and a fetch before it expires.
EntriesFresh ==
    \A k \in Keys : store[k] # None =>
        /\ store[k].expires <= now + Ttl
        /\ CurrentSince(k, store[k].value, store[k].expires - Ttl - MaxFetch)

LastFresh ==
    last # None =>
        last.at <= now /\ CurrentSince(last.key, last.version, last.at - Ttl - MaxFetch)

\* An empty answer that is not to be stored is never in the cache ...
EmptyNotStored ==
    \A k \in Keys \ StoresEmpty : store[k] # None => <<k, store[k].value>> \notin Empty

\* ... so that a response which says so comes straight from upstream.
EmptyFresh ==
    last # None /\ last.key \notin StoresEmpty /\ <<last.key, last.version>> \in Empty =>
        CurrentSince(last.key, last.version, last.at - MaxFetch)

\* A request that does not await its upstream has the loop.
LoopHeld ==
    \A r \in Requests : call[r] # None /\ call[r].key \notin Awaiting => loop = r

\* A key that is not raced is fetched by one request at a time, and only while
\* it has no entry; no version older than one served can come back for it.
NotRaced ==
    \A k \in Keys \ raced :
        /\ \A r, q \in InFlight(k) : r = q
        /\ \A r \in InFlight(k) : store[k] = None /\ (call[r].got # None => newest[k] <= call[r].got)
        /\ store[k] # None => newest[k] <= store[k].value

IInv ==
    /\ TypeOK /\ VersionsKnown /\ CallsFresh /\ EntriesFresh /\ LastFresh
    /\ LoopHeld /\ BlockingNeverRaces /\ EmptyNotStored /\ EmptyFresh /\ NotRaced
===============================================================================
