----------------------------- MODULE ServingProofs -----------------------------
(***************************************************************************)
(* Proofs about Serving, for any requests, keys, lifetimes and fetch times,*)
(* with and without awaited upstreams.                                     *)
(***************************************************************************)
EXTENDS Serving, TLAPS

USE TtlAssumption, BoundsAssumption, NoneAssumption DEF Versions

\* TTLCache.get: what it returns is of an unexpired entry; when it returns
\* nothing there is no entry afterwards.
LEMMA GetFacts ==
    ASSUME TypeOK, NEW k \in Keys
    PROVE  /\ CacheGet(store, k, now) # None =>
                /\ store[k] # None /\ now <= store[k].expires /\ store[k].expires \in Nat
                /\ CacheGet(store, k, now) = store[k].value /\ store[k].value \in Versions
                /\ AfterGet(store, k, now) = store
           /\ CacheGet(store, k, now) = None => AfterGet(store, k, now) = [store EXCEPT ![k] = None]
<1>1. store[k] # None => store[k] \in Entry(Versions)
    BY DEF TypeOK
<1>2. store[k] # None => store[k].expires \in Nat /\ store[k].value \in Versions /\ store[k].value # None
    BY <1>1 DEF Entry
<1>3. now \in Nat
    BY DEF TypeOK
<1>4. CASE Fresh(store, k, now)
    BY <1>2, <1>3, <1>4 DEF CacheGet, AfterGet, Fresh, Expired
<1>5. CASE ~Fresh(store, k, now)
    BY <1>5 DEF CacheGet, AfterGet
<1>6. QED  BY <1>4, <1>5

\* TTLCache.set: the entry, and no other.
LEMMA SetFacts ==
    ASSUME TypeOK, NEW k \in Keys, NEW v \in Versions
    PROVE  /\ AfterSet(store, k, v, now) \in [Keys -> Entry(Versions) \cup {None}]
           /\ AfterSet(store, k, v, now)[k] = [expires |-> now + Ttl, value |-> v]
           /\ \A j \in Keys \ {k} : AfterSet(store, k, v, now)[j] = store[j]
<1>1. [expires |-> now + Ttl, value |-> v] \in Entry(Versions)
    BY DEF TypeOK, Entry
<1>2. QED  BY <1>1 DEF AfterSet, TypeOK

\* The variables by their types, one at a time.
LEMMA Types ==
    ASSUME TypeOK
    PROVE  /\ now \in 0 .. MaxTime /\ now \in Nat
           /\ \A k \in Keys : /\ Current(k) \in Nat
                              /\ \A v \in 1 .. Current(k) : since[k][v] \in 0 .. MaxTime
                              /\ newest[k] \in 0 .. MaxVersion
                              /\ store[k] # None => store[k].expires \in Nat /\ store[k].value \in Versions
           /\ \A r \in Requests : call[r] # None =>
                /\ call[r].key \in Keys /\ call[r].asked \in 0 .. MaxTime
                /\ call[r].got # None => call[r].got \in Versions
           /\ last # None => last.key \in Keys /\ last.version \in Versions /\ last.at \in 0 .. MaxTime
<1>1. now \in 0 .. MaxTime /\ now \in Nat
    BY DEF TypeOK
<1>2. ASSUME NEW k \in Keys
      PROVE  /\ Current(k) \in Nat
             /\ \A v \in 1 .. Current(k) : since[k][v] \in 0 .. MaxTime
             /\ newest[k] \in 0 .. MaxVersion
             /\ store[k] # None => store[k].expires \in Nat /\ store[k].value \in Versions
    BY DEF TypeOK, Current, Entry
<1>3. ASSUME NEW r \in Requests, call[r] # None
      PROVE  /\ call[r].key \in Keys /\ call[r].asked \in 0 .. MaxTime
             /\ call[r].got # None => call[r].got \in Versions
    <2>1. call[r] \in Call
        BY <1>3 DEF TypeOK
    <2>2. QED  BY <2>1 DEF Call
<1>4. last # None => last.key \in Keys /\ last.version \in Versions /\ last.at \in 0 .. MaxTime
    BY DEF TypeOK, Response
<1>5. QED  BY <1>1, <1>2, <1>3, <1>4

\* What a response does to the auxiliaries.
LEMMA RespondType ==
    ASSUME TypeOK, NEW k \in Keys, NEW v \in Versions, Respond(k, v)
    PROVE  /\ last' \in Response /\ last' = [key |-> k, version |-> v, at |-> now]
           /\ newest' \in [Keys -> Versions \cup {0}]
           /\ newest'[k] = IF v > newest[k] THEN v ELSE newest[k]
           /\ \A j \in Keys \ {k} : newest'[j] = newest[j]
    BY DEF Respond, TypeOK, Response

\* Types.
LEMMA TypeStep ==
    ASSUME IInv, Next
    PROVE  TypeOK'
<1>0. TypeOK /\ \A k \in Keys : Current(k) \in Versions
    BY DEF IInv, VersionsKnown
<1>1. ASSUME NEW r \in Requests, NEW k \in Keys, Hit(r, k)
      PROVE  TypeOK'
    BY <1>0, <1>1, GetFacts, RespondType DEF Hit, Arrive, TypeOK
<1>2. ASSUME NEW r \in Requests, NEW k \in Keys, Miss(r, k)
      PROVE  TypeOK'
    <2>1. [key |-> k, asked |-> now, got |-> None] \in Call
        BY <1>0 DEF Call, TypeOK
    <2>2. QED  BY <1>0, <1>2, <2>1, GetFacts DEF Miss, Ask, Arrive, TypeOK
<1>3. ASSUME NEW r \in Requests, Reject(r)
      PROVE  TypeOK'
    BY <1>0, <1>3 DEF Reject, TypeOK
<1>4. ASSUME NEW r \in Requests, UpstreamReads(r)
      PROVE  TypeOK'
    <2>1. call[r] \in Call /\ Current(call[r].key) \in Versions
        BY <1>0, <1>4, Types DEF UpstreamReads, TypeOK
    <2>2. [call[r] EXCEPT !.got = Current(call[r].key)] \in Call
        BY <2>1 DEF Call
    <2>3. call' = [call EXCEPT ![r] = [call[r] EXCEPT !.got = Current(call[r].key)]]
        BY <1>0, <1>4 DEF UpstreamReads, TypeOK
    <2>4. call' \in [Requests -> Call \cup {None}]
        BY <1>0, <2>2, <2>3 DEF TypeOK
    <2>5. QED  BY <1>0, <1>4, <2>4 DEF UpstreamReads, TypeOK
<1>5. ASSUME NEW r \in Requests, Answer(r)
      PROVE  TypeOK'
    <2>1. call[r].key \in Keys /\ call[r].got \in Versions
        BY <1>0, <1>5, Types DEF Answer, Resume
    <2>2. store' \in [Keys -> Entry(Versions) \cup {None}]
        BY <1>0, <1>5, <2>1, SetFacts DEF Answer, TypeOK
    <2>3. last' \in Response /\ newest' \in [Keys -> Versions \cup {0}]
        BY <1>0, <1>5, <2>1, RespondType DEF Answer
    <2>4. call' \in [Requests -> Call \cup {None}] /\ loop' = None
        BY <1>0, <1>5 DEF Answer, Resume, TypeOK
    <2>5. QED  BY <1>0, <1>5, <2>2, <2>3, <2>4 DEF Answer, TypeOK
<1>6. ASSUME NEW r \in Requests, AnswerError(r)
      PROVE  TypeOK'
    BY <1>0, <1>6 DEF AnswerError, Resume, TypeOK
<1>7. ASSUME NEW k \in Keys, Regenerate(k)
      PROVE  TypeOK'
    <2>1. Append(since[k], now) \in Seq(0 .. MaxTime)
        BY <1>0 DEF TypeOK
    <2>2. QED  BY <1>0, <1>7, <2>1 DEF Regenerate, TypeOK
<1>8. CASE Tick
    BY <1>0, <1>8 DEF Tick, TypeOK
<1>9. QED
    BY <1>1, <1>2, <1>3, <1>4, <1>5, <1>6, <1>7, <1>8 DEF Next

\* An answer is stored, if at all, under the key it was asked for.
LEMMA AnswerFacts ==
    ASSUME TypeOK, NEW r \in Requests, Answer(r)
    PROVE  /\ call[r] # None /\ call[r].got # None
           /\ call[r].key \in Keys /\ call[r].got \in Versions /\ call[r].asked \in Nat
           /\ Respond(call[r].key, call[r].got)
           /\ store' = IF Stored(call[r].key, call[r].got)
                      THEN AfterSet(store, call[r].key, call[r].got, now) ELSE store
           /\ \A k \in Keys : store'[k] # store[k] =>
                k = call[r].key /\ store' = AfterSet(store, call[r].key, call[r].got, now)
<1>1. /\ call[r] # None /\ call[r].got # None
      /\ call[r].key \in Keys /\ call[r].got \in Versions /\ call[r].asked \in Nat
    BY Types DEF Answer, Resume
<1>2. /\ Respond(call[r].key, call[r].got)
      /\ store' = IF Stored(call[r].key, call[r].got)
                 THEN AfterSet(store, call[r].key, call[r].got, now) ELSE store
    BY DEF Answer
<1>3. ASSUME NEW k \in Keys, store'[k] # store[k]
      PROVE  k = call[r].key /\ store' = AfterSet(store, call[r].key, call[r].got, now)
    <2>1. store' = AfterSet(store, call[r].key, call[r].got, now)
        BY <1>2, <1>3
    <2>2. k # call[r].key => AfterSet(store, call[r].key, call[r].got, now)[k] = store[k]
        BY <1>1 DEF AfterSet, TypeOK
    <2>3. QED  BY <1>3, <2>1, <2>2
<1>4. QED  BY <1>1, <1>2, <1>3

-------------------------------------------------------------------------------
\* Regenerating the data behind a key adds a version at the end.
LEMMA SinceStep ==
    ASSUME TypeOK, Next, NEW k \in Keys
    PROVE  \/ since'[k] = since[k]
           \/ /\ Regenerate(k) /\ Current(k)' = Current(k) + 1 /\ Current(k) < MaxVersion
              /\ \A v \in 1 .. Current(k) : since'[k][v] = since[k][v]
              /\ since'[k][Current(k) + 1] = now
<1>1. CASE Regenerate(k)
    <2>1. since'[k] = Append(since[k], now) /\ since[k] \in Seq(0 .. MaxTime)
        BY <1>1 DEF Regenerate, TypeOK
    <2>2. /\ Len(since'[k]) = Len(since[k]) + 1
          /\ \A v \in 1 .. Len(since[k]) : since'[k][v] = since[k][v]
          /\ since'[k][Len(since[k]) + 1] = now
        BY <2>1 DEF TypeOK
    <2>3. QED  BY <1>1, <2>2 DEF Regenerate, Current
<1>2. ASSUME NEW j \in Keys \ {k}, Regenerate(j)
      PROVE  since'[k] = since[k]
    BY <1>2 DEF Regenerate, TypeOK
<1>3. CASE \A j \in Keys : ~Regenerate(j)
    BY <1>3 DEF Next, Hit, Miss, Ask, Reject, UpstreamReads, Answer, AnswerError, Tick
<1>4. QED  BY <1>1, <1>2, <1>3

\* What was current at some moment since t stays so, however the data changes.
LEMMA CurrentSinceStep ==
    ASSUME IInv, Next, NEW k \in Keys, NEW v \in Versions, NEW t \in Int, t <= now, CurrentSince(k, v, t)
    PROVE  CurrentSince(k, v, t)'
<1>1. TypeOK /\ Current(k) \in Nat /\ now \in Nat
    BY Types DEF IInv
<1>2. CASE since'[k] = since[k]
    BY <1>2 DEF CurrentSince, StaleSince, Current
<1>3. CASE /\ Current(k)' = Current(k) + 1
           /\ \A u \in 1 .. Current(k) : since'[k][u] = since[k][u]
           /\ since'[k][Current(k) + 1] = now
    <2>1. v < Current(k) => StaleSince(k, v)' = StaleSince(k, v)
        BY <1>1, <1>3 DEF StaleSince
    <2>2. v = Current(k) => StaleSince(k, v)' = now
        BY <1>3 DEF StaleSince
    <2>3. QED  BY <1>1, <1>3, <2>1, <2>2 DEF CurrentSince
<1>4. QED  BY <1>1, <1>2, <1>3, SinceStep

\* Versions count up, and are served after they came to be.
LEMMA VersionsKnownStep ==
    ASSUME IInv, Next
    PROVE  VersionsKnown'
<1>0. TypeOK
    BY DEF IInv
<1>1. ASSUME NEW k \in Keys
      PROVE  Current(k)' \in 1 .. MaxVersion /\ Current(k) <= Current(k)'
    <2>1. CASE since'[k] = since[k]
        BY <1>0, <2>1, Types DEF IInv, VersionsKnown, Current
    <2>2. QED  BY <1>0, <2>1, SinceStep, Types DEF IInv, VersionsKnown
<1>2. ASSUME NEW k \in Keys, NEW v \in Versions, Respond(k, v), v <= Current(k)
      PROVE  \A j \in Keys : newest'[j] <= Current(j)
    BY <1>0, <1>2, RespondType, Types DEF IInv, VersionsKnown
<1>3. ASSUME NEW r \in Requests, NEW k \in Keys, Hit(r, k)
      PROVE  \A j \in Keys : newest'[j] <= Current(j)
    <2>1. Respond(k, store[k].value) /\ store[k] # None /\ store[k].value \in Versions
        BY <1>0, <1>3, GetFacts DEF Hit
    <2>2. store[k].value <= Current(k)
        BY <2>1 DEF IInv, EntriesFresh, CurrentSince
    <2>3. QED  BY <1>2, <2>1, <2>2
<1>4. ASSUME NEW r \in Requests, Answer(r)
      PROVE  \A j \in Keys : newest'[j] <= Current(j)
    <2>1. /\ call[r] # None /\ call[r].got # None /\ Respond(call[r].key, call[r].got)
          /\ call[r].key \in Keys /\ call[r].got \in Versions
        BY <1>0, <1>4, Types DEF Answer, Resume
    <2>2. call[r].got <= Current(call[r].key)
        BY <2>1 DEF IInv, CallsFresh, CurrentSince
    <2>3. QED  BY <1>2, <2>1, <2>2
<1>5. \A j \in Keys : newest'[j] <= Current(j)
    <2>1. CASE newest' = newest
        BY <2>1 DEF IInv, VersionsKnown
    <2>2. QED
        BY <1>3, <1>4, <2>1 DEF Next, Miss, Ask, Reject, UpstreamReads, AnswerError, Regenerate, Tick
<1>6. ASSUME NEW k \in Keys
      PROVE  newest'[k] <= Current(k)'
    <2>1. newest'[k] \in Nat /\ Current(k)' \in Nat /\ Current(k) \in Nat
        BY <1>0, TypeStep, Types DEF TypeOK, Current
    <2>2. QED  BY <1>1, <1>5, <2>1
<1>7. QED  BY <1>1, <1>6 DEF VersionsKnown

\* An answer in progress: asked for, read, or kept waiting no longer than allowed.
LEMMA CallsFreshStep ==
    ASSUME IInv, Next
    PROVE  CallsFresh'
<1>0. TypeOK /\ now \in Nat
    BY Types DEF IInv
<1> SUFFICES ASSUME NEW r \in Requests, call'[r] # None
             PROVE  /\ call'[r].asked <= now' /\ now' <= call'[r].asked + MaxFetch
                    /\ call'[r].got # None => CurrentSince(call[r].key, call[r].got, call[r].asked)'
    BY DEF CallsFresh
<1>1. CASE call'[r] = call[r]
    <2>1. PICK k, v, t : k = call[r].key /\ v = call[r].got /\ t = call[r].asked
        OBVIOUS
    <2>2. /\ k \in Keys /\ t \in Nat /\ t <= now /\ now <= t + MaxFetch
          /\ v # None => v \in Versions /\ CurrentSince(k, v, t)
        BY <1>0, <1>1, <2>1, Types DEF IInv, CallsFresh
    <2>3. \/ now' = now
          \/ now' = now + 1 /\ now < t + MaxFetch
        BY <1>0, <1>1, <2>1 DEF Next, Hit, Miss, Ask, Reject, UpstreamReads, Answer, AnswerError, Regenerate, Tick
    <2>4. v # None => CurrentSince(k, v, t)'
        BY <2>2, CurrentSinceStep
    <2>5. call'[r].key = k /\ call'[r].got = v /\ call'[r].asked = t
        BY <1>1, <2>1
    <2>6. v # None => CurrentSince(call[r].key, call[r].got, call[r].asked)'
        BY <2>4, <2>5 DEF CurrentSince, StaleSince, Current
    <2>7. QED  BY <1>0, <2>2, <2>3, <2>5, <2>6
<1>2. CASE \E k \in Keys : Miss(r, k)
    <2>1. call'[r].asked = now /\ call'[r].got = None /\ now' = now
        BY <1>0, <1>2 DEF Miss, Ask, TypeOK
    <2>2. QED  BY <1>0, <2>1
<1>3. CASE UpstreamReads(r)
    <2>1. call[r] \in Call /\ call[r] # None
        BY <1>0, <1>3 DEF UpstreamReads, TypeOK
    <2>2. call' = [call EXCEPT ![r] = [call[r] EXCEPT !.got = Current(call[r].key)]]
        BY <1>0, <1>3 DEF UpstreamReads, TypeOK
    <2>3. /\ call'[r].key = call[r].key /\ call'[r].asked = call[r].asked
          /\ call'[r].got = Current(call[r].key)
        BY <1>0, <2>1, <2>2 DEF Call, TypeOK
    <2>4. Current(call[r].key) \in Nat /\ since' = since /\ now' = now
        BY <1>0, <1>3, <2>1, Types DEF UpstreamReads
    <2>5. CurrentSince(call[r].key, call[r].got, call[r].asked)'
        BY <2>3, <2>4 DEF CurrentSince, Current
    <2>6. QED  BY <2>1, <2>3, <2>4, <2>5 DEF IInv, CallsFresh
<1>4. QED
    BY <1>0, <1>1, <1>2, <1>3 DEF TypeOK, Next, Hit, Miss, Ask, Reject, UpstreamReads, Answer, AnswerError,
        Resume, Regenerate, Tick

\* An entry is of an answer that was fresh.
LEMMA EntriesFreshStep ==
    ASSUME IInv, Next
    PROVE  EntriesFresh'
<1>0. TypeOK /\ now \in Nat
    BY Types DEF IInv
<1> SUFFICES ASSUME NEW k \in Keys, store'[k] # None
             PROVE  /\ store'[k].expires <= now' + Ttl
                    /\ CurrentSince(k, store[k].value, store[k].expires - Ttl - MaxFetch)'
    BY DEF EntriesFresh
<1>1. now' \in Nat /\ now <= now'
    BY <1>0 DEF Next, Hit, Miss, Ask, Reject, UpstreamReads, Answer, AnswerError, Regenerate, Tick
<1>2. ASSUME NEW v \in Versions, NEW e \in Nat, e <= now + Ttl, CurrentSince(k, v, e - Ttl - MaxFetch),
             store'[k].value = v, store'[k].expires = e
      PROVE  /\ store'[k].expires <= now' + Ttl
             /\ CurrentSince(k, store[k].value, store[k].expires - Ttl - MaxFetch)'
    <2>1. e - Ttl - MaxFetch \in Int /\ e - Ttl - MaxFetch <= now
        BY <1>0, <1>2
    <2>2. CurrentSince(k, v, e - Ttl - MaxFetch)'
        BY <1>2, <2>1, CurrentSinceStep
    <2>3. QED  BY <1>0, <1>1, <1>2, <2>2 DEF CurrentSince, StaleSince, Current
<1>3. CASE store'[k] = store[k]
    BY <1>0, <1>2, <1>3, Types DEF IInv, EntriesFresh
<1>5. ASSUME NEW r \in Requests, Answer(r), store'[k] # store[k]
      PROVE  /\ store'[k].expires <= now' + Ttl
             /\ CurrentSince(k, store[k].value, store[k].expires - Ttl - MaxFetch)'
    <2>1. PICK v, t : v = call[r].got /\ t = call[r].asked
        OBVIOUS
    <2>2. /\ k = call[r].key /\ v \in Versions /\ t \in Nat /\ store' = AfterSet(store, k, v, now)
          /\ CurrentSince(k, v, t) /\ now <= t + MaxFetch
        BY <1>0, <1>5, <2>1, AnswerFacts DEF IInv, CallsFresh
    <2>3. store'[k] = [expires |-> now + Ttl, value |-> v]
        BY <1>0, <2>2, SetFacts
    <2>4. Current(k) \in Nat /\ \A u \in 1 .. Current(k) : since[k][u] \in Nat
        BY <1>0, Types
    <2>5. CurrentSince(k, v, now + Ttl - Ttl - MaxFetch)
        BY <1>0, <2>2, <2>4 DEF CurrentSince, StaleSince
    <2>6. now + Ttl \in Nat /\ store'[k].expires = now + Ttl /\ store'[k].value = v
        BY <1>0, <2>3
    <2>7. QED  BY <1>0, <1>2, <2>2, <2>5, <2>6
<1>6. ASSUME store'[k] # store[k]
      PROVE  \E r \in Requests : Answer(r)
    <2>1. \A j \in Keys : AfterGet(store, j, now)[k] \in {store[k], None}
        BY <1>0, GetFacts DEF TypeOK
    <2>2. QED
        BY <1>6, <2>1 DEF Next, Hit, Miss, Ask, Arrive, Reject, UpstreamReads, AnswerError, Regenerate, Tick
<1>7. QED  BY <1>3, <1>5, <1>6

\* So is a response, from the cache or from upstream.
LEMMA LastFreshStep ==
    ASSUME IInv, Next
    PROVE  LastFresh'
<1>0. TypeOK /\ now \in Nat
    BY Types DEF IInv
<1> SUFFICES ASSUME last' # None
             PROVE  /\ last'.at <= now'
                    /\ CurrentSince(last.key, last.version, last.at - Ttl - MaxFetch)'
    BY DEF LastFresh
<1>1. now' \in Nat /\ now <= now'
    BY <1>0 DEF Next, Hit, Miss, Ask, Reject, UpstreamReads, Answer, AnswerError, Regenerate, Tick
<1>2. ASSUME NEW k \in Keys, NEW v \in Versions, NEW t \in Nat, t <= now, CurrentSince(k, v, t - Ttl - MaxFetch),
             last'.key = k, last'.version = v, last'.at = t
      PROVE  /\ last'.at <= now'
             /\ CurrentSince(last.key, last.version, last.at - Ttl - MaxFetch)'
    <2>1. t - Ttl - MaxFetch \in Int /\ t - Ttl - MaxFetch <= now
        BY <1>0, <1>2
    <2>2. CurrentSince(k, v, t - Ttl - MaxFetch)'
        BY <1>2, <2>1, CurrentSinceStep
    <2>3. QED  BY <1>0, <1>1, <1>2, <2>2 DEF CurrentSince, StaleSince, Current
<1>3. ASSUME NEW k \in Keys, NEW v \in Versions, NEW t \in Int, CurrentSince(k, v, t),
             now - Ttl - MaxFetch <= t, Respond(k, v)
      PROVE  /\ last'.at <= now'
             /\ CurrentSince(last.key, last.version, last.at - Ttl - MaxFetch)'
    <2>1. Current(k) \in Nat /\ \A u \in 1 .. Current(k) : since[k][u] \in Nat
        BY <1>0, Types
    <2>2. CurrentSince(k, v, now - Ttl - MaxFetch)
        BY <1>0, <1>3, <2>1 DEF CurrentSince, StaleSince
    <2>3. last'.key = k /\ last'.version = v /\ last'.at = now
        BY <1>3 DEF Respond
    <2>4. QED  BY <1>0, <1>2, <2>2, <2>3
<1>4. CASE last' = last
    BY <1>0, <1>2, <1>4, Types DEF IInv, LastFresh
<1>5. ASSUME NEW r \in Requests, NEW k \in Keys, Hit(r, k)
      PROVE  /\ last'.at <= now'
             /\ CurrentSince(last.key, last.version, last.at - Ttl - MaxFetch)'
    <2>1. /\ Respond(k, store[k].value) /\ store[k] # None /\ store[k].value \in Versions
          /\ now <= store[k].expires /\ store[k].expires \in Nat
        BY <1>0, <1>5, GetFacts DEF Hit
    <2>2. CurrentSince(k, store[k].value, store[k].expires - Ttl - MaxFetch)
        BY <2>1 DEF IInv, EntriesFresh
    <2>3. QED  BY <1>0, <1>3, <2>1, <2>2
<1>6. ASSUME NEW r \in Requests, Answer(r)
      PROVE  /\ last'.at <= now'
             /\ CurrentSince(last.key, last.version, last.at - Ttl - MaxFetch)'
    <2>1. /\ call[r] # None /\ call[r].got # None /\ Respond(call[r].key, call[r].got)
          /\ call[r].key \in Keys /\ call[r].got \in Versions /\ call[r].asked \in Nat
        BY <1>0, <1>6, Types DEF Answer, Resume
    <2>2. CurrentSince(call[r].key, call[r].got, call[r].asked) /\ now <= call[r].asked + MaxFetch
        BY <2>1 DEF IInv, CallsFresh
    <2>3. QED  BY <1>0, <1>3, <2>1, <2>2
<1>7. QED
    BY <1>4, <1>5, <1>6 DEF Next, Miss, Ask, Reject, UpstreamReads, AnswerError, Regenerate, Tick

-------------------------------------------------------------------------------
\* While a request holds the loop nobody else goes upstream or comes back.
LEMMA LoopHeldStep ==
    ASSUME IInv, Next
    PROVE  LoopHeld'
<1>0. TypeOK /\ LoopHeld
    BY DEF IInv
<1> SUFFICES ASSUME NEW r \in Requests, call'[r] # None, call'[r].key \notin Awaiting
             PROVE  loop' = r
    BY DEF LoopHeld
<1>1. ASSUME NEW q \in Requests, NEW k \in Keys, Miss(q, k)
      PROVE  loop' = r
    <2>1. loop = None /\ call' = [call EXCEPT ![q] = [key |-> k, asked |-> now, got |-> None]]
        BY <1>1 DEF Miss, Ask, Arrive
    <2>2. r = q
        BY <1>0, <2>1 DEF LoopHeld, TypeOK
    <2>3. k \notin Awaiting
        BY <1>0, <2>1, <2>2 DEF TypeOK
    <2>4. QED  BY <1>1, <2>2, <2>3 DEF Miss
<1>2. ASSUME NEW q \in Requests, Resume(q)
      PROVE  loop' = r
    BY <1>0, <1>2 DEF Resume, LoopHeld, TypeOK
<1>3. ASSUME NEW q \in Requests, UpstreamReads(q)
      PROVE  loop' = r
    <2>1. call[q] \in Call /\ call[q] # None /\ loop' = loop
        BY <1>0, <1>3 DEF UpstreamReads, TypeOK
    <2>2. call' = [call EXCEPT ![q] = [call[q] EXCEPT !.got = Current(call[q].key)]]
        BY <1>0, <1>3 DEF UpstreamReads, TypeOK
    <2>3. call[r] # None /\ call'[r].key = call[r].key
        BY <1>0, <2>1, <2>2 DEF TypeOK, Call
    <2>4. QED  BY <1>0, <2>1, <2>3 DEF LoopHeld
<1>4. CASE UNCHANGED <<call, loop>>
    BY <1>0, <1>4 DEF LoopHeld
<1>5. QED
    BY <1>1, <1>2, <1>3, <1>4 DEF Next, Hit, Reject, Answer, AnswerError, Regenerate, Tick

\* So only an awaited fetch finds another in flight.
LEMMA BlockingNeverRacesStep ==
    ASSUME IInv, Next
    PROVE  BlockingNeverRaces'
<1>1. ASSUME NEW q \in Requests, NEW k \in Keys, Miss(q, k), k \notin Awaiting
      PROVE  InFlight(k) = {}
    <2>1. loop = None
        BY <1>1 DEF Miss, Ask, Arrive
    <2>2. QED  BY <1>1, <2>1 DEF IInv, LoopHeld, InFlight
<1>2. ASSUME NEW q \in Requests, NEW k \in Keys, Miss(q, k)
      PROVE  raced' \subseteq Awaiting
    BY <1>1, <1>2 DEF Miss, Ask, IInv, BlockingNeverRaces
<1>3. CASE UNCHANGED raced
    BY <1>3 DEF IInv, BlockingNeverRaces
<1>4. QED
    BY <1>2, <1>3 DEF BlockingNeverRaces, Next, Hit, Reject, UpstreamReads, Answer, AnswerError, Regenerate, Tick

\* An entry changes by an answer, or is deleted by a get.
LEMMA StoreStep ==
    ASSUME TypeOK, Next, NEW k \in Keys
    PROVE  \/ store'[k] \in {store[k], None}
           \/ \E r \in Requests : Answer(r) /\ store'[k] # store[k]
<1>1. \A j \in Keys : AfterGet(store, j, now)[k] \in {store[k], None}
    BY GetFacts DEF TypeOK
<1>2. QED
    BY <1>1 DEF Next, Hit, Miss, Ask, Arrive, Reject, UpstreamReads, AnswerError, Regenerate, Tick

\* What is not to be stored is not.
LEMMA EmptyNotStoredStep ==
    ASSUME IInv, Next
    PROVE  EmptyNotStored'
<1> SUFFICES ASSUME NEW k \in Keys \ StoresEmpty, store'[k] # None
             PROVE  <<k, store'[k].value>> \notin Empty
    BY DEF EmptyNotStored
<1>1. CASE store'[k] = store[k]
    BY <1>1 DEF IInv, EmptyNotStored
<1>2. ASSUME NEW r \in Requests, Answer(r), store'[k] # store[k]
      PROVE  <<k, store'[k].value>> \notin Empty
    <2>1. PICK v : v = call[r].got
        OBVIOUS
    <2>2. TypeOK /\ k = call[r].key /\ v \in Versions /\ Stored(k, v) /\ store' = AfterSet(store, k, v, now)
        BY <1>2, <2>1, AnswerFacts DEF IInv
    <2>3. store'[k] = [expires |-> now + Ttl, value |-> v]
        BY <2>2, SetFacts
    <2>4. QED  BY <2>2, <2>3 DEF Stored
<1>3. QED
    BY <1>1, <1>2, StoreStep DEF IInv

\* So a response that says there is nothing was not a hit, but an answer that was
\* current after it was asked for, unless it is an earlier response still.
LEMMA EmptyFreshStep ==
    ASSUME IInv, Next
    PROVE  EmptyFresh'
<1>0. TypeOK
    BY DEF IInv
<1> SUFFICES ASSUME last' # None, last'.key \notin StoresEmpty, <<last'.key, last'.version>> \in Empty
             PROVE  CurrentSince(last.key, last.version, last.at - MaxFetch)'
    BY DEF EmptyFresh
<1>1. CASE last' = last
    <2>1. PICK k, v, t : k = last.key /\ v = last.version /\ t = last.at - MaxFetch
        OBVIOUS
    <2>2. k \in Keys /\ v \in Versions /\ t \in Int /\ t <= now /\ CurrentSince(k, v, t)
        BY <1>0, <1>1, <2>1, Types DEF IInv, EmptyFresh, LastFresh
    <2>3. CurrentSince(k, v, t)'
        BY <2>2, CurrentSinceStep
    <2>4. QED  BY <1>1, <2>1, <2>3 DEF CurrentSince, StaleSince, Current
<1>2. ASSUME NEW r \in Requests, NEW k \in Keys, Hit(r, k)
      PROVE  FALSE
    <2>1. Respond(k, store[k].value) /\ store[k] # None
        BY <1>0, <1>2, GetFacts DEF Hit
    <2>2. last'.key = k /\ last'.version = store[k].value
        BY <2>1 DEF Respond
    <2>3. QED  BY <1>2, <2>1, <2>2 DEF IInv, EmptyNotStored
<1>3. ASSUME NEW r \in Requests, Answer(r)
      PROVE  CurrentSince(last.key, last.version, last.at - MaxFetch)'
    <2>1. PICK k, v, t : k = call[r].key /\ v = call[r].got /\ t = call[r].asked
        OBVIOUS
    <2>2. /\ k \in Keys /\ v \in Versions /\ t \in Nat /\ Respond(k, v) /\ since' = since
          /\ CurrentSince(k, v, t) /\ now <= t + MaxFetch
        BY <1>0, <1>3, <2>1, AnswerFacts DEF IInv, CallsFresh, Answer
    <2>3. /\ last'.key = k /\ last'.version = v /\ last'.at = now
          /\ now - MaxFetch <= t /\ now - MaxFetch \in Int
        BY <1>0, <2>2, Types DEF Respond
    <2>4. v < Current(k) => StaleSince(k, v) \in Nat
        <3>1. v < Current(k) => v + 1 \in 1 .. Current(k)
            BY <1>0, <2>2, Types
        <3>2. QED  BY <1>0, <2>2, <3>1, Types DEF StaleSince
    <2>5. CurrentSince(k, v, now - MaxFetch)
        BY <2>2, <2>3, <2>4 DEF CurrentSince
    <2>6. QED  BY <2>2, <2>3, <2>5 DEF CurrentSince, StaleSince, Current
<1>4. QED
    BY <1>1, <1>2, <1>3 DEF Next, Miss, Ask, Reject, UpstreamReads, AnswerError, Regenerate, Tick

\* A key that is not raced stays in order.
LEMMA NotRacedStep ==
    ASSUME IInv, Next
    PROVE  NotRaced'
<1>0. TypeOK
    BY DEF IInv
<1> SUFFICES ASSUME NEW k \in Keys, k \notin raced'
             PROVE  /\ \A r, q \in InFlight(k)' : r = q
                    /\ \A r \in InFlight(k)' : store'[k] = None /\ (call'[r].got # None => newest'[k] <= call'[r].got)
                    /\ store'[k] # None => newest'[k] <= store'[k].value
    BY DEF NotRaced
<1> DEFINE Goal == /\ \A r, q \in InFlight(k)' : r = q
                   /\ \A r \in InFlight(k)' : store'[k] = None /\ (call'[r].got # None => newest'[k] <= call'[r].got)
                   /\ store'[k] # None => newest'[k] <= store'[k].value
<1>1. ASSUME k \notin raced
      PROVE  /\ \A r, q \in InFlight(k) : r = q
             /\ \A r \in InFlight(k) : store[k] = None /\ (call[r].got # None => newest[k] <= call[r].got)
             /\ store[k] # None => newest[k] <= store[k].value
    BY <1>1 DEF IInv, NotRaced
<1>2. ASSUME k \notin raced, newest'[k] = newest[k], store'[k] = store[k],
             \A r \in InFlight(k)' : r \in InFlight(k) /\ call'[r] = call[r]
      PROVE  Goal
    BY <1>1, <1>2
<1>3. ASSUME NEW q \in Requests, NEW j \in Keys, Hit(q, j)
      PROVE  Goal
    <2>1. /\ Respond(j, store[j].value) /\ store[j] # None /\ store[j].value \in Versions
          /\ UNCHANGED <<store, call, raced>>
        BY <1>0, <1>3, GetFacts DEF Hit, Arrive
    <2>2. InFlight(k)' = InFlight(k)
        BY <2>1 DEF InFlight
    <2>3. CASE j # k
        BY <1>0, <1>2, <2>1, <2>2, <2>3, RespondType
    <2>4. CASE j = k
        <3>1. newest[k] <= store[k].value /\ newest[k] \in Nat /\ InFlight(k) = {}
            BY <1>0, <1>1, <2>1, <2>4, Types
        <3>2. newest'[k] = IF store[k].value > newest[k] THEN store[k].value ELSE newest[k]
            BY <1>0, <2>1, <2>4 DEF Respond, TypeOK
        <3>3. newest'[k] = store[k].value
            BY <2>1, <2>4, <3>1, <3>2
        <3>4. QED  BY <2>1, <2>2, <2>4, <3>1, <3>3
    <2>5. QED  BY <2>3, <2>4
<1>4. ASSUME NEW q \in Requests, NEW j \in Keys, Miss(q, j)
      PROVE  Goal
    <2>1. /\ call[q] = None /\ call' = [call EXCEPT ![q] = [key |-> j, asked |-> now, got |-> None]]
          /\ store' = [store EXCEPT ![j] = None] /\ newest' = newest
          /\ raced' = IF InFlight(j) # {} THEN raced \cup {j} ELSE raced \ {j}
        BY <1>0, <1>4, GetFacts DEF Miss, Ask, Arrive
    <2>2. CASE j # k
        <3>1. \A r \in InFlight(k)' : r \in InFlight(k) /\ call'[r] = call[r]
            BY <1>0, <2>1, <2>2 DEF InFlight, TypeOK
        <3>2. k \notin raced /\ store'[k] = store[k]
            BY <1>0, <2>1, <2>2 DEF TypeOK
        <3>3. QED  BY <1>2, <2>1, <3>1, <3>2
    <2>3. CASE j = k
        <3>1. InFlight(k) = {} /\ store'[k] = None
            BY <1>0, <2>1, <2>3 DEF TypeOK
        <3>2. \A r \in InFlight(k)' : r = q
            BY <1>0, <2>1, <3>1 DEF InFlight, TypeOK
        <3>3. call'[q].got = None
            BY <1>0, <2>1 DEF TypeOK
        <3>4. QED  BY <3>1, <3>2, <3>3
    <2>4. QED  BY <2>2, <2>3
<1>5. ASSUME NEW q \in Requests, UpstreamReads(q)
      PROVE  Goal
    <2>1. call[q] \in Call /\ call[q] # None /\ UNCHANGED <<store, newest, raced>>
        BY <1>0, <1>5 DEF UpstreamReads, TypeOK
    <2>2. call' = [call EXCEPT ![q] = [call[q] EXCEPT !.got = Current(call[q].key)]]
        BY <1>0, <1>5 DEF UpstreamReads, TypeOK
    <2>3. /\ call'[q].key = call[q].key /\ call'[q].got = Current(call[q].key)
          /\ \A r \in Requests \ {q} : call'[r] = call[r]
        BY <1>0, <2>1, <2>2 DEF Call, TypeOK
    <2>4. \A r \in InFlight(k)' : r \in InFlight(k)
        BY <2>1, <2>3 DEF InFlight
    <2>5. q \in InFlight(k)' => newest[k] <= call'[q].got
        BY <2>3, <2>4 DEF IInv, VersionsKnown, InFlight
    <2>6. QED  BY <1>1, <2>1, <2>3, <2>4, <2>5 DEF InFlight
<1>6. ASSUME NEW q \in Requests, Answer(q)
      PROVE  Goal
    <2>1. PICK j, v : j = call[q].key /\ v = call[q].got
        OBVIOUS
    <2>2. /\ call[q] # None /\ v # None /\ j \in Keys /\ v \in Versions /\ Respond(j, v)
          /\ store' = IF Stored(j, v) THEN AfterSet(store, j, v, now) ELSE store
          /\ raced' = raced /\ q \in InFlight(j)
        BY <1>0, <1>6, <2>1, AnswerFacts DEF Answer, InFlight
    <2>3. \A r \in InFlight(k)' : r \in InFlight(k) /\ r # q /\ call'[r] = call[r]
        BY <1>0, <1>6 DEF Answer, Resume, InFlight, TypeOK
    <2>4. CASE j # k
        <3>1. newest'[k] = newest[k] /\ store'[k] = store[k]
            BY <1>0, <2>2, <2>4 DEF Respond, AfterSet, TypeOK
        <3>2. QED  BY <1>2, <2>2, <2>3, <3>1
    <2>5. CASE j = k
        <3>1. InFlight(k)' = {} /\ store[k] = None /\ newest[k] <= v /\ newest[k] \in Nat
            BY <1>0, <1>1, <2>1, <2>2, <2>3, <2>5, Types
        <3>2. newest'[k] = v
            BY <1>0, <2>2, <2>5, <3>1, RespondType
        <3>3. store'[k] # None => store'[k].value = v
            BY <1>0, <2>2, <2>5, <3>1 DEF AfterSet, TypeOK
        <3>4. QED  BY <2>2, <3>1, <3>2, <3>3
    <2>6. QED  BY <2>4, <2>5
<1>7. ASSUME NEW q \in Requests, AnswerError(q)
      PROVE  Goal
    <2>1. \A r \in InFlight(k)' : r \in InFlight(k) /\ call'[r] = call[r]
        BY <1>0, <1>7 DEF AnswerError, Resume, InFlight, TypeOK
    <2>2. QED  BY <1>2, <1>7, <2>1 DEF AnswerError
<1>8. CASE UNCHANGED <<store, call, newest, raced>>
    BY <1>2, <1>8 DEF InFlight
<1>9. QED
    BY <1>3, <1>4, <1>5, <1>6, <1>7, <1>8 DEF Next, Reject, Regenerate, Tick

-------------------------------------------------------------------------------
\* A cold cache and no request satisfy the invariant.
LEMMA InitIInv == Init => IInv
<1> SUFFICES ASSUME Init PROVE IInv
    OBVIOUS
<1>1. \A k \in Keys : since[k] = <<0>> /\ Current(k) = 1
    BY DEF Init, Current
<1>2. TypeOK
    BY DEF Init, TypeOK
<1>3. VersionsKnown
    BY <1>1 DEF Init, VersionsKnown
<1>4. CallsFresh /\ EntriesFresh /\ LastFresh /\ LoopHeld /\ BlockingNeverRaces /\ EmptyNotStored /\ EmptyFresh
    BY DEF Init, CallsFresh, EntriesFresh, LastFresh, LoopHeld, BlockingNeverRaces, EmptyNotStored, EmptyFresh
<1>5. NotRaced
    BY DEF Init, NotRaced, InFlight
<1>6. QED  BY <1>2, <1>3, <1>4, <1>5 DEF IInv

\* Every step keeps it.
LEMMA NextIInv == IInv /\ [Next]_vars => IInv'
<1>1. ASSUME IInv, Next
      PROVE  IInv'
    BY <1>1, TypeStep, VersionsKnownStep, CallsFreshStep, EntriesFreshStep, LastFreshStep, LoopHeldStep,
        BlockingNeverRacesStep, EmptyNotStoredStep, EmptyFreshStep, NotRacedStep DEF IInv
<1>2. ASSUME IInv, UNCHANGED vars
      PROVE  IInv'
    BY <1>2 DEF vars, IInv, TypeOK, VersionsKnown, CallsFresh, EntriesFresh, LastFresh, LoopHeld,
        BlockingNeverRaces, EmptyNotStored, EmptyFresh, NotRaced, CurrentSince, StaleSince, Current, InFlight
<1>3. QED  BY <1>1, <1>2

\* The invariant holds in every behaviour, for any requests, keys and lifetimes.
THEOREM IInvariant == Spec => []IInv
<1>1. QED  BY InitIInv, NextIInv, PTL DEF Spec

\* Every variable keeps its type.
THEOREM TypeCorrect == Spec => []TypeOK
<1>1. IInv => TypeOK
    BY DEF IInv
<1>2. QED  BY <1>1, IInvariant, PTL

\* No response is older than one lifetime of an entry and one fetch, for every
\* lifetime, fetch time and number of requests.
THEOREM StalenessIsBounded == Spec => []StalenessBounded
<1>1. ASSUME IInv, last # None, StaleAt(last.key, last.version, last.at)
      PROVE  last.at - StaleSince(last.key, last.version) <= Ttl + MaxFetch
    <2>1. /\ last.key \in Keys /\ last.version \in Versions /\ last.at \in Nat
          /\ Current(last.key) \in Nat /\ \A v \in 1 .. Current(last.key) : since[last.key][v] \in Nat
        BY <1>1, Types DEF IInv
    <2>2. last.version + 1 \in 1 .. Current(last.key)
        BY <1>1, <2>1 DEF StaleAt
    <2>3. StaleSince(last.key, last.version) \in Nat
        BY <2>1, <2>2 DEF StaleSince
    <2>4. last.at - Ttl - MaxFetch <= StaleSince(last.key, last.version)
        BY <1>1 DEF IInv, LastFresh, CurrentSince, StaleAt
    <2>5. QED  BY <2>1, <2>3, <2>4
<1>2. IInv => StalenessBounded
    BY <1>1 DEF StalenessBounded
<1>3. QED  BY <1>2, IInvariant, PTL

\* The endpoints that hold the loop while they wait never fetch a key twice at once.
THEOREM BlockingDoesNotRace == Spec => []BlockingNeverRaces
<1>1. IInv => BlockingNeverRaces
    BY DEF IInv
<1>2. QED  BY <1>1, IInvariant, PTL

\* Where empty answers are not stored, a response that says there is no data was
\* true no longer than one fetch ago, whatever the lifetime of an entry.
THEOREM EmptyIsNotSticky == Spec => []EmptyNotSticky
<1>1. ASSUME IInv, last # None, last.key \notin StoresEmpty, <<last.key, last.version>> \in Empty,
             StaleAt(last.key, last.version, last.at)
      PROVE  last.at - StaleSince(last.key, last.version) <= MaxFetch
    <2>1. /\ last.key \in Keys /\ last.version \in Versions /\ last.at \in Nat
          /\ Current(last.key) \in Nat /\ \A v \in 1 .. Current(last.key) : since[last.key][v] \in Nat
        BY <1>1, Types DEF IInv
    <2>2. last.version + 1 \in 1 .. Current(last.key)
        BY <1>1, <2>1 DEF StaleAt
    <2>3. StaleSince(last.key, last.version) \in Nat
        BY <2>1, <2>2 DEF StaleSince
    <2>4. last.at - MaxFetch <= StaleSince(last.key, last.version)
        BY <1>1 DEF IInv, EmptyFresh, CurrentSince, StaleAt
    <2>5. QED  BY <2>1, <2>3, <2>4
<1>2. IInv => EmptyNotSticky
    BY <1>1 DEF EmptyNotSticky
<1>3. QED  BY <1>2, IInvariant, PTL

\* A step that answers with an older version than one served before answers for
\* a key two requests have been fetching at once.
THEOREM OnlyRacesGoBack == Spec => NeverBackInTime
<1> DEFINE Forward == last' \notin {None, last} /\ last'.version < newest[last'.key] => last'.key \in raced
<1>1. ASSUME IInv, NEW r \in Requests, NEW k \in Keys, Hit(r, k), k \notin raced
      PROVE  Forward
    <2>1. Respond(k, store[k].value) /\ store[k] # None /\ store[k].value \in Versions
        BY <1>1, GetFacts DEF Hit, IInv
    <2>2. newest[k] <= store[k].value /\ newest[k] \in Nat
        BY <1>1, <2>1, Types DEF IInv, NotRaced
    <2>3. last'.key = k /\ last'.version = store[k].value
        BY <2>1 DEF Respond
    <2>4. QED  BY <2>1, <2>2, <2>3
<1>2. ASSUME IInv, NEW r \in Requests, Answer(r), call[r].key \notin raced
      PROVE  Forward
    <2>1. /\ Respond(call[r].key, call[r].got) /\ r \in InFlight(call[r].key) /\ call[r].got # None
          /\ call[r].key \in Keys /\ call[r].got \in Versions
        BY <1>2, AnswerFacts DEF IInv, InFlight
    <2>2. newest[call[r].key] <= call[r].got /\ newest[call[r].key] \in Nat
        BY <1>2, <2>1, Types DEF IInv, NotRaced
    <2>3. last'.key = call[r].key /\ last'.version = call[r].got
        BY <2>1 DEF Respond
    <2>4. QED  BY <2>1, <2>2, <2>3
<1>3. ASSUME IInv, NEW r \in Requests, NEW k \in Keys, Hit(r, k)
      PROVE  last'.key = k
    BY <1>3 DEF Hit, Respond
<1>4. ASSUME IInv, NEW r \in Requests, Answer(r)
      PROVE  last'.key = call[r].key
    <2>1. Respond(call[r].key, call[r].got)
        BY <1>4, AnswerFacts DEF IInv
    <2>2. QED  BY <2>1 DEF Respond
<1>5. ASSUME IInv, [Next]_vars
      PROVE  Forward
    BY <1>1, <1>2, <1>3, <1>4, <1>5 DEF Next, Miss, Ask, Reject, UpstreamReads, AnswerError, Regenerate, Tick, vars
<1>6. QED
    BY <1>5, IInvariant, PTL DEF Spec, NeverBackInTime
===============================================================================
