------------------------------- MODULE TTLCache -------------------------------
(***************************************************************************)
(* TTLCache (geo_service/infra/cache.py): an in-process dictionary whose   *)
(* entries expire.  Every method holds the lock from its first look at the *)
(* dictionary to its last, so each is one atomic operation on the store: a *)
(* function from keys to entries, or None for a key that is not in it.     *)
(***************************************************************************)
EXTENDS Naturals

CONSTANTS
    Ttl,            \* ttl_seconds
    None            \* no entry, and what get returns for one

ASSUME TtlAssumption == Ttl \in Nat

Entry(Values) == [expires : Nat, value : Values]

\* The entry is given one lifetime too many.
ExpiredLate(e, now) == now > e.expires + 1

\* time.monotonic() > expires_at: an entry is still served as it expires.
Expired(e, now) == now > e.expires

Fresh(store, k, now) == store[k] # None /\ ~Expired(store[k], now)

\* What get returns, and what it leaves: an expired entry is deleted.
CacheGet(store, k, now) == IF Fresh(store, k, now) THEN store[k].value ELSE None
AfterGet(store, k, now) == IF Fresh(store, k, now) THEN store ELSE [store EXCEPT ![k] = None]

\* What set leaves.
AfterSet(store, k, v, now) == [store EXCEPT ![k] = [expires |-> now + Ttl, value |-> v]]
===============================================================================
