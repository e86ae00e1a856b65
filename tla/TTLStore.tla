------------------------------- MODULE TTLStore -------------------------------
(***************************************************************************)
(* pkg/internal/storage/kv: the four key-value stores behind KVStore, and  *)
(* the wrapper of ttl.go that gives three of them entries with a time to   *)
(* live.  The module says what one call to a store does; the callers are   *)
(* in GenericCache.                                                        *)
(*                                                                         *)
(* The clock counts ticks, Second of them to a second: the wrapper keeps   *)
(* its deadline in whole seconds, Redis to the millisecond.                *)
(***************************************************************************)
EXTENDS Integers

CONSTANTS
    Keys,           \* the keys in use
    Star,           \* the key "*", which is none of them
    Kinds,          \* the kinds of store configured
    TTLs,           \* the times to live asked for, 0 for none
    Second,         \* the ticks of a second
    MaxTime,        \* bound: the clock stops here
    NoEntry         \* what a key without an entry holds

VARIABLES
    kind,           \* the configured store: NewKVStore picks it once
    now,            \* the clock
    data,           \* data[k]: the entry the store has under k
    hot,            \* groupcache: the entry its group cache has under k
    shut            \* Close was called on the store

storeVars == <<kind, now, data, hot, shut>>

ASSUME StoreAssumptions ==
    /\ Kinds \subseteq {"memory", "groupcache", "nats", "redis"}
    /\ Star \notin Keys
    /\ TTLs \subseteq Nat
    /\ Second \in Nat \ {0}
    /\ MaxTime \in Nat /\ MaxTime >= Second

Times == Second .. MaxTime

\* An entry holds a value and when it ends, 0 for never; "at" and "ttl" are
\* history: when it was written, and for how long.
Entry(V) == [value : V, at : Times, ttl : TTLs, until : Nat]

-----------------------------------------------------------------------------
\* encodeWithTTL: the deadline loses the part below a second.
WrapperDeadline(ttl) == IF ttl = 0 THEN 0 ELSE (now + ttl) \div Second

\* RedisKV.Set leaves the time to live to the server.
RedisDeadline(ttl) == IF ttl = 0 THEN 0 ELSE now + ttl

\* Mutant of WrapperExpired: the second of the deadline is still served.
LateWrapperExpired(e) == e.until > 0 /\ now \div Second > e.until

\* decodeWithTTL's test.
WrapperExpired(e) == e.until > 0 /\ now \div Second >= e.until

\* The server's.
RedisExpired(e) == e.until > 0 /\ now >= e.until

Expired(e) == IF kind = "redis" THEN RedisExpired(e) ELSE WrapperExpired(e)

-----------------------------------------------------------------------------
\* The raw entry each store finds under a key.  An expired one is the caller's
\* to deal with, except on Redis, whose server no longer shows it.
MemoryGet(k) == data[k]
NATSGet(k) == IF shut THEN NoEntry ELSE data[k]
\* Peers may be configured, but nothing serves their pool, so a fetch from one fails
\* and the group loads the value itself.
GroupcacheGet(k) == IF hot[k] = NoEntry THEN data[k] ELSE hot[k]
RedisGet(k) ==
    IF shut \/ data[k] = NoEntry \/ Expired(data[k]) THEN NoEntry ELSE data[k]

Found(k) ==
    CASE kind = "memory" -> MemoryGet(k)
      [] kind = "nats" -> NATSGet(k)
      [] kind = "groupcache" -> GroupcacheGet(k)
      [] kind = "redis" -> RedisGet(k)

\* What a read of groupcache finds stays in its group cache.
Remember(k) == hot' = IF kind = "groupcache" THEN [hot EXCEPT ![k] = GroupcacheGet(k)]
                                             ELSE hot

\* Exists looks at the same entry, but groupcache's at the map below the cache.
GroupcacheExists(k) == data[k]
FoundByExists(k) == IF kind = "groupcache" THEN GroupcacheExists(k) ELSE Found(k)

\* Keys for the pattern "*", the only one in use: all but Redis compare the
\* pattern with the key as it stands.
MemoryKeys(pattern) == {k \in Keys : data[k] # NoEntry /\ k = pattern /\ ~Expired(data[k])}
NATSKeys(pattern) == IF shut THEN {} ELSE MemoryKeys(pattern)
GroupcacheKeys(pattern) == MemoryKeys(pattern)
RedisKeys == {k \in Keys : RedisGet(k) # NoEntry}

AllKeys ==
    CASE kind = "memory" -> MemoryKeys(Star)
      [] kind = "nats" -> NATSKeys(Star)
      [] kind = "groupcache" -> GroupcacheKeys(Star)
      [] kind = "redis" -> RedisKeys

\* Set of each store; groupcache's leaves what the group cache has.
Stored(v, ttl) ==
    [value |-> v, at |-> now, ttl |-> ttl,
     until |-> IF kind = "redis" THEN RedisDeadline(ttl) ELSE WrapperDeadline(ttl)]

StorePut(k, v, ttl) ==
    /\ data' = [data EXCEPT ![k] = Stored(v, ttl)]
    /\ UNCHANGED <<kind, now, hot, shut>>

\* Delete of each store; here too the group cache keeps its entry.
StoreDelete(k) ==
    /\ data' = [data EXCEPT ![k] = NoEntry]
    /\ UNCHANGED <<kind, now, hot, shut>>

\* A call over the network may fail, and does once the connection is closed.
MayFail == kind \in {"nats", "redis"}
MustFail == MayFail /\ shut

StoreClose == shut' = TRUE /\ UNCHANGED <<kind, now, data, hot>>

-----------------------------------------------------------------------------
StoreInit ==
    /\ kind \in Kinds
    /\ now = Second
    /\ data = [k \in Keys |-> NoEntry]
    /\ hot = data
    /\ shut = FALSE

\* Bound: MaxTime.
Tick == now < MaxTime /\ now' = now + 1 /\ UNCHANGED <<kind, data, hot, shut>>

\* The group cache drops an entry when it is full.
Evict(k) ==
    /\ hot[k] # NoEntry
    /\ hot' = [hot EXCEPT ![k] = NoEntry]
    /\ UNCHANGED <<kind, now, data, shut>>
=============================================================================
