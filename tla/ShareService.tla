----------------------------- MODULE ShareService -----------------------------
(***************************************************************************)
(* service/shares.go: handler goroutines over one shares table and one     *)
(* key-value cache.  A step is one call to the database or to the cache,   *)
(* or one reading of the clock, with the code up to the next; between two  *)
(* steps of a request any other request may run.                           *)
(*                                                                         *)
(* The cache is groupcache, the default, or another store.  Groupcache     *)
(* answers a Get from a copy its group keeps, which Set and Delete do not  *)
(* touch; its calls do not fail.  Another store (memory, redis, nats) may  *)
(* be a server, so any call to it may fail, and the service drops the      *)
(* error; a failed call that took effect after all is the call that        *)
(* succeeded.  A database error ends the request, and may hide a write     *)
(* that was made.                                                          *)
(***************************************************************************)
EXTENDS ShareRecords

CONSTANTS
    Requests,       \* request slots: the handler goroutines alive at a time
    KVTypes,        \* the values of kv.type considered
    MaxClock        \* bound on the clock

ASSUME ServiceAssumptions ==
    /\ KVTypes \subseteq {"groupcache", "other"}
    /\ MaxClock \in Nat \ {0}

VARIABLES
    clock,          \* time.Now()
    db,             \* the shares table
    kvType,         \* what the process is configured with
    kv,             \* the cache entries under "shares:v1:"
    hot,            \* the copies of them the group keeps
    pc,             \* pc[r]: the next step of request r
    call,           \* call[r]: its arguments
    since,          \* since[r]: when it arrived
    rec,            \* rec[r]: its local share record
    ttl,            \* ttl[r]: the TTL it will cache the record with
    disturbed       \* auxiliary: the shares CacheCoherent gives no promise of

vars == <<clock, db, kvType, kv, hot, pc, call, since, rec, ttl, disturbed>>
cache == <<kv, hot>>
setting == <<clock, kvType>>
store == <<setting, db, cache>>
request == <<call, since>>
local == <<rec, ttl>>

\* The last steps a request takes before it is answered: its write to the
\* table is made.
Written == {"cacheNew", "refresh", "invalidate"}
Active == {"insert", "find", "delete", "kvGet", "checkHit", "drop", "dbGet",
           "checkRow", "fill", "use", "update"} \cup Written
Answered == {"ok", "error"}

InFlight(r) == pc[r] \in Active
share(r) == call[r].share
row(r) == db[share(r)]

Goto(r, label) == pc' = [pc EXCEPT ![r] = label]

\* The request goes on at label with its local variables as they are.
Continue(r, label) == Goto(r, label) /\ UNCHANGED local

\* Its local variables go out of scope.
Leave(r, outcome) ==
    /\ Goto(r, outcome)
    /\ rec' = [rec EXCEPT ![r] = NoRecord]
    /\ ttl' = [ttl EXCEPT ![r] = 0]

-----------------------------------------------------------------------------
Init ==
    /\ clock = 1
    /\ db = [s \in ShareIDs |-> NoRow]
    /\ kvType \in KVTypes
    /\ kv = [s \in ShareIDs |-> NoEntry]
    /\ hot = [s \in ShareIDs |-> NoEntry]
    /\ pc = [r \in Requests |-> "idle"]
    /\ call = [r \in Requests |-> NoCall]
    /\ since = [r \in Requests |-> 0]
    /\ rec = [r \in Requests |-> NoRecord]
    /\ ttl = [r \in Requests |-> 0]
    /\ disturbed = {}

\* Request c of slot r overlaps another one on its share, and one of them
\* writes.
Overlaps(r, c) ==
    \E q \in Requests \ {r} :
        /\ InFlight(q)
        /\ share(q) = c.share
        /\ c.op \in WriteOps \/ call[q].op \in WriteOps

\* A handler calls the service with request c.
Arrive(r, c) ==
    /\ pc[r] = "idle"
    /\ c.op \in Ops
    /\ call' = [call EXCEPT ![r] = c]
    /\ since' = [since EXCEPT ![r] = clock]
    /\ disturbed' = IF Overlaps(r, c) THEN disturbed \cup {c.share}
                                      ELSE disturbed

-----------------------------------------------------------------------------
\* CreateShare: the guard on object_keys, the identifier, the record, the TTL.
\* newShareID draws from an entropy source the goroutines share without a lock,
\* so a request may draw the identifier of another that is still in flight;
\* one that is in the table was drawn long before and does not come back.
StartCreate(r) ==
    \E c \in CreateCall :
        /\ db[c.share] = NoRow
        /\ Arrive(r, c)
        /\ IF c.form.objects = 0
             THEN Leave(r, "error")
             ELSE /\ Goto(r, "insert")
                  /\ rec' = [rec EXCEPT ![r] = NewRecord(c, clock)]
                  /\ ttl' = [ttl EXCEPT ![r] = c.form.days * DayLength]
        /\ UNCHANGED store

\* Mutant of InsertRow: an upsert (gorm's Save) in place of Create.
UpsertRow(r) ==
    /\ pc[r] = "insert"
    /\ db' = [db EXCEPT ![share(r)] = [info |-> rec[r].info,
                                       perms |-> rec[r].perms,
                                       deletedAt |-> 0]]
    /\ Continue(r, "cacheNew")
    /\ UNCHANGED <<setting, cache, request, disturbed>>

\* DB Create; the primary key refuses a second row with the same identifier.
InsertRow(r) ==
    /\ pc[r] = "insert"
    /\ \/ /\ row(r) = NoRow
          /\ db' = [db EXCEPT ![share(r)] = [info |-> rec[r].info,
                                             perms |-> rec[r].perms,
                                             deletedAt |-> 0]]
          /\ Continue(r, "cacheNew") \/ Leave(r, "error")
       \/ Leave(r, "error") /\ UNCHANGED db
    /\ UNCHANGED <<setting, cache, request, disturbed>>

\* Set and Delete change the store, and not what the group keeps of it.
kvSet(r) == kv' = [kv EXCEPT ![share(r)] = Encode(rec[r], ttl[r], clock)]
kvDel(r) == kv' = [kv EXCEPT ![share(r)] = NoEntry]

\* The error is dropped.
CallFails == kvType # "groupcache" /\ UNCHANGED kv

\* cacheShare.
CacheNew(r) ==
    /\ pc[r] = "cacheNew"
    /\ kvSet(r) \/ CallFails
    /\ Leave(r, "ok")
    /\ UNCHANGED <<setting, db, hot, request, disturbed>>

-----------------------------------------------------------------------------
\* DeleteShare.
StartDelete(r) ==
    /\ \E c \in DeleteCall : Arrive(r, c)
    /\ Continue(r, "find")
    /\ UNCHANGED store

\* Mutant of FindRow: the owner is not checked.
FindAnyRow(r) ==
    /\ pc[r] = "find"
    /\ Live(row(r))
    /\ Continue(r, "delete")
    /\ UNCHANGED <<store, request, disturbed>>

FindRow(r) ==
    /\ pc[r] = "find"
    /\ \/ /\ Live(row(r))
          /\ row(r).info.owner = call[r].user
          /\ Continue(r, "delete")
       \/ Leave(r, "error")
    /\ UNCHANGED <<store, request, disturbed>>

\* A soft delete by primary key: no row and no error when another request has
\* deleted the share since FindRow.
SoftDelete(r) ==
    IF Live(row(r)) THEN db' = [db EXCEPT ![share(r)].deletedAt = clock]
                    ELSE UNCHANGED db

DeleteRow(r) ==
    /\ pc[r] = "delete"
    /\ \/ /\ SoftDelete(r)
          /\ Continue(r, "invalidate")
          /\ UNCHANGED disturbed
       \/ /\ SoftDelete(r) \/ UNCHANGED db
          /\ Leave(r, "error")
          /\ disturbed' = disturbed \cup {share(r)}
    /\ UNCHANGED <<setting, cache, request>>

\* A write to the cache that fails leaves the old entry behind.
Lost(r) ==
    /\ CallFails
    /\ disturbed' = disturbed \cup {share(r)}

\* Mutant of Invalidate: the entry is left in the cache.
InvalidateNothing(r) ==
    /\ pc[r] = "invalidate"
    /\ Leave(r, "ok")
    /\ UNCHANGED <<store, request, disturbed>>

Invalidate(r) ==
    /\ pc[r] = "invalidate"
    /\ \/ kvDel(r) /\ UNCHANGED disturbed
       \/ Lost(r)
    /\ Leave(r, "ok")
    /\ UNCHANGED <<setting, db, hot, request>>

-----------------------------------------------------------------------------
\* getShareCached, the way every other operation begins; a download is refused
\* before it when there is no object store.
StartCached(r) ==
    /\ \E c \in CachedCall :
        /\ Arrive(r, c)
        /\ \/ Continue(r, "kvGet")
           \/ c.op = "download" /\ Leave(r, "error")
    /\ UNCHANGED store

\* What a look-up of s finds, and what it leaves behind: the group has a copy
\* from then on.
Shown(s) == IF hot[s] # NoEntry THEN hot[s] ELSE kv[s]
KeepCopy(s) ==
    IF kvType = "groupcache" THEN hot' = [hot EXCEPT ![s] = Shown(s)]
                             ELSE UNCHANGED hot

\* The store hides and drops an entry whose deadline has passed; a copy stays.
KvGet(r) ==
    /\ pc[r] = "kvGet"
    /\ \/ /\ Hit(Shown(share(r)), clock)
          /\ rec' = [rec EXCEPT ![r] = Shown(share(r)).rec]
          /\ Goto(r, "checkHit")
          /\ KeepCopy(share(r))
          /\ UNCHANGED <<kv, ttl>>
       \/ /\ ~Hit(Shown(share(r)), clock)
          /\ kv' = [kv EXCEPT ![share(r)] = NoEntry]
          /\ KeepCopy(share(r))
          /\ Continue(r, "dbGet")
       \/ /\ CallFails
          /\ Continue(r, "dbGet")
          /\ UNCHANGED hot
    /\ UNCHANGED <<setting, db, request, disturbed>>

\* Mutant of CheckHit: a cached record is used without a look at its expiry.
TrustHit(r) ==
    /\ pc[r] = "checkHit"
    /\ Continue(r, "use")
    /\ UNCHANGED <<store, request, disturbed>>

CheckHit(r) ==
    /\ pc[r] = "checkHit"
    /\ IF isExpired(clock, rec[r].info.expireAt) THEN Leave(r, "drop")
                                                 ELSE Continue(r, "use")
    /\ UNCHANGED <<store, request, disturbed>>

Drop(r) ==
    /\ pc[r] = "drop"
    /\ kvDel(r) \/ CallFails
    /\ Continue(r, "dbGet")
    /\ UNCHANGED <<setting, db, hot, request, disturbed>>

DbGet(r) ==
    /\ pc[r] = "dbGet"
    /\ \/ /\ Live(row(r))
          /\ rec' = [rec EXCEPT ![r] = ToRecord(row(r))]
          /\ UNCHANGED ttl
          /\ Goto(r, "checkRow")
       \/ Leave(r, "error")
    /\ UNCHANGED <<store, request, disturbed>>

CheckRow(r) ==
    /\ pc[r] = "checkRow"
    /\ IF isExpired(clock, rec[r].info.expireAt)
         THEN Leave(r, "error")
         ELSE /\ Goto(r, "fill")
              /\ ttl' = [ttl EXCEPT ![r] =
                           ttlFromExpire(rec[r].info.expireAt, clock)]
              /\ UNCHANGED rec
    /\ UNCHANGED <<store, request, disturbed>>

Fill(r) ==
    /\ pc[r] = "fill"
    /\ kvSet(r) \/ CallFails
    /\ Continue(r, "use")
    /\ UNCHANGED <<setting, db, hot, request, disturbed>>

-----------------------------------------------------------------------------
\* What follows getShareCached.  A download may still fail in the object store.
Use(r) ==
    /\ pc[r] = "use"
    /\ LET c == call[r]
       IN  \/ /\ Granted(c, rec[r].info)
              /\ c.op \notin ChangeOps
              /\ Leave(r, "ok")
           \/ /\ Granted(c, rec[r].info)
              /\ c.op \in ChangeOps
              /\ rec' = [rec EXCEPT ![r].perms = NewPermissions(c, @)]
              /\ UNCHANGED ttl
              /\ Goto(r, "update")
           \/ /\ ~Granted(c, rec[r].info) \/ c.op = "download"
              /\ Leave(r, "error")
    /\ UNCHANGED <<store, request, disturbed>>

\* updatePermissionsInDB: the row's permissions are replaced by the local ones;
\* no row and no error when the share is deleted.
SetPermissions(r) ==
    IF Live(row(r)) THEN db' = [db EXCEPT ![share(r)].perms = rec[r].perms]
                    ELSE UNCHANGED db

UpdateRow(r) ==
    /\ pc[r] = "update"
    /\ \/ /\ SetPermissions(r)
          /\ ttl' = [ttl EXCEPT ![r] = ttlFromExpire(rec[r].info.expireAt, clock)]
          /\ Goto(r, "refresh")
          /\ UNCHANGED <<rec, disturbed>>
       \/ /\ SetPermissions(r) \/ UNCHANGED db
          /\ Leave(r, "error")
          /\ disturbed' = disturbed \cup {share(r)}
    /\ UNCHANGED <<setting, cache, request>>

Refresh(r) ==
    /\ pc[r] = "refresh"
    /\ \/ kvSet(r) /\ UNCHANGED disturbed
       \/ Lost(r)
    /\ Leave(r, "ok")
    /\ UNCHANGED <<setting, db, hot, request>>

-----------------------------------------------------------------------------
\* The handler has written its response.
Finish(r) ==
    /\ pc[r] \in Answered
    /\ Goto(r, "idle")
    /\ call' = [call EXCEPT ![r] = NoCall]
    /\ since' = [since EXCEPT ![r] = 0]
    /\ UNCHANGED <<store, local, disturbed>>

\* The process dies with all its goroutines and starts again.  A cache in the
\* process's memory is gone, one in a server is still there.
Restart ==
    /\ kv' = [s \in ShareIDs |-> NoEntry] \/ CallFails
    /\ hot' = [s \in ShareIDs |-> NoEntry]
    /\ pc' = [r \in Requests |-> "idle"]
    /\ call' = [r \in Requests |-> NoCall]
    /\ since' = [r \in Requests |-> 0]
    /\ rec' = [r \in Requests |-> NoRecord]
    /\ ttl' = [r \in Requests |-> 0]
    /\ disturbed' = disturbed \cup
           {share(r) : r \in {q \in Requests : InFlight(q)
                                               /\ call[q].op \in WriteOps}}
    /\ UNCHANGED <<setting, db>>

\* A copy is evicted when the group is full; an entry goes when its store needs
\* the room, or by the Delete with which an earlier look-up drops what had expired.
Evict(s) ==
    /\ \/ kv' = [kv EXCEPT ![s] = NoEntry] /\ UNCHANGED hot
       \/ hot' = [hot EXCEPT ![s] = NoEntry] /\ UNCHANGED kv
    /\ UNCHANGED <<setting, db, pc, request, local, disturbed>>

Tick ==
    /\ clock < MaxClock
    /\ clock' = clock + 1
    /\ UNCHANGED <<kvType, db, cache, pc, request, local, disturbed>>

Next ==
    \/ \E r \in Requests :
        \/ StartCreate(r) \/ InsertRow(r) \/ CacheNew(r)
        \/ StartDelete(r) \/ FindRow(r) \/ DeleteRow(r) \/ Invalidate(r)
        \/ StartCached(r) \/ KvGet(r) \/ CheckHit(r) \/ Drop(r) \/ DbGet(r)
        \/ CheckRow(r) \/ Fill(r) \/ Use(r) \/ UpdateRow(r) \/ Refresh(r)
        \/ Finish(r)
    \/ \E s \in ShareIDs : Evict(s)
    \/ Restart
    \/ Tick

Spec == Init /\ [][Next]_vars

-----------------------------------------------------------------------------
\* Every variable has its type; a request that has got a record has one.
Loaded == {"insert", "cacheNew", "checkHit", "checkRow", "fill", "use", "update",
           "refresh"}

TypeOK ==
    /\ clock \in Nat \ {0}
    /\ db \in [ShareIDs -> Row \cup {NoRow}]
    /\ kvType \in KVTypes
    /\ kv \in [ShareIDs -> Entry \cup {NoEntry}]
    /\ hot \in [ShareIDs -> Entry \cup {NoEntry}]
    /\ pc \in [Requests -> {"idle"} \cup Active \cup Answered]
    /\ call \in [Requests -> Call \cup {NoCall}]
    /\ since \in [Requests -> Nat]
    /\ rec \in [Requests -> Record \cup {NoRecord}]
    /\ ttl \in [Requests -> Nat]
    /\ disturbed \subseteq ShareIDs
    /\ \A r \in Requests : /\ pc[r] # "idle" => call[r] \in Call
                           /\ pc[r] \in Loaded => rec[r] \in Record

\* Whatever races and failures there were, an entry of the cache, a copy the group
\* keeps and a record a request has read belong to the share asked for: owner, objects, password,
\* download flag and expiry are those of its row, deleted or not.  Two creates
\* that draw one identifier must not leave one's record over the other's row.
Faithful(s, record) == Stored(db[s]) /\ record.info = db[s].info

CacheFaithful ==
    /\ \A s \in ShareIDs : /\ kv[s] # NoEntry => Faithful(s, kv[s].rec)
                           /\ hot[s] # NoEntry => Faithful(s, hot[s].rec)
    /\ \A r \in Requests : pc[r] \in Loaded \ {"insert"}
                             => Faithful(share(r), rec[r])

\* A share that had expired when a request arrived is not served to it, from
\* the cache or the table, although a cache entry may outlive the share: its
\* TTL starts when it is stored, not when it was computed, and a TTL that is
\* computed after the expiry is 0, which stores the entry for good.
ExpiredNeverServed ==
    \A r \in Requests :
        pc[r] = "ok" /\ call[r].op \notin {"create", "delete"}
            => ~isExpired(since[r], row(r).info.expireAt)

\* ttlFromExpire is capped "so that permission updates do not stay without
\* effect for long": what a look-up may be shown of a share, an entry or the
\* group's copy of one, is gone within MaxTTL if its whitelist is not just the
\* owner, or the share has expired.  (The entry CreateShare stores, with its owner
\* alone on the whitelist, has no such bound, and no copy of it has.)
ShortLived(deadline, info) ==
    \/ deadline # 0 /\ deadline <= clock + MaxTTL
    \/ info.expireAt # 0 /\ info.expireAt <= clock

Lasting(entry) ==
    /\ entry # NoEntry
    /\ entry.rec.perms.users # {entry.rec.info.owner}
    /\ ~ShortLived(entry.deadline, entry.rec.info)

ChangedEntriesExpire ==
    \A s \in ShareIDs : ~Lasting(kv[s]) /\ ~Lasting(hot[s])

\* A store that keeps no copies shows what the table holds: a cached share is live
\* and has the permissions of its row.  It may fail only while a request is
\* writing the share, and after a disturbance: requests that overlapped while one
\* was writing, or a write whose reply or whose cache update was lost.
BeingWritten(s) ==
    \E r \in Requests : InFlight(r) /\ share(r) = s /\ call[r].op \in WriteOps

CacheCoherent ==
    kvType # "groupcache" =>
        \A s \in ShareIDs \ disturbed :
            Shown(s) # NoEntry /\ ~BeingWritten(s)
                => Live(db[s]) /\ Shown(s).rec = ToRecord(db[s])

\* The service keeps the promises of ShareRegistry: owners alone change the
\* table, in one step, and an "ok" is given only to a request the stored share
\* grants, although most requests read the cache.
Stage(r) ==
    CASE pc[r] \in {"idle"} \cup Answered -> pc[r]
      [] pc[r] \in Written                -> "committed"
      [] OTHER                            -> "pending"

Registry == INSTANCE ShareRegistry
              WITH rows <- db, stage <- [r \in Requests |-> Stage(r)]

RegistrySpec == Registry!RegistrySpec

-----------------------------------------------------------------------------
\* What the comments of the code say and the code does not do.

\* shares.go:307: AddShareUser adds newUser to the users who may access the
\* share.  Where no request removes or replaces users, the target of an add
\* that succeeded is on the whitelist of the live share.
AddedUserListed ==
    Ops \cap {"update", "remove"} = {} =>
        \A r \in Requests :
            pc[r] = "ok" /\ call[r].op = "add" /\ Live(row(r))
                => call[r].target \in row(r).perms.users

\* model/share.go:13: the database is the source of truth; shares.go:170: and
\* DeleteShare deletes the cache entry.  When it has answered "ok", with nothing
\* lost and no other request on the share while one was writing, a look-up is not
\* shown the share.
DeletedNotCached ==
    \A r \in Requests :
        pc[r] = "ok" /\ call[r].op = "delete" /\ share(r) \notin disturbed
            => ~Hit(Shown(share(r)), clock)
=============================================================================
