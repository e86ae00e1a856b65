----------------------------- MODULE GenericCache -----------------------------
(***************************************************************************)
(* pkg/cache/cache.go: the cache over a store.  An operation is a sequence *)
(* of calls to the store, and any other operation may run between two of   *)
(* them: a reader that found an expired entry removes the key by a second  *)
(* call, whatever it holds by then.  With the local time to live an entry  *)
(* carries a second deadline, set and tested by the cache itself.          *)
(*                                                                         *)
(* A goroutine cleans up in the background until Close stops it.           *)
(***************************************************************************)
EXTENDS TTLStore

CONSTANTS
    Slots,          \* the goroutines that use the cache at a time
    GetterValues,   \* the values the getters of GetOrSet return
    UseLocalTTL,    \* WithLocalTTL
    MaxWork         \* bound: the operations started, each with a weight

VARIABLES
    op,             \* op[p]: the operation of slot p and how far it got
    work,           \* auxiliary: the weight of the operations started
    cleaner         \* the cleanup goroutine

cacheVars == <<op, work, cleaner>>

ASSUME CacheAssumptions == UseLocalTTL \in BOOLEAN /\ MaxWork \in Nat

\* "call" is what the caller is about; saw is the entry it loaded, at readAt.
Idle == [pc |-> "idle", call |-> "none"]
Op(call, pc, k) ==
    [pc |-> pc, call |-> call, key |-> k, saw |-> NoEntry, readAt |-> now]

\* Mutant of LocallyExpired: no deadline counts as one that is over.
ZeroLocallyExpired(e) == UseLocalTTL /\ now > e.value.e

LocallyExpired(e) == UseLocalTTL /\ e.value.e > 0 /\ now > e.value.e

-----------------------------------------------------------------------------
\* Bound: MaxWork.  A request of the middleware weighs more than another call.
CallWeight == 2
RequestWeight == 3
Spends(weight) == work + weight <= MaxWork /\ work' = work + weight

\* Exists, and the Get that GetOrSet and the response cache begin with.
StartRead(p, call, k) ==
    /\ op[p] = Idle
    /\ Spends(CallWeight)
    /\ op' = [op EXCEPT ![p] = Op(call, "load", k)]
    /\ UNCHANGED <<storeVars, cleaner>>

Lookup(p) == IF op[p].call = "exists" THEN FoundByExists(op[p].key) ELSE Found(op[p].key)

\* The store reads the entry and decides whether it is expired.  The stores that
\* expire lazily will then delete the key, all but groupcache's Exists.
Load(p) ==
    LET e == Lookup(p)
        gone == e # NoEntry /\ Expired(e)
        drops == ~(op[p].call = "exists" /\ kind = "groupcache")
    IN  /\ op[p].pc = "load"
        /\ op' = [op EXCEPT ![p].saw = e,
                            ![p].readAt = now,
                            ![p].pc = CASE e = NoEntry -> "miss"
                                        [] gone /\ drops -> "drop"
                                        [] gone /\ ~drops -> "miss"
                                        [] OTHER -> IF op[p].call = "exists"
                                                    THEN "hit" ELSE "check"]
        /\ IF op[p].call = "exists" THEN UNCHANGED hot ELSE Remember(op[p].key)
        /\ UNCHANGED <<kind, now, data, shut, work, cleaner>>

\* A call that failed counts as a miss.
LoadFails(p) ==
    /\ op[p].pc = "load"
    /\ MayFail
    /\ op' = [op EXCEPT ![p].pc = "miss"]
    /\ UNCHANGED <<storeVars, work, cleaner>>

\* Get's own test of the local deadline.
Check(p) ==
    /\ op[p].pc = "check"
    /\ op' = [op EXCEPT ![p].pc = IF LocallyExpired(op[p].saw) THEN "drop" ELSE "hit"]
    /\ UNCHANGED <<storeVars, work, cleaner>>

\* The deletion that follows either test; a failure of it is ignored.
Drop(p) ==
    /\ op[p].pc = "drop"
    /\ op' = [op EXCEPT ![p].pc = "miss"]
    /\ StoreDelete(op[p].key) \/ (MayFail /\ UNCHANGED storeVars)
    /\ UNCHANGED <<work, cleaner>>

\* Exists returns what it found, GetOrSet a hit.
Return(p) ==
    /\ \/ op[p].call = "exists" /\ op[p].pc \in {"hit", "miss"}
       \/ op[p].call = "getOrSet" /\ op[p].pc = "hit"
    /\ op' = [op EXCEPT ![p] = Idle]
    /\ UNCHANGED <<storeVars, work, cleaner>>

\* Set: the cache wraps the value first, the store does so a moment later.
\* Its item has the value and the local deadline, 0 for none.
Setting(k, v, ttl) ==
    [pc |-> "wrap", call |-> "set", key |-> k,
     item |-> [payload |-> v, e |-> 0], ttl |-> ttl]

\* GetOrSet after a miss calls the getter, whose error it returns.
CallGetter(p) ==
    /\ op[p].call = "getOrSet"
    /\ op[p].pc = "miss"
    /\ op' = [op EXCEPT ![p] = Idle] \/ \E v \in GetterValues, ttl \in TTLs :
           op' = [op EXCEPT ![p] = Setting(op[p].key, v, ttl)]
    /\ UNCHANGED <<storeVars, work, cleaner>>

Wrap(p) ==
    /\ op[p].pc = "wrap"
    /\ op' = [op EXCEPT ![p].pc = "put",
                        ![p].item.e = IF UseLocalTTL /\ op[p].ttl > 0
                                      THEN now + op[p].ttl ELSE 0]
    /\ UNCHANGED <<storeVars, work, cleaner>>

Put(p) ==
    /\ op[p].pc = "put"
    /\ op' = [op EXCEPT ![p] = Idle]
    /\ \/ ~MustFail /\ StorePut(op[p].key, op[p].item, op[p].ttl)
       \/ MayFail /\ UNCHANGED storeVars
    /\ UNCHANGED <<work, cleaner>>

-----------------------------------------------------------------------------
\* Delete, and Clear, which lists the keys first.
Removing(call, ks) == [pc |-> "remove", call |-> call, todo |-> ks]

StartRemove(p, call, ks) ==
    /\ op[p] = Idle
    /\ Spends(CallWeight)
    /\ op' = [op EXCEPT ![p] = Removing(call, ks)]
    /\ UNCHANGED <<storeVars, cleaner>>

StartDelete(p, k) == StartRemove(p, "delete", {k})
StartClear(p) == StartRemove(p, "clear", AllKeys)

\* Mutant of RemoveOne: the keys are listed again, until none is left.
RemoveAndList(p) ==
    /\ op[p].pc = "remove"
    /\ \E k \in op[p].todo :
          /\ ~MustFail /\ StoreDelete(k)
          /\ op' = [op EXCEPT ![p].todo = AllKeys']
    /\ UNCHANGED <<work, cleaner>>

RemoveOne(p) ==
    /\ op[p].pc = "remove"
    /\ \E k \in op[p].todo :
          /\ ~MustFail /\ StoreDelete(k)
          /\ op' = [op EXCEPT ![p].todo = @ \ {k}]
    /\ UNCHANGED <<work, cleaner>>

\* The first failure ends it.
RemoveEnds(p) ==
    /\ op[p].pc = "remove"
    /\ op[p].todo = {} \/ MayFail
    /\ op' = [op EXCEPT ![p] = Idle]
    /\ UNCHANGED <<storeVars, work, cleaner>>

-----------------------------------------------------------------------------
\* The cleanup goroutine.  Before each wait it reads the channel to wait on from
\* the field that Close sets to nil: "armed" is that it found one there.
Waiting == [pc |-> "wait", armed |-> ~shut]

\* A tick lists the keys, if the cache has deadlines to test at all.
CleanupTick ==
    /\ cleaner.pc = "wait"
    /\ cleaner' = IF UseLocalTTL /\ AllKeys # {}
                  THEN [pc |-> "get", todo |-> AllKeys] ELSE Waiting
    /\ UNCHANGED <<storeVars, op, work>>

\* It reads the next key; one it cannot read, or that is not over, it leaves.
CleanupGet ==
    /\ cleaner.pc = "get"
    /\ \E k \in cleaner.todo :
          LET rest == cleaner.todo \ {k}
              e == Found(k)
          IN  cleaner' = IF e # NoEntry /\ LocallyExpired(e)
                         THEN [pc |-> "drop", key |-> k, saw |-> e, todo |-> rest]
                         ELSE IF rest = {} THEN Waiting
                         ELSE [pc |-> "get", todo |-> rest]
    /\ UNCHANGED <<storeVars, op, work>>

CleanupDrop ==
    /\ cleaner.pc = "drop"
    /\ cleaner' = IF cleaner.todo = {} THEN Waiting
                                       ELSE [pc |-> "get", todo |-> cleaner.todo]
    /\ StoreDelete(cleaner.key) \/ (MayFail /\ UNCHANGED storeVars)
    /\ UNCHANGED <<op, work>>

CleanupStops ==
    /\ cleaner.pc = "wait" /\ cleaner.armed /\ shut
    /\ cleaner' = [pc |-> "ended"]
    /\ UNCHANGED <<storeVars, op, work>>

\* Close closes the channel, forgets it, and closes the store.
Close ==
    /\ ~shut
    /\ StoreClose
    /\ UNCHANGED <<op, work, cleaner>>

-----------------------------------------------------------------------------
CacheInit ==
    /\ StoreInit
    /\ op = [p \in Slots |-> Idle]
    /\ work = 0
    /\ cleaner = Waiting

CacheStep(p) ==
    \/ Load(p) \/ LoadFails(p) \/ Check(p) \/ Drop(p) \/ Return(p)
    \/ CallGetter(p) \/ Wrap(p) \/ Put(p) \/ RemoveOne(p) \/ RemoveEnds(p)

CleanupStep == CleanupTick \/ CleanupGet \/ CleanupDrop \/ CleanupStops
=============================================================================
