----------------------------- MODULE ExpiringMap -----------------------------
(***************************************************************************)
(* What the cache promises over each of its stores, with no wrappers of    *)
(* values, kinds of stores, goroutines of requests or failures in sight:   *)
(* one map whose entries live for a time.  A reader gets, in one step, the *)
(* entry its key has, alive at that moment, or nothing.  A writer stores   *)
(* its value once at most.  An entry leaves the map only by one who was    *)
(* told to remove its key, or found an entry there that was due to go,     *)
(* and by each of them once at most.                                       *)
(*                                                                         *)
(* The promise is weak where the code is.  A store may keep copies of what *)
(* was read and answer from those.  Its clock is coarse, so an entry is    *)
(* due from a tick of the second before its end.  And what was found due   *)
(* may be something else by the time it is removed.                        *)
(***************************************************************************)
EXTENDS Integers

CONSTANTS
    Keys,
    Values,
    TTLs,           \* the times to live, 0 for none
    Second,         \* how coarse the clock may be
    NoEntry,        \* what a key without an entry holds
    Clients         \* those who use the map at a time

VARIABLES
    now,            \* the clock
    copying,        \* whether what is read may be copied
    map,            \* map[k]: the entry under key k
    copy,           \* copy[k]: the copy of an entry there was under k
    task,           \* task[c]: what client c is about
    swept           \* the key whose entry the cleanup found due

mapVars == <<now, copying, map, copy, task, swept>>

Calls ==
    [does : {"read"}, key : Keys]
    \union [does : {"write"}, key : Keys, value : Values, ttl : TTLs]
    \union [does : {"remove"}, keys : SUBSET Keys]

Nothing == [does |-> "nothing"]
Have(k, e) == [does |-> "have", key |-> k, entry |-> e]
Lapse(k) == [does |-> "lapse", key |-> k]

\* An entry has the value written and, if its writer gave it one, a deadline e.
Alive(e) == e.ttl = 0 \/ now < e.at + e.ttl
Past(e) == e.value.e > 0 /\ now > e.value.e
Due(e) == Past(e) \/ (e.ttl > 0 /\ now > e.at + e.ttl - Second)

MapInit ==
    /\ now = Second
    /\ copying \in BOOLEAN
    /\ map = [k \in Keys |-> NoEntry]
    /\ copy = map
    /\ task = [c \in Clients |-> Nothing]
    /\ swept = {}

Do(c, t) == task' = [task EXCEPT ![c] = t]

Call(c) ==
    /\ task[c] = Nothing
    /\ task'[c] \in Calls /\ Do(c, task'[c])
    /\ UNCHANGED <<now, copying, map, copy, swept>>

\* Every call may also fail.
End(c) ==
    /\ Do(c, Nothing)
    /\ UNCHANGED <<now, copying, map, copy, swept>>

Shown(k) == {map[k], copy[k]} \ {NoEntry}

\* Reading may leave a copy where there is none.
Read(c) ==
    LET k == task[c].key
    IN  /\ task[c].does = "read"
        /\ \E e \in Shown(k) : \/ Alive(e) /\ Do(c, Have(k, e))
                               \/ Due(e) /\ Do(c, Lapse(k))
        /\ \/ UNCHANGED copy
           \/ copying /\ copy[k] = NoEntry /\ copy' = [copy EXCEPT ![k] = map[k]]
        /\ UNCHANGED <<now, copying, map, swept>>

\* The reader finds what it has past the deadline of its writer.
Judge(c) ==
    /\ task[c].does = "have"
    /\ Past(task[c].entry)
    /\ Do(c, Lapse(task[c].key))
    /\ UNCHANGED <<now, copying, map, copy, swept>>

Forget(k) == map' = [map EXCEPT ![k] = NoEntry]

RemoveDue(c) ==
    /\ task[c].does = "lapse"
    /\ Forget(task[c].key)
    /\ Do(c, Nothing)
    /\ UNCHANGED <<now, copying, copy, swept>>

Remove(c) ==
    /\ task[c].does = "remove"
    /\ \E k \in task[c].keys :
        /\ Forget(k)
        /\ Do(c, [task[c] EXCEPT !.keys = @ \ {k}])
    /\ UNCHANGED <<now, copying, copy, swept>>

\* A deadline of the writer's own is no later than the entry's end.
Write(c) ==
    LET t == task[c]
        new == map'[t.key]
    IN  /\ t.does = "write"
        /\ map' = [map EXCEPT ![t.key] = new] /\ new # NoEntry
        /\ new.value.payload = t.value /\ new.at = now /\ new.ttl = t.ttl
        /\ new.value.e > 0 => t.ttl > 0 /\ new.value.e <= now + t.ttl
        /\ Do(c, Nothing)
        /\ UNCHANGED <<now, copying, copy, swept>>

ClientStep(c) ==
    Call(c) \/ End(c) \/ Read(c) \/ Judge(c) \/ RemoveDue(c) \/ Remove(c) \/ Write(c)

\* The cleanup looks for entries past the deadline of their writer.
Sweep(k) ==
    /\ swept = {} /\ swept' = {k}
    /\ \E e \in Shown(k) : Past(e)
    /\ UNCHANGED <<now, copying, map, copy, task>>

EndSweep ==
    /\ swept # {} /\ swept' = {}
    /\ UNCHANGED map \/ \E k \in swept : Forget(k)
    /\ UNCHANGED <<now, copying, copy, task>>

DropCopy(k) ==
    /\ copy[k] # NoEntry
    /\ copy' = [copy EXCEPT ![k] = NoEntry]
    /\ UNCHANGED <<now, copying, map, task, swept>>

Advance == now' = now + 1 /\ UNCHANGED <<copying, map, copy, task, swept>>

MapNext ==
    \/ \E c \in Clients : ClientStep(c)
    \/ \E k \in Keys : Sweep(k) \/ DropCopy(k)
    \/ EndSweep \/ Advance

MapSpec == MapInit /\ [][MapNext]_mapVars
=============================================================================
