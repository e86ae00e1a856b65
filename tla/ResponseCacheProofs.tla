------------------------- MODULE ResponseCacheProofs -------------------------
(***************************************************************************)
(* Theorems about ResponseCache and the modules it is built on, for every  *)
(* kind of store, with or without the local time to live, and any number   *)
(* of requests, keys, writes and goroutines.                               *)
(***************************************************************************)
EXTENDS ResponseCache, TLAPS

\* Whole seconds, as the wrapper of the stores counts them.
LEMMA EarlierSecond ==
    ASSUME NEW S \in Nat \ {0}, NEW a \in Nat, NEW b \in Nat, a \div S < b \div S
    PROVE  a < b
  BY SMT

LEMMA SomeSecond ==
    ASSUME NEW S \in Nat \ {0}, NEW b \in Nat
    PROVE  b \div S \in Nat /\ (b >= S => b \div S >= 1)
  BY SMT

LEMMA NextSecond ==
    ASSUME NEW S \in Nat \ {0}, NEW a \in Nat, NEW b \in Nat, a + S <= b
    PROVE  a \div S < b \div S
  BY SMT

LEMMA SecondsPass ==
    ASSUME NEW S \in Nat \ {0}, NEW a \in Nat, NEW b \in Nat, a <= b
    PROVE  a \div S <= b \div S
  BY SMT

LEMMA TimeFacts ==
    /\ Second \in Nat \ {0} /\ MaxTime \in Nat /\ TTLs \subseteq Nat
    /\ \A t \in Times : t \in Nat /\ t >= Second
  BY StoreAssumptions DEF Times

LEMMA KeyFacts ==
    \A q \in Requests, n1, n2 \in Names : KeyOf(q, n1, n2) \in Keys /\ KeyOf(q, n1, n2) \notin AppKeys
  BY KeyAssumption

-----------------------------------------------------------------------------
(* What the cache's operations are about.                                   *)

Reading == [pc : {"load", "check", "drop", "hit", "miss"},
            call : {"getOrSet", "exists", "serve"}, key : Keys,
            saw : Entries \union {NoEntry}, readAt : Times]
Storing == [pc : {"wrap", "put"}, call : {"set"}, key : Keys, item : Items, ttl : TTLs]
Removals == [pc : {"remove"}, call : {"delete", "clear"}, todo : SUBSET Keys]

LEMMA OpKinds == OpTypes = {Idle} \union Reading \union Storing \union Removals
  BY DEF OpTypes, Reading, Storing, Removals

LEMMA OpOf ==
    ASSUME NEW o \in OpTypes
    PROVE  /\ o.pc \in {"load", "check", "drop", "hit", "miss"} => o \in Reading
           /\ o.call \in {"getOrSet", "exists", "serve"} => o \in Reading
           /\ o.pc \in {"wrap", "put"} => o \in Storing
           /\ o.pc = "remove" => o \in Removals
           /\ o.pc # "idle" => o # Idle
  BY OpKinds DEF Idle, Reading, Storing, Removals

Keyed == [pc : BuildingKey \union {"cached"}, q : Requests, seen : Names \X Names]
Handled == [pc : {"handler"}, q : Requests, key : Keys, length : Nat,
            direct : BOOLEAN, body : Nat, truncated : BOOLEAN]

LEMMA RequestOf ==
    ASSUME NEW r \in RequestTypes
    PROVE  /\ r.pc \in BuildingKey \union {"cached"} => r \in Keyed
           /\ r.pc = "handler" => r \in Handled
           /\ r.pc = "none" => r = NoRequest
  BY DEF RequestTypes, NoRequest, Keyed, Handled, BuildingKey

-----------------------------------------------------------------------------
(* The inductive invariant.                                                 *)

\* What is stored under the key of a request is a whole response to a request
\* with that key, unless the shared list was read while it was being sorted.
PayloadGood(k, v) ==
    k \notin AppKeys =>
        /\ v \in Responses /\ (~v.direct => v.whole)
        /\ ~overlap => k = KeyOf(v.by, Low, High)

DeadlineGood(e) ==
    e.until = IF e.ttl = 0 THEN 0
              ELSE IF kind = "redis" THEN e.at + e.ttl ELSE (e.at + e.ttl) \div Second

EntryGood(k, e) == e # NoEntry => DeadlineGood(e) /\ PayloadGood(k, e.value.payload)

DataGood == \A k \in Keys : EntryGood(k, data[k]) /\ EntryGood(k, hot[k])

\* An entry past one of its deadlines stays past it.
Over(e) == Expired(e) \/ LocallyExpired(e)

InTime(o) == o.saw.ttl > 0 => o.readAt < o.saw.at + o.saw.ttl

ReadGood(p) ==
    op[p] \in Reading =>
        /\ EntryGood(op[p].key, op[p].saw)
        /\ op[p].pc \in {"check", "hit", "drop"} => op[p].saw # NoEntry
        /\ op[p].pc \in {"check", "hit"} => InTime(op[p])
        /\ op[p].pc = "drop" => Over(op[p].saw)
        /\ op[p].call = "getOrSet" => op[p].key \in AppKeys
        /\ op[p].call = "serve" =>
              /\ op[p].key \notin AppKeys /\ req[p].pc = "cached"
              /\ ~overlap => op[p].key = KeyOf(req[p].q, Low, High)

StoreGood(p) == op[p].pc \in {"wrap", "put"} => PayloadGood(op[p].key, op[p].item.payload)

\* A request is at one place: building its key, in the cache or in the handler.
RequestGood(p) ==
    /\ req[p].pc \notin {"none", "cached"} => op[p] = Idle
    /\ req[p].pc = "cached" => op[p].call = "serve"
    /\ req[p].pc = "handler" =>
          /\ req[p].key \notin AppKeys
          /\ ~overlap => req[p].key = KeyOf(req[p].q, Low, High)
          /\ (MaxBody = 0 \/ ~req[p].truncated) /\ ~req[p].direct =>
                req[p].body = req[p].length

SlotGood(p) == ReadGood(p) /\ StoreGood(p) /\ RequestGood(p)

CleanerGood == cleaner.pc = "drop" => Over(cleaner.saw)

Cached ==
    /\ TypeOK /\ DataGood /\ CleanerGood
    /\ \A p \in Slots : SlotGood(p)

-----------------------------------------------------------------------------
(* Entries and time.                                                        *)

LEMMA EntryFacts ==
    ASSUME NEW e \in Entries
    PROVE  /\ e.at \in Nat /\ e.at >= Second /\ e.ttl \in Nat /\ e.until \in Nat
           /\ e.value.e \in Nat /\ e.at + e.ttl \in Nat /\ e.at + e.ttl >= Second
<1>1. e.value \in Items /\ e.at \in Times /\ e.ttl \in TTLs /\ e.until \in Nat
  BY DEF Entries, Entry
<1>2. e.value.e \in Nat
  BY <1>1 DEF Items
<1>3. e.at \in Nat /\ e.at >= Second /\ e.ttl \in Nat /\ Second \in Nat
  BY <1>1, TimeFacts
<1>4. QED
  BY <1>1, <1>2, <1>3

LEMMA InTimeUnlessExpired ==
    ASSUME TypeOK, NEW e \in Entries, DeadlineGood(e), ~Expired(e), e.ttl > 0
    PROVE  now < e.at + e.ttl
<1>1. /\ now \in Nat /\ e.at \in Nat /\ e.ttl \in Nat /\ e.at >= Second
      /\ Second \in Nat \ {0} /\ e.at + e.ttl \in Nat /\ e.at + e.ttl >= Second
  BY TimeFacts, EntryFacts DEF TypeOK
<1>2. CASE kind = "redis"
  BY <1>1, <1>2 DEF DeadlineGood, Expired, RedisExpired
<1>3. CASE kind # "redis"
  <2>1. e.until = (e.at + e.ttl) \div Second
    BY <1>1, <1>3 DEF DeadlineGood
  <2>2. e.until \in Nat /\ e.until >= 1 /\ now \div Second \in Nat
    BY <1>1, <2>1, SomeSecond
  <2>3. now \div Second < e.until
    BY <1>3, <2>2 DEF Expired, WrapperExpired
  <2>4. QED
    BY <1>1, <2>1, <2>3, EarlierSecond
<1>4. QED
  BY <1>2, <1>3

LEMMA OverIsNotFresh ==
    ASSUME TypeOK, NEW e \in Entries, DeadlineGood(e), Over(e)
    PROVE  ~Fresh(e)
<1>1. /\ now \in Nat /\ e.at \in Nat /\ e.ttl \in Nat /\ Second \in Nat \ {0}
      /\ e.at + e.ttl \in Nat /\ e.until \in Nat /\ e.value.e \in Nat
  BY TimeFacts, EntryFacts DEF TypeOK
<1>2. CASE LocallyExpired(e)
  BY <1>1, <1>2 DEF LocallyExpired, Fresh
<1>3. CASE Expired(e)
  <2>1. e.until > 0
    BY <1>3 DEF Expired, RedisExpired, WrapperExpired
  <2>2. e.ttl > 0
    BY <1>1, <2>1 DEF DeadlineGood
  <2>3. CASE kind = "redis"
    BY <1>1, <1>3, <2>2, <2>3 DEF DeadlineGood, Expired, RedisExpired, Fresh
  <2>4. CASE kind # "redis"
    <3>1. e.until = (e.at + e.ttl) \div Second /\ now \div Second >= e.until
      BY <1>1, <1>3, <2>2, <2>4 DEF DeadlineGood, Expired, WrapperExpired
    <3>2. ~(now \div Second < (e.at + e.ttl) \div Second)
      BY <1>1, <3>1, SomeSecond
    <3>3. ~(now + Second <= e.at + e.ttl)
      BY <1>1, <3>2, NextSecond
    <3>4. QED
      BY <2>2, <3>3 DEF Fresh
  <2>5. QED
    BY <2>3, <2>4
<1>4. QED
  BY <1>2, <1>3 DEF Over

\* Time passes, and two requests may meet at the list: what was known stays.
Passes ==
    /\ kind' = kind /\ now \in Nat /\ now' \in Nat /\ now <= now'
    /\ overlap => overlap'

LEMMA EntryStays ==
    ASSUME Passes, NEW k, NEW e, EntryGood(k, e)
    PROVE  EntryGood(k, e)'
  BY DEF Passes, EntryGood, DeadlineGood, PayloadGood

LEMMA OverStays ==
    ASSUME Passes, NEW e \in Entries, Over(e)
    PROVE  Over(e)'
<1>1. /\ e.until \in Nat /\ e.value.e \in Nat /\ Second \in Nat \ {0}
      /\ now \div Second \in Nat /\ now' \div Second \in Nat
      /\ now \div Second <= now' \div Second
  BY TimeFacts, EntryFacts, SomeSecond, SecondsPass DEF Passes
<1>2. CASE LocallyExpired(e)
  BY <1>1, <1>2 DEF Passes, LocallyExpired, Over
<1>3. CASE Expired(e)
  <2>1. CASE kind = "redis"
    BY <1>1, <1>3, <2>1 DEF Passes, Expired, RedisExpired, Over
  <2>2. CASE kind # "redis"
    BY <1>1, <1>3, <2>2 DEF Passes, Expired, WrapperExpired, Over
  <2>3. QED
    BY <2>1, <2>2
<1>4. QED
  BY <1>2, <1>3 DEF Over

LEMMA SlotStays ==
    ASSUME Cached, Passes, NEW p \in Slots, op'[p] = op[p], req'[p] = req[p]
    PROVE  SlotGood(p)'
<1>0. op[p] \in OpTypes /\ ReadGood(p) /\ StoreGood(p) /\ RequestGood(p)
  BY DEF Cached, TypeOK, SlotGood
<1>1. ReadGood(p)'
  <2>1. CASE op[p] \in Reading
    <3>1. PICK k : k = op[p].key
      OBVIOUS
    <3>2. PICK e : e = op[p].saw
      OBVIOUS
    <3>3. e \in Entries \union {NoEntry} /\ EntryGood(k, e)
      BY <1>0, <2>1, <3>1, <3>2 DEF ReadGood, Reading
    <3>4. EntryGood(k, e)'
      BY <3>3, EntryStays
    <3>5. op[p].pc = "drop" => Over(e)'
      <4>1. op[p].pc = "drop" => e \in Entries /\ Over(e)
        BY <1>0, <2>1, <3>2, <3>3 DEF ReadGood
      <4>2. QED
        BY <4>1, OverStays
    <3>6. EntryGood(op[p].key, op[p].saw)'
      BY <3>1, <3>2, <3>4 DEF EntryGood, DeadlineGood, PayloadGood
    <3>7. op[p].pc = "drop" => Over(op[p].saw)'
      BY <3>2, <3>5 DEF Over, Expired, LocallyExpired, RedisExpired, WrapperExpired
    <3>8. QED
      BY <1>0, <2>1, <3>6, <3>7 DEF ReadGood, InTime, Passes
  <2>2. CASE op[p] \notin Reading
    BY <2>2 DEF ReadGood
  <2>3. QED
    BY <2>1, <2>2
<1>2. StoreGood(p)'
  BY <1>0 DEF StoreGood, PayloadGood, Passes
<1>3. RequestGood(p)'
  BY <1>0 DEF RequestGood, Passes
<1>4. QED
  BY <1>1, <1>2, <1>3 DEF SlotGood

LEMMA CleanerStays ==
    ASSUME Cached, Passes, cleaner' = cleaner
    PROVE  CleanerGood'
<1>1. CASE cleaner.pc = "drop"
  <2>1. PICK e : e = cleaner.saw
    OBVIOUS
  <2>2. e \in Entries /\ Over(e)
    BY <1>1, <2>1 DEF Cached, TypeOK, CleanerTypes, CleanerGood
  <2>3. Over(e)'
    BY <2>2, OverStays
  <2>4. QED
    BY <2>1, <2>3 DEF CleanerGood, Over, Expired, LocallyExpired, RedisExpired, WrapperExpired
<1>2. CASE cleaner.pc # "drop"
  BY <1>2 DEF CleanerGood
<1>3. QED
  BY <1>1, <1>2

LEMMA DataStays ==
    ASSUME Cached, Passes, UNCHANGED <<data, hot>>
    PROVE  DataGood'
<1>1. ASSUME NEW k \in Keys PROVE EntryGood(k, data[k])' /\ EntryGood(k, hot[k])'
  BY <1>1 DEF Cached, DataGood, Passes, EntryGood, DeadlineGood, PayloadGood
<1>2. QED
  BY <1>1 DEF DataGood

-----------------------------------------------------------------------------
(* The stores.                                                              *)

LEMMA FoundIsGood ==
    ASSUME Cached, NEW k \in Keys
    PROVE  /\ Found(k) \in Entries \union {NoEntry} /\ EntryGood(k, Found(k))
           /\ FoundByExists(k) \in Entries \union {NoEntry} /\ EntryGood(k, FoundByExists(k))
<1>1. /\ data[k] \in Entries \union {NoEntry} /\ EntryGood(k, data[k])
      /\ hot[k] \in Entries \union {NoEntry} /\ EntryGood(k, hot[k])
      /\ kind \in {"memory", "groupcache", "nats", "redis"}
  BY StoreAssumptions DEF Cached, TypeOK, DataGood
<1>2. EntryGood(k, NoEntry)
  BY DEF EntryGood
<1>3. Found(k) \in {data[k], hot[k], NoEntry}
  BY <1>1 DEF Found, MemoryGet, NATSGet, GroupcacheGet, RedisGet
<1>4. FoundByExists(k) \in {data[k], hot[k], NoEntry}
  BY <1>3 DEF FoundByExists, GroupcacheExists
<1>5. QED
  BY <1>1, <1>2, <1>3, <1>4

\* What a step of the cache may do to the data: forget some entries, or store one.
Forgets ==
    /\ data' \in [Keys -> Entries \union {NoEntry}]
    /\ hot' \in [Keys -> Entries \union {NoEntry}]
    /\ \A k \in Keys : data'[k] \in {data[k], NoEntry} /\ hot'[k] \in {hot[k], data[k], NoEntry}

LEMMA ForgettingIsGood ==
    ASSUME Cached, Passes, Forgets
    PROVE  DataGood'
<1>1. ASSUME NEW k \in Keys PROVE EntryGood(k, data[k])' /\ EntryGood(k, hot[k])'
  <2>1. \A e : EntryGood(k, e) => EntryGood(k, e)'
    BY EntryStays
  <2>2. EntryGood(k, data[k]) /\ EntryGood(k, hot[k]) /\ EntryGood(k, NoEntry)
    BY DEF Cached, DataGood, EntryGood
  <2>3. PICK d : d = data'[k]
    OBVIOUS
  <2>4. PICK h : h = hot'[k]
    OBVIOUS
  <2>5. EntryGood(k, d) /\ EntryGood(k, h)
    BY <2>2, <2>3, <2>4 DEF Forgets
  <2>6. EntryGood(k, d)' /\ EntryGood(k, h)'
    BY <2>1, <2>5
  <2>7. QED
    BY <2>3, <2>4, <2>6 DEF EntryGood, DeadlineGood, PayloadGood
<1>2. QED
  BY <1>1 DEF DataGood

LEMMA DeleteForgets ==
    ASSUME Cached, NEW k \in Keys, StoreDelete(k) \/ UNCHANGED storeVars
    PROVE  Forgets /\ UNCHANGED <<kind, now, shut>>
  BY DEF StoreDelete, storeVars, Cached, TypeOK, Forgets

LEMMA RememberForgets ==
    ASSUME Cached, NEW k \in Keys, Remember(k) \/ UNCHANGED hot, UNCHANGED data
    PROVE  Forgets
<1>1. \/ UNCHANGED hot
      \/ hot' = [hot EXCEPT ![k] = IF hot[k] = NoEntry THEN data[k] ELSE hot[k]]
  BY DEF Remember, GroupcacheGet
<1>2. QED
  BY <1>1 DEF Cached, TypeOK, Forgets

LEMMA StoredIsGood ==
    ASSUME TypeOK, NEW k \in Keys, NEW v \in Items, NEW ttl \in TTLs, PayloadGood(k, v.payload)
    PROVE  /\ Stored(v, ttl) \in Entries /\ Stored(v, ttl) # NoEntry
           /\ EntryGood(k, Stored(v, ttl))
<1>1. /\ now \in Times /\ now \in Nat /\ ttl \in Nat /\ now + ttl \in Nat
      /\ (now + ttl) \div Second \in Nat
  BY TimeFacts, SomeSecond DEF TypeOK
<1>2. /\ Stored(v, ttl).value = v /\ Stored(v, ttl).at = now /\ Stored(v, ttl).ttl = ttl
      /\ Stored(v, ttl).until = IF ttl = 0 THEN 0
                                ELSE IF kind = "redis" THEN now + ttl ELSE (now + ttl) \div Second
  BY DEF Stored, RedisDeadline, WrapperDeadline
<1>3. Stored(v, ttl) \in Entries
  <2>1. (IF kind = "redis" THEN RedisDeadline(ttl) ELSE WrapperDeadline(ttl)) \in Nat
    BY <1>1 DEF RedisDeadline, WrapperDeadline
  <2>2. QED
    BY <1>1, <2>1 DEF Stored, Entries, Entry
<1>4. QED
  BY <1>2, <1>3, EntryAssumption DEF EntryGood, DeadlineGood

-----------------------------------------------------------------------------
(* The cache's operations.                                                  *)

\* Slot p goes on with its operation; the rest waits.
LEMMA OpSteps ==
    ASSUME Cached, NEW p \in Slots, UNCHANGED <<kind, now, shut, cleaner, req, vary, overlap>>,
           work' \in Nat, data' \in [Keys -> Entries \union {NoEntry}],
           hot' \in [Keys -> Entries \union {NoEntry}], DataGood',
           op' = [op EXCEPT ![p] = op'[p]], op'[p] \in OpTypes,
           ReadGood(p)', StoreGood(p)', RequestGood(p)'
    PROVE  Cached'
<1>1. Passes
  BY TimeFacts DEF Passes, Cached, TypeOK
<1>2. TypeOK'
  BY DEF Cached, TypeOK
<1>3. CleanerGood'
  BY <1>1, CleanerStays
<1>4. ASSUME NEW q \in Slots PROVE SlotGood(q)'
  <2>1. CASE q = p
    BY <2>1 DEF SlotGood
  <2>2. CASE q # p
    <3>1. op'[q] = op[q] /\ req'[q] = req[q]
      BY <2>2 DEF Cached, TypeOK
    <3>2. QED
      BY <1>1, <3>1, SlotStays DEF Cached
  <2>3. QED
    BY <2>1, <2>2
<1>5. QED
  BY <1>2, <1>3, <1>4 DEF Cached

\* The request of a slot stays where it is.
LEMMA RequestWaits ==
    ASSUME Cached, NEW p \in Slots, UNCHANGED <<req, overlap>>,
           req[p] = NoRequest \/ (op[p] # Idle /\ (op[p].call = "serve" => op'[p].call = "serve"))
    PROVE  RequestGood(p)'
<1>1. RequestGood(p)
  BY DEF Cached, SlotGood
<1>2. QED
  BY <1>1 DEF RequestGood, NoRequest

\* A step that only goes on with an operation that reads.
LEMMA ReadSteps ==
    ASSUME Cached, NEW p \in Slots, UNCHANGED <<kind, now, shut, cleaner, req, vary, overlap>>,
           work' \in Nat, Forgets, op[p] \in Reading, NEW o \in Reading,
           op' = [op EXCEPT ![p] = o], o.call = op[p].call, o.key = op[p].key,
           EntryGood(o.key, o.saw), o.pc \in {"check", "hit", "drop"} => o.saw # NoEntry,
           o.pc \in {"check", "hit"} => InTime(o), o.pc = "drop" => Over(o.saw)
    PROVE  Cached'
<1>1. op'[p] = o /\ o \in OpTypes
  BY OpKinds DEF Cached, TypeOK
<1>2. Passes
  BY TimeFacts DEF Passes, Cached, TypeOK
<1>3. ReadGood(p)'
  <2>1. ReadGood(p) /\ op[p] \in Reading
    BY DEF Cached, SlotGood
  <2>2. /\ EntryGood(o.key, o.saw)' /\ (o.pc = "drop" => Over(o.saw)')
    BY DEF EntryGood, DeadlineGood, PayloadGood, Over, Expired, RedisExpired, WrapperExpired,
           LocallyExpired
  <2>3. /\ op[p].call = "getOrSet" => op[p].key \in AppKeys
        /\ op[p].call = "serve" =>
              /\ op[p].key \notin AppKeys /\ req[p].pc = "cached"
              /\ ~overlap => op[p].key = KeyOf(req[p].q, Low, High)
    BY <2>1 DEF ReadGood
  <2>4. EntryGood(op[p].key, op[p].saw)' /\ (op'[p].pc = "drop" => Over(op[p].saw)')
    BY <1>1, <2>2 DEF EntryGood, DeadlineGood, PayloadGood, Over, Expired, RedisExpired,
                      WrapperExpired, LocallyExpired
  <2>5. QED
    BY <1>1, <2>3, <2>4 DEF ReadGood, InTime
<1>4. StoreGood(p)'
  BY <1>1 DEF StoreGood, Reading
<1>5. RequestGood(p)'
  <2>1. op[p] # Idle
    BY DEF Reading, Idle
  <2>2. QED
    BY <1>1, <2>1, RequestWaits
<1>6. QED
  BY <1>1, <1>2, <1>3, <1>4, <1>5, ForgettingIsGood, OpSteps DEF Forgets

LEMMA LoadKeeps ==
    ASSUME Cached, NEW p \in Slots, Load(p), UNCHANGED <<req, vary, overlap>>
    PROVE  Cached'
<1> DEFINE e == Lookup(p)
           pcs == CASE e = NoEntry -> "miss"
                    [] e # NoEntry /\ Expired(e)
                         /\ ~(op[p].call = "exists" /\ kind = "groupcache") -> "drop"
                    [] e # NoEntry /\ Expired(e)
                         /\ ~~(op[p].call = "exists" /\ kind = "groupcache") -> "miss"
                    [] OTHER -> IF op[p].call = "exists" THEN "hit" ELSE "check"
<1>1. /\ op[p].pc = "load" /\ UNCHANGED <<kind, now, data, shut, work, cleaner>>
      /\ op' = [op EXCEPT ![p].saw = e, ![p].readAt = now, ![p].pc = pcs]
      /\ UNCHANGED hot \/ Remember(op[p].key)
  BY DEF Load
<1>2. op[p] \in Reading /\ op[p].key \in Keys /\ op \in [Slots -> OpTypes]
  BY <1>1, OpOf DEF Cached, TypeOK, Reading
<1>3. e \in Entries \union {NoEntry} /\ EntryGood(op[p].key, e)
  BY <1>2, FoundIsGood DEF Lookup
<1>4. /\ pcs \in {"miss", "drop", "hit", "check"}
      /\ pcs = "drop" => e # NoEntry /\ Expired(e)
      /\ pcs \in {"hit", "check"} => e # NoEntry /\ ~Expired(e)
  OBVIOUS
<1> HIDE DEF e, pcs
<1>5. now \in Times
  BY DEF Cached, TypeOK
<1>6. PICK o \in Reading : o = [op[p] EXCEPT !.saw = e, !.readAt = now, !.pc = pcs]
  BY <1>2, <1>3, <1>4, <1>5 DEF Reading
<1>7. op' = [op EXCEPT ![p] = o]
  BY <1>1, <1>2, <1>6
<1>8. /\ o.saw = e /\ o.readAt = now /\ o.pc = pcs /\ o.call = op[p].call /\ o.key = op[p].key
  BY <1>2, <1>6 DEF Reading
<1>9. o.pc \in {"check", "hit"} => InTime(o)
  BY <1>3, <1>4, <1>8, InTimeUnlessExpired DEF Cached, EntryGood, InTime
<1>10. o.pc = "drop" => Over(o.saw)
  BY <1>4, <1>8 DEF Over
<1>11. Forgets
  BY <1>1, <1>2, RememberForgets
<1>12. work' \in Nat
  BY <1>1 DEF Cached, TypeOK
<1>13. EntryGood(o.key, o.saw) /\ (o.pc \in {"check", "hit", "drop"} => o.saw # NoEntry)
  BY <1>3, <1>4, <1>8
<1>14. QED
  BY <1>1, <1>2, <1>7, <1>8, <1>9, <1>10, <1>11, <1>12, <1>13, ReadSteps

\* A step that changes only how far an operation that reads got.
LEMMA ReadMoves ==
    ASSUME Cached, NEW p \in Slots, UNCHANGED <<kind, now, shut, cleaner, req, vary, overlap, work>>,
           Forgets, op[p] \in Reading, NEW pc \in {"check", "drop", "hit", "miss"},
           op' = [op EXCEPT ![p].pc = pc], op[p].pc \in {"check", "hit"} \/ pc = "miss",
           pc = "check" => op[p].pc = "check", pc = "drop" => Over(op[p].saw)
    PROVE  Cached'
<1>1. PICK o \in Reading : o = [op[p] EXCEPT !.pc = pc]
  BY DEF Reading
<1>2. op' = [op EXCEPT ![p] = o]
  BY <1>1 DEF Cached, TypeOK
<1>3. /\ o.saw = op[p].saw /\ o.readAt = op[p].readAt /\ o.pc = pc
      /\ o.call = op[p].call /\ o.key = op[p].key
  BY <1>1 DEF Reading
<1>4. ReadGood(p)
  BY DEF Cached, SlotGood
<1>5. /\ EntryGood(o.key, o.saw) /\ (o.pc \in {"check", "hit", "drop"} => o.saw # NoEntry)
      /\ (o.pc \in {"check", "hit"} => InTime(o)) /\ (o.pc = "drop" => Over(o.saw))
  BY <1>3, <1>4 DEF ReadGood, InTime
<1>6. work' \in Nat
  BY DEF Cached, TypeOK
<1>7. QED
  BY <1>2, <1>3, <1>5, <1>6, ReadSteps

LEMMA NothingForgets == ASSUME Cached, UNCHANGED storeVars PROVE Forgets /\ UNCHANGED <<kind, now, shut>>
  BY DEF Cached, TypeOK, Forgets, storeVars

LEMMA ReadingKeeps ==
    ASSUME Cached, NEW p \in Slots, LoadFails(p) \/ Check(p) \/ Drop(p),
           UNCHANGED <<req, vary, overlap>>
    PROVE  Cached'
<1>1. op[p] \in Reading
  BY OpOf DEF LoadFails, Check, Drop, Cached, TypeOK
<1>2. CASE LoadFails(p)
  BY <1>1, <1>2, NothingForgets, ReadMoves DEF LoadFails
<1>3. CASE Check(p)
  <2>1. PICK pc \in {"drop", "hit"} : /\ op' = [op EXCEPT ![p].pc = pc]
                                      /\ pc = "drop" => LocallyExpired(op[p].saw)
    BY <1>3 DEF Check
  <2>2. QED
    BY <1>1, <1>3, <2>1, NothingForgets, ReadMoves DEF Check, Over
<1>4. CASE Drop(p)
  <2>1. op[p].key \in Keys /\ (StoreDelete(op[p].key) \/ UNCHANGED storeVars)
    BY <1>1, <1>4 DEF Drop, Reading
  <2>2. Forgets /\ UNCHANGED <<kind, now, shut>>
    BY <2>1, DeleteForgets
  <2>3. QED
    BY <1>1, <1>4, <2>2, ReadMoves DEF Drop
<1>5. QED
  BY <1>2, <1>3, <1>4

\* A slot whose operation ends, or goes on without reading or storing.
LEMMA OtherSteps ==
    ASSUME Cached, NEW p \in Slots, UNCHANGED <<kind, now, shut, cleaner, req, vary, overlap>>,
           work' \in Nat, Forgets, NEW o \in {Idle} \union Removals,
           op' = [op EXCEPT ![p] = o],
           req[p] = NoRequest \/ (op[p] # Idle /\ op[p].call # "serve")
    PROVE  Cached'
<1>1. op'[p] = o /\ o \in OpTypes /\ o.pc \in {"idle", "remove"} /\ o \notin Reading
  BY OpKinds DEF Cached, TypeOK, Removals, Idle, Reading
<1>2. ReadGood(p)' /\ StoreGood(p)'
  BY <1>1 DEF ReadGood, StoreGood
<1>3. RequestGood(p)'
  BY RequestWaits
<1>4. Passes
  BY TimeFacts DEF Passes, Cached, TypeOK
<1>5. QED
  BY <1>1, <1>2, <1>3, <1>4, ForgettingIsGood, OpSteps DEF Forgets

LEMMA RemovalsKeep ==
    ASSUME Cached, NEW p \in Slots, Return(p) \/ RemoveOne(p) \/ RemoveEnds(p),
           UNCHANGED <<req, vary, overlap>>
    PROVE  Cached'
<1>0. op[p] \in OpTypes /\ work \in Nat
  BY DEF Cached, TypeOK
<1>1. CASE Return(p)
  <2>1. op[p] # Idle /\ op[p].call # "serve"
    BY <1>1 DEF Return, Idle
  <2>2. QED
    BY <1>0, <1>1, <2>1, NothingForgets, OtherSteps DEF Return
<1>2. CASE RemoveOne(p)
  <2>1. op[p] \in Removals
    BY <1>0, <1>2, OpOf DEF RemoveOne
  <2>2. op[p] # Idle /\ op[p].call # "serve" /\ op[p].todo \in SUBSET Keys
    BY <2>1 DEF Removals, Idle
  <2>3. PICK k \in op[p].todo : StoreDelete(k) /\ op' = [op EXCEPT ![p].todo = @ \ {k}]
    BY <1>2 DEF RemoveOne
  <2>4. PICK o \in Removals : o = [op[p] EXCEPT !.todo = @ \ {k}]
    BY <2>1 DEF Removals
  <2>5. op' = [op EXCEPT ![p] = o]
    BY <2>3, <2>4 DEF Cached, TypeOK
  <2>6. Forgets /\ UNCHANGED <<kind, now, shut>>
    BY <2>2, <2>3, DeleteForgets
  <2>7. QED
    BY <1>0, <1>2, <2>2, <2>5, <2>6, OtherSteps DEF RemoveOne
<1>3. CASE RemoveEnds(p)
  <2>1. op[p] \in Removals
    BY <1>0, <1>3, OpOf DEF RemoveEnds
  <2>2. op[p] # Idle /\ op[p].call # "serve"
    BY <2>1 DEF Removals, Idle
  <2>3. QED
    BY <1>0, <1>3, <2>2, NothingForgets, OtherSteps DEF RemoveEnds
<1>4. QED
  BY <1>1, <1>2, <1>3

\* A value on its way to the store.
LEMMA StoringSteps ==
    ASSUME Cached, NEW p \in Slots, UNCHANGED <<storeVars, work, cleaner, req, vary, overlap>>,
           NEW o \in Storing, op' = [op EXCEPT ![p] = o], PayloadGood(o.key, o.item.payload),
           op[p] # Idle, op[p].call # "serve"
    PROVE  Cached'
<1>1. op'[p] = o /\ o \in OpTypes /\ o \notin Reading
  BY OpKinds DEF Cached, TypeOK, Storing, Reading
<1>2. ReadGood(p)' /\ StoreGood(p)'
  BY <1>1 DEF ReadGood, StoreGood, PayloadGood
<1>3. RequestGood(p)'
  BY RequestWaits
<1>4. Passes /\ Forgets /\ UNCHANGED <<kind, now, shut>> /\ work' \in Nat
  BY TimeFacts, NothingForgets DEF Passes, Cached, TypeOK
<1>5. QED
  BY <1>1, <1>2, <1>3, <1>4, ForgettingIsGood, OpSteps DEF Forgets

LEMMA SettingIs ==
    ASSUME NEW k \in Keys, NEW v \in Responses \union GetterValues, NEW ttl \in TTLs
    PROVE  /\ Setting(k, v, ttl) \in Storing /\ Setting(k, v, ttl).key = k
           /\ Setting(k, v, ttl).item.payload = v
<1>1. [payload |-> v, e |-> 0] \in Items
  BY DEF Items
<1>2. QED
  BY <1>1 DEF Setting, Storing

LEMMA GetterKeeps ==
    ASSUME Cached, NEW p \in Slots, CallGetter(p), UNCHANGED <<req, vary, overlap>>
    PROVE  Cached'
<1>1. /\ op[p] \in Reading /\ op[p].call = "getOrSet" /\ work \in Nat
      /\ UNCHANGED <<storeVars, work, cleaner>>
  BY OpOf DEF CallGetter, Cached, TypeOK
<1>2. op[p] # Idle /\ op[p].call # "serve" /\ op[p].key \in AppKeys /\ op[p].key \in Keys
  BY <1>1 DEF Cached, SlotGood, ReadGood, Reading, Idle
<1>3. CASE op' = [op EXCEPT ![p] = Idle]
  BY <1>1, <1>2, <1>3, NothingForgets, OtherSteps
<1>4. ASSUME NEW v \in GetterValues, NEW ttl \in TTLs,
             op' = [op EXCEPT ![p] = Setting(op[p].key, v, ttl)]
      PROVE  Cached'
  <2>1. PICK o \in Storing : o = Setting(op[p].key, v, ttl)
    BY <1>2, SettingIs
  <2>2. o.key = op[p].key
    BY <1>2, <2>1, SettingIs
  <2>3. PayloadGood(o.key, o.item.payload)
    BY <1>2, <2>2 DEF PayloadGood
  <2>4. QED
    BY <1>1, <1>2, <1>4, <2>1, <2>3, StoringSteps
<1>5. QED
  BY <1>3, <1>4 DEF CallGetter

LEMMA WrapKeeps ==
    ASSUME Cached, NEW p \in Slots, Wrap(p), UNCHANGED <<req, vary, overlap>>
    PROVE  Cached'
<1> DEFINE e == IF UseLocalTTL /\ op[p].ttl > 0 THEN now + op[p].ttl ELSE 0
<1>1. /\ op[p].pc = "wrap" /\ op' = [op EXCEPT ![p].pc = "put", ![p].item.e = e]
      /\ UNCHANGED <<storeVars, work, cleaner>> /\ op[p] \in Storing
  BY OpOf DEF Wrap, Cached, TypeOK
<1>2. op[p].item \in Items /\ op[p].ttl \in Nat /\ now \in Nat
  BY <1>1, TimeFacts DEF Storing, Cached, TypeOK
<1>3. e \in Nat
  BY <1>2
<1> HIDE DEF e
<1>4. PICK i \in Items : i = [op[p].item EXCEPT !.e = e]
  BY <1>2, <1>3 DEF Items
<1>5. PICK o \in Storing : o = [op[p] EXCEPT !.pc = "put", !.item = i]
  BY <1>1, <1>4 DEF Storing
<1>6. op' = [op EXCEPT ![p] = o]
  BY <1>1, <1>4, <1>5 DEF Cached, TypeOK, Storing
<1>7. o.key = op[p].key /\ o.item = i /\ i.payload = op[p].item.payload
  BY <1>1, <1>2, <1>4, <1>5 DEF Storing, Items
<1>8. PayloadGood(o.key, o.item.payload)
  BY <1>1, <1>7 DEF Cached, SlotGood, StoreGood
<1>9. op[p] # Idle /\ op[p].call # "serve"
  BY <1>1 DEF Storing, Idle
<1>10. QED
  BY <1>1, <1>6, <1>8, <1>9, StoringSteps

LEMMA PutKeeps ==
    ASSUME Cached, NEW p \in Slots, Put(p), UNCHANGED <<req, vary, overlap>>
    PROVE  Cached'
<1>1. /\ op[p].pc = "put" /\ op' = [op EXCEPT ![p] = Idle] /\ UNCHANGED <<work, cleaner>>
      /\ op[p] \in Storing /\ work' \in Nat
  BY OpOf DEF Put, Cached, TypeOK
<1>2. op[p] # Idle /\ op[p].call # "serve"
  BY <1>1 DEF Storing, Idle
<1>3. CASE UNCHANGED storeVars
  BY <1>1, <1>2, <1>3, NothingForgets, OtherSteps
<1>4. CASE StorePut(op[p].key, op[p].item, op[p].ttl)
  <2>1. PICK k \in Keys : k = op[p].key
    BY <1>1 DEF Storing
  <2>2. op[p].item \in Items /\ op[p].ttl \in TTLs /\ PayloadGood(k, op[p].item.payload)
    BY <1>1, <2>1 DEF Storing, Cached, SlotGood, StoreGood
  <2>3. PICK s \in Entries : s = Stored(op[p].item, op[p].ttl) /\ EntryGood(k, s)
    BY <2>2, StoredIsGood DEF Cached
  <2>4. data' = [data EXCEPT ![k] = s] /\ UNCHANGED <<kind, now, hot, shut>>
    BY <1>4, <2>1, <2>3 DEF StorePut
  <2>5. data' \in [Keys -> Entries \union {NoEntry}] /\ hot' \in [Keys -> Entries \union {NoEntry}]
    BY <2>4 DEF Cached, TypeOK
  <2>6. DataGood'
    <3>1. \A l \in Keys : data'[l] = data[l] \/ (l = k /\ data'[l] = s)
      BY <2>4 DEF Cached, TypeOK
    <3>2. QED
      BY <2>3, <2>4, <3>1 DEF Cached, DataGood, EntryGood, DeadlineGood, PayloadGood
  <2>7. op'[p] = Idle /\ Idle \in OpTypes /\ Idle.pc = "idle" /\ Idle \notin Reading
    BY <1>1, OpKinds DEF Cached, TypeOK, Idle, Reading
  <2>8. ReadGood(p)' /\ StoreGood(p)'
    BY <2>7 DEF ReadGood, StoreGood
  <2>9. RequestGood(p)'
    BY <1>2, RequestWaits
  <2>10. QED
    BY <1>1, <2>4, <2>5, <2>6, <2>7, <2>8, <2>9, OpSteps
<1>5. QED
  BY <1>3, <1>4 DEF Put

LEMMA CacheStepKeeps ==
    ASSUME Cached, NEW p \in Slots, CacheStep(p), UNCHANGED <<req, vary, overlap>>
    PROVE  Cached'
  BY LoadKeeps, ReadingKeeps, RemovalsKeep, GetterKeeps, WrapKeeps, PutKeeps DEF CacheStep

-----------------------------------------------------------------------------
(* The cleanup, the clock and the store.                                    *)

LEMMA WorldSteps ==
    ASSUME Cached, Passes, Forgets, UNCHANGED <<op, work, req, vary, overlap>>,
           now' \in Times, shut' \in BOOLEAN, cleaner' \in CleanerTypes, CleanerGood'
    PROVE  Cached'
<1>1. TypeOK'
  BY DEF Cached, TypeOK, Passes, Forgets
<1>2. DataGood'
  BY ForgettingIsGood
<1>3. \A p \in Slots : SlotGood(p)'
  BY SlotStays
<1>4. QED
  BY <1>1, <1>2, <1>3 DEF Cached

LEMMA SameTime ==
    ASSUME Cached, UNCHANGED <<kind, now, overlap>>
    PROVE  Passes /\ now' \in Times
  BY TimeFacts DEF Passes, Cached, TypeOK

LEMMA KeysAreKeys == ASSUME TypeOK PROVE AllKeys \in SUBSET Keys
<1>1. \A pat : MemoryKeys(pat) \subseteq Keys /\ NATSKeys(pat) \subseteq Keys
                 /\ GroupcacheKeys(pat) \subseteq Keys
  BY DEF MemoryKeys, NATSKeys, GroupcacheKeys
<1>2. RedisKeys \subseteq Keys
  BY DEF RedisKeys
<1>3. QED
  BY <1>1, <1>2, StoreAssumptions DEF AllKeys, TypeOK

LEMMA CleanupKeeps ==
    ASSUME Cached, CleanupStep, UNCHANGED <<req, vary, overlap>>
    PROVE  Cached'
<1>1. Waiting \in CleanerTypes /\ Waiting.pc = "wait"
  BY DEF Waiting, CleanerTypes, Cached, TypeOK
<1>2. CASE CleanupTick
  <2>1. UNCHANGED storeVars /\ UNCHANGED <<op, work>>
    BY <1>2 DEF CleanupTick
  <2>2. cleaner' = Waiting \/ cleaner' = [pc |-> "get", todo |-> AllKeys]
    BY <1>2 DEF CleanupTick
  <2>3. AllKeys \in SUBSET Keys
    BY KeysAreKeys DEF Cached, TypeOK
  <2>4. cleaner' \in CleanerTypes /\ cleaner'.pc # "drop"
    BY <1>1, <2>2, <2>3 DEF CleanerTypes
  <2>5. QED
    BY <2>1, <2>4, NothingForgets, SameTime, WorldSteps DEF CleanerGood, Cached, TypeOK
<1>3. CASE CleanupGet
  <2>1. UNCHANGED storeVars /\ UNCHANGED <<op, work>> /\ cleaner.pc = "get"
    BY <1>3 DEF CleanupGet
  <2>2. cleaner.todo \in SUBSET Keys
    BY <2>1 DEF Cached, TypeOK, CleanerTypes
  <2>3. PICK k \in cleaner.todo :
           \/ /\ Found(k) # NoEntry /\ LocallyExpired(Found(k))
              /\ cleaner' = [pc |-> "drop", key |-> k, saw |-> Found(k), todo |-> cleaner.todo \ {k}]
           \/ cleaner' = Waiting
           \/ cleaner' = [pc |-> "get", todo |-> cleaner.todo \ {k}]
    BY <1>3 DEF CleanupGet
  <2>4. k \in Keys
    BY <2>2
  <2>5. PICK e : e = Found(k)
    OBVIOUS
  <2>6. e \in Entries \union {NoEntry}
    BY <2>4, <2>5, FoundIsGood
  <2>7. Passes /\ now' \in Times /\ Forgets /\ shut' \in BOOLEAN /\ UNCHANGED <<kind, now>>
    BY <2>1, NothingForgets, SameTime DEF Cached, TypeOK
  <2>8. CASE e # NoEntry /\ LocallyExpired(e)
             /\ cleaner' = [pc |-> "drop", key |-> k, saw |-> e, todo |-> cleaner.todo \ {k}]
    <3>1. cleaner' \in CleanerTypes /\ cleaner'.saw = e
      BY <2>2, <2>4, <2>6, <2>8 DEF CleanerTypes
    <3>2. Over(e)'
      BY <2>6, <2>7, <2>8, OverStays DEF Over
    <3>3. CleanerGood'
      BY <3>1, <3>2 DEF CleanerGood, Over, Expired, LocallyExpired, RedisExpired, WrapperExpired
    <3>4. QED
      BY <2>1, <2>7, <3>1, <3>3, WorldSteps
  <2>9. CASE cleaner' = Waiting \/ cleaner' = [pc |-> "get", todo |-> cleaner.todo \ {k}]
    <3>1. cleaner' \in CleanerTypes /\ cleaner'.pc # "drop"
      BY <1>1, <2>2, <2>9 DEF CleanerTypes
    <3>2. QED
      BY <2>1, <2>7, <3>1, WorldSteps DEF CleanerGood
  <2>10. QED
    BY <2>3, <2>5, <2>8, <2>9
<1>4. CASE CleanupDrop
  <2>1. /\ cleaner.pc = "drop" /\ UNCHANGED <<op, work>>
        /\ StoreDelete(cleaner.key) \/ UNCHANGED storeVars
        /\ cleaner' = Waiting \/ cleaner' = [pc |-> "get", todo |-> cleaner.todo]
    BY <1>4 DEF CleanupDrop
  <2>2. cleaner.key \in Keys /\ cleaner.todo \in SUBSET Keys
    BY <2>1 DEF Cached, TypeOK, CleanerTypes
  <2>3. Forgets /\ UNCHANGED <<kind, now, shut>>
    BY <2>1, <2>2, DeleteForgets
  <2>4. cleaner' \in CleanerTypes /\ cleaner'.pc # "drop"
    BY <1>1, <2>1, <2>2 DEF CleanerTypes
  <2>5. QED
    BY <2>1, <2>3, <2>4, SameTime, WorldSteps DEF CleanerGood, Cached, TypeOK
<1>5. CASE CleanupStops
  <2>1. UNCHANGED storeVars /\ UNCHANGED <<op, work>> /\ cleaner' = [pc |-> "ended"]
    BY <1>5 DEF CleanupStops
  <2>2. cleaner' \in CleanerTypes /\ cleaner'.pc # "drop"
    BY <2>1 DEF CleanerTypes
  <2>3. QED
    BY <2>1, <2>2, NothingForgets, SameTime, WorldSteps DEF CleanerGood, Cached, TypeOK
<1>6. QED
  BY <1>2, <1>3, <1>4, <1>5 DEF CleanupStep

LEMMA WorldKeeps ==
    ASSUME Cached, Close \/ (Environment /\ UNCHANGED cacheVars), UNCHANGED <<req, vary, overlap>>
    PROVE  Cached'
<1>1. UNCHANGED <<op, work, cleaner>>
  BY DEF Close, cacheVars
<1>2. cleaner' \in CleanerTypes
  BY <1>1 DEF Cached, TypeOK
<1>3. CASE Close
  <2>1. UNCHANGED <<kind, now, data, hot>> /\ shut' \in BOOLEAN
    BY <1>3 DEF Close, StoreClose
  <2>2. Forgets
    BY <2>1 DEF Forgets, Cached, TypeOK
  <2>3. QED
    BY <1>1, <1>2, <2>1, <2>2, SameTime, CleanerStays, WorldSteps
<1>4. CASE Tick
  <2>1. UNCHANGED <<kind, data, hot, shut>> /\ now' = now + 1 /\ now < MaxTime
    BY <1>4 DEF Tick
  <2>2. now' \in Times /\ Passes
    BY <2>1, TimeFacts DEF Passes, Cached, TypeOK, Times
  <2>3. Forgets /\ shut' \in BOOLEAN
    BY <2>1 DEF Forgets, Cached, TypeOK
  <2>4. QED
    BY <1>1, <1>2, <2>2, <2>3, CleanerStays, WorldSteps
<1>5. ASSUME NEW k \in Keys, Evict(k) PROVE Cached'
  <2>1. UNCHANGED <<kind, now, data, shut>> /\ hot' = [hot EXCEPT ![k] = NoEntry]
    BY <1>5 DEF Evict
  <2>2. Forgets /\ shut' \in BOOLEAN
    BY <2>1 DEF Forgets, Cached, TypeOK
  <2>3. QED
    BY <1>1, <1>2, <2>1, <2>2, SameTime, CleanerStays, WorldSteps
<1>6. QED
  BY <1>3, <1>4, <1>5 DEF Environment

\* Other code begins an operation.
LEMMA AppKeeps ==
    ASSUME Cached, NEW p \in Slots, AppCalls(p), UNCHANGED <<req, vary, overlap>>
    PROVE  Cached'
<1>1. req[p] = NoRequest /\ RequestGood(p) /\ work \in Nat /\ AppKeys \subseteq Keys
  BY RequestAssumptions DEF AppCalls, Cached, TypeOK, SlotGood
<1>2. ASSUME NEW k \in AppKeys, NEW call \in {"getOrSet", "exists"}, StartRead(p, call, k)
      PROVE  Cached'
  <2>1. UNCHANGED <<storeVars, cleaner>> /\ work' \in Nat /\ op' = [op EXCEPT ![p] = Op(call, "load", k)]
    BY <1>1, <1>2 DEF StartRead, Spends, CallWeight
  <2>2. now \in Times
    BY DEF Cached, TypeOK
  <2>3. PICK o \in Reading : o = Op(call, "load", k)
    BY <1>1, <2>2 DEF Op, Reading
  <2>4. o.pc = "load" /\ o.call = call /\ o.key = k /\ o.saw = NoEntry
    BY <2>3 DEF Op
  <2>5. op'[p] = o /\ op' = [op EXCEPT ![p] = op'[p]] /\ o \in OpTypes
    BY <2>1, <2>3, OpKinds DEF Cached, TypeOK
  <2>6. EntryGood(op[p].key, op[p].saw)'
    BY <2>4, <2>5 DEF EntryGood
  <2>7. ReadGood(p)'
    BY <2>4, <2>5, <2>6 DEF ReadGood
  <2>8. StoreGood(p)'
    BY <2>4, <2>5 DEF StoreGood
  <2>9. RequestGood(p)'
    BY <1>1, RequestWaits
  <2>10. Forgets /\ Passes /\ UNCHANGED <<kind, now, shut>>
    BY <2>1, NothingForgets, SameTime
  <2>11. QED
    BY <2>1, <2>5, <2>7, <2>8, <2>9, <2>10, ForgettingIsGood, OpSteps DEF Forgets
<1>3. ASSUME NEW call \in {"delete", "clear"}, NEW ks \in SUBSET Keys, StartRemove(p, call, ks)
      PROVE  Cached'
  <2>1. /\ UNCHANGED <<storeVars, cleaner>> /\ work' \in Nat
        /\ op' = [op EXCEPT ![p] = Removing(call, ks)] /\ Removing(call, ks) \in Removals
    BY <1>1, <1>3 DEF StartRemove, Spends, CallWeight, Removing, Removals
  <2>2. QED
    BY <1>1, <2>1, NothingForgets, OtherSteps
<1>4. ASSUME NEW k \in AppKeys, StartDelete(p, k) PROVE Cached'
  BY <1>1, <1>3, <1>4 DEF StartDelete
<1>5. CASE StartClear(p)
  <2>1. AllKeys \in SUBSET Keys
    BY KeysAreKeys DEF Cached, TypeOK
  <2>2. QED
    BY <1>3, <1>5, <2>1 DEF StartClear
<1>6. QED
  BY <1>2, <1>4, <1>5 DEF AppCalls

-----------------------------------------------------------------------------
(* The list of header names.                                                *)

\* While no two requests met at it unsorted, the list is as the one request that
\* sorts it left it, and sorted for all others.
SortStage(p) ==
    /\ req[p].pc = "sort" => vary \in {Sorted, <<High, Low>>}
    /\ req[p].pc = "swap" => vary = <<High, Low>>
    /\ req[p].pc = "store1" => vary = <<High, Low>> /\ req[p].seen = <<High, Low>>
    /\ req[p].pc = "store2" => vary = <<High, High>> /\ req[p].seen = <<High, Low>>
    /\ req[p].pc = "read1" => vary = Sorted
    /\ req[p].pc = "read2" => vary = Sorted /\ req[p].seen = Sorted

SortInv ==
    ~overlap =>
        /\ \A p \in Slots : SortStage(p)
        /\ vary # Sorted => \A p, r \in Slots : Building(p) /\ Building(r) => p = r
        /\ (\A p \in Slots : ~Building(p)) => vary \in {Sorted, <<High, Low>>}

LEMMA NamesDiffer == Low # High /\ Low \in Names /\ High \in Names
  BY RequestAssumptions DEF Names

LEMMA SortInit == ASSUME Init PROVE SortInv
  BY DEF Init, SortInv, SortStage, NoRequest, Building, BuildingKey

LEMMA SortStarts ==
    ASSUME TypeOK, SortInv, NEW p \in Slots, NEW q \in Requests, StartRequest(p, q)
    PROVE  SortInv'
<1> SUFFICES ASSUME ~overlap' PROVE SortInv'
  BY DEF SortInv
<1>1. /\ req[p] = NoRequest /\ vary' = vary /\ req' = [req EXCEPT ![p] = Serving("sort", q, vary)]
      /\ ~overlap /\ (vary # Sorted => \A r \in Slots : ~Building(r))
  BY DEF StartRequest
<1>2. /\ req'[p].pc = "sort" /\ \A r \in Slots \ {p} : req'[r] = req[r]
  BY <1>1 DEF TypeOK, Serving
<1>3. /\ \A r \in Slots : SortStage(r)
      /\ (\A r \in Slots : ~Building(r)) => vary \in {Sorted, <<High, Low>>}
  BY <1>1 DEF SortInv
<1>4. \A r \in Slots \ {p} : Building(r)' <=> Building(r)
  BY <1>2 DEF Building
<1>5. Building(p)'
  BY <1>2 DEF Building, BuildingKey
<1>6. \A r \in Slots : SortStage(r)'
  BY <1>1, <1>2, <1>3 DEF SortStage
<1>7. vary # Sorted => \A a, b \in Slots : Building(a)' /\ Building(b)' => a = b
  BY <1>1, <1>4
<1>8. QED
  BY <1>1, <1>5, <1>6, <1>7 DEF SortInv

\* A step of the request that builds its key.
LEMMA SortGoesOn ==
    ASSUME TypeOK, SortInv, NEW p \in Slots, Sort(p) \/ ReadFirstName(p)
    PROVE  SortInv'
<1> SUFFICES ASSUME ~overlap' PROVE SortInv'
  BY DEF SortInv
<1>0. ~overlap /\ overlap' = overlap
  BY DEF Sort, SortStep, ReadFirstName
<1>1. /\ \A r \in Slots : SortStage(r)
      /\ vary # Sorted => \A a, b \in Slots : Building(a) /\ Building(b) => a = b
  BY <1>0 DEF SortInv
<1>2. SortStage(p) /\ Building(p)
  BY <1>1 DEF Building, BuildingKey, Sort, SortStep, ReadFirstName
<1>3. req[p] \in Keyed
  BY <1>2, RequestOf DEF Building, TypeOK
<1>4. \E pc \in BuildingKey, seen \in {req[p].seen, vary} :
         req' = [req EXCEPT ![p].pc = pc, ![p].seen = seen]
  BY DEF Sort, SortStep, ReadFirstName, BuildingKey
<1>5. req'[p].pc \in BuildingKey /\ \A r \in Slots \ {p} : req'[r] = req[r]
  <2>1. PICK pc \in BuildingKey, seen \in {req[p].seen, vary} :
           req' = [req EXCEPT ![p].pc = pc, ![p].seen = seen]
    BY <1>4
  <2>2. req'[p] = [req[p] EXCEPT !.pc = pc, !.seen = seen]
    BY <2>1 DEF TypeOK
  <2>3. req'[p].pc = pc
    BY <1>3, <2>2 DEF Keyed
  <2>4. QED
    BY <2>1, <2>3 DEF TypeOK
<1>6. SortStage(p)' /\ (vary' # vary => vary # Sorted)
  <2>1. Sorted = <<Low, High>> /\ <<High, Low>> # Sorted /\ <<High, High>> # Sorted
        /\ <<High, Low>> # <<High, High>>
    BY NamesDiffer DEF Sorted
  <2>2. CASE req[p].pc = "sort"
    <3>1. vary' = vary /\ req' = [req EXCEPT ![p].pc = IF vary = <<High, Low>> THEN "swap" ELSE "read1",
                                             ![p].seen = req[p].seen]
      BY <2>2 DEF Sort, SortStep, ReadFirstName
    <3>2. req'[p].pc = IF vary = <<High, Low>> THEN "swap" ELSE "read1"
      BY <1>3, <3>1 DEF TypeOK, Keyed
    <3>3. QED
      BY <1>2, <2>2, <3>1, <3>2 DEF SortStage
  <2>3. CASE req[p].pc = "swap"
    <3>1. vary' = vary /\ req' = [req EXCEPT ![p].pc = "store1", ![p].seen = vary]
      BY <2>3 DEF Sort, SortStep, ReadFirstName
    <3>2. req'[p].pc = "store1" /\ req'[p].seen = vary
      BY <1>3, <3>1 DEF TypeOK, Keyed
    <3>3. QED
      BY <1>2, <2>3, <3>1, <3>2 DEF SortStage
  <2>4. CASE req[p].pc = "store1"
    <3>1. /\ vary' = <<vary[1], req[p].seen[1]>>
          /\ req' = [req EXCEPT ![p].pc = "store2", ![p].seen = req[p].seen]
      BY <2>4 DEF Sort, SortStep, ReadFirstName
    <3>2. req'[p].pc = "store2" /\ req'[p].seen = req[p].seen
      BY <1>3, <3>1 DEF TypeOK, Keyed
    <3>3. vary = <<High, Low>> /\ req[p].seen = <<High, Low>>
      BY <1>2, <2>4 DEF SortStage
    <3>4. vary[1] = High /\ req[p].seen[1] = High
      BY <3>3
    <3>5. vary' = <<High, High>>
      BY <3>1, <3>4
    <3>6. SortStage(p)'
      BY <3>2, <3>3, <3>5 DEF SortStage
    <3>7. QED
      BY <2>1, <3>3, <3>6
  <2>5. CASE req[p].pc = "store2"
    <3>1. /\ vary' = <<req[p].seen[2], vary[2]>>
          /\ req' = [req EXCEPT ![p].pc = "read1", ![p].seen = req[p].seen]
      BY <2>5 DEF Sort, SortStep, ReadFirstName
    <3>2. req'[p].pc = "read1"
      BY <1>3, <3>1 DEF TypeOK, Keyed
    <3>3. vary = <<High, High>> /\ req[p].seen = <<High, Low>>
      BY <1>2, <2>5 DEF SortStage
    <3>4. vary[2] = High /\ req[p].seen[2] = Low
      BY <3>3
    <3>5. vary' = Sorted
      BY <3>1, <3>4 DEF Sorted
    <3>6. SortStage(p)'
      BY <3>2, <3>5 DEF SortStage
    <3>7. QED
      BY <2>1, <3>3, <3>6
  <2>6. CASE req[p].pc = "read1"
    <3>1. vary' = vary /\ req' = [req EXCEPT ![p].pc = "read2", ![p].seen = <<vary[1], vary[2]>>]
      BY <2>6 DEF Sort, SortStep, ReadFirstName
    <3>2. req'[p].pc = "read2" /\ req'[p].seen = <<vary[1], vary[2]>>
      BY <1>3, <3>1 DEF TypeOK, Keyed
    <3>3. vary = <<Low, High>>
      BY <1>2, <2>1, <2>6 DEF SortStage
    <3>4. QED
      BY <2>1, <3>1, <3>2, <3>3 DEF SortStage
  <2>7. QED
    BY <2>2, <2>3, <2>4, <2>5, <2>6 DEF Sort, SortStep, ReadFirstName
<1>7. \A r \in Slots : Building(r)' <=> Building(r)
  BY <1>2, <1>5 DEF Building
<1>8. ASSUME NEW r \in Slots \ {p} PROVE SortStage(r)'
  <2>1. CASE vary' = vary
    BY <1>1, <1>5, <2>1 DEF SortStage
  <2>2. CASE vary' # vary
    <3>1. ~Building(r)
      BY <1>1, <1>2, <1>6, <2>2
    <3>2. QED
      BY <1>5, <3>1 DEF Building, BuildingKey, SortStage
  <2>3. QED
    BY <2>1, <2>2
<1>9. vary' # Sorted => \A a, b \in Slots : Building(a)' /\ Building(b)' => a = b
  <2>1. vary' # Sorted => vary # Sorted
    BY <1>6
  <2>2. QED
    BY <1>1, <1>7, <2>1
<1>10. QED
  BY <1>2, <1>6, <1>7, <1>8, <1>9 DEF SortInv

\* A step that leaves the list alone, and no other request at it.
LEMMA SortStays ==
    ASSUME TypeOK, SortInv, NEW p \in Slots, UNCHANGED <<vary, overlap>>,
           req' = [req EXCEPT ![p] = req'[p]], ~Building(p)',
           Building(p) => vary = Sorted \/ overlap
    PROVE  SortInv'
<1>1. \A r \in Slots \ {p} : req'[r] = req[r]
  BY DEF TypeOK
<1>2. \A r \in Slots \ {p} : Building(r)' <=> Building(r)
  BY <1>1 DEF Building
<1>3. \A r \in Slots : SortStage(r) => SortStage(r)'
  BY <1>1 DEF SortStage, Building, BuildingKey
<1>4. QED
  BY <1>2, <1>3 DEF SortInv

\* A request the cache serves has built its key.
LEMMA ServedWaits ==
    ASSUME Cached, NEW p \in Slots, op[p].call = "serve"
    PROVE  op[p] \in Reading /\ req[p].pc = "cached" /\ req[p] \in Keyed
<1>1. op[p] \in Reading
  BY OpOf DEF Cached, TypeOK
<1>2. req[p].pc = "cached"
  BY <1>1 DEF Cached, SlotGood, ReadGood
<1>3. QED
  BY <1>1, <1>2, RequestOf DEF Cached, TypeOK

LEMMA SortKept ==
    ASSUME Cached, SortInv, [Next]_vars
    PROVE  SortInv'
<1>0. TypeOK
  BY DEF Cached
<1>1. CASE UNCHANGED <<req, vary, overlap>>
  BY <1>1 DEF SortInv, SortStage, Building
<1>2. ASSUME NEW p \in Slots, RequestStep(p) PROVE SortInv'
  <2>1. ASSUME NEW q \in Requests, StartRequest(p, q) PROVE SortInv'
    BY <1>0, <2>1, SortStarts
  <2>2. CASE Sort(p) \/ ReadFirstName(p)
    BY <1>0, <2>2, SortGoesOn
  <2>3. CASE ReadSecondName(p)
    <3>1. /\ req[p].pc = "read2" /\ req' = [req EXCEPT ![p].pc = "cached"]
          /\ UNCHANGED <<vary, overlap>>
      BY <2>3 DEF ReadSecondName
    <3>2. req[p] \in Keyed
      BY <1>0, <3>1, RequestOf DEF BuildingKey, TypeOK
    <3>3. req' = [req EXCEPT ![p] = req'[p]] /\ req'[p].pc = "cached"
      BY <1>0, <3>1, <3>2 DEF TypeOK, Keyed
    <3>4. ~Building(p)' /\ (vary = Sorted \/ overlap)
      BY <3>1, <3>3 DEF Building, BuildingKey, SortInv, SortStage
    <3>5. QED
      BY <1>0, <3>1, <3>3, <3>4, SortStays
  <2>4. CASE ServeFromCache(p) \/ CallHandler(p)
    <3>1. /\ req' = [req EXCEPT ![p] = req'[p]] /\ req'[p].pc \in {"none", "handler"}
          /\ UNCHANGED <<vary, overlap>> /\ op[p].call = "serve"
      BY <1>0, <2>4 DEF ServeFromCache, CallHandler, Writing, NoRequest, TypeOK
    <3>2. ~Building(p)' /\ ~Building(p)
      BY <3>1, ServedWaits DEF Building, BuildingKey
    <3>3. QED
      BY <1>0, <3>1, <3>2, SortStays
  <2>5. ASSUME NEW n \in Chunks, Write(p, n) \/ WriteString(p, n) PROVE SortInv'
    <3>1. req[p].pc = "handler" /\ req[p] \in Handled /\ UNCHANGED <<vary, overlap>>
      BY <1>0, <2>5, RequestOf DEF Write, WriteString, Sends, TypeOK
    <3>2. \/ \E b, t, l : req' = [req EXCEPT ![p].body = b, ![p].truncated = t, ![p].length = l]
          \/ \E l : req' = [req EXCEPT ![p].length = l, ![p].direct = TRUE]
      BY <2>5 DEF Write, WriteString
    <3>3. req' = [req EXCEPT ![p] = req'[p]] /\ req'[p].pc = "handler"
      <4>1. CASE \E b, t, l : req' = [req EXCEPT ![p].body = b, ![p].truncated = t, ![p].length = l]
        <5>1. PICK b, t, l :
                 req' = [req EXCEPT ![p].body = b, ![p].truncated = t, ![p].length = l]
          BY <4>1
        <5>2. PICK o : o = [req[p] EXCEPT !.body = b, !.truncated = t, !.length = l]
          OBVIOUS
        <5>3. req' = [req EXCEPT ![p] = o] /\ o.pc = "handler"
          BY <1>0, <3>1, <5>1, <5>2 DEF TypeOK, Handled
        <5>4. QED
          BY <1>0, <5>3 DEF TypeOK
      <4>2. CASE \E l : req' = [req EXCEPT ![p].length = l, ![p].direct = TRUE]
        BY <1>0, <3>1, <4>2 DEF TypeOK, Handled
      <4>3. QED
        BY <3>2, <4>1, <4>2
    <3>4. ~Building(p)' /\ ~Building(p)
      BY <3>1, <3>3 DEF Building, BuildingKey
    <3>5. QED
      BY <1>0, <3>1, <3>3, <3>4, SortStays
  <2>6. ASSUME NEW a \in Answers, ProcessAndStore(p, a) PROVE SortInv'
    <3>1. /\ req[p].pc = "handler" /\ UNCHANGED <<vary, overlap>>
          /\ req' = [req EXCEPT ![p] = req'[p]] /\ req'[p].pc = "none"
      BY <1>0, <2>6 DEF ProcessAndStore, NoRequest, TypeOK
    <3>2. ~Building(p)' /\ ~Building(p)
      BY <3>1 DEF Building, BuildingKey
    <3>3. QED
      BY <1>0, <3>1, <3>2, SortStays
  <2>7. QED
    BY <1>2, <2>1, <2>2, <2>3, <2>4, <2>5, <2>6 DEF RequestStep
<1>3. CASE StoreSteps
  BY <1>1, <1>3 DEF StoreSteps
<1>4. CASE UNCHANGED vars
  BY <1>1, <1>4 DEF vars
<1>5. QED
  BY <1>2, <1>3, <1>4 DEF Next

-----------------------------------------------------------------------------
(* Requests.                                                                *)

LEMMA RequestSteps ==
    ASSUME Cached, NEW p \in Slots, UNCHANGED <<storeVars, cleaner>>, work' \in Nat,
           overlap' \in BOOLEAN, overlap => overlap', vary' \in Names \X Names,
           op' = [op EXCEPT ![p] = op'[p]], op'[p] \in OpTypes,
           req' = [req EXCEPT ![p] = req'[p]], req'[p] \in RequestTypes,
           ReadGood(p)', StoreGood(p)', RequestGood(p)'
    PROVE  Cached'
<1>1. Passes /\ UNCHANGED <<kind, now, data, hot, shut>>
  BY TimeFacts DEF Passes, Cached, TypeOK, storeVars
<1>2. TypeOK'
  BY <1>1 DEF Cached, TypeOK
<1>3. DataGood' /\ CleanerGood'
  BY <1>1, DataStays, CleanerStays
<1>4. ASSUME NEW r \in Slots PROVE SlotGood(r)'
  <2>1. CASE r = p
    BY <2>1 DEF SlotGood
  <2>2. CASE r # p
    <3>1. op'[r] = op[r] /\ req'[r] = req[r]
      BY <2>2 DEF Cached, TypeOK
    <3>2. QED
      BY <1>1, <3>1, SlotStays
  <2>3. QED
    BY <2>1, <2>2
<1>5. QED
  BY <1>2, <1>3, <1>4 DEF Cached

\* The slot has no operation of the cache afterwards.
LEMMA IdleSteps ==
    ASSUME Cached, NEW p \in Slots, UNCHANGED <<storeVars, cleaner>>, work' \in Nat,
           overlap' \in BOOLEAN, overlap => overlap', vary' \in Names \X Names,
           op' = [op EXCEPT ![p] = Idle], req' = [req EXCEPT ![p] = req'[p]],
           req'[p] \in RequestTypes, req'[p].pc # "cached",
           req'[p].pc = "handler" =>
              /\ req'[p].key \notin AppKeys
              /\ ~overlap' => req'[p].key = KeyOf(req'[p].q, Low, High)
              /\ (MaxBody = 0 \/ ~req'[p].truncated) /\ ~req'[p].direct =>
                    req'[p].body = req'[p].length
    PROVE  Cached'
<1>1. op'[p] = Idle /\ Idle \in OpTypes /\ Idle.pc = "idle" /\ Idle \notin Reading
  BY OpKinds DEF Cached, TypeOK, Idle, Reading
<1>2. op' = [op EXCEPT ![p] = op'[p]] /\ op'[p] \in OpTypes
  BY <1>1
<1>3. ReadGood(p)' /\ StoreGood(p)'
  BY <1>1 DEF ReadGood, StoreGood
<1>4. RequestGood(p)'
  BY <1>1 DEF RequestGood
<1>5. QED
  BY <1>2, <1>3, <1>4, RequestSteps

LEMMA KeyingKeeps ==
    ASSUME Cached, NEW p \in Slots,
           (\E q \in Requests : StartRequest(p, q)) \/ Sort(p) \/ ReadFirstName(p)
    PROVE  Cached'
<1>1. req[p].pc \notin {"none", "cached"} => op[p] = Idle
  BY DEF Cached, SlotGood, RequestGood
<1>2. vary \in Names \X Names /\ overlap \in BOOLEAN /\ work \in Nat /\ op[p] = op[p]
  BY DEF Cached, TypeOK
<1>3. ASSUME NEW q \in Requests, StartRequest(p, q) PROVE Cached'
  <2>1. /\ op[p] = Idle /\ UNCHANGED <<storeVars, op, cleaner, vary>> /\ work' \in Nat
        /\ overlap' = (overlap \/ (vary # Sorted /\ \E r \in Slots : Building(r)))
        /\ req' = [req EXCEPT ![p] = Serving("sort", q, vary)]
    BY <1>2, <1>3 DEF StartRequest, Spends, RequestWeight
  <2>2. PICK o \in Keyed : o = Serving("sort", q, vary)
    BY <1>2 DEF Serving, Keyed, BuildingKey
  <2>3. o.pc = "sort"
    BY <2>2 DEF Serving
  <2>4. req'[p] = o /\ o \in RequestTypes /\ req' = [req EXCEPT ![p] = req'[p]]
    BY <2>1, <2>2 DEF Cached, TypeOK, RequestTypes, Keyed
  <2>5. op' = [op EXCEPT ![p] = Idle]
    BY <2>1 DEF Cached, TypeOK
  <2>6. overlap' \in BOOLEAN /\ (overlap => overlap')
    BY <2>1, Zenon
  <2>7. QED
    BY <1>2, <2>1, <2>3, <2>4, <2>5, <2>6, IdleSteps
<1>4. CASE Sort(p) \/ ReadFirstName(p)
  <2>1. req[p].pc \in BuildingKey /\ UNCHANGED <<storeVars, cacheVars, overlap>>
    BY <1>4 DEF Sort, SortStep, ReadFirstName, BuildingKey
  <2>2. req[p] \in Keyed /\ req[p].seen \in Names \X Names /\ op[p] = Idle
    BY <1>1, <2>1, RequestOf DEF Cached, TypeOK, Keyed, BuildingKey
  <2>3. \E pc \in BuildingKey, seen \in Names \X Names :
           req' = [req EXCEPT ![p].pc = pc, ![p].seen = seen]
    BY <1>2, <1>4, <2>2 DEF Sort, SortStep, ReadFirstName, BuildingKey
  <2>4. vary' \in Names \X Names
    BY <1>2, <1>4, <2>2 DEF Sort, SortStep, ReadFirstName
  <2>5. PICK pc \in BuildingKey, seen \in Names \X Names :
           req' = [req EXCEPT ![p].pc = pc, ![p].seen = seen]
    BY <2>3
  <2>6. PICK o \in Keyed : o = [req[p] EXCEPT !.pc = pc, !.seen = seen]
    BY <2>2 DEF Keyed
  <2>7. o.pc \in BuildingKey
    BY <2>2, <2>6 DEF Keyed
  <2>8. req'[p] = o /\ o \in RequestTypes /\ req' = [req EXCEPT ![p] = req'[p]]
    BY <2>5, <2>6 DEF Cached, TypeOK, RequestTypes, Keyed
  <2>9. op' = [op EXCEPT ![p] = Idle] /\ UNCHANGED <<storeVars, cleaner, work, overlap>>
    BY <2>1, <2>2 DEF Cached, TypeOK, cacheVars
  <2>10. QED
    BY <1>2, <2>4, <2>7, <2>8, <2>9, IdleSteps DEF BuildingKey
<1>5. QED
  BY <1>3, <1>4

\* The key that was built goes to the cache.
LEMMA LookUpKeeps ==
    ASSUME Cached, SortInv, NEW p \in Slots, ReadSecondName(p)
    PROVE  Cached'
<1>1. /\ req[p].pc = "read2" /\ UNCHANGED <<storeVars, work, cleaner, vary, overlap>>
      /\ req' = [req EXCEPT ![p].pc = "cached"]
  BY DEF ReadSecondName
<1>2. req[p] \in Keyed /\ req[p].seen \in Names \X Names /\ req[p].q \in Requests
  BY <1>1, RequestOf DEF Cached, TypeOK, Keyed, BuildingKey
<1>3. PICK k : k = KeyOf(req[p].q, req[p].seen[1], vary[2])
  OBVIOUS
<1>4. k \in Keys /\ k \notin AppKeys /\ (~overlap => k = KeyOf(req[p].q, Low, High))
  <2>1. req[p].seen[1] \in Names /\ vary[2] \in Names
    BY <1>2 DEF Cached, TypeOK
  <2>2. ~overlap => req[p].seen = Sorted /\ vary = Sorted
    BY <1>1 DEF SortInv, SortStage
  <2>3. ~overlap => req[p].seen[1] = Low /\ vary[2] = High
    BY <2>2 DEF Sorted
  <2>4. QED
    BY <1>2, <1>3, <2>1, <2>3, KeyFacts
<1>5. op' = [op EXCEPT ![p] = Op("serve", "load", k)]
  BY <1>3 DEF ReadSecondName
<1>6. PICK o \in Reading : o = Op("serve", "load", k)
  BY <1>4 DEF Op, Reading, Cached, TypeOK
<1>7. o.pc = "load" /\ o.call = "serve" /\ o.key = k /\ o.saw = NoEntry
  BY <1>6 DEF Op
<1>8. op'[p] = o /\ op' = [op EXCEPT ![p] = op'[p]] /\ o \in OpTypes
  BY <1>5, <1>6, OpKinds DEF Cached, TypeOK
<1>9. PICK r \in Keyed : r = [req[p] EXCEPT !.pc = "cached"]
  BY <1>2 DEF Keyed
<1>10. r.pc = "cached" /\ r.q = req[p].q
  BY <1>2, <1>9 DEF Keyed
<1>11. req'[p] = r /\ req' = [req EXCEPT ![p] = req'[p]] /\ r \in RequestTypes
  BY <1>1, <1>9 DEF Cached, TypeOK, RequestTypes, Keyed
<1>12. ReadGood(p)'
  <2>1. EntryGood(op[p].key, op[p].saw)'
    BY <1>7, <1>8 DEF EntryGood
  <2>2. QED
    BY <1>1, <1>4, <1>7, <1>8, <1>10, <1>11, <2>1 DEF ReadGood
<1>13. StoreGood(p)' /\ RequestGood(p)'
  BY <1>7, <1>8, <1>10, <1>11 DEF StoreGood, RequestGood
<1>14. QED
  <2>1. work' \in Nat /\ overlap' \in BOOLEAN /\ (overlap => overlap') /\ vary' \in Names \X Names
    BY <1>1 DEF Cached, TypeOK
  <2>2. QED
    BY <1>1, <1>8, <1>11, <1>12, <1>13, <2>1, RequestSteps

LEMMA AnswerKeeps ==
    ASSUME Cached, NEW p \in Slots, ServeFromCache(p) \/ CallHandler(p)
    PROVE  Cached'
<1>1. /\ op[p].call = "serve" /\ UNCHANGED <<storeVars, work, cleaner, vary, overlap>>
      /\ op' = [op EXCEPT ![p] = Idle]
      /\ work' \in Nat /\ overlap' \in BOOLEAN /\ (overlap => overlap') /\ vary' \in Names \X Names
  BY DEF ServeFromCache, CallHandler, Cached, TypeOK
<1>2. op[p] \in Reading /\ req[p].pc = "cached" /\ req[p] \in Keyed /\ ReadGood(p)
  BY <1>1, ServedWaits DEF Cached, SlotGood
<1>3. CASE ServeFromCache(p)
  <2>1. req' = [req EXCEPT ![p] = NoRequest] /\ NoRequest.pc = "none" /\ NoRequest \in RequestTypes
    BY <1>3 DEF ServeFromCache, NoRequest, RequestTypes
  <2>2. req'[p] = NoRequest /\ req' = [req EXCEPT ![p] = req'[p]]
    BY <2>1 DEF Cached, TypeOK
  <2>3. QED
    BY <1>1, <2>1, <2>2, IdleSteps
<1>4. CASE CallHandler(p)
  <2>1. req' = [req EXCEPT ![p] = Writing(req[p].q, op[p].key)]
    BY <1>4 DEF CallHandler
  <2>2. PICK w \in Handled : w = Writing(req[p].q, op[p].key)
    BY <1>2 DEF Writing, Handled, Keyed, Reading
  <2>3. w.pc = "handler" /\ w.q = req[p].q /\ w.key = op[p].key /\ w.body = 0 /\ w.length = 0
    BY <2>2 DEF Writing
  <2>4. req'[p] = w /\ req' = [req EXCEPT ![p] = req'[p]] /\ w \in RequestTypes
    BY <2>1, <2>2 DEF Cached, TypeOK, RequestTypes, Handled
  <2>5. w.key \notin AppKeys /\ (~overlap => w.key = KeyOf(w.q, Low, High))
    BY <1>1, <1>2, <2>3 DEF ReadGood
  <2>6. QED
    BY <1>1, <2>3, <2>4, <2>5, IdleSteps
<1>5. QED
  BY <1>3, <1>4

\* What is captured is all there is, unless it says it is not.
LEMMA CaptureIsWhole ==
    ASSUME NEW w \in Handled, NEW n \in Nat
    PROVE  /\ Capture(w, n).body \in Nat /\ Capture(w, n).truncated \in BOOLEAN
           /\ MaxBody = 0 \/ ~Capture(w, n).truncated =>
                 (MaxBody = 0 \/ ~w.truncated) /\ Capture(w, n).body = w.body + n
<1>1. w.body \in Nat /\ w.truncated \in BOOLEAN /\ MaxBody \in Nat
  BY RequestAssumptions DEF Handled
<1>2. CASE MaxBody = 0
  BY <1>1, <1>2 DEF Capture
<1>3. CASE MaxBody # 0 /\ (w.truncated \/ MaxBody - w.body <= 0)
  BY <1>1, <1>3 DEF Capture
<1>4. CASE MaxBody # 0 /\ ~(w.truncated \/ MaxBody - w.body <= 0) /\ n > MaxBody - w.body
  BY <1>1, <1>4 DEF Capture
<1>5. CASE MaxBody # 0 /\ ~(w.truncated \/ MaxBody - w.body <= 0) /\ ~(n > MaxBody - w.body)
  BY <1>1, <1>5 DEF Capture
<1>6. QED
  BY <1>2, <1>3, <1>4, <1>5

\* A step of a handler: its key and its request stay as they are.
LEMMA HandlerSteps ==
    ASSUME Cached, NEW p \in Slots, UNCHANGED <<storeVars, cacheVars, vary, overlap>>,
           req[p].pc = "handler", NEW o \in Handled, req' = [req EXCEPT ![p] = o],
           o.q = req[p].q, o.key = req[p].key,
           (MaxBody = 0 \/ ~o.truncated) /\ ~o.direct => o.body = o.length
    PROVE  Cached'
<1>1. op[p] = Idle /\ RequestGood(p) /\ o.pc = "handler"
  BY DEF Cached, SlotGood, RequestGood, Handled
<1>2. req'[p] = o /\ req' = [req EXCEPT ![p] = req'[p]] /\ o \in RequestTypes
  BY DEF Cached, TypeOK, RequestTypes, Handled
<1>3. o.key \notin AppKeys /\ (~overlap => o.key = KeyOf(o.q, Low, High))
  BY <1>1 DEF RequestGood
<1>4. op' = [op EXCEPT ![p] = Idle] /\ UNCHANGED <<storeVars, cleaner, work, overlap, vary>>
  BY <1>1 DEF Cached, TypeOK, cacheVars
<1>5. work' \in Nat /\ overlap' \in BOOLEAN /\ (overlap => overlap') /\ vary' \in Names \X Names
  BY <1>4 DEF Cached, TypeOK
<1>6. QED
  BY <1>1, <1>2, <1>3, <1>4, <1>5, IdleSteps

LEMMA WriteKeeps ==
    ASSUME Cached, NEW p \in Slots, NEW n \in Chunks, Write(p, n)
    PROVE  Cached'
<1>1. /\ req[p].pc = "handler" /\ UNCHANGED <<storeVars, cacheVars, vary, overlap>>
      /\ req' = [req EXCEPT ![p].body = Capture(req[p], n).body,
                            ![p].truncated = Capture(req[p], n).truncated,
                            ![p].length = @ + n]
  BY DEF Write, Sends
<1>2. req[p] \in Handled /\ n \in Nat /\ RequestGood(p)
  BY <1>1, RequestOf, RequestAssumptions DEF Cached, TypeOK, SlotGood
<1>3. PICK w \in Handled : w = req[p]
  BY <1>2
<1>4. PICK b \in Nat, t \in BOOLEAN :
         /\ b = Capture(w, n).body /\ t = Capture(w, n).truncated
         /\ MaxBody = 0 \/ ~t => (MaxBody = 0 \/ ~w.truncated) /\ b = w.body + n
  BY <1>2, CaptureIsWhole
<1>5. PICK o \in Handled : o = [w EXCEPT !.body = b, !.truncated = t, !.length = @ + n]
  <2>1. PICK l \in Nat : l = w.length + n
    BY <1>2 DEF Handled
  <2>2. [w EXCEPT !.body = b, !.truncated = t, !.length = l] \in Handled
    BY DEF Handled
  <2>3. QED
    BY <2>1, <2>2
<1>6. /\ o.pc = "handler" /\ o.q = w.q /\ o.key = w.key /\ o.body = b /\ o.truncated = t
      /\ o.length = w.length + n /\ o.direct = w.direct
  BY <1>5 DEF Handled
<1>7. req' = [req EXCEPT ![p] = o]
  BY <1>1, <1>3, <1>4, <1>5 DEF Cached, TypeOK, Handled
<1>8. (MaxBody = 0 \/ ~o.truncated) /\ ~o.direct => o.body = o.length
  BY <1>1, <1>2, <1>3, <1>4, <1>6 DEF RequestGood
<1>9. QED
  BY <1>1, <1>3, <1>6, <1>7, <1>8, HandlerSteps

\* What WriteString sends is not captured, and the request says so.
LEMMA WriteStringKeeps ==
    ASSUME Cached, NEW p \in Slots, NEW n \in Chunks, WriteString(p, n)
    PROVE  Cached'
<1>1. /\ req[p].pc = "handler" /\ UNCHANGED <<storeVars, cacheVars, vary, overlap>>
      /\ req' = [req EXCEPT ![p].length = @ + n, ![p].direct = TRUE]
  BY DEF WriteString, Sends
<1>2. req[p] \in Handled /\ n \in Nat
  BY <1>1, RequestOf, RequestAssumptions DEF Cached, TypeOK
<1>3. PICK w \in Handled : w = req[p]
  BY <1>2
<1>4. PICK o \in Handled : o = [w EXCEPT !.length = @ + n, !.direct = TRUE]
  <2>1. PICK l \in Nat : l = w.length + n
    BY <1>2 DEF Handled
  <2>2. [w EXCEPT !.length = l, !.direct = TRUE] \in Handled
    BY DEF Handled
  <2>3. QED
    BY <2>1, <2>2
<1>5. o.pc = "handler" /\ o.q = w.q /\ o.key = w.key /\ o.direct = TRUE
  BY <1>4 DEF Handled
<1>6. req' = [req EXCEPT ![p] = o]
  BY <1>1, <1>3, <1>4 DEF Cached, TypeOK, Handled
<1>7. QED
  BY <1>1, <1>3, <1>5, <1>6, HandlerSteps

LEMMA StoreKeeps ==
    ASSUME Cached, NEW p \in Slots, NEW a \in Answers, ProcessAndStore(p, a)
    PROVE  Cached'
<1> DEFINE response == [by |-> req[p].q, whole |-> req[p].body = req[p].length,
                     direct |-> req[p].direct]
<1>1. /\ req[p].pc = "handler" /\ req' = [req EXCEPT ![p] = NoRequest]
      /\ UNCHANGED <<storeVars, work, cleaner, vary, overlap>>
      /\ \/ op' = op
         \/ ~req[p].truncated /\ op' = [op EXCEPT ![p] = Setting(req[p].key, response, TTLOf(a))]
  BY DEF ProcessAndStore
<1>2. req[p] \in Handled /\ op[p] = Idle /\ RequestGood(p)
  BY <1>1, RequestOf DEF Cached, TypeOK, SlotGood, RequestGood
<1>3. req'[p] = NoRequest /\ NoRequest.pc = "none" /\ NoRequest \in RequestTypes
      /\ req' = [req EXCEPT ![p] = req'[p]]
  BY <1>1 DEF NoRequest, RequestTypes, Cached, TypeOK
<1>4. work' \in Nat /\ overlap' \in BOOLEAN /\ (overlap => overlap') /\ vary' \in Names \X Names
  BY <1>1 DEF Cached, TypeOK
<1>5. CASE op' = op
  <2>1. op' = [op EXCEPT ![p] = Idle]
    BY <1>2, <1>5 DEF Cached, TypeOK
  <2>2. QED
    BY <1>1, <1>3, <1>4, <2>1, IdleSteps
<1>6. CASE ~req[p].truncated /\ op' = [op EXCEPT ![p] = Setting(req[p].key, response, TTLOf(a))]
  <2>1. req[p].key \in Keys /\ response \in Responses /\ TTLOf(a) \in TTLs
    BY <1>2, RequestAssumptions DEF Handled, Responses, TTLOf
  <2>2. /\ ~response.direct => response.whole
        /\ ~overlap => req[p].key = KeyOf(response.by, Low, High)
    BY <1>1, <1>2, <1>6 DEF RequestGood
  <2>3. PayloadGood(req[p].key, response)
    BY <2>1, <2>2 DEF PayloadGood
  <2> HIDE DEF response
  <2>4. PICK o \in Storing : o = Setting(req[p].key, response, TTLOf(a))
    BY <2>1, SettingIs
  <2>5. o.key = req[p].key /\ o.item.payload = response
    BY <2>1, <2>4, SettingIs
  <2>6. op'[p] = o /\ op' = [op EXCEPT ![p] = op'[p]] /\ o \in OpTypes /\ o \notin Reading
    BY <1>6, <2>4, OpKinds DEF Cached, TypeOK, Storing, Reading
  <2>7. PayloadGood(o.key, o.item.payload)
    BY <2>3, <2>5
  <2>8. ReadGood(p)' /\ StoreGood(p)' /\ RequestGood(p)'
    BY <1>1, <1>3, <2>6, <2>7 DEF ReadGood, StoreGood, RequestGood, PayloadGood
  <2>9. QED
    BY <1>1, <1>3, <1>4, <2>6, <2>8, RequestSteps
<1>7. QED
  BY <1>1, <1>5, <1>6

-----------------------------------------------------------------------------
(* The whole.                                                               *)

LEMMA CachedInit == ASSUME Init PROVE Cached
<1>1. /\ kind \in Kinds /\ now = Second /\ data = [k \in Keys |-> NoEntry] /\ hot = data
      /\ shut = FALSE /\ op = [p \in Slots |-> Idle] /\ work = 0 /\ cleaner = Waiting
      /\ req = [p \in Slots |-> NoRequest] /\ vary = <<High, Low>> /\ overlap = FALSE
  BY DEF Init, CacheInit, StoreInit
<1>2. now \in Times
  BY <1>1, StoreAssumptions DEF Times
<1>3. Idle \in OpTypes /\ NoRequest \in RequestTypes /\ cleaner \in CleanerTypes
      /\ cleaner.pc = "wait" /\ Idle \notin Reading
  BY <1>1, OpKinds DEF RequestTypes, CleanerTypes, Waiting, Idle, Reading
<1>4. TypeOK
  BY <1>1, <1>2, <1>3, NamesDiffer DEF TypeOK
<1>5. DataGood /\ CleanerGood
  BY <1>1, <1>3 DEF DataGood, EntryGood, CleanerGood
<1>6. \A p \in Slots : SlotGood(p)
  BY <1>1, <1>3 DEF SlotGood, ReadGood, StoreGood, RequestGood, Idle, NoRequest
<1>7. QED
  BY <1>4, <1>5, <1>6 DEF Cached

LEMMA CachedKept ==
    ASSUME Cached, SortInv, [Next]_vars
    PROVE  Cached'
<1>1. ASSUME NEW p \in Slots, RequestStep(p) PROVE Cached'
  BY <1>1, KeyingKeeps, LookUpKeeps, AnswerKeeps, WriteKeeps, WriteStringKeeps, StoreKeeps
     DEF RequestStep
<1>2. ASSUME NEW p \in Slots, AppCalls(p) \/ CacheStep(p), UNCHANGED <<req, vary, overlap>>
      PROVE  Cached'
  BY <1>2, AppKeeps, CacheStepKeeps
<1>3. CASE CleanupStep /\ UNCHANGED <<req, vary, overlap>>
  BY <1>3, CleanupKeeps
<1>4. CASE (Close \/ (Environment /\ UNCHANGED cacheVars)) /\ UNCHANGED <<req, vary, overlap>>
  BY <1>4, WorldKeeps
<1>5. CASE UNCHANGED vars
  <2>1. UNCHANGED storeVars /\ UNCHANGED <<op, work, cleaner, req, vary, overlap>>
    BY <1>5 DEF vars, cacheVars
  <2>2. Passes /\ Forgets /\ now' \in Times /\ shut' \in BOOLEAN /\ cleaner' \in CleanerTypes
    BY <2>1, NothingForgets, SameTime DEF Cached, TypeOK
  <2>3. QED
    BY <2>1, <2>2, CleanerStays, WorldSteps
<1>6. QED
  BY <1>1, <1>2, <1>3, <1>4, <1>5 DEF Next, StoreSteps, CacheSteps

LEMMA CachedHolds == Spec => [](Cached /\ SortInv)
<1>1. Init => Cached /\ SortInv
  BY CachedInit, SortInit
<1>2. Cached /\ SortInv /\ [Next]_vars => (Cached /\ SortInv)'
  BY CachedKept, SortKept
<1>3. QED
  BY <1>1, <1>2, PTL DEF Spec

\* The variables keep their types, whichever store is configured (kv, cache.go,
\* middleware/cache.go).
THEOREM TypeCorrect == Spec => []TypeOK
<1>1. Cached => TypeOK
  BY DEF Cached
<1>2. QED
  BY <1>1, CachedHolds, PTL

\* No read, of any of the stores and by any caller, returns an entry that is past
\* its time to live: the wrapper's deadline lies at most a second before it, and
\* both deadlines travel with the entry into the group cache (ttl.go, Cache.Get).
THEOREM ReadsAreFresh == Spec => []ServedFresh
<1>1. Cached => ServedFresh
  <2>1. ASSUME Cached, NEW p \in Slots, op[p].pc = "hit" PROVE InTime(op[p])
    <3>1. op[p] \in Reading /\ ReadGood(p)
      BY <2>1, OpOf DEF Cached, TypeOK, SlotGood
    <3>2. QED
      BY <2>1, <3>1 DEF ReadGood
  <2>2. QED
    BY <2>1 DEF ServedFresh, InTime
<1>2. QED
  BY <1>1, CachedHolds, PTL

\* A response from the cache is all that the handler sent, whatever the sizes of its
\* writes and the limit of the capture, unless it used WriteString, which the
\* capturing writer does not have (bodyCaptureWriter.Write, processAndStore).
THEOREM ServedIsWhole == Spec => []ServedWhole
<1>1. Cached => ServedWhole
  <2>1. ASSUME Cached, NEW p \in Slots, op[p].call = "serve", op[p].pc = "hit"
        PROVE  ~op[p].saw.value.payload.direct => op[p].saw.value.payload.whole
    <3>1. op[p] \in Reading /\ ReadGood(p)
      BY <2>1, OpOf DEF Cached, TypeOK, SlotGood
    <3>2. QED
      BY <2>1, <3>1 DEF ReadGood, EntryGood, PayloadGood
  <2>2. QED
    BY <2>1 DEF ServedWhole
<1>2. QED
  BY <1>1, CachedHolds, PTL

\* Two requests with one key agree in all headers that the key has.
LEMMA KeyTells ==
    ASSUME NEW q, NEW r, KeyOf(q, Low, High) = KeyOf(r, Low, High)
    PROVE  \A n \in Names : q.headers[n] = r.headers[n]
<1>1. KeyOf(q, Low, High).hv = KeyOf(r, Low, High).hv
  OBVIOUS
<1>2. /\ <<<<Low, q.headers[Low]>>, <<High, q.headers[High]>>>>
         = <<<<Low, r.headers[Low]>>, <<High, r.headers[High]>>>>
  BY <1>1 DEF KeyOf, HeaderPart
<1>3. q.headers[Low] = r.headers[Low] /\ q.headers[High] = r.headers[High]
  BY <1>2
<1>4. QED
  BY <1>3 DEF Names

\* A response answers a request with the same headers, while no two requests met
\* at the list as it was being sorted (buildDefaultKey).
THEOREM VariantsAreTold == Spec => []SameVariant
<1>1. Cached => SameVariant
  <2>1. ASSUME Cached, ~overlap, NEW p \in Slots, op[p].call = "serve", op[p].pc = "hit"
        PROVE  \A n \in Names : op[p].saw.value.payload.by.headers[n] = req[p].q.headers[n]
    <3>1. op[p] \in Reading /\ ReadGood(p) /\ req[p] \in Keyed
      BY <2>1, ServedWaits DEF Cached, SlotGood
    <3>2. /\ op[p].saw.value.payload \in Responses
          /\ op[p].key = KeyOf(op[p].saw.value.payload.by, Low, High)
          /\ op[p].key = KeyOf(req[p].q, Low, High)
      BY <2>1, <3>1 DEF ReadGood, EntryGood, PayloadGood
    <3>3. PICK q, r : q = op[p].saw.value.payload.by /\ r = req[p].q
      OBVIOUS
    <3>4. KeyOf(q, Low, High) = KeyOf(r, Low, High)
      BY <3>2, <3>3
    <3>5. \A n \in Names : q.headers[n] = r.headers[n]
      BY <3>4, KeyTells
    <3>6. QED
      BY <3>3, <3>5
  <2>2. QED
    BY <2>1 DEF SameVariant
<1>2. QED
  BY <1>1, CachedHolds, PTL

-----------------------------------------------------------------------------
(* What is fresh stays.                                                     *)

\* What a reader removes, or the cleanup, is what it saw, or something else.
LEMMA RemovalsAreExcused ==
    ASSUME Cached, NEW k \in Keys, NEW e \in Entries \union {NoEntry}, e # NoEntry, e = data[k],
           Fresh(e)
    PROVE  /\ \A p \in Slots : Drop(p) /\ op[p].key = k => Excused(k)
           /\ CleanupDrop /\ cleaner.key = k => Excused(k)
<1>1. e \in Entries /\ DeadlineGood(e)
  BY DEF Cached, DataGood, EntryGood
<1>2. ~Over(e)
  BY <1>1, OverIsNotFresh DEF Cached
<1>3. ASSUME NEW p \in Slots, Drop(p), op[p].key = k PROVE Excused(k)
  <2>1. op[p].pc = "drop" /\ op[p] \in Reading /\ ReadGood(p)
    BY <1>3, OpOf DEF Drop, Cached, TypeOK, SlotGood
  <2>2. op[p].saw # e
    BY <1>2, <2>1 DEF ReadGood
  <2>3. QED
    BY <1>3, <2>1, <2>2 DEF Excused
<1>4. ASSUME CleanupDrop, cleaner.key = k PROVE Excused(k)
  <2>1. cleaner.pc = "drop"
    BY <1>4 DEF CleanupDrop
  <2>2. cleaner.saw # e
    BY <1>2, <2>1 DEF Cached, CleanerGood
  <2>3. QED
    BY <1>4, <2>1, <2>2 DEF Excused
<1>5. QED
  BY <1>3, <1>4

LEMMA FreshStays ==
    ASSUME Cached, Cached', [Next]_vars, NEW k \in Keys, data[k] # NoEntry, Fresh(data[k]),
           data'[k] = NoEntry
    PROVE  Excused(k)
<1>1. data' # data
  OBVIOUS
<1>2. ASSUME UNCHANGED storeVars PROVE FALSE
  BY <1>1, <1>2 DEF storeVars
<1>3. PICK e \in Entries \union {NoEntry} : e = data[k] /\ e # NoEntry /\ Fresh(e)
  <2>1. PICK e : e = data[k]
    OBVIOUS
  <2>2. e \in Entries \union {NoEntry}
    BY <2>1 DEF Cached, TypeOK
  <2>3. Fresh(e)
    BY <2>1 DEF Fresh
  <2>4. QED
    BY <2>1, <2>2, <2>3
<1>4. ASSUME NEW l \in Keys, StoreDelete(l) PROVE l = k
  BY <1>1, <1>4 DEF StoreDelete, Cached, TypeOK
<1>5. ASSUME NEW p \in Slots, CacheStep(p) PROVE Excused(k)
  <2>1. CASE Load(p) \/ LoadFails(p) \/ Check(p) \/ Return(p) \/ CallGetter(p) \/ Wrap(p)
               \/ RemoveEnds(p)
    BY <1>1, <1>2, <2>1 DEF Load, LoadFails, Check, Return, CallGetter, Wrap, RemoveEnds
  <2>2. CASE Drop(p)
    <3>1. op[p].key \in Keys /\ StoreDelete(op[p].key)
      BY <1>2, <2>2, OpOf DEF Drop, Cached, TypeOK, Reading
    <3>2. QED
      BY <1>3, <1>4, <2>2, <3>1, RemovalsAreExcused
  <2>3. CASE Put(p)
    <3>1. op[p] \in Storing /\ StorePut(op[p].key, op[p].item, op[p].ttl)
      BY <1>2, <2>3, OpOf DEF Put, Cached, TypeOK
    <3>2. PICK l \in Keys : l = op[p].key
      BY <3>1 DEF Storing
    <3>3. PayloadGood(l, op[p].item.payload) /\ op[p].item \in Items /\ op[p].ttl \in TTLs
      BY <2>3, <3>1, <3>2 DEF Put, Storing, Cached, SlotGood, StoreGood
    <3>4. Stored(op[p].item, op[p].ttl) # NoEntry
      BY <3>3, StoredIsGood DEF Cached
    <3>5. data'[k] \in {data[k], Stored(op[p].item, op[p].ttl)}
      BY <3>1, <3>2 DEF StorePut, Cached, TypeOK
    <3>6. QED
      BY <3>4, <3>5
  <2>4. CASE RemoveOne(p)
    <3>1. PICK l \in op[p].todo : StoreDelete(l)
      BY <2>4 DEF RemoveOne
    <3>2. op[p].pc = "remove" /\ l \in Keys
      BY <2>4, OpOf DEF RemoveOne, Cached, TypeOK, Removals
    <3>3. QED
      BY <1>4, <3>1, <3>2 DEF Excused
  <2>5. QED
    BY <1>5, <2>1, <2>2, <2>3, <2>4 DEF CacheStep
<1>6. ASSUME NEW p \in Slots, AppCalls(p) \/ RequestStep(p) PROVE FALSE
  <2>1. AppCalls(p) => UNCHANGED storeVars
    BY DEF AppCalls, StartRead, StartDelete, StartClear, StartRemove
  <2>2. RequestStep(p) => UNCHANGED storeVars
    BY DEF RequestStep, StartRequest, Sort, SortStep, ReadFirstName, ReadSecondName,
           ServeFromCache, CallHandler, Write, WriteString, ProcessAndStore
  <2>3. QED
    BY <1>2, <1>6, <2>1, <2>2
<1>7. CASE CleanupStep
  <2>1. CASE CleanupTick \/ CleanupGet \/ CleanupStops
    BY <1>2, <2>1 DEF CleanupTick, CleanupGet, CleanupStops
  <2>2. CASE CleanupDrop
    <3>1. cleaner.key \in Keys /\ StoreDelete(cleaner.key)
      BY <1>2, <2>2 DEF CleanupDrop, Cached, TypeOK, CleanerTypes
    <3>2. QED
      BY <1>3, <1>4, <2>2, <3>1, RemovalsAreExcused
  <2>3. QED
    BY <1>7, <2>1, <2>2 DEF CleanupStep
<1>8. CASE Close \/ Environment
  BY <1>1, <1>8 DEF Close, StoreClose, Environment, Tick, Evict
<1>9. CASE UNCHANGED vars
  BY <1>1, <1>9 DEF vars, storeVars
<1>10. QED
  BY <1>5, <1>6, <1>7, <1>8, <1>9 DEF Next, StoreSteps, CacheSteps

\* What has a second or more to live is removed only by Delete and Clear, or by a
\* reader or the cleanup that found another entry there, one past its deadline
\* (MemoryKV.Get and its like, Cache.Get, the cleanup).
THEOREM FreshEntriesStay == Spec => KeepsFresh
<1>1. Cached /\ Cached' /\ [Next]_vars => [KeepsFreshStep]_vars
  <2>1. ASSUME Cached, Cached', [Next]_vars PROVE KeepsFreshStep
    BY <2>1, FreshStays DEF KeepsFreshStep
  <2>2. QED
    BY <2>1
<1>2. QED
  BY <1>1, CachedHolds, PTL DEF Spec, KeepsFresh

-----------------------------------------------------------------------------
(* The cache keeps the promises of ExpiringMap.                             *)

task == [p \in Slots |-> Task(op[p])]
swept == IF cleaner.pc = "drop" THEN {cleaner.key} ELSE {}

LEMMA TaskIs ==
    ASSUME NEW o
    PROVE  /\ o.pc = "load" => Task(o) = [does |-> "read", key |-> o.key]
           /\ o.pc \in {"check", "hit"} => Task(o) = Map!Have(o.key, o.saw)
           /\ o.pc = "drop" => Task(o) = Map!Lapse(o.key)
           /\ o.pc \in {"wrap", "put"} =>
                 Task(o) = [does |-> "write", key |-> o.key,
                            value |-> o.item.payload, ttl |-> o.ttl]
           /\ o.pc = "remove" => Task(o) = [does |-> "remove", keys |-> o.todo]
           /\ o.pc \in {"idle", "miss"} => Task(o) = Map!Nothing
  BY DEF Task, Map!Have, Map!Lapse, Map!Nothing

\* A step of slot p changes what p is about and no other.
LEMMA TaskMoves ==
    ASSUME TypeOK, NEW p \in Slots, NEW o, op' = [op EXCEPT ![p] = o]
    PROVE  /\ task[p] = Task(op[p]) /\ op'[p] = o
           /\ task' = [task EXCEPT ![p] = Task(o)]
           /\ Map!Do(p, Task(o))
           /\ Task(o) = Task(op[p]) => task' = task
<1>1. op'[p] = o /\ \A q \in Slots \ {p} : op'[q] = op[q]
  BY DEF TypeOK
<1>2. task' = [q \in Slots |-> Task(op'[q])]
  BY DEF task, Task
<1>3. task = [q \in Slots |-> Task(op[q])]
  BY DEF task
<1>4. task' = [task EXCEPT ![p] = Task(o)]
  BY <1>1, <1>2, <1>3
<1>5. QED
  BY <1>1, <1>3, <1>4 DEF task, Map!Do

LEMMA TaskStays == op' = op => task' = task
  BY DEF task, Task

LEMMA SweptStays == cleaner' = cleaner => swept' = swept
  BY DEF swept

LEMMA MapStutters ==
    ASSUME UNCHANGED <<kind, now, data, hot>>, task' = task, swept' = swept
    PROVE  UNCHANGED Map!mapVars
  BY DEF Map!mapVars, task, swept

\* An operation begins, ends, or goes on in ways the map does not tell.
LEMMA TaskBegins ==
    ASSUME TypeOK, NEW p \in Slots, UNCHANGED <<storeVars, cleaner>>,
           NEW o, op' = [op EXCEPT ![p] = o],
           op[p].pc \in {"idle", "miss"}, Task(o) \in Map!Calls
    PROVE  Map!Call(p)
<1>1. /\ task[p] = Map!Nothing /\ task'[p] = Task(o) /\ Map!Do(p, Task(o))
  BY TaskMoves, TaskIs DEF task
<1>2. QED
  BY <1>1, SweptStays DEF Map!Call, task, swept, storeVars

LEMMA TaskEnds ==
    ASSUME TypeOK, NEW p \in Slots, UNCHANGED <<kind, now, data, hot, cleaner>>,
           NEW o, op' = [op EXCEPT ![p] = o], o.pc \in {"idle", "miss"}
    PROVE  Map!End(p)
<1>1. Map!Do(p, Task(o)) /\ Task(o) = Map!Nothing
  BY TaskMoves, TaskIs
<1>2. QED
  BY <1>1, SweptStays DEF Map!End, swept

LEMMA TaskGoesOn ==
    ASSUME TypeOK, NEW p \in Slots, UNCHANGED <<kind, now, data, hot, cleaner>>,
           NEW o, op' = [op EXCEPT ![p] = o], Task(o) = Task(op[p])
    PROVE  UNCHANGED Map!mapVars
  BY TaskMoves, MapStutters, SweptStays

\* The store's own test, or that of the cache.
LEMMA OverIsDue ==
    ASSUME TypeOK, NEW e \in Entries, DeadlineGood(e)
    PROVE  /\ Over(e) => Map!Due(e)
           /\ LocallyExpired(e) => Map!Past(e)
           /\ ~Expired(e) => Map!Alive(e)
<1>1. /\ now \in Nat /\ e.at \in Nat /\ e.ttl \in Nat /\ Second \in Nat \ {0}
      /\ e.value.e \in Nat
  BY TimeFacts, EntryFacts DEF TypeOK
<1>2. LocallyExpired(e) => Map!Past(e)
  BY DEF LocallyExpired, Map!Past
<1>3. Over(e) => Map!Due(e)
  BY <1>1, OverIsNotFresh DEF Fresh, Map!Due, Map!Past
<1>4. ~Expired(e) => Map!Alive(e)
  BY <1>1, InTimeUnlessExpired DEF Map!Alive
<1>5. QED
  BY <1>2, <1>3, <1>4

LEMMA LoadReads ==
    ASSUME Cached, NEW p \in Slots, Load(p)
    PROVE  Map!Read(p) \/ Map!End(p)
<1> DEFINE e == Lookup(p)
           k == op[p].key
           keeps == op[p].call = "exists" /\ kind = "groupcache"
<1>1. PICK pc \in {"miss", "drop", "hit", "check"} :
        /\ op' = [op EXCEPT ![p].saw = e, ![p].readAt = now, ![p].pc = pc]
        /\ pc = "drop" => e # NoEntry /\ Expired(e)
        /\ pc \in {"hit", "check"} => e # NoEntry /\ ~Expired(e)
        /\ pc = "miss" => e = NoEntry \/ keeps
  BY DEF Load
<1>2. /\ op[p].pc = "load" /\ UNCHANGED <<kind, now, data, cleaner>>
      /\ IF op[p].call = "exists" THEN UNCHANGED hot ELSE Remember(k)
  BY DEF Load
<1>3. op[p] \in Reading /\ k \in Keys /\ TypeOK
  BY <1>2, OpOf DEF Cached, TypeOK, Reading
<1>4. /\ e \in Entries \union {NoEntry} /\ EntryGood(k, e)
      /\ data[k] \in Entries \union {NoEntry} /\ hot \in [Keys -> Entries \union {NoEntry}]
  BY <1>3, FoundIsGood DEF Lookup, TypeOK
<1>5. /\ e \in {data[k], hot[k], NoEntry}
      /\ e = NoEntry /\ ~(op[p].call = "exists") => data[k] = NoEntry \/ kind # "groupcache"
      /\ kind \in {"memory", "groupcache", "nats", "redis"}
  BY <1>3, StoreAssumptions
     DEF Lookup, Found, FoundByExists, GroupcacheExists, MemoryGet, NATSGet, GroupcacheGet,
         RedisGet, TypeOK
<1>6. \/ UNCHANGED hot
      \/ kind = "groupcache" /\ hot[k] = NoEntry /\ hot' = [hot EXCEPT ![k] = data[k]]
  BY <1>2, <1>3, <1>4 DEF Remember, GroupcacheGet
<1>7. PICK o : /\ o = [op[p] EXCEPT !.saw = e, !.readAt = now, !.pc = pc]
               /\ op' = [op EXCEPT ![p] = o]
  BY <1>1, <1>3 DEF TypeOK
<1>8. o.pc = pc /\ o.saw = e /\ o.key = k
  BY <1>3, <1>7 DEF Reading
<1> HIDE DEF e, k, keeps
<1>9. CASE pc = "miss"
  <2>1. UNCHANGED hot
    BY <1>1, <1>2, <1>4, <1>5, <1>6, <1>9 DEF keeps
  <2>2. QED
    BY <1>2, <1>3, <1>7, <1>8, <1>9, <2>1, TaskEnds
<1>10. CASE pc # "miss"
  <2>1. e \in Entries /\ e \in Map!Shown(k) /\ DeadlineGood(e)
    BY <1>1, <1>4, <1>5, <1>10 DEF EntryGood, Map!Shown
  <2>2. task[p] = [does |-> "read", key |-> k] /\ Map!Do(p, Task(o))
    BY <1>2, <1>3, <1>7, TaskMoves, TaskIs DEF k
  <2>3. \/ Map!Alive(e) /\ Map!Do(p, Map!Have(k, e))
        \/ Map!Due(e) /\ Map!Do(p, Map!Lapse(k))
    BY <1>1, <1>3, <1>8, <1>10, <2>1, <2>2, OverIsDue, TaskIs DEF Over
  <2>4. swept' = swept
    BY <1>2, SweptStays
  <2>5. \/ UNCHANGED hot
        \/ kind = "groupcache" /\ hot[k] = NoEntry /\ hot' = [hot EXCEPT ![k] = data[k]]
    BY <1>6
  <2>6. QED
    BY <1>2, <2>1, <2>2, <2>3, <2>4, <2>5 DEF Map!Read, task, swept
<1>11. QED
  BY <1>9, <1>10

\* Only a tick moves the clock, and no step the store in use.
LEMMA TimePasses ==
    ASSUME TypeOK, [Next]_vars
    PROVE  now' >= now /\ kind' = kind
<1>1. now \in Nat
  BY TimeFacts DEF TypeOK
<1>2. ASSUME NEW p \in Slots, RequestStep(p) PROVE UNCHANGED <<now, kind>>
  BY <1>2 DEF RequestStep, StartRequest, Sort, SortStep, ReadFirstName, ReadSecondName,
              ServeFromCache, CallHandler, Write, WriteString, ProcessAndStore, storeVars
<1>3. ASSUME NEW p \in Slots, AppCalls(p) \/ CacheStep(p) PROVE UNCHANGED <<now, kind>>
  BY <1>3 DEF AppCalls, StartRead, StartDelete, StartClear, StartRemove, CacheStep, Load,
              LoadFails, Check, Drop, Return, CallGetter, Wrap, Put, RemoveOne, RemoveEnds,
              StorePut, StoreDelete, storeVars
<1>4. ASSUME CleanupStep \/ Close \/ UNCHANGED vars PROVE UNCHANGED <<now, kind>>
  BY <1>4 DEF CleanupStep, CleanupTick, CleanupGet, CleanupDrop, CleanupStops, Close,
              StoreClose, StoreDelete, storeVars, vars
<1>5. CASE Environment
  BY <1>1, <1>5 DEF Environment, Tick, Evict
<1>6. QED
  BY <1>1, <1>2, <1>3, <1>4, <1>5 DEF Next, StoreSteps, CacheSteps

\* What a Set is about to store ends, by its own deadline, within its time to live.
WriteGood(p) ==
    op[p].pc = "put" /\ op[p].item.e > 0 =>
        op[p].ttl > 0 /\ op[p].item.e <= now + op[p].ttl

WriteInv == \A p \in Slots : WriteGood(p)

\* Only Wrap brings an operation to its call of the store's Set.
LEMMA OnlyWrapPuts ==
    ASSUME Cached, [Next]_vars, NEW p \in Slots, ~Wrap(p)
    PROVE  op'[p] = op[p] \/ op'[p].pc # "put"
<1>1. op \in [Slots -> OpTypes] /\ TypeOK
  BY DEF Cached, TypeOK
<1>2. ASSUME NEW q \in Slots, NEW o, op' = [op EXCEPT ![q] = o], q = p => o.pc # "put"
      PROVE  op'[p] = op[p] \/ op'[p].pc # "put"
  BY <1>1, <1>2
<1>3. ASSUME NEW q \in Slots, op[q] \in Reading, NEW pc \in {"check", "drop", "hit", "miss"},
             op' = [op EXCEPT ![q].pc = pc]
      PROVE  op'[p] = op[p] \/ op'[p].pc # "put"
  BY <1>1, <1>3 DEF Reading
<1>4. ASSUME NEW q \in Slots, Load(q) PROVE op'[p] = op[p] \/ op'[p].pc # "put"
  <2>1. PICK pc \in {"miss", "drop", "hit", "check"} :
          op' = [op EXCEPT ![q].saw = Lookup(q), ![q].readAt = now, ![q].pc = pc]
    BY <1>4 DEF Load
  <2>2. op[q] \in Reading
    BY <1>1, <1>4, OpOf DEF Load
  <2>3. QED
    BY <1>1, <2>1, <2>2 DEF Reading
<1>5. ASSUME NEW q \in Slots, LoadFails(q) \/ Check(q) \/ Drop(q)
      PROVE  op'[p] = op[p] \/ op'[p].pc # "put"
  <2>1. op[q] \in Reading
    BY <1>1, <1>5, OpOf DEF LoadFails, Check, Drop
  <2>2. PICK pc \in {"check", "drop", "hit", "miss"} : op' = [op EXCEPT ![q].pc = pc]
    BY <1>5 DEF LoadFails, Check, Drop
  <2>3. QED
    BY <1>3, <2>1, <2>2
<1>6. ASSUME NEW q \in Slots, Return(q) \/ CallGetter(q) \/ Put(q) \/ RemoveEnds(q)
      PROVE  op'[p] = op[p] \/ op'[p].pc # "put"
  <2>1. \A k, v, ttl : Idle.pc # "put" /\ Setting(k, v, ttl).pc # "put"
    BY DEF Idle, Setting
  <2>2. \/ op' = [op EXCEPT ![q] = Idle]
        \/ \E k, v, ttl : op' = [op EXCEPT ![q] = Setting(k, v, ttl)]
    BY <1>6 DEF Return, CallGetter, Put, RemoveEnds
  <2>3. QED
    BY <1>2, <2>1, <2>2
<1>7. ASSUME NEW q \in Slots, RemoveOne(q) PROVE op'[p] = op[p] \/ op'[p].pc # "put"
  <2>1. op[q] \in Removals
    BY <1>1, <1>7, OpOf DEF RemoveOne
  <2>2. PICK k : op' = [op EXCEPT ![q].todo = @ \ {k}]
    BY <1>7 DEF RemoveOne
  <2>3. QED
    BY <1>1, <2>1, <2>2 DEF Removals
<1>8. ASSUME NEW q \in Slots, Wrap(q) PROVE op'[p] = op[p]
  BY <1>1, <1>8 DEF Wrap
<1>9. ASSUME NEW q \in Slots, AppCalls(q) PROVE op'[p] = op[p] \/ op'[p].pc # "put"
  <2>1. \A call, k, ks : Op(call, "load", k).pc # "put" /\ Removing(call, ks).pc # "put"
    BY DEF Op, Removing
  <2>2. \/ \E call, k : op' = [op EXCEPT ![q] = Op(call, "load", k)]
        \/ \E call, ks : op' = [op EXCEPT ![q] = Removing(call, ks)]
    BY <1>9 DEF AppCalls, StartRead, StartDelete, StartClear, StartRemove
  <2>3. QED
    BY <1>2, <2>1, <2>2
<1>10. ASSUME NEW q \in Slots, RequestStep(q) PROVE op'[p] = op[p] \/ op'[p].pc # "put"
  <2>1. \A k, v, ttl : Idle.pc # "put" /\ Setting(k, v, ttl).pc # "put"
                       /\ Op("serve", "load", k).pc # "put"
    BY DEF Idle, Setting, Op
  <2>2. \/ op' = op
        \/ op' = [op EXCEPT ![q] = Idle]
        \/ \E k : op' = [op EXCEPT ![q] = Op("serve", "load", k)]
        \/ \E k, v, ttl : op' = [op EXCEPT ![q] = Setting(k, v, ttl)]
    <3>1. ASSUME ReadSecondName(q)
          PROVE  \E k : op' = [op EXCEPT ![q] = Op("serve", "load", k)]
      BY <3>1 DEF ReadSecondName
    <3>2. ASSUME NEW a \in Answers, ProcessAndStore(q, a)
          PROVE  op' = op \/ \E k, v, ttl : op' = [op EXCEPT ![q] = Setting(k, v, ttl)]
      BY <3>2 DEF ProcessAndStore
    <3>3. ASSUME ServeFromCache(q) \/ CallHandler(q) PROVE op' = [op EXCEPT ![q] = Idle]
      BY <3>3 DEF ServeFromCache, CallHandler
    <3>4. ASSUME \/ \E r \in Requests : StartRequest(q, r)
                 \/ Sort(q) \/ ReadFirstName(q) \/ \E n \in Chunks : Write(q, n) \/ WriteString(q, n)
          PROVE  op' = op
      BY <3>4 DEF StartRequest, Sort, SortStep, ReadFirstName, Write, WriteString, cacheVars
    <3>5. QED
      BY <1>10, <3>1, <3>2, <3>3, <3>4 DEF RequestStep
  <2>3. QED
    BY <1>2, <2>1, <2>2
<1>11. CASE CleanupStep \/ Close \/ (Environment /\ UNCHANGED cacheVars) \/ UNCHANGED vars
  BY <1>11 DEF CleanupStep, CleanupTick, CleanupGet, CleanupDrop, CleanupStops, Close,
               cacheVars, vars
<1>12. QED
  BY <1>4, <1>5, <1>6, <1>7, <1>8, <1>9, <1>10, <1>11
     DEF Next, StoreSteps, CacheSteps, CacheStep

LEMMA WriteStep ==
    ASSUME Cached, Cached', WriteInv, [Next]_vars
    PROVE  WriteInv'
<1>1. ASSUME NEW p \in Slots PROVE WriteGood(p)'
  <2>1. CASE Wrap(p)
    <3>1. /\ op[p] \in Storing /\ UNCHANGED now /\ op[p].item \in Items
          /\ op' = [op EXCEPT ![p].pc = "put", ![p].item.e = IF UseLocalTTL /\ op[p].ttl > 0
                                                             THEN now + op[p].ttl ELSE 0]
      BY <2>1, OpOf DEF Wrap, Cached, TypeOK, storeVars, Storing
    <3>2. /\ op'[p].ttl = op[p].ttl
          /\ op'[p].item.e = IF UseLocalTTL /\ op[p].ttl > 0 THEN now + op[p].ttl ELSE 0
      BY <3>1 DEF Cached, TypeOK, Storing, Items
    <3>3. now \in Nat /\ op[p].ttl \in Nat
      BY <3>1, TimeFacts DEF Cached, TypeOK, Storing
    <3>4. QED
      BY <3>1, <3>2, <3>3 DEF WriteGood
  <2>2. CASE op'[p] = op[p] /\ op[p].pc = "put"
    <3>1. op[p] \in Storing /\ now \in Nat /\ now' \in Nat
      BY <2>2, OpOf, TimeFacts DEF Cached, TypeOK
    <3>2. op[p].item.e \in Nat /\ op[p].ttl \in Nat
      BY <3>1, TimeFacts DEF Storing, Items
    <3>3. now' >= now
      BY <3>1, TimePasses DEF Cached
    <3>4. QED
      BY <2>2, <3>1, <3>2, <3>3 DEF WriteInv, WriteGood
  <2>3. CASE op'[p].pc # "put"
    BY <2>3 DEF WriteGood
  <2>4. QED
    BY <2>1, <2>2, <2>3, OnlyWrapPuts
<1>2. QED
  BY <1>1 DEF WriteInv

\* A step of the map, or none.
MapStep == Map!MapNext \/ UNCHANGED Map!mapVars

LEMMA ClientSteps ==
    ASSUME NEW p \in Slots,
           \/ Map!Call(p) \/ Map!End(p) \/ Map!Read(p) \/ Map!Judge(p)
           \/ Map!RemoveDue(p) \/ Map!Remove(p) \/ Map!Write(p)
    PROVE  MapStep
  BY DEF MapStep, Map!MapNext, Map!ClientStep

LEMMA BeginsAre ==
    ASSUME TypeOK, NEW k \in Keys
    PROVE  /\ \A call : Task(Op(call, "load", k)) \in Map!Calls
           /\ \A v \in Responses \union GetterValues, ttl \in TTLs :
                 Task(Setting(k, v, ttl)) \in Map!Calls
<1>1. \A call : Task(Op(call, "load", k)) = [does |-> "read", key |-> k]
  BY DEF Op, Task
<1>2. \A v, ttl : Task(Setting(k, v, ttl)) = [does |-> "write", key |-> k, value |-> v, ttl |-> ttl]
  BY DEF Setting, Task
<1>3. QED
  BY <1>1, <1>2 DEF Map!Calls

LEMMA IdleIs == Idle.pc = "idle"
  BY DEF Idle

LEMMA StoreFixed ==
    ASSUME UNCHANGED storeVars PROVE UNCHANGED <<kind, now, data, hot>>
  BY DEF storeVars

LEMMA ReadingSteps ==
    ASSUME Cached, NEW p \in Slots, LoadFails(p) \/ Check(p) \/ Drop(p)
    PROVE  MapStep
<1>1. op[p] \in Reading /\ op \in [Slots -> OpTypes] /\ TypeOK /\ ReadGood(p) /\ cleaner' = cleaner
  BY OpOf DEF LoadFails, Check, Drop, Cached, TypeOK, SlotGood
<1>2. ASSUME NEW pc \in {"drop", "hit", "miss"}, op' = [op EXCEPT ![p].pc = pc]
      PROVE  \E o : /\ op' = [op EXCEPT ![p] = o] /\ o.pc = pc
                    /\ o.key = op[p].key /\ o.saw = op[p].saw
  <2>1. PICK o : o = [op[p] EXCEPT !.pc = pc]
    OBVIOUS
  <2>2. op' = [op EXCEPT ![p] = o] /\ o.pc = pc /\ o.key = op[p].key /\ o.saw = op[p].saw
    BY <1>1, <1>2, <2>1 DEF Reading
  <2>3. QED
    BY <2>2
<1>3. CASE (LoadFails(p) \/ Drop(p)) /\ UNCHANGED storeVars
  <2>1. PICK o : op' = [op EXCEPT ![p] = o] /\ o.pc = "miss"
    BY <1>2, <1>3 DEF LoadFails, Drop
  <2>2. QED
    BY <1>1, <1>3, <2>1, StoreFixed, TaskEnds, ClientSteps
<1>4. CASE Check(p)
  <2>1. PICK pc \in {"drop", "hit"} : /\ op' = [op EXCEPT ![p].pc = pc]
                                      /\ pc = "drop" => LocallyExpired(op[p].saw)
    BY <1>4 DEF Check
  <2>2. PICK o : /\ op' = [op EXCEPT ![p] = o] /\ o.pc = pc
                 /\ o.key = op[p].key /\ o.saw = op[p].saw
    BY <1>2, <2>1
  <2>3. /\ op[p].pc = "check" /\ Task(op[p]) = Map!Have(op[p].key, op[p].saw)
        /\ UNCHANGED <<kind, now, data, hot>>
    BY <1>4, TaskIs, StoreFixed DEF Check
  <2>4. CASE pc = "hit"
    BY <1>1, <2>2, <2>3, <2>4, TaskIs, TaskGoesOn DEF MapStep
  <2>5. CASE pc = "drop"
    <3>1. op[p].saw \in Entries /\ DeadlineGood(op[p].saw)
      BY <1>1, <2>3 DEF ReadGood, EntryGood, Reading
    <3>2. Map!Past(op[p].saw)
      BY <1>1, <2>1, <2>5, <3>1, OverIsDue
    <3>3. Task(o) = Map!Lapse(op[p].key)
      BY <2>2, <2>5, TaskIs
    <3>4. task[p] = Map!Have(op[p].key, op[p].saw) /\ Map!Do(p, Task(o))
      BY <1>1, <2>2, <2>3, TaskMoves
    <3>5. /\ task[p].does = "have" /\ task[p].entry = op[p].saw /\ task[p].key = op[p].key
          /\ Map!Do(p, Map!Lapse(op[p].key))
      BY <3>3, <3>4 DEF Map!Have
    <3>6. Map!Judge(p)
      BY <1>1, <2>3, <3>2, <3>5, SweptStays DEF Map!Judge, task, swept
    <3>7. QED
      BY <3>6, ClientSteps
  <2>6. QED
    BY <2>4, <2>5
<1>5. CASE Drop(p) /\ StoreDelete(op[p].key)
  <2>1. PICK o : op' = [op EXCEPT ![p] = o] /\ o.pc = "miss"
    BY <1>2, <1>5 DEF Drop
  <2>2. op[p].pc = "drop" /\ Task(op[p]) = Map!Lapse(op[p].key) /\ Task(o) = Map!Nothing
    BY <1>5, <2>1, TaskIs DEF Drop
  <2>3. task[p] = Map!Lapse(op[p].key) /\ Map!Do(p, Task(o))
    BY <1>1, <2>1, <2>2, TaskMoves
  <2>4. UNCHANGED <<kind, now, hot>> /\ Map!Forget(op[p].key)
    BY <1>5 DEF StoreDelete, Map!Forget
  <2>5. /\ task[p].does = "lapse" /\ task[p].key = op[p].key /\ Map!Do(p, Map!Nothing)
    BY <2>2, <2>3 DEF Map!Lapse
  <2>6. Map!RemoveDue(p)
    BY <1>1, <2>4, <2>5, SweptStays DEF Map!RemoveDue, task, swept
  <2>7. QED
    BY <2>6, ClientSteps
<1>6. QED
  BY <1>3, <1>4, <1>5 DEF LoadFails, Drop

LEMMA RemovingSteps ==
    ASSUME Cached, NEW p \in Slots, Return(p) \/ RemoveOne(p) \/ RemoveEnds(p)
    PROVE  MapStep
<1>1. op[p] \in OpTypes /\ TypeOK /\ cleaner' = cleaner
  BY DEF Cached, TypeOK, Return, RemoveOne, RemoveEnds
<1>2. CASE Return(p) \/ RemoveEnds(p)
  BY <1>1, <1>2, IdleIs, StoreFixed, TaskEnds, ClientSteps DEF Return, RemoveEnds
<1>3. CASE RemoveOne(p)
  <2>1. op[p] \in Removals /\ op[p].pc = "remove"
    BY <1>1, <1>3, OpOf DEF RemoveOne
  <2>2. PICK k \in op[p].todo : StoreDelete(k) /\ op' = [op EXCEPT ![p].todo = @ \ {k}]
    BY <1>3 DEF RemoveOne
  <2>3. PICK o \in Removals : o = [op[p] EXCEPT !.todo = @ \ {k}]
    BY <2>1 DEF Removals
  <2>4. op' = [op EXCEPT ![p] = o] /\ o.pc = "remove" /\ o.todo = op[p].todo \ {k}
    BY <1>1, <2>1, <2>2, <2>3 DEF TypeOK, Removals
  <2>5. /\ task[p] = [does |-> "remove", keys |-> op[p].todo] /\ Map!Do(p, Task(o))
        /\ Task(o) = [does |-> "remove", keys |-> op[p].todo \ {k}]
    BY <1>1, <2>1, <2>4, TaskMoves, TaskIs
  <2>6. [task[p] EXCEPT !.keys = @ \ {k}] = [does |-> "remove", keys |-> op[p].todo \ {k}]
    BY <2>5
  <2>7. UNCHANGED <<kind, now, hot>> /\ Map!Forget(k)
    BY <2>2 DEF StoreDelete, Map!Forget
  <2>8. /\ task[p].does = "remove" /\ k \in task[p].keys
        /\ Map!Do(p, [task[p] EXCEPT !.keys = @ \ {k}])
    BY <2>5, <2>6
  <2>9. Map!Remove(p)
    BY <1>1, <2>7, <2>8, SweptStays DEF Map!Remove, task, swept
  <2>10. QED
    BY <2>9, ClientSteps
<1>4. QED
  BY <1>2, <1>3

LEMMA GetterSteps ==
    ASSUME Cached, NEW p \in Slots, CallGetter(p)
    PROVE  MapStep
<1>1. /\ op[p] \in Reading /\ op[p].pc = "miss" /\ op[p].key \in Keys /\ TypeOK
      /\ UNCHANGED <<storeVars, cleaner>>
  BY OpOf DEF CallGetter, Cached, TypeOK, Reading
<1>2. CASE op' = [op EXCEPT ![p] = Idle]
  BY <1>1, <1>2, IdleIs, StoreFixed, TaskEnds, ClientSteps
<1>3. ASSUME NEW v \in GetterValues, NEW ttl \in TTLs,
             op' = [op EXCEPT ![p] = Setting(op[p].key, v, ttl)]
      PROVE  MapStep
  BY <1>1, <1>3, BeginsAre, TaskBegins, ClientSteps
<1>4. QED
  BY <1>2, <1>3 DEF CallGetter

LEMMA WrapSteps ==
    ASSUME Cached, NEW p \in Slots, Wrap(p)
    PROVE  MapStep
<1> DEFINE e == IF UseLocalTTL /\ op[p].ttl > 0 THEN now + op[p].ttl ELSE 0
<1>1. /\ op[p].pc = "wrap" /\ op' = [op EXCEPT ![p].pc = "put", ![p].item.e = e]
      /\ UNCHANGED <<storeVars, cleaner>> /\ op[p] \in Storing /\ TypeOK
  BY OpOf DEF Wrap, Cached, TypeOK
<1> HIDE DEF e
<1>2. PICK o : /\ o = [op[p] EXCEPT !.pc = "put", !.item.e = e]
               /\ op' = [op EXCEPT ![p] = o]
  BY <1>1 DEF TypeOK, Storing
<1>3. /\ o.pc = "put" /\ o.key = op[p].key /\ o.ttl = op[p].ttl
      /\ o.item.payload = op[p].item.payload
  BY <1>1, <1>2 DEF Storing, Items
<1>4. Task(o) = Task(op[p])
  BY <1>1, <1>3, TaskIs
<1>5. QED
  BY <1>1, <1>2, <1>4, StoreFixed, TaskGoesOn DEF MapStep

LEMMA PutSteps ==
    ASSUME Cached, WriteInv, NEW p \in Slots, Put(p)
    PROVE  MapStep
<1>1. /\ op[p].pc = "put" /\ op' = [op EXCEPT ![p] = Idle] /\ cleaner' = cleaner
      /\ op[p] \in Storing /\ TypeOK
  BY OpOf DEF Put, Cached, TypeOK
<1>2. CASE UNCHANGED storeVars
  BY <1>1, <1>2, IdleIs, StoreFixed, TaskEnds, ClientSteps
<1>3. CASE StorePut(op[p].key, op[p].item, op[p].ttl)
  <2>1. PICK k \in Keys : k = op[p].key
    BY <1>1 DEF Storing
  <2>2. op[p].item \in Items /\ op[p].ttl \in TTLs /\ PayloadGood(k, op[p].item.payload)
    BY <1>1, <2>1 DEF Storing, Cached, SlotGood, StoreGood
  <2>3. PICK s \in Entries : s = Stored(op[p].item, op[p].ttl) /\ s # NoEntry
    BY <2>2, StoredIsGood DEF Cached
  <2>4. s.value = op[p].item /\ s.at = now /\ s.ttl = op[p].ttl
    BY <2>3 DEF Stored
  <2>5. /\ data' = [data EXCEPT ![k] = s] /\ UNCHANGED <<kind, now, hot>> /\ data'[k] = s
    BY <1>1, <1>3, <2>1, <2>3 DEF StorePut, TypeOK
  <2>6. /\ task[p] = [does |-> "write", key |-> k, value |-> op[p].item.payload, ttl |-> op[p].ttl]
        /\ Map!Do(p, Task(Idle)) /\ Task(Idle) = Map!Nothing
    BY <1>1, <2>1, TaskMoves, TaskIs, IdleIs
  <2>7. s.value.e > 0 => op[p].ttl > 0 /\ s.value.e <= now + op[p].ttl
    BY <1>1, <2>4 DEF WriteInv, WriteGood
  <2>8. Map!Do(p, Map!Nothing)
    BY <2>6
  <2>9. /\ task[p].does = "write" /\ task[p].key = k
        /\ task[p].value = s.value.payload /\ task[p].ttl = s.ttl
    BY <2>4, <2>6
  <2>10. Map!Write(p)
    BY <1>1, <2>3, <2>4, <2>5, <2>7, <2>8, <2>9, SweptStays DEF Map!Write, task, swept
  <2>11. QED
    BY <2>10, ClientSteps
<1>4. QED
  BY <1>2, <1>3 DEF Put

LEMMA AppSteps ==
    ASSUME Cached, NEW p \in Slots, AppCalls(p)
    PROVE  MapStep
<1>1. TypeOK /\ AppKeys \subseteq Keys /\ AllKeys \in SUBSET Keys
  BY RequestAssumptions, KeysAreKeys DEF Cached
<1>2. ASSUME NEW k \in AppKeys, NEW call, StartRead(p, call, k) PROVE MapStep
  BY <1>1, <1>2, IdleIs, BeginsAre, TaskBegins, ClientSteps DEF StartRead
<1>3. ASSUME NEW call, NEW ks \in SUBSET Keys, StartRemove(p, call, ks) PROVE MapStep
  <2>1. Task(Removing(call, ks)) \in Map!Calls
    <3>1. Task(Removing(call, ks)) = [does |-> "remove", keys |-> ks]
      BY DEF Removing, Task
    <3>2. QED
      BY <3>1 DEF Map!Calls
  <2>2. QED
    BY <1>1, <1>3, <2>1, IdleIs, TaskBegins, ClientSteps DEF StartRemove
<1>4. QED
  BY <1>1, <1>2, <1>3 DEF AppCalls, StartDelete, StartClear

LEMMA RequestsAreSteps ==
    ASSUME Cached, NEW p \in Slots, RequestStep(p)
    PROVE  MapStep
<1>1. TypeOK /\ op \in [Slots -> OpTypes] /\ RequestGood(p)
  BY DEF Cached, TypeOK, SlotGood
<1>2. ASSUME op' = op, UNCHANGED <<storeVars, cleaner>> PROVE MapStep
  BY <1>2, TaskStays, SweptStays, StoreFixed, MapStutters DEF MapStep
<1>3. CASE \/ \E q \in Requests : StartRequest(p, q)
           \/ Sort(p) \/ ReadFirstName(p) \/ \E n \in Chunks : Write(p, n) \/ WriteString(p, n)
  BY <1>2, <1>3 DEF StartRequest, Sort, SortStep, ReadFirstName, Write, WriteString, cacheVars
<1>4. CASE ReadSecondName(p)
  <2>1. req[p].pc = "read2" /\ UNCHANGED <<storeVars, cleaner>> /\ op[p] = Idle
    BY <1>1, <1>4 DEF ReadSecondName, RequestGood
  <2>2. req[p] \in Keyed /\ req[p].seen \in Names \X Names /\ req[p].q \in Requests
    BY <2>1, RequestOf DEF Cached, TypeOK, Keyed, BuildingKey
  <2>3. PICK k \in Keys : k = KeyOf(req[p].q, req[p].seen[1], vary[2])
    BY <2>2, KeyFacts DEF Cached, TypeOK
  <2>4. op' = [op EXCEPT ![p] = Op("serve", "load", k)]
    BY <1>4, <2>3 DEF ReadSecondName
  <2>5. QED
    BY <1>1, <2>1, <2>4, IdleIs, BeginsAre, TaskBegins, ClientSteps
<1>5. CASE ServeFromCache(p) \/ CallHandler(p)
  BY <1>1, <1>5, IdleIs, StoreFixed, TaskEnds, ClientSteps DEF ServeFromCache, CallHandler
<1>6. ASSUME NEW a \in Answers, ProcessAndStore(p, a) PROVE MapStep
  <2> DEFINE response == [by |-> req[p].q, whole |-> req[p].body = req[p].length,
                     direct |-> req[p].direct]
  <2>1. /\ req[p].pc = "handler" /\ UNCHANGED <<storeVars, cleaner>>
        /\ op' = op \/ op' = [op EXCEPT ![p] = Setting(req[p].key, response, TTLOf(a))]
    BY <1>6 DEF ProcessAndStore
  <2>2. req[p] \in Handled /\ op[p] = Idle
    BY <1>1, <2>1, RequestOf DEF TypeOK, RequestGood
  <2>3. req[p].key \in Keys /\ response \in Responses /\ TTLOf(a) \in TTLs
    BY <2>2, RequestAssumptions DEF Handled, Responses, TTLOf
  <2> HIDE DEF response
  <2>4. CASE op' = op
    BY <1>2, <2>1, <2>4
  <2>5. CASE op' = [op EXCEPT ![p] = Setting(req[p].key, response, TTLOf(a))]
    BY <1>1, <2>1, <2>2, <2>3, <2>5, IdleIs, BeginsAre, TaskBegins, ClientSteps
  <2>6. QED
    BY <2>1, <2>4, <2>5
<1>7. QED
  BY <1>3, <1>4, <1>5, <1>6 DEF RequestStep

LEMMA CleanupSteps ==
    ASSUME Cached, CleanupStep
    PROVE  MapStep
<1>1. task' = task /\ TypeOK /\ cleaner \in CleanerTypes
  BY TaskStays DEF CleanupStep, CleanupTick, CleanupGet, CleanupDrop, CleanupStops, Cached, TypeOK
<1>2. Waiting.pc = "wait"
  BY DEF Waiting
<1>3. ASSUME cleaner.pc # "drop", cleaner'.pc # "drop", UNCHANGED storeVars PROVE MapStep
  BY <1>1, <1>3, StoreFixed, MapStutters DEF MapStep, swept
<1>4. CASE CleanupTick \/ CleanupStops
  BY <1>2, <1>3, <1>4 DEF CleanupTick, CleanupStops
<1>5. CASE CleanupGet
  <2>1. cleaner.pc = "get" /\ cleaner.todo \in SUBSET Keys /\ UNCHANGED storeVars
    BY <1>1, <1>5 DEF CleanupGet, CleanerTypes
  <2>2. PICK k \in cleaner.todo :
           \/ /\ Found(k) # NoEntry /\ LocallyExpired(Found(k))
              /\ cleaner' = [pc |-> "drop", key |-> k, saw |-> Found(k), todo |-> cleaner.todo \ {k}]
           \/ cleaner' = Waiting
           \/ cleaner' = [pc |-> "get", todo |-> cleaner.todo \ {k}]
    BY <1>5 DEF CleanupGet
  <2>3. k \in Keys
    BY <2>1
  <2>4. PICK e : e = Found(k)
    OBVIOUS
  <2>5. CASE /\ e # NoEntry /\ LocallyExpired(e)
             /\ cleaner' = [pc |-> "drop", key |-> k, saw |-> e, todo |-> cleaner.todo \ {k}]
    <3>1. e \in {data[k], hot[k], NoEntry}
      BY <1>1, <2>3, <2>4, StoreAssumptions
         DEF Found, MemoryGet, NATSGet, GroupcacheGet, RedisGet, TypeOK
    <3>2. e \in Map!Shown(k) /\ Map!Past(e)
      BY <2>5, <3>1 DEF Map!Shown, Map!Past, LocallyExpired
    <3>3. swept = {} /\ swept' = {k}
      BY <2>1, <2>5 DEF swept
    <3>4. Map!Sweep(k)
      BY <1>1, <2>1, <3>2, <3>3, StoreFixed DEF Map!Sweep, task, swept
    <3>5. QED
      BY <2>3, <3>4 DEF MapStep, Map!MapNext
  <2>6. CASE cleaner' = Waiting \/ cleaner' = [pc |-> "get", todo |-> cleaner.todo \ {k}]
    BY <1>2, <1>3, <2>1, <2>6
  <2>7. QED
    BY <2>2, <2>4, <2>5, <2>6
<1>6. CASE CleanupDrop
  <2>1. /\ cleaner.pc = "drop" /\ UNCHANGED <<kind, now, hot>>
        /\ UNCHANGED data \/ data' = [data EXCEPT ![cleaner.key] = NoEntry]
        /\ cleaner'.pc # "drop"
    BY <1>2, <1>6 DEF CleanupDrop, StoreDelete, storeVars
  <2>2. swept = {cleaner.key} /\ swept' = {}
    BY <2>1 DEF swept
  <2>3. UNCHANGED data \/ \E k \in swept : Map!Forget(k)
    BY <2>1, <2>2 DEF Map!Forget
  <2>4. Map!EndSweep
    BY <1>1, <2>1, <2>2, <2>3 DEF Map!EndSweep, task, swept
  <2>5. QED
    BY <2>4 DEF MapStep, Map!MapNext
<1>7. QED
  BY <1>4, <1>5, <1>6 DEF CleanupStep

LEMMA WorldIsSteps ==
    ASSUME Cached, Close \/ (Environment /\ UNCHANGED cacheVars) \/ UNCHANGED vars
    PROVE  MapStep
<1>1. task' = task /\ swept' = swept
  BY TaskStays, SweptStays DEF Close, cacheVars, vars
<1>2. CASE Close \/ UNCHANGED vars
  BY <1>1, <1>2, StoreFixed, MapStutters DEF MapStep, Close, StoreClose, vars
<1>3. CASE Tick
  <2>1. Map!Advance
    BY <1>1, <1>3 DEF Tick, Map!Advance, task, swept
  <2>2. QED
    BY <2>1 DEF MapStep, Map!MapNext
<1>4. ASSUME NEW k \in Keys, Evict(k) PROVE MapStep
  <2>1. Map!DropCopy(k)
    BY <1>1, <1>4 DEF Evict, Map!DropCopy, task, swept
  <2>2. QED
    BY <2>1 DEF MapStep, Map!MapNext
<1>5. QED
  BY <1>2, <1>3, <1>4 DEF Environment

LEMMA MapStart == ASSUME Init PROVE Map!MapInit /\ WriteInv
<1>1. /\ now = Second /\ data = [k \in Keys |-> NoEntry] /\ hot = data
      /\ op = [p \in Slots |-> Idle] /\ cleaner.pc = "wait"
  BY DEF Init, CacheInit, StoreInit, Waiting
<1>2. task = [p \in Slots |-> Map!Nothing] /\ swept = {}
  BY <1>1, IdleIs, TaskIs DEF task, swept
<1>3. Map!MapInit
  BY <1>1, <1>2 DEF Map!MapInit, task, swept
<1>4. WriteInv
  BY <1>1, IdleIs DEF WriteInv, WriteGood
<1>5. QED
  BY <1>3, <1>4

LEMMA StepsAreSteps == ASSUME Cached, WriteInv, [Next]_vars PROVE MapStep
<1>1. ASSUME NEW p \in Slots, CacheStep(p) PROVE MapStep
  BY <1>1, LoadReads, ReadingSteps, RemovingSteps, GetterSteps, WrapSteps, PutSteps, ClientSteps
     DEF CacheStep
<1>2. QED
  BY <1>1, AppSteps, RequestsAreSteps, CleanupSteps, WorldIsSteps
     DEF Next, StoreSteps, CacheSteps

\* The cache over any of its stores implements ExpiringMap: what Get, Exists and the
\* middleware return was under the key, and alive, when the store read it, a Set
\* stores its value at most once, and what is removed was named by a caller or had
\* been seen past its time under its key.
THEOREM CacheImplementsMap == Spec => MapSpec
<1>1. Cached /\ Cached' /\ WriteInv /\ [Next]_vars => WriteInv'
  BY WriteStep
<1>2. Cached /\ WriteInv /\ [Next]_vars => [Map!MapNext]_(Map!mapVars)
  BY StepsAreSteps DEF MapStep
<1>3. Init => Map!MapInit /\ WriteInv
  BY MapStart
<1>4. QED
  BY <1>1, <1>2, <1>3, CachedHolds, PTL DEF Spec, MapSpec, Map!MapSpec
=============================================================================
