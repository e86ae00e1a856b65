---------------------------- MODULE ResponseCache ----------------------------
(***************************************************************************)
(* pkg/middleware/cache.go: requests that look for their response in the   *)
(* cache, and on a miss run the handler and store what it wrote, from a    *)
(* goroutine of its own.  Beside them other code uses the cache.           *)
(*                                                                         *)
(* The key of a request has its method, its route with the query, and the  *)
(* headers of the vary list, which buildDefaultKey sorts in place: all     *)
(* requests share the list and nothing guards it.  The model takes one     *)
(* that has two names out of order, and reads and writes of a name as      *)
(* single steps.                                                           *)
(***************************************************************************)
EXTENDS GenericCache

CONSTANTS
    Requests,       \* the requests clients make
    Methods,        \* CacheConfig.Methods
    Low, High,      \* the vary headers, in the order of their spelling
    Answers,        \* what handlers answer: status and Cache-Control
    Chunks,         \* the sizes of what a handler writes at a time
    MaxBody,        \* CacheConfig.MaxBodyBytes, 0 for no limit
    DefaultTTL,     \* CacheConfig.TTL
    AppKeys,        \* the keys other code uses
    MaxLength       \* bound: the length of a response

VARIABLES
    req,            \* req[p]: the request slot p serves
    vary,           \* CacheConfig.VaryHeaders
    overlap         \* auxiliary: two requests built their keys at a time while
                    \* the list was not yet sorted

vars == <<storeVars, cacheVars, req, vary, overlap>>

Names == {Low, High}
Sorted == <<Low, High>>

ASSUME RequestAssumptions ==
    /\ Low # High
    /\ \A q \in Requests : DOMAIN q.headers = Names
    /\ \A a \in Answers : a.ok \in BOOLEAN /\ a.shared \in BOOLEAN /\ a.maxAge \in Nat
    /\ Chunks \subseteq Nat /\ MaxBody \in Nat /\ MaxLength \in Nat
    /\ DefaultTTL \in TTLs \ {0}
    /\ \A a \in Answers : a.maxAge \in TTLs
    /\ AppKeys \subseteq Keys

\* A response as stored: whose it is, whether it is all that the handler's client
\* got, and, which is history, whether the handler used WriteString.
Responses == [by : Requests, whole : BOOLEAN, direct : BOOLEAN]

Items == [payload : Responses \union GetterValues, e : Nat]
Entries == Entry(Items)

\* A key without an entry is told from one with an entry.
ASSUME EntryAssumption == NoEntry \notin Entries

-----------------------------------------------------------------------------
\* Mutant of HeaderPart: the name without the value.
BareHeaderPart(q, n) == <<n, "">>

HeaderPart(q, n) == <<n, q.headers[n]>>

\* buildDefaultKey, given the names it read from the list; the hash of the key
\* is taken to be injective.
KeyOf(q, n1, n2) ==
    [method |-> q.method, route |-> q.route,
     hv |-> <<HeaderPart(q, n1), HeaderPart(q, n2)>>]

ASSUME KeyAssumption ==
    \A q \in Requests, n1, n2 \in Names : KeyOf(q, n1, n2) \in Keys \ AppKeys

NoRequest == [pc |-> "none"]
Serving(pc, q, seen) == [pc |-> pc, q |-> q, seen |-> seen]
BuildingKey == {"sort", "swap", "store1", "store2", "read1", "read2"}
Building(p) == req[p].pc \in BuildingKey

\* shouldBypass.
Bypasses(q) == q.method \notin Methods \/ q.bypass

StartRequest(p, q) ==
    /\ op[p] = Idle /\ req[p] = NoRequest
    /\ ~Bypasses(q)
    /\ Spends(RequestWeight)
    /\ req' = [req EXCEPT ![p] = Serving("sort", q, vary)]
    /\ overlap' = (overlap \/ (vary # Sorted /\ \E r \in Slots : Building(r)))
    /\ UNCHANGED <<storeVars, op, cleaner, vary>>

\* sort.Strings on two names: compare, load both, store the second, store the
\* first.
SortStep(p, from, to, list) ==
    /\ req[p].pc = from
    /\ req' = [req EXCEPT ![p].pc = to, ![p].seen = IF from = "swap" THEN vary ELSE @]
    /\ vary' = list
    /\ UNCHANGED <<storeVars, cacheVars, overlap>>

Sort(p) ==
    \/ SortStep(p, "sort", IF vary = <<High, Low>> THEN "swap" ELSE "read1", vary)
    \/ SortStep(p, "swap", "store1", vary)
    \/ SortStep(p, "store1", "store2", <<vary[1], req[p].seen[1]>>)
    \/ SortStep(p, "store2", "read1", <<req[p].seen[2], vary[2]>>)

\* The names are read one at a time while the key is written.
ReadFirstName(p) ==
    /\ req[p].pc = "read1"
    /\ req' = [req EXCEPT ![p].pc = "read2", ![p].seen = <<vary[1], vary[2]>>]
    /\ UNCHANGED <<storeVars, cacheVars, vary, overlap>>

\* With the second the key is complete, and serveFromCache reads the cache.
ReadSecondName(p) ==
    /\ req[p].pc = "read2"
    /\ op' = [op EXCEPT ![p] =
                Op("serve", "load", KeyOf(req[p].q, req[p].seen[1], vary[2]))]
    /\ req' = [req EXCEPT ![p].pc = "cached"]
    /\ UNCHANGED <<storeVars, work, cleaner, vary, overlap>>

\* A hit, or a 304, ends the request.
ServeFromCache(p) ==
    /\ op[p].call = "serve" /\ op[p].pc = "hit"
    /\ op' = [op EXCEPT ![p] = Idle]
    /\ req' = [req EXCEPT ![p] = NoRequest]
    /\ UNCHANGED <<storeVars, work, cleaner, vary, overlap>>

-----------------------------------------------------------------------------
\* On a miss the handler runs, behind a writer that captures what is passed to
\* its Write.
Writing(q, k) ==
    [pc |-> "handler", q |-> q, key |-> k, length |-> 0, direct |-> FALSE,
     body |-> 0, truncated |-> FALSE]

CallHandler(p) ==
    /\ op[p].call = "serve" /\ op[p].pc = "miss"
    /\ op' = [op EXCEPT ![p] = Idle]
    /\ req' = [req EXCEPT ![p] = Writing(req[p].q, op[p].key)]
    /\ UNCHANGED <<storeVars, work, cleaner, vary, overlap>>

\* Mutant of Capture: a write that is cut short is not noticed.
CutCapture(w, n) ==
    LET remain == MaxBody - w.body
    IN  IF MaxBody = 0 \/ n <= remain
        THEN [body |-> w.body + n, truncated |-> w.truncated]
        ELSE [body |-> MaxBody, truncated |-> w.truncated \/ remain <= 0]

\* bodyCaptureWriter.Write.
Capture(w, n) ==
    LET remain == MaxBody - w.body
    IN  IF MaxBody = 0 THEN [body |-> w.body + n, truncated |-> FALSE]
        ELSE IF w.truncated \/ remain <= 0
             THEN [body |-> w.body, truncated |-> TRUE]
        ELSE IF n > remain THEN [body |-> w.body + remain, truncated |-> TRUE]
        ELSE [body |-> w.body + n, truncated |-> FALSE]

\* The client gets n more bytes.  Bound: MaxLength.
Sends(p, n) == req[p].pc = "handler" /\ req[p].length + n <= MaxLength

Write(p, n) ==
    /\ Sends(p, n)
    /\ LET c == Capture(req[p], n)
       IN  req' = [req EXCEPT ![p].body = c.body,
                              ![p].truncated = c.truncated,
                              ![p].length = @ + n]
    /\ UNCHANGED <<storeVars, cacheVars, vary, overlap>>

\* bodyCaptureWriter has no WriteString of its own: the one of the gin writer it
\* embeds sends the bytes, and nothing captures them.
WriteString(p, n) ==
    /\ Sends(p, n)
    /\ req' = [req EXCEPT ![p].length = @ + n, ![p].direct = TRUE]
    /\ UNCHANGED <<storeVars, cacheVars, vary, overlap>>

\* Mutant of TTLOf: max-age is added to the default.
ExtendedTTL(a) == a.maxAge + DefaultTTL

\* parseCacheControlTTL: max-age overrides the default.
TTLOf(a) == IF a.maxAge > 0 THEN a.maxAge ELSE DefaultTTL

\* processAndStore: what may be stored is, by a goroutine that goes on when the
\* request has ended; a context that ended with it makes the store fail.
ProcessAndStore(p, a) ==
    LET w == req[p]
        response == [by |-> w.q, whole |-> w.body = w.length, direct |-> w.direct]
    IN  /\ w.pc = "handler"
        /\ req' = [req EXCEPT ![p] = NoRequest]
        /\ op' = IF a.ok /\ a.shared /\ ~w.truncated
                 THEN [op EXCEPT ![p] = Setting(w.key, response, TTLOf(a))] ELSE op
        /\ UNCHANGED <<storeVars, work, cleaner, vary, overlap>>

-----------------------------------------------------------------------------
Init ==
    /\ CacheInit
    /\ req = [p \in Slots |-> NoRequest]
    /\ vary = <<High, Low>>
    /\ overlap = FALSE

RequestStep(p) ==
    \/ \E q \in Requests : StartRequest(p, q)
    \/ Sort(p) \/ ReadFirstName(p) \/ ReadSecondName(p)
    \/ ServeFromCache(p) \/ CallHandler(p)
    \/ \E n \in Chunks : Write(p, n) \/ WriteString(p, n)
    \/ \E a \in Answers : ProcessAndStore(p, a)

\* Other code that uses the cache.
AppCalls(p) ==
    /\ req[p] = NoRequest
    /\ \/ \E k \in AppKeys, call \in {"getOrSet", "exists"} : StartRead(p, call, k)
       \/ \E k \in AppKeys : StartDelete(p, k)
       \/ StartClear(p)

CacheSteps ==
    \/ \E p \in Slots : AppCalls(p) \/ CacheStep(p)
    \/ CleanupStep \/ Close

Environment == Tick \/ \E k \in Keys : Evict(k)

StoreSteps == (CacheSteps \/ (Environment /\ UNCHANGED cacheVars))
              /\ UNCHANGED <<req, vary, overlap>>

Next == (\E p \in Slots : RequestStep(p)) \/ StoreSteps

Spec == Init /\ [][Next]_vars

-----------------------------------------------------------------------------
OpTypes ==
    {Idle}
    \union [pc : {"load", "check", "drop", "hit", "miss"},
            call : {"getOrSet", "exists", "serve"}, key : Keys,
            saw : Entries \union {NoEntry}, readAt : Times]
    \union [pc : {"wrap", "put"}, call : {"set"}, key : Keys, item : Items, ttl : TTLs]
    \union [pc : {"remove"}, call : {"delete", "clear"}, todo : SUBSET Keys]

RequestTypes ==
    {NoRequest}
    \union [pc : BuildingKey \union {"cached"}, q : Requests, seen : Names \X Names]
    \union [pc : {"handler"}, q : Requests, key : Keys, length : Nat,
            direct : BOOLEAN, body : Nat, truncated : BOOLEAN]

CleanerTypes ==
    [pc : {"wait"}, armed : BOOLEAN] \union [pc : {"get"}, todo : SUBSET Keys]
    \union [pc : {"drop"}, key : Keys, saw : Entries, todo : SUBSET Keys]
    \union {[pc |-> "ended"]}

\* The types of the variables.
TypeOK ==
    /\ kind \in Kinds /\ now \in Times /\ shut \in BOOLEAN
    /\ data \in [Keys -> Entries \union {NoEntry}]
    /\ hot \in [Keys -> Entries \union {NoEntry}]
    /\ op \in [Slots -> OpTypes]
    /\ work \in Nat
    /\ cleaner \in CleanerTypes
    /\ req \in [Slots -> RequestTypes]
    /\ vary \in Names \X Names
    /\ overlap \in BOOLEAN

\* Whatever the store, a read that returns an entry with a time to live read it
\* before that time had passed since it was stored: the lost part of a second,
\* and a group cache that nothing clears, never make an entry live longer.
ServedFresh ==
    \A p \in Slots :
        op[p].pc = "hit" /\ op[p].saw.ttl > 0 =>
            op[p].readAt < op[p].saw.at + op[p].saw.ttl

\* A response from the cache is the whole of the one the client of the handler got,
\* whatever the sizes of the writes and the limit of the capture, if the handler
\* used Write alone.  (What one passes to WriteString is missing from it.)
ServedWhole ==
    \A p \in Slots :
        op[p].call = "serve" /\ op[p].pc = "hit" =>
            LET r == op[p].saw.value.payload IN ~r.direct => r.whole

\* As long as no two requests built their keys at a time while the list was
\* being sorted, a response from the cache answered a request that has the same
\* values for all headers of the vary list.
SameVariant ==
    ~overlap =>
        \A p \in Slots :
            op[p].call = "serve" /\ op[p].pc = "hit" =>
                \A n \in Names :
                    op[p].saw.value.payload.by.headers[n] = req[p].q.headers[n]

\* The removals that may hit an entry that is not expired: Delete, Clear, and
\* those of a reader that found another, expired entry under the key.
Excused(k) ==
    \/ \E p \in Slots :
          \/ op[p].pc = "remove" /\ k \in op[p].todo
          \/ op[p].pc = "drop" /\ op[p].key = k /\ op[p].saw # data[k]
    \/ cleaner.pc = "drop" /\ cleaner.key = k /\ cleaner.saw # data[k]

\* An entry with a whole second left to live, by the local deadline too.
Fresh(e) ==
    /\ e.ttl > 0 => now + Second <= e.at + e.ttl
    /\ e.value.e > 0 => now <= e.value.e

KeepsFreshStep ==
    \A k \in Keys :
        data[k] # NoEntry /\ Fresh(data[k]) /\ data'[k] = NoEntry => Excused(k)

\* An entry with a second or more to live leaves the store only by Delete or
\* Clear, or when it replaced the expired entry that the remover had found: the
\* lost part of a second, and the race of the two-step expiry in the stores, in
\* Get and in the cleanup, cost nothing else.
KeepsFresh == [][KeepsFreshStep]_vars

\* The cache keeps the promises of ExpiringMap, for all stores: what a reader
\* gets was under its key, and alive, when the store read it, a Set stores its value
\* once at most, and nothing is removed but what a caller named or an expired entry
\* was seen under.
Task(o) ==
    CASE o.pc = "load" -> [does |-> "read", key |-> o.key]
      [] o.pc \in {"check", "hit"} -> [does |-> "have", key |-> o.key, entry |-> o.saw]
      [] o.pc = "drop" -> [does |-> "lapse", key |-> o.key]
      [] o.pc \in {"wrap", "put"} ->
           [does |-> "write", key |-> o.key, value |-> o.item.payload, ttl |-> o.ttl]
      [] o.pc = "remove" -> [does |-> "remove", keys |-> o.todo]
      [] OTHER -> [does |-> "nothing"]

Map == INSTANCE ExpiringMap
         WITH Values <- Responses \union GetterValues, Clients <- Slots,
              copying <- kind = "groupcache", map <- data, copy <- hot,
              task <- [p \in Slots |-> Task(op[p])],
              swept <- IF cleaner.pc = "drop" THEN {cleaner.key} ELSE {}

MapSpec == Map!MapSpec
=============================================================================
