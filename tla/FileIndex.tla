------------------------------ MODULE FileIndex ------------------------------
(***************************************************************************)
(* files.go, files_meta.go and files_list.go: the table of files, which a  *)
(* synchronisation fills from what it listed of the bucket, one row at a   *)
(* time, and the search over it, whose answers a cache keeps for a while.  *)
(* The rows' categories, descriptions and tags, here one annotation, and   *)
(* content types come from outside and are to stay.                        *)
(*                                                                         *)
(* No operation removes a row.                                             *)
(***************************************************************************)
EXTENDS FileVersions

CONSTANTS
    Scopes,         \* the dates a synchronisation is asked for, 0 where none
    Marks,          \* what a row may be annotated with
    Filters         \* what a search asks for: an annotation, "" for anything

VARIABLES
    rows,           \* rows[k]: the row of object key k under its owner
    cache,          \* cache[s]: the cached answer to search s
    told            \* auxiliary: told[k]: the last annotation of row k

vars == <<bucketVars, job, work, rows, cache, told>>
tableVars == <<rows, cache, told>>

ASSUME IndexAssumptions ==
    /\ Scopes \subseteq [year : Nat, month : Nat, day : Nat]
    /\ Marks \subseteq [type : Types, note : STRING]
    /\ Filters \subseteq STRING

Notes == {""} \union {m.note : m \in Marks}        \* "" is none

\* "modified" is the write that a listing's LastModified and ETag stand for.  The
\* identifier of the version is empty in rows: the listing is one without versions.
NoRow == [note |-> "no row"]
Row(n, body, type, note) == [modified |-> n, body |-> body, type |-> type, note |-> note]

-----------------------------------------------------------------------------
\* parseAndValidateYMD.
Valid(s) ==
    /\ s.day > 0 => s.year > 0 /\ s.month > 0
    /\ s.month <= 12 /\ s.day <= 31

\* Mutant of HasPrefix: a month without a year is taken for one of every year.
MonthPrefix(s, k) ==
    /\ s.year > 0 => k.year = s.year
    /\ s.month > 0 => k.month = s.month

\* SyncObjectsToDBByDate: the prefix it lists, and the objects of a day.  Without
\* any date SyncObjectsToDB lists the same as this does.
HasPrefix(s, k) ==
    /\ s.year > 0 /\ s.month <= 0 => k.year = s.year
    /\ s.year > 0 /\ s.month > 0 => k.year = s.year /\ k.month = s.month

OfDay(s, date) ==
    s.year > 0 /\ s.month > 0 /\ s.day > 0 =>
        date.year = s.year /\ date.month = s.month /\ date.day = s.day

ToSync(u, s) ==
    {v \in Keys \X Ids :
        /\ v[1].owner = u /\ Shown(v[1], v[2])
        /\ HasPrefix(s, v[1]) /\ OfDay(s, hist[v[1]][v[2]].date)}

\* What the comment on SyncObjectsToDBByDate says each combination means.
Meant(u, s) ==
    {v \in Keys \X Ids :
        /\ v[1].owner = u /\ Shown(v[1], v[2])
        /\ CASE s.year > 0 /\ s.month = 0 /\ s.day = 0 -> v[1].year = s.year
             [] s.year > 0 /\ s.month > 0 /\ s.day = 0 ->
                    v[1].year = s.year /\ v[1].month = s.month
             [] s.year > 0 /\ s.month > 0 /\ s.day > 0 ->
                    /\ v[1].year = s.year /\ v[1].month = s.month
                    /\ hist[v[1]][v[2]].date = s
             [] OTHER -> TRUE}

Syncs(u, pcs) == {p \in Slots : job[p].pc \in pcs /\ job[p].user = u}

Item(v) == [key |-> v[1], modified |-> v[2], body |-> hist[v[1]][v[2]].body]

\* SyncFileMeta lists the objects.  "meant" and "alone" are history: what the
\* synchronisation is to bring into the table, and that no other one of the
\* user ran beside it.
StartSync(p, u, s) ==
    LET others == Syncs(u, {"sync"})
    IN  /\ Valid(s)
        /\ job[p] = Idle /\ Takes(IndexWork)
        /\ job' = [q \in Slots |->
                     IF q = p THEN [pc |-> "sync", user |-> u,
                                    todo |-> {Item(v) : v \in ToSync(u, s)},
                                    meant |-> {Item(v) : v \in Meant(u, s)},
                                    failed |-> FALSE, alone |-> others = {}]
                     ELSE IF q \in Syncs(u, {"sync", "synced"}) THEN [job[q] EXCEPT !.alone = FALSE]
                     ELSE job[q]]
        /\ UNCHANGED <<bucketVars, tableVars>>

\* Mutant of Upserted: the type is overwritten with what the sync has: none.
BareUpserted(row, i) ==
    IF row = NoRow THEN Row(i.modified, i.body, "", "") ELSE Row(i.modified, i.body, "", row.note)

\* onConflictUserKeyUpdate: what the object store knows is overwritten; of the
\* rest the sync knows nothing, and it leaves it.
Upserted(row, i) ==
    IF row = NoRow THEN Row(i.modified, i.body, "", "")
                   ELSE Row(i.modified, i.body, row.type, row.note)

\* The next object in the list; an upsert that fails is skipped.
SyncOne(p) ==
    /\ job[p].pc = "sync"
    /\ \E i \in job[p].todo :
          \/ /\ rows' = [rows EXCEPT ![i.key] = Upserted(@, i)]
             /\ job' = [job EXCEPT ![p].todo = @ \ {i}]
          \/ /\ job' = [job EXCEPT ![p].todo = @ \ {i}, ![p].failed = TRUE]
             /\ UNCHANGED rows
    /\ UNCHANGED <<bucketVars, work, cache, told>>

SyncEnds(p) ==
    /\ job[p].pc = "sync" /\ job[p].todo = {}
    /\ job' = [job EXCEPT ![p].pc = "synced"]
    /\ UNCHANGED <<bucketVars, work, tableVars>>

\* An error of the listing ends it early.
SyncAborts(p) ==
    /\ job[p].pc \in {"sync", "synced"}
    /\ job' = [job EXCEPT ![p] = Idle]
    /\ UNCHANGED <<bucketVars, work, tableVars>>

\* Whoever writes annotations; the repository only says someone does.
Annotate(k, m) ==
    /\ rows[k] # NoRow
    /\ rows' = [rows EXCEPT ![k].type = m.type, ![k].note = m.note]
    /\ told' = [told EXCEPT ![k] = m]
    /\ UNCHANGED <<bucketVars, job, work, cache>>

-----------------------------------------------------------------------------
\* The handler of a search: a read of the cache, the query, a write of the
\* cache.  Entries of the cache vanish, when they expire or otherwise.
Search(u, f) == [user |-> u, filter |-> f]
Searches == [user : Users, filter : Filters]
NoAnswer == {[key |-> "none"]}

SearchKey(s) == s

StartSearch(p, u, f) ==
    /\ Starts(p, IndexWork, [pc |-> "search", query |-> Search(u, f)])
    /\ UNCHANGED <<bucketVars, tableVars>>

Answer(p, pc, found) ==
    job' = [job EXCEPT ![p] = [pc |-> pc, query |-> job[p].query, found |-> found]]

CacheHit(p) ==
    /\ job[p].pc = "search"
    /\ cache[SearchKey(job[p].query)] # NoAnswer
    /\ Answer(p, "found", cache[SearchKey(job[p].query)])
    /\ UNCHANGED <<bucketVars, work, tableVars>>

\* Mutant of Matches: the query does not ask for the user.
AnyOwnerMatches(k, s) ==
    /\ rows[k] # NoRow
    /\ s.filter # "" => rows[k].note = s.filter

Matches(k, s) ==
    /\ rows[k] # NoRow /\ k.owner = s.user
    /\ s.filter # "" => rows[k].note = s.filter

\* FileService.SearchFiles: the rows of one query; the count of an earlier one
\* and the paging are left out.
Query(p) ==
    LET s == job[p].query
    IN  /\ job[p].pc = "search"
        /\ cache[SearchKey(s)] = NoAnswer
        /\ Answer(p, "fill", {[key |-> k, modified |-> rows[k].modified, body |-> rows[k].body] :
                              k \in {k \in Keys : Matches(k, s)}})
        /\ UNCHANGED <<bucketVars, work, tableVars>>

FillCache(p) ==
    /\ job[p].pc = "fill"
    /\ Answer(p, "found", job[p].found)
    /\ \/ cache' = [cache EXCEPT ![SearchKey(job[p].query)] = job[p].found]
       \/ UNCHANGED cache
    /\ UNCHANGED <<bucketVars, work, rows, told>>

CacheDrops(s) ==
    /\ cache[s] # NoAnswer
    /\ cache' = [cache EXCEPT ![s] = NoAnswer]
    /\ UNCHANGED <<bucketVars, job, work, rows, told>>

SearchReturns(p) ==
    /\ job[p].pc = "found"
    /\ job' = [job EXCEPT ![p] = Idle]
    /\ UNCHANGED <<bucketVars, work, tableVars>>

-----------------------------------------------------------------------------
Init ==
    /\ BucketInit
    /\ job = [p \in Slots |-> Idle]
    /\ work = 0
    /\ rows = [k \in Keys |-> NoRow]
    /\ cache = [s \in Searches |-> NoAnswer]
    /\ told = [k \in Keys |-> [type |-> "", note |-> ""]]

IndexStep(p) ==
    \/ \E u \in Users, s \in Scopes : StartSync(p, u, s)
    \/ SyncOne(p) \/ SyncEnds(p) \/ SyncAborts(p)
    \/ \E u \in Users, f \in Filters : StartSearch(p, u, f)
    \/ CacheHit(p) \/ Query(p) \/ FillCache(p) \/ SearchReturns(p)

Next ==
    \/ (BucketWrite \/ NextDay) /\ UNCHANGED <<job, work, tableVars>>
    \/ \E p \in Slots : (ReaderStep(p) /\ UNCHANGED tableVars) \/ IndexStep(p)
    \/ \E k \in Keys, m \in Marks : Annotate(k, m)
    \/ \E s \in Searches : CacheDrops(s)

Spec == Init /\ [][Next]_vars

-----------------------------------------------------------------------------
Items == [key : Keys, modified : Ids, body : Contents]

JobTypes ==
    {Idle}
    \union [pc : {"versions"}, key : Keys, upTo : Nat, todo : SUBSET [id : Ids, latest : BOOLEAN],
            found : SUBSET [id : Ids, latest : BOOLEAN]]
    \union [pc : {"shown"}, key : Keys, upTo : Nat,
            found : SUBSET [id : Ids, latest : BOOLEAN]]
    \union [pc : {"open"}, todo : SUBSET Keys]
    \union [pc : {"opened"}, todo : SUBSET Keys, key : Keys, head : Ids]
    \union [pc : {"sent"}, todo : SUBSET Keys, key : Keys, head : Ids, body : Ids]
    \union [pc : {"sync", "synced"}, user : Users, todo : SUBSET Items,
            meant : SUBSET Items, failed : BOOLEAN, alone : BOOLEAN]
    \union [pc : {"search"}, query : Searches]
    \union [pc : {"fill", "found"}, query : Searches, found : SUBSET Items]

\* The types of the variables.
TypeOK ==
    /\ hist \in [Keys -> [Ids -> {NoVersion, DeleteMarker} \union Objects]]
    /\ last \in 0 .. MaxWrites
    /\ today \in 1 .. Len(Calendar)
    /\ made \in [Ids -> {NotMade} \union [key : Keys, body : Contents]]
    /\ job \in [Slots -> JobTypes]
    /\ work \in Nat
    /\ rows \in [Keys -> {NoRow} \union [modified : Ids, body : Contents, type : Types, note : Notes]]
    /\ cache \in [Searches -> {NoAnswer} \union SUBSET Items]
    /\ told \in [Keys -> [type : Types, note : Notes]]

\* The versions a client is shown of a key are versions of that key and of no
\* other that begins with it, at most one of them the latest; and when all were
\* asked for, every one that was there when they were listed and is there still
\* is among them, however many came or went in between.
VersionsShown ==
    \A p \in Slots : job[p].pc = "shown" =>
        LET j == job[p]
        IN  /\ \A i \in j.found : made[i.id] # NotMade /\ made[i.id].key = j.key
            /\ \A a, b \in j.found : a.latest /\ b.latest => a = b
            /\ \A n \in 1 .. j.upTo :
                  IsObject(j.key, n) => \E i \in j.found : i.id = n

\* A synchronisation that ended, had no failure and no other one of its user
\* beside it, left in the table every object its dates were to bring there, as
\* the object was when the synchronisation began.
SyncCompletes ==
    \A p \in Slots : job[p].pc = "synced" /\ ~job[p].failed /\ job[p].alone =>
        \A i \in job[p].meant :
            rows[i.key] # NoRow /\ rows[i.key].modified = i.modified /\ rows[i.key].body = i.body

\* What a search answers, from the table or from the cache, are objects of the
\* user who asked, with contents they really had.
AnswersAreOwn ==
    \A p \in Slots : job[p].pc = "found" =>
        \A i \in job[p].found :
            /\ i.key.owner = job[p].query.user
            /\ made[i.modified] = [key |-> i.key, body |-> i.body]

\* An annotation stays as it was given, through all uploads, restores and
\* synchronisations that follow.
AnnotationsKept ==
    \A k \in Keys : rows[k] # NoRow =>
        rows[k].type = told[k].type /\ rows[k].note = told[k].note
=============================================================================
