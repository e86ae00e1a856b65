--------------------------- MODULE FileIndexProofs ---------------------------
(***************************************************************************)
(* Theorems about FileIndex and the modules it is built on, for any number *)
(* of users, keys, contents, writes and goroutines.                        *)
(***************************************************************************)
EXTENDS FileIndex, TLAPS

\* What the bounds and the calendar are.
LEMMA BoundsAreNat == MaxWrites \in Nat
  BY BucketAssumptions

LEMMA ElementOfSeq == ASSUME NEW S, NEW s \in Seq(S), NEW n \in 1 .. Len(s) PROVE s[n] \in S
  OBVIOUS

LEMMA DaysAreDates == \A n \in 1 .. Len(Calendar) : Calendar[n] \in Dates
<1>1. Calendar \in Seq([year : Nat \ {0}, month : 1 .. 12, day : 1 .. 31])
  BY BucketAssumptions
<1>2. \A n \in 1 .. Len(Calendar) :
         Calendar[n] \in [year : Nat \ {0}, month : 1 .. 12, day : 1 .. 31]
  BY <1>1, ElementOfSeq
<1>3. \A d \in [year : Nat \ {0}, month : 1 .. 12, day : 1 .. 31] : d \in Dates
  BY DEF Dates
<1>4. QED
  BY <1>2, <1>3

LEMMA CalendarBegins == 1 \in 1 .. Len(Calendar)
<1>1. Calendar \in Seq([year : Nat \ {0}, month : 1 .. 12, day : 1 .. 31]) /\ Len(Calendar) > 0
  BY BucketAssumptions
<1>2. QED
  BY <1>1

-----------------------------------------------------------------------------
(* The bucket.                                                              *)

BucketTypes ==
    /\ hist \in [Keys -> [Ids -> {NoVersion, DeleteMarker} \union Objects]]
    /\ last \in 0 .. MaxWrites
    /\ today \in 1 .. Len(Calendar)
    /\ made \in [Ids -> {NotMade} \union [key : Keys, body : Contents]]

\* A version was written, and an object is what was written under its number.
VersionsMade ==
    \A k \in Keys, n \in Ids :
        /\ hist[k][n] # NoVersion => n <= last
        /\ IsObject(k, n) => made[n] = [key |-> k, body |-> hist[k][n].body]

Bucket == BucketTypes /\ VersionsMade

\* What no step on the bucket does: take back a write, or change a version other
\* than by removing it.
BucketGrows ==
    /\ last' \in Nat /\ last <= last'
    /\ \A n \in 1 .. last : made'[n] = made[n]
    /\ \A k \in Keys, n \in 1 .. last : hist'[k][n] \in {hist[k][n], NoVersion}

LEMMA KindsDiffer ==
    /\ NoVersion # DeleteMarker
    /\ NoVersion.kind # "object" /\ DeleteMarker.kind # "object"
    /\ \A o \in Objects : o # NoVersion /\ o # DeleteMarker /\ o.kind = "object"
                          /\ o.body \in Contents /\ o.type \in Types
  BY DEF NoVersion, DeleteMarker, Objects

LEMMA VersionAdded ==
    ASSUME Bucket, NEW k \in Keys, NEW v \in {DeleteMarker} \union Objects,
           NEW m \in {NotMade} \union [key : Keys, body : Contents],
           AddVersion(k, v), made' = made \/ made' = [made EXCEPT ![last + 1] = m],
           v \in Objects => made' = [made EXCEPT ![last + 1] = m]
                            /\ m = [key |-> k, body |-> v.body]
    PROVE  Bucket' /\ BucketGrows
<1>1. /\ last \in Nat /\ last' = last + 1 /\ last' \in 0 .. MaxWrites /\ last' \in Ids
      /\ today' = today
  BY BoundsAreNat DEF AddVersion, Bucket, BucketTypes, Ids
<1>2. /\ hist' \in [Keys -> [Ids -> {NoVersion, DeleteMarker} \union Objects]]
      /\ hist'[k][last'] = v
      /\ \A l \in Keys, n \in Ids : l # k \/ n # last' => hist'[l][n] = hist[l][n]
  BY <1>1 DEF AddVersion, Bucket, BucketTypes
<1>3. made' \in [Ids -> {NotMade} \union [key : Keys, body : Contents]]
      /\ \A n \in Ids : n # last' => made'[n] = made[n]
  BY <1>1 DEF Bucket, BucketTypes
<1>4. BucketTypes'
  BY <1>1, <1>2, <1>3 DEF Bucket, BucketTypes
<1>5. ASSUME NEW l \in Keys, NEW n \in Ids
      PROVE  /\ hist'[l][n] # NoVersion => n <= last'
             /\ IsObject(l, n)' => made'[n] = [key |-> l, body |-> hist'[l][n].body]
  <2>1. CASE l = k /\ n = last'
    <3>1. v.kind = "object" => v \in Objects
      BY KindsDiffer
    <3>2. QED
      BY <1>1, <1>2, <2>1, <3>1 DEF IsObject, Bucket, BucketTypes
  <2>2. CASE l # k \/ n # last'
    <3>1. hist'[l][n] = hist[l][n]
      BY <1>2, <2>2
    <3>2. hist[l][n] # NoVersion => n <= last /\ n # last'
      <4>1. hist[l][n] # NoVersion => n <= last
        BY DEF Bucket, VersionsMade
      <4>2. n \in Nat
        BY BoundsAreNat DEF Ids
      <4>3. QED
        BY <1>1, <4>1, <4>2
    <3>3. IsObject(l, n)' => IsObject(l, n) /\ hist[l][n] # NoVersion
      BY <3>1, KindsDiffer DEF IsObject
    <3>4. QED
      <4>1. IsObject(l, n) => made[n] = [key |-> l, body |-> hist[l][n].body]
        BY DEF Bucket, VersionsMade
      <4>2. hist[l][n] # NoVersion => made'[n] = made[n] /\ n <= last'
        <5>1. n \in Nat
          BY BoundsAreNat DEF Ids
        <5>2. QED
          BY <1>1, <1>3, <3>2, <5>1
      <4>3. QED
        BY <3>1, <3>3, <4>1, <4>2
  <2>3. QED
    BY <2>1, <2>2
<1>6. BucketGrows
  <2>1. \A n \in 1 .. last : n \in Ids /\ n # last'
    BY <1>1, BoundsAreNat DEF Ids
  <2>2. QED
    BY <1>1, <1>2, <1>3, <2>1 DEF BucketGrows
<1>7. QED
  BY <1>4, <1>5, <1>6 DEF Bucket, VersionsMade

LEMMA ObjectPut ==
    ASSUME Bucket, NEW k \in Keys, NEW body \in Contents, NEW type \in Types,
           PutObject(k, body, type)
    PROVE  Bucket' /\ BucketGrows
<1>1. Calendar[today] \in Dates
  BY DaysAreDates DEF Bucket, BucketTypes
<1>2. Object(body, type, Calendar[today]) \in Objects
  BY <1>1 DEF Object, Objects
<1>3. Object(body, type, Calendar[today]).body = body
  BY DEF Object
<1>4. [key |-> k, body |-> body] \in [key : Keys, body : Contents]
  OBVIOUS
<1>5. QED
  BY <1>2, <1>3, <1>4, VersionAdded DEF PutObject

LEMMA ObjectRemoved ==
    ASSUME Bucket, NEW k \in Keys, RemoveObject(k)
    PROVE  Bucket' /\ BucketGrows
<1>1. AddVersion(k, DeleteMarker) /\ made' = made /\ DeleteMarker \notin Objects
  BY KindsDiffer DEF RemoveObject
<1>2. QED
  BY <1>1, VersionAdded

LEMMA VersionRemoved ==
    ASSUME Bucket, NEW k \in Keys, NEW n \in Ids, RemoveVersion(k, n)
    PROVE  Bucket' /\ BucketGrows
<1>1. /\ UNCHANGED <<last, today, made>> /\ last \in Nat /\ 1 .. last \subseteq Ids
      /\ hist' = [hist EXCEPT ![k][n] = NoVersion]
  BY BoundsAreNat DEF RemoveVersion, Bucket, BucketTypes, Ids
<1>2. /\ hist' \in [Keys -> [Ids -> {NoVersion, DeleteMarker} \union Objects]]
      /\ \A l \in Keys, m \in Ids : hist'[l][m] \in {hist[l][m], NoVersion}
  BY <1>1 DEF Bucket, BucketTypes
<1>3. BucketTypes'
  BY <1>1, <1>2 DEF Bucket, BucketTypes
<1>4. ASSUME NEW l \in Keys, NEW m \in Ids
      PROVE  /\ hist'[l][m] # NoVersion => m <= last'
             /\ IsObject(l, m)' => made'[m] = [key |-> l, body |-> hist'[l][m].body]
  <2>1. hist'[l][m] = hist[l][m] \/ hist'[l][m] = NoVersion
    BY <1>2
  <2>2. QED
    BY <1>1, <2>1, KindsDiffer DEF Bucket, VersionsMade, IsObject
<1>5. BucketGrows
  BY <1>1, <1>2 DEF BucketGrows
<1>6. QED
  BY <1>3, <1>4, <1>5 DEF Bucket, VersionsMade

LEMMA BucketStep ==
    ASSUME Bucket, BucketWrite \/ NextDay
    PROVE  Bucket' /\ BucketGrows
<1>1. ASSUME NEW k \in Keys, NEW n \in Ids, IsObject(k, n)
      PROVE  hist[k][n].body \in Contents /\ hist[k][n].type \in Types
  <2>1. hist[k][n] \in Objects
    BY <1>1, KindsDiffer DEF IsObject, Bucket, BucketTypes
  <2>2. QED
    BY <2>1, KindsDiffer
<1>2. ASSUME NEW u \in Users, NEW k \in Keys, NEW type \in Types, UpdateMetadata(u, k, type)
      PROVE  Bucket' /\ BucketGrows
  BY <1>1, <1>2, ObjectPut DEF UpdateMetadata, Shown
<1>3. ASSUME NEW u \in Users, NEW k \in Keys, NEW base \in Ids \union {0}, NEW replace \in BOOLEAN,
             NEW type \in Types, CreateVersion(u, k, base, replace, type)
      PROVE  Bucket' /\ BucketGrows
  <2>1. PICK n \in Ids : /\ IsObject(k, n)
                         /\ PutObject(k, hist[k][n].body,
                                      IF replace THEN type ELSE hist[k][n].type)
    BY <1>3 DEF CreateVersion, Shown
  <2>2. QED
    BY <1>1, <2>1, ObjectPut
<1>4. ASSUME NEW u \in Users, NEW k \in Keys, NEW n \in Ids,
             DeleteVersion(u, k, n) \/ RestoreVersion(u, k, n)
      PROVE  Bucket' /\ BucketGrows
  BY <1>1, <1>4, ObjectPut, VersionRemoved DEF DeleteVersion, RestoreVersion
<1>5. ASSUME NEW u \in Users, NEW k \in Keys, NEW body \in Contents, NEW type \in Types,
             Upload(u, k, body, type)
      PROVE  Bucket' /\ BucketGrows
  BY <1>5, ObjectPut DEF Upload
<1>6. ASSUME NEW u \in Users, NEW k \in Keys, DeleteFile(u, k)
      PROVE  Bucket' /\ BucketGrows
  BY <1>6, ObjectRemoved DEF DeleteFile
<1>7. CASE NextDay
  <2>1. /\ UNCHANGED <<hist, last, made>> /\ today' \in 1 .. Len(Calendar)
    BY <1>7 DEF NextDay, Bucket, BucketTypes
  <2>2. QED
    BY <2>1, BoundsAreNat DEF Bucket, BucketTypes, VersionsMade, IsObject, BucketGrows
<1>8. QED
  BY <1>2, <1>3, <1>4, <1>5, <1>6, <1>7 DEF BucketWrite

LEMMA BucketKept ==
    ASSUME Bucket, UNCHANGED bucketVars
    PROVE  Bucket' /\ BucketGrows
  BY BoundsAreNat DEF bucketVars, Bucket, BucketTypes, VersionsMade, IsObject, BucketGrows

LEMMA BucketBegins == ASSUME BucketInit PROVE Bucket
<1>1. BucketTypes
  BY BoundsAreNat, CalendarBegins DEF BucketInit, BucketTypes, Ids
<1>2. VersionsMade
  BY KindsDiffer DEF BucketInit, VersionsMade, IsObject
<1>3. QED
  BY <1>1, <1>2 DEF Bucket

-----------------------------------------------------------------------------
(* What a slot does.                                                        *)

Infos == [id : Ids, latest : BOOLEAN]
Rows == [modified : Ids, body : Contents, type : Types, note : Notes]

\* The kinds of jobs.
Listing == [pc : {"versions"}, key : Keys, upTo : Nat, todo : SUBSET Infos, found : SUBSET Infos]
Shows == [pc : {"shown"}, key : Keys, upTo : Nat, found : SUBSET Infos]
Opening == [pc : {"open"}, todo : SUBSET Keys]
Opened == [pc : {"opened"}, todo : SUBSET Keys, key : Keys, head : Ids]
Sent == [pc : {"sent"}, todo : SUBSET Keys, key : Keys, head : Ids, body : Ids]
Syncing == [pc : {"sync", "synced"}, user : Users, todo : SUBSET Items, meant : SUBSET Items,
            failed : BOOLEAN, alone : BOOLEAN]
Searching == [pc : {"search"}, query : Searches]
Answering == [pc : {"fill", "found"}, query : Searches, found : SUBSET Items]

LEMMA JobKinds ==
    JobTypes = {Idle} \union Listing \union Shows \union Opening \union Opened \union Sent
                 \union Syncing \union Searching \union Answering
  BY DEF JobTypes, Listing, Shows, Opening, Opened, Sent, Syncing, Searching, Answering, Infos

LEMMA JobOf ==
    ASSUME NEW j \in JobTypes
    PROVE  /\ j.pc = "versions" => j \in Listing
           /\ j.pc = "shown" => j \in Shows
           /\ j.pc = "open" => j \in Opening
           /\ j.pc = "opened" => j \in Opened
           /\ j.pc = "sent" => j \in Sent
           /\ j.pc \in {"sync", "synced"} => j \in Syncing
           /\ j.pc = "search" => j \in Searching
           /\ j.pc \in {"fill", "found"} => j \in Answering
  BY JobKinds DEF Idle, Listing, Shows, Opening, Opened, Sent, Syncing, Searching, Answering

\* A record with other fields is not one of these.
LEMMA NoRowIsNone == NoRow \notin Rows
<1>1. DOMAIN NoRow = {"note"}
  BY DEF NoRow
<1>2. \A r \in Rows : DOMAIN r = {"modified", "body", "type", "note"}
  BY DEF Rows
<1>3. {"note"} # {"modified", "body", "type", "note"}
  OBVIOUS
<1>4. QED
  BY <1>1, <1>2, <1>3

LEMMA NotMadeIsNone == NotMade \notin [key : Keys, body : Contents]
<1>1. DOMAIN NotMade = {"key"}
  BY DEF NotMade
<1>2. \A r \in [key : Keys, body : Contents] : DOMAIN r = {"key", "body"}
  OBVIOUS
<1>3. {"key"} # {"key", "body"}
  OBVIOUS
<1>4. QED
  BY <1>1, <1>2, <1>3

-----------------------------------------------------------------------------
(* What holds of the jobs and of the table between steps.                   *)

TableTypes ==
    /\ job \in [Slots -> JobTypes]
    /\ work \in Nat
    /\ rows \in [Keys -> {NoRow} \union Rows]
    /\ cache \in [Searches -> {NoAnswer} \union SUBSET Items]
    /\ told \in [Keys -> [type : Types, note : Notes]]

\* A version that was written under the key.
Written(n, k) == n <= last /\ made[n] # NotMade /\ made[n].key = k

\* An object that had this content.
GoodItem(i) == i.modified <= last /\ made[i.modified] = [key |-> i.key, body |-> i.body]

\* What a listing of versions has gathered or is still to look up.
Gathered(p) == IF job[p].pc = "versions" THEN job[p].todo \union job[p].found ELSE job[p].found

ListingGood(p) ==
    job[p].pc \in {"versions", "shown"} =>
        /\ job[p].upTo <= last
        /\ \A i \in Gathered(p) : Written(i.id, job[p].key)
        /\ \A a, b \in Gathered(p) : a.latest /\ b.latest => a = b
        /\ \A n \in 1 .. job[p].upTo :
              IsObject(job[p].key, n) => \E i \in Gathered(p) : i.id = n

AnswerGood(p) ==
    job[p].pc \in {"fill", "found"} =>
        \A i \in job[p].found : GoodItem(i) /\ i.key.owner = job[p].query.user

\* A synchronisation that runs alone has put into the table what it is through with.
Stored(i) == rows[i.key] # NoRow /\ rows[i.key].modified = i.modified /\ rows[i.key].body = i.body

SyncGood(p) ==
    job[p].pc \in {"sync", "synced"} =>
        /\ job[p].todo \subseteq job[p].meant
        /\ job[p].pc = "synced" => job[p].todo = {}
        /\ \A i \in job[p].meant : GoodItem(i) /\ i.key.owner = job[p].user
        /\ \A a, b \in job[p].meant : a.key = b.key => a = b
        /\ job[p].alone =>
              \A q \in Slots \ {p} : job[q].pc = "sync" => job[q].user # job[p].user
        /\ job[p].alone /\ ~job[p].failed =>
              \A i \in job[p].meant \ job[p].todo : Stored(i)

RowsGood ==
    \A k \in Keys : rows[k] # NoRow =>
        rows[k].modified <= last /\ made[rows[k].modified] = [key |-> k, body |-> rows[k].body]

CacheGood ==
    \A s \in Searches : cache[s] # NoAnswer =>
        \A i \in cache[s] : GoodItem(i) /\ i.key.owner = s.user

JobGood(p) == ListingGood(p) /\ AnswerGood(p) /\ SyncGood(p)

Index ==
    /\ Bucket /\ TableTypes /\ RowsGood /\ CacheGood
    /\ \A p \in Slots : JobGood(p)

\* Writes to the bucket harm nothing that was known of it.
LEMMA WrittenStays ==
    ASSUME BucketTypes, BucketGrows, NEW n \in Ids, NEW k, Written(n, k)
    PROVE  Written(n, k)'
  BY BoundsAreNat DEF BucketTypes, BucketGrows, Written, Ids

LEMMA ItemStays ==
    ASSUME BucketTypes, BucketGrows, NEW i \in Items, GoodItem(i)
    PROVE  GoodItem(i)'
<1>1. i.modified \in 1 .. last
  BY BoundsAreNat DEF BucketTypes, GoodItem, Ids, Items
<1>2. QED
  BY <1>1 DEF BucketTypes, BucketGrows, GoodItem

LEMMA ObjectWas ==
    ASSUME BucketTypes, BucketGrows, NEW k \in Keys, NEW n \in 1 .. last, IsObject(k, n)'
    PROVE  IsObject(k, n)
<1>1. n \in Ids /\ hist'[k][n] \in {hist[k][n], NoVersion} /\ hist'[k][n].kind = "object"
  BY BoundsAreNat DEF BucketTypes, BucketGrows, IsObject, Ids
<1>2. QED
  BY <1>1, KindsDiffer DEF IsObject

\* A slot that does not step keeps what it knows of the bucket.
LEMMA SlotStays ==
    ASSUME Index, BucketGrows, NEW p \in Slots, job'[p] = job[p]
    PROVE  ListingGood(p)' /\ AnswerGood(p)'
<1> USE DEF Index, Bucket
<1>0. job[p] \in JobTypes /\ last \in Nat /\ last' \in Nat /\ last <= last'
  BY DEF TableTypes, BucketTypes, BucketGrows
<1>1. ListingGood(p)'
  <2>1. CASE job[p].pc \in {"versions", "shown"}
    <3>1. /\ job[p].upTo \in Nat /\ job[p].key \in Keys /\ Gathered(p) \subseteq Infos
      BY <1>0, <2>1, JobOf DEF Listing, Shows, Gathered
    <3>2. Gathered(p)' = Gathered(p)
      BY DEF Gathered
    <3>3. ListingGood(p)
      BY DEF JobGood
    <3>4. job[p].upTo <= last'
      BY <1>0, <2>1, <3>1, <3>3 DEF ListingGood
    <3>5. ASSUME NEW i \in Gathered(p) PROVE Written(i.id, job[p].key)'
      <4>1. i.id \in Ids /\ Written(i.id, job[p].key)
        BY <2>1, <3>1, <3>3 DEF ListingGood, Infos
      <4>2. PICK k \in Keys : k = job[p].key
        BY <3>1
      <4>3. PICK n \in Ids : n = i.id
        BY <4>1
      <4>4. Written(n, k)'
        BY <4>1, <4>2, <4>3, WrittenStays
      <4>5. job'[p].key = k
        BY <4>2
      <4>6. QED
        BY <4>3, <4>4, <4>5 DEF Written
    <3>6. ASSUME NEW n \in 1 .. job[p].upTo, IsObject(job[p].key, n)'
          PROVE  \E i \in Gathered(p) : i.id = n
      <4>1. n \in 1 .. last
        BY <1>0, <2>1, <3>1, <3>3 DEF ListingGood
      <4>2. PICK k \in Keys : k = job[p].key
        BY <3>1
      <4>3. IsObject(k, n)'
        BY <3>6, <4>2 DEF IsObject
      <4>4. IsObject(k, n)
        BY <4>1, <4>3, ObjectWas
      <4>5. QED
        BY <2>1, <3>3, <4>2, <4>4 DEF ListingGood
    <3>7. QED
      BY <2>1, <3>2, <3>3, <3>4, <3>5, <3>6 DEF ListingGood
  <2>2. CASE job[p].pc \notin {"versions", "shown"}
    BY <2>2 DEF ListingGood
  <2>3. QED
    BY <2>1, <2>2
<1>2. AnswerGood(p)'
  <2>1. CASE job[p].pc \in {"fill", "found"}
    <3>1. job[p].found \subseteq Items
      BY <1>0, <2>1, JobOf DEF Answering
    <3>2. \A i \in job[p].found : GoodItem(i) /\ i.key.owner = job[p].query.user
      BY <2>1 DEF JobGood, AnswerGood
    <3>3. \A i \in job[p].found : GoodItem(i)'
      BY <3>1, <3>2, ItemStays
    <3>4. QED
      BY <3>2, <3>3 DEF AnswerGood
  <2>2. CASE job[p].pc \notin {"fill", "found"}
    BY <2>2 DEF AnswerGood
  <2>3. QED
    BY <2>1, <2>2
<1>3. QED
  BY <1>1, <1>2

\* Nor does the table lose what it knows.
LEMMA TableStays ==
    ASSUME Index, BucketGrows, UNCHANGED <<rows, cache>>
    PROVE  RowsGood' /\ CacheGood'
<1> USE DEF Index, Bucket
<1>1. ASSUME NEW k \in Keys, rows[k] # NoRow
      PROVE  rows[k].modified <= last' /\ made'[rows[k].modified] = [key |-> k, body |-> rows[k].body]
  <2>1. rows[k].modified \in Ids /\ rows[k].body \in Contents
    BY <1>1 DEF TableTypes, Rows
  <2>2. PICK i \in Items : i = [key |-> k, modified |-> rows[k].modified, body |-> rows[k].body]
    BY <2>1 DEF Items
  <2>3. GoodItem(i)
    BY <1>1, <2>2 DEF RowsGood, GoodItem
  <2>4. GoodItem(i)'
    BY <2>3, ItemStays
  <2>5. QED
    BY <2>2, <2>4 DEF GoodItem
<1>2. ASSUME NEW q \in Searches, cache[q] # NoAnswer, NEW i \in cache[q]
      PROVE  GoodItem(i)' /\ i.key.owner = q.user
  <2>1. cache[q] \subseteq Items /\ GoodItem(i) /\ i.key.owner = q.user
    BY <1>2 DEF TableTypes, CacheGood
  <2>2. QED
    BY <2>1, ItemStays
<1>3. QED
  BY <1>1, <1>2 DEF RowsGood, CacheGood

\* A synchronisation stays as good as it was while no other one begins.
LEMMA SyncStays ==
    ASSUME Index, BucketGrows, NEW p \in Slots, job'[p] = job[p],
           \A k \in Keys : Stored([key |-> k, modified |-> rows[k].modified, body |-> rows[k].body])
                             => rows'[k] # NoRow /\ rows'[k].modified = rows[k].modified
                                /\ rows'[k].body = rows[k].body,
           \A q \in Slots \ {p} : job'[q].pc = "sync" =>
               job[q].pc = "sync" /\ job'[q].user = job[q].user
    PROVE  SyncGood(p)'
<1> USE DEF Index, Bucket
<1>1. CASE job[p].pc \in {"sync", "synced"}
  <2>1. /\ job[p].meant \subseteq Items /\ job[p].todo \subseteq Items
    BY <1>1, JobOf DEF TableTypes, Syncing
  <2>2. SyncGood(p)
    BY DEF JobGood
  <2>3. \A i \in job[p].meant : GoodItem(i)'
    BY <1>1, <2>1, <2>2, ItemStays DEF SyncGood
  <2>4. ASSUME NEW i \in Items, Stored(i) PROVE Stored(i)'
    <3>1. i.key \in Keys
      BY DEF Items
    <3>2. Stored([key |-> i.key, modified |-> rows[i.key].modified, body |-> rows[i.key].body])
      BY <2>4, <3>1 DEF Stored
    <3>3. QED
      BY <2>4, <3>1, <3>2 DEF Stored
  <2>5. job[p].alone =>
           \A q \in Slots \ {p} : job'[q].pc = "sync" => job'[q].user # job[p].user
    BY <1>1, <2>2 DEF SyncGood
  <2>6. job[p].alone /\ ~job[p].failed => \A i \in job[p].meant \ job[p].todo : Stored(i)'
    BY <1>1, <2>1, <2>2, <2>4 DEF SyncGood
  <2>7. QED
    BY <1>1, <2>2, <2>3, <2>5, <2>6 DEF SyncGood
<1>2. CASE job[p].pc \notin {"sync", "synced"}
  BY <1>2 DEF SyncGood
<1>3. QED
  BY <1>1, <1>2

LEMMA BucketKeepsIndex ==
    ASSUME Index, (BucketWrite \/ NextDay) /\ UNCHANGED <<job, work, tableVars>>
    PROVE  Index'
<1>1. Bucket' /\ BucketGrows
  BY BucketStep DEF Index
<1>2. UNCHANGED <<job, work, rows, cache, told>>
  BY DEF tableVars
<1>3. RowsGood' /\ CacheGood' /\ TableTypes'
  BY <1>1, <1>2, TableStays DEF Index, TableTypes
<1>4. ASSUME NEW p \in Slots PROVE JobGood(p)'
  <2>1. ListingGood(p)' /\ AnswerGood(p)'
    BY <1>1, <1>2, SlotStays
  <2>2. SyncGood(p)'
    <3>1. \A k \in Keys : Stored([key |-> k, modified |-> rows[k].modified, body |-> rows[k].body])
                             => rows'[k] # NoRow /\ rows'[k].modified = rows[k].modified
                                /\ rows'[k].body = rows[k].body
      BY <1>2 DEF Stored
    <3>2. QED
      BY <1>1, <1>2, <3>1, SyncStays
  <2>3. QED
    BY <2>1, <2>2 DEF JobGood
<1>5. QED
  BY <1>1, <1>3, <1>4 DEF Index

\* A slot whose work is not a synchronisation, and leaves bucket and table alone.
LEMMA SlotSteps ==
    ASSUME Index, NEW p \in Slots, UNCHANGED <<bucketVars, rows, told>>,
           job' = [job EXCEPT ![p] = job'[p]], job'[p] \in JobTypes, work' \in Nat,
           job'[p].pc \notin {"sync", "synced"},
           ListingGood(p)', AnswerGood(p)',
           cache' \in [Searches -> {NoAnswer} \union SUBSET Items], CacheGood'
    PROVE  Index'
<1>1. Bucket' /\ BucketGrows
  BY BucketKept DEF Index
<1>2. \A q \in Slots \ {p} : job'[q] = job[q]
  BY DEF Index, TableTypes
<1>3. TableTypes'
  BY DEF Index, TableTypes
<1>4. RowsGood'
  BY DEF Index, RowsGood, bucketVars
<1>5. ASSUME NEW q \in Slots \ {p} PROVE JobGood(q)'
  <2>1. ListingGood(q)' /\ AnswerGood(q)'
    BY <1>1, <1>2, SlotStays
  <2>2. SyncGood(q)'
    <3>1. \A r \in Slots \ {q} : job'[r].pc = "sync" => job[r].pc = "sync" /\ job'[r].user = job[r].user
      BY <1>2
    <3>2. \A k \in Keys : Stored([key |-> k, modified |-> rows[k].modified, body |-> rows[k].body])
                             => rows'[k] # NoRow /\ rows'[k].modified = rows[k].modified
                                /\ rows'[k].body = rows[k].body
      BY DEF Stored
    <3>3. QED
      BY <1>1, <1>2, <3>1, <3>2, SyncStays
  <2>3. QED
    BY <2>1, <2>2 DEF JobGood
<1>6. JobGood(p)'
  BY DEF JobGood, SyncGood
<1>7. QED
  BY <1>1, <1>3, <1>4, <1>5, <1>6 DEF Index

\* The bucket and the cache stay: what a reader's step has to show.
LEMMA ReaderSteps ==
    ASSUME Index, NEW p \in Slots, UNCHANGED <<bucketVars, tableVars>>,
           job' = [job EXCEPT ![p] = job'[p]], job'[p] \in JobTypes, work' \in Nat,
           job'[p].pc \notin {"sync", "synced", "fill", "found"},
           ListingGood(p)'
    PROVE  Index'
<1>1. /\ AnswerGood(p)' /\ UNCHANGED <<rows, told, cache>>
      /\ cache' \in [Searches -> {NoAnswer} \union SUBSET Items]
  BY DEF AnswerGood, tableVars, Index, TableTypes
<1>2. CacheGood'
  BY <1>1, BucketKept, TableStays DEF Index
<1>3. QED
  BY <1>1, <1>2, SlotSteps

-----------------------------------------------------------------------------
(* Readers of the bucket.                                                   *)

\* Of the versions of a key one at most is the latest.
LEMMA OneLatest ==
    ASSUME BucketTypes, NEW k \in Keys, NEW n, NEW m, IsLatest(k, n), IsLatest(k, m)
    PROVE  n = m
<1>1. n \in Ids /\ m \in Ids /\ ~(n > m) /\ ~(m > n)
  BY DEF IsLatest
<1>2. n \in Nat /\ m \in Nat
  BY <1>1, BoundsAreNat DEF Ids
<1>3. QED
  BY <1>1, <1>2

LEMMA ObjectWritten ==
    ASSUME Bucket, NEW k \in Keys, NEW n, IsObject(k, n)
    PROVE  n \in Ids /\ Written(n, k)
           /\ made[n] = [key |-> k, body |-> hist[k][n].body] /\ hist[k][n].body \in Contents
<1>1. n \in Ids /\ hist[k][n].kind = "object" /\ hist[k][n] \in Objects
  BY KindsDiffer DEF IsObject, Bucket, BucketTypes
<1>2. hist[k][n] # NoVersion /\ hist[k][n].body \in Contents
  BY <1>1, KindsDiffer
<1>3. n <= last /\ made[n] = [key |-> k, body |-> hist[k][n].body]
  BY <1>1, <1>2 DEF Bucket, VersionsMade
<1>4. made[n] # NotMade /\ made[n].key = k
  BY <1>2, <1>3, NotMadeIsNone
<1>5. QED
  BY <1>1, <1>2, <1>3, <1>4 DEF Written

\* Slot p starts a job of a reader.
LEMMA ReaderStarts ==
    ASSUME Index, NEW p \in Slots, NEW j \in JobTypes, Starts(p, ReaderWork, j)
    PROVE  /\ job' = [job EXCEPT ![p] = job'[p]] /\ job'[p] = j /\ work' \in Nat
  BY DEF Starts, Takes, ReaderWork, Index, TableTypes

LEMMA ListCurrent ==
    ASSUME Index, NEW p \in Slots, NEW k \in Keys, NEW n \in Ids,
           Shown(k, n), Starts(p, ReaderWork, Showing(k, {Info(n, TRUE)}, 0)),
           UNCHANGED <<bucketVars, tableVars>>
    PROVE  Index'
<1>1. PICK j \in Shows : j = Showing(k, {Info(n, TRUE)}, 0)
  <2>1. Info(n, TRUE) \in Infos
    BY DEF Info, Infos
  <2>2. Showing(k, {Info(n, TRUE)}, 0) \in Shows
    BY <2>1 DEF Showing, Shows
  <2>3. QED
    BY <2>2
<1>2. j \in JobTypes /\ j.pc = "shown" /\ j.key = k /\ j.found = {Info(n, TRUE)} /\ j.upTo = 0
  BY <1>1, JobKinds DEF Showing
<1>3. job' = [job EXCEPT ![p] = job'[p]] /\ job'[p] = j /\ work' \in Nat
  BY <1>1, <1>2, ReaderStarts
<1>4. Written(n, k)'
  BY ObjectWritten DEF Shown, Index, Written, bucketVars
<1>5. ListingGood(p)'
  <2>1. Gathered(p)' = {Info(n, TRUE)} /\ Info(n, TRUE).id = n
    BY <1>2, <1>3 DEF Gathered, Info
  <2>2. job'[p].upTo = 0 /\ 0 <= last' /\ job'[p].key = k
    BY <1>2, <1>3 DEF Index, Bucket, BucketTypes, bucketVars
  <2>3. \A i \in Gathered(p)' : Written(i.id, k)'
    BY <1>4, <2>1
  <2>4. \A a, b \in Gathered(p)' : a = b
    BY <2>1
  <2>5. \A m \in 1 .. 0 : FALSE
    OBVIOUS
  <2>6. QED
    BY <2>2, <2>3, <2>4, <2>5 DEF ListingGood, Written
<1>6. QED
  BY <1>2, <1>3, <1>5, ReaderSteps

LEMMA ListAll ==
    ASSUME Index, NEW p \in Slots, NEW k \in Keys,
           Starts(p, ReaderWork,
              [pc |-> "versions", key |-> k, upTo |-> last, found |-> {},
               todo |-> {Info(v[2], IsLatest(v[1], v[2])) : v \in {v \in Listed(k) : Wanted(k, v)}}]),
           UNCHANGED <<bucketVars, tableVars>>
    PROVE  Index'
<1> DEFINE wanted == {v \in Listed(k) : Wanted(k, v)}
           todo == {Info(v[2], IsLatest(v[1], v[2])) : v \in wanted}
<1>1. ASSUME NEW v \in wanted
      PROVE  v[1] = k /\ v[2] \in Ids /\ IsObject(k, v[2])
  BY <1>1 DEF Listed, Wanted
<1>2. ASSUME NEW i \in todo
      PROVE  /\ i \in Infos /\ IsObject(k, i.id) /\ i.latest = IsLatest(k, i.id)
             /\ i = Info(i.id, IsLatest(k, i.id))
  <2>1. PICK v \in wanted : i = Info(v[2], IsLatest(v[1], v[2]))
    BY <1>2
  <2>2. IsLatest(k, v[2]) \in BOOLEAN
    BY DEF IsLatest
  <2>3. QED
    BY <1>1, <2>1, <2>2 DEF Info, Infos
<1>3. PICK j \in Listing :
         j = [pc |-> "versions", key |-> k, upTo |-> last, found |-> {}, todo |-> todo]
  <2>1. todo \subseteq Infos /\ last \in Nat
    BY <1>2 DEF Index, Bucket, BucketTypes
  <2>2. QED
    BY <2>1 DEF Listing
<1>4. /\ j \in JobTypes /\ j.pc = "versions" /\ j.key = k /\ j.found = {} /\ j.todo = todo
      /\ j.upTo = last
  BY <1>3, JobKinds
<1>5. job' = [job EXCEPT ![p] = job'[p]] /\ job'[p] = j /\ work' \in Nat
  BY <1>3, <1>4, ReaderStarts
<1>6. ListingGood(p)'
  <2> HIDE DEF todo
  <2>1. Gathered(p)' = todo
    BY <1>4, <1>5 DEF Gathered
  <2>2. /\ job'[p].upTo = last /\ last' = last /\ last <= last /\ job'[p].key = k
        /\ made' = made /\ hist' = hist
    BY <1>4, <1>5 DEF Index, Bucket, BucketTypes, bucketVars
  <2>3. \A i \in todo : Written(i.id, k)
    BY <1>2, ObjectWritten DEF Index
  <2>4. \A i \in todo : Written(i.id, k)'
    BY <2>2, <2>3 DEF Written
  <2>5. ASSUME NEW a \in todo, NEW b \in todo, a.latest, b.latest PROVE a = b
    <3>1. IsLatest(k, a.id) /\ IsLatest(k, b.id)
      BY <1>2, <2>5
    <3>2. a.id = b.id
      BY <3>1, OneLatest DEF Index, Bucket
    <3>3. QED
      BY <1>2, <3>2
  <2>6. ASSUME NEW n \in 1 .. last, IsObject(k, n) PROVE \E i \in todo : i.id = n
    <3>1. n \in Ids /\ hist[k][n] # NoVersion
      BY <2>6, KindsDiffer DEF IsObject
    <3>2. <<k, n>> \in Listed(k)
      <4>1. StartsWith(k, k)
        <5>1. k.name \in Seq(STRING)
          BY BucketAssumptions
        <5>2. IsPrefix(k.name, k.name)
          BY <5>1 DEF IsPrefix
        <5>3. QED
          BY <5>2 DEF StartsWith
      <4>2. QED
        BY <3>1, <4>1 DEF Listed
    <3>3. <<k, n>> \in wanted
      BY <2>6, <3>2 DEF Wanted
    <3>4. Info(n, IsLatest(k, n)) \in todo
      BY <3>3 DEF todo
    <3>5. QED
      BY <3>4 DEF Info
  <2>7. \A n \in 1 .. last : IsObject(k, n)' => IsObject(k, n)
    BY <2>2 DEF IsObject
  <2>8. QED
    BY <2>1, <2>2, <2>4, <2>5, <2>6, <2>7 DEF ListingGood, Written, IsObject
<1>7. QED
  BY <1>4, <1>5, <1>6, ReaderSteps

LEMMA StatKeepsIndex ==
    ASSUME Index, NEW p \in Slots, StatVersion(p), UNCHANGED tableVars
    PROVE  Index'
<1>1. job[p] \in Listing /\ job[p].pc = "versions" /\ UNCHANGED bucketVars /\ work' = work
  BY JobOf DEF StatVersion, Index, TableTypes
<1>2. PICK v \in job[p].todo :
         job' = [job EXCEPT ![p].todo = @ \ {v}, ![p].found = @ \union {v}]
  BY DEF StatVersion
<1>3. PICK j \in Listing : j = [job[p] EXCEPT !.todo = @ \ {v}, !.found = @ \union {v}]
  <2>1. job[p].todo \ {v} \in SUBSET Infos /\ job[p].found \union {v} \in SUBSET Infos
    BY <1>1 DEF Listing
  <2>2. QED
    BY <1>1, <2>1 DEF Listing
<1>4. /\ j.pc = "versions" /\ j.key = job[p].key /\ j.upTo = job[p].upTo
      /\ j.todo = job[p].todo \ {v} /\ j.found = job[p].found \union {v}
  BY <1>1, <1>3 DEF Listing
<1>5. job'[p] = j /\ job' = [job EXCEPT ![p] = job'[p]] /\ work' \in Nat
  BY <1>1, <1>2, <1>3 DEF Index, TableTypes
<1>6. ListingGood(p)'
  <2>1. Gathered(p)' = Gathered(p)
    BY <1>1, <1>4, <1>5 DEF Gathered
  <2>2. ListingGood(p)
    BY DEF Index, JobGood
  <2>3. QED
    BY <1>1, <1>4, <1>5, <2>1, <2>2 DEF ListingGood, Written, IsObject, bucketVars
<1>7. j \in JobTypes
  BY JobKinds
<1>8. QED
  BY <1>1, <1>4, <1>5, <1>6, <1>7, ReaderSteps

LEMMA ListingDone ==
    ASSUME Index, NEW p \in Slots, VersionsDone(p), UNCHANGED tableVars
    PROVE  Index'
<1> DEFINE k == job[p].key
           shown == {Info(n, TRUE) : n \in {n \in Ids : Shown(k, n)}}
           found == IF job[p].found = {} THEN shown ELSE job[p].found
<1>1. /\ job[p] \in Listing /\ job[p].pc = "versions" /\ job[p].todo = {}
      /\ UNCHANGED bucketVars /\ work' = work
      /\ job' = [job EXCEPT ![p] = Showing(k, found, job[p].upTo)]
  BY JobOf DEF VersionsDone, Index, TableTypes
<1>2. /\ k \in Keys /\ job[p].upTo \in Nat /\ job[p].found \subseteq Infos
  BY <1>1 DEF Listing
<1>3. ASSUME NEW i \in shown PROVE i \in Infos /\ Shown(k, i.id) /\ i = Info(i.id, TRUE)
  <2>1. PICK n \in Ids : Shown(k, n) /\ i = Info(n, TRUE)
    BY <1>3
  <2>2. QED
    BY <2>1 DEF Info, Infos
<1> HIDE DEF shown
<1>4. PICK j \in Shows : j = Showing(k, found, job[p].upTo)
  <2>1. found \in SUBSET Infos
    BY <1>2, <1>3
  <2>2. QED
    BY <1>2, <2>1 DEF Showing, Shows
<1>5. j.pc = "shown" /\ j.key = k /\ j.found = found /\ j.upTo = job[p].upTo
  BY <1>4 DEF Showing
<1>6. job'[p] = j /\ job' = [job EXCEPT ![p] = job'[p]] /\ work' \in Nat
  BY <1>1, <1>4 DEF Index, TableTypes
<1>7. ListingGood(p)'
  <2>1. Gathered(p)' = found /\ Gathered(p) = job[p].found
    BY <1>1, <1>5, <1>6 DEF Gathered
  <2>2. ListingGood(p)
    BY DEF Index, JobGood
  <2>3. CASE job[p].found # {}
    BY <1>1, <1>5, <1>6, <2>1, <2>2, <2>3 DEF ListingGood, Written, IsObject, bucketVars
  <2>4. CASE job[p].found = {}
    <3>1. \A i \in shown : Written(i.id, k)
      BY <1>2, <1>3, ObjectWritten DEF Shown, Index
    <3>2. \A a, b \in shown : a = b
      BY <1>2, <1>3, OneLatest DEF Shown, Index, Bucket
    <3>3. \A n \in 1 .. job[p].upTo : ~IsObject(k, n)
      BY <1>1, <2>1, <2>2, <2>4 DEF ListingGood
    <3>4. QED
      BY <1>1, <1>5, <1>6, <2>1, <2>2, <2>4, <3>1, <3>2, <3>3
      DEF ListingGood, Written, IsObject, bucketVars
  <2>5. QED
    BY <2>3, <2>4
<1>8. j \in JobTypes
  BY JobKinds
<1>9. QED
  BY <1>1, <1>5, <1>6, <1>7, <1>8, ReaderSteps

\* A step of a download.
LEMMA DownloadSteps ==
    ASSUME Index, NEW p \in Slots, NEW j \in {Idle} \union Opening \union Opened \union Sent,
           job' = [job EXCEPT ![p] = j], UNCHANGED bucketVars, UNCHANGED tableVars, work' \in Nat
    PROVE  Index'
<1>1. j \in JobTypes /\ j.pc \in {"idle", "open", "opened", "sent"}
  BY JobKinds DEF Idle, Opening, Opened, Sent
<1>2. job'[p] = j /\ job' = [job EXCEPT ![p] = job'[p]]
  BY DEF Index, TableTypes
<1>3. ListingGood(p)'
  BY <1>1, <1>2 DEF ListingGood
<1>4. QED
  BY <1>1, <1>2, <1>3, ReaderSteps

LEMMA DownloadStarts ==
    ASSUME Index, NEW p \in Slots, NEW u \in Users, NEW ks \in SUBSET Keys,
           Download(p, u, ks), UNCHANGED tableVars
    PROVE  Index'
<1>1. [pc |-> "open", todo |-> ks] \in Opening
  BY DEF Opening
<1>2. [pc |-> "open", todo |-> ks] \in JobTypes
  BY <1>1, JobKinds
<1>3. work' \in Nat /\ job' = [job EXCEPT ![p] = [pc |-> "open", todo |-> ks]]
      /\ UNCHANGED bucketVars
  BY DEF Download, Starts, Takes, ReaderWork, Index, TableTypes
<1>4. QED
  BY <1>1, <1>3, DownloadSteps

LEMMA OpenKeepsIndex ==
    ASSUME Index, NEW p \in Slots, Open(p), UNCHANGED tableVars
    PROVE  Index'
<1>1. job[p] \in Opening /\ UNCHANGED bucketVars /\ work' \in Nat
  BY JobOf DEF Open, Index, TableTypes
<1>2. PICK k \in job[p].todo, n \in Ids :
         /\ Shown(k, n)
         /\ job' = [job EXCEPT ![p] = [pc |-> "opened", todo |-> job[p].todo \ {k},
                                       key |-> k, head |-> n]]
  BY DEF Open
<1>3. [pc |-> "opened", todo |-> job[p].todo \ {k}, key |-> k, head |-> n] \in Opened
  BY <1>1, <1>2 DEF Opening, Opened
<1>4. QED
  BY <1>1, <1>2, <1>3, DownloadSteps

LEMMA ReadKeepsIndex ==
    ASSUME Index, NEW p \in Slots, ReadBody(p), UNCHANGED tableVars
    PROVE  Index'
<1>1. /\ job[p] \in Opened /\ UNCHANGED bucketVars /\ work' \in Nat
  BY JobOf DEF ReadBody, Index, TableTypes
<1>2. /\ job[p].todo \in SUBSET Keys /\ job[p].key \in Keys /\ job[p].head \in Ids
      /\ job[p].pc = "opened"
  BY <1>1 DEF Opened
<1>3. ASSUME NEW n \in Body(job[p].key),
             job' = [job EXCEPT ![p] =
                       [pc |-> "sent", todo |-> job[p].todo, key |-> job[p].key,
                        head |-> job[p].head, body |-> n]]
      PROVE  Index'
  <2>1. [pc |-> "sent", todo |-> job[p].todo, key |-> job[p].key,
         head |-> job[p].head, body |-> n] \in Sent
    BY <1>2, <1>3 DEF Sent, Body
  <2>2. QED
    BY <1>1, <1>3, <2>1, DownloadSteps
<1>4. CASE job' = [job EXCEPT ![p] = [pc |-> "open", todo |-> job[p].todo]]
  <2>1. [pc |-> "open", todo |-> job[p].todo] \in Opening
    BY <1>2 DEF Opening
  <2>2. QED
    BY <1>1, <1>4, <2>1, DownloadSteps
<1>5. QED
  BY <1>3, <1>4 DEF ReadBody

LEMMA ReaderKeepsIndex ==
    ASSUME Index, NEW p \in Slots, ReaderStep(p), UNCHANGED tableVars
    PROVE  Index'
<1>1. ASSUME NEW u \in Users, NEW k \in Keys, NEW scope, ListVersions(p, u, k, scope)
      PROVE  Index'
  BY <1>1, ListCurrent, ListAll DEF ListVersions
<1>2. CASE OpenFails(p)
  <2>1. job[p] \in Opening /\ UNCHANGED bucketVars /\ work' \in Nat
    BY <1>2, JobOf DEF OpenFails, Index, TableTypes
  <2>2. PICK k \in job[p].todo : job' = [job EXCEPT ![p].todo = @ \ {k}]
    BY <1>2 DEF OpenFails
  <2>3. PICK j \in Opening : j = [job[p] EXCEPT !.todo = @ \ {k}]
    BY <2>1 DEF Opening
  <2>4. job' = [job EXCEPT ![p] = j] /\ j.pc = "open"
    BY <2>1, <2>2, <2>3 DEF Opening
  <2>5. QED
    BY <2>1, <2>4, DownloadSteps
<1>3. CASE NextItem(p)
  <2>1. job[p] \in Sent /\ UNCHANGED bucketVars /\ work' \in Nat
    BY <1>3, JobOf DEF NextItem, Index, TableTypes
  <2>2. [pc |-> "open", todo |-> job[p].todo] \in Opening
    BY <2>1 DEF Sent, Opening
  <2>3. job' = [job EXCEPT ![p] = [pc |-> "open", todo |-> job[p].todo]]
    BY <1>3 DEF NextItem
  <2>4. QED
    BY <2>1, <2>2, <2>3, DownloadSteps
<1>4. CASE ReaderReturns(p)
  <2>1. job' = [job EXCEPT ![p] = Idle] /\ UNCHANGED bucketVars /\ work' \in Nat
        /\ Idle.pc = "idle"
    BY <1>4 DEF ReaderReturns, Index, TableTypes, Idle
  <2>2. QED
    BY <2>1, DownloadSteps
<1>5. QED
  BY <1>1, <1>2, <1>3, <1>4, StatKeepsIndex, ListingDone, DownloadStarts, OpenKeepsIndex,
     ReadKeepsIndex DEF ReaderStep

-----------------------------------------------------------------------------
(* Searches.                                                                *)

LEMMA SearchSteps ==
    ASSUME Index, NEW p \in Slots, NEW j \in {Idle} \union Searching \union Answering,
           UNCHANGED <<bucketVars, rows, told>>,
           job' = [job EXCEPT ![p] = j], work' \in Nat,
           j.pc \in {"fill", "found"} =>
               \A i \in j.found : GoodItem(i) /\ i.key.owner = j.query.user,
           cache' \in [Searches -> {NoAnswer} \union SUBSET Items],
           \A q \in Searches : cache'[q] # NoAnswer /\ cache'[q] # cache[q] =>
               \A i \in cache'[q] : GoodItem(i) /\ i.key.owner = q.user
    PROVE  Index'
<1>1. j \in JobTypes /\ j.pc \in {"idle", "search", "fill", "found"}
  BY JobKinds DEF Idle, Searching, Answering
<1>2. job'[p] = j /\ job' = [job EXCEPT ![p] = job'[p]] /\ last' = last /\ made' = made
  BY DEF Index, TableTypes, bucketVars
<1>3. ListingGood(p)'
  BY <1>1, <1>2 DEF ListingGood
<1>4. AnswerGood(p)'
  BY <1>1, <1>2 DEF AnswerGood, GoodItem
<1>5. CacheGood'
  <2>1. ASSUME NEW q \in Searches, cache'[q] # NoAnswer, NEW i \in cache'[q]
        PROVE  GoodItem(i) /\ i.key.owner = q.user
    BY <2>1 DEF Index, CacheGood
  <2>2. QED
    BY <1>2, <2>1 DEF CacheGood, GoodItem
<1>6. QED
  BY <1>1, <1>2, <1>3, <1>4, <1>5, SlotSteps

LEMMA MatchesOwn ==
    ASSUME NEW k, NEW q, Matches(k, q)
    PROVE  rows[k] # NoRow /\ k.owner = q.user
  BY Zenon DEF Matches

LEMMA SearchKeepsIndex ==
    ASSUME Index, NEW p \in Slots,
           \/ \E u \in Users, f \in Filters : StartSearch(p, u, f)
           \/ CacheHit(p) \/ Query(p) \/ FillCache(p) \/ SearchReturns(p)
    PROVE  Index'
<1> USE DEF Index, TableTypes
<1>1. ASSUME NEW u \in Users, NEW f \in Filters, StartSearch(p, u, f) PROVE Index'
  <2>1. PICK j \in Searching : j = [pc |-> "search", query |-> Search(u, f)]
    BY DEF Search, Searches, Searching
  <2>2. /\ job' = [job EXCEPT ![p] = j] /\ work' \in Nat /\ j.pc = "search"
        /\ UNCHANGED <<bucketVars, rows, told, cache>>
    BY <1>1, <2>1 DEF StartSearch, Starts, Takes, IndexWork, tableVars
  <2>3. QED
    BY <2>2, SearchSteps
<1>2. ASSUME CacheHit(p) \/ Query(p) PROVE Index'
  <2>1. job[p] \in Searching /\ job[p].query \in Searches
    <3>1. job[p].pc = "search"
      BY <1>2 DEF CacheHit, Query
    <3>2. job[p] \in Searching
      BY <3>1, JobOf
    <3>3. QED
      BY <3>2 DEF Searching
  <2>2. UNCHANGED <<bucketVars, rows, told, cache>> /\ work' \in Nat
    BY <1>2 DEF CacheHit, Query, tableVars
  <2>3. \E pc \in {"fill", "found"}, found \in SUBSET Items :
           /\ job' = [job EXCEPT ![p] = [pc |-> pc, query |-> job[p].query, found |-> found]]
           /\ \A i \in found : GoodItem(i) /\ i.key.owner = job[p].query.user
    <3>1. CASE CacheHit(p)
      <4> DEFINE found == cache[job[p].query]
      <4>1. /\ found # NoAnswer
            /\ job' = [job EXCEPT ![p] = [pc |-> "found", query |-> job[p].query, found |-> found]]
        BY <3>1 DEF CacheHit, Answer, SearchKey
      <4>2. found \in SUBSET Items /\ \A i \in found : GoodItem(i) /\ i.key.owner = job[p].query.user
        BY <2>1, <4>1 DEF CacheGood
      <4>3. QED
        BY <4>1, <4>2
    <3>2. CASE Query(p)
      <4> DEFINE found == {[key |-> k, modified |-> rows[k].modified, body |-> rows[k].body] :
                           k \in {k \in Keys : Matches(k, job[p].query)}}
      <4>1. job' = [job EXCEPT ![p] = [pc |-> "fill", query |-> job[p].query, found |-> found]]
        BY <3>2 DEF Query, Answer
      <4>2. ASSUME NEW k \in Keys, Matches(k, job[p].query)
            PROVE  /\ [key |-> k, modified |-> rows[k].modified, body |-> rows[k].body] \in Items
                   /\ GoodItem([key |-> k, modified |-> rows[k].modified, body |-> rows[k].body])
                   /\ k.owner = job[p].query.user
        <5>1. rows[k] # NoRow /\ k.owner = job[p].query.user
          BY <4>2, MatchesOwn
        <5>2. rows[k].modified \in Ids /\ rows[k].body \in Contents
          BY <5>1 DEF Rows
        <5>3. QED
          BY <5>1, <5>2 DEF RowsGood, GoodItem, Items
      <4>3. found \in SUBSET Items /\ \A i \in found : GoodItem(i) /\ i.key.owner = job[p].query.user
        BY <4>2
      <4> HIDE DEF found
      <4>4. QED
        BY <4>1, <4>3
    <3>3. QED
      BY <1>2, <3>1, <3>2
  <2>4. PICK pc \in {"fill", "found"}, found \in SUBSET Items :
           /\ job' = [job EXCEPT ![p] = [pc |-> pc, query |-> job[p].query, found |-> found]]
           /\ \A i \in found : GoodItem(i) /\ i.key.owner = job[p].query.user
    BY <2>3
  <2>5. PICK j \in Answering : j = [pc |-> pc, query |-> job[p].query, found |-> found]
    BY <2>1 DEF Answering
  <2>6. j.query = job[p].query /\ j.found = found
    BY <2>5
  <2>7. QED
    BY <2>2, <2>4, <2>5, <2>6, SearchSteps
<1>3. CASE FillCache(p)
  <2>1. job[p].pc = "fill" /\ UNCHANGED <<bucketVars, rows, told>> /\ work' \in Nat
    BY <1>3 DEF FillCache
  <2>2. job[p] \in Answering /\ job[p].query \in Searches /\ job[p].found \in SUBSET Items
    <3>1. job[p] \in Answering
      BY <2>1, JobOf
    <3>2. QED
      BY <3>1 DEF Answering
  <2>3. \A i \in job[p].found : GoodItem(i) /\ i.key.owner = job[p].query.user
    BY <2>1 DEF JobGood, AnswerGood
  <2>4. PICK j \in Answering : j = [pc |-> "found", query |-> job[p].query, found |-> job[p].found]
    BY <2>2 DEF Answering
  <2>5. job' = [job EXCEPT ![p] = j] /\ j.found = job[p].found /\ j.query = job[p].query
    BY <1>3, <2>4 DEF FillCache, Answer
  <2>6. cache' = cache \/ cache' = [cache EXCEPT ![job[p].query] = job[p].found]
    BY <1>3 DEF FillCache, SearchKey
  <2>7. cache' \in [Searches -> {NoAnswer} \union SUBSET Items]
        /\ \A q \in Searches : cache'[q] # cache[q] => q = job[p].query /\ cache'[q] = job[p].found
    BY <2>2, <2>6
  <2>8. QED
    BY <2>1, <2>3, <2>5, <2>7, SearchSteps
<1>4. CASE SearchReturns(p)
  <2>1. job' = [job EXCEPT ![p] = Idle] /\ UNCHANGED <<bucketVars, rows, told, cache>>
        /\ work' \in Nat /\ Idle.pc = "idle"
    BY <1>4 DEF SearchReturns, tableVars, Idle
  <2>2. QED
    BY <2>1, SearchSteps
<1>5. QED
  BY <1>1, <1>2, <1>3, <1>4

-----------------------------------------------------------------------------
(* Synchronisations.                                                        *)

\* What the code lists by prefix and date is what its comment says of each
\* combination of dates.
LEMMA MeantIsListed ==
    ASSUME Bucket, NEW u \in Users, NEW sc \in Scopes, Valid(sc)
    PROVE  ToSync(u, sc) = Meant(u, sc)
<1>1. sc \in [year : Nat, month : Nat, day : Nat]
  BY IndexAssumptions
<1>2. sc.year \in Nat /\ sc.month \in Nat /\ sc.day \in Nat
      /\ sc = [year |-> sc.year, month |-> sc.month, day |-> sc.day]
  BY <1>1
<1>3. sc.day > 0 => sc.year > 0 /\ sc.month > 0
  BY DEF Valid
<1> DEFINE Means(v) ==
        CASE sc.year > 0 /\ sc.month = 0 /\ sc.day = 0 -> v[1].year = sc.year
          [] sc.year > 0 /\ sc.month > 0 /\ sc.day = 0 ->
                 v[1].year = sc.year /\ v[1].month = sc.month
          [] sc.year > 0 /\ sc.month > 0 /\ sc.day > 0 ->
                 /\ v[1].year = sc.year /\ v[1].month = sc.month
                 /\ hist[v[1]][v[2]].date = sc
          [] OTHER -> TRUE
<1>4. ASSUME NEW v \in Keys \X Ids, Shown(v[1], v[2])
      PROVE  HasPrefix(sc, v[1]) /\ OfDay(sc, hist[v[1]][v[2]].date) <=> Means(v)
  <2>1. hist[v[1]][v[2]] \in Objects
    BY <1>4, KindsDiffer DEF Shown, IsObject, Bucket, BucketTypes
  <2>2. PICK d \in Dates : d = hist[v[1]][v[2]].date
    BY <2>1 DEF Objects
  <2>3. d = [year |-> d.year, month |-> d.month, day |-> d.day]
    BY DEF Dates
  <2>4. d = sc <=> d.year = sc.year /\ d.month = sc.month /\ d.day = sc.day
    BY <1>2, <2>3
  <2>5. CASE sc.year = 0
    BY <1>2, <2>5 DEF HasPrefix, OfDay
  <2>6. CASE sc.year > 0 /\ sc.month = 0
    BY <1>2, <1>3, <2>6 DEF HasPrefix, OfDay
  <2>7. CASE sc.year > 0 /\ sc.month > 0 /\ sc.day = 0
    BY <1>2, <2>7 DEF HasPrefix, OfDay
  <2>8. CASE sc.year > 0 /\ sc.month > 0 /\ sc.day > 0
    <3>1. HasPrefix(sc, v[1]) <=> v[1].year = sc.year /\ v[1].month = sc.month
      BY <1>2, <2>8 DEF HasPrefix
    <3>2. OfDay(sc, d) <=> d = sc
      BY <2>4, <2>8 DEF OfDay
    <3>3. Means(v) <=> v[1].year = sc.year /\ v[1].month = sc.month /\ d = sc
      BY <1>2, <2>2, <2>8
    <3>4. QED
      BY <2>2, <3>1, <3>2, <3>3
  <2>9. QED
    BY <1>2, <2>5, <2>6, <2>7, <2>8
<1>5. Meant(u, sc) = {v \in Keys \X Ids : v[1].owner = u /\ Shown(v[1], v[2]) /\ Means(v)}
  BY DEF Meant
<1> HIDE DEF Means
<1>6. QED
  BY <1>4, <1>5 DEF ToSync

LEMMA SyncStarts ==
    ASSUME Index, NEW p \in Slots, NEW u \in Users, NEW sc \in Scopes, StartSync(p, u, sc)
    PROVE  Index'
<1> USE DEF Index
<1> DEFINE items == {Item(v) : v \in ToSync(u, sc)}
           new == [pc |-> "sync", user |-> u, todo |-> items, meant |-> items,
                   failed |-> FALSE, alone |-> Syncs(u, {"sync"}) = {}]
<1>1. /\ job[p] = Idle /\ UNCHANGED <<bucketVars, tableVars>> /\ work' \in Nat
      /\ job' = [q \in Slots |->
                   IF q = p THEN new
                   ELSE IF q \in Syncs(u, {"sync", "synced"}) THEN [job[q] EXCEPT !.alone = FALSE]
                   ELSE job[q]]
  <2>1. ToSync(u, sc) = Meant(u, sc)
    BY MeantIsListed DEF StartSync
  <2>2. QED
    BY <2>1 DEF StartSync, Takes, IndexWork, TableTypes
<1>2. UNCHANGED <<rows, cache, told, last, made, hist>> /\ Bucket' /\ BucketGrows
  BY <1>1, BucketKept DEF tableVars, bucketVars
<1>3. ASSUME NEW v \in ToSync(u, sc)
      PROVE  /\ Item(v) \in Items /\ GoodItem(Item(v)) /\ Item(v).key = v[1] /\ Item(v).modified = v[2]
             /\ v[1] \in Keys /\ v[1].owner = u /\ IsLatest(v[1], v[2])
  <2>1. /\ v[1] \in Keys /\ v[2] \in Ids /\ v[1].owner = u
        /\ IsLatest(v[1], v[2]) /\ IsObject(v[1], v[2])
    BY DEF ToSync, Shown
  <2>2. /\ Written(v[2], v[1]) /\ hist[v[1]][v[2]].body \in Contents
        /\ made[v[2]] = [key |-> v[1], body |-> hist[v[1]][v[2]].body]
    BY <2>1, ObjectWritten
  <2>3. QED
    BY <2>1, <2>2 DEF Item, Items, GoodItem, Written
<1>4. ASSUME NEW i \in items
      PROVE  i \in Items /\ GoodItem(i) /\ i.key.owner = u
  BY <1>3
<1>5. ASSUME NEW a \in items, NEW b \in items, a.key = b.key PROVE a = b
  <2>1. PICK v \in ToSync(u, sc) : a = Item(v)
    OBVIOUS
  <2>2. PICK w \in ToSync(u, sc) : b = Item(w)
    OBVIOUS
  <2>3. v[1] = w[1] /\ v[1] \in Keys /\ IsLatest(v[1], v[2]) /\ IsLatest(v[1], w[2])
    BY <1>3, <1>5, <2>1, <2>2
  <2>4. v[2] = w[2]
    BY <2>3, OneLatest DEF Bucket
  <2>5. QED
    BY <2>1, <2>2, <2>3, <2>4 DEF Item
<1> HIDE DEF items
<1>6. new \in Syncing /\ new \in JobTypes
  <2>1. items \in SUBSET Items /\ (Syncs(u, {"sync"}) = {}) \in BOOLEAN
    BY <1>4
  <2>2. new \in Syncing
    BY <2>1 DEF Syncing
  <2>3. QED
    BY <2>2, JobKinds
<1>7. ASSUME NEW q \in Slots \ {p}
      PROVE  /\ job'[q] \in JobTypes /\ job'[q].pc = job[q].pc /\ job'[q].user = job[q].user
             /\ job'[q] = job[q]
                \/ /\ job[q] \in Syncing
                   /\ job'[q] = [job[q] EXCEPT !.alone = FALSE]
             /\ job[q].pc \in {"sync", "synced"} /\ job[q].user = u =>
                  job'[q] = [job[q] EXCEPT !.alone = FALSE]
  <2>1. CASE q \in Syncs(u, {"sync", "synced"})
    <3>1. job[q] \in Syncing /\ job'[q] = [job[q] EXCEPT !.alone = FALSE]
      BY <1>1, <2>1, JobOf DEF Syncs, TableTypes
    <3>2. job'[q] \in Syncing /\ job'[q].pc = job[q].pc /\ job'[q].user = job[q].user
      BY <3>1 DEF Syncing
    <3>3. QED
      BY <3>1, <3>2, JobKinds
  <2>2. CASE q \notin Syncs(u, {"sync", "synced"})
    <3>1. job'[q] = job[q] /\ job[q] \in JobTypes
      BY <1>1, <2>2 DEF TableTypes
    <3>2. ~(job[q].pc \in {"sync", "synced"} /\ job[q].user = u)
      BY <2>2 DEF Syncs
    <3>3. QED
      BY <3>1, <3>2
  <2>3. QED
    BY <2>1, <2>2
<1> HIDE DEF new
<1>8. TableTypes'
  <2>1. job' \in [Slots -> JobTypes]
    BY <1>1, <1>6, <1>7
  <2>2. QED
    BY <1>1, <1>2, <2>1 DEF TableTypes
<1>9. RowsGood' /\ CacheGood'
  BY <1>2, TableStays
<1>10. ASSUME NEW q \in Slots \ {p} PROVE JobGood(q)'
  <2>1. ListingGood(q) /\ AnswerGood(q) /\ SyncGood(q)
    BY DEF JobGood
  <2>2. CASE job[q] \in Syncing /\ job'[q] = [job[q] EXCEPT !.alone = FALSE]
    <3>1. /\ job'[q].pc = job[q].pc /\ job[q].pc \in {"sync", "synced"}
          /\ job'[q].todo = job[q].todo /\ job'[q].meant = job[q].meant
          /\ job'[q].user = job[q].user /\ job'[q].failed = job[q].failed
          /\ ~job'[q].alone
      BY <2>2 DEF Syncing
    <3>2. ListingGood(q)' /\ AnswerGood(q)'
      BY <3>1 DEF ListingGood, AnswerGood
    <3>3. SyncGood(q)'
      BY <1>2, <2>1, <3>1 DEF SyncGood, GoodItem
    <3>4. QED
      BY <3>2, <3>3 DEF JobGood
  <2>3. CASE job'[q] = job[q] /\ ~(job[q].pc \in {"sync", "synced"} /\ job[q].user = u)
    <3>1. ListingGood(q)' /\ AnswerGood(q)'
      BY <1>2, <2>3, SlotStays
    <3>2. SyncGood(q)'
      <4>1. CASE job[q].pc \notin {"sync", "synced"}
        BY <2>3, <4>1 DEF SyncGood
      <4>2. CASE job[q].pc \in {"sync", "synced"}
        <5>1. \A r \in Slots \ {q} : job'[r].pc = "sync" /\ job'[r].user # u =>
                 job[r].pc = "sync" /\ job'[r].user = job[r].user
          <6>1. ASSUME NEW r \in Slots \ {q}, job'[r].pc = "sync", job'[r].user # u
                PROVE  job[r].pc = "sync" /\ job'[r].user = job[r].user
            <7>1. r # p
              BY <1>1, <6>1 DEF new
            <7>2. job[r].pc = "sync"
              BY <1>7, <6>1, <7>1
            <7>3. job'[r].user = job[r].user
              BY <1>7, <7>1
            <7>4. QED
              BY <7>2, <7>3
          <6>2. QED
            BY <6>1
        <5>2. job[q].user # u
          BY <2>3, <4>2
        <5>3. QED
          BY <1>2, <2>1, <2>3, <4>2, <5>1, <5>2 DEF SyncGood, GoodItem, Stored
      <4>3. QED
        BY <4>1, <4>2
    <3>3. QED
      BY <3>1, <3>2 DEF JobGood
  <2>4. QED
    <3>1. job[q].pc \in {"sync", "synced"} => job[q] \in Syncing
      BY JobOf DEF TableTypes
    <3>2. QED
      BY <1>7, <2>2, <2>3, <3>1
<1>11. JobGood(p)'
  <2>1. job'[p] = new
    BY <1>1
  <2>2. /\ new.pc = "sync" /\ new.user = u /\ new.todo = items /\ new.meant = items
        /\ new.alone => Syncs(u, {"sync"}) = {}
    BY DEF new
  <2>3. ListingGood(p)' /\ AnswerGood(p)'
    BY <2>1, <2>2 DEF ListingGood, AnswerGood
  <2>4. new.alone => \A q \in Slots \ {p} : job'[q].pc = "sync" => job'[q].user # u
    <3>1. ASSUME new.alone, NEW q \in Slots \ {p}, job'[q].pc = "sync", job'[q].user = u
          PROVE  FALSE
      <4>1. job[q].pc = "sync"
        BY <1>7, <3>1
      <4>2. job[q].user = u
        BY <1>7, <3>1
      <4>3. q \in Syncs(u, {"sync"})
        BY <4>1, <4>2 DEF Syncs
      <4>4. QED
        BY <2>2, <3>1, <4>3
    <3>2. QED
      BY <3>1
  <2>5. SyncGood(p)'
    BY <1>2, <1>4, <1>5, <2>1, <2>2, <2>4 DEF SyncGood, GoodItem
  <2>6. QED
    BY <2>3, <2>5 DEF JobGood
<1>12. QED
  BY <1>2, <1>8, <1>9, <1>10, <1>11

\* The string that stands for no type and no annotation.
Blank == ""

LEMMA BlankFacts == Blank \in Types /\ Blank \in Notes
<1>1. "" \in Types
  BY BucketAssumptions
<1>2. "" \in Notes
  BY Zenon DEF Notes
<1>3. QED
  BY <1>1, <1>2, Zenon DEF Blank

LEMMA UpsertedIs ==
    \A row, i : Upserted(row, i) = IF row = NoRow THEN Row(i.modified, i.body, Blank, Blank)
                                   ELSE Row(i.modified, i.body, row.type, row.note)
  BY Zenon DEF Upserted, Blank

LEMMA UpsertedFacts ==
    ASSUME NEW row \in {NoRow} \union Rows, NEW i \in Items
    PROVE  /\ Upserted(row, i) \in Rows /\ Upserted(row, i) # NoRow
           /\ Upserted(row, i).modified = i.modified /\ Upserted(row, i).body = i.body
           /\ row = NoRow => Upserted(row, i).type = Blank /\ Upserted(row, i).note = Blank
           /\ row # NoRow => Upserted(row, i).type = row.type /\ Upserted(row, i).note = row.note
<1>1. i.modified \in Ids /\ i.body \in Contents
  BY DEF Items
<1>2. CASE row = NoRow
  <2>1. PICK r \in Rows : r = Row(i.modified, i.body, Blank, Blank)
    BY <1>1, BlankFacts DEF Row, Rows
  <2>2. Upserted(row, i) = r
    BY <1>2, <2>1, UpsertedIs
  <2>3. r.modified = i.modified /\ r.body = i.body /\ r.type = Blank /\ r.note = Blank
    BY <2>1 DEF Row
  <2>4. QED
    BY <1>2, <2>2, <2>3, NoRowIsNone
<1>3. CASE row # NoRow
  <2>1. row.type \in Types /\ row.note \in Notes
    BY <1>3 DEF Rows
  <2>2. PICK r \in Rows : r = Row(i.modified, i.body, row.type, row.note)
    BY <1>1, <2>1 DEF Row, Rows
  <2>3. Upserted(row, i) = r
    BY <1>3, <2>2, UpsertedIs
  <2>4. r.modified = i.modified /\ r.body = i.body /\ r.type = row.type /\ r.note = row.note
    BY <2>2 DEF Row
  <2>5. QED
    BY <1>3, <2>3, <2>4, NoRowIsNone
<1>4. QED
  BY <1>2, <1>3

\* What one object of a synchronisation does: it is put into the table, or it is
\* not and the failure noted.
LEMMA SyncOneFacts ==
    ASSUME Index, NEW p \in Slots, SyncOne(p)
    PROVE  \E i \in job[p].todo :
              /\ job[p] \in Syncing /\ job[p].pc = "sync" /\ i \in Items /\ i.key \in Keys
              /\ job' = [job EXCEPT ![p] = job'[p]]
              /\ job'[p] \in Syncing /\ job'[p].pc = "sync" /\ job'[p].user = job[p].user
              /\ job'[p].todo = job[p].todo \ {i} /\ job'[p].meant = job[p].meant
              /\ job'[p].alone = job[p].alone
              /\ \/ job'[p].failed /\ UNCHANGED rows
                 \/ /\ job'[p].failed = job[p].failed
                    /\ rows' = [rows EXCEPT ![i.key] = Upserted(rows[i.key], i)]
<1>1. job[p] \in Syncing /\ job[p].pc = "sync" /\ job \in [Slots -> JobTypes]
  BY JobOf DEF SyncOne, Index, TableTypes
<1>2. PICK i \in job[p].todo :
         \/ /\ rows' = [rows EXCEPT ![i.key] = Upserted(@, i)]
            /\ job' = [job EXCEPT ![p].todo = @ \ {i}]
         \/ /\ job' = [job EXCEPT ![p].todo = @ \ {i}, ![p].failed = TRUE]
            /\ UNCHANGED rows
  BY DEF SyncOne
<1>3. i \in Items /\ i.key \in Keys
  BY <1>1 DEF Syncing, Items
<1>4. CASE /\ rows' = [rows EXCEPT ![i.key] = Upserted(@, i)]
           /\ job' = [job EXCEPT ![p].todo = @ \ {i}]
  <2>1. PICK j \in Syncing : j = [job[p] EXCEPT !.todo = @ \ {i}]
    BY <1>1 DEF Syncing
  <2>2. job' = [job EXCEPT ![p] = j] /\ job'[p] = j
    BY <1>1, <1>4, <2>1
  <2>3. /\ j.pc = "sync" /\ j.user = job[p].user /\ j.todo = job[p].todo \ {i}
        /\ j.meant = job[p].meant /\ j.alone = job[p].alone /\ j.failed = job[p].failed
    BY <1>1, <2>1 DEF Syncing
  <2>4. rows' = [rows EXCEPT ![i.key] = Upserted(rows[i.key], i)]
    BY <1>4
  <2>5. QED
    BY <1>1, <1>3, <2>2, <2>3, <2>4
<1>5. CASE /\ job' = [job EXCEPT ![p].todo = @ \ {i}, ![p].failed = TRUE]
           /\ UNCHANGED rows
  <2>1. PICK j \in Syncing : j = [job[p] EXCEPT !.todo = @ \ {i}, !.failed = TRUE]
    BY <1>1 DEF Syncing
  <2>2. job' = [job EXCEPT ![p] = j] /\ job'[p] = j
    BY <1>1, <1>5, <2>1
  <2>3. /\ j.pc = "sync" /\ j.user = job[p].user /\ j.todo = job[p].todo \ {i}
        /\ j.meant = job[p].meant /\ j.alone = job[p].alone /\ j.failed
    BY <1>1, <2>1 DEF Syncing
  <2>4. QED
    BY <1>1, <1>3, <1>5, <2>2, <2>3
<1>6. QED
  BY <1>2, <1>4, <1>5

LEMMA SyncOneKeepsIndex ==
    ASSUME Index, NEW p \in Slots, SyncOne(p)
    PROVE  Index'
<1> USE DEF Index
<1>1. UNCHANGED <<bucketVars, work, cache, told>> /\ last' = last /\ made' = made
  BY DEF SyncOne, bucketVars
<1>2. Bucket' /\ BucketGrows
  BY <1>1, BucketKept
<1>3. PICK i \in job[p].todo :
         /\ job[p] \in Syncing /\ job[p].pc = "sync" /\ i \in Items /\ i.key \in Keys
         /\ job' = [job EXCEPT ![p] = job'[p]]
         /\ job'[p] \in Syncing /\ job'[p].pc = "sync" /\ job'[p].user = job[p].user
         /\ job'[p].todo = job[p].todo \ {i} /\ job'[p].meant = job[p].meant
         /\ job'[p].alone = job[p].alone
         /\ \/ job'[p].failed /\ UNCHANGED rows
            \/ /\ job'[p].failed = job[p].failed
               /\ rows' = [rows EXCEPT ![i.key] = Upserted(rows[i.key], i)]
  BY SyncOneFacts
<1>4. SyncGood(p) /\ i \in job[p].meant /\ GoodItem(i) /\ i.key.owner = job[p].user
  BY <1>3 DEF JobGood, SyncGood
<1>5. rows[i.key] \in {NoRow} \union Rows
  BY <1>3 DEF TableTypes
<1>6. /\ Upserted(rows[i.key], i) \in Rows /\ Upserted(rows[i.key], i) # NoRow
      /\ Upserted(rows[i.key], i).modified = i.modified /\ Upserted(rows[i.key], i).body = i.body
  BY <1>3, <1>5, UpsertedFacts
<1>7. \/ UNCHANGED rows
      \/ /\ rows' \in [Keys -> {NoRow} \union Rows] /\ Stored(i)'
         /\ \A k \in Keys \ {i.key} : rows'[k] = rows[k]
  BY <1>3, <1>6 DEF TableTypes, Stored
<1>8. \A q \in Slots \ {p} : job'[q] = job[q]
  BY <1>3 DEF TableTypes
<1>9. TableTypes'
  <2>1. job'[p] \in JobTypes
    BY <1>3, JobKinds
  <2>2. job' \in [Slots -> JobTypes]
    BY <1>3, <2>1 DEF TableTypes
  <2>3. QED
    BY <1>1, <1>7, <2>2 DEF TableTypes
<1>10. RowsGood'
  <2>1. ASSUME NEW k \in Keys, rows'[k] # NoRow
        PROVE  rows'[k].modified <= last /\ made[rows'[k].modified] = [key |-> k, body |-> rows'[k].body]
    <3>1. CASE rows'[k] = rows[k]
      BY <2>1, <3>1 DEF RowsGood
    <3>2. CASE rows'[k] # rows[k]
      <4>1. k = i.key /\ Stored(i)'
        BY <1>7, <3>2
      <4>2. rows'[k].modified = i.modified /\ rows'[k].body = i.body
        BY <4>1 DEF Stored
      <4>3. QED
        BY <1>4, <4>1, <4>2 DEF GoodItem
    <3>3. QED
      BY <3>1, <3>2
  <2>2. QED
    BY <1>1, <2>1 DEF RowsGood
<1>11. CacheGood'
  BY <1>1 DEF CacheGood, GoodItem
<1>12. ASSUME NEW q \in Slots \ {p} PROVE JobGood(q)'
  <2>1. ListingGood(q)' /\ AnswerGood(q)'
    BY <1>2, <1>8, SlotStays
  <2>2. SyncGood(q)'
    <3>1. CASE job[q].pc \notin {"sync", "synced"}
      BY <1>8, <3>1 DEF SyncGood
    <3>2. CASE job[q].pc \in {"sync", "synced"}
      <4>1. SyncGood(q) /\ job'[q] = job[q] /\ job[q] \in Syncing
        BY <1>8, <3>2, JobOf DEF JobGood, TableTypes
      <4>2. job[q].alone => \A r \in Slots \ {q} : job'[r].pc = "sync" => job'[r].user # job[q].user
        BY <1>3, <1>8, <3>2, <4>1 DEF SyncGood
      <4>3. ASSUME job[q].alone, NEW m \in job[q].meant, Stored(m) PROVE Stored(m)'
        <5>1. job[q].user # job[p].user
          BY <1>3, <3>2, <4>1, <4>3 DEF SyncGood
        <5>2. m.key.owner = job[q].user /\ m.key \in Keys
          BY <3>2, <4>1 DEF SyncGood, Syncing, Items
        <5>3. m.key # i.key
          BY <1>4, <5>1, <5>2
        <5>4. rows'[m.key] = rows[m.key]
          BY <1>7, <5>2, <5>3
        <5>5. QED
          BY <4>3, <5>4 DEF Stored
      <4>4. job[q].alone /\ ~job[q].failed => \A m \in job[q].meant \ job[q].todo : Stored(m)'
        BY <3>2, <4>1, <4>3 DEF SyncGood
      <4>5. QED
        BY <1>1, <3>2, <4>1, <4>2, <4>4 DEF SyncGood, GoodItem
    <3>3. QED
      BY <3>1, <3>2
  <2>3. QED
    BY <2>1, <2>2 DEF JobGood
<1>13. JobGood(p)'
  <2>1. ListingGood(p)' /\ AnswerGood(p)'
    BY <1>3 DEF ListingGood, AnswerGood
  <2>2. ASSUME job[p].alone, ~job'[p].failed, NEW m \in job[p].meant \ (job[p].todo \ {i})
        PROVE  Stored(m)'
    <3>1. /\ ~job[p].failed /\ rows' = [rows EXCEPT ![i.key] = Upserted(rows[i.key], i)]
      BY <1>3, <2>2
    <3>2. Stored(i)'
      BY <1>3, <1>6, <3>1 DEF Stored, TableTypes
    <3>3. CASE m = i
      BY <3>2, <3>3
    <3>4. CASE m # i
      <4>1. Stored(m)
        BY <1>3, <1>4, <2>2, <3>1, <3>4 DEF SyncGood
      <4>2. m.key # i.key /\ m.key \in Keys
        BY <1>3, <1>4, <2>2, <3>4 DEF SyncGood, Syncing, Items
      <4>3. rows'[m.key] = rows[m.key]
        BY <1>7, <4>2
      <4>4. QED
        BY <4>1, <4>3 DEF Stored
    <3>5. QED
      BY <3>3, <3>4
  <2>3. SyncGood(p)'
    <3>1. job[p].alone => \A q \in Slots \ {p} : job'[q].pc = "sync" => job'[q].user # job[p].user
      BY <1>3, <1>4, <1>8 DEF SyncGood
    <3>2. /\ job[p].todo \subseteq job[p].meant
          /\ \A m \in job[p].meant : GoodItem(m) /\ m.key.owner = job[p].user
          /\ \A a, b \in job[p].meant : a.key = b.key => a = b
      BY <1>3, <1>4 DEF SyncGood
    <3>3. job'[p].todo \subseteq job'[p].meant
      BY <1>3, <3>2
    <3>4. QED
      BY <1>1, <1>3, <2>2, <3>1, <3>2, <3>3 DEF SyncGood, GoodItem
  <2>4. QED
    BY <2>1, <2>3 DEF JobGood
<1>14. QED
  BY <1>2, <1>9, <1>10, <1>11, <1>12, <1>13

LEMMA SyncEndsKeepsIndex ==
    ASSUME Index, NEW p \in Slots, SyncEnds(p)
    PROVE  Index'
<1> USE DEF Index
<1>1. /\ UNCHANGED <<bucketVars, work, rows, cache, told>>
      /\ last' = last /\ made' = made /\ Bucket' /\ BucketGrows
  BY BucketKept DEF SyncEnds, tableVars, bucketVars
<1>2. job[p] \in Syncing /\ job[p].pc = "sync" /\ job[p].todo = {}
  BY JobOf DEF SyncEnds, TableTypes
<1>3. PICK j \in Syncing : j = [job[p] EXCEPT !.pc = "synced"]
  BY <1>2 DEF Syncing
<1>4. job' = [job EXCEPT ![p] = j]
  BY <1>3 DEF SyncEnds
<1>5. /\ j.pc = "synced" /\ j.user = job[p].user /\ j.todo = {} /\ j.meant = job[p].meant
      /\ j.alone = job[p].alone /\ j.failed = job[p].failed
  BY <1>2, <1>3 DEF Syncing
<1>6. job'[p] = j /\ \A q \in Slots \ {p} : job'[q] = job[q]
  BY <1>4 DEF TableTypes
<1>7. TableTypes' /\ RowsGood' /\ CacheGood'
  <2>1. job' \in [Slots -> JobTypes]
    BY <1>4, JobKinds DEF TableTypes
  <2>2. QED
    BY <1>1, <2>1, TableStays DEF TableTypes
<1>8. ASSUME NEW q \in Slots \ {p} PROVE JobGood(q)'
  <2>1. ListingGood(q)' /\ AnswerGood(q)'
    BY <1>1, <1>6, SlotStays
  <2>2. \A r \in Slots \ {q} : job'[r].pc = "sync" =>
           job[r].pc = "sync" /\ job'[r].user = job[r].user
    BY <1>5, <1>6
  <2>3. \A k \in Keys : Stored([key |-> k, modified |-> rows[k].modified, body |-> rows[k].body])
                           => rows'[k] # NoRow /\ rows'[k].modified = rows[k].modified
                              /\ rows'[k].body = rows[k].body
    BY <1>1 DEF Stored
  <2>4. SyncGood(q)'
    BY <1>1, <1>6, <2>2, <2>3, SyncStays
  <2>5. QED
    BY <2>1, <2>4 DEF JobGood
<1>9. JobGood(p)'
  <2>1. ListingGood(p)' /\ AnswerGood(p)'
    BY <1>5, <1>6 DEF ListingGood, AnswerGood
  <2>2. SyncGood(p)
    BY DEF JobGood
  <2>3. job[p].alone => \A q \in Slots \ {p} : job'[q].pc = "sync" => job'[q].user # job[p].user
    BY <1>2, <1>6, <2>2 DEF SyncGood
  <2>4. SyncGood(p)'
    BY <1>1, <1>2, <1>5, <1>6, <2>2, <2>3 DEF SyncGood, GoodItem, Stored
  <2>5. QED
    BY <2>1, <2>4 DEF JobGood
<1>10. QED
  BY <1>1, <1>7, <1>8, <1>9

LEMMA SyncAbortsKeepsIndex ==
    ASSUME Index, NEW p \in Slots, SyncAborts(p)
    PROVE  Index'
<1>1. job' = [job EXCEPT ![p] = Idle] /\ UNCHANGED <<bucketVars, work, rows, cache, told>>
  BY DEF SyncAborts, tableVars
<1>2. Idle \in JobTypes /\ Idle.pc = "idle"
  BY JobKinds DEF Idle
<1>3. job'[p] = Idle /\ work' \in Nat
  BY <1>1 DEF Index, TableTypes
<1>4. ListingGood(p)' /\ AnswerGood(p)'
  BY <1>2, <1>3 DEF ListingGood, AnswerGood
<1>5. CacheGood' /\ cache' \in [Searches -> {NoAnswer} \union SUBSET Items]
  BY <1>1, BucketKept, TableStays DEF Index, TableTypes
<1>6. QED
  BY <1>1, <1>2, <1>3, <1>4, <1>5, SlotSteps

\* The slots do nothing, and the rows keep what they say of their objects.
LEMMA OthersKeepIndex ==
    ASSUME Index, UNCHANGED <<bucketVars, job, work>>, TableTypes', CacheGood',
           \A k \in Keys : \/ rows'[k] = rows[k]
                           \/ /\ rows[k] # NoRow /\ rows'[k] # NoRow
                              /\ rows'[k].modified = rows[k].modified /\ rows'[k].body = rows[k].body
    PROVE  Index'
<1>1. Bucket' /\ BucketGrows /\ last' = last /\ made' = made
  BY BucketKept DEF Index, bucketVars
<1>2. RowsGood'
  BY <1>1 DEF Index, RowsGood
<1>3. ASSUME NEW p \in Slots PROVE JobGood(p)'
  <2>1. ListingGood(p)' /\ AnswerGood(p)'
    BY <1>1, SlotStays
  <2>2. \A k \in Keys : Stored([key |-> k, modified |-> rows[k].modified, body |-> rows[k].body])
                           => rows'[k] # NoRow /\ rows'[k].modified = rows[k].modified
                              /\ rows'[k].body = rows[k].body
    BY DEF Stored
  <2>3. SyncGood(p)'
    BY <1>1, <2>2, SyncStays
  <2>4. QED
    BY <2>1, <2>3 DEF JobGood
<1>4. QED
  BY <1>1, <1>2, <1>3 DEF Index

LEMMA MarksAreTyped == \A m \in Marks : m.type \in Types /\ m.note \in Notes
<1>1. \A m \in Marks : m.type \in Types
  BY IndexAssumptions
<1>2. \A m \in Marks : m.note \in Notes
  BY Zenon DEF Notes
<1>3. QED
  BY <1>1, <1>2

\* What a step on the annotations changes of a row.
LEMMA AnnotateFacts ==
    ASSUME Index, NEW k \in Keys, NEW m \in Marks, Annotate(k, m)
    PROVE  /\ rows[k] # NoRow /\ rows'[k] \in Rows /\ rows'[k] # NoRow
           /\ rows'[k].modified = rows[k].modified /\ rows'[k].body = rows[k].body
           /\ rows'[k].type = m.type /\ rows'[k].note = m.note
           /\ rows' = [rows EXCEPT ![k] = rows'[k]] /\ told' = [told EXCEPT ![k] = m]
<1>1. /\ rows[k] # NoRow /\ told' = [told EXCEPT ![k] = m]
      /\ rows' = [rows EXCEPT ![k].type = m.type, ![k].note = m.note]
  BY DEF Annotate
<1>2. rows[k] \in Rows /\ rows \in [Keys -> {NoRow} \union Rows]
  BY <1>1 DEF Index, TableTypes
<1>3. m.type \in Types /\ m.note \in Notes
  BY MarksAreTyped
<1>4. PICK r \in Rows : r = [rows[k] EXCEPT !.type = m.type, !.note = m.note]
  BY <1>2, <1>3 DEF Rows
<1>5. rows' = [rows EXCEPT ![k] = r] /\ rows'[k] = r
  BY <1>1, <1>2, <1>4
<1>6. r.modified = rows[k].modified /\ r.body = rows[k].body /\ r.type = m.type /\ r.note = m.note
  BY <1>2, <1>4 DEF Rows
<1>7. QED
  BY <1>1, <1>5, <1>6, NoRowIsNone

LEMMA AnnotateKeepsIndex ==
    ASSUME Index, NEW k \in Keys, NEW m \in Marks, Annotate(k, m)
    PROVE  Index'
<1>1. UNCHANGED <<bucketVars, job, work, cache>> /\ last' = last /\ made' = made
  BY DEF Annotate, bucketVars
<1>2. /\ rows[k] # NoRow /\ rows'[k] \in Rows /\ rows'[k] # NoRow
      /\ rows'[k].modified = rows[k].modified /\ rows'[k].body = rows[k].body
      /\ rows' = [rows EXCEPT ![k] = rows'[k]] /\ told' = [told EXCEPT ![k] = m]
  BY AnnotateFacts
<1>3. m \in [type : Types, note : Notes]
  <2>1. m.type \in Types /\ m.note \in Notes
    BY MarksAreTyped
  <2>2. m = [type |-> m.type, note |-> m.note]
    BY IndexAssumptions
  <2>3. QED
    BY <2>1, <2>2
<1>4. TableTypes'
  BY <1>1, <1>2, <1>3 DEF Index, TableTypes
<1>5. CacheGood'
  BY <1>1 DEF Index, CacheGood, GoodItem
<1>6. \A l \in Keys : l # k => rows'[l] = rows[l]
  BY <1>2 DEF Index, TableTypes
<1>7. QED
  BY <1>1, <1>2, <1>4, <1>5, <1>6, OthersKeepIndex

LEMMA DropKeepsIndex ==
    ASSUME Index, NEW s \in Searches, CacheDrops(s)
    PROVE  Index'
<1>1. /\ UNCHANGED <<bucketVars, job, work, rows, told>> /\ last' = last /\ made' = made
      /\ cache' = [cache EXCEPT ![s] = NoAnswer]
  BY DEF CacheDrops, bucketVars
<1>2. /\ cache' \in [Searches -> {NoAnswer} \union SUBSET Items]
      /\ \A q \in Searches : cache'[q] = cache[q] \/ cache'[q] = NoAnswer
  BY <1>1 DEF Index, TableTypes
<1>3. TableTypes'
  BY <1>1, <1>2 DEF Index, TableTypes
<1>4. CacheGood'
  BY <1>1, <1>2 DEF Index, CacheGood, GoodItem
<1>5. QED
  BY <1>1, <1>3, <1>4, OthersKeepIndex

-----------------------------------------------------------------------------
(* The whole index.                                                         *)

LEMMA IndexInit == ASSUME Init PROVE Index
<1>1. /\ BucketInit /\ job = [p \in Slots |-> Idle] /\ work = 0
      /\ rows = [k \in Keys |-> NoRow] /\ cache = [s \in Searches |-> NoAnswer]
  BY DEF Init
<1>2. told \in [Keys -> [type : Types, note : Notes]]
  <2>1. told = [k \in Keys |-> [type |-> Blank, note |-> Blank]]
    BY Zenon DEF Init, Blank
  <2>2. QED
    BY <2>1, BlankFacts
<1>3. TableTypes
  BY <1>1, <1>2, JobKinds DEF TableTypes
<1>4. RowsGood /\ CacheGood
  BY <1>1 DEF RowsGood, CacheGood
<1>5. \A p \in Slots : JobGood(p)
  BY <1>1 DEF JobGood, ListingGood, AnswerGood, SyncGood, Idle
<1>6. QED
  BY <1>1, <1>3, <1>4, <1>5, BucketBegins DEF Index

\* What the slots do to the table; all the rest is a reader's.
LEMMA SlotKeepsIndex ==
    ASSUME Index, NEW p \in Slots, IndexStep(p)
    PROVE  Index'
<1>1. ASSUME NEW u \in Users, NEW s \in Scopes, StartSync(p, u, s) PROVE Index'
  BY <1>1, SyncStarts
<1>2. CASE SyncOne(p)
  BY <1>2, SyncOneKeepsIndex
<1>3. CASE SyncEnds(p)
  BY <1>3, SyncEndsKeepsIndex
<1>4. CASE SyncAborts(p)
  BY <1>4, SyncAbortsKeepsIndex
<1>5. ASSUME NEW u \in Users, NEW f \in Filters, StartSearch(p, u, f) PROVE Index'
  BY <1>5, SearchKeepsIndex
<1>6. CASE CacheHit(p) \/ Query(p) \/ FillCache(p) \/ SearchReturns(p)
  BY <1>6, SearchKeepsIndex
<1>7. QED
  BY <1>1, <1>2, <1>3, <1>4, <1>5, <1>6 DEF IndexStep

LEMMA IndexKept ==
    ASSUME Index, [Next]_vars
    PROVE  Index'
<1>1. CASE (BucketWrite \/ NextDay) /\ UNCHANGED <<job, work, tableVars>>
  BY <1>1, BucketKeepsIndex
<1>2. ASSUME NEW p \in Slots, ReaderStep(p) /\ UNCHANGED tableVars PROVE Index'
  BY <1>2, ReaderKeepsIndex
<1>3. ASSUME NEW p \in Slots, IndexStep(p) PROVE Index'
  BY <1>3, SlotKeepsIndex
<1>4. ASSUME NEW k \in Keys, NEW m \in Marks, Annotate(k, m) PROVE Index'
  BY <1>4, AnnotateKeepsIndex
<1>5. ASSUME NEW s \in Searches, CacheDrops(s) PROVE Index'
  BY <1>5, DropKeepsIndex
<1>6. CASE UNCHANGED vars
  <2>1. UNCHANGED <<bucketVars, job, work, rows, cache, told>> /\ last' = last /\ made' = made
    BY <1>6 DEF vars, bucketVars
  <2>2. TableTypes' /\ CacheGood'
    BY <2>1 DEF Index, TableTypes, CacheGood, GoodItem
  <2>3. QED
    BY <2>1, <2>2, OthersKeepIndex
<1>7. QED
  BY <1>1, <1>2, <1>3, <1>4, <1>5, <1>6 DEF Next

LEMMA IndexHolds == Spec => []Index
<1>1. Init => Index
  BY IndexInit
<1>2. Index /\ [Next]_vars => Index'
  BY IndexKept
<1>3. QED
  BY <1>1, <1>2, PTL DEF Spec

\* The variables keep their types, whatever the bucket's clients, the
\* synchronisations and the searches do (files.go, files_meta.go, files_list.go).
THEOREM TypeCorrect == Spec => []TypeOK
<1>1. Index => TypeOK
  <2>1. Rows = [modified : Ids, body : Contents, type : Types, note : Notes]
    BY DEF Rows
  <2>2. QED
    BY <2>1 DEF Index, Bucket, BucketTypes, TableTypes, TypeOK
<1>2. QED
  BY <1>1, IndexHolds, PTL

\* A listing of versions shows those of its key and no other, one latest at
\* most, and when all were asked for every one that stayed.  The listing, which
\* goes on while the bucket changes, looks up what it listed one at a time
\* (FileService.ListFileVersions).
THEOREM ListingsAreWhole == Spec => []VersionsShown
<1>1. Index => VersionsShown
  <2>1. SUFFICES ASSUME Index, NEW p \in Slots, job[p].pc = "shown"
                 PROVE  /\ \A i \in job[p].found : made[i.id] # NotMade /\ made[i.id].key = job[p].key
                        /\ \A a, b \in job[p].found : a.latest /\ b.latest => a = b
                        /\ \A n \in 1 .. job[p].upTo :
                              IsObject(job[p].key, n) => \E i \in job[p].found : i.id = n
    BY DEF VersionsShown
  <2>2. ListingGood(p) /\ Gathered(p) = job[p].found
    BY <2>1 DEF Index, JobGood, Gathered
  <2>3. QED
    BY <2>1, <2>2 DEF ListingGood, Written
<1>2. QED
  BY <1>1, IndexHolds, PTL

\* A synchronisation that no failure and no other one of its user disturbed left
\* in the table all that its dates stand for (FileService.SyncObjectsToDBByDate).
THEOREM SyncsAreComplete == Spec => []SyncCompletes
<1>1. Index => SyncCompletes
  <2>1. SUFFICES ASSUME Index, NEW p \in Slots, job[p].pc = "synced", ~job[p].failed, job[p].alone,
                        NEW i \in job[p].meant
                 PROVE  rows[i.key] # NoRow /\ rows[i.key].modified = i.modified /\ rows[i.key].body = i.body
    BY DEF SyncCompletes
  <2>2. SyncGood(p)
    BY <2>1 DEF Index, JobGood
  <2>3. QED
    BY <2>1, <2>2 DEF SyncGood, Stored
<1>2. QED
  BY <1>1, IndexHolds, PTL

\* No search is answered with another user's objects, or with contents an object
\* never had, be the answer from the table or from the cache (SearchFiles).
THEOREM SearchesAnswerOwn == Spec => []AnswersAreOwn
<1>1. Index => AnswersAreOwn
  BY DEF Index, JobGood, AnswerGood, GoodItem, AnswersAreOwn
<1>2. QED
  BY <1>1, IndexHolds, PTL

-----------------------------------------------------------------------------
(* Annotations.                                                             *)

\* A row that is new has none, which is what was told of it.
MarkInv ==
    \A k \in Keys :
        /\ rows[k] = NoRow => told[k].type = Blank /\ told[k].note = Blank
        /\ rows[k] # NoRow => rows[k].type = told[k].type /\ rows[k].note = told[k].note

LEMMA MarkInit == ASSUME Init PROVE MarkInv
<1>1. told = [k \in Keys |-> [type |-> Blank, note |-> Blank]]
  BY Zenon DEF Init, Blank
<1>2. rows = [k \in Keys |-> NoRow]
  BY DEF Init
<1>3. QED
  BY <1>1, <1>2 DEF MarkInv

LEMMA SyncOneKeepsMarks ==
    ASSUME Index, MarkInv, NEW p \in Slots, SyncOne(p)
    PROVE  MarkInv'
<1>1. told' = told
  BY DEF SyncOne
<1>2. PICK i \in job[p].todo :
         /\ i \in Items /\ i.key \in Keys
         /\ \/ UNCHANGED rows
            \/ rows' = [rows EXCEPT ![i.key] = Upserted(rows[i.key], i)]
  BY SyncOneFacts
<1>3. CASE UNCHANGED rows
  BY <1>1, <1>3 DEF MarkInv
<1>4. CASE rows' = [rows EXCEPT ![i.key] = Upserted(rows[i.key], i)]
  <2>1. rows[i.key] \in {NoRow} \union Rows
    BY <1>2 DEF Index, TableTypes
  <2>2. /\ rows'[i.key] # NoRow
        /\ rows[i.key] = NoRow => rows'[i.key].type = Blank /\ rows'[i.key].note = Blank
        /\ rows[i.key] # NoRow => /\ rows'[i.key].type = rows[i.key].type
                                  /\ rows'[i.key].note = rows[i.key].note
    BY <1>2, <1>4, <2>1, UpsertedFacts DEF Index, TableTypes
  <2>3. \A k \in Keys : k # i.key => rows'[k] = rows[k]
    BY <1>4 DEF Index, TableTypes
  <2>4. QED
    BY <1>1, <1>2, <2>2, <2>3 DEF MarkInv
<1>5. QED
  BY <1>2, <1>3, <1>4

LEMMA AnnotateKeepsMarks ==
    ASSUME Index, MarkInv, NEW k \in Keys, NEW m \in Marks, Annotate(k, m)
    PROVE  MarkInv'
<1>1. /\ rows'[k] # NoRow /\ rows'[k].type = m.type /\ rows'[k].note = m.note
      /\ rows' = [rows EXCEPT ![k] = rows'[k]] /\ told' = [told EXCEPT ![k] = m]
  BY AnnotateFacts
<1>2. \A l \in Keys : l # k => rows'[l] = rows[l] /\ told'[l] = told[l]
  BY <1>1 DEF Index, TableTypes
<1>3. told'[k] = m
  BY <1>1 DEF Index, TableTypes
<1>4. QED
  BY <1>1, <1>2, <1>3 DEF MarkInv

\* All other steps leave rows and annotations alone.
LEMMA OthersLeaveMarks ==
    ASSUME NEW p \in Slots, IndexStep(p), ~SyncOne(p)
    PROVE  UNCHANGED <<rows, told>>
  BY DEF IndexStep, StartSync, SyncEnds, SyncAborts, StartSearch, CacheHit, Query, FillCache,
         SearchReturns, tableVars

LEMMA MarksKept ==
    ASSUME Index, MarkInv, [Next]_vars
    PROVE  MarkInv'
<1>1. CASE UNCHANGED <<rows, told>>
  BY <1>1 DEF MarkInv
<1>2. CASE (BucketWrite \/ NextDay) /\ UNCHANGED <<job, work, tableVars>>
  BY <1>1, <1>2 DEF tableVars
<1>3. ASSUME NEW p \in Slots, ReaderStep(p) /\ UNCHANGED tableVars PROVE MarkInv'
  BY <1>1, <1>3 DEF tableVars
<1>4. ASSUME NEW p \in Slots, IndexStep(p) PROVE MarkInv'
  BY <1>1, <1>4, SyncOneKeepsMarks, OthersLeaveMarks
<1>5. ASSUME NEW k \in Keys, NEW m \in Marks, Annotate(k, m) PROVE MarkInv'
  BY <1>5, AnnotateKeepsMarks
<1>6. ASSUME NEW s \in Searches, CacheDrops(s) PROVE MarkInv'
  BY <1>1, <1>6 DEF CacheDrops
<1>7. CASE UNCHANGED vars
  BY <1>1, <1>7 DEF vars
<1>8. QED
  BY <1>2, <1>3, <1>4, <1>5, <1>6, <1>7 DEF Next

\* Every row is annotated as it was told last: an upsert leaves what the object
\* store does not know (onConflictUserKeyUpdate).
THEOREM MarksStay == Spec => []AnnotationsKept
<1>1. Init => MarkInv
  BY MarkInit
<1>2. Index /\ MarkInv /\ [Next]_vars => MarkInv'
  BY MarksKept
<1>3. MarkInv => AnnotationsKept
  BY DEF MarkInv, AnnotationsKept
<1>4. QED
  BY <1>1, <1>2, <1>3, IndexHolds, PTL DEF Spec
=============================================================================
