--------------------------- MODULE VersionedBucket ---------------------------
(***************************************************************************)
(* A bucket that keeps versions, and the calls files_versions.go,          *)
(* files_operations.go, files_download.go and files.go make to it.  The    *)
(* store is outside the repository: a write adds a version with a new      *)
(* identifier, a removal adds a delete marker, and only the removal of a   *)
(* named version takes one away.  Identifiers count the writes, so that    *)
(* the highest one left under a key is its latest.                         *)
(***************************************************************************)
EXTENDS Integers, SequencesExt

CONSTANTS
    Users,          \* the users
    Keys,           \* the object keys: owner, year, month and name
    Contents,       \* what clients upload
    Types,          \* content types; "" is none
    Calendar,       \* the days on which things happen, in order
    MaxWrites       \* bound: the writes to the bucket

VARIABLES
    hist,           \* hist[k][n]: version n, if it is one of key k
    last,           \* the writes so far
    today,          \* the position in Calendar
    made            \* auxiliary: made[n]: the key and content of write n

bucketVars == <<hist, last, today, made>>

\* A name is a sequence of characters, for the sake of its prefixes.
ASSUME BucketAssumptions ==
    /\ Keys \subseteq [owner : Users, year : Nat \ {0}, month : 1 .. 12, name : Seq(STRING)]
    /\ "" \in Types
    /\ Calendar \in Seq([year : Nat \ {0}, month : 1 .. 12, day : 1 .. 31])
    /\ Len(Calendar) > 0
    /\ MaxWrites \in Nat

Ids == 1 .. MaxWrites
Dates == [year : Nat, month : Nat, day : Nat]

NoVersion == [kind |-> "none"]
DeleteMarker == [kind |-> "marker"]
Object(body, type, date) == [kind |-> "object", body |-> body, type |-> type, date |-> date]
Objects == [kind : {"object"}, body : Contents, type : Types, date : Dates]
NotMade == [key |-> "none"]

IsObject(k, n) == n \in Ids /\ hist[k][n].kind = "object"
IsLatest(k, n) ==
    /\ n \in Ids
    /\ hist[k][n] # NoVersion
    /\ \A m \in Ids : m > n => hist[k][m] = NoVersion

\* What a read of the key without a version sees.
Shown(k, n) == IsLatest(k, n) /\ IsObject(k, n)

\* The keys a listing with a prefix gives; a key is a prefix of its own.
StartsWith(k, prefix) ==
    /\ k.owner = prefix.owner /\ k.year = prefix.year /\ k.month = prefix.month
    /\ IsPrefix(prefix.name, k.name)

\* Bound: MaxWrites.
AddVersion(k, v) ==
    /\ last < MaxWrites
    /\ last' = last + 1
    /\ hist' = [hist EXCEPT ![k][last + 1] = v]
    /\ UNCHANGED today

PutObject(k, body, type) ==
    /\ AddVersion(k, Object(body, type, Calendar[today]))
    /\ made' = [made EXCEPT ![last + 1] = [key |-> k, body |-> body]]

RemoveObject(k) == AddVersion(k, DeleteMarker) /\ UNCHANGED made

RemoveVersion(k, n) ==
    /\ hist' = [hist EXCEPT ![k][n] = NoVersion]
    /\ UNCHANGED <<last, today, made>>

NextDay ==
    /\ today < Len(Calendar)
    /\ today' = today + 1
    /\ UNCHANGED <<hist, last, made>>

BucketInit ==
    /\ hist = [k \in Keys |-> [n \in Ids |-> NoVersion]]
    /\ last = 0
    /\ today = 1
    /\ made = [n \in Ids |-> NotMade]
=============================================================================
