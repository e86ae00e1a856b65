----------------------------- MODULE FileVersions -----------------------------
(***************************************************************************)
(* files_versions.go, the metadata update of files_operations.go and the   *)
(* downloads of files_download.go, over a bucket with versions.  What is   *)
(* one call to the store is one step; the listing of versions looks each   *)
(* up by a call of its own, and a download reads the headers of an object  *)
(* before its bytes.                                                       *)
(***************************************************************************)
EXTENDS VersionedBucket

CONSTANTS
    Slots,          \* the handler goroutines alive at a time
    MaxWork         \* bound: the work of the jobs of several steps that are started

VARIABLES
    job,            \* job[p]: what slot p does
    work            \* auxiliary: the work of the jobs started

Idle == [pc |-> "idle"]

\* Bound: MaxWork.  A reader weighs two, a synchronisation or a search one.
Takes(w) == work + w <= MaxWork /\ work' = work + w

ReaderWork == 2
IndexWork == 1

Starts(p, w, j) ==
    /\ job[p] = Idle
    /\ Takes(w)
    /\ job' = [job EXCEPT ![p] = j]

-----------------------------------------------------------------------------
\* The requests that write, each by one call that may also fail and change
\* nothing.  All check that the key is the user's own.
Upload(u, k, body, type) ==
    k.owner = u /\ k.year = Calendar[today].year /\ k.month = Calendar[today].month
    /\ PutObject(k, body, type)

DeleteFile(u, k) == k.owner = u /\ RemoveObject(k)

\* UpdateFilesMetadata copies the object onto itself and replaces all of its
\* metadata: a content type that is not given is lost.
UpdateMetadata(u, k, type) ==
    /\ k.owner = u
    /\ \E n \in Ids : Shown(k, n) /\ PutObject(k, hist[k][n].body, type)

\* CreateFileVersion: base is 0 for the version shown.  A content type or user
\* metadata, of which one may be given alone, replaces all of the metadata.  The
\* store refuses a copy of the version shown that replaces none.
CreateVersion(u, k, base, replace, type) ==
    /\ k.owner = u
    /\ type # "" \/ base = 0 => replace
    /\ \E n \in Ids :
          /\ IF base = 0 THEN Shown(k, n) ELSE n = base /\ IsObject(k, n)
          /\ PutObject(k, hist[k][n].body, IF replace THEN type ELSE hist[k][n].type)

DeleteVersion(u, k, n) == k.owner = u /\ RemoveVersion(k, n)

RestoreVersion(u, k, n) ==
    /\ k.owner = u
    /\ IsObject(k, n)
    /\ PutObject(k, hist[k][n].body, hist[k][n].type)

BucketWrite ==
    \E u \in Users, k \in Keys :
        \/ \E body \in Contents, type \in Types : Upload(u, k, body, type)
        \/ DeleteFile(u, k)
        \/ \E type \in Types : UpdateMetadata(u, k, type)
        \/ \E base \in Ids \union {0}, replace \in BOOLEAN, type \in Types :
              CreateVersion(u, k, base, replace, type)
        \/ \E n \in Ids : DeleteVersion(u, k, n) \/ RestoreVersion(u, k, n)

-----------------------------------------------------------------------------
\* ListFileVersions.  The listing goes by prefix, so keys that only begin with
\* the key are left out again, and so are delete markers.
Listed(k) == {v \in Keys \X Ids : StartsWith(v[1], k) /\ hist[v[1]][v[2]] # NoVersion}

\* Mutant of Wanted: the keys of which the key is a prefix stay in.
PrefixWanted(k, v) == IsObject(v[1], v[2])

Wanted(k, v) == v[1] = k /\ IsObject(v[1], v[2])

\* Mutant of Info: the identifier of the version is lost.
UnnamedInfo(n, latest) == [id |-> 0, latest |-> latest]

Info(n, latest) == [id |-> n, latest |-> latest]

Showing(k, found, upTo) == [pc |-> "shown", key |-> k, found |-> found, upTo |-> upTo]

\* upTo is history: the last write the listing could see.
ListVersions(p, u, k, scope) ==
    /\ k.owner = u
    /\ \/ /\ scope = "current"
          /\ \E n \in Ids :
                /\ Shown(k, n)
                /\ Starts(p, ReaderWork, Showing(k, {Info(n, TRUE)}, 0))
       \/ /\ scope = "all"
          /\ LET wanted == {v \in Listed(k) : Wanted(k, v)}
             IN  Starts(p, ReaderWork,
                    [pc |-> "versions", key |-> k, upTo |-> last, found |-> {},
                     todo |-> {Info(v[2], IsLatest(v[1], v[2])) : v \in wanted}])
    /\ UNCHANGED bucketVars

\* The call for the details of a version may find it gone, or fail; the version
\* is shown all the same, with what the listing said.
StatVersion(p) ==
    /\ job[p].pc = "versions"
    /\ \E v \in job[p].todo :
          job' = [job EXCEPT ![p].todo = @ \ {v}, ![p].found = @ \union {v}]
    /\ UNCHANGED <<bucketVars, work>>

\* With nothing found, the version shown is looked up as a last resort.
VersionsDone(p) ==
    LET j == job[p]
        shown == {Info(n, TRUE) : n \in {n \in Ids : Shown(j.key, n)}}
    IN  /\ j.pc = "versions" /\ j.todo = {}
        /\ job' = [job EXCEPT ![p] =
                     Showing(j.key, IF j.found = {} THEN shown ELSE j.found, j.upTo)]
        /\ UNCHANGED <<bucketVars, work>>

-----------------------------------------------------------------------------
\* DownloadFiles: one object, or several in an archive.  GetObject sends nothing
\* yet; StatObject reads the headers, and the first read of the body gets what
\* the key has then.
Download(p, u, ks) ==
    /\ ks # {} /\ \A k \in ks : k.owner = u
    /\ Starts(p, ReaderWork, [pc |-> "open", todo |-> ks])
    /\ UNCHANGED bucketVars

Body(k) == {n \in Ids : Shown(k, n)}

\* OpenObject.
Open(p) ==
    /\ job[p].pc = "open"
    /\ \E k \in job[p].todo, n \in Ids :
          /\ Shown(k, n)
          /\ job' = [job EXCEPT ![p] =
                       [pc |-> "opened", todo |-> job[p].todo \ {k}, key |-> k, head |-> n]]
    /\ UNCHANGED <<bucketVars, work>>

\* An object that cannot be opened is left out of an archive, and ends the
\* download of one.
OpenFails(p) ==
    /\ job[p].pc = "open"
    /\ \E k \in job[p].todo : job' = [job EXCEPT ![p].todo = @ \ {k}]
    /\ UNCHANGED <<bucketVars, work>>

ReadBody(p) ==
    LET j == job[p]
    IN  /\ j.pc = "opened"
        /\ \/ \E n \in Body(j.key) :
                 job' = [job EXCEPT ![p] =
                           [pc |-> "sent", todo |-> j.todo, key |-> j.key,
                            head |-> j.head, body |-> n]]
           \/ job' = [job EXCEPT ![p] = [pc |-> "open", todo |-> j.todo]]
        /\ UNCHANGED <<bucketVars, work>>

NextItem(p) ==
    /\ job[p].pc = "sent"
    /\ job' = [job EXCEPT ![p] = [pc |-> "open", todo |-> job[p].todo]]
    /\ UNCHANGED <<bucketVars, work>>

ReaderReturns(p) ==
    /\ job[p].pc = "shown" \/ (job[p].pc = "open" /\ job[p].todo = {})
    /\ job' = [job EXCEPT ![p] = Idle]
    /\ UNCHANGED <<bucketVars, work>>

ReaderStep(p) ==
    \/ \E u \in Users, k \in Keys, scope \in {"current", "all"} : ListVersions(p, u, k, scope)
    \/ \E u \in Users, ks \in SUBSET Keys : Download(p, u, ks)
    \/ StatVersion(p) \/ VersionsDone(p)
    \/ Open(p) \/ OpenFails(p) \/ ReadBody(p) \/ NextItem(p) \/ ReaderReturns(p)
=============================================================================
