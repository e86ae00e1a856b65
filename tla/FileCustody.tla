----------------------------- MODULE FileCustody -----------------------------
(***************************************************************************)
(* What the file service promises about the objects in its keeping, with   *)
(* no batches, failures or order of items in sight: an object is removed   *)
(* only under a licence for its key, each licence is used once at most,    *)
(* and none outlives its request or the process.  A request has licences   *)
(* for the keys its client named for deletion, for those one listing of    *)
(* the folder showed, or for the source of the copy it has just made.      *)
(*                                                                         *)
(* The promise is weak where the code is: a licence is for a key, whatever *)
(* has been written there since it was given.                              *)
(***************************************************************************)
EXTENDS FileCalls

CONSTANT
    Requests        \* request slots: the handler goroutines alive at a time

VARIABLES
    bucket,         \* the objects: their contents by key
    call,           \* call[r]: the request itself
    asking,         \* the requests whose folder has not been looked at yet
    licence         \* licence[r]: the keys request r may remove

custodyVars == <<bucket, call, asking, licence>>

CustodyInit ==
    /\ bucket = [k \in {} |-> ""]
    /\ call = [r \in Requests |-> NoCall]
    /\ asking = {}
    /\ licence = [r \in Requests |-> {}]

Holds(r, keys) == licence' = [licence EXCEPT ![r] = keys]

\* The keys a client names for deletion, the user's own among them.
Named(c) == IF c.op = "delete" THEN Sources(c, c.items) ELSE {}

Accept(r) ==
    /\ call[r] = NoCall
    /\ \E c \in Calls :
        /\ call' = [call EXCEPT ![r] = c]
        /\ asking' = IF c.op \in FolderOps THEN asking \cup {r} ELSE asking
        /\ Holds(r, Named(c))
    /\ UNCHANGED bucket

\* A folder is listed once: what is put there later is not the request's.  A
\* folder that holds more than its marker is removed only when the client says
\* so.
Survey(r) ==
    LET c == call[r]
        listed == ListObjects(bucket, c.folder, c.recursive)
    IN  /\ r \in asking
        /\ c.op = "rmdir"
        /\ c.recursive \/ Cardinality(listed) <= 1
        /\ Holds(r, listed)
        /\ asking' = asking \ {r}
        /\ UNCHANGED <<bucket, call>>

\* A request may give up its folder, or some of its licences.
Waive(r) ==
    /\ asking' \in {asking, asking \ {r}}
    /\ \E keys \in SUBSET licence[r] : Holds(r, keys)
    /\ UNCHANGED <<bucket, call>>

Store(r) ==
    LET c == call[r]
    IN  /\ c.op \in {"upload", "mkdir"}
        /\ \E i \in c.items :
            \E content \in IF c.op = "mkdir" THEN {""} ELSE Contents :
              /\ Len(i.dst) <= MaxLength
              /\ bucket' = PutObject(bucket, i.dst, content)
        /\ UNCHANGED <<call, asking, licence>>

\* i is an item the request may copy.
Subject(c, i) ==
    \/ c.op \in {"copy", "move"} /\ i \in c.items /\ Permitted(c, i)
    \/ c.op = "rename" /\ Under(OldPath(c), i.src) /\ i = Renamed(c, i.src)

Subjects(c) == IF c.op = "rename" THEN {Renamed(c, k) : k \in DOMAIN bucket}
                                  ELSE c.items

\* A copy is made while no other waits for its source to be removed.
Duplicate(r) ==
    LET c == call[r]
    IN  /\ c.op \in {"copy", "move", "rename"}
        /\ r \notin asking
        /\ licence[r] = {}
        /\ \E i \in Subjects(c) :
            /\ Subject(c, i)
            /\ CanCopy(bucket, i.src, i.dst)
            /\ bucket' = PutObject(bucket, i.dst, bucket[i.src])
            /\ \E keys \in IF c.op = "copy" THEN {{}} ELSE {{}, {i.src}} :
                 Holds(r, keys)
        /\ UNCHANGED <<call, asking>>

Discard(r) ==
    /\ \E key \in licence[r] :
        /\ bucket' = RemoveObject(bucket, key)
        /\ Holds(r, licence[r] \ {key})
    /\ UNCHANGED <<call, asking>>

Leave(r) ==
    /\ r \notin asking
    /\ licence[r] = {}
    /\ call' = [call EXCEPT ![r] = NoCall]
    /\ UNCHANGED <<bucket, asking, licence>>

\* The process dies and comes back: the objects stay, the licences are gone.
Crash ==
    /\ call' = [r \in Requests |-> NoCall]
    /\ asking' = {}
    /\ licence' = [r \in Requests |-> {}]
    /\ UNCHANGED bucket

CustodyNext ==
    \/ \E r \in Requests : \/ Accept(r)
                           \/ Survey(r)
                           \/ Waive(r)
                           \/ Store(r)
                           \/ Duplicate(r)
                           \/ Discard(r)
                           \/ Leave(r)
    \/ Crash

CustodySpec == CustodyInit /\ [][CustodyNext]_custodyVars
=============================================================================
