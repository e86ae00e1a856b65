----------------------------- MODULE FileService -----------------------------
(***************************************************************************)
(* service/files_upload.go, files_folder.go, files_operations.go and       *)
(* file_helper.go: handler goroutines that upload, delete, copy and move   *)
(* objects and create, rename and delete folders.  A step is one call to   *)
(* the object store; between two steps any other request may run.          *)
(*                                                                         *)
(* A request works on a set of items, in any order: a client may list the  *)
(* items of a batch in any order, and the store lists keys in an order of  *)
(* their spelling.  Any call may fail, and a call that reported a failure  *)
(* may have taken effect.                                                  *)
(***************************************************************************)
EXTENDS FileCalls

CONSTANT
    Requests        \* request slots: the handler goroutines alive at a time

VARIABLES
    bucket,         \* the objects: their contents by key
    pc,             \* pc[r]: the next step of request r
    call,           \* call[r]: its arguments
    todo,           \* todo[r]: the items it has still to work on
    moving,         \* moving[r]: the item it has copied and will remove
    uploaded,       \* auxiliary: the contents ever uploaded
    spent,          \* auxiliary: those that clients deleted or overwrote
    raced           \* auxiliary: the requests whose item another one changed
                    \* between their copy and their removal of it

vars == <<bucket, pc, call, todo, moving, uploaded, spent, raced>>
request == <<call, moving>>

-----------------------------------------------------------------------------
Init ==
    /\ bucket = [k \in {} |-> ""]
    /\ pc = [r \in Requests |-> "idle"]
    /\ call = [r \in Requests |-> NoCall]
    /\ todo = [r \in Requests |-> {}]
    /\ moving = [r \in Requests |-> NoItem]
    /\ uploaded = {}
    /\ spent = {}
    /\ raced = {}

Goto(r, label) == pc' = [pc EXCEPT ![r] = label]

\* Item i is done, and the request goes on at label.
Done(r, i, label) ==
    /\ todo' = [todo EXCEPT ![r] = @ \ {i}]
    /\ Goto(r, label)

\* Request r changes the object at key, which the others may be moving.
Touch(r, key) ==
    raced' = raced \cup {q \in Requests \ {r} :
                           pc[q] = "source" /\ key \in {moving[q].src, moving[q].dst}}

\* Request r is asked to write or delete the object at key: what was there is
\* spent, unless a copy of it is held elsewhere.
Spend(r, key) ==
    /\ Touch(r, key)
    /\ spent' = IF key \in DOMAIN bucket
                  THEN spent \cup ({bucket[key]} \ Held(bucket')) ELSE spent

Untouched == UNCHANGED <<bucket, uploaded, spent, raced>>

-----------------------------------------------------------------------------
\* A handler calls the service: a batch starts with its first item, an
\* operation on a folder looks the folder up.
Start(r) ==
    /\ pc[r] = "idle"
    /\ \E c \in Calls :
        /\ call' = [call EXCEPT ![r] = c]
        /\ \/ /\ c.op \in BatchOps
              /\ todo' = [todo EXCEPT ![r] = c.items]
              /\ Goto(r, "items")
           \/ /\ c.op \in FolderOps
              /\ Goto(r, "find")
              /\ UNCHANGED todo
    /\ UNCHANGED moving
    /\ Untouched

\* An item that is not the user's is reported as failed.
DenyItem(r) ==
    /\ pc[r] = "items"
    /\ \E i \in todo[r] : ~Permitted(call[r], i) /\ Done(r, i, "items")
    /\ UNCHANGED request
    /\ Untouched

\* uploadFile and CreateFolder.
PutItem(r) ==
    /\ pc[r] = "items"
    /\ call[r].op \in {"upload", "mkdir"}
    /\ \E i \in todo[r] :
        /\ Done(r, i, "items")
        /\ \/ /\ Len(i.dst) <= MaxLength
              /\ \E c \in IF call[r].op = "mkdir" THEN {""}
                                                  ELSE Contents \ uploaded :
                  /\ bucket' = PutObject(bucket, i.dst, c)
                  /\ uploaded' = uploaded \cup {c}
              /\ Spend(r, i.dst)
           \/ Untouched
    /\ UNCHANGED request

\* Mutant of RemoveItem: a folder is listed again after every removal, until
\* nothing is left in it.
RemoveAndRelist(r) ==
    /\ pc[r] = "items"
    /\ call[r].op \in {"delete", "rmdir"}
    /\ \E i \in todo[r] :
        /\ Permitted(call[r], i)
        /\ Done(r, i, IF call[r].op = "rmdir" THEN "list" ELSE "items")
        /\ \/ /\ bucket' = RemoveObject(bucket, i.src)
              /\ Spend(r, i.src)
              /\ UNCHANGED uploaded
           \/ Untouched
    /\ UNCHANGED request

\* DeleteFiles and deleteFolderObjects; to remove what is not there is no error.
RemoveItem(r) ==
    /\ pc[r] = "items"
    /\ call[r].op \in {"delete", "rmdir"}
    /\ \E i \in todo[r] :
        /\ Permitted(call[r], i)
        /\ Done(r, i, "items")
        /\ \/ /\ bucket' = RemoveObject(bucket, i.src)
              /\ Spend(r, i.src)
              /\ UNCHANGED uploaded
           \/ Untouched
    /\ UNCHANGED request

\* The copy CopyFiles, MoveFiles and renameFolderObjects make of an item.
MakeCopy(r, i) ==
    /\ CanCopy(bucket, i.src, i.dst)
    /\ bucket' = PutObject(bucket, i.dst, bucket[i.src])
    /\ Spend(r, i.dst)
    /\ UNCHANGED uploaded

\* Mutant of CopyItem: after a copy that failed the source is removed all the
\* same (the continue of MoveFiles is missing).
CopyAndGoOn(r) ==
    /\ pc[r] = "items"
    /\ call[r].op \in {"copy", "move", "rename"}
    /\ \E i \in todo[r] :
        /\ Permitted(call[r], i)
        /\ MakeCopy(r, i) \/ Untouched
        /\ IF call[r].op = "copy"
             THEN Done(r, i, "items") /\ UNCHANGED moving
             ELSE Done(r, i, "source") /\ moving' = [moving EXCEPT ![r] = i]
    /\ UNCHANGED call

\* A copy that fails ends the item, and for a rename the request.
CopyItem(r) ==
    /\ pc[r] = "items"
    /\ call[r].op \in {"copy", "move", "rename"}
    /\ \E i \in todo[r] :
        /\ Permitted(call[r], i)
        /\ \/ /\ MakeCopy(r, i)
              /\ call[r].op # "copy"
              /\ Done(r, i, "source")
              /\ moving' = [moving EXCEPT ![r] = i]
           \/ /\ MakeCopy(r, i) \/ Untouched
              /\ IF call[r].op = "rename"
                   THEN todo' = [todo EXCEPT ![r] = {}] /\ UNCHANGED pc
                   ELSE Done(r, i, "items")
              /\ UNCHANGED moving
    /\ UNCHANGED call

\* A source that could not be removed is reported by MoveFiles and logged by
\* renameFolderObjects; both go on.  What a request that raced removes may be
\* the last copy.
RemoveSource(r) ==
    /\ pc[r] = "source"
    /\ \/ /\ bucket' = RemoveObject(bucket, moving[r].src)
          /\ Touch(r, moving[r].src)
          /\ spent' = IF r \in raced /\ moving[r].src \in DOMAIN bucket
                        THEN spent \cup ({bucket[moving[r].src]} \ Held(bucket'))
                        ELSE spent
          /\ UNCHANGED uploaded
       \/ Untouched
    /\ Goto(r, "items")
    /\ moving' = [moving EXCEPT ![r] = NoItem]
    /\ UNCHANGED <<call, todo>>

-----------------------------------------------------------------------------
\* findFolderPath: the folder is there when its marker is.
FindFolder(r) ==
    /\ pc[r] = "find"
    /\ \/ /\ Marker(call[r].folder) \in DOMAIN bucket
          /\ call[r].op = "rename" => Last(call[r].folder) # call[r].name
          /\ Goto(r, "list")
       \/ Goto(r, "items")
    /\ UNCHANGED <<call, todo, moving>>
    /\ Untouched

\* Mutant of Removable: one object beside the marker is overlooked.
NearlyRemovable(c, listed) == c.recursive \/ Cardinality(listed) <= 2

\* Without recursion no more than one entry may be listed, the marker or what
\* is taken for it.
Removable(c, listed) == c.recursive \/ Cardinality(listed) <= 1

\* renameFolderObjects and deleteFolderObjects list what they work on first.
ListFolder(r) ==
    /\ pc[r] = "list"
    /\ LET c == call[r]
       IN  \/ /\ c.op = "rename"
              /\ todo' = [todo EXCEPT ![r] =
                    {Renamed(c, k) : k \in ListObjects(bucket, OldPath(c), TRUE)}]
           \/ /\ c.op = "rmdir"
              /\ LET listed == ListObjects(bucket, c.folder, c.recursive)
                 IN  /\ Removable(c, listed)
                     /\ todo' = [todo EXCEPT ![r] = {Only(k) : k \in listed}]
           \/ UNCHANGED todo
    /\ Goto(r, "items")
    /\ UNCHANGED request
    /\ Untouched

-----------------------------------------------------------------------------
Finish(r) ==
    /\ pc[r] = "items"
    /\ todo[r] = {}
    /\ Goto(r, "idle")
    /\ call' = [call EXCEPT ![r] = NoCall]
    /\ raced' = raced \ {r}
    /\ UNCHANGED <<bucket, todo, moving, uploaded, spent>>

\* The process dies with all its goroutines; the bucket stays.
Restart ==
    /\ pc' = [r \in Requests |-> "idle"]
    /\ call' = [r \in Requests |-> NoCall]
    /\ todo' = [r \in Requests |-> {}]
    /\ moving' = [r \in Requests |-> NoItem]
    /\ raced' = {}
    /\ UNCHANGED <<bucket, uploaded, spent>>

\* A step of a request that is being served.
Serve(r) ==
    \/ DenyItem(r) \/ PutItem(r) \/ RemoveItem(r) \/ CopyItem(r)
    \/ RemoveSource(r) \/ FindFolder(r) \/ ListFolder(r) \/ Finish(r)

Next ==
    \/ \E r \in Requests : Start(r) \/ Serve(r)
    \/ Restart

Spec == Init /\ [][Next]_vars

\* A goroutine that can take a step takes it some time: the calls it waits for
\* return, with an error if need be, and the scheduler is fair to goroutines.
FairSpec == Spec /\ \A r \in Requests : WF_vars(Serve(r))

-----------------------------------------------------------------------------
TypeOK ==
    /\ \A k \in DOMAIN bucket : IsKey(k) /\ bucket[k] \in Contents \cup {""}
    /\ pc \in [Requests -> {"idle", "items", "source", "find", "list"}]
    /\ call \in [Requests -> Calls \cup {NoCall}]
    /\ DOMAIN todo = Requests
    /\ \A r \in Requests : \A i \in todo[r] : IsItem(i)
    /\ DOMAIN moving = Requests
    /\ \A r \in Requests : pc[r] = "source" => IsItem(moving[r])
    /\ uploaded \subseteq Contents \cup {""}
    /\ spent \subseteq uploaded
    /\ raced \subseteq Requests

\* Nothing gets lost: a content that was ever uploaded is in the bucket, unless
\* a request deleted it or wrote over it.  A move or a rename, cut short by a
\* failed call or by the end of the process at any point, leaves at least one
\* copy; only one whose object another request changes in the middle may not.
NothingLost == uploaded \subseteq Held(bucket) \cup spent

\* A request changes the objects of its own user only.  CreateFolder alone may
\* reach into another user's part of the bucket, to put an empty marker there.
Changed == {k \in DOMAIN bucket \cup DOMAIN bucket' :
              \/ k \notin DOMAIN bucket \cap DOMAIN bucket'
              \/ bucket[k] # bucket'[k]}

ByItsUser(k) ==
    \E r \in Requests :
        /\ pc[r] \in {"items", "source"}
        /\ \/ call[r].user = Owner(k)
           \/ call[r].op = "mkdir" /\ k \in DOMAIN bucket' /\ bucket'[k] = ""

OwnObjectsOnly == [][\A k \in Changed : ByItsUser(k)]_vars

\* The service keeps the promises of FileCustody: an object is removed only
\* under a licence, and a licence is for a key the client named, a key the one
\* listing of the folder showed, or the source of a copy the request has made.
Licence(r) ==
    CASE call[r].op \in {"delete", "rmdir"} -> Sources(call[r], todo[r])
      [] pc[r] = "source" -> {moving[r].src}
      [] OTHER -> {}

Custody == INSTANCE FileCustody
             WITH licence <- [r \in Requests |-> Licence(r)],
                  asking <- {r \in Requests : pc[r] \in {"find", "list"}}

CustodySpec == Custody!CustodySpec

\* A request that has begun comes closer to its end with each of its steps, and no
\* step of another sets it back, whatever that one adds to the folder: it looks its
\* folder up and lists it once, and then has fewer items to do after every item.
Remaining(r) ==
    2 * Cardinality(todo[r]) +
    CASE pc[r] = "source" -> 2 [] pc[r] = "items" -> 1 [] OTHER -> 0

Shrinks(r) ==
    \/ UNCHANGED <<pc[r], todo[r]>>
    \/ <<pc[r], pc'[r]>> \in {<<"find", "list">>, <<"find", "items">>, <<"list", "items">>}
    \/ /\ {pc[r], pc'[r]} \subseteq {"items", "source"}
       /\ Remaining(r)' \in 0 .. Remaining(r) - 1
    \/ "idle" \in {pc[r], pc'[r]}

RequestsShrink == [][\A r \in Requests : Shrinks(r)]_vars

\* Every request is answered, although others keep adding to the folder it
\* deletes or renames: it works on what it listed at its start.
EveryRequestEnds == \A r \in Requests : pc[r] # "idle" ~> pc[r] = "idle"

-----------------------------------------------------------------------------
\* handle/files_folder.go:63 and file_helper.go:251: RenameFolder renames the
\* folder asked for and its contents.  What a rename removes lay in its folder.
RenamesItsFolder ==
    \A r \in Requests :
        pc[r] = "source" /\ call[r].op = "rename"
            => Under(call[r].folder, moving[r].src)
=============================================================================
