------------------------------ MODULE FileCalls ------------------------------
(***************************************************************************)
(* What clients ask of the file service: types/files_operations.go,        *)
(* types/files_folder.go, and the checks and paths the handlers of a       *)
(* request make from it before they call the object store.                 *)
(***************************************************************************)
EXTENDS ObjectStore

CONSTANT
    Calls           \* the requests clients make

\* An item is a source and a destination key; the operations that work on one
\* key have it as both.
Only(key) == [src |-> key, dst |-> key]
IsItem(i) == IsKey(i.src) /\ IsKey(i.dst)
NoItem == Only(<<>>)

BatchOps == {"upload", "mkdir", "delete", "copy", "move"}
FolderOps == {"rename", "rmdir"}
NoCall == [op |-> "none"]

\* A batch comes with its items, an upload with those buildObjectKey puts under
\* the user.  A folder is named by its identifier, a hash of the user's name
\* and the path, taken to be injective.
IsCall(c) ==
    /\ c.user \in Users
    /\ \/ /\ c.op \in BatchOps
          /\ IsFiniteSet(c.items)
          /\ \A i \in c.items :
                /\ IsItem(i)
                /\ c.op \in {"upload", "mkdir", "delete"} => i = Only(i.dst)
                /\ c.op = "upload" => Owner(i.dst) = c.user
       \/ /\ c.op \in FolderOps
          /\ IsKey(c.folder) /\ Owner(c.folder) = c.user /\ Last(c.folder) # ""
          /\ c.op = "rename" => c.name \in Names

ASSUME CallAssumptions == \A c \in Calls : IsCall(c)

\* Mutant of Permitted: only the source is looked at.
SourcePermitted(c, i) ==
    c.op \in {"delete", "copy", "move"} => Under(<<c.user>>, i.src)

\* The check on the prefix of the keys; CreateFolder makes none, an upload and
\* the operations on folders build keys that pass it.
Permitted(c, i) ==
    c.op \in {"delete", "copy", "move"} =>
        Under(<<c.user>>, i.src) /\ Under(<<c.user>>, i.dst)

\* The keys of those of the items a request is let work on.
Sources(c, items) == {i.src : i \in {j \in items : Permitted(c, j)}}

\* RenameFolder's paths: the folder is not the one named but its parent, and
\* the new name takes the place of the parent's.
OldPath(c) == Parent(c.folder)

\* Mutant of NewPath: the user is left out of the new path.
BareNewPath(c) ==
    IF Len(OldPath(c)) = 1 THEN <<c.name>>
                           ELSE Append(Tail(Parent(OldPath(c))), c.name)

NewPath(c) ==
    IF Len(OldPath(c)) = 1 THEN Append(OldPath(c), c.name)
                           ELSE Append(Parent(OldPath(c)), c.name)

\* The item a rename makes of a key it lists.
Renamed(c, key) == [src |-> key, dst |-> Rebase(key, OldPath(c), NewPath(c))]
=============================================================================
