---------------------------- MODULE MCFileService ----------------------------
(* The constants of FileService for TLC. *)
EXTENDS FileService

CONSTANTS r1, r2, ann, bob, month, docs, pics, c1, c2

\* A folder, a file beside it and a file in it, and a file of the other user.
Folder == <<ann, month, docs>>
Beside == <<ann, month, pics>>
Inside == <<ann, month, docs, pics>>
Foreign == <<bob, month, pics>>

Item(src, dst) == [src |-> src, dst |-> dst]
Batch(op, user, items) == [op |-> op, user |-> user, items |-> items]
Rmdir(recursive) ==
    [op |-> "rmdir", user |-> ann, folder |-> Folder, recursive |-> recursive]

MCCalls ==
    {Batch("upload", ann, {Only(Beside)}),
     Batch("mkdir", bob, {Only(Marker(Folder))}),
     Batch("delete", ann, {Only(Beside)}),
     Batch("copy", ann, {Item(Inside, Beside)}),
     Batch("move", ann, {Item(Beside, Inside), Item(Beside, Foreign)}),
     [op |-> "rename", user |-> ann, folder |-> Folder, name |-> pics],
     Rmdir(TRUE), Rmdir(FALSE)}

\* Neither requests nor contents are told apart by anything but their names.
Symmetry == Permutations(Requests) \cup Permutations(Contents)
=============================================================================
