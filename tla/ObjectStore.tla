----------------------------- MODULE ObjectStore -----------------------------
(***************************************************************************)
(* The bucket the file service works on.  A key is the sequence of its     *)
(* segments between slashes: the user, then the path.  A key that ends in  *)
(* a slash, the marker of a folder, ends in the empty segment.             *)
(*                                                                         *)
(* The object store is a service outside the repository; it is modelled    *)
(* from the calls file_helper.go, files_folder.go and files_operations.go  *)
(* make and the answers they expect.                                       *)
(***************************************************************************)
EXTENDS Naturals, FiniteSets, SequencesExt

CONSTANTS
    Users,          \* user names, the first segment of every key
    Names,          \* the other segments
    Contents,       \* what clients upload; every upload has its own
    MaxLength       \* the longest key the store takes, in segments

ASSUME StoreAssumptions ==
    /\ "" \notin Users \cup Names \cup Contents
    /\ MaxLength \in Nat

IsKey(k) ==
    /\ k \in Seq(Users \cup Names \cup {""})
    /\ Len(k) > 1
    /\ Head(k) \in Users

Owner(key) == Head(key)

\* key begins with the segments of folder and the slash after them.
Under(folder, key) == IsStrictPrefix(folder, key)

Marker(folder) == Append(folder, "")
Parent(folder) == Front(folder)

\* key with the prefix old replaced by the prefix new.
Rebase(key, old, new) == new \o SubSeq(key, Len(old) + 1, Len(key))

-----------------------------------------------------------------------------
\* The bucket maps the keys in use to their contents; the marker of a folder
\* has the empty one.
PutObject(bucket, key, content) ==
    [k \in DOMAIN bucket \cup {key} |-> IF k = key THEN content ELSE bucket[k]]

RemoveObject(bucket, key) == [k \in DOMAIN bucket \ {key} |-> bucket[k]]

\* The store refuses a key that is too long, and a copy of an object onto
\* itself that changes nothing.
CanCopy(bucket, src, dst) ==
    /\ src \in DOMAIN bucket
    /\ src # dst
    /\ Len(dst) <= MaxLength

\* All keys under a folder; without recursion, those right in it, with a
\* sub-folder standing for everything below it.
ListObjects(bucket, folder, recursive) ==
    LET below == {k \in DOMAIN bucket : Under(folder, k)}
        entry(k) == IF Len(k) > Len(folder) + 1
                      THEN Marker(SubSeq(k, 1, Len(folder) + 1)) ELSE k
    IN  IF recursive THEN below ELSE {entry(k) : k \in below}

Held(bucket) == {bucket[k] : k \in DOMAIN bucket}
=============================================================================
