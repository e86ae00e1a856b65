-------------------------- MODULE FileCustodyProofs --------------------------
(***************************************************************************)
(* FileService implements FileCustody: every step of the service is a step *)
(* of the custody or changes nothing it knows of.                          *)
(***************************************************************************)
EXTENDS FileServiceProofs

-----------------------------------------------------------------------------
(* What a request has planned, on top of the invariant of FileService.      *)

\* A slot that is idle has no call; an item to be deleted is a single key; what
\* a rename works on are keys of the old path, each with its place in the new.
Planned(r) ==
    /\ pc[r] = "idle" <=> call[r] = NoCall
    /\ pc[r] = "source" => call[r].op \in {"move", "rename"}
    /\ pc[r] # "idle" /\ call[r].op \in {"delete", "rmdir"} =>
          \A i \in todo[r] : i = Only(i.src)
    /\ pc[r] # "idle" /\ call[r].op = "rename" =>
          \A i \in todo[r] :
             Under(OldPath(call[r]), i.src) /\ i = Renamed(call[r], i.src)

PlanInv == \A r \in Requests : Planned(r)

LEMMA NoCallIsNone == NoCall \notin Calls /\ NoCall.op \notin BatchOps \cup FolderOps
<1>1. NoCall.op \notin BatchOps \cup FolderOps
  BY DEF NoCall, BatchOps, FolderOps
<1>2. QED
  BY <1>1, CallFacts

\* An item to be deleted, uploaded or made a marker is a single key.
LEMMA SingleKeys ==
    ASSUME NEW c \in Calls, c.op \in {"upload", "mkdir", "delete"}, NEW i \in c.items
    PROVE  i = Only(i.src) /\ i = Only(i.dst)
<1>1. IsCall(c)
  BY CallAssumptions
<1>2. c.op \notin FolderOps
  BY DEF FolderOps
<1>3. i = Only(i.dst)
  BY <1>1, <1>2, Zenon DEF IsCall
<1>4. i.src = i.dst
  <2>1. ASSUME NEW k, i = Only(k) PROVE i.src = i.dst
    BY <2>1 DEF Only
  <2>2. QED
    BY <1>3, <2>1
<1>5. QED
  BY <1>3, <1>4

\* A step of request r leaves the others where they are.
Others(r) ==
    \A q \in Requests \ {r} : /\ pc'[q] = pc[q] /\ call'[q] = call[q]
                              /\ todo'[q] = todo[q] /\ moving'[q] = moving[q]

LEMMA OthersStay ==
    ASSUME Inv, NEW r \in Requests, Start(r) \/ Serve(r)
    PROVE  Others(r)
<1>. USE DEF Inv, Shape, Others, Goto, Done, request
<1>1. CASE Start(r)
  BY <1>1 DEF Start
<1>2. CASE DenyItem(r)
  BY <1>2 DEF DenyItem
<1>3. CASE PutItem(r)
  BY <1>3 DEF PutItem
<1>4. CASE RemoveItem(r)
  BY <1>4 DEF RemoveItem
<1>5. CASE CopyItem(r)
  BY <1>5 DEF CopyItem
<1>6. CASE RemoveSource(r)
  BY <1>6 DEF RemoveSource
<1>7. CASE FindFolder(r)
  BY <1>7 DEF FindFolder
<1>8. CASE ListFolder(r)
  BY <1>8 DEF ListFolder
<1>9. CASE Finish(r)
  BY <1>9 DEF Finish
<1>10. QED
  BY <1>1, <1>2, <1>3, <1>4, <1>5, <1>6, <1>7, <1>8, <1>9 DEF Serve

LEMMA PlanKept ==
    ASSUME Inv, Inv', PlanInv, NEW r \in Requests, Start(r) \/ Serve(r), Planned(r)'
    PROVE  PlanInv'
<1>1. Others(r)
  BY OthersStay
<1>2. QED
  BY <1>1 DEF PlanInv, Planned, Others

LEMMA StartPlans ==
    ASSUME Inv, Inv', PlanInv, NEW r \in Requests, Start(r)
    PROVE  Planned(r)'
<1>1. PICK c \in Calls :
        /\ call' = [call EXCEPT ![r] = c]
        /\ \/ /\ c.op \in BatchOps
              /\ todo' = [todo EXCEPT ![r] = c.items]
              /\ pc' = [pc EXCEPT ![r] = "items"]
           \/ /\ c.op \in FolderOps
              /\ pc' = [pc EXCEPT ![r] = "find"]
              /\ UNCHANGED todo
  BY DEF Start, Goto
<1>2. pc[r] = "idle" /\ todo[r] = {}
  BY DEF Start, Inv, Assigned
<1>3. call'[r] = c /\ c # NoCall /\ pc'[r] \in {"items", "find"}
  BY <1>1, NoCallIsNone DEF Inv, Shape
<1>4. CASE c.op \in FolderOps /\ UNCHANGED todo
  BY <1>2, <1>3, <1>4 DEF Planned
<1>5. CASE c.op \in BatchOps /\ todo' = [todo EXCEPT ![r] = c.items]
  <2>1. todo'[r] = c.items
    BY <1>5 DEF Inv, Shape
  <2>2. c.op \in {"delete", "rmdir"} => \A i \in c.items : i = Only(i.src)
    BY <1>5, SingleKeys DEF BatchOps
  <2>3. c.op # "rename"
    BY <1>5 DEF BatchOps
  <2>4. QED
    BY <1>3, <2>1, <2>2, <2>3 DEF Planned
<1>6. QED
  BY <1>1, <1>4, <1>5

LEMMA ListPlans ==
    ASSUME Inv, Inv', PlanInv, NEW r \in Requests, ListFolder(r)
    PROVE  Planned(r)'
<1>. DEFINE c == call[r]
<1>1. /\ pc[r] = "list" /\ pc' = [pc EXCEPT ![r] = "items"] /\ call' = call
  BY DEF ListFolder, Goto, request
<1>2. /\ pc'[r] = "items" /\ call'[r] = c /\ todo[r] = {} /\ c # NoCall
  BY <1>1 DEF Inv, Shape, Assigned, PlanInv, Planned
<1>3. CASE /\ c.op = "rename"
           /\ todo' = [todo EXCEPT ![r] =
                 {Renamed(c, k) : k \in ListObjects(bucket, OldPath(c), TRUE)}]
  <2>1. ASSUME NEW i \in todo'[r]
        PROVE  Under(OldPath(c), i.src) /\ i = Renamed(c, i.src)
    <3>1. PICK k \in ListObjects(bucket, OldPath(c), TRUE) : i = Renamed(c, k)
      BY <1>3, <2>1 DEF Inv, Shape
    <3>2. Under(OldPath(c), k)
      BY DEF ListObjects
    <3>3. i.src = k
      BY <3>1 DEF Renamed
    <3>4. QED
      BY <3>1, <3>2, <3>3
  <2>2. QED
    BY <1>2, <1>3, <2>1 DEF Planned
<1>4. CASE /\ c.op = "rmdir"
           /\ todo' = [todo EXCEPT ![r] =
                 {Only(k) : k \in ListObjects(bucket, c.folder, c.recursive)}]
  <2>1. ASSUME NEW i \in todo'[r] PROVE i = Only(i.src)
    <3>1. PICK k : i = Only(k)
      BY <1>4, <2>1 DEF Inv, Shape
    <3>2. i.src = k
      BY <3>1 DEF Only
    <3>3. QED
      BY <3>1, <3>2
  <2>2. QED
    BY <1>2, <1>4, <2>1 DEF Planned
<1>5. CASE todo' = todo
  BY <1>2, <1>5 DEF Planned
<1>6. QED
  BY <1>3, <1>4, <1>5 DEF ListFolder

\* The other steps drop items, or end the request.
LEMMA ServePlans ==
    ASSUME Inv, Inv', PlanInv, NEW r \in Requests, Serve(r), ~ListFolder(r)
    PROVE  Planned(r)'
<1>1. Planned(r) /\ Shape
  BY DEF PlanInv, Inv
<1>2. CASE Finish(r)
  <2>1. pc'[r] = "idle" /\ call'[r] = NoCall
    BY <1>1, <1>2 DEF Finish, Goto, Shape
  <2>2. QED
    BY <2>1 DEF Planned
<1>3. ASSUME call'[r] = call[r], todo'[r] \subseteq todo[r],
             pc[r] # "idle", pc'[r] # "idle",
             pc'[r] = "source" => call[r].op \in {"move", "rename"}
      PROVE  Planned(r)'
  BY <1>1, <1>3 DEF Planned
<1>4. CASE DenyItem(r)
  BY <1>1, <1>3, <1>4 DEF DenyItem, Done, Goto, request, Shape
<1>5. CASE PutItem(r)
  BY <1>1, <1>3, <1>5 DEF PutItem, Done, Goto, request, Shape
<1>6. CASE RemoveItem(r)
  BY <1>1, <1>3, <1>6 DEF RemoveItem, Done, Goto, request, Shape
<1>7. CASE CopyItem(r)
  BY <1>1, <1>3, <1>7 DEF CopyItem, Done, Goto, Shape
<1>8. CASE RemoveSource(r)
  BY <1>1, <1>3, <1>8 DEF RemoveSource, Goto, Shape
<1>9. CASE FindFolder(r)
  BY <1>1, <1>3, <1>9 DEF FindFolder, Goto, Shape
<1>10. QED
  BY <1>2, <1>4, <1>5, <1>6, <1>7, <1>8, <1>9 DEF Serve

LEMMA PlanInit == Init => PlanInv
  BY DEF Init, PlanInv, Planned

LEMMA PlanStep == Inv /\ Inv' /\ PlanInv /\ [Next]_vars => PlanInv'
<1>1. SUFFICES ASSUME Inv, Inv', PlanInv, [Next]_vars PROVE PlanInv'
  OBVIOUS
<1>2. ASSUME NEW r \in Requests, Start(r) \/ Serve(r) PROVE PlanInv'
  BY <1>1, <1>2, StartPlans, ListPlans, ServePlans, PlanKept
<1>3. CASE Restart
  BY <1>3 DEF Restart, PlanInv, Planned
<1>4. CASE UNCHANGED vars
  BY <1>1, <1>4 DEF vars, PlanInv, Planned
<1>5. QED
  BY <1>1, <1>2, <1>3, <1>4 DEF Next

-----------------------------------------------------------------------------
(* The definitions FileCustody shares with FileService mean the same in both. *)

LEMMA SameCalls ==
    /\ Custody!NoCall = NoCall
    /\ Custody!FolderOps = FolderOps
    /\ \A f, k : Custody!Under(f, k) = Under(f, k)
    /\ \A c, i : Custody!Permitted(c, i) = Permitted(c, i)
    /\ \A c, S : Custody!Sources(c, S) = Sources(c, S)
    /\ \A c : Custody!OldPath(c) = OldPath(c)
    /\ \A c, k : Custody!Renamed(c, k) = Renamed(c, k)
<1>1. Custody!NoCall = NoCall /\ Custody!FolderOps = FolderOps
  BY DEF NoCall, FolderOps, Custody!NoCall, Custody!FolderOps
<1>2. \A f, k : Custody!IsPrefix(f, k) = IsPrefix(f, k)
  BY DEF IsPrefix, Custody!IsPrefix
<1>3. \A f, k : Custody!Under(f, k) = Under(f, k)
  BY <1>2 DEF Under, IsStrictPrefix, Custody!Under, Custody!IsStrictPrefix
<1>4. \A c, i : Custody!Permitted(c, i) = Permitted(c, i)
  BY <1>3 DEF Permitted, Custody!Permitted
<1>5. \A s : Custody!Parent(s) = Parent(s)
  BY DEF Parent, Front, Custody!Parent, Custody!Front
<1>6. \A c : Custody!OldPath(c) = OldPath(c)
  BY <1>5 DEF OldPath, Custody!OldPath
<1>7. \A c : Custody!NewPath(c) = NewPath(c)
  BY <1>5, <1>6 DEF NewPath, Custody!NewPath
<1>8. \A k, old, new : Custody!Rebase(k, old, new) = Rebase(k, old, new)
  BY DEF Rebase, Custody!Rebase
<1>9. \A c, k : Custody!Renamed(c, k) = Renamed(c, k)
  BY <1>6, <1>7, <1>8 DEF Renamed, Custody!Renamed
<1>10. \A c, S : Custody!Sources(c, S) = Sources(c, S)
  BY <1>4 DEF Sources, Custody!Sources
<1>11. QED
  BY <1>1, <1>3, <1>4, <1>6, <1>9, <1>10

LEMMA SameCount == \A S : Custody!Cardinality(S) = Cardinality(S)
  BY DEF Cardinality, Custody!Cardinality

LEMMA SameStore ==
    /\ \A b, k, c : Custody!PutObject(b, k, c) = PutObject(b, k, c)
    /\ \A b, k : Custody!RemoveObject(b, k) = RemoveObject(b, k)
    /\ \A b, s, d : Custody!CanCopy(b, s, d) = CanCopy(b, s, d)
    /\ \A b, f, rec : Custody!ListObjects(b, f, rec) = ListObjects(b, f, rec)
<1>1. \A b, k, c : Custody!PutObject(b, k, c) = PutObject(b, k, c)
  BY DEF PutObject, Custody!PutObject
<1>2. \A b, k : Custody!RemoveObject(b, k) = RemoveObject(b, k)
  BY DEF RemoveObject, Custody!RemoveObject
<1>3. \A b, s, d : Custody!CanCopy(b, s, d) = CanCopy(b, s, d)
  BY DEF CanCopy, Custody!CanCopy
<1>4. \A f : Custody!Marker(f) = Marker(f)
  BY DEF Marker, Custody!Marker
<1>5. \A b, f, rec : Custody!ListObjects(b, f, rec) = ListObjects(b, f, rec)
  BY <1>4, SameCalls DEF ListObjects, Custody!ListObjects
<1>6. QED
  BY <1>1, <1>2, <1>3, <1>5

-----------------------------------------------------------------------------
(* The refinement mapping.                                                  *)

licence == [r \in Requests |-> Licence(r)]
asking == {r \in Requests : pc[r] \in {"find", "list"}}

\* A step of request r moves the licences of r alone,
LEMMA LicenceMoves ==
    ASSUME NEW r \in Requests, Others(r)
    PROVE  licence' = [licence EXCEPT ![r] = Licence(r)']
<1>1. \A q \in Requests \ {r} : Licence(q)' = Licence(q)
  BY DEF Others, Licence
<1>2. QED
  BY <1>1 DEF licence

\* and whether r alone still has its folder to look at.
LEMMA AskingMoves ==
    ASSUME NEW r \in Requests, Others(r)
    PROVE  asking' = IF pc'[r] \in {"find", "list"} THEN asking \cup {r}
                                                    ELSE asking \ {r}
  BY DEF Others, asking

\* The licences of a request, by what it does and where it is.
LicenceIs(r) ==
    /\ call[r].op \in {"delete", "rmdir"} => Licence(r) = Sources(call[r], todo[r])
    /\ pc[r] = "source" => Licence(r) = {moving[r].src}
    /\ pc[r] # "source" /\ call[r].op \notin {"delete", "rmdir"} => Licence(r) = {}

LEMMA LicenceOf == PlanInv => \A r \in Requests : LicenceIs(r)
<1>1. SUFFICES ASSUME PlanInv, NEW r \in Requests PROVE LicenceIs(r)
  OBVIOUS
<1>2. pc[r] = "source" => call[r].op \notin {"delete", "rmdir"}
  BY <1>1 DEF PlanInv, Planned
<1>3. QED
  BY <1>2 DEF LicenceIs, Licence

LEMMA LicencesAre ==
    ASSUME PlanInv, PlanInv'
    PROVE  \A r \in Requests : LicenceIs(r) /\ LicenceIs(r)' /\ licence[r] = Licence(r)
<1>1. \A r \in Requests : LicenceIs(r)
  BY LicenceOf
<1>2. (\A r \in Requests : LicenceIs(r))'
  BY LicenceOf, PTL
<1>3. QED
  BY <1>1, <1>2 DEF licence

LEMMA StartAccepts ==
    ASSUME Inv, PlanInv, Inv', PlanInv', NEW r \in Requests, Start(r)
    PROVE  Custody!Accept(r)
<1>1. PICK c \in Calls :
        /\ call' = [call EXCEPT ![r] = c]
        /\ \/ /\ c.op \in BatchOps
              /\ todo' = [todo EXCEPT ![r] = c.items]
              /\ pc' = [pc EXCEPT ![r] = "items"]
           \/ /\ c.op \in FolderOps
              /\ pc' = [pc EXCEPT ![r] = "find"]
              /\ UNCHANGED todo
  BY DEF Start, Goto
<1>2. /\ call[r] = NoCall /\ todo[r] = {} /\ call'[r] = c
      /\ pc[r] = "idle" /\ bucket' = bucket
  BY <1>1 DEF Start, Inv, Shape, Assigned, PlanInv, Planned, Untouched
<1>3. asking' = IF c.op \in FolderOps THEN asking \cup {r} ELSE asking
  <2>1. asking' = IF pc'[r] \in {"find", "list"} THEN asking \cup {r} ELSE asking \ {r}
    BY OthersStay, AskingMoves
  <2>2. r \notin asking
    BY <1>2 DEF asking
  <2>3. pc'[r] \in {"find", "list"} <=> c.op \in FolderOps
    BY <1>1 DEF Inv, Shape, BatchOps, FolderOps
  <2>4. QED
    BY <2>1, <2>2, <2>3
<1>4. Licence(r)' = Custody!Named(c)
  <2>1. pc'[r] # "source"
    BY <1>1 DEF Inv, Shape
  <2>2. CASE c.op = "delete"
    <3>1. todo'[r] = c.items
      BY <1>1, <2>2 DEF Inv, Shape, BatchOps, FolderOps
    <3>2. Licence(r)' = Sources(c, c.items)
      BY <1>2, <2>1, <2>2, <3>1 DEF Licence
    <3>3. QED
      BY <2>2, <3>2, SameCalls DEF Custody!Named
  <2>3. CASE c.op = "rmdir"
    <3>1. todo'[r] = {}
      BY <1>1, <1>2, <2>3 DEF BatchOps
    <3>2. Sources(c, {}) = {}
      BY DEF Sources
    <3>3. QED
      BY <1>2, <2>1, <2>3, <3>1, <3>2 DEF Licence, Custody!Named
  <2>4. CASE c.op \notin {"delete", "rmdir"}
    BY <1>2, <2>1, <2>4 DEF Licence, Custody!Named
  <2>5. QED
    BY <2>2, <2>3, <2>4
<1>5. licence' = [licence EXCEPT ![r] = Custody!Named(c)]
  BY <1>4, OthersStay, LicenceMoves
<1>6. QED
  BY <1>1, <1>2, <1>3, <1>5, SameCalls
     DEF Custody!Accept, Custody!Holds, licence, asking

\* Taking an item off a list of single keys takes its key off their sources.
LEMMA SourcesLess ==
    ASSUME NEW c, NEW S, NEW i \in S, Permitted(c, i), \A j \in S : j = Only(j.src)
    PROVE  Sources(c, S \ {i}) = Sources(c, S) \ {i.src}
<1>1. ASSUME NEW j \in S, j.src = i.src PROVE j = i
  BY <1>1
<1>2. QED
  BY <1>1, Zenon DEF Sources

\* What the steps at an item have in common: the folder has been looked at.
LEMMA AtItems ==
    ASSUME NEW r \in Requests, Others(r), pc[r] \in {"items", "source"},
           pc'[r] \in {"idle", "items", "source"}
    PROVE  r \notin asking /\ asking' = asking
  BY AskingMoves DEF asking

LEMMA DenyItemHides ==
    ASSUME Inv, PlanInv, Inv', PlanInv', NEW r \in Requests, DenyItem(r)
    PROVE  UNCHANGED Custody!custodyVars
<1>1. PICK i \in todo[r] :
        ~Permitted(call[r], i) /\ todo'[r] = todo[r] \ {i} /\ pc'[r] = "items"
  BY DEF DenyItem, Done, Goto, Inv, Shape
<1>2. pc[r] = "items" /\ call' = call /\ bucket' = bucket /\ Others(r)
  BY OthersStay DEF DenyItem, Untouched, request, Serve
<1>3. Sources(call[r], todo[r] \ {i}) = Sources(call[r], todo[r])
  BY <1>1 DEF Sources
<1>4. Licence(r)' = Licence(r)
  BY <1>1, <1>2, <1>3, LicencesAre DEF LicenceIs
<1>5. licence' = licence
  BY <1>2, <1>4, LicenceMoves DEF licence
<1>6. asking' = asking
  BY <1>1, <1>2, AtItems
<1>7. QED
  BY <1>2, <1>5, <1>6 DEF Custody!custodyVars, licence, asking

LEMMA PutItemStores ==
    ASSUME Inv, PlanInv, Inv', PlanInv', NEW r \in Requests, PutItem(r)
    PROVE  Custody!Store(r) \/ UNCHANGED Custody!custodyVars
<1>1. /\ pc[r] = "items" /\ pc'[r] = "items" /\ call' = call /\ Others(r)
      /\ call[r].op \in {"upload", "mkdir"}
  BY OthersStay DEF PutItem, Done, Goto, Inv, Shape, request, Serve
<1>2. licence' = licence
  <2>1. Licence(r)' = Licence(r)
    BY <1>1, LicencesAre DEF LicenceIs
  <2>2. QED
    BY <1>1, <2>1, LicenceMoves DEF licence
<1>3. asking' = asking
  BY <1>1, AtItems
<1>4. CASE bucket' = bucket
  BY <1>1, <1>2, <1>3, <1>4 DEF Custody!custodyVars, licence, asking
<1>5. CASE bucket' # bucket
  <2>1. PICK i \in todo[r] :
          /\ Len(i.dst) <= MaxLength
          /\ \E c \in IF call[r].op = "mkdir" THEN {""} ELSE Contents \ uploaded :
               bucket' = PutObject(bucket, i.dst, c)
    BY <1>5 DEF PutItem, Untouched
  <2>2. i \in call[r].items
    BY <1>1, <2>1 DEF Inv, Assigned, BatchOps
  <2>3. PICK c \in IF call[r].op = "mkdir" THEN {""} ELSE Contents :
          bucket' = Custody!PutObject(bucket, i.dst, c)
    BY <2>1, SameStore
  <2>4. QED
    BY <1>1, <1>2, <1>3, <2>1, <2>2, <2>3 DEF Custody!Store, licence, asking
<1>6. QED
  BY <1>4, <1>5

LEMMA RemoveItemDiscards ==
    ASSUME Inv, PlanInv, Inv', PlanInv', NEW r \in Requests, RemoveItem(r)
    PROVE  Custody!Discard(r) \/ Custody!Waive(r)
<1>1. PICK i \in todo[r] :
        /\ Permitted(call[r], i) /\ todo'[r] = todo[r] \ {i} /\ pc'[r] = "items"
        /\ bucket' = RemoveObject(bucket, i.src) \/ bucket' = bucket
  BY DEF RemoveItem, Done, Goto, Inv, Shape, Untouched
<1>2. /\ pc[r] = "items" /\ call' = call /\ Others(r)
      /\ call[r].op \in {"delete", "rmdir"}
  BY OthersStay DEF RemoveItem, request, Serve
<1>3. \A j \in todo[r] : j = Only(j.src)
  BY <1>2 DEF PlanInv, Planned
<1>4. Licence(r)' = licence[r] \ {i.src}
  <2>1. Licence(r) = Sources(call[r], todo[r])
        /\ Licence(r)' = Sources(call[r], todo[r] \ {i})
    BY <1>1, <1>2, LicencesAre DEF LicenceIs
  <2>2. QED
    BY <1>1, <1>3, <2>1, SourcesLess, LicencesAre
<1>5. licence' = [licence EXCEPT ![r] = licence[r] \ {i.src}]
  BY <1>2, <1>4, LicenceMoves
<1>6. asking' = asking
  BY <1>1, <1>2, AtItems
<1>7. i.src \in licence[r]
  BY <1>1, <1>2, LicencesAre DEF LicenceIs, Sources
<1>8. CASE bucket' = RemoveObject(bucket, i.src)
  BY <1>2, <1>5, <1>6, <1>7, <1>8, SameStore
     DEF Custody!Discard, Custody!Holds, licence, asking
<1>9. CASE bucket' = bucket
  BY <1>2, <1>5, <1>6, <1>9 DEF Custody!Waive, Custody!Holds, licence, asking
<1>10. QED
  BY <1>1, <1>8, <1>9

\* What a request copies is an item of its call, or of the folder it renames.
LEMMA CopiesSubjects ==
    ASSUME Inv, PlanInv, NEW r \in Requests, pc[r] = "items", NEW i \in todo[r],
           Permitted(call[r], i), call[r].op \in {"copy", "move", "rename"},
           i.src \in DOMAIN bucket
    PROVE  i \in Custody!Subjects(call[r]) /\ Custody!Subject(call[r], i)
<1>1. CASE call[r].op = "rename"
  <2>1. Under(OldPath(call[r]), i.src) /\ i = Renamed(call[r], i.src)
    BY <1>1 DEF PlanInv, Planned
  <2>2. QED
    BY <1>1, <2>1, SameCalls DEF Custody!Subjects, Custody!Subject
<1>2. CASE call[r].op \in {"copy", "move"}
  <2>1. i \in call[r].items
    BY <1>2 DEF Inv, Assigned, BatchOps
  <2>2. QED
    BY <1>2, <2>1, SameCalls DEF Custody!Subjects, Custody!Subject
<1>3. QED
  BY <1>1, <1>2

LEMMA CopyItemDuplicates ==
    ASSUME Inv, PlanInv, Inv', PlanInv', NEW r \in Requests, CopyItem(r)
    PROVE  Custody!Duplicate(r) \/ UNCHANGED Custody!custodyVars
<1>. DEFINE c == call[r]
<1>1. PICK i \in todo[r] :
        /\ Permitted(c, i)
        /\ \/ /\ MakeCopy(r, i)
              /\ c.op # "copy"
              /\ pc' = [pc EXCEPT ![r] = "source"]
              /\ moving' = [moving EXCEPT ![r] = i]
           \/ /\ MakeCopy(r, i) \/ bucket' = bucket
              /\ pc' = [pc EXCEPT ![r] = "items"] \/ pc' = pc
  BY DEF CopyItem, Done, Goto, Untouched
<1>2. /\ pc[r] = "items" /\ call' = call /\ Others(r)
      /\ c.op \in {"copy", "move", "rename"}
  BY OthersStay DEF CopyItem, Serve
<1>3. licence[r] = {} /\ r \notin asking
  BY <1>2, LicencesAre DEF LicenceIs, asking
<1>4. pc'[r] \in {"items", "source"}
  BY <1>1, <1>2 DEF Inv, Shape
<1>5. asking' = asking
  BY <1>2, <1>4, AtItems
<1>6. \/ /\ MakeCopy(r, i) /\ c.op # "copy" /\ Licence(r)' = {i.src}
      \/ /\ MakeCopy(r, i) \/ bucket' = bucket
         /\ Licence(r)' = {}
  <2>1. CASE /\ MakeCopy(r, i)
             /\ c.op # "copy"
             /\ pc' = [pc EXCEPT ![r] = "source"]
             /\ moving' = [moving EXCEPT ![r] = i]
    <3>1. pc'[r] = "source" /\ moving'[r] = i
      BY <2>1 DEF Inv, Shape
    <3>2. QED
      BY <2>1, <3>1, LicencesAre DEF LicenceIs
  <2>2. CASE /\ MakeCopy(r, i) \/ bucket' = bucket
             /\ pc' = [pc EXCEPT ![r] = "items"] \/ pc' = pc
    <3>1. pc'[r] = "items" /\ call'[r] = c
      BY <1>2, <2>2 DEF Inv, Shape
    <3>2. QED
      BY <1>2, <2>2, <3>1, LicencesAre DEF LicenceIs
  <2>3. QED
    BY <1>1, <2>1, <2>2
<1>7. licence' = [licence EXCEPT ![r] = Licence(r)']
  BY <1>2, LicenceMoves
<1>8. CASE MakeCopy(r, i)
  <2>1. /\ Custody!CanCopy(bucket, i.src, i.dst)
        /\ bucket' = Custody!PutObject(bucket, i.dst, bucket[i.src])
        /\ i.src \in DOMAIN bucket
    BY <1>8, SameStore DEF MakeCopy, CanCopy
  <2>2. i \in Custody!Subjects(c) /\ Custody!Subject(c, i)
    BY <1>1, <1>2, <2>1, CopiesSubjects
  <2>3. Licence(r)' \in IF c.op = "copy" THEN {{}} ELSE {{}, {i.src}}
    BY <1>6
  <2>4. QED
    BY <1>2, <1>3, <1>5, <1>7, <2>1, <2>2, <2>3
       DEF Custody!Duplicate, Custody!Holds, licence, asking
<1>9. CASE bucket' = bucket /\ Licence(r)' = {}
  <2>1. licence' = licence
    BY <1>3, <1>7, <1>9 DEF licence
  <2>2. QED
    BY <1>2, <1>5, <1>9, <2>1 DEF Custody!custodyVars, licence, asking
<1>10. QED
  BY <1>6, <1>8, <1>9

LEMMA RemoveSourceDiscards ==
    ASSUME Inv, PlanInv, Inv', PlanInv', NEW r \in Requests, RemoveSource(r)
    PROVE  Custody!Discard(r) \/ Custody!Waive(r)
<1>. DEFINE src == moving[r].src
<1>1. /\ pc[r] = "source" /\ pc'[r] = "items" /\ call' = call /\ Others(r)
      /\ bucket' = RemoveObject(bucket, src) \/ bucket' = bucket
  BY OthersStay DEF RemoveSource, Goto, Inv, Shape, Untouched, Serve
<1>2. licence[r] = {src} /\ Licence(r)' = {}
  <2>1. call[r].op \in {"move", "rename"}
    BY <1>1 DEF PlanInv, Planned
  <2>2. QED
    BY <1>1, <2>1, LicencesAre DEF LicenceIs
<1>3. licence' = [licence EXCEPT ![r] = licence[r] \ {src}]
  BY <1>1, <1>2, LicenceMoves
<1>4. asking' = asking
  BY <1>1, AtItems
<1>5. CASE bucket' = RemoveObject(bucket, src)
  <2>1. src \in licence[r] /\ bucket' = Custody!RemoveObject(bucket, src)
    BY <1>2, <1>5, SameStore
  <2>2. QED
    BY <1>1, <1>3, <1>4, <2>1 DEF Custody!Discard, Custody!Holds, licence, asking
<1>6. CASE bucket' = bucket
  BY <1>1, <1>3, <1>4, <1>6 DEF Custody!Waive, Custody!Holds, licence, asking
<1>7. QED
  BY <1>1, <1>5, <1>6

\* Where a request looks for its folder, or lists it, it has no licence yet.
LEMMA NoneYet ==
    ASSUME Inv, PlanInv, PlanInv', NEW r \in Requests, pc[r] \in {"find", "list"}
    PROVE  r \in asking /\ licence[r] = {}
<1>1. todo[r] = {}
  BY DEF Inv, Assigned
<1>2. Sources(call[r], {}) = {}
  BY DEF Sources
<1>3. QED
  BY <1>1, <1>2, LicencesAre DEF LicenceIs, asking

\* A request that gives up its folder waives it.
LEMMA GivesUp ==
    ASSUME Inv, PlanInv, PlanInv', NEW r \in Requests, Others(r),
           pc[r] \in {"find", "list"}, pc'[r] = "items",
           call' = call, bucket' = bucket, Licence(r)' = {}
    PROVE  Custody!Waive(r)
<1>1. licence' = [licence EXCEPT ![r] = {}] /\ licence[r] = {}
  BY NoneYet, LicenceMoves
<1>2. asking' = asking \ {r}
  BY AskingMoves
<1>3. QED
  BY <1>1, <1>2 DEF Custody!Waive, Custody!Holds, licence, asking

LEMMA FindFolderWaives ==
    ASSUME Inv, PlanInv, Inv', PlanInv', NEW r \in Requests, FindFolder(r)
    PROVE  Custody!Waive(r) \/ UNCHANGED Custody!custodyVars
<1>1. /\ pc[r] = "find" /\ pc'[r] \in {"list", "items"} /\ call' = call
      /\ todo' = todo /\ bucket' = bucket /\ Others(r)
  BY OthersStay DEF FindFolder, Goto, Inv, Shape, Untouched, Serve
<1>2. Licence(r)' = {}
  <2>1. todo'[r] = {} /\ Sources(call[r], {}) = {}
    BY <1>1 DEF Inv, Assigned, Sources
  <2>2. QED
    BY <1>1, <2>1, LicencesAre DEF LicenceIs
<1>3. CASE pc'[r] = "items"
  BY <1>1, <1>2, <1>3, GivesUp
<1>4. CASE pc'[r] = "list"
  <2>1. licence' = licence
    BY <1>1, <1>2, LicenceMoves, NoneYet DEF licence
  <2>2. asking' = asking
    BY <1>1, <1>4, AskingMoves DEF asking
  <2>3. QED
    BY <1>1, <2>1, <2>2 DEF Custody!custodyVars, licence, asking
<1>5. QED
  BY <1>1, <1>3, <1>4

LEMMA ListFolderSurveys ==
    ASSUME Inv, PlanInv, Inv', PlanInv', NEW r \in Requests, ListFolder(r)
    PROVE  Custody!Survey(r) \/ Custody!Waive(r)
<1>. DEFINE c == call[r]
            listed == ListObjects(bucket, c.folder, c.recursive)
<1>1. /\ pc[r] = "list" /\ pc'[r] = "items" /\ call' = call
      /\ bucket' = bucket /\ Others(r)
  BY OthersStay DEF ListFolder, Goto, Inv, Shape, Untouched, request, Serve
<1>2. c \in Calls /\ c.op \in FolderOps /\ todo[r] = {}
  BY <1>1 DEF Inv, Assigned
<1>3. CASE c.op = "rename"
  <2>1. Licence(r)' = {}
    BY <1>1, <1>3, LicencesAre DEF LicenceIs
  <2>2. QED
    BY <1>1, <2>1, GivesUp
<1>4. CASE c.op = "rmdir" /\ todo' = todo
  <2>1. Sources(c, {}) = {}
    BY DEF Sources
  <2>2. Licence(r)' = {}
    BY <1>1, <1>2, <1>4, <2>1, LicencesAre DEF LicenceIs
  <2>3. QED
    BY <1>1, <2>2, GivesUp
<1>5. CASE c.op = "rmdir" /\ todo' # todo
  <2>1. /\ c.recursive \/ Cardinality(listed) <= 1
        /\ todo'[r] = {Only(k) : k \in listed}
    BY <1>5 DEF ListFolder, Removable, Inv, Shape
  <2>2. Sources(c, {Only(k) : k \in listed}) = listed
    <3>1. \A j : Permitted(c, j)
      BY <1>5 DEF Permitted
    <3>2. \A k : Only(k).src = k
      BY DEF Only
    <3>3. QED
      BY <3>1, <3>2, Zenon DEF Sources
  <2>3. Licence(r)' = listed
    BY <1>1, <1>5, <2>1, <2>2, LicencesAre DEF LicenceIs
  <2>4. licence' = [licence EXCEPT ![r] = listed]
    BY <1>1, <2>3, LicenceMoves
  <2>5. asking' = asking \ {r} /\ r \in asking
    BY <1>1, AskingMoves, NoneYet
  <2>6. listed = Custody!ListObjects(bucket, c.folder, c.recursive)
    BY SameStore
  <2>. HIDE DEF listed
  <2>7. QED
    BY <1>1, <1>5, <2>1, <2>4, <2>5, <2>6, SameCount
       DEF Custody!Survey, Custody!Holds, licence, asking
<1>6. QED
  BY <1>2, <1>3, <1>4, <1>5 DEF FolderOps

LEMMA FinishLeaves ==
    ASSUME Inv, PlanInv, Inv', PlanInv', NEW r \in Requests, Finish(r)
    PROVE  Custody!Leave(r)
<1>1. /\ pc[r] = "items" /\ todo[r] = {} /\ pc'[r] = "idle" /\ Others(r)
      /\ call' = [call EXCEPT ![r] = NoCall] /\ bucket' = bucket
      /\ call'[r] = NoCall
  BY OthersStay DEF Finish, Goto, Inv, Shape, Serve
<1>2. licence[r] = {} /\ Licence(r)' = {}
  <2>1. NoCall.op \notin {"delete", "rmdir"} /\ Sources(call[r], {}) = {}
    BY DEF NoCall, Sources
  <2>2. QED
    BY <1>1, <2>1, LicencesAre DEF LicenceIs
<1>3. licence' = licence
  BY <1>1, <1>2, LicenceMoves DEF licence
<1>4. r \notin asking /\ asking' = asking
  BY <1>1, AtItems
<1>5. QED
  BY <1>1, <1>2, <1>3, <1>4, SameCalls DEF Custody!Leave, licence, asking

LEMMA RestartCrashes ==
    ASSUME PlanInv, PlanInv', Restart
    PROVE  Custody!Crash
<1>1. /\ pc' = [r \in Requests |-> "idle"] /\ call' = [r \in Requests |-> NoCall]
      /\ bucket' = bucket
  BY DEF Restart
<1>2. ASSUME NEW r \in Requests PROVE Licence(r)' = {} /\ pc'[r] = "idle"
  <2>1. NoCall.op \notin {"delete", "rmdir"}
    BY DEF NoCall
  <2>2. QED
    BY <1>1, <2>1, LicencesAre DEF LicenceIs
<1>3. licence' = [r \in Requests |-> {}] /\ asking' = {}
  BY <1>2 DEF licence, asking
<1>4. QED
  BY <1>1, <1>3, SameCalls DEF Custody!Crash, licence, asking

-----------------------------------------------------------------------------
(* The theorem.                                                             *)

LEMMA CustodyStart == Init => Custody!CustodyInit
<1>1. SUFFICES ASSUME Init PROVE Custody!CustodyInit
  OBVIOUS
<1>2. /\ pc = [r \in Requests |-> "idle"] /\ call = [r \in Requests |-> NoCall]
      /\ bucket = [k \in {} |-> ""]
  BY <1>1 DEF Init
<1>3. ASSUME NEW r \in Requests PROVE Licence(r) = {} /\ pc[r] = "idle"
  BY <1>2, <1>1, PlanInit, LicenceOf DEF LicenceIs, NoCall
<1>4. licence = [r \in Requests |-> {}] /\ asking = {}
  BY <1>3 DEF licence, asking
<1>5. QED
  BY <1>2, <1>4, SameCalls DEF Custody!CustodyInit, licence, asking

LEMMA CustodyStep ==
    Inv /\ Inv' /\ PlanInv /\ PlanInv' /\ [Next]_vars
        => [Custody!CustodyNext]_(Custody!custodyVars)
<1>1. SUFFICES ASSUME Inv, Inv', PlanInv, PlanInv', [Next]_vars
               PROVE  Custody!CustodyNext \/ UNCHANGED Custody!custodyVars
  OBVIOUS
<1>2. ASSUME NEW r \in Requests, Start(r) \/ Serve(r)
      PROVE  \/ Custody!Accept(r) \/ Custody!Survey(r) \/ Custody!Waive(r)
             \/ Custody!Store(r) \/ Custody!Duplicate(r) \/ Custody!Discard(r)
             \/ Custody!Leave(r) \/ UNCHANGED Custody!custodyVars
  BY <1>1, <1>2, StartAccepts, DenyItemHides, PutItemStores, RemoveItemDiscards,
     CopyItemDuplicates, RemoveSourceDiscards, FindFolderWaives,
     ListFolderSurveys, FinishLeaves DEF Serve
<1>3. CASE Restart
  BY <1>1, <1>3, RestartCrashes DEF Custody!CustodyNext
<1>4. CASE UNCHANGED vars
  BY <1>4 DEF vars, Custody!custodyVars, Licence
<1>5. QED
  BY <1>1, <1>2, <1>3, <1>4 DEF Next, Custody!CustodyNext

\* The file service removes an object only under a licence of FileCustody:
\* each for one key, used once, and gone with its request or the process.
THEOREM ServiceImplementsCustody == Spec => CustodySpec
<1>1. Spec => [](Inv /\ PlanInv)
  BY Invariance, PlanInit, PlanStep, PTL DEF Spec
<1>2. QED
  BY <1>1, CustodyStart, CustodyStep, PTL
     DEF Spec, CustodySpec, Custody!CustodySpec
=============================================================================
