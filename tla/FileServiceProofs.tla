--------------------------- MODULE FileServiceProofs ---------------------------
(***************************************************************************)
(* Theorems about FileService, for any number of requests, users, names,   *)
(* contents and calls.                                                     *)
(***************************************************************************)
EXTENDS FileService, FiniteSetTheorems, TLAPS

Segments == Users \cup Names \cup {""}

-----------------------------------------------------------------------------
(* What the operators on keys return.                                       *)

\* A key begins with its owner.
LEMMA KeyFacts ==
    ASSUME NEW k, IsKey(k)
    PROVE  /\ k \in Seq(Segments)
           /\ Len(k) \in Nat /\ Len(k) > 1
           /\ Owner(k) = k[1]
           /\ k[1] \in Users
<1>1. k \in Seq(Segments) /\ Len(k) > 1 /\ Head(k) \in Users
  BY DEF IsKey, Segments
<1>2. Len(k) \in Nat /\ Head(k) = k[1]
  BY <1>1
<1>3. QED
  BY <1>1, <1>2 DEF Owner

\* A sequence of segments after the name of a user is a key.
LEMMA KeyIntro ==
    ASSUME NEW k \in Seq(Segments), Len(k) > 1, Head(k) \in Users
    PROVE  IsKey(k) /\ Owner(k) = Head(k)
  BY DEF IsKey, Owner, Segments

\* What lies under a folder has the owner of the folder.
LEMMA UnderOwner ==
    ASSUME NEW k, IsKey(k), NEW f \in Seq(Segments), Len(f) > 0, Under(f, k)
    PROVE  /\ Owner(k) = f[1]
           /\ Len(f) < Len(k)
<1>1. k \in Seq(Segments) /\ Owner(k) = k[1] /\ Len(k) \in Nat
  BY KeyFacts
<1>2. Len(f) <= Len(k) /\ SubSeq(f, 1, Len(f)) = SubSeq(k, 1, Len(f)) /\ f # k
  BY DEF Under, IsStrictPrefix, IsPrefix
<1>3. SubSeq(f, 1, Len(f))[1] = f[1] /\ SubSeq(k, 1, Len(f))[1] = k[1]
  BY <1>1, <1>2
<1>4. Len(f) # Len(k)
  <2>1. SUFFICES ASSUME Len(f) = Len(k) PROVE FALSE
    OBVIOUS
  <2>2. SubSeq(f, 1, Len(f)) = f /\ SubSeq(k, 1, Len(k)) = k
    BY <1>1
  <2>3. QED
    BY <1>2, <2>1, <2>2
<1>5. QED
  BY <1>1, <1>2, <1>3, <1>4

\* Appending to a sequence that is not empty leaves its first element.
LEMMA AppendFacts ==
    ASSUME NEW S, NEW s \in Seq(S), Len(s) > 0, NEW e \in S
    PROVE  /\ Append(s, e) \in Seq(S)
           /\ Len(Append(s, e)) = Len(s) + 1
           /\ Append(s, e)[1] = s[1]
           /\ Head(Append(s, e)) = s[1]
  OBVIOUS

\* The marker of a folder, cut out of a key, is a key of the same owner.
LEMMA MarkerIsKey ==
    ASSUME NEW k, IsKey(k), NEW n \in 1 .. Len(k)
    PROVE  /\ IsKey(Marker(SubSeq(k, 1, n)))
           /\ Owner(Marker(SubSeq(k, 1, n))) = Owner(k)
<1>1. /\ k \in Seq(Segments) /\ Len(k) \in Nat
      /\ Owner(k) = k[1] /\ k[1] \in Users
  BY KeyFacts
<1>2. n \in Nat /\ n > 0 /\ n <= Len(k)
  BY <1>1
<1>. DEFINE s == SubSeq(k, 1, n)
<1>3. s \in Seq(Segments) /\ Len(s) = n /\ s[1] = k[1]
  BY <1>1, <1>2
<1>. HIDE DEF s
<1>4. PICK e \in Segments : e = ""
  BY DEF Segments
<1>5. /\ Append(s, e) \in Seq(Segments)
      /\ Len(Append(s, e)) = n + 1
      /\ Head(Append(s, e)) = k[1]
  BY <1>2, <1>3, AppendFacts
<1>6. IsKey(Append(s, e)) /\ Owner(Append(s, e)) = k[1]
  <2>1. Len(Append(s, e)) > 1
    BY <1>2, <1>5
  <2>2. Head(Append(s, e)) \in Users
    BY <1>1, <1>5
  <2>3. QED
    BY <1>5, <2>1, <2>2, KeyIntro, Zenon
<1>7. Append(s, e) = Marker(SubSeq(k, 1, n))
  BY <1>4 DEF Marker, s
<1>8. QED
  BY <1>1, <1>6, <1>7

\* A listing of a folder shows keys of its owner.
LEMMA ListedKeys ==
    ASSUME NEW f \in Seq(Segments), Len(f) > 0,
           \A k \in DOMAIN bucket : IsKey(k),
           NEW recursive, NEW k \in ListObjects(bucket, f, recursive)
    PROVE  IsKey(k) /\ Owner(k) = f[1]
<1>1. PICK b \in DOMAIN bucket :
        /\ Under(f, b)
        /\ k = b \/ (Len(b) > Len(f) + 1 /\ k = Marker(SubSeq(b, 1, Len(f) + 1)))
  BY DEF ListObjects
<1>2. IsKey(b) /\ Owner(b) = f[1]
  BY <1>1, UnderOwner
<1>3. CASE k = b
  BY <1>2, <1>3
<1>4. CASE Len(b) > Len(f) + 1 /\ k = Marker(SubSeq(b, 1, Len(f) + 1))
  <2>1. Len(b) \in Nat
    BY <1>2, KeyFacts
  <2>2. Len(f) + 1 \in 1 .. Len(b)
    BY <1>4, <2>1
  <2>3. QED
    BY <1>2, <1>4, <2>2, MarkerIsKey
<1>5. QED
  BY <1>1, <1>3, <1>4

\* The folders an operation works on are the user's.
LEMMA FolderFacts ==
    ASSUME NEW c \in Calls, c.op \in FolderOps
    PROVE  /\ c.user \in Users
           /\ IsKey(c.folder) /\ c.folder[1] = c.user
           /\ c.folder \in Seq(Segments) /\ Len(c.folder) > 0
           /\ c.op = "rename" => c.name \in Names
<1>1. IsCall(c)
  BY CallAssumptions
<1>2. /\ c.user \in Users
      /\ IsKey(c.folder) /\ Owner(c.folder) = c.user
      /\ c.op = "rename" => c.name \in Names
  BY <1>1 DEF IsCall, BatchOps, FolderOps
<1>3. QED
  BY <1>2, KeyFacts

\* RenameFolder works on a path of the user, and its new path is one too.
LEMMA RenamePaths ==
    ASSUME NEW c \in Calls, c.op = "rename"
    PROVE  /\ OldPath(c) \in Seq(Segments) /\ Len(OldPath(c)) > 0
           /\ OldPath(c)[1] = c.user
           /\ NewPath(c) \in Seq(Segments) /\ Len(NewPath(c)) > 1
           /\ NewPath(c)[1] = c.user
<1>. DEFINE f == c.folder
<1>1. /\ f \in Seq(Segments) /\ Len(f) > 1 /\ Len(f) \in Nat
      /\ f[1] = c.user
      /\ c.name \in Segments
  BY FolderFacts, KeyFacts DEF FolderOps, Segments
<1>. DEFINE old == SubSeq(f, 1, Len(f) - 1)
<1>2. /\ old \in Seq(Segments) /\ Len(old) = Len(f) - 1
      /\ old[1] = f[1]
  BY <1>1
<1>3. OldPath(c) = old
  BY DEF OldPath, Parent, Front
<1>. HIDE DEF f, old
<1>4. CASE Len(old) = 1
  <2>1. NewPath(c) = Append(old, c.name)
    BY <1>3, <1>4 DEF NewPath
  <2>2. QED
    BY <1>1, <1>2, <1>3, <1>4, <2>1
<1>5. CASE Len(old) # 1
  <2>. DEFINE up == SubSeq(old, 1, Len(old) - 1)
  <2>1. /\ up \in Seq(Segments) /\ Len(up) = Len(old) - 1 /\ Len(up) > 0
        /\ up[1] = old[1]
    BY <1>1, <1>2, <1>5
  <2>2. NewPath(c) = Append(up, c.name)
    BY <1>3, <1>5 DEF NewPath, Parent, Front
  <2>. HIDE DEF up
  <2>3. QED
    BY <1>1, <1>2, <1>3, <2>1, <2>2
<1>6. QED
  BY <1>4, <1>5

\* Giving a key another prefix makes it a key of the owner of that prefix.
LEMMA RebaseIsKey ==
    ASSUME NEW k, IsKey(k), NEW old \in Seq(Segments), Len(old) < Len(k),
           NEW new \in Seq(Segments), Len(new) > 1, new[1] \in Users
    PROVE  IsKey(Rebase(k, old, new)) /\ Owner(Rebase(k, old, new)) = new[1]
<1>. DEFINE t == SubSeq(k, Len(old) + 1, Len(k))
<1>1. k \in Seq(Segments) /\ Len(k) \in Nat
  BY KeyFacts
<1>2. t \in Seq(Segments)
  BY <1>1
<1>. HIDE DEF t
<1>3. /\ new \o t \in Seq(Segments)
      /\ Len(new \o t) > 1
      /\ (new \o t)[1] = new[1]
  BY <1>2
<1>4. Head(new \o t) = new[1]
  BY <1>3
<1>5. QED
  BY <1>3, <1>4, KeyIntro DEF Rebase, t

-----------------------------------------------------------------------------
(* The inductive invariant, one conjunct of it for each request.            *)

Owned(r, i) == Owner(i.src) = call[r].user /\ Owner(i.dst) = call[r].user

\* What request r works on are items of its call, or of a folder of its user.
Assigned(r) ==
    /\ pc[r] # "idle" => call[r] \in Calls
    /\ pc[r] \in {"find", "list"} => call[r].op \in FolderOps
    /\ pc[r] \in {"idle", "find", "list"} => todo[r] = {}
    /\ pc[r] # "idle" /\ call[r].op \in BatchOps => todo[r] \subseteq call[r].items
    /\ \A i \in todo[r] :
          IsItem(i) /\ (call[r].op \in FolderOps => Owned(r, i))
    /\ pc[r] = "source" => IsItem(moving[r]) /\ Owned(r, moving[r])

\* A request that removes the source of a move nobody interfered with has a
\* copy of it at the destination.
Copied(r) ==
    pc[r] = "source" /\ r \notin raced =>
        /\ moving[r].src # moving[r].dst
        /\ moving[r].dst \in DOMAIN bucket
        /\ moving[r].src \in DOMAIN bucket => bucket[moving[r].src] = bucket[moving[r].dst]

Labels == {"idle", "items", "source", "find", "list"}

Shape ==
    /\ pc \in [Requests -> Labels]
    /\ call \in [Requests -> Calls \cup {NoCall}]
    /\ DOMAIN todo = Requests
    /\ DOMAIN moving = Requests
    /\ raced \subseteq Requests

\* What the bucket holds was uploaded, and nothing is lost.
BucketOK ==
    /\ \A k \in DOMAIN bucket : IsKey(k)
    /\ uploaded \subseteq Contents \cup {""}
    /\ spent \subseteq uploaded
    /\ Held(bucket) \subseteq uploaded
    /\ NothingLost

Inv == Shape /\ BucketOK /\ \A r \in Requests : Assigned(r) /\ Copied(r)

LEMMA InvIsType == Inv => TypeOK
<1>1. SUFFICES ASSUME Inv PROVE TypeOK
  OBVIOUS
<1>2. \A k \in DOMAIN bucket : bucket[k] \in Contents \cup {""}
  BY <1>1, Zenon DEF Inv, BucketOK, Held
<1>3. QED
  BY <1>1, <1>2, Zenon DEF Inv, Shape, BucketOK, Assigned, TypeOK, Labels

-----------------------------------------------------------------------------
(* What a change of the bucket does to it.                                  *)

\* The service changes the object at one key at a time.
ChangesOnly(key) ==
    \A k : k # key => /\ k \in DOMAIN bucket' <=> k \in DOMAIN bucket
                      /\ k \in DOMAIN bucket => bucket'[k] = bucket[k]

LEMMA PutChanges ==
    ASSUME NEW key, NEW c, bucket' = PutObject(bucket, key, c)
    PROVE  /\ ChangesOnly(key)
           /\ DOMAIN bucket' = DOMAIN bucket \cup {key}
           /\ bucket'[key] = c
  BY DEF PutObject, ChangesOnly

LEMMA RemoveChanges ==
    ASSUME NEW key, bucket' = RemoveObject(bucket, key)
    PROVE  /\ ChangesOnly(key)
           /\ DOMAIN bucket' = DOMAIN bucket \ {key}
  BY DEF RemoveObject, ChangesOnly

\* A request that is not the one at work keeps its part of the invariant.
LEMMA OthersKeep ==
    ASSUME NEW r \in Requests, NEW q \in Requests \ {r}, Assigned(q),
           pc'[q] = pc[q], call'[q] = call[q], todo'[q] = todo[q],
           moving'[q] = moving[q]
    PROVE  Assigned(q)'
  BY DEF Assigned, Owned

\* A move keeps its copy, unless it is marked as raced.
LEMMA OthersCopied ==
    ASSUME NEW r \in Requests, NEW q \in Requests \ {r}, Copied(q),
           pc'[q] = pc[q], moving'[q] = moving[q],
           NEW key, ChangesOnly(key), Touch(r, key)
    PROVE  Copied(q)'
<1>1. SUFFICES ASSUME pc'[q] = "source", q \notin raced'
               PROVE  /\ moving[q].src # moving[q].dst
                      /\ moving[q].dst \in DOMAIN bucket'
                      /\ moving[q].src \in DOMAIN bucket'
                            => bucket'[moving[q].src] = bucket'[moving[q].dst]
  BY DEF Copied
<1>2. q \notin raced /\ key # moving[q].src /\ key # moving[q].dst
  BY <1>1 DEF Touch
<1>3. /\ moving[q].src # moving[q].dst
      /\ moving[q].dst \in DOMAIN bucket
      /\ moving[q].src \in DOMAIN bucket => bucket[moving[q].src] = bucket[moving[q].dst]
  BY <1>1, <1>2 DEF Copied
<1>4. QED
  BY <1>2, <1>3 DEF ChangesOnly

\* A write or a removal a request asks for keeps what is held or spent.
LEMMA SpendKeeps ==
    ASSUME Held(bucket) \subseteq uploaded, NothingLost, spent \subseteq uploaded,
           NEW r, NEW key, ChangesOnly(key), Spend(r, key)
    PROVE  /\ spent' \subseteq uploaded
           /\ uploaded \subseteq Held(bucket') \cup spent'
           /\ \A v \in Held(bucket') :
                v \in uploaded \/ (key \in DOMAIN bucket' /\ v = bucket'[key])
<1>1. spent \subseteq spent'
  BY DEF Spend
<1>2. key \in DOMAIN bucket => bucket[key] \in Held(bucket)
  BY DEF Held
<1>3. spent' \subseteq uploaded
  BY <1>2 DEF Spend
<1>4. ASSUME NEW v \in Held(bucket) PROVE v \in Held(bucket') \cup spent'
  <2>1. PICK k \in DOMAIN bucket : v = bucket[k]
    BY <1>4 DEF Held
  <2>2. CASE k = key
    BY <2>1, <2>2 DEF Spend
  <2>3. CASE k # key
    BY <2>1, <2>3 DEF ChangesOnly, Held
  <2>4. QED
    BY <2>2, <2>3
<1>5. uploaded \subseteq Held(bucket') \cup spent'
  BY <1>1, <1>4 DEF NothingLost
<1>6. ASSUME NEW v \in Held(bucket')
      PROVE  v \in uploaded \/ (key \in DOMAIN bucket' /\ v = bucket'[key])
  <2>1. PICK k \in DOMAIN bucket' : v = bucket'[k]
    BY <1>6 DEF Held
  <2>2. CASE k = key
    BY <2>1, <2>2
  <2>3. CASE k # key
    BY <2>1, <2>3 DEF ChangesOnly, Held
  <2>4. QED
    BY <2>2, <2>3
<1>7. QED
  BY <1>3, <1>5, <1>6

-----------------------------------------------------------------------------
(* One step of a request.                                                   *)

\* Request r changes its own variables only.
Frame(r) ==
    /\ Shape'
    /\ \A q \in Requests \ {r} :
          /\ pc'[q] = pc[q] /\ call'[q] = call[q]
          /\ todo'[q] = todo[q] /\ moving'[q] = moving[q]

\* It leaves the objects alone, or marks the moves it disturbs.
Gentle(r) ==
    \/ bucket' = bucket /\ raced \ {r} \subseteq raced'
    \/ \E key : ChangesOnly(key) /\ Touch(r, key)

LEMMA StepKeeps ==
    ASSUME Inv, NEW r \in Requests, Frame(r), Gentle(r),
           BucketOK', Assigned(r)', Copied(r)'
    PROVE  Inv'
<1>1. ASSUME NEW q \in Requests \ {r} PROVE Assigned(q)' /\ Copied(q)'
  <2>1. Assigned(q) /\ Copied(q)
    BY DEF Inv
  <2>2. /\ pc'[q] = pc[q] /\ call'[q] = call[q]
        /\ todo'[q] = todo[q] /\ moving'[q] = moving[q]
    BY DEF Frame
  <2>3. Assigned(q)'
    BY <2>1, <2>2, OthersKeep
  <2>4. CASE bucket' = bucket /\ raced \ {r} \subseteq raced'
    <3>1. pc'[q] = "source" /\ q \notin raced' => pc[q] = "source" /\ q \notin raced
      BY <2>2, <2>4
    <3>2. QED
      BY <2>1, <2>2, <2>3, <2>4, <3>1 DEF Copied
  <2>5. CASE \E key : ChangesOnly(key) /\ Touch(r, key)
    <3>1. PICK key : ChangesOnly(key) /\ Touch(r, key)
      BY <2>5
    <3>2. QED
      BY <2>1, <2>2, <2>3, <3>1, OthersCopied
  <2>6. QED
    BY <2>3, <2>4, <2>5 DEF Gentle
<1>2. QED
  BY <1>1 DEF Inv, Frame

\* A step that leaves the bucket alone keeps what is true of it.
LEMMA UntouchedKeeps ==
    ASSUME BucketOK, bucket' = bucket, uploaded' = uploaded, spent' = spent
    PROVE  BucketOK'
  BY DEF BucketOK, NothingLost, Held

\* So does a call that puts an uploaded content at a key,
LEMMA PutKeeps ==
    ASSUME BucketOK, NEW r, NEW key, IsKey(key), NEW c \in Contents \cup {""},
           bucket' = PutObject(bucket, key, c), Spend(r, key),
           uploaded' = uploaded \cup {c}
    PROVE  BucketOK'
<1>1. /\ ChangesOnly(key)
      /\ DOMAIN bucket' = DOMAIN bucket \cup {key}
      /\ bucket'[key] = c
  BY PutChanges
<1>2. /\ spent' \subseteq uploaded
      /\ uploaded \subseteq Held(bucket') \cup spent'
      /\ \A v \in Held(bucket') : v \in uploaded \/ v = c
  BY <1>1, SpendKeeps DEF BucketOK
<1>3. c \in Held(bucket')
  BY <1>1 DEF Held
<1>4. \A k \in DOMAIN bucket' : IsKey(k)
  BY <1>1 DEF BucketOK
<1>5. uploaded' \subseteq Contents \cup {""}
  BY Zenon DEF BucketOK
<1>6. NothingLost'
  BY <1>2, <1>3 DEF NothingLost
<1>7. Held(bucket)' \subseteq uploaded'
  BY <1>2 DEF Held
<1>8. QED
  BY <1>2, <1>4, <1>5, <1>6, <1>7 DEF BucketOK

\* and one that removes a key for a request that spends it.
LEMMA RemoveKeeps ==
    ASSUME BucketOK, NEW r, NEW key,
           bucket' = RemoveObject(bucket, key), Spend(r, key),
           uploaded' = uploaded
    PROVE  BucketOK'
<1>1. ChangesOnly(key) /\ DOMAIN bucket' = DOMAIN bucket \ {key}
  BY RemoveChanges
<1>2. /\ spent' \subseteq uploaded
      /\ uploaded \subseteq Held(bucket') \cup spent'
      /\ \A v \in Held(bucket') : v \in uploaded
  BY <1>1, SpendKeeps DEF BucketOK
<1>3. NothingLost' /\ Held(bucket)' \subseteq uploaded'
  BY <1>2 DEF NothingLost, Held
<1>4. QED
  BY <1>1, <1>2, <1>3 DEF BucketOK

-----------------------------------------------------------------------------
(* The actions keep the invariant.                                          *)

\* What the calls of the clients contain.
LEMMA CallFacts ==
    ASSUME NEW c \in Calls
    PROVE  /\ c.user \in Users
           /\ c.op \in BatchOps \cup FolderOps
           /\ c.op \in BatchOps =>
                \A i \in c.items :
                  /\ IsItem(i)
                  /\ c.op = "upload" => Owner(i.dst) = c.user
                  /\ c.op = "delete" => i.src = i.dst
<1>1. IsCall(c)
  BY CallAssumptions
<1>2. "upload" \in BatchOps /\ "delete" \in BatchOps /\ BatchOps \cap FolderOps = {}
  BY DEF BatchOps, FolderOps
<1>3. c.user \in Users /\ c.op \in BatchOps \cup FolderOps
  BY <1>1, Zenon DEF IsCall
<1>4. ASSUME c.op \in BatchOps, NEW i \in c.items
      PROVE  /\ IsItem(i)
             /\ c.op \in {"upload", "mkdir", "delete"} => i = Only(i.dst)
             /\ c.op = "upload" => Owner(i.dst) = c.user
  <2>1. c.op \notin FolderOps
    BY <1>2, <1>4
  <2>2. QED
    BY <1>1, <1>4, <2>1, Zenon DEF IsCall
<1>5. ASSUME NEW i, i = Only(i.dst) PROVE i.src = i.dst
  BY <1>5 DEF Only
<1>6. QED
  BY <1>3, <1>4, <1>5

\* A request at its items or at a source serves a call of a client.
LEMMA ServedCall ==
    ASSUME Inv, NEW r \in Requests, pc[r] # "idle"
    PROVE  call[r] \in Calls /\ call[r].op \in BatchOps \cup FolderOps
<1>1. call[r] \in Calls
  BY DEF Inv, Assigned
<1>2. QED
  BY <1>1, CallFacts

LEMMA StartKeeps ==
    ASSUME Inv, NEW r \in Requests, Start(r)
    PROVE  Inv'
<1>1. PICK c \in Calls :
        /\ call' = [call EXCEPT ![r] = c]
        /\ \/ /\ c.op \in BatchOps
              /\ todo' = [todo EXCEPT ![r] = c.items]
              /\ pc' = [pc EXCEPT ![r] = "items"]
           \/ /\ c.op \in FolderOps
              /\ pc' = [pc EXCEPT ![r] = "find"]
              /\ UNCHANGED todo
  BY DEF Start, Goto
<1>2. /\ pc[r] = "idle"
      /\ moving' = moving /\ bucket' = bucket /\ uploaded' = uploaded
      /\ spent' = spent /\ raced' = raced
  BY DEF Start, Untouched
<1>3. Shape /\ BucketOK /\ Assigned(r)
  BY DEF Inv
<1>4. Frame(r)
  BY <1>1, <1>2, <1>3 DEF Frame, Shape, Labels
<1>5. Gentle(r) /\ BucketOK'
  BY <1>2, <1>3, UntouchedKeeps DEF Gentle
<1>6. Copied(r)'
  BY <1>1, <1>3 DEF Copied, Shape
<1>7. Assigned(r)'
  <2>1. pc'[r] \in {"items", "find"} /\ call'[r] = c
    BY <1>1, <1>3 DEF Shape
  <2>2. CASE c.op \in BatchOps /\ todo' = [todo EXCEPT ![r] = c.items]
             /\ pc' = [pc EXCEPT ![r] = "items"]
    <3>1. todo'[r] = c.items /\ pc'[r] = "items"
      BY <2>2, <1>3 DEF Shape
    <3>2. c.op \notin FolderOps
      BY <2>2 DEF BatchOps, FolderOps
    <3>3. QED
      BY <2>1, <2>2, <3>1, <3>2, CallFacts DEF Assigned
  <2>3. CASE c.op \in FolderOps /\ pc' = [pc EXCEPT ![r] = "find"] /\ UNCHANGED todo
    <3>1. todo'[r] = {} /\ pc'[r] = "find"
      BY <2>3, <1>2, <1>3 DEF Shape, Assigned
    <3>2. QED
      BY <2>1, <2>3, <3>1 DEF Assigned
  <2>4. QED
    BY <1>1, <2>2, <2>3
<1>8. QED
  BY <1>4, <1>5, <1>6, <1>7, StepKeeps

LEMMA DenyItemKeeps ==
    ASSUME Inv, NEW r \in Requests, DenyItem(r)
    PROVE  Inv'
<1>1. PICK i \in todo[r] :
        /\ todo' = [todo EXCEPT ![r] = @ \ {i}]
        /\ pc' = [pc EXCEPT ![r] = "items"]
  BY DEF DenyItem, Done, Goto
<1>2. /\ pc[r] = "items"
      /\ call' = call /\ moving' = moving /\ bucket' = bucket
      /\ uploaded' = uploaded /\ spent' = spent /\ raced' = raced
  BY DEF DenyItem, Untouched, request
<1>3. Shape /\ BucketOK /\ Assigned(r)
  BY DEF Inv
<1>4. Frame(r)
  BY <1>1, <1>2, <1>3 DEF Frame, Shape, Labels
<1>5. Gentle(r) /\ BucketOK'
  BY <1>2, <1>3, UntouchedKeeps DEF Gentle
<1>6. /\ pc'[r] = "items" /\ call'[r] = call[r] /\ moving'[r] = moving[r]
      /\ todo'[r] \subseteq todo[r]
  BY <1>1, <1>2, <1>3 DEF Shape
<1>7. Assigned(r)' /\ Copied(r)'
  BY <1>2, <1>3, <1>6 DEF Assigned, Copied, Owned
<1>8. QED
  BY <1>4, <1>5, <1>7, StepKeeps

\* An item the prefix check lets pass is of the user.
LEMMA PermittedOwned ==
    ASSUME Inv, NEW r \in Requests, pc[r] = "items", NEW i \in todo[r],
           Permitted(call[r], i), call[r].op \in {"copy", "move", "rename"}
    PROVE  IsItem(i) /\ Owned(r, i)
<1>1. /\ IsItem(i)
      /\ call[r].op \in FolderOps => Owned(r, i)
  BY DEF Inv, Assigned
<1>2. call[r].user \in Users
  BY ServedCall, CallFacts
<1>3. CASE call[r].op = "rename"
  BY <1>1, <1>3 DEF FolderOps
<1>4. CASE call[r].op # "rename"
  <2>. DEFINE u == call[r].user
  <2>1. Under(<<u>>, i.src) /\ Under(<<u>>, i.dst)
    BY <1>4 DEF Permitted
  <2>2. IsKey(i.src) /\ IsKey(i.dst)
    BY <1>1 DEF IsItem
  <2>. HIDE DEF u
  <2>3. u \in Segments
    BY <1>2 DEF u, Segments
  <2>4. <<u>> \in Seq(Segments) /\ Len(<<u>>) > 0 /\ <<u>>[1] = u
    BY <2>3
  <2>5. Owner(i.src) = u /\ Owner(i.dst) = u
    BY <2>1, <2>2, <2>4, UnderOwner
  <2>6. QED
    BY <1>1, <2>5 DEF Owned, u
<1>5. QED
  BY <1>3, <1>4

\* Dropping an item keeps what a request works on.
LEMMA ItemDone ==
    ASSUME Inv, NEW r \in Requests, pc[r] = "items",
           call' = call, pc'[r] = "items", todo'[r] \subseteq todo[r]
    PROVE  Assigned(r)' /\ Copied(r)'
<1>1. Assigned(r) /\ call'[r] = call[r]
  BY DEF Inv
<1>2. QED
  BY <1>1 DEF Assigned, Copied, Owned

LEMMA PutItemKeeps ==
    ASSUME Inv, NEW r \in Requests, PutItem(r)
    PROVE  Inv'
<1>1. PICK i \in todo[r] :
        /\ todo' = [todo EXCEPT ![r] = @ \ {i}]
        /\ pc' = [pc EXCEPT ![r] = "items"]
        /\ \/ \E c \in IF call[r].op = "mkdir" THEN {""} ELSE Contents \ uploaded :
                /\ bucket' = PutObject(bucket, i.dst, c)
                /\ uploaded' = uploaded \cup {c}
                /\ Spend(r, i.dst)
           \/ Untouched
  BY DEF PutItem, Done, Goto
<1>2. /\ pc[r] = "items"
      /\ call' = call /\ moving' = moving
  BY DEF PutItem, request
<1>3. Shape /\ BucketOK /\ Assigned(r)
  BY DEF Inv
<1>4. IsKey(i.dst)
  BY <1>3 DEF Assigned, IsItem
<1>5. pc'[r] = "items" /\ todo'[r] \subseteq todo[r]
  BY <1>1, <1>3 DEF Shape
<1>6. Gentle(r) /\ BucketOK' /\ raced' \subseteq Requests
  <2>1. CASE Untouched
    BY <1>3, <2>1, UntouchedKeeps DEF Untouched, Gentle, Shape
  <2>2. CASE ~Untouched
    <3>1. PICK c \in Contents \cup {""} :
            /\ bucket' = PutObject(bucket, i.dst, c)
            /\ uploaded' = uploaded \cup {c}
            /\ Spend(r, i.dst)
      BY <1>1, <2>2, Zenon
    <3>2. BucketOK'
      BY <1>3, <1>4, <3>1, PutKeeps
    <3>3. Touch(r, i.dst)
      BY <3>1 DEF Spend
    <3>4. Gentle(r)
      BY <3>1, <3>3, PutChanges DEF Gentle
    <3>5. QED
      BY <1>3, <3>2, <3>3, <3>4 DEF Touch, Shape
  <2>3. QED
    BY <2>1, <2>2
<1>7. Frame(r)
  BY <1>1, <1>2, <1>3, <1>6 DEF Frame, Shape, Labels
<1>8. QED
  BY <1>2, <1>5, <1>6, <1>7, ItemDone, StepKeeps

LEMMA RemoveItemKeeps ==
    ASSUME Inv, NEW r \in Requests, RemoveItem(r)
    PROVE  Inv'
<1>1. PICK i \in todo[r] :
        /\ todo' = [todo EXCEPT ![r] = @ \ {i}]
        /\ pc' = [pc EXCEPT ![r] = "items"]
        /\ \/ /\ bucket' = RemoveObject(bucket, i.src)
              /\ Spend(r, i.src)
              /\ UNCHANGED uploaded
           \/ Untouched
  BY DEF RemoveItem, Done, Goto
<1>2. /\ pc[r] = "items"
      /\ call' = call /\ moving' = moving
  BY DEF RemoveItem, request
<1>3. Shape /\ BucketOK /\ Assigned(r)
  BY DEF Inv
<1>4. pc'[r] = "items" /\ todo'[r] \subseteq todo[r]
  BY <1>1, <1>3 DEF Shape
<1>5. Gentle(r) /\ BucketOK' /\ raced' \subseteq Requests
  <2>1. CASE Untouched
    BY <1>3, <2>1, UntouchedKeeps DEF Untouched, Gentle, Shape
  <2>2. CASE ~Untouched
    <3>1. /\ bucket' = RemoveObject(bucket, i.src)
          /\ Spend(r, i.src)
          /\ uploaded' = uploaded
      BY <1>1, <2>2
    <3>2. BucketOK'
      BY <1>3, <3>1, RemoveKeeps
    <3>3. Touch(r, i.src)
      BY <3>1 DEF Spend
    <3>4. Gentle(r)
      BY <3>1, <3>3, RemoveChanges DEF Gentle
    <3>5. QED
      BY <1>3, <3>2, <3>3, <3>4 DEF Touch, Shape
  <2>3. QED
    BY <2>1, <2>2
<1>6. Frame(r)
  BY <1>1, <1>2, <1>3, <1>5 DEF Frame, Shape, Labels
<1>7. QED
  BY <1>2, <1>4, <1>5, <1>6, ItemDone, StepKeeps

\* A copy keeps what is true of the bucket, and leaves the content in both places.
LEMMA MakeCopyKeeps ==
    ASSUME Inv, NEW r \in Requests, NEW i, IsItem(i), MakeCopy(r, i)
    PROVE  /\ BucketOK' /\ Gentle(r) /\ raced' \subseteq Requests
           /\ i.src # i.dst /\ i.dst \in DOMAIN bucket'
           /\ bucket'[i.src] = bucket'[i.dst]
<1>1. /\ i.src \in DOMAIN bucket /\ i.src # i.dst
      /\ bucket' = PutObject(bucket, i.dst, bucket[i.src])
      /\ Spend(r, i.dst) /\ uploaded' = uploaded
  BY DEF MakeCopy, CanCopy
<1>2. Shape /\ BucketOK
  BY DEF Inv
<1>3. bucket[i.src] \in uploaded
  BY <1>1, <1>2 DEF BucketOK, Held
<1>4. bucket[i.src] \in Contents \cup {""}
  BY <1>2, <1>3, Zenon DEF BucketOK
<1>5. uploaded' = uploaded \cup {bucket[i.src]}
  BY <1>1, <1>3
<1>6. BucketOK'
  BY <1>1, <1>2, <1>4, <1>5, PutKeeps DEF IsItem
<1>7. /\ ChangesOnly(i.dst)
      /\ DOMAIN bucket' = DOMAIN bucket \cup {i.dst}
      /\ bucket'[i.dst] = bucket[i.src]
  BY <1>1, PutChanges
<1>8. Touch(r, i.dst)
  BY <1>1 DEF Spend
<1>9. Gentle(r) /\ raced' \subseteq Requests
  BY <1>2, <1>7, <1>8 DEF Gentle, Touch, Shape
<1>10. bucket'[i.src] = bucket[i.src]
  BY <1>1, <1>7 DEF ChangesOnly
<1>11. QED
  BY <1>1, <1>6, <1>7, <1>9, <1>10

LEMMA CopyItemKeeps ==
    ASSUME Inv, NEW r \in Requests, CopyItem(r)
    PROVE  Inv'
<1>1. PICK i \in todo[r] :
        /\ Permitted(call[r], i)
        /\ \/ /\ MakeCopy(r, i)
              /\ todo' = [todo EXCEPT ![r] = @ \ {i}]
              /\ pc' = [pc EXCEPT ![r] = "source"]
              /\ moving' = [moving EXCEPT ![r] = i]
           \/ /\ MakeCopy(r, i) \/ Untouched
              /\ IF call[r].op = "rename"
                   THEN todo' = [todo EXCEPT ![r] = {}] /\ UNCHANGED pc
                   ELSE /\ todo' = [todo EXCEPT ![r] = @ \ {i}]
                        /\ pc' = [pc EXCEPT ![r] = "items"]
              /\ UNCHANGED moving
  BY DEF CopyItem, Done, Goto
<1>2. /\ pc[r] = "items" /\ call' = call
      /\ call[r].op \in {"copy", "move", "rename"}
  BY DEF CopyItem
<1>3. Shape /\ BucketOK /\ Assigned(r)
  BY DEF Inv
<1>4. IsItem(i) /\ Owned(r, i)
  BY <1>1, <1>2, PermittedOwned
<1>5. Gentle(r) /\ BucketOK' /\ raced' \subseteq Requests
  <2>1. CASE Untouched
    BY <1>3, <2>1, UntouchedKeeps DEF Untouched, Gentle, Shape
  <2>2. CASE MakeCopy(r, i)
    BY <1>4, <2>2, MakeCopyKeeps
  <2>3. QED
    BY <1>1, <2>1, <2>2
<1>6. Frame(r)
  BY <1>1, <1>2, <1>3, <1>5 DEF Frame, Shape, Labels
<1>7. Assigned(r)' /\ Copied(r)'
  <2>1. CASE /\ MakeCopy(r, i)
             /\ todo' = [todo EXCEPT ![r] = @ \ {i}]
             /\ pc' = [pc EXCEPT ![r] = "source"]
             /\ moving' = [moving EXCEPT ![r] = i]
    <3>1. /\ pc'[r] = "source" /\ moving'[r] = i
          /\ todo'[r] \subseteq todo[r] /\ call'[r] = call[r]
      BY <1>2, <1>3, <2>1 DEF Shape
    <3>2. Assigned(r)'
      BY <1>2, <1>3, <1>4, <3>1 DEF Assigned, Owned
    <3>3. Copied(r)'
      BY <1>4, <2>1, <3>1, MakeCopyKeeps DEF Copied
    <3>4. QED
      BY <3>2, <3>3
  <2>2. CASE IF call[r].op = "rename"
               THEN todo' = [todo EXCEPT ![r] = {}] /\ UNCHANGED pc
               ELSE /\ todo' = [todo EXCEPT ![r] = @ \ {i}]
                    /\ pc' = [pc EXCEPT ![r] = "items"]
    <3>1. pc'[r] = "items" /\ todo'[r] \subseteq todo[r]
      BY <1>2, <1>3, <2>2 DEF Shape
    <3>2. QED
      BY <1>2, <3>1, ItemDone
  <2>3. QED
    BY <1>1, <2>1, <2>2
<1>8. QED
  BY <1>5, <1>6, <1>7, StepKeeps

LEMMA RemoveSourceKeeps ==
    ASSUME Inv, NEW r \in Requests, RemoveSource(r)
    PROVE  Inv'
<1>. DEFINE src == moving[r].src
            dst == moving[r].dst
<1>1. /\ pc[r] = "source" /\ pc' = [pc EXCEPT ![r] = "items"]
      /\ moving' = [moving EXCEPT ![r] = NoItem]
      /\ call' = call /\ todo' = todo
  BY DEF RemoveSource, Goto
<1>2. Shape /\ BucketOK /\ Assigned(r) /\ Copied(r)
  BY DEF Inv
<1>3. Gentle(r) /\ BucketOK' /\ raced' \subseteq Requests
  <2>1. CASE Untouched
    BY <1>2, <2>1, UntouchedKeeps DEF Untouched, Gentle, Shape
  <2>2. CASE ~Untouched
    <3>1. /\ bucket' = RemoveObject(bucket, src) /\ Touch(r, src)
          /\ spent' = IF r \in raced /\ src \in DOMAIN bucket
                        THEN spent \cup ({bucket[src]} \ Held(bucket')) ELSE spent
          /\ uploaded' = uploaded
      BY <2>2 DEF RemoveSource
    <3>2. ChangesOnly(src) /\ DOMAIN bucket' = DOMAIN bucket \ {src}
      BY <3>1, RemoveChanges
    <3>3. Gentle(r) /\ raced' \subseteq Requests
      BY <1>2, <3>1, <3>2 DEF Gentle, Touch, Shape
    <3>4. CASE r \in raced \/ src \notin DOMAIN bucket
      <4>1. Spend(r, src)
        BY <3>1, <3>4 DEF Spend
      <4>2. QED
        BY <1>2, <3>1, <3>3, <4>1, RemoveKeeps
    <3>5. CASE r \notin raced /\ src \in DOMAIN bucket
      <4>1. /\ spent' = spent
            /\ src # dst /\ dst \in DOMAIN bucket /\ bucket[src] = bucket[dst]
        BY <1>1, <1>2, <3>1, <3>5 DEF Copied
      <4>2. bucket[src] \in Held(bucket')
        BY <3>2, <4>1 DEF ChangesOnly, Held
      <4>3. spent' = spent \cup ({bucket[src]} \ Held(bucket'))
        BY <4>1, <4>2
      <4>4. Spend(r, src)
        BY <3>1, <3>5, <4>3 DEF Spend
      <4>5. QED
        BY <1>2, <3>1, <3>3, <4>4, RemoveKeeps
    <3>6. QED
      BY <3>4, <3>5
  <2>3. QED
    BY <2>1, <2>2
<1>4. Frame(r)
  BY <1>1, <1>2, <1>3 DEF Frame, Shape, Labels
<1>5. Assigned(r)' /\ Copied(r)'
  BY <1>1, <1>2 DEF Assigned, Copied, Owned, Shape
<1>6. QED
  BY <1>3, <1>4, <1>5, StepKeeps

LEMMA FindFolderKeeps ==
    ASSUME Inv, NEW r \in Requests, FindFolder(r)
    PROVE  Inv'
<1>1. /\ pc[r] = "find"
      /\ pc' = [pc EXCEPT ![r] = "list"] \/ pc' = [pc EXCEPT ![r] = "items"]
      /\ call' = call /\ todo' = todo /\ moving' = moving /\ bucket' = bucket
      /\ uploaded' = uploaded /\ spent' = spent /\ raced' = raced
  BY DEF FindFolder, Goto, Untouched
<1>2. Shape /\ BucketOK /\ Assigned(r)
  BY DEF Inv
<1>3. Frame(r)
  BY <1>1, <1>2 DEF Frame, Shape, Labels
<1>4. Gentle(r) /\ BucketOK'
  BY <1>1, <1>2, UntouchedKeeps DEF Gentle
<1>5. pc'[r] \in {"list", "items"}
  BY <1>1, <1>2 DEF Shape
<1>6. Assigned(r)' /\ Copied(r)'
  BY <1>1, <1>2, <1>5 DEF Assigned, Copied, Owned
<1>7. QED
  BY <1>3, <1>4, <1>6, StepKeeps

\* What a rename lists moves from a folder of the user to another of his.
LEMMA RenameItems ==
    ASSUME Inv, NEW c \in Calls, c.op = "rename",
           NEW k \in ListObjects(bucket, OldPath(c), TRUE),
           NEW i, i = Renamed(c, k)
    PROVE  IsItem(i) /\ Owner(i.src) = c.user /\ Owner(i.dst) = c.user
<1>1. /\ OldPath(c) \in Seq(Segments) /\ Len(OldPath(c)) > 0
      /\ OldPath(c)[1] = c.user
      /\ NewPath(c) \in Seq(Segments) /\ Len(NewPath(c)) > 1
      /\ NewPath(c)[1] = c.user
  BY RenamePaths
<1>2. c.user \in Users
  BY CallFacts
<1>3. k \in DOMAIN bucket /\ Under(OldPath(c), k)
  BY DEF ListObjects
<1>4. IsKey(k)
  BY <1>3 DEF Inv, BucketOK
<1>5. Owner(k) = c.user /\ Len(OldPath(c)) < Len(k)
  BY <1>1, <1>3, <1>4, UnderOwner
<1>6. /\ IsKey(Rebase(k, OldPath(c), NewPath(c)))
      /\ Owner(Rebase(k, OldPath(c), NewPath(c))) = c.user
  BY <1>1, <1>2, <1>4, <1>5, RebaseIsKey
<1>7. QED
  BY <1>4, <1>5, <1>6 DEF IsItem, Renamed

LEMMA ListFolderKeeps ==
    ASSUME Inv, NEW r \in Requests, ListFolder(r)
    PROVE  Inv'
<1>. DEFINE c == call[r]
<1>1. /\ pc[r] = "list" /\ pc' = [pc EXCEPT ![r] = "items"]
      /\ call' = call /\ moving' = moving /\ bucket' = bucket
      /\ uploaded' = uploaded /\ spent' = spent /\ raced' = raced
  BY DEF ListFolder, Goto, Untouched, request
<1>2. Shape /\ BucketOK /\ Assigned(r)
  BY DEF Inv
<1>3. c \in Calls /\ c.op \in FolderOps /\ todo[r] = {}
  BY <1>1, <1>2 DEF Assigned
<1>4. DOMAIN todo' = Requests /\ \A q \in Requests \ {r} : todo'[q] = todo[q]
  BY <1>2 DEF ListFolder, Shape
<1>5. ASSUME NEW i \in todo'[r]
      PROVE  IsItem(i) /\ Owner(i.src) = c.user /\ Owner(i.dst) = c.user
  <2>1. CASE /\ c.op = "rename"
             /\ todo' = [todo EXCEPT ![r] =
                   {Renamed(c, k) : k \in ListObjects(bucket, OldPath(c), TRUE)}]
    <3>1. PICK k \in ListObjects(bucket, OldPath(c), TRUE) : i = Renamed(c, k)
      BY <1>2, <1>5, <2>1 DEF Shape
    <3>2. QED
      BY <1>3, <2>1, <3>1, RenameItems
  <2>2. CASE /\ c.op = "rmdir"
             /\ todo' = [todo EXCEPT ![r] =
                   {Only(k) : k \in ListObjects(bucket, c.folder, c.recursive)}]
    <3>1. PICK k \in ListObjects(bucket, c.folder, c.recursive) : i = Only(k)
      BY <1>2, <1>5, <2>2 DEF Shape
    <3>2. /\ c.folder \in Seq(Segments) /\ Len(c.folder) > 0
          /\ c.folder[1] = c.user
      BY <1>3, FolderFacts
    <3>3. IsKey(k) /\ Owner(k) = c.user
      BY <1>2, <3>1, <3>2, ListedKeys DEF BucketOK
    <3>4. QED
      BY <3>1, <3>3 DEF Only, IsItem
  <2>3. CASE todo' = todo
    BY <1>3, <1>5, <2>3
  <2>4. QED
    BY <2>1, <2>2, <2>3 DEF ListFolder
<1>6. Frame(r)
  BY <1>1, <1>2, <1>4 DEF Frame, Shape, Labels
<1>7. Gentle(r) /\ BucketOK'
  BY <1>1, <1>2, UntouchedKeeps DEF Gentle
<1>8. pc'[r] = "items" /\ call'[r] = c
  BY <1>1, <1>2 DEF Shape
<1>9. c.op \notin BatchOps
  BY <1>3 DEF BatchOps, FolderOps
<1>10. Assigned(r)' /\ Copied(r)'
  BY <1>3, <1>5, <1>8, <1>9 DEF Assigned, Copied, Owned
<1>11. QED
  BY <1>6, <1>7, <1>10, StepKeeps

LEMMA FinishKeeps ==
    ASSUME Inv, NEW r \in Requests, Finish(r)
    PROVE  Inv'
<1>1. /\ pc[r] = "items" /\ todo[r] = {} /\ pc' = [pc EXCEPT ![r] = "idle"]
      /\ call' = [call EXCEPT ![r] = NoCall] /\ raced' = raced \ {r}
      /\ todo' = todo /\ moving' = moving /\ bucket' = bucket
      /\ uploaded' = uploaded /\ spent' = spent
  BY DEF Finish, Goto
<1>2. Shape /\ BucketOK /\ Assigned(r)
  BY DEF Inv
<1>3. Frame(r)
  BY <1>1, <1>2 DEF Frame, Shape, Labels
<1>4. Gentle(r) /\ BucketOK'
  BY <1>1, <1>2, UntouchedKeeps DEF Gentle
<1>5. pc'[r] = "idle" /\ todo'[r] = {}
  BY <1>1, <1>2 DEF Shape
<1>6. Assigned(r)' /\ Copied(r)'
  BY <1>5 DEF Assigned, Copied
<1>7. QED
  BY <1>3, <1>4, <1>6, StepKeeps

LEMMA RestartKeeps ==
    ASSUME Inv, Restart
    PROVE  Inv'
<1>1. /\ pc' = [r \in Requests |-> "idle"] /\ call' = [r \in Requests |-> NoCall]
      /\ todo' = [r \in Requests |-> {}] /\ moving' = [r \in Requests |-> NoItem]
      /\ raced' = {} /\ bucket' = bucket /\ uploaded' = uploaded /\ spent' = spent
  BY DEF Restart
<1>2. Shape'
  BY <1>1 DEF Shape, Labels
<1>3. BucketOK'
  BY <1>1, UntouchedKeeps DEF Inv
<1>4. ASSUME NEW r \in Requests PROVE Assigned(r)' /\ Copied(r)'
  BY <1>1 DEF Assigned, Copied
<1>5. QED
  BY <1>2, <1>3, <1>4 DEF Inv

-----------------------------------------------------------------------------
(* The theorems.                                                            *)

LEMMA InitInv == Init => Inv
<1>1. SUFFICES ASSUME Init PROVE Inv
  OBVIOUS
<1>2. /\ DOMAIN bucket = {} /\ uploaded = {} /\ spent = {} /\ raced = {}
      /\ pc = [r \in Requests |-> "idle"] /\ call = [r \in Requests |-> NoCall]
      /\ todo = [r \in Requests |-> {}] /\ moving = [r \in Requests |-> NoItem]
  BY <1>1 DEF Init
<1>3. Shape
  BY <1>2 DEF Shape, Labels
<1>4. BucketOK
  BY <1>2 DEF BucketOK, NothingLost, Held
<1>5. ASSUME NEW r \in Requests PROVE Assigned(r) /\ Copied(r)
  BY <1>2 DEF Assigned, Copied
<1>6. QED
  BY <1>3, <1>4, <1>5 DEF Inv

LEMMA NextInv == Inv /\ [Next]_vars => Inv'
<1>1. SUFFICES ASSUME Inv, [Next]_vars PROVE Inv'
  OBVIOUS
<1>2. ASSUME NEW r \in Requests, Start(r) \/ Serve(r) PROVE Inv'
  BY <1>1, <1>2, StartKeeps, DenyItemKeeps, PutItemKeeps, RemoveItemKeeps,
     CopyItemKeeps, RemoveSourceKeeps, FindFolderKeeps, ListFolderKeeps,
     FinishKeeps DEF Serve
<1>3. CASE Restart
  BY <1>1, <1>3, RestartKeeps
<1>4. CASE UNCHANGED vars
  <2>1. BucketOK'
    BY <1>1, <1>4, UntouchedKeeps DEF Inv, vars
  <2>2. Shape'
    BY <1>1, <1>4 DEF Inv, Shape, vars
  <2>3. ASSUME NEW r \in Requests PROVE Assigned(r)' /\ Copied(r)'
    BY <1>1, <1>4 DEF Inv, Assigned, Copied, Owned, vars
  <2>4. QED
    BY <2>1, <2>2, <2>3 DEF Inv
<1>5. QED
  BY <1>1, <1>2, <1>3, <1>4 DEF Next

THEOREM Invariance == Spec => []Inv
  BY InitInv, NextInv, PTL DEF Spec

\* Every variable of the file service keeps its type: whatever it writes,
\* copies or removes is at a key that starts with the name of a user.
THEOREM TypeCorrect == Spec => []TypeOK
  BY Invariance, InvIsType, PTL

\* A content leaves the bucket only when a request deletes it or writes over
\* it, wherever a move or a rename fails or is cut short.
THEOREM NothingIsLost == Spec => []NothingLost
<1>1. Inv => NothingLost
  BY DEF Inv, BucketOK
<1>2. QED
  BY <1>1, Invariance, PTL

-----------------------------------------------------------------------------
(* Whose objects a step changes.                                            *)

LEMMA OnlyOne ==
    ASSUME NEW key, ChangesOnly(key), NEW k \in Changed
    PROVE  k = key
  BY DEF ChangesOnly, Changed

LEMMA NoneChanged ==
    ASSUME bucket' = bucket
    PROVE  Changed = {}
  BY DEF Changed

\* A request at work on an item of its user may change the objects of it.
LEMMA ByOwner ==
    ASSUME NEW r \in Requests, pc[r] \in {"items", "source"},
           NEW key, ChangesOnly(key), Owner(key) = call[r].user
    PROVE  \A k \in Changed : ByItsUser(k)
  BY OnlyOne DEF ByItsUser

LEMMA PutItemOwn ==
    ASSUME Inv, NEW r \in Requests, PutItem(r)
    PROVE  \A k \in Changed : ByItsUser(k)
<1>1. PICK i \in todo[r] :
        \/ \E c \in IF call[r].op = "mkdir" THEN {""} ELSE Contents \ uploaded :
              bucket' = PutObject(bucket, i.dst, c)
        \/ bucket' = bucket
  BY DEF PutItem, Untouched
<1>2. pc[r] = "items" /\ call[r].op \in {"upload", "mkdir"}
  BY DEF PutItem
<1>3. CASE bucket' = bucket
  BY <1>3, NoneChanged
<1>4. CASE call[r].op = "mkdir" /\ bucket' # bucket
  <2>1. PICK c : c = "" /\ bucket' = PutObject(bucket, i.dst, c)
    BY <1>1, <1>4
  <2>2. /\ ChangesOnly(i.dst)
        /\ i.dst \in DOMAIN bucket'
        /\ bucket'[i.dst] = c
    <3>1. bucket' = PutObject(bucket, i.dst, c)
      BY <2>1
    <3>2. ChangesOnly(i.dst)
      BY <3>1, PutChanges
    <3>3. DOMAIN bucket' = DOMAIN bucket \cup {i.dst} /\ bucket'[i.dst] = c
      BY <3>1 DEF PutObject
    <3>4. QED
      BY <3>2, <3>3
  <2>3. ASSUME NEW k \in Changed PROVE k \in DOMAIN bucket' /\ bucket'[k] = c
    BY <2>2, <2>3, OnlyOne
  <2>4. QED
    BY <1>2, <1>4, <2>1, <2>3 DEF ByItsUser
<1>5. CASE call[r].op = "upload" /\ bucket' # bucket
  <2>1. Owner(i.dst) = call[r].user
    <3>1. "upload" \in BatchOps
      BY DEF BatchOps
    <3>2. i \in call[r].items
      BY <1>2, <1>5, <3>1 DEF Inv, Assigned
    <3>3. QED
      BY <1>2, <1>5, <3>1, <3>2, ServedCall, CallFacts
  <2>2. ChangesOnly(i.dst)
    BY <1>1, <1>5, PutChanges
  <2>3. QED
    BY <1>2, <2>1, <2>2, ByOwner
<1>6. QED
  BY <1>2, <1>3, <1>4, <1>5

LEMMA RemoveItemOwn ==
    ASSUME Inv, NEW r \in Requests, RemoveItem(r)
    PROVE  \A k \in Changed : ByItsUser(k)
<1>1. PICK i \in todo[r] :
        /\ Permitted(call[r], i)
        /\ bucket' = RemoveObject(bucket, i.src) \/ bucket' = bucket
  BY DEF RemoveItem, Untouched
<1>2. pc[r] = "items" /\ call[r].op \in {"delete", "rmdir"}
  BY DEF RemoveItem
<1>3. IsItem(i) /\ (call[r].op \in FolderOps => Owned(r, i))
  BY DEF Inv, Assigned
<1>4. Owner(i.src) = call[r].user
  <2>1. CASE call[r].op = "rmdir"
    BY <1>3, <2>1 DEF FolderOps, Owned
  <2>2. CASE call[r].op = "delete"
    <3>. DEFINE u == call[r].user
    <3>1. Under(<<u>>, i.src) /\ IsKey(i.src)
      BY <1>1, <1>3, <2>2 DEF Permitted, IsItem
    <3>2. u \in Users
      BY <1>2, ServedCall, CallFacts
    <3>. HIDE DEF u
    <3>3. u \in Segments
      BY <3>2 DEF Segments
    <3>4. <<u>> \in Seq(Segments) /\ Len(<<u>>) > 0 /\ <<u>>[1] = u
      BY <3>3
    <3>5. Owner(i.src) = u
      BY <3>1, <3>4, UnderOwner
    <3>6. QED
      BY <3>5 DEF u
  <2>3. QED
    BY <1>2, <2>1, <2>2
<1>5. CASE bucket' = bucket
  BY <1>5, NoneChanged
<1>6. CASE bucket' = RemoveObject(bucket, i.src)
  BY <1>2, <1>4, <1>6, RemoveChanges, ByOwner
<1>7. QED
  BY <1>1, <1>5, <1>6

LEMMA CopyItemOwn ==
    ASSUME Inv, NEW r \in Requests, CopyItem(r)
    PROVE  \A k \in Changed : ByItsUser(k)
<1>1. PICK i \in todo[r] :
        Permitted(call[r], i) /\ (MakeCopy(r, i) \/ bucket' = bucket)
  BY DEF CopyItem, Untouched
<1>2. pc[r] = "items" /\ call[r].op \in {"copy", "move", "rename"}
  BY DEF CopyItem
<1>3. Owner(i.dst) = call[r].user
  BY <1>1, <1>2, PermittedOwned DEF Owned
<1>4. CASE bucket' = bucket
  BY <1>4, NoneChanged
<1>5. CASE MakeCopy(r, i)
  <2>1. ChangesOnly(i.dst)
    BY <1>5, PutChanges DEF MakeCopy
  <2>2. QED
    BY <1>2, <1>3, <2>1, ByOwner
<1>6. QED
  BY <1>1, <1>4, <1>5

LEMMA RemoveSourceOwn ==
    ASSUME Inv, NEW r \in Requests, RemoveSource(r)
    PROVE  \A k \in Changed : ByItsUser(k)
<1>1. /\ pc[r] = "source"
      /\ bucket' = RemoveObject(bucket, moving[r].src) \/ bucket' = bucket
  BY DEF RemoveSource, Untouched
<1>2. Owner(moving[r].src) = call[r].user
  BY <1>1 DEF Inv, Assigned, Owned
<1>3. CASE bucket' = bucket
  BY <1>3, NoneChanged
<1>4. CASE bucket' = RemoveObject(bucket, moving[r].src)
  BY <1>1, <1>2, <1>4, RemoveChanges, ByOwner
<1>5. QED
  BY <1>1, <1>3, <1>4

LEMMA NextOwn == Inv /\ [Next]_vars => [\A k \in Changed : ByItsUser(k)]_vars
<1>1. SUFFICES ASSUME Inv, [Next]_vars PROVE \A k \in Changed : ByItsUser(k)
  OBVIOUS
<1>2. ASSUME NEW r \in Requests, Start(r) \/ Serve(r)
      PROVE  \A k \in Changed : ByItsUser(k)
  <2>1. \/ PutItem(r) \/ RemoveItem(r) \/ CopyItem(r) \/ RemoveSource(r)
        \/ bucket' = bucket
    BY <1>2 DEF Serve, Start, DenyItem, FindFolder, ListFolder, Finish, Untouched
  <2>2. QED
    BY <1>1, <2>1, PutItemOwn, RemoveItemOwn, CopyItemOwn, RemoveSourceOwn, NoneChanged
<1>3. CASE Restart \/ UNCHANGED vars
  BY <1>3, NoneChanged DEF Restart, vars
<1>4. QED
  BY <1>1, <1>2, <1>3 DEF Next

\* Requests change the objects of their own user only; CreateFolder alone may
\* put an empty marker elsewhere.
THEOREM OnlyOwnObjects == Spec => OwnObjectsOnly
<1>1. Spec => [][\A k \in Changed : ByItsUser(k)]_vars
  BY Invariance, NextOwn, PTL DEF Spec
<1>2. QED
  BY <1>1 DEF OwnObjectsOnly

-----------------------------------------------------------------------------
(* Every step of a request brings it closer to its end.                     *)

\* The bucket and what a request works on are finite.
Finite ==
    /\ IsFiniteSet(DOMAIN bucket)
    /\ \A r \in Requests : IsFiniteSet(todo[r])

LEMMA ImageFinite ==
    ASSUME NEW f, IsFiniteSet(DOMAIN f)
    PROVE  IsFiniteSet({f[x] : x \in DOMAIN f})
<1> DEFINE T == {f[x] : x \in DOMAIN f}
           g == [x \in DOMAIN f |-> f[x]]
<1>1. g \in Surjection(DOMAIN f, T)
  BY DEF Surjection
<1>2. QED
  BY <1>1, FS_Surjection

\* A listing shows no more entries than the bucket has objects.
LEMMA ListingFinite ==
    ASSUME IsFiniteSet(DOMAIN bucket), NEW folder, NEW recursive
    PROVE  IsFiniteSet(ListObjects(bucket, folder, recursive))
<1> DEFINE below == {k \in DOMAIN bucket : Under(folder, k)}
           entries == [k \in below |-> IF Len(k) > Len(folder) + 1
                         THEN Marker(SubSeq(k, 1, Len(folder) + 1)) ELSE k]
<1>1. IsFiniteSet(below)
  BY FS_Subset
<1>2. IsFiniteSet({entries[k] : k \in DOMAIN entries})
  BY <1>1, ImageFinite
<1>3. {entries[k] : k \in DOMAIN entries} =
        {IF Len(k) > Len(folder) + 1 THEN Marker(SubSeq(k, 1, Len(folder) + 1)) ELSE k
           : k \in below}
  OBVIOUS
<1>4. QED
  BY <1>1, <1>2, <1>3 DEF ListObjects

\* The items a folder operation makes of what it lists.
LEMMA ItemsFinite ==
    ASSUME NEW S, IsFiniteSet(S), NEW c
    PROVE  IsFiniteSet({Only(k) : k \in S}) /\ IsFiniteSet({Renamed(c, k) : k \in S})
<1> DEFINE f == [k \in S |-> Only(k)]
           g == [k \in S |-> Renamed(c, k)]
<1>1. IsFiniteSet({f[k] : k \in DOMAIN f}) /\ IsFiniteSet({g[k] : k \in DOMAIN g})
  BY ImageFinite
<1>2. {f[k] : k \in DOMAIN f} = {Only(k) : k \in S}
      /\ {g[k] : k \in DOMAIN g} = {Renamed(c, k) : k \in S}
  OBVIOUS
<1>3. QED
  BY <1>1, <1>2

LEMMA BatchFinite ==
    ASSUME NEW c \in Calls, c.op \in BatchOps
    PROVE  IsFiniteSet(c.items)
<1>1. IsCall(c) /\ c.op \notin FolderOps
  BY CallAssumptions DEF BatchOps, FolderOps
<1>2. QED
  BY <1>1, Zenon DEF IsCall

\* What a step does to the items: it takes one off, or all, or a request that has
\* none yet gets its own.
LEMMA ItemsShrink ==
    ASSUME NEW r \in Requests, Shape, Finite, NEW i \in todo[r],
           todo' = [todo EXCEPT ![r] = @ \ {i}] \/ todo' = [todo EXCEPT ![r] = {}]
    PROVE  /\ IsFiniteSet(todo'[r])
           /\ Cardinality(todo[r]) \in Nat
           /\ Cardinality(todo'[r]) \in 0 .. Cardinality(todo[r]) - 1
<1>1. IsFiniteSet(todo[r]) /\ Cardinality(todo[r]) \in Nat
  BY FS_CardinalityType DEF Finite
<1>2. /\ IsFiniteSet(todo[r] \ {i}) /\ Cardinality(todo[r] \ {i}) = Cardinality(todo[r]) - 1
      /\ Cardinality(todo[r] \ {i}) \in Nat
  BY <1>1, FS_RemoveElement, FS_CardinalityType
<1>3. IsFiniteSet({}) /\ Cardinality({}) = 0
  BY FS_EmptySet
<1>4. todo'[r] = todo[r] \ {i} \/ todo'[r] = {}
  BY DEF Shape
<1>5. Cardinality(todo[r]) - 1 \in Nat
  BY <1>2
<1>6. CASE todo'[r] = todo[r] \ {i}
  BY <1>1, <1>2, <1>5, <1>6
<1>7. CASE todo'[r] = {}
  BY <1>1, <1>3, <1>5, <1>7
<1>8. QED
  BY <1>4, <1>6, <1>7

\* The steps of request r; those of others are for it as none.
ShrinkStep(r) ==
    /\ Shrinks(r)
    /\ IsFiniteSet(todo'[r])
    /\ \A q \in Requests \ {r} : pc'[q] = pc[q] /\ todo'[q] = todo[q]

LEMMA ItemStepShrinks ==
    ASSUME NEW r \in Requests, Shape, Finite, pc[r] = "items", NEW i \in todo[r],
           \/ todo' = [todo EXCEPT ![r] = @ \ {i}]
           \/ todo' = [todo EXCEPT ![r] = {}],
           \/ pc' = [pc EXCEPT ![r] = "items"]
           \/ pc' = [pc EXCEPT ![r] = "source"]
           \/ pc' = pc
    PROVE  ShrinkStep(r)
<1>1. /\ IsFiniteSet(todo'[r]) /\ Cardinality(todo[r]) \in Nat
      /\ Cardinality(todo'[r]) \in 0 .. Cardinality(todo[r]) - 1
  BY ItemsShrink
<1>2. pc'[r] \in {"items", "source"}
  BY DEF Shape
<1>3. /\ Remaining(r) = 2 * Cardinality(todo[r]) + 1
      /\ Remaining(r)' \in {2 * Cardinality(todo'[r]) + 1, 2 * Cardinality(todo'[r]) + 2}
  BY <1>2 DEF Remaining
<1>4. Remaining(r)' \in 0 .. Remaining(r) - 1
  BY <1>1, <1>3
<1>5. QED
  BY <1>1, <1>2, <1>4 DEF ShrinkStep, Shrinks, Shape

LEMMA ServeShrinks ==
    ASSUME NEW r \in Requests, Shape, Finite, Serve(r)
    PROVE  ShrinkStep(r)
<1>1. CASE DenyItem(r) \/ PutItem(r) \/ RemoveItem(r)
  <2>1. PICK i \in todo[r] : /\ todo' = [todo EXCEPT ![r] = @ \ {i}]
                             /\ pc' = [pc EXCEPT ![r] = "items"]
    BY <1>1 DEF DenyItem, PutItem, RemoveItem, Done, Goto
  <2>2. pc[r] = "items"
    BY <1>1 DEF DenyItem, PutItem, RemoveItem
  <2>3. QED
    BY <2>1, <2>2, ItemStepShrinks
<1>2. CASE CopyItem(r)
  <2>1. PICK i \in todo[r] :
          \/ /\ todo' = [todo EXCEPT ![r] = @ \ {i}]
             /\ pc' = [pc EXCEPT ![r] = "items"] \/ pc' = [pc EXCEPT ![r] = "source"]
          \/ todo' = [todo EXCEPT ![r] = {}] /\ pc' = pc
    BY <1>2 DEF CopyItem, Done, Goto
  <2>2. pc[r] = "items"
    BY <1>2 DEF CopyItem
  <2>3. QED
    BY <2>1, <2>2, ItemStepShrinks
<1>3. CASE RemoveSource(r)
  <2>1. /\ pc[r] = "source" /\ pc' = [pc EXCEPT ![r] = "items"] /\ todo' = todo
    BY <1>3 DEF RemoveSource, Goto
  <2>2. pc'[r] = "items" /\ IsFiniteSet(todo[r]) /\ Cardinality(todo[r]) \in Nat
    BY <2>1, FS_CardinalityType DEF Shape, Finite
  <2>3. /\ Remaining(r) = 2 * Cardinality(todo[r]) + 2
        /\ Remaining(r)' = 2 * Cardinality(todo[r]) + 1
    BY <2>1, <2>2 DEF Remaining
  <2>4. Remaining(r)' \in 0 .. Remaining(r) - 1
    BY <2>2, <2>3
  <2>5. QED
    BY <2>1, <2>2, <2>4 DEF ShrinkStep, Shrinks, Shape
<1>4. CASE FindFolder(r)
  <2>1. /\ pc[r] = "find" /\ todo' = todo
        /\ pc' = [pc EXCEPT ![r] = "list"] \/ pc' = [pc EXCEPT ![r] = "items"]
    BY <1>4 DEF FindFolder, Goto
  <2>2. QED
    BY <2>1 DEF ShrinkStep, Shrinks, Shape, Finite
<1>5. CASE ListFolder(r)
  <2>1. /\ pc[r] = "list" /\ pc' = [pc EXCEPT ![r] = "items"]
    BY <1>5 DEF ListFolder, Goto
  <2>2. PICK S :
          /\ IsFiniteSet(S)
          /\ \/ todo' = [todo EXCEPT ![r] = {Renamed(call[r], k) : k \in S}]
             \/ todo' = [todo EXCEPT ![r] = {Only(k) : k \in S}]
             \/ todo' = todo
    <3>1. CASE todo' = [todo EXCEPT ![r] =
            {Renamed(call[r], k) : k \in ListObjects(bucket, OldPath(call[r]), TRUE)}]
      BY <3>1, ListingFinite DEF Finite
    <3>2. CASE todo' = [todo EXCEPT ![r] =
            {Only(k) : k \in ListObjects(bucket, call[r].folder, call[r].recursive)}]
      BY <3>2, ListingFinite DEF Finite
    <3>3. CASE todo' = todo
      BY <3>3, FS_EmptySet
    <3>4. QED
      BY <1>5, <3>1, <3>2, <3>3 DEF ListFolder
  <2>3. /\ IsFiniteSet(todo'[r])
        /\ \A q \in Requests \ {r} : todo'[q] = todo[q]
    <3>1. todo'[r] \in {todo[r], {Renamed(call[r], k) : k \in S}, {Only(k) : k \in S}}
      BY <2>2 DEF Shape
    <3>2. \A q \in Requests \ {r} : todo'[q] = todo[q]
      BY <2>2 DEF Shape
    <3>3. /\ IsFiniteSet({Renamed(call[r], k) : k \in S})
          /\ IsFiniteSet({Only(k) : k \in S}) /\ IsFiniteSet(todo[r])
      BY <2>2, ItemsFinite DEF Finite
    <3>4. QED
      BY <3>1, <3>2, <3>3
  <2>4. QED
    BY <2>1, <2>3 DEF ShrinkStep, Shrinks, Shape
<1>6. CASE Finish(r)
  <2>1. pc' = [pc EXCEPT ![r] = "idle"] /\ todo' = todo
    BY <1>6 DEF Finish, Goto
  <2>2. QED
    BY <2>1 DEF ShrinkStep, Shrinks, Shape, Finite
<1>7. QED
  BY <1>1, <1>2, <1>3, <1>4, <1>5, <1>6 DEF Serve

LEMMA StartShrinks ==
    ASSUME NEW r \in Requests, Shape, Finite, Start(r)
    PROVE  ShrinkStep(r)
<1>1. PICK c \in Calls : \/ c.op \in BatchOps /\ todo' = [todo EXCEPT ![r] = c.items]
                         \/ todo' = todo
  BY DEF Start
<1>2. IsFiniteSet(todo'[r]) /\ \A q \in Requests \ {r} : todo'[q] = todo[q]
  BY <1>1, BatchFinite DEF Shape, Finite
<1>3. pc[r] = "idle" /\ \A q \in Requests \ {r} : pc'[q] = pc[q]
  BY DEF Start, Goto, Shape
<1>4. QED
  BY <1>2, <1>3 DEF ShrinkStep, Shrinks

\* A step puts at most one object into the bucket.
LEMMA BucketFinite ==
    ASSUME IsFiniteSet(DOMAIN bucket), [Next]_vars
    PROVE  IsFiniteSet(DOMAIN bucket')
<1>1. \/ bucket' = bucket
      \/ \E key, content : bucket' = PutObject(bucket, key, content)
      \/ \E key : bucket' = RemoveObject(bucket, key)
  BY DEF Next, Start, Serve, DenyItem, PutItem, RemoveItem, CopyItem, MakeCopy,
     RemoveSource, FindFolder, ListFolder, Finish, Restart, Untouched, vars
<1>2. ASSUME NEW key, NEW content, bucket' = PutObject(bucket, key, content)
      PROVE  IsFiniteSet(DOMAIN bucket')
  <2>1. DOMAIN bucket' = DOMAIN bucket \cup {key}
    BY <1>2, PutChanges
  <2>2. IsFiniteSet(DOMAIN bucket \cup {key})
    BY FS_AddElement
  <2>3. QED
    BY <2>1, <2>2
<1>3. ASSUME NEW key, bucket' = RemoveObject(bucket, key)
      PROVE  IsFiniteSet(DOMAIN bucket')
  BY <1>3, RemoveChanges, FS_RemoveElement
<1>4. QED
  BY <1>1, <1>2, <1>3

LEMMA NextShrinks ==
    ASSUME Shape, Finite, [Next]_vars
    PROVE  Finite' /\ \A r \in Requests : Shrinks(r)
<1>1. IsFiniteSet(DOMAIN bucket')
  BY BucketFinite DEF Finite
<1>2. ASSUME NEW q \in Requests, ShrinkStep(q)
      PROVE  \A r \in Requests : IsFiniteSet(todo'[r]) /\ Shrinks(r)
  BY <1>2 DEF ShrinkStep, Shrinks, Finite
<1>3. ASSUME Restart PROVE \A r \in Requests : IsFiniteSet(todo'[r]) /\ Shrinks(r)
  BY <1>3, FS_EmptySet DEF Restart, Shrinks
<1>4. ASSUME UNCHANGED vars PROVE \A r \in Requests : IsFiniteSet(todo'[r]) /\ Shrinks(r)
  BY <1>4 DEF vars, Shrinks, Finite
<1>5. \A r \in Requests : IsFiniteSet(todo'[r]) /\ Shrinks(r)
  BY <1>2, <1>3, <1>4, StartShrinks, ServeShrinks DEF Next
<1>6. QED
  BY <1>1, <1>5 DEF Finite

\* A request comes to an end after finitely many of its own steps, and nothing the
\* others do sets it back.
THEOREM RequestsDoShrink == Spec => RequestsShrink
<1>1. Init => Finite
  BY FS_EmptySet DEF Init, Finite
<1>2. Inv => Shape
  BY DEF Inv
<1>3. Shape /\ Finite /\ [Next]_vars => Finite' /\ [\A r \in Requests : Shrinks(r)]_vars
  BY NextShrinks
<1>4. QED
  BY <1>1, <1>2, <1>3, Invariance, PTL DEF Spec, RequestsShrink
=============================================================================
