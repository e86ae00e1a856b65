------------------------- MODULE ShareRegistryProofs -------------------------
(***************************************************************************)
(* ShareService implements ShareRegistry: every step of the service is a   *)
(* step of the registry or changes nothing the registry knows of.          *)
(***************************************************************************)
EXTENDS ShareServiceProofs

\* What a request knows when it is about to write: the record it inserts is
\* the one it asked for; the share it deletes or changes is its caller's; the
\* permissions it stores show the change it was asked to make.
AuthInv ==
    \A r \in Requests :
        /\ pc[r] = "insert" => rec[r] = NewRecord(call[r], since[r])
        /\ pc[r] = "delete" => Stored(row(r)) /\ row(r).info.owner = call[r].user
        /\ pc[r] = "update" => /\ rec[r].info.owner = call[r].user
                               /\ Registry!Reflects(call[r], rec[r].perms)

USE DEF CreateSteps, DeleteSteps, CachedSteps, ChangeSteps, Loaded, Active,
        Written, Answered, share, row, Goto, Continue, Leave, cache, setting,
        store, request, local

LEMMA AuthInit == Init => AuthInv
  BY DEF Init, AuthInv

\* A change of permissions shows in the permissions made.
LEMMA ChangeReflected ==
    ASSUME NEW c \in CachedCall, c.op \in ChangeOps, NEW p \in Permissions
    PROVE  Registry!Reflects(c, NewPermissions(c, p))
<1>1. CASE c.op = "update"
  BY <1>1 DEF NewPermissions, Registry!Reflects
<1>2. CASE c.op = "add"
  BY <1>2 DEF NewPermissions, Registry!Reflects, Permissions
<1>3. CASE c.op = "remove"
  BY <1>3 DEF NewPermissions, Registry!Reflects, Permissions
<1>4. QED
  BY <1>1, <1>2, <1>3 DEF ChangeOps

\* Only the owner is granted a change.
LEMMA ChangeGranted ==
    ASSUME NEW c \in CachedCall, c.op \in ChangeOps, NEW info, Granted(c, info)
    PROVE  c.user = info.owner
  BY DEF Granted, ChangeOps

LEMMA AuthStep == TypeInv /\ AuthInv /\ [Next]_vars => AuthInv'
<1> SUFFICES ASSUME TypeInv, AuthInv, [Next]_vars PROVE AuthInv'
  OBVIOUS
<1> USE DEF TypeInv, TypeOK, Flow
<1> DEFINE AuthOf(r) ==
      /\ pc[r] = "insert" => rec[r] = NewRecord(call[r], since[r])
      /\ pc[r] = "delete" => Stored(row(r)) /\ row(r).info.owner = call[r].user
      /\ pc[r] = "update" => /\ rec[r].info.owner = call[r].user
                             /\ Registry!Reflects(call[r], rec[r].perms)
<1>1. RowsKept
  BY RowsAreKept
<1>2. ASSUME NEW r \in Requests,
             \A q \in Requests \ {r} : /\ pc'[q] = pc[q] /\ call'[q] = call[q]
                                       /\ rec'[q] = rec[q] /\ since'[q] = since[q],
             AuthOf(r)'
      PROVE  AuthInv'
  <2>1. \A q \in Requests : pc[q] = "delete" => share(q) \in ShareIDs
    BY CallShare
  <2>2. QED
    BY <1>1, <1>2, <2>1 DEF AuthInv, RowsKept
<1>3. ASSUME NEW r \in Requests, StartCreate(r) PROVE AuthInv'
  <2>1. PICK c \in CreateCall :
          /\ Arrive(r, c)
          /\ \/ Leave(r, "error")
             \/ /\ Goto(r, "insert")
                /\ rec' = [rec EXCEPT ![r] = NewRecord(c, clock)]
    BY <1>3 DEF StartCreate
  <2>2. /\ \/ pc'[r] = "error"
           \/ pc'[r] = "insert" /\ rec'[r] = NewRecord(c, clock)
        /\ \A q \in Requests \ {r} : pc'[q] = pc[q] /\ rec'[q] = rec[q]
    BY <2>1
  <2>3. QED
    BY <1>2, <2>1, <2>2 DEF Arrive
<1>4. ASSUME NEW r \in Requests, StartDelete(r) \/ StartCached(r) PROVE AuthInv'
  <2>1. /\ \E c \in Call : Arrive(r, c)
        /\ pc'[r] \in {"find", "kvGet", "error"}
        /\ \A q \in Requests \ {r} : pc'[q] = pc[q] /\ rec'[q] = rec[q]
    BY <1>4 DEF StartDelete, StartCached, Arrive, Call
  <2>2. QED
    BY <1>2, <2>1 DEF Arrive
<1>5. ASSUME NEW r \in Requests, FindRow(r) PROVE AuthInv'
  BY <1>2, <1>5 DEF FindRow, Live
<1>6. ASSUME NEW r \in Requests, Use(r) PROVE AuthInv'
  <2>1. /\ UNCHANGED request
        /\ \A q \in Requests \ {r} : pc'[q] = pc[q] /\ rec'[q] = rec[q]
        /\ call[r] \in CachedCall
        /\ rec[r] \in Record
        /\ \/ pc'[r] \in {"ok", "error"}
           \/ /\ pc'[r] = "update"
              /\ call[r].op \in ChangeOps
              /\ Granted(call[r], rec[r].info)
              /\ rec'[r] = [rec[r] EXCEPT !.perms = NewPermissions(call[r], @)]
    BY <1>6 DEF Use
  <2>2. CASE pc'[r] = "update"
    <3>1. rec'[r].info = rec[r].info
          /\ rec'[r].perms = NewPermissions(call[r], rec[r].perms)
      BY <2>1, <2>2 DEF Record
    <3>2. rec[r].perms \in Permissions
      BY <2>1 DEF Record
    <3>3. Registry!Reflects(call[r], rec'[r].perms)
      BY <2>1, <2>2, <3>1, <3>2, ChangeReflected
    <3>4. rec'[r].info.owner = call[r].user
      BY <2>1, <2>2, <3>1, ChangeGranted
    <3>5. QED
      BY <1>2, <2>1, <2>2, <3>3, <3>4
  <2>3. CASE pc'[r] \in {"ok", "error"}
    BY <1>2, <2>1, <2>3
  <2>4. QED
    BY <2>1, <2>2, <2>3
<1>7. ASSUME NEW r \in Requests,
             \/ InsertRow(r) \/ CacheNew(r) \/ DeleteRow(r) \/ Invalidate(r)
             \/ KvGet(r) \/ CheckHit(r) \/ Drop(r) \/ DbGet(r) \/ CheckRow(r)
             \/ Fill(r) \/ UpdateRow(r) \/ Refresh(r) \/ Finish(r)
      PROVE  AuthInv'
  <2>1. /\ \A q \in Requests \ {r} : /\ pc'[q] = pc[q] /\ rec'[q] = rec[q]
                                     /\ call'[q] = call[q] /\ since'[q] = since[q]
        /\ pc'[r] \notin {"insert", "delete", "update"}
    BY <1>7 DEF InsertRow, CacheNew, DeleteRow, Invalidate, KvGet, CheckHit, Drop,
       DbGet, CheckRow, Fill, UpdateRow, Refresh, Finish
  <2>2. QED
    BY <1>2, <2>1
<1>8. ASSUME Restart PROVE AuthInv'
  BY <1>8 DEF Restart, AuthInv
<1>9. ASSUME Tick \/ (\E s \in ShareIDs : Evict(s)) \/ UNCHANGED vars PROVE AuthInv'
  BY <1>9 DEF Tick, Evict, vars, AuthInv
<1>10. QED
  BY <1>3, <1>4, <1>5, <1>6, <1>7, <1>8, <1>9 DEF Next

-----------------------------------------------------------------------------
(* The refinement.                                                          *)

stage == [r \in Requests |-> Stage(r)]

\* The registry has its own instance of ShareRecords: the same data.
LEMMA SameConstants ==
    /\ Registry!NoRow = NoRow
    /\ Registry!NoCall = NoCall
    /\ Registry!Permissions = Permissions
    /\ Registry!ChangeOps = ChangeOps
    /\ Registry!WriteOps = WriteOps
  BY DEF NoRow, NoCall, Permissions, ChangeOps, WriteOps, Registry!NoRow,
         Registry!NoCall, Registry!Permissions, Registry!ChangeOps,
         Registry!WriteOps

LEMMA SameHelpers ==
    /\ \A x : Registry!Stored(x) = Stored(x)
    /\ \A x : Registry!Live(x) = Live(x)
    /\ \A t, exp : Registry!isExpired(t, exp) = isExpired(t, exp)
    /\ \A c, info : Registry!Granted(c, info) = Granted(c, info)
    /\ \A c, t : Registry!NewRecord(c, t) = NewRecord(c, t)
<1>1. \A pw : Registry!hashPassword(pw) = hashPassword(pw)
  BY DEF hashPassword, Registry!hashPassword
<1>2. \A x : /\ Registry!Stored(x) = Stored(x)
             /\ Registry!Live(x) = Live(x)
  BY SameConstants DEF Stored, Live, Registry!Stored, Registry!Live
<1>3. \A t, exp : Registry!isExpired(t, exp) = isExpired(t, exp)
  BY DEF isExpired, Registry!isExpired
<1>4. \A c, info : Registry!Granted(c, info) = Granted(c, info)
  BY <1>1 DEF Granted, Registry!Granted
<1>5. \A c, t : Registry!NewRecord(c, t) = NewRecord(c, t)
  BY <1>1 DEF NewRecord, Registry!NewRecord
<1>6. QED
  BY <1>2, <1>3, <1>4, <1>5

LEMMA SameCalls == Registry!Call = Call
<1>1. /\ Registry!CreateCall = CreateCall
      /\ Registry!DeleteCall = DeleteCall
      /\ Registry!ReadCall = ReadCall
      /\ Registry!UserCall = UserCall
      /\ Registry!UpdateCall = UpdateCall
      /\ Registry!PermissionsCall = PermissionsCall
      /\ Registry!AccessCall = AccessCall
  BY DEF CreateCall, DeleteCall, ReadCall, AccessCall, PermissionsCall,
         UpdateCall, UserCall, Passwords, Registry!CreateCall,
         Registry!DeleteCall, Registry!ReadCall, Registry!AccessCall,
         Registry!PermissionsCall, Registry!UpdateCall, Registry!UserCall,
         Registry!Passwords
<1>2. QED
  BY <1>1 DEF Call, CachedCall, Registry!Call, Registry!CachedCall

ImplInv == TypeInv /\ CacheFaithful /\ ExpiryInv /\ AuthInv

LEMMA RefinementInit == Init => Registry!RegistryInit
  BY SameConstants DEF Init, Registry!RegistryInit, Stage

\* A step of r changes the stage of r alone.
LEMMA StageMoves ==
    ASSUME TypeInv, NEW r \in Requests,
           \A q \in Requests \ {r} : pc'[q] = pc[q]
    PROVE  stage' = [stage EXCEPT ![r] = Stage(r)']
  BY DEF stage, Stage

LEMMA RefinementStep ==
    ImplInv /\ ImplInv' /\ [Next]_vars
        => [Registry!RegistryNext]_(Registry!registryVars)
<1> SUFFICES ASSUME ImplInv, ImplInv', [Next]_vars
             PROVE  [Registry!RegistryNext]_(Registry!registryVars)
  OBVIOUS
<1> USE DEF ImplInv, TypeInv, TypeOK
<1>1. ASSUME NEW r \in Requests, NEW c \in Call, Arrive(r, c),
             UNCHANGED <<clock, db>>,
             \A q \in Requests \ {r} : pc'[q] = pc[q],
             pc'[r] \in {"insert", "find", "kvGet", "error"}
      PROVE  Registry!Invoke(r)
  <2>1. stage' = [stage EXCEPT ![r] = Stage(r)']
    BY <1>1, StageMoves
  <2>2. Stage(r)' \in {"pending", "error"} /\ Stage(r) = "idle"
    BY <1>1 DEF Stage, Arrive
  <2>3. QED
    BY <1>1, <2>1, <2>2, SameCalls DEF Registry!Invoke, Arrive, stage
<1>2. ASSUME NEW r \in Requests, StartCreate(r) PROVE Registry!Invoke(r)
  <2>1. PICK c \in CreateCall :
          Arrive(r, c) /\ (Leave(r, "error") \/ Goto(r, "insert"))
    BY <1>2 DEF StartCreate
  <2>2. UNCHANGED <<clock, db>>
    BY <1>2 DEF StartCreate
  <2>3. QED
    BY <1>1, <2>1, <2>2 DEF Call
<1>3. ASSUME NEW r \in Requests, StartDelete(r) PROVE Registry!Invoke(r)
  BY <1>1, <1>3 DEF StartDelete, Call
<1>4. ASSUME NEW r \in Requests, StartCached(r) PROVE Registry!Invoke(r)
  <2>1. PICK c \in CachedCall :
          Arrive(r, c) /\ (Continue(r, "kvGet") \/ Leave(r, "error"))
    BY <1>4 DEF StartCached
  <2>2. UNCHANGED <<clock, db>>
    BY <1>4 DEF StartCached
  <2>3. QED
    BY <1>1, <2>1, <2>2 DEF Call
\* A step that neither writes the table nor answers "ok" stutters or answers
\* "error".
<1>5. ASSUME NEW r \in Requests, UNCHANGED <<clock, db, request>>,
             \A q \in Requests \ {r} : pc'[q] = pc[q],
             Stage(r) = "pending", Stage(r)' \in {"pending", "error"}
      PROVE  Registry!AnswerError(r) \/ UNCHANGED Registry!registryVars
  <2>1. stage' = [stage EXCEPT ![r] = Stage(r)']
    BY <1>5, StageMoves
  <2>2. CASE Stage(r)' = "error"
    BY <1>5, <2>1, <2>2 DEF Registry!AnswerError, stage
  <2>3. CASE Stage(r)' = "pending"
    <3>1. stage' = stage
      BY <1>5, <2>1, <2>3 DEF stage
    <3>2. QED
      BY <1>5, <3>1 DEF Registry!registryVars, stage
  <2>4. QED
    BY <1>5, <2>2, <2>3
<1>6. ASSUME NEW r \in Requests,
             \/ FindRow(r) \/ KvGet(r) \/ CheckHit(r) \/ Drop(r) \/ DbGet(r)
             \/ CheckRow(r) \/ Fill(r)
      PROVE  Registry!AnswerError(r) \/ UNCHANGED Registry!registryVars
  <2>1. /\ UNCHANGED <<clock, db, request>>
        /\ \A q \in Requests \ {r} : pc'[q] = pc[q]
        /\ Stage(r) = "pending"
        /\ Stage(r)' \in {"pending", "error"}
    BY <1>6 DEF FindRow, KvGet, CheckHit, Drop, DbGet, CheckRow, Fill, Stage
  <2>2. QED
    BY <1>5, <2>1
\* A write, whose reply may be lost.
<1>7. ASSUME NEW r \in Requests, UNCHANGED <<clock, request>>,
             \A q \in Requests \ {r} : pc'[q] = pc[q],
             Stage(r) = "pending", Stage(r)' \in {"committed", "error"},
             \/ Registry!InsertShare(r) \/ Registry!RemoveShare(r)
             \/ Registry!SetPermissions(r)
      PROVE  Registry!Commit(r)
  <2>1. stage' = [stage EXCEPT ![r] = Stage(r)']
    BY <1>7, StageMoves
  <2>2. QED
    BY <1>7, <2>1 DEF Registry!Commit, stage
<1>8. ASSUME NEW r \in Requests, InsertRow(r)
      PROVE  Registry!Commit(r) \/ Registry!AnswerError(r)
             \/ UNCHANGED Registry!registryVars
  <2>1. /\ UNCHANGED <<clock, request>>
        /\ \A q \in Requests \ {r} : pc'[q] = pc[q]
        /\ Stage(r) = "pending"
        /\ Stage(r)' \in {"committed", "error"}
        /\ call[r].op = "create"
    BY <1>8 DEF InsertRow, Stage, Flow, CreateCall
  <2>2. CASE UNCHANGED db /\ Leave(r, "error")
    <3>1. Stage(r)' = "error"
      BY <2>2 DEF Stage
    <3>2. QED
      BY <1>5, <2>1, <2>2, <3>1
  <2>3. CASE /\ row(r) = NoRow
             /\ db' = [db EXCEPT ![share(r)] = [info |-> rec[r].info,
                                                perms |-> rec[r].perms,
                                                deletedAt |-> 0]]
    <3>1. rec[r] = NewRecord(call[r], since[r])
      BY <1>8 DEF InsertRow, AuthInv
    <3>2. Registry!InsertShare(r)
      BY <2>1, <2>3, <3>1, SameConstants, SameHelpers DEF Registry!InsertShare
    <3>3. QED
      BY <1>7, <2>1, <3>2
  <2>4. QED
    BY <1>8, <2>2, <2>3 DEF InsertRow
<1>9. ASSUME NEW r \in Requests, DeleteRow(r)
      PROVE  Registry!Commit(r) \/ Registry!AnswerError(r)
             \/ UNCHANGED Registry!registryVars
  <2>1. /\ UNCHANGED <<clock, request>>
        /\ \A q \in Requests \ {r} : pc'[q] = pc[q]
        /\ Stage(r) = "pending"
        /\ Stage(r)' \in {"committed", "error"}
        /\ call[r].op = "delete"
        /\ Registry!Owns(r)
    BY <1>9, SameHelpers
       DEF DeleteRow, Stage, Flow, DeleteCall, AuthInv, Registry!Owns
  <2>2. CASE SoftDelete(r)
    <3>1. Registry!RemoveShare(r)
      BY <2>1, <2>2, SameHelpers DEF SoftDelete, Registry!RemoveShare
    <3>2. QED
      BY <1>7, <2>1, <3>1
  <2>3. CASE UNCHANGED db /\ Leave(r, "error")
    <3>1. Stage(r)' = "error"
      BY <2>3 DEF Stage
    <3>2. QED
      BY <1>5, <2>1, <2>3, <3>1
  <2>4. QED
    BY <1>9, <2>2, <2>3 DEF DeleteRow
<1>10. ASSUME NEW r \in Requests, UpdateRow(r)
       PROVE  Registry!Commit(r) \/ Registry!AnswerError(r)
              \/ UNCHANGED Registry!registryVars
  <2>1. /\ UNCHANGED <<clock, request>>
        /\ \A q \in Requests \ {r} : pc'[q] = pc[q]
        /\ pc[r] = "update"
        /\ Stage(r) = "pending"
        /\ Stage(r)' \in {"committed", "error"}
        /\ call[r].op \in ChangeOps
    BY <1>10 DEF UpdateRow, Stage, Flow
  <2>2. CASE SetPermissions(r)
    <3>1. /\ rec[r].perms \in Permissions
          /\ Registry!Reflects(call[r], rec[r].perms)
          /\ rec[r].info.owner = call[r].user
      BY <2>1 DEF AuthInv, Record
    <3>2. Registry!Owns(r)
      BY <2>1, <3>1, SameHelpers DEF CacheFaithful, Faithful, Registry!Owns
    <3>3. Registry!SetPermissions(r)
      BY <2>1, <2>2, <3>1, <3>2, SameConstants, SameHelpers
         DEF SetPermissions, Registry!SetPermissions
    <3>4. QED
      BY <1>7, <2>1, <3>3
  <2>3. CASE UNCHANGED db /\ Leave(r, "error")
    <3>1. Stage(r)' = "error"
      BY <2>3 DEF Stage
    <3>2. QED
      BY <1>5, <2>1, <2>3, <3>1
  <2>4. QED
    BY <1>10, <2>2, <2>3 DEF UpdateRow
<1>11. ASSUME NEW r \in Requests, CacheNew(r) \/ Invalidate(r) \/ Refresh(r)
       PROVE  Registry!AnswerOK(r)
  <2>1. /\ UNCHANGED <<clock, db, request>>
        /\ \A q \in Requests \ {r} : pc'[q] = pc[q]
        /\ Stage(r) = "committed"
        /\ Stage(r)' = "ok"
    BY <1>11 DEF CacheNew, Invalidate, Refresh, Stage
  <2>2. stage' = [stage EXCEPT ![r] = "ok"]
    BY <2>1, StageMoves
  <2>3. QED
    BY <2>1, <2>2 DEF Registry!AnswerOK, stage
<1>12. ASSUME NEW r \in Requests, Use(r)
       PROVE  Registry!AnswerOK(r) \/ Registry!AnswerError(r)
              \/ UNCHANGED Registry!registryVars
  <2>1. /\ UNCHANGED <<clock, db, request>>
        /\ \A q \in Requests \ {r} : pc'[q] = pc[q]
        /\ pc[r] = "use"
        /\ Stage(r) = "pending"
        /\ Stage(r)' \in {"pending", "error", "ok"}
    BY <1>12 DEF Use, Stage
  <2>2. CASE Stage(r)' \in {"pending", "error"}
    BY <1>5, <2>1, <2>2
  <2>3. CASE Stage(r)' = "ok"
    <3>1. Granted(call[r], rec[r].info) /\ call[r].op \notin ChangeOps
      BY <1>12, <2>3 DEF Use, Stage
    <3>2. call[r].op \notin {"create", "delete"}
      BY <2>1 DEF Flow, CachedCall, ReadCall, AccessCall, PermissionsCall,
         UpdateCall, UserCall
    <3>3. /\ Stored(row(r))
          /\ row(r).info = rec[r].info
          /\ ~isExpired(since[r], rec[r].info.expireAt)
      BY <2>1 DEF CacheFaithful, Faithful, ExpiryInv, Checked
    <3>4. Registry!Entitled(r)
      BY <3>1, <3>2, <3>3, SameConstants, SameHelpers
         DEF Registry!Entitled, WriteOps
    <3>5. stage' = [stage EXCEPT ![r] = "ok"]
      BY <2>1, <2>3, StageMoves
    <3>6. QED
      BY <2>1, <3>4, <3>5 DEF Registry!AnswerOK, stage
  <2>4. QED
    BY <2>1, <2>2, <2>3
<1>13. ASSUME NEW r \in Requests, Finish(r) PROVE Registry!Leave(r)
  <2>1. /\ UNCHANGED <<clock, db>>
        /\ call' = [call EXCEPT ![r] = NoCall]
        /\ since' = [since EXCEPT ![r] = 0]
        /\ \A q \in Requests \ {r} : pc'[q] = pc[q]
        /\ Stage(r) \in {"ok", "error"}
        /\ Stage(r)' = "idle"
    BY <1>13 DEF Finish, Stage
  <2>2. stage' = [stage EXCEPT ![r] = "idle"]
    BY <2>1, StageMoves
  <2>3. QED
    BY <2>1, <2>2, SameConstants DEF Registry!Leave, stage
<1>14. ASSUME Restart PROVE Registry!AbortAll
  BY <1>14, SameConstants DEF Restart, Registry!AbortAll, Stage
<1>15. ASSUME Tick PROVE Registry!Advance
  BY <1>15 DEF Tick, Registry!Advance, Stage
<1>16. ASSUME (\E s \in ShareIDs : Evict(s)) \/ UNCHANGED vars
       PROVE  UNCHANGED Registry!registryVars
  BY <1>16 DEF Evict, vars, Registry!registryVars, Stage
<1>17. QED
  BY <1>2, <1>3, <1>4, <1>6, <1>8, <1>9, <1>10, <1>11, <1>12, <1>13, <1>14, <1>15,
     <1>16
     DEF Next, Registry!RegistryNext

LEMMA Implementing == Spec => []ImplInv
  BY Typing, CacheIsFaithful, AuthInit, AuthStep, ExpiryInit, ExpiryStep,
     FaithfulInit, FaithfulStep, PTL DEF Spec, ImplInv

\* ShareService implements ShareRegistry.
THEOREM ServiceImplementsRegistry == Spec => RegistrySpec
  BY Implementing, RefinementInit, RefinementStep, PTL
     DEF Spec, RegistrySpec, Registry!RegistrySpec

-----------------------------------------------------------------------------
(* What that means for the table.                                           *)

\* The row of share s is inserted by a request of the user it belongs to, or is not
\* deleted and is changed by a request of its owner, which leaves its info alone.
WrittenByOwner(s) ==
    \E r \in Requests :
        /\ InFlight(r) /\ share(r) = s
        /\ \/ /\ call[r].op = "create" /\ db[s] = NoRow
              /\ Stored(db'[s]) /\ db'[s].info.owner = call[r].user
           \/ /\ call[r].op \in WriteOps \ {"create"} /\ Live(db[s])
              /\ Stored(db'[s]) /\ db'[s].info = db[s].info
              /\ db[s].info.owner = call[r].user

RowsAreTheOwners == \A s \in ShareIDs : db'[s] = db[s] \/ WrittenByOwner(s)

\* All a step of the registry does to the table is the write of one owner.
LEMMA RegistryWrites ==
    TypeInv /\ TypeInv' /\ [Registry!RegistryNext]_(Registry!registryVars)
        => RowsAreTheOwners
<1>1. SUFFICES ASSUME TypeInv, TypeInv',
                      [Registry!RegistryNext]_(Registry!registryVars),
                      NEW s \in ShareIDs, db'[s] # db[s]
               PROVE  WrittenByOwner(s)
  BY DEF RowsAreTheOwners
<1> USE DEF TypeInv, TypeOK
<1>2. PICK r \in Requests : Registry!Commit(r)
  BY <1>1 DEF Registry!RegistryNext, Registry!registryVars, Registry!Invoke,
              Registry!AnswerOK, Registry!AnswerError, Registry!Leave,
              Registry!AbortAll, Registry!Advance
<1>3. InFlight(r)
  BY <1>1, <1>2 DEF Registry!Commit, stage, Stage, InFlight
<1>4. CASE Registry!InsertShare(r)
  <2>1. /\ call[r].op = "create" /\ share(r) = s /\ db[s] = NoRow
        /\ db'[s].info = NewRecord(call[r], since[r]).info
    BY <1>1, <1>4, SameHelpers, SameConstants DEF Registry!InsertShare
  <2>2. db'[s].info.owner = call[r].user
    BY <2>1 DEF NewRecord
  <2>3. Stored(db'[s])
    BY <1>1, <2>1 DEF Stored
  <2>4. QED
    BY <1>3, <2>1, <2>2, <2>3 DEF WrittenByOwner
<1>5. CASE Registry!RemoveShare(r) \/ Registry!SetPermissions(r)
  <2>1. /\ call[r].op \in WriteOps \ {"create"} /\ share(r) = s /\ Live(db[s])
        /\ db[s].info.owner = call[r].user
    BY <1>1, <1>5, SameHelpers, SameConstants
       DEF Registry!RemoveShare, Registry!SetPermissions, Registry!Owns, WriteOps,
           Registry!ChangeOps, ChangeOps
  <2>2. db[s] \in Row
    BY <1>1, <2>1 DEF Live, Stored
  <2>3. \/ \E t : db' = [db EXCEPT ![s].deletedAt = t]
        \/ \E p : db' = [db EXCEPT ![s].perms = p]
    BY <1>1, <1>5, <2>1 DEF Registry!RemoveShare, Registry!SetPermissions
  <2>4. db'[s].info = db[s].info /\ DOMAIN db'[s] = DOMAIN db[s]
    BY <1>1, <2>2, <2>3 DEF Row
  <2>5. Stored(db'[s])
    BY <2>2, <2>4 DEF Stored, NoRow, Row
  <2>6. QED
    BY <1>3, <2>1, <2>4, <2>5 DEF WrittenByOwner
<1>6. QED
  BY <1>2, <1>4, <1>5 DEF Registry!Commit

\* The table is its owners': a row changes only by a request in progress of the user
\* it belongs to, what was fixed at its creation stays, and a deleted one stays as
\* it was, whatever other requests hold of it or have cached.
THEOREM TableIsTheOwners == Spec => [][RowsAreTheOwners]_vars
<1>1. ImplInv /\ ImplInv' /\ [Next]_vars => RowsAreTheOwners
  BY RefinementStep, RegistryWrites DEF ImplInv
<1>2. QED
  BY <1>1, Implementing, PTL DEF Spec
=============================================================================
