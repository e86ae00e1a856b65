-------------------------- MODULE ShareServiceProofs --------------------------
(***************************************************************************)
(* Theorems about ShareService, for every set of shares, users, requests,  *)
(* passwords and every choice of the time constants.                       *)
(***************************************************************************)
EXTENDS ShareService, TLAPS

-----------------------------------------------------------------------------
(* What the helpers of ShareRecords return.                                 *)

\* CreateShare builds a well-formed record from a well-formed request.
LEMMA NewRecordType ==
    ASSUME NEW c \in CreateCall, NEW now \in Nat
    PROVE  NewRecord(c, now) \in Record
<1>1. /\ c.user \in Users
      /\ c.form \in Form
  BY FormAssumptions DEF CreateCall
<1>2. hashPassword(c.form.password) \in Secrets \cup {""}
  BY <1>1 DEF hashPassword, Form, Passwords
<1>3. (IF c.form.days > 0 THEN now + c.form.days * DayLength ELSE 0) \in Nat
  <2>1. c.form.days \in Nat /\ DayLength \in Nat
    BY <1>1, RecordAssumptions DEF Form
  <2>2. c.form.days * DayLength \in Nat
    BY <2>1
  <2>3. QED
    BY <2>1, <2>2
<1>4. /\ c.form.allowDownload \in BOOLEAN
      /\ c.form.objects \in Objects
  BY <1>1 DEF Form
<1>5. [allowAnonymous |-> c.form.password = "", users |-> {c.user}] \in Permissions
  BY <1>1 DEF Permissions
<1>6. [owner |-> c.user,
       expireAt |-> IF c.form.days > 0 THEN now + c.form.days * DayLength ELSE 0,
       allowDownload |-> c.form.allowDownload,
       passwordHash |-> hashPassword(c.form.password),
       objects |-> c.form.objects] \in Info
  BY <1>1, <1>2, <1>3, <1>4 DEF Info
<1>7. QED
  BY <1>5, <1>6 DEF NewRecord, Record

\* The cache TTL of a loaded record is a duration of at most MaxTTL, and 0 only
\* when the share has expired.
LEMMA TTLBounds ==
    ASSUME NEW exp \in Nat, NEW now \in Nat
    PROVE  /\ ttlFromExpire(exp, now) \in Nat
           /\ ttlFromExpire(exp, now) <= MaxTTL
           /\ ttlFromExpire(exp, now) = 0 => exp # 0 /\ exp <= now
<1>1. DefaultTTL \in Nat \ {0} /\ MaxTTL \in Nat \ {0} /\ DefaultTTL <= MaxTTL
  BY RecordAssumptions
<1>2. QED
  BY <1>1 DEF ttlFromExpire

\* Storing a record makes an entry of the cache.
LEMMA EncodeType ==
    ASSUME NEW record \in Record, NEW t \in Nat, NEW now \in Nat
    PROVE  /\ Encode(record, t, now) \in Entry
           /\ Encode(record, t, now) # NoEntry
           /\ Encode(record, t, now).rec = record
           /\ t # 0 => Encode(record, t, now).deadline = now + t
  BY DEF Encode, Entry, NoEntry

\* A change of permissions makes permissions.
LEMMA NewPermissionsType ==
    ASSUME NEW c \in CachedCall, c.op \in ChangeOps, NEW p \in Permissions
    PROVE  NewPermissions(c, p) \in Permissions
<1>1. CASE c.op = "update"
  <2>1. c \in UpdateCall
    BY <1>1 DEF CachedCall, ReadCall, AccessCall, PermissionsCall, UpdateCall, UserCall
  <2>2. QED
    BY <1>1, <2>1, FormAssumptions DEF NewPermissions, UpdateCall
<1>2. CASE c.op \in {"add", "remove"}
  <2>1. c.target \in Users
    BY <1>2 DEF CachedCall, ReadCall, AccessCall, PermissionsCall, UpdateCall, UserCall
  <2>2. QED
    BY <1>2, <2>1 DEF NewPermissions, Permissions
<1>3. QED
  BY <1>1, <1>2 DEF ChangeOps

\* A row that has just been inserted is live and holds its record.
LEMMA NewRow ==
    ASSUME NEW i, NEW p
    PROVE  LET new == [info |-> i, perms |-> p, deletedAt |-> 0]
           IN  Live(new) /\ ToRecord(new) = [info |-> i, perms |-> p]
  BY DEF Live, Stored, NoRow, ToRecord

\* Every request names a share.
LEMMA CallShare ==
    ASSUME NEW c \in Call
    PROVE  c.share \in ShareIDs /\ c # NoCall
  BY DEF Call, CreateCall, DeleteCall, CachedCall, ReadCall, AccessCall,
         PermissionsCall, UpdateCall, UserCall, NoCall

-----------------------------------------------------------------------------
(* Typing, with the step a request is at deciding which handler it is in.   *)

CreateSteps == {"insert", "cacheNew"}
DeleteSteps == {"find", "delete", "invalidate"}
CachedSteps == {"kvGet", "checkHit", "drop", "dbGet", "checkRow", "fill",
                "use", "update", "refresh"}
ChangeSteps == {"update", "refresh"}

Flow ==
    \A r \in Requests :
        /\ pc[r] \in CreateSteps => call[r] \in CreateCall
        /\ pc[r] \in DeleteSteps => call[r] \in DeleteCall
        /\ pc[r] \in CachedSteps => call[r] \in CachedCall
        /\ pc[r] \in ChangeSteps => call[r].op \in ChangeOps

TypeInv == TypeOK /\ Flow

LEMMA TypeInit == Init => TypeInv
  BY DEF Init, TypeInv, TypeOK, Flow, CreateSteps, DeleteSteps, CachedSteps,
         ChangeSteps, Loaded

USE DEF CreateSteps, DeleteSteps, CachedSteps, ChangeSteps, Loaded, Active,
        Written, Answered, share, row, Goto, Continue, Leave, cache, setting,
        store, request, local

LEMMA TypeStep == TypeInv /\ [Next]_vars => TypeInv'
<1> SUFFICES ASSUME TypeInv, [Next]_vars PROVE TypeInv'
  OBVIOUS
<1> USE DEF TypeInv, TypeOK, Flow
<1>1. ASSUME NEW r \in Requests, StartCreate(r) PROVE TypeInv'
  <2>1. PICK c \in CreateCall : /\ Arrive(r, c)
                                /\ \/ Leave(r, "error")
                                   \/ /\ Goto(r, "insert")
                                      /\ rec' = [rec EXCEPT ![r] = NewRecord(c, clock)]
                                      /\ ttl' = [ttl EXCEPT ![r] = c.form.days * DayLength]
    BY <1>1 DEF StartCreate
  <2>2. NewRecord(c, clock) \in Record /\ c \in Call
    BY NewRecordType DEF Call
  <2>3. c.form.days * DayLength \in Nat
    <3>1. c.form.days \in Nat /\ DayLength \in Nat
      BY RecordAssumptions, FormAssumptions DEF CreateCall, Form
    <3>2. QED
      BY <3>1
  <2>4. CASE Leave(r, "error")
    BY <1>1, <2>1, <2>2, <2>4, CallShare DEF StartCreate, Arrive
  <2>5. CASE /\ Goto(r, "insert")
             /\ rec' = [rec EXCEPT ![r] = NewRecord(c, clock)]
             /\ ttl' = [ttl EXCEPT ![r] = c.form.days * DayLength]
    BY <1>1, <2>1, <2>2, <2>3, <2>5, CallShare DEF StartCreate, Arrive
  <2>6. QED
    BY <2>1, <2>4, <2>5
<1>2. ASSUME NEW r \in Requests, InsertRow(r) PROVE TypeInv'
  BY <1>2, CallShare DEF InsertRow, Record, Row
<1>3. ASSUME NEW r \in Requests, CacheNew(r) PROVE TypeInv'
  <2>1. share(r) \in ShareIDs /\ rec[r] \in Record /\ ttl[r] \in Nat
    BY <1>3, CallShare DEF CacheNew
  <2>2. Encode(rec[r], ttl[r], clock) \in Entry
    BY <2>1, EncodeType
  <2>3. kv' \in [ShareIDs -> Entry \cup {NoEntry}]
    BY <1>3, <2>1, <2>2 DEF CacheNew, kvSet, CallFails
  <2>4. disturbed' \subseteq ShareIDs
    BY <1>3, <2>1 DEF CacheNew
  <2>5. QED
    BY <1>3, <2>3, <2>4 DEF CacheNew
<1>4. ASSUME NEW r \in Requests, StartDelete(r) PROVE TypeInv'
  BY <1>4, CallShare DEF StartDelete, Arrive, Call
<1>5. ASSUME NEW r \in Requests, FindRow(r) PROVE TypeInv'
  BY <1>5 DEF FindRow
<1>6. ASSUME NEW r \in Requests, DeleteRow(r) PROVE TypeInv'
  BY <1>6, CallShare DEF DeleteRow, SoftDelete, Live, Stored, Row, NoRow
<1>7. ASSUME NEW r \in Requests, Invalidate(r) PROVE TypeInv'
  BY <1>7, CallShare DEF Invalidate, kvDel, Lost, CallFails
<1>8. ASSUME NEW r \in Requests, StartCached(r) PROVE TypeInv'
  BY <1>8, CallShare DEF StartCached, Arrive, Call
<1>9. ASSUME NEW r \in Requests, KvGet(r) PROVE TypeInv'
  <2>1. share(r) \in ShareIDs
    BY <1>9, CallShare DEF KvGet
  <2>2. Shown(share(r)) \in Entry \cup {NoEntry}
    BY <2>1 DEF Shown
  <2>3. /\ kv' \in [ShareIDs -> Entry \cup {NoEntry}]
        /\ hot' \in [ShareIDs -> Entry \cup {NoEntry}]
    BY <1>9, <2>1, <2>2 DEF KvGet, KeepCopy, CallFails
  <2>4. Hit(Shown(share(r)), clock) => Shown(share(r)).rec \in Record
    BY <2>2 DEF Hit, Entry
  <2>5. QED
    BY <1>9, <2>3, <2>4 DEF KvGet
<1>10. ASSUME NEW r \in Requests, CheckHit(r) PROVE TypeInv'
  BY <1>10 DEF CheckHit
<1>11. ASSUME NEW r \in Requests, Drop(r) PROVE TypeInv'
  BY <1>11, CallShare DEF Drop, kvDel, CallFails
<1>12. ASSUME NEW r \in Requests, DbGet(r) PROVE TypeInv'
  BY <1>12, CallShare DEF DbGet, Live, Stored, Row, NoRow, ToRecord, Record
<1>13. ASSUME NEW r \in Requests, CheckRow(r) PROVE TypeInv'
  <2>1. ttlFromExpire(rec[r].info.expireAt, clock) \in Nat
    BY <1>13, TTLBounds DEF CheckRow, Record, Info
  <2>2. QED
    BY <1>13, <2>1 DEF CheckRow
<1>14. ASSUME NEW r \in Requests, Fill(r) PROVE TypeInv'
  <2>1. share(r) \in ShareIDs /\ rec[r] \in Record /\ ttl[r] \in Nat
    BY <1>14, CallShare DEF Fill
  <2>2. Encode(rec[r], ttl[r], clock) \in Entry
    BY <2>1, EncodeType
  <2>3. kv' \in [ShareIDs -> Entry \cup {NoEntry}]
    BY <1>14, <2>1, <2>2 DEF Fill, kvSet, CallFails
  <2>4. disturbed' \subseteq ShareIDs
    BY <1>14, <2>1 DEF Fill
  <2>5. QED
    BY <1>14, <2>3, <2>4 DEF Fill
<1>15. ASSUME NEW r \in Requests, Use(r) PROVE TypeInv'
  BY <1>15, NewPermissionsType DEF Use, Record
<1>16. ASSUME NEW r \in Requests, UpdateRow(r) PROVE TypeInv'
  <2>1. share(r) \in ShareIDs /\ rec[r] \in Record
    BY <1>16, CallShare DEF UpdateRow
  <2>2. ttlFromExpire(rec[r].info.expireAt, clock) \in Nat
    BY <2>1, TTLBounds DEF Record, Info
  <2>3. db' \in [ShareIDs -> Row \cup {NoRow}]
    BY <1>16, <2>1 DEF UpdateRow, SetPermissions, Live, Stored, Row, NoRow, Record
  <2>4. disturbed' \subseteq ShareIDs
    BY <1>16, <2>1 DEF UpdateRow
  <2>5. QED
    BY <1>16, <2>2, <2>3, <2>4 DEF UpdateRow
<1>17. ASSUME NEW r \in Requests, Refresh(r) PROVE TypeInv'
  <2>1. share(r) \in ShareIDs /\ rec[r] \in Record /\ ttl[r] \in Nat
    BY <1>17, CallShare DEF Refresh
  <2>2. Encode(rec[r], ttl[r], clock) \in Entry
    BY <2>1, EncodeType
  <2>3. kv' \in [ShareIDs -> Entry \cup {NoEntry}]
    BY <1>17, <2>1, <2>2 DEF Refresh, kvSet, Lost, CallFails
  <2>4. disturbed' \subseteq ShareIDs
    BY <1>17, <2>1 DEF Refresh, Lost
  <2>5. QED
    BY <1>17, <2>3, <2>4 DEF Refresh
<1>18. ASSUME NEW r \in Requests, Finish(r) PROVE TypeInv'
  BY <1>18 DEF Finish
<1>19. ASSUME Restart PROVE TypeInv'
  BY <1>19, CallShare DEF Restart, InFlight, CallFails
<1>20. ASSUME Tick PROVE TypeInv'
  BY <1>20 DEF Tick
<1>21. ASSUME UNCHANGED vars PROVE TypeInv'
  BY <1>21 DEF vars
<1>22. ASSUME NEW s \in ShareIDs, Evict(s) PROVE TypeInv'
  BY <1>22 DEF Evict
<1>23. QED
  BY <1>1, <1>2, <1>3, <1>4, <1>5, <1>6, <1>7, <1>8, <1>9, <1>10, <1>11, <1>12,
     <1>13, <1>14, <1>15, <1>16, <1>17, <1>18, <1>19, <1>20, <1>21, <1>22 DEF Next

\* Every variable keeps its type.
THEOREM TypeCorrect == Spec => []TypeOK
<1>1. TypeInv => TypeOK
  BY DEF TypeInv
<1>2. QED
  BY TypeInit, TypeStep, <1>1, PTL DEF Spec

LEMMA Typing == Spec => []TypeInv
  BY TypeInit, TypeStep, PTL DEF Spec

-----------------------------------------------------------------------------
(* CacheFaithful is inductive: a row's info is written once, when there is  *)
(* no row, so nothing can be cached or loaded under its identifier before;  *)
(* after that every record comes from the row or from the cache.            *)

LEMMA FaithfulInit == Init => CacheFaithful
  BY DEF Init, CacheFaithful

\* A step that keeps or adds rows without touching a stored info, and touches
\* neither the cache nor what a request has read, keeps the cache faithful.
RowsKept == \A s \in ShareIDs : Stored(db[s]) => /\ Stored(db'[s])
                                                 /\ db'[s].info = db[s].info

LEMMA RowsAreKept == TypeInv /\ [Next]_vars => RowsKept
<1> SUFFICES ASSUME TypeInv, [Next]_vars PROVE RowsKept
  OBVIOUS
<1> USE DEF TypeInv, TypeOK, Flow, RowsKept
<1>1. ASSUME NEW r \in Requests, InsertRow(r) PROVE RowsKept
  BY <1>1, CallShare DEF InsertRow, Stored, NoRow
<1>2. ASSUME NEW r \in Requests, DeleteRow(r) PROVE RowsKept
  BY <1>2, CallShare DEF DeleteRow, SoftDelete, Live, Stored, Row, NoRow
<1>3. ASSUME NEW r \in Requests, UpdateRow(r) PROVE RowsKept
  BY <1>3, CallShare DEF UpdateRow, SetPermissions, Live, Stored, Row, NoRow
<1>4. CASE UNCHANGED db
  BY <1>4
<1>5. QED
  BY <1>1, <1>2, <1>3, <1>4
     DEF Next, vars, StartCreate, CacheNew, StartDelete, FindRow, Invalidate,
         StartCached, KvGet, CheckHit, Drop, DbGet, CheckRow, Fill, Use,
         Refresh, Finish, Evict, Restart, Tick

LEMMA FaithfulStep == TypeInv /\ CacheFaithful /\ [Next]_vars => CacheFaithful'
<1> SUFFICES ASSUME TypeInv, CacheFaithful, [Next]_vars PROVE CacheFaithful'
  OBVIOUS
<1> USE DEF TypeInv, TypeOK, Flow, CacheFaithful, Faithful
<1>0. RowsKept
  BY RowsAreKept
<1>1. ASSUME NEW r \in Requests, StartCreate(r) PROVE CacheFaithful'
  BY <1>1 DEF StartCreate, Arrive
<1>2. ASSUME NEW r \in Requests, InsertRow(r) PROVE CacheFaithful'
  <2>1. CASE Leave(r, "error")
    <3>1. UNCHANGED <<cache, call>>
      BY <1>2 DEF InsertRow
    <3>2. QED
      BY <1>0, <2>1, <3>1, CallShare DEF RowsKept
  <2>2. CASE Continue(r, "cacheNew")
    <3>1. share(r) \in ShareIDs
      BY <1>2, CallShare DEF InsertRow
    <3>2. /\ row(r) = NoRow
          /\ db' = [db EXCEPT ![share(r)] = [info |-> rec[r].info,
                                             perms |-> rec[r].perms,
                                             deletedAt |-> 0]]
      BY <1>2, <2>2 DEF InsertRow
    <3>3. Stored(db'[share(r)]) /\ db'[share(r)].info = rec[r].info
      BY <3>1, <3>2 DEF Stored, NoRow
    <3>4. UNCHANGED <<cache, call>>
      BY <1>2 DEF InsertRow
    <3>5. QED
      BY <1>0, <2>2, <3>1, <3>3, <3>4, CallShare DEF RowsKept
  <2>3. QED
    BY <1>2, <2>1, <2>2 DEF InsertRow
<1>3. ASSUME NEW r \in Requests, CacheNew(r) PROVE CacheFaithful'
  BY <1>3, CallShare DEF CacheNew, kvSet, Encode, CallFails
<1>4. ASSUME NEW r \in Requests, StartDelete(r) PROVE CacheFaithful'
  BY <1>4 DEF StartDelete, Arrive
<1>5. ASSUME NEW r \in Requests, FindRow(r) PROVE CacheFaithful'
  BY <1>5 DEF FindRow
<1>6. ASSUME NEW r \in Requests, DeleteRow(r) PROVE CacheFaithful'
  BY <1>0, <1>6, CallShare DEF DeleteRow, RowsKept
<1>7. ASSUME NEW r \in Requests, Invalidate(r) PROVE CacheFaithful'
  BY <1>7 DEF Invalidate, kvDel, Lost, CallFails
<1>8. ASSUME NEW r \in Requests, StartCached(r) PROVE CacheFaithful'
  BY <1>8 DEF StartCached, Arrive
<1>9. ASSUME NEW r \in Requests, KvGet(r) PROVE CacheFaithful'
  <2>1. share(r) \in ShareIDs
    BY <1>9, CallShare DEF KvGet
  <2>2. Shown(share(r)) # NoEntry => Faithful(share(r), Shown(share(r)).rec)
    BY <2>1 DEF Shown
  <2>3. UNCHANGED <<db, call>>
    BY <1>9 DEF KvGet
  <2>4. \A s \in ShareIDs : kv'[s] # NoEntry => Faithful(s, kv'[s].rec)
    BY <1>9 DEF KvGet, CallFails
  <2>5. \A s \in ShareIDs : hot'[s] # NoEntry => Faithful(s, hot'[s].rec)
    BY <1>9, <2>2 DEF KvGet, KeepCopy
  <2>6. \A q \in Requests : pc'[q] \in Loaded \ {"insert"}
                               => Faithful(share(q), rec'[q])
    BY <1>9, <2>2 DEF KvGet, Hit
  <2>7. QED
    BY <2>3, <2>4, <2>5, <2>6
<1>10. ASSUME NEW r \in Requests, CheckHit(r) PROVE CacheFaithful'
  BY <1>10 DEF CheckHit
<1>11. ASSUME NEW r \in Requests, Drop(r) PROVE CacheFaithful'
  BY <1>11 DEF Drop, kvDel, CallFails
<1>12. ASSUME NEW r \in Requests, DbGet(r) PROVE CacheFaithful'
  BY <1>12 DEF DbGet, Live, ToRecord
<1>13. ASSUME NEW r \in Requests, CheckRow(r) PROVE CacheFaithful'
  BY <1>13 DEF CheckRow
<1>14. ASSUME NEW r \in Requests, Fill(r) PROVE CacheFaithful'
  BY <1>14, CallShare DEF Fill, kvSet, Encode, CallFails
<1>15. ASSUME NEW r \in Requests, Use(r) PROVE CacheFaithful'
  BY <1>15 DEF Use, Record
<1>16. ASSUME NEW r \in Requests, UpdateRow(r) PROVE CacheFaithful'
  BY <1>0, <1>16, CallShare DEF UpdateRow, RowsKept
<1>17. ASSUME NEW r \in Requests, Refresh(r) PROVE CacheFaithful'
  BY <1>17, CallShare DEF Refresh, kvSet, Encode, Lost, CallFails
<1>18. ASSUME NEW r \in Requests, Finish(r) PROVE CacheFaithful'
  BY <1>18 DEF Finish
<1>19. ASSUME Restart PROVE CacheFaithful'
  BY <1>19 DEF Restart, CallFails
<1>20. ASSUME Tick PROVE CacheFaithful'
  BY <1>20 DEF Tick
<1>21. ASSUME UNCHANGED vars PROVE CacheFaithful'
  BY <1>21 DEF vars
<1>22. ASSUME NEW s \in ShareIDs, Evict(s) PROVE CacheFaithful'
  BY <1>22 DEF Evict
<1>23. QED
  BY <1>1, <1>2, <1>3, <1>4, <1>5, <1>6, <1>7, <1>8, <1>9, <1>10, <1>11, <1>12,
     <1>13, <1>14, <1>15, <1>16, <1>17, <1>18, <1>19, <1>20, <1>21, <1>22 DEF Next

\* What is cached, or loaded by a request, has the owner, objects, password,
\* download flag and expiry of the row of the share asked for.
THEOREM CacheIsFaithful == Spec => []CacheFaithful
  BY FaithfulInit, FaithfulStep, Typing, PTL DEF Spec

-----------------------------------------------------------------------------
(* Expiry.  A request carries a record past the check of its expiry only if *)
(* the share had not expired at the check, hence not when it arrived; the   *)
(* answer then follows from CacheFaithful: the row expires when the record  *)
(* does.                                                                    *)

Checked == {"fill", "use", "update", "refresh"}

ExpiryInv ==
    \A r \in Requests :
        /\ pc[r] # "idle" => since[r] <= clock
        /\ pc[r] \in Checked => ~isExpired(since[r], rec[r].info.expireAt)
        /\ pc[r] = "ok" /\ call[r].op \notin {"create", "delete"}
             => Stored(row(r)) /\ ~isExpired(since[r], row(r).info.expireAt)

\* What is not expired now was not expired before.
LEMMA ExpiryMonotone ==
    ASSUME NEW t \in Nat, NEW now \in Nat, t <= now, NEW exp \in Nat,
           ~isExpired(now, exp)
    PROVE  ~isExpired(t, exp)
  BY DEF isExpired

\* The requests that a step leaves alone keep ExpiryInv.
LEMMA ExpiryFrame ==
    ASSUME TypeInv, CacheFaithful, RowsKept, ExpiryInv, clock' \in Nat,
           clock <= clock', NEW q \in Requests,
           pc'[q] = pc[q], call'[q] = call[q], since'[q] = since[q],
           rec'[q] = rec[q]
    PROVE  /\ pc'[q] # "idle" => since'[q] <= clock'
           /\ pc'[q] \in Checked => ~isExpired(since'[q], rec'[q].info.expireAt)
           /\ pc'[q] = "ok" /\ call'[q].op \notin {"create", "delete"}
                => /\ Stored(db'[call'[q].share])
                   /\ ~isExpired(since'[q], db'[call'[q].share].info.expireAt)
<1>1. pc[q] # "idle" => since'[q] <= clock'
  BY DEF TypeInv, TypeOK, ExpiryInv
<1>2. pc[q] = "ok" => call[q].share \in ShareIDs
  BY CallShare DEF TypeInv, TypeOK
<1>3. QED
  BY <1>1, <1>2 DEF ExpiryInv, RowsKept

LEMMA ExpiryInit == Init => ExpiryInv
  BY DEF Init, ExpiryInv, Checked

LEMMA ExpiryStep ==
    TypeInv /\ CacheFaithful /\ CacheFaithful' /\ ExpiryInv /\ [Next]_vars
        => ExpiryInv'
<1> SUFFICES ASSUME TypeInv, CacheFaithful, CacheFaithful', ExpiryInv, [Next]_vars
             PROVE  ExpiryInv'
  OBVIOUS
<1> USE DEF Checked
<1>1. RowsKept
  BY RowsAreKept
<1>2. TypeInv'
  BY TypeStep
<1>3. clock \in Nat /\ clock' \in Nat
  BY <1>2 DEF TypeInv, TypeOK
<1>4. ASSUME NEW r \in Requests, clock' = clock,
             \A q \in Requests \ {r} : /\ pc'[q] = pc[q]
                                       /\ call'[q] = call[q]
                                       /\ since'[q] = since[q]
                                       /\ rec'[q] = rec[q],
             pc'[r] # "idle" => since'[r] <= clock',
             pc'[r] \in Checked => ~isExpired(since'[r], rec'[r].info.expireAt),
             pc'[r] = "ok" /\ call'[r].op \notin {"create", "delete"}
               => /\ Stored(db'[call'[r].share])
                  /\ ~isExpired(since'[r], db'[call'[r].share].info.expireAt)
      PROVE  ExpiryInv'
  BY <1>1, <1>3, <1>4, ExpiryFrame DEF ExpiryInv
<1>5. ASSUME NEW r \in Requests, StartCreate(r) PROVE ExpiryInv'
  <2>1. UNCHANGED clock /\ \E c \in CreateCall : Arrive(r, c)
    BY <1>5 DEF StartCreate
  <2>2. /\ pc'[r] \in {"error", "insert"}
        /\ \A q \in Requests \ {r} : rec'[q] = rec[q] /\ pc'[q] = pc[q]
    BY <1>5 DEF StartCreate, TypeInv, TypeOK, Arrive
  <2>3. QED
    BY <1>3, <1>4, <2>1, <2>2 DEF Arrive, TypeInv, TypeOK
<1>6. ASSUME NEW r \in Requests, StartDelete(r) PROVE ExpiryInv'
  BY <1>3, <1>4, <1>6 DEF StartDelete, Arrive, TypeInv, TypeOK
<1>7. ASSUME NEW r \in Requests, StartCached(r) PROVE ExpiryInv'
  <2>1. UNCHANGED clock /\ \E c \in CachedCall : Arrive(r, c)
    BY <1>7 DEF StartCached
  <2>2. /\ pc'[r] \in {"error", "kvGet"}
        /\ \A q \in Requests \ {r} : rec'[q] = rec[q] /\ pc'[q] = pc[q]
    BY <1>7 DEF StartCached, TypeInv, TypeOK, Arrive
  <2>3. QED
    BY <1>3, <1>4, <2>1, <2>2 DEF Arrive, TypeInv, TypeOK
<1>8. ASSUME NEW r \in Requests,
             \/ InsertRow(r) \/ FindRow(r) \/ DeleteRow(r) \/ KvGet(r)
             \/ Drop(r) \/ DbGet(r)
      PROVE  ExpiryInv'
  <2>1. /\ UNCHANGED <<clock, request>>
        /\ pc'[r] \notin Checked \cup {"ok", "idle"}
        /\ pc[r] # "idle"
        /\ \A q \in Requests \ {r} : rec'[q] = rec[q] /\ pc'[q] = pc[q]
    BY <1>8 DEF InsertRow, FindRow, DeleteRow, KvGet, Drop, DbGet, TypeInv, TypeOK
  <2>2. QED
    BY <1>4, <2>1 DEF ExpiryInv
<1>9. ASSUME NEW r \in Requests, CacheNew(r) PROVE ExpiryInv'
  <2>1. call[r].op = "create"
    BY <1>9 DEF CacheNew, TypeInv, Flow, CreateCall
  <2>2. QED
    BY <1>4, <1>9, <2>1 DEF CacheNew, TypeInv, TypeOK, ExpiryInv
<1>10. ASSUME NEW r \in Requests, Invalidate(r) PROVE ExpiryInv'
  <2>1. call[r].op = "delete"
    BY <1>10 DEF Invalidate, TypeInv, Flow, DeleteCall
  <2>2. QED
    BY <1>4, <1>10, <2>1 DEF Invalidate, TypeInv, TypeOK, ExpiryInv
<1>11. ASSUME NEW r \in Requests, CheckHit(r) \/ CheckRow(r) PROVE ExpiryInv'
  <2>1. /\ UNCHANGED <<clock, request>>
        /\ pc[r] # "idle"
        /\ pc[r] \in Loaded
        /\ pc'[r] \notin {"ok", "idle"}
        /\ pc'[r] \in Checked => /\ ~isExpired(clock, rec[r].info.expireAt)
                                 /\ rec'[r] = rec[r]
        /\ \A q \in Requests \ {r} : rec'[q] = rec[q] /\ pc'[q] = pc[q]
    BY <1>11 DEF CheckHit, CheckRow, TypeInv, TypeOK
  <2>2. rec[r].info.expireAt \in Nat /\ since[r] \in Nat /\ since[r] <= clock
    BY <2>1 DEF TypeInv, TypeOK, Record, Info, ExpiryInv
  <2>3. pc'[r] \in Checked => ~isExpired(since[r], rec[r].info.expireAt)
    BY <1>3, <2>1, <2>2, ExpiryMonotone
  <2>4. QED
    BY <1>4, <2>1, <2>2, <2>3
<1>12. ASSUME NEW r \in Requests, Fill(r) PROVE ExpiryInv'
  BY <1>4, <1>12 DEF Fill, TypeInv, TypeOK, ExpiryInv
<1>13. ASSUME NEW r \in Requests, Use(r) \/ UpdateRow(r) \/ Refresh(r)
       PROVE  ExpiryInv'
  <2>1. /\ UNCHANGED <<clock, request>>
        /\ pc[r] \in Checked
        /\ pc'[r] # "idle"
        /\ pc'[r] \in Checked => rec'[r].info = rec[r].info
        /\ \A q \in Requests \ {r} : rec'[q] = rec[q] /\ pc'[q] = pc[q]
    BY <1>13 DEF Use, UpdateRow, Refresh, TypeInv, TypeOK, Record
  <2>2. since[r] <= clock /\ ~isExpired(since[r], rec[r].info.expireAt)
    BY <2>1 DEF ExpiryInv
  <2>3. Stored(row(r)) /\ row(r).info = rec[r].info
    BY <2>1 DEF CacheFaithful, Faithful
  <2>4. share(r) \in ShareIDs
    BY <2>1, CallShare DEF TypeInv, TypeOK
  <2>5. QED
    BY <1>1, <1>4, <2>1, <2>2, <2>3, <2>4 DEF RowsKept
<1>14. ASSUME NEW r \in Requests, Finish(r) PROVE ExpiryInv'
  BY <1>4, <1>14 DEF Finish, TypeInv, TypeOK
<1>15. ASSUME Restart PROVE ExpiryInv'
  BY <1>15 DEF Restart, ExpiryInv
<1>16. ASSUME Tick \/ (\E s \in ShareIDs : Evict(s)) \/ UNCHANGED vars PROVE ExpiryInv'
  <2>1. /\ UNCHANGED <<pc, call, since, rec>>
        /\ clock <= clock'
    BY <1>3, <1>16 DEF Tick, Evict, vars
  <2>2. QED
    BY <1>1, <1>3, <2>1, ExpiryFrame DEF ExpiryInv
<1>17. QED
  BY <1>5, <1>6, <1>7, <1>8, <1>9, <1>10, <1>11, <1>12, <1>13, <1>14, <1>15, <1>16
     DEF Next

\* A share that had expired when a request arrived is not served to it.
THEOREM ExpiredIsNeverServed == Spec => []ExpiredNeverServed
<1>1. ExpiryInv => ExpiredNeverServed
  BY DEF ExpiryInv, ExpiredNeverServed
<1>2. QED
  BY ExpiryInit, ExpiryStep, FaithfulStep, FaithfulInit, Typing, <1>1, PTL DEF Spec

-----------------------------------------------------------------------------
(* Cache lifetimes.  Only CreateShare stores a record with a TTL of its own *)
(* making, and that record has the owner alone on its whitelist; the others *)
(* use ttlFromExpire, whose 0 means that the share has expired.             *)

TTLInv ==
    \A r \in Requests :
        /\ pc[r] \in CreateSteps => rec[r].perms.users = {rec[r].info.owner}
        /\ pc[r] \in {"fill", "refresh"} =>
             /\ ttl[r] <= MaxTTL
             /\ ttl[r] = 0 => /\ rec[r].info.expireAt # 0
                              /\ rec[r].info.expireAt <= clock

LifetimeInv == TTLInv /\ ChangedEntriesExpire

\* An entry with a TTL that satisfies TTLInv is short-lived.
LEMMA EncodeShortLived ==
    ASSUME NEW record \in Record, NEW t \in Nat, clock \in Nat, t <= MaxTTL,
           t = 0 => record.info.expireAt # 0 /\ record.info.expireAt <= clock
    PROVE  ShortLived(Encode(record, t, clock).deadline, record.info)
<1>1. MaxTTL \in Nat
  BY RecordAssumptions
<1>2. CASE t = 0
  BY <1>2 DEF ShortLived
<1>3. CASE t > 0
  BY <1>1, <1>3 DEF ShortLived, Encode
<1>4. QED
  BY <1>2, <1>3

LEMMA LifetimeInit == Init => LifetimeInv
  BY DEF Init, LifetimeInv, TTLInv, ChangedEntriesExpire, Lasting

LEMMA TTLStep == TypeInv /\ TTLInv /\ [Next]_vars => TTLInv'
<1> SUFFICES ASSUME TypeInv, TTLInv, [Next]_vars PROVE TTLInv'
  OBVIOUS
<1> USE DEF TypeInv, TypeOK, TTLInv
<1>1. ASSUME NEW r \in Requests, StartCreate(r) PROVE TTLInv'
  <2>1. /\ UNCHANGED clock
        /\ pc'[r] \in {"error", "insert"}
        /\ pc'[r] = "insert" => \E c \in CreateCall : rec'[r] = NewRecord(c, clock)
        /\ \A q \in Requests \ {r} : /\ pc'[q] = pc[q] /\ rec'[q] = rec[q]
                                     /\ ttl'[q] = ttl[q]
    BY <1>1 DEF StartCreate, Arrive
  <2>2. pc'[r] = "insert" => rec'[r].perms.users = {rec'[r].info.owner}
    <3>1. \A c \in CreateCall : NewRecord(c, clock).perms.users
                                   = {NewRecord(c, clock).info.owner}
      BY DEF NewRecord
    <3>2. QED
      BY <2>1, <3>1
  <2>3. QED
    BY <2>1, <2>2
<1>2. ASSUME NEW r \in Requests, CheckRow(r) PROVE TTLInv'
  <2>1. rec[r].info.expireAt \in Nat
    BY <1>2 DEF CheckRow, Record, Info
  <2>2. LET t == ttlFromExpire(rec[r].info.expireAt, clock)
        IN  /\ t <= MaxTTL
            /\ t = 0 => rec[r].info.expireAt # 0 /\ rec[r].info.expireAt <= clock
    BY <2>1, TTLBounds
  <2>3. QED
    BY <1>2, <2>2 DEF CheckRow
<1>3. ASSUME NEW r \in Requests, UpdateRow(r) PROVE TTLInv'
  <2>1. rec[r].info.expireAt \in Nat
    BY <1>3 DEF UpdateRow, Record, Info
  <2>2. LET t == ttlFromExpire(rec[r].info.expireAt, clock)
        IN  /\ t <= MaxTTL
            /\ t = 0 => rec[r].info.expireAt # 0 /\ rec[r].info.expireAt <= clock
    BY <2>1, TTLBounds
  <2>3. QED
    BY <1>3, <2>2 DEF UpdateRow
<1>4. ASSUME NEW r \in Requests,
             \/ InsertRow(r) \/ CacheNew(r) \/ FindRow(r) \/ DeleteRow(r)
             \/ Invalidate(r) \/ KvGet(r) \/ CheckHit(r) \/ Drop(r) \/ DbGet(r)
             \/ Fill(r) \/ Use(r) \/ Refresh(r) \/ Finish(r)
      PROVE  TTLInv'
  <2>1. /\ UNCHANGED clock
        /\ \A q \in Requests \ {r} : /\ pc'[q] = pc[q] /\ rec'[q] = rec[q]
                                     /\ ttl'[q] = ttl[q]
        /\ pc'[r] \notin {"insert", "fill", "refresh"}
        /\ pc'[r] = "cacheNew" => pc[r] = "insert" /\ rec'[r] = rec[r]
    BY <1>4 DEF InsertRow, CacheNew, FindRow, DeleteRow, Invalidate, KvGet,
       CheckHit, Drop, DbGet, Fill, Use, Refresh, Finish
  <2>2. QED
    BY <2>1
<1>5. ASSUME NEW r \in Requests, StartDelete(r) \/ StartCached(r) PROVE TTLInv'
  <2>1. /\ UNCHANGED clock
        /\ \A q \in Requests \ {r} : /\ pc'[q] = pc[q] /\ rec'[q] = rec[q]
                                     /\ ttl'[q] = ttl[q]
        /\ pc'[r] \in {"find", "kvGet", "error"}
    BY <1>5 DEF StartDelete, StartCached, Arrive
  <2>2. QED
    BY <2>1
<1>6. ASSUME Restart PROVE TTLInv'
  BY <1>6 DEF Restart
<1>7. ASSUME Tick PROVE TTLInv'
  <2>1. \A r \in Requests : pc[r] \in {"fill", "refresh"}
                              => rec[r].info.expireAt \in Nat
    BY DEF Record, Info
  <2>2. QED
    BY <1>7, <2>1 DEF Tick
<1>8. ASSUME (\E s \in ShareIDs : Evict(s)) \/ UNCHANGED vars PROVE TTLInv'
  BY <1>8 DEF Evict, vars
<1>9. QED
  BY <1>1, <1>2, <1>3, <1>4, <1>5, <1>6, <1>7, <1>8 DEF Next

LEMMA LifetimeStep == TypeInv /\ LifetimeInv /\ [Next]_vars => LifetimeInv'
<1> SUFFICES ASSUME TypeInv, LifetimeInv, [Next]_vars PROVE LifetimeInv'
  OBVIOUS
<1> USE DEF LifetimeInv, ChangedEntriesExpire
<1>1. TTLInv' /\ TypeInv'
  BY TTLStep, TypeStep
<1>2. clock \in Nat /\ clock' \in Nat
  BY <1>1 DEF TypeInv, TypeOK
\* What does not last now does not last later.
<1>3. ASSUME clock <= clock', NEW e \in Entry \cup {NoEntry}, ~Lasting(e)
      PROVE  ~Lasting(e)'
  <2>1. MaxTTL \in Nat
    BY RecordAssumptions
  <2>2. e # NoEntry => e.deadline \in Nat /\ e.rec.info.expireAt \in Nat
    BY DEF Entry, Record, Info
  <2>3. QED
    BY <1>2, <1>3, <2>1, <2>2 DEF Lasting, ShortLived
\* Entries and copies only come from what was an entry or a copy.
<1>4. ASSUME clock <= clock',
             \A s \in ShareIDs :
                 /\ kv'[s] \in {kv[s], NoEntry}
                 /\ hot'[s] \in {hot[s], kv[s], NoEntry}
      PROVE  ChangedEntriesExpire'
  <2>1. \A s \in ShareIDs : kv[s] \in Entry \cup {NoEntry}
                              /\ hot[s] \in Entry \cup {NoEntry}
    BY DEF TypeInv, TypeOK
  <2>2. ~Lasting(NoEntry)
    BY DEF Lasting
  <2>3. ASSUME NEW s \in ShareIDs, NEW e \in {kv[s], hot[s], NoEntry}
        PROVE  ~Lasting(e)'
    BY <1>3, <1>4, <2>1, <2>2
  <2>4. QED
    BY <1>4, <2>3 DEF Lasting, ShortLived
<1>5. ASSUME NEW r \in Requests, CacheNew(r) \/ Fill(r) \/ Refresh(r)
      PROVE  ChangedEntriesExpire'
  <2>1. /\ UNCHANGED <<clock, hot>>
        /\ \/ kv' = [kv EXCEPT ![share(r)] = Encode(rec[r], ttl[r], clock)]
           \/ UNCHANGED kv
        /\ pc[r] \in {"cacheNew", "fill", "refresh"}
    BY <1>5 DEF CacheNew, Fill, Refresh, kvSet, Lost, CallFails
  <2>2. /\ share(r) \in ShareIDs
        /\ rec[r] \in Record
        /\ ttl[r] \in Nat
    BY <2>1, CallShare DEF TypeInv, TypeOK
  <2>3. \/ rec[r].perms.users = {rec[r].info.owner}
        \/ ShortLived(Encode(rec[r], ttl[r], clock).deadline, rec[r].info)
    BY <1>2, <2>1, <2>2, EncodeShortLived DEF TTLInv
  <2>4. Encode(rec[r], ttl[r], clock).rec = rec[r]
    BY DEF Encode
  <2>5. QED
    BY <2>1, <2>2, <2>3, <2>4 DEF Lasting, ShortLived, TypeInv, TypeOK
<1>6. ASSUME NEW r \in Requests, KvGet(r) PROVE ChangedEntriesExpire'
  <2>1. /\ UNCHANGED clock
        /\ \A s \in ShareIDs : kv'[s] = kv[s] \/ kv'[s] = NoEntry
    BY <1>6 DEF KvGet, CallFails, TypeInv, TypeOK
  <2>2. hot' = hot \/ hot' = [hot EXCEPT ![share(r)] = Shown(share(r))]
    BY <1>6 DEF KvGet, KeepCopy
  <2>3. \A s \in ShareIDs : hot'[s] \in {hot[s], kv[s]}
    BY <2>2 DEF Shown, TypeInv, TypeOK
  <2>4. QED
    BY <1>2, <1>4, <2>1, <2>3
<1>7. ASSUME NEW r \in Requests, Drop(r) \/ Invalidate(r)
      PROVE  ChangedEntriesExpire'
  <2>1. /\ UNCHANGED <<clock, hot>>
        /\ \A s \in ShareIDs : kv'[s] = kv[s] \/ kv'[s] = NoEntry
    BY <1>7 DEF Drop, Invalidate, kvDel, Lost, CallFails, TypeInv, TypeOK
  <2>2. QED
    BY <1>2, <1>4, <2>1
<1>8. ASSUME Restart \/ (\E s \in ShareIDs : Evict(s))
      PROVE  ChangedEntriesExpire'
  <2>1. /\ UNCHANGED clock
        /\ \A s \in ShareIDs : kv'[s] \in {kv[s], NoEntry} /\ hot'[s] \in {hot[s], NoEntry}
    BY <1>8 DEF Restart, Evict, CallFails, TypeInv, TypeOK
  <2>2. QED
    BY <1>2, <1>4, <2>1
<1>9. CASE Tick
  BY <1>1, <1>2, <1>4, <1>9 DEF Tick
<1>10. CASE UNCHANGED <<kv, hot, clock>>
  BY <1>1, <1>2, <1>4, <1>10
<1>11. QED
  BY <1>1, <1>5, <1>6, <1>7, <1>8, <1>9, <1>10
     DEF Next, vars, StartCreate, InsertRow, StartDelete, FindRow, DeleteRow,
         StartCached, CheckHit, DbGet, CheckRow, Use, UpdateRow, Finish

\* A cached record whose whitelist is not just the owner, and the group's copy of
\* one, are gone within MaxTTL, or are of a share that has expired.
THEOREM ChangedEntriesDoExpire == Spec => []ChangedEntriesExpire
<1>1. LifetimeInv => ChangedEntriesExpire
  BY DEF LifetimeInv
<1>2. QED
  BY LifetimeInit, LifetimeStep, Typing, <1>1, PTL DEF Spec

-----------------------------------------------------------------------------
(* Coherence.  On a share that is not disturbed a writer is alone, so what  *)
(* the other requests have loaded is what the table holds, and an entry     *)
(* that differs from the row is one whose writer is about to replace it.    *)

Current(s, record) == Live(db[s]) /\ record = ToRecord(db[s])

\* The steps at which the local record is the row's.
CurrentSteps == {"cacheNew", "checkHit", "checkRow", "fill", "use", "refresh"}

WriterAlone ==
    \A r, q \in Requests :
        /\ r # q
        /\ InFlight(r) /\ InFlight(q)
        /\ share(r) = share(q)
        /\ share(r) \notin disturbed
        => call[r].op \notin WriteOps

LocalCurrent ==
    \A r \in Requests :
        share(r) \notin disturbed =>
            /\ pc[r] \in CurrentSteps => Current(share(r), rec[r])
            /\ pc[r] = "update" => Live(row(r))

EntryCurrent ==
    \A s \in ShareIDs \ disturbed :
        kv[s] # NoEntry =>
            \/ Current(s, kv[s].rec)
            \/ \E r \in Requests : pc[r] \in {"refresh", "invalidate"} /\ share(r) = s

\* Only groupcache keeps copies.
NoCopies == \A s \in ShareIDs : hot[s] = NoEntry

Coherent == WriterAlone /\ LocalCurrent /\ EntryCurrent /\ NoCopies
CoherenceInv == kvType # "groupcache" => Coherent

\* The operation of a request that is about to write, or has written.
LEMMA WritersWrite ==
    ASSUME TypeInv, NEW r \in Requests,
           pc[r] \in CreateSteps \cup DeleteSteps \cup ChangeSteps
    PROVE  call[r].op \in WriteOps /\ InFlight(r)
<1>1. CASE pc[r] \in CreateSteps
  BY <1>1 DEF TypeInv, Flow, CreateCall, WriteOps, InFlight
<1>2. CASE pc[r] \in DeleteSteps
  BY <1>2 DEF TypeInv, Flow, DeleteCall, WriteOps, InFlight
<1>3. CASE pc[r] \in ChangeSteps
  BY <1>3 DEF TypeInv, Flow, WriteOps, InFlight
<1>4. QED
  BY <1>1, <1>2, <1>3

LEMMA CoherenceInit == Init => CoherenceInv
  BY DEF Init, CoherenceInv, Coherent, WriterAlone, LocalCurrent, EntryCurrent,
         NoCopies, InFlight, CurrentSteps

\* A step of r that starts no request keeps writers alone.
LEMMA AloneFrame ==
    ASSUME WriterAlone, NEW r \in Requests, UNCHANGED call,
           disturbed \subseteq disturbed',
           \A q \in Requests \ {r} : pc'[q] = pc[q],
           InFlight(r)
    PROVE  WriterAlone'
  BY DEF WriterAlone, InFlight

LEMMA AloneStep == TypeInv /\ WriterAlone /\ [Next]_vars => WriterAlone'
<1> SUFFICES ASSUME TypeInv, WriterAlone, [Next]_vars PROVE WriterAlone'
  OBVIOUS
<1>1. ASSUME NEW r \in Requests, NEW c \in Call, Arrive(r, c),
             \A q \in Requests \ {r} : pc'[q] = pc[q]
      PROVE  WriterAlone'
  <2> SUFFICES ASSUME NEW p \in Requests, NEW q \in Requests, p # q,
                      InFlight(p)', InFlight(q)', share(p)' = share(q)',
                      share(p)' \notin disturbed'
               PROVE  call'[p].op \notin WriteOps
    BY DEF WriterAlone
  <2>1. disturbed \subseteq disturbed'
    BY <1>1 DEF Arrive
  <2>2. call'[r] = c /\ \A x \in Requests \ {r} : call'[x] = call[x]
    BY <1>1 DEF Arrive, TypeInv, TypeOK
  <2>3. CASE p # r /\ q # r
    BY <1>1, <2>1, <2>2, <2>3 DEF WriterAlone, InFlight
  <2>4. CASE p = r \/ q = r
    <3>1. ~Overlaps(r, c)
      BY <1>1, <2>2, <2>4 DEF Arrive
    <3>2. QED
      BY <1>1, <2>2, <2>4, <3>1 DEF Overlaps, InFlight
  <2>5. QED
    BY <2>3, <2>4
<1>2. ASSUME NEW r \in Requests, StartCreate(r) PROVE WriterAlone'
  <2>1. /\ \E c \in CreateCall : Arrive(r, c)
        /\ \A q \in Requests \ {r} : pc'[q] = pc[q]
    BY <1>2 DEF StartCreate, TypeInv, TypeOK
  <2>2. QED
    BY <1>1, <2>1 DEF Call
<1>3. ASSUME NEW r \in Requests, StartDelete(r) PROVE WriterAlone'
  BY <1>1, <1>3 DEF StartDelete, Call, TypeInv, TypeOK
<1>4. ASSUME NEW r \in Requests, StartCached(r) PROVE WriterAlone'
  <2>1. /\ \E c \in CachedCall : Arrive(r, c)
        /\ \A q \in Requests \ {r} : pc'[q] = pc[q]
    BY <1>4 DEF StartCached, TypeInv, TypeOK
  <2>2. QED
    BY <1>1, <2>1 DEF Call
<1>5. ASSUME NEW r \in Requests,
             \/ InsertRow(r) \/ CacheNew(r) \/ FindRow(r) \/ DeleteRow(r)
             \/ Invalidate(r) \/ KvGet(r) \/ CheckHit(r) \/ Drop(r) \/ DbGet(r)
             \/ CheckRow(r) \/ Fill(r) \/ Use(r) \/ UpdateRow(r) \/ Refresh(r)
      PROVE  WriterAlone'
  <2>1. /\ UNCHANGED call
        /\ disturbed \subseteq disturbed'
        /\ \A q \in Requests \ {r} : pc'[q] = pc[q]
        /\ InFlight(r)
    BY <1>5 DEF InsertRow, CacheNew, FindRow, DeleteRow, Invalidate, KvGet,
       CheckHit, Drop, DbGet, CheckRow, Fill, Use, UpdateRow, Refresh, Lost,
       InFlight, TypeInv, TypeOK
  <2>2. QED
    BY <2>1, AloneFrame
<1>6. ASSUME NEW r \in Requests, Finish(r) PROVE WriterAlone'
  BY <1>6 DEF Finish, WriterAlone, InFlight
<1>7. ASSUME Restart PROVE WriterAlone'
  BY <1>7 DEF Restart, WriterAlone, InFlight
<1>8. ASSUME Tick \/ (\E s \in ShareIDs : Evict(s)) \/ UNCHANGED vars
      PROVE  WriterAlone'
  BY <1>8 DEF Tick, Evict, vars, WriterAlone, InFlight
<1>9. QED
  BY <1>2, <1>3, <1>4, <1>5, <1>6, <1>7, <1>8 DEF Next

LocalCurrentOf(r) ==
    share(r) \notin disturbed =>
        /\ pc[r] \in CurrentSteps => Current(share(r), rec[r])
        /\ pc[r] = "update" => Live(row(r))

\* A step of r leaves the loaded records of the others current: if it writes
\* their row, r is a writer, and they are not there.
LEMMA LocalFrame ==
    ASSUME TypeInv, WriterAlone, LocalCurrent, NEW r \in Requests,
           disturbed \subseteq disturbed',
           \A q \in Requests \ {r} : /\ pc'[q] = pc[q]
                                     /\ call'[q] = call[q]
                                     /\ rec'[q] = rec[q],
           \/ UNCHANGED db
           \/ /\ pc[r] \in CreateSteps \cup DeleteSteps \cup ChangeSteps
              /\ \A s \in ShareIDs \ {share(r)} : db'[s] = db[s],
           LocalCurrentOf(r)'
    PROVE  LocalCurrent'
<1>1. ASSUME NEW q \in Requests \ {r} PROVE LocalCurrentOf(q)'
  <2>1. CASE pc[q] \notin CurrentSteps \cup {"update"}
    BY <2>1 DEF LocalCurrentOf
  <2>2. CASE UNCHANGED db
    BY <2>2 DEF LocalCurrentOf, LocalCurrent, Current
  <2>3. CASE /\ pc[q] \in CurrentSteps \cup {"update"}
             /\ pc[r] \in CreateSteps \cup DeleteSteps \cup ChangeSteps
             /\ \A s \in ShareIDs \ {share(r)} : db'[s] = db[s]
    <3>1. InFlight(q) /\ share(q) \in ShareIDs
      BY <2>3, CallShare DEF InFlight, CurrentSteps, TypeInv, TypeOK
    <3>2. share(q) = share(r) => share(q) \in disturbed
      BY <2>3, <3>1, WritersWrite DEF WriterAlone
    <3>3. QED
      BY <2>3, <3>1, <3>2 DEF LocalCurrentOf, LocalCurrent, Current
  <2>4. QED
    BY <2>1, <2>2, <2>3
<1>2. QED
  BY <1>1 DEF LocalCurrent, LocalCurrentOf

LEMMA LocalStep ==
    TypeInv /\ CacheFaithful /\ Coherent /\ [Next]_vars => LocalCurrent'
<1> SUFFICES ASSUME TypeInv, CacheFaithful, Coherent, [Next]_vars
             PROVE  LocalCurrent'
  OBVIOUS
<1> USE DEF Coherent, TypeInv, TypeOK
<1> DEFINE Others(r) == \A q \in Requests \ {r} : /\ pc'[q] = pc[q]
                                                  /\ call'[q] = call[q]
                                                  /\ rec'[q] = rec[q]
<1>1. ASSUME NEW r \in Requests,
             StartCreate(r) \/ StartDelete(r) \/ StartCached(r)
      PROVE  LocalCurrent'
  <2>1. /\ UNCHANGED db
        /\ disturbed \subseteq disturbed'
        /\ Others(r)
        /\ pc'[r] \notin CurrentSteps \cup {"update"}
    BY <1>1 DEF StartCreate, StartDelete, StartCached, Arrive, CurrentSteps
  <2>2. QED
    BY <2>1, LocalFrame DEF LocalCurrentOf
<1>2. ASSUME NEW r \in Requests, InsertRow(r) PROVE LocalCurrent'
  <2>1. share(r) \in ShareIDs /\ rec[r] \in Record /\ pc[r] \in CreateSteps
    BY <1>2, CallShare DEF InsertRow
  <2>2. /\ \A s \in ShareIDs \ {share(r)} : db'[s] = db[s]
        /\ UNCHANGED <<call, disturbed>>
        /\ Others(r)
    BY <1>2, <2>1 DEF InsertRow
  <2>3. LocalCurrentOf(r)'
    <3>1. CASE Continue(r, "cacheNew")
      <4>1. db'[share(r)] = [info |-> rec[r].info, perms |-> rec[r].perms,
                             deletedAt |-> 0]
        BY <1>2, <2>1, <3>1 DEF InsertRow
      <4>2. [info |-> rec[r].info, perms |-> rec[r].perms] = rec[r]
        BY <2>1 DEF Record
      <4>3. Live(db'[share(r)]) /\ ToRecord(db'[share(r)]) = rec[r]
        BY <4>1, <4>2, NewRow
      <4>4. share(r)' = share(r) /\ rec'[r] = rec[r] /\ pc'[r] = "cacheNew"
        BY <2>2, <3>1
      <4>5. QED
        BY <4>3, <4>4 DEF LocalCurrentOf, Current
    <3>2. CASE Leave(r, "error")
      BY <3>2 DEF LocalCurrentOf, CurrentSteps
    <3>3. QED
      BY <1>2, <3>1, <3>2 DEF InsertRow
  <2>4. QED
    BY <2>1, <2>2, <2>3, LocalFrame
<1>3. ASSUME NEW r \in Requests, DeleteRow(r) PROVE LocalCurrent'
  <2>1. /\ share(r) \in ShareIDs
        /\ pc[r] \in DeleteSteps
        /\ pc'[r] \notin CurrentSteps \cup {"update"}
        /\ disturbed \subseteq disturbed'
        /\ Others(r)
    BY <1>3, CallShare DEF DeleteRow, CurrentSteps
  <2>2. \A s \in ShareIDs \ {share(r)} : db'[s] = db[s]
    BY <1>3, <2>1 DEF DeleteRow, SoftDelete
  <2>3. QED
    BY <2>1, <2>2, LocalFrame DEF LocalCurrentOf
<1>4. ASSUME NEW r \in Requests,
             \/ CacheNew(r) \/ FindRow(r) \/ Invalidate(r) \/ Drop(r)
             \/ Refresh(r) \/ Finish(r)
      PROVE  LocalCurrent'
  <2>1. /\ UNCHANGED db
        /\ disturbed \subseteq disturbed'
        /\ Others(r)
        /\ pc'[r] \notin CurrentSteps \cup {"update"}
    BY <1>4 DEF CacheNew, FindRow, Invalidate, Drop, Refresh, Finish, Lost,
       CurrentSteps
  <2>2. QED
    BY <2>1, LocalFrame DEF LocalCurrentOf
<1>5. ASSUME NEW r \in Requests, KvGet(r) PROVE LocalCurrent'
  <2>1. /\ UNCHANGED <<db, call, disturbed>>
        /\ Others(r)
        /\ share(r) \in ShareIDs
        /\ InFlight(r)
    BY <1>5, CallShare DEF KvGet, InFlight
  <2>2. \/ pc'[r] \notin CurrentSteps \cup {"update"}
        \/ /\ pc'[r] = "checkHit"
           /\ kv[share(r)] # NoEntry
           /\ rec'[r] = kv[share(r)].rec
    BY <1>5, <2>1 DEF KvGet, Hit, Shown, NoCopies, CurrentSteps
  <2>3. share(r) \notin disturbed /\ kv[share(r)] # NoEntry
          => Current(share(r), kv[share(r)].rec)
    <3> SUFFICES ASSUME share(r) \notin disturbed,
                        NEW q \in Requests, pc[q] \in {"refresh", "invalidate"},
                        share(q) = share(r)
                 PROVE  FALSE
      BY <2>1 DEF EntryCurrent
    <3>1. call[q].op \in WriteOps /\ InFlight(q)
      BY WritersWrite
    <3>2. q # r
      BY <1>5 DEF KvGet
    <3>3. QED
      BY <2>1, <3>1, <3>2 DEF WriterAlone
  <2>4. QED
    BY <2>1, <2>2, <2>3, LocalFrame DEF LocalCurrentOf, Current
<1>6. ASSUME NEW r \in Requests, CheckHit(r) \/ CheckRow(r) \/ Fill(r)
      PROVE  LocalCurrent'
  <2>1. /\ UNCHANGED <<db, call, disturbed>>
        /\ Others(r)
        /\ pc[r] \in CurrentSteps
        /\ pc'[r] # "update"
        /\ pc'[r] \in CurrentSteps => rec'[r] = rec[r]
    BY <1>6 DEF CheckHit, CheckRow, Fill, CurrentSteps
  <2>2. QED
    BY <2>1, LocalFrame DEF LocalCurrentOf, LocalCurrent, Current
<1>7. ASSUME NEW r \in Requests, DbGet(r) PROVE LocalCurrent'
  <2>1. /\ UNCHANGED <<db, call, disturbed>>
        /\ Others(r)
        /\ \/ pc'[r] \notin CurrentSteps \cup {"update"}
           \/ pc'[r] = "checkRow" /\ Current(share(r), rec'[r])
    BY <1>7 DEF DbGet, CurrentSteps, Current
  <2>2. QED
    BY <2>1, LocalFrame DEF LocalCurrentOf, Current
<1>8. ASSUME NEW r \in Requests, Use(r) PROVE LocalCurrent'
  <2>1. /\ UNCHANGED <<db, call, disturbed>>
        /\ Others(r)
        /\ pc[r] \in CurrentSteps
        /\ pc'[r] \notin CurrentSteps
    BY <1>8 DEF Use, CurrentSteps
  <2>2. QED
    BY <2>1, LocalFrame DEF LocalCurrentOf, LocalCurrent, Current
<1>9. ASSUME NEW r \in Requests, UpdateRow(r) PROVE LocalCurrent'
  <2>1. /\ share(r) \in ShareIDs
        /\ rec[r] \in Record
        /\ pc[r] = "update"
        /\ disturbed \subseteq disturbed'
        /\ UNCHANGED call
        /\ Others(r)
    BY <1>9, CallShare DEF UpdateRow
  <2>2. \A s \in ShareIDs \ {share(r)} : db'[s] = db[s]
    BY <1>9, <2>1 DEF UpdateRow, SetPermissions
  <2>3. LocalCurrentOf(r)'
    <3>1. CASE pc'[r] = "error"
      BY <3>1 DEF LocalCurrentOf, CurrentSteps
    <3>2. CASE SetPermissions(r) /\ Goto(r, "refresh") /\ UNCHANGED <<rec, disturbed>>
      <4> SUFFICES ASSUME share(r) \notin disturbed
                   PROVE  Current(share(r), rec[r])'
        BY <2>1, <3>2 DEF LocalCurrentOf, CurrentSteps
      <4>1. Live(row(r)) /\ rec[r].info = row(r).info
        BY <2>1 DEF LocalCurrent, CacheFaithful, Faithful
      <4>2. row(r) \in Row
        BY <2>1, <4>1 DEF Live, Stored
      <4>3. db'[share(r)] = [row(r) EXCEPT !.perms = rec[r].perms]
        BY <2>1, <3>2, <4>1 DEF SetPermissions
      <4>4. QED
        BY <2>1, <3>2, <4>1, <4>2, <4>3
           DEF Current, Live, Stored, NoRow, Row, ToRecord, Record
    <3>3. QED
      BY <1>9, <3>1, <3>2 DEF UpdateRow
  <2>4. QED
    BY <2>1, <2>2, <2>3, LocalFrame
<1>10. ASSUME Restart PROVE LocalCurrent'
  BY <1>10 DEF Restart, LocalCurrent, CurrentSteps
<1>11. ASSUME Tick \/ (\E s \in ShareIDs : Evict(s)) \/ UNCHANGED vars
       PROVE  LocalCurrent'
  BY <1>11 DEF Tick, Evict, vars, LocalCurrent, Current
<1>12. QED
  BY <1>1, <1>2, <1>3, <1>4, <1>5, <1>6, <1>7, <1>8, <1>9, <1>10, <1>11 DEF Next

EntryCurrentOf(s) ==
    kv[s] # NoEntry =>
        \/ Current(s, kv[s].rec)
        \/ \E r \in Requests : pc[r] \in {"refresh", "invalidate"} /\ share(r) = s

\* A step of r keeps the entry of s if it touches neither the entry nor the
\* row, and r is not the writer that excuses the entry.
LEMMA EntryFrame ==
    ASSUME EntryCurrent, NEW r \in Requests, NEW s \in ShareIDs,
           s \notin disturbed,
           kv'[s] = kv[s] \/ kv'[s] = NoEntry,
           db'[s] = db[s],
           \A q \in Requests \ {r} : pc'[q] = pc[q] /\ call'[q] = call[q],
           share(r) # s \/ pc[r] \notin {"refresh", "invalidate"}
    PROVE  EntryCurrentOf(s)'
  BY DEF EntryCurrent, EntryCurrentOf, Current

LEMMA EntryStep ==
    TypeInv /\ CacheFaithful /\ Coherent /\ [Next]_vars => EntryCurrent'
<1> SUFFICES ASSUME TypeInv, CacheFaithful, Coherent, [Next]_vars,
                    NEW s \in ShareIDs, s \notin disturbed'
             PROVE  EntryCurrentOf(s)'
  BY DEF EntryCurrent, EntryCurrentOf, Current
<1> USE DEF Coherent, TypeInv, TypeOK
<1> DEFINE Others(r) == \A q \in Requests \ {r} : /\ pc'[q] = pc[q]
                                                  /\ call'[q] = call[q]
<1>1. ASSUME NEW r \in Requests,
             \/ StartCreate(r) \/ StartDelete(r) \/ StartCached(r) \/ FindRow(r)
             \/ KvGet(r) \/ CheckHit(r) \/ Drop(r) \/ DbGet(r) \/ CheckRow(r)
             \/ Use(r) \/ Finish(r)
      PROVE  EntryCurrentOf(s)'
  <2>1. /\ UNCHANGED db
        /\ disturbed \subseteq disturbed'
        /\ Others(r)
        /\ pc[r] \notin {"refresh", "invalidate"}
        /\ kv'[s] = kv[s] \/ kv'[s] = NoEntry
    BY <1>1 DEF StartCreate, StartDelete, StartCached, FindRow, KvGet, CheckHit,
       Drop, DbGet, CheckRow, Use, Finish, Arrive, kvDel, CallFails
  <2>2. QED
    BY <2>1, EntryFrame
<1>2. ASSUME NEW r \in Requests, InsertRow(r) PROVE EntryCurrentOf(s)'
  <2>1. /\ UNCHANGED <<kv, call, disturbed>>
        /\ Others(r)
        /\ pc[r] = "insert"
        /\ db'[s] = db[s] \/ db[s] = NoRow
    BY <1>2 DEF InsertRow
  <2>2. CASE db'[s] = db[s]
    BY <2>1, <2>2, EntryFrame
  <2>3. CASE db[s] = NoRow
    BY <2>1, <2>3 DEF CacheFaithful, Faithful, Stored, EntryCurrentOf
  <2>4. QED
    BY <2>1, <2>2, <2>3
<1>3. ASSUME NEW r \in Requests, CacheNew(r) \/ Fill(r) PROVE EntryCurrentOf(s)'
  <2>1. /\ UNCHANGED <<db, call, disturbed>>
        /\ Others(r)
        /\ pc[r] \in CurrentSteps \ {"refresh", "invalidate"}
        /\ share(r) \in ShareIDs
        /\ UNCHANGED kv \/ kvSet(r)
    BY <1>3, CallShare DEF CacheNew, Fill, CallFails, CurrentSteps
  <2>2. CASE kv'[s] = kv[s]
    BY <2>1, <2>2, EntryFrame
  <2>3. CASE share(r) = s /\ kv'[s] = Encode(rec[r], ttl[r], clock)
    BY <2>1, <2>3 DEF LocalCurrent, EntryCurrentOf, Current, Encode
  <2>4. QED
    BY <2>1, <2>2, <2>3 DEF kvSet
<1>4. ASSUME NEW r \in Requests, DeleteRow(r) \/ UpdateRow(r)
      PROVE  EntryCurrentOf(s)'
  <2>1. /\ UNCHANGED <<kv, call>>
        /\ Others(r)
        /\ share(r) \in ShareIDs
        /\ pc[r] \notin {"refresh", "invalidate"}
        /\ disturbed \subseteq disturbed'
        /\ db'[s] = db[s] \/ share(r) = s
    BY <1>4, CallShare DEF DeleteRow, UpdateRow, SoftDelete, SetPermissions
  <2>2. CASE share(r) # s
    BY <2>1, <2>2, EntryFrame
  <2>3. CASE share(r) = s
    <3>1. pc'[r] \in {"refresh", "invalidate"}
      BY <1>4, <2>1, <2>3 DEF DeleteRow, UpdateRow
    <3>2. QED
      BY <2>1, <2>3, <3>1 DEF EntryCurrentOf
  <2>4. QED
    BY <2>2, <2>3
<1>5. ASSUME NEW r \in Requests, Invalidate(r) \/ Refresh(r)
      PROVE  EntryCurrentOf(s)'
  <2>1. /\ UNCHANGED <<db, call>>
        /\ Others(r)
        /\ share(r) \in ShareIDs
        /\ disturbed \subseteq disturbed'
        /\ kv'[s] = kv[s] \/ share(r) = s
    BY <1>5, CallShare DEF Invalidate, Refresh, kvDel, kvSet, Lost, CallFails
  <2>2. CASE share(r) # s
    BY <2>1, <2>2, EntryFrame
  <2>3. CASE share(r) = s /\ Invalidate(r)
    <3>1. kv'[s] = NoEntry
      BY <2>1, <2>3 DEF Invalidate, kvDel, Lost
    <3>2. QED
      BY <3>1 DEF EntryCurrentOf
  <2>4. CASE share(r) = s /\ Refresh(r)
    <3>1. kv'[s] = Encode(rec[r], ttl[r], clock)
      BY <2>1, <2>4 DEF Refresh, kvSet, Lost
    <3>2. Current(s, rec[r])
      BY <2>1, <2>4 DEF Refresh, LocalCurrent, CurrentSteps
    <3>3. QED
      BY <2>1, <3>1, <3>2 DEF EntryCurrentOf, Current, Encode
  <2>5. QED
    BY <1>5, <2>2, <2>3, <2>4
<1>6. ASSUME Restart PROVE EntryCurrentOf(s)'
  <2>1. \A r \in Requests : pc[r] \in {"refresh", "invalidate"} => share(r) # s
    BY <1>6, WritersWrite DEF Restart
  <2>2. /\ UNCHANGED db
        /\ s \notin disturbed
        /\ kv'[s] = kv[s] \/ kv'[s] = NoEntry
    BY <1>6 DEF Restart, CallFails
  <2>3. QED
    BY <2>1, <2>2 DEF EntryCurrent, EntryCurrentOf, Current
<1>7. ASSUME Tick \/ (\E x \in ShareIDs : Evict(x)) \/ UNCHANGED vars
      PROVE  EntryCurrentOf(s)'
  <2>1. /\ UNCHANGED <<db, pc, call, disturbed>>
        /\ kv'[s] = kv[s] \/ kv'[s] = NoEntry
    BY <1>7 DEF Tick, Evict, vars
  <2>2. QED
    BY <2>1 DEF EntryCurrent, EntryCurrentOf, Current
<1>8. QED
  BY <1>1, <1>2, <1>3, <1>4, <1>5, <1>6, <1>7 DEF Next

LEMMA CopiesStep ==
    TypeInv /\ NoCopies /\ kvType # "groupcache" /\ [Next]_vars => NoCopies'
<1> SUFFICES ASSUME TypeInv, NoCopies, kvType # "groupcache", [Next]_vars
             PROVE  NoCopies'
  OBVIOUS
<1>1. \/ UNCHANGED hot
      \/ \E s \in ShareIDs : Evict(s)
      \/ Restart
  BY DEF Next, vars, StartCreate, InsertRow, CacheNew, StartDelete, FindRow,
     DeleteRow, Invalidate, StartCached, KvGet, KeepCopy, CheckHit, Drop, DbGet,
     CheckRow, Fill, Use, UpdateRow, Refresh, Finish, Tick
<1>2. QED
  BY <1>1 DEF NoCopies, Evict, Restart, TypeInv, TypeOK

LEMMA TypeOfStoreIsKept == [Next]_vars => UNCHANGED kvType
  BY DEF Next, vars, StartCreate, InsertRow, CacheNew, StartDelete, FindRow,
     DeleteRow, Invalidate, StartCached, KvGet, CheckHit, Drop, DbGet, CheckRow,
     Fill, Use, UpdateRow, Refresh, Finish, Evict, Restart, Tick

\* With a store that keeps no copies, without a disturbance, and while nobody
\* writes it, a share that a look-up finds is live and as the table holds it.
THEOREM CacheIsCoherent == Spec => []CacheCoherent
<1>1. TypeInv /\ CoherenceInv => CacheCoherent
  <2> SUFFICES ASSUME TypeInv, Coherent,
                      NEW s \in ShareIDs, s \notin disturbed,
                      Shown(s) # NoEntry, ~BeingWritten(s)
               PROVE  Current(s, Shown(s).rec)
    BY DEF CacheCoherent, CoherenceInv, Current
  <2>1. Shown(s) = kv[s]
    BY DEF Shown, Coherent, NoCopies
  <2>2. QED
    BY <2>1, WritersWrite DEF Coherent, EntryCurrent, BeingWritten
<1>2. CoherenceInv /\ TypeInv /\ CacheFaithful /\ [Next]_vars => CoherenceInv'
  BY AloneStep, LocalStep, EntryStep, CopiesStep, TypeOfStoreIsKept
     DEF CoherenceInv, Coherent
<1>3. QED
  BY CoherenceInit, FaithfulInit, FaithfulStep, Typing, <1>1, <1>2, PTL DEF Spec
=============================================================================
