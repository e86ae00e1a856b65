---------------------------- MODULE ShareRegistry ----------------------------
(***************************************************************************)
(* What ShareService promises its clients, with no cache in sight: shares  *)
(* live in one table; a request changes the table at most once, in one     *)
(* step, and only if it comes from the owner of the share; an answer "ok"  *)
(* is given only to a request the stored share grants, and never for a     *)
(* share that had expired when the request arrived.                        *)
(*                                                                         *)
(* The promise is weak where the code is: the permissions a request reads  *)
(* may be stale, so an "add" only promises that its target is in the       *)
(* whitelist it stores, and a deleted share may still be read.             *)
(***************************************************************************)
EXTENDS ShareRecords

CONSTANTS
    Requests,       \* request slots: the handler goroutines alive at a time
    MaxClock        \* bound on the clock

VARIABLES
    clock,          \* current time
    rows,           \* rows[s]: the row of share s, or NoRow
    stage,          \* stage[r]: where request r is
    call,           \* call[r]: the request itself
    since           \* since[r]: when it arrived

registryVars == <<clock, rows, stage, call, since>>

Stages == {"idle", "pending", "committed", "ok", "error"}

RegistryInit ==
    /\ clock = 1
    /\ rows = [s \in ShareIDs |-> NoRow]
    /\ stage = [r \in Requests |-> "idle"]
    /\ call = [r \in Requests |-> NoCall]
    /\ since = [r \in Requests |-> 0]

Invoke(r) ==
    /\ stage[r] = "idle"
    /\ \E c \in Call :
        /\ c.op \in Ops
        /\ call' = [call EXCEPT ![r] = c]
    /\ since' = [since EXCEPT ![r] = clock]
    /\ \E outcome \in {"pending", "error"} :
        stage' = [stage EXCEPT ![r] = outcome]
    /\ UNCHANGED <<clock, rows>>

\* The share is stored, and it is the caller's.
Owns(r) ==
    /\ Stored(rows[call[r].share])
    /\ rows[call[r].share].info.owner = call[r].user

InsertShare(r) ==
    LET c == call[r]
        new == NewRecord(c, since[r])
    IN  /\ c.op = "create"
        /\ rows[c.share] = NoRow
        /\ rows' = [rows EXCEPT ![c.share] =
                      [info |-> new.info, perms |-> new.perms, deletedAt |-> 0]]

RemoveShare(r) ==
    LET s == call[r].share
    IN  /\ call[r].op = "delete"
        /\ Owns(r)
        /\ IF Live(rows[s])
             THEN rows' = [rows EXCEPT ![s].deletedAt = clock]
             ELSE UNCHANGED rows

\* p is a permission set that shows the effect of request c.
Reflects(c, p) ==
    CASE c.op = "update" -> p = c.perms
      [] c.op = "add"    -> c.target \in p.users
      [] c.op = "remove" -> c.target \notin p.users

SetPermissions(r) ==
    LET s == call[r].share
    IN  /\ call[r].op \in ChangeOps
        /\ Owns(r)
        /\ IF Live(rows[s])
             THEN \E p \in Permissions :
                    /\ Reflects(call[r], p)
                    /\ rows' = [rows EXCEPT ![s].perms = p]
             ELSE UNCHANGED rows

\* The one step that changes the table; its reply may be lost.
Commit(r) ==
    /\ stage[r] = "pending"
    /\ InsertShare(r) \/ RemoveShare(r) \/ SetPermissions(r)
    /\ \E outcome \in {"committed", "error"} :
        stage' = [stage EXCEPT ![r] = outcome]
    /\ UNCHANGED <<clock, call, since>>

\* A reader may be answered "ok" from a share that grants it.
Entitled(r) ==
    LET c == call[r]
    IN  /\ c.op \notin WriteOps
        /\ Stored(rows[c.share])
        /\ Granted(c, rows[c.share].info)
        /\ ~isExpired(since[r], rows[c.share].info.expireAt)

AnswerOK(r) ==
    /\ \/ stage[r] = "committed"
       \/ stage[r] = "pending" /\ Entitled(r)
    /\ stage' = [stage EXCEPT ![r] = "ok"]
    /\ UNCHANGED <<clock, rows, call, since>>

AnswerError(r) ==
    /\ stage[r] = "pending"
    /\ stage' = [stage EXCEPT ![r] = "error"]
    /\ UNCHANGED <<clock, rows, call, since>>

Leave(r) ==
    /\ stage[r] \in {"ok", "error"}
    /\ stage' = [stage EXCEPT ![r] = "idle"]
    /\ call' = [call EXCEPT ![r] = NoCall]
    /\ since' = [since EXCEPT ![r] = 0]
    /\ UNCHANGED <<clock, rows>>

\* The process dies and comes back: the table stays, the requests are gone.
AbortAll ==
    /\ stage' = [r \in Requests |-> "idle"]
    /\ call' = [r \in Requests |-> NoCall]
    /\ since' = [r \in Requests |-> 0]
    /\ UNCHANGED <<clock, rows>>

Advance ==
    /\ clock < MaxClock
    /\ clock' = clock + 1
    /\ UNCHANGED <<rows, stage, call, since>>

RegistryNext ==
    \/ \E r \in Requests : \/ Invoke(r)
                           \/ Commit(r)
                           \/ AnswerOK(r)
                           \/ AnswerError(r)
                           \/ Leave(r)
    \/ AbortAll
    \/ Advance

RegistrySpec == RegistryInit /\ [][RegistryNext]_registryVars
=============================================================================
