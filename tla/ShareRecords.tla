---------------------------- MODULE ShareRecords ----------------------------
(***************************************************************************)
(* The data of the share service: requests, share records, database rows   *)
(* and key-value entries, with the helpers of service/shares.go that only  *)
(* compute.  ShareRegistry (what the service promises) and ShareService    *)
(* (what the code does) both build on it.                                  *)
(*                                                                         *)
(* Times are naturals; 0 stands for the nil ExpireAt, for the null         *)
(* DeletedAt and for a key-value entry stored without a TTL wrapper.       *)
(***************************************************************************)
EXTENDS Integers

CONSTANTS
    ShareIDs,       \* share identifiers (ULIDs)
    Users,          \* authenticated users; the handlers refuse the empty one
    Secrets,        \* passwords with a non-blank character
    Forms,          \* the bodies of the create requests clients send
    PermissionForms,\* the bodies of their update requests
    DayLength,      \* one day, in clock units
    DefaultTTL,     \* shareCacheDefaultTTL
    MaxTTL,         \* shareCacheMaxTTL
    Ops             \* the operations clients call

AllOps == {"create", "delete", "detail", "access", "download",
           "permissions", "update", "add", "remove"}

ASSUME RecordAssumptions ==
    /\ DayLength \in Nat \ {0}
    /\ DefaultTTL \in Nat \ {0}
    /\ MaxTTL \in Nat \ {0}
    /\ DefaultTTL <= MaxTTL
    /\ MaxTTL < DayLength
    /\ Ops \subseteq AllOps
    /\ "" \notin Secrets
    /\ " " \notin Secrets

\* "" is no password and " " any password of white space only.
Passwords == Secrets \cup {"", " "}

\* hashPassword: SHA-256, taken to be injective; a blank password has no hash.
hashPassword(pw) == IF pw = " " THEN "" ELSE pw

-----------------------------------------------------------------------------
\* A share: what is fixed when it is created (info) and what its owner may
\* change (perms).  Of object_keys only "none", "one" and "several" matter.
Objects == 0..2

Info == [owner: Users, expireAt: Nat, allowDownload: BOOLEAN,
         passwordHash: Secrets \cup {""}, objects: Objects]

\* The whitelist is a set: its order and its duplicates decide nothing.
Permissions == [allowAnonymous: BOOLEAN, users: SUBSET Users]

Record == [info: Info, perms: Permissions]
NoRecord == [info |-> "none"]

\* The body of a create request; expire_days = 0 asks for no expiry.
Form == [days: Nat, allowDownload: BOOLEAN, password: Passwords,
         objects: Objects]

ASSUME FormAssumptions ==
    /\ Forms \subseteq Form
    /\ PermissionForms \subseteq Permissions

\* A row of the shares table; gorm hides the rows whose deletedAt is set.
Row == [info: Info, perms: Permissions, deletedAt: Nat]
NoRow == [info |-> "none"]

Stored(row) == row # NoRow
Live(row) == Stored(row) /\ row.deletedAt = 0

ToRecord(row) == [info |-> row.info, perms |-> row.perms]

isExpired(now, exp) == exp # 0 /\ now > exp

\* The rows ListShares selects for user at time now.
ListShares(db, user, now) ==
    {s \in ShareIDs : /\ Live(db[s])
                      /\ db[s].info.owner = user
                      /\ \/ db[s].info.expireAt = 0
                         \/ db[s].info.expireAt > now}

-----------------------------------------------------------------------------
\* A key-value entry: the record and the second from which it is invisible.
Entry == [rec: Record, deadline: Nat]
NoEntry == [rec |-> "none"]

\* encodeWithTTL: a TTL that is not positive means "never expires".
Encode(rec, ttl, now) ==
    [rec |-> rec, deadline |-> IF ttl <= 0 THEN 0 ELSE now + ttl]

Hit(entry, now) ==
    entry # NoEntry /\ (entry.deadline = 0 \/ now < entry.deadline)

\* Mutants of ttlFromExpire: the nil expiry is not looked at; a share without
\* expiry is cached the way CreateShare does it.
NilBlindTTL(exp, now) == exp - now
CreateStyleTTL(exp, now) == IF exp = 0 THEN 0 ELSE exp - now

ttlFromExpire(exp, now) ==
    CASE exp = 0                          -> DefaultTTL
      [] exp # 0 /\ exp <= now            -> 0
      [] exp # 0 /\ exp - now > MaxTTL    -> MaxTTL
      [] OTHER                            -> exp - now

-----------------------------------------------------------------------------
\* The requests, one record shape per handler.
CreateCall == [op: {"create"}, user: Users, share: ShareIDs, form: Forms]
DeleteCall == [op: {"delete"}, user: Users, share: ShareIDs]
ReadCall == [op: {"detail", "download"}, share: ShareIDs]
AccessCall == [op: {"access"}, share: ShareIDs, password: Passwords]
PermissionsCall == [op: {"permissions"}, user: Users, share: ShareIDs]
UpdateCall == [op: {"update"}, user: Users, share: ShareIDs,
               perms: PermissionForms]
UserCall == [op: {"add", "remove"}, user: Users, share: ShareIDs, target: Users]

CachedCall == ReadCall \cup AccessCall \cup PermissionsCall \cup UpdateCall
                \cup UserCall
Call == CreateCall \cup DeleteCall \cup CachedCall
NoCall == [op |-> "none"]

ChangeOps == {"update", "add", "remove"}
WriteOps == {"create", "delete"} \cup ChangeOps

\* The record CreateShare builds from its request at time now.
NewRecord(c, now) ==
    [info |-> [owner |-> c.user,
               expireAt |-> IF c.form.days > 0
                              THEN now + c.form.days * DayLength ELSE 0,
               allowDownload |-> c.form.allowDownload,
               passwordHash |-> hashPassword(c.form.password),
               objects |-> c.form.objects],
     perms |-> [allowAnonymous |-> c.form.password = "", users |-> {c.user}]]

\* The permissions an update, add or remove request makes out of perms.
NewPermissions(c, perms) ==
    CASE c.op = "update" -> c.perms
      [] c.op = "add"    -> [perms EXCEPT !.users = @ \cup {c.target}]
      [] c.op = "remove" -> [perms EXCEPT !.users = @ \ {c.target}]

\* The checks a request makes on the record it got, before it goes on.
Granted(c, info) ==
    CASE c.op = "detail"   -> TRUE
      [] c.op = "access"   -> \/ info.passwordHash = ""
                              \/ hashPassword(c.password) = info.passwordHash
      [] c.op = "download" -> info.allowDownload /\ info.objects = 1
      [] OTHER             -> c.user = info.owner
=============================================================================
