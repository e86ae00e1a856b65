CONSTANTS
    r1 = r1
    r2 = r2
    s1 = s1
    alice = alice
    bob = bob
    secret = secret
    Requests = {r1, r2}
    ShareIDs = {s1}
    Users = {alice}
    Secrets = {secret}
    Forms <- MCExpiryForms
    PermissionForms <- MCExpiryPermissionForms
    DayLength = 2
    DefaultTTL = 1
    MaxTTL = 1
    KVTypes = {"groupcache"}
    MaxClock = 4
    Ops = {"create", "download", "update", "remove"}
SPECIFICATION Spec
SYMMETRY MCSymmetry
INVARIANTS ExpiredNeverServed ChangedEntriesExpire
