CONSTANTS
    r1 = r1
    r2 = r2
    s1 = s1
    alice = alice
    bob = bob
    secret = secret
    Requests = {r1, r2}
    ShareIDs = {s1}
    Users = {alice, bob}
    Secrets = {secret}
    Forms <- MCForms
    PermissionForms <- MCPermissionForms
    DayLength = 2
    DefaultTTL = 1
    MaxTTL = 1
    KVTypes = {"groupcache", "other"}
    MaxClock = 1
    Ops = {"create", "delete", "detail", "access", "permissions", "add"}
SPECIFICATION Spec
SYMMETRY MCSymmetry
INVARIANTS TypeOK CacheFaithful CacheCoherent
PROPERTY RegistrySpec
