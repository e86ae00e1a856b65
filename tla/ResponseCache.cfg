CONSTANTS
    s1 = s1
    s2 = s2
    appKey = appKey
    v1 = v1
    en = en
    zh = zh
    Star = Star
    NoEntry = NoEntry
    Slots = {s1, s2}
    Low = "Accept"
    High = "Language"
    Kinds = {"memory", "groupcache", "redis", "nats"}
    TTLs = {0, 2}
    Second = 2
    MaxTime = 5
    MaxWork = 6
    UseLocalTTL = TRUE
    GetterValues = {v1}
    Methods = {"GET", "HEAD"}
    Chunks = {1, 2}
    MaxBody = 1
    MaxLength = 2
    DefaultTTL = 2
    Keys <- MCKeys
    AppKeys <- MCAppKeys
    Requests <- MCRequests
    Answers <- MCAnswers
SYMMETRY MCSymmetry
SPECIFICATION Spec
CONSTRAINT OverlapIsBrief
INVARIANTS TypeOK ServedFresh ServedWhole SameVariant
PROPERTIES  MapSpec
CHECK_DEADLOCK FALSE
