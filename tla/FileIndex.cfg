CONSTANTS
    ann = ann
    bob = bob
    c1 = c1
    c2 = c2
    p1 = p1
    p2 = p2
    Users = {ann, bob}
    Slots = {p1, p2}
    Contents = {c1}
    Types = {"", "text"}
    MaxWrites = 2
    MaxWork = 3
    Filters = {"tax"}
    Keys <- MCKeys
    Calendar <- MCCalendar
    Marks <- MCMarks
    Scopes <- MCScopes
SYMMETRY SlotSymmetry
SPECIFICATION Spec
INVARIANTS TypeOK VersionsShown SyncCompletes AnswersAreOwn AnnotationsKept
CHECK_DEADLOCK FALSE
