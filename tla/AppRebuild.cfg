CONSTANTS
    r1 = r1
    Servers = {"main"}
    Clients = {"s3"}
    Needed = {"s3"}
    Kinds = {"valid"}
    Names = {"group"}
    Registers <- GroupAlways
    Requests = {r1}
    MaxApps = 3
    MaxEdits = 2
    MaxSignals = 1
SPECIFICATION Spec
INVARIANTS RebuildsSucceed
CHECK_DEADLOCK FALSE
