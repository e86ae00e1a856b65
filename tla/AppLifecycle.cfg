CONSTANTS
    r1 = r1
    Servers = {"main"}
    Clients = {"s3"}
    Needed = {"s3"}
    Kinds = {"valid", "invalid", "unreadable"}
    Names = {"group"}
    Registers <- GroupAtFirst
    Requests = {r1}
    MaxApps = 3
    MaxEdits = 2
    MaxSignals = 1
SPECIFICATION Spec
INVARIANTS TypeOK ClientsOpenWhileServed DoneIsDown SettledIsCurrent RestartsOnlyOnValid
PROPERTIES ReloadTakesEffect StopsOnSignal SupervisorSpec
CHECK_DEADLOCK FALSE
