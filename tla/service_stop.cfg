SPECIFICATION Spec
CONSTANTS
    Clients = {c1, c2}
    c1 = c1
    c2 = c2
    UsedCommands = {"start", "stop"}
    MayVanish = {}
    SystemMayFail = FALSE
    NoClient = NoClient
    ClientTimeout = 2
INVARIANT
    AckedStopStopped
