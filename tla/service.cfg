SPECIFICATION FairSpec
CONSTANTS
    Clients = {c1, c2}
    c1 = c1
    c2 = c2
    UsedCommands = {"ping", "start", "stop", "update", "version", "usage"}
    MayVanish = {c1}
    SystemMayFail = TRUE
    NoClient = NoClient
    ClientTimeout = 2
INVARIANTS
    AckInvariant
    NothingElseSurvivesStop
PROPERTIES
    StopCoversEarlierStarts
    EveryClientEnds
    ServiceComesBack
