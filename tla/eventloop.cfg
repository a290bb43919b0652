SPECIFICATION FairSpec
CONSTANTS
    JoinProfiles <- MCJoinProfiles
    LeaveProfiles <- MCLeaveProfiles
    PutProfiles <- MCPutProfiles
    GetProfiles <- MCGetProfiles
    Samples = {0, 2}
    WorkloadDuration = 4
    Horizon = 5
    TicksPerSecond = 2
    EndOfTime = 9
    MaxOperations = 4

INVARIANTS
    NodeInvariant
    BatchInvariant
    NeverOversleeps
PROPERTY OnlyOperationsBlock
