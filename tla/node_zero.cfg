SPECIFICATION FairSpec
CONSTANTS
    UsedDhts = {"kaddemo", "openchord", "owdhtshell", "pastconsole"}
    Nodes = {n1, n2}
    n1 = n1
    n2 = n2
    MaxStays = 2
INVARIANTS
    DialogueInvariant
PROPERTIES
    GetTellsTheTruth
    OperationsReturn
    AnswersCurrentId
    LeaveReturns
    ConnectedGetsId
