SPECIFICATION Spec
CONSTANTS
    c1 = c1
    c2 = c2
    c3 = c3
    h1 = h1
    h2 = h2
    NoHost = NoHost
    Controllers = {c1, c2}
    Hosts = {h1, h2}
    HostOf <- MCHostOf
    ReportTypes <- MCReportTypes
    Nodes = 2
    Duration = 1
    ReportAndFinishTimeout = 1
    Grace = 2
    StartSlack = 1
INVARIANT DisconnectionIsOkay
