SPECIFICATION FairSpec
CONSTANTS
    StartScript <- MCStartScript
    ReportScript <- MCReportScript
    StartBuffer = 8
    ReportBuffer = 4
    MasterMayDie = TRUE
PROPERTIES
    ConnectionIsFifo
    StartsOrExits
    ConnectionConcluded
