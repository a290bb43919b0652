SPECIFICATION FairSpec
CONSTANTS
    StartScript <- MCStartScript
    ReportScript <- MCReportScript
    StartBuffer = 5
    ReportBuffer = 4
    MasterMayDie = FALSE
INVARIANT ProfileSizesAddUp
