\* Two runs, two requests of unknown fate.
SPECIFICATION FairSpec
CONSTANTS
    staff = staff
    r1 = r1
    r2 = r2
    NoReviewer = NoReviewer
    Admin = Admin
    Now = 5
    Reviewer = {r1, r2}
    Users <- MCUsers
    Task = {1, 2}
    PlanSets <- MCPlanSets
    Modes <- MCModes
    Attempts = 3
    SoftLimit = 3
    MaxRuns = 2
    MaxFaults = 2
    MaxOthers = 1
INVARIANTS
    RowsKeepAccounts
    HistoryHolds
PROPERTIES
    CleanRunSucceeds
    SuccessMeansPlan
    EveryRunEnds
