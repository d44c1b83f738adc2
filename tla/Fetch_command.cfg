CONSTANTS
    k1 = k1
    k2 = k2
    n1 = n1
    n2 = n2
    c1 = c1
    NoName = NoName
    NotZip = NotZip
    None = None
    Keys = {k1, k2}
    OldKeys = {k1}
    Targets <- TargetsByNameAndSlot
    Bodies <- BodiesByTarget
    NumGateways = 2
    MaxAttempts = 2
    MaxMembers = 2
    Requests <- CidLists
    Logs <- OneLog
    MaxLast = 2
    Configs <- BothKeys
    MaxReads = 2
    MaxCommands = 2
SPECIFICATION FairFetchSpec
INVARIANTS
    FetchTypeOK
    GivesUpAfterAll
    RequestedAreNewest
    VerdictIsRight
    AnnouncedIsStored
PROPERTIES
    ExitTellsAll
    CommandAdvances
    DownloadsAtOnce
    CommandEnds
