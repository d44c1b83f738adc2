CONSTANTS
    k1 = k1
    Keys = {k1}
    NumSites = 2
    Senders <- TwoSites
    Registries <- SecondComesAndGoes
    Kinds = {"report"}
    WindowSize = 3
    MaxPerBlock = 2
    MaxRecords = 2
    MaxClock = 2
    HistoryFrom <- HistoryOfFirst
    MaxInterrupts = 1
    Configs <- OneConfig
    Envelope <- ForUs
    TooLarge <- Nothing
    Torn <- Nothing
    Undecryptable <- Nothing
    KeepDecrypted = 0
    KeepArchive = 0
SPECIFICATION FairConnectorSpec
ACTION_CONSTRAINT OnlyBetween
INVARIANT
    ConnectorTypeOK
PROPERTIES
    ZeroTells
    CleanRunDelivers
    RunAdvances
    HandsOver
    ReportsArrive
    CollectedSettles
