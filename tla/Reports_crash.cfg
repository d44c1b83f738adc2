CONSTANTS
    k1 = k1
    k2 = k2
    Keys = {k1, k2}
    NumReports = 1
    Configs <- TwoConfigs
    Envelope <- TwoEnvelopes
    TooLarge <- Nothing
    Torn <- Nothing
    Undecryptable <- Nothing
    KeepDecrypted = 1
    KeepArchive = 2
    MaxDay = 3
    MaxFaults = 3
SPECIFICATION FairSpec
INVARIANTS
    TypeOK
    IInv
    KeptUntilExpiry
    MissingIsExpired
PROPERTIES
    HandsOver
    ExpiredAreRemoved
