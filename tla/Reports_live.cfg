CONSTANTS
    k1 = k1
    k2 = k2
    Keys = {k1, k2}
    NumReports = 3
    Configs <- TwoConfigs
    Envelope <- TwoEnvelopes
    TooLarge <- Second
    Torn <- Nothing
    Undecryptable <- Third
    KeepDecrypted = 0
    KeepArchive = 1
    MaxDay = 3
    MaxFaults = 2
SPECIFICATION FairSpec
INVARIANT
    KeptUntilExpiry
PROPERTIES
    HandsOver
    PendingSettles
