CONSTANTS
    k1 = k1
    k2 = k2
    Keys = {k1, k2}
    NumReports = 1
    Configs <- OneConfig
    Envelope <- OneEnvelope
    TooLarge <- Nothing
    Torn <- Nothing
    Undecryptable <- Nothing
    KeepDecrypted = 0
    KeepArchive = 0
    MaxDay = 1
    MaxFaults = 1
SPECIFICATION Spec
INVARIANT
    ManifestMeansComplete
