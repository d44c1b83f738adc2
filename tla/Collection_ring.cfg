CONSTANTS
    s1 = s1
    Senders = {s1}
    Kinds = {"report", "beat", "junk"}
    WindowSize = 3
    MaxPerBlock = 2
    MaxRecords = 4
    MaxClock = 3
    HistoryFrom <- NoHistory
    MaxInterrupts = 1
SPECIFICATION Spec
INVARIANTS
    TypeOK
    IInv
    NoSilentLoss
    StoredOnce
    SignalsFollowRows
PROPERTIES
    CursorNeverAheadOfRows
    KeepsCopy
