CONSTANTS
    Senders = {s1}
    Kinds = {"report", "beat", "junk"}
    WindowSize = 3
    MaxPerBlock = 1
    MaxRecords = 2
    MaxClock = 5
    HistoryFrom <- NoHistory
    MaxInterrupts = 1
    SilenceAfter = 2
SPECIFICATION FairWatchSpec
INVARIANTS
    WatchTypeOK
    ReportsAnswer
PROPERTIES
    NoFalseAlarm
    NoMissedAlarm
    SilenceIsTold
