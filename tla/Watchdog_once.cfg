CONSTANTS
    Senders = {s1}
    Kinds = {"beat"}
    WindowSize = 3
    MaxPerBlock = 1
    MaxRecords = 2
    MaxClock = 5
    HistoryFrom <- NoHistory
    MaxInterrupts = 1
    SilenceAfter = 2
SPECIFICATION WatchSpec
INVARIANT
    SilentOnce
