CONSTANTS
    s1 = s1
    Senders = {s1}
    Kinds = {"report"}
    WindowSize = 3
    MaxPerBlock = 2
    MaxRecords = 3
    MaxClock = 3
    HistoryFrom <- NoHistory
    MaxInterrupts = 0
SPECIFICATION Spec
INVARIANT
    OnlyFirstRunSkips
