CONSTANTS
    s1 = s1
    Senders = {s1}
    Kinds = {"report"}
    WindowSize = 3
    MaxPerBlock = 2
    MaxRecords = 4
    MaxClock = 4
    HistoryFrom <- FromSecondBlock
    MaxInterrupts = 0
SPECIFICATION Spec
INVARIANT
    HistoryIsWhole
