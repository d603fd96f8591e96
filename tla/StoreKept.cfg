\* Two client connections, two accounts with a character each, one break of
\* the link and one failing statement.
SPECIFICATION SpecParts
CONSTANTS
    a = a
    b = b
    info = info
    quests = quests
    Accounts = {a, b}
    NoAccount = NoAccount
    Slots = {0, 1}
    Beyond = {2}
    Parts = {info, quests}
    Start <- MCStart
    MaxConns = 2
    MaxVersion = 2
    MaxBreaks = 1
    MaxFails = 1
    MaxNow = 1
    MaxUnderWay = 1
    MaxPending <- MCPending
\* Every client connection may be used up and closed.
CHECK_DEADLOCK FALSE
INVARIANTS StoreInv LastChangeKept SubpasswordAgrees
PROPERTIES RequestsAnswered ChangesSaved
