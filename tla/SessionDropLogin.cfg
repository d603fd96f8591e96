\* An item drops before the next player enters.
CONSTANTS
    Worlds = {w1}
    QuestWorlds = {}
    Players = {p1}
    MaxConn = 2
    MaxCharacters = 4
    MaxEntities = 3
    MaxItems = 1
    MaxInstances = 0
    MaxInFlight = 1
    MaxBreaks = 0
    w1 = w1
    w2 = w2
    q1 = q1
SPECIFICATION Spec
\* Connections get used up, and a failed assert ends the process.
CHECK_DEADLOCK FALSE
INVARIANTS GetCharacterAsserts
