\* A player enters a quest dungeon twice.
CONSTANTS
    Worlds = {w1, q1}
    QuestWorlds = {q1}
    Players = {p1}
    MaxConn = 1
    MaxCharacters = 4
    MaxEntities = 1
    MaxItems = 1
    MaxInstances = 2
    MaxInFlight = 1
    MaxBreaks = 0
    w1 = w1
    w2 = w2
    q1 = q1
SPECIFICATION Spec
\* Connections get used up, and a failed assert ends the process.
CHECK_DEADLOCK FALSE
INVARIANTS DespawnCharacterAsserts
