\* A quest dungeon and a breaking link; two requests at once and liveness.
CONSTANTS
    Worlds = {w1, q1}
    QuestWorlds = {q1}
    Players = {p1}
    MaxConn = 2
    MaxCharacters = 4
    MaxEntities = 3
    MaxItems = 1
    MaxInstances = 2
    MaxInFlight = 2
    MaxBreaks = 2
    w1 = w1
    w2 = w2
    q1 = q1
SPECIFICATION FairSpec
\* Connections get used up, and a failed assert ends the process.
CHECK_DEADLOCK FALSE
INVARIANTS TypeOK OwnRecord OneWorld NoGhosts LootedOnce SpawnCharacterAsserts
ACTION_CONSTRAINT InBounds
PROPERTIES InitializeAnsweredUnbroken
