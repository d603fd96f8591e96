\* Quests, skills and points of one session, saved at any time; movement on grounds
\* of 6x6 tiles and
\* beside them.
CONSTANTS
    Width = 16
    Stats <- McStats
    MaxSkills = 3
    MaxQuests = 3
    MaxCounters = 2
    LevelExp <- McLevelExp
    BattleRanks <- McBattleRanks
    SkillRanks <- McSkillRanks
    HonorRanks <- McHonorRanks
    Training <- McTraining
    Quests <- McQuests
    Starts <- McStarts
    MayLose = {}
    MaxTargets = 1
    MaxGained = 3
    MaxCredit = 4
    MaxKills = 2
    Size = 6
    StoreWidth = 8
    MaxApart = 8
    ChunkSize = 2
    Tolerance = 6
    MaxLength = 5
    Grounds <- MCGrounds
SPECIFICATION SpecParts
\* A count that leaves its array ends the model.
CHECK_DEADLOCK FALSE
INVARIANTS QuestsOnce RewardsEarned PointsEarned RecordInv MovementInv
