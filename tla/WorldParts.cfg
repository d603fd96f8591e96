\* One mob of a hunter's kind or one that stands still, three characters; a
\* dungeon of two parts with nested triggers;
\* one mob that finds its way on maps of 4x4 tiles; two fighters and three kinds
\* of mobs in Battle.
CONSTANTS
    Chars = {a, b, c}
    NoChar = NoChar
    MaxAggro = 3
    MaxHP = 2
    FindCount = 1
    MaxGone = 1
    Kinds <- MCKinds
    NoSpecies = NoSpecies
    Size = 4
    TileSize = 2
    MaxNodes = 14
    MaxWaypoints = 4
    Maps <- MCMaps
SPECIFICATION SpecParts
\* Characters may all be gone and the mob with them.
CHECK_DEADLOCK FALSE
INVARIANTS AggroInv DungeonInv MobPathInv BattleInv
PROPERTIES ComesBack Arrives
