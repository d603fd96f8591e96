\* Everything but upgrades in two slots; upgrades in three.
CONSTANTS
    gear = gear
    potion = potion
    coin = coin
    book = book
    stone = stone
    core = core
    MaxStack <- McMaxStack
    SellPrice <- McSellPrice
    Stone = stone
    Core = core
    Kinds = {gear, potion, stone, coin, core}
    Potions = {potion}
    Coins = {coin}
    Spent = {}
    MaxSlots = 3
    MaxEquipment = 1
    MaxRecovery = 1
    Books = {}
    StartOffers <- CoreOffers
    Boosted = {core}
    TopLevel = 2
    Pools <- McPools
    Levels <- McLevels
    Drops = {}
    Purses = {}
    Start <- Cores
    StartAlz = 0
    MayLose = {}
    MaxBatch = 2
    MaxMade = 3
    MaxWorth = 3
SPECIFICATION SpecParts
\* A failed assert ends the process.
CHECK_DEADLOCK FALSE
INVARIANTS InventoryInv NothingDuplicated
