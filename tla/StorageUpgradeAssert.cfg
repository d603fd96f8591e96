\* Upgrading an item whose level has no upgrade data.
CONSTANTS
    gear = gear
    potion = potion
    coin = coin
    book = book
    stone = stone
    core = core
    MaxStack <- McMaxStack
    SellPrice <- McSellPrice
    Stone = stone
    Core = core
    Kinds = {gear, core}
    Potions = {}
    Coins = {}
    Spent = {}
    MaxSlots = 3
    MaxEquipment = 0
    MaxRecovery = 1
    Books = {}
    StartOffers <- CoreOffers
    Boosted = {core}
    TopLevel = 2
    Pools <- NoPools
    Levels <- McLevels
    Drops = {}
    Purses = {}
    Start <- Cores
    StartAlz = 0
    MayLose = {}
    MaxBatch = 1
    MaxMade = 4
    MaxWorth = 4
SPECIFICATION Spec
\* A failed assert ends the process.
CHECK_DEADLOCK FALSE
INVARIANTS FindItemsAsserts
