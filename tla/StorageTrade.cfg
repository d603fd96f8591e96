\* A shop, a trainer of skill books, two recovery entries; updates may get lost.
CONSTANTS
    gear = gear
    potion = potion
    coin = coin
    book = book
    stone = stone
    core = core
    MaxStack <- McMaxStack
    SellPrice <- McSellPrice
    Stone = stone
    Core = core
    Kinds = {gear, book}
    Potions = {}
    Coins = {}
    Spent = {book}
    MaxSlots = 2
    MaxEquipment = 0
    MaxRecovery = 2
    Books <- McBooks
    StartOffers <- GearOffers
    Boosted = {gear}
    TopLevel = 1
    Pools <- NoPools
    Levels <- NoLevels
    Drops <- GearDrops
    Purses = {1}
    Start <- Gear
    StartAlz = 2
    MayLose = {"INFO"}
    MaxBatch = 1
    MaxMade = 3
    MaxWorth = 4
SPECIFICATION Spec
\* A failed assert ends the process.
CHECK_DEADLOCK FALSE
INVARIANTS ChangesMarked NoProfit RecoveryCounted
