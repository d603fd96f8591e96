----------------------------- MODULE ItemStorage -----------------------------
(***************************************************************************)
(* What one character owns: inventory, equipment, the temporary inventory  *)
(* that extraction fills, the recovery list of the shop and the Alz; the   *)
(* requests that change them; the marks of what is to be saved, and the    *)
(* stored copy a later login starts from.                                  *)
(*                                                                         *)
(* One action is one handler of WorldSvr.  A request that names several    *)
(* slots is handled slot by slot inside the action, up to the first that   *)
(* fails.  The client has a character and names slots that exist; a slot   *)
(* number outside the inventory fails an assert of Inventory.c.            *)
(***************************************************************************)
EXTENDS SlotList, Sums, FiniteSetsExt

CONSTANTS
    MaxSlots,     \* RUNTIME_INVENTORY_TOTAL_SIZE
    MaxEquipment, \* RUNTIME_CHARACTER_MAX_EQUIPMENT_COUNT
    MaxRecovery,  \* RUNTIME_CHARACTER_MAX_RECOVERY_SLOT_COUNT
    Potions, Coins, Spent,  \* kinds that can be used: potions, Alz rewards,
                            \* and skill books and the other rewards
    Stone, Core,  \* the return stone and the upgrade core
    SellPrice,    \* by kind
    Books,        \* the skill books of the trainer: kind and BuyPrice
    StartOffers,  \* the shop's items
    Boosted,      \* kinds whose ID is at least 33556376
    TopLevel,     \* level 15
    Pools,        \* what extraction may yield, a set of sequences by kind
    Levels,       \* upgrade data by level: cores needed, levels reached
    Drops,        \* items on the ground
    Purses,       \* amounts of Alz on the ground
    Start,        \* the stored inventories a character may begin with
    StartAlz,
    MayLose,      \* parts whose update may fail or be lost
    MaxBatch,     \* bound: slots named in one request
    MaxMade,      \* bound: units that come into being between two logins
    MaxWorth      \* bound: the same in Alz

Levelled == 0 .. TopLevel
Item(kind, level, n) == [kind |-> kind, level |-> level, n |-> n]
Items    == [kind : Kinds, level : Levelled, n : Nat]

Offered == {StartOffers[i] : i \in DOMAIN StartOffers}

\* Data: the kinds and levels there is data about.  What a character begins with
\* is an inventory some earlier session left.  Potions and stones are handed
\* out in stacks of at least one, and extraction, which yields items without a
\* count, yields neither.
ASSUME StorageAssumption ==
    /\ MaxSlots \in Nat \ {0} /\ MaxEquipment \in Nat
    /\ MaxRecovery \in Nat \ {0} /\ TopLevel \in Nat
    /\ SellPrice \in [Kinds -> Nat]
    /\ \A c \in Coins : MaxStack[c] <= 1
    /\ \A p \in Potions \cup {Stone} : p \notin Boosted
    /\ \A l \in DOMAIN Levels : Levels[l].cores \in Nat /\ Levels[l].to \subseteq Levelled
    /\ Offered \cup Drops \subseteq Items
    /\ \A e \in Offered \cup Drops : e.kind \in Potions \cup {Stone} => e.n > 0
    /\ DOMAIN Pools = Kinds
    /\ \A k \in Kinds : Pools[k] \subseteq Seq(Kinds \ (Potions \cup {Stone}))
    /\ \A book \in Books : book.kind \in Kinds /\ book.n \in Nat /\ book.price \in Nat
    /\ Purses \subseteq Nat /\ StartAlz \in Nat
    /\ \A list \in Start :
           list \in Seq(Slots(MaxSlots - 1, Levelled)) /\ Ascending(list)

\* A condition on the data that only NothingDuplicated needs: where it comes
\* from, no stack is larger than its kind allows.
Fits(e) == MaxStack[e.kind] > 1 => e.n <= MaxStack[e.kind]
StacksFit ==
    /\ \A e \in Offered \cup Drops \cup Books : Fits(e)
    /\ \A list \in Start : \A i \in DOMAIN list : Fits(list[i])

VARIABLES
    inv,      \* InventoryInfo
    equip,    \* EquipmentInfo, not sorted
    temp,     \* TemporaryInventoryInfo
    recovery, \* RecoveryInfo
    alz,      \* Info.Currency[ALZ]
    mask,     \* SyncMask
    saved,    \* the stored parts
    offers,   \* the shop's items, which buying changes
    closing,  \* the connection is flagged DISCONNECTED
    fault,    \* the assert in RTInventoryFindItems has failed
    made,     \* history: units of each kind since the login, and at it
    worth,    \* history: the same in Alz
    slip,     \* history: parts changed without a mark
    lost      \* history: parts whose last update got lost

lists == <<inv, equip, temp, recovery>>
ghost == <<made, worth, slip, lost>>
vars  == <<lists, alz, mask, saved, offers, closing, fault, ghost>>

Parts   == {"INFO", "EQUIPMENT", "INVENTORY"}
Live    == [INFO |-> alz, EQUIPMENT |-> equip, INVENTORY |-> inv]
Nothing == <<>>     \* a recovery entry that is cleared
SlotNo  == 0 .. MaxSlots - 1
EquipNo == 0 .. MaxEquipment    \* the last number is allowed as well
Batches(S) == UNION {[1 .. m -> S] : m \in 1 .. MaxBatch}

At(s, item) == [at |-> s, kind |-> item.kind, level |-> item.level, n |-> item.n]
EntryAt(list, s) == list[Position(list, s)]
NoRecovery == [count |-> 0, entries |-> [r \in 0 .. MaxRecovery - 1 |-> Nothing]]
Pending    == {r \in 0 .. MaxRecovery - 1 : recovery.entries[r] # Nothing}

TypeOK ==
    /\ inv \in Seq(Slots(MaxSlots - 1, Levelled))
    /\ temp \in Seq(Slots(MaxSlots - 1, Levelled))
    /\ equip \in Seq(Slots(MaxEquipment, Levelled)) /\ Len(equip) <= MaxEquipment
    /\ recovery.count \in 0 .. MaxRecovery
    /\ recovery.entries \in [0 .. MaxRecovery - 1 ->
                                Slots(0, Levelled) \cup {Nothing}]
    /\ alz \in Nat /\ mask \in SUBSET Parts
    /\ DOMAIN saved = Parts
    /\ closing \in BOOLEAN /\ fault \in BOOLEAN
    /\ made \in [Kinds -> Nat] /\ worth \in Nat
    /\ slip \in SUBSET Parts /\ lost \in SUBSET Parts

-----------------------------------------------------------------------------
(* What a list holds, for the histories.                                   *)

Units(e) == IF MaxStack[e.kind] > 1 THEN e.n ELSE 1
Value(e) == IF e.kind \in Coins /\ e.n > SellPrice[e.kind] THEN e.n
            ELSE SellPrice[e.kind]

UnitsIn(list, k) ==
    Total([i \in DOMAIN list |-> IF list[i].kind = k THEN Units(list[i]) ELSE 0])
ValueOf(list) == Total([i \in DOMAIN list |-> Value(list[i])])

Recoverable(k) ==
    Total([i \in 1 .. MaxRecovery |->
              IF recovery.entries[i - 1] = Nothing THEN 0
              ELSE UnitsIn(<<recovery.entries[i - 1]>>, k)])

\* The bounds of the model.
Bounded ==
    MapThenSumSet(LAMBDA k : made'[k], Kinds) <= MaxMade /\ worth' <= MaxWorth

\* These items come into being.
Create(new) ==
    /\ made' = [k \in Kinds |-> made[k] + UnitsIn(new, k)]
    /\ worth' = worth + ValueOf(new)
    /\ Bounded

\* A login: the record is built from the stored parts.
Login(stored) ==
    /\ inv' = stored["INVENTORY"] /\ equip' = stored["EQUIPMENT"]
    /\ alz' = stored["INFO"]
    /\ temp' = <<>> /\ recovery' = NoRecovery
    /\ mask' = {} /\ closing' = FALSE
    /\ made' = [k \in Kinds |-> UnitsIn(inv', k) + UnitsIn(equip', k)]
    /\ worth' = alz' + ValueOf(inv') + ValueOf(equip')
    /\ Bounded
    /\ slip' = {} /\ lost' = {}

Init ==
    /\ inv \in Start /\ equip = <<>> /\ temp = <<>> /\ recovery = NoRecovery
    /\ alz = StartAlz /\ mask = {} /\ saved = Live
    /\ offers = StartOffers /\ closing = FALSE /\ fault = FALSE
    /\ made = [k \in Kinds |-> UnitsIn(inv, k)]
    /\ worth = alz + ValueOf(inv)
    /\ slip = {} /\ lost = {}

Mark(parts)   == mask' = mask \cup parts
Forget(parts) == slip' = slip \cup parts

\* A handler takes its error exit before it has changed anything, or has put
\* back what it changed (MOVE_INVENTORY_ITEM).
Refused ==
    /\ closing' = TRUE
    /\ UNCHANGED <<lists, alz, mask, saved, offers, fault, ghost>>

-----------------------------------------------------------------------------
(* OnInventory.c                                                           *)

\* RTEquipmentSetSlot ends without a return when it has stored the item, so
\* its caller may see FALSE: it then restores both lists (Refused).
InventoryToEquipment(s, t) ==
    /\ Holds(inv, s)
    /\ Len(equip) < MaxEquipment /\ ~Holds(equip, t)
    /\ equip' = Append(equip, [EntryAt(inv, s) EXCEPT !.at = t])
    /\ inv' = WithoutSlot(inv, s)
    /\ Mark({"EQUIPMENT", "INVENTORY"})
    /\ UNCHANGED <<temp, recovery, alz, saved, offers, closing, fault, ghost>>

EquipmentToInventory(s, t) ==
    /\ Holds(equip, s) /\ ~Holds(inv, t)
    /\ inv' = WithSlot(inv, [EntryAt(equip, s) EXCEPT !.at = t])
    /\ equip' = WithoutSlot(equip, s)
    /\ Mark({"EQUIPMENT", "INVENTORY"})
    /\ UNCHANGED <<temp, recovery, alz, saved, offers, closing, fault, ghost>>

WithinInventory(s, t) ==
    /\ CanMove(inv, inv, s, t)
    /\ inv' = MovedWithin(inv, s, t)
    /\ Mark({"INVENTORY"})
    /\ UNCHANGED <<equip, temp, recovery, alz, saved, offers, closing, fault,
                   ghost>>

\* One entry of a list of moves.  Source numbers from MaxSlots on are those of
\* the temporary inventory.
ListedMove(b, move) ==
    LET s == move[1] % MaxSlots
    IN  IF ~b.ok THEN b
        ELSE IF move[1] < MaxSlots
        THEN IF CanMove(b.inv, b.inv, s, move[2])
             THEN [b EXCEPT !.inv = MovedWithin(b.inv, s, move[2])]
             ELSE [b EXCEPT !.ok = FALSE]
        ELSE IF CanMove(b.temp, b.inv, s, move[2])
             THEN [ok |-> TRUE, inv |-> MovedTo(b.temp, b.inv, s, move[2]),
                   temp |-> LeftOf(b.temp, b.inv, s, move[2])]
             ELSE [b EXCEPT !.ok = FALSE]

Moved(moves) ==
    LET b[i \in 0 .. Len(moves)] ==
            IF i = 0 THEN [ok |-> TRUE, inv |-> inv, temp |-> temp]
            ELSE ListedMove(b[i - 1], moves[i])
    IN  b[Len(moves)]

\* The moves before a failing one stay, and the inventory is not marked then.
MoveInventoryItemList(moves) ==
    LET b == Moved(moves)
    IN  /\ inv' = b.inv /\ temp' = b.temp
        /\ IF b.ok THEN Mark({"INVENTORY"}) /\ UNCHANGED slip
           ELSE UNCHANGED mask
                /\ Forget(IF b.inv # inv THEN {"INVENTORY"} ELSE {})
        /\ UNCHANGED <<equip, recovery, alz, saved, offers, closing, fault,
                       made, worth, lost>>

-----------------------------------------------------------------------------
(* OnShop.c.  Buying costs nothing (TODO in the code).  The debug item of  *)
(* lines 46 to 61, in place of which a random one is bought, is left out.  *)

\* One unit.  An item with a high ID is replaced in the shop's own data by its
\* top level once one was taken.
BuyOne(b, s) ==
    LET new  == At(s, b.offer)
        free == ~Holds(b.inv, s)
    IN  IF ~b.ok THEN b
        ELSE [ok    |-> free,
              inv   |-> IF free THEN WithSlot(b.inv, new) ELSE b.inv,
              offer |-> IF b.offer.kind \in Boosted
                        THEN Item(b.offer.kind, TopLevel, 0) ELSE b.offer,
              new   |-> IF free THEN Append(b.new, new) ELSE b.new]

Bought(o, slots) ==
    LET b[i \in 0 .. Len(slots)] ==
            IF i = 0
            THEN [ok |-> TRUE, inv |-> inv, offer |-> offers[o], new |-> <<>>]
            ELSE BuyOne(b[i - 1], slots[i])
    IN  b[Len(slots)]

BuyItem(o, slots) ==
    LET b == Bought(o, slots)
    IN  /\ inv' = b.inv
        /\ offers' = [offers EXCEPT ![o] = b.offer]
        /\ closing' = (closing \/ ~b.ok)
        /\ Mark({"INVENTORY"})
        /\ Create(b.new)
        /\ UNCHANGED <<equip, temp, recovery, alz, saved, fault, slip, lost>>

\* Mutant of SellOne: the count stops one short of the limit.
SellOneShort(b, s) ==
    IF ~b.ok \/ ~Holds(b.inv, s) THEN [b EXCEPT !.ok = FALSE]
    ELSE LET e == EntryAt(b.inv, s)
         IN  [ok  |-> TRUE,
              inv |-> WithoutSlot(b.inv, s),
              alz |-> b.alz + SellPrice[e.kind],
              rec |-> [count   |-> IF b.rec.count < MaxRecovery - 1
                                   THEN b.rec.count + 1 ELSE MaxRecovery - 1,
                       entries |-> [b.rec.entries EXCEPT
                           ![b.rec.count % MaxRecovery] = [e EXCEPT !.at = 0]]]]

\* The entry's own slot number does not matter any more: recovering sets it.
SellOne(b, s) ==
    IF ~b.ok \/ ~Holds(b.inv, s) THEN [b EXCEPT !.ok = FALSE]
    ELSE LET e == EntryAt(b.inv, s)
         IN  [ok  |-> TRUE,
              inv |-> WithoutSlot(b.inv, s),
              alz |-> b.alz + SellPrice[e.kind],
              rec |-> [count   |-> IF b.rec.count < MaxRecovery
                                   THEN b.rec.count + 1 ELSE MaxRecovery,
                       entries |-> [b.rec.entries EXCEPT
                           ![b.rec.count % MaxRecovery] = [e EXCEPT !.at = 0]]]]

Sold(slots) ==
    LET b[i \in 0 .. Len(slots)] ==
            IF i = 0
            THEN [ok |-> TRUE, inv |-> inv, alz |-> alz, rec |-> recovery]
            ELSE SellOne(b[i - 1], slots[i])
    IN  b[Len(slots)]

\* Mutant of SellItem: only the Alz is marked.
SellHalfMarked(slots) ==
    LET b == Sold(slots)
    IN  /\ inv' = b.inv /\ alz' = b.alz /\ recovery' = b.rec
        /\ closing' = (closing \/ ~b.ok)
        /\ Mark(IF b.inv # inv THEN {"INFO"} ELSE {})
        /\ UNCHANGED <<equip, temp, saved, offers, fault, ghost>>

SellItem(slots) ==
    LET b == Sold(slots)
    IN  /\ inv' = b.inv /\ alz' = b.alz /\ recovery' = b.rec
        /\ closing' = (closing \/ ~b.ok)
        /\ Mark(IF b.inv # inv THEN {"INFO", "INVENTORY"} ELSE {})
        /\ UNCHANGED <<equip, temp, saved, offers, fault, ghost>>

RecoverItem(r, s) ==
    LET e == recovery.entries[r]
    IN  /\ e # Nothing
        /\ alz >= SellPrice[e.kind] /\ ~Holds(inv, s)
        /\ inv' = WithSlot(inv, [e EXCEPT !.at = s])
        /\ recovery' = [count   |-> recovery.count - 1,
                        entries |-> [recovery.entries EXCEPT ![r] = Nothing]]
        /\ alz' = alz - SellPrice[e.kind]
        /\ Mark({"INFO", "INVENTORY"})
        /\ UNCHANGED <<equip, temp, saved, offers, closing, fault, ghost>>

\* OnBuySkillbook.c: paid for, and neither part is marked.
BuySkillbook(book, s) ==
    LET new == At(s, Item(book.kind, 0, book.n))
    IN  /\ alz >= book.price /\ ~Holds(inv, s)
        /\ inv' = WithSlot(inv, new)
        /\ alz' = alz - book.price
        /\ Forget({"INFO", "INVENTORY"})
        /\ Create(<<new>>)
        /\ UNCHANGED <<equip, temp, recovery, mask, saved, offers, closing,
                       fault, lost>>

-----------------------------------------------------------------------------
(* OnUseItem.c with Item.c, and the return stone of Warp.c.                *)

\* The last of a stack is removed and marked; the others only counted.
UsePotion(s) ==
    LET e == EntryAt(inv, s)
    IN  /\ Holds(inv, s) /\ e.kind \in Potions
        /\ IF MaxStack[e.kind] = 0 \/ e.n <= 1
           THEN /\ inv' = WithoutSlot(inv, s)
                /\ Mark({"INFO", "INVENTORY"}) /\ UNCHANGED slip
           ELSE /\ inv' = [inv EXCEPT ![Position(inv, s)].n = e.n - 1]
                /\ Mark({"INFO"}) /\ Forget({"INVENTORY"})
        /\ UNCHANGED <<equip, temp, recovery, alz, saved, offers, closing, fault,
                       made, worth, lost>>

\* Mutant of UseSpent: the inventory is not marked.
UseSpentUnmarked(s) ==
    /\ Holds(inv, s) /\ EntryAt(inv, s).kind \in Spent
    /\ inv' = WithoutSlot(inv, s)
    /\ UNCHANGED <<equip, temp, recovery, alz, mask, saved, offers, closing,
                   fault, ghost>>

\* A skill book, or a reward other than Alz: what it gives is not modelled.
UseSpent(s) ==
    /\ Holds(inv, s) /\ EntryAt(inv, s).kind \in Spent
    /\ inv' = WithoutSlot(inv, s)
    /\ Mark({"INVENTORY"})
    /\ UNCHANGED <<equip, temp, recovery, alz, saved, offers, closing, fault,
                   ghost>>

\* RTCharacterAddCurrency does not mark the Alz.
UseCoin(s) ==
    LET e == EntryAt(inv, s)
    IN  /\ Holds(inv, s) /\ e.kind \in Coins
        /\ alz' = alz + e.n
        /\ inv' = WithoutSlot(inv, s)
        /\ Mark({"INVENTORY"}) /\ Forget({"INFO"})
        /\ UNCHANGED <<equip, temp, recovery, saved, offers, closing, fault,
                       made, worth, lost>>

\* WARP marks the position only.
ReturnWarp(s) ==
    LET e == EntryAt(inv, s)
    IN  /\ Holds(inv, s) /\ e.kind = Stone /\ e.level = 0 /\ e.n > 0
        /\ inv' = IF e.n = 1 THEN WithoutSlot(inv, s)
                  ELSE [inv EXCEPT ![Position(inv, s)].n = e.n - 1]
        /\ Mark({"INFO"}) /\ Forget({"INVENTORY"})
        /\ UNCHANGED <<equip, temp, recovery, alz, saved, offers, closing, fault,
                       made, worth, lost>>

-----------------------------------------------------------------------------
(* OnLoot.c.  The item leaves the ground in any case.                      *)

LootInventoryItem(item, s) ==
    /\ IF Holds(inv, s) THEN UNCHANGED <<inv, made, worth, slip>>
       ELSE /\ inv' = WithSlot(inv, At(s, item))
            /\ Create(<<At(s, item)>>)
            /\ Forget({"INVENTORY"})
    /\ Mark({"INFO"})
    /\ UNCHANGED <<equip, temp, recovery, alz, saved, offers, closing, fault,
                   lost>>

LootCurrencyItem(amount) ==
    /\ alz' = alz + amount
    /\ worth' = worth + amount /\ worth' <= MaxWorth
    /\ Mark({"INFO"})
    /\ UNCHANGED <<lists, saved, offers, closing, fault, made, slip, lost>>

-----------------------------------------------------------------------------
(* OnExtractItem.c.  The item stays; what it yields goes to the slot the   *)
(* temporary inventory's count names, or nowhere if that is in use.        *)

ExtractOne(b, kind) ==
    LET new == At(Len(b.temp), Item(kind, 0, 0))
    IN  IF Holds(b.temp, Len(b.temp)) THEN b
        ELSE [temp |-> WithSlot(b.temp, new), new |-> Append(b.new, new)]

Extracted(kinds) ==
    LET b[i \in 0 .. Len(kinds)] ==
            IF i = 0 THEN [temp |-> temp, new |-> <<>>]
            ELSE ExtractOne(b[i - 1], kinds[i])
    IN  b[Len(kinds)]

ExtractItem(s) ==
    /\ Holds(inv, s)
    /\ \E result \in Pools[EntryAt(inv, s).kind] :
          LET b == Extracted(result)
          IN  /\ Len(temp) + Len(result) <= MaxSlots
              /\ temp' = b.temp
              /\ Create(b.new)
    /\ UNCHANGED <<inv, equip, recovery, alz, mask, saved, offers, closing,
                   fault, slip, lost>>

-----------------------------------------------------------------------------
(* OnUpgrade.c.  The handler keeps the array position of the item while it *)
(* removes the cores, so the level it changes is that of the entry which   *)
(* is there afterwards, if any.                                            *)

CoresNeeded(level) ==
    IF level \in DOMAIN Levels THEN Levels[level].cores ELSE 0

\* RTInventoryFindItems: the first plain cores, at most length many.
FindCores(length) ==
    LET plain == {i \in DOMAIN inv : inv[i].kind = Core /\ inv[i].level = 0}
    IN  {i \in plain : Cardinality({j \in plain : j <= i}) <= length}

\* RTUpgradeLevelNormal: a random outcome among those with a rate.
Reached(level) ==
    IF level \in DOMAIN Levels THEN Levels[level].to ELSE {level}

\* The slots are cleared one by one.
Cleared(slots) ==
    LET left[k \in 0 .. MaxSlots] ==
            IF k = 0 THEN inv
            ELSE IF k - 1 \in slots THEN WithoutSlot(left[k - 1], k - 1)
            ELSE left[k - 1]
    IN  left[MaxSlots]

UpgradeItemLevel(s) ==
    LET i      == Position(inv, s)
        needed == CoresNeeded(inv[i].level)
        cores  == {inv[c].at : c \in FindCores(needed)}
        left   == Cleared(cores)
    IN  /\ Holds(inv, s)
        /\ needed > 0 /\ Cardinality(cores) >= needed
        /\ IF i > Len(left) THEN inv' = left
           ELSE \E level \in Reached(left[i].level) :
                    inv' = [left EXCEPT ![i].level = level]
        /\ Mark({"INVENTORY"})
        /\ UNCHANGED <<equip, temp, recovery, alz, saved, offers, closing, fault,
                       ghost>>

\* RTInventoryFindItems asserts that it is asked for at least one item.
UpgradeAssert(s) ==
    /\ Holds(inv, s) /\ CoresNeeded(EntryAt(inv, s).level) = 0
    /\ fault' = TRUE
    /\ UNCHANGED <<lists, alz, mask, saved, offers, closing, ghost>>

-----------------------------------------------------------------------------
(* Saving and coming back.                                                 *)

\* ServerSyncDB hands over the marked parts and forgets the marks; MasterSvr
\* stores each part by itself and reports no failure.
SyncDB ==
    /\ ~closing /\ mask # {}
    /\ \E written \in SUBSET mask :
          /\ mask \ written \subseteq MayLose
          /\ saved' = [p \in Parts |-> IF p \in written THEN Live[p] ELSE saved[p]]
          /\ lost' = (lost \ written) \cup (mask \ written)
          /\ slip' = slip \ written
    /\ mask' = {}
    /\ UNCHANGED <<lists, alz, offers, closing, fault, made, worth>>

\* The connection is closed, which saves nothing, and the player comes back.
Relog ==
    /\ Login(saved)
    /\ UNCHANGED <<saved, offers, fault>>

-----------------------------------------------------------------------------
MoveInventoryItem ==
    \/ \E s \in SlotNo, t \in EquipNo : InventoryToEquipment(s, t)
    \/ \E s \in EquipNo, t \in SlotNo : EquipmentToInventory(s, t)
    \/ \E s, t \in SlotNo : WithinInventory(s, t)

Trade ==
    \/ \E o \in DOMAIN offers, slots \in Batches(SlotNo) : BuyItem(o, slots)
    \/ \E slots \in Batches(SlotNo) : SellItem(slots)
    \/ \E r \in 0 .. MaxRecovery - 1, s \in SlotNo : RecoverItem(r, s)
    \/ \E book \in Books, s \in SlotNo : BuySkillbook(book, s)

UseItem ==
    \E s \in SlotNo :
        UsePotion(s) \/ UseSpent(s) \/ UseCoin(s) \/ ReturnWarp(s)

Loot ==
    \/ \E item \in Drops, s \in SlotNo : LootInventoryItem(item, s)
    \/ \E amount \in Purses : LootCurrencyItem(amount)

Upgrade ==
    \E s \in SlotNo : UpgradeItemLevel(s) \/ UpgradeAssert(s)

Next ==
    /\ ~fault
    /\ \/ MoveInventoryItem
       \/ \E moves \in Batches((0 .. 2 * MaxSlots - 1) \X SlotNo) :
              MoveInventoryItemList(moves)
       \/ Trade \/ UseItem \/ Loot \/ Upgrade
       \/ \E s \in SlotNo : ExtractItem(s)
       \/ Refused \/ SyncDB \/ Relog

Spec == Init /\ [][Next]_vars

-----------------------------------------------------------------------------
(* Properties.                                                             *)

\* Slot numbers ascend strictly in the inventory and the temporary inventory,
\* and no equipment slot is worn twice, also in the stored copy: the insertion
\* point of RTInventorySetSlot and every lookup by slot rely on it, whatever
\* moves, stacks, sales and upgrades came before.
SlotsSorted ==
    /\ Ascending(inv) /\ Ascending(temp) /\ Ascending(saved["INVENTORY"])
    /\ \A worn \in {equip, saved["EQUIPMENT"]} :
          \A i, j \in DOMAIN worn : worn[i].at = worn[j].at => i = j

\* Every list is sorted and within the limits of its array.
InventoryInv == TypeOK /\ SlotsSorted

\* No unit of an item exists twice: what the character has, wears, extracted
\* and may recover is at most what came into being, and so is what a login
\* would bring back, although the parts are saved at different times.  A part
\* that got lost on the way to the database is the exception.
NothingDuplicated ==
    lost = {} =>
        \A k \in Kinds :
            /\ UnitsIn(inv, k) + UnitsIn(equip, k) + UnitsIn(temp, k)
                 + Recoverable(k) <= made[k]
            /\ UnitsIn(saved["INVENTORY"], k) + UnitsIn(saved["EQUIPMENT"], k)
                 <= made[k]

\* Alz comes from selling what one had, using what one had or picking it up:
\* selling, recovering and coming back from the stored copy in any order never
\* leave the character richer.
NoProfit ==
    lost = {} =>
        /\ alz + ValueOf(inv) + ValueOf(equip) + ValueOf(temp) <= worth
        /\ saved["INFO"] + ValueOf(saved["INVENTORY"])
             + ValueOf(saved["EQUIPMENT"]) <= worth

\* The count of the recovery list covers the entries that can be recovered, so
\* recovering in any order never takes it below zero, where the unsigned count
\* and with it the next index would wrap.
RecoveryCounted == Cardinality(Pending) <= recovery.count

\* What is not marked is stored as it is, except for the handlers that do not
\* mark (slip) and for updates that got lost.
ChangesMarked ==
    \A p \in Parts \ (mask \cup slip \cup lost) : saved[p] = Live[p]

\* The assertion of RTInventoryFindItems holds.
FindItemsAsserts == ~fault
=============================================================================
