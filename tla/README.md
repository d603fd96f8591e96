# Verification of co_emulator

co_emulator is a server emulator in C: an authentication server (`AuthSvr`), a
database front (`MasterSvr`) and a world server (`WorldSvr`), built on a network
library (`NetLib`) and a game runtime (`RuntimeLib`). This directory holds TLA+
models of its parts, the TLC configurations that check them, and proofs that
TLAPS checks. Paths below are relative to the root of the repository.

## 1. The system

Every server is a single-threaded loop (`*/Server.c`, `ServerRun`): it polls its
sockets (`SocketManagerUpdate`), runs one handler per complete packet, then its
periodic work. There are no threads, so what interleaves are packets, closed
connections, timers and the other servers.

```
 client --- C2S ---> AuthSvr <--- IPC --- MasterSvr <--- IPC --- WorldSvr <--- C2S --- client
                     AuthDB               MasterDB               RuntimeLib
```

MasterSvr connects to AuthSvr, WorldSvr connects to MasterSvr. A client first
logs in at AuthSvr, then opens a second connection to a world server, and asks
AuthSvr (`C2S_VERIFYLINKS`) to vouch for it there.

| Component | State | Operations | Interacts with | What makes it correct |
|---|---|---|---|---|
| Login chain (`AuthSvr/On*.c`, `AuthDB.c`) | `ClientContext`: phase flags, `AccountID`, disconnect timer | connect, version, user name, public key, authenticate, timers | client packets, AuthDB | phases in order, account and flag agree, an idle client is removed |
| Hand-off (`OnVerifyLinks`, `OnAuthVerifyLinks`, `OnWorldVerifyLinks`, results) | the request in flight, `VERIFIED` flags, `AuthKey` | request, forward, bind, answer | all four parties | a bind only on a request of the account's owner, at most once, always answered |
| Links between servers (`*Socket.c`, `OnMasterConnect`, `OnWorldConnect`) | contexts of peers | connect, acknowledge, disconnect | hand-off, directory | both ends agree |
| World directory (`MasterSvr/OnWorldUserlist.c`, `*/Notification.c`, `*/Server.c`) | `WorldListEntry`, counts of users, two timestamps per server | user list, world list, broadcast | links | the list a client sees is the servers' |
| Session in the world (`OnInitialize`, `OnWarp`, `OnLoot`, `RuntimeLib/World.c`, `Runtime.c`, `Warp.c`) | entity pool, character records, `EntityToCharacter`, lists of worlds and instances, items on the ground | initialize, spawn, warp, open a dungeon, drop, loot, despawn | master (load and save) | one world per player, own record, no ghost, asserts hold |
| Character index and sub-password (`OnGetCharacters`, `OnCreateCharacter`, `On*Subpassword`, `OnVerifyPassword`) | the account and its list of characters at WorldSvr, the rows at MasterSvr | load, create, enter, set, verify and delete a sub-password | master, AuthSvr | the copy at the world is what the database holds; every request answered |
| Character sync (`WorldSvr/OnWorldDBSync.c`, `MasterSvr/OnWorldDBSync.c`, `Runtime.c`) | `SyncMask`, `SyncPriority`, timestamp, rows | mark, flush, write | session, items | nothing marked is forgotten |
| Items (`RuntimeLib/Inventory.c`, `Equipment.c`, `WorldSvr/OnInventory.c`, `OnShop.c`, `OnExtractItem.c`, `OnUpgrade.c`) | sorted slot arrays, temporary inventory, recovery list | move, swap, stack, equip, buy, sell, recover, extract, upgrade | sync | slots stay sorted and unique, no item made or lost, moves are all or nothing |
| Progress: quests, skills, quick slots, ranks (`RuntimeLib/Character.c`, `Level.c`, `WorldSvr/OnQuest.c`, `OnQuickslot.c`, `OnAddCharacterStats.c`, `OnChangeCharacterSkillLevel.c`) | slot arrays, flags, levels, points, ranks | begin, act, clear, cancel; hit, kill; train, forget; spend points; set and swap | battle, items, sync | a quest is in one slot and rewarded once, points and levels are earned |
| Movement (`RuntimeLib/Movement.c`, `WorldSvr/OnMovement.c`) | `RTMovement`: positions, waypoints | begin, change, end, waypoints, tile position, reckoning, skill steps, warps | session, sync | a request from where the server has the character is taken; a resting character is in one place |
| Mobs: aggro, life, hunt (`RuntimeLib/Mob.c`) | aggro list, HP, timers, owner of the drop | be attacked, despawn, respawn, find, hunt | session, battle | the list holds what was dealt, a killed mob comes back |
| Mobs: ways (`RuntimeLib/PathFinding.c`, `Movement.c`, `World.c`) | waypoints, reckoned position | search, walk, stop | tiles of the world | finds what can be reached, stays off walls, arrives |
| Battle (`RuntimeLib/BattleSystem.c`) | HP | normal and skill attacks | mobs, progress | a life gives the experience of one life and one kill |
| Dungeon patterns (`RuntimeLib/Dungeon.c`, `WorldSvr/OnDungeon.c`) | mob tables, missions, triggers, active pattern part | trigger, kill, next part, end | mobs, session | a part ends only when earned; what is shown is what is there |
| Visibility (`WorldSvr/Notification.c`, `RuntimeLib/WorldChunk.c`) | none of its own | broadcast | session, movement | who is near is told |
| NetLib (`NetLib/Socket.c`, `PacketBuilder`, `Keychain`) | connection array, buffers, `NextConnectionID`, keychains | accept, receive, decrypt, send, remove | everything | what one end encrypts the other reads; removing connections mixes nothing up |
| Core library (`CoreLib/*`) | arrays, dictionaries, index sets | data structures | everything | functional correctness |
| Chat and auction servers, data loading, vendored libraries, SQL | - | - | - | see "Not modelled" |

What is hard to test in it (every place is in `PROJECT.json`, "hazards"):

* answers of several masters and a disconnect timer race on the same client;
* requests name connections by ID and key and arrive after those have changed;
* links break with packets in flight and both ends start afresh;
* state is created when an answer arrives, but checked when the request is made
  (`OnInitialize`), so two requests may be on the way;
* indices of one pool are shared by characters and items and compared with the
  count of another (`RTRuntimeGetCharacter`);
* several steps of which one fails after the others took effect (opening a
  dungeon, moving a list of items, inserting a character);
* WorldSvr changes its copy of an account or character and sends the change without
  waiting, over a link that may be away, while another client has a copy too;
* arithmetic that is written twice and must agree: reckoning and checking a move,
  damage and what it takes off, the keychains of the two ends;
* calls that come back to where they started: a trigger that ends the part of the
  dungeon its kill belongs to.

## 2. Modules

| Module | Content |
|---|---|
| `Handoff` | the hand-off on AuthSvr, all MasterSvrs and WorldSvrs, and the links between them |
| `HandoffPromise` | what the hand-off promises, without servers or packets; `Handoff` implements it |
| `HandoffProofs` | theorems about `Handoff`; that it keeps `HandoffPromise` |
| `Directory`, `DirectoryProofs` | how the number of players of a world gets to the clients |
| `AuthLogin`, `AuthLoginProofs` | the loop of AuthSvr, its connection array and the login chain |
| `Keychain` | the encryption of a connection, both ends and the bytes between |
| `WorldSession`, `WorldSessionProofs` | a player on one WorldSvr, with its MasterSvr; theorems about it and about `MobAggro` |
| `CharacterStore`, `CharacterStoreProofs` | the copy WorldSvr has of accounts and characters, the database, and the link |
| `SlotList` | the sorted slot array of `Inventory.c`: insert, remove, move, stack |
| `ItemStorage`, `ItemStorageProofs` | what a character owns and every request that changes it, with the stored copy; theorems about it and about `SlotList` |
| `Character` | how a character's record advances: one operator per function of `Character.c` |
| `Progress` | the requests of one session that use them, and the stored copy |
| `Movement` | the requests of a client that moves, and where the server reckons it |
| `CharacterProofs` | theorems about `Progress` and `Movement` |
| `Sums`, `RunLemmas` | the sum of a sequence; lemmas on sums, remainders and runs, which stand in for induction |
| `MobAggro` | one mob of an open world and the characters it remembers |
| `MobPath` | the way of a mob: search, corners, walk |
| `Battle` | what an attack is worth, over the lives of one mob |
| `Dungeon` | one dungeon instance: parts, mobs, missions, triggers |

| For TLC | Instances of |
|---|---|
| `MCHandoff` | `Handoff`, with a start with all links up |
| `MCLinks` | `Directory`, and `Handoff` with what is fair |
| `MCLogin` | `AuthLogin` and `Keychain` |
| `MCWorldSession` | `WorldSession` |
| `MCStore` | `CharacterStore` |
| `MCItemStorage`, `MCStorageParts` | `ItemStorage`: kinds of items, shops, drops; two instances in one run |
| `MCProgress`, `MCCharacterParts` | `Progress`; `MCCharacterParts` adds `Movement` |
| `MCWorldParts` | `MobAggro`, `Dungeon`, `MobPath` and `Battle` |

Modules that share a run do not interact in it: a behaviour is one of one of them,
said by the variable `part`, and the variables of the others rest in one initial
state. It costs the sum of their states, not the product. The conditions of
fairness then hold for the part alone; where two modules of a run have fair actions,
no two of them are possible in one state, and one formula stands for all.

### `Handoff`

One action is one handler of one server. `auth` is AuthSvr's `ClientContext` by
connection ID (`acct` is `AccountID`, with `NoAccount` for the AUTHENTICATED flag
not set; `verified` the VERIFIED flag; `disc` the DISCONNECTED flag of the
connection), `world` is a WorldSvr's (`key` is `AuthKey`, with `NoKey` for CONNECTED
not set). A connection is `unused`, `open` or `gone`; IDs count up and are not
reused (`NextConnectionID`). The four channels are the two TCP connections of
each master, in both directions; `named`, `listed`, `registered`, `acked` and `dirty`
are what the peers know of each other. `rows` is MasterDB's account table.
`asked`, `granted`, `issued` and `told` record what happened and guide nothing.

| Action | Code |
|---|---|
| `OnAuthenticate` | the end of the login chain, including a second, failing one |
| `OnVerifyLinks`, `OnVerifyLinksError` | `AuthSvr/OnVerifyLinks.c`; the request goes to every master |
| `OnAuthVerifyLinks` | `MasterSvr/OnAuthVerifyLinks.c`, with `GetOrCreateAccount` for the database |
| `OnWorldVerifyLinks` | `WorldSvr/OnWorldVerifyLinks.c`, with `Matches` for `ServerGetClientByAuthKey` |
| `OnWorldVerifyResult`, `OnMasterVerifyResult` | the answer back, and the client told |
| `ConnectAuth` ... `OnWorldAcknowledged`, `Break*` | links and the world list |
| `AuthAccept`, `AuthClose`, `AuthReap`, `World*` | connections that come and go |

Details that matter and are kept: the connection ID is truncated to 16 bits in
packets (`Trunc`, with `IdSpace` values) and compared at full width; the mark
"list changed" compares whole seconds and may be lost (`Marked`); the first
hand-off of an account without a row fails after inserting it
(`GetOrCreateAccount`); CONNECT may be repeated and replaces the key.

### `WorldSession`

`client` is the connection with its character's entity; `characters` and `slots` are
the record array and `EntityToCharacter` (entities and records are never freed
by the code); `kinds` is the entity pool, which items share; `present` and `items`
are the lists of each place, a place being a world or the n-th dungeon
instance. The handlers follow the code's order: `WarpDungeon` despawns before
`RTRuntimeOpenDungeon` may refuse, `LootInventoryItem` removes the item before it
looks at the slot. An assert that fails, or a null world, sets `fault`, after
which nothing happens: the process has ended.

### `ItemStorage`

One character: `inv`, `equip`, `temp` and `recovery` are `InventoryInfo`, `EquipmentInfo`,
`TemporaryInventoryInfo` and `RecoveryInfo` of the record, `mask` is its `SyncMask`
restricted to the parts that matter here, `saved` the rows those parts are
written to. An entry of a list is `[at, kind, level, n]`: `SlotIndex`, `Item.Serial`
in two pieces and `ItemOptions`. `offers` is the shop's item data, which `OnBuyItem`
writes to. A handler that fails closes the connection (`closing`); packets already
buffered are still handled, but no save happens before the connection is swept,
and a later login starts from `saved` (`Relog`).

| Action | Code |
|---|---|
| `InventoryToEquipment`, `EquipmentToInventory`, `WithinInventory` | `OnInventory.c`, `MOVE_INVENTORY_ITEM` |
| `MoveInventoryItemList` | `OnInventory.c`, `MOVE_INVENTORY_ITEM_LIST`: move by move, those before a failing one stay |
| `BuyItem`, `SellItem`, `RecoverItem`, `BuySkillbook` | `OnShop.c`, `OnBuySkillbook.c` |
| `UsePotion`, `UseSpent`, `UseCoin`, `ReturnWarp` | `OnUseItem.c` with `Item.c`; the stone of `Warp.c` |
| `LootInventoryItem`, `LootCurrencyItem` | `OnLoot.c` |
| `ExtractItem` | `OnExtractItem.c` |
| `UpgradeItemLevel`, `UpgradeAssert` | `OnUpgrade.c` with `RTInventoryFindItems` and `Upgrade.c` |
| `SyncDB`, `Relog` | `OnWorldDBSync.c` on both servers; a connection that ends and a login |

`made` and `worth` count what came into being (bought, looted, extracted) since the
login; `slip` remembers the parts changed by a handler that does not mark them,
`lost` those whose update did not reach the database. They guide nothing.

Left out: prices follow from the kind of an item, the slot number inside a
recovery entry (overwritten when it is recovered), upgrade points, health and
experience, binding and duration of items; the debug item of `OnShop.c:46-61`, in
place of which the buyer gets a random one. Slot numbers are those that exist:
others fail an assert at the top of each operation of `Inventory.c`. Assumed
of the data: potions and stones come in stacks of at least one and extraction
yields neither (`StorageAssumption`; with a count of zero `Item.c:53` would wrap).
`RTEquipmentSetSlot` (`Equipment.c`) ends without a `return`: what its caller sees is
undefined, so a move to the equipment may also be refused and restored.

### `Character` and `Progress`

`Character` has no variables. The record it works on is `struct _RTCharacter` without
its items and position, an operator is one function of `Character.c` from record to
record, and its conditions are a `Can...` operator where the callers look at the
result. `Progress` holds the record (`char`), the stored parts (`saved`) and the
handlers:

| Action | Code |
|---|---|
| `Begin`, `Clear`, `ClearUnrewarded`, `Cancel`, `Act` | `OnQuest.c`; `ClearUnrewarded` is a reward that does not fit the inventory |
| `AttackToMob`, `SkillToMob` | `OnAttackMob.c`, `OnSkillToMob.c`: experience, skill experience, kills |
| `ImmediateReward`, `SkillBook` | `Item.c` |
| `AddCharacterStats`, `ChangeLevel` | `OnAddCharacterStats.c`, `OnChangeCharacterSkillLevel.c` |
| `SetQuickslot`, `UnsetQuickslot`, `SwapQuickslot` | `OnQuickslot.c` |
| `SyncDB` | `OnWorldDBSync.c` on both servers, part by part |

What the code does, and the model therefore does:

* beginning a quest raises the count whichever slot is named (`QuestBegin`), and
  whether the quest is in another slot is a TODO of the code (`Character.c:569`);
* cancelling moves one entry more than there is behind the slot (`QuestCancel`); with
  a full list that entry is what follows the array in memory, the quest flags
  (`QuestPast`: two bytes of flags, hence quest numbers below 16 in the model);
* clearing asks neither whether the slot is listed nor whether the flag is set;
* a quest that no NPC starts keeps the NPC step it finds in the slot (`FirstStep`);
* a kill counts for the first listed quest that wants the mob only, and is not marked
  for saving (`IncrementQuestMobCounter`);
* a level-up gives five points however many levels it spans (`LevelDiff` is a `Bool`);
* lowering a skill by one level fails, lowering it by more costs and returns nothing;
* removing a quick slot or skill slot moves one entry, not the tail (`PulledBack`);
* a battle rank stays gained when the reward of its quest does not fit;
* a skill book is used up when the list of skills is full.

`orderly` remembers whether quest requests named slots a client was told about (a
new quest in the first free slot, nothing twice), `torn` whether a quick slot with
two or more behind it was removed. The quest properties are stated while
`orderly` holds, `QuickUnique` until `torn`: past these the code does lose or double
entries. A disorderly request is still taken, and nothing is followed behind it.
`gained`, `since`, `due` and `credit` are ledgers of what was earned; they guide nothing.
`wrapped` remembers that the points or a stat left their UInt16. `OnAddCharacterStats` takes
negative additions and does not ask whether the stat has what is taken back, so a stat may
wrap below 0 and give points for nothing; `StatPointsKept` is exact until then and modulo
2^16 behind it.

Left out: ability experience, HP and MP, the distance to an NPC, item and dungeon
missions (the code does not check them either), and the items a quest gives. The
trigger of a quest action is in `Dungeon`.

### `AuthLogin`

One iteration of `ServerRun` of AuthSvr is `Begin` (the clock, at most one accepted
connection); for each connection of the array in turn `Receive`, which writes out what
waits and reads, and `Handle` for each whole packet the read completed; then `Sweep`,
the answers of the masters (`OnMasterVerifyResult`) and `Timers`. `phase` and `at` say
where the iteration is. The handlers (`OnCheckVersion`, `OnServerEnv`, `OnPublicKey`,
`OnAuthAccount`, `OnAuthenticate`, `OnVerifyLinks`) map a client to a client. A client
that was flagged is still handled until the sweep, which goes through the array from its
last entry to its first, one entry a step, and moves the tail over each one it takes out.
`left` is the timer relative to the clock. `halted` is set where the process no longer
serves: an assert that fails (`Asserts`), or four bytes and more of an incomplete packet,
on which `SocketFetchReadBuffer` spins (`Incomplete`).

Two histories say what the client earned and guide nothing: `proved` is the account whose
password its last login gave, `asked` the account the masters were asked for on its behalf,
with what was proved then. A client that was logged in and whose next login fails keeps
AUTHENTICATED, while `AccountID` becomes that of the failed login
(`AuthSvr/OnAuthenticate.c:151`). It is flagged, but served until the sweep, and its next
packet may be VERIFYLINKS: then the masters are asked for an account whose password it
never gave or, the name being unknown, the assert of `AuthSvr/OnVerifyLinks.c:22` fails.
`LoginBacked` names this client (`Fell`) and says that it is flagged, that no other client
ever asks for an account it has not proved, and that no other way leads to a failing assert.

Left open: whether a password is right, whether the RSA library yields a key.
`Session.Online` changes nothing but what a client is told, and AuthSvr only ever
writes it as false.

### `Keychain`

`ClientSends` and `ServerReceives` are one direction of an encrypted connection,
`ServerSends` and `ClientReceives` the other, with the functions of `Keychain.c` of the same
names between. The channels hold bytes, not packets: a border is found by the length read
in the encrypted header. Only packets of the client depend on the step and the key agreed
in the answer to CONNECT; those of the server use the fixed key. That the client waits for
this answer is external. CONNECT may come again and starts afresh.

Scaled down: a byte is a number below 4, an index of 14 bits one byte, the key table two
halves of four words that are a function of the key. The client's decryption shifts by
32 bits when a packet has no rest beyond whole words (`Keychain.c:191`); the build
decides what that yields, and `torn` says that it changed bytes of the packet behind,
which is not followed further. The checksum is written and never checked, and left out.

### `Directory`

Every server marks its list as changed (`Mark`) and sends it at the end of an iteration
when the mark is later than the last broadcast (`Stamp`). The times are whole seconds,
so of two timestamps only this is kept: `due`, and `fresh`, that a mark would be lost
because the list was already sent in this second. `BroadcastUserList` (WorldSvr),
`OnWorldUserlist` and `BroadcastWorldList` (MasterSvr), `OnMasterWorldList` and
`BroadcastToClients` (AuthSvr) carry a count to the clients; `BreakWorld` and
`BreakAuth` break links with what is under way. `missed` and `drifted` remember why a
list may lag.

### `CharacterStore`

`client` is WorldSvr's context of each connection: the account it was bound with, the
list of characters, the one it plays with its marks. `account` and `rows` are the tables
of the master. A client may ask again before it is answered; an answer for a client that
has left disconnects the connection it came on, which is the link to the master
(`Disconnect`), as the handlers do.

| Action | Code |
|---|---|
| `OnAuthVerifyLinks`, `OnWorldVerifyLinks` | the account handed to WorldSvr with its sub-password |
| `GetCharacters`, `CreateCharacter`, `Initialize`, `VerifyCredentials` | `OnGetCharacters.c`, `OnCreateCharacter.c`, `OnInitialize.c`, `OnVerifyPassword.c`: the requests |
| `OnWorldGetCharacters`, `OnWorldCreateCharacter`, `OnWorldGetCharacter`, `OnWorldVerifyPassword`, `OnMasterVerifyPassword` | the same files of MasterSvr, and AuthSvr's answer |
| `AckGetCharacters`, `AckCreateCharacter`, `AckGetCharacter`, `AckVerifyPassword` | the answers at WorldSvr |
| `CreateSubpassword`, `VerifySubpassword`, `VerifyDeleteSubpassword`, `DeleteSubpassword` | `On*Subpassword.c`, decided from WorldSvr's copy |
| `Play`, `SyncDB`, `OnWorldDBSync` | a mark, the flush by `ServerSyncDB`, the statements of MasterSvr |
| `Leave`, `BreakLink`, `Sweep`, `Reconnect` | a client or the link that goes, and the link that comes back |

`unsaved`, `shared` and `raced` are the ways the code loses or forks state. `unsaved`: a
client that leaves with marks set, an update handed to a link that is away or lost with it,
a statement that fails unreported, and an INITIALIZE that is answered when the client plays
already: only the request asks whether it does (`OnInitialize.c:9`), and the answer
(`OnInitialize.c:234-252`) replaces the record with its marks (`LetGo`). `shared`: a character
with several records at a time, because two clients play it or one asked for it again, each
record with its own state, of which the last one saved stays. `raced`: an account handed out
while an update of it was under way.

`untold` are rows of an account a client has not been told of: another client created them,
the answer was lost with the link, or MasterSvr could not read back the row it had just
inserted and answered with an error (`MasterSvr/OnWorldCreateCharacter.c:48-53`). Until the next
list the slot looks free to the client. Nothing compares `SlotIndex` with the length of the
list (`OnCreateCharacter.c:19-20`). With the flags this server sets, numbers below 32 are
stopped by the bit of their slot; from 32 on `1 << SlotIndex` is undefined and may let them
through (`Beyond`): WorldSvr looks behind its array whether a character is there, the row is
inserted with that slot, and the answer and every later list of the account are written
behind an array. There the model ends (`link` is "overrun").

Left out: several worlds at one master; the timers of the
three priorities (all are one second; `SyncTimestamp + Index` compares as `UInt64` and
lets a part be due at once, which an untimed flush includes); names (a refusal is always
possible); the count of failed sub-passwords. `PasswordVerificationTimestamp` is written
and never read.

### `Movement`

`move` is the line of `RTMovement`, `along` how far the character is on it. `MovementBegin`,
`MovementChange`, `MovementEnd`, `MovementWaypoints`, `TilePosition` are the handlers of
`OnMovement.c` with the operators of `Character.c`; a request that is not taken disconnects
(`Refuse`). `SkillMove` and `Warp` are the steps of skills and gates; `Update` is
`RTMovementUpdateDeadReckoning` from the world loop. Integer divisions round as in C.

What the code does, and the model therefore does: BEGIN does not compare the positions
it names with each other; END and TILE_POSITION take the distance in `DeltaY` from the
row the line began in, so that a stop far from it ends the connection (the exception in
`TakenWhereReckoned`); TILE_POSITION compares coordinates with the tolerance of a
squared distance, which is as large as the world; the chunk of a position is compared
with that of the position reckoned last, which may be stale. Lack of MP returns without
a change. A character is always alive and never unmovable here: an attack of a mob
computes damage and applies none (`Mob.c:220-265`). Speed and distance are open, so any
progress between two steps is possible; positions named by clients are two corners and
where the character is (`Grounds`), in the world or not: only CHANGE asks for that
(`InWorld`), so BEGIN, END, WAYPOINTS, TILE_POSITION and a skill may lead out of it. Of a
position as much is stored as `RTCharacterPosition` holds (`Kept`), so a character that
rests below zero or past the last UInt16 logs in somewhere else. The floats of the `KEY_` requests are cut off by a
cast before anything is asked of them and are whole here. Requests whose positions are so
far from the character that a product of two Int32 differences overflows, which is
undefined, are not followed (`Apart`, `MaxApart`; in the code about 2^14 tiles, with a
world of 2^8).

### `MobAggro`, `MobPath` and `Battle`

Three views of one mob. In `MobAggro` it is a life: `Attack` is `RTMobApplyDamage` with
the kill and the owner of the drop (`OnAttackMob.c`), `Update` is `RTMobUpdate`, one
disjunct for each of its ways out: `Despawn`, `SpawnAgain`, `WalkOn`, `Find`, `Hunt`.
`Swept` is the loop of `RTMobGetMaxAggroTarget`, a recursive function of the index and of
what is left of the list (`LookAt` is one round of it).
`Travel` is a character that warps or leaves; its record stays, and for the mob it is
still there. Removing an entry from the list moves one element where it should move the
tail; `torn` remembers that an attacker was lost to that, and `TargetIsTop` and the
second half of `AggroBacked` are stated until then. What is near or in reach is any
outcome. `RTMobCanRespawn` also asks for permanent deaths and a count of spawns; in an
open world neither ends a mob (`CanRespawn`): the loader gives every mob infinite spawns
(`ServerDataLoader.c:1298`) and nothing else writes `RemainingSpawnCount`, and permanent
deaths are an action of dungeon triggers.

In `MobPath` it is a body: `BeginMove` is the way of `RTMobUpdate` (`Mob.c:415-473`) with
`RTMovementFindPath` (`Search` is the A* of `PathFinding.c`, `Corners` keeps the waypoints that cannot be
seen past, `TraceEnd` is `RTWorldTraceMovement` for a target without a path), `Walk` and
`Arrive` the reckoning, `CancelMovement` the hit that stops it, `Respawn` the place it
comes back to, which may be in a wall. A mob whose target is where it stands replays its
last way of two corners. Times are left open. The trace steps straight or diagonally, so
lines of another slope may cut a corner of a wall: `WalksFree` is about the others.

In `Battle` it is a number of HP: the formulas of `BattleSystem.c` line by line, with
Int32 arithmetic (`Wrap`, scaled to 2^17) and division towards zero, and all outcomes of
`RandomRange`. Two tests assign (`if (Result->AttackType = ...)`), so every hit is
raised as a critical and as a normal one and ends as NORMAL; a mob without defense rate
turns the least damage into what is missing to 100; a mob at 0 HP is hit and counted as
killed again until the loop takes it away (`late`); so is a mob of the table that has
never spawned (`born`), since the handlers ask `IsDead` only; `wrapped` remembers a product that
does not fit. Attributes of characters are constants; mobs have neither resistances nor
evasion in the code.

### `Dungeon`

One variable, `world`, since the calls nest: `DespawnMob` fires a trigger
(`TriggerEvent`), counts the kill (`IncrementQuestMobCounter`), which may start the next
part (`StartNextPatternPart`, `SetMobTable`) while the trigger's remaining actions are
still to run on another table. Every operator takes a world and returns what the call
leaves of it. The actions are the packets (`OnSpawn`, `OnAttack`, `OnAttackBossMob`,
`OnQuestAction`, `OnEnd`) and `Update` of all mobs in one iteration. `unearned` counts
kills that the code books in the new table because they ended the old one.
`index` is `PatternPartIndex`, which the copy of the world has at 0 before `Start`
(`RTDungeonStart`) puts it back to -1: a boss or a quest action that comes before the start
finds nothing to ask for and goes on to the second part, and the start begins again with
the first.
`RTDungeonEnd` succeeds before the dungeon has started, as in the code.

Left out: the time limit, and a trigger action that names a mob which is not in the
table (data decides). The parser of missions (`ParsePrimitives.c:410-455`) loads at most
one mission per part, and the dungeons that are shipped have one part each; the model
has two parts, which the code allows.

## 3. What the runs check

| Run | Instance | Shows |
|---|---|---|
| `HandoffRaces` | `Handoff`: 1 master, 2 accounts, bring-up with 1 break, repeated CONNECT and 2 keys, or links up and 2 clients for one world connection | `TypeOK`, `OnePiecePerMaster`, `SessionsGranted`, `AccountPinned`, `KeepsPromise` |
| `LinksParts` | `Directory`: 1 world, 1 break. `Handoff`: 2 masters come up with at most one break, then one client; fair | `DirectoryInv`; `KeepsPromise` when the refusal of one master races the answer of the other; `RequestAnswered` |
| `LoginParts` | `AuthLogin`: 2 clients at a time out of 3, any number of packets in one read, fair. `Keychain`: 2 packets on the way in each direction | `LoginInv`, `SweptClean`, `TimedOut`; `KeychainInv` |
| `SessionParts` | a world and a quest dungeon, 2 instances, 1 break; or 2 packets in flight and drops, fair | `TypeOK`, `OwnRecord`, `OneWorld`, `NoGhosts`, `LootedOnce`, `SpawnCharacterAsserts`, `InitializeAnsweredUnbroken` |
| `StoreKept` | 2 connections, 2 accounts with a character each, 1 break, 1 failing statement, fair; clients create, secure, play or confirm | `StoreInv`, `LastChangeKept`, `SubpasswordAgrees`, `RequestsAnswered`, `ChangesSaved` |
| `StorageParts` | 2 slots with gear, stacks or a purse, batches of 2, extraction; or 3 slots with upgrades, cores before and behind the item, 3 levels | `InventoryInv`, `NothingDuplicated`: overflowing stacks, a stack moved onto itself, a list that fails half way, saves and logins at any time |
| `StorageTrade` | a shop, a trainer, drops, 2 recovery entries, lost updates of the Alz | `ChangesMarked`, `NoProfit`, `RecoveryCounted`: no order of selling, recovering and coming back pays |
| `CharacterParts` | `Progress`: 3 quests, 3 slots, 2 ranks, 3 levels, 5 kinds of session. `Movement`: a world of 6 x 6 tiles, 4 slopes, 2 ways out of the world | `QuestsOnce`, `RewardsEarned`, `PointsEarned`, `RecordInv`; `MovementInv` |
| `WorldParts` | `MobAggro`: 3 characters, a hunter or a mob that stands. `Dungeon`: 2 parts, 5 triggers. `MobPath`: 4 maps of 4 x 4 tiles. `Battle`: 2 fighters, 3 kinds of mobs. Fair | `AggroInv`, `ComesBack`; `DungeonInv`; `MobPathInv`, `Arrives`; `BattleInv` |
| `SessionDropLogin`, `SessionReentry`, `StorageUpgradeAssert` | | asserts of the code that can fail, see below |

Where several facts make up what a component promises, the run checks their
conjunction; each part is a definition of its own in the module, with its comment:

| Invariant | Parts |
|---|---|
| `DirectoryInv` | `TypeOK`; `ListsAgree`: a list a client sees differs from the servers' only while an update is under way or due, or lost to timestamps of whole seconds |
| `LoginInv` | `TypeOK`; `LoginOrder`: flags are raised in the order of the chain; `LoginBacked`: a client, flagged or not, counts as logged in to the account it gave the password of and asks for no other, unless it fell (a second login failed), and only one that fell fails an assert; `Ascending`: the array has each connection once, in the order of accepting |
| `KeychainInv` | `TypeOK`; `ServerReads`, `ClientReads`: what is on the way is read as it was sent; `InStep`: between packets both keychains are the same |
| `StoreInv` | `TypeOK`; `RowsFit`: no more rows in slots than slots; `IndexBacked`: what a client has in its list are rows of its account; `IndexComplete`: and it has them all, but for those it was not told of (`untold`) |
| `InventoryInv` | `TypeOK`; `SlotsSorted`: slots ascend and are unique, also in the stored copy |
| `RewardsEarned` | `ExpEarned`: every reward once, also across a login; `EarnedByKills`: counters of quests |
| `PointsEarned` | `StatPointsKept`: points of stats come from level-ups, until a stat wraps; `PointsBacked`: those of skills were earned |
| `RecordInv` | `TypeOK`; `RankOrder`; `QuickUnique`: a quick slot is listed once |
| `MovementInv` | `TypeOK`; `Rests`: a resting character is in one place; `TakenWhereReckoned`: a request from where the server has it is taken; `SavedAtRest` |
| `AggroInv` | `AggroTypeOK`; `TargetIsTop`, `AggroBacked`: the list and who is at its top; `DropToAttacker`: a drop is for someone who attacked in this life |
| `DungeonInv` | `TypeOK`; `ShownMobs`: what clients were shown is what has spawned; `PartsEarned`: after the start, a part ends by the kills it asks for; `DeletedStays` |
| `MobPathInv` | `TypeOK`; `PathFound`: a search finds what can be reached and nothing else; `WalksFree`; `RestsWhereItIs` |
| `BattleInv` | `LifeGivesItsExp`: one life, one experience, whoever divides it; `KilledOnce`: one kill, but for late hits and hits before the first life |

`KeepsPromise` is a refinement: `Handoff` implements `HandoffPromise` with the
history variables as its variables. `HandoffPromise` says a client asks once; a
world connection is granted at most once, to a request that was made and not
refused; each master answers a client at most once; a yes comes from the master
that was asked and after the grant; a no of the master asked is final. It holds
as long as IDs do not wrap, as in these runs; once they do, an answer reaches
another client. `SessionsGranted` holds all the same and is proved for every `IdSpace`.

Bounds. All of them are in the constants, those of runs with several modules partly in
the MC module.

* Hand-off and directory: one or two clients, keys and masters are enough for the
  races: each needs two requests for one world connection, one request at two masters,
  or one reconnect. `IdSpace` is larger than the IDs used. In `LinksParts` clients come
  when the links are up and the lists exchanged, and no link breaks from then on.
* Login: a third connection comes after one of two has gone, so that the array moves;
  `MaxLag` 2 with `Delay` 1 lets an iteration overrun a timer. Keys: payloads of every
  length modulo a word, every step of the table (`Count` 4) and the wrap behind it.
* Session: `MaxEntities`, `MaxCharacters`, `MaxItems`, `MaxInstances` are the code's
  limits scaled down, so that they are reached. `MaxInFlight` is 2 where two requests of
  one client must overlap.
* Store: two clients may have one account and one character; `MaxUnderWay` bounds what
  is sent unasked, `MaxPending` the requests of a kind a client has under way: two
  INITIALIZEs, one of every other. `Beyond` has one slot past the list of two. Of the four
  kinds of behaviour each has the requests that can disturb each other, and what only one
  client needs to do (a slot past the list, a second INITIALIZE, the character of another
  account) only the first connection does (`MaxOdd`).
* Items: `MaxSlots`, `MaxEquipment` and `MaxRecovery` are 0 to 3 where the code has
  dozens: every operation looks at one or two slots, a third is needed where the slots
  between move (upgrades), and lists of any length are left to the proofs. `MaxMade` and
  `MaxWorth` bound what is bought, looted and extracted between two logins, `MaxBatch`
  the slots named in one request; `MayLose` says which updates may be lost.
* Progress: three quest slots and three skill slots let a list be empty, full
  and removed from at its start, middle and end; `Width` is 16 so that stats and points wrap and sums still fit below it;
  `MaxTargets`, `MaxGained`, `MaxCredit` and `MaxKills` bound the mobs of one attack and
  what a session earns, each past the highest level, rank or counter. A session is
  for one purpose (quests, training, quick slots, stats, honor: `plan`), except that
  the second has all that makes up a rank: a quest, fights, training and books.
* Movement: four grounds, one for each slope (steep, flat, nearly even, falling), and two
  that lead out of the world, past its end and below zero, where `StoreWidth` 8 wraps what
  is stored (`MaxApart` 8 is past all of them but what wrapped farthest); chunks of 2
  tiles and a length of 5 so that chunk and length checks refuse; a tolerance of 6 cuts
  between the tiles beside a line and those farther off.
* Mobs: three attackers fill the list and leave an entry behind the one that is removed.
  The maps have a gap at the edge, a hook, a wall that cuts the world, and nothing;
  `MaxNodes` 14 is less than the free tiles of some, and `MaxWaypoints` 4 is small enough
  to be reached. One kind of mob of `Battle` gives less experience than it has HP,
  one more, and for one the product does not fit.
* Dungeon: triggers that call triggers, spawn, kill, revive and delete, a kill that
  ends its part within its own call.

Deadlock is not checked where the system may stop: IDs, breaks and connections get used
up and clients are free to do nothing; a failed assert, an incomplete packet or a count
that leaves its array ends the process or what the model follows of it.

Fairness. Each server's loop never blocks: it polls every socket each round, handles
what it has received, reconnects to its server when it is not connected and removes
flagged connections. So the steps of `LinkStep`, `VerifyStep` and `AuthReap` of
`Handoff`, the handlers of both servers and `OnDisconnect` of `WorldSession`, the
handlers, `Sweep` and `SyncDB` of `CharacterStore` are weakly fair. In `AuthLogin` the
next step of an iteration is weakly fair (`GoOn`), the end of a read included (the buffer
of a socket is finite), and an iteration that takes at least
a second begins again and again: strong fairness of `Begin`, since time passes. The
world loop calls `RTMobUpdate` for every mob in every iteration and time passes:
`Update` and `TimePasses` of `MobAggro`, `Walk \/ Arrive` of `MobPath`. Clients, drops,
attacks and link breaks are not fair, nor are reconnects in `CharacterStore`.

### Where code and its assertions disagree

* `SessionDropLogin`: `RTRuntimeGetCharacter` (`RuntimeLib/Runtime.c:278`) asserts that
  an entity's index is below the number of characters. Items draw from the same
  pool, so after one drop the next login fails the assert.
* `SessionReentry`: `RTWorldDespawnCharacter` (`RuntimeLib/World.c:75`) asserts the
  character is in the list of its world. A refused dungeon, or a second visit of
  the same dungeon, breaks that.
* `StorageUpgradeAssert`: `RTInventoryFindItems` (`RuntimeLib/Inventory.c:179`) asserts it
  is asked for at least one item; upgrading an item of a level without upgrade
  data asks for none.

A fourth assert that can fail has no run of its own: `assert(Client->AccountID > 0)`
(`AuthSvr/OnVerifyLinks.c:22`), for a client that fell, see `AuthLogin`. `LoginInv` has it as the
only assert of the login chain that fails, and this as the only way to it.

`ItemStorage` keeps further oddities of the code, which no comment or assert
contradicts: buying is free, bought items change the shop's own data, an upgrade
may raise the level of the next item when cores before it are removed, a core
itself can be upgraded away, and several handlers do not mark what they change
(`slip`), so that the change is lost with the session unless another one marks it.

The other session properties are stated so that they hold in spite of these: each names
the one way in which the exception arises (`OneWorld`, `NoGhosts`). One more oddity of
the session: `OnWorldGetCharacter` (`WorldSvr/OnInitialize.c:232`) asserts that a
connection ID, never reused, is below the number of character records; the model ends
there as the process does.

## 4. What is proved

The theorems hold for every value of the constants that the assumption of the module
allows, and so for any number of servers, clients, accounts, breaks and entries; each
property is also checked by a run. Of most of them the inductive invariant says more than
the property; it was checked by TLC before it was proved.

| Module | Theorems | Assumption |
|---|---|---|
| `HandoffProofs` | `TypeCorrect`, `HandoffAuthentic` (`SessionsGranted`), `HandoffPinned` (`AccountPinned`) | `HandoffAssumption` |
| | `HandoffInvariant`, `HandoffOnePiece` (`OnePiecePerMaster`), `HandoffKeepsPromise` (`KeepsPromise`) | and `IdsFit` |
| `DirectoryProofs` | `ListsShown` (`DirectoryInv`) | `DirectoryAssumption` |
| `AuthLoginProofs` | `LoginSafe` (`LoginInv`), `SweepClean` (`SweptClean`), `KeyAlwaysMade` | `LoginAssumption` |
| `WorldSessionProofs` | `SessionTypes`, `SessionOwnRecord`, `SessionOneWorld`, `SessionNoGhosts`, `SessionLootedOnce`, `SessionSpawns` | `SessionAssumption` |
| | `AggroHolds` (`AggroInv`) | `AggroAssumption` |
| `CharacterStoreProofs` | `StoreBacked` (`StoreInv`), `ChangesKept` (`LastChangeKept`), `SubpasswordsAgree` (`SubpasswordAgrees`) | `StoreAssumption` |
| `CharacterProofs` | `RecordHolds` (`RecordInv`), `QuestsListedOnce` (`QuestsOnce`), `RewardsAreEarned` (`RewardsEarned`), `PointsAreEarned` (`PointsEarned`) | `CharacterAssumption`, `StartsAssumption` |
| | `MovementAgrees` (`MovementInv`) | `MovementAssumption` |
| `ItemStorageProofs` | `MoveToSlot`, `MoveWithinList` | `StackAssumption` |
| | `StorageInductive`, `ListsInOrder` (`InventoryInv`), `RecoveriesCounted` (`RecoveryCounted`), `MarksCoverChanges` (`ChangesMarked`), `NobodyGetsRich` (`NoProfit`) | `StorageAssumption`, `StackAssumption` |
| | `NothingTwice` (`NothingDuplicated`) | and `StacksFit` |

### The hand-off

`SessionsGranted` is not inductive: a request in a channel could be anything, and
the key a connection holds could be one it was never given. The invariant is
`Authentic`: every request on the way was asked (`CarriesAsked`, for both channels),
what was granted was asked, and a key in use was issued (`KeysIssued`). The proof
has one lemma per group of actions; the lemmas about channels (`Sent`, `Tail`) are
stated once. These theorems hold for every `IdSpace`.

That `Handoff` implements `HandoffPromise` needs more, and needs `IdsFit`: connection IDs
are smaller than the field of a packet that carries them. `OnAuthVerifyLinks` sends 16 bits
of an ID that counts up without end (`NextConnectionID`), so after 65536 connections an answer
may reach another client; the assumption is what the code relies on. `HandoffInv` says that a
client has one request at most (`OneRequest`), that every packet on the way fits what was
asked and granted (`Fitting`), that a request of a client is at each master in one place
only: in one position of one channel, waiting, or done (`OneOf`, stated as "two places are
the same place", so that no packets need to be counted), and that what is answered is
bounded by what was granted (`GrantsBound`). Each step of `Handoff` is then a step of
`HandoffPromise` or leaves its variables alone.

### The directory

`DirectoryIInv` follows a count stage by stage: WorldSvr, the channel to MasterSvr, its
list, the channel to AuthSvr, the list there, the clients. At each stage the list either
agrees with the last one of the stage before, or an update is on its way, due, or lost for
a reason that `missed` and `drifted` name. AuthSvr drops the whole list when its link breaks
without marking it (`BreakAuth`), so what clients were told may for a while be what neither
end has: `ClientsTold` names what still comes.

### The login chain

`LoginIInv` adds to `LoginInv` that a client with PUBLICKEY_INITIALIZED has a key, that the
loop is inside the array, that an assert fails in a handler only, and that no flagged
connection is left in the part the sweep has gone through. Every handler keeps what `LoginInv` says of one client, whatever packet comes
(`OnReceivedSound`), flagged or not, with what it has proved and asked for, and the lemmas about the array (`ChangedOne`, `TakenOut`, `Accepted`) lift
this to all clients. With it the assert of `OnAuthenticate` (`AuthSvr/OnAuthenticate.c`, that
the RSA key exists) never fails, and that of `OnVerifyLinks.c:22` for a client that fell only. `SweepClean` is about each step of the sweep: it takes out
only flagged entries, and what it moves it keeps as it is.

### The session

The property everything hangs on is `Lockstep`: records are made in the order of entities,
because a login that follows a drop fails the assert of `RTRuntimeGetCharacter`
(`Runtime.c:278`) and nothing happens afterwards. So until then the n-th entity, the n-th
record and the n-th entry of `EntityToCharacter` belong together, and `OwnRecord` follows.
`SessionInv` also says that a character is in at most one list and there once (`ListedOnce`),
that it is in the list its position leads to (`Placed`, `AtPosition`), that the world of a
quest dungeon is empty itself (`QuestsEmpty`: players are in its instances), and where
each item is. The assert of `RTWorldSpawnCharacter` then needs the pigeonhole principle: a
list without duplicates of characters is no longer than the record array.

### The aggro list

For any characters, any length of the list, any HP and damage, and any order of attacks,
warps, deaths and updates. The loop of `RTMobGetMaxAggroTarget` takes entries out of the
list it walks through. That it comes to an end, and so that the recursive function
`SweptFrom` is what its definition says (`SweptUnfolds`), follows from the number of entries
it has not looked at: `Upto(m)` are the walks with at most m of them, and `Rises` of
`RunLemmas` goes from m - 1 to m. `SweptIs` says what the loop leaves: entries that were there
before, of characters that are here, and all of those unless an entry was moved over
(`TornNow`), which an entry taken out as the last or the last but one never does
(`ComesOn`). `TopIs` says that the target is in an entry with the most damage. Type,
`AggroBacked` and `DropToAttacker` are inductive with one more fact, that the damage a
character did and the HP left are within the HP of a life (`AggroIInv`, checked by TLC
first); `HitNoted` is the step of an attack, `SweepKept` that of an update, and
`TargetIsTop` follows (`TargetFrom`).

### The store

`StoreAssumption` asks that a row of the database is named by account and slot, as its keys
make sure (`SQL/MasterDB/0004`). Nothing bounds the requests under way (`MaxPending` is any
number). `StoreIInv` says what requests and answers on the way may carry. `ListInv`, for
`IndexComplete`: a list on its way misses no row but those the client is not told of or will
be told of behind it (`Complete`), and what is in one list is in those sent later, so that an
older list never takes back what a newer one showed. `KeptInv`, for `LastChangeKept`: a
character not in `shared` is played by one client, or some ask for it, never both
(`OnePlayer`); its saves are ahead of the fetches on the link (`SavedFirst`), so whichever
answer comes first brings the last state, but for what is `unsaved`; the versions on the way
ascend, and none is behind what the database has. `SubpasswordInv`, for
`SubpasswordAgrees`: copies agree with the last update that is on its way, or else with the
row (`CopyAgrees`, `LastUpdate`), and an account outside `raced` has one holder (`OneHolder`).

### Movement

The handlers of `OnMovement.c` check a position by a division with the sides the other way
round than the reckoning divides. The reckoned tile nevertheless lies on the checked line
exactly, for a line of any slope and length and for a tolerance of zero: `PointSides` says
where the reckoned tile is on the long and the short side, `SidesNear` that the check made
of it is `0 <= Tolerance`, for positions in the world or not, both from facts about
division with remainder (`Quotients`, `QuotientWhole`, `MinorWithin`). What a resting character is, and what of it is stored, is
kept step by step (`MovementKept`).

### The record of a character

For any tables of levels, ranks, skills and quests that `CharacterAssumption` allows, any
stored characters that `StartsAssumption` allows, and any order of requests, battles,
rewards, saves and lost saves. Costs, levels, rewards and the actions of a message are
recursive functions; `RunLemmas` says of them what induction would: a run exists, it keeps
what each step keeps (`RunExists`, `RunStays`), and sums grow by what one summand grows by
(`TotalReplaced`). One lemma per operator of `Character` then says which fields it changes,
and to what (`AddExpIs`, `RemoveSkillSlotIs`, `QuestClearIs`...).

No property is inductive alone. `ProgressInv`, checked by TLC with lost updates first:

* `PointsBacked` counts the skills a lookup by number finds, and a rank-up may give a skill
  a number that is in use; removing the first entry then uncovers the other. `Backed` asks
  for a worth of each number that every entry with it, found or not, stays within, and
  whose sum the credit pays for. Training, forgetting, moving and ranking up each say what
  they do to it (`BackedBy`); a login starts with the most that the entries cost (`MostIs`).
* `Balanced` is what every request keeps, `Questing` what the requests keep whose slots the
  client was told: the quests listed once, their counters within `since` (`Counted`), and the
  exp within what was gained and what the flags of done quests account for. A clear takes the
  quest out of the list and sets its flag at once, and needs that it was not set before
  (`NoneDone`); a removal moves the entries behind it (`Without`, `WithoutKeeps`).
* `Copied`: what is stored is a mixture of parts of different times. A part that is neither
  marked nor lost agrees with the record; the list of quests always was in order; and if
  nothing was lost, no stored quest is flagged and the stored exp is accounted for. A
  handler that changes a part and forgets its mark breaks this, which is why each lemma on
  an operator also says what it marks (`Marks`).

A fight is one step in which several mobs die: `OneHit` is what each of them keeps, and
`AllHits` that the run over them keeps it. `BattleKeeps`, `ActKept`, `ClearKept` and the other
lemmas of the last section take one action each, `ProgressKept` all of them.

### Slot lists

For lists of any length, any slot numbers and any stack sizes:

* `MoveToSlot`: after a move the code allows (`CanMove`), both lists ascend, the item
  or stack is where it was asked for, the units of source and target together are
  the same, and no other entry of either list changed;
* `MoveWithinList`: the same for `RTInventoryMoveSlot`, including the move of a stack
  onto its own slot.

They rest on `InsertionIndexIs` (the insertion point exists and splits the list, by
the least element of the positions behind it) and on what the elementary changes
do to the set of entries (`WithSlotIs`, `WithoutSlotIs`, `CountChanged`).

### What a character owns

For any number of slots, any kinds, any data of shop, extraction and upgrade that
`StorageAssumption` allows, any number of items and Alz, and any order of requests,
saves, lost saves and logins.

The histories count in two ways, in units of a kind and in Alz, and the proof counts once:
a *weight* (`Weights`) is a function of an entry that does not fall when the count rises and
that two stacks of a kind share as they share their counts. Units are a weight (`UnitsOf`),
what an entry is worth is one (`Worths`), and what it is worth beyond its price is one
(`Margins`). `Weigh` is the sum over a list, and the lemmas say what each elementary change
of a list does to it: `Put`, `Take`, `Recount`, `Relevel`, `MovedWithinWeighs`,
`MovedToWeighs`, with what they do to the order of the list from the lemmas on slot lists; `Enter` and
`Clear` are the same for the recovery list. A stack grows to what its kind allows
(`RTInventoryMoveSlot` moves what fits), and a stack that is too large from the
start would be the source of units it does not have; so `NothingTwice` asks that the data
has none (`StacksFit`), and the types carry that along (`Ok`).

Requests for several slots go slot by slot, a recursion over the list of the request. The
provers cannot use the library's induction; `RunExists` and `RunStays` take its place: they
say, from the least number at which it would fail, that such a run exists and keeps whatever
each step keeps. `MovedIs`, `BoughtIs`, `SoldIs`, `ExtractedIs`, `ClearedIs` follow.

`NoProfit` is not inductive. Parts are stored at different times, so what a login would bring
back is a mixture; the invariant `WorthCounted` bounds each mixture the marks allow for: live
Alz with stored items while the inventory is not marked, stored Alz with live items while
the Alz is not marked, and both stored. Selling turns an item into Alz and marks
both; what the recovery list holds is worth its `Margins`, since recovering costs the price.
That a change of the equipment always marks the inventory too (`Typed`) makes items
move between parts without being stored in one of them only. Every action but saving and
logging in is then shown to keep the types, to mark what it changes (`Marked`) and to add no more
than what came into being (`Tallied`), by one lemma each (`KeptBy...`); `StillCounted`
concludes for all of them at once. Saving (`SyncKept`) looks at which parts arrived together,
and a login begins afresh (`FreshSound`).

### Only model-checked

Liveness and fairness, which are out of the prover's reach: `RequestAnswered`, `TimedOut`,
`InitializeAnsweredUnbroken`, `RequestsAnswered`, `ChangesSaved`, `ComesBack`, `Arrives`.

The recursion of `Dungeon` (triggers that call triggers) and the search of `MobPath`
are defined over data, and so is what `Keychain` reads of a stream. `Battle` divides
products of three factors and remains with the checked widths. `FindItemsAsserts` and the
asserts of the session runs do not hold.

## 5. What is left

A theorem worth proving next: the arithmetic of one hit of `Battle`.

Not modelled, and why:

* Visibility: `WorldChunk.c` is empty and the chunks are commented out;
  `BroadcastToWorld` is a loop over the list of the world, which `WorldSession` has, and
  the rest formats packets.
* Core library: general containers, parsing, the database client. `Dictionary` and
  `IndexSet` are not used by the servers.
* Data loading (`WorldSvr/ServerDataLoader.c`, `*Config`): reads files once at the start;
  its result is a constant of the models.
* Chat and auction servers: empty programs.
* Vendored libraries (OpenSSL, zlib, MariaDB, Lua headers), SQL and data: third party
  or no code. About 77,000 of the lines of C in the repository are such headers; of the
  29,000 lines of the emulator itself the models stand for some 8,400, and most of
  the others are packet layouts, tables of constants, parsing and the editor tools.
* Within modelled components: what each section of part 2 says is left out.
