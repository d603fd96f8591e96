---------------------------- MODULE WorldSession ----------------------------
(***************************************************************************)
(* A player's stay on a world server: INITIALIZE asks the master server    *)
(* for the stored character, the answer creates an entity and a character  *)
(* record and spawns it in a world; the player warps between worlds and    *)
(* into quest dungeons (a private copy of a world), mobs drop items and    *)
(* players loot them; the main loop writes the position back to the        *)
(* database; a disconnect despawns the character.                          *)
(*                                                                         *)
(* WorldSvr is one thread: one action is one handler, or one step of its   *)
(* main loop.  A failed assert or a null World ends the process: fault     *)
(* names it and nothing happens afterwards.                                *)
(***************************************************************************)
EXTENDS Integers, Sequences, FiniteSets

CONSTANTS
    Worlds,         \* world indices with data
    QuestWorlds,    \* those of type QUEST_DUNGEON
    Players,        \* characters stored in the database
    MaxConn,        \* bound: client connections accepted in all
    MaxCharacters,  \* RUNTIME_MEMORY_MAX_CHARACTER_COUNT
    MaxEntities,    \* RUNTIME_MEMORY_MAX_ENTITY_COUNT
    MaxItems,       \* RUNTIME_MEMORY_MAX_ITEM_COUNT
    MaxInstances,   \* RUNTIME_MEMORY_MAX_WORLD_COUNT - 1
    MaxInFlight,    \* bound: packets on the way to and from the master
    MaxBreaks       \* bound: how often the link to the master breaks

ASSUME SessionAssumption ==
    /\ QuestWorlds \subseteq Worlds /\ Worlds \ QuestWorlds # {}
    /\ MaxConn \in Nat \ {0} /\ MaxCharacters \in Nat \ {0}
    /\ MaxEntities \in Nat \ {0} /\ MaxItems \in Nat \ {0}
    /\ MaxInstances \in Nat /\ MaxInFlight \in Nat \ {0} /\ MaxBreaks \in Nat

VARIABLES
    client,     \* client connections by connection ID
    toMaster,   \* packets WorldSvr -> MasterSvr
    toWorld,    \* packets MasterSvr -> WorldSvr
    link,       \* the connection to the master is up
    breaks,     \* link breaks so far
    saved,      \* the world each stored character is in
    kinds,      \* the entity pool: kind of each entity handed out
    slots,      \* EntityToCharacter
    characters, \* the character records
    present,    \* Characters list of each place
    items,      \* Items list of each place
    dungeons,   \* the dungeon instances opened
    hunted,     \* places with a mob that was hit and will be despawned
    looted,     \* history: items taken, in order
    fault       \* the assertion or null pointer that ended the process

memory == <<kinds, slots, characters>>
master == <<toMaster, toWorld, link, breaks, saved>>
vars == <<client, master, memory, present, items, dungeons, hunted, looted,
          fault>>

ConnIDs == 1 .. MaxConn
Normal  == Worlds \ QuestWorlds

\* A place where characters and items are: world w itself is <<w, 0>>, the
\* n-th dungeon instance, if it copies w, <<w, n>>.
Places == Worlds \X (0 .. MaxInstances)
Void   == <<>>      \* the NULL world

Client(phase, ready, entity, disc) ==
    [phase |-> phase, ready |-> ready, entity |-> entity, disc |-> disc]
Clients == [phase : {"unused", "open", "gone"}, ready : BOOLEAN,
            entity : 0 .. MaxEntities, disc : BOOLEAN]

Get(c, p)  == [kind |-> "GET", conn |-> c, player |-> p]
Save(p, w) == [kind |-> "SAVE", player |-> p, world |-> w]
Reply(g, ok, w) == [conn |-> g.conn, player |-> g.player, ok |-> ok, world |-> w]

Requests == [kind : {"GET"}, conn : ConnIDs, player : Players]
            \cup [kind : {"SAVE"}, player : Players, world : Worlds]
Replies  == [conn : ConnIDs, player : Players, ok : BOOLEAN, world : Worlds]

Character(e, c, p, w) ==
    [id |-> e, conn |-> c, player |-> p, world |-> w, dirty |-> FALSE]
Characters == [id : 1 .. MaxEntities, conn : ConnIDs, player : Players,
               world : Worlds, dirty : BOOLEAN]

Items    == [id : 1 .. MaxEntities, kind : {"currency", "thing"}]
Dungeons == [world : QuestWorlds, owner : 1 .. MaxEntities]

Faults == {"none", "CreateEntity", "CreateCharacter", "EntityToCharacter",
           "GetCharacter", "DespawnCharacter", "NullWorld", "ConnectionID",
           "SpawnCharacter"}

TypeOK ==
    /\ client \in [ConnIDs -> Clients]
    /\ toMaster \in Seq(Requests) /\ toWorld \in Seq(Replies)
    /\ link \in BOOLEAN /\ breaks \in 0 .. MaxBreaks
    /\ saved \in [Players -> Worlds]
    /\ kinds \in Seq({"character", "item"}) /\ Len(kinds) <= MaxEntities
    /\ slots \in [1 .. MaxCharacters -> 1 .. MaxCharacters]
    /\ characters \in Seq(Characters) /\ Len(characters) <= MaxCharacters
    /\ present \in [Places -> Seq(1 .. MaxEntities)]
    /\ items \in [Places -> Seq(Items)]
    /\ \A pl \in Places : Len(items[pl]) <= MaxItems
    /\ dungeons \in Seq(Dungeons)
    /\ Len(dungeons) <= MaxInstances
    /\ hunted \in SUBSET Places
    /\ looted \in Seq(1 .. MaxEntities)
    /\ fault \in Faults

\* The link may have broken before any client came.
Init ==
    /\ client = [c \in ConnIDs |-> Client("unused", FALSE, 0, FALSE)]
    /\ toMaster = <<>> /\ toWorld = <<>>
    /\ link = TRUE /\ breaks \in 0 .. MaxBreaks
    /\ saved \in [Players -> Normal]
    /\ kinds = <<>> /\ characters = <<>>
    /\ slots = [i \in 1 .. MaxCharacters |-> 1]
    /\ present = [pl \in Places |-> <<>>]
    /\ items = [pl \in Places |-> <<>>]
    /\ dungeons = <<>> /\ hunted = {} /\ looted = <<>>
    /\ fault = "none"

-----------------------------------------------------------------------------
(* The runtime's lookups.                                                  *)

\* RTRuntimeGetCharacter: the assert compares the index of the entity with
\* the number of characters.
Found(e)  == e <= Len(characters)
Lookup(e) == slots[e]
Of(e)     == characters[Lookup(e)]

\* RTRuntimeGetWorldByCharacter: a world that is no quest dungeon, else the
\* first instance of that world this character owns, else NULL.
OwnInstances(ch) ==
    {n \in DOMAIN dungeons : dungeons[n].world = ch.world /\ dungeons[n].owner = ch.id}
WorldOf(ch) ==
    IF ch.world \in Normal THEN <<ch.world, 0>>
    ELSE IF OwnInstances(ch) = {} THEN Void
    ELSE <<ch.world, CHOOSE n \in OwnInstances(ch) :
                        \A k \in OwnInstances(ch) : n <= k>>

\* The list without its i-th entry: those behind it move up.
RemovedAt(s, i) == [k \in 1 .. Len(s) - 1 |-> IF k < i THEN s[k] ELSE s[k + 1]]

\* The list without the first entry for this entity.
FirstOf(s, e) == CHOOSE n \in DOMAIN s : s[n] = e /\ \A k \in 1 .. n - 1 : s[k] # e
Without(s, e) == RemovedAt(s, FirstOf(s, e))

Has(s, e) == \E i \in DOMAIN s : s[i] = e

\* The process ends.
Fault(f) ==
    /\ fault' = f
    /\ UNCHANGED <<client, master, memory, present, items, dungeons, hunted,
                   looted>>

\* The client's handler runs: the connection is there and its character, if
\* it has one, was found (ClientSocketOnReceived).
Running(c) == fault = "none" /\ client[c].phase = "open"
Playing(c) == Running(c) /\ client[c].entity # 0 /\ Found(client[c].entity)

-----------------------------------------------------------------------------
(* Entering the world.                                                     *)

Accept(c) ==
    /\ fault = "none" /\ client[c].phase = "unused"
    /\ \A d \in ConnIDs : d < c => client[d].phase # "unused"
    /\ client' = [client EXCEPT ![c].phase = "open"]
    /\ UNCHANGED <<master, memory, present, items, dungeons, hunted, looted,
                   fault>>

\* The links are verified and the character index is loaded.
CharacterIndexLoaded(c) ==
    /\ Running(c) /\ ~client[c].ready
    /\ client' = [client EXCEPT ![c].ready = TRUE]
    /\ UNCHANGED <<master, memory, present, items, dungeons, hunted, looted,
                   fault>>

\* INITIALIZE by a client with the index and without a character (others are
\* flagged, Close); lost when the master is not connected.
Initialize(c, p) ==
    /\ Running(c) /\ client[c].ready /\ client[c].entity = 0
    /\ Len(toMaster) + Len(toWorld) < MaxInFlight
    /\ toMaster' = IF link THEN Append(toMaster, Get(c, p)) ELSE toMaster
    /\ UNCHANGED <<client, toWorld, link, breaks, saved, memory, present,
                   items, dungeons, hunted, looted, fault>>

\* MasterSvr reads the character; ok FALSE: not in the database, or of
\* another account.
OnWorldGetCharacterRequest(ok) ==
    /\ toMaster # <<>> /\ Head(toMaster).kind = "GET"
    /\ LET g == Head(toMaster)
       IN  toWorld' = Append(toWorld, Reply(g, ok, saved[g.player]))
    /\ toMaster' = Tail(toMaster)
    /\ UNCHANGED <<client, link, breaks, saved, memory, present, items,
                   dungeons, hunted, looted, fault>>

\* RTRuntimeCreateEntity takes the first free index; entities are never
\* deleted, so that is the next one.
NextEntity == Len(kinds) + 1

\* Mutant: EntityToCharacter is not set.
CreateCharacterUnmapped(c, p, w) ==
    /\ kinds' = Append(kinds, "character")
    /\ slots' = slots
    /\ characters' = Append(characters, Character(NextEntity, c, p, w))

\* RTRuntimeCreateCharacter and RTCharacterInitialize.
CreateCharacter(c, p, w) ==
    /\ kinds' = Append(kinds, "character")
    /\ slots' = [slots EXCEPT ![NextEntity] = Len(characters) + 1]
    /\ characters' = Append(characters, Character(NextEntity, c, p, w))

\* Mutant: a failed answer leaves the client waiting.
RefuseEntrySilent(r) == UNCHANGED client

\* The error path of OnWorldGetCharacter.
RefuseEntry(r) ==
    client' = [client EXCEPT ![r.conn].disc = @ \/ client[r.conn].phase = "open"]

\* What stops the process on the way into the world, in the order in which
\* the handler meets it.
EntryFault(r) ==
    IF r.conn >= MaxCharacters THEN "ConnectionID"
    ELSE IF Len(characters) >= MaxCharacters THEN "CreateCharacter"
    ELSE IF Len(kinds) >= MaxEntities THEN "CreateEntity"
    ELSE IF NextEntity > MaxCharacters THEN "EntityToCharacter"
    ELSE IF Len(present[<<r.world, 0>>]) >= MaxCharacters THEN "SpawnCharacter"
    ELSE IF NextEntity > Len(characters) + 1 THEN "GetCharacter"
    ELSE IF r.world \in QuestWorlds THEN "NullWorld"
    ELSE "none"

\* WorldSvr takes the master's answer: the character is created, bound to the
\* client and spawned in the world it was saved in.
OnWorldGetCharacter ==
    /\ fault = "none" /\ toWorld # <<>>
    /\ LET r == Head(toWorld)
           enters == client[r.conn].phase = "open" /\ r.ok
       IN  \/ /\ ~enters
              /\ RefuseEntry(r)
              /\ toWorld' = Tail(toWorld)
              /\ UNCHANGED <<toMaster, link, breaks, saved, memory, present,
                             items, dungeons, hunted, looted, fault>>
           \/ /\ enters /\ EntryFault(r) = "none"
              /\ CreateCharacter(r.conn, r.player, r.world)
              /\ client' = [client EXCEPT ![r.conn].entity = NextEntity]
              /\ present' = [present EXCEPT ![<<r.world, 0>>] = Append(@, NextEntity)]
              /\ toWorld' = Tail(toWorld)
              /\ UNCHANGED <<toMaster, link, breaks, saved, items, dungeons,
                             hunted, looted, fault>>
           \/ enters /\ EntryFault(r) # "none" /\ Fault(EntryFault(r))

-----------------------------------------------------------------------------
(* Moving between worlds.                                                  *)

\* RTWorldDespawnCharacter has a World and finds the entity in its list.
CanDespawn(pl, e) == pl # Void /\ Has(present[pl], e)
DespawnFault(pl)  == IF pl = Void THEN "NullWorld" ELSE "DespawnCharacter"

Moved(e, w) == [characters EXCEPT ![Lookup(e)].world = w,
                                  ![Lookup(e)].dirty = TRUE]

\* Mutant: the character is not taken from the list of the world it leaves.
WarpKeeping(c, w) ==
    LET e == client[c].entity
    IN  /\ present' = [present EXCEPT ![<<w, 0>>] = Append(@, e)]
        /\ characters' = Moved(e, w)

\* Mutant: the position keeps the old world.
WarpUnmoved(c, w) ==
    LET e == client[c].entity
        left == [present EXCEPT ![WorldOf(Of(e))] = Without(@, e)]
    IN  /\ present' = [left EXCEPT ![<<w, 0>>] = Append(@, e)]
        /\ characters' = [characters EXCEPT ![Lookup(e)].dirty = TRUE]

\* Out of one list, into the other, and the position follows.
WarpTo(c, w) ==
    LET e == client[c].entity
        left == [present EXCEPT ![WorldOf(Of(e))] = Without(@, e)]
    IN  /\ present' = [left EXCEPT ![<<w, 0>>] = Append(@, e)]
        /\ characters' = Moved(e, w)

\* The assert of RTWorldSpawnCharacter.
CanSpawn(pl) == Len(present[pl]) < MaxCharacters

\* WARP by a gate, a return stone or the exit of a quest dungeon: their
\* targets are ordinary worlds.
Warp(c, w) ==
    /\ Playing(c) /\ w \in Normal
    /\ LET e  == client[c].entity
           pl == WorldOf(Of(e))
       IN  \/ /\ CanDespawn(pl, e) /\ (CanSpawn(<<w, 0>>) \/ pl = <<w, 0>>)
              /\ WarpTo(c, w)
              /\ UNCHANGED <<client, master, kinds, slots, items, dungeons,
                             hunted, looted, fault>>
           \/ /\ CanDespawn(pl, e) /\ ~CanSpawn(<<w, 0>>) /\ pl # <<w, 0>>
              /\ Fault("SpawnCharacter")
           \/ /\ pl # Void /\ ~CanDespawn(pl, e)
              /\ Fault(DespawnFault(pl))

\* RTRuntimeOpenDungeon refuses a world that is no quest dungeon, a character
\* that is in one, and when the instances are used up.
CanOpen(e, w) ==
    /\ w \in QuestWorlds
    /\ Of(e).world \in Normal
    /\ Len(dungeons) < MaxInstances

\* WARP into a dungeon.  The character is despawned before the instance is
\* opened: a refusal leaves it in no world, and flags the connection.  The
\* instance is a copy of the world with its lists.
WarpDungeon(c, w) ==
    /\ Playing(c)
    /\ LET e  == client[c].entity
           pl == WorldOf(Of(e))
           n  == Len(dungeons) + 1
           left == [present EXCEPT ![pl] = Without(@, e)]
       IN  \/ /\ CanDespawn(pl, e) /\ CanOpen(e, w)
              /\ dungeons' = Append(dungeons, [world |-> w, owner |-> e])
              /\ present' = [left EXCEPT ![<<w, n>>] = Append(left[<<w, 0>>], e)]
              /\ items' = [items EXCEPT ![<<w, n>>] = items[<<w, 0>>]]
              /\ characters' = Moved(e, w)
              /\ UNCHANGED <<client, master, kinds, slots, hunted, looted, fault>>
           \/ /\ CanDespawn(pl, e) /\ ~CanOpen(e, w)
              /\ present' = left
              /\ client' = [client EXCEPT ![c].disc = TRUE]
              /\ UNCHANGED <<master, memory, items, dungeons, hunted, looted, fault>>
           \/ /\ pl # Void /\ ~CanDespawn(pl, e)
              /\ Fault(DespawnFault(pl))

-----------------------------------------------------------------------------
(* Items.                                                                  *)

\* The player's attack leaves a mob of this place dead; the main loop will
\* despawn it.
HitMob(c) ==
    /\ Playing(c)
    /\ LET pl == WorldOf(Of(client[c].entity))
       IN  pl # Void /\ hunted' = hunted \cup {pl}
    /\ UNCHANGED <<client, master, memory, present, items, dungeons, looted,
                   fault>>

\* Mutant: the list grows past its array.
KeptAll(s) == s

\* A full list loses its first item before one is appended.
Kept(s) == SubSeq(s, IF Len(s) > MaxItems THEN Len(s) - MaxItems + 1 ELSE 1, Len(s))

\* The items a mob may drop: currency, or an item and a quest item.
Drops == {<<>>, <<"currency">>, <<"thing">>, <<"thing", "thing">>}

\* RTWorldDespawnMob and RTWorldSpawnItem: each item takes an entity.
DespawnMob(pl, drop) ==
    /\ fault = "none" /\ pl \in hunted
    /\ LET new == [i \in DOMAIN drop |-> [id |-> Len(kinds) + i, kind |-> drop[i]]]
       IN  \/ /\ Len(kinds) + Len(drop) <= MaxEntities
              /\ kinds' = kinds \o [i \in DOMAIN drop |-> "item"]
              /\ items' = [items EXCEPT ![pl] = Kept(@ \o new)]
              /\ hunted' = hunted \ {pl}
              /\ UNCHANGED <<client, master, slots, characters, present,
                             dungeons, looted, fault>>
           \/ /\ Len(kinds) + Len(drop) > MaxEntities
              /\ Fault("CreateEntity")

\* Mutant: the looted item stays on the ground.
TakeLeaving(pl, i) ==
    /\ looted' = Append(looted, items[pl][i].id)
    /\ items' = items

\* RTWorldDespawnItem takes out the item the lookup found.
Take(pl, i) ==
    /\ looted' = Append(looted, items[pl][i].id)
    /\ items' = [items EXCEPT ![pl] = RemovedAt(@, i)]

\* LOOT_INVENTORY_ITEM: the item goes, into the slot or, if the slot is in
\* use, nowhere.
LootInventoryItem(c) ==
    /\ Playing(c)
    /\ LET e  == client[c].entity
           pl == WorldOf(Of(e))
       IN  /\ pl # Void
           /\ \E i \in DOMAIN items[pl] : Take(pl, i)
           /\ characters' = [characters EXCEPT ![Lookup(e)].dirty = TRUE]
    /\ UNCHANGED <<client, master, kinds, slots, present, dungeons, hunted, fault>>

\* LOOT_CURRENCY_ITEM looks in the world with the character's world index: in
\* a quest dungeon that is the world the instance was copied from.
LootCurrencyItem(c) ==
    /\ Playing(c)
    /\ LET e  == client[c].entity
           pl == <<Of(e).world, 0>>
       IN  /\ \E i \in DOMAIN items[pl] :
                /\ items[pl][i].kind = "currency"
                /\ Take(pl, i)
           /\ characters' = [characters EXCEPT ![Lookup(e)].dirty = TRUE]
    /\ UNCHANGED <<client, master, kinds, slots, present, dungeons, hunted, fault>>

-----------------------------------------------------------------------------
(* Saving and leaving.                                                     *)

\* ServerSyncDB: what changed is sent, or lost when the master is not
\* connected; either way it counts as saved.
SyncDB(c) ==
    /\ Playing(c) /\ Of(client[c].entity).dirty
    /\ Len(toMaster) + Len(toWorld) < MaxInFlight
    /\ LET ch == Of(client[c].entity)
       IN  toMaster' = IF link THEN Append(toMaster, Save(ch.player, ch.world))
                               ELSE toMaster
    /\ characters' = [characters EXCEPT ![Lookup(client[c].entity)].dirty = FALSE]
    /\ UNCHANGED <<client, toWorld, link, breaks, saved, kinds, slots, present,
                   items, dungeons, hunted, looted, fault>>

\* MasterSvr writes the character; no answer is sent if that fails.
OnWorldDBSync(ok) ==
    /\ toMaster # <<>> /\ Head(toMaster).kind = "SAVE"
    /\ LET s == Head(toMaster)
       IN  saved' = IF ok THEN [saved EXCEPT ![s.player] = s.world] ELSE saved
    /\ toMaster' = Tail(toMaster)
    /\ UNCHANGED <<client, toWorld, link, breaks, memory, present, items,
                   dungeons, hunted, looted, fault>>

\* The connection fails, or a handler's error path flags it.
Close(c) ==
    /\ Running(c)
    /\ client' = [client EXCEPT ![c].disc = TRUE]
    /\ UNCHANGED <<master, memory, present, items, dungeons, hunted, looted,
                   fault>>

Gone == Client("gone", FALSE, 0, FALSE)

\* Mutant: the character stays in its world.
OnDisconnectKeeping(c) ==
    /\ Running(c) /\ client[c].disc
    /\ client' = [client EXCEPT ![c] = Gone]
    /\ UNCHANGED <<master, memory, present, items, dungeons, hunted, looted,
                   fault>>

\* SocketUpdate removes a flagged connection: ClientSocketOnDisconnect takes
\* the character from its world; the entity and the record remain.
OnDisconnect(c) ==
    /\ Running(c) /\ client[c].disc
    /\ LET e  == client[c].entity
           pl == WorldOf(Of(e))
       IN  \/ /\ e = 0
              /\ client' = [client EXCEPT ![c] = Gone]
              /\ UNCHANGED <<master, memory, present, items, dungeons, hunted,
                             looted, fault>>
           \/ /\ e # 0 /\ CanDespawn(pl, e)
              /\ client' = [client EXCEPT ![c] = Gone]
              /\ present' = [present EXCEPT ![pl] = Without(@, e)]
              /\ UNCHANGED <<master, memory, items, dungeons, hunted, looted,
                             fault>>
           \/ e # 0 /\ ~CanDespawn(pl, e) /\ Fault(DespawnFault(pl))

\* The link to the master breaks: what is on the way is lost.
BreakLink ==
    /\ fault = "none" /\ link /\ breaks < MaxBreaks
    /\ link' = FALSE /\ breaks' = breaks + 1
    /\ toMaster' = <<>> /\ toWorld' = <<>>
    /\ UNCHANGED <<client, saved, memory, present, items, dungeons, hunted,
                   looted, fault>>

Reconnect ==
    /\ fault = "none" /\ ~link
    /\ link' = TRUE
    /\ UNCHANGED <<client, toMaster, toWorld, breaks, saved, memory, present,
                   items, dungeons, hunted, looted, fault>>

-----------------------------------------------------------------------------
ClientStep(c) ==
    \/ Accept(c) \/ CharacterIndexLoaded(c)
    \/ \E p \in Players : Initialize(c, p)
    \/ \E w \in Worlds : Warp(c, w) \/ WarpDungeon(c, w)
    \/ HitMob(c) \/ LootInventoryItem(c) \/ LootCurrencyItem(c)
    \/ Close(c)

MasterStep == \E ok \in BOOLEAN : OnWorldGetCharacterRequest(ok) \/ OnWorldDBSync(ok)

WorldLoop ==
    \/ OnWorldGetCharacter \/ Reconnect
    \/ \E pl \in Places, drop \in Drops : DespawnMob(pl, drop)

Next ==
    \/ \E c \in ConnIDs : ClientStep(c) \/ SyncDB(c) \/ OnDisconnect(c)
    \/ MasterStep \/ WorldLoop \/ BreakLink

Spec == Init /\ [][Next]_vars

\* Both servers' loops handle what they received and remove flagged
\* connections; clients may stop at any time.
Fairness ==
    /\ WF_vars(MasterStep) /\ WF_vars(OnWorldGetCharacter)
    /\ \A c \in ConnIDs : WF_vars(OnDisconnect(c))

FairSpec == Spec /\ Fairness

-----------------------------------------------------------------------------
(* Properties.                                                             *)

InPlay(c) == client[c].phase = "open" /\ client[c].entity # 0

\* A client in play finds its own character: EntityToCharacter, shared with
\* the entities of items and never cleaned up, leads from its entity to the
\* record made for this connection, and no two clients share an entity.
OwnRecord ==
    \A c \in ConnIDs : InPlay(c) =>
        LET e == client[c].entity
        IN  /\ Found(e) /\ Of(e).id = e /\ Of(e).conn = c
            /\ kinds[e] = "character"
            /\ \A d \in ConnIDs \ {c} : InPlay(d) => client[d].entity # e

\* Where an entity is listed, with its position in the list.
Listed(e) == {at \in Places \X (1 .. MaxCharacters) :
                 /\ at[2] \in DOMAIN present[at[1]]
                 /\ present[at[1]][at[2]] = e}

\* However it warps, a player in play is in the list of exactly one world or
\* instance, unless a dungeon refused it and its connection is flagged for that,
\* and it is the list of the world the lookup gives as long as nobody owns two
\* instances of one world: position and list move together.
OneWorld ==
    \A c \in ConnIDs : InPlay(c) =>
        LET e == client[c].entity
            n == Cardinality(Listed(e))
        IN  /\ n = 1 \/ (n = 0 /\ client[c].disc)
            /\ n = 1 /\ (\A i, j \in DOMAIN dungeons : i # j => dungeons[i] # dungeons[j])
                   => CanDespawn(WorldOf(Of(e)), e)

\* A character in a world's list is that of an open connection.  The one way
\* to leave another behind is a second INITIALIZE answered on the same
\* connection: then a later record of that connection exists.
NoGhosts ==
    \A i \in DOMAIN characters :
        LET ch == characters[i]
        IN  Listed(ch.id) # {} =>
                \/ client[ch.conn].phase = "open" /\ client[ch.conn].entity = ch.id
                \/ \E j \in DOMAIN characters : j > i /\ characters[j].conn = ch.conn

\* No item is taken twice, and one that was taken lies nowhere.
LootedOnce ==
    /\ \A i, j \in DOMAIN looted : i # j => looted[i] # looted[j]
    /\ \A pl \in Places : \A i \in DOMAIN items[pl] :
          /\ ~Has(looted, items[pl][i].id)
          /\ kinds[items[pl][i].id] = "item"

\* Inductive support of the properties above.  RTRuntimeGetCharacter's assert
\* makes entities, records and EntityToCharacter go up in step.
Lockstep ==
    /\ Len(characters) <= Len(kinds)
    /\ \A i \in DOMAIN characters :
          characters[i].id = i /\ slots[i] = i /\ kinds[i] = "character"

\* A client has an entity only while its connection is open, and then a record
\* made for it.
Bound ==
    \A c \in ConnIDs : client[c].entity # 0 =>
        /\ client[c].phase = "open"
        /\ client[c].entity \in DOMAIN characters
        /\ characters[client[c].entity].conn = c

\* No character is listed twice, in one place or in two.
ListedOnce ==
    /\ \A pl \in Places : \A i \in DOMAIN present[pl] : present[pl][i] \in DOMAIN characters
    /\ \A p, q \in Places : \A i \in DOMAIN present[p], j \in DOMAIN present[q] :
          present[p][i] = present[q][j] => p = q /\ i = j

\* The data of a quest dungeon and instances that are not opened yet hold
\* nobody, and the data no items: it is what an instance is a copy of.
QuestsEmpty ==
    \A w \in QuestWorlds :
        /\ \A n \in 0 .. MaxInstances : n = 0 \/ n > Len(dungeons) => present[<<w, n>>] = <<>>
        /\ items[<<w, 0>>] = <<>> /\ <<w, 0>> \notin hunted

\* Where the position of a character says it is.
AtPosition(e, pl) ==
    /\ pl[1] = characters[e].world
    /\ \/ pl[1] \in Normal /\ pl[2] = 0
       \/ pl[2] \in DOMAIN dungeons /\ dungeons[pl[2]] = [world |-> pl[1], owner |-> e]

Placed ==
    \A c \in ConnIDs : client[c].entity # 0 =>
        \/ \E pl \in Places : Has(present[pl], client[c].entity) /\ AtPosition(client[c].entity, pl)
        \/ client[c].disc /\ \A pl \in Places : ~Has(present[pl], client[c].entity)

\* No item lies twice, and an item taken has an entity of the pool.
LyingOnce ==
    /\ \A p, q \in Places : \A i \in DOMAIN items[p], j \in DOMAIN items[q] :
          items[p][i].id = items[q][j].id => p = q /\ i = j
    /\ \A pl \in Places : \A i \in DOMAIN items[pl] : items[pl][i].id \in DOMAIN kinds
    /\ \A i \in DOMAIN looted : looted[i] \in DOMAIN kinds

\* Every INITIALIZE ends while the link holds: with a character in play, the
\* connection closed, or the process ended.
Waiting(c) == \E i \in DOMAIN toMaster : toMaster[i].kind = "GET" /\ toMaster[i].conn = c
InitializeAnswered ==
    \A c \in ConnIDs :
        Waiting(c) ~> (client[c].entity # 0 \/ client[c].phase = "gone" \/ fault # "none")

\* The assert of RTRuntimeGetCharacter that an entity's index is below the
\* number of characters (Runtime.c:278).
GetCharacterAsserts == fault # "GetCharacter"

\* The assert of RTWorldDespawnCharacter that the character is in the list of
\* its world (World.c:75).
DespawnCharacterAsserts == fault # "DespawnCharacter"

\* The assert of RTWorldSpawnCharacter that the list of the world has room:
\* there are never more listed than records.
SpawnCharacterAsserts == fault # "SpawnCharacter"

\* The inductive invariant.
SessionInv ==
    /\ TypeOK /\ Lockstep /\ Bound /\ ListedOnce /\ QuestsEmpty /\ Placed
    /\ LyingOnce /\ NoGhosts /\ LootedOnce /\ SpawnCharacterAsserts
=============================================================================
