------------------------------ MODULE Dungeon ------------------------------
(***************************************************************************)
(* One dungeon instance: its pattern parts, their mobs and the triggers.   *)
(*                                                                         *)
(* A part brings a table of mobs and asks for a number of kills.  Each     *)
(* mob that despawns may fire a trigger, counts for the missions and, when *)
(* they are complete, has the next part replace the table, all within one  *)
(* call: triggers make further mobs spawn and despawn, so the table may be *)
(* another one when a call returns.                                        *)
(*                                                                         *)
(* What the mobs do besides is in MobAggro: here a mob has HP or has none. *)
(* The operators that take a world return what a call leaves of it.        *)
(***************************************************************************)
EXTENDS Integers, Sequences, SequencesExt

CONSTANTS
    Tables,      \* Tables[1]: mobs of the world the instance was copied from;
                 \* Tables[p]: mobs of the pattern part with index p - 2
    Missions,    \* Missions[p]: what that part asks for; Missions[1] is empty
    Triggers,    \* TriggerData of the dungeon, in order
    Actions,     \* TriggerActionData of the dungeon, in order
    NpcTriggers, \* NpcTriggers[p]: triggers that the NPCs met in that part fire
    NoSpecies,   \* MobSpeciesID 0
    MaxKills     \* bound: deaths per part and species that are counted

VARIABLE
    world        \* the RTWorld of the instance, with history

Parts == DOMAIN Tables
Species == {Tables[p][i].species : <<p, i>> \in {q \in Parts \X (1 .. 9) : q[2] \in DOMAIN Tables[q[1]]}}
Mobs == [spawned : BOOLEAN, dead : BOOLEAN, permanent : BOOLEAN, hp : {0, 1}]
Fresh == [spawned |-> FALSE, dead |-> FALSE, permanent |-> FALSE, hp |-> 0]

IsAlive(m) == m.spawned /\ m.hp > 0
Def(w, i) == Tables[w.part][i]
Smaller(a, b) == IF a < b THEN a ELSE b

\* World->PatternPartIndex (index), MobTable (that of part), MissionMobs, Active
\* and Closed; shown: the mobs whose last broadcast was a spawn.  Since the copy
\* or, later, the start, kills: mobs of a species that died in a part; unearned:
\* counted in a part for a mob of the table before it.  fault: a trigger action
\* names a mob the table does not have.
TypeOK ==
    /\ world.part \in Parts
    /\ world.index = (IF world.part = 1 THEN 0 ELSE world.part - 2)
    /\ world.part = 1 => ~world.active
    /\ world.mobs \in [DOMAIN Tables[world.part] -> Mobs]
    /\ DOMAIN world.counts = DOMAIN Missions[world.part]
    /\ \A k \in DOMAIN world.counts : world.counts[k] \in 0 .. Missions[world.part][k].max
    /\ world.active \in BOOLEAN /\ world.closed \in BOOLEAN /\ ~world.fault
    /\ world.kills \in [Parts \X Species -> 0 .. MaxKills]
    /\ world.unearned \in [Parts -> 0 .. MaxKills]

\* The world that instances are copied from is updated like any other
\* (Runtime.c:44-47): the mobs the copy takes over have spawned.  Its
\* PatternPartIndex is 0 and it asks for nothing.
Init ==
    world = [part |-> 1, index |-> 0,
             mobs |-> [i \in DOMAIN Tables[1] |-> [Fresh EXCEPT !.spawned = TRUE, !.hp = 1]],
             counts |-> <<>>, active |-> FALSE, closed |-> FALSE, fault |-> FALSE,
             shown |-> {Tables[1][i].id : i \in DOMAIN Tables[1]},
             kills |-> [q \in Parts \X Species |-> 0],
             unearned |-> [p \in Parts |-> 0]]

-----------------------------------------------------------------------------
(* Pattern parts *)

\* RTDungeonIsPatternPartCompleted; the part before the first is.
IsPatternPartCompleted(w) ==
    w.index = -1 \/ \A k \in DOMAIN w.counts : w.counts[k] >= Missions[w.part][k].max

IsLast(w) == w.index + 3 \notin Parts

\* RTWorldSetMobTable: all mobs that are not dead disappear first.
SetMobTable(w, p) ==
    [w EXCEPT !.shown = @ \ {Def(w, i).id : i \in {j \in DOMAIN w.mobs : ~w.mobs[j].dead}},
              !.mobs = [i \in DOMAIN Tables[p] |-> Fresh]]

StartNextPatternPart(w) ==
    IF ~IsPatternPartCompleted(w) \/ IsLast(w) THEN w
    ELSE [SetMobTable(w, w.index + 3)
            EXCEPT !.counts = [k \in DOMAIN Missions[w.index + 3] |-> 0],
                   !.part = w.index + 3,
                   !.index = @ + 1]

\* RTDungeonStart: from the part before the first, whatever came before it.
Start(w) ==
    IF w.active THEN w
    ELSE [StartNextPatternPart([w EXCEPT !.index = -1, !.kills = [q \in DOMAIN @ |-> 0],
                                         !.unearned = [p \in Parts |-> 0]])
            EXCEPT !.active = TRUE]

\* Mutant: any mob counts.
IncrementForAny(w, species) ==
    StartNextPatternPart(
        [w EXCEPT !.counts = [k \in DOMAIN @ |-> Smaller(@[k] + 1, Missions[w.part][k].max)]])

\* RTWorldIncrementQuestMobCounter
IncrementQuestMobCounter(w, species) ==
    StartNextPatternPart(
        [w EXCEPT !.counts = [k \in DOMAIN @ |->
            IF Missions[w.part][k].species = species
            THEN Smaller(@[k] + 1, Missions[w.part][k].max) ELSE @[k]]])

-----------------------------------------------------------------------------
(* Mobs and triggers *)

RECURSIVE TriggerEvent(_, _), RunActions(_, _)

\* RTWorldSpawnMob
SpawnMob(w, i) ==
    LET s == [w EXCEPT !.mobs[i].hp = 1, !.mobs[i].dead = FALSE, !.mobs[i].spawned = TRUE,
                       !.shown = @ \cup {Def(w, i).id}]
    IN  IF Def(w, i).spawnTrigger = 0 THEN s ELSE TriggerEvent(s, Def(w, i).spawnTrigger)

\* The species that is counted is read from the slot of the mob after its trigger
\* has run: if the table was replaced, it is that of another mob, or of none.
DespawnMob(w, i) ==
    LET d == [w EXCEPT !.mobs[i].spawned = FALSE, !.mobs[i].dead = TRUE,
                       !.shown = @ \ {Def(w, i).id},
                       !.kills[w.part, Def(w, i).species] = Smaller(@ + 1, MaxKills)]
        t == IF Def(w, i).killTrigger = 0 THEN d ELSE TriggerEvent(d, Def(w, i).killTrigger)
        species == IF i \in DOMAIN t.mobs THEN Def(t, i).species ELSE NoSpecies
    IN  IncrementQuestMobCounter(
            IF t.part = w.part THEN t
            ELSE [t EXCEPT !.unearned[t.part] = Smaller(@ + 1, MaxKills)], species)

\* RTWorldGetMob; 0 for NULL.
GetMob(w, id) == LET at == {i \in DOMAIN w.mobs : Def(w, i).id = id}
                 IN  IF at = {} THEN 0 ELSE CHOOSE i \in at : \A j \in at : i <= j

IsDead(w, id) == GetMob(w, id) = 0 \/ w.mobs[GetMob(w, id)].dead

\* RTDungeonTriggerEvent looks at the first trigger of that ID only.  A mob that
\* is to be dead fails the trigger by being dead, as in the code.
TriggerEvent(w, id) ==
    LET found == {n \in DOMAIN Triggers : Triggers[n].id = id}
        t == Triggers[CHOOSE n \in found : \A m \in found : n <= m]
    IN  IF found = {} \/ \E m \in t.live \cup t.dead : IsDead(w, m) THEN w
        ELSE RunActions(w, SelectSeq(Actions, LAMBDA a : a.group = t.group))

\* The actions of a group in order, up to one whose mob is not in the state for it.
RunActions(w, acts) ==
    IF acts = <<>> THEN w
    ELSE LET a == Head(acts)
             i == GetMob(w, a.target)
             then(v) == RunActions(v, Tail(acts))
         IN  CASE a.type = "EVENT_CALL" -> then(TriggerEvent(w, a.target))
               [] a.type # "EVENT_CALL" /\ i = 0 -> [w EXCEPT !.fault = TRUE]
               [] a.type = "SPAWN" /\ i # 0 ->
                    IF w.mobs[i].permanent \/ IsAlive(w.mobs[i]) THEN w ELSE then(SpawnMob(w, i))
               [] a.type = "KILL" /\ i # 0 ->
                    IF IsAlive(w.mobs[i]) THEN then(DespawnMob(w, i)) ELSE w
               [] a.type = "REVIVE" /\ i # 0 ->
                    IF IsAlive(w.mobs[i]) THEN w ELSE then(SpawnMob(w, i))
               [] a.type = "DELETE" /\ i # 0 ->
                    then(DespawnMob([w EXCEPT !.mobs[i].permanent = TRUE], i))

\* RTMobUpdate: a spawned mob without HP despawns, one that is gone comes back.
UpdateMob(w, i) ==
    IF IsAlive(w.mobs[i]) THEN w
    ELSE IF w.mobs[i].spawned THEN DespawnMob(w, i)
    ELSE IF Def(w, i).default /\ ~w.mobs[i].permanent THEN SpawnMob(w, i)
    ELSE w

RECURSIVE UpdateFrom(_, _, _)

\* RTWorldUpdate: slot by slot, in whatever table there is by then.  A mob that
\* has had its first update may be waiting for its NextTimestamp.
UpdateFrom(w, i, due) ==
    IF i \notin DOMAIN w.mobs THEN w
    ELSE UpdateFrom(IF i \in due \/ w.mobs[i] = Fresh THEN UpdateMob(w, i) ELSE w, i + 1, due)

-----------------------------------------------------------------------------
(* Requests and the server's loop *)

\* QUEST_DUNGEON_SPAWN: RTDungeonStart, unless it has begun, and an update.
OnSpawn ==
    \E due \in SUBSET DOMAIN Start(world).mobs :
        world' = UpdateFrom(Start(world), 1, due)

\* RTRuntimeUpdate
Update ==
    /\ world.active /\ ~world.closed
    /\ \E due \in SUBSET DOMAIN world.mobs : world' = UpdateFrom(world, 1, due)

\* A character takes the last HP of a mob.
OnAttack(i) ==
    /\ ~world.mobs[i].dead /\ world.mobs[i].hp > 0
    /\ world' = [world EXCEPT !.mobs[i].hp = 0]

\* ATTACK_BOSS_MOB: the NPC-like mobs with Boss = 2 go at once, dead or not.
OnAttackBossMob(i) ==
    /\ Def(world, i).boss
    /\ world' = DespawnMob(world, i)

\* RTCharacterQuestAction with an action of type TRIGGER.
OnQuestAction(id) == world' = TriggerEvent(world, id)

\* QUEST_DUNGEON_END
OnEnd ==
    /\ world.active /\ ~world.closed
    /\ IsPatternPartCompleted(world) /\ IsLast(world)
    /\ world' = [world EXCEPT !.closed = TRUE]

Next ==
    \/ OnSpawn \/ Update \/ OnEnd
    \/ \E i \in DOMAIN world.mobs : OnAttack(i) \/ OnAttackBossMob(i)
    \/ \E id \in NpcTriggers[world.part] : OnQuestAction(id)

Spec == Init /\ [][Next]_world

-----------------------------------------------------------------------------
(* Properties *)

\* RTWorldSpawnMob, RTWorldDespawnMob and RTWorldSetMobTable, however deep the
\* triggers nest: what was broadcast to the clients is what has spawned.
ShownMobs == world.shown = {Def(world, i).id : i \in {j \in DOMAIN world.mobs : world.mobs[j].spawned}}

\* RTDungeonStartNextPatternPart and RTDungeonEnd: a part is left behind, and the
\* last one closed, only after as many mobs of each species died in it since the
\* start as it asks for, counting those the code takes from the table before it.
\* Before the start the first part is passed over: PatternPartIndex is 0 and
\* nothing is asked for, so any mob that despawns brings the second part.
PartsEarned ==
    \A p \in Parts :
        /\ p < world.part \/ (p = world.part /\ world.closed)
        /\ world.active \/ p > 2
        => \A k \in DOMAIN Missions[p] :
               world.kills[p, Missions[p][k].species] + world.unearned[p] >= Missions[p][k].max

\* RTDungeonTriggerEvent: a mob that a trigger has deleted does not come back,
\* neither by a trigger that spawns it nor with the next update.
DeletedStays == \A i \in DOMAIN world.mobs : world.mobs[i].permanent => ~world.mobs[i].spawned

\* However triggers nest, a dungeon shows what it has, and goes on by what was
\* earned: no trigger runs on a table that lacks its mob, none undoes another.
DungeonInv == TypeOK /\ ShownMobs /\ PartsEarned /\ DeletedStays
=============================================================================
