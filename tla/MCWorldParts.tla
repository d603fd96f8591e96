----------------------------- MODULE MCWorldParts ----------------------------
(***************************************************************************)
(* MobAggro, Dungeon, MobPath and Battle in one run and apart from each    *)
(* other: a behaviour is one of one of them.                               *)
(*                                                                         *)
(* The dungeon has two parts after the table of the world, whose boss may  *)
(* go before the start. Part 2 wants one gate keeper, part 3 two guards.   *)
(* An NPC calls the gate keeper and, by a nested trigger, takes the NPC    *)
(* mob away; the lever of part 2 kills the gate keeper when it dies        *)
(* itself, which completes the part within its own call.                   *)
(*                                                                         *)
(* The maps of MobPath have a gap at the edge, a hook, a wall that cuts    *)
(* the world in two, and nothing.                                          *)
(*                                                                         *)
(* The fighters of Battle differ in everything a formula looks at.  One    *)
(* mob gives less experience than it has HP, one more, and for one the     *)
(* product of the two does not fit.                                        *)
(***************************************************************************)
EXTENDS MobPath, MobAggro

CONSTANT NoSpecies     \* of Dungeon

\* A hunter, and a mob that only stands there.
MCKinds == {{"spawnDefault", "aggressive", "canAttack", "canMove"}, {"spawnDefault"}}

DungeonMob(id, species, default, onSpawn, onKill, boss) ==
    [id |-> id, species |-> species, default |-> default,
     spawnTrigger |-> onSpawn, killTrigger |-> onKill, boss |-> boss]

MCTables ==
    << <<DungeonMob(1, "beast", TRUE, 0, 0, FALSE), DungeonMob(2, "npc", TRUE, 0, 0, TRUE)>>,
       <<DungeonMob(1, "lever", TRUE, 0, 4, FALSE), DungeonMob(2, "keeper", FALSE, 3, 0, FALSE),
         DungeonMob(3, "npc", TRUE, 0, 0, FALSE)>>,
       <<DungeonMob(1, "guard", TRUE, 0, 5, FALSE), DungeonMob(2, "npc", TRUE, 0, 0, TRUE),
         DungeonMob(3, "guard", FALSE, 0, 0, FALSE)>> >>

MCMissions == << <<>>, <<[species |-> "keeper", max |-> 1]>>, <<[species |-> "guard", max |-> 2]>> >>

EventTrigger(id, live, dead, group) == [id |-> id, live |-> live, dead |-> dead, group |-> group]

MCTriggers == <<EventTrigger(1, {1}, {}, 1), EventTrigger(2, {3}, {1}, 2), EventTrigger(3, {}, {}, 3),
                EventTrigger(4, {}, {}, 4), EventTrigger(5, {}, {3}, 5)>>

EventAction(group, type, target) == [group |-> group, type |-> type, target |-> target]

MCActions == <<EventAction(1, "EVENT_CALL", 2), EventAction(1, "SPAWN", 2), EventAction(2, "DELETE", 3),
               EventAction(3, "SPAWN", 3), EventAction(4, "KILL", 2), EventAction(5, "REVIVE", 3)>>

MCNpcTriggers == << {}, {1}, {5} >>

MCMaps == {{<<1, 0>>, <<1, 1>>, <<1, 2>>},
           {<<1, 1>>, <<2, 1>>, <<2, 2>>, <<1, 3>>},
           {<<0, 2>>, <<1, 2>>, <<2, 2>>, <<3, 2>>, <<1, 1>>},
           {}}

Having(r) == [n \in {"ATTACK", "MAGIC_ATTACK", "ATTACK_RATE", "DEFENSE", "DEFENSE_RATE",
        "CRITICAL_RATE", "CRITICAL_RATE_MAX", "CRITICAL_DAMAGE", "SKILL_AMP", "PENETRATION",
        "EVASION", "ACCURACY", "ADD_DAMAGE", "MIN_DAMAGE", "NORMAL_ATTACK_DAMAGE_UP",
        "FINAL_DAMAGE_INCREASED", "RESIST_CRITICAL_RATE", "RESIST_CRITICAL_DAMAGE",
        "RESIST_SKILL_AMP", "DAMAGE_REDUCTION", "FINAL_DAMAGE_DECREASED", "EXP", "HP_MAX"}
    |-> IF n \in DOMAIN r THEN r[n] ELSE 0]

MCAttackers ==
    {Having([ATTACK |-> 6, MAGIC_ATTACK |-> 1, ATTACK_RATE |-> 30, CRITICAL_RATE |-> 20,
             CRITICAL_RATE_MAX |-> 10, CRITICAL_DAMAGE |-> 50, SKILL_AMP |-> 30,
             MIN_DAMAGE |-> 40, NORMAL_ATTACK_DAMAGE_UP |-> 10]),
     Having([ATTACK |-> 2, MAGIC_ATTACK |-> 9, ATTACK_RATE |-> 10, PENETRATION |-> 5000,
             MIN_DAMAGE |-> 90, ADD_DAMAGE |-> 1, FINAL_DAMAGE_INCREASED |-> 50])}

MCMobData ==
    <<Having([HP_MAX |-> 40, EXP |-> 30, DEFENSE |-> 2, DEFENSE_RATE |-> 20]),
     Having([HP_MAX |-> 10, EXP |-> 25, DEFENSE |-> 3]),
     Having([HP_MAX |-> 12, EXP |-> 9000, DEFENSE |-> 1, DEFENSE_RATE |-> 5])>>

VARIABLES
    world,                                                      \* of Dungeon
    kind, hp, born, spawned, dead, told, late, given, wrapped,  \* of Battle
    part      \* the module this behaviour is one of

battleVars == <<kind, hp, born, spawned, dead, told, late, given, wrapped>>

D == INSTANCE Dungeon WITH
        Tables <- MCTables, Missions <- MCMissions, Triggers <- MCTriggers,
        Actions <- MCActions, NpcTriggers <- MCNpcTriggers, MaxKills <- 2

B == INSTANCE Battle WITH
        Width <- 131072, Attackers <- MCAttackers, MobData <- MCMobData, Multiplier <- 3

ASSUME B!BattleAssumption

\* What rests rests in one place.
InitParts ==
    /\ AggroInit /\ D!Init /\ Init /\ B!Init
    /\ part \in {"aggro", "dungeon", "path", "battle"}
    /\ part # "battle" => kind = 1
    /\ part # "aggro" => data = {"spawnDefault"}
    /\ part # "path" => map = {} /\ mob = Standing(<<0, 0>>)

NextParts ==
    /\ UNCHANGED part
    /\ \/ part = "aggro" /\ AggroNext /\ UNCHANGED <<world, vars, battleVars>>
       \/ part = "dungeon" /\ D!Next /\ UNCHANGED <<aggroVars, vars, battleVars>>
       \/ part = "path" /\ Next /\ UNCHANGED <<aggroVars, world, battleVars>>
       \/ part = "battle" /\ B!Next /\ UNCHANGED <<aggroVars, world, vars>>

\* The Fairness of MobAggro and that of MobPath in one formula: no two of these
\* actions are possible in one state, and each stays possible until it is taken.
Going ==
    \/ part = "aggro" /\ (Update \/ TimePasses) /\ UNCHANGED vars
    \/ part = "path" /\ (Walk \/ Arrive) /\ UNCHANGED aggroVars

FairParts == WF_<<aggroVars, vars>>(Going)

SpecParts == InitParts /\ [][NextParts]_<<aggroVars, world, vars, battleVars, part>> /\ FairParts

\* A dungeon shows what it has and goes on by what was earned (Dungeon).
DungeonInv == D!DungeonInv

\* A mob finds what can be reached, keeps off the walls and rests where it is
\* (MobPath).
MobPathInv == part = "path" => PathInv

\* A life of a mob counts once, in experience and in kills (Battle).
BattleInv == part = "battle" => B!BattleInv
=============================================================================
