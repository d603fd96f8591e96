------------------------------ MODULE MobAggro ------------------------------
(***************************************************************************)
(* One mob of an open world, the characters around it and its aggro list.  *)
(*                                                                         *)
(* Characters attack the mob, warp away and back and leave the game;       *)
(* RTMobUpdate, called in every iteration of WorldSvr's loop, takes the    *)
(* mob through its life: it despawns once its HP are gone, spawns again    *)
(* after an interval and in between looks for somebody to hunt.            *)
(*                                                                         *)
(* A character that leaves the game keeps its record and its position, so  *)
(* for the mob it is still there.  Distances and paths are left open: what *)
(* is near, in reach or accessible is any outcome.                         *)
(***************************************************************************)
EXTENDS Integers, Sequences, FiniteSets

CONSTANTS
    Chars,      \* characters
    NoChar,     \* kEntityNull
    MaxAggro,   \* RUNTIME_MEMORY_MAX_MOB_AGGRO_COUNT
    MaxHP,      \* Mob->Data->HP
    FindCount,  \* Mob->Data->FindCount
    Kinds,      \* kinds of mobs: each a value of data
    MaxGone     \* bound: characters that leave the game

ASSUME AggroAssumption ==
    /\ NoChar \notin Chars
    /\ MaxAggro \in Nat \ {0} /\ MaxHP \in Nat \ {0} /\ FindCount \in Nat /\ MaxGone \in Nat
    /\ Kinds \subseteq SUBSET {"spawnDefault", "aggressive", "canAttack", "canMove"}

VARIABLES
    data,      \* Mob->Data and Mob->Spawn: what the mob may do at all
    hunter,    \* the mob
    aggro,     \* Mob->Aggro: entities with the damage received from them
    place,     \* where each character is
    dealt,     \* history: damage a character did to the mob in this life
    owned,     \* history: the owner of the drop was found in this life
    torn,      \* history: an attacker was lost from the list or not put on it
    failed     \* the assert of RTMobUpdate did not hold

aggroVars == <<data, hunter, aggro, place, dealt, owned, torn, failed>>

Entries == [who : Chars, dmg : 0 .. MaxHP]

\* wait: NextTimestamp is still to come.
Mobs == [spawned : BOOLEAN, dead : BOOLEAN, hp : 0 .. MaxHP, moving : BOOLEAN,
         find : 0 .. FindCount, owner : Chars \cup {NoChar}, wait : BOOLEAN]

\* The state is well-typed, the list has no more entries than its array
\* (Mob.h:146) and there is room for whoever the mob finds (Mob.c:380).
AggroTypeOK ==
    /\ data \in Kinds
    /\ hunter \in Mobs
    /\ aggro \in Seq(Entries) /\ Len(aggro) <= MaxAggro
    /\ place \in [Chars -> {"listed", "away", "gone"}]
    /\ dealt \in [Chars -> 0 .. MaxHP]
    /\ owned \in BOOLEAN /\ torn \in BOOLEAN /\ failed = FALSE

AggroInit ==
    /\ data \in Kinds
    /\ hunter = [spawned |-> FALSE, dead |-> FALSE, hp |-> 0, moving |-> FALSE,
                 find |-> 0, owner |-> NoChar, wait |-> FALSE]
    /\ aggro = <<>>
    /\ place = [c \in Chars |-> "away"]
    /\ dealt = [c \in Chars |-> 0] /\ owned = FALSE /\ torn = FALSE
    /\ failed = FALSE

IsAlive == hunter.spawned /\ hunter.hp > 0

\* The world index in the record of c is the mob's: nothing takes it back when
\* c leaves the game.
Here(c) == place[c] # "away"

-----------------------------------------------------------------------------
(* RTMobGetMaxAggroTarget *)

\* An entry is taken out by moving the next one over it and counting down.
TakeOut(s, k) == [j \in 1 .. Len(s) - 1 |-> IF j = k THEN s[k + 1] ELSE s[j]]

\* A walk through the list: the index, and what is left of the list.
Walks == {w \in [k : 1 .. MaxAggro + 1, s : Seq(Entries)] : Len(w.s) <= MaxAggro}

\* Whoever is no longer here is taken out, and the walk goes on with what has
\* moved to its place.
LookAt(w) ==
    IF Here(w.s[w.k].who) THEN [w EXCEPT !.k = @ + 1] ELSE [w EXCEPT !.s = TakeOut(@, w.k)]

SweptFrom[w \in Walks] == IF w.k > Len(w.s) THEN w.s ELSE SweptFrom[LookAt(w)]

\* Mutant: the walk goes on behind the entry that was taken out.
SkippedFrom[w \in Walks] ==
    IF w.k > Len(w.s) THEN w.s ELSE SkippedFrom[[LookAt(w) EXCEPT !.k = w.k + 1]]

SweptSkipping == SkippedFrom[[k |-> 1, s |-> aggro]]

Swept == SweptFrom[[k |-> 1, s |-> aggro]]

\* The first of the entries with the most damage.
MaxAggroTarget(s) ==
    IF s = <<>> THEN NoChar
    ELSE LET top == CHOOSE k \in DOMAIN s : \A j \in DOMAIN s :
                        s[j].dmg < s[k].dmg \/ (s[j].dmg = s[k].dmg /\ k <= j)
         IN  s[top].who

-----------------------------------------------------------------------------
(* What characters do *)

\* Result.IsDead: the hit takes all the HP there are, if only none.
Kills(hit, total) == hit /\ hunter.hp - total <= 0

HasRoom(s) == Len(s) < MaxAggro

\* ATTACK_TO_MOB and SKILL_TO_MOB.  A miss does no damage and kills nobody but
\* is applied like a hit; damage may round down to 0.
Attack(c, hit, total) ==
    LET applied == IF hit THEN IF total < hunter.hp THEN total ELSE hunter.hp ELSE 0
        known == {k \in DOMAIN aggro : aggro[k].who = c}
        first == CHOOSE k \in known : \A j \in known : k <= j
    IN  /\ place[c] = "listed" /\ ~hunter.dead
        /\ hunter' = [hunter EXCEPT !.hp = @ - applied, !.moving = FALSE,
                                    !.owner = IF Kills(hit, total) THEN c ELSE @]
        /\ aggro' = IF known # {} THEN [aggro EXCEPT ![first].dmg = @ + applied]
                    ELSE IF HasRoom(aggro)
                    THEN Append(aggro, [who |-> c, dmg |-> applied])
                    ELSE aggro
        /\ torn' = (torn \/ (known = {} /\ ~HasRoom(aggro)))
        /\ dealt' = [dealt EXCEPT ![c] = @ + applied]
        /\ owned' = (owned \/ Kills(hit, total))
        /\ UNCHANGED <<data, place, failed>>

\* c warps into the world, warps away, or leaves the game.
Travel(c) ==
    /\ \/ place[c] = "away" /\ place' = [place EXCEPT ![c] = "listed"]
       \/ place[c] = "listed" /\ place' = [place EXCEPT ![c] = "away"]
       \/ /\ place[c] = "listed" /\ place' = [place EXCEPT ![c] = "gone"]
          /\ Cardinality({d \in Chars : place[d] = "gone"}) < MaxGone
    /\ UNCHANGED <<data, hunter, aggro, dealt, owned, torn, failed>>

\* NextTimestamp is reached.
TimePasses ==
    /\ hunter.wait
    /\ hunter' = [hunter EXCEPT !.wait = FALSE]
    /\ UNCHANGED <<data, aggro, place, dealt, owned, torn, failed>>

-----------------------------------------------------------------------------
(* RTMobUpdate *)

\* Mutant: the mob stays spawned when it despawns.
DespawnSpawned ==
    /\ ~hunter.wait /\ hunter.spawned /\ hunter.hp = 0
    /\ hunter' = [hunter EXCEPT !.dead = TRUE, !.wait = TRUE]
    /\ UNCHANGED <<data, aggro, place, dealt, owned, torn, failed>>

\* The mob has no HP left: it disappears, and what it drops is its owner's.
Despawn ==
    /\ ~hunter.wait /\ hunter.spawned /\ hunter.hp = 0
    /\ hunter' = [hunter EXCEPT !.spawned = FALSE, !.dead = TRUE, !.wait = TRUE]
    /\ UNCHANGED <<data, aggro, place, dealt, owned, torn, failed>>

\* RTMobCanRespawn: in an open world nothing takes back what the loader gives
\* every mob, infinite spawns and no permanent death (ServerDataLoader.c:1298);
\* IsPermanentDeath is for the triggers of Dungeon.
CanRespawn == "spawnDefault" \in data

\* It appears, again if need be, with all its HP and an empty list.
SpawnAgain ==
    /\ ~hunter.wait /\ ~hunter.spawned /\ CanRespawn
    /\ hunter' = [hunter EXCEPT !.spawned = TRUE, !.dead = FALSE, !.hp = MaxHP,
                                !.moving = FALSE]
    /\ aggro' = <<>>
    /\ dealt' = [c \in Chars |-> 0] /\ owned' = FALSE /\ torn' = FALSE
    /\ UNCHANGED <<data, place, failed>>

\* It is on its way, and may get there.
WalkOn ==
    /\ ~hunter.wait /\ IsAlive /\ hunter.moving
    /\ \E more \in BOOLEAN : hunter' = [hunter EXCEPT !.moving = more, !.wait = TRUE]
    /\ UNCHANGED <<data, aggro, place, dealt, owned, torn, failed>>

\* The list is swept first: the damage of whoever is taken out is forgotten.
TornNow == \E k \in DOMAIN aggro : ~Here(aggro[k].who) /\ k + 1 < Len(aggro)

Sweep(s) ==
    /\ dealt' = [c \in Chars |-> IF \E k \in DOMAIN s : s[k].who = c THEN dealt[c] ELSE 0]
    /\ torn' = (torn \/ TornNow)

\* Nobody is on the list: an aggressive mob takes up with a character nearby.
Find ==
    /\ ~hunter.wait /\ IsAlive /\ ~hunter.moving /\ hunter.find > 0 /\ Swept = <<>>
    /\ Sweep(<<>>)
    /\ \/ \E c \in Chars :
            /\ "aggressive" \in data /\ place[c] = "listed"
            /\ failed' = ~HasRoom(Swept)
            /\ aggro' = <<[who |-> c, dmg |-> 0]>>
            /\ hunter' = [hunter EXCEPT !.find = FindCount]
       \/ /\ aggro' = <<>>
          /\ hunter' = [hunter EXCEPT !.find = @ - 1, !.wait = TRUE]
          /\ UNCHANGED failed
    /\ UNCHANGED <<data, place, owned>>

\* It attacks its target if it is near enough, else it runs after it; without a
\* target it may attack it wanders.  The way may be blocked.
Hunt ==
    LET t == MaxAggroTarget(Swept)
        hunts == t # NoChar /\ "canAttack" \in data
    IN  /\ ~hunter.wait /\ IsAlive /\ ~hunter.moving
        /\ t # NoChar \/ hunter.find = 0
        /\ Sweep(Swept)
        /\ aggro' = Swept
        /\ \/ hunts /\ hunter' = [hunter EXCEPT !.wait = TRUE]
           \/ "canMove" \in data /\ hunter' = [hunter EXCEPT !.moving = TRUE, !.wait = TRUE]
           \/ "canMove" \in data /\ hunter' = hunter
           \/ "canMove" \notin data /\ hunter' = [hunter EXCEPT !.find = FindCount]
        /\ UNCHANGED <<data, place, owned, failed>>

Update == Despawn \/ SpawnAgain \/ WalkOn \/ Find \/ Hunt

AggroNext ==
    \/ \E c \in Chars, total \in 0 .. MaxHP : Attack(c, TRUE, total)
    \/ \E c \in Chars : Attack(c, FALSE, 0)
    \/ \E c \in Chars : Travel(c)
    \/ TimePasses
    \/ Update

\* The server's loop updates the mob again and again, and its clock moves on.
AggroFairness == WF_aggroVars(Update) /\ WF_aggroVars(TimePasses)

AggroSpec == AggroInit /\ [][AggroNext]_aggroVars
FairAggro == AggroSpec /\ AggroFairness

-----------------------------------------------------------------------------
(* Properties *)

\* RTMobGetMaxAggroTarget: whoever the mob would hunt next is in its world and,
\* as long as no attacker was lost from the list, did at least as much damage as
\* anybody else it could hunt, whoever left, came back or was taken out before.
TargetIsTop ==
    LET t == MaxAggroTarget(Swept)
    IN  t # NoChar =>
            /\ Here(t)
            /\ ~(torn \/ TornNow) => \A c \in Chars : Here(c) => dealt[c] <= dealt[t]

\* Mob->Aggro over lives and removals: no entry credits a character with more
\* damage than it did in this life, and until an attacker is lost the entries
\* are one for each character with damage.
AggroBacked ==
    /\ \A k \in DOMAIN aggro : aggro[k].dmg <= dealt[aggro[k].who]
    /\ ~torn => /\ \A j, k \in DOMAIN aggro : aggro[j].who = aggro[k].who => j = k
                /\ \A c \in Chars : dealt[c] > 0 => \E k \in DOMAIN aggro :
                                        aggro[k] = [who |-> c, dmg |-> dealt[c]]

\* RTWorldDespawnMob: outside dungeons a dead mob's drop is for a character whose
\* attack left it without HP in the life that ended, never for the killer of an
\* earlier one, although the owner is not cleared when the mob comes back.
DropToAttacker ==
    hunter.hp = 0 /\ (hunter.spawned \/ hunter.dead) => hunter.owner # NoChar /\ owned

\* RTMobUpdate: a mob that is killed comes back, whoever goes on attacking it.
ComesBack == (hunter.spawned /\ hunter.hp = 0) ~> IsAlive

\* What a mob remembers of its attackers is right: list, target and owner of the
\* drop, over lives, removals and characters that leave.
AggroInv == AggroTypeOK /\ TargetIsTop /\ AggroBacked /\ DropToAttacker
=============================================================================
