------------------------------- MODULE Battle -------------------------------
(***************************************************************************)
(* What an attack on a mob is worth: RTCalculateNormalAttackResult and     *)
(* RTCalculateSkillAttackResult, with the HP, the kills and the experience *)
(* they lead to over the lives of one mob.                                 *)
(*                                                                         *)
(* Values are Int32 in the code and Width values wide here.  Random        *)
(* numbers are any number of their range, and what ignores a resistance is *)
(* taken off it already.  MobAggro has what becomes of the list of         *)
(* attackers, Progress what a character does with experience.              *)
(***************************************************************************)
EXTENDS Integers

CONSTANTS
    Width,        \* 2^32: the values of an Int32
    Attackers,    \* attributes of characters
    MobData,      \* attributes and HP of mobs, by kind
    Multiplier    \* Config.ExpMultiplier

Names == {"ATTACK", "MAGIC_ATTACK", "ATTACK_RATE", "DEFENSE", "DEFENSE_RATE", "CRITICAL_RATE",
          "CRITICAL_RATE_MAX", "CRITICAL_DAMAGE", "SKILL_AMP", "PENETRATION", "EVASION",
          "ACCURACY", "ADD_DAMAGE", "MIN_DAMAGE", "NORMAL_ATTACK_DAMAGE_UP",
          "FINAL_DAMAGE_INCREASED", "RESIST_CRITICAL_RATE", "RESIST_CRITICAL_DAMAGE",
          "RESIST_SKILL_AMP", "DAMAGE_REDUCTION", "FINAL_DAMAGE_DECREASED", "EXP", "HP_MAX"}

Values == [Names -> Int]

\* What a user of this module assumes of the constants.
BattleAssumption ==
    /\ Width \in Nat /\ Width % 2 = 0 /\ Width > 0
    /\ \A a \in Attackers : a \in Values /\ a["MIN_DAMAGE"] \in 0 .. 100
    /\ \A k \in DOMAIN MobData :
          MobData[k] \in Values /\ MobData[k]["HP_MAX"] > 0 /\ MobData[k]["EXP"] >= 0
    /\ Multiplier \in Nat

VARIABLES
    kind,       \* Mob->Spawn.MobSpeciesID
    hp,         \* HP of the mob
    born,       \* RTMobInit has given it attributes
    spawned,    \* Mob->IsSpawned
    dead,       \* Mob->IsDead
    told,       \* history: kills counted in this life, or before the first
    late,       \* history: of them, for hits on a mob without HP
    given,      \* history: experience given in this life, or before the first
    wrapped     \* history: a product did not fit into an Int32

\* Mob->Attributes: nothing but zeros until the mob spawns for the first time.
data == IF born THEN MobData[kind] ELSE [n \in Names |-> 0]

vars == <<kind, hp, born, spawned, dead, told, late, given, wrapped>>

-----------------------------------------------------------------------------
(* Numbers *)

AtLeast(a, b) == IF a > b THEN a ELSE b      \* MAX
AtMost(a, b) == IF a < b THEN a ELSE b       \* MIN

Wrap(x) == ((x + Width \div 2) % Width) - Width \div 2

\* Division cuts towards zero.
Quot(a, b) == IF a >= 0 THEN a \div b ELSE -((-a) \div b)

Percent(x, p) == Quot(Wrap(x * p), 100)

-----------------------------------------------------------------------------
(* CalculateFinalBattleAttributes, of attacker a and defender d *)

Resisted(value, resist) == AtLeast(0, value - AtLeast(0, resist))

FinalDefense(a, d) == Quot(d["DEFENSE"] * 10000, 10000 + a["PENETRATION"])

MissRate(a, d) ==
    LET evasion == Quot(d["EVASION"] * 10000, 10000 + a["ACCURACY"])
    IN  100 - Quot(1000000, 10000 + evasion)

BlockRate(a, d) ==
    IF a["ATTACK_RATE"] < 1 THEN 0
    ELSE LET applied == AtLeast(0, d["DEFENSE_RATE"] - a["ATTACK_RATE"])
         IN  100 - Quot(100 * a["ATTACK_RATE"], a["ATTACK_RATE"] + applied)

\* A mob without defense rate turns the minimum into what is missing of it.
MinDamage(a, d, magic) ==
    LET base    == 100 - a["MIN_DAMAGE"]
        applied == AtLeast(0, a["ATTACK_RATE"] - d["DEFENSE_RATE"])
    IN  IF magic THEN 100
        ELSE IF d["DEFENSE_RATE"] < 1 THEN base
        ELSE a["MIN_DAMAGE"] + base - Quot(base * d["DEFENSE_RATE"], d["DEFENSE_RATE"] + applied)

CriticalRate(a, d) ==
    Resisted(AtMost(a["CRITICAL_RATE"], a["CRITICAL_RATE_MAX"]), d["RESIST_CRITICAL_RATE"])

-----------------------------------------------------------------------------
(* RTCalculateNormalAttackResult *)

\* What roll, a number up to the sum of the rates, means.
Outcome(a, d, roll) ==
    LET c == CriticalRate(a, d)
        m == c + MissRate(a, d)
    IN  CASE roll < c -> "CRITICAL"
          [] roll >= c /\ roll < m -> "MISS"
          [] roll >= m /\ roll < m + BlockRate(a, d) -> "BLOCK"
          [] roll >= AtLeast(c, m + BlockRate(a, d)) -> "NORMAL"

Outcomes(a, d) ==
    {Outcome(a, d, roll) : roll \in 0 .. 100 + MissRate(a, d) + BlockRate(a, d)}

DamageRates(a, d, magic, type) ==
    LET least == MinDamage(a, d, magic)
    IN  IF type = "CRITICAL" THEN {100} ELSE least .. 100

\* The steps of the damage of a hit.  Both tests for its type assign it: every
\* hit is raised by the damage of a critical and by that of a normal one.
TotalDamage(a, d, magic, rate) ==
    LET attack == a[IF magic THEN "MAGIC_ATTACK" ELSE "ATTACK"]
        rolled == Percent(AtLeast(1, attack - FinalDefense(a, d)), rate)
        amp    == Percent(rolled, 100 + Resisted(a["SKILL_AMP"], d["RESIST_SKILL_AMP"]))
        crit   == Percent(amp, 100 + Resisted(a["CRITICAL_DAMAGE"], d["RESIST_CRITICAL_DAMAGE"]))
        normal == Percent(crit, 100 + a["NORMAL_ATTACK_DAMAGE_UP"])
        added  == normal + a["ADD_DAMAGE"] - AtLeast(0, d["DAMAGE_REDUCTION"])
    IN  Percent(added, 100 + a["FINAL_DAMAGE_INCREASED"] - d["FINAL_DAMAGE_DECREASED"])

\* Mutant: damage beyond the HP counts.
AppliedAll(total, left) == total

Applied(total, left) == AtMost(total, left)

IsDead(total, left) == left - total <= 0

Exp(applied, d) == Wrap(Quot(Wrap(applied * d["EXP"]), AtLeast(1, d["HP_MAX"])) * Multiplier)

Fits(x) == Wrap(x) = x

\* The result of an attack, by rate; a miss and a block leave it at zero.
Result(type, total, d) ==
    IF type \in {"MISS", "BLOCK"} THEN [type |-> type, applied |-> 0, dead |-> FALSE, exp |-> 0]
    ELSE [type |-> "NORMAL", applied |-> Applied(total, hp), dead |-> IsDead(total, hp),
          exp |-> Exp(Applied(total, hp), d)]

-----------------------------------------------------------------------------
(* Attacks on the mob *)

\* A mob of the world's table that has not spawned: without HP, and not dead.
Init ==
    /\ kind \in DOMAIN MobData
    /\ hp = 0 /\ born = FALSE /\ spawned = FALSE /\ dead = FALSE
    /\ told = 0 /\ late = 0 /\ given = 0 /\ wrapped = FALSE

\* RTMobApplyDamage, RTCharacterAddExp and the kill.  The handlers ask only that
\* the mob is not dead: one that waits to be taken away, and one that has never
\* spawned, are hit like any other.  More kills than two are not counted.
Strikes(result) ==
    /\ ~dead
    /\ hp' = AtLeast(0, hp - result.applied)
    /\ given' = given + result.exp
    /\ told' = AtMost(told + (IF result.dead THEN 1 ELSE 0), 2)
    /\ late' = AtMost(late + (IF result.dead /\ hp = 0 THEN 1 ELSE 0), 1)
    /\ wrapped' = (wrapped \/ ~Fits(result.applied * data["EXP"]) \/ ~Fits(data["EXP"] * Multiplier))
    /\ UNCHANGED <<kind, born, spawned, dead>>

\* ATTACK_TO_MOB, and each target of SKILL_TO_MOB, whose skill may be magic.
Attack(a, magic) ==
    \E type \in Outcomes(a, data) :
        \E rate \in DamageRates(a, data, magic, type) :
            Strikes(Result(type, TotalDamage(a, data, magic, rate), data))

\* RTMobUpdate and RTWorldDespawnMob: without HP the mob goes.
Despawn ==
    /\ spawned /\ hp = 0
    /\ spawned' = FALSE /\ dead' = TRUE
    /\ UNCHANGED <<kind, hp, born, told, late, given, wrapped>>

\* RTWorldSpawnMob, by RTMobUpdate or by a trigger: it comes, or comes again,
\* with all its HP.
Spawn ==
    /\ ~spawned
    /\ born' = TRUE /\ spawned' = TRUE /\ dead' = FALSE
    /\ hp' = MobData[kind]["HP_MAX"]
    /\ told' = 0 /\ late' = 0 /\ given' = 0
    /\ UNCHANGED <<kind, wrapped>>

Next ==
    \/ \E a \in Attackers, magic \in BOOLEAN : Attack(a, magic)
    \/ Despawn
    \/ Spawn

Spec == Init /\ [][Next]_vars

-----------------------------------------------------------------------------
(* Properties *)

\* However the HP of a mob are divided between attackers, hits and types of
\* attacks, one life of it gives no more experience than its own, and no more
\* is lost by rounding than one part for each HP.  Before its first life it
\* gives none.
LifeGivesItsExp ==
    ~wrapped =>
        /\ given <= data["EXP"] * Multiplier
        /\ born /\ hp = 0 => given > (data["EXP"] - data["HP_MAX"]) * Multiplier

\* OnAttackMob.c:53 and OnSkillToMob.c:143: in a life a quest counts a mob as
\* killed exactly when it has no HP left, and once but for hits on a mob that the
\* loop has not taken away yet.  A mob that has never spawned is not dead for the
\* handlers (OnAttackMob.c:19, OnSkillToMob.c:99): every hit on it counts as one
\* of those late kills, and none as a kill of its own.
KilledOnce ==
    ~wrapped => /\ born => (hp = 0 <=> told > 0)
                /\ told > (IF born THEN 1 ELSE 0) => late > 0

\* A life of a mob counts once, in experience and in kills, but for late hits.
BattleInv == LifeGivesItsExp /\ KilledOnce
=============================================================================
