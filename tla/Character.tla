------------------------------ MODULE Character ------------------------------
(***************************************************************************)
(* RuntimeLib/Character.c: how a character advances.  The record c is      *)
(* struct _RTCharacter without its items, position and attributes; an      *)
(* operator here is one function on it, its guard (Can...) stands apart    *)
(* where the callers look at the result.                                   *)
(*                                                                         *)
(* A skill slot is [id, level, at], a quick slot [skill, at], a quest slot *)
(* [q, step, counts]: QuestIndex, NpcActionIndex and Counter.  The arrays  *)
(* of skills and quick slots are sequences of their Count entries; that of *)
(* quests is kept whole, because what lies behind Count is read.           *)
(***************************************************************************)
EXTENDS Sums, SequencesExt, FiniteSetsExt

CONSTANTS
    Width,          \* 2^16, the values of a UInt16
    Stats,          \* STR, DEX and INT
    MaxSkills,      \* RUNTIME_CHARACTER_MAX_SKILL_SLOT_COUNT
    MaxQuests,      \* RUNTIME_CHARACTER_MAX_QUEST_SLOT_COUNT
    MaxCounters,    \* RUNTIME_MAX_QUEST_COUNTER_COUNT
    LevelExp,       \* Levels[i].Exp
    BattleRanks,    \* by rank: stats needed, skills given
    SkillRanks,     \* by rank: SkillLevelExp, the level at which it ends
    HonorRanks,     \* by rank: MinPoint and MaxPoint
    Training,       \* by skill and level: rank, level, points and Alz needed
    Quests          \* quest data by ID

QuestIDs == 1 .. 15   \* their flags are two bytes (QuestPast)

\* The data files: every skill has a level, every rank a price; the NPCs of a
\* quest come in some order of their own, and no quest wants more kinds of mobs
\* than there are counters.
ASSUME CharacterAssumption ==
    /\ Width \in Nat \ {0} /\ MaxSkills \in Nat /\ MaxQuests \in Nat \ {0}
    /\ MaxCounters \in Nat /\ IsFiniteSet(Stats)
    /\ LevelExp \in Seq(Nat) \ {<<>>}
    /\ SkillRanks \in Seq([exp : Nat \ {0}, end : Nat])
    /\ HonorRanks \in Seq([min : Int, max : Int])
    /\ \A id \in DOMAIN Training : Training[id] \in
          Seq([rank : Nat, level : Nat, points : Nat, price : Nat]) \ {<<>>}
    /\ BattleRanks \in Seq([needs : [Stats -> Nat],
                            gifts : Seq([id : DOMAIN Training, at : 0 .. Width - 1])])
    /\ DOMAIN Quests \subseteq QuestIDs
    /\ \A q \in DOMAIN Quests :
          /\ Quests[q].begin \in -1 .. Len(Quests[q].npcs) - 1
          /\ Len(Quests[q].npcs) \in Nat
          /\ \A i \in 1 .. Len(Quests[q].npcs) :
                Quests[q].npcs[i].order \in 0 .. Len(Quests[q].npcs) - 1
          /\ DOMAIN Quests[q].mobs \subseteq 1 .. MaxCounters
          /\ \A k \in DOMAIN Quests[q].mobs : Quests[q].mobs[k].need \in Nat
          /\ Quests[q].exp \in Nat /\ Quests[q].skillExp \in Nat /\ Quests[q].honor \in Nat
          /\ Quests[q].rankUp \in BOOLEAN

Parts == {"INFO", "SKILLSLOT", "QUICKSLOT", "QUESTSLOT", "QUESTFLAG"}

\* What each part of SyncMask stands for.
Stored(c) ==
    [INFO      |-> [level |-> c.level, exp |-> c.exp, stats |-> c.stats,
                    points |-> c.points, battleRank |-> c.battleRank,
                    skill |-> c.skill, honor |-> c.honor, alz |-> c.alz],
     SKILLSLOT |-> c.skills,
     QUICKSLOT |-> c.quick,
     QUESTSLOT |-> [quests |-> c.quests, count |-> c.count],
     QUESTFLAG |-> c.flags]

Marked(c, parts) == [c EXCEPT !.mask = @ \cup parts]

-----------------------------------------------------------------------------
(* Levels, points and ranks.                                               *)

\* One turn of the loop of RTRuntimeGetLevelByExp.
NextLevel(a, i) ==
    IF a.left < LevelExp[i] THEN a
    ELSE [left  |-> a.left - LevelExp[i],
          level |-> IF i < Len(LevelExp) THEN a.level + 1 ELSE a.level]

LevelByExp(exp) ==
    LET walk[i \in 0 .. Len(LevelExp)] ==
            IF i = 0 THEN [left |-> exp, level |-> 1] ELSE NextLevel(walk[i - 1], i)
    IN  walk[Len(LevelExp)].level

\* LevelDiff is a Bool: five points, however many levels are gained at once.
AddExp(c, n) ==
    LET level == LevelByExp(c.exp + n)
        up    == IF level # c.level THEN 5 ELSE 0
    IN  Marked([c EXCEPT !.exp = @ + n, !.level = level,
                         !.points = (@ + up) % Width], {"INFO"})

AddSkillExp(c, n) ==
    LET rank  == SkillRanks[c.skill.rank]
        have  == c.skill.level * rank.exp + c.skill.exp
        final == Min({rank.end * rank.exp, have + n})
        level == final \div rank.exp
        up    == /\ level >= rank.end /\ c.battleRank > c.skill.rank
                 /\ c.skill.rank + 1 \in DOMAIN SkillRanks
        skill == [rank  |-> IF up THEN c.skill.rank + 1 ELSE c.skill.rank,
                  level |-> IF up THEN 0 ELSE level,
                  exp   |-> final % rank.exp,
                  point |-> (c.skill.point + level - c.skill.level) % Width]
    IN  Marked([c EXCEPT !.skill = skill], {"INFO"})

\* First down to a rank the points are enough for, then up to one they do not
\* exceed, each time as far as there is data.
AddHonorPoint(c, n) ==
    LET point   == c.honor.point + n
        lowered == Max({r \in DOMAIN HonorRanks : r <= c.honor.rank /\
                           (point >= HonorRanks[r].min \/ r - 1 \notin DOMAIN HonorRanks)})
        raised  == Min({r \in DOMAIN HonorRanks : r >= lowered /\
                           (point <= HonorRanks[r].max \/ r + 1 \notin DOMAIN HonorRanks)})
    IN  Marked([c EXCEPT !.honor = [rank |-> raised, point |-> point]], {"INFO"})

\* Additions may be negative; a stat and the points are UInt16.
Sum(of) == Total([i \in 1 .. Cardinality(Stats) |-> of[SetToSeq(Stats)[i]]])
Required(add) == Sum(add)

AddStats(c, add) ==
    Marked([c EXCEPT !.stats = [s \in Stats |-> (@[s] + add[s]) % Width],
                     !.points = (@ - Required(add)) % Width],
           {"INFO"})

-----------------------------------------------------------------------------
(* Skills and quick slots.                                                 *)

FirstAt(list, at) ==
    Min({i \in DOMAIN list : list[i].at = at} \cup {Len(list) + 1})
InUse(list, at) == FirstAt(list, at) <= Len(list)

\* memmove of one entry, whatever the length of the tail, and Count - 1.
PulledBack(list, i) ==
    SubSeq(IF i < Len(list) THEN [list EXCEPT ![i] = list[i + 1]] ELSE list,
           1, Len(list) - 1)

AddSkillSlot(c, id, level, at) ==
    IF Len(c.skills) >= MaxSkills THEN c
    ELSE Marked([c EXCEPT !.skills =
                     Append(@, [id |-> id, level |-> level, at |-> at])],
                {"SKILLSLOT"})

PulledAt(list, i, at) ==
    IF i <= Len(list) /\ list[i].at = at THEN PulledBack(list, i) ELSE list

\* The loop goes on behind an entry it has removed.
RemoveSkillSlot(c, at) ==
    LET left[i \in 0 .. Len(c.skills)] ==
            IF i = 0 THEN c.skills ELSE PulledAt(left[i - 1], i, at)
    IN  Marked([c EXCEPT !.skills = left[Len(c.skills)]], {"SKILLSLOT"})

CanAddQuickSlot(c, skill) ==
    Len(c.quick) < MaxSkills /\ InUse(c.skills, skill)

\* Mutant of AddQuickSlot: a slot that is in use is not looked for.
AddQuickSlotBlind(c, skill, at) ==
    Marked([c EXCEPT !.quick = Append(@, [skill |-> skill, at |-> at])],
           {"QUICKSLOT"})

\* An entry that is replaced is not marked.
AddQuickSlot(c, skill, at) ==
    IF InUse(c.quick, at)
    THEN [c EXCEPT !.quick[FirstAt(c.quick, at)].skill = skill]
    ELSE Marked([c EXCEPT !.quick = Append(@, [skill |-> skill, at |-> at])],
                {"QUICKSLOT"})

\* The entries are found first; a slot swapped with itself stays.
SwapQuickSlot(c, s, t) ==
    LET i == FirstAt(c.quick, s)
        j == FirstAt(c.quick, t)
    IN  Marked([c EXCEPT !.quick = [[@ EXCEPT ![i].at = t] EXCEPT ![j].at = s]],
               {"QUICKSLOT"})

RemoveQuickSlot(c, at) ==
    Marked([c EXCEPT !.quick = PulledBack(@, FirstAt(@, at))], {"QUICKSLOT"})

\* The levels that ChangeSkillLevel looks at: none on the way down.  Lowering
\* by one alone runs on until there is no data, and fails.
Trained(from, to) == from + 1 .. to
PointsUpTo(id, level) == Total([l \in 1 .. level |-> Training[id][l].points])
PriceUpTo(id, level)  == Total([l \in 1 .. level |-> Training[id][l].price])
TrainingCost(id, from, to) ==
    IF from < to THEN PointsUpTo(id, to) - PointsUpTo(id, from) ELSE 0
TrainingPrice(id, from, to) ==
    IF from < to THEN PriceUpTo(id, to) - PriceUpTo(id, from) ELSE 0

CanChangeSkillLevel(c, at, to) ==
    LET e == c.skills[FirstAt(c.skills, at)]
    IN  /\ InUse(c.skills, at)
        /\ to # e.level - 1
        /\ \A l \in Trained(e.level, to) :
              /\ l \in DOMAIN Training[e.id]
              /\ c.skill.rank >= Training[e.id][l].rank
              /\ c.skill.level >= Training[e.id][l].level
        /\ c.skill.point >= TrainingCost(e.id, e.level, to)
        /\ c.alz >= TrainingPrice(e.id, e.level, to)

\* Mutant of ChangeSkillLevel: only the last level is paid for.
ChangeSkillLevelCheap(c, at, to) ==
    LET i == FirstAt(c.skills, at)
        e == c.skills[i]
        d == Marked([c EXCEPT !.skill.point = @ - TrainingCost(e.id, to - 1, to),
                              !.alz = @ - TrainingPrice(e.id, to - 1, to),
                              !.skills[i].level = to], {"INFO", "SKILLSLOT"})
    IN  IF to <= 0 THEN RemoveSkillSlot(d, at) ELSE d

ChangeSkillLevel(c, at, to) ==
    LET i == FirstAt(c.skills, at)
        e == c.skills[i]
        d == Marked([c EXCEPT !.skill.point = @ - TrainingCost(e.id, e.level, to),
                              !.alz = @ - TrainingPrice(e.id, e.level, to),
                              !.skills[i].level = to], {"INFO", "SKILLSLOT"})
    IN  IF to <= 0 THEN RemoveSkillSlot(d, at) ELSE d

CanBattleRankUp(c) ==
    /\ c.battleRank + 1 \in DOMAIN BattleRanks
    /\ \A s \in Stats : c.stats[s] >= BattleRanks[c.battleRank].needs[s]

\* The skills of the rank that ends; their index is not looked up.
BattleRankUp(c) ==
    LET gifts == BattleRanks[c.battleRank].gifts
        given[i \in 0 .. Len(gifts)] ==
            IF i = 0 THEN c
            ELSE AddSkillSlot(given[i - 1], gifts[i].id, 1, gifts[i].at)
    IN  Marked([given[Len(gifts)] EXCEPT !.battleRank = @ + 1],
               IF gifts = <<>> THEN {"INFO"} ELSE {"INFO", "SKILLSLOT"})

-----------------------------------------------------------------------------
(* Quests.                                                                 *)

NoCounts  == [k \in 1 .. MaxCounters |-> 0]
NoQuest   == [q |-> 0, step |-> 0, counts |-> NoCounts]
QuestNo   == 0 .. MaxQuests - 1
NpcAt(q, step) == Quests[q].npcs[step + 1]
HasNpc(q, step) == step \in 0 .. Len(Quests[q].npcs) - 1

\* QuestIndex > 0 is looked at only in a listed slot.
CanBegin(c, q, s) ==
    /\ q \notin c.flags
    /\ ~(c.count > s /\ c.quests[s].q > 0)
    /\ q \in DOMAIN Quests
    /\ c.level \in Quests[q].levels /\ c.honor.rank \in Quests[q].honors
    /\ Quests[q].after \subseteq c.flags

\* A quest that no NPC starts keeps the step it finds in the slot.
FirstStep(c, q, s) ==
    IF Quests[q].begin < 0 THEN c.quests[s].step
    ELSE IF HasNpc(q, Quests[q].begin + 1)
    THEN NpcAt(q, Quests[q].begin + 1).order
    ELSE NpcAt(q, Quests[q].begin).order

\* The count goes up whichever slot is named.
QuestBegin(c, q, s) ==
    Marked([c EXCEPT !.quests[s] = [q |-> q, step |-> FirstStep(c, q, s),
                                    counts |-> NoCounts],
                     !.count = @ + 1], {"QUESTSLOT"})

\* What follows the last slot in memory: the flags.
Bits == <<2, 4, 8, 16, 32, 64, 128, 256, 512, 1024, 2048, 4096, 8192, 16384, 32768>>
QuestPast(c) ==
    [NoQuest EXCEPT !.q = Total([f \in QuestIDs |-> IF f \in c.flags THEN Bits[f] ELSE 0])]

\* memmove of tail entries onto slot s, or memset of the slot.
QuestsWithout(c, s, tail) ==
    IF tail <= 0 THEN [c.quests EXCEPT ![s] = NoQuest]
    ELSE [k \in QuestNo |->
             IF k \notin s .. s + tail - 1 THEN c.quests[k]
             ELSE IF k + 1 \in QuestNo THEN c.quests[k + 1] ELSE QuestPast(c)]

CountsReached(c, s) ==
    LET e == c.quests[s]
    IN  \A k \in DOMAIN Quests[e.q].mobs : e.counts[k] >= Quests[e.q].mobs[k].need

\* Whether the slot is listed, and whether the flag is set, is not asked.
CanClear(c, q, s) ==
    /\ c.quests[s].q = q /\ q \in DOMAIN Quests
    /\ HasNpc(q, c.quests[s].step)
    /\ NpcAt(q, c.quests[s].step).type = "clear"
    /\ CountsReached(c, s)
    /\ Quests[q].rankUp => CanBattleRankUp(c)

Ranked(c, q) == IF Quests[q].rankUp THEN BattleRankUp(c) ELSE c

\* Mutant of QuestFlagSet: the flag is not marked.
QuestFlagSetUnmarked(c, q) == [c EXCEPT !.flags = @ \cup {q}]

QuestFlagSet(c, q) == Marked([c EXCEPT !.flags = @ \cup {q}], {"QUESTFLAG"})

QuestClear(c, q, s) ==
    LET d == QuestFlagSet(AddHonorPoint(AddSkillExp(AddExp(Ranked(c, q),
                 Quests[q].exp), Quests[q].skillExp), Quests[q].honor), q)
    IN  Marked([d EXCEPT !.quests = QuestsWithout(d, s, d.count - s - 1),
                         !.count = @ - 1], {"QUESTSLOT"})

\* Mutant of QuestCancel: the slot is emptied, and those behind it stay.
QuestCancelInPlace(c, s) ==
    Marked([c EXCEPT !.quests[s] = NoQuest, !.count = @ - 1], {"QUESTSLOT"})

\* One entry more than there are behind the slot.
QuestCancel(c, s) ==
    Marked([c EXCEPT !.quests = QuestsWithout(c, s, c.count - s),
                     !.count = @ - 1], {"QUESTSLOT"})

CanAct(c, q, s, a, dungeon) ==
    /\ c.quests[s].q = q /\ c.quests[s].step = a
    /\ q \in DOMAIN Quests /\ HasNpc(q, a)
    /\ NpcAt(q, a).type = "trigger" => dungeon

QuestAction(c, q, s, a) ==
    Marked(IF HasNpc(q, a + 1)
           THEN [c EXCEPT !.quests[s].step = NpcAt(q, a + 1).order] ELSE c,
           {"QUESTSLOT"})

\* The counters of e that a mob of this species could raise.
Wanted(e, species) ==
    IF e.q \notin DOMAIN Quests THEN {}
    ELSE {k \in DOMAIN Quests[e.q].mobs : Quests[e.q].mobs[k].species = species}

\* Only the first listed quest that wants the mob counts it, and that change
\* is not marked; the loop ends at a slot without a quest.
IncrementQuestMobCounter(c, species) ==
    LET hit == {i \in 0 .. c.count - 1 :
                   /\ Wanted(c.quests[i], species) # {}
                   /\ \A j \in 0 .. i - 1 : c.quests[j].q \in DOMAIN Quests}
        s   == Min(hit)
        k   == Min(Wanted(c.quests[s], species))
        need == Quests[c.quests[s].q].mobs[k].need
    IN  IF hit # {} THEN [c EXCEPT !.quests[s].counts[k] = Min({need, @ + 1})]
        ELSE IF \A i \in 0 .. c.count - 1 : c.quests[i].q \in DOMAIN Quests
        THEN Marked(c, {"QUESTSLOT"}) ELSE c
=============================================================================
