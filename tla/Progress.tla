------------------------------- MODULE Progress -------------------------------
(***************************************************************************)
(* One session of one character: the requests that change its level,       *)
(* points, ranks, skills, quick slots and quests, and the stored copy.     *)
(*                                                                         *)
(* One action is one handler of WorldSvr on the record of Character.  The  *)
(* character has been loaded.  A request that is refused and only answered *)
(* changes nothing; one that is refused with a disconnect is Refused.      *)
(***************************************************************************)
EXTENDS Character

CONSTANTS
    Starts,     \* stored characters, and what the player goes for
    MayLose,    \* parts whose update may fail or be lost
    MaxTargets, \* bound: mobs named in one SKILL_TO_MOB
    MaxGained,  \* bound: exp gained other than by quests, honor points
    MaxCredit,  \* bound: skill points earned or given
    MaxKills    \* kills are counted up to here; no quest needs more

VARIABLES
    char,       \* the record of Character
    saved,      \* the stored parts
    plan,       \* the mobs, items, skills, slots and stats of this session
    closing,    \* the connection is flagged DISCONNECTED
    fault,      \* QuestSlotInfo.Count has left the array
    orderly,    \* history: quest requests named the slots a client was told
    torn,       \* history: a quick slot with two or more behind it was removed
    lost,       \* history: parts whose last update got lost
    gained,     \* history: exp that no quest gave
    since,      \* history: kills since each quest began
    due,        \* history: stats and points together
    wrapped,    \* history: a stat or the points left their UInt16
    credit      \* history: skill points earned, and given as skills

ghost == <<orderly, torn, lost, gained, since, due, wrapped, credit>>
vars  == <<char, saved, plan, closing, fault, ghost>>

Listed(c)   == {c.quests[s].q : s \in 0 .. c.count - 1}
ExpOf(qs)   == Total([q \in QuestIDs |-> IF q \in qs THEN Quests[q].exp ELSE 0])
StatSum(c)  == Sum(c.stats) + c.points
Cost(e)     == TrainingCost(e.id, 0, e.level)

\* What the levels of a skill slot are worth, and the most that an entry with
\* its number stands for: a rank-up may give a skill a number that is in use.
LevelsIn(list, at) == IF InUse(list, at) THEN Cost(list[FirstAt(list, at)]) ELSE 0
MostIn(list, at)   == Max({0} \cup {Cost(list[i]) : i \in {j \in DOMAIN list : list[j].at = at}})

KillCounts  == [1 .. MaxCounters -> 0 .. MaxKills]

\* A login: the record is what was stored.
Init ==
    \E start \in Starts :
        /\ char = start.char /\ plan = start.plan
        /\ saved = Stored(char)
        /\ closing = FALSE /\ fault = FALSE
        /\ orderly = TRUE /\ torn = FALSE /\ lost = {}
        /\ gained = char.exp - ExpOf(char.flags)
        /\ since = [q \in DOMAIN Quests |->
               IF \E s \in 0 .. char.count - 1 : char.quests[s].q = q
               THEN char.quests[CHOOSE s \in 0 .. char.count - 1 :
                                    char.quests[s].q = q].counts
               ELSE NoCounts]
        /\ due = StatSum(char) /\ wrapped = FALSE
        /\ credit = char.skill.point
             + Total([n \in 1 .. Width |-> MostIn(char.skills, n - 1)])

\* What the fields of a character can hold, Count apart.
SkillSlots == {e \in [id : DOMAIN Training, level : Nat, at : 0 .. Width - 1] :
                  e.level <= Len(Training[e.id])}
Short(lists) == {list \in lists : Len(list) <= MaxSkills}
Characters ==
    [level : 1 .. Len(LevelExp), exp : Nat,
     stats : [Stats -> 0 .. Width - 1], points : 0 .. Width - 1,
     battleRank : DOMAIN BattleRanks,
     skill : [rank : DOMAIN SkillRanks, level : Nat, exp : Nat, point : 0 .. Width - 1],
     honor : [rank : DOMAIN HonorRanks, point : Int], alz : Int,
     skills : Short(Seq(SkillSlots)),
     quick  : Short(Seq([skill : Nat, at : Nat])),
     quests : [QuestNo -> [q : Int, step : Int, counts : KillCounts]], count : Int,
     flags : SUBSET DOMAIN Quests, mask : SUBSET Parts]

TypeOK ==
    /\ char \in Characters
    /\ ~fault => char.count \in 0 .. MaxQuests
    /\ lost \in SUBSET Parts
    /\ since \in [DOMAIN Quests -> KillCounts]

\* Every listed quest has data, stands at one of its own NPCs and is listed once.
ListedOnce(slots) ==
    \A i \in 0 .. slots.count - 1 :
        LET e == slots.quests[i]
        IN  /\ e.q \in DOMAIN Quests
            /\ Quests[e.q].begin >= 0 => HasNpc(e.q, e.step)
            /\ \A j \in 0 .. i - 1 : slots.quests[j].q # e.q

NoneDone(slots, flags) == \A i \in 0 .. slots.count - 1 : slots.quests[i].q \notin flags

NumberedOnce(list) == \A i, j \in DOMAIN list : list[i].at = list[j].at => i = j

\* What a login brings back, and requests a client can make.
ASSUME StartsAssumption ==
    /\ MaxKills \in Nat /\ \A q \in DOMAIN Quests : \A k \in DOMAIN Quests[q].mobs :
                               Quests[q].mobs[k].need <= MaxKills
    /\ \A start \in Starts :
          LET c == start.char
              p == start.plan
          IN  /\ c \in Characters /\ c.count \in 0 .. MaxQuests
              /\ ListedOnce([quests |-> c.quests, count |-> c.count])
              /\ NoneDone([quests |-> c.quests, count |-> c.count], c.flags)
              /\ c.skill.rank <= c.battleRank /\ NumberedOnce(c.quick)
              /\ p.acts \subseteq Seq(Int)
              /\ \A m \in p.mobs : m.exp \in Nat /\ m.skillExp \in Nat
              /\ \A r \in p.rewards : r.kind \in {"exp", "skillExp", "honor"} /\ r.n \in Nat
              /\ p.slots \subseteq 0 .. Width - 1 /\ p.levels \subseteq Int
              /\ p.quick \subseteq Nat /\ p.adds \subseteq [Stats -> Int]
              /\ \A b \in p.books : /\ b.id \in DOMAIN Training
                                    /\ b.level \in 0 .. Len(Training[b.id])

\* A handler disconnects and has changed nothing.
Refused ==
    /\ closing' = TRUE
    /\ UNCHANGED <<char, saved, plan, fault, ghost>>

\* The count is unsigned and not compared with the size of the array.
CountFault == fault' = (char'.count \notin 0 .. MaxQuests)
Orderly(how) == orderly' = (orderly /\ how)

\* What a character has got in points when it was c and has become d.
Up(c, d) == IF d.level # c.level THEN 5 ELSE 0

-----------------------------------------------------------------------------
(* OnQuest.c                                                               *)

Begin(q, s) ==
    /\ CanBegin(char, q, s)
    /\ char' = QuestBegin(char, q, s)
    /\ since' = [since EXCEPT ![q] = NoCounts]
    /\ CountFault
    /\ Orderly(s = char.count /\ q \notin Listed(char))
    /\ UNCHANGED <<saved, plan, closing, torn, lost, gained, due, wrapped, credit>>

\* The skills a rank-up gives are worth their training.
GiftsOf(q) ==
    IF Quests[q].rankUp
    THEN LET gifts == BattleRanks[char.battleRank].gifts
         IN  Total([i \in DOMAIN gifts |-> TrainingCost(gifts[i].id, 0, 1)])
    ELSE 0

Clear(q, s) ==
    /\ CanClear(char, q, s)
    /\ char' = QuestClear(char, q, s)
    /\ CountFault
    /\ Orderly(s < char.count)
    /\ due' = due + Up(char, char')
    /\ wrapped' = (wrapped \/ char.points + Up(char, char') >= Width)
    /\ credit' = credit + GiftsOf(q) + (char'.skill.point - char.skill.point)
    /\ UNCHANGED <<saved, plan, closing, torn, lost, gained, since>>

\* The reward does not fit: the battle rank has gone up already.
ClearUnrewarded(q, s) ==
    /\ CanClear(char, q, s) /\ Quests[q].gift
    /\ char' = Ranked(char, q)
    /\ Orderly(s < char.count)
    /\ credit' = credit + GiftsOf(q)
    /\ UNCHANGED <<saved, plan, closing, fault, torn, lost, gained, since, due,
                   wrapped>>

Cancel(q, s) ==
    /\ char.quests[s].q = q
    /\ char' = QuestCancel(char, s)
    /\ CountFault
    /\ Orderly(s < char.count)
    /\ UNCHANGED <<saved, plan, closing, torn, lost, gained, since, due, wrapped,
                   credit>>

ActOne(b, q, s, a, dungeon) ==
    IF CanAct(b.c, q, s, a, dungeon) THEN [b EXCEPT !.c = QuestAction(b.c, q, s, a)]
    ELSE [b EXCEPT !.ok = FALSE]

\* A failing action does not stop those behind it; the connection is closed
\* at the end.
Act(q, s, acts) ==
    \E dungeon \in BOOLEAN :
        LET done[i \in 0 .. Len(acts)] ==
                IF i = 0 THEN [c |-> char, ok |-> TRUE]
                ELSE ActOne(done[i - 1], q, s, acts[i], dungeon)
            b == done[Len(acts)]
        IN  /\ char' = b.c
            /\ closing' = (closing \/ ~b.ok)
            /\ Orderly(s < char.count \/ b.c = char)
            /\ UNCHANGED <<saved, plan, fault, torn, lost, gained, since, due,
                           wrapped, credit>>

-----------------------------------------------------------------------------
(* OnAttackMob.c, OnSkillToMob.c, and the rewards of Item.c                *)

Gained(b, m) ==
    LET c == AddExp(b.c, m.exp)
    IN  [b EXCEPT !.c = c, !.gained = @ + m.exp,
                  !.due = @ + Up(b.c, c),
                  !.wrapped = (@ \/ b.c.points + Up(b.c, c) >= Width)]

SkillGained(b, m) ==
    LET c == AddSkillExp(b.c, m.skillExp)
    IN  [b EXCEPT !.c = c,
                  !.credit = @ + (c.skill.point - b.c.skill.point)]

\* A kill counts for every quest in the history, and for one in the code.
Killed(b, m) ==
    [b EXCEPT !.c = IncrementQuestMobCounter(b.c, m.species),
              !.since = [q \in DOMAIN Quests |-> [k \in 1 .. MaxCounters |->
                  IF k \in DOMAIN Quests[q].mobs /\ Quests[q].mobs[k].species = m.species
                  THEN Min({MaxKills, b.since[q][k] + 1}) ELSE b.since[q][k]]]]

Struck(b, hit) == IF hit.dead THEN Killed(b, hit.mob) ELSE b

Before == [c |-> char, gained |-> gained, since |-> since, due |-> due,
           wrapped |-> wrapped, credit |-> credit]

Becomes(b) ==
    /\ char' = b.c /\ gained' = b.gained /\ since' = b.since
    /\ due' = b.due /\ wrapped' = b.wrapped /\ credit' = b.credit
    /\ gained' <= MaxGained /\ char'.honor.point <= MaxGained
    /\ UNCHANGED <<saved, plan, closing, fault, orderly, torn, lost>>

AttackToMob(hit) == Becomes(Struck(Gained(Before, hit.mob), hit))

SkillToMob(at, hits) ==
    /\ InUse(char.skills, at)
    /\ LET struck[i \in 0 .. Len(hits)] ==
               IF i = 0 THEN Before
               ELSE Struck(SkillGained(Gained(struck[i - 1], hits[i].mob), hits[i].mob),
                           hits[i])
       IN  Becomes(struck[Len(hits)])

ImmediateReward(r) ==
    Becomes(CASE r.kind = "exp"      -> Gained(Before, [exp |-> r.n])
              [] r.kind = "skillExp" -> SkillGained(Before, [skillExp |-> r.n])
              [] r.kind = "honor"    -> [Before EXCEPT !.c = AddHonorPoint(@, r.n)])

\* A full list of skills takes the book all the same.
SkillBook(book, at) ==
    /\ ~InUse(char.skills, at)
    /\ char' = AddSkillSlot(char, book.id, Max({1, book.level}), at)
    /\ credit' = credit + IF char' = char THEN 0
                          ELSE TrainingCost(book.id, 0, Max({1, book.level}))
    /\ credit' <= MaxCredit
    /\ UNCHANGED <<saved, plan, closing, fault, orderly, torn, lost, gained,
                   since, due, wrapped>>

-----------------------------------------------------------------------------
(* OnAddCharacterStats.c, OnChangeCharacterSkillLevel.c, OnQuickslot.c     *)

Just(c) ==
    /\ char' = c
    /\ UNCHANGED <<saved, plan, closing, fault, orderly, lost, gained, since,
                   due, credit>>

\* The request repeats the present stats; otherwise it is Refused.  An addition
\* may be negative: the points come back, and a stat that has less wraps.
AddCharacterStats(add) ==
    /\ char.points >= Required(add)
    /\ Just(AddStats(char, add)) /\ UNCHANGED torn
    /\ wrapped' = (wrapped \/ char.points - Required(add) >= Width
                           \/ \E s \in Stats : char.stats[s] + add[s] \notin 0 .. Width - 1)

ChangeLevel(at, to) ==
    /\ CanChangeSkillLevel(char, at, to)
    /\ Just(ChangeSkillLevel(char, at, to)) /\ UNCHANGED <<torn, wrapped>>

SetQuickslot(skill, at) ==
    /\ CanAddQuickSlot(char, skill)
    /\ Just(AddQuickSlot(char, skill, at)) /\ UNCHANGED <<torn, wrapped>>

UnsetQuickslot(at) ==
    /\ InUse(char.quick, at)
    /\ Just(RemoveQuickSlot(char, at)) /\ UNCHANGED wrapped
    /\ torn' = (torn \/ FirstAt(char.quick, at) + 1 < Len(char.quick))

SwapQuickslot(s, t) ==
    /\ InUse(char.quick, s) /\ InUse(char.quick, t)
    /\ Just(SwapQuickSlot(char, s, t)) /\ UNCHANGED <<torn, wrapped>>

-----------------------------------------------------------------------------
(* ServerSyncDB hands over the marked parts and forgets the marks;         *)
(* MasterSvr stores each part by itself and reports no failure.            *)
SyncDB ==
    /\ ~closing /\ char.mask # {}
    /\ \E written \in SUBSET char.mask :
          /\ char.mask \ written \subseteq MayLose
          /\ saved' = [p \in Parts |-> IF p \in written THEN Stored(char)[p]
                                       ELSE saved[p]]
          /\ lost' = (lost \ written) \cup (char.mask \ written)
    /\ char' = [char EXCEPT !.mask = {}]
    /\ UNCHANGED <<plan, closing, fault, orderly, torn, gained, since, due, wrapped,
                   credit>>

QuestRequest ==
    \E q \in plan.quests, s \in QuestNo :
        \/ Begin(q, s) \/ Clear(q, s) \/ ClearUnrewarded(q, s) \/ Cancel(q, s)
        \/ \E acts \in plan.acts : Act(q, s, acts)

Hits == [mob : plan.mobs, dead : BOOLEAN]
Battle ==
    \/ \E hit \in Hits : AttackToMob(hit)
    \/ \E at \in plan.slots, n \in 1 .. MaxTargets : \E hits \in [1 .. n -> Hits] :
           SkillToMob(at, hits)
    \/ \E r \in plan.rewards : ImmediateReward(r)

SkillRequest ==
    \/ \E book \in plan.books, at \in plan.slots : SkillBook(book, at)
    \/ \E add \in plan.adds : AddCharacterStats(add)
    \/ \E at \in plan.slots, to \in plan.levels : ChangeLevel(at, to)
    \/ \E skill \in plan.slots, at \in plan.quick : SetQuickslot(skill, at)
    \/ \E at \in plan.quick : UnsetQuickslot(at)
    \/ \E s, t \in plan.quick : SwapQuickslot(s, t)

\* Bound: nothing is followed behind a request that is not orderly.
Next ==
    /\ ~fault /\ orderly
    /\ QuestRequest \/ Battle \/ SkillRequest \/ Refused \/ SyncDB

Spec == Init /\ [][Next]_vars

-----------------------------------------------------------------------------
(* Properties.                                                             *)

\* As long as the client names the slots it was told, a quest is in one slot
\* at most and not among those done, has data (OnInitialize asserts it for
\* what a login brings back) and stands at one of its own NPCs, in the record
\* and in the stored copy, through the array moves of Clear and Cancel.
QuestsOnce ==
    orderly =>
        \A x \in {[slots |-> Stored(char)["QUESTSLOT"], flags |-> char.flags],
                  [slots |-> saved["QUESTSLOT"], flags |-> saved["QUESTFLAG"]]} :
            ListedOnce(x.slots) /\ (lost = {} => NoneDone(x.slots, x.flags))

\* Exp comes from battle, from items and once from every quest done: also in
\* the stored copy, whose exp and flags are different parts.
ExpEarned ==
    orderly =>
        /\ char.exp <= gained + ExpOf(char.flags)
        /\ lost = {} => saved["INFO"].exp <= gained + ExpOf(saved["QUESTFLAG"])

\* A quest's counters never exceed the kills since it began, whatever was in
\* its slot before and wherever the slot has moved.
EarnedByKills ==
    orderly =>
        \A s \in 0 .. char.count - 1 : \A k \in 1 .. MaxCounters :
            char.quests[s].counts[k] <= since[char.quests[s].q][k]

\* OnAddCharacterStats.c:17 and RTCharacterAddStats: stats and free points
\* together grow by five at a level-up and by nothing else, in whatever order
\* they are given and taken back by negative additions.  The exception is a
\* value that leaves its UInt16: above all the code does not refuse a request
\* that takes a stat below 0, the stat wraps and the sum is Width higher for
\* nothing.  From then on it is kept modulo Width only, however often it happens.
StatPointsKept ==
    /\ ~wrapped => StatSum(char) = due
    /\ StatSum(char) % Width = due % Width

\* The levels of all skill slots, and the skill points left, were earned or came
\* with a book or a rank: no order of training, forgetting and moving slots
\* yields levels for nothing.
PointsBacked ==
    char.skill.point + Total([n \in 1 .. Width |-> LevelsIn(char.skills, n - 1)])
        <= credit

\* The skill rank follows the battle rank and never passes it.
RankOrder == char.skill.rank <= char.battleRank

\* A quick slot is listed once, which the lookup by slot number relies on,
\* until an entry with two or more behind it is removed.
QuickUnique ==
    torn \/ NumberedOnce(char.quick)

\* Every reward is earned: exp by battle, items and quests done once each, the
\* counters of a quest by kills since it began, also in what a login brings back.
\* It holds as long as quest requests name the slots the client was told of
\* (orderly), a new quest the first free one: past it the code loses and doubles
\* entries of the list, whose rewards and counters then differ.
RewardsEarned == ExpEarned /\ EarnedByKills

\* All points are earned, those of stats and those of skills, in whatever order
\* they are spent, taken back and spent again, a stat that wraps below 0 apart.
PointsEarned == StatPointsKept /\ PointsBacked

\* The lists are within the limits of their arrays, the skill rank within the
\* battle rank, and a quick slot is found where it was set.
RecordInv == TypeOK /\ RankOrder /\ QuickUnique
=============================================================================
