--------------------------- MODULE CharacterProofs ---------------------------
(***************************************************************************)
(* Proofs about what a session does to one character.                      *)
(***************************************************************************)
EXTENDS Progress, Movement, RunLemmas

-----------------------------------------------------------------------------
(* Least and greatest.                                                     *)

LEMMA MinOfTwo ==
    ASSUME NEW a \in Int, NEW b \in Int
    PROVE  Min({a, b}) = IF a <= b THEN a ELSE b
  BY DEF Min

LEMMA MaxOfTwo ==
    ASSUME NEW a \in Int, NEW b \in Int
    PROVE  Max({a, b}) = IF a >= b THEN a ELSE b
  BY DEF Max

LEMMA MinIs ==
    ASSUME NEW T \in SUBSET Nat, T # {}
    PROVE  Min(T) \in T /\ \A j \in T : Min(T) <= j
  BY LeastElement DEF Min

LEMMA MaxIs ==
    ASSUME NEW n \in Nat, NEW T \in SUBSET (0 .. n), T # {}
    PROVE  Max(T) \in T /\ \A j \in T : j <= Max(T)
  <1> DEFINE S == {n - j : j \in T}
  <1>1. S \in SUBSET Nat /\ S # {}
    <2>1. \A j \in T : j \in Int /\ n - j \in Nat
      OBVIOUS
    <2>2. PICK j \in T : TRUE
      OBVIOUS
    <2>3. n - j \in S
      OBVIOUS
    <2> QED BY <2>1, <2>3
  <1>2. PICK i \in S : \A j \in S : i <= j
    <2> HIDE DEF S
    <2> QED BY <1>1, LeastElement
  <1>3. n - i \in T /\ \A j \in T : j <= n - i
    BY <1>2
  <1>4. \E x \in T : \A y \in T : x >= y
    BY <1>3
  <1> QED BY <1>4 DEF Max

\* The first entry with a number, if there is one.
LEMMA FirstAtIs ==
    ASSUME NEW S, NEW list \in Seq(S), NEW at
    PROVE  /\ Len(list) \in Nat /\ DOMAIN list = 1 .. Len(list)
           /\ FirstAt(list, at) \in 1 .. Len(list) + 1
           /\ InUse(list, at) <=> \E i \in 1 .. Len(list) : list[i].at = at
           /\ InUse(list, at) => /\ FirstAt(list, at) \in 1 .. Len(list)
                                 /\ list[FirstAt(list, at)].at = at
           /\ \A j \in 1 .. Len(list) : list[j].at = at => FirstAt(list, at) <= j
  <1> DEFINE T == {i \in DOMAIN list : list[i].at = at} \cup {Len(list) + 1}
  <1>1. Len(list) \in Nat /\ DOMAIN list = 1 .. Len(list)
    OBVIOUS
  <1>2. T \in SUBSET Nat /\ T # {}
    BY <1>1
  <1>3. FirstAt(list, at) \in T /\ \A j \in T : FirstAt(list, at) <= j
    <2> HIDE DEF T
    <2>1. Min(T) \in T /\ \A j \in T : Min(T) <= j
      BY <1>2, MinIs
    <2>2. FirstAt(list, at) = Min(T)
      BY DEF FirstAt, T
    <2> QED BY <2>1, <2>2
  <1> HIDE DEF FirstAt
  <1> QED BY <1>1, <1>3 DEF InUse

-----------------------------------------------------------------------------
(* The level.                                                              *)

LEMMA LevelIs ==
    ASSUME NEW exp \in Nat
    PROVE  LevelByExp(exp) \in 1 .. Len(LevelExp)
  <1> DEFINE n == Len(LevelExp)
             T == [left : Int, level : Nat]
             start == [left |-> exp, level |-> 1]
             Good == [i \in 0 .. n |->
                         {a \in T : a.level \in 1 .. (IF i < n THEN i + 1 ELSE n)}]
             Runs(g) == g = [i \in 0 .. n |->
                                IF i = 0 THEN start ELSE NextLevel(g[i - 1], i)]
             all == CHOOSE g : Runs(g)
             G == [x \in (1 .. n) \X T |-> NextLevel(x[2], x[1])]
  <1>0. /\ n \in Nat /\ n >= 1 /\ \A i \in 1 .. n : LevelExp[i] \in Nat
        /\ Good \in [0 .. n -> SUBSET T]
    BY CharacterAssumption
  <1>1. start \in Good[0]
    BY <1>0
  <1>2. ASSUME NEW i \in 1 .. n, NEW b \in Good[i - 1]
        PROVE  NextLevel(b, i) \in Good[i]
    <2>1. b \in T /\ b.level \in 1 .. i /\ i - 1 < n
      BY <1>0
    <2>2. NextLevel(b, i) \in T
      BY <1>0, <2>1 DEF NextLevel
    <2>3. NextLevel(b, i).level \in 1 .. (IF i < n THEN i + 1 ELSE n)
      BY <1>0, <2>1 DEF NextLevel
    <2> QED BY <2>2, <2>3
  <1>3. Leads(G, n, Good, T, start)
    <2>1. \A i \in 1 .. n : \A b \in Good[i - 1] : G[<<i, b>>] = NextLevel(b, i)
      BY <1>0
    <2> HIDE DEF G, Good, T, start
    <2> QED BY <1>0, <1>1, <1>2, <2>1 DEF Leads
  <1>4. \E g : Runs(g)
    <2>1. PICK g \in [0 .. n -> T] :
              /\ g[0] = start
              /\ \A i \in 1 .. n : g[i - 1] \in Good[i - 1] /\ g[i] = G[<<i, g[i - 1]>>]
      <3> HIDE DEF G, Good, T, start
      <3> QED BY ONLY <1>3, RunExists
    <2>2. \A i \in 1 .. n : \A b \in T : G[<<i, b>>] = NextLevel(b, i)
      OBVIOUS
    <2>3. \A i \in 1 .. n : g[i - 1] \in T
      <3> HIDE DEF G, Good, T, start
      <3>1. \A i \in 1 .. n : i - 1 \in 0 .. n
        BY ONLY <1>0
      <3> QED BY ONLY <2>1, <3>1
    <2>4. g = [i \in 0 .. n |-> IF i = 0 THEN start ELSE NextLevel(g[i - 1], i)]
      <3> HIDE DEF G, Good, T, start
      <3>1. g = [i \in 0 .. n |-> g[i]]
        BY ONLY <2>1
      <3>2. \A i \in 0 .. n : i # 0 => i \in 1 .. n
        BY ONLY <1>0
      <3>3. \A i \in 0 .. n : g[i] = IF i = 0 THEN start ELSE NextLevel(g[i - 1], i)
        BY ONLY <2>1, <2>2, <2>3, <3>2
      <3> QED BY ONLY <3>1, <3>3
    <2> QED BY <2>4
  <1>5. Runs(all)
    <2> HIDE DEF Runs
    <2> QED BY <1>4
  <1> HIDE DEF all
  <1>6. all[0] = start /\ \A i \in 1 .. n : all[i] = NextLevel(all[i - 1], i)
    <2> HIDE DEF start
    <2> DEFINE R == [i \in 0 .. n |-> IF i = 0 THEN start ELSE NextLevel(all[i - 1], i)]
    <2>1. all = R
      BY <1>5
    <2>2. \A i \in 0 .. n : R[i] = IF i = 0 THEN start ELSE NextLevel(all[i - 1], i)
      OBVIOUS
    <2> HIDE DEF R
    <2>3. 0 \in 0 .. n /\ \A i \in 1 .. n : i \in 0 .. n /\ i # 0
      BY ONLY <1>0
    <2> QED BY ONLY <2>1, <2>2, <2>3
  <1>7. \A i \in 0 .. n : all[i] \in Good[i]
    <2> HIDE DEF Good, T, start, Runs
    <2>1. all[0] \in Good[0]
      BY ONLY <1>1, <1>6
    <2>2. \A i \in 1 .. n : all[i - 1] \in Good[i - 1] => all[i] \in Good[i]
      BY ONLY <1>2, <1>6
    <2>3. n \in Nat
      BY <1>0
    <2> QED BY ONLY <2>1, <2>2, <2>3, RunStays
  <1>8. all[n].level \in 1 .. n
    BY <1>0, <1>7
  <1>9. LevelByExp(exp) = all[n].level
    BY DEF LevelByExp, all
  <1> QED BY <1>8, <1>9

-----------------------------------------------------------------------------
(* What the operators of Character do to the fields of a record.           *)

\* What a reward leaves alone.
Rewarded(c, d) ==
    /\ d.stats = c.stats /\ d.battleRank = c.battleRank /\ d.alz = c.alz
    /\ d.skills = c.skills /\ d.quick = c.quick
    /\ d.quests = c.quests /\ d.count = c.count /\ d.flags = c.flags
    /\ d.mask = c.mask \cup {"INFO"}

LEMMA Entries ==
    ASSUME NEW S, NEW list \in Seq(S)
    PROVE  /\ Len(list) \in Nat /\ DOMAIN list = 1 .. Len(list)
           /\ \A i \in DOMAIN list : list[i] \in S
           /\ list \in [1 .. Len(list) -> S]
  OBVIOUS

LEMMA Sizes ==
    /\ Width \in Nat /\ Width > 0 /\ Width \in Int /\ MaxSkills \in Nat /\ MaxCounters \in Nat
    /\ MaxQuests \in Nat /\ MaxQuests > 0 /\ MaxKills \in Nat /\ IsFiniteSet(Stats)
  BY CharacterAssumption, StartsAssumption

LEMMA Wraps == ASSUME NEW x \in Int PROVE x % Width \in 0 .. Width - 1 /\ x % Width \in Int
  <1>1. Width \in Nat \ {0}
    BY Sizes
  <1>2. x % Width \in 0 .. Width - 1
    BY ONLY <1>1, Remainder, x \in Int
  <1> QED BY ONLY <1>1, <1>2

LEMMA FieldsOf ==
    ASSUME NEW c \in Characters
    PROVE  /\ c.level \in 1 .. Len(LevelExp) /\ c.exp \in Nat
           /\ c.stats \in [Stats -> 0 .. Width - 1] /\ c.points \in 0 .. Width - 1
           /\ c.points \in Int
           /\ c.battleRank \in DOMAIN BattleRanks
           /\ c.skill \in [rank : DOMAIN SkillRanks, level : Nat, exp : Nat,
                           point : 0 .. Width - 1]
           /\ c.skill.point \in Int
           /\ c.honor \in [rank : DOMAIN HonorRanks, point : Int] /\ c.alz \in Int
           /\ c.skills \in Short(Seq(SkillSlots))
           /\ c.quick \in Short(Seq([skill : Nat, at : Nat]))
           /\ c.quests \in [QuestNo -> [q : Int, step : Int, counts : KillCounts]]
           /\ c.count \in Int /\ c.flags \in SUBSET DOMAIN Quests /\ c.mask \in SUBSET Parts
  <1>1. Width \in Int
    BY Sizes
  <1> QED BY <1>1, SMTT(30) DEF Characters

LEMMA AddExpIs ==
    ASSUME NEW c \in Characters, NEW n \in Nat
    PROVE  LET d == AddExp(c, n)
           IN  /\ d \in Characters /\ Rewarded(c, d)
               /\ d.skill = c.skill /\ d.honor = c.honor
               /\ d.exp = c.exp + n
               /\ d.points = (c.points + IF d.level # c.level THEN 5 ELSE 0) % Width
  <1> DEFINE level == LevelByExp(c.exp + n)
             points == (c.points + IF level # c.level THEN 5 ELSE 0) % Width
             d == AddExp(c, n)
  <1>1. c.exp + n \in Nat /\ c.points \in Int /\ c.exp \in Nat
    BY FieldsOf
  <1>2. level \in 1 .. Len(LevelExp)
    BY <1>1, LevelIs
  <1>3. points \in 0 .. Width - 1
    BY <1>1, Wraps
  <1>4. d = [c EXCEPT !.exp = c.exp + n, !.level = level, !.points = points,
                      !.mask = c.mask \cup {"INFO"}]
    BY DEF AddExp, Marked, Characters
  <1> HIDE DEF d, level, points
  <1>5. d \in Characters
    BY <1>1, <1>2, <1>3, <1>4 DEF Characters, Parts
  <1>6. Rewarded(c, d) /\ d.skill = c.skill /\ d.honor = c.honor /\ d.exp = c.exp + n
        /\ d.level = level /\ d.points = points
    BY <1>4 DEF Characters, Rewarded
  <1>7. d.points = (c.points + IF d.level # c.level THEN 5 ELSE 0) % Width
    BY <1>6 DEF points
  <1> QED BY <1>5, <1>6, <1>7 DEF d

LEMMA AddSkillExpIs ==
    ASSUME NEW c \in Characters, NEW n \in Nat, c.skill.rank <= c.battleRank
    PROVE  LET d == AddSkillExp(c, n)
           IN  /\ d \in Characters /\ Rewarded(c, d)
               /\ d.level = c.level /\ d.exp = c.exp /\ d.points = c.points
               /\ d.honor = c.honor
               /\ d.skill.rank <= d.battleRank
  <1> DEFINE rank  == SkillRanks[c.skill.rank]
             have  == c.skill.level * rank.exp + c.skill.exp
             final == Min({rank.end * rank.exp, have + n})
             level == final \div rank.exp
             up    == /\ level >= rank.end /\ c.battleRank > c.skill.rank
                      /\ c.skill.rank + 1 \in DOMAIN SkillRanks
             skill == [rank  |-> IF up THEN c.skill.rank + 1 ELSE c.skill.rank,
                       level |-> IF up THEN 0 ELSE level,
                       exp   |-> final % rank.exp,
                       point |-> (c.skill.point + level - c.skill.level) % Width]
             d == AddSkillExp(c, n)
  <1>1. /\ c.skill.rank \in DOMAIN SkillRanks /\ c.skill.level \in Nat /\ c.skill.exp \in Nat
        /\ c.skill.point \in Int /\ c.battleRank \in Int /\ c.skill.rank \in Int
    <2>1. BattleRanks \in Seq([needs : [Stats -> Nat],
                               gifts : Seq([id : DOMAIN Training, at : 0 .. Width - 1])])
      BY CharacterAssumption
    <2>2. SkillRanks \in Seq([exp : Nat \ {0}, end : Nat])
      BY CharacterAssumption
    <2>3. DOMAIN BattleRanks \subseteq Int
      BY ONLY <2>1
    <2>4. DOMAIN SkillRanks \subseteq Int
      BY ONLY <2>2
    <2> QED BY <2>3, <2>4, FieldsOf
  <1>2. rank.exp \in Nat \ {0} /\ rank.end \in Nat
    <2>1. SkillRanks \in Seq([exp : Nat \ {0}, end : Nat])
      BY CharacterAssumption
    <2>2. \A k \in DOMAIN SkillRanks : SkillRanks[k] \in [exp : Nat \ {0}, end : Nat]
      BY ONLY <2>1, Entries
    <2>3. rank \in [exp : Nat \ {0}, end : Nat]
      BY ONLY <1>1, <2>2
    <2> HIDE DEF rank
    <2> QED BY ONLY <2>3
  <1>3. have \in Nat /\ rank.end * rank.exp \in Nat
    <2> HIDE DEF rank
    <2>1. rank.exp \in Nat
      BY ONLY <1>2
    <2> DEFINE a == c.skill.level
               b == c.skill.exp
               e == rank.exp
    <2>2. a \in Nat /\ b \in Nat /\ e \in Nat
      BY ONLY <1>1, <2>1
    <2> HIDE DEF a, b, e
    <2>3. a * e + b \in Nat
      BY ONLY <2>2
    <2>4. rank.end * e \in Nat
      BY ONLY <1>2, <2>2
    <2> QED BY <2>3, <2>4 DEF a, b, e
  <1>4. final \in Nat
    <2> DEFINE a == rank.end * rank.exp
               b == have + n
    <2>1. a \in Nat /\ b \in Nat
      BY <1>3
    <2> HIDE DEF a, b
    <2>2. Min({a, b}) = IF a <= b THEN a ELSE b
      BY ONLY <2>1, MinOfTwo
    <2>3. Min({a, b}) \in Nat
      BY ONLY <2>1, <2>2
    <2> QED BY ONLY <2>3 DEF a, b
  <1>5. level \in Nat /\ final % rank.exp \in Nat
    <2> HIDE DEF final, rank
    <2> QED BY ONLY <1>2, <1>4, SMT
  <1>6. skill.point \in 0 .. Width - 1
    <2> HIDE DEF level
    <2>1. c.skill.point + level - c.skill.level \in Int
      BY ONLY <1>1, <1>5
    <2> QED BY ONLY <2>1, Wraps
  <1>7. skill \in [rank : DOMAIN SkillRanks, level : Nat, exp : Nat, point : 0 .. Width - 1]
        /\ skill.rank <= c.battleRank
    <2> HIDE DEF level, final, rank
    <2> QED BY <1>1, <1>5, <1>6
  <1>8. d = [c EXCEPT !.skill = skill, !.mask = c.mask \cup {"INFO"}]
    BY DEF AddSkillExp, Marked, Characters
  <1> HIDE DEF d, skill
  <1>9. d \in Characters
    BY <1>7, <1>8 DEF Characters, Parts
  <1>10. /\ Rewarded(c, d) /\ d.level = c.level /\ d.exp = c.exp /\ d.points = c.points
         /\ d.honor = c.honor /\ d.skill = skill /\ d.battleRank = c.battleRank
    BY <1>8 DEF Characters, Rewarded
  <1> QED BY <1>7, <1>9, <1>10 DEF d

LEMMA AddHonorPointIs ==
    ASSUME NEW c \in Characters, NEW n \in Int
    PROVE  LET d == AddHonorPoint(c, n)
           IN  /\ d \in Characters /\ Rewarded(c, d)
               /\ d.level = c.level /\ d.exp = c.exp /\ d.points = c.points
               /\ d.skill = c.skill
  <1> DEFINE point   == c.honor.point + n
             L == {r \in DOMAIN HonorRanks : r <= c.honor.rank /\
                      (point >= HonorRanks[r].min \/ r - 1 \notin DOMAIN HonorRanks)}
             lowered == Max(L)
             R == {r \in DOMAIN HonorRanks : r >= lowered /\
                      (point <= HonorRanks[r].max \/ r + 1 \notin DOMAIN HonorRanks)}
             raised == Min(R)
             d == AddHonorPoint(c, n)
             last == Len(HonorRanks)
  <1>1. last \in Nat /\ DOMAIN HonorRanks = 1 .. last
    BY CharacterAssumption
  <1>2. c.honor.rank \in DOMAIN HonorRanks /\ point \in Int
    BY FieldsOf
  <1> HIDE DEF last, point
  <1>3. L \in SUBSET (0 .. last) /\ L # {}
    <2>1. 1 \in L
      BY ONLY <1>1, <1>2
    <2> QED BY ONLY <1>1, <2>1
  <1>4. lowered \in L
    <2> HIDE DEF L
    <2> QED BY ONLY <1>1, <1>3, MaxIs
  <1>5. lowered \in 1 .. last
    <2> HIDE DEF lowered
    <2> QED BY ONLY <1>1, <1>4
  <1> HIDE DEF lowered
  <1>6. R \in SUBSET Nat /\ R # {}
    <2>1. last \in R
      BY ONLY <1>1, <1>5
    <2> QED BY ONLY <1>1, <2>1
  <1>7. raised \in DOMAIN HonorRanks
    <2>1. raised \in R
      <3> HIDE DEF R
      <3> QED BY ONLY <1>6, MinIs
    <2> HIDE DEF raised
    <2> QED BY ONLY <2>1
  <1>8. d = [c EXCEPT !.honor = [rank |-> raised, point |-> point],
                      !.mask = c.mask \cup {"INFO"}]
    BY DEF AddHonorPoint, Marked, Characters, lowered, point
  <1> HIDE DEF d, raised
  <1>9. d \in Characters
    BY <1>2, <1>7, <1>8 DEF Characters, Parts
  <1>10. /\ Rewarded(c, d) /\ d.level = c.level /\ d.exp = c.exp /\ d.points = c.points
         /\ d.skill = c.skill
    BY <1>8 DEF Characters, Rewarded
  <1> QED BY <1>9, <1>10 DEF d

-----------------------------------------------------------------------------
(* What skills cost.                                                       *)

LEMMA PointsAre ==
    ASSUME NEW id \in DOMAIN Training
    PROVE  /\ Len(Training[id]) \in Nat \ {0}
           /\ \A k \in 0 .. Len(Training[id]) : PointsUpTo(id, k) \in Nat
           /\ \A k, m \in 0 .. Len(Training[id]) :
                 k <= m => PointsUpTo(id, k) <= PointsUpTo(id, m)
           /\ \A k, m \in Int : m <= Len(Training[id]) => TrainingPrice(id, k, m) \in Int
           /\ PointsUpTo(id, 0) = 0
  <1> DEFINE n == Len(Training[id])
             f == [l \in 1 .. n |-> Training[id][l].points]
             g == [l \in 1 .. n |-> Training[id][l].price]
             F(h, m) == [k \in 1 .. m |-> h[k]]
             T == [rank : Nat, level : Nat, points : Nat, price : Nat]
  <1>1. Training[id] \in Seq(T) /\ Training[id] # <<>>
    BY CharacterAssumption
  <1>2. n \in Nat /\ n # 0 /\ \A l \in 1 .. n : Training[id][l] \in T
    <2> DEFINE list == Training[id]
    <2> HIDE DEF list, T
    <2>0. list \in Seq(T) /\ list # <<>>
      BY ONLY <1>1 DEF list
    <2>1. Len(list) \in Nat /\ \A i \in 1 .. Len(list) : list[i] \in T
      BY ONLY <2>0, Entries
    <2>2. Len(list) # 0
      BY ONLY <2>0
    <2> QED BY ONLY <2>1, <2>2 DEF list
  <1>3. f \in [1 .. n -> Nat] /\ g \in [1 .. n -> Nat]
    BY ONLY <1>2
  <1>4. ASSUME NEW m \in 0 .. n
        PROVE  /\ PointsUpTo(id, m) = Total(F(f, m)) /\ PointsUpTo(id, m) \in Nat
               /\ PriceUpTo(id, m) \in Nat
    <2>1. \A k \in 1 .. m : k \in 1 .. n
      BY ONLY <1>2
    <2>2. PointsUpTo(id, m) = Total(F(f, m))
      <3>1. [l \in 1 .. m |-> Training[id][l].points] = F(f, m)
        BY ONLY <2>1
      <3> QED BY ONLY <3>1 DEF PointsUpTo
    <2>3. PriceUpTo(id, m) = Total(F(g, m))
      <3>1. [l \in 1 .. m |-> Training[id][l].price] = F(g, m)
        BY ONLY <2>1
      <3> QED BY ONLY <3>1 DEF PriceUpTo
    <2> HIDE DEF f, g, n
    <2>4. Total(F(f, m)) \in Nat /\ Total(F(g, m)) \in Nat
      BY ONLY <1>2, <1>3, TotalOfFirst
    <2> QED BY ONLY <2>2, <2>3, <2>4
  <1> HIDE DEF f, g, n
  <1>5. \A m \in 0 .. n : PointsUpTo(id, m) \in Nat /\ PriceUpTo(id, m) \in Nat
    BY ONLY <1>4
  <1>6. ASSUME NEW k \in 0 .. n, NEW m \in 0 .. n, k <= m
        PROVE  PointsUpTo(id, k) <= PointsUpTo(id, m)
    <2>1. F(f, m) \in [1 .. m -> Nat] /\ m \in Nat /\ k \in 0 .. m
      BY ONLY <1>2, <1>3, <1>6
    <2>2. F(F(f, m), k) = F(f, k)
      BY ONLY <2>1
    <2>3. Total(F(F(f, m), k)) <= Total(F(f, m))
      <3> DEFINE h == F(f, m)
      <3> HIDE DEF h
      <3> QED BY ONLY <2>1, TotalOfFirst DEF h
    <2>4. PointsUpTo(id, k) = Total(F(f, k)) /\ PointsUpTo(id, m) = Total(F(f, m))
      BY ONLY <1>4, k \in 0 .. n, m \in 0 .. n
    <2> QED BY ONLY <2>2, <2>3, <2>4
  <1>7. ASSUME NEW k \in Int, NEW m \in Int, m <= n
        PROVE  TrainingPrice(id, k, m) \in Int
    <2>1. \A j \in Int : j <= n => PriceUpTo(id, j) \in Int
      <3> TAKE j \in Int
      <3> HAVE j <= n
      <3>1. CASE j \in 0 .. n
        BY ONLY <1>5, <3>1
      <3>2. CASE j < 0
        <4>1. 1 .. j = 1 .. 0
          BY ONLY <3>2, j \in Int
        <4>2. PriceUpTo(id, j) = PriceUpTo(id, 0)
          BY ONLY <4>1 DEF PriceUpTo
        <4>3. 0 \in 0 .. n
          BY ONLY <1>2
        <4> QED BY ONLY <1>5, <4>2, <4>3
      <3> QED BY ONLY <1>2, <3>1, <3>2, j \in Int, j <= n
    <2>2. CASE k < m
      <3>1. k <= n
        BY ONLY <1>2, <1>7, <2>2
      <3> QED BY ONLY <1>7, <2>1, <2>2, <3>1 DEF TrainingPrice
    <2>3. CASE ~(k < m)
      BY ONLY <2>3 DEF TrainingPrice
    <2> QED BY <2>2, <2>3
  <1>8. PointsUpTo(id, 0) = 0
    <2>1. PICK a \in [0 .. 0 -> Int] : a[0] = 0 /\ Total(F(f, 0)) = a[0]
      <3>1. F(f, 0) \in [1 .. 0 -> Int]
        OBVIOUS
      <3> DEFINE h == F(f, 0)
      <3> HIDE DEF h
      <3>2. \E a \in [0 .. 0 -> Int] :
               a[0] = 0 /\ (\A k \in 1 .. 0 : a[k] = a[k - 1] + h[k]) /\ Total(h) = a[0]
        BY ONLY <3>1, PartialSums, 0 \in Nat DEF h
      <3> QED BY ONLY <3>2 DEF h
    <2>2. 0 \in 0 .. n
      BY ONLY <1>2
    <2>3. PointsUpTo(id, 0) = Total(F(f, 0))
      BY ONLY <1>4, <2>2
    <2> QED BY ONLY <2>1, <2>3
  <1>9. \A k \in 0 .. n : PointsUpTo(id, k) \in Nat
    BY ONLY <1>5
  <1>10. n \in Nat \ {0}
    BY ONLY <1>2
  <1> QED BY ONLY <1>6, <1>7, <1>8, <1>9, <1>10 DEF n

LEMMA TrainingIs ==
    ASSUME NEW id \in DOMAIN Training, NEW k \in 0 .. Len(Training[id]),
           NEW m \in Int, m <= Len(Training[id])
    PROVE  /\ TrainingCost(id, k, m) \in Nat
           /\ TrainingCost(id, 0, m) \in Nat
           /\ TrainingCost(id, 0, m) <= TrainingCost(id, 0, k) + TrainingCost(id, k, m)
           /\ TrainingCost(id, 0, k) \in Nat
  <1> DEFINE n == Len(Training[id])
             P(j) == PointsUpTo(id, j)
  <1>1. n \in Nat /\ k \in Int /\ 0 <= k /\ k <= n /\ k \in Nat
    <2>1. n \in Nat
      BY PointsAre
    <2> HIDE DEF n
    <2>2. k \in 0 .. n
      BY DEF n
    <2> QED BY ONLY <2>1, <2>2
  <1>2. \A j \in 0 .. n : P(j) \in Nat
    BY PointsAre
  <1>3. \A i, j \in 0 .. n : i <= j => P(i) <= P(j)
    BY PointsAre
  <1>4. P(0) = 0
    BY PointsAre
  <1> HIDE DEF n, P
  <1>5. TrainingCost(id, k, m) = (IF k < m THEN P(m) - P(k) ELSE 0)
        /\ TrainingCost(id, 0, m) = (IF 0 < m THEN P(m) - P(0) ELSE 0)
        /\ TrainingCost(id, 0, k) = (IF 0 < k THEN P(k) - P(0) ELSE 0)
    BY DEF TrainingCost, P
  <1>6. k \in 0 .. n /\ 0 \in 0 .. n /\ (m > 0 => m \in 0 .. n)
    BY ONLY <1>1, m \in Int, m <= Len(Training[id]) DEF n
  <1>7. P(k) \in Nat /\ (0 < m => P(m) \in Nat) /\ (k <= m => P(k) <= P(m)) /\ (0 < m /\ m <= k => P(m) <= P(k))
    <2>1. P(k) \in Nat
      BY ONLY <1>2, <1>6
    <2>2. ASSUME 0 < m PROVE P(m) \in Nat
      BY ONLY <1>2, <1>6, <2>2
    <2>3. ASSUME k <= m PROVE P(k) <= P(m)
      <3>1. CASE 0 < m
        BY ONLY <1>3, <1>6, <2>3, <3>1
      <3>2. CASE ~(0 < m)
        <4>1. k = m
          BY ONLY <1>1, <2>3, <3>2, m \in Int
        <4> QED BY ONLY <2>1, <4>1
      <3> QED BY ONLY <3>1, <3>2
    <2>4. ASSUME 0 < m, m <= k PROVE P(m) <= P(k)
      BY ONLY <1>3, <1>6, <2>4
    <2> QED BY ONLY <2>1, <2>2, <2>3, <2>4
  <1> DEFINE x == P(k)
             y == P(m)
             z == P(0)
  <1>8. /\ TrainingCost(id, k, m) = (IF k < m THEN y - x ELSE 0)
        /\ TrainingCost(id, 0, m) = (IF 0 < m THEN y ELSE 0)
        /\ TrainingCost(id, 0, k) = (IF 0 < k THEN x ELSE 0)
        /\ x \in Nat /\ (0 < m => y \in Nat)
        /\ (k <= m => x <= y) /\ (0 < m /\ m <= k => y <= x)
        /\ (k = 0 => x = 0)
    <2>1. z = 0 /\ (k = 0 => x = z)
      BY ONLY <1>4
    <2>2. (0 < m => y - z = y) /\ x - z = x
      BY ONLY <1>7, <2>1
    <2> QED BY ONLY <1>5, <1>7, <2>1, <2>2
  <1> HIDE DEF x, y, z
  <1> QED BY ONLY <1>1, <1>8, m \in Int

LEMMA CostIs ==
    ASSUME NEW e \in SkillSlots
    PROVE  /\ Cost(e) \in Nat /\ e.at \in 0 .. Width - 1 /\ e.at \in Nat /\ e.id \in DOMAIN Training
           /\ e.level \in 0 .. Len(Training[e.id])
  <1>1. Width \in Nat
    BY Sizes
  <1>2. e.id \in DOMAIN Training /\ e.level \in Nat /\ e.at \in 0 .. Width - 1
        /\ e.level <= Len(Training[e.id])
    BY DEF SkillSlots
  <1>3. Len(Training[e.id]) \in Nat
    BY ONLY <1>2, PointsAre
  <1>4. e.level \in 0 .. Len(Training[e.id]) /\ e.level \in Int /\ 0 \in 0 .. Len(Training[e.id])
    BY ONLY <1>2, <1>3
  <1>5. TrainingCost(e.id, 0, e.level) \in Nat
    BY ONLY <1>2, <1>4, TrainingIs
  <1> QED BY ONLY <1>1, <1>2, <1>4, <1>5 DEF Cost

\* What the numbers of skill slots are worth together, so that every entry is
\* worth its training.
Backed(list, budget) ==
    \E worth \in [1 .. Width -> Nat] :
        /\ \A i \in DOMAIN list : Cost(list[i]) <= worth[list[i].at + 1]
        /\ Total(worth) <= budget

LEMMA BackedBy ==
    ASSUME NEW list \in Seq(SkillSlots), NEW other \in Seq(SkillSlots),
           NEW at \in 0 .. Width - 1, NEW by \in Nat, NEW budget \in Int,
           Backed(list, budget),
           \A i \in DOMAIN other :
              \/ \E k \in DOMAIN list :
                    /\ other[i].at = list[k].at
                    /\ \/ Cost(other[i]) <= Cost(list[k])
                       \/ list[k].at = at /\ Cost(other[i]) <= Cost(list[k]) + by
              \/ other[i].at = at /\ Cost(other[i]) <= by
    PROVE  Backed(other, budget + by)
  <1>1. PICK worth \in [1 .. Width -> Nat] :
           /\ \A i \in DOMAIN list : Cost(list[i]) <= worth[list[i].at + 1]
           /\ Total(worth) <= budget
    BY DEF Backed
  <1>2. Width \in Nat /\ at + 1 \in 1 .. Width /\ at \in Nat
    BY Sizes
  <1> DEFINE more == [worth EXCEPT ![at + 1] = @ + by]
  <1>3. more \in [1 .. Width -> Nat] /\ more[at + 1] = worth[at + 1] + by
        /\ \A k \in 1 .. Width : /\ k # at + 1 => more[k] = worth[k]
                                 /\ worth[k] \in Nat /\ more[k] \in Nat /\ worth[k] <= more[k]
    BY ONLY <1>2, worth \in [1 .. Width -> Nat], by \in Nat
  <1> HIDE DEF more
  <1>4. Total(more) <= budget + by
    <2>1. /\ Total(more) + worth[at + 1] = Total(worth) + more[at + 1]
          /\ Total(worth) \in Nat /\ Total(more) \in Nat
      BY ONLY <1>2, <1>3, worth \in [1 .. Width -> Nat], TotalReplaced
    <2>2. worth[at + 1] \in Nat
      BY ONLY <1>2, <1>3
    <2> DEFINE x == Total(more)
               y == Total(worth)
               z == worth[at + 1]
    <2>3. x + z = y + (z + by) /\ x \in Nat /\ y \in Nat /\ z \in Nat /\ y <= budget
      BY ONLY <1>1, <1>3, <2>1, <2>2
    <2> HIDE DEF x, y, z
    <2>4. x <= budget + by
      BY ONLY <2>3, budget \in Int, by \in Nat
    <2> QED BY ONLY <2>4 DEF x
  <1>5. ASSUME NEW i \in DOMAIN other
        PROVE  Cost(other[i]) <= more[other[i].at + 1]
    <2>1. other[i] \in SkillSlots
      BY ONLY Entries, other \in Seq(SkillSlots), i \in DOMAIN other
    <2>2. Cost(other[i]) \in Nat /\ other[i].at + 1 \in 1 .. Width
      <3>1. Cost(other[i]) \in Nat /\ other[i].at \in 0 .. Width - 1
        BY ONLY <2>1, CostIs
      <3> QED BY ONLY <1>2, <3>1
    <2> DEFINE x == Cost(other[i])
               v == worth[other[i].at + 1]
               w == more[other[i].at + 1]
    <2>3. x \in Nat /\ v \in Nat /\ w \in Nat /\ v <= w
      BY ONLY <1>3, <2>2
    <2>4. CASE other[i].at = at /\ Cost(other[i]) <= by
      <3>1. w = v + by /\ x <= by
        BY ONLY <1>3, <2>4
      <3> HIDE DEF v, w, x
      <3>2. x <= w
        BY ONLY <2>3, <3>1, by \in Nat
      <3> QED BY ONLY <3>2 DEF x, w
    <2>5. ASSUME NEW k \in DOMAIN list, other[i].at = list[k].at,
                 \/ Cost(other[i]) <= Cost(list[k])
                 \/ list[k].at = at /\ Cost(other[i]) <= Cost(list[k]) + by
          PROVE  x <= w
      <3>1. list[k] \in SkillSlots
        BY ONLY Entries, list \in Seq(SkillSlots), k \in DOMAIN list
      <3> DEFINE c == Cost(list[k])
      <3>2. c \in Nat
        BY ONLY <3>1, CostIs
      <3>3. c <= v
        BY ONLY <1>1, <2>5
      <3>4. x <= c \/ (other[i].at = at /\ x <= c + by)
        BY ONLY <2>5
      <3>5. other[i].at = at => w = v + by
        BY ONLY <1>3
      <3> HIDE DEF x, v, w, c
      <3> QED BY ONLY <2>3, <3>2, <3>3, <3>4, <3>5, by \in Nat
    <2> QED BY <2>4, <2>5
  <1> QED BY ONLY <1>3, <1>4, <1>5 DEF Backed

\* What handlers of skills, quick slots and ranks leave alone.
Practised(c, d) ==
    /\ d.level = c.level /\ d.exp = c.exp /\ d.points = c.points /\ d.stats = c.stats
    /\ d.honor = c.honor /\ d.quests = c.quests /\ d.count = c.count /\ d.flags = c.flags
    /\ c.mask \subseteq d.mask

LEMMA ShortIs ==
    ASSUME NEW S, NEW list \in Short(Seq(S))
    PROVE  list \in Seq(S) /\ Len(list) <= MaxSkills
  BY DEF Short

LEMMA Appended ==
    ASSUME NEW S, NEW list \in Short(Seq(S)), NEW e \in S, Len(list) < MaxSkills
    PROVE  /\ Append(list, e) \in Short(Seq(S))
           /\ DOMAIN Append(list, e) = 1 .. Len(list) + 1
           /\ \A i \in 1 .. Len(list) : Append(list, e)[i] = list[i]
           /\ Append(list, e)[Len(list) + 1] = e
           /\ Append(list, e) # list
  <1>1. list \in Seq(S) /\ MaxSkills \in Nat
    BY ShortIs, Sizes
  <1>2. Append(list, e) \in Seq(S) /\ Len(Append(list, e)) = Len(list) + 1 /\ Len(list) \in Nat
    BY ONLY <1>1, e \in S
  <1>3. Len(Append(list, e)) <= MaxSkills
    BY ONLY <1>1, <1>2, Len(list) < MaxSkills
  <1>4. Append(list, e) \in Short(Seq(S))
    BY ONLY <1>2, <1>3 DEF Short
  <1>5. /\ DOMAIN Append(list, e) = 1 .. Len(list) + 1
        /\ \A i \in 1 .. Len(list) : Append(list, e)[i] = list[i]
        /\ Append(list, e)[Len(list) + 1] = e
    BY ONLY <1>1, e \in S
  <1>6. Append(list, e) # list
    BY ONLY <1>2
  <1> QED BY ONLY <1>4, <1>5, <1>6

LEMMA AddSkillSlotIs ==
    ASSUME NEW c \in Characters, NEW id \in DOMAIN Training, NEW level \in Nat,
           level <= Len(Training[id]), NEW at \in 0 .. Width - 1
    PROVE  LET d == AddSkillSlot(c, id, level, at)
           IN  /\ d \in Characters /\ Practised(c, d) /\ d.quick = c.quick
               /\ d.skill = c.skill /\ d.battleRank = c.battleRank /\ d.alz = c.alz
               /\ \A budget \in Int : Backed(c.skills, budget) =>
                     /\ Backed(d.skills, budget + TrainingCost(id, 0, level))
                     /\ d = c => Backed(d.skills, budget)
               /\ TrainingCost(id, 0, level) \in Nat
  <1> DEFINE d == AddSkillSlot(c, id, level, at)
             e == [id |-> id, level |-> level, at |-> at]
             cost == TrainingCost(id, 0, level)
  <1>1. e \in SkillSlots /\ Cost(e) = cost /\ e.at = at
    BY DEF SkillSlots, Cost
  <1>2. Cost(e) \in Nat
    BY ONLY <1>1, CostIs
  <1>3. c.skills \in Short(Seq(SkillSlots)) /\ c.skills \in Seq(SkillSlots)
    BY FieldsOf, ShortIs
  <1> HIDE DEF e
  <1>4. CASE Len(c.skills) >= MaxSkills
    <2>1. d = c
      BY <1>4 DEF AddSkillSlot
    <2>2. ASSUME NEW budget \in Int, Backed(c.skills, budget)
          PROVE  Backed(c.skills, budget + Cost(e))
      <3>1. \A i \in DOMAIN c.skills : Cost(c.skills[i]) <= Cost(c.skills[i])
        <4> TAKE i \in DOMAIN c.skills
        <4>1. c.skills[i] \in SkillSlots
          BY ONLY <1>3, Entries, i \in DOMAIN c.skills
        <4>2. Cost(c.skills[i]) \in Nat
          BY ONLY <4>1, CostIs
        <4> QED BY ONLY <4>2
      <3> DEFINE list == c.skills
      <3>2. list \in Seq(SkillSlots) /\ Backed(list, budget)
            /\ \A i \in DOMAIN list : Cost(list[i]) <= Cost(list[i])
        BY ONLY <1>3, <2>2, <3>1
      <3> HIDE DEF list
      <3>3. Backed(list, budget + Cost(e))
        BY ONLY <1>2, <3>2, BackedBy, at \in 0 .. Width - 1, budget \in Int
      <3> QED BY ONLY <3>3 DEF list
    <2>3. Practised(c, c)
      BY DEF Practised
    <2> HIDE DEF d
    <2> QED BY <1>1, <1>2, <2>1, <2>2, <2>3 DEF d
  <1>5. CASE Len(c.skills) < MaxSkills
    <2> DEFINE list == c.skills
               other == Append(list, e)
    <2>1. d = [c EXCEPT !.skills = other, !.mask = c.mask \cup {"SKILLSLOT"}]
      <3>1. ~(Len(c.skills) >= MaxSkills)
        <4>1. Len(c.skills) \in Nat /\ MaxSkills \in Nat
          BY ONLY <1>3, Sizes, Entries
        <4> QED BY ONLY <1>5, <4>1
      <3> QED BY <3>1 DEF AddSkillSlot, Marked, Characters, e
    <2> HIDE DEF list, other, d
    <2>2. /\ list \in Short(Seq(SkillSlots)) /\ Len(list) < MaxSkills /\ list = c.skills
          /\ list \in Seq(SkillSlots)
      BY <1>3, <1>5 DEF list
    <2>3. /\ other \in Short(Seq(SkillSlots)) /\ DOMAIN other = 1 .. Len(list) + 1
          /\ \A i \in 1 .. Len(list) : other[i] = list[i]
          /\ other[Len(list) + 1] = e /\ other # list
      BY ONLY <1>1, <2>2, Appended DEF other
    <2>4. d \in Characters
      BY <2>1, <2>3 DEF Characters, Parts
    <2>5. /\ Practised(c, d) /\ d.quick = c.quick /\ d.skill = c.skill
          /\ d.battleRank = c.battleRank /\ d.alz = c.alz /\ d.skills = other
      BY <2>1 DEF Characters, Practised
    <2>6. d # c
      BY ONLY <2>2, <2>3, <2>5
    <2>7. ASSUME NEW budget \in Int, Backed(list, budget)
          PROVE  Backed(other, budget + cost)
      <3>1. other \in Seq(SkillSlots) /\ DOMAIN list = 1 .. Len(list) /\ Len(list) \in Nat
        BY ONLY <2>2, <2>3, Entries, ShortIs
      <3>2. \A i \in DOMAIN other :
              \/ \E k \in DOMAIN list : /\ other[i].at = list[k].at
                                        /\ Cost(other[i]) <= Cost(list[k])
              \/ other[i].at = at /\ Cost(other[i]) <= cost
        <4> TAKE i \in DOMAIN other
        <4>1. CASE i = Len(list) + 1
          BY ONLY <1>1, <1>2, <2>3, <4>1
        <4>2. CASE i # Len(list) + 1
          <5>1. i \in DOMAIN list /\ other[i] = list[i]
            BY ONLY <2>3, <3>1, <4>2, i \in DOMAIN other
          <5>2. list[i] \in SkillSlots
            BY ONLY <2>2, <5>1, Entries
          <5>3. Cost(list[i]) \in Nat
            BY ONLY <5>2, CostIs
          <5>4. other[i].at = list[i].at /\ Cost(other[i]) <= Cost(list[i])
            BY ONLY <5>1, <5>3
          <5> QED BY ONLY <5>1, <5>4
        <4> QED BY ONLY <4>1, <4>2
      <3>3. cost \in Nat
        BY ONLY <1>1, <1>2
      <3> HIDE DEF cost
      <3> QED BY ONLY <2>2, <2>7, <3>1, <3>2, <3>3, BackedBy, at \in 0 .. Width - 1,
                      budget \in Int
    <2> QED BY <1>1, <1>2, <2>2, <2>4, <2>5, <2>6, <2>7 DEF d
  <1>6. Len(c.skills) >= MaxSkills \/ Len(c.skills) < MaxSkills
    <2>1. Len(c.skills) \in Nat /\ MaxSkills \in Nat
      BY ONLY <1>3, Sizes, Entries
    <2> QED BY ONLY <2>1
  <1> QED BY <1>4, <1>5, <1>6

\* The skills a rank gives are worth their training.
LEMMA GiftsGiven ==
    ASSUME NEW c \in Characters
    PROVE  LET gifts == BattleRanks[c.battleRank].gifts
               given[i \in 0 .. Len(gifts)] ==
                   IF i = 0 THEN c
                   ELSE AddSkillSlot(given[i - 1], gifts[i].id, 1, gifts[i].at)
               d == given[Len(gifts)]
               worth == Total([i \in DOMAIN gifts |-> TrainingCost(gifts[i].id, 0, 1)])
           IN  /\ d \in Characters /\ Practised(c, d) /\ d.quick = c.quick
               /\ d.skill = c.skill /\ d.battleRank = c.battleRank /\ d.alz = c.alz
               /\ worth \in Nat
               /\ \A budget \in Int :
                     Backed(c.skills, budget) => Backed(d.skills, budget + worth)
  <1> DEFINE gifts == BattleRanks[c.battleRank].gifts
             n == Len(gifts)
             costs == [i \in 1 .. n |-> TrainingCost(gifts[i].id, 0, 1)]
  <1>a. gifts \in Seq([id : DOMAIN Training, at : 0 .. Width - 1])
    <2> DEFINE S == [needs : [Stats -> Nat],
                     gifts : Seq([id : DOMAIN Training, at : 0 .. Width - 1])]
    <2>1. BattleRanks \in Seq(S)
      BY CharacterAssumption
    <2>2. c.battleRank \in DOMAIN BattleRanks
      BY FieldsOf
    <2>3. BattleRanks[c.battleRank] \in S
      <3> HIDE DEF S
      <3> QED BY ONLY <2>1, <2>2, Entries
    <2> DEFINE rank == BattleRanks[c.battleRank]
    <2> HIDE DEF rank
    <2>4. rank.gifts \in Seq([id : DOMAIN Training, at : 0 .. Width - 1])
      BY ONLY <2>3 DEF rank
    <2> QED BY ONLY <2>4 DEF rank
  <1>b. /\ n \in Nat /\ DOMAIN gifts = 1 .. n
        /\ \A i \in 1 .. n : gifts[i].id \in DOMAIN Training /\ gifts[i].at \in 0 .. Width - 1
    <2> DEFINE S == [id : DOMAIN Training, at : 0 .. Width - 1]
    <2>1. n \in Nat /\ DOMAIN gifts = 1 .. n /\ \A i \in 1 .. n : gifts[i] \in S
      <3> HIDE DEF gifts, S
      <3> QED BY ONLY <1>a, Entries, ZenonT(30) DEF S
    <2> HIDE DEF gifts
    <2> QED BY ONLY <2>1
  <1> HIDE DEF gifts, n
  <1>c. \A i \in 1 .. n : TrainingCost(gifts[i].id, 0, 1) \in Nat
    <2> TAKE i \in 1 .. n
    <2>1. gifts[i].id \in DOMAIN Training
      BY ONLY <1>b
    <2>2. Len(Training[gifts[i].id]) \in Nat \ {0}
      BY ONLY <2>1, PointsAre
    <2>3. 0 \in 0 .. Len(Training[gifts[i].id]) /\ 1 <= Len(Training[gifts[i].id]) /\ 1 \in Int
      BY ONLY <2>2
    <2> QED BY ONLY <2>1, <2>3, TrainingIs
  <1>d. costs \in [1 .. n -> Int] /\ costs \in [1 .. n -> Nat]
    BY ONLY <1>c
  <1>e. PICK sum \in [0 .. n -> Int] :
           /\ sum[0] = 0
           /\ \A i \in 1 .. n : sum[i] = sum[i - 1] + costs[i]
           /\ Total(costs) = sum[n]
    <2> HIDE DEF costs
    <2> QED BY ONLY <1>b, <1>d, PartialSums
  <1>f. Total(costs) \in Nat
    <2> HIDE DEF costs
    <2> QED BY ONLY <1>b, <1>d, TotalNat
  <1> DEFINE T == Characters
             start == c
             Same(b) == /\ Practised(c, b) /\ b.quick = c.quick
                        /\ b.skill = c.skill /\ b.battleRank = c.battleRank /\ b.alz = c.alz
             Good == [i \in 0 .. n |->
                         {b \in T : Same(b) /\ \A budget \in Int :
                             Backed(c.skills, budget) => Backed(b.skills, budget + sum[i])}]
             Runs(g) == g = [i \in 0 .. n |->
                                IF i = 0 THEN start
                                ELSE AddSkillSlot(g[i - 1], gifts[i].id, 1, gifts[i].at)]
             all == CHOOSE g : Runs(g)
             G == [x \in (1 .. n) \X T |->
                      AddSkillSlot(x[2], gifts[x[1]].id, 1, gifts[x[1]].at)]
  <1>0. n \in Nat /\ Good \in [0 .. n -> SUBSET T]
    BY <1>b
  <1>1. start \in Good[0]
    <2>1. Same(c)
      BY DEF Practised
    <2>2. \A budget \in Int : budget + sum[0] = budget
      BY ONLY <1>e
    <2>3. 0 \in 0 .. n
      BY ONLY <1>0
    <2>4. \A budget \in Int : Backed(c.skills, budget) => Backed(c.skills, budget + sum[0])
      BY ONLY <2>2
    <2> HIDE DEF Same, T
    <2>5. c \in T
      BY DEF T
    <2> QED BY ONLY <2>1, <2>3, <2>4, <2>5
  <1>2. ASSUME NEW i \in 1 .. n, NEW b \in Good[i - 1]
        PROVE  AddSkillSlot(b, gifts[i].id, 1, gifts[i].at) \in Good[i]
    <2>0. i - 1 \in 0 .. n /\ i \in 0 .. n /\ sum[i - 1] \in Int
          /\ sum[i] = sum[i - 1] + costs[i] /\ costs[i] = TrainingCost(gifts[i].id, 0, 1)
          /\ costs[i] \in Nat
      BY ONLY <1>0, <1>d, <1>e, i \in 1 .. n, sum \in [0 .. n -> Int]
    <2> DEFINE x == AddSkillSlot(b, gifts[i].id, 1, gifts[i].at)
    <2>1. b \in Characters /\ Same(b)
          /\ \A budget \in Int : Backed(c.skills, budget) => Backed(b.skills, budget + sum[i - 1])
      <3> HIDE DEF Same
      <3> QED BY ONLY <2>0, b \in Good[i - 1]
    <2>2. gifts[i].id \in DOMAIN Training /\ gifts[i].at \in 0 .. Width - 1
          /\ 1 <= Len(Training[gifts[i].id]) /\ 1 \in Nat
      <3>1. gifts[i].id \in DOMAIN Training /\ gifts[i].at \in 0 .. Width - 1
        BY ONLY <1>b, i \in 1 .. n
      <3>2. Len(Training[gifts[i].id]) \in Nat \ {0}
        BY ONLY <3>1, PointsAre
      <3> QED BY ONLY <3>1, <3>2
    <2>3. /\ x \in Characters /\ Practised(b, x) /\ x.quick = b.quick
          /\ x.skill = b.skill /\ x.battleRank = b.battleRank /\ x.alz = b.alz
          /\ \A budget \in Int : Backed(b.skills, budget) => Backed(x.skills, budget + costs[i])
      <3> HIDE DEF costs
      <3> QED BY ONLY <2>0, <2>1, <2>2, AddSkillSlotIs
    <2> HIDE DEF x, costs
    <2>4. Same(x)
      BY ONLY <2>1, <2>3 DEF Practised
    <2>5. ASSUME NEW budget \in Int, Backed(c.skills, budget)
          PROVE  Backed(x.skills, budget + sum[i])
      <3>1. budget + sum[i - 1] \in Int /\ (budget + sum[i - 1]) + costs[i] = budget + sum[i]
        BY ONLY <2>0, budget \in Int
      <3>2. Backed(b.skills, budget + sum[i - 1])
        BY ONLY <2>1, <2>5
      <3>3. Backed(x.skills, (budget + sum[i - 1]) + costs[i])
        BY ONLY <2>3, <3>1, <3>2
      <3> QED BY ONLY <3>1, <3>3
    <2> HIDE DEF Same
    <2>6. x \in {y \in T : Same(y) /\ \A budget \in Int :
                     Backed(c.skills, budget) => Backed(y.skills, budget + sum[i])}
      BY ONLY <2>3, <2>4, <2>5
    <2>7. x \in Good[i]
      BY ONLY <2>0, <2>6
    <2> QED BY ONLY <2>7 DEF x
  <1>3. Leads(G, n, Good, T, start)
    <2>1. \A i \in 1 .. n : \A b \in Good[i - 1] : G[<<i, b>>] = AddSkillSlot(b, gifts[i].id, 1, gifts[i].at)
      BY <1>0
    <2> HIDE DEF G, Good, T, start
    <2> QED BY <1>0, <1>1, <1>2, <2>1 DEF Leads
  <1>4. \E g : Runs(g)
    <2>1. PICK g \in [0 .. n -> T] :
              /\ g[0] = start
              /\ \A i \in 1 .. n : g[i - 1] \in Good[i - 1] /\ g[i] = G[<<i, g[i - 1]>>]
      <3> HIDE DEF G, Good, T, start
      <3> QED BY ONLY <1>3, RunExists
    <2>2. \A i \in 1 .. n : \A b \in T : G[<<i, b>>] = AddSkillSlot(b, gifts[i].id, 1, gifts[i].at)
      OBVIOUS
    <2>3. \A i \in 1 .. n : g[i - 1] \in T
      <3> HIDE DEF G, Good, T, start
      <3>1. \A i \in 1 .. n : i - 1 \in 0 .. n
        BY ONLY <1>0
      <3> QED BY ONLY <2>1, <3>1
    <2>4. g = [i \in 0 .. n |-> IF i = 0 THEN start ELSE AddSkillSlot(g[i - 1], gifts[i].id, 1, gifts[i].at)]
      <3> HIDE DEF G, Good, T, start
      <3>1. g = [i \in 0 .. n |-> g[i]]
        BY ONLY <2>1
      <3>2. \A i \in 0 .. n : i # 0 => i \in 1 .. n
        BY ONLY <1>0
      <3>3. \A i \in 0 .. n : g[i] = IF i = 0 THEN start ELSE AddSkillSlot(g[i - 1], gifts[i].id, 1, gifts[i].at)
        BY ONLY <2>1, <2>2, <2>3, <3>2
      <3> QED BY ONLY <3>1, <3>3
    <2> QED BY <2>4
  <1>5. Runs(all)
    <2> HIDE DEF Runs
    <2> QED BY <1>4
  <1> HIDE DEF all
  <1>6. all[0] = start /\ \A i \in 1 .. n : all[i] = AddSkillSlot(all[i - 1], gifts[i].id, 1, gifts[i].at)
    <2> HIDE DEF start
    <2> DEFINE R == [i \in 0 .. n |-> IF i = 0 THEN start ELSE AddSkillSlot(all[i - 1], gifts[i].id, 1, gifts[i].at)]
    <2>1. all = R
      BY <1>5
    <2>2. \A i \in 0 .. n : R[i] = IF i = 0 THEN start ELSE AddSkillSlot(all[i - 1], gifts[i].id, 1, gifts[i].at)
      OBVIOUS
    <2> HIDE DEF R
    <2>3. 0 \in 0 .. n /\ \A i \in 1 .. n : i \in 0 .. n /\ i # 0
      BY ONLY <1>0
    <2> QED BY ONLY <2>1, <2>2, <2>3
  <1>7. \A i \in 0 .. n : all[i] \in Good[i]
    <2> HIDE DEF Good, T, start, Runs
    <2>1. all[0] \in Good[0]
      BY ONLY <1>1, <1>6
    <2>2. \A i \in 1 .. n : all[i - 1] \in Good[i - 1] => all[i] \in Good[i]
      BY ONLY <1>2, <1>6
    <2>3. n \in Nat
      BY <1>0
    <2> QED BY ONLY <2>1, <2>2, <2>3, RunStays
  <1>8. all[n] \in Good[n] /\ n \in 0 .. n
    BY ONLY <1>0, <1>7
  <1>9. /\ all[n] \in Characters /\ Same(all[n])
        /\ \A budget \in Int : Backed(c.skills, budget) => Backed(all[n].skills, budget + sum[n])
    <2> HIDE DEF Same
    <2> QED BY ONLY <1>8
  <1>10. [i \in DOMAIN gifts |-> TrainingCost(gifts[i].id, 0, 1)] = costs
    BY ONLY <1>b
  <1>11. \A budget \in Int :
            Backed(c.skills, budget) => Backed(all[n].skills, budget + Total(costs))
    BY ONLY <1>9, <1>e
  <1> HIDE DEF costs
  <1> QED BY <1>9, <1>10, <1>11, <1>f DEF all, gifts, n

\* The training of the skills a rank gives.
WorthOfGifts(rank) ==
    LET gifts == BattleRanks[rank].gifts
    IN  Total([i \in DOMAIN gifts |-> TrainingCost(gifts[i].id, 0, 1)])

LEMMA BattleRankUpIs ==
    ASSUME NEW c \in Characters, c.battleRank + 1 \in DOMAIN BattleRanks
    PROVE  LET d == BattleRankUp(c)
           IN  /\ d \in Characters /\ Practised(c, d) /\ d.quick = c.quick
               /\ d.skill = c.skill /\ d.battleRank = c.battleRank + 1 /\ d.alz = c.alz
               /\ WorthOfGifts(c.battleRank) \in Nat
               /\ \A budget \in Int :
                     Backed(c.skills, budget)
                         => Backed(d.skills, budget + WorthOfGifts(c.battleRank))
  <1> DEFINE gifts == BattleRanks[c.battleRank].gifts
             marks == IF gifts = <<>> THEN {"INFO"} ELSE {"INFO", "SKILLSLOT"}
             d == BattleRankUp(c)
  <1>1. \E b : /\ b \in Characters /\ Practised(c, b) /\ b.quick = c.quick
               /\ b.skill = c.skill /\ b.battleRank = c.battleRank /\ b.alz = c.alz
               /\ WorthOfGifts(c.battleRank) \in Nat
               /\ \A budget \in Int :
                     Backed(c.skills, budget)
                         => Backed(b.skills, budget + WorthOfGifts(c.battleRank))
               /\ d = Marked([b EXCEPT !.battleRank = @ + 1], marks)
    BY GiftsGiven DEF BattleRankUp, WorthOfGifts
  <1> HIDE DEF d, marks
  <1>2. PICK b : /\ b \in Characters /\ Practised(c, b) /\ b.quick = c.quick
                 /\ b.skill = c.skill /\ b.battleRank = c.battleRank /\ b.alz = c.alz
                 /\ WorthOfGifts(c.battleRank) \in Nat
                 /\ \A budget \in Int :
                       Backed(c.skills, budget)
                           => Backed(b.skills, budget + WorthOfGifts(c.battleRank))
                 /\ d = Marked([b EXCEPT !.battleRank = @ + 1], marks)
    BY ONLY <1>1
  <1>3. d = [b EXCEPT !.battleRank = c.battleRank + 1, !.mask = b.mask \cup marks]
    BY <1>2 DEF Marked, Characters
  <1>4. marks \in SUBSET Parts
    BY DEF marks, Parts
  <1>5. d \in Characters
    BY <1>2, <1>3, <1>4, c.battleRank + 1 \in DOMAIN BattleRanks, ZenonT(30) DEF Characters
  <1>6. /\ Practised(b, d) /\ d.quick = b.quick /\ d.skill = b.skill
        /\ d.battleRank = c.battleRank + 1 /\ d.alz = b.alz /\ d.skills = b.skills
    BY <1>2, <1>3, ZenonT(30) DEF Characters, Practised
  <1>7. Practised(c, d)
    BY ONLY <1>2, <1>6 DEF Practised
  <1> QED BY <1>2, <1>5, <1>6, <1>7 DEF d

-----------------------------------------------------------------------------
(* Removing.                                                               *)

LEMMA PulledBackIs ==
    ASSUME NEW S, NEW list \in Seq(S), NEW i \in 1 .. Len(list)
    PROVE  /\ PulledBack(list, i) \in Seq(S) /\ Len(PulledBack(list, i)) = Len(list) - 1
           /\ DOMAIN PulledBack(list, i) = 1 .. Len(list) - 1
           /\ \A j \in 1 .. Len(list) - 1 :
                 PulledBack(list, i)[j] = IF j = i THEN list[i + 1] ELSE list[j]
  <1> DEFINE n == Len(list)
             f == IF i < n THEN [list EXCEPT ![i] = list[i + 1]] ELSE list
             g == [j \in 1 .. n - 1 |-> IF j = i THEN list[i + 1] ELSE list[j]]
  <1>1. n \in Nat /\ DOMAIN list = 1 .. n /\ (\A j \in 1 .. n : list[j] \in S) /\ i \in 1 .. n
        /\ list \in [1 .. n -> S]
    BY Entries
  <1>2. \A j \in 1 .. n - 1 : f[j] = IF j = i THEN list[i + 1] ELSE list[j]
    BY ONLY <1>1
  <1>3. PulledBack(list, i) = g
    <2>1. PulledBack(list, i) = SubSeq(f, 1, n - 1)
      BY DEF PulledBack
    <2>2. SubSeq(f, 1, n - 1) = [j \in 1 .. n - 1 |-> f[j]]
      <3> HIDE DEF f
      <3>1. SubSeq(f, 1, n - 1) = [j \in 1 .. (1 + (n - 1) - 1) |-> f[j + 1 - 1]]
        BY ONLY <1>1
      <3> QED BY ONLY <1>1, <3>1
    <2>3. [j \in 1 .. n - 1 |-> f[j]] = g
      <3> HIDE DEF f
      <3> QED BY ONLY <1>2
    <2> QED BY ONLY <2>1, <2>2, <2>3
  <1>4. \A j \in 1 .. n - 1 : g[j] = (IF j = i THEN list[i + 1] ELSE list[j]) /\ g[j] \in S
    BY ONLY <1>1
  <1>5. DOMAIN g = 1 .. n - 1 /\ g = [j \in 1 .. n - 1 |-> g[j]]
    OBVIOUS
  <1> HIDE DEF g, n
  <1>6. g \in Seq(S) /\ Len(g) = n - 1
    BY ONLY <1>1, <1>4, <1>5
  <1> QED BY ONLY <1>3, <1>4, <1>5, <1>6 DEF n

\* What is left are entries that were in other places than the first.
LEMMA RemoveSkillSlotIs ==
    ASSUME NEW c, NEW S, c.skills \in Seq(S), NEW at, InUse(c.skills, at)
    PROVE  \E left : /\ left \in Seq({c.skills[k] : k \in DOMAIN c.skills \ {FirstAt(c.skills, at)}})
                     /\ Len(left) <= Len(c.skills)
                     /\ RemoveSkillSlot(c, at) = Marked([c EXCEPT !.skills = left], {"SKILLSLOT"})
  <1> DEFINE list == c.skills
             n == Len(list)
             f == FirstAt(list, at)
             K == {list[k] : k \in DOMAIN list \ {f}}
             T == {list} \cup Seq(K)
             start == list
             Good == [i \in 0 .. n |-> IF i < f THEN {list} ELSE {l \in Seq(K) : Len(l) <= n}]
             Runs(g) == g = [i \in 0 .. n |->
                                IF i = 0 THEN start ELSE PulledAt(g[i - 1], i, at)]
             all == CHOOSE g : Runs(g)
             G == [x \in (1 .. n) \X T |-> PulledAt(x[2], x[1], at)]
  <1>a. /\ n \in Nat /\ DOMAIN list = 1 .. n /\ f \in 1 .. n /\ list[f].at = at
        /\ \A j \in 1 .. n : list[j].at = at => f <= j
    BY FirstAtIs
  <1>b. \A j \in 1 .. n : j # f => list[j] \in K
    BY <1>a
  <1>c. list \in Seq(S)
    OBVIOUS
  <1> HIDE DEF list, K, f
  <1>0. n \in Nat /\ Good \in [0 .. n -> SUBSET T]
    BY ONLY <1>a
  <1>1. start \in Good[0]
    BY ONLY <1>a
  <1>2. ASSUME NEW i \in 1 .. n, NEW b \in Good[i - 1]
        PROVE  PulledAt(b, i, at) \in Good[i]
    <2>0. i - 1 \in 0 .. n /\ i \in 0 .. n /\ i \in Int /\ f \in Int
      BY ONLY <1>a
    <2>1. CASE i < f
      <3>1. i - 1 < f
        BY ONLY <2>0, <2>1
      <3>2. b = list
        BY ONLY <2>0, <3>1, b \in Good[i - 1]
      <3>3. list[i].at # at
        BY ONLY <1>a, <2>1, <2>0
      <3>4. PulledAt(b, i, at) = list
        BY ONLY <3>2, <3>3 DEF PulledAt
      <3> QED BY ONLY <2>0, <2>1, <3>4
    <2>2. CASE i = f
      <3>1. b = list
        <4>1. i - 1 < f
          BY ONLY <2>0, <2>2
        <4> QED BY ONLY <2>0, <4>1, b \in Good[i - 1]
      <3>2. PulledAt(b, i, at) = PulledBack(list, f)
        BY ONLY <1>a, <2>2, <3>1 DEF PulledAt
      <3> DEFINE p == PulledBack(list, f)
      <3>3. Len(p) = n - 1 /\ p \in Seq(S) /\ DOMAIN p = 1 .. n - 1
            /\ \A j \in 1 .. n - 1 : p[j] = IF j = f THEN list[f + 1] ELSE list[j]
        BY ONLY <1>a, <1>c, PulledBackIs
      <3> HIDE DEF p
      <3>4. \A j \in 1 .. n - 1 : p[j] \in K
        BY ONLY <1>a, <1>b, <3>3
      <3>5. p \in Seq(K)
        <4>1. p = [j \in 1 .. n - 1 |-> p[j]]
          BY ONLY <3>3
        <4>2. n - 1 \in Nat
          BY ONLY <1>a
        <4> QED BY ONLY <3>4, <4>1, <4>2
      <3>6. Len(p) <= n
        BY ONLY <1>a, <3>3
      <3>7. p \in Good[i]
        <4>1. ~(i < f)
          BY ONLY <2>0, <2>2
        <4> QED BY ONLY <2>0, <3>5, <3>6, <4>1
      <3> QED BY ONLY <3>2, <3>7 DEF p
    <2>3. CASE i > f
      <3>1. ~(i - 1 < f) /\ ~(i < f)
        BY ONLY <2>0, <2>3
      <3>2. b \in Seq(K) /\ Len(b) <= n
        BY ONLY <2>0, <3>1, b \in Good[i - 1]
      <3>3. PulledAt(b, i, at) \in Seq(K) /\ Len(PulledAt(b, i, at)) <= n
        <4>1. CASE i <= Len(b) /\ b[i].at = at
          <5>1. PulledAt(b, i, at) = PulledBack(b, i)
            BY ONLY <4>1 DEF PulledAt
          <5>2. i \in 1 .. Len(b) /\ Len(b) \in Nat
            BY ONLY <1>0, <3>2, <4>1, i \in 1 .. n, Entries
          <5>3. PulledBack(b, i) \in Seq(K) /\ Len(PulledBack(b, i)) = Len(b) - 1
            BY ONLY <3>2, <5>2, PulledBackIs
          <5>4. Len(b) - 1 <= n
            BY ONLY <1>0, <3>2, <5>2
          <5> QED BY ONLY <5>1, <5>3, <5>4
        <4>2. CASE ~(i <= Len(b) /\ b[i].at = at)
          BY ONLY <3>2, <4>2 DEF PulledAt
        <4> QED BY ONLY <4>1, <4>2
      <3> QED BY ONLY <2>0, <3>1, <3>3
    <2> QED BY ONLY <2>0, <2>1, <2>2, <2>3
  <1>3. Leads(G, n, Good, T, start)
    <2>1. \A i \in 1 .. n : \A b \in Good[i - 1] : G[<<i, b>>] = PulledAt(b, i, at)
      BY <1>0
    <2> HIDE DEF G, Good, T, start
    <2> QED BY <1>0, <1>1, <1>2, <2>1 DEF Leads
  <1>4. \E g : Runs(g)
    <2>1. PICK g \in [0 .. n -> T] :
              /\ g[0] = start
              /\ \A i \in 1 .. n : g[i - 1] \in Good[i - 1] /\ g[i] = G[<<i, g[i - 1]>>]
      <3> HIDE DEF G, Good, T, start
      <3> QED BY ONLY <1>3, RunExists
    <2>2. \A i \in 1 .. n : \A b \in T : G[<<i, b>>] = PulledAt(b, i, at)
      OBVIOUS
    <2>3. \A i \in 1 .. n : g[i - 1] \in T
      <3> HIDE DEF G, Good, T, start
      <3>1. \A i \in 1 .. n : i - 1 \in 0 .. n
        BY ONLY <1>0
      <3> QED BY ONLY <2>1, <3>1
    <2>4. g = [i \in 0 .. n |-> IF i = 0 THEN start ELSE PulledAt(g[i - 1], i, at)]
      <3> HIDE DEF G, Good, T, start
      <3>1. g = [i \in 0 .. n |-> g[i]]
        BY ONLY <2>1
      <3>2. \A i \in 0 .. n : i # 0 => i \in 1 .. n
        BY ONLY <1>0
      <3>3. \A i \in 0 .. n : g[i] = IF i = 0 THEN start ELSE PulledAt(g[i - 1], i, at)
        BY ONLY <2>1, <2>2, <2>3, <3>2
      <3> QED BY ONLY <3>1, <3>3
    <2> QED BY <2>4
  <1>5. Runs(all)
    <2> HIDE DEF Runs
    <2> QED BY <1>4
  <1> HIDE DEF all
  <1>6. all[0] = start /\ \A i \in 1 .. n : all[i] = PulledAt(all[i - 1], i, at)
    <2> HIDE DEF start
    <2> DEFINE R == [i \in 0 .. n |-> IF i = 0 THEN start ELSE PulledAt(all[i - 1], i, at)]
    <2>1. all = R
      BY <1>5
    <2>2. \A i \in 0 .. n : R[i] = IF i = 0 THEN start ELSE PulledAt(all[i - 1], i, at)
      OBVIOUS
    <2> HIDE DEF R
    <2>3. 0 \in 0 .. n /\ \A i \in 1 .. n : i \in 0 .. n /\ i # 0
      BY ONLY <1>0
    <2> QED BY ONLY <2>1, <2>2, <2>3
  <1>7. \A i \in 0 .. n : all[i] \in Good[i]
    <2> HIDE DEF Good, T, start, Runs
    <2>1. all[0] \in Good[0]
      BY ONLY <1>1, <1>6
    <2>2. \A i \in 1 .. n : all[i - 1] \in Good[i - 1] => all[i] \in Good[i]
      BY ONLY <1>2, <1>6
    <2>3. n \in Nat
      BY <1>0
    <2> QED BY ONLY <2>1, <2>2, <2>3, RunStays
  <1>8. all[n] \in Seq(K) /\ Len(all[n]) <= n
    <2>1. n \in 0 .. n /\ ~(n < f)
      BY ONLY <1>a
    <2>2. all[n] \in Good[n]
      BY ONLY <1>7, <2>1
    <2> QED BY ONLY <2>1, <2>2
  <1>9. RemoveSkillSlot(c, at) = Marked([c EXCEPT !.skills = all[n]], {"SKILLSLOT"})
    BY DEF RemoveSkillSlot, all, list
  <1> QED BY ONLY <1>8, <1>9 DEF K, f, list

LEMMA ChangeSkillLevelIs ==
    ASSUME NEW c \in Characters, NEW at, NEW to \in Int, CanChangeSkillLevel(c, at, to)
    PROVE  LET d == ChangeSkillLevel(c, at, to)
           IN  /\ d \in Characters /\ Practised(c, d) /\ d.quick = c.quick
               /\ d.skill.rank = c.skill.rank /\ d.battleRank = c.battleRank
               /\ \A credit_ \in Int :
                     Backed(c.skills, credit_ - c.skill.point)
                         => Backed(d.skills, credit_ - d.skill.point)
  <1> DEFINE list == c.skills
             i == FirstAt(list, at)
             e == list[i]
             cost == TrainingCost(e.id, e.level, to)
             price == TrainingPrice(e.id, e.level, to)
             other == [list EXCEPT ![i].level = to]
             skill == [c.skill EXCEPT !.point = c.skill.point - cost]
             mid == Marked([c EXCEPT !.skill.point = @ - TrainingCost(e.id, e.level, to),
                                     !.alz = @ - TrainingPrice(e.id, e.level, to),
                                     !.skills[i].level = to], {"INFO", "SKILLSLOT"})
             d == ChangeSkillLevel(c, at, to)
  <1>1. /\ list \in Short(Seq(SkillSlots)) /\ list \in Seq(SkillSlots) /\ Len(list) <= MaxSkills
        /\ MaxSkills \in Nat
    BY FieldsOf, ShortIs, Sizes
  <1>2. InUse(list, at)
    BY DEF CanChangeSkillLevel
  <1>3. i \in 1 .. Len(list) /\ Len(list) \in Nat /\ DOMAIN list = 1 .. Len(list) /\ e.at = at
    BY <1>1, <1>2, FirstAtIs
  <1>4. e \in SkillSlots
    <2> HIDE DEF list, i
    <2> QED BY ONLY <1>1, <1>3, Entries
  <1>5. /\ \A l \in Trained(e.level, to) : l \in DOMAIN Training[e.id]
        /\ c.skill.point >= cost
    BY DEF CanChangeSkillLevel
  <1> HIDE DEF list, i, e
  <1>6. /\ e.id \in DOMAIN Training /\ e.level \in 0 .. Len(Training[e.id])
        /\ Len(Training[e.id]) \in Nat /\ DOMAIN Training[e.id] = 1 .. Len(Training[e.id])
        /\ e.level \in Nat /\ e.at \in 0 .. Width - 1
    <2>1. e.id \in DOMAIN Training /\ e.level \in 0 .. Len(Training[e.id]) /\ e.at \in 0 .. Width - 1
      BY ONLY <1>4, CostIs
    <2> DEFINE R == [rank : Nat, level : Nat, points : Nat, price : Nat]
    <2>2. Training[e.id] \in Seq(R)
      BY <2>1, CharacterAssumption
    <2> HIDE DEF R
    <2>3. Len(Training[e.id]) \in Nat /\ DOMAIN Training[e.id] = 1 .. Len(Training[e.id])
      BY ONLY <2>2, Entries
    <2> QED BY ONLY <2>1, <2>3
  <1>7. to <= Len(Training[e.id])
    <2>1. CASE e.level < to
      <3>1. to \in Trained(e.level, to)
        BY ONLY <1>6, <2>1, to \in Int DEF Trained
      <3> QED BY ONLY <1>5, <1>6, <3>1
    <2>2. CASE ~(e.level < to)
      BY ONLY <1>6, <2>2, to \in Int
    <2> QED BY <2>1, <2>2
  <1>8. /\ cost \in Nat /\ price \in Int
        /\ TrainingCost(e.id, 0, to) <= TrainingCost(e.id, 0, e.level) + cost
        /\ TrainingCost(e.id, 0, e.level) \in Nat /\ TrainingCost(e.id, 0, to) \in Nat
    <2>1. price \in Int
      <3>1. e.level \in Int /\ e.id \in DOMAIN Training
        BY ONLY <1>6
      <3>2. \A k, m \in Int : m <= Len(Training[e.id]) => TrainingPrice(e.id, k, m) \in Int
        BY ONLY <3>1, PointsAre
      <3> QED BY ONLY <1>7, <3>1, <3>2, to \in Int
    <2>2. /\ cost \in Nat
          /\ TrainingCost(e.id, 0, to) <= TrainingCost(e.id, 0, e.level) + cost
          /\ TrainingCost(e.id, 0, e.level) \in Nat /\ TrainingCost(e.id, 0, to) \in Nat
      BY ONLY <1>6, <1>7, to \in Int, TrainingIs
    <2> QED BY ONLY <2>1, <2>2
  <1>9. mid = [c EXCEPT !.skill = skill, !.alz = c.alz - price, !.skills = other,
                        !.mask = c.mask \cup {"INFO", "SKILLSLOT"}]
    BY DEF Marked, Characters, list
  <1>10. d = IF to <= 0 THEN RemoveSkillSlot(mid, at) ELSE mid
    BY DEF ChangeSkillLevel, list, i, e
  <1>11. skill \in [rank : DOMAIN SkillRanks, level : Nat, exp : Nat, point : 0 .. Width - 1]
         /\ skill.rank = c.skill.rank /\ skill.point = c.skill.point - cost
         /\ c.skill.point \in Int
    <2>1. c.skill \in [rank : DOMAIN SkillRanks, level : Nat, exp : Nat, point : 0 .. Width - 1]
          /\ c.skill.point \in Int
      BY FieldsOf
    <2>2. c.skill.point - cost \in 0 .. Width - 1
      <3>1. c.skill.point \in 0 .. Width - 1 /\ Width \in Int
        BY ONLY <2>1, Sizes
      <3> HIDE DEF cost
      <3> QED BY ONLY <1>5, <1>8, <2>1, <3>1
    <2> HIDE DEF cost
    <2> QED BY ONLY <2>1, <2>2
  <1>12. /\ DOMAIN other = 1 .. Len(list) /\ Len(other) = Len(list)
         /\ other[i] = [e EXCEPT !.level = to]
         /\ \A k \in 1 .. Len(list) : k # i => other[k] = list[k] /\ list[k] \in SkillSlots
    <2>1. \A k \in 1 .. Len(list) : list[k] \in SkillSlots
      BY ONLY <1>1, <1>3, Entries
    <2>2. /\ DOMAIN other = 1 .. Len(list)
          /\ other[i] = [e EXCEPT !.level = to]
          /\ \A k \in 1 .. Len(list) : k # i => other[k] = list[k]
      BY ONLY <1>3 DEF e
    <2>3. Len(other) = Len(list)
      BY ONLY <1>3, <2>2
    <2> QED BY ONLY <2>1, <2>2, <2>3
  <1>13. [e EXCEPT !.level = to].at = e.at /\ [e EXCEPT !.level = to].id = e.id
         /\ [e EXCEPT !.level = to].level = to
    BY ONLY <1>4 DEF SkillSlots
  <1>14. c.alz - price \in Int /\ {"INFO", "SKILLSLOT"} \subseteq Parts
    <2> HIDE DEF price
    <2>1. c.alz \in Int
      BY FieldsOf
    <2> QED BY ONLY <1>8, <2>1 DEF Parts
  <1> HIDE DEF mid, skill, d, cost, price, other
  <1>15. CASE to > 0
    <2>1. d = mid
      BY ONLY <1>10, <1>15, to \in Int
    <2>2. [e EXCEPT !.level = to] \in SkillSlots
      BY ONLY <1>4, <1>7, <1>15, to \in Int DEF SkillSlots
    <2>3. other \in Short(Seq(SkillSlots)) /\ other \in Seq(SkillSlots)
      <3>1. \A k \in 1 .. Len(list) : other[k] \in SkillSlots
        BY ONLY <1>12, <2>2
      <3>2. other = [k \in 1 .. Len(list) |-> other[k]]
        BY ONLY <1>12 DEF other
      <3>3. other \in Seq(SkillSlots)
        BY ONLY <1>3, <3>1, <3>2
      <3> QED BY ONLY <1>1, <1>12, <3>3 DEF Short
    <2>4. d \in Characters
      BY <1>9, <1>11, <1>14, <2>1, <2>3 DEF Characters
    <2>5. /\ Practised(c, d) /\ d.quick = c.quick /\ d.skill = skill /\ d.skills = other
          /\ d.battleRank = c.battleRank
      BY <1>9, <2>1 DEF Characters, Practised
    <2>6. ASSUME NEW credit_ \in Int, Backed(list, credit_ - c.skill.point)
          PROVE  Backed(other, credit_ - d.skill.point)
      <3>1. credit_ - c.skill.point \in Int
            /\ (credit_ - c.skill.point) + cost = credit_ - d.skill.point
        BY ONLY <1>8, <1>11, <2>5, credit_ \in Int
      <3>2. \A j \in DOMAIN other :
              \E k \in DOMAIN list :
                 /\ other[j].at = list[k].at
                 /\ \/ Cost(other[j]) <= Cost(list[k])
                    \/ list[k].at = e.at /\ Cost(other[j]) <= Cost(list[k]) + cost
        <4> TAKE j \in DOMAIN other
        <4>1. CASE j = i
          <5>1. Cost(other[j]) <= Cost(e) + cost /\ other[j].at = e.at
            BY ONLY <1>8, <1>12, <1>13, <4>1 DEF Cost
          <5> QED BY ONLY <1>3, <5>1 DEF e
        <4>2. CASE j # i
          <5>1. other[j] = list[j] /\ list[j] \in SkillSlots /\ j \in DOMAIN list
            BY ONLY <1>3, <1>12, <4>2, j \in DOMAIN other
          <5>2. Cost(list[j]) \in Nat
            BY ONLY <5>1, CostIs
          <5>3. Cost(other[j]) <= Cost(list[j])
            BY ONLY <5>1, <5>2
          <5> QED BY ONLY <5>1, <5>3
        <4> QED BY ONLY <4>1, <4>2
      <3>3. Backed(other, (credit_ - c.skill.point) + cost)
        BY ONLY <1>1, <1>6, <1>8, <2>3, <2>6, <3>1, <3>2, BackedBy
      <3> QED BY ONLY <3>1, <3>3
    <2> QED BY ONLY <1>11, <2>4, <2>5, <2>6 DEF list, d
  <1>16. CASE to <= 0
    <2> DEFINE K == {list[k] : k \in DOMAIN list \ {i}}
    <2>1. /\ mid.skills = other /\ FirstAt(other, at) = i /\ InUse(other, at)
      <3>1. \A k \in 1 .. Len(list) : other[k].at = list[k].at
        BY ONLY <1>12, <1>13 DEF e
      <3>2. {k \in DOMAIN other : other[k].at = at} = {k \in DOMAIN list : list[k].at = at}
        BY ONLY <1>3, <1>12, <3>1
      <3>3. FirstAt(other, at) = i
        BY ONLY <1>12, <3>2 DEF FirstAt, i
      <3>4. InUse(other, at)
        BY ONLY <1>3, <1>12, <3>3 DEF InUse
      <3>5. mid.skills = other
        BY <1>9 DEF Characters
      <3> QED BY ONLY <3>3, <3>4, <3>5
    <2>2. other \in Seq(SkillSlots \cup {other[i]})
      <3>1. \A k \in 1 .. Len(list) : other[k] \in SkillSlots \cup {other[i]}
        BY ONLY <1>12
      <3>2. other = [k \in 1 .. Len(list) |-> other[k]]
        BY ONLY <1>12 DEF other
      <3> QED BY ONLY <1>3, <3>1, <3>2
    <2>3. PICK left : /\ left \in Seq({other[k] : k \in DOMAIN other \ {i}})
                      /\ Len(left) <= Len(other)
                      /\ RemoveSkillSlot(mid, at)
                            = Marked([mid EXCEPT !.skills = left], {"SKILLSLOT"})
      BY ONLY <2>1, <2>2, RemoveSkillSlotIs, ZenonT(30)
    <2>4. {other[k] : k \in DOMAIN other \ {i}} = K
      BY ONLY <1>3, <1>12
    <2>5. left \in Seq(K) /\ Len(left) \in Nat /\ DOMAIN left = 1 .. Len(left)
          /\ \A k \in DOMAIN left : left[k] \in K
      BY ONLY <2>3, <2>4, Entries
    <2>6. \A k \in DOMAIN left : left[k] \in SkillSlots /\ \E j \in DOMAIN list : left[k] = list[j]
      BY ONLY <1>3, <1>12, <2>5
    <2>7. left \in Short(Seq(SkillSlots)) /\ left \in Seq(SkillSlots)
      <3> HIDE DEF K
      <3>1. left = [k \in 1 .. Len(left) |-> left[k]]
        BY ONLY <2>5
      <3>2. left \in Seq(SkillSlots)
        BY ONLY <2>5, <2>6, <3>1
      <3>3. Len(left) <= MaxSkills
        BY ONLY <1>1, <1>3, <1>12, <2>3, <2>5
      <3> QED BY ONLY <3>2, <3>3 DEF Short
    <2>8. d = [c EXCEPT !.skill = skill, !.alz = c.alz - price, !.skills = left,
                        !.mask = c.mask \cup {"INFO", "SKILLSLOT"}]
      <3>1. d = Marked([mid EXCEPT !.skills = left], {"SKILLSLOT"})
        BY ONLY <1>10, <1>16, <2>3
      <3> QED BY <1>9, <3>1 DEF Marked, Characters
    <2>9. d \in Characters
      BY <1>11, <1>14, <2>7, <2>8 DEF Characters
    <2>10. /\ Practised(c, d) /\ d.quick = c.quick /\ d.skill = skill /\ d.skills = left
           /\ d.battleRank = c.battleRank
      BY <2>8 DEF Characters, Practised
    <2>11. ASSUME NEW credit_ \in Int, Backed(list, credit_ - c.skill.point)
           PROVE  Backed(left, credit_ - d.skill.point)
      <3>1. credit_ - c.skill.point \in Int
            /\ (credit_ - c.skill.point) + cost = credit_ - d.skill.point
        BY ONLY <1>8, <1>11, <2>10, credit_ \in Int
      <3>2. \A j \in DOMAIN left :
              \E k \in DOMAIN list :
                 /\ left[j].at = list[k].at
                 /\ \/ Cost(left[j]) <= Cost(list[k])
                    \/ list[k].at = e.at /\ Cost(left[j]) <= Cost(list[k]) + cost
        <4> TAKE j \in DOMAIN left
        <4>1. left[j] \in SkillSlots
          BY ONLY <2>6, j \in DOMAIN left
        <4>2. Cost(left[j]) \in Nat
          BY ONLY <4>1, CostIs
        <4>3. Cost(left[j]) <= Cost(left[j])
          BY ONLY <4>2
        <4>4. PICK k \in DOMAIN list : left[j] = list[k]
          BY ONLY <2>6, j \in DOMAIN left
        <4> QED BY ONLY <4>3, <4>4
      <3>3. Backed(left, (credit_ - c.skill.point) + cost)
        BY ONLY <1>1, <1>6, <1>8, <2>7, <2>11, <3>1, <3>2, BackedBy
      <3> QED BY ONLY <3>1, <3>3
    <2> QED BY ONLY <1>11, <2>9, <2>10, <2>11 DEF list, d
  <1> QED BY ONLY <1>15, <1>16, to \in Int DEF d

-----------------------------------------------------------------------------
(* Stats and points.                                                       *)

LEMMA StatsCounted ==
    /\ Cardinality(Stats) \in Nat
    /\ SetToSeq(Stats) \in [1 .. Cardinality(Stats) -> Stats]
  <1>1. Cardinality(Stats) \in Nat /\ ExistsBijection(1 .. Cardinality(Stats), Stats)
    BY Sizes, FS_CardinalityType
  <1>2. \E f \in [1 .. Cardinality(Stats) -> Stats] : IsInjective(f)
    BY ONLY <1>1 DEF ExistsBijection, Bijection, Injection
  <1> QED BY ONLY <1>1, <1>2 DEF SetToSeq

LEMMA SumIs ==
    ASSUME NEW f \in [Stats -> Int]
    PROVE  /\ Sum(f) \in Int
           /\ [i \in 1 .. Cardinality(Stats) |-> f[SetToSeq(Stats)[i]]]
                 \in [1 .. Cardinality(Stats) -> Int]
  <1> DEFINE n == Cardinality(Stats)
             order == SetToSeq(Stats)
             g == [i \in 1 .. n |-> f[order[i]]]
  <1>1. n \in Nat /\ order \in [1 .. n -> Stats]
    BY StatsCounted
  <1> HIDE DEF n, order
  <1>2. g \in [1 .. n -> Int]
    BY ONLY <1>1, f \in [Stats -> Int]
  <1>3. Total(g) \in Int
    <2> HIDE DEF g
    <2> QED BY ONLY <1>1, <1>2, PartialSums
  <1> QED BY ONLY <1>2, <1>3 DEF Sum, n, order

LEMMA SumsAlike ==
    ASSUME NEW w \in Int, NEW f \in [Stats -> Int], NEW g \in [Stats -> Int], NEW h \in [Stats -> Int],
           \A s \in Stats : \E z \in Int : h[s] = f[s] + g[s] + z * w
    PROVE  \E z \in Int : Sum(h) = Sum(f) + Sum(g) + z * w
  <1> DEFINE n == Cardinality(Stats)
             order == SetToSeq(Stats)
             F == [i \in 1 .. n |-> f[order[i]]]
             E == [i \in 1 .. n |-> g[order[i]]]
             H == [i \in 1 .. n |-> h[order[i]]]
  <1>1. n \in Nat /\ order \in [1 .. n -> Stats]
    BY StatsCounted
  <1>2. F \in [1 .. n -> Int] /\ E \in [1 .. n -> Int] /\ H \in [1 .. n -> Int]
    BY SumIs
  <1>3. Sum(f) = Total(F) /\ Sum(g) = Total(E) /\ Sum(h) = Total(H)
    BY DEF Sum
  <1> HIDE DEF n, order
  <1>4. \A k \in 1 .. n : \E z \in Int : H[k] = F[k] + E[k] + z * w
    <2> TAKE k \in 1 .. n
    <2>1. order[k] \in Stats
      BY ONLY <1>1
    <2>2. PICK z \in Int : h[order[k]] = f[order[k]] + g[order[k]] + z * w
      BY ONLY <2>1, \A s \in Stats : \E z \in Int : h[s] = f[s] + g[s] + z * w
    <2>3. H[k] = h[order[k]] /\ F[k] = f[order[k]] /\ E[k] = g[order[k]]
      BY ONLY k \in 1 .. n
    <2> HIDE DEF F, E, H
    <2> WITNESS z \in Int
    <2> QED BY ONLY <2>2, <2>3
  <1> HIDE DEF F, E, H
  <1>5. \E z \in Int : Total(H) = Total(F) + Total(E) + z * w
    BY ONLY <1>1, <1>2, <1>4, w \in Int, TotalsAlike
  <1> QED BY ONLY <1>3, <1>5

LEMMA WidthIs == Width \in Nat \ {0} /\ Width \in Int
  BY Sizes

LEMMA SumShifts ==
    ASSUME NEW x \in Int, NEW u \in Int
    PROVE  ((x % Width) + u) % Width = (x + u) % Width
  <1>1. PICK a \in Int : x % Width = x + a * Width
    BY ONLY WidthIs, Remainder, x \in Int
  <1> DEFINE y == (x % Width) + u
             z == x + u
             k == a * Width
  <1>2. k \in Int /\ y = (x + k) + u
    BY ONLY WidthIs, a \in Int, <1>1
  <1> HIDE DEF y, k
  <1>3. y \in Int /\ z \in Int /\ y = z + k
    BY ONLY <1>2, x \in Int, u \in Int
  <1> HIDE DEF z
  <1>4. y % Width = z % Width
    BY ONLY <1>3, a \in Int, WidthIs, SameRemainder, ZenonT(30) DEF k
  <1> QED BY ONLY <1>4 DEF y, z

LEMMA SumSpends ==
    ASSUME NEW t \in Int, NEW p \in Int, NEW u \in Int, NEW z \in Int
    PROVE  ((t + u + z * Width) + ((p - u) % Width)) % Width = (t + p) % Width
  <1>0. p - u \in Int
    OBVIOUS
  <1>1. PICK a \in Int : (p - u) % Width = (p - u) + a * Width
    BY ONLY <1>0, WidthIs, Remainder
  <1> DEFINE x == t + p
             y == (t + u + z * Width) + ((p - u) % Width)
             k == a * Width
             l == z * Width
             m == (a + z) * Width
  <1>2. k \in Int /\ l \in Int /\ m = k + l /\ a + z \in Int
    BY ONLY WidthIs, a \in Int, z \in Int
  <1>3. y = (t + u + l) + ((p - u) + k)
    BY ONLY <1>1
  <1> HIDE DEF y, k, l, m
  <1>4. x \in Int /\ y \in Int /\ y = x + m
    BY ONLY <1>2, <1>3, t \in Int, p \in Int, u \in Int
  <1> HIDE DEF x
  <1>5. y % Width = x % Width
    BY ONLY <1>2, <1>4, WidthIs, SameRemainder, ZenonT(30) DEF m
  <1> QED BY ONLY <1>5 DEF x, y

LEMMA StatsOf ==
    ASSUME NEW c \in Characters
    PROVE  /\ c.stats \in [Stats -> Int] /\ Sum(c.stats) \in Int /\ c.points \in Int
           /\ StatSum(c) \in Int
  <1>1. c.stats \in [Stats -> 0 .. Width - 1] /\ c.points \in Int
    BY FieldsOf
  <1>2. c.stats \in [Stats -> Int]
    BY ONLY <1>1, WidthIs
  <1>3. Sum(c.stats) \in Int
    <2> DEFINE f == c.stats
    <2> HIDE DEF f
    <2>1. f \in [Stats -> Int]
      BY ONLY <1>2 DEF f
    <2>2. Sum(f) \in Int
      BY ONLY <2>1, SumIs
    <2> QED BY ONLY <2>2 DEF f
  <1>4. Sum(c.stats) + c.points \in Int
    BY ONLY <1>1, <1>3
  <1> QED BY ONLY <1>1, <1>2, <1>3, <1>4 DEF StatSum

\* What StatPointsKept says: the stats and points of c are those counted, as long
\* as nothing has wrapped, and the same modulo Width ever after.
AddsUp(c, count, w) ==
    /\ ~w => StatSum(c) = count
    /\ StatSum(c) % Width = count % Width

\* The stats and points of a character are all StatSum looks at.
LEMMA SameAddsUp ==
    ASSUME NEW c, NEW d, NEW count, NEW w, d.stats = c.stats, d.points = c.points,
           AddsUp(c, count, w)
    PROVE  AddsUp(d, count, w)
  BY DEF AddsUp, StatSum

LEMMA Fits ==
    ASSUME NEW x \in 0 .. Width - 1
    PROVE  x % Width = x
  <1>1. Width \in Nat \ {0} /\ x \in Nat /\ x < Width
    BY WidthIs
  <1> QED BY ONLY <1>1

\* A level adds five.
LEMMA UpAdds ==
    ASSUME NEW c \in Characters, NEW d, NEW u \in Nat, NEW count \in Int, NEW w, NEW v,
           d.stats = c.stats, d.points = (c.points + u) % Width,
           AddsUp(c, count, w), v = (w \/ c.points + u >= Width)
    PROVE  AddsUp(d, count + u, v)
  <1> DEFINE t == Sum(c.stats)
             p == c.points
             q == (p + u) % Width
  <1>1. t \in Int /\ p \in Int /\ p \in 0 .. Width - 1
    BY StatsOf, FieldsOf
  <1>2. StatSum(d) = t + q /\ StatSum(c) = t + p
    BY DEF StatSum
  <1>3. ASSUME ~v PROVE ~w /\ p + u < Width
    <2>1. ~w /\ ~(p + u >= Width)
      BY <1>3
    <2> HIDE DEF p
    <2> QED BY ONLY <1>1, <2>1, WidthIs
  <1>4. (~w => StatSum(c) = count) /\ StatSum(c) % Width = count % Width
    BY DEF AddsUp
  <1> HIDE DEF t, p
  <1>5. ASSUME ~v PROVE StatSum(d) = count + u
    <2>1. p + u \in 0 .. Width - 1
      BY ONLY <1>1, <1>3, <1>5, WidthIs, u \in Nat
    <2>2. q = p + u
      BY ONLY <2>1, Fits
    <2>3. t + p = count
      BY ONLY <1>2, <1>3, <1>4, <1>5
    <2> HIDE DEF q
    <2> QED BY ONLY <1>1, <1>2, <2>2, <2>3, u \in Nat, count \in Int
  <1>6. StatSum(d) % Width = (count + u) % Width
    <2>0. p + u \in Int /\ t + p \in Int /\ u \in Int /\ q + t = t + q
          /\ (p + u) + t = (t + p) + u
      <3>1. p + u \in Int
        BY ONLY <1>1, u \in Nat
      <3>2. q \in Int
        BY ONLY <3>1, Wraps
      <3> HIDE DEF q
      <3> QED BY ONLY <1>1, <3>1, <3>2, u \in Nat
    <2>1. (q + t) % Width = ((p + u) + t) % Width
      BY ONLY <1>1, <2>0, SumShifts
    <2> HIDE DEF q
    <2>2. (((t + p) % Width) + u) % Width = ((t + p) + u) % Width
      BY ONLY <2>0, SumShifts
    <2>3. ((count % Width) + u) % Width = (count + u) % Width
      BY ONLY <2>0, count \in Int, SumShifts
    <2> QED BY ONLY <1>2, <1>4, <2>0, <2>1, <2>2, <2>3
  <1> QED BY ONLY <1>5, <1>6 DEF AddsUp

LEMMA AddStatsIs ==
    ASSUME NEW c \in Characters, NEW add \in [Stats -> Int]
    PROVE  LET d == AddStats(c, add)
           IN  /\ d \in Characters /\ StatSum(d) % Width = StatSum(c) % Width
               /\ /\ c.points - Required(add) \in 0 .. Width - 1
                  /\ \A s \in Stats : c.stats[s] + add[s] \in 0 .. Width - 1
                  => StatSum(d) = StatSum(c)
               /\ d.level = c.level /\ d.exp = c.exp /\ d.battleRank = c.battleRank
               /\ d.skill = c.skill /\ d.honor = c.honor /\ d.alz = c.alz
               /\ d.skills = c.skills /\ d.quick = c.quick
               /\ d.quests = c.quests /\ d.count = c.count /\ d.flags = c.flags
               /\ c.mask \subseteq d.mask
  <1> DEFINE stats == [s \in Stats |-> (c.stats[s] + add[s]) % Width]
             points == (c.points - Required(add)) % Width
             d == AddStats(c, add)
  <1>1. /\ c.stats \in [Stats -> Int] /\ Sum(c.stats) \in Int /\ c.points \in Int
        /\ Required(add) \in Int
    BY StatsOf, SumIs DEF Required
  <1>2. points \in 0 .. Width - 1
    <2>1. c.points - Required(add) \in Int
      BY ONLY <1>1
    <2> QED BY ONLY <2>1, Wraps
  <1>3. \A s \in Stats : c.stats[s] + add[s] \in Int /\ c.stats[s] \in Int /\ add[s] \in Int
    BY ONLY <1>1, add \in [Stats -> Int]
  <1>4. \A s \in Stats : stats[s] \in 0 .. Width - 1 /\ stats[s] \in Int
    <2> TAKE s \in Stats
    <2>1. stats[s] = (c.stats[s] + add[s]) % Width
      OBVIOUS
    <2>2. c.stats[s] + add[s] \in Int
      BY ONLY <1>3
    <2> HIDE DEF stats
    <2> QED BY ONLY <2>1, <2>2, Wraps
  <1>5. stats \in [Stats -> 0 .. Width - 1] /\ stats \in [Stats -> Int]
    BY ONLY <1>4
  <1>6. \A s \in Stats : \E z \in Int : stats[s] = c.stats[s] + add[s] + z * Width
    <2> TAKE s \in Stats
    <2>1. stats[s] = (c.stats[s] + add[s]) % Width
      OBVIOUS
    <2> DEFINE x == c.stats[s] + add[s]
    <2>2. x \in Int
      BY ONLY <1>3
    <2> HIDE DEF x
    <2>3. \E z \in Int : x % Width = x + z * Width
      BY ONLY <2>2, WidthIs, Remainder
    <2> QED BY ONLY <2>1, <2>3 DEF x
  <1>7. d = [c EXCEPT !.stats = stats, !.points = points, !.mask = c.mask \cup {"INFO"}]
    BY DEF AddStats, Marked, Characters
  <1> HIDE DEF d, stats, points
  <1>8. d \in Characters
    BY <1>2, <1>5, <1>7 DEF Characters, Parts
  <1>9. /\ d.level = c.level /\ d.exp = c.exp /\ d.battleRank = c.battleRank
        /\ d.skill = c.skill /\ d.honor = c.honor /\ d.alz = c.alz
        /\ d.skills = c.skills /\ d.quick = c.quick
        /\ d.quests = c.quests /\ d.count = c.count /\ d.flags = c.flags
        /\ c.mask \subseteq d.mask /\ d.stats = stats /\ d.points = points
    BY <1>7 DEF Characters
  <1>10. StatSum(d) % Width = StatSum(c) % Width
    <2> DEFINE old == c.stats
               t == Sum(old)
               u == Required(add)
    <2>0. t \in Int /\ u \in Int /\ old \in [Stats -> Int]
          /\ \A s \in Stats : \E z \in Int : stats[s] = old[s] + add[s] + z * Width
      BY ONLY <1>1, <1>6
    <2>1. PICK z \in Int : Sum(stats) = t + u + z * Width
      <3> HIDE DEF old
      <3>1. \E z \in Int : Sum(stats) = Sum(old) + Sum(add) + z * Width
        BY ONLY <1>5, <2>0, WidthIs, SumsAlike, add \in [Stats -> Int]
      <3> QED BY ONLY <3>1 DEF Required
    <2>2. StatSum(d) = Sum(stats) + points /\ StatSum(c) = t + c.points
      BY ONLY <1>9 DEF StatSum
    <2>3. points = (c.points - u) % Width
      BY DEF points
    <2> HIDE DEF t, u
    <2>4. ((t + u + z * Width) + ((c.points - u) % Width)) % Width = (t + c.points) % Width
      <3> DEFINE p == c.points
      <3>1. p \in Int
        BY ONLY <1>1
      <3> HIDE DEF p
      <3>2. ((t + u + z * Width) + ((p - u) % Width)) % Width = (t + p) % Width
        BY ONLY <2>0, <3>1, SumSpends, z \in Int
      <3> QED BY ONLY <3>2 DEF p
    <2> QED BY ONLY <2>1, <2>2, <2>3, <2>4
  <1>11. ASSUME c.points - Required(add) \in 0 .. Width - 1,
                \A s \in Stats : c.stats[s] + add[s] \in 0 .. Width - 1
         PROVE  StatSum(d) = StatSum(c)
    <2> DEFINE old == c.stats
               t == Sum(old)
               u == Required(add)
    <2>1. points = c.points - u
      BY ONLY <1>11, Fits DEF points
    <2>2. \A s \in Stats : \E z \in Int : stats[s] = old[s] + add[s] + z * 0
      <3> TAKE s \in Stats
      <3>1. stats[s] = (old[s] + add[s]) % Width
        BY DEF stats
      <3>2. stats[s] = old[s] + add[s]
        BY ONLY <1>11, <3>1, Fits
      <3> HIDE DEF old
      <3>3. 0 \in Int /\ stats[s] = old[s] + add[s] + 0 * 0
        BY ONLY <1>3, <3>2 DEF old
      <3> QED BY ONLY <3>3
    <2>3. old \in [Stats -> Int] /\ t \in Int /\ u \in Int /\ c.points \in Int
      BY ONLY <1>1
    <2> HIDE DEF old
    <2>4. PICK z \in Int : Sum(stats) = t + u + z * 0
      <3>1. 0 \in Int
        OBVIOUS
      <3>2. \E z \in Int : Sum(stats) = Sum(old) + Sum(add) + z * 0
        BY ONLY <1>5, <2>2, <2>3, <3>1, SumsAlike, add \in [Stats -> Int]
      <3> QED BY ONLY <3>2 DEF Required
    <2>5. StatSum(d) = Sum(stats) + points /\ StatSum(c) = t + c.points
      BY ONLY <1>9 DEF StatSum, old
    <2> HIDE DEF t, u
    <2> DEFINE p == c.points
    <2>6. points = p - u /\ p \in Int /\ StatSum(c) = t + p
      BY ONLY <2>1, <2>3, <2>5
    <2> HIDE DEF p
    <2>7. Sum(stats) = t + u
      BY ONLY <2>3, <2>4
    <2> QED BY ONLY <2>3, <2>5, <2>6, <2>7
  <1> QED BY <1>8, <1>9, <1>10, <1>11 DEF d

-----------------------------------------------------------------------------
(* Quick slots.                                                            *)

QuickSlots == [skill : Nat, at : Nat]

\* What handlers of quick slots leave alone.
Slotted(c, d) ==
    /\ Practised(c, d) /\ d.skill = c.skill /\ d.skills = c.skills
    /\ d.battleRank = c.battleRank

LEMMA QuickIs ==
    ASSUME NEW c \in Characters
    PROVE  /\ c.quick \in Short(Seq(QuickSlots)) /\ c.quick \in Seq(QuickSlots)
           /\ Len(c.quick) \in Nat /\ Len(c.quick) <= MaxSkills
           /\ DOMAIN c.quick = 1 .. Len(c.quick)
           /\ \A i \in 1 .. Len(c.quick) : c.quick[i] \in QuickSlots
  <1>1. c.quick \in Short(Seq(QuickSlots))
    BY FieldsOf DEF QuickSlots
  <1>2. c.quick \in Seq(QuickSlots) /\ Len(c.quick) <= MaxSkills
    BY ONLY <1>1, ShortIs
  <1> DEFINE list == c.quick
  <1> HIDE DEF list
  <1>3. list \in Seq(QuickSlots)
    BY ONLY <1>2 DEF list
  <1>4. Len(list) \in Nat /\ DOMAIN list = 1 .. Len(list) /\ \A i \in 1 .. Len(list) : list[i] \in QuickSlots
    BY ONLY <1>3, Entries
  <1> QED BY ONLY <1>1, <1>2, <1>4 DEF list

\* The same character with other quick slots.
WithQuick(c, list, marks) == [c EXCEPT !.quick = list, !.mask = c.mask \cup marks]

LEMMA QuickChanged ==
    ASSUME NEW c \in Characters, NEW list \in Seq(QuickSlots), Len(list) <= MaxSkills,
           NEW marks \in SUBSET Parts
    PROVE  LET d == WithQuick(c, list, marks)
           IN  d \in Characters /\ Slotted(c, d) /\ d.quick = list
  <1>1. list \in Short(Seq([skill : Nat, at : Nat]))
    BY DEF Short, QuickSlots
  <1> QED BY <1>1 DEF Characters, Slotted, Practised, WithQuick

LEMMA AddQuickSlotIs ==
    ASSUME NEW c \in Characters, NEW skill \in Nat, NEW at \in Nat, Len(c.quick) < MaxSkills
    PROVE  LET d == AddQuickSlot(c, skill, at)
           IN  /\ d \in Characters /\ Slotted(c, d)
               /\ NumberedOnce(c.quick) => NumberedOnce(d.quick)
  <1> DEFINE list == c.quick
             i == FirstAt(list, at)
             e == [skill |-> skill, at |-> at]
             d == AddQuickSlot(c, skill, at)
  <1>1. /\ list \in Seq(QuickSlots) /\ Len(list) \in Nat /\ DOMAIN list = 1 .. Len(list)
        /\ \A k \in 1 .. Len(list) : list[k] \in QuickSlots
        /\ list \in Short(Seq(QuickSlots)) /\ MaxSkills \in Nat /\ Len(list) < MaxSkills
    BY QuickIs, Sizes
  <1>2. /\ InUse(list, at) <=> \E k \in 1 .. Len(list) : list[k].at = at
        /\ InUse(list, at) => i \in 1 .. Len(list) /\ list[i].at = at
    <2> HIDE DEF list
    <2> QED BY ONLY <1>1, FirstAtIs
  <1>3. CASE InUse(list, at)
    <2> DEFINE other == [list EXCEPT ![i].skill = skill]
    <2>1. d = [c EXCEPT !.quick = other]
      BY <1>3 DEF AddQuickSlot
    <2>2. d = WithQuick(c, other, {})
      BY <2>1 DEF Characters, WithQuick
    <2> HIDE DEF list, i, d
    <2>3. DOMAIN other = 1 .. Len(list) /\ \A k \in 1 .. Len(list) :
             other[k] \in QuickSlots /\ other[k].at = list[k].at
      BY ONLY <1>1, <1>2, <1>3, skill \in Nat DEF QuickSlots
    <2>4. other = [k \in 1 .. Len(list) |-> other[k]]
      BY ONLY <2>3
    <2> HIDE DEF other
    <2>5. other \in Seq(QuickSlots) /\ Len(other) = Len(list)
      BY ONLY <1>1, <2>3, <2>4
    <2>6. Len(other) <= MaxSkills
      BY ONLY <1>1, <2>5
    <2>7. d \in Characters /\ Slotted(c, d) /\ d.quick = other
      BY ONLY <2>2, <2>5, <2>6, QuickChanged, c \in Characters, {} \in SUBSET Parts
    <2>8. NumberedOnce(list) => NumberedOnce(other)
      BY ONLY <1>1, <2>3 DEF NumberedOnce
    <2> QED BY ONLY <2>7, <2>8 DEF d, list
  <1>4. CASE ~InUse(list, at)
    <2> DEFINE other == Append(list, e)
    <2>1. d = WithQuick(c, other, {"QUICKSLOT"})
      BY <1>4 DEF AddQuickSlot, Marked, Characters, WithQuick
    <2> HIDE DEF list, i, d
    <2>2. e \in QuickSlots /\ e.at = at
      BY ONLY skill \in Nat, at \in Nat DEF QuickSlots
    <2> HIDE DEF e
    <2>3. /\ other \in Short(Seq(QuickSlots)) /\ DOMAIN other = 1 .. Len(list) + 1
          /\ \A k \in 1 .. Len(list) : other[k] = list[k]
          /\ other[Len(list) + 1] = e
      BY ONLY <1>1, <2>2, Appended
    <2> HIDE DEF other
    <2>4. other \in Seq(QuickSlots) /\ Len(other) <= MaxSkills
      BY ONLY <2>3, ShortIs
    <2>5. d \in Characters /\ Slotted(c, d) /\ d.quick = other
      <3>1. {"QUICKSLOT"} \in SUBSET Parts
        BY DEF Parts
      <3> QED BY ONLY <2>1, <2>4, <3>1, QuickChanged, c \in Characters
    <2>6. NumberedOnce(list) => NumberedOnce(other)
      <3>1. \A k \in 1 .. Len(list) : list[k].at # at
        BY ONLY <1>2, <1>4
      <3> SUFFICES ASSUME NumberedOnce(list), NEW k \in DOMAIN other, NEW l \in DOMAIN other,
                          other[k].at = other[l].at
                   PROVE  k = l
        BY DEF NumberedOnce
      <3>2. \A j \in DOMAIN other : j # Len(list) + 1 => j \in 1 .. Len(list)
        BY ONLY <1>1, <2>3
      <3>3. \A j \in DOMAIN other : other[j].at = at => j = Len(list) + 1
        BY ONLY <2>3, <3>1, <3>2
      <3>4. CASE k = Len(list) + 1
        BY ONLY <2>2, <2>3, <3>3, <3>4, other[k].at = other[l].at, l \in DOMAIN other
      <3>5. CASE l = Len(list) + 1
        BY ONLY <2>2, <2>3, <3>3, <3>5, other[k].at = other[l].at, k \in DOMAIN other
      <3>6. CASE k # Len(list) + 1 /\ l # Len(list) + 1
        <4>1. k \in DOMAIN list /\ l \in DOMAIN list /\ list[k].at = list[l].at
          BY ONLY <1>1, <2>3, <3>2, <3>6, other[k].at = other[l].at,
                  k \in DOMAIN other, l \in DOMAIN other
        <4> QED BY ONLY <4>1, NumberedOnce(list) DEF NumberedOnce
      <3> QED BY ONLY <3>4, <3>5, <3>6
    <2> QED BY ONLY <2>5, <2>6 DEF d, list
  <1> QED BY ONLY <1>3, <1>4

LEMMA SwapQuickSlotIs ==
    ASSUME NEW c \in Characters, NEW s \in Nat, NEW t \in Nat,
           InUse(c.quick, s), InUse(c.quick, t)
    PROVE  LET d == SwapQuickSlot(c, s, t)
           IN  /\ d \in Characters /\ Slotted(c, d)
               /\ NumberedOnce(c.quick) => NumberedOnce(d.quick)
  <1> DEFINE list == c.quick
             i == FirstAt(list, s)
             j == FirstAt(list, t)
             other == [[list EXCEPT ![i].at = t] EXCEPT ![j].at = s]
             d == SwapQuickSlot(c, s, t)
  <1>1. /\ list \in Seq(QuickSlots) /\ Len(list) \in Nat /\ DOMAIN list = 1 .. Len(list)
        /\ \A k \in 1 .. Len(list) : list[k] \in QuickSlots
        /\ Len(list) <= MaxSkills
    BY QuickIs
  <1>2. i \in 1 .. Len(list) /\ list[i].at = s /\ j \in 1 .. Len(list) /\ list[j].at = t
    BY <1>1, FirstAtIs
  <1>3. d = WithQuick(c, other, {"QUICKSLOT"})
    BY DEF SwapQuickSlot, Marked, Characters, WithQuick
  <1> HIDE DEF list, i, j, d
  <1>4. DOMAIN other = 1 .. Len(list) /\ \A k \in 1 .. Len(list) :
             /\ other[k] \in QuickSlots
             /\ other[k].at = IF k = j THEN s ELSE IF k = i THEN t ELSE list[k].at
    BY ONLY <1>1, <1>2, s \in Nat, t \in Nat DEF QuickSlots
  <1>5. other = [k \in 1 .. Len(list) |-> other[k]]
    BY ONLY <1>4
  <1> HIDE DEF other
  <1>6. other \in Seq(QuickSlots) /\ Len(other) = Len(list)
    BY ONLY <1>1, <1>4, <1>5
  <1>7. Len(other) <= MaxSkills
    BY ONLY <1>1, <1>6
  <1>8. d \in Characters /\ Slotted(c, d) /\ d.quick = other
    <2>1. {"QUICKSLOT"} \in SUBSET Parts
      BY DEF Parts
    <2> QED BY ONLY <1>3, <1>6, <1>7, <2>1, QuickChanged, c \in Characters
  <1>9. ASSUME NumberedOnce(list), NEW k \in DOMAIN other, NEW l \in DOMAIN other,
               other[k].at = other[l].at
        PROVE  k = l
    <2>1. \A m, n \in 1 .. Len(list) : list[m].at = list[n].at => m = n
      BY ONLY <1>1, <1>9 DEF NumberedOnce
    <2> QED BY ONLY <1>2, <1>4, <1>9, <2>1
  <1>10. NumberedOnce(list) => NumberedOnce(other)
    BY ONLY <1>9 DEF NumberedOnce
  <1> QED BY ONLY <1>8, <1>10 DEF d, list

LEMMA RemoveQuickSlotIs ==
    ASSUME NEW c \in Characters, NEW at \in Nat, InUse(c.quick, at)
    PROVE  LET d == RemoveQuickSlot(c, at)
           IN  /\ d \in Characters /\ Slotted(c, d)
               /\ NumberedOnce(c.quick) /\ ~(FirstAt(c.quick, at) + 1 < Len(c.quick))
                     => NumberedOnce(d.quick)
  <1> DEFINE list == c.quick
             n == Len(list)
             i == FirstAt(list, at)
             other == PulledBack(list, i)
             d == RemoveQuickSlot(c, at)
  <1>1. /\ list \in Seq(QuickSlots) /\ n \in Nat /\ DOMAIN list = 1 .. n /\ n <= MaxSkills
        /\ MaxSkills \in Nat
    BY QuickIs, Sizes
  <1>2. i \in 1 .. n
    BY <1>1, FirstAtIs
  <1>3. d = WithQuick(c, other, {"QUICKSLOT"})
    BY DEF RemoveQuickSlot, Marked, Characters, WithQuick
  <1>4. /\ other \in Seq(QuickSlots) /\ Len(other) = n - 1 /\ DOMAIN other = 1 .. n - 1
        /\ \A k \in 1 .. n - 1 : other[k] = IF k = i THEN list[i + 1] ELSE list[k]
    <2> HIDE DEF list, i
    <2> QED BY ONLY <1>1, <1>2, PulledBackIs
  <1> HIDE DEF list, i, d, other, n
  <1>5. Len(other) <= MaxSkills
    BY ONLY <1>1, <1>4
  <1>6. d \in Characters /\ Slotted(c, d) /\ d.quick = other
    <2>1. {"QUICKSLOT"} \in SUBSET Parts
      BY DEF Parts
    <2> QED BY ONLY <1>3, <1>4, <1>5, <2>1, QuickChanged, c \in Characters
  <1>7. ASSUME NumberedOnce(list), ~(i + 1 < n), NEW k \in DOMAIN other,
               NEW l \in DOMAIN other, other[k].at = other[l].at
        PROVE  k = l
    <2>1. \A m, p \in 1 .. n : list[m].at = list[p].at => m = p
      BY ONLY <1>1, <1>7 DEF NumberedOnce
    <2>2. k \in 1 .. n - 1 /\ l \in 1 .. n - 1 /\ i \in Int /\ i + 1 >= n
      BY ONLY <1>1, <1>2, <1>4, <1>7
    <2> QED BY ONLY <1>1, <1>2, <1>4, <1>7, <2>1, <2>2
  <1>8. NumberedOnce(list) /\ ~(i + 1 < n) => NumberedOnce(other)
    BY ONLY <1>7 DEF NumberedOnce
  <1> QED BY ONLY <1>6, <1>8 DEF d, list, i, n

-----------------------------------------------------------------------------
(* Quests.                                                                 *)

QuestEntries == [q : Int, step : Int, counts : KillCounts]

LEMMA QuestData ==
    ASSUME NEW q \in DOMAIN Quests
    PROVE  /\ q \in QuestIDs /\ q \in Int
           /\ Quests[q].exp \in Nat /\ Quests[q].skillExp \in Nat /\ Quests[q].honor \in Nat
           /\ Quests[q].honor \in Int /\ Quests[q].rankUp \in BOOLEAN
           /\ Len(Quests[q].npcs) \in Nat /\ Quests[q].begin \in -1 .. Len(Quests[q].npcs) - 1
           /\ \A i \in 1 .. Len(Quests[q].npcs) :
                 Quests[q].npcs[i].order \in 0 .. Len(Quests[q].npcs) - 1
           /\ DOMAIN Quests[q].mobs \subseteq 1 .. MaxCounters
           /\ \A k \in DOMAIN Quests[q].mobs :
                 Quests[q].mobs[k].need \in Nat /\ Quests[q].mobs[k].need <= MaxKills
  <1>1. /\ q \in QuestIDs
        /\ Quests[q].exp \in Nat /\ Quests[q].skillExp \in Nat /\ Quests[q].honor \in Nat
        /\ Quests[q].rankUp \in BOOLEAN
        /\ Len(Quests[q].npcs) \in Nat /\ Quests[q].begin \in -1 .. Len(Quests[q].npcs) - 1
        /\ \A i \in 1 .. Len(Quests[q].npcs) :
              Quests[q].npcs[i].order \in 0 .. Len(Quests[q].npcs) - 1
        /\ DOMAIN Quests[q].mobs \subseteq 1 .. MaxCounters
        /\ \A k \in DOMAIN Quests[q].mobs : Quests[q].mobs[k].need \in Nat
    BY CharacterAssumption
  <1>2. \A k \in DOMAIN Quests[q].mobs : Quests[q].mobs[k].need <= MaxKills
    BY StartsAssumption
  <1>3. q \in Int
    BY ONLY <1>1 DEF QuestIDs
  <1>4. Quests[q].honor \in Int
    BY ONLY <1>1
  <1> QED BY ONLY <1>1, <1>2, <1>3, <1>4

\* The NPC behind one of a quest's own is one of its own.
LEMMA NpcOrder ==
    ASSUME NEW q \in DOMAIN Quests, NEW step \in Int, HasNpc(q, step)
    PROVE  NpcAt(q, step).order \in Int /\ HasNpc(q, NpcAt(q, step).order)
  <1>1. /\ Len(Quests[q].npcs) \in Nat
        /\ \A i \in 1 .. Len(Quests[q].npcs) :
              Quests[q].npcs[i].order \in 0 .. Len(Quests[q].npcs) - 1
    BY QuestData
  <1>2. step + 1 \in 1 .. Len(Quests[q].npcs)
    BY ONLY <1>1, HasNpc(q, step), step \in Int DEF HasNpc
  <1>3. NpcAt(q, step).order \in 0 .. Len(Quests[q].npcs) - 1
    BY ONLY <1>1, <1>2 DEF NpcAt
  <1>4. NpcAt(q, step).order \in Int
    BY ONLY <1>1, <1>3
  <1> QED BY ONLY <1>3, <1>4 DEF HasNpc

LEMMA NoQuestIs ==
    NoCounts \in KillCounts /\ NoQuest \in QuestEntries /\ NoQuest.q = 0
    /\ \A k \in 1 .. MaxCounters : NoCounts[k] = 0
  <1>1. NoCounts \in KillCounts
    BY Sizes DEF NoCounts, KillCounts
  <1>2. \A k \in 1 .. MaxCounters : NoCounts[k] = 0
    BY DEF NoCounts
  <1> QED BY ONLY <1>1, <1>2 DEF NoQuest, QuestEntries

LEMMA QuestPastIs == ASSUME NEW c PROVE QuestPast(c) \in QuestEntries
  <1> DEFINE f == [i \in QuestIDs |-> IF i \in c.flags THEN Bits[i] ELSE 0]
  <1>1. \A i \in 1 .. 15 : Bits[i] \in Int
    BY DEF Bits
  <1>2. f \in [1 .. 15 -> Int]
    BY ONLY <1>1 DEF QuestIDs
  <1>3. Total(f) \in Int
    <2> HIDE DEF f
    <2> QED BY ONLY <1>2, PartialSums, 15 \in Nat
  <1> HIDE DEF f
  <1>4. QuestPast(c) = [NoQuest EXCEPT !.q = Total(f)]
    BY DEF QuestPast, f
  <1> QED BY ONLY <1>3, <1>4, NoQuestIs DEF QuestEntries

\* The listed quests but that in slot s, those behind it one slot lower.
Without(c, d, s) ==
    /\ d.count = c.count - 1
    /\ \A i \in 0 .. d.count - 1 : d.quests[i] = c.quests[IF i < s THEN i ELSE i + 1]

LEMMA QuestsWithoutIs ==
    ASSUME NEW c, c.quests \in [QuestNo -> QuestEntries], NEW s \in QuestNo, NEW tail \in Int
    PROVE  /\ QuestsWithout(c, s, tail) \in [QuestNo -> QuestEntries]
           /\ \A n \in 0 .. MaxQuests : s < n /\ tail \in {n - s - 1, n - s} =>
                 \A i \in 0 .. n - 2 :
                    QuestsWithout(c, s, tail)[i] = c.quests[IF i < s THEN i ELSE i + 1]
  <1> DEFINE w == QuestsWithout(c, s, tail)
             past == QuestPast(c)
  <1>0. /\ QuestNo = 0 .. MaxQuests - 1 /\ MaxQuests \in Nat /\ s \in Int /\ s >= 0
        /\ s <= MaxQuests - 1
    BY Sizes DEF QuestNo
  <1>1. CASE tail <= 0
    <2>1. w = [c.quests EXCEPT ![s] = NoQuest]
      BY <1>1 DEF QuestsWithout
    <2> HIDE DEF w
    <2>2. w \in [QuestNo -> QuestEntries]
      BY ONLY <2>1, NoQuestIs, c.quests \in [QuestNo -> QuestEntries]
    <2>3. ASSUME NEW n \in 0 .. MaxQuests, s < n /\ tail \in {n - s - 1, n - s},
                 NEW i \in 0 .. n - 2
          PROVE  w[i] = c.quests[IF i < s THEN i ELSE i + 1]
      <3>1. i \in QuestNo /\ i < s
        BY ONLY <1>0, <1>1, <2>3, tail \in Int
      <3>2. i # s
        BY ONLY <1>0, <3>1
      <3> QED BY ONLY <2>1, <3>1, <3>2, c.quests \in [QuestNo -> QuestEntries]
    <2> QED BY ONLY <2>2, <2>3 DEF w
  <1>2. CASE tail > 0
    <2>1. w = [k \in QuestNo |-> IF k \notin s .. s + tail - 1 THEN c.quests[k]
                                 ELSE IF k + 1 \in QuestNo THEN c.quests[k + 1] ELSE past]
      <3>1. ~(tail <= 0)
        BY ONLY <1>2, tail \in Int
      <3> QED BY <3>1 DEF QuestsWithout
    <2>a. past \in QuestEntries
      BY QuestPastIs
    <2> HIDE DEF w, past
    <2>2. w \in [QuestNo -> QuestEntries]
      BY ONLY <2>1, <2>a, c.quests \in [QuestNo -> QuestEntries]
    <2>3. ASSUME NEW n \in 0 .. MaxQuests, s < n /\ tail \in {n - s - 1, n - s},
                 NEW i \in 0 .. n - 2
          PROVE  w[i] = c.quests[IF i < s THEN i ELSE i + 1]
      <3>1. i \in QuestNo /\ i + 1 \in QuestNo
        BY ONLY <1>0, <2>3
      <3>2. i \in s .. s + tail - 1 <=> ~(i < s)
        BY ONLY <1>0, <2>3, tail \in Int
      <3> QED BY ONLY <2>1, <3>1, <3>2
    <2> QED BY ONLY <2>2, <2>3 DEF w
  <1> QED BY ONLY <1>1, <1>2, tail \in Int

\* No counter is ahead of the kills since the quest began.
Counted(c, kills) ==
    \A s \in 0 .. c.count - 1 : \A k \in 1 .. MaxCounters :
        c.quests[s].counts[k] <= kills[c.quests[s].q][k]

LEMMA WithoutKeeps ==
    ASSUME NEW c, NEW d, NEW s \in 0 .. c.count - 1, c.count \in Nat, Without(c, d, s)
    PROVE  /\ d.count \in Nat
           /\ ListedOnce(c) => /\ ListedOnce(d)
                               /\ \A i \in 0 .. d.count - 1 : d.quests[i].q # c.quests[s].q
           /\ \A flags : NoneDone(c, flags) => NoneDone(d, flags)
           /\ \A kills : Counted(c, kills) => Counted(d, kills)
  <1> DEFINE Old(i) == IF i < s THEN i ELSE i + 1
  <1>1. /\ d.count = c.count - 1 /\ d.count \in Nat /\ s \in Int
        /\ \A i \in 0 .. d.count - 1 : i \in Int /\ d.quests[i] = c.quests[Old(i)]
    BY DEF Without
  <1>2. \A i \in 0 .. d.count - 1 : Old(i) \in 0 .. c.count - 1 /\ Old(i) # s
    BY ONLY <1>1, c.count \in Nat, s \in 0 .. c.count - 1
  <1>3. \A i \in 0 .. d.count - 1 : \A j \in 0 .. i - 1 :
            j \in 0 .. d.count - 1 /\ Old(j) \in 0 .. Old(i) - 1
    BY ONLY <1>1, c.count \in Nat, s \in 0 .. c.count - 1
  <1> HIDE DEF Old
  <1>4. ASSUME ListedOnce(c)
        PROVE  ListedOnce(d) /\ \A i \in 0 .. d.count - 1 : d.quests[i].q # c.quests[s].q
    <2>1. \A i \in 0 .. c.count - 1 :
             /\ c.quests[i].q \in DOMAIN Quests
             /\ Quests[c.quests[i].q].begin >= 0 => HasNpc(c.quests[i].q, c.quests[i].step)
             /\ \A j \in 0 .. i - 1 : c.quests[j].q # c.quests[i].q
      BY ONLY <1>4 DEF ListedOnce
    <2>2. ListedOnce(d)
      BY ONLY <1>1, <1>2, <1>3, <2>1 DEF ListedOnce
    <2>3. \A i \in 0 .. d.count - 1 : Old(i) \in 0 .. s - 1 \/ s \in 0 .. Old(i) - 1
      BY ONLY <1>1, <1>2, c.count \in Nat, s \in 0 .. c.count - 1
    <2>4. \A i \in 0 .. d.count - 1 : d.quests[i].q # c.quests[s].q
      BY ONLY <1>1, <1>2, <2>1, <2>3, s \in 0 .. c.count - 1
    <2> QED BY ONLY <2>2, <2>4
  <1>5. \A flags : NoneDone(c, flags) => NoneDone(d, flags)
    BY ONLY <1>1, <1>2 DEF NoneDone
  <1>6. \A kills : Counted(c, kills) => Counted(d, kills)
    BY ONLY <1>1, <1>2 DEF Counted
  <1> QED BY ONLY <1>1, <1>4, <1>5, <1>6

-----------------------------------------------------------------------------
(* The inductive invariant of Progress.                                    *)

\* What battles change: the record and the history of what it may hold.
Balances == [c : Characters, gained : Int, since : [DOMAIN Quests -> KillCounts],
             due : Int, wrapped : BOOLEAN, credit : Int]

\* The points of b.c are those counted, unless one wrapped; its skills are paid for.
Balanced(b) ==
    /\ b \in Balances
    /\ b.c.skill.rank <= b.c.battleRank
    /\ AddsUp(b.c, b.due, b.wrapped)
    /\ Backed(b.c.skills, b.credit - b.c.skill.point)

\* The quests of b.c are in order, its exp and counters earned.
Questing(b) ==
    /\ b.c.count \in 0 .. MaxQuests
    /\ ListedOnce(b.c) /\ NoneDone(b.c, b.c.flags)
    /\ Counted(b.c, b.since)
    /\ b.c.exp <= b.gained + ExpOf(b.c.flags)

SameQuests(slots, other) ==
    /\ slots.count = other.count
    /\ \A i \in 0 .. slots.count - 1 : slots.quests[i].q = other.quests[i].q

\* The stored copy may be a mixture of parts from different times: a part that is
\* neither marked nor lost agrees with the record.
Copied ==
    /\ ListedOnce(saved["QUESTSLOT"])
    /\ "QUESTSLOT" \notin char.mask \cup lost => SameQuests(char, saved["QUESTSLOT"])
    /\ "QUESTFLAG" \notin char.mask \cup lost => saved["QUESTFLAG"] = char.flags
    /\ "INFO" \notin char.mask \cup lost => saved["INFO"].exp = char.exp
    /\ lost = {} => /\ NoneDone(saved["QUESTSLOT"], saved["QUESTFLAG"])
                    /\ saved["INFO"].exp <= gained + ExpOf(saved["QUESTFLAG"])
                    /\ saved["INFO"].exp \in Nat /\ saved["QUESTFLAG"] \in SUBSET DOMAIN Quests

ProgressInv ==
    /\ Balanced(Before)
    /\ \E start \in Starts : plan = start.plan
    /\ lost \in SUBSET Parts
    /\ ~fault => char.count \in 0 .. MaxQuests
    /\ torn \/ NumberedOnce(char.quick)
    /\ orderly => Questing(Before) /\ Copied

LEMMA ExpOfIs ==
    ASSUME NEW flags \in SUBSET DOMAIN Quests
    PROVE  /\ ExpOf(flags) \in Nat
           /\ \A q \in DOMAIN Quests \ flags :
                 ExpOf(flags \cup {q}) = ExpOf(flags) + Quests[q].exp
  <1> DEFINE F(qs) == [p \in 1 .. 15 |-> IF p \in qs THEN Quests[p].exp ELSE 0]
  <1>1. ASSUME NEW qs \in SUBSET DOMAIN Quests
        PROVE  ExpOf(qs) = Total(F(qs)) /\ F(qs) \in [1 .. 15 -> Nat]
    <2>1. \A p \in qs : Quests[p].exp \in Nat
      BY QuestData
    <2>2. F(qs) \in [1 .. 15 -> Nat]
      BY ONLY <2>1
    <2>3. ExpOf(qs) = Total(F(qs))
      BY DEF ExpOf, QuestIDs
    <2> QED BY ONLY <2>2, <2>3
  <1>2. 15 \in Nat
    OBVIOUS
  <1>3. ASSUME NEW q \in DOMAIN Quests \ flags
        PROVE  ExpOf(flags \cup {q}) = ExpOf(flags) + Quests[q].exp
    <2>1. q \in 1 .. 15 /\ Quests[q].exp \in Nat
      BY QuestData DEF QuestIDs
    <2>2. \A k \in 1 .. 15 : k # q => F(flags \cup {q})[k] = F(flags)[k]
      OBVIOUS
    <2>3. F(flags)[q] = 0 /\ F(flags \cup {q})[q] = Quests[q].exp
      BY ONLY <2>1, q \notin flags
    <2> DEFINE f == F(flags)
               g == F(flags \cup {q})
    <2>4. /\ ExpOf(flags) = Total(f) /\ f \in [1 .. 15 -> Nat]
          /\ ExpOf(flags \cup {q}) = Total(g) /\ g \in [1 .. 15 -> Nat]
      <3> HIDE DEF F
      <3> QED BY ONLY <1>1, flags \in SUBSET DOMAIN Quests, q \in DOMAIN Quests \ flags
    <2>5. /\ \A k \in 1 .. 15 : k # q => g[k] = f[k]
          /\ f[q] = 0 /\ g[q] = Quests[q].exp
      BY ONLY <2>2, <2>3
    <2> HIDE DEF f, g, F
    <2>6. Total(g) + f[q] = Total(f) + g[q] /\ Total(f) \in Nat /\ Total(g) \in Nat
      <3> DEFINE m == 15
      <3>1. /\ m \in Nat /\ q \in 1 .. m /\ f \in [1 .. m -> Nat] /\ g \in [1 .. m -> Nat]
            /\ \A k \in 1 .. m : k # q => g[k] = f[k]
        BY ONLY <2>1, <2>4, <2>5
      <3> HIDE DEF m
      <3> QED BY ONLY <3>1, TotalReplaced
    <2>7. Total(g) = Total(f) + Quests[q].exp
      BY ONLY <2>1, <2>5, <2>6
    <2> QED BY ONLY <2>4, <2>7
  <1>4. ExpOf(flags) \in Nat
    <2> HIDE DEF F
    <2> QED BY ONLY <1>1, <1>2, flags \in SUBSET DOMAIN Quests, TotalNat
  <1> QED BY ONLY <1>3, <1>4

LEMMA BackedMore ==
    ASSUME NEW list, NEW budget \in Int, NEW more \in Int, budget <= more,
           Backed(list, budget), Width \in Nat
    PROVE  Backed(list, more)
  <1>1. PICK worth \in [1 .. Width -> Nat] :
           /\ \A i \in DOMAIN list : Cost(list[i]) <= worth[list[i].at + 1]
           /\ Total(worth) <= budget
    BY DEF Backed
  <1>2. Total(worth) \in Nat
    BY ONLY worth \in [1 .. Width -> Nat], Width \in Nat, TotalNat
  <1>3. Total(worth) <= more
    BY ONLY <1>1, <1>2, budget \in Int, more \in Int, budget <= more
  <1> QED BY ONLY <1>1, <1>3 DEF Backed

\* What a quest that raises the battle rank gives.
Gift(c, q) == IF Quests[q].rankUp THEN WorthOfGifts(c.battleRank) ELSE 0

LEMMA RankedIs ==
    ASSUME NEW c \in Characters, NEW q \in DOMAIN Quests,
           Quests[q].rankUp => CanBattleRankUp(c)
    PROVE  LET d == Ranked(c, q)
           IN  /\ d \in Characters /\ Practised(c, d) /\ d.quick = c.quick
               /\ d.skill = c.skill /\ c.battleRank <= d.battleRank
               /\ c.battleRank \in Int /\ d.battleRank \in Int
               /\ Gift(c, q) \in Nat
               /\ \A budget \in Int :
                     Backed(c.skills, budget) => Backed(d.skills, budget + Gift(c, q))
  <1> DEFINE d == Ranked(c, q)
  <1>1. c.battleRank \in Int
    <2>1. BattleRanks \in Seq([needs : [Stats -> Nat],
                               gifts : Seq([id : DOMAIN Training, at : 0 .. Width - 1])])
      BY CharacterAssumption
    <2>2. DOMAIN BattleRanks \subseteq Int
      BY ONLY <2>1
    <2> QED BY ONLY <2>2, FieldsOf
  <1>2. CASE Quests[q].rankUp
    <2>1. c.battleRank + 1 \in DOMAIN BattleRanks
      BY <1>2 DEF CanBattleRankUp
    <2>2. d = BattleRankUp(c) /\ Gift(c, q) = WorthOfGifts(c.battleRank)
      BY <1>2 DEF Ranked, Gift
    <2> HIDE DEF d
    <2>3. /\ d \in Characters /\ Practised(c, d) /\ d.quick = c.quick
          /\ d.skill = c.skill /\ d.battleRank = c.battleRank + 1
          /\ Gift(c, q) \in Nat
          /\ \A budget \in Int :
                Backed(c.skills, budget) => Backed(d.skills, budget + Gift(c, q))
      BY ONLY <2>1, <2>2, c \in Characters, BattleRankUpIs
    <2>4. c.battleRank <= d.battleRank /\ d.battleRank \in Int
      BY ONLY <1>1, <2>3
    <2> QED BY ONLY <1>1, <2>3, <2>4 DEF d
  <1>3. CASE ~Quests[q].rankUp
    <2>1. d = c /\ Gift(c, q) = 0
      BY <1>3 DEF Ranked, Gift
    <2> HIDE DEF d
    <2>2. Practised(c, c)
      BY DEF Practised
    <2>3. \A budget \in Int : budget + 0 = budget
      OBVIOUS
    <2>4. c.battleRank <= c.battleRank /\ 0 \in Nat
      BY ONLY <1>1
    <2> QED BY ONLY <1>1, <2>1, <2>2, <2>3, <2>4, c \in Characters DEF d
  <1> QED BY <1>2, <1>3

LEMMA QuestFlagSetIs ==
    ASSUME NEW c \in Characters, NEW q \in DOMAIN Quests
    PROVE  LET d == QuestFlagSet(c, q)
           IN  /\ d \in Characters
               /\ d.level = c.level /\ d.exp = c.exp /\ d.stats = c.stats /\ d.points = c.points
               /\ d.battleRank = c.battleRank /\ d.skill = c.skill
               /\ d.skills = c.skills /\ d.quick = c.quick
               /\ d.quests = c.quests /\ d.count = c.count
               /\ d.flags = c.flags \cup {q} /\ d.mask = c.mask \cup {"QUESTFLAG"}
  <1> DEFINE d == QuestFlagSet(c, q)
  <1>1. d = [c EXCEPT !.flags = c.flags \cup {q}, !.mask = c.mask \cup {"QUESTFLAG"}]
    BY DEF QuestFlagSet, Marked, Characters
  <1> HIDE DEF d
  <1>2. d \in Characters
    BY <1>1 DEF Characters, Parts
  <1>3. /\ d.level = c.level /\ d.exp = c.exp /\ d.stats = c.stats /\ d.points = c.points
        /\ d.battleRank = c.battleRank /\ d.skill = c.skill
        /\ d.skills = c.skills /\ d.quick = c.quick
        /\ d.quests = c.quests /\ d.count = c.count
        /\ d.flags = c.flags \cup {q} /\ d.mask = c.mask \cup {"QUESTFLAG"}
    BY <1>1 DEF Characters
  <1> QED BY <1>2, <1>3 DEF d

\* A record of Characters with other quest slots.
WithQuests(c, quests, count) ==
    [c EXCEPT !.quests = quests, !.count = count, !.mask = c.mask \cup {"QUESTSLOT"}]

LEMMA QuestsChanged ==
    ASSUME NEW c \in Characters, NEW quests \in [QuestNo -> QuestEntries], NEW count \in Int
    PROVE  LET d == WithQuests(c, quests, count)
           IN  /\ d \in Characters
               /\ d.level = c.level /\ d.exp = c.exp /\ d.stats = c.stats /\ d.points = c.points
               /\ d.battleRank = c.battleRank /\ d.skill = c.skill
               /\ d.skills = c.skills /\ d.quick = c.quick /\ d.flags = c.flags
               /\ d.quests = quests /\ d.count = count /\ d.mask = c.mask \cup {"QUESTSLOT"}
  <1> DEFINE d == WithQuests(c, quests, count)
  <1>1. d = [c EXCEPT !.quests = quests, !.count = count, !.mask = c.mask \cup {"QUESTSLOT"}]
    BY DEF WithQuests
  <1> HIDE DEF d
  <1>2. d \in Characters
    BY <1>1 DEF Characters, Parts, QuestEntries
  <1>3. /\ d.level = c.level /\ d.exp = c.exp /\ d.stats = c.stats /\ d.points = c.points
        /\ d.battleRank = c.battleRank /\ d.skill = c.skill
        /\ d.skills = c.skills /\ d.quick = c.quick /\ d.flags = c.flags
        /\ d.quests = quests /\ d.count = count /\ d.mask = c.mask \cup {"QUESTSLOT"}
    BY <1>1 DEF Characters
  <1> QED BY <1>2, <1>3 DEF d

LEMMA QuestsOf ==
    ASSUME NEW c \in Characters
    PROVE  /\ c.quests \in [QuestNo -> QuestEntries] /\ c.count \in Int
           /\ \A i \in QuestNo : c.quests[i] \in QuestEntries
  BY FieldsOf DEF QuestEntries

LEMMA SlotRemoved ==
    ASSUME NEW c \in Characters, NEW s \in QuestNo, NEW tail \in Int
    PROVE  LET d == WithQuests(c, QuestsWithout(c, s, tail), c.count - 1)
           IN  /\ d \in Characters /\ d.count = c.count - 1
               /\ d.level = c.level /\ d.exp = c.exp /\ d.stats = c.stats /\ d.points = c.points
               /\ d.battleRank = c.battleRank /\ d.skill = c.skill
               /\ d.skills = c.skills /\ d.quick = c.quick /\ d.flags = c.flags
               /\ d.mask = c.mask \cup {"QUESTSLOT"}
               /\ c.count \in 0 .. MaxQuests /\ s < c.count
                     /\ tail \in {c.count - s - 1, c.count - s} => Without(c, d, s)
  <1> DEFINE left == QuestsWithout(c, s, tail)
             d == WithQuests(c, left, c.count - 1)
  <1>1. c.quests \in [QuestNo -> QuestEntries] /\ c.count \in Int /\ c.count - 1 \in Int
    BY QuestsOf
  <1>2. /\ left \in [QuestNo -> QuestEntries]
        /\ \A n \in 0 .. MaxQuests : s < n /\ tail \in {n - s - 1, n - s} =>
              \A i \in 0 .. n - 2 : left[i] = c.quests[IF i < s THEN i ELSE i + 1]
    BY ONLY <1>1, QuestsWithoutIs, s \in QuestNo, tail \in Int
  <1> HIDE DEF left
  <1>3. /\ d \in Characters /\ d.count = c.count - 1 /\ d.quests = left
        /\ d.level = c.level /\ d.exp = c.exp /\ d.stats = c.stats /\ d.points = c.points
        /\ d.battleRank = c.battleRank /\ d.skill = c.skill
        /\ d.skills = c.skills /\ d.quick = c.quick /\ d.flags = c.flags
        /\ d.mask = c.mask \cup {"QUESTSLOT"}
    BY ONLY <1>1, <1>2, c \in Characters, QuestsChanged, SMTT(30)
  <1> HIDE DEF d
  <1>4. ASSUME c.count \in 0 .. MaxQuests, s < c.count, tail \in {c.count - s - 1, c.count - s}
        PROVE  Without(c, d, s)
    <2>1. \A i \in 0 .. c.count - 2 : d.quests[i] = c.quests[IF i < s THEN i ELSE i + 1]
      BY ONLY <1>2, <1>3, <1>4
    <2>2. d.count - 1 = c.count - 2
      BY ONLY <1>1, <1>3
    <2> QED BY ONLY <1>3, <2>1, <2>2 DEF Without
  <1> QED BY ONLY <1>3, <1>4 DEF d, left

LEMMA QuestCancelIs ==
    ASSUME NEW c \in Characters, NEW s \in QuestNo
    PROVE  LET d == QuestCancel(c, s)
           IN  /\ d \in Characters /\ d.count = c.count - 1
               /\ d.level = c.level /\ d.exp = c.exp /\ d.stats = c.stats /\ d.points = c.points
               /\ d.battleRank = c.battleRank /\ d.skill = c.skill
               /\ d.skills = c.skills /\ d.quick = c.quick /\ d.flags = c.flags
               /\ d.mask = c.mask \cup {"QUESTSLOT"}
               /\ c.count \in 0 .. MaxQuests /\ s < c.count => Without(c, d, s)
  <1>1. QuestCancel(c, s) = WithQuests(c, QuestsWithout(c, s, c.count - s), c.count - 1)
    BY DEF QuestCancel, Marked, WithQuests, Characters
  <1>2. s \in Int /\ c.count - s \in Int
    <2>1. c.count \in Int /\ MaxQuests \in Nat
      BY QuestsOf, Sizes
    <2> QED BY ONLY <2>1, s \in QuestNo DEF QuestNo
  <1> DEFINE d == WithQuests(c, QuestsWithout(c, s, c.count - s), c.count - 1)
  <1>3. /\ d \in Characters /\ d.count = c.count - 1
        /\ d.level = c.level /\ d.exp = c.exp /\ d.stats = c.stats /\ d.points = c.points
        /\ d.battleRank = c.battleRank /\ d.skill = c.skill
        /\ d.skills = c.skills /\ d.quick = c.quick /\ d.flags = c.flags
        /\ d.mask = c.mask \cup {"QUESTSLOT"}
        /\ c.count \in 0 .. MaxQuests /\ s < c.count => Without(c, d, s)
    BY ONLY <1>2, c \in Characters, s \in QuestNo, SlotRemoved, SMTT(30)
  <1> HIDE DEF d
  <1> QED BY ONLY <1>1, <1>3 DEF d

\* The rewards of quest q, its battle rank included.
QuestRewarded(c, q) ==
    QuestFlagSet(AddHonorPoint(AddSkillExp(AddExp(Ranked(c, q),
        Quests[q].exp), Quests[q].skillExp), Quests[q].honor), q)

LEMMA QuestRewardedIs ==
    ASSUME NEW c \in Characters, NEW q \in DOMAIN Quests, c.skill.rank <= c.battleRank,
           Quests[q].rankUp => CanBattleRankUp(c)
    PROVE  LET d == QuestRewarded(c, q)
           IN  /\ d \in Characters /\ d.quick = c.quick /\ d.stats = c.stats
               /\ d.points = (c.points + IF d.level # c.level THEN 5 ELSE 0) % Width
               /\ d.skill.rank <= d.battleRank
               /\ d.exp = c.exp + Quests[q].exp
               /\ d.flags = c.flags \cup {q}
               /\ c.mask \cup {"INFO", "QUESTFLAG"} \subseteq d.mask
               /\ d.quests = c.quests /\ d.count = c.count
               /\ Gift(c, q) \in Nat
               /\ \A budget \in Int :
                     Backed(c.skills, budget) => Backed(d.skills, budget + Gift(c, q))
  <1> DEFINE r == Ranked(c, q)
             x == AddExp(r, Quests[q].exp)
             y == AddSkillExp(x, Quests[q].skillExp)
             z == AddHonorPoint(y, Quests[q].honor)
             d == QuestFlagSet(z, q)
  <1>1. Quests[q].exp \in Nat /\ Quests[q].skillExp \in Nat /\ Quests[q].honor \in Int
    BY QuestData
  <1>2. /\ r \in Characters /\ Practised(c, r) /\ r.quick = c.quick
        /\ r.skill = c.skill /\ c.battleRank <= r.battleRank
        /\ c.battleRank \in Int /\ r.battleRank \in Int
        /\ Gift(c, q) \in Nat
        /\ \A budget \in Int : Backed(c.skills, budget) => Backed(r.skills, budget + Gift(c, q))
    BY RankedIs
  <1> HIDE DEF r
  <1>3. /\ x \in Characters /\ Rewarded(r, x) /\ x.skill = r.skill /\ x.honor = r.honor
        /\ x.exp = r.exp + Quests[q].exp
        /\ x.points = (r.points + IF x.level # r.level THEN 5 ELSE 0) % Width
    BY ONLY <1>1, <1>2, AddExpIs
  <1>4. x.skill.rank <= x.battleRank
    <2>1. c.skill.rank \in Int
      <3>1. SkillRanks \in Seq([exp : Nat \ {0}, end : Nat])
        BY CharacterAssumption
      <3>2. DOMAIN SkillRanks \subseteq Int
        BY ONLY <3>1
      <3> QED BY ONLY <3>2, FieldsOf, c \in Characters
    <2>2. x.skill = c.skill /\ x.battleRank = r.battleRank
      BY ONLY <1>2, <1>3 DEF Rewarded
    <2> QED BY ONLY <1>2, <2>1, <2>2, c.skill.rank <= c.battleRank
  <1> HIDE DEF x
  <1>5. /\ y \in Characters /\ Rewarded(x, y)
        /\ y.level = x.level /\ y.exp = x.exp /\ y.points = x.points
        /\ y.skill.rank <= y.battleRank
    BY ONLY <1>1, <1>3, <1>4, AddSkillExpIs
  <1> HIDE DEF y
  <1>6. /\ z \in Characters /\ Rewarded(y, z)
        /\ z.level = y.level /\ z.exp = y.exp /\ z.points = y.points /\ z.skill = y.skill
    BY ONLY <1>1, <1>5, AddHonorPointIs
  <1> HIDE DEF z
  <1>7. /\ d \in Characters
        /\ d.level = z.level /\ d.exp = z.exp /\ d.stats = z.stats /\ d.points = z.points
        /\ d.battleRank = z.battleRank /\ d.skill = z.skill
        /\ d.skills = z.skills /\ d.quick = z.quick
        /\ d.quests = z.quests /\ d.count = z.count
        /\ d.flags = z.flags \cup {q} /\ d.mask = z.mask \cup {"QUESTFLAG"}
    BY ONLY <1>6, q \in DOMAIN Quests, QuestFlagSetIs
  <1>8. QuestRewarded(c, q) = d
    BY DEF QuestRewarded, z, y, x, r
  <1> HIDE DEF d
  <1>9. /\ d.quick = c.quick /\ d.stats = c.stats /\ d.skills = r.skills
        /\ d.level = x.level /\ d.points = x.points /\ d.exp = x.exp
        /\ d.quests = c.quests /\ d.count = c.count /\ d.flags = c.flags \cup {q}
        /\ c.level = r.level /\ c.points = r.points /\ c.exp = r.exp
    BY ONLY <1>2, <1>3, <1>5, <1>6, <1>7 DEF Rewarded, Practised
  <1>10. c.mask \cup {"INFO", "QUESTFLAG"} \subseteq d.mask
    BY ONLY <1>2, <1>3, <1>5, <1>6, <1>7 DEF Rewarded, Practised
  <1>11. d.skill.rank <= d.battleRank
    BY ONLY <1>5, <1>6, <1>7 DEF Rewarded
  <1>12. d.points = (c.points + IF d.level # c.level THEN 5 ELSE 0) % Width
         /\ d.exp = c.exp + Quests[q].exp
    BY ONLY <1>3, <1>9
  <1>13. \A budget \in Int : Backed(c.skills, budget) => Backed(d.skills, budget + Gift(c, q))
    BY ONLY <1>2, <1>9
  <1> QED BY ONLY <1>2, <1>7, <1>8, <1>9, <1>10, <1>11, <1>12, <1>13

LEMMA QuestClearIs ==
    ASSUME NEW c \in Characters, NEW q, NEW s \in QuestNo, c.skill.rank <= c.battleRank,
           CanClear(c, q, s)
    PROVE  LET d == QuestClear(c, q, s)
           IN  /\ d \in Characters /\ d.quick = c.quick /\ d.stats = c.stats
               /\ d.points = (c.points + IF d.level # c.level THEN 5 ELSE 0) % Width
               /\ d.skill.rank <= d.battleRank
               /\ d.exp = c.exp + Quests[q].exp
               /\ d.flags = c.flags \cup {q}
               /\ c.mask \cup {"INFO", "QUESTFLAG", "QUESTSLOT"} \subseteq d.mask
               /\ d.count = c.count - 1
               /\ c.count \in 0 .. MaxQuests /\ s < c.count => Without(c, d, s)
               /\ Gift(c, q) \in Nat
               /\ \A budget \in Int :
                     Backed(c.skills, budget) => Backed(d.skills, budget + Gift(c, q))
  <1> DEFINE x == QuestRewarded(c, q)
             tail == x.count - s - 1
             d == WithQuests(x, QuestsWithout(x, s, tail), x.count - 1)
  <1>1. q \in DOMAIN Quests /\ (Quests[q].rankUp => CanBattleRankUp(c))
    BY DEF CanClear
  <1>2. /\ x \in Characters /\ x.quick = c.quick /\ x.stats = c.stats
        /\ x.points = (c.points + IF x.level # c.level THEN 5 ELSE 0) % Width
        /\ x.skill.rank <= x.battleRank
        /\ x.exp = c.exp + Quests[q].exp
        /\ x.flags = c.flags \cup {q}
        /\ c.mask \cup {"INFO", "QUESTFLAG"} \subseteq x.mask
        /\ x.quests = c.quests /\ x.count = c.count
        /\ Gift(c, q) \in Nat
        /\ \A budget \in Int : Backed(c.skills, budget) => Backed(x.skills, budget + Gift(c, q))
    BY ONLY <1>1, c \in Characters, c.skill.rank <= c.battleRank, QuestRewardedIs
  <1>3. QuestClear(c, q, s) = d
    <2>1. QuestClear(c, q, s) = Marked([x EXCEPT !.quests = QuestsWithout(x, s, x.count - s - 1),
                                                 !.count = @ - 1], {"QUESTSLOT"})
      BY DEF QuestClear, QuestRewarded
    <2> HIDE DEF x
    <2> QED BY ONLY <1>2, <2>1 DEF Marked, WithQuests, Characters, d, tail
  <1> HIDE DEF x
  <1>4. tail \in Int
    <2>1. x.count \in Int /\ MaxQuests \in Nat
      BY <1>2, QuestsOf, Sizes
    <2> QED BY ONLY <2>1, s \in QuestNo DEF QuestNo
  <1>5. /\ d \in Characters /\ d.count = x.count - 1
        /\ d.level = x.level /\ d.exp = x.exp /\ d.stats = x.stats /\ d.points = x.points
        /\ d.battleRank = x.battleRank /\ d.skill = x.skill
        /\ d.skills = x.skills /\ d.quick = x.quick /\ d.flags = x.flags
        /\ d.mask = x.mask \cup {"QUESTSLOT"}
        /\ x.count \in 0 .. MaxQuests /\ s < x.count
              /\ tail \in {x.count - s - 1, x.count - s} => Without(x, d, s)
    <2> HIDE DEF tail
    <2> QED BY ONLY <1>2, <1>4, s \in QuestNo, SlotRemoved
  <1> HIDE DEF d
  <1>6. c.count \in 0 .. MaxQuests /\ s < c.count => Without(c, d, s)
    <2>1. tail \in {x.count - s - 1, x.count - s}
      OBVIOUS
    <2>2. Without(x, d, s) <=> Without(c, d, s)
      BY ONLY <1>2 DEF Without
    <2> HIDE DEF tail
    <2> QED BY ONLY <1>2, <1>5, <2>1, <2>2
  <1>7. /\ d.points = (c.points + IF d.level # c.level THEN 5 ELSE 0) % Width
        /\ d.skill.rank <= d.battleRank /\ d.quick = c.quick /\ d.stats = c.stats
        /\ d.exp = c.exp + Quests[q].exp /\ d.flags = c.flags \cup {q}
        /\ d.count = c.count - 1 /\ d.skills = x.skills
        /\ c.mask \cup {"INFO", "QUESTFLAG", "QUESTSLOT"} \subseteq d.mask
    <2> HIDE DEF tail
    <2> QED BY ONLY <1>2, <1>5
  <1>8. \A budget \in Int : Backed(c.skills, budget) => Backed(d.skills, budget + Gift(c, q))
    BY ONLY <1>2, <1>7
  <1> QED BY ONLY <1>2, <1>3, <1>5, <1>6, <1>7, <1>8

LEMMA FirstStepIs ==
    ASSUME NEW c \in Characters, NEW q \in DOMAIN Quests, NEW s \in QuestNo
    PROVE  /\ FirstStep(c, q, s) \in Int
           /\ Quests[q].begin >= 0 => HasNpc(q, FirstStep(c, q, s))
  <1> DEFINE begin == Quests[q].begin
  <1>1. Len(Quests[q].npcs) \in Nat /\ begin \in -1 .. Len(Quests[q].npcs) - 1
    BY QuestData
  <1>2. c.quests[s].step \in Int
    BY QuestsOf DEF QuestEntries
  <1> HIDE DEF begin
  <1>3. begin \in Int /\ begin + 1 \in Int
    BY ONLY <1>1
  <1>4. CASE begin < 0
    <2>1. FirstStep(c, q, s) = c.quests[s].step
      BY <1>4 DEF FirstStep, begin
    <2>2. ~(begin >= 0)
      BY ONLY <1>3, <1>4
    <2> QED BY ONLY <1>2, <2>1, <2>2 DEF begin
  <1>5. CASE ~(begin < 0)
    <2>1. HasNpc(q, begin)
      BY ONLY <1>1, <1>5 DEF HasNpc
    <2>2. CASE HasNpc(q, begin + 1)
      <3>1. FirstStep(c, q, s) = NpcAt(q, begin + 1).order
        BY <1>5, <2>2 DEF FirstStep, begin
      <3> QED BY ONLY <1>3, <2>2, <3>1, q \in DOMAIN Quests, NpcOrder
    <2>3. CASE ~HasNpc(q, begin + 1)
      <3>1. FirstStep(c, q, s) = NpcAt(q, begin).order
        BY <1>5, <2>3 DEF FirstStep, begin
      <3> QED BY ONLY <1>3, <2>1, <3>1, q \in DOMAIN Quests, NpcOrder
    <2> QED BY <2>2, <2>3
  <1> QED BY <1>4, <1>5

\* Slot s holds quest q at its first step, the others what they held.
Placed(c, d, q, s) ==
    d.quests = [c.quests EXCEPT ![s] =
                   [q |-> q, step |-> FirstStep(c, q, s), counts |-> NoCounts]]

LEMMA QuestBeginIs ==
    ASSUME NEW c \in Characters, NEW q \in DOMAIN Quests, NEW s \in QuestNo
    PROVE  LET d == QuestBegin(c, q, s)
           IN  /\ d \in Characters /\ d.count = c.count + 1
               /\ d.level = c.level /\ d.exp = c.exp /\ d.stats = c.stats /\ d.points = c.points
               /\ d.battleRank = c.battleRank /\ d.skill = c.skill
               /\ d.skills = c.skills /\ d.quick = c.quick /\ d.flags = c.flags
               /\ d.mask = c.mask \cup {"QUESTSLOT"}
               /\ Placed(c, d, q, s)
  <1> DEFINE e == [q |-> q, step |-> FirstStep(c, q, s), counts |-> NoCounts]
             other == [c.quests EXCEPT ![s] = e]
             d == WithQuests(c, other, c.count + 1)
  <1>1. c.quests \in [QuestNo -> QuestEntries] /\ c.count \in Int /\ c.count + 1 \in Int
    BY QuestsOf
  <1>2. e \in QuestEntries
    <2>1. FirstStep(c, q, s) \in Int /\ q \in Int /\ NoCounts \in KillCounts
      BY FirstStepIs, QuestData, NoQuestIs
    <2> QED BY ONLY <2>1 DEF QuestEntries
  <1>3. QuestBegin(c, q, s) = d
    BY DEF QuestBegin, Marked, WithQuests, Characters
  <1> HIDE DEF e
  <1>4. other \in [QuestNo -> QuestEntries]
    BY ONLY <1>1, <1>2
  <1> HIDE DEF other
  <1>5. /\ d \in Characters /\ d.count = c.count + 1 /\ d.quests = other
        /\ d.level = c.level /\ d.exp = c.exp /\ d.stats = c.stats /\ d.points = c.points
        /\ d.battleRank = c.battleRank /\ d.skill = c.skill
        /\ d.skills = c.skills /\ d.quick = c.quick /\ d.flags = c.flags
        /\ d.mask = c.mask \cup {"QUESTSLOT"}
    BY ONLY <1>1, <1>4, c \in Characters, QuestsChanged, SMTT(30)
  <1> HIDE DEF d
  <1>6. Placed(c, d, q, s)
    BY ONLY <1>5 DEF Placed, other, e
  <1> QED BY ONLY <1>3, <1>5, <1>6 DEF d

LEMMA BeginKeeps ==
    ASSUME NEW c \in Characters, NEW q \in DOMAIN Quests, NEW kills \in [DOMAIN Quests -> KillCounts],
           c.count \in QuestNo, q \notin Listed(c), q \notin c.flags,
           ListedOnce(c), NoneDone(c, c.flags), Counted(c, kills)
    PROVE  LET d == QuestBegin(c, q, c.count)
           IN  /\ d.count \in 0 .. MaxQuests
               /\ ListedOnce(d) /\ NoneDone(d, d.flags)
               /\ Counted(d, [kills EXCEPT ![q] = NoCounts])
  <1> DEFINE n == c.count
             d == QuestBegin(c, q, n)
             step == FirstStep(c, q, n)
             after == [kills EXCEPT ![q] = NoCounts]
  <1>1. /\ d \in Characters /\ d.count = n + 1 /\ d.flags = c.flags
        /\ d.quests = [c.quests EXCEPT ![n] = [q |-> q, step |-> step, counts |-> NoCounts]]
        /\ (Quests[q].begin >= 0 => HasNpc(q, step))
    <2>1. n \in QuestNo
      OBVIOUS
    <2>2. d.count = n + 1
      <3>1. d.count = c.count + 1
        <4> HIDE DEF n
        <4> QED BY ONLY <2>1, c \in Characters, q \in DOMAIN Quests, QuestBeginIs
      <3> HIDE DEF d
      <3> QED BY <3>1
    <2> HIDE DEF n
    <2>3. d \in Characters
      BY ONLY <2>1, c \in Characters, q \in DOMAIN Quests, QuestBeginIs
    <2>6. d.flags = c.flags
      BY ONLY <2>1, c \in Characters, q \in DOMAIN Quests, QuestBeginIs
    <2>4. d.quests = [c.quests EXCEPT ![n] = [q |-> q, step |-> step, counts |-> NoCounts]]
      <3>1. Placed(c, d, q, n)
        BY ONLY <2>1, c \in Characters, q \in DOMAIN Quests, QuestBeginIs
      <3> QED BY ONLY <3>1 DEF Placed
    <2>5. Quests[q].begin >= 0 => HasNpc(q, step)
      BY ONLY <2>1, c \in Characters, q \in DOMAIN Quests, FirstStepIs
    <2> QED BY ONLY <2>2, <2>3, <2>4, <2>5, <2>6
  <1>2. n \in Nat /\ n < MaxQuests /\ MaxQuests \in Nat /\ n \in QuestNo
        /\ \A i \in 0 .. n - 1 : i \in QuestNo
    BY Sizes DEF QuestNo
  <1>3. c.quests \in [QuestNo -> QuestEntries]
    BY QuestsOf
  <1> HIDE DEF d, step
  <1>4. /\ d.quests[n].q = q /\ d.quests[n].step = step /\ d.quests[n].counts = NoCounts
        /\ \A i \in 0 .. n - 1 : d.quests[i] = c.quests[i]
    BY ONLY <1>1, <1>2, <1>3
  <1>5. \A i \in 0 .. n - 1 : c.quests[i].q # q
    BY DEF Listed
  <1> HIDE DEF n
  <1>6. d.count \in 0 .. MaxQuests /\ \A i \in 0 .. d.count - 1 : i \in 0 .. n - 1 \/ i = n
    BY ONLY <1>1, <1>2
  <1>7. ListedOnce(d)
    <2>1. \A i \in 0 .. n - 1 :
             /\ c.quests[i].q \in DOMAIN Quests
             /\ Quests[c.quests[i].q].begin >= 0 => HasNpc(c.quests[i].q, c.quests[i].step)
             /\ \A j \in 0 .. i - 1 : c.quests[j].q # c.quests[i].q
      BY ONLY ListedOnce(c) DEF ListedOnce, n
    <2>2. ASSUME NEW i \in 0 .. n - 1
          PROVE  /\ d.quests[i].q \in DOMAIN Quests
                 /\ Quests[d.quests[i].q].begin >= 0 => HasNpc(d.quests[i].q, d.quests[i].step)
                 /\ \A j \in 0 .. i - 1 : d.quests[j].q # d.quests[i].q
      <3>1. \A j \in 0 .. i - 1 : j \in 0 .. n - 1
        BY ONLY <1>2, i \in 0 .. n - 1
      <3> QED BY ONLY <1>4, <2>1, <3>1, i \in 0 .. n - 1
    <2>3. /\ d.quests[n].q \in DOMAIN Quests
          /\ Quests[d.quests[n].q].begin >= 0 => HasNpc(d.quests[n].q, d.quests[n].step)
          /\ \A j \in 0 .. n - 1 : d.quests[j].q # d.quests[n].q
      BY ONLY <1>1, <1>4, <1>5, q \in DOMAIN Quests
    <2>4. ASSUME NEW i \in 0 .. d.count - 1
          PROVE  /\ d.quests[i].q \in DOMAIN Quests
                 /\ Quests[d.quests[i].q].begin >= 0 => HasNpc(d.quests[i].q, d.quests[i].step)
                 /\ \A j \in 0 .. i - 1 : d.quests[j].q # d.quests[i].q
      <3>1. CASE i \in 0 .. n - 1
        BY ONLY <2>2, <3>1
      <3>2. CASE i = n
        BY ONLY <2>3, <3>2
      <3> QED BY ONLY <1>6, <3>1, <3>2, i \in 0 .. d.count - 1
    <2> QED BY ONLY <2>4 DEF ListedOnce
  <1>8. NoneDone(d, d.flags)
    <2>1. \A i \in 0 .. n - 1 : c.quests[i].q \notin c.flags
      BY ONLY NoneDone(c, c.flags) DEF NoneDone, n
    <2>2. \A i \in 0 .. d.count - 1 : d.quests[i].q \notin c.flags
      BY ONLY <1>4, <1>6, <2>1, q \notin c.flags
    <2> QED BY ONLY <1>1, <2>2 DEF NoneDone
  <1>9. Counted(d, after)
    <2>1. \A i \in 0 .. n - 1 : \A k \in 1 .. MaxCounters :
             c.quests[i].counts[k] <= kills[c.quests[i].q][k]
      BY ONLY Counted(c, kills) DEF Counted, n
    <2>2. \A i \in 0 .. n - 1 : c.quests[i].q \in DOMAIN Quests
      BY ONLY ListedOnce(c) DEF ListedOnce, n
    <2>3. after[q] = NoCounts /\ \A p \in DOMAIN Quests : p # q => after[p] = kills[p]
      BY ONLY kills \in [DOMAIN Quests -> KillCounts], q \in DOMAIN Quests
    <2> HIDE DEF after
    <2>4. ASSUME NEW i \in 0 .. d.count - 1, NEW k \in 1 .. MaxCounters
          PROVE  d.quests[i].counts[k] <= after[d.quests[i].q][k]
      <3>1. CASE i \in 0 .. n - 1
        <4>1. after[d.quests[i].q] = kills[c.quests[i].q] /\ d.quests[i] = c.quests[i]
          BY ONLY <1>4, <1>5, <2>2, <2>3, <3>1
        <4> QED BY ONLY <2>1, <3>1, <4>1, k \in 1 .. MaxCounters
      <3>2. CASE i = n
        <4>1. NoCounts[k] = 0 /\ d.quests[i].counts = NoCounts /\ after[d.quests[i].q] = NoCounts
          BY <1>4, <2>3, <3>2, NoQuestIs
        <4> QED BY ONLY <4>1
      <3> QED BY ONLY <1>6, <3>1, <3>2, i \in 0 .. d.count - 1
    <2> QED BY ONLY <2>4 DEF Counted
  <1> QED BY ONLY <1>6, <1>7, <1>8, <1>9 DEF d, n

\* What actions at NPCs and kills leave alone: all but steps and counters.
Pursued(c, d) ==
    /\ d.level = c.level /\ d.exp = c.exp /\ d.stats = c.stats /\ d.points = c.points
    /\ d.battleRank = c.battleRank /\ d.skill = c.skill
    /\ d.skills = c.skills /\ d.quick = c.quick /\ d.flags = c.flags
    /\ d.count = c.count /\ c.mask \subseteq d.mask
    /\ \A i \in QuestNo : /\ d.quests[i].q = c.quests[i].q
                          /\ d.quests[i].step = c.quests[i].step
                                \/ HasNpc(c.quests[i].q, d.quests[i].step)

\* No counter has changed.
Recounted(c, d) == \A i \in QuestNo : d.quests[i].counts = c.quests[i].counts

LEMMA PursuedKeeps ==
    ASSUME NEW c \in Characters, NEW d, c.count \in 0 .. MaxQuests, Pursued(c, d)
    PROVE  /\ ListedOnce(c) => ListedOnce(d)
           /\ NoneDone(c, c.flags) => NoneDone(d, d.flags)
           /\ \A kills : Recounted(c, d) /\ Counted(c, kills) => Counted(d, kills)
  <1>1. /\ \A i \in 0 .. c.count - 1 : i \in QuestNo
        /\ \A i \in 0 .. c.count - 1 : \A j \in 0 .. i - 1 : j \in QuestNo
    <2>1. MaxQuests \in Nat
      BY Sizes
    <2> QED BY ONLY <2>1, c.count \in 0 .. MaxQuests DEF QuestNo
  <1>2. /\ d.count = c.count /\ d.flags = c.flags
        /\ \A i \in QuestNo : /\ d.quests[i].q = c.quests[i].q
                              /\ d.quests[i].step = c.quests[i].step
                                    \/ HasNpc(c.quests[i].q, d.quests[i].step)
    BY DEF Pursued
  <1>3. ASSUME ListedOnce(c) PROVE ListedOnce(d)
    BY ONLY <1>1, <1>2, <1>3 DEF ListedOnce
  <1>4. ASSUME NoneDone(c, c.flags) PROVE NoneDone(d, d.flags)
    BY ONLY <1>1, <1>2, <1>4 DEF NoneDone
  <1>5. ASSUME NEW kills, Recounted(c, d), Counted(c, kills) PROVE Counted(d, kills)
    BY ONLY <1>1, <1>2, <1>5 DEF Counted, Recounted
  <1> QED BY ONLY <1>3, <1>4, <1>5

LEMMA PursuedOn ==
    ASSUME NEW c, NEW d, NEW e, Pursued(c, d), Pursued(d, e)
    PROVE  Pursued(c, e)
  BY DEF Pursued

LEMMA QuestActionIs ==
    ASSUME NEW c \in Characters, NEW q, NEW s \in QuestNo, NEW a \in Int, NEW dungeon,
           CanAct(c, q, s, a, dungeon)
    PROVE  LET d == QuestAction(c, q, s, a)
           IN  d \in Characters /\ Pursued(c, d) /\ Recounted(c, d)
  <1> DEFINE order == NpcAt(q, a + 1).order
             other == IF HasNpc(q, a + 1) THEN [c.quests EXCEPT ![s].step = order]
                      ELSE c.quests
             d == WithQuests(c, other, c.count)
  <1>1. q \in DOMAIN Quests /\ c.quests[s].q = q
    BY DEF CanAct
  <1>2. c.quests \in [QuestNo -> QuestEntries] /\ c.count \in Int
    BY QuestsOf
  <1>3. HasNpc(q, a + 1) => order \in Int /\ HasNpc(q, order)
    BY <1>1, NpcOrder
  <1>4. QuestAction(c, q, s, a) = d
    BY DEF QuestAction, Marked, WithQuests, Characters
  <1> HIDE DEF order
  <1>5. /\ other \in [QuestNo -> QuestEntries]
        /\ \A i \in QuestNo : /\ other[i].q = c.quests[i].q /\ other[i].counts = c.quests[i].counts
                              /\ other[i].step = c.quests[i].step \/ HasNpc(c.quests[i].q, other[i].step)
    <2>1. CASE HasNpc(q, a + 1)
      <3>0. other = [c.quests EXCEPT ![s].step = order]
        BY <2>1
      <3> HIDE DEF other
      <3>1. /\ other \in [QuestNo -> QuestEntries] /\ other[s].step = order
            /\ other[s].q = c.quests[s].q /\ other[s].counts = c.quests[s].counts
            /\ \A i \in QuestNo : i # s => other[i] = c.quests[i]
        BY ONLY <1>2, <1>3, <2>1, <3>0, s \in QuestNo DEF QuestEntries
      <3>2. HasNpc(c.quests[s].q, other[s].step)
        BY ONLY <1>1, <1>3, <2>1, <3>1
      <3> QED BY ONLY <3>1, <3>2, s \in QuestNo
    <2>2. CASE ~HasNpc(q, a + 1)
      <3>1. other = c.quests
        BY <2>2
      <3> QED BY ONLY <1>2, <3>1
    <2> QED BY ONLY <2>1, <2>2
  <1> HIDE DEF other
  <1>6. /\ d \in Characters /\ d.quests = other /\ d.count = c.count
        /\ d.level = c.level /\ d.exp = c.exp /\ d.stats = c.stats /\ d.points = c.points
        /\ d.battleRank = c.battleRank /\ d.skill = c.skill
        /\ d.skills = c.skills /\ d.quick = c.quick /\ d.flags = c.flags
        /\ d.mask = c.mask \cup {"QUESTSLOT"}
    BY ONLY <1>2, <1>5, c \in Characters, QuestsChanged
  <1> HIDE DEF d
  <1>7. Pursued(c, d)
    <2>1. c.mask \subseteq d.mask
      BY ONLY <1>6
    <2> QED BY ONLY <1>5, <1>6, <2>1 DEF Pursued
  <1>8. Recounted(c, d)
    BY ONLY <1>5, <1>6 DEF Recounted
  <1> QED BY ONLY <1>4, <1>6, <1>7, <1>8

\* The record after the actions of one message, and what they have changed of it.
ActedOn(c, q, s, acts, dungeon) ==
    LET done[i \in 0 .. Len(acts)] ==
            IF i = 0 THEN [c |-> c, ok |-> TRUE]
            ELSE ActOne(done[i - 1], q, s, acts[i], dungeon)
    IN  done[Len(acts)].c

LEMMA ActsDone ==
    ASSUME NEW c \in Characters, NEW q, NEW s \in QuestNo, NEW acts \in Seq(Int),
           NEW dungeon \in BOOLEAN
    PROVE  LET d == ActedOn(c, q, s, acts, dungeon)
           IN  d \in Characters /\ Pursued(c, d) /\ Recounted(c, d)
  <1> DEFINE n == Len(acts)
             T == [c : Characters, ok : BOOLEAN]
             start == [c |-> c, ok |-> TRUE]
             Same(b) == Pursued(c, b.c) /\ Recounted(c, b.c)
             Good == [i \in 0 .. n |-> {b \in T : Same(b)}]
             Runs(g) == g = [i \in 0 .. n |->
                                IF i = 0 THEN start
                                ELSE ActOne(g[i - 1], q, s, acts[i], dungeon)]
             all == CHOOSE g : Runs(g)
             G == [x \in (1 .. n) \X T |-> ActOne(x[2], q, s, acts[x[1]], dungeon)]
  <1>a. n \in Nat /\ \A i \in 1 .. n : acts[i] \in Int
    OBVIOUS
  <1> HIDE DEF n
  <1>0. n \in Nat /\ Good \in [0 .. n -> SUBSET T]
    BY <1>a
  <1>1. start \in Good[0]
    <2>1. start \in T
      OBVIOUS
    <2>2. Same(start)
      BY DEF Pursued, Recounted
    <2>3. 0 \in 0 .. n
      BY ONLY <1>0
    <2> HIDE DEF Same, T, start
    <2> QED BY ONLY <2>1, <2>2, <2>3
  <1>2. ASSUME NEW i \in 1 .. n, NEW b \in Good[i - 1]
        PROVE  ActOne(b, q, s, acts[i], dungeon) \in Good[i]
    <2> DEFINE x == ActOne(b, q, s, acts[i], dungeon)
               a == acts[i]
    <2>0. i - 1 \in 0 .. n /\ i \in 0 .. n /\ a \in Int
      BY ONLY <1>0, <1>a, i \in 1 .. n
    <2>1. b \in T /\ Same(b)
      <3> HIDE DEF Same, T
      <3> QED BY ONLY <2>0, b \in Good[i - 1]
    <2> HIDE DEF a
    <2>2. CASE CanAct(b.c, q, s, a, dungeon)
      <3> DEFINE e == QuestAction(b.c, q, s, a)
      <3>1. x = [b EXCEPT !.c = e]
        BY <2>2 DEF ActOne, a
      <3>2. b.c \in Characters
        BY ONLY <2>1
      <3>3. e \in Characters /\ Pursued(b.c, e) /\ Recounted(b.c, e)
        BY ONLY <2>0, <2>2, <3>2, s \in QuestNo, QuestActionIs
      <3> HIDE DEF e, x
      <3>4. x \in T /\ x.c = e
        BY ONLY <2>1, <3>1, <3>3
      <3>5. Pursued(c, e)
        BY ONLY <2>1, <3>3, PursuedOn
      <3>6. Recounted(c, e)
        BY ONLY <2>1, <3>3 DEF Recounted
      <3>7. Same(x)
        BY ONLY <3>4, <3>5, <3>6
      <3> HIDE DEF Same, T
      <3>8. x \in Good[i]
        BY ONLY <2>0, <3>4, <3>7
      <3> QED BY ONLY <3>8 DEF x
    <2>3. CASE ~CanAct(b.c, q, s, a, dungeon)
      <3>1. x = [b EXCEPT !.ok = FALSE]
        BY <2>3 DEF ActOne, a
      <3> HIDE DEF x
      <3>2. x \in T /\ x.c = b.c
        BY ONLY <2>1, <3>1
      <3>3. Same(x)
        BY ONLY <2>1, <3>2
      <3> HIDE DEF Same, T
      <3>4. x \in Good[i]
        BY ONLY <2>0, <3>2, <3>3
      <3> QED BY ONLY <3>4 DEF x
    <2> QED BY ONLY <2>2, <2>3 DEF x
  <1>3. Leads(G, n, Good, T, start)
    <2>1. \A i \in 1 .. n : \A b \in Good[i - 1] : G[<<i, b>>] = ActOne(b, q, s, acts[i], dungeon)
      BY <1>0
    <2> HIDE DEF G, Good, T, start
    <2> QED BY <1>0, <1>1, <1>2, <2>1 DEF Leads
  <1>4. \E g : Runs(g)
    <2>1. PICK g \in [0 .. n -> T] :
              /\ g[0] = start
              /\ \A i \in 1 .. n : g[i - 1] \in Good[i - 1] /\ g[i] = G[<<i, g[i - 1]>>]
      <3> HIDE DEF G, Good, T, start
      <3> QED BY ONLY <1>3, RunExists
    <2>2. \A i \in 1 .. n : \A b \in T : G[<<i, b>>] = ActOne(b, q, s, acts[i], dungeon)
      OBVIOUS
    <2>3. \A i \in 1 .. n : g[i - 1] \in T
      <3> HIDE DEF G, Good, T, start
      <3>1. \A i \in 1 .. n : i - 1 \in 0 .. n
        BY ONLY <1>0
      <3> QED BY ONLY <2>1, <3>1
    <2>4. g = [i \in 0 .. n |-> IF i = 0 THEN start ELSE ActOne(g[i - 1], q, s, acts[i], dungeon)]
      <3> HIDE DEF G, Good, T, start
      <3>1. g = [i \in 0 .. n |-> g[i]]
        BY ONLY <2>1
      <3>2. \A i \in 0 .. n : i # 0 => i \in 1 .. n
        BY ONLY <1>0
      <3>3. \A i \in 0 .. n : g[i] = IF i = 0 THEN start ELSE ActOne(g[i - 1], q, s, acts[i], dungeon)
        BY ONLY <2>1, <2>2, <2>3, <3>2
      <3> QED BY ONLY <3>1, <3>3
    <2> QED BY <2>4
  <1>5. Runs(all)
    <2> HIDE DEF Runs
    <2> QED BY <1>4
  <1> HIDE DEF all
  <1>6. all[0] = start /\ \A i \in 1 .. n : all[i] = ActOne(all[i - 1], q, s, acts[i], dungeon)
    <2> HIDE DEF start
    <2> DEFINE R == [i \in 0 .. n |-> IF i = 0 THEN start ELSE ActOne(all[i - 1], q, s, acts[i], dungeon)]
    <2>1. all = R
      BY <1>5
    <2>2. \A i \in 0 .. n : R[i] = IF i = 0 THEN start ELSE ActOne(all[i - 1], q, s, acts[i], dungeon)
      OBVIOUS
    <2> HIDE DEF R
    <2>3. 0 \in 0 .. n /\ \A i \in 1 .. n : i \in 0 .. n /\ i # 0
      BY ONLY <1>0
    <2> QED BY ONLY <2>1, <2>2, <2>3
  <1>7. \A i \in 0 .. n : all[i] \in Good[i]
    <2> HIDE DEF Good, T, start, Runs
    <2>1. all[0] \in Good[0]
      BY ONLY <1>1, <1>6
    <2>2. \A i \in 1 .. n : all[i - 1] \in Good[i - 1] => all[i] \in Good[i]
      BY ONLY <1>2, <1>6
    <2>3. n \in Nat
      BY <1>0
    <2> QED BY ONLY <2>1, <2>2, <2>3, RunStays
  <1>8. all[n] \in Good[n] /\ n \in 0 .. n
    BY ONLY <1>0, <1>7
  <1>9. all[n] \in T /\ Same(all[n])
    <2> HIDE DEF Same, T
    <2> QED BY ONLY <1>8
  <1>10. all[n].c \in Characters
    BY ONLY <1>9
  <1>11. ActedOn(c, q, s, acts, dungeon) = all[n].c
    BY DEF ActedOn, all, n
  <1> QED BY ONLY <1>9, <1>10, <1>11

\* One more kill of this species.
OneMore(kills, species) ==
    [q \in DOMAIN Quests |-> [k \in 1 .. MaxCounters |->
        IF k \in DOMAIN Quests[q].mobs /\ Quests[q].mobs[k].species = species
        THEN Min({MaxKills, kills[q][k] + 1}) ELSE kills[q][k]]]

LEMMA OneMoreIs ==
    ASSUME NEW kills \in [DOMAIN Quests -> KillCounts], NEW species
    PROVE  /\ OneMore(kills, species) \in [DOMAIN Quests -> KillCounts]
           /\ \A q \in DOMAIN Quests : \A k \in 1 .. MaxCounters :
                 /\ kills[q][k] \in 0 .. MaxKills
                 /\ kills[q][k] <= OneMore(kills, species)[q][k]
                 /\ k \in DOMAIN Quests[q].mobs /\ Quests[q].mobs[k].species = species =>
                       \A n \in Int : n <= MaxKills /\ n <= kills[q][k] + 1
                                         => n <= OneMore(kills, species)[q][k]
  <1> DEFINE more == OneMore(kills, species)
             Next1(q, k) == Min({MaxKills, kills[q][k] + 1})
             Seen(q, k) == k \in DOMAIN Quests[q].mobs /\ Quests[q].mobs[k].species = species
  <1>1. \A q \in DOMAIN Quests : \A k \in 1 .. MaxCounters : kills[q][k] \in 0 .. MaxKills
    BY DEF KillCounts
  <1>2. MaxKills \in Nat
    BY Sizes
  <1>3. ASSUME NEW q \in DOMAIN Quests, NEW k \in 1 .. MaxCounters
        PROVE  /\ Next1(q, k) \in 0 .. MaxKills /\ kills[q][k] <= Next1(q, k)
               /\ \A n \in Int : n <= MaxKills /\ n <= kills[q][k] + 1 => n <= Next1(q, k)
    <2> DEFINE x == kills[q][k]
    <2>1. x \in 0 .. MaxKills /\ x + 1 \in Int /\ MaxKills \in Int
      BY ONLY <1>1, <1>2, q \in DOMAIN Quests, k \in 1 .. MaxCounters
    <2>2. Next1(q, k) = IF MaxKills <= x + 1 THEN MaxKills ELSE x + 1
      <3> HIDE DEF x
      <3>1. Min({MaxKills, x + 1}) = IF MaxKills <= x + 1 THEN MaxKills ELSE x + 1
        BY ONLY <2>1, MinOfTwo
      <3> QED BY ONLY <3>1 DEF x
    <2> HIDE DEF x, Next1
    <2>3. /\ Next1(q, k) \in 0 .. MaxKills /\ x <= Next1(q, k)
          /\ \A n \in Int : n <= MaxKills /\ n <= x + 1 => n <= Next1(q, k)
      BY ONLY <1>2, <2>1, <2>2
    <2> QED BY ONLY <2>3 DEF x
  <1> HIDE DEF Next1
  <1>4. more = [q \in DOMAIN Quests |-> [k \in 1 .. MaxCounters |->
                   IF Seen(q, k) THEN Next1(q, k) ELSE kills[q][k]]]
    BY DEF OneMore, Next1
  <1> HIDE DEF more, Seen
  <1>5. \A q \in DOMAIN Quests : \A k \in 1 .. MaxCounters :
           more[q][k] = IF Seen(q, k) THEN Next1(q, k) ELSE kills[q][k]
    BY ONLY <1>4
  <1>6. more \in [DOMAIN Quests -> KillCounts]
    BY ONLY <1>1, <1>3, <1>4 DEF KillCounts
  <1>7. \A q \in DOMAIN Quests : \A k \in 1 .. MaxCounters :
           /\ kills[q][k] <= more[q][k]
           /\ Seen(q, k) =>
                 \A n \in Int : n <= MaxKills /\ n <= kills[q][k] + 1 => n <= more[q][k]
    <2> TAKE q \in DOMAIN Quests
    <2> TAKE k \in 1 .. MaxCounters
    <2>1. kills[q][k] \in Int
      BY ONLY <1>1, <1>2
    <2>2. CASE Seen(q, k)
      BY ONLY <1>3, <1>5, <2>2
    <2>3. CASE ~Seen(q, k)
      BY ONLY <1>5, <2>1, <2>3
    <2> QED BY ONLY <2>2, <2>3
  <1> QED BY ONLY <1>1, <1>6, <1>7 DEF more, Seen

\* Counters of quest slots never leave their range, and never get ahead of the kills.
LEMMA MobCounted ==
    ASSUME NEW c \in Characters, NEW species, c.count \in 0 .. MaxQuests
    PROVE  LET d == IncrementQuestMobCounter(c, species)
           IN  /\ d \in Characters /\ Pursued(c, d)
               /\ \A kills \in [DOMAIN Quests -> KillCounts] :
                     ListedOnce(c) /\ Counted(c, kills) => Counted(d, OneMore(kills, species))
  <1> DEFINE hit == {i \in 0 .. c.count - 1 :
                        /\ Wanted(c.quests[i], species) # {}
                        /\ \A j \in 0 .. i - 1 : c.quests[j].q \in DOMAIN Quests}
             s == Min(hit)
             e == c.quests[s]
             k == Min(Wanted(e, species))
             need == Quests[e.q].mobs[k].need
             m == Min({need, e.counts[k] + 1})
             d == IncrementQuestMobCounter(c, species)
  <1>1. /\ c.quests \in [QuestNo -> QuestEntries] /\ c.count \in Nat
        /\ \A i \in 0 .. c.count - 1 : i \in QuestNo /\ i \in Nat
    <2>1. MaxQuests \in Nat
      BY Sizes
    <2>2. \A i \in 0 .. c.count - 1 : i \in QuestNo
      BY ONLY <2>1, c.count \in 0 .. MaxQuests DEF QuestNo
    <2> QED BY <2>2, QuestsOf
  <1>2. ASSUME NEW kills \in [DOMAIN Quests -> KillCounts], ListedOnce(c), Counted(c, kills),
               NEW x, SameQuests(c, x),
               \A i \in 0 .. c.count - 1 : \A n \in 1 .. MaxCounters :
                  \/ x.quests[i].counts[n] = c.quests[i].counts[n]
                  \/ /\ n \in DOMAIN Quests[c.quests[i].q].mobs
                     /\ Quests[c.quests[i].q].mobs[n].species = species
                     /\ x.quests[i].counts[n] \in Int /\ x.quests[i].counts[n] <= MaxKills
                     /\ x.quests[i].counts[n] <= c.quests[i].counts[n] + 1
        PROVE  Counted(x, OneMore(kills, species))
    <2> DEFINE more == OneMore(kills, species)
    <2>1. \A i \in 0 .. c.count - 1 : c.quests[i].q \in DOMAIN Quests
      BY ONLY <1>2 DEF ListedOnce
    <2>2. \A i \in 0 .. c.count - 1 : \A n \in 1 .. MaxCounters : c.quests[i].counts[n] \in Int
      <3>1. MaxKills \in Nat
        BY Sizes
      <3>2. ASSUME NEW i \in 0 .. c.count - 1, NEW n \in 1 .. MaxCounters
            PROVE  c.quests[i].counts[n] \in Int
        <4>1. c.quests[i] \in QuestEntries
          BY ONLY <1>1, i \in 0 .. c.count - 1
        <4>2. c.quests[i].counts \in KillCounts
          BY ONLY <4>1 DEF QuestEntries
        <4>3. c.quests[i].counts[n] \in 0 .. MaxKills
          BY ONLY <4>2, n \in 1 .. MaxCounters DEF KillCounts
        <4> DEFINE v == c.quests[i].counts[n]
        <4> HIDE DEF v
        <4>4. v \in 0 .. MaxKills
          BY ONLY <4>3 DEF v
        <4>5. v \in Int
          BY ONLY <3>1, <4>4
        <4> QED BY ONLY <4>5 DEF v
      <3> QED BY ONLY <3>2
    <2>3. \A q \in DOMAIN Quests : \A n \in 1 .. MaxCounters :
             /\ kills[q][n] \in Int /\ kills[q][n] <= more[q][n] /\ more[q][n] \in Int
             /\ n \in DOMAIN Quests[q].mobs /\ Quests[q].mobs[n].species = species =>
                   \A v \in Int : v <= MaxKills /\ v <= kills[q][n] + 1 => v <= more[q][n]
      <3>1. MaxKills \in Nat /\ kills \in [DOMAIN Quests -> KillCounts]
        BY Sizes
      <3>2. more \in [DOMAIN Quests -> KillCounts]
        BY ONLY OneMoreIs, <3>1
      <3>3. \A q \in DOMAIN Quests : \A n \in 1 .. MaxCounters :
               /\ kills[q][n] <= more[q][n]
               /\ n \in DOMAIN Quests[q].mobs /\ Quests[q].mobs[n].species = species =>
                     \A v \in Int : v <= MaxKills /\ v <= kills[q][n] + 1 => v <= more[q][n]
        BY ONLY OneMoreIs, <3>1
      <3> HIDE DEF more
      <3>4. \A q \in DOMAIN Quests : \A n \in 1 .. MaxCounters :
               kills[q][n] \in Int /\ more[q][n] \in Int
        <4> TAKE q \in DOMAIN Quests
        <4> TAKE n \in 1 .. MaxCounters
        <4>1. kills[q] \in KillCounts /\ more[q] \in KillCounts
          BY ONLY <3>1, <3>2, q \in DOMAIN Quests
        <4>2. kills[q][n] \in 0 .. MaxKills /\ more[q][n] \in 0 .. MaxKills
          BY ONLY <4>1, n \in 1 .. MaxCounters DEF KillCounts
        <4> QED BY ONLY <3>1, <4>2
      <3> QED BY ONLY <3>3, <3>4
    <2> HIDE DEF more
    <2>4. ASSUME NEW i \in 0 .. c.count - 1, NEW n \in 1 .. MaxCounters
          PROVE  x.quests[i].counts[n] <= more[c.quests[i].q][n]
      <3> DEFINE q == c.quests[i].q
                 v == x.quests[i].counts[n]
                 w == c.quests[i].counts[n]
                 a == kills[q][n]
                 b == more[q][n]
      <3>1. q \in DOMAIN Quests /\ w \in Int
        BY ONLY <2>1, <2>2, i \in 0 .. c.count - 1, n \in 1 .. MaxCounters
      <3>2. w <= a
        BY ONLY <1>2, i \in 0 .. c.count - 1, n \in 1 .. MaxCounters DEF Counted
      <3>3. v = w \/ (/\ n \in DOMAIN Quests[q].mobs /\ Quests[q].mobs[n].species = species
                      /\ v \in Int /\ v <= MaxKills /\ v <= w + 1)
        BY ONLY <1>2, i \in 0 .. c.count - 1, n \in 1 .. MaxCounters
      <3> HIDE DEF v, w, q
      <3>4. /\ a \in Int /\ a <= b /\ b \in Int
            /\ n \in DOMAIN Quests[q].mobs /\ Quests[q].mobs[n].species = species =>
                  \A u \in Int : u <= MaxKills /\ u <= a + 1 => u <= b
        BY ONLY <2>3, <3>1, n \in 1 .. MaxCounters
      <3> HIDE DEF a, b
      <3>5. v <= b
        BY ONLY <3>1, <3>2, <3>3, <3>4
      <3> QED BY ONLY <3>5 DEF v, b, q
    <2>5. x.count = c.count /\ \A i \in 0 .. c.count - 1 : x.quests[i].q = c.quests[i].q
      BY ONLY <1>2 DEF SameQuests
    <2> QED BY ONLY <2>4, <2>5 DEF Counted, more
  <1>3. CASE hit # {}
    <2>1. s \in hit
      <3>1. hit \in SUBSET Nat
        BY ONLY <1>1
      <3> HIDE DEF hit
      <3> QED BY ONLY <1>3, <3>1, MinIs
    <2>2. s \in 0 .. c.count - 1 /\ s \in QuestNo /\ Wanted(e, species) # {}
      <3> HIDE DEF s
      <3> QED BY ONLY <1>1, <2>1
    <2>3. d = [c EXCEPT !.quests[s].counts[k] = m]
      <3>1. d = [c EXCEPT !.quests[s].counts[k] = Min({need, @ + 1})]
        BY <1>3 DEF IncrementQuestMobCounter
      <3> QED BY ONLY <1>1, <2>2, <3>1, c \in Characters DEF Characters
    <2> HIDE DEF s, hit
    <2>4. e \in QuestEntries
      BY ONLY <1>1, <2>2
    <2>5. e.q \in DOMAIN Quests /\ k \in DOMAIN Quests[e.q].mobs
          /\ Quests[e.q].mobs[k].species = species
      <3>1. e.q \in DOMAIN Quests
        BY ONLY <2>2 DEF Wanted
      <3>2. DOMAIN Quests[e.q].mobs \subseteq 1 .. MaxCounters /\ MaxCounters \in Nat
        BY <3>1, QuestData, Sizes
      <3> HIDE DEF e
      <3>3. Wanted(e, species) = {n \in DOMAIN Quests[e.q].mobs : Quests[e.q].mobs[n].species = species}
        BY ONLY <3>1 DEF Wanted
      <3>4. Wanted(e, species) \in SUBSET Nat
        BY ONLY <3>2, <3>3
      <3>5. k \in Wanted(e, species)
        BY ONLY <2>2, <3>4, MinIs
      <3> HIDE DEF k
      <3> QED BY ONLY <3>1, <3>3, <3>5
    <2>6. k \in 1 .. MaxCounters /\ need \in Nat /\ need <= MaxKills
      <3> HIDE DEF e, k
      <3> QED BY ONLY <2>5, QuestData
    <2> HIDE DEF need, k
    <2>7. m \in 0 .. MaxKills /\ m <= e.counts[k] + 1
      <3> DEFINE v == e.counts[k] + 1
      <3>1. v \in Nat /\ MaxKills \in Nat
        <4>1. e.counts \in KillCounts
          BY ONLY <2>4 DEF QuestEntries
        <4>2. e.counts[k] \in 0 .. MaxKills
          BY ONLY <2>6, <4>1 DEF KillCounts
        <4>3. MaxKills \in Nat
          BY Sizes
        <4> QED BY ONLY <4>2, <4>3
      <3> HIDE DEF v
      <3>2. need \in Int /\ v \in Int
        BY ONLY <2>6, <3>1
      <3>3. Min({need, v}) = IF need <= v THEN need ELSE v
        BY ONLY <3>2, MinOfTwo
      <3>4. Min({need, v}) \in 0 .. MaxKills /\ Min({need, v}) <= v
        BY ONLY <2>6, <3>1, <3>3
      <3> QED BY ONLY <3>4 DEF v
    <2> HIDE DEF m
    <2> DEFINE f == [e EXCEPT !.counts = [e.counts EXCEPT ![k] = m]]
               other == [c.quests EXCEPT ![s] = f]
    <2>8. d = [c EXCEPT !.quests = other]
      BY ONLY <1>1, <2>2, <2>3, <2>4, c \in Characters DEF Characters, QuestEntries
    <2>9. /\ f \in QuestEntries /\ f.q = e.q /\ f.step = e.step
          /\ \A n \in 1 .. MaxCounters : f.counts[n] = IF n = k THEN m ELSE e.counts[n]
      <3> HIDE DEF e
      <3> QED BY ONLY <2>4, <2>6, <2>7 DEF QuestEntries, KillCounts
    <2> HIDE DEF f, d
    <2>10. /\ other \in [QuestNo -> QuestEntries] /\ other[s] = f
           /\ \A i \in QuestNo : i # s => other[i] = c.quests[i]
      BY ONLY <1>1, <2>2, <2>9
    <2> HIDE DEF other
    <2>11. d \in Characters
      BY ONLY <2>8, <2>10, c \in Characters DEF Characters, QuestEntries
    <2>12. /\ d.level = c.level /\ d.exp = c.exp /\ d.stats = c.stats /\ d.points = c.points
           /\ d.battleRank = c.battleRank /\ d.skill = c.skill
           /\ d.skills = c.skills /\ d.quick = c.quick /\ d.flags = c.flags
           /\ d.count = c.count /\ d.mask = c.mask /\ d.quests = other
      BY ONLY <2>8, c \in Characters DEF Characters
    <2>13. \A i \in QuestNo : d.quests[i].q = c.quests[i].q /\ d.quests[i].step = c.quests[i].step
      BY ONLY <2>9, <2>10, <2>12
    <2>14. Pursued(c, d)
      BY ONLY <2>12, <2>13 DEF Pursued
    <2>15. \A i \in 0 .. c.count - 1 : \A n \in 1 .. MaxCounters :
              \/ d.quests[i].counts[n] = c.quests[i].counts[n]
              \/ /\ n \in DOMAIN Quests[c.quests[i].q].mobs
                 /\ Quests[c.quests[i].q].mobs[n].species = species
                 /\ d.quests[i].counts[n] \in Int /\ d.quests[i].counts[n] <= MaxKills
                 /\ d.quests[i].counts[n] <= c.quests[i].counts[n] + 1
      <3> TAKE i \in 0 .. c.count - 1
      <3> TAKE n \in 1 .. MaxCounters
      <3>1. CASE i = s /\ n = k
        <4>1. d.quests[i].counts[n] = m
          BY ONLY <2>9, <2>10, <2>12, <3>1, n \in 1 .. MaxCounters
        <4>2. m \in Int /\ m <= MaxKills
          <5>1. MaxKills \in Nat
            BY Sizes
          <5> QED BY ONLY <2>7, <5>1
        <4> QED BY ONLY <2>5, <2>7, <3>1, <4>1, <4>2
      <3>2. CASE i = s /\ n # k
        BY ONLY <2>9, <2>10, <2>12, <3>2, n \in 1 .. MaxCounters
      <3>3. CASE i # s
        BY ONLY <1>1, <2>10, <2>12, <3>3, i \in 0 .. c.count - 1
      <3> QED BY ONLY <3>1, <3>2, <3>3
    <2>16. SameQuests(c, d)
      BY ONLY <1>1, <2>12, <2>13 DEF SameQuests
    <2>17. \A kills \in [DOMAIN Quests -> KillCounts] :
              ListedOnce(c) /\ Counted(c, kills) => Counted(d, OneMore(kills, species))
      BY ONLY <1>2, <2>15, <2>16
    <2> QED BY ONLY <2>11, <2>14, <2>17 DEF d
  <1>4. CASE hit = {}
    <2>1. d = c \/ d = Marked(c, {"QUESTSLOT"})
      BY <1>4 DEF IncrementQuestMobCounter
    <2>2. /\ d \in Characters
          /\ d.level = c.level /\ d.exp = c.exp /\ d.stats = c.stats /\ d.points = c.points
          /\ d.battleRank = c.battleRank /\ d.skill = c.skill
          /\ d.skills = c.skills /\ d.quick = c.quick /\ d.flags = c.flags
          /\ d.count = c.count /\ c.mask \subseteq d.mask /\ d.quests = c.quests
      <3>1. CASE d = c
        <4> HIDE DEF d
        <4> QED BY ONLY <3>1, c \in Characters
      <3>2. CASE d = Marked(c, {"QUESTSLOT"})
        <4>1. d = [c EXCEPT !.mask = c.mask \cup {"QUESTSLOT"}]
          BY ONLY <3>2, c \in Characters DEF Marked, Characters
        <4> HIDE DEF d
        <4> QED BY ONLY <4>1, c \in Characters DEF Characters, Parts
      <3> QED BY ONLY <2>1, <3>1, <3>2
    <2> HIDE DEF d
    <2>3. Pursued(c, d)
      BY ONLY <2>2 DEF Pursued
    <2>4. SameQuests(c, d)
      BY ONLY <2>2 DEF SameQuests
    <2>5. \A kills \in [DOMAIN Quests -> KillCounts] :
              ListedOnce(c) /\ Counted(c, kills) => Counted(d, OneMore(kills, species))
      BY ONLY <1>2, <2>2, <2>4
    <2> QED BY ONLY <2>2, <2>3, <2>5 DEF d
  <1> QED BY <1>3, <1>4

-----------------------------------------------------------------------------
(* Battles and rewards keep what the invariant says of the record.         *)

\* What differs between two records of a character has been marked.
Marks(c, d) ==
    /\ c.mask \subseteq d.mask
    /\ "QUESTSLOT" \in d.mask \/ SameQuests(c, d)
    /\ "QUESTFLAG" \in d.mask \/ d.flags = c.flags
    /\ "INFO" \in d.mask \/ d.exp = c.exp

Advances(b, d) ==
    Marks(b.c, d.c) /\ d.c.quick = b.c.quick /\ d.c.count = b.c.count /\ b.gained <= d.gained

LEMMA MarksOn ==
    ASSUME NEW c, NEW d, NEW e, Marks(c, d), Marks(d, e)
    PROVE  Marks(c, e)
  <1>1. SameQuests(c, d) /\ SameQuests(d, e) => SameQuests(c, e)
    BY DEF SameQuests
  <1> QED BY ONLY <1>1, Marks(c, d), Marks(d, e) DEF Marks

LEMMA BalancesOf ==
    ASSUME NEW b, Balanced(b)
    PROVE  /\ b.c \in Characters /\ b.gained \in Int /\ b.since \in [DOMAIN Quests -> KillCounts]
           /\ b.due \in Int /\ b.wrapped \in BOOLEAN
           /\ b.credit \in Int /\ b.c.skill.point \in Int
           /\ b.credit - b.c.skill.point \in Int
           /\ b.c.exp \in Nat /\ ExpOf(b.c.flags) \in Nat /\ b.c.flags \in SUBSET DOMAIN Quests
  <1>1. b \in Balances
    BY DEF Balanced
  <1>2. /\ b.c \in Characters /\ b.gained \in Int /\ b.since \in [DOMAIN Quests -> KillCounts]
        /\ b.due \in Int /\ b.wrapped \in BOOLEAN /\ b.credit \in Int
    BY ONLY <1>1 DEF Balances
  <1>3. b.c.skill.point \in Int /\ b.c.exp \in Nat /\ b.c.flags \in SUBSET DOMAIN Quests
    BY ONLY <1>2, FieldsOf
  <1>4. ExpOf(b.c.flags) \in Nat
    BY ONLY <1>3, ExpOfIs
  <1> QED BY ONLY <1>2, <1>3, <1>4

\* Quests stay in order where none of their fields but counters change.
LEMMA QuestingOn ==
    ASSUME NEW b, NEW d, Questing(b),
           d.c.quests = b.c.quests, d.c.count = b.c.count, d.c.flags = b.c.flags,
           d.since = b.since, d.c.exp <= d.gained + ExpOf(d.c.flags)
    PROVE  Questing(d)
  BY DEF Questing, ListedOnce, NoneDone, Counted

LEMMA GainedIs ==
    ASSUME NEW b, Balanced(b), Questing(b), NEW m, m.exp \in Nat
    PROVE  LET d == Gained(b, m)
           IN  Balanced(d) /\ Questing(d) /\ Advances(b, d)
  <1> DEFINE c == AddExp(b.c, m.exp)
             up == IF c.level # b.c.level THEN 5 ELSE 0
             due_ == b.due + up
             over == (b.wrapped \/ b.c.points + up >= Width)
             d == Gained(b, m)
  <1>1. /\ b.c \in Characters /\ b.gained \in Int /\ b.since \in [DOMAIN Quests -> KillCounts]
        /\ b.due \in Int /\ b.wrapped \in BOOLEAN /\ b.credit \in Int
        /\ b.c.exp \in Nat /\ ExpOf(b.c.flags) \in Nat
    BY BalancesOf
  <1>2. /\ c \in Characters /\ Rewarded(b.c, c)
        /\ c.skill = b.c.skill /\ c.honor = b.c.honor /\ c.exp = b.c.exp + m.exp
        /\ c.points = (b.c.points + up) % Width
    BY ONLY <1>1, m.exp \in Nat, AddExpIs
  <1> HIDE DEF c
  <1>3. up \in Nat /\ due_ \in Int /\ over \in BOOLEAN
    <2>1. up \in Nat
      OBVIOUS
    <2> HIDE DEF up
    <2> QED BY ONLY <1>1, <2>1
  <1>4. AddsUp(c, due_, over)
    <2>1. c.stats = b.c.stats
      BY ONLY <1>2 DEF Rewarded
    <2>2. AddsUp(b.c, b.due, b.wrapped)
      BY ONLY Balanced(b) DEF Balanced
    <2> HIDE DEF up
    <2> QED BY ONLY <1>1, <1>2, <1>3, <2>1, <2>2, UpAdds
  <1>5. d = [b EXCEPT !.c = c, !.gained = b.gained + m.exp, !.due = due_,
                   !.wrapped = over]
    BY ONLY Balanced(b) DEF Balanced, Balances, Gained, Up, c
  <1> HIDE DEF d, due_, over
  <1>6. d \in Balances /\ d.c = c /\ d.gained = b.gained + m.exp /\ d.due = due_
        /\ d.wrapped = over /\ d.since = b.since /\ d.credit = b.credit /\ b.gained <= d.gained
    <2>1. b \in Balances /\ c \in Characters /\ b.gained + m.exp \in Int /\ due_ \in Int
          /\ over \in BOOLEAN /\ b.gained <= b.gained + m.exp
      BY ONLY <1>1, <1>2, <1>3, m.exp \in Nat, Balanced(b) DEF Balanced
    <2>2. /\ d.c = c /\ d.gained = b.gained + m.exp /\ d.due = due_
          /\ d.wrapped = over /\ d.since = b.since /\ d.credit = b.credit
      BY ONLY <1>5, <2>1 DEF Balances
    <2>3. d \in Balances
      BY ONLY <1>5, <2>1 DEF Balances
    <2> QED BY ONLY <2>1, <2>2, <2>3
  <1>7. Balanced(d)
    <2>1. c.skills = b.c.skills /\ c.skill = b.c.skill /\ c.battleRank = b.c.battleRank
      BY ONLY <1>2 DEF Rewarded
    <2> QED BY ONLY <1>4, <1>6, <2>1, Balanced(b) DEF Balanced
  <1>8. c.quests = b.c.quests /\ c.count = b.c.count /\ c.flags = b.c.flags /\ c.quick = b.c.quick
        /\ c.mask = b.c.mask \cup {"INFO"}
    BY ONLY <1>2 DEF Rewarded
  <1>9. Questing(d)
    <2>1. b.c.exp <= b.gained + ExpOf(b.c.flags)
      BY ONLY Questing(b) DEF Questing
    <2> DEFINE x == ExpOf(b.c.flags)
    <2>2. x \in Nat /\ b.c.exp <= b.gained + x
      BY ONLY <1>1, <2>1
    <2> HIDE DEF x
    <2>3. d.c.exp <= d.gained + x
      BY ONLY <1>1, <1>2, <1>6, <2>2, m.exp \in Nat
    <2>4. d.c.exp <= d.gained + ExpOf(d.c.flags)
      BY ONLY <1>6, <1>8, <2>3 DEF x
    <2> QED BY ONLY <1>6, <1>8, <2>4, Questing(b), QuestingOn
  <1>10. Advances(b, d)
    <2>1. SameQuests(b.c, c)
      BY ONLY <1>8 DEF SameQuests
    <2>2. Marks(b.c, c)
      BY ONLY <1>8, <2>1 DEF Marks
    <2> QED BY ONLY <1>6, <1>8, <2>2 DEF Advances
  <1> QED BY ONLY <1>7, <1>9, <1>10 DEF d

LEMMA SkillGainedIs ==
    ASSUME NEW b, Balanced(b), Questing(b), NEW m, m.skillExp \in Nat
    PROVE  LET d == SkillGained(b, m)
           IN  Balanced(d) /\ Questing(d) /\ Advances(b, d)
  <1> DEFINE c == AddSkillExp(b.c, m.skillExp)
             credit_ == b.credit + (c.skill.point - b.c.skill.point)
             d == SkillGained(b, m)
  <1>1. /\ b.c \in Characters /\ b.gained \in Int /\ b.since \in [DOMAIN Quests -> KillCounts]
        /\ b.due \in Int /\ b.credit \in Int /\ b.c.skill.point \in Int
    BY BalancesOf
  <1>2. /\ c \in Characters /\ Rewarded(b.c, c)
        /\ c.level = b.c.level /\ c.exp = b.c.exp /\ c.points = b.c.points
        /\ c.skill.rank <= c.battleRank
    <2>1. b.c.skill.rank <= b.c.battleRank
      BY ONLY Balanced(b) DEF Balanced
    <2> QED BY ONLY <1>1, <2>1, m.skillExp \in Nat, AddSkillExpIs
  <1> HIDE DEF c
  <1>3. c.skill.point \in Int
    BY ONLY <1>2, FieldsOf
  <1>4. credit_ \in Int /\ credit_ - c.skill.point = b.credit - b.c.skill.point
    BY ONLY <1>1, <1>3
  <1>5. d = [b EXCEPT !.c = c, !.credit = credit_]
    BY ONLY Balanced(b) DEF Balanced, Balances, SkillGained, c
  <1> HIDE DEF d, credit_
  <1>6. d \in Balances /\ d.c = c /\ d.gained = b.gained /\ d.due = b.due
          /\ d.wrapped = b.wrapped
        /\ d.since = b.since /\ d.credit = credit_ /\ b.gained <= d.gained
    <2>1. b \in Balances /\ c \in Characters /\ b.gained <= b.gained /\ credit_ \in Int
      BY ONLY <1>1, <1>2, <1>4, Balanced(b) DEF Balanced
    <2>2. /\ d.c = c /\ d.gained = b.gained /\ d.due = b.due
          /\ d.wrapped = b.wrapped
          /\ d.since = b.since /\ d.credit = credit_
      BY ONLY <1>5, <2>1 DEF Balances
    <2>3. d \in Balances
      BY ONLY <1>5, <2>1 DEF Balances
    <2> QED BY ONLY <2>1, <2>2, <2>3
  <1>7. /\ c.quests = b.c.quests /\ c.count = b.c.count /\ c.flags = b.c.flags
        /\ c.quick = b.c.quick /\ c.skills = b.c.skills /\ c.stats = b.c.stats
        /\ c.mask = b.c.mask \cup {"INFO"}
    BY ONLY <1>2 DEF Rewarded
  <1>8. Balanced(d)
    <2>1. AddsUp(c, b.due, b.wrapped)
      BY ONLY <1>2, <1>7, Balanced(b), SameAddsUp DEF Balanced
    <2>2. Backed(c.skills, credit_ - c.skill.point)
      BY ONLY <1>4, <1>7, Balanced(b) DEF Balanced
    <2> QED BY ONLY <1>2, <1>6, <2>1, <2>2, Balanced(b) DEF Balanced
  <1>9. Questing(d)
    <2>1. d.c.exp <= d.gained + ExpOf(d.c.flags)
      BY ONLY <1>2, <1>6, <1>7, Questing(b) DEF Questing
    <2> QED BY ONLY <1>6, <1>7, <2>1, Questing(b), QuestingOn
  <1>10. Advances(b, d)
    <2>1. SameQuests(b.c, c)
      BY ONLY <1>7 DEF SameQuests
    <2>2. Marks(b.c, c)
      BY ONLY <1>7, <2>1 DEF Marks
    <2> QED BY ONLY <1>6, <1>7, <2>2 DEF Advances
  <1> QED BY ONLY <1>8, <1>9, <1>10 DEF d

LEMMA HonorGainedIs ==
    ASSUME NEW b, Balanced(b), Questing(b), NEW n \in Int
    PROVE  LET d == [b EXCEPT !.c = AddHonorPoint(@, n)]
           IN  Balanced(d) /\ Questing(d) /\ Advances(b, d)
  <1> DEFINE c == AddHonorPoint(b.c, n)
             d == [b EXCEPT !.c = c]
  <1>1. /\ b.c \in Characters /\ b.gained \in Int
    BY BalancesOf
  <1>2. /\ c \in Characters /\ Rewarded(b.c, c)
        /\ c.level = b.c.level /\ c.exp = b.c.exp /\ c.points = b.c.points
        /\ c.skill = b.c.skill
    BY ONLY <1>1, n \in Int, AddHonorPointIs
  <1> HIDE DEF c
  <1>3. d \in Balances /\ d.c = c /\ d.gained = b.gained /\ d.due = b.due
          /\ d.wrapped = b.wrapped
        /\ d.since = b.since /\ d.credit = b.credit /\ b.gained <= d.gained
    BY ONLY <1>1, <1>2, Balanced(b) DEF Balanced, Balances
  <1>4. /\ c.quests = b.c.quests /\ c.count = b.c.count /\ c.flags = b.c.flags
        /\ c.quick = b.c.quick /\ c.skills = b.c.skills /\ c.stats = b.c.stats
        /\ c.battleRank = b.c.battleRank /\ c.mask = b.c.mask \cup {"INFO"}
    BY ONLY <1>2 DEF Rewarded
  <1>5. [b EXCEPT !.c = AddHonorPoint(@, n)] = d
    BY ONLY Balanced(b) DEF Balanced, Balances, c
  <1> HIDE DEF d
  <1>6. Balanced(d)
    <2>1. AddsUp(c, b.due, b.wrapped)
      BY ONLY <1>2, <1>4, Balanced(b), SameAddsUp DEF Balanced
    <2> QED BY ONLY <1>2, <1>3, <1>4, <2>1, Balanced(b) DEF Balanced
  <1>7. Questing(d)
    <2>1. d.c.exp <= d.gained + ExpOf(d.c.flags)
      BY ONLY <1>2, <1>3, <1>4, Questing(b) DEF Questing
    <2> QED BY ONLY <1>3, <1>4, <2>1, Questing(b), QuestingOn
  <1>8. Advances(b, d)
    <2>1. SameQuests(b.c, c)
      BY ONLY <1>4 DEF SameQuests
    <2>2. Marks(b.c, c)
      BY ONLY <1>4, <2>1 DEF Marks
    <2> QED BY ONLY <1>3, <1>4, <2>2 DEF Advances
  <1> QED BY ONLY <1>5, <1>6, <1>7, <1>8

LEMMA StruckIs ==
    ASSUME NEW b, Balanced(b), Questing(b), NEW hit
    PROVE  LET d == Struck(b, hit)
           IN  Balanced(d) /\ Questing(d) /\ Advances(b, d)
  <1>1. /\ b.c \in Characters /\ b.gained \in Int /\ b.since \in [DOMAIN Quests -> KillCounts]
    BY BalancesOf
  <1>2. CASE ~hit.dead
    <2>1. Struck(b, hit) = b
      BY <1>2 DEF Struck
    <2>2. SameQuests(b.c, b.c)
      BY DEF SameQuests
    <2>3. Advances(b, b)
      BY ONLY <1>1, <2>2 DEF Advances, Marks
    <2> QED BY ONLY <2>1, <2>3, Balanced(b), Questing(b)
  <1>3. CASE hit.dead
    <2> DEFINE species == hit.mob.species
               c == IncrementQuestMobCounter(b.c, species)
               more == OneMore(b.since, species)
               d == [b EXCEPT !.c = c, !.since = more]
    <2>1. Struck(b, hit) = d
      BY <1>3 DEF Struck, Killed, OneMore
    <2>2. b.c.count \in 0 .. MaxQuests /\ ListedOnce(b.c) /\ NoneDone(b.c, b.c.flags)
          /\ Counted(b.c, b.since)
      BY ONLY Questing(b) DEF Questing
    <2>3. c \in Characters /\ Pursued(b.c, c) /\ Counted(c, more)
      BY ONLY <1>1, <2>2, MobCounted
    <2>4. more \in [DOMAIN Quests -> KillCounts]
      BY ONLY <1>1, OneMoreIs
    <2> HIDE DEF c, more, species
    <2>5. d \in Balances /\ d.c = c /\ d.gained = b.gained /\ d.due = b.due
            /\ d.wrapped = b.wrapped
          /\ d.since = more /\ d.credit = b.credit /\ b.gained <= d.gained
      <3>1. b \in Balances /\ c \in Characters /\ b.gained <= b.gained
        BY ONLY <1>1, <2>3, Balanced(b) DEF Balanced
      <3>2. /\ d.c = c /\ d.gained = b.gained /\ d.due = b.due
            /\ d.wrapped = b.wrapped
            /\ d.since = more /\ d.credit = b.credit
        BY ONLY <2>4, <3>1 DEF Balances
      <3>3. d \in Balances
        BY ONLY <2>4, <3>1 DEF Balances
      <3> QED BY ONLY <3>1, <3>2, <3>3
    <2> HIDE DEF d
    <2>6. /\ c.count = b.c.count /\ c.flags = b.c.flags /\ c.exp = b.c.exp
          /\ c.quick = b.c.quick /\ c.skills = b.c.skills /\ c.stats = b.c.stats
          /\ c.points = b.c.points /\ c.skill = b.c.skill
          /\ c.battleRank = b.c.battleRank /\ b.c.mask \subseteq c.mask
          /\ \A i \in QuestNo : c.quests[i].q = b.c.quests[i].q
      BY ONLY <2>3 DEF Pursued
    <2>7. Balanced(d)
      <3>1. AddsUp(c, b.due, b.wrapped)
        BY ONLY <2>6, Balanced(b), SameAddsUp DEF Balanced
      <3> QED BY ONLY <2>5, <2>6, <3>1, Balanced(b) DEF Balanced
    <2>8. Questing(d)
      <3>1. ListedOnce(c) /\ NoneDone(c, c.flags)
        BY ONLY <1>1, <2>2, <2>3, PursuedKeeps
      <3> QED BY ONLY <2>3, <2>5, <2>6, <3>1, Questing(b) DEF Questing
    <2>9. Advances(b, d)
      <3>1. \A i \in 0 .. b.c.count - 1 : i \in QuestNo
        <4>1. MaxQuests \in Nat
          BY Sizes
        <4> QED BY ONLY <2>2, <4>1 DEF QuestNo
      <3>2. SameQuests(b.c, c)
        BY ONLY <2>6, <3>1 DEF SameQuests
      <3> QED BY ONLY <2>5, <2>6, <3>2 DEF Advances, Marks
    <2> QED BY ONLY <2>1, <2>7, <2>8, <2>9
  <1> QED BY ONLY <1>2, <1>3

LEMMA AdvancesOn ==
    ASSUME NEW b, NEW d, NEW e, Balanced(b), Balanced(d), Balanced(e),
           Advances(b, d), Advances(d, e)
    PROVE  Advances(b, e)
  <1>1. b.gained \in Int /\ d.gained \in Int /\ e.gained \in Int
    BY ONLY BalancesOf, Balanced(b), Balanced(d), Balanced(e)
  <1>2. b.gained <= d.gained /\ d.gained <= e.gained
    BY DEF Advances
  <1>3. b.gained <= e.gained
    BY ONLY <1>1, <1>2
  <1>4. Marks(b.c, e.c)
    <2>1. Marks(b.c, d.c) /\ Marks(d.c, e.c)
      BY DEF Advances
    <2> QED BY ONLY <2>1, MarksOn
  <1> QED BY ONLY <1>3, <1>4, Advances(b, d), Advances(d, e) DEF Advances

\* One mob of an attack by a skill.
OneHit(b, hit) == Struck(SkillGained(Gained(b, hit.mob), hit.mob), hit)

LEMMA OneHitIs ==
    ASSUME NEW b, Balanced(b), Questing(b), NEW hit,
           hit.mob.exp \in Nat, hit.mob.skillExp \in Nat
    PROVE  LET d == OneHit(b, hit)
           IN  Balanced(d) /\ Questing(d) /\ Advances(b, d)
  <1> DEFINE x == Gained(b, hit.mob)
             y == SkillGained(x, hit.mob)
             z == Struck(y, hit)
  <1>1. Balanced(x) /\ Questing(x) /\ Advances(b, x)
    BY GainedIs
  <1> HIDE DEF x
  <1>2. Balanced(y) /\ Questing(y) /\ Advances(x, y)
    BY <1>1, SkillGainedIs
  <1> HIDE DEF y
  <1>3. Balanced(z) /\ Questing(z) /\ Advances(y, z)
    BY <1>2, StruckIs
  <1>4. OneHit(b, hit) = z
    BY DEF OneHit, x, y
  <1> HIDE DEF z
  <1>5. Advances(b, y)
    BY <1>1, <1>2, AdvancesOn
  <1>6. Advances(b, z)
    BY <1>2, <1>3, <1>5, AdvancesOn
  <1> QED BY ONLY <1>3, <1>4, <1>6

LEMMA AllHits ==
    ASSUME NEW b, Balanced(b), Questing(b), NEW hits, Len(hits) \in Nat,
           \A i \in 1 .. Len(hits) : hits[i].mob.exp \in Nat /\ hits[i].mob.skillExp \in Nat
    PROVE  LET struck[i \in 0 .. Len(hits)] ==
                   IF i = 0 THEN b ELSE OneHit(struck[i - 1], hits[i])
               d == struck[Len(hits)]
           IN  Balanced(d) /\ Questing(d) /\ Advances(b, d)
  <1> DEFINE n == Len(hits)
             T == Balances
             start == b
             Same(d) == Balanced(d) /\ Questing(d) /\ Advances(b, d)
             Good == [i \in 0 .. n |-> {d \in T : Same(d)}]
             Runs(g) == g = [i \in 0 .. n |->
                                IF i = 0 THEN start ELSE OneHit(g[i - 1], hits[i])]
             all == CHOOSE g : Runs(g)
             G == [x \in (1 .. n) \X T |-> OneHit(x[2], hits[x[1]])]
  <1>a. n \in Nat /\ \A i \in 1 .. n : hits[i].mob.exp \in Nat /\ hits[i].mob.skillExp \in Nat
    OBVIOUS
  <1> HIDE DEF n
  <1>0. n \in Nat /\ Good \in [0 .. n -> SUBSET T]
    BY <1>a
  <1>1. start \in Good[0]
    <2>1. start \in T /\ b.gained \in Int
      BY BalancesOf DEF Balanced
    <2>2. Same(start)
      <3>1. SameQuests(b.c, b.c) /\ b.gained <= b.gained
        BY ONLY <2>1 DEF SameQuests
      <3> QED BY ONLY <3>1, Balanced(b), Questing(b) DEF Advances, Marks
    <2>3. 0 \in 0 .. n
      BY ONLY <1>0
    <2> HIDE DEF Same, T, start
    <2> QED BY ONLY <2>1, <2>2, <2>3
  <1>2. ASSUME NEW i \in 1 .. n, NEW a \in Good[i - 1]
        PROVE  OneHit(a, hits[i]) \in Good[i]
    <2> DEFINE x == OneHit(a, hits[i])
    <2>0. i - 1 \in 0 .. n /\ i \in 0 .. n
      BY ONLY <1>0, i \in 1 .. n
    <2>1. Same(a)
      <3> HIDE DEF Same, T
      <3> QED BY ONLY <2>0, a \in Good[i - 1]
    <2>2. hits[i].mob.exp \in Nat /\ hits[i].mob.skillExp \in Nat
      BY ONLY <1>a, i \in 1 .. n
    <2>3. Balanced(x) /\ Questing(x) /\ Advances(a, x)
      BY ONLY <2>1, <2>2, OneHitIs
    <2> HIDE DEF x
    <2>4. Same(x) /\ x \in T
      <3>1. Advances(b, x)
        BY ONLY <2>1, <2>3, Balanced(b), AdvancesOn
      <3>2. x \in T
        BY ONLY <2>3 DEF Balanced
      <3> QED BY ONLY <2>3, <3>1, <3>2
    <2> HIDE DEF Same, T
    <2>5. x \in Good[i]
      BY ONLY <2>0, <2>4
    <2> QED BY ONLY <2>5 DEF x
  <1>3. Leads(G, n, Good, T, start)
    <2>1. \A i \in 1 .. n : \A y \in Good[i - 1] : G[<<i, y>>] = OneHit(y, hits[i])
      BY <1>0
    <2> HIDE DEF G, Good, T, start
    <2> QED BY <1>0, <1>1, <1>2, <2>1 DEF Leads
  <1>4. \E g : Runs(g)
    <2>1. PICK g \in [0 .. n -> T] :
              /\ g[0] = start
              /\ \A i \in 1 .. n : g[i - 1] \in Good[i - 1] /\ g[i] = G[<<i, g[i - 1]>>]
      <3> HIDE DEF G, Good, T, start
      <3> QED BY ONLY <1>3, RunExists
    <2>2. \A i \in 1 .. n : \A y \in T : G[<<i, y>>] = OneHit(y, hits[i])
      OBVIOUS
    <2>3. \A i \in 1 .. n : g[i - 1] \in T
      <3> HIDE DEF G, Good, T, start
      <3>1. \A i \in 1 .. n : i - 1 \in 0 .. n
        BY ONLY <1>0
      <3> QED BY ONLY <2>1, <3>1
    <2>4. g = [i \in 0 .. n |-> IF i = 0 THEN start ELSE OneHit(g[i - 1], hits[i])]
      <3> HIDE DEF G, Good, T, start
      <3>1. g = [i \in 0 .. n |-> g[i]]
        BY ONLY <2>1
      <3>2. \A i \in 0 .. n : i # 0 => i \in 1 .. n
        BY ONLY <1>0
      <3>3. \A i \in 0 .. n : g[i] = IF i = 0 THEN start ELSE OneHit(g[i - 1], hits[i])
        BY ONLY <2>1, <2>2, <2>3, <3>2
      <3> QED BY ONLY <3>1, <3>3
    <2> QED BY <2>4
  <1>5. Runs(all)
    <2> HIDE DEF Runs
    <2> QED BY <1>4
  <1> HIDE DEF all
  <1>6. all[0] = start /\ \A i \in 1 .. n : all[i] = OneHit(all[i - 1], hits[i])
    <2> HIDE DEF start
    <2> DEFINE R == [i \in 0 .. n |-> IF i = 0 THEN start ELSE OneHit(all[i - 1], hits[i])]
    <2>1. all = R
      BY <1>5
    <2>2. \A i \in 0 .. n : R[i] = IF i = 0 THEN start ELSE OneHit(all[i - 1], hits[i])
      OBVIOUS
    <2> HIDE DEF R
    <2>3. 0 \in 0 .. n /\ \A i \in 1 .. n : i \in 0 .. n /\ i # 0
      BY ONLY <1>0
    <2> QED BY ONLY <2>1, <2>2, <2>3
  <1>7. \A i \in 0 .. n : all[i] \in Good[i]
    <2> HIDE DEF Good, T, start, Runs
    <2>1. all[0] \in Good[0]
      BY ONLY <1>1, <1>6
    <2>2. \A i \in 1 .. n : all[i - 1] \in Good[i - 1] => all[i] \in Good[i]
      BY ONLY <1>2, <1>6
    <2>3. n \in Nat
      BY <1>0
    <2> QED BY ONLY <2>1, <2>2, <2>3, RunStays
  <1>8. all[n] \in Good[n] /\ n \in 0 .. n
    BY ONLY <1>0, <1>7
  <1>9. Same(all[n])
    <2> HIDE DEF Same, T
    <2> QED BY ONLY <1>8
  <1> QED BY <1>9 DEF all, n

LEMMA CopiedStill ==
    ASSUME Copied, saved' = saved, lost' = lost, Marks(char, char'),
           gained \in Int, gained' \in Int, gained <= gained'
    PROVE  Copied'
  <1>1. SameQuests(char, char') /\ SameQuests(char, saved["QUESTSLOT"])
            => SameQuests(char', saved["QUESTSLOT"])
    BY DEF SameQuests
  <1>2. ASSUME lost = {}
        PROVE  /\ NoneDone(saved["QUESTSLOT"], saved["QUESTFLAG"])
               /\ saved["INFO"].exp <= gained' + ExpOf(saved["QUESTFLAG"])
               /\ saved["INFO"].exp \in Nat /\ saved["QUESTFLAG"] \in SUBSET DOMAIN Quests
    <2>1. /\ NoneDone(saved["QUESTSLOT"], saved["QUESTFLAG"])
          /\ saved["INFO"].exp <= gained + ExpOf(saved["QUESTFLAG"])
          /\ saved["INFO"].exp \in Nat /\ saved["QUESTFLAG"] \in SUBSET DOMAIN Quests
      BY <1>2 DEF Copied
    <2>2. ExpOf(saved["QUESTFLAG"]) \in Nat
      BY ONLY <2>1, ExpOfIs
    <2> DEFINE x == saved["INFO"].exp
               y == ExpOf(saved["QUESTFLAG"])
    <2>3. x \in Nat /\ y \in Nat /\ x <= gained + y
      BY ONLY <2>1, <2>2
    <2> HIDE DEF x, y
    <2>4. x <= gained' + y
      <3>1. \A u, v, g, h \in Int : u <= g + v /\ g <= h => u <= h + v
        OBVIOUS
      <3>2. x \in Int /\ y \in Int
        BY ONLY <2>3
      <3> QED BY ONLY <2>3, <3>1, <3>2, gained \in Int, gained' \in Int, gained <= gained'
    <2> QED BY ONLY <2>1, <2>4 DEF x, y
  <1>3. ListedOnce(saved["QUESTSLOT"])
    BY DEF Copied
  <1>4. "QUESTSLOT" \notin char'.mask \cup lost => SameQuests(char', saved["QUESTSLOT"])
    BY <1>1 DEF Copied, Marks
  <1>5. "QUESTFLAG" \notin char'.mask \cup lost => saved["QUESTFLAG"] = char'.flags
    BY DEF Copied, Marks
  <1>6. "INFO" \notin char'.mask \cup lost => saved["INFO"].exp = char'.exp
    BY DEF Copied, Marks
  <1> QED BY ONLY <1>2, <1>3, <1>4, <1>5, <1>6, saved' = saved, lost' = lost DEF Copied

-----------------------------------------------------------------------------
(* Every step keeps the invariant.                                         *)

LEMMA Holding ==
    ASSUME ProgressInv
    PROVE  /\ char \in Characters /\ gained \in Int /\ since \in [DOMAIN Quests -> KillCounts]
           /\ due \in Int /\ credit \in Int /\ char.skill.point \in Int
           /\ char.count \in Int /\ char.exp \in Nat /\ ExpOf(char.flags) \in Nat
           /\ char.flags \in SUBSET DOMAIN Quests
           /\ char.skill.rank <= char.battleRank /\ AddsUp(char, due, wrapped)
           /\ wrapped \in BOOLEAN
           /\ Backed(char.skills, credit - char.skill.point)
           /\ \E start \in Starts : plan = start.plan
           /\ lost \in SUBSET Parts
           /\ ~fault => char.count \in 0 .. MaxQuests
           /\ torn \/ NumberedOnce(char.quick)
           /\ orderly => /\ char.count \in 0 .. MaxQuests
                         /\ ListedOnce(char) /\ NoneDone(char, char.flags)
                         /\ Counted(char, since)
                         /\ char.exp <= gained + ExpOf(char.flags)
                         /\ Copied
  <1>1. Balanced(Before)
    BY DEF ProgressInv
  <1>2. /\ Before.c = char /\ Before.gained = gained /\ Before.since = since
        /\ Before.due = due /\ Before.wrapped = wrapped /\ Before.credit = credit
    BY DEF Before
  <1>3. /\ char \in Characters /\ gained \in Int /\ since \in [DOMAIN Quests -> KillCounts]
        /\ due \in Int /\ credit \in Int /\ char.skill.point \in Int
        /\ char.exp \in Nat /\ ExpOf(char.flags) \in Nat /\ char.flags \in SUBSET DOMAIN Quests
    BY ONLY <1>1, <1>2, BalancesOf
  <1>4. char.count \in Int
    BY ONLY <1>3, FieldsOf
  <1>5. /\ char.skill.rank <= char.battleRank /\ AddsUp(char, due, wrapped)
        /\ wrapped \in BOOLEAN
        /\ Backed(char.skills, credit - char.skill.point)
    BY ONLY <1>1, <1>2, BalancesOf DEF Balanced
  <1>6. orderly => Questing(Before) /\ Copied
    BY DEF ProgressInv
  <1>7. orderly => /\ char.count \in 0 .. MaxQuests
                   /\ ListedOnce(char) /\ NoneDone(char, char.flags)
                   /\ Counted(char, since)
                   /\ char.exp <= gained + ExpOf(char.flags)
                   /\ Copied
    BY ONLY <1>2, <1>6 DEF Questing
  <1>8. /\ \E start \in Starts : plan = start.plan
        /\ lost \in SUBSET Parts
        /\ ~fault => char.count \in 0 .. MaxQuests
        /\ torn \/ NumberedOnce(char.quick)
    BY DEF ProgressInv
  <1> QED BY ONLY <1>3, <1>4, <1>5, <1>7, <1>8

\* What has to be shown of a step that stores nothing.
LEMMA StepKeeps ==
    ASSUME ProgressInv, orderly,
           char' \in Characters, gained' \in Int, since' \in [DOMAIN Quests -> KillCounts],
           due' \in Int, credit' \in Int,
           char'.skill.rank <= char'.battleRank, AddsUp(char', due', wrapped'),
           wrapped' \in BOOLEAN, Backed(char'.skills, credit' - char'.skill.point),
           plan' = plan, saved' = saved, lost' = lost, gained <= gained',
           ~fault' => char'.count \in 0 .. MaxQuests,
           torn' \/ NumberedOnce(char'.quick),
           orderly' => /\ char'.count \in 0 .. MaxQuests
                       /\ ListedOnce(char') /\ NoneDone(char', char'.flags)
                       /\ Counted(char', since')
                       /\ char'.exp <= gained' + ExpOf(char'.flags)
                       /\ Marks(char, char')
    PROVE  ProgressInv'
  <1> DEFINE b == [c |-> char', gained |-> gained', since |-> since', due |-> due',
                   wrapped |-> wrapped', credit |-> credit']
  <1>1. b.c = char' /\ b.gained = gained' /\ b.since = since' /\ b.due = due'
        /\ b.wrapped = wrapped' /\ b.credit = credit' /\ b \in Balances
    BY DEF Balances
  <1>2. Before' = b
    BY DEF Before
  <1> HIDE DEF b
  <1>3. Balanced(b)
    BY ONLY <1>1, char'.skill.rank <= char'.battleRank, AddsUp(char', due', wrapped'),
            Backed(char'.skills, credit' - char'.skill.point) DEF Balanced
  <1>4. (Balanced(Before))'
    BY ONLY <1>2, <1>3
  <1>5. (\E start \in Starts : plan = start.plan)' /\ (lost \in SUBSET Parts)'
    BY Holding
  <1>6. ASSUME orderly' PROVE (Questing(Before))' /\ Copied'
    <2>1. Questing(b)
      BY ONLY <1>1, <1>6,
           orderly' => /\ char'.count \in 0 .. MaxQuests
                       /\ ListedOnce(char') /\ NoneDone(char', char'.flags)
                       /\ Counted(char', since')
                       /\ char'.exp <= gained' + ExpOf(char'.flags)
                       /\ Marks(char, char') DEF Questing
    <2>2. (Questing(Before))'
      BY ONLY <1>2, <2>1
    <2>3. Copied /\ gained \in Int
      BY Holding
    <2>4. Copied'
      BY <1>6, <2>3, CopiedStill
    <2> QED BY ONLY <2>2, <2>4
  <1>7. (~fault)' => (char.count \in 0 .. MaxQuests)'
    OBVIOUS
  <1>8. (torn \/ NumberedOnce(char.quick))'
    OBVIOUS
  <1> QED BY ONLY <1>4, <1>5, <1>6, <1>7, <1>8 DEF ProgressInv

LEMMA RefusedKeeps ==
    ASSUME ProgressInv, Refused
    PROVE  ProgressInv'
  <1>1. /\ char' = char /\ saved' = saved /\ plan' = plan /\ fault' = fault
        /\ orderly' = orderly /\ torn' = torn /\ lost' = lost /\ gained' = gained
        /\ since' = since /\ due' = due /\ wrapped' = wrapped /\ credit' = credit
    BY DEF Refused, ghost
  <1>2. Before' = Before
    BY ONLY <1>1 DEF Before
  <1>3. Copied => Copied'
    BY ONLY <1>1 DEF Copied
  <1> QED BY ONLY <1>1, <1>2, <1>3, ProgressInv DEF ProgressInv

LEMMA BecomesKeeps ==
    ASSUME ProgressInv, orderly, NEW b, Balanced(b), Questing(b), Advances(Before, b), Becomes(b)
    PROVE  ProgressInv'
  <1>1. /\ char' = b.c /\ gained' = b.gained /\ since' = b.since
        /\ due' = b.due /\ wrapped' = b.wrapped /\ credit' = b.credit
        /\ saved' = saved /\ plan' = plan /\ fault' = fault /\ orderly' = orderly
        /\ torn' = torn /\ lost' = lost
    BY DEF Becomes
  <1>2. /\ b.c \in Characters /\ b.gained \in Int /\ b.since \in [DOMAIN Quests -> KillCounts]
        /\ b.due \in Int /\ b.wrapped \in BOOLEAN /\ b.credit \in Int
    BY ONLY Balanced(b), BalancesOf
  <1>3. /\ b.c.skill.rank <= b.c.battleRank /\ AddsUp(b.c, b.due, b.wrapped)
        /\ Backed(b.c.skills, b.credit - b.c.skill.point)
    BY ONLY Balanced(b) DEF Balanced
  <1>4. /\ b.c.count \in 0 .. MaxQuests
        /\ ListedOnce(b.c) /\ NoneDone(b.c, b.c.flags)
        /\ Counted(b.c, b.since)
        /\ b.c.exp <= b.gained + ExpOf(b.c.flags)
    BY ONLY Questing(b) DEF Questing
  <1>5. Marks(char, b.c) /\ b.c.quick = char.quick /\ gained <= b.gained
    BY ONLY Advances(Before, b) DEF Advances, Before
  <1>6. torn \/ NumberedOnce(char.quick)
    BY Holding
  <1> QED BY ONLY <1>1, <1>2, <1>3, <1>4, <1>5, <1>6, ProgressInv, orderly, StepKeeps

\* The mobs and rewards of a session give no negative points.
LEMMA PlanIs ==
    ASSUME ProgressInv
    PROVE  /\ plan.acts \subseteq Seq(Int)
           /\ \A m \in plan.mobs : m.exp \in Nat /\ m.skillExp \in Nat
           /\ \A r \in plan.rewards : r.kind \in {"exp", "skillExp", "honor"} /\ r.n \in Nat
           /\ plan.slots \subseteq 0 .. Width - 1 /\ plan.levels \subseteq Int
           /\ plan.quick \subseteq Nat /\ plan.adds \subseteq [Stats -> Int]
           /\ \A b \in plan.books : /\ b.id \in DOMAIN Training
                                    /\ b.level \in 0 .. Len(Training[b.id])
  <1>1. PICK start \in Starts : plan = start.plan
    BY Holding
  <1>2. LET p == start.plan
        IN  /\ p.acts \subseteq Seq(Int)
            /\ \A m \in p.mobs : m.exp \in Nat /\ m.skillExp \in Nat
            /\ \A r \in p.rewards : r.kind \in {"exp", "skillExp", "honor"} /\ r.n \in Nat
            /\ p.slots \subseteq 0 .. Width - 1 /\ p.levels \subseteq Int
            /\ p.quick \subseteq Nat /\ p.adds \subseteq [Stats -> Int]
            /\ \A b \in p.books : /\ b.id \in DOMAIN Training
                                  /\ b.level \in 0 .. Len(Training[b.id])
    BY StartsAssumption
  <1> QED BY ONLY <1>1, <1>2

LEMMA BeforeIs ==
    ASSUME ProgressInv, orderly
    PROVE  Balanced(Before) /\ Questing(Before)
  BY DEF ProgressInv

LEMMA BattleKeeps ==
    ASSUME ProgressInv, orderly, Battle
    PROVE  ProgressInv'
  <1>1. /\ \A hit \in Hits : hit.mob.exp \in Nat /\ hit.mob.skillExp \in Nat
        /\ \A r \in plan.rewards : r.kind \in {"exp", "skillExp", "honor"} /\ r.n \in Nat
    BY PlanIs DEF Hits
  <1>2. Balanced(Before) /\ Questing(Before)
    BY BeforeIs
  <1>3. ASSUME NEW hit \in Hits, AttackToMob(hit) PROVE ProgressInv'
    <2> DEFINE x == Gained(Before, hit.mob)
               b == Struck(x, hit)
    <2>1. Balanced(x) /\ Questing(x) /\ Advances(Before, x)
      BY <1>1, <1>2, GainedIs
    <2>2. Becomes(b)
      BY <1>3 DEF AttackToMob
    <2> HIDE DEF x
    <2>3. Balanced(b) /\ Questing(b) /\ Advances(x, b)
      BY <2>1, StruckIs
    <2> HIDE DEF b
    <2>4. Advances(Before, b)
      BY <1>2, <2>1, <2>3, AdvancesOn
    <2> QED BY ONLY <2>2, <2>3, <2>4, ProgressInv, orderly, BecomesKeeps
  <1>4. ASSUME NEW at, NEW n \in 1 .. MaxTargets, NEW hits \in [1 .. n -> Hits],
               SkillToMob(at, hits)
        PROVE  ProgressInv'
    <2>1. Len(hits) = n /\ Len(hits) \in Nat
      <3>1. MaxTargets \in Int => n \in Nat
        OBVIOUS
      <3>2. n \in Nat
        BY <3>1
      <3>3. hits \in Seq(Hits)
        BY <3>2
      <3> QED BY <3>2, <3>3
    <2>2. \A i \in 1 .. Len(hits) : hits[i].mob.exp \in Nat /\ hits[i].mob.skillExp \in Nat
      BY <1>1, <2>1
    <2> DEFINE struck[i \in 0 .. Len(hits)] ==
                   IF i = 0 THEN Before ELSE OneHit(struck[i - 1], hits[i])
               b == struck[Len(hits)]
    <2>3. Becomes(b)
      BY <1>4 DEF SkillToMob, OneHit
    <2>4. Balanced(b) /\ Questing(b) /\ Advances(Before, b)
      BY ONLY <1>2, <2>1, <2>2, AllHits
    <2> HIDE DEF b
    <2> QED BY ONLY <2>3, <2>4, ProgressInv, orderly, BecomesKeeps
  <1>5. ASSUME NEW r \in plan.rewards, ImmediateReward(r) PROVE ProgressInv'
    <2>0. r.n \in Nat /\ r.n \in Int /\ r.kind \in {"exp", "skillExp", "honor"}
      BY <1>1
    <2>1. CASE r.kind = "exp"
      <3> DEFINE b == Gained(Before, [exp |-> r.n])
      <3>1. Balanced(b) /\ Questing(b) /\ Advances(Before, b)
        <4> DEFINE m == [exp |-> r.n]
        <4>1. m.exp \in Nat
          BY <2>0
        <4> HIDE DEF m
        <4>2. /\ Balanced(Gained(Before, m)) /\ Questing(Gained(Before, m))
              /\ Advances(Before, Gained(Before, m))
          BY ONLY <1>2, <4>1, GainedIs
        <4> QED BY <4>2 DEF m
      <3>2. Becomes(b)
        BY <1>5, <2>1 DEF ImmediateReward
      <3> HIDE DEF b
      <3> QED BY ONLY <3>1, <3>2, ProgressInv, orderly, BecomesKeeps
    <2>2. CASE r.kind = "skillExp"
      <3> DEFINE b == SkillGained(Before, [skillExp |-> r.n])
      <3>1. Balanced(b) /\ Questing(b) /\ Advances(Before, b)
        <4> DEFINE m == [skillExp |-> r.n]
        <4>1. m.skillExp \in Nat
          BY <2>0
        <4> HIDE DEF m
        <4>2. /\ Balanced(SkillGained(Before, m)) /\ Questing(SkillGained(Before, m))
              /\ Advances(Before, SkillGained(Before, m))
          BY ONLY <1>2, <4>1, SkillGainedIs
        <4> QED BY <4>2 DEF m
      <3>2. Becomes(b)
        BY <1>5, <2>2 DEF ImmediateReward
      <3> HIDE DEF b
      <3> QED BY ONLY <3>1, <3>2, ProgressInv, orderly, BecomesKeeps
    <2>3. CASE r.kind = "honor"
      <3> DEFINE b == [Before EXCEPT !.c = AddHonorPoint(@, r.n)]
      <3>1. Balanced(b) /\ Questing(b) /\ Advances(Before, b)
        <4> DEFINE n == r.n
        <4>1. n \in Int
          BY <2>0
        <4> HIDE DEF n
        <4> DEFINE a == [Before EXCEPT !.c = AddHonorPoint(@, n)]
        <4>2. Balanced(a) /\ Questing(a) /\ Advances(Before, a)
          BY ONLY <1>2, <4>1, HonorGainedIs
        <4> QED BY <4>2 DEF n
      <3>2. Becomes(b)
        BY <1>5, <2>3 DEF ImmediateReward
      <3> HIDE DEF b
      <3> QED BY ONLY <3>1, <3>2, ProgressInv, orderly, BecomesKeeps
    <2> QED BY <2>0, <2>1, <2>2, <2>3
  <1> QED BY ONLY <1>3, <1>4, <1>5, Battle DEF Battle

LEMMA CountedFault ==
    ASSUME CountFault, ~fault'
    PROVE  char'.count \in 0 .. MaxQuests
  BY DEF CountFault

LEMMA BeginKept ==
    ASSUME ProgressInv, ~fault, orderly, NEW q, NEW s \in QuestNo, Begin(q, s)
    PROVE  ProgressInv'
  <1> DEFINE d == QuestBegin(char, q, s)
             after == [since EXCEPT ![q] = NoCounts]
  <1>1. /\ q \in DOMAIN Quests /\ q \notin char.flags
        /\ char' = d /\ since' = after /\ CountFault
        /\ orderly' = (orderly /\ (s = char.count /\ q \notin Listed(char)))
        /\ saved' = saved /\ plan' = plan /\ torn' = torn /\ lost' = lost
        /\ gained' = gained /\ due' = due /\ wrapped' = wrapped /\ credit' = credit
    BY DEF Begin, CanBegin, Orderly
  <1>2. /\ char \in Characters /\ gained \in Int /\ since \in [DOMAIN Quests -> KillCounts]
        /\ due \in Int /\ credit \in Int
        /\ char.skill.rank <= char.battleRank /\ AddsUp(char, due, wrapped)
        /\ wrapped \in BOOLEAN
        /\ Backed(char.skills, credit - char.skill.point)
        /\ torn \/ NumberedOnce(char.quick)
    BY Holding
  <1>3. /\ char.count \in 0 .. MaxQuests
        /\ ListedOnce(char) /\ NoneDone(char, char.flags)
        /\ Counted(char, since)
        /\ char.exp <= gained + ExpOf(char.flags)
    BY Holding
  <1>4. /\ d \in Characters /\ d.count = char.count + 1
        /\ d.exp = char.exp /\ d.stats = char.stats /\ d.points = char.points
        /\ d.battleRank = char.battleRank /\ d.skill = char.skill
        /\ d.skills = char.skills /\ d.quick = char.quick /\ d.flags = char.flags
        /\ d.mask = char.mask \cup {"QUESTSLOT"}
    BY ONLY <1>1, <1>2, s \in QuestNo, QuestBeginIs
  <1>5. after \in [DOMAIN Quests -> KillCounts]
    <2>1. NoCounts \in KillCounts
      BY NoQuestIs
    <2> QED BY ONLY <1>2, <2>1
  <1>6. ASSUME s = char.count, q \notin Listed(char)
        PROVE  /\ d.count \in 0 .. MaxQuests
               /\ ListedOnce(d) /\ NoneDone(d, d.flags) /\ Counted(d, after)
    <2>1. char.count \in QuestNo
      BY ONLY <1>6, s \in QuestNo
    <2> HIDE DEF after, d
    <2> DEFINE e == QuestBegin(char, q, char.count)
    <2>2. /\ e.count \in 0 .. MaxQuests /\ ListedOnce(e) /\ NoneDone(e, e.flags)
          /\ Counted(e, [since EXCEPT ![q] = NoCounts])
      BY ONLY <1>1, <1>2, <1>3, <1>6, <2>1, BeginKeeps
    <2>3. e = d
      BY ONLY <1>6 DEF d
    <2> HIDE DEF e
    <2> QED BY ONLY <2>2, <2>3 DEF after
  <1> HIDE DEF d, after
  <1>7. AddsUp(d, due, wrapped)
    BY ONLY <1>2, <1>4, SameAddsUp
  <1>8. Marks(char, d)
    BY ONLY <1>4 DEF Marks
  <1>9. gained <= gained' /\ gained' \in Int
    BY ONLY <1>1, <1>2
  <1>10. orderly' => /\ char'.count \in 0 .. MaxQuests
                     /\ ListedOnce(char') /\ NoneDone(char', char'.flags)
                     /\ Counted(char', since')
                     /\ char'.exp <= gained' + ExpOf(char'.flags)
                     /\ Marks(char, char')
    BY ONLY <1>1, <1>3, <1>4, <1>6, <1>8
  <1>11. ~fault' => char'.count \in 0 .. MaxQuests
    BY ONLY <1>1, CountedFault
  <1>12. /\ char' \in Characters /\ since' \in [DOMAIN Quests -> KillCounts]
         /\ due' \in Int /\ credit' \in Int
         /\ char'.skill.rank <= char'.battleRank /\ AddsUp(char', due', wrapped')
         /\ wrapped' \in BOOLEAN
         /\ Backed(char'.skills, credit' - char'.skill.point)
         /\ torn' \/ NumberedOnce(char'.quick)
    BY ONLY <1>1, <1>2, <1>4, <1>5, <1>7
  <1> QED BY ONLY <1>1, <1>9, <1>10, <1>11, <1>12, ProgressInv, orderly, StepKeeps

LEMMA CancelKept ==
    ASSUME ProgressInv, ~fault, orderly, NEW q, NEW s \in QuestNo, Cancel(q, s)
    PROVE  ProgressInv'
  <1> DEFINE d == QuestCancel(char, s)
  <1>1. /\ char' = d /\ CountFault /\ orderly' = (orderly /\ s < char.count)
        /\ saved' = saved /\ plan' = plan /\ torn' = torn /\ lost' = lost
        /\ gained' = gained /\ since' = since /\ due' = due /\ wrapped' = wrapped /\ credit' = credit
    BY DEF Cancel, Orderly
  <1>2. /\ char \in Characters /\ gained \in Int /\ since \in [DOMAIN Quests -> KillCounts]
        /\ due \in Int /\ credit \in Int
        /\ char.skill.rank <= char.battleRank /\ AddsUp(char, due, wrapped)
        /\ wrapped \in BOOLEAN
        /\ Backed(char.skills, credit - char.skill.point)
        /\ torn \/ NumberedOnce(char.quick)
    BY Holding
  <1>3. /\ char.count \in 0 .. MaxQuests
        /\ ListedOnce(char) /\ NoneDone(char, char.flags)
        /\ Counted(char, since)
        /\ char.exp <= gained + ExpOf(char.flags)
    BY Holding
  <1>4. /\ d \in Characters /\ d.count = char.count - 1
        /\ d.exp = char.exp /\ d.stats = char.stats /\ d.points = char.points
        /\ d.battleRank = char.battleRank /\ d.skill = char.skill
        /\ d.skills = char.skills /\ d.quick = char.quick /\ d.flags = char.flags
        /\ d.mask = char.mask \cup {"QUESTSLOT"}
        /\ char.count \in 0 .. MaxQuests /\ s < char.count => Without(char, d, s)
    BY ONLY <1>2, s \in QuestNo, QuestCancelIs
  <1> HIDE DEF d
  <1>5. ASSUME s < char.count
        PROVE  /\ d.count \in 0 .. MaxQuests
               /\ ListedOnce(d) /\ NoneDone(d, d.flags) /\ Counted(d, since)
    <2>0. MaxQuests \in Nat
      BY Sizes
    <2>1. s \in 0 .. char.count - 1 /\ char.count \in Nat /\ d.count \in 0 .. MaxQuests
      BY ONLY <1>3, <1>4, <1>5, <2>0, s \in QuestNo DEF QuestNo
    <2>2. Without(char, d, s)
      BY ONLY <1>3, <1>4, <1>5
    <2>3. /\ ListedOnce(char) => ListedOnce(d)
          /\ \A flags : NoneDone(char, flags) => NoneDone(d, flags)
          /\ \A kills : Counted(char, kills) => Counted(d, kills)
      BY ONLY <2>1, <2>2, WithoutKeeps
    <2> QED BY ONLY <1>3, <1>4, <2>1, <2>3
  <1>6. AddsUp(d, due, wrapped)
    BY ONLY <1>2, <1>4, SameAddsUp
  <1>7. Marks(char, d)
    BY ONLY <1>4 DEF Marks
  <1>8. gained <= gained' /\ gained' \in Int
    BY ONLY <1>1, <1>2
  <1>9. orderly' => /\ char'.count \in 0 .. MaxQuests
                    /\ ListedOnce(char') /\ NoneDone(char', char'.flags)
                    /\ Counted(char', since')
                    /\ char'.exp <= gained' + ExpOf(char'.flags)
                    /\ Marks(char, char')
    BY ONLY <1>1, <1>3, <1>4, <1>5, <1>7
  <1>10. ~fault' => char'.count \in 0 .. MaxQuests
    BY ONLY <1>1, CountedFault
  <1>11. /\ char' \in Characters /\ since' \in [DOMAIN Quests -> KillCounts]
         /\ due' \in Int /\ credit' \in Int
         /\ char'.skill.rank <= char'.battleRank /\ AddsUp(char', due', wrapped')
         /\ wrapped' \in BOOLEAN
         /\ Backed(char'.skills, credit' - char'.skill.point)
         /\ torn' \/ NumberedOnce(char'.quick)
    BY ONLY <1>1, <1>2, <1>4, <1>6
  <1> QED BY ONLY <1>1, <1>8, <1>9, <1>10, <1>11, ProgressInv, orderly, StepKeeps

LEMMA ClearKept ==
    ASSUME ProgressInv, ~fault, orderly, NEW q, NEW s \in QuestNo, Clear(q, s)
    PROVE  ProgressInv'
  <1> DEFINE d == QuestClear(char, q, s)
             gift == Gift(char, q)
             up == IF d.level # char.level THEN 5 ELSE 0
  <1>1. /\ char' = d /\ CountFault /\ orderly' = (orderly /\ s < char.count)
        /\ due' = due + up
        /\ wrapped' = (wrapped \/ char.points + up >= Width)
        /\ credit' = credit + gift + (d.skill.point - char.skill.point)
        /\ saved' = saved /\ plan' = plan /\ torn' = torn /\ lost' = lost
        /\ gained' = gained /\ since' = since
    BY DEF Clear, Up, Orderly, GiftsOf, Gift, WorthOfGifts
  <1>2. /\ char \in Characters /\ gained \in Int /\ since \in [DOMAIN Quests -> KillCounts]
        /\ due \in Int /\ credit \in Int /\ char.skill.point \in Int
        /\ char.skill.rank <= char.battleRank /\ AddsUp(char, due, wrapped)
        /\ wrapped \in BOOLEAN
        /\ Backed(char.skills, credit - char.skill.point)
        /\ torn \/ NumberedOnce(char.quick)
        /\ char.flags \in SUBSET DOMAIN Quests /\ ExpOf(char.flags) \in Nat /\ char.exp \in Nat
    BY Holding
  <1>3. /\ char.count \in 0 .. MaxQuests
        /\ ListedOnce(char) /\ NoneDone(char, char.flags)
        /\ Counted(char, since)
        /\ char.exp <= gained + ExpOf(char.flags)
    BY Holding
  <1>a. CanClear(char, q, s)
    BY DEF Clear
  <1>b. q \in DOMAIN Quests /\ char.quests[s].q = q
    BY ONLY <1>a DEF CanClear
  <1>4. /\ d \in Characters /\ d.quick = char.quick /\ d.stats = char.stats
        /\ d.points = (char.points + up) % Width
        /\ d.skill.rank <= d.battleRank
        /\ d.exp = char.exp + Quests[q].exp
        /\ d.flags = char.flags \cup {q}
        /\ char.mask \cup {"INFO", "QUESTFLAG", "QUESTSLOT"} \subseteq d.mask
        /\ d.count = char.count - 1
        /\ char.count \in 0 .. MaxQuests /\ s < char.count => Without(char, d, s)
        /\ gift \in Nat
        /\ \A budget \in Int : Backed(char.skills, budget) => Backed(d.skills, budget + gift)
    BY ONLY <1>2, <1>a, s \in QuestNo, QuestClearIs
  <1> HIDE DEF d, gift
  <1>5. ASSUME s < char.count
        PROVE  /\ d.count \in 0 .. MaxQuests
               /\ ListedOnce(d) /\ NoneDone(d, d.flags) /\ Counted(d, since)
               /\ d.exp <= gained + ExpOf(d.flags)
    <2>0. MaxQuests \in Nat
      BY Sizes
    <2>1. s \in 0 .. char.count - 1 /\ char.count \in Nat /\ d.count \in 0 .. MaxQuests
      BY ONLY <1>3, <1>4, <1>5, <2>0, s \in QuestNo DEF QuestNo
    <2>2. Without(char, d, s)
      BY ONLY <1>3, <1>4, <1>5
    <2>3. /\ ListedOnce(char) => /\ ListedOnce(d)
                                 /\ \A i \in 0 .. d.count - 1 : d.quests[i].q # char.quests[s].q
          /\ \A flags : NoneDone(char, flags) => NoneDone(d, flags)
          /\ \A kills : Counted(char, kills) => Counted(d, kills)
      BY ONLY <2>1, <2>2, WithoutKeeps
    <2>4. NoneDone(d, char.flags) /\ \A i \in 0 .. d.count - 1 : d.quests[i].q # q
      BY ONLY <1>3, <1>b, <2>3
    <2>5. NoneDone(d, d.flags)
      BY ONLY <1>4, <2>4 DEF NoneDone
    <2>6. q \in DOMAIN Quests \ char.flags
      BY ONLY <1>3, <1>b, <2>1 DEF NoneDone
    <2>7. ExpOf(d.flags) = ExpOf(char.flags) + Quests[q].exp
      BY ONLY <1>2, <1>4, <2>6, ExpOfIs
    <2>8. Quests[q].exp \in Nat
      BY <1>b, QuestData
    <2> DEFINE x == ExpOf(char.flags)
               y == ExpOf(d.flags)
               z == Quests[q].exp
    <2>9. /\ y = x + z /\ x \in Nat /\ z \in Nat
          /\ char.exp <= gained + x /\ d.exp = char.exp + z
      BY ONLY <1>2, <1>3, <1>4, <2>7, <2>8
    <2> HIDE DEF x, y, z
    <2>10. d.exp <= gained + y
      BY ONLY <1>2, <2>9
    <2> QED BY ONLY <1>3, <2>1, <2>3, <2>5, <2>10 DEF y
  <1>6. AddsUp(d, due', wrapped') /\ wrapped' \in BOOLEAN /\ due' \in Int
    <2>1. up \in Nat
      OBVIOUS
    <2> HIDE DEF up
    <2>2. AddsUp(d, due + up, wrapped')
      BY ONLY <1>1, <1>2, <1>4, <2>1, UpAdds
    <2> QED BY ONLY <1>1, <1>2, <2>1, <2>2
  <1>7. d.skill.point \in Int
    BY ONLY <1>4, FieldsOf
  <1>8. credit' \in Int /\ credit' - d.skill.point = (credit - char.skill.point) + gift
        /\ credit - char.skill.point \in Int
    <2> DEFINE x == d.skill.point
               y == char.skill.point
    <2>1. x \in Int /\ y \in Int /\ gift \in Int /\ credit' = credit + gift + (x - y)
      BY ONLY <1>1, <1>2, <1>4, <1>7
    <2> HIDE DEF x, y
    <2>2. credit' \in Int /\ credit' - x = (credit - y) + gift /\ credit - y \in Int
      BY ONLY <1>2, <2>1
    <2> QED BY ONLY <2>2 DEF x, y
  <1>9. Backed(d.skills, credit' - d.skill.point)
    BY ONLY <1>2, <1>4, <1>8
  <1>10. Marks(char, d)
    BY ONLY <1>4 DEF Marks
  <1>11. gained <= gained' /\ gained' \in Int
    BY ONLY <1>1, <1>2
  <1>12. orderly' => /\ char'.count \in 0 .. MaxQuests
                     /\ ListedOnce(char') /\ NoneDone(char', char'.flags)
                     /\ Counted(char', since')
                     /\ char'.exp <= gained' + ExpOf(char'.flags)
                     /\ Marks(char, char')
    BY ONLY <1>1, <1>5, <1>10
  <1>13. ~fault' => char'.count \in 0 .. MaxQuests
    BY ONLY <1>1, CountedFault
  <1>14. /\ char' \in Characters /\ since' \in [DOMAIN Quests -> KillCounts]
         /\ due' \in Int /\ credit' \in Int
         /\ char'.skill.rank <= char'.battleRank /\ AddsUp(char', due', wrapped')
         /\ wrapped' \in BOOLEAN
         /\ Backed(char'.skills, credit' - char'.skill.point)
         /\ torn' \/ NumberedOnce(char'.quick)
    BY ONLY <1>1, <1>2, <1>4, <1>6, <1>8, <1>9
  <1> QED BY ONLY <1>1, <1>11, <1>12, <1>13, <1>14, ProgressInv, orderly, StepKeeps

\* What has to be shown of a step that leaves exp and quests alone.
LEMMA PractisedKeeps ==
    ASSUME ProgressInv, ~fault, orderly, NEW d \in Characters, char' = d,
           d.exp = char.exp, d.quests = char.quests, d.count = char.count,
           d.flags = char.flags, char.mask \subseteq d.mask,
           AddsUp(d, due, wrapped'), wrapped' \in BOOLEAN, d.skill.rank <= d.battleRank,
           credit' \in Int, Backed(d.skills, credit' - d.skill.point),
           torn' \/ NumberedOnce(d.quick),
           saved' = saved, plan' = plan, fault' = fault, lost' = lost, gained' = gained,
           since' = since, due' = due
    PROVE  ProgressInv'
  <1>1. /\ gained \in Int /\ since \in [DOMAIN Quests -> KillCounts] /\ due \in Int
        /\ char.count \in 0 .. MaxQuests
        /\ ListedOnce(char) /\ NoneDone(char, char.flags)
        /\ Counted(char, since)
        /\ char.exp <= gained + ExpOf(char.flags)
    BY Holding
  <1>2. ListedOnce(d) /\ NoneDone(d, d.flags) /\ Counted(d, since)
    BY ONLY <1>1, d.quests = char.quests, d.count = char.count, d.flags = char.flags
       DEF ListedOnce, NoneDone, Counted
  <1>3. Marks(char, d)
    BY DEF Marks, SameQuests
  <1>4. orderly' => /\ char'.count \in 0 .. MaxQuests
                    /\ ListedOnce(char') /\ NoneDone(char', char'.flags)
                    /\ Counted(char', since')
                    /\ char'.exp <= gained' + ExpOf(char'.flags)
                    /\ Marks(char, char')
    BY ONLY <1>1, <1>2, <1>3, char' = d, since' = since, gained' = gained,
            d.exp = char.exp, d.count = char.count, d.flags = char.flags
  <1>5. gained <= gained' /\ gained' \in Int /\ (~fault' => char'.count \in 0 .. MaxQuests)
    BY ONLY <1>1, gained' = gained, char' = d, d.count = char.count
  <1>6. /\ char' \in Characters /\ since' \in [DOMAIN Quests -> KillCounts]
        /\ due' \in Int /\ credit' \in Int
        /\ char'.skill.rank <= char'.battleRank /\ AddsUp(char', due', wrapped')
        /\ wrapped' \in BOOLEAN
        /\ Backed(char'.skills, credit' - char'.skill.point)
        /\ torn' \/ NumberedOnce(char'.quick)
    BY <1>1
  <1> QED BY ONLY <1>4, <1>5, <1>6, ProgressInv, orderly, saved' = saved, plan' = plan,
             lost' = lost, StepKeeps

LEMMA ClearUnrewardedKept ==
    ASSUME ProgressInv, ~fault, orderly, NEW q, NEW s \in QuestNo, ClearUnrewarded(q, s)
    PROVE  ProgressInv'
  <1> DEFINE d == Ranked(char, q)
             gift == Gift(char, q)
  <1>1. /\ char' = d /\ credit' = credit + gift
        /\ saved' = saved /\ plan' = plan /\ fault' = fault /\ torn' = torn /\ lost' = lost
        /\ gained' = gained /\ since' = since /\ due' = due /\ wrapped' = wrapped
    BY DEF ClearUnrewarded, GiftsOf, Gift, WorthOfGifts
  <1>2. q \in DOMAIN Quests /\ (Quests[q].rankUp => CanBattleRankUp(char))
    BY DEF ClearUnrewarded, CanClear
  <1>3. /\ char \in Characters /\ credit \in Int /\ char.skill.point \in Int
        /\ char.skill.rank <= char.battleRank /\ AddsUp(char, due, wrapped)
        /\ wrapped \in BOOLEAN
        /\ Backed(char.skills, credit - char.skill.point)
        /\ torn \/ NumberedOnce(char.quick)
    BY Holding
  <1>4. /\ d \in Characters /\ Practised(char, d) /\ d.quick = char.quick
        /\ d.skill = char.skill /\ char.battleRank <= d.battleRank
        /\ char.battleRank \in Int /\ d.battleRank \in Int
        /\ gift \in Nat
        /\ \A budget \in Int : Backed(char.skills, budget) => Backed(d.skills, budget + gift)
    BY ONLY <1>2, <1>3, RankedIs
  <1> HIDE DEF d, gift
  <1>5. char.skill.rank \in Int
    <2>1. SkillRanks \in Seq([exp : Nat \ {0}, end : Nat])
      BY CharacterAssumption
    <2>2. DOMAIN SkillRanks \subseteq Int
      BY ONLY <2>1
    <2> QED BY ONLY <2>2, FieldsOf, <1>3
  <1>6. d.skill.rank <= d.battleRank
    BY ONLY <1>3, <1>4, <1>5
  <1>7. /\ credit' \in Int /\ credit' - d.skill.point = (credit - char.skill.point) + gift
        /\ credit - char.skill.point \in Int
    BY ONLY <1>1, <1>3, <1>4
  <1>8. Backed(d.skills, credit' - d.skill.point)
    BY ONLY <1>3, <1>4, <1>7
  <1>9. /\ d.exp = char.exp /\ d.quests = char.quests /\ d.count = char.count
        /\ d.flags = char.flags /\ char.mask \subseteq d.mask
        /\ d.stats = char.stats /\ d.points = char.points
    BY ONLY <1>4 DEF Practised
  <1>10. AddsUp(d, due, wrapped') /\ wrapped' \in BOOLEAN
    BY ONLY <1>1, <1>3, <1>9, SameAddsUp
  <1>11. torn' \/ NumberedOnce(d.quick)
    BY ONLY <1>1, <1>3, <1>4
  <1> QED BY ONLY <1>1, <1>4, <1>6, <1>7, <1>8, <1>9, <1>10, <1>11,
             ProgressInv, ~fault, orderly, PractisedKeeps

LEMMA SkillBookKept ==
    ASSUME ProgressInv, ~fault, orderly, NEW book \in plan.books, NEW at \in plan.slots,
           SkillBook(book, at)
    PROVE  ProgressInv'
  <1> DEFINE level == Max({1, book.level})
             d == AddSkillSlot(char, book.id, level, at)
             cost == TrainingCost(book.id, 0, level)
  <1>1. /\ char' = d /\ credit' = credit + (IF d = char THEN 0 ELSE cost)
        /\ saved' = saved /\ plan' = plan /\ fault' = fault /\ torn' = torn /\ lost' = lost
        /\ gained' = gained /\ since' = since /\ due' = due /\ wrapped' = wrapped
    BY DEF SkillBook
  <1>2. at \in 0 .. Width - 1 /\ book.id \in DOMAIN Training
        /\ book.level \in 0 .. Len(Training[book.id])
    BY PlanIs
  <1>3. level \in Nat /\ level <= Len(Training[book.id])
    <2>1. Len(Training[book.id]) \in Nat \ {0}
      BY ONLY <1>2, PointsAre
    <2>2. book.level \in Int /\ 1 \in Int
      BY ONLY <1>2, <2>1
    <2>3. level = IF 1 >= book.level THEN 1 ELSE book.level
      BY ONLY <2>2, MaxOfTwo
    <2> QED BY ONLY <1>2, <2>1, <2>3
  <1>4. /\ char \in Characters /\ credit \in Int /\ char.skill.point \in Int
        /\ char.skill.rank <= char.battleRank /\ AddsUp(char, due, wrapped)
        /\ wrapped \in BOOLEAN
        /\ Backed(char.skills, credit - char.skill.point)
        /\ torn \/ NumberedOnce(char.quick)
    BY Holding
  <1> HIDE DEF level
  <1>5. /\ d \in Characters /\ Practised(char, d) /\ d.quick = char.quick
        /\ d.skill = char.skill /\ d.battleRank = char.battleRank
        /\ \A budget \in Int : Backed(char.skills, budget) =>
              /\ Backed(d.skills, budget + cost)
              /\ d = char => Backed(d.skills, budget)
        /\ cost \in Nat
    BY ONLY <1>2, <1>3, <1>4, AddSkillSlotIs
  <1> HIDE DEF d, cost
  <1>6. /\ credit' \in Int /\ credit - char.skill.point \in Int
        /\ d = char => credit' - d.skill.point = credit - char.skill.point
        /\ d # char => credit' - d.skill.point = (credit - char.skill.point) + cost
    BY ONLY <1>1, <1>4, <1>5
  <1>7. Backed(d.skills, credit' - d.skill.point)
    BY ONLY <1>4, <1>5, <1>6
  <1>8. /\ d.exp = char.exp /\ d.quests = char.quests /\ d.count = char.count
        /\ d.flags = char.flags /\ char.mask \subseteq d.mask
        /\ d.stats = char.stats /\ d.points = char.points
    BY ONLY <1>5 DEF Practised
  <1>9. AddsUp(d, due, wrapped') /\ wrapped' \in BOOLEAN
    BY ONLY <1>1, <1>4, <1>8, SameAddsUp
  <1>10. d.skill.rank <= d.battleRank /\ (torn' \/ NumberedOnce(d.quick))
    BY ONLY <1>1, <1>4, <1>5
  <1> QED BY ONLY <1>1, <1>5, <1>6, <1>7, <1>8, <1>9, <1>10,
             ProgressInv, ~fault, orderly, PractisedKeeps

LEMMA AddStatsKept ==
    ASSUME ProgressInv, ~fault, orderly, NEW add \in plan.adds, AddCharacterStats(add)
    PROVE  ProgressInv'
  <1> DEFINE d == AddStats(char, add)
  <1>1. /\ char' = d /\ credit' = credit
        /\ saved' = saved /\ plan' = plan /\ fault' = fault /\ torn' = torn /\ lost' = lost
        /\ gained' = gained /\ since' = since /\ due' = due
        /\ char.points >= Required(add)
        /\ wrapped' = (wrapped \/ char.points - Required(add) >= Width
                               \/ \E s \in Stats : char.stats[s] + add[s] \notin 0 .. Width - 1)
    BY DEF AddCharacterStats, Just
  <1>2. add \in [Stats -> Int]
    BY PlanIs
  <1>3. /\ char \in Characters /\ credit \in Int /\ due \in Int
        /\ char.skill.rank <= char.battleRank /\ AddsUp(char, due, wrapped)
        /\ wrapped \in BOOLEAN
        /\ Backed(char.skills, credit - char.skill.point)
        /\ torn \/ NumberedOnce(char.quick)
    BY Holding
  <1>4. /\ d \in Characters /\ StatSum(d) % Width = StatSum(char) % Width
        /\ /\ char.points - Required(add) \in 0 .. Width - 1
           /\ \A s \in Stats : char.stats[s] + add[s] \in 0 .. Width - 1
           => StatSum(d) = StatSum(char)
        /\ d.exp = char.exp /\ d.battleRank = char.battleRank
        /\ d.skill = char.skill /\ d.skills = char.skills /\ d.quick = char.quick
        /\ d.quests = char.quests /\ d.count = char.count /\ d.flags = char.flags
        /\ char.mask \subseteq d.mask
    BY ONLY <1>2, <1>3, AddStatsIs
  <1> HIDE DEF d
  <1>5. ASSUME ~wrapped'
        PROVE  /\ ~wrapped /\ char.points - Required(add) \in 0 .. Width - 1
               /\ \A s \in Stats : char.stats[s] + add[s] \in 0 .. Width - 1
    <2>1. /\ ~wrapped /\ ~(char.points - Required(add) >= Width)
          /\ \A s \in Stats : char.stats[s] + add[s] \in 0 .. Width - 1
      BY ONLY <1>1, <1>5
    <2> DEFINE p == char.points
               u == Required(add)
    <2>2. p \in Int /\ u \in Int
      BY ONLY <1>2, <1>3, StatsOf, SumIs DEF Required
    <2>3. p >= u /\ ~(p - u >= Width)
      BY ONLY <1>1, <2>1
    <2> HIDE DEF p, u
    <2>4. p - u \in 0 .. Width - 1
      BY ONLY <2>2, <2>3, WidthIs
    <2> QED BY ONLY <2>1, <2>4 DEF p, u
  <1>6. AddsUp(d, due, wrapped')
    BY ONLY <1>3, <1>4, <1>5 DEF AddsUp
  <1>7. wrapped' \in BOOLEAN
    BY ONLY <1>1, <1>3
  <1>8. /\ d.skill.rank <= d.battleRank /\ credit' \in Int
        /\ Backed(d.skills, credit' - d.skill.point) /\ (torn' \/ NumberedOnce(d.quick))
    BY ONLY <1>1, <1>3, <1>4
  <1> QED BY ONLY <1>1, <1>4, <1>6, <1>7, <1>8, ProgressInv, ~fault, orderly, PractisedKeeps

LEMMA ChangeLevelKept ==
    ASSUME ProgressInv, ~fault, orderly, NEW at, NEW to \in plan.levels, ChangeLevel(at, to)
    PROVE  ProgressInv'
  <1> DEFINE d == ChangeSkillLevel(char, at, to)
  <1>1. /\ char' = d /\ credit' = credit /\ CanChangeSkillLevel(char, at, to)
        /\ saved' = saved /\ plan' = plan /\ fault' = fault /\ torn' = torn /\ lost' = lost
        /\ gained' = gained /\ since' = since /\ due' = due /\ wrapped' = wrapped
    BY DEF ChangeLevel, Just
  <1>2. to \in Int
    BY PlanIs
  <1>3. /\ char \in Characters /\ credit \in Int
        /\ char.skill.rank <= char.battleRank /\ AddsUp(char, due, wrapped)
        /\ wrapped \in BOOLEAN
        /\ Backed(char.skills, credit - char.skill.point)
        /\ torn \/ NumberedOnce(char.quick)
    BY Holding
  <1>4. /\ d \in Characters /\ Practised(char, d) /\ d.quick = char.quick
        /\ d.skill.rank = char.skill.rank /\ d.battleRank = char.battleRank
        /\ \A credit_ \in Int :
              Backed(char.skills, credit_ - char.skill.point)
                  => Backed(d.skills, credit_ - d.skill.point)
    BY ONLY <1>1, <1>2, <1>3, ChangeSkillLevelIs
  <1> HIDE DEF d
  <1>5. /\ d.exp = char.exp /\ d.quests = char.quests /\ d.count = char.count
        /\ d.flags = char.flags /\ char.mask \subseteq d.mask
        /\ d.stats = char.stats /\ d.points = char.points
    BY ONLY <1>4 DEF Practised
  <1>6. AddsUp(d, due, wrapped') /\ wrapped' \in BOOLEAN
    BY ONLY <1>1, <1>3, <1>5, SameAddsUp
  <1>7. /\ d.skill.rank <= d.battleRank /\ credit' \in Int
        /\ Backed(d.skills, credit' - d.skill.point) /\ (torn' \/ NumberedOnce(d.quick))
    BY ONLY <1>1, <1>3, <1>4
  <1> QED BY ONLY <1>1, <1>4, <1>5, <1>6, <1>7, ProgressInv, ~fault, orderly, PractisedKeeps

LEMMA SlottedKeeps ==
    ASSUME ProgressInv, ~fault, orderly, NEW d \in Characters, Slotted(char, d), Just(d),
           torn' \/ NumberedOnce(d.quick), wrapped' = wrapped
    PROVE  ProgressInv'
  <1>1. /\ char' = d /\ credit' = credit
        /\ saved' = saved /\ plan' = plan /\ fault' = fault /\ lost' = lost
        /\ gained' = gained /\ since' = since /\ due' = due /\ wrapped' = wrapped
    BY DEF Just
  <1>2. /\ char \in Characters /\ credit \in Int
        /\ char.skill.rank <= char.battleRank /\ AddsUp(char, due, wrapped)
        /\ wrapped \in BOOLEAN
        /\ Backed(char.skills, credit - char.skill.point)
    BY Holding
  <1>3. /\ d.exp = char.exp /\ d.quests = char.quests /\ d.count = char.count
        /\ d.flags = char.flags /\ char.mask \subseteq d.mask
        /\ d.stats = char.stats /\ d.points = char.points
        /\ d.skill = char.skill /\ d.skills = char.skills /\ d.battleRank = char.battleRank
    BY DEF Slotted, Practised
  <1>4. AddsUp(d, due, wrapped') /\ wrapped' \in BOOLEAN
    BY ONLY <1>1, <1>2, <1>3, SameAddsUp
  <1>5. /\ d.skill.rank <= d.battleRank /\ credit' \in Int
        /\ Backed(d.skills, credit' - d.skill.point)
    BY ONLY <1>1, <1>2, <1>3
  <1> QED BY ONLY <1>1, <1>3, <1>4, <1>5, ProgressInv, ~fault, orderly, d \in Characters,
             torn' \/ NumberedOnce(d.quick), PractisedKeeps

LEMMA QuickKept ==
    ASSUME ProgressInv, ~fault, orderly, NEW skill \in Nat, NEW s \in Nat, NEW t \in Nat,
           SetQuickslot(skill, s) \/ UnsetQuickslot(s) \/ SwapQuickslot(s, t)
    PROVE  ProgressInv'
  <1>1. s \in Nat /\ t \in Nat /\ skill \in Nat
    OBVIOUS
  <1>2. char \in Characters /\ (torn \/ NumberedOnce(char.quick))
    BY Holding
  <1>3. CASE SetQuickslot(skill, s)
    <2> DEFINE d == AddQuickSlot(char, skill, s)
    <2>1. Len(char.quick) < MaxSkills /\ Just(d) /\ torn' = torn /\ wrapped' = wrapped
      BY <1>3 DEF SetQuickslot, CanAddQuickSlot
    <2>2. d \in Characters /\ Slotted(char, d) /\ (NumberedOnce(char.quick) => NumberedOnce(d.quick))
      BY ONLY <1>1, <1>2, <2>1, AddQuickSlotIs
    <2> HIDE DEF d
    <2> QED BY ONLY <1>2, <2>1, <2>2, ProgressInv, ~fault, orderly, SlottedKeeps
  <1>4. CASE UnsetQuickslot(s)
    <2> DEFINE d == RemoveQuickSlot(char, s)
    <2>1. /\ InUse(char.quick, s) /\ Just(d) /\ wrapped' = wrapped
          /\ torn' = (torn \/ FirstAt(char.quick, s) + 1 < Len(char.quick))
      BY <1>4 DEF UnsetQuickslot
    <2>2. d \in Characters /\ Slotted(char, d)
          /\ (NumberedOnce(char.quick) /\ ~(FirstAt(char.quick, s) + 1 < Len(char.quick))
                 => NumberedOnce(d.quick))
      BY ONLY <1>1, <1>2, <2>1, RemoveQuickSlotIs
    <2> HIDE DEF d
    <2>3. torn' \/ NumberedOnce(d.quick)
      BY ONLY <1>2, <2>1, <2>2
    <2> QED BY ONLY <2>1, <2>2, <2>3, ProgressInv, ~fault, orderly, SlottedKeeps
  <1>5. CASE SwapQuickslot(s, t)
    <2> DEFINE d == SwapQuickSlot(char, s, t)
    <2>1. InUse(char.quick, s) /\ InUse(char.quick, t) /\ Just(d) /\ torn' = torn /\ wrapped' = wrapped
      BY <1>5 DEF SwapQuickslot
    <2>2. d \in Characters /\ Slotted(char, d) /\ (NumberedOnce(char.quick) => NumberedOnce(d.quick))
      BY ONLY <1>1, <1>2, <2>1, SwapQuickSlotIs
    <2> HIDE DEF d
    <2> QED BY ONLY <1>2, <2>1, <2>2, ProgressInv, ~fault, orderly, SlottedKeeps
  <1> QED BY <1>3, <1>4, <1>5

LEMMA ActKept ==
    ASSUME ProgressInv, ~fault, orderly, NEW q, NEW s \in QuestNo, NEW acts \in plan.acts,
           Act(q, s, acts)
    PROVE  ProgressInv'
  <1>0. acts \in Seq(Int)
    BY PlanIs
  <1>1. PICK dungeon \in BOOLEAN :
           LET d == ActedOn(char, q, s, acts, dungeon)
           IN  /\ char' = d /\ orderly' = (orderly /\ (s < char.count \/ d = char))
               /\ saved' = saved /\ plan' = plan /\ fault' = fault /\ torn' = torn
               /\ lost' = lost /\ gained' = gained /\ since' = since
               /\ due' = due /\ wrapped' = wrapped /\ credit' = credit
    BY DEF Act, Orderly, ActedOn
  <1> DEFINE d == ActedOn(char, q, s, acts, dungeon)
  <1>2. /\ char \in Characters /\ gained \in Int /\ since \in [DOMAIN Quests -> KillCounts]
        /\ due \in Int /\ credit \in Int
        /\ char.skill.rank <= char.battleRank /\ AddsUp(char, due, wrapped)
        /\ wrapped \in BOOLEAN
        /\ Backed(char.skills, credit - char.skill.point)
        /\ torn \/ NumberedOnce(char.quick)
    BY Holding
  <1>3. /\ char.count \in 0 .. MaxQuests
        /\ ListedOnce(char) /\ NoneDone(char, char.flags)
        /\ Counted(char, since)
        /\ char.exp <= gained + ExpOf(char.flags)
    BY Holding
  <1>4. d \in Characters /\ Pursued(char, d) /\ Recounted(char, d)
    BY ONLY <1>0, <1>2, dungeon \in BOOLEAN, s \in QuestNo, ActsDone
  <1>5. /\ char' = d
        /\ saved' = saved /\ plan' = plan /\ fault' = fault /\ torn' = torn
        /\ lost' = lost /\ gained' = gained /\ since' = since
        /\ due' = due /\ wrapped' = wrapped /\ credit' = credit
    BY <1>1
  <1> HIDE DEF d
  <1>6. /\ d.exp = char.exp /\ d.count = char.count /\ d.flags = char.flags
        /\ d.stats = char.stats /\ d.points = char.points
        /\ d.skill = char.skill /\ d.skills = char.skills /\ d.battleRank = char.battleRank
        /\ d.quick = char.quick /\ char.mask \subseteq d.mask
        /\ \A i \in QuestNo : d.quests[i].q = char.quests[i].q
    BY ONLY <1>4 DEF Pursued
  <1>7. ListedOnce(d) /\ NoneDone(d, d.flags) /\ Counted(d, since)
    BY ONLY <1>2, <1>3, <1>4, PursuedKeeps
  <1>8. Marks(char, d)
    <2>1. MaxQuests \in Nat
      BY Sizes
    <2>2. \A i \in 0 .. char.count - 1 : i \in QuestNo
      BY ONLY <1>3, <2>1 DEF QuestNo
    <2>3. SameQuests(char, d)
      BY ONLY <1>6, <2>2 DEF SameQuests
    <2> QED BY ONLY <1>6, <2>3 DEF Marks
  <1>9. AddsUp(d, due, wrapped)
    BY ONLY <1>2, <1>6, SameAddsUp
  <1>10. orderly' => /\ char'.count \in 0 .. MaxQuests
                     /\ ListedOnce(char') /\ NoneDone(char', char'.flags)
                     /\ Counted(char', since')
                     /\ char'.exp <= gained' + ExpOf(char'.flags)
                     /\ Marks(char, char')
    BY ONLY <1>3, <1>5, <1>6, <1>7, <1>8
  <1>11. gained <= gained' /\ gained' \in Int /\ (~fault' => char'.count \in 0 .. MaxQuests)
    BY ONLY <1>2, <1>3, <1>5, <1>6
  <1>12. /\ char' \in Characters /\ since' \in [DOMAIN Quests -> KillCounts]
         /\ due' \in Int /\ credit' \in Int
         /\ char'.skill.rank <= char'.battleRank /\ AddsUp(char', due', wrapped')
         /\ wrapped' \in BOOLEAN
         /\ Backed(char'.skills, credit' - char'.skill.point)
         /\ torn' \/ NumberedOnce(char'.quick)
    BY ONLY <1>2, <1>4, <1>5, <1>6, <1>9
  <1> QED BY ONLY <1>5, <1>10, <1>11, <1>12, ProgressInv, orderly, StepKeeps

\* What is stored of a part, field by field.
LEMMA StoredIs ==
    ASSUME NEW c \in Characters
    PROVE  /\ Stored(c)["QUESTSLOT"].quests = c.quests /\ Stored(c)["QUESTSLOT"].count = c.count
           /\ Stored(c)["QUESTFLAG"] = c.flags /\ Stored(c)["INFO"].exp = c.exp
           /\ ListedOnce(c) => ListedOnce(Stored(c)["QUESTSLOT"])
           /\ SameQuests(c, Stored(c)["QUESTSLOT"])
           /\ \A flags : NoneDone(c, flags) <=> NoneDone(Stored(c)["QUESTSLOT"], flags)
  <1>1. /\ Stored(c)["QUESTSLOT"].quests = c.quests /\ Stored(c)["QUESTSLOT"].count = c.count
        /\ Stored(c)["QUESTFLAG"] = c.flags /\ Stored(c)["INFO"].exp = c.exp
    BY DEF Stored
  <1> DEFINE slots == Stored(c)["QUESTSLOT"]
  <1>2. slots.quests = c.quests /\ slots.count = c.count
    BY <1>1
  <1> HIDE DEF slots
  <1>3. ListedOnce(c) => ListedOnce(slots)
    BY ONLY <1>2 DEF ListedOnce
  <1>4. SameQuests(c, slots)
    BY ONLY <1>2 DEF SameQuests
  <1>5. \A flags : NoneDone(c, flags) <=> NoneDone(slots, flags)
    BY ONLY <1>2 DEF NoneDone
  <1> QED BY ONLY <1>1, <1>3, <1>4, <1>5 DEF slots

\* However the parts of the record and the old copy are mixed, quests are listed
\* once; and nothing that is done is listed again unless an update was lost.
LEMMA SyncKept ==
    ASSUME ProgressInv, ~fault, orderly, SyncDB
    PROVE  ProgressInv'
  <1>1. PICK written \in SUBSET char.mask :
           /\ saved' = [p \in Parts |-> IF p \in written THEN Stored(char)[p] ELSE saved[p]]
           /\ lost' = (lost \ written) \cup (char.mask \ written)
    BY DEF SyncDB
  <1>2. /\ char' = [char EXCEPT !.mask = {}]
        /\ plan' = plan /\ fault' = fault /\ orderly' = orderly /\ torn' = torn
        /\ gained' = gained /\ since' = since /\ due' = due /\ wrapped' = wrapped /\ credit' = credit
    BY DEF SyncDB
  <1>3. /\ char \in Characters /\ gained \in Int /\ since \in [DOMAIN Quests -> KillCounts]
        /\ due \in Int /\ credit \in Int
        /\ char.skill.rank <= char.battleRank /\ AddsUp(char, due, wrapped)
        /\ wrapped \in BOOLEAN
        /\ Backed(char.skills, credit - char.skill.point)
        /\ torn \/ NumberedOnce(char.quick)
        /\ char.exp \in Nat /\ char.flags \in SUBSET DOMAIN Quests
    BY Holding
  <1>4. /\ char.count \in 0 .. MaxQuests
        /\ ListedOnce(char) /\ NoneDone(char, char.flags)
        /\ Counted(char, since)
        /\ char.exp <= gained + ExpOf(char.flags)
        /\ Copied /\ lost \in SUBSET Parts
    BY Holding
  <1>5. /\ char' \in Characters
        /\ char'.exp = char.exp /\ char'.count = char.count /\ char'.flags = char.flags
        /\ char'.stats = char.stats /\ char'.points = char.points
        /\ char'.skill = char.skill /\ char'.skills = char.skills
        /\ char'.battleRank = char.battleRank
        /\ char'.quick = char.quick /\ char'.mask = {} /\ char'.quests = char.quests
    BY ONLY <1>2, <1>3 DEF Characters
  <1>6. char.mask \subseteq Parts
    BY ONLY <1>3, FieldsOf
  <1> DEFINE slots == saved'["QUESTSLOT"]
             flags == saved'["QUESTFLAG"]
             exp == saved'["INFO"].exp
  <1>7. /\ \A p \in Parts : p \in written => saved'[p] = Stored(char)[p]
        /\ \A p \in Parts : p \notin written => saved'[p] = saved[p]
        /\ \A p \in Parts : p \notin written /\ p \notin lost' => p \notin char.mask \cup lost
    BY <1>1
  <1>8. "QUESTSLOT" \in Parts /\ "QUESTFLAG" \in Parts /\ "INFO" \in Parts
    BY DEF Parts
  <1>9. ListedOnce(slots) /\ ("QUESTSLOT" \notin lost' => SameQuests(char, slots))
    <2>1. CASE "QUESTSLOT" \in written
      <3>1. slots = Stored(char)["QUESTSLOT"]
        BY ONLY <1>7, <1>8, <2>1
      <3> HIDE DEF slots
      <3> QED BY ONLY <1>3, <1>4, <3>1, StoredIs
    <2>2. CASE "QUESTSLOT" \notin written
      <3>1. slots = saved["QUESTSLOT"]
            /\ ("QUESTSLOT" \notin lost' => "QUESTSLOT" \notin char.mask \cup lost)
        BY ONLY <1>7, <1>8, <2>2
      <3> HIDE DEF slots
      <3> QED BY ONLY <1>4, <3>1 DEF Copied
    <2> QED BY ONLY <2>1, <2>2
  <1>10. "QUESTFLAG" \notin lost' => flags = char.flags
    <2>1. CASE "QUESTFLAG" \in written
      <3>1. flags = Stored(char)["QUESTFLAG"]
        BY ONLY <1>7, <1>8, <2>1
      <3> HIDE DEF flags
      <3> QED BY ONLY <1>3, <3>1, StoredIs
    <2>2. CASE "QUESTFLAG" \notin written
      <3>1. flags = saved["QUESTFLAG"]
            /\ ("QUESTFLAG" \notin lost' => "QUESTFLAG" \notin char.mask \cup lost)
        BY ONLY <1>7, <1>8, <2>2
      <3> HIDE DEF flags
      <3> QED BY ONLY <1>4, <3>1 DEF Copied
    <2> QED BY ONLY <2>1, <2>2
  <1>11. "INFO" \notin lost' => exp = char.exp
    <2>1. CASE "INFO" \in written
      <3>1. saved'["INFO"] = Stored(char)["INFO"]
        BY ONLY <1>7, <1>8, <2>1
      <3> QED BY ONLY <1>3, <3>1, StoredIs
    <2>2. CASE "INFO" \notin written
      <3>1. saved'["INFO"] = saved["INFO"]
            /\ ("INFO" \notin lost' => "INFO" \notin char.mask \cup lost)
        BY ONLY <1>7, <1>8, <2>2
      <3> QED BY ONLY <1>4, <3>1 DEF Copied
    <2> QED BY ONLY <2>1, <2>2
  <1> HIDE DEF slots, flags, exp
  <1>12. ASSUME lost' = {}
         PROVE  /\ NoneDone(slots, flags) /\ exp <= gained + ExpOf(flags)
                /\ exp \in Nat /\ flags \in SUBSET DOMAIN Quests
    <2>1. SameQuests(char, slots) /\ flags = char.flags /\ exp = char.exp
      BY ONLY <1>9, <1>10, <1>11, <1>12
    <2>2. NoneDone(slots, flags)
      BY ONLY <1>4, <2>1 DEF NoneDone, SameQuests
    <2> QED BY ONLY <1>3, <1>4, <2>1, <2>2
  <1>13. SameQuests(char, slots) => SameQuests(char', slots)
    BY ONLY <1>5 DEF SameQuests
  <1>14. Copied'
    <2>1. /\ ListedOnce(slots)
          /\ "QUESTSLOT" \notin char'.mask \cup lost' => SameQuests(char', slots)
          /\ "QUESTFLAG" \notin char'.mask \cup lost' => flags = char'.flags
          /\ "INFO" \notin char'.mask \cup lost' => exp = char'.exp
          /\ lost' = {} => /\ NoneDone(slots, flags)
                           /\ exp <= gained' + ExpOf(flags)
                           /\ exp \in Nat /\ flags \in SUBSET DOMAIN Quests
      BY ONLY <1>2, <1>5, <1>9, <1>10, <1>11, <1>12, <1>13
    <2> QED BY ONLY <2>1 DEF Copied, slots, flags, exp
  <1>15. ListedOnce(char') /\ NoneDone(char', char'.flags) /\ Counted(char', since)
    BY ONLY <1>4, <1>5 DEF ListedOnce, NoneDone, Counted
  <1> DEFINE b == [c |-> char', gained |-> gained', since |-> since', due |-> due',
                   wrapped |-> wrapped', credit |-> credit']
  <1>16. /\ b.c = char' /\ b.gained = gained /\ b.since = since /\ b.due = due
         /\ b.wrapped = wrapped /\ b.credit = credit /\ b \in Balances
    BY <1>2, <1>3, <1>5 DEF Balances
  <1>17. Before' = b
    BY DEF Before
  <1> HIDE DEF b
  <1>18. Balanced(b)
    <2>1. AddsUp(char', due, wrapped)
      BY ONLY <1>3, <1>5, SameAddsUp
    <2> QED BY ONLY <1>3, <1>5, <1>16, <2>1 DEF Balanced
  <1>19. Questing(b)
    BY ONLY <1>4, <1>5, <1>15, <1>16 DEF Questing
  <1>20. (Balanced(Before))' /\ (Questing(Before))'
    BY ONLY <1>17, <1>18, <1>19
  <1>21. (\E start \in Starts : plan = start.plan)' /\ (lost \in SUBSET Parts)'
    BY <1>1, <1>2, <1>4, <1>6, Holding
  <1>22. (~fault)' => (char.count \in 0 .. MaxQuests)'
    BY ONLY <1>4, <1>5
  <1>23. (torn \/ NumberedOnce(char.quick))'
    BY ONLY <1>2, <1>3, <1>5
  <1> QED BY ONLY <1>14, <1>20, <1>21, <1>22, <1>23 DEF ProgressInv

LEMMA ProgressKept ==
    ASSUME ProgressInv, [Next]_vars
    PROVE  ProgressInv'
  <1>1. CASE UNCHANGED vars
    <2>1. /\ char' = char /\ saved' = saved /\ plan' = plan /\ fault' = fault
          /\ orderly' = orderly /\ torn' = torn /\ lost' = lost /\ gained' = gained
          /\ since' = since /\ due' = due /\ wrapped' = wrapped /\ credit' = credit
      BY <1>1 DEF vars, ghost
    <2>2. Before' = Before
      BY ONLY <2>1 DEF Before
    <2>3. Copied => Copied'
      BY ONLY <2>1 DEF Copied
    <2> QED BY ONLY <2>1, <2>2, <2>3, ProgressInv DEF ProgressInv
  <1>2. CASE Next
    <2>1. ~fault /\ orderly
      BY <1>2 DEF Next
    <2>2. CASE QuestRequest
      <3>1. ASSUME NEW q \in plan.quests, NEW s \in QuestNo,
                   \/ Begin(q, s) \/ Clear(q, s) \/ ClearUnrewarded(q, s) \/ Cancel(q, s)
                   \/ \E acts \in plan.acts : Act(q, s, acts)
            PROVE  ProgressInv'
        <4>1. CASE Begin(q, s)
          BY ONLY <2>1, <4>1, ProgressInv, s \in QuestNo, BeginKept
        <4>2. CASE Clear(q, s)
          BY ONLY <2>1, <4>2, ProgressInv, s \in QuestNo, ClearKept
        <4>3. CASE ClearUnrewarded(q, s)
          BY ONLY <2>1, <4>3, ProgressInv, s \in QuestNo, ClearUnrewardedKept
        <4>4. CASE Cancel(q, s)
          BY ONLY <2>1, <4>4, ProgressInv, s \in QuestNo, CancelKept
        <4>5. ASSUME NEW acts \in plan.acts, Act(q, s, acts) PROVE ProgressInv'
          BY ONLY <2>1, <4>5, ProgressInv, s \in QuestNo, ActKept
        <4> QED BY ONLY <3>1, <4>1, <4>2, <4>3, <4>4, <4>5
      <3> QED BY ONLY <2>2, <3>1 DEF QuestRequest
    <2>3. CASE Battle
      BY ONLY <2>1, <2>3, ProgressInv, BattleKeeps
    <2>4. CASE SkillRequest
      <3>0. plan.slots \subseteq Nat /\ plan.quick \subseteq Nat /\ 0 \in Nat
        <4>1. Width \in Nat /\ plan.slots \subseteq 0 .. Width - 1 /\ plan.quick \subseteq Nat
          BY PlanIs, Sizes
        <4> QED BY ONLY <4>1
      <3>1. ASSUME NEW book \in plan.books, NEW at \in plan.slots, SkillBook(book, at)
            PROVE  ProgressInv'
        BY ONLY <2>1, <3>1, ProgressInv, SkillBookKept
      <3>2. ASSUME NEW add \in plan.adds, AddCharacterStats(add) PROVE ProgressInv'
        BY ONLY <2>1, <3>2, ProgressInv, AddStatsKept
      <3>3. ASSUME NEW at \in plan.slots, NEW to \in plan.levels, ChangeLevel(at, to)
            PROVE  ProgressInv'
        BY ONLY <2>1, <3>3, ProgressInv, ChangeLevelKept
      <3>4. ASSUME NEW skill \in plan.slots, NEW at \in plan.quick, SetQuickslot(skill, at)
            PROVE  ProgressInv'
        <4>1. skill \in Nat /\ at \in Nat
          BY ONLY <3>0, skill \in plan.slots, at \in plan.quick
        <4> QED BY ONLY <2>1, <3>4, <4>1, ProgressInv, QuickKept
      <3>5. ASSUME NEW at \in plan.quick, UnsetQuickslot(at) PROVE ProgressInv'
        <4>1. 0 \in Nat /\ at \in Nat
          BY ONLY <3>0, at \in plan.quick
        <4> QED BY ONLY <2>1, <3>5, <4>1, ProgressInv, QuickKept
      <3>6. ASSUME NEW s \in plan.quick, NEW t \in plan.quick, SwapQuickslot(s, t)
            PROVE  ProgressInv'
        <4>1. 0 \in Nat /\ s \in Nat /\ t \in Nat
          BY ONLY <3>0, s \in plan.quick, t \in plan.quick
        <4> QED BY ONLY <2>1, <3>6, <4>1, ProgressInv, QuickKept
      <3> QED BY ONLY <2>4, <3>1, <3>2, <3>3, <3>4, <3>5, <3>6 DEF SkillRequest
    <2>5. CASE Refused
      BY ONLY <2>5, ProgressInv, RefusedKeeps
    <2>6. CASE SyncDB
      BY ONLY <2>1, <2>6, ProgressInv, SyncKept
    <2> QED BY ONLY <1>2, <2>2, <2>3, <2>4, <2>5, <2>6 DEF Next
  <1> QED BY ONLY <1>1, <1>2, [Next]_vars

-----------------------------------------------------------------------------
(* A login begins with it.                                                 *)

\* No entry with a number costs more than the most that one with it costs.
LEMMA MostIs ==
    ASSUME NEW list \in Seq(SkillSlots), NEW at
    PROVE  /\ MostIn(list, at) \in Nat
           /\ \A i \in DOMAIN list : list[i].at = at => Cost(list[i]) <= MostIn(list, at)
  <1> DEFINE n == Len(list)
             f == [i \in 1 .. n |-> Cost(list[i])]
             T == {0} \cup {Cost(list[i]) : i \in {j \in DOMAIN list : list[j].at = at}}
             m == Total(f)
  <1>1. n \in Nat /\ DOMAIN list = 1 .. n /\ \A i \in DOMAIN list : list[i] \in SkillSlots
    BY Entries
  <1>2. \A i \in 1 .. n : Cost(list[i]) \in Nat
    BY ONLY <1>1, CostIs
  <1>3. f \in [1 .. n -> Nat] /\ \A i \in 1 .. n : f[i] = Cost(list[i])
    BY ONLY <1>2
  <1>4. m \in Nat /\ \A i \in 1 .. n : Cost(list[i]) <= m /\ Cost(list[i]) \in Nat
    <2> HIDE DEF n, f
    <2>1. m \in Nat
      BY ONLY <1>1, <1>3, TotalNat
    <2>2. \A i \in 1 .. n : f[i] <= m
      BY ONLY <1>1, <1>3, EachInTotal
    <2> QED BY ONLY <1>2, <1>3, <2>1, <2>2
  <1>5. T \in SUBSET (0 .. m) /\ T # {}
    <2> HIDE DEF m, n
    <2>1. \A i \in DOMAIN list : Cost(list[i]) \in 0 .. m
      BY ONLY <1>1, <1>4
    <2> QED BY ONLY <1>4, <2>1
  <1>6. Max(T) \in T /\ \A j \in T : j <= Max(T)
    <2> HIDE DEF T, m
    <2> QED BY ONLY <1>4, <1>5, MaxIs
  <1>7. MostIn(list, at) = Max(T)
    BY DEF MostIn
  <1>8. Max(T) \in Nat
    <2> DEFINE x == Max(T)
    <2> HIDE DEF T, m
    <2>1. x \in 0 .. m
      BY ONLY <1>5, <1>6
    <2> HIDE DEF x
    <2>2. x \in Nat
      BY ONLY <1>4, <2>1
    <2> QED BY ONLY <2>2 DEF x
  <1>9. \A i \in DOMAIN list : list[i].at = at => Cost(list[i]) \in T
    OBVIOUS
  <1> HIDE DEF T
  <1> QED BY ONLY <1>6, <1>7, <1>8, <1>9

\* What a character brings is backed by the most its numbers cost.
LEMMA BackedFirst ==
    ASSUME NEW list \in Seq(SkillSlots)
    PROVE  LET sum == Total([n \in 1 .. Width |-> MostIn(list, n - 1)])
           IN  sum \in Nat /\ Backed(list, sum)
  <1> DEFINE worth == [n \in 1 .. Width |-> MostIn(list, n - 1)]
  <1>1. Width \in Nat
    BY Sizes
  <1>2. worth \in [1 .. Width -> Nat]
    BY ONLY list \in Seq(SkillSlots), MostIs
  <1>3. \A i \in DOMAIN list : Cost(list[i]) <= worth[list[i].at + 1]
    <2>1. ASSUME NEW i \in DOMAIN list
          PROVE  Cost(list[i]) <= worth[list[i].at + 1]
      <3>1. list[i] \in SkillSlots
        BY ONLY list \in Seq(SkillSlots), i \in DOMAIN list, Entries
      <3>2. list[i].at \in 0 .. Width - 1
        BY ONLY <3>1, CostIs
      <3> DEFINE at == list[i].at
      <3>3. at + 1 \in 1 .. Width /\ (at + 1) - 1 = at
        BY ONLY <1>1, <3>2
      <3>4. worth[at + 1] = MostIn(list, at)
        <4> HIDE DEF at
        <4> QED BY ONLY <3>3
      <3>5. Cost(list[i]) <= MostIn(list, at)
        BY ONLY list \in Seq(SkillSlots), i \in DOMAIN list, MostIs
      <3> QED BY ONLY <3>4, <3>5
    <2> QED BY ONLY <2>1
  <1> HIDE DEF worth
  <1>4. Total(worth) \in Nat
    BY ONLY <1>1, <1>2, TotalNat
  <1>5. Backed(list, Total(worth))
    <2>1. Total(worth) <= Total(worth)
      BY ONLY <1>4
    <2> QED BY ONLY <1>2, <1>3, <2>1, Zenon DEF Backed
  <1> QED BY ONLY <1>4, <1>5 DEF worth

LEMMA InitIs == Init => ProgressInv
  <1> SUFFICES ASSUME Init PROVE ProgressInv
    OBVIOUS
  <1>1. PICK start \in Starts :
           /\ char = start.char /\ plan = start.plan /\ saved = Stored(char)
           /\ fault = FALSE /\ orderly = TRUE /\ torn = FALSE /\ lost = {}
           /\ gained = char.exp - ExpOf(char.flags)
           /\ since = [q \in DOMAIN Quests |->
                  IF \E s \in 0 .. char.count - 1 : char.quests[s].q = q
                  THEN char.quests[CHOOSE s \in 0 .. char.count - 1 :
                                       char.quests[s].q = q].counts
                  ELSE NoCounts]
           /\ due = StatSum(char) /\ wrapped = FALSE
           /\ credit = char.skill.point
                + Total([n \in 1 .. Width |-> MostIn(char.skills, n - 1)])
    BY DEF Init
  <1>2. /\ char \in Characters /\ char.count \in 0 .. MaxQuests
        /\ ListedOnce([quests |-> char.quests, count |-> char.count])
        /\ NoneDone([quests |-> char.quests, count |-> char.count], char.flags)
        /\ char.skill.rank <= char.battleRank /\ NumberedOnce(char.quick)
    BY <1>1, StartsAssumption
  <1>3. ListedOnce(char) /\ NoneDone(char, char.flags)
    BY ONLY <1>2 DEF ListedOnce, NoneDone
  <1>4. /\ char.exp \in Nat /\ char.flags \in SUBSET DOMAIN Quests
        /\ char.skill.point \in Int /\ char.skills \in Seq(SkillSlots)
        /\ char.quests \in [QuestNo -> [q : Int, step : Int, counts : KillCounts]]
    BY ONLY <1>2, FieldsOf DEF Short
  <1>5. ExpOf(char.flags) \in Nat /\ StatSum(char) \in Int /\ MaxQuests \in Nat
        /\ MaxCounters \in Nat /\ MaxKills \in Nat
    BY ONLY <1>2, <1>4, ExpOfIs, StatsOf, Sizes
  <1>6. gained \in Int /\ char.exp <= gained + ExpOf(char.flags)
    <2>1. gained = char.exp - ExpOf(char.flags)
      BY ONLY <1>1
    <2> QED BY ONLY <1>4, <1>5, <2>1
  <1>7. credit \in Int /\ Backed(char.skills, credit - char.skill.point)
    <2> DEFINE sum == Total([n \in 1 .. Width |-> MostIn(char.skills, n - 1)])
    <2>1. sum \in Nat /\ Backed(char.skills, sum)
      BY ONLY <1>4, BackedFirst
    <2>2. credit = char.skill.point + sum
      BY ONLY <1>1
    <2> HIDE DEF sum
    <2>3. credit \in Int /\ credit - char.skill.point = sum
      BY ONLY <1>4, <2>1, <2>2
    <2> QED BY ONLY <2>1, <2>3
  <1>8. \A s \in 0 .. char.count - 1 :
           s \in QuestNo /\ char.quests[s].counts \in KillCounts
           /\ char.quests[s].q \in DOMAIN Quests
    <2>1. \A s \in 0 .. char.count - 1 : s \in QuestNo
      BY ONLY <1>2, <1>5 DEF QuestNo
    <2>2. \A s \in 0 .. char.count - 1 : char.quests[s].q \in DOMAIN Quests
      BY ONLY <1>3 DEF ListedOnce
    <2> QED BY ONLY <1>4, <2>1, <2>2
  <1> DEFINE At(q, s) == s \in 0 .. char.count - 1 /\ char.quests[s].q = q
             first(q) == CHOOSE s \in 0 .. char.count - 1 : char.quests[s].q = q
  <1>9. \A q, s : At(q, s) => At(q, first(q))
    OBVIOUS
  <1>10. NoCounts \in KillCounts
    BY ONLY <1>5 DEF NoCounts, KillCounts
  <1>11. since \in [DOMAIN Quests -> KillCounts]
         /\ \A q \in DOMAIN Quests : \A s : At(q, s) => since[q] = char.quests[first(q)].counts
    <2>1. \A q \in DOMAIN Quests :
             since[q] = IF \E s : At(q, s) THEN char.quests[first(q)].counts ELSE NoCounts
      BY ONLY <1>1
    <2>2. since = [q \in DOMAIN Quests |-> since[q]]
      BY ONLY <1>1
    <2> HIDE DEF first
    <2>3. \A q \in DOMAIN Quests : since[q] \in KillCounts
      BY ONLY <1>8, <1>9, <1>10, <2>1
    <2> QED BY ONLY <2>1, <2>2, <2>3
  <1> HIDE DEF first
  <1>12. \A s, t \in 0 .. char.count - 1 : char.quests[s].q = char.quests[t].q => s = t
    <2>1. \A s \in 0 .. char.count - 1 : \A t \in 0 .. s - 1 : char.quests[t].q # char.quests[s].q
      BY ONLY <1>3 DEF ListedOnce
    <2>2. \A s, t \in 0 .. char.count - 1 : s = t \/ t \in 0 .. s - 1 \/ s \in 0 .. t - 1
      BY ONLY <1>2, <1>5
    <2> QED BY ONLY <2>1, <2>2
  <1>13. Counted(char, since)
    <2>1. ASSUME NEW s \in 0 .. char.count - 1, NEW k \in 1 .. MaxCounters
          PROVE  char.quests[s].counts[k] <= since[char.quests[s].q][k]
      <3> DEFINE q == char.quests[s].q
      <3>1. At(q, s) /\ q \in DOMAIN Quests
        BY ONLY <1>8, s \in 0 .. char.count - 1
      <3>2. At(q, first(q))
        BY ONLY <1>9, <3>1
      <3>3. first(q) = s
        BY ONLY <1>12, <3>1, <3>2
      <3>4. since[q] = char.quests[s].counts
        BY ONLY <1>11, <3>1, <3>3
      <3>5. char.quests[s].counts \in KillCounts
        BY ONLY <1>8, s \in 0 .. char.count - 1
      <3> DEFINE counts == char.quests[s].counts
      <3>6. counts[k] \in Int
        <4> HIDE DEF counts
        <4>1. counts \in KillCounts
          BY ONLY <3>5 DEF counts
        <4> QED BY ONLY <1>5, <4>1, k \in 1 .. MaxCounters DEF KillCounts
      <3> QED BY ONLY <3>4, <3>6
    <2> QED BY ONLY <2>1 DEF Counted
  <1>14. due \in Int /\ AddsUp(char, due, wrapped) /\ wrapped \in BOOLEAN
    BY ONLY <1>1, <1>5 DEF AddsUp
  <1> DEFINE b == [c |-> char, gained |-> gained, since |-> since, due |-> due,
                   wrapped |-> wrapped, credit |-> credit]
  <1>15. /\ b.c = char /\ b.gained = gained /\ b.since = since /\ b.due = due
         /\ b.wrapped = wrapped /\ b.credit = credit /\ b \in Balances
    BY ONLY <1>2, <1>6, <1>7, <1>11, <1>14 DEF Balances
  <1>16. Before = b
    BY DEF Before
  <1> HIDE DEF b
  <1>17. Balanced(b) /\ Questing(b)
    BY ONLY <1>2, <1>3, <1>6, <1>7, <1>13, <1>14, <1>15 DEF Balanced, Questing
  <1>18. Copied
    <2>1. saved = Stored(char) /\ lost = {}
      BY ONLY <1>1
    <2>2. /\ saved["QUESTSLOT"].quests = char.quests /\ saved["QUESTSLOT"].count = char.count
          /\ saved["QUESTFLAG"] = char.flags /\ saved["INFO"].exp = char.exp
          /\ ListedOnce(saved["QUESTSLOT"]) /\ SameQuests(char, saved["QUESTSLOT"])
          /\ NoneDone(saved["QUESTSLOT"], char.flags)
      BY ONLY <1>2, <1>3, <2>1, StoredIs
    <2> QED BY ONLY <1>4, <1>6, <2>1, <2>2 DEF Copied
  <1>19. (\E s \in Starts : plan = s.plan) /\ lost \in SUBSET Parts
    BY <1>1
  <1> QED BY ONLY <1>1, <1>2, <1>16, <1>17, <1>18, <1>19 DEF ProgressInv

-----------------------------------------------------------------------------
(* What the invariant says.                                                *)

LEMMA ProgressAlways == Spec => []ProgressInv
  <1>1. ProgressInv /\ [Next]_vars => ProgressInv'
    BY ProgressKept
  <1> QED BY InitIs, <1>1, PTL DEF Spec

\* The record stays within its arrays: no handler puts a level, a rank, a list or
\* a counter out of its range, as long as QuestSlotInfo.Count is in its array;
\* the skill rank never passes the battle rank; and a quick slot is listed once,
\* until the removal of one with two behind it.
THEOREM RecordHolds == Spec => []RecordInv
  <1>1. ProgressInv => RecordInv
    <2> SUFFICES ASSUME ProgressInv PROVE RecordInv
      OBVIOUS
    <2>1. TypeOK
      BY Holding DEF TypeOK
    <2>2. RankOrder /\ QuickUnique
      BY Holding DEF RankOrder, QuickUnique
    <2> QED BY ONLY <2>1, <2>2 DEF RecordInv
  <1> QED BY ProgressAlways, <1>1, PTL

\* No order of beginning, clearing and cancelling quests in the slots that a
\* client was told lists a quest twice, or one without data, or at an NPC of
\* another quest; and one that is done is not listed again in what is stored,
\* whichever of its parts SyncDB has written, unless an update was lost.
THEOREM QuestsListedOnce == Spec => []QuestsOnce
  <1>1. ProgressInv => QuestsOnce
    <2> SUFFICES ASSUME ProgressInv, orderly PROVE QuestsOnce
      BY DEF QuestsOnce
    <2>1. /\ char \in Characters /\ ListedOnce(char) /\ NoneDone(char, char.flags)
          /\ Copied
      BY Holding
    <2>2. ListedOnce(Stored(char)["QUESTSLOT"])
          /\ NoneDone(Stored(char)["QUESTSLOT"], char.flags)
      BY ONLY <2>1, StoredIs
    <2>3. /\ ListedOnce(saved["QUESTSLOT"])
          /\ lost = {} => NoneDone(saved["QUESTSLOT"], saved["QUESTFLAG"])
      BY ONLY <2>1 DEF Copied
    <2> QED BY ONLY <2>2, <2>3 DEF QuestsOnce
  <1> QED BY ProgressAlways, <1>1, PTL

\* No exp comes from a quest that is not marked as done, in the record or in what
\* is stored, and no counter of a quest is ahead of the kills since it began.
THEOREM RewardsAreEarned == Spec => []RewardsEarned
  <1>1. ProgressInv => RewardsEarned
    <2> SUFFICES ASSUME ProgressInv PROVE RewardsEarned
      OBVIOUS
    <2>1. ExpEarned
      <3>1. orderly => char.exp <= gained + ExpOf(char.flags) /\ Copied
        BY Holding
      <3> QED BY ONLY <3>1 DEF ExpEarned, Copied
    <2>2. EarnedByKills
      <3>1. orderly => Counted(char, since)
        BY Holding
      <3> QED BY ONLY <3>1 DEF EarnedByKills, Counted
    <2> QED BY ONLY <2>1, <2>2 DEF RewardsEarned
  <1> QED BY ProgressAlways, <1>1, PTL

\* Level-ups are the only source of stat points until an addition (or a level-up)
\* takes a stat or the points out of their UInt16, and modulo Width even then; and
\* the levels of the skills that a request can find were paid for, whichever
\* numbers a rank-up has given twice.
THEOREM PointsAreEarned == Spec => []PointsEarned
  <1>1. ProgressInv => PointsEarned
    <2> SUFFICES ASSUME ProgressInv PROVE PointsEarned
      OBVIOUS
    <2>1. StatPointsKept
      BY Holding DEF StatPointsKept, AddsUp
    <2>2. /\ char \in Characters /\ credit \in Int /\ char.skill.point \in Int
          /\ Backed(char.skills, credit - char.skill.point)
      BY Holding
    <2>3. char.skills \in Seq(SkillSlots) /\ Width \in Nat
      BY ONLY <2>2, FieldsOf, Sizes DEF Short
    <2>4. PICK worth \in [1 .. Width -> Nat] :
             /\ \A i \in DOMAIN char.skills :
                   Cost(char.skills[i]) <= worth[char.skills[i].at + 1]
             /\ Total(worth) <= credit - char.skill.point
      BY ONLY <2>2 DEF Backed
    <2> DEFINE found == [n \in 1 .. Width |-> LevelsIn(char.skills, n - 1)]
    <2>5. ASSUME NEW n \in 1 .. Width
          PROVE  found[n] \in Int /\ found[n] <= worth[n]
      <3> DEFINE list == char.skills
                 at == n - 1
                 i == FirstAt(list, at)
      <3>1. found[n] = LevelsIn(list, at) /\ at + 1 = n /\ worth[n] \in Nat
        BY ONLY <2>3, worth \in [1 .. Width -> Nat], n \in 1 .. Width
      <3> HIDE DEF found, at
      <3>2. CASE InUse(list, at)
        <4>1. i \in DOMAIN list /\ list[i].at = at
          BY ONLY <2>3, <3>2, FirstAtIs
        <4>2. Cost(list[i]) <= worth[n]
          BY ONLY <2>4, <3>1, <4>1
        <4>3. list[i] \in SkillSlots
          BY ONLY <2>3, <4>1, Entries
        <4>4. Cost(list[i]) \in Int
          <5>1. Cost(list[i]) \in Nat
            BY ONLY <4>3, CostIs
          <5> QED BY ONLY <5>1
        <4>5. found[n] = Cost(list[i])
          BY ONLY <3>1, <3>2 DEF LevelsIn
        <4> QED BY ONLY <4>2, <4>4, <4>5
      <3>3. CASE ~InUse(list, at)
        <4>1. found[n] = 0
          BY ONLY <3>1, <3>3 DEF LevelsIn
        <4> QED BY ONLY <3>1, <4>1
      <3> QED BY ONLY <3>2, <3>3
    <2>6. Total(found) \in Int /\ Total(worth) \in Int /\ Total(found) <= Total(worth)
      <3>1. found = [n \in 1 .. Width |-> found[n]]
        OBVIOUS
      <3> HIDE DEF found
      <3>2. found \in [1 .. Width -> Int] /\ worth \in [1 .. Width -> Int]
        BY ONLY <2>5, <3>1, worth \in [1 .. Width -> Nat]
      <3>3. \A n \in 1 .. Width : found[n] <= worth[n]
        BY ONLY <2>5
      <3>4. Total(found) \in Int /\ Total(worth) \in Int
        BY ONLY <2>3, <3>2, PartialSums
      <3> QED BY ONLY <2>3, <3>2, <3>3, <3>4, TotalAtMost
    <2>7. char.skill.point + Total(found) <= credit
      <3> HIDE DEF found
      <3> QED BY ONLY <2>2, <2>4, <2>6
    <2>8. PointsBacked
      BY ONLY <2>7 DEF PointsBacked
    <2> QED BY ONLY <2>1, <2>8 DEF PointsEarned
  <1> QED BY ProgressAlways, <1>1, PTL

-----------------------------------------------------------------------------
(* Movement.  The tile that is reckoned for a character lies exactly on    *)
(* the line the requests are checked against, so the checks take it        *)
(* whatever the tolerance; what else the invariant says is kept step by    *)
(* step.                                                                   *)

USE MovementAssumption

\* Division.

LEMMA Quotients ==
    ASSUME NEW n \in Nat \ {0}, NEW q \in Int, NEW r \in 0 .. n - 1
    PROVE  (q * n + r) \div n = q
  <1> DEFINE x == q * n + r
             d == x \div n
  <1>1. q * n \in Int /\ x \in Int
    OBVIOUS
  <1>2. d \in Int /\ d * n <= x /\ x < d * n + n
    <2> HIDE DEF x
    <2> QED BY <1>1, SMT
  <1>3. (d - q) * n = d * n - q * n
    BY <1>2
  <1>4. (d - q) * n < n /\ (d - q) * n > -n
    BY <1>1, <1>2, <1>3
  <1> HIDE DEF x, d
  <1>5. \A z \in Int : z * n < n /\ z * n > -n => z = 0
    BY SMT
  <1>6. d - q = 0
    BY <1>2, <1>4, <1>5
  <1> QED BY <1>2, <1>6 DEF d, x

\* Division in C is division where nothing is negative.
LEMMA QuotientNat ==
    ASSUME NEW x \in Nat, NEW n \in Nat \ {0}
    PROVE  Quotient(x, n) = x \div n
  <1>1. x \div n \in Int
    BY SMT
  <1>2. Sign(x) = 1 /\ AbsOf(x) = x
    BY DEF Sign, AbsOf
  <1> QED BY <1>1, <1>2 DEF Quotient

LEMMA QuotientZero ==
    ASSUME NEW n \in Nat \ {0}
    PROVE  Quotient(0, n) = 0
  <1>1. (0 * n + 0) \div n = 0
    BY Quotients
  <1>2. 0 * n + 0 = 0
    OBVIOUS
  <1> QED BY <1>1, <1>2, QuotientNat

\* l tiles of a side x long are l tiles.
LEMMA QuotientWhole ==
    ASSUME NEW x \in Int, NEW l \in Nat, x = 0 => l = 0
    PROVE  Quotient(l * x, IF x = 0 THEN 1 ELSE AbsOf(x)) = Sign(x) * l
  <1>1. CASE x = 0
    <2>1. l * x = 0 /\ Sign(x) * l = 0
      BY <1>1 DEF Sign
    <2>2. Quotient(0, 1) = 0
      BY QuotientZero
    <2> QED BY <1>1, <2>1, <2>2
  <1>2. CASE x # 0
    <2> DEFINE n == AbsOf(x)
    <2>1. n \in Nat \ {0}
      BY <1>2 DEF AbsOf
    <2>2. l * n \in Nat /\ (l * n) \div n = l
      <3> HIDE DEF n
      <3>1. l * n \in Nat /\ (l * n + 0) \div n = l
        BY <2>1, Quotients
      <3> QED BY <3>1
    <2>3. l = 0 => l * n = 0
      BY <2>1
    <2>4. l # 0 => l * n > 0
      <3> HIDE DEF n
      <3> QED BY <2>1
    <2>5. CASE x > 0
      <3>1. Sign(x) = 1 /\ l * x = l * n
        BY <2>5 DEF Sign, AbsOf
      <3> HIDE DEF n
      <3>2. Quotient(l * n, n) = l
        BY <2>1, <2>2 DEF Quotient, Sign, AbsOf
      <3> QED BY <1>2, <3>1, <3>2 DEF n
    <2>6. CASE x < 0
      <3>1. Sign(x) = -1 /\ x = -n
        BY <2>6 DEF Sign, AbsOf
      <3> HIDE DEF n
      <3>2. l * x = -(l * n)
        BY <2>1, <3>1
      <3>3. Quotient(-(l * n), n) = -l
        BY <2>1, <2>2, <2>3, <2>4 DEF Quotient, Sign, AbsOf
      <3> QED BY <1>2, <3>1, <3>2, <3>3 DEF n
    <2> QED BY <1>2, <2>5, <2>6
  <1> QED BY <1>1, <1>2

\* What is rounded for the shorter side stays within it.
LEMMA MinorWithin ==
    ASSUME NEW n \in Nat \ {0}, NEW m \in 0 .. n, NEW k \in 0 .. n - 1
    PROVE  (m * k + n \div 2) \div n \in 0 .. m
  <1> DEFINE x == m * k + n \div 2
             d == x \div n
  <1>1. m * k \in Int /\ m * k >= 0 /\ m * k <= m * n - m /\ m * n \in Int
    <2>1. m * k >= 0 /\ m * (n - 1 - k) >= 0 /\ m * k \in Int /\ m * n \in Int
      BY SMT
    <2>2. m * (n - 1 - k) = m * n - m - m * k
      BY SMT
    <2> QED BY <2>1, <2>2
  <1>2. n \div 2 \in 0 .. n - 1
    BY SMT
  <1>3. x \in Int /\ x >= 0 /\ x < m * n + n
    BY <1>1, <1>2
  <1>4. d \in Int /\ d * n <= x /\ x < d * n + n
    <2> HIDE DEF x
    <2> QED BY <1>3, SMT
  <1>5. (d + 1) * n = d * n + n /\ (m - d + 1) * n = m * n - d * n + n
    <2>1. \A z \in Int : (z + 1) * n = z * n + n /\ (m - z + 1) * n = m * n - z * n + n
      BY SMT
    <2> HIDE DEF d
    <2> QED BY <1>4, <2>1
  <1>6. (d + 1) * n > 0 /\ (m - d + 1) * n > 0
    BY <1>1, <1>3, <1>4, <1>5
  <1> HIDE DEF x, d
  <1>7. \A z \in Int : z * n > 0 => z > 0
    BY SMT
  <1>8. d + 1 > 0 /\ m - d + 1 > 0
    BY <1>4, <1>6, <1>7
  <1> QED BY <1>4, <1>8 DEF d, x

---------------------------------------------------------------------------
\* The line.

LEMMA LineSides ==
    ASSUME NEW a \in Positions, NEW b \in Positions
    PROVE  LET i == Longer(a, b)
               n == Major(a, b)
               m == AbsOf(b[3 - i] - a[3 - i])
           IN  /\ i \in {1, 2} /\ 3 - i \in {1, 2}
               /\ \A c \in {1, 2} : a[c] \in Int /\ b[c] \in Int
               /\ n \in Nat /\ m \in 0 .. n
               /\ b[i] - a[i] = Sign(b[i] - a[i]) * n
               /\ b[3 - i] - a[3 - i] = Sign(b[3 - i] - a[3 - i]) * m
  <1>1. \A c \in {1, 2} : a[c] \in Int /\ b[c] \in Int
    BY DEF Positions
  <1>2. CASE AbsOf(b[1] - a[1]) < AbsOf(b[2] - a[2])
    <2>1. Longer(a, b) = 2
      BY <1>2 DEF Longer
    <2> QED BY <1>1, <1>2, <2>1 DEF Major, AbsOf, Sign
  <1>3. CASE ~(AbsOf(b[1] - a[1]) < AbsOf(b[2] - a[2]))
    <2>1. Longer(a, b) = 1
      BY <1>3 DEF Longer
    <2> QED BY <1>1, <1>3, <2>1 DEF Major, AbsOf, Sign
  <1> QED BY <1>2, <1>3

\* The way on the shorter side after k tiles on the longer one.
Beside(a, b, k) ==
    LET n == Major(a, b)
    IN  IF n = 0 THEN 0
        ELSE (AbsOf(b[3 - Longer(a, b)] - a[3 - Longer(a, b)]) * k + n \div 2) \div n

\* The tile reckoned, side by side.
LEMMA PointSides ==
    ASSUME NEW a \in Positions, NEW b \in Positions, NEW k \in 0 .. Major(a, b)
    PROVE  LET i == Longer(a, b)
               p == PointAt(a, b, k)
               h == Beside(a, b, k)
           IN  /\ p \in Positions
               /\ h \in 0 .. AbsOf(b[3 - i] - a[3 - i])
               /\ p[i] = a[i] + Sign(b[i] - a[i]) * k
               /\ p[3 - i] = a[3 - i] + Sign(b[3 - i] - a[3 - i]) * h
  <1> DEFINE i == Longer(a, b)
             n == Major(a, b)
             m == AbsOf(b[3 - i] - a[3 - i])
             p == PointAt(a, b, k)
             h == Beside(a, b, k)
  <1>1. /\ i \in {1, 2} /\ n \in Nat /\ m \in 0 .. n /\ k \in 0 .. n
        /\ \A c \in {1, 2} : a[c] \in Int /\ b[c] \in Int
        /\ b[i] - a[i] = Sign(b[i] - a[i]) * n
        /\ b[3 - i] - a[3 - i] = Sign(b[3 - i] - a[3 - i]) * m
    BY LineSides
  <1>2. h \in 0 .. m /\ (k = n => h = m)
    <2>1. CASE n = 0
      BY <1>1, <2>1 DEF Beside
    <2>2. CASE n # 0 /\ k < n
      <3>1. h = (m * k + n \div 2) \div n
        BY <2>2 DEF Beside
      <3> HIDE DEF h, m, n
      <3>2. n \in Nat \ {0} /\ k \in 0 .. n - 1
        BY <1>1, <2>2
      <3>3. (m * k + n \div 2) \div n \in 0 .. m
        BY <1>1, <3>2, MinorWithin
      <3> QED BY <2>2, <3>1, <3>2, <3>3
    <2>3. CASE n # 0 /\ k = n
      <3>1. h = (m * n + n \div 2) \div n
        BY <2>3 DEF Beside
      <3> HIDE DEF h, m, n
      <3>2. n \div 2 \in 0 .. n - 1 /\ n \in Nat \ {0} /\ m \in Int
        BY <1>1, <2>3, SMT
      <3>3. (m * n + n \div 2) \div n = m
        BY <3>2, Quotients
      <3> QED BY <1>1, <3>1, <3>3
    <2> QED BY <1>1, <2>1, <2>2, <2>3
  <1>3. p[i] = a[i] + Sign(b[i] - a[i]) * k /\ p[3 - i] = a[3 - i] + Sign(b[3 - i] - a[3 - i]) * h
    <2>1. CASE k = n
      <3>1. p = b
        BY <2>1 DEF PointAt
      <3> HIDE DEF i, n, m, p, h
      <3> QED BY <1>1, <1>2, <2>1, <3>1
    <2>2. CASE k # n
      <3>1. n # 0
        BY <1>1, <2>2
      <3> DEFINE on(c) == a[c] + Sign(b[c] - a[c]) * (IF c = i THEN k ELSE (m * k + n \div 2) \div n)
      <3>2. p = <<on(1), on(2)>>
        BY <2>2 DEF PointAt
      <3>3. h = (m * k + n \div 2) \div n
        BY <3>1 DEF Beside
      <3>4. p[1] = on(1) /\ p[2] = on(2)
        BY <3>2
      <3> HIDE DEF i, n, m, p, h
      <3>5. CASE i = 1
        BY <3>3, <3>4, <3>5
      <3>6. CASE i = 2
        BY <3>3, <3>4, <3>6
      <3> QED BY <1>1, <3>5, <3>6
    <2> QED BY <2>1, <2>2
  <1>4. p[1] \in Int /\ p[2] \in Int
    <2> HIDE DEF i, n, m, p, h
    <2>1. p[i] \in Int
      BY <1>1, <1>3 DEF Sign
    <2>2. p[3 - i] \in Int
      BY <1>1, <1>2, <1>3 DEF Sign
    <2>3. i = 1 \/ i = 2
      BY <1>1
    <2> QED BY <2>1, <2>2, <2>3
  <1>5. p \in Positions
    <2>1. p = b \/ p = <<p[1], p[2]>>
      BY DEF PointAt
    <2> HIDE DEF p
    <2> QED BY <1>4, <2>1 DEF Positions
  <1> QED BY <1>2, <1>3, <1>5

\* A tile that lies on the line side by side is near it, whatever the tolerance.
LEMMA SidesNear ==
    ASSUME NEW a \in Positions, NEW b \in Positions, NEW p \in Positions,
           NEW k \in 0 .. Major(a, b),
           p[Longer(a, b)] = a[Longer(a, b)] + Sign(b[Longer(a, b)] - a[Longer(a, b)]) * k,
           p[3 - Longer(a, b)] = a[3 - Longer(a, b)]
               + Sign(b[3 - Longer(a, b)] - a[3 - Longer(a, b)]) * Beside(a, b, k)
    PROVE  NearLine(a, b, p)
  <1> DEFINE i == Longer(a, b)
             j == 3 - i
             n == Major(a, b)
             m == AbsOf(b[j] - a[j])
             h == Beside(a, b, k)
             w == IF b[i] = a[i] THEN 1 ELSE n
             ahead == Ahead(a, b, p)
  <1>1. /\ i \in {1, 2} /\ n \in Nat /\ m \in 0 .. n /\ k \in 0 .. n
        /\ \A c \in {1, 2} : a[c] \in Int /\ b[c] \in Int /\ p[c] \in Int
        /\ b[i] - a[i] = Sign(b[i] - a[i]) * n
    BY LineSides DEF Positions
  <1>2. p[i] = a[i] + Sign(b[i] - a[i]) * k /\ p[j] = a[j] + Sign(b[j] - a[j]) * h
    OBVIOUS
  <1>3. ahead = k /\ w \in Nat \ {0} /\ (b[i] = a[i] => n = 0 /\ m = 0)
    <2>1. ahead = IF b[i] > a[i] THEN p[i] - a[i] ELSE a[i] - p[i]
      BY DEF Ahead
    <2> HIDE DEF i, n, m, h, ahead
    <2>2. /\ a[i] \in Int /\ b[i] \in Int /\ p[i] \in Int
          /\ p[i] = a[i] + Sign(b[i] - a[i]) * k /\ b[i] - a[i] = Sign(b[i] - a[i]) * n
      BY <1>1, <1>2
    <2>3. CASE b[i] > a[i]
      BY <1>1, <2>1, <2>2, <2>3 DEF Sign
    <2>4. CASE b[i] = a[i]
      BY <1>1, <2>1, <2>2, <2>4 DEF Sign
    <2>5. CASE b[i] < a[i]
      BY <1>1, <2>1, <2>2, <2>5 DEF Sign
    <2> QED BY <2>2, <2>3, <2>4, <2>5
  <1>4. Quotient(ahead * (b[i] - a[i]), w) = Sign(b[i] - a[i]) * k
    <2>1. w = IF b[i] - a[i] = 0 THEN 1 ELSE AbsOf(b[i] - a[i])
      BY <1>1 DEF Major
    <2> HIDE DEF i, j, n, m, h, ahead, w
    <2>2. b[i] - a[i] \in Int /\ k \in Nat /\ (b[i] - a[i] = 0 => k = 0)
      BY <1>1, <1>3
    <2>3. Quotient(k * (b[i] - a[i]), w) = Sign(b[i] - a[i]) * k
      BY <2>1, <2>2, QuotientWhole
    <2> QED BY <1>3, <2>3
  <1>5. Quotient(m * ahead + w \div 2, w) = h
    <2>1. CASE n = 0
      <3>1. h = 0 /\ w = 1 /\ m = 0 /\ k = 0
        BY <1>1, <2>1 DEF Beside, Sign
      <3> HIDE DEF i, n, m, h, ahead, w
      <3>2. 1 \div 2 = 0 /\ 0 \div 1 = 0
        BY SMT
      <3> QED BY <1>3, <3>1, <3>2 DEF Quotient, Sign, AbsOf
    <2>2. CASE n # 0
      <3>1. h = (m * k + n \div 2) \div n
        BY <2>2 DEF Beside
      <3> HIDE DEF i, n, m, h, ahead
      <3>2. w = n
        BY <1>1, <2>2 DEF Sign
      <3> HIDE DEF w
      <3>3. m * k \in Nat /\ n \div 2 \in Nat
        BY <1>1, SMT
      <3>4. Quotient(m * k + n \div 2, n) = (m * k + n \div 2) \div n
        <4>1. m * k + n \div 2 \in Nat /\ n \in Nat \ {0}
          BY <1>1, <2>2, <3>3
        <4> QED BY <4>1, QuotientNat
      <3> QED BY <1>3, <3>1, <3>2, <3>4
    <2> QED BY <2>1, <2>2
  <1>6. h \in Int
    <2> HIDE DEF h
    <2>1. h \in 0 .. AbsOf(b[3 - Longer(a, b)] - a[3 - Longer(a, b)])
      BY PointSides DEF h
    <2> QED BY <2>1
  <1>7. /\ a[i] + Quotient(ahead * (b[i] - a[i]), w) - p[i] = 0
        /\ a[j] - p[j] + Sign(b[j] - a[j]) * Quotient(m * ahead + w \div 2, w) = 0
    <2> HIDE DEF i, n, m, h, ahead, w
    <2>1. j \in {1, 2}
      BY <1>1
    <2> HIDE DEF j
    <2> QED BY <1>1, <1>2, <1>4, <1>5, <1>6, <2>1 DEF Sign
  <1>8. 0 * 0 <= Tolerance
    BY DEF MovementAssumption
  <1> QED BY <1>7, <1>8 DEF NearLine

LEMMA ReckonedTaken ==
    ASSUME NEW a \in Positions, NEW b \in Positions, NEW k \in 0 .. Major(a, b)
    PROVE  LET p == PointAt(a, b, k)
           IN  /\ p \in Positions
               /\ NearLine(a, b, p)
               /\ (p[2] - a[2]) * (p[2] - a[2]) <= Tolerance => NearRow(a, b, p)
  <1> DEFINE p == PointAt(a, b, k)
             i == Longer(a, b)
             h == Beside(a, b, k)
  <1>1. /\ p \in Positions /\ h \in 0 .. AbsOf(b[3 - i] - a[3 - i])
        /\ p[i] = a[i] + Sign(b[i] - a[i]) * k
        /\ p[3 - i] = a[3 - i] + Sign(b[3 - i] - a[3 - i]) * h
    BY PointSides
  <1>2. NearLine(a, b, p)
    BY <1>1, SidesNear
  <1>3. ASSUME (p[2] - a[2]) * (p[2] - a[2]) <= Tolerance PROVE NearRow(a, b, p)
    <2> DEFINE c == <<b[1], a[2]>>
               g == p[1] - a[1]
               n == IF b[1] = a[1] THEN 1 ELSE AbsOf(b[1] - a[1])
               ahead == Ahead(a, c, p)
    <2>1. /\ c[1] = b[1] /\ c[2] = a[2]
          /\ a[1] \in Int /\ a[2] \in Int /\ b[1] \in Int /\ p[1] \in Int /\ p[2] \in Int
      BY <1>1 DEF Positions
    <2>2. Longer(a, c) = 1 /\ Major(a, c) = AbsOf(b[1] - a[1])
      <3> HIDE DEF c
      <3>1. Longer(a, c) = 1
        BY <2>1 DEF Longer, AbsOf
      <3> QED BY <2>1, <3>1 DEF Major
    <2>3. \E l \in Nat : g = Sign(b[1] - a[1]) * l /\ (b[1] = a[1] => l = 0)
      <3>1. CASE i = 1
        <4>1. k \in 0 .. AbsOf(b[1] - a[1])
          BY <3>1 DEF Major
        <4>2. g = Sign(b[1] - a[1]) * k /\ (b[1] = a[1] => k = 0)
          <5> HIDE DEF p
          <5> QED BY <1>1, <2>1, <3>1, <4>1 DEF Sign, AbsOf
        <4> QED BY <4>1, <4>2
      <3>2. CASE i = 2
        <4>1. h \in 0 .. AbsOf(b[1] - a[1])
          BY <1>1, <3>2
        <4>2. g = Sign(b[1] - a[1]) * h /\ (b[1] = a[1] => h = 0)
          <5> HIDE DEF p, h
          <5> QED BY <1>1, <2>1, <3>2, <4>1 DEF Sign, AbsOf
        <4>3. h \in Nat
          <5> HIDE DEF h
          <5> QED BY <1>1
        <4> QED BY <4>2, <4>3
      <3> QED BY <3>1, <3>2 DEF Longer
    <2>4. PICK l \in Nat : g = Sign(b[1] - a[1]) * l /\ (b[1] = a[1] => l = 0)
      BY <2>3
    <2> HIDE DEF p, c
    <2>5. ahead = l /\ n \in Nat \ {0}
      BY <2>1, <2>2, <2>4 DEF Ahead, Sign, AbsOf
    <2>6. a[1] + Quotient(ahead * (c[1] - a[1]), n) - p[1] = 0
      <3>1. n = IF b[1] - a[1] = 0 THEN 1 ELSE AbsOf(b[1] - a[1])
        BY <2>1
      <3> HIDE DEF n, ahead
      <3>2. b[1] - a[1] \in Int /\ (b[1] - a[1] = 0 => l = 0)
        BY <2>1, <2>4
      <3>3. Quotient(l * (b[1] - a[1]), n) = Sign(b[1] - a[1]) * l
        BY <3>1, <3>2, QuotientWhole
      <3> QED BY <2>1, <2>4, <2>5, <3>3 DEF Sign
    <2>7. Quotient(AbsOf(c[2] - a[2]) * ahead + n \div 2, n) = 0
      <3> HIDE DEF n, ahead
      <3>1. AbsOf(c[2] - a[2]) * ahead = 0
        BY <2>1, <2>5 DEF AbsOf
      <3>2. n \div 2 \in 0 .. n - 1
        BY <2>5, SMT
      <3>3. (0 * n + n \div 2) \div n = 0
        BY <2>5, <3>2, Quotients
      <3>4. Quotient(n \div 2, n) = 0
        <4>1. n \div 2 \in Nat /\ 0 * n + n \div 2 = n \div 2
          BY <2>5, <3>2
        <4> QED BY <2>5, <3>3, <4>1, QuotientNat
      <3> QED BY <3>1, <3>2, <3>4
    <2>8. NearLine(a, c, p)
      <3>1. /\ Longer(a, c) = 1 /\ 3 - 1 = 2 /\ Sign(c[2] - a[2]) * 0 = 0
            /\ (IF c[1] = a[1] THEN 1 ELSE Major(a, c)) = n
        BY <2>1, <2>2 DEF Sign
      <3> HIDE DEF n, ahead
      <3>2. a[2] - p[2] + 0 = -(p[2] - a[2]) /\ (-(p[2] - a[2])) * (-(p[2] - a[2])) = (p[2] - a[2]) * (p[2] - a[2])
        BY <2>1
      <3>3. 0 * 0 <= Tolerance
        BY DEF MovementAssumption
      <3> QED BY <1>3, <2>6, <2>7, <3>1, <3>2, <3>3 DEF NearLine, ahead
    <2> QED BY <2>8 DEF NearRow, c
  <1> QED BY <1>1, <1>2, <1>3

---------------------------------------------------------------------------
\* The steps.

\* What the steps need of the state: all of MovementInv but what is reckoned.
MovementKept == MoveTypeOK /\ Rests /\ SavedAtRest

Records == [begin : Positions, current : Positions, end : Positions,
            a : Positions, b : Positions, moving : BOOLEAN, reckoning : BOOLEAN]

\* The constants, positions and records.
LEMMA Places ==
    ASSUME places \in Grounds
    PROVE  places \subseteq Positions /\ <<0, 0>> \in Positions
  BY DEF MovementAssumption, Positions

LEMMA MajorNat == ASSUME NEW a \in Positions, NEW b \in Positions PROVE Major(a, b) \in Nat
  BY DEF Positions, Major, Longer, AbsOf

LEMMA StandingRests ==
    ASSUME places \in Grounds, NEW p \in Positions
    PROVE  /\ Standing(p) \in Records /\ ~Standing(p).moving /\ ~Standing(p).reckoning
           /\ Standing(p).begin = p /\ Standing(p).current = p /\ Standing(p).end = p
           /\ 0 \in 0 .. Major(Standing(p).a, Standing(p).b)
  <1>1. <<0, 0>> \in Positions
    BY Places
  <1>2. Standing(p).a = <<0, 0>> /\ Standing(p).b = <<0, 0>>
    BY DEF Standing
  <1>3. Major(<<0, 0>>, <<0, 0>>) \in Nat
    BY <1>1, MajorNat
  <1> QED BY <1>1, <1>2, <1>3 DEF Standing, Records

LEMMA StartedMoves ==
    ASSUME NEW a \in Positions, NEW b \in Positions, NEW e \in Positions
    PROVE  /\ Started(a, b, e) \in Records /\ Started(a, b, e).moving
           /\ 0 \in 0 .. Major(Started(a, b, e).a, Started(a, b, e).b)
  <1>1. Major(a, b) \in Nat
    BY MajorNat
  <1> QED BY <1>1 DEF Started, Records

\* What is stored of a position is one that stays as it is when stored again.
LEMMA KeptPosition ==
    /\ \A p \in Positions : Kept(p) \in StoredPositions
    /\ StoredPositions \subseteq Positions
    /\ \A p \in StoredPositions : Kept(p) = p
  <1>1. StoreWidth \in Nat \ {0}
    BY DEF MovementAssumption
  <1>2. \A n \in Int : n % StoreWidth \in 0 .. StoreWidth - 1
    BY <1>1, SMT
  <1>3. \A n \in 0 .. StoreWidth - 1 : n % StoreWidth = n
    BY <1>1, SMT
  <1>4. ASSUME NEW p \in Positions PROVE Kept(p) \in StoredPositions
    BY <1>2 DEF Kept, Positions, StoredPositions
  <1>5. StoredPositions \subseteq Positions
    BY DEF Positions, StoredPositions
  <1>6. ASSUME NEW p \in StoredPositions PROVE Kept(p) = p
    <2>1. p = <<p[1], p[2]>> /\ p[1] \in 0 .. StoreWidth - 1 /\ p[2] \in 0 .. StoreWidth - 1
      BY DEF StoredPositions
    <2> QED BY <1>3, <2>1 DEF Kept
  <1> QED BY <1>4, <1>5, <1>6

\* Where the server has the character is a position, at rest the one it is at.
LEMMA ReckonedPosition ==
    ASSUME MoveTypeOK
    PROVE  Reckoned \in Positions /\ (~move.moving => Reckoned = move.current)
  <1>1. /\ move.a \in Positions /\ move.b \in Positions /\ move.current \in Positions
        /\ along \in 0 .. Major(move.a, move.b) /\ move.moving \in BOOLEAN
    BY DEF MoveTypeOK
  <1>2. PointAt(move.a, move.b, along) \in Positions
    BY <1>1, PointSides
  <1> QED BY <1>1, <1>2 DEF Reckoned

LEMMA InitKept == ASSUME MoveInit PROVE MovementKept
  <1>1. stored \in StoredPositions /\ places \in Grounds
    BY Places, KeptPosition DEF MoveInit
  <1>2. stored \in Positions /\ Kept(stored) = stored
    BY <1>1, KeptPosition
  <1>3. /\ Standing(stored) \in Records /\ ~Standing(stored).moving /\ ~Standing(stored).reckoning
        /\ Standing(stored).begin = stored /\ Standing(stored).current = stored
        /\ Standing(stored).end = stored
        /\ 0 \in 0 .. Major(Standing(stored).a, Standing(stored).b)
    BY <1>1, <1>2, StandingRests
  <1> QED BY <1>1, <1>2, <1>3
        DEF MoveInit, MovementKept, MoveTypeOK, Records, Rests, AtRest, SavedAtRest

\* A request that is taken marks the position, and leaves a record at rest or
\* a move that has come no further than its line.
LEMMA Taken ==
    ASSUME MovementKept, places' = places, Mark, move' \in Records,
           ~move'.moving => AtRest', along' \in 0 .. Major(move'.a, move'.b)
    PROVE  MovementKept'
  BY DEF MovementKept, MoveTypeOK, Records, Mark, Rests, SavedAtRest

LEMMA MoveRefused ==
    ASSUME MovementKept, places' = places, Refuse
    PROVE  MovementKept'
  BY DEF MovementKept, MoveTypeOK, Refuse, Rests, AtRest, SavedAtRest

LEMMA MovementRequest ==
    ASSUME MovementKept, places' = places, Request
    PROVE  MovementKept'
  <1>1. /\ move \in Records /\ along \in 0 .. Major(move.a, move.b) /\ places \in Grounds
        /\ move.a \in Positions /\ move.b \in Positions
    BY DEF MovementKept, MoveTypeOK, Records
  <1>2. places \subseteq Positions /\ Named \subseteq Positions /\ Corners \subseteq Positions
    BY <1>1, Places, ReckonedPosition DEF Named, Corners, MovementKept
  <1>3. ASSUME NEW b \in Named, NEW c \in Corners, MovementBegin(b, c, c) PROVE MovementKept'
    <2>1. CASE ~MayBegin(b, c)
      BY <1>3, <2>1, MoveRefused DEF MovementBegin
    <2>2. CASE MayBegin(b, c)
      BY <1>2, <1>3, <2>2, StartedMoves, Taken DEF MovementBegin
    <2> QED BY <2>1, <2>2
  <1>4. ASSUME NEW b \in Named, NEW c \in Corners, MovementChange(b, c, c) PROVE MovementKept'
    <2>1. CASE \/ ~move.moving \/ \E p \in {b, c, c} : ~InWorld(p)
               \/ ~NearLine(move.a, move.b, b) \/ ~NextChunk(c)
      BY <1>4, <2>1, MoveRefused DEF MovementChange
    <2>2. CASE ~(\/ ~move.moving \/ \E p \in {b, c, c} : ~InWorld(p)
                 \/ ~NearLine(move.a, move.b, b) \/ ~NextChunk(c))
      BY <1>2, <1>4, <2>2, StartedMoves, Taken DEF MovementChange
    <2> QED BY <2>1, <2>2
  <1>5. ASSUME NEW p \in Named, MovementEnd(p) PROVE MovementKept'
    <2>1. CASE ~move.moving \/ ~NearRow(move.a, move.b, p)
      BY <1>5, <2>1, MoveRefused DEF MovementEnd
    <2>2. CASE ~(~move.moving \/ ~NearRow(move.a, move.b, p))
      <3>1. /\ move' = [Standing(p) EXCEPT !.a = move.a, !.b = move.b]
            /\ along' = along /\ Mark
        BY <1>5, <2>2 DEF MovementEnd
      <3>2. /\ move'.begin = p /\ move'.current = p /\ move'.end = p /\ move' \in Records
            /\ ~move'.moving /\ ~move'.reckoning /\ move'.a = move.a /\ move'.b = move.b
        BY <1>1, <1>2, <3>1 DEF Standing, Records
      <3> QED BY <1>1, <3>1, <3>2, Taken DEF AtRest
    <2> QED BY <2>1, <2>2
  <1>6. ASSUME NEW p \in Named, NEW q \in Corners, MovementWaypoints(p, q) PROVE MovementKept'
    <2>1. CASE ~move.moving \/ \E i \in {1, 2} : AbsOf(q[i] - p[i]) >= MaxLength
      BY <1>6, <2>1, MoveRefused DEF MovementWaypoints
    <2>2. CASE ~(~move.moving \/ \E i \in {1, 2} : AbsOf(q[i] - p[i]) >= MaxLength)
      <3>1. /\ move' = [move EXCEPT !.a = p, !.b = q, !.current = p, !.reckoning = TRUE]
            /\ along' \in 0 .. Major(p, q) /\ Mark /\ move.moving
        BY <1>6, <2>2 DEF MovementWaypoints
      <3>2. move' \in Records /\ move'.moving /\ move'.a = p /\ move'.b = q
        BY <1>1, <1>2, <3>1 DEF Records
      <3> QED BY <3>1, <3>2, Taken
    <2> QED BY <2>1, <2>2
  <1>7. ASSUME NEW p \in Named, TilePosition(p) PROVE MovementKept'
    <2>1. CASE \/ ~move.moving \/ ~NearRow(move.a, move.b, p) \/ ~NextChunk(p)
               \/ \E i \in {1, 2} : p[i] >= Tolerance
      BY <1>7, <2>1, MoveRefused DEF TilePosition
    <2>2. CASE UNCHANGED <<online, move, along, dirty, stored>>
      BY <2>2 DEF MovementKept, MoveTypeOK, Rests, AtRest, SavedAtRest
    <2>3. CASE move.moving /\ move' = [move EXCEPT !.current = p] /\ UNCHANGED along /\ Mark
      <3>1. move' \in Records /\ move'.moving /\ move'.a = move.a /\ move'.b = move.b
        BY <1>1, <1>2, <2>3 DEF Records
      <3> QED BY <1>1, <2>3, <3>1, Taken
    <2> QED BY <1>7, <2>1, <2>2, <2>3 DEF TilePosition
  <1>8. ASSUME NEW p \in Named, NEW q \in places, NEW free \in BOOLEAN, SkillMove(p, q, free)
        PROVE  MovementKept'
    <2>1. CASE ~AtRest \/ Major(move.current, p) > 1 \/ ~free
      BY <1>8, <2>1, MoveRefused DEF SkillMove
    <2>2. CASE ~(~AtRest \/ Major(move.current, p) > 1 \/ ~free)
      <3>1. /\ move' = [move EXCEPT !.begin = q, !.current = q, !.end = q]
            /\ along' = along /\ Mark /\ AtRest
        BY <1>8, <2>2 DEF SkillMove
      <3>2. /\ move'.begin = q /\ move'.current = q /\ move'.end = q /\ move' \in Records
            /\ ~move'.moving /\ ~move'.reckoning /\ move'.a = move.a /\ move'.b = move.b
        BY <1>1, <1>2, <3>1 DEF Records, AtRest
      <3> QED BY <1>1, <3>1, <3>2, Taken DEF AtRest
    <2> QED BY <2>1, <2>2
  <1>9. ASSUME NEW p \in places, Warp(p) PROVE MovementKept'
    <2>1. CASE move.moving \/ move.reckoning
      BY <1>9, <2>1, MoveRefused DEF Warp
    <2>2. CASE ~(move.moving \/ move.reckoning)
      <3>1. move' = Standing(p) /\ along' = 0 /\ Mark
        BY <1>9, <2>2 DEF Warp
      <3>2. /\ move' \in Records /\ ~move'.moving /\ ~move'.reckoning
            /\ move'.begin = p /\ move'.current = p /\ move'.end = p
            /\ 0 \in 0 .. Major(move'.a, move'.b)
        BY <1>1, <1>2, <3>1, StandingRests
      <3> QED BY <3>1, <3>2, Taken DEF AtRest
    <2> QED BY <2>1, <2>2
  <1> QED BY <1>3, <1>4, <1>5, <1>6, <1>7, <1>8, <1>9 DEF Request

\* The position taken over from the line is one, and at rest nothing is.
LEMMA UpdatedRecord ==
    ASSUME MovementKept
    PROVE  /\ Updated \in Records /\ Updated.moving = move.moving
           /\ Updated.a = move.a /\ Updated.b = move.b
           /\ ~move.moving => Updated = move
  <1>1. move \in Records /\ Reckoned \in Positions
    BY ReckonedPosition DEF MovementKept, MoveTypeOK, Records
  <1>2. ~move.moving => ~move.reckoning
    BY DEF MovementKept, Rests, AtRest
  <1>3. Updated \in Records
    BY <1>1 DEF Updated, Records
  <1>4. Updated.moving = move.moving /\ Updated.a = move.a /\ Updated.b = move.b
    BY <1>1 DEF Updated, Records
  <1>5. ASSUME ~move.moving PROVE Updated = move
    BY <1>1, <1>2, <1>5 DEF Updated, Records
  <1> QED BY <1>3, <1>4, <1>5

LEMMA KeptNext == ASSUME MovementKept, [MoveNext]_moveVars PROVE MovementKept'
  <1>1. CASE UNCHANGED moveVars
    BY <1>1 DEF moveVars, MovementKept, MoveTypeOK, Rests, AtRest, SavedAtRest
  <1>2. CASE MoveNext
    <2>1. places' = places
      BY <1>2 DEF MoveNext
    <2>2. /\ move \in Records /\ along \in 0 .. Major(move.a, move.b) /\ places \in Grounds
          /\ Major(move.a, move.b) \in Nat /\ stored \in StoredPositions
          /\ stored \in Positions /\ Kept(stored) = stored
      BY MajorNat, KeptPosition DEF MovementKept, MoveTypeOK, Records
    <2>3. CASE online /\ Request
      BY <2>1, <2>3, MovementRequest
    <2>4. CASE Update
      <3>1. move' = Updated /\ UNCHANGED <<online, along, dirty, stored>> /\ move.moving
        BY <2>4 DEF Update, MovementKept, Rests, AtRest
      <3> QED BY <2>1, <2>2, <3>1, UpdatedRecord
            DEF MovementKept, MoveTypeOK, Records, Rests, SavedAtRest
    <2>5. CASE SyncPosition
      <3>1. move' = Updated /\ stored' = Kept(move'.current) /\ UNCHANGED <<online, along>> /\ dirty' = FALSE
        BY <2>5 DEF SyncPosition
      <3>2. move' \in Records /\ move'.a = move.a /\ move'.b = move.b
        BY <3>1, UpdatedRecord
      <3>3. MoveTypeOK'
        BY <2>1, <2>2, <3>1, <3>2, KeptPosition DEF MovementKept, MoveTypeOK, Records
      <3>4. Rests'
        BY <3>1, UpdatedRecord DEF MovementKept, Rests, AtRest
      <3> QED BY <3>1, <3>3, <3>4 DEF MovementKept, SavedAtRest
    <2>6. CASE TimePasses
      <3>1. move.moving
        BY <2>6 DEF TimePasses, MovementKept, Rests, AtRest
      <3>2. along' \in 0 .. Major(move.a, move.b)
        BY <2>2, <2>6 DEF TimePasses
      <3> QED BY <2>1, <2>6, <3>1, <3>2 DEF TimePasses, MovementKept, MoveTypeOK, Rests, SavedAtRest
    <2>7. CASE Leave
      BY <2>1, <2>7 DEF Leave, MovementKept, MoveTypeOK, Rests, AtRest, SavedAtRest
    <2>8. CASE Login
      <3>1. /\ Standing(stored) \in Records /\ ~Standing(stored).moving /\ ~Standing(stored).reckoning
            /\ Standing(stored).begin = stored /\ Standing(stored).current = stored
            /\ Standing(stored).end = stored
            /\ 0 \in 0 .. Major(Standing(stored).a, Standing(stored).b)
        BY <2>2, StandingRests
      <3>2. move' = Standing(stored) /\ stored' = stored
        BY <2>8 DEF Login
      <3> QED BY <2>1, <2>2, <2>8, <3>1, <3>2
            DEF Login, MovementKept, MoveTypeOK, Records, Rests, AtRest, SavedAtRest
    <2> QED BY <1>2, <2>3, <2>4, <2>5, <2>6, <2>7, <2>8 DEF MoveNext
  <1> QED BY <1>1, <1>2

LEMMA KeptTaken == ASSUME MovementKept PROVE MovementInv
  <1>1. /\ move.a \in Positions /\ move.b \in Positions
        /\ along \in 0 .. Major(move.a, move.b)
    BY DEF MovementKept, MoveTypeOK
  <1>2. ASSUME move.moving PROVE TakenWhereReckoned
    <2>1. Reckoned = PointAt(move.a, move.b, along)
      BY <1>2 DEF Reckoned
    <2> QED BY <1>1, <2>1, ReckonedTaken DEF TakenWhereReckoned
  <1>3. TakenWhereReckoned
    BY <1>2 DEF TakenWhereReckoned
  <1> QED BY <1>3 DEF MovementInv, MovementKept

\* In a world of any size, for any tolerance and any lines, the server takes a
\* character where it has reckoned it, a character that does not move is in one
\* place, and with nothing left to store that place is the stored one.
THEOREM MovementAgrees == MoveSpec => []MovementInv
  <1>1. MoveInit => MovementKept
    BY InitKept
  <1>2. MovementKept /\ [MoveNext]_moveVars => MovementKept'
    BY KeptNext
  <1>3. MovementKept => MovementInv
    BY KeptTaken
  <1> QED BY <1>1, <1>2, <1>3, PTL DEF MoveSpec
=============================================================================
