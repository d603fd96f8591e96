----------------------------- MODULE MCProgress -----------------------------
(* Two quests with mobs, one of them a rank-up; one skill to learn.        *)
EXTENDS Progress

McLevelExp == <<1, 2, 4>>
McStats    == {"str"}
McBattleRanks ==
    << [needs |-> [s \in McStats |-> 1], gifts |-> <<[id |-> 1, at |-> 1], [id |-> 1, at |-> 2]>>],
       [needs |-> [s \in McStats |-> 9], gifts |-> <<>>] >>
McSkillRanks == << [exp |-> 1, end |-> 2], [exp |-> 2, end |-> 1] >>
McHonorRanks == << [min |-> 0, max |-> 1], [min |-> 2, max |-> 3] >>
McTraining ==
    << << [rank |-> 1, level |-> 0, points |-> 0, price |-> 0],
          [rank |-> 1, level |-> 1, points |-> 1, price |-> 0],
          [rank |-> 2, level |-> 0, points |-> 1, price |-> 1] >> >>
Talk(n)  == [order |-> n, type |-> "talk"]
Done(n)  == [order |-> n, type |-> "clear"]
Door(n)  == [order |-> n, type |-> "trigger"]
Boar == [species |-> "boar", exp |-> 0, skillExp |-> 0]
Wolf == [species |-> "wolf", exp |-> 0, skillExp |-> 0]
McQuests ==
    << [levels |-> {1, 2}, honors |-> {1}, after |-> {}, begin |-> 0,
        npcs |-> <<Talk(0), Done(1)>>,
        mobs |-> <<[species |-> "wolf", need |-> 2]>>,
        rankUp |-> FALSE, gift |-> FALSE, exp |-> 1, skillExp |-> 0, honor |-> 1],
       [levels |-> {1, 2}, honors |-> {1, 2}, after |-> {}, begin |-> 0,
        npcs |-> <<Talk(0), Door(1), Done(2)>>,
        mobs |-> <<[species |-> "boar", need |-> 1],
                   [species |-> "wolf", need |-> 1]>>,
        rankUp |-> FALSE, gift |-> TRUE, exp |-> 2, skillExp |-> 1, honor |-> 1],
       [levels |-> {1, 2}, honors |-> {1, 2}, after |-> {1}, begin |-> -1,
        npcs |-> <<Done(0)>>, mobs |-> <<>>,
        rankUp |-> TRUE, gift |-> TRUE, exp |-> 1, skillExp |-> 2, honor |-> 0] >>

Newcomer ==
    [level |-> 1, exp |-> 0, stats |-> [s \in McStats |-> 1], points |-> 0,
     battleRank |-> 1, skill |-> [rank |-> 1, level |-> 0, exp |-> 0, point |-> 0],
     honor |-> [rank |-> 1, point |-> 0], alz |-> 0, skills |-> <<>>,
     quick |-> <<>>, quests |-> [s \in QuestNo |-> NoQuest], count |-> 0,
     flags |-> {}, mask |-> {}]

Idle == [quests |-> {}, acts |-> {}, mobs |-> {}, rewards |-> {}, slots |-> {},
         books |-> {}, adds |-> {}, levels |-> {}, quick |-> {}]

\* Quests; skills and a rank-up; quick slots; stats and levels; honor.
Trainee ==
    [Newcomer EXCEPT !.flags = {1}, !.exp = 1, !.alz = 1, !.level = 2,
                     !.skills = <<[id |-> 1, level |-> 1, at |-> 0]>>]
Ordered ==
    << [char |-> Newcomer,
        plan |-> [Idle EXCEPT !.quests = {0, 1, 2}, !.acts = {<<1>>, <<1, 2>>},
                              !.mobs = {Boar, Wolf}]],
       [char |-> Trainee,
        plan |-> [Idle EXCEPT !.quests = {3}, !.slots = {0, 1}, !.levels = {0, 3},
                              !.mobs = {[Wolf EXCEPT !.skillExp = 1]},
                              !.books = {[id |-> 1, level |-> 0]}]],
       [char |-> [Trainee EXCEPT !.skills = Append(@, [id |-> 1, level |-> 1, at |-> 1])],
        plan |-> [Idle EXCEPT !.slots = {0, 1}, !.quick = {0, 1, 2}]],
       [char |-> Newcomer,
        plan |-> [Idle EXCEPT !.adds = [McStats -> -1 .. 2],
                              !.mobs = {[Wolf EXCEPT !.exp = 1]},
                              !.rewards = {[kind |-> "exp", n |-> 3]}]],
       [char |-> Newcomer,
        plan |-> [Idle EXCEPT !.rewards = {[kind |-> "skillExp", n |-> 1],
                                           [kind |-> "honor", n |-> 1]}]] >>
McStarts == Range(Ordered)
=============================================================================
