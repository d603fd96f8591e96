------------------------- MODULE WorldSessionProofs -------------------------
(***************************************************************************)
(* Proofs about WorldSession for any worlds, players, connections and      *)
(* limits of the memory, and about the aggro list of a mob in MobAggro for *)
(* any characters, length of the list and damage.                          *)
(***************************************************************************)
EXTENDS WorldSession, MobAggro, RunLemmas, FunctionTheorems, FiniteSetTheorems,
        SequenceTheorems, WellFoundedInduction, TLAPS

-----------------------------------------------------------------------------
(* Lists without duplicates.                                               *)

Injective(s) == \A i, j \in DOMAIN s : s[i] = s[j] => i = j

\* No element is twice in the lists P of all places.
Singly(P) ==
    /\ \A p \in Places : Injective(P[p])
    /\ \A p, q \in Places : \A x : Has(P[p], x) /\ Has(P[q], x) => p = q

\* Pigeonhole: a list of distinct numbers up to n has at most n entries, and
\* fewer when one of the numbers is missing.
LEMMA InjectiveShort ==
    ASSUME NEW n \in Nat, NEW s, NEW S, s \in Seq(S),
           \A i \in DOMAIN s : s[i] \in 1 .. n, Injective(s)
    PROVE  /\ Len(s) <= n
           /\ \A e \in 1 .. n : ~Has(s, e) => Len(s) < n
  <1>1. Len(s) \in Nat /\ DOMAIN s = 1 .. Len(s)
    OBVIOUS
  <1>2. ASSUME NEW T \in SUBSET (1 .. n), \A i \in DOMAIN s : s[i] \in T
        PROVE  Len(s) <= Cardinality(T) /\ IsFiniteSet(T)
    <2>1. s \in [1 .. Len(s) -> T]
      BY <1>1, <1>2
    <2>2. s \in Injection(1 .. Len(s), T)
      BY <2>1, <1>1, Fun_IsInj DEF Injective
    <2>3. IsFiniteSet(T)
      <3>1. IsFiniteSet(1 .. n)
        BY FS_Interval
      <3> QED BY <3>1, FS_Subset
    <2>4. Cardinality(1 .. Len(s)) <= Cardinality(T)
      BY <2>2, <2>3, FS_Injection
    <2> QED BY <2>3, <2>4, <1>1, FS_Interval
  <1>3. Cardinality(1 .. n) = n /\ IsFiniteSet(1 .. n)
    BY FS_Interval
  <1>4. ASSUME NEW e \in 1 .. n, ~Has(s, e) PROVE Len(s) < n
    <2>1. Cardinality((1 .. n) \ {e}) = n - 1
      BY <1>3, FS_RemoveElement
    <2>2. \A i \in DOMAIN s : s[i] \in (1 .. n) \ {e}
      BY <1>4 DEF Has
    <2> QED BY <1>1, <1>2, <2>1, <2>2
  <1> QED BY <1>2, <1>3, <1>4

LEMMA RemovedList ==
    ASSUME NEW S, NEW s \in Seq(S), NEW i \in DOMAIN s
    PROVE  /\ RemovedAt(s, i) \in Seq(S)
           /\ Len(RemovedAt(s, i)) = Len(s) - 1
           /\ \A k \in DOMAIN RemovedAt(s, i) :
                 /\ k \in 1 .. Len(s) - 1
                 /\ RemovedAt(s, i)[k] = IF k < i THEN s[k] ELSE s[k + 1]
           /\ \A k \in DOMAIN s : k # i => Has(RemovedAt(s, i), s[k])
  <1> DEFINE r == RemovedAt(s, i)
  <1>1. Len(s) \in Nat /\ DOMAIN s = 1 .. Len(s) /\ i \in 1 .. Len(s)
    OBVIOUS
  <1>2. DOMAIN r = 1 .. Len(s) - 1
    BY DEF RemovedAt
  <1>3. \A k \in DOMAIN r : r[k] = IF k < i THEN s[k] ELSE s[k + 1]
    BY DEF RemovedAt
  <1>4. r \in [1 .. Len(s) - 1 -> S]
    BY <1>1 DEF RemovedAt
  <1>5. r \in Seq(S) /\ Len(r) = Len(s) - 1
    <2>1. Len(s) - 1 \in Nat
      BY <1>1
    <2> HIDE DEF r
    <2> QED BY <1>2, <1>4, <2>1
  <1>6. ASSUME NEW k \in DOMAIN s, k # i PROVE Has(r, s[k])
    <2>1. CASE k < i
      BY <1>1, <1>2, <1>3, <1>6, <2>1 DEF Has
    <2>2. CASE ~(k < i)
      <3>1. k - 1 \in DOMAIN r /\ ~(k - 1 < i) /\ (k - 1) + 1 = k
        BY <1>1, <1>2, <1>6, <2>2
      <3>2. r[k - 1] = s[k]
        BY <3>1, <1>3
      <3> QED BY <3>1, <3>2 DEF Has
    <2> QED BY <2>1, <2>2
  <1> QED BY <1>2, <1>3, <1>5, <1>6

\* Taking an element out of a list without duplicates.
LEMMA WithoutList ==
    ASSUME NEW S, NEW s \in Seq(S), NEW e, Has(s, e), Injective(s)
    PROVE  /\ Without(s, e) \in Seq(S)
           /\ Injective(Without(s, e))
           /\ \A x : Has(Without(s, e), x) <=> Has(s, x) /\ x # e
  <1> DEFINE n == FirstOf(s, e)
             r == RemovedAt(s, n)
  <1>1. Len(s) \in Nat /\ DOMAIN s = 1 .. Len(s)
    OBVIOUS
  <1>2. n \in DOMAIN s /\ s[n] = e
    <2>1. PICK i \in DOMAIN s : s[i] = e
      BY DEF Has
    <2>2. \A k \in 1 .. i - 1 : s[k] # e
      BY <1>1, <2>1 DEF Injective
    <2> QED BY <2>1, <2>2 DEF FirstOf
  <1>3. Without(s, e) = r
    BY DEF Without
  <1> HIDE DEF n
  <1>4. /\ r \in Seq(S) /\ Len(r) = Len(s) - 1
        /\ \A k \in DOMAIN r : /\ k \in 1 .. Len(s) - 1
                               /\ r[k] = IF k < n THEN s[k] ELSE s[k + 1]
        /\ \A k \in DOMAIN s : k # n => Has(r, s[k])
    BY <1>2, RemovedList
  <1> HIDE DEF r
  <1>5. ASSUME NEW k \in DOMAIN r
        PROVE  \E i \in DOMAIN s : i = (IF k < n THEN k ELSE k + 1) /\ i # n /\ r[k] = s[i]
    BY <1>1, <1>2, <1>4
  <1>6. Injective(r)
    BY SMTT(60), <1>1, <1>2, <1>4 DEF Injective
  <1>7. ASSUME NEW x, Has(r, x) PROVE Has(s, x) /\ x # e
    BY <1>2, <1>5, <1>7 DEF Has, Injective
  <1>8. ASSUME NEW x, Has(s, x), x # e PROVE Has(r, x)
    <2>1. PICK k \in DOMAIN s : s[k] = x
      BY <1>8 DEF Has
    <2> QED BY <2>1, <1>2, <1>4, <1>8
  <1> QED BY <1>3, <1>4, <1>6, <1>7, <1>8

LEMMA AppendList ==
    ASSUME NEW S, NEW s \in Seq(S), NEW e \in S, ~Has(s, e), Injective(s)
    PROVE  /\ Append(s, e) \in Seq(S)
           /\ Injective(Append(s, e))
           /\ \A x : Has(Append(s, e), x) <=> Has(s, x) \/ x = e
  <1> DEFINE r == Append(s, e)
  <1>1. Len(s) \in Nat /\ DOMAIN s = 1 .. Len(s)
    OBVIOUS
  <1>2. r \in Seq(S) /\ DOMAIN r = 1 .. Len(s) + 1
    OBVIOUS
  <1>3. \A k \in DOMAIN r : r[k] = IF k = Len(s) + 1 THEN e ELSE s[k]
    OBVIOUS
  <1> HIDE DEF r
  <1>4. Injective(r)
    BY <1>1, <1>2, <1>3 DEF Injective, Has
  <1>5. \A x : Has(r, x) <=> Has(s, x) \/ x = e
    <2>1. ASSUME NEW x, Has(r, x) PROVE Has(s, x) \/ x = e
      BY <2>1, <1>1, <1>2, <1>3 DEF Has
    <2>2. ASSUME NEW x, Has(s, x) \/ x = e PROVE Has(r, x)
      <3>1. Len(s) + 1 \in DOMAIN r /\ r[Len(s) + 1] = e
        BY <1>1, <1>2, <1>3
      <3>2. \A k \in DOMAIN s : k \in DOMAIN r /\ r[k] = s[k]
        BY <1>1, <1>2, <1>3
      <3> QED BY <2>2, <3>1, <3>2 DEF Has
    <2> QED BY <2>1, <2>2
  <1> QED BY <1>2, <1>4, <1>5 DEF r

-----------------------------------------------------------------------------
(* The lists of all places: who leaves, and who comes.                     *)

Lists(S)        == [Places -> Seq(S)]
OutOf(P, pl, e) == [P EXCEPT ![pl] = Without(@, e)]
Into(P, pl, e)  == [P EXCEPT ![pl] = Append(@, e)]

LEMMA DespawnFrom ==
    ASSUME NEW S, NEW P \in Lists(S), Singly(P),
           NEW pl \in Places, NEW e, Has(P[pl], e)
    PROVE  /\ OutOf(P, pl, e) \in Lists(S) /\ Singly(OutOf(P, pl, e))
           /\ \A p \in Places : \A x :
                 Has(OutOf(P, pl, e)[p], x) <=> Has(P[p], x) /\ x # e
           /\ \A p \in Places \ {pl} : OutOf(P, pl, e)[p] = P[p]
  <1> DEFINE Q == OutOf(P, pl, e)
  <1>0. Q = [P EXCEPT ![pl] = Without(@, e)]
    BY DEF OutOf
  <1> HIDE DEF Q
  <1>1. /\ Q[pl] \in Seq(S) /\ Injective(Q[pl])
        /\ \A x : Has(Q[pl], x) <=> Has(P[pl], x) /\ x # e
    BY <1>0, WithoutList DEF Singly, Lists
  <1>2. \A p \in Places : p # pl => Q[p] = P[p] /\ ~Has(P[p], e)
    BY <1>0 DEF Singly, Lists
  <1>3. \A p \in Places : \A x : Has(Q[p], x) <=> Has(P[p], x) /\ x # e
    BY <1>1, <1>2
  <1>4. Q \in Lists(S)
    BY <1>0, <1>1 DEF Lists
  <1>5. Singly(Q)
    BY <1>1, <1>2, <1>3 DEF Singly
  <1> QED BY <1>2, <1>3, <1>4, <1>5 DEF Q

LEMMA SpawnIn ==
    ASSUME NEW S, NEW P \in Lists(S), Singly(P),
           NEW pl \in Places, NEW e \in S, \A p \in Places : ~Has(P[p], e)
    PROVE  /\ Into(P, pl, e) \in Lists(S) /\ Singly(Into(P, pl, e))
           /\ \A p \in Places : \A x :
                 Has(Into(P, pl, e)[p], x) <=> Has(P[p], x) \/ (p = pl /\ x = e)
           /\ \A p \in Places \ {pl} : Into(P, pl, e)[p] = P[p]
  <1> DEFINE Q == Into(P, pl, e)
  <1>0. Q = [P EXCEPT ![pl] = Append(@, e)]
    BY DEF Into
  <1> HIDE DEF Q
  <1>1. /\ Q[pl] \in Seq(S) /\ Injective(Q[pl])
        /\ \A x : Has(Q[pl], x) <=> Has(P[pl], x) \/ x = e
    BY <1>0, AppendList DEF Singly, Lists
  <1>2. \A p \in Places : p # pl => Q[p] = P[p]
    BY <1>0 DEF Lists
  <1>3. \A p \in Places : \A x :
           Has(Q[p], x) <=> Has(P[p], x) \/ (p = pl /\ x = e)
    BY <1>1, <1>2
  <1>4. Q \in Lists(S)
    BY <1>0, <1>1 DEF Lists
  <1>5. Singly(Q)
    <2>1. \A p \in Places : Injective(Q[p])
      BY <1>1, <1>2 DEF Singly
    <2>2. ASSUME NEW p \in Places, NEW q \in Places, NEW x, Has(Q[p], x), Has(Q[q], x)
          PROVE  p = q
      <3>1. /\ Has(P[p], x) \/ (p = pl /\ x = e)
            /\ Has(P[q], x) \/ (q = pl /\ x = e)
        BY <1>3, <2>2
      <3>2. Has(P[p], x) /\ Has(P[q], x) => p = q
        BY DEF Singly
      <3> QED BY <3>1, <3>2
    <2> QED BY <2>1, <2>2 DEF Singly
  <1> QED BY <1>2, <1>3, <1>4, <1>5 DEF Q
-----------------------------------------------------------------------------
(* What the invariant says of a client in play and of the lookups.         *)

LEMMA SinglyMeans ==
    ASSUME NEW P, Singly(P)
    PROVE  \A p, q \in Places : \A i \in DOMAIN P[p], j \in DOMAIN P[q] :
              P[p][i] = P[q][j] => p = q /\ i = j
  <1>1. ASSUME NEW p \in Places, NEW q \in Places,
               NEW i \in DOMAIN P[p], NEW j \in DOMAIN P[q], P[p][i] = P[q][j]
        PROVE  p = q /\ i = j
    <2>1. Has(P[p], P[p][i]) /\ Has(P[q], P[p][i])
      BY <1>1 DEF Has
    <2>2. p = q
      BY <2>1 DEF Singly
    <2> QED BY <1>1, <2>2 DEF Singly, Injective
  <1> QED BY <1>1

LEMMA SinglyPresent ==
    ASSUME ListedOnce
    PROVE  /\ Singly(present)
           /\ \A pl \in Places : \A x : Has(present[pl], x) => x \in DOMAIN characters
  BY DEF ListedOnce, Singly, Has, Injective

LEMMA Counts ==
    ASSUME TypeOK
    PROVE  /\ Len(characters) \in Nat /\ DOMAIN characters = 1 .. Len(characters)
           /\ Len(kinds) \in Nat /\ DOMAIN kinds = 1 .. Len(kinds)
           /\ Len(dungeons) \in Nat /\ DOMAIN dungeons = 1 .. Len(dungeons)
           /\ Len(looted) \in Nat /\ DOMAIN looted = 1 .. Len(looted)
           /\ \A pl \in Places : Len(present[pl]) \in Nat /\ DOMAIN present[pl] = 1 .. Len(present[pl])
           /\ \A pl \in Places : Len(items[pl]) \in Nat /\ DOMAIN items[pl] = 1 .. Len(items[pl])
  BY DEF TypeOK

LEMMA RecordFields ==
    ASSUME TypeOK, NEW i \in DOMAIN characters
    PROVE  /\ characters[i] \in Characters
           /\ characters[i].id \in 1 .. MaxEntities
           /\ characters[i].conn \in ConnIDs
           /\ characters[i].player \in Players
           /\ characters[i].world \in Worlds
  <1>1. characters[i] \in Characters
    BY DEF TypeOK
  <1> QED BY <1>1 DEF Characters

LEMMA DungeonFields ==
    ASSUME TypeOK, NEW n \in DOMAIN dungeons
    PROVE  /\ dungeons[n] = [world |-> dungeons[n].world, owner |-> dungeons[n].owner]
           /\ dungeons[n].world \in QuestWorlds
           /\ n \in 1 .. MaxInstances /\ n \in 0 .. MaxInstances
  <1>1. dungeons[n] \in Dungeons
    BY DEF TypeOK
  <1>2. n \in 1 .. Len(dungeons) /\ Len(dungeons) <= MaxInstances /\ Len(dungeons) \in Nat
    BY Counts DEF TypeOK
  <1> QED BY <1>1, <1>2, SessionAssumption DEF Dungeons

\* No list is longer than the number of records, and one without the entity of
\* a record is shorter.
LEMMA ListsShort ==
    ASSUME TypeOK, ListedOnce, NEW pl \in Places
    PROVE  /\ Len(present[pl]) <= Len(characters)
           /\ \A e \in DOMAIN characters :
                 ~Has(present[pl], e) => Len(present[pl]) < Len(characters)
  <1>1. /\ Len(characters) \in Nat /\ DOMAIN characters = 1 .. Len(characters)
    BY Counts
  <1>2. present[pl] \in Seq(1 .. MaxEntities)
    BY DEF TypeOK
  <1>3. Injective(present[pl]) /\ \A i \in DOMAIN present[pl] : present[pl][i] \in DOMAIN characters
    BY SinglyPresent DEF Singly, ListedOnce
  <1> QED BY <1>1, <1>2, <1>3, InjectiveShort

LEMMA ListedIs ==
    ASSUME TypeOK, ListedOnce, NEW e
    PROVE  \A pl \in Places : \A i \in DOMAIN present[pl] :
              present[pl][i] = e => <<pl, i>> \in Listed(e)
  <1>1. ASSUME NEW pl \in Places, NEW i \in DOMAIN present[pl], present[pl][i] = e
        PROVE  <<pl, i>> \in Listed(e)
    <2>1. Len(present[pl]) <= Len(characters) /\ Len(characters) <= MaxCharacters
      BY ListsShort DEF TypeOK
    <2>2. i \in 1 .. MaxCharacters
      BY <1>1, <2>1, Counts, SessionAssumption
    <2> QED BY <1>1, <2>2 DEF Listed
  <1> QED BY <1>1

\* RTRuntimeGetCharacter finds the record made for the entity of a client.
LEMMA PlayFacts ==
    ASSUME SessionInv, NEW c \in ConnIDs, client[c].entity # 0
    PROVE  /\ client[c].entity \in DOMAIN characters
           /\ client[c].entity \in 1 .. MaxCharacters
           /\ client[c].entity \in 1 .. MaxEntities
           /\ Lookup(client[c].entity) = client[c].entity
           /\ Of(client[c].entity) = characters[client[c].entity]
           /\ characters[client[c].entity] \in Characters
           /\ characters[client[c].entity].id = client[c].entity
           /\ characters[client[c].entity].conn = c
           /\ client[c].phase = "open"
  <1>1. TypeOK /\ Bound /\ Lockstep
    BY DEF SessionInv
  <1>2. client[c].entity \in DOMAIN characters /\ client[c].phase = "open"
    BY <1>1 DEF Bound
  <1>3. Len(characters) \in Nat /\ DOMAIN characters = 1 .. Len(characters)
        /\ Len(characters) <= MaxCharacters
        /\ Len(characters) <= Len(kinds) /\ Len(kinds) <= MaxEntities /\ Len(kinds) \in Nat
    BY <1>1, Counts DEF TypeOK, Lockstep
  <1>4. slots[client[c].entity] = client[c].entity
    BY <1>1, <1>2 DEF Lockstep
  <1>5. characters[client[c].entity] \in Characters
    BY <1>1, <1>2 DEF TypeOK
  <1>6. characters[client[c].entity].id = client[c].entity
        /\ characters[client[c].entity].conn = c
    BY <1>1, <1>2 DEF Bound, Lockstep
  <1>7. client[c].entity \in 1 .. MaxCharacters /\ client[c].entity \in 1 .. MaxEntities
    BY <1>2, <1>3, SessionAssumption
  <1> QED BY <1>2, <1>4, <1>5, <1>6, <1>7 DEF Lookup, Of

\* RTRuntimeGetWorldByCharacter gives a place where the position says it is.
LEMMA WorldOfIs ==
    ASSUME SessionInv, NEW e \in DOMAIN characters, WorldOf(characters[e]) # Void
    PROVE  WorldOf(characters[e]) \in Places /\ AtPosition(e, WorldOf(characters[e]))
  <1> DEFINE ch == characters[e]
  <1>1. TypeOK /\ Lockstep
    BY DEF SessionInv
  <1>2. ch \in Characters /\ ch.id = e /\ ch.world \in Worlds
    BY <1>1, RecordFields DEF Lockstep
  <1>3. CASE ch.world \in Normal
    <2>1. WorldOf(ch) = <<ch.world, 0>>
      BY <1>3 DEF WorldOf
    <2>2. 0 \in 0 .. MaxInstances
      BY SessionAssumption
    <2>3. <<ch.world, 0>> \in Places
      BY <1>2, <2>2 DEF Places
    <2> QED BY <1>3, <2>1, <2>3 DEF AtPosition
  <1>4. CASE ch.world \notin Normal
    <2> DEFINE T == OwnInstances(ch)
               n == CHOOSE n \in T : \A k \in T : n <= k
    <2>1. T # {} /\ WorldOf(ch) = <<ch.world, n>>
      BY <1>4 DEF WorldOf
    <2>2. T \in SUBSET Nat
      BY <1>1, Counts DEF OwnInstances
    <2>3. n \in T
      BY <2>1, <2>2, LeastElement
    <2>4. n \in DOMAIN dungeons /\ dungeons[n].world = ch.world /\ dungeons[n].owner = e
      BY <1>2, <2>3 DEF OwnInstances
    <2> HIDE DEF n
    <2>5. dungeons[n] = [world |-> ch.world, owner |-> e] /\ n \in 0 .. MaxInstances
      BY <1>1, <2>4, DungeonFields
    <2>6. <<ch.world, n>> \in Places
      BY <1>2, <2>5 DEF Places
    <2> QED BY <2>1, <2>4, <2>5, <2>6 DEF AtPosition
  <1> QED BY <1>3, <1>4

\* It is the place of the position, when no instance is there twice.
LEMMA WorldOfPlace ==
    ASSUME SessionInv, NEW e \in DOMAIN characters, NEW pl \in Places, AtPosition(e, pl),
           \A i, j \in DOMAIN dungeons : i # j => dungeons[i] # dungeons[j]
    PROVE  WorldOf(characters[e]) = pl
  <1> DEFINE ch == characters[e]
  <1>1. TypeOK /\ ch.id = e
    BY DEF SessionInv, Lockstep
  <1>2. pl = <<pl[1], pl[2]>> /\ pl[1] = ch.world
    BY DEF Places, AtPosition
  <1>3. CASE ch.world \in Normal
    <2>1. pl[2] = 0
      <3>1. ASSUME pl[2] \in DOMAIN dungeons, dungeons[pl[2]] = [world |-> pl[1], owner |-> e]
            PROVE  FALSE
        <4>1. dungeons[pl[2]].world \in QuestWorlds
          BY <1>1, <3>1, DungeonFields
        <4> QED BY <1>2, <1>3, <3>1, <4>1 DEF Normal
      <3> QED BY <3>1 DEF AtPosition
    <2> QED BY <1>2, <1>3, <2>1 DEF WorldOf
  <1>4. CASE ch.world \notin Normal
    <2> DEFINE T == OwnInstances(ch)
    <2>1. pl[2] \in DOMAIN dungeons /\ dungeons[pl[2]] = [world |-> ch.world, owner |-> e]
      BY <1>2, <1>4 DEF AtPosition
    <2>2. pl[2] \in T
      BY <1>1, <2>1 DEF OwnInstances
    <2>3. \A k \in T : k = pl[2]
      <3>1. ASSUME NEW k \in T PROVE dungeons[k] = [world |-> ch.world, owner |-> e] /\ k \in DOMAIN dungeons
        BY <1>1, DungeonFields DEF OwnInstances
      <3> QED BY <2>1, <3>1
    <2>4. pl[2] <= pl[2]
      BY <1>1, <2>1, Counts
    <2> HIDE DEF T
    <2>5. (CHOOSE m \in T : \A k \in T : m <= k) = pl[2]
      BY <2>2, <2>3, <2>4
    <2>6. WorldOf(ch) = <<ch.world, CHOOSE m \in T : \A k \in T : m <= k>>
      BY <1>4, <2>2 DEF WorldOf, T
    <2> QED BY <1>2, <2>5, <2>6
  <1> QED BY <1>3, <1>4

-----------------------------------------------------------------------------
(* What a step that moves nobody keeps.                                    *)

\* A client keeps its character, and a flagged one its flag.
ClientsKept ==
    \A c \in ConnIDs :
        /\ client'[c].entity = client[c].entity
        /\ client[c].entity # 0 =>
              /\ client'[c].phase = client[c].phase
              /\ client[c].disc => client'[c].disc

RecordsKept ==
    /\ Len(characters') = Len(characters) /\ DOMAIN characters' = DOMAIN characters
    /\ \A i \in DOMAIN characters :
          /\ characters'[i].id = characters[i].id
          /\ characters'[i].conn = characters[i].conn
          /\ characters'[i].world = characters[i].world

LEMMA Frame ==
    ASSUME SessionInv, ClientsKept, RecordsKept, TypeOK',
           UNCHANGED <<kinds, slots, present, dungeons>>
    PROVE  Lockstep' /\ Bound' /\ ListedOnce' /\ Placed' /\ NoGhosts'
  <1>1. TypeOK /\ Lockstep /\ Bound /\ ListedOnce /\ Placed /\ NoGhosts
    BY DEF SessionInv
  <1>2. Lockstep'
    BY <1>1 DEF Lockstep, RecordsKept
  <1>3. Bound'
    BY <1>1 DEF Bound, RecordsKept, ClientsKept
  <1>4. ListedOnce'
    BY <1>1 DEF ListedOnce, RecordsKept
  <1>5. Placed'
    <2>1. ASSUME NEW c \in ConnIDs, client[c].entity # 0, NEW pl \in Places,
                 AtPosition(client[c].entity, pl)
          PROVE  AtPosition(client[c].entity, pl)'
      BY <1>1, <2>1 DEF AtPosition, RecordsKept, ClientsKept, Bound
    <2> QED BY <1>1, <2>1 DEF Placed, ClientsKept
  <1>6. NoGhosts'
    <2>1. ASSUME NEW i \in DOMAIN characters, Listed(characters[i].id) # {}
          PROVE  \/ client'[characters[i].conn].phase = "open"
                    /\ client'[characters[i].conn].entity = characters[i].id
                 \/ \E j \in DOMAIN characters : j > i /\ characters[j].conn = characters[i].conn
      <3>1. characters[i].id = i /\ i # 0 /\ characters[i].conn \in ConnIDs
        BY <1>1, Counts, RecordFields DEF Lockstep
      <3> QED BY <1>1, <2>1, <3>1 DEF NoGhosts, ClientsKept
    <2> QED BY <2>1 DEF NoGhosts, Listed, RecordsKept
  <1> QED BY <1>2, <1>3, <1>4, <1>5, <1>6

LEMMA GroundFrame ==
    ASSUME SessionInv, UNCHANGED <<items, looted, kinds>>
    PROVE  LyingOnce' /\ LootedOnce'
  BY DEF SessionInv, LyingOnce, LootedOnce

LEMMA QuestFrame ==
    ASSUME SessionInv, UNCHANGED <<items, present, dungeons, hunted>>
    PROVE  QuestsEmpty'
  BY DEF SessionInv, QuestsEmpty

\* The step that ends the process.
LEMMA FaultFrame ==
    ASSUME SessionInv, NEW f \in Faults \ {"SpawnCharacter"}, Fault(f)
    PROVE  SessionInv'
  <1>1. TypeOK'
    BY DEF SessionInv, TypeOK, Fault, memory, master
  <1>2. ClientsKept /\ RecordsKept
    BY DEF Fault, memory, ClientsKept, RecordsKept
  <1>3. UNCHANGED <<kinds, slots, present, dungeons, items, looted, hunted>>
    BY DEF Fault, memory
  <1>4. SpawnCharacterAsserts'
    BY DEF Fault, SpawnCharacterAsserts
  <1> QED BY <1>1, <1>2, <1>3, <1>4, Frame, GroundFrame, QuestFrame DEF SessionInv
-----------------------------------------------------------------------------
(* The steps, one lemma each where the lists or the records change.        *)

LEMMA SessionInit == Init => SessionInv
  <1> SUFFICES ASSUME Init PROVE SessionInv
    OBVIOUS
  <1>0. \A s : Len(<<>>) = 0 /\ DOMAIN <<>> = {} /\ <<>> \in Seq(s)
    OBVIOUS
  <1>1. /\ DOMAIN characters = {} /\ DOMAIN looted = {} /\ Len(characters) = 0 /\ Len(kinds) = 0
        /\ \A pl \in Places : DOMAIN present[pl] = {} /\ DOMAIN items[pl] = {}
    BY <1>0 DEF Init
  <1>2. TypeOK
    <2>1. client \in [ConnIDs -> Clients]
      BY SessionAssumption DEF Init, Client, Clients
    <2>2. saved \in [Players -> Worlds]
      BY DEF Init, Normal
    <2>3. slots \in [1 .. MaxCharacters -> 1 .. MaxCharacters]
      BY SessionAssumption DEF Init
    <2>4. present \in [Places -> Seq(1 .. MaxEntities)] /\ items \in [Places -> Seq(Items)]
      BY <1>0 DEF Init
    <2>5. \A pl \in Places : Len(items[pl]) <= MaxItems
      BY <1>0, SessionAssumption DEF Init
    <2>6. /\ toMaster \in Seq(Requests) /\ toWorld \in Seq(Replies)
          /\ kinds \in Seq({"character", "item"}) /\ Len(kinds) <= MaxEntities
          /\ characters \in Seq(Characters) /\ Len(characters) <= MaxCharacters
          /\ dungeons \in Seq(Dungeons) /\ Len(dungeons) <= MaxInstances
          /\ looted \in Seq(1 .. MaxEntities)
      BY <1>0, SessionAssumption DEF Init
    <2> QED BY <2>1, <2>2, <2>3, <2>4, <2>5, <2>6 DEF Init, TypeOK, Faults
  <1>3. Lockstep /\ ListedOnce /\ LyingOnce /\ LootedOnce
    BY <1>1 DEF Lockstep, ListedOnce, LyingOnce, LootedOnce
  <1>4. Bound /\ Placed
    BY DEF Init, Client, Bound, Placed
  <1>5. QuestsEmpty
    BY SessionAssumption DEF Init, QuestsEmpty, Places
  <1>6. NoGhosts /\ SpawnCharacterAsserts
    BY <1>0 DEF Init, NoGhosts, SpawnCharacterAsserts
  <1> QED BY <1>2, <1>3, <1>4, <1>5, <1>6 DEF SessionInv

\* A step of a client, of the master or of the link that changes no list.
Quiet ==
    UNCHANGED <<kinds, slots, characters, present, items, dungeons, hunted,
                looted, fault>>

LEMMA QuietKeeps ==
    ASSUME SessionInv, TypeOK', ClientsKept, Quiet
    PROVE  SessionInv'
  <1>1. RecordsKept
    BY DEF Quiet, RecordsKept
  <1>2. SpawnCharacterAsserts'
    BY DEF SessionInv, Quiet, SpawnCharacterAsserts
  <1> QED BY <1>1, <1>2, Frame, GroundFrame, QuestFrame DEF Quiet, SessionInv

LEMMA ClientType ==
    ASSUME TypeOK, NEW c \in ConnIDs
    PROVE  /\ client[c] \in Clients
           /\ client[c].entity \in 0 .. MaxEntities
  BY DEF TypeOK, Clients

LEMMA AcceptKeeps ==
    ASSUME SessionInv, NEW c \in ConnIDs,
           Accept(c) \/ CharacterIndexLoaded(c) \/ Close(c)
    PROVE  SessionInv'
  <1>1. TypeOK /\ Bound
    BY DEF SessionInv
  <1>2. CASE Accept(c)
    <2>1. TypeOK'
      BY <1>1, <1>2 DEF Accept, TypeOK, Clients, memory, master
    <2>2. ClientsKept
      BY <1>1, <1>2 DEF Accept, ClientsKept, Bound, TypeOK, Clients
    <2> QED BY <1>2, <2>1, <2>2, QuietKeeps DEF Accept, Quiet, memory
  <1>3. CASE CharacterIndexLoaded(c)
    <2>1. TypeOK'
      BY <1>1, <1>3 DEF CharacterIndexLoaded, TypeOK, Clients, memory, master
    <2>2. ClientsKept
      BY <1>1, <1>3 DEF CharacterIndexLoaded, ClientsKept, TypeOK, Clients
    <2> QED BY <1>3, <2>1, <2>2, QuietKeeps DEF CharacterIndexLoaded, Quiet, memory
  <1>4. CASE Close(c)
    <2>1. TypeOK'
      BY <1>1, <1>4 DEF Close, TypeOK, Clients, memory, master
    <2>2. ClientsKept
      BY <1>1, <1>4 DEF Close, ClientsKept, TypeOK, Clients
    <2> QED BY <1>4, <2>1, <2>2, QuietKeeps DEF Close, Quiet, memory
  <1> QED BY <1>2, <1>3, <1>4

LEMMA InitializeKeeps ==
    ASSUME SessionInv, NEW c \in ConnIDs, NEW p \in Players, Initialize(c, p)
    PROVE  SessionInv'
  <1>1. TypeOK
    BY DEF SessionInv
  <1>2. Get(c, p) \in Requests
    BY DEF Get, Requests
  <1>3. toMaster' \in Seq(Requests)
    BY <1>1, <1>2 DEF Initialize, TypeOK
  <1>4. TypeOK'
    BY <1>1, <1>3 DEF Initialize, TypeOK, memory
  <1>5. ClientsKept
    BY DEF Initialize, ClientsKept
  <1> QED BY <1>4, <1>5, QuietKeeps DEF Initialize, Quiet, memory

LEMMA RequestFields ==
    ASSUME NEW g \in Requests
    PROVE  /\ g.kind = "GET" => g.conn \in ConnIDs /\ g.player \in Players
           /\ g.kind = "SAVE" => g.player \in Players /\ g.world \in Worlds
  BY DEF Requests

LEMMA MasterKeeps ==
    ASSUME SessionInv, NEW ok \in BOOLEAN,
           OnWorldGetCharacterRequest(ok) \/ OnWorldDBSync(ok)
    PROVE  SessionInv'
  <1> DEFINE g == Head(toMaster)
  <1>1. TypeOK
    BY DEF SessionInv
  <1>2. toMaster # <<>> /\ g \in Requests /\ Tail(toMaster) \in Seq(Requests)
    BY <1>1 DEF TypeOK, OnWorldGetCharacterRequest, OnWorldDBSync
  <1>3. ClientsKept
    BY DEF OnWorldGetCharacterRequest, OnWorldDBSync, ClientsKept
  <1>4. Quiet
    BY DEF OnWorldGetCharacterRequest, OnWorldDBSync, Quiet, memory
  <1>5. CASE OnWorldGetCharacterRequest(ok)
    <2>1. g.conn \in ConnIDs /\ g.player \in Players
      BY <1>2, <1>5, RequestFields DEF OnWorldGetCharacterRequest
    <2>2. Reply(g, ok, saved[g.player]) \in Replies
      BY <1>1, <2>1 DEF Reply, Replies, TypeOK
    <2>3. toWorld' \in Seq(Replies)
      BY <1>1, <1>5, <2>2 DEF OnWorldGetCharacterRequest, TypeOK
    <2>4. TypeOK'
      BY <1>1, <1>2, <1>5, <2>3 DEF OnWorldGetCharacterRequest, TypeOK, memory
    <2> QED BY <2>4, <1>3, <1>4, QuietKeeps
  <1>6. CASE OnWorldDBSync(ok)
    <2>1. g.player \in Players /\ g.world \in Worlds
      BY <1>2, <1>6, RequestFields DEF OnWorldDBSync
    <2>2. saved' \in [Players -> Worlds]
      BY <1>1, <1>6, <2>1 DEF OnWorldDBSync, TypeOK
    <2>3. TypeOK'
      BY <1>1, <1>2, <1>6, <2>2 DEF OnWorldDBSync, TypeOK, memory
    <2> QED BY <2>3, <1>3, <1>4, QuietKeeps
  <1> QED BY <1>5, <1>6

LEMMA LinkKeeps ==
    ASSUME SessionInv, BreakLink \/ Reconnect
    PROVE  SessionInv'
  <1>1. TypeOK
    BY DEF SessionInv
  <1>2. ClientsKept /\ Quiet
    BY DEF BreakLink, Reconnect, ClientsKept, Quiet, memory
  <1>3. CASE BreakLink
    <2>1. breaks' \in 0 .. MaxBreaks
      BY <1>1, <1>3, SessionAssumption DEF BreakLink, TypeOK
    <2>2. toMaster' \in Seq(Requests) /\ toWorld' \in Seq(Replies)
      BY <1>3 DEF BreakLink
    <2>3. TypeOK'
      BY <1>1, <1>3, <2>1, <2>2 DEF BreakLink, TypeOK, memory
    <2> QED BY <1>2, <2>3, QuietKeeps
  <1>4. CASE Reconnect
    <2>1. TypeOK'
      BY <1>1, <1>4 DEF Reconnect, TypeOK, memory
    <2> QED BY <1>2, <2>1, QuietKeeps
  <1> QED BY <1>3, <1>4
LEMMA DirtyKept ==
    ASSUME TypeOK, NEW e \in DOMAIN characters, NEW b \in BOOLEAN,
           characters' = [characters EXCEPT ![e].dirty = b]
    PROVE  /\ RecordsKept
           /\ characters' \in Seq(Characters) /\ Len(characters') <= MaxCharacters
  <1>1. characters \in Seq(Characters) /\ Len(characters) <= MaxCharacters
    BY DEF TypeOK
  <1>2. characters[e] \in Characters
    BY RecordFields
  <1>3. [characters[e] EXCEPT !.dirty = b] \in Characters
    BY <1>2 DEF Characters
  <1>4. characters' = [characters EXCEPT ![e] = [characters[e] EXCEPT !.dirty = b]]
    OBVIOUS
  <1>5. characters' \in Seq(Characters) /\ Len(characters') = Len(characters)
        /\ DOMAIN characters' = DOMAIN characters
    BY <1>1, <1>3, <1>4
  <1>6. ASSUME NEW i \in DOMAIN characters
        PROVE  /\ characters'[i].id = characters[i].id
               /\ characters'[i].conn = characters[i].conn
               /\ characters'[i].world = characters[i].world
    <2>1. characters[i] \in Characters
      BY RecordFields
    <2> QED BY <1>4, <2>1 DEF Characters
  <1> QED BY <1>1, <1>5, <1>6 DEF RecordsKept

LEMMA HitMobKeeps ==
    ASSUME SessionInv, NEW c \in ConnIDs, HitMob(c)
    PROVE  SessionInv'
  <1> DEFINE e  == client[c].entity
             pl == WorldOf(Of(e))
  <1>1. TypeOK /\ QuestsEmpty
    BY DEF SessionInv
  <1>2. e \in DOMAIN characters /\ pl = WorldOf(characters[e]) /\ pl # Void
    BY PlayFacts DEF HitMob, Playing
  <1>3. pl \in Places /\ AtPosition(e, pl)
    BY <1>2, WorldOfIs
  <1>4. hunted' = hunted \cup {pl}
    BY DEF HitMob
  <1> HIDE DEF pl
  <1>5. TypeOK'
    BY <1>1, <1>3, <1>4 DEF HitMob, TypeOK, memory, master
  <1>6. ASSUME NEW w \in QuestWorlds PROVE pl # <<w, 0>>
    <2>1. w \notin Normal
      BY DEF Normal
    <2>2. 0 \notin DOMAIN dungeons
      BY <1>1, Counts
    <2> QED BY <1>3, <2>1, <2>2 DEF AtPosition
  <1>7. QuestsEmpty'
    BY <1>1, <1>4, <1>6 DEF HitMob, QuestsEmpty
  <1>8. ClientsKept /\ RecordsKept /\ SpawnCharacterAsserts'
    BY DEF HitMob, ClientsKept, RecordsKept, SpawnCharacterAsserts, SessionInv, memory
  <1> QED BY <1>5, <1>7, <1>8, Frame, GroundFrame DEF HitMob, SessionInv, memory

LEMMA ItemFields ==
    ASSUME TypeOK, NEW pl \in Places, NEW i \in DOMAIN items[pl]
    PROVE  items[pl][i] \in Items /\ items[pl][i].id \in 1 .. MaxEntities
  <1>1. items[pl] \in Seq(Items)
    BY DEF TypeOK
  <1>2. items[pl][i] \in Items
    BY <1>1
  <1> QED BY <1>2 DEF Items

\* An item goes from the ground into the history.
LEMMA TakeKeeps ==
    ASSUME SessionInv, NEW pl \in Places, NEW i \in DOMAIN items[pl], Take(pl, i),
           UNCHANGED kinds
    PROVE  /\ items' \in [Places -> Seq(Items)] /\ looted' \in Seq(1 .. MaxEntities)
           /\ \A p \in Places : Len(items'[p]) <= MaxItems
           /\ \A p \in Places : items[p] = <<>> => items'[p] = <<>>
           /\ LyingOnce' /\ LootedOnce'
  <1> DEFINE it == items[pl][i]
             Was(p, k) == IF p = pl /\ k >= i THEN k + 1 ELSE k
  <1>1. TypeOK /\ LyingOnce /\ LootedOnce
    BY DEF SessionInv
  <1>2. /\ items \in [Places -> Seq(Items)] /\ items[pl] \in Seq(Items)
        /\ looted \in Seq(1 .. MaxEntities) /\ Len(items[pl]) <= MaxItems
    BY <1>1 DEF TypeOK
  <1>3. /\ items' = [items EXCEPT ![pl] = RemovedAt(@, i)]
        /\ looted' = Append(looted, it.id)
    BY DEF Take
  <1>4. it.id \in 1 .. MaxEntities /\ it.id \in DOMAIN kinds
    BY <1>1, ItemFields DEF LyingOnce
  <1>5. /\ items'[pl] \in Seq(Items) /\ Len(items'[pl]) = Len(items[pl]) - 1
        /\ \A k \in DOMAIN items'[pl] :
              /\ k \in 1 .. Len(items[pl]) - 1
              /\ items'[pl][k] = IF k < i THEN items[pl][k] ELSE items[pl][k + 1]
    BY SMTT(60), <1>2, <1>3, RemovedList
  <1>6. \A p \in Places : p # pl => items'[p] = items[p]
    BY <1>2, <1>3
  <1>7. items' \in [Places -> Seq(Items)]
    BY <1>2, <1>3, <1>5
  <1>8. \A p \in Places : Len(items'[p]) <= MaxItems
    <2>1. \A p \in Places : p # pl => Len(items'[p]) <= MaxItems
      BY <1>1, <1>6 DEF TypeOK
    <2>2. Len(items'[pl]) <= MaxItems
      BY <1>2, <1>5, SessionAssumption
    <2> QED BY <2>1, <2>2
  <1>9. \A p \in Places : items[p] = <<>> => items'[p] = <<>>
    BY <1>6
  <1>10. looted' \in Seq(1 .. MaxEntities) /\ DOMAIN looted' = 1 .. Len(looted) + 1
         /\ \A k \in DOMAIN looted' : looted'[k] = IF k = Len(looted) + 1 THEN it.id ELSE looted[k]
    BY <1>2, <1>3, <1>4
  <1>11. DOMAIN looted = 1 .. Len(looted) /\ Len(looted) \in Nat
         /\ DOMAIN items[pl] = 1 .. Len(items[pl]) /\ Len(items[pl]) \in Nat /\ i \in Nat
    BY <1>2
  <1>12. \A p \in Places : \A k \in DOMAIN items'[p] :
            /\ Was(p, k) \in DOMAIN items[p] /\ items'[p][k] = items[p][Was(p, k)]
            /\ p = pl => Was(p, k) # i
    BY SMTT(30), <1>5, <1>6, <1>11
  <1>13. \A p \in Places : \A k, l \in DOMAIN items'[p] : Was(p, k) = Was(p, l) => k = l
    BY <1>5, <1>6, <1>11
  <1> HIDE DEF Was, it
  <1>14. \A p \in Places : \A k \in DOMAIN items'[p] : items'[p][k].id # it.id
    BY <1>1, <1>12 DEF LyingOnce, it
  <1>15. LyingOnce'
    <2>1. ASSUME NEW p \in Places, NEW q \in Places, NEW k \in DOMAIN items'[p],
                 NEW l \in DOMAIN items'[q], items'[p][k].id = items'[q][l].id
          PROVE  p = q /\ k = l
      <3>1. p = q /\ Was(p, k) = Was(q, l)
        BY <1>1, <1>12, <2>1 DEF LyingOnce
      <3> QED BY <1>13, <3>1
    <2>2. \A p \in Places : \A k \in DOMAIN items'[p] : items'[p][k].id \in DOMAIN kinds
      BY <1>1, <1>12 DEF LyingOnce
    <2>3. \A k \in DOMAIN looted' : looted'[k] \in DOMAIN kinds
      BY <1>1, <1>4, <1>10, <1>11 DEF LyingOnce
    <2> QED BY <2>1, <2>2, <2>3 DEF LyingOnce
  <1>16. LootedOnce'
    <2>1. \A k \in DOMAIN looted : looted[k] # it.id
      BY <1>1 DEF LootedOnce, Has, it
    <2>2. \A k, l \in DOMAIN looted' : k # l => looted'[k] # looted'[l]
      BY <1>1, <1>10, <1>11, <2>1 DEF LootedOnce
    <2>3. ASSUME NEW p \in Places, NEW k \in DOMAIN items'[p]
          PROVE  ~Has(looted', items'[p][k].id) /\ kinds[items'[p][k].id] = "item"
      <3>1. ~Has(looted, items'[p][k].id) /\ kinds[items'[p][k].id] = "item"
        BY <1>1, <1>12 DEF LootedOnce
      <3> QED BY <1>10, <1>11, <1>14, <3>1 DEF Has
    <2> QED BY <2>2, <2>3 DEF LootedOnce
  <1> QED BY <1>7, <1>8, <1>9, <1>10, <1>15, <1>16

LEMMA LootKeeps ==
    ASSUME SessionInv, NEW c \in ConnIDs, LootInventoryItem(c) \/ LootCurrencyItem(c)
    PROVE  SessionInv'
  <1> DEFINE e == client[c].entity
  <1>1. TypeOK /\ QuestsEmpty
    BY DEF SessionInv
  <1>2. /\ e \in DOMAIN characters /\ Lookup(e) = e /\ Of(e) = characters[e]
        /\ characters[e].world \in Worlds
    BY <1>1, PlayFacts, RecordFields DEF LootInventoryItem, LootCurrencyItem, Playing
  <1>3. characters' = [characters EXCEPT ![e].dirty = TRUE]
    BY <1>2 DEF LootInventoryItem, LootCurrencyItem
  <1>4. PICK pl \in Places : \E i \in DOMAIN items[pl] : Take(pl, i)
    <2>1. CASE LootInventoryItem(c)
      <3>1. WorldOf(characters[e]) \in Places
        BY <1>2, <2>1, WorldOfIs DEF LootInventoryItem
      <3> QED BY <1>2, <2>1, <3>1 DEF LootInventoryItem
    <2>2. CASE LootCurrencyItem(c)
      <3>1. <<characters[e].world, 0>> \in Places
        BY <1>2, SessionAssumption DEF Places
      <3> QED BY <1>2, <2>2, <3>1 DEF LootCurrencyItem
    <2> QED BY <2>1, <2>2
  <1>5. PICK i \in DOMAIN items[pl] : Take(pl, i)
    BY <1>4
  <1>6. UNCHANGED <<client, toMaster, toWorld, link, breaks, saved, kinds, slots,
                    present, dungeons, hunted, fault>>
    BY DEF LootInventoryItem, LootCurrencyItem, master
  <1>7. /\ items' \in [Places -> Seq(Items)] /\ looted' \in Seq(1 .. MaxEntities)
        /\ \A p \in Places : Len(items'[p]) <= MaxItems
        /\ \A p \in Places : items[p] = <<>> => items'[p] = <<>>
        /\ LyingOnce' /\ LootedOnce'
    BY <1>5, <1>6, TakeKeeps
  <1>8. /\ RecordsKept /\ characters' \in Seq(Characters)
        /\ Len(characters') <= MaxCharacters
    BY <1>1, <1>2, <1>3, DirtyKept
  <1>9. TypeOK'
    BY <1>1, <1>6, <1>7, <1>8 DEF TypeOK
  <1>10. QuestsEmpty'
    <2>1. \A w \in QuestWorlds : <<w, 0>> \in Places
      BY SessionAssumption DEF Places
    <2> QED BY <1>1, <1>6, <1>7, <2>1 DEF QuestsEmpty
  <1>11. ClientsKept /\ SpawnCharacterAsserts'
    BY <1>6 DEF ClientsKept, SessionInv, SpawnCharacterAsserts
  <1> QED BY <1>6, <1>7, <1>8, <1>9, <1>10, <1>11, Frame DEF SessionInv

LEMMA SyncKeeps ==
    ASSUME SessionInv, NEW c \in ConnIDs, SyncDB(c)
    PROVE  SessionInv'
  <1> DEFINE e == client[c].entity
  <1>1. TypeOK
    BY DEF SessionInv
  <1>2. /\ e \in DOMAIN characters /\ Lookup(e) = e /\ Of(e) = characters[e]
        /\ characters[e].world \in Worlds /\ characters[e].player \in Players
    BY <1>1, PlayFacts, RecordFields DEF SyncDB, Playing
  <1>3. characters' = [characters EXCEPT ![e].dirty = FALSE]
    BY <1>2 DEF SyncDB
  <1>4. /\ RecordsKept /\ characters' \in Seq(Characters)
        /\ Len(characters') <= MaxCharacters
    BY <1>1, <1>2, <1>3, DirtyKept
  <1>5. Save(characters[e].player, characters[e].world) \in Requests
    BY <1>2 DEF Save, Requests
  <1>6. toMaster' \in Seq(Requests)
    BY <1>1, <1>2, <1>5 DEF SyncDB, TypeOK
  <1>7. UNCHANGED <<client, toWorld, link, breaks, saved, kinds, slots, present,
                    items, dungeons, hunted, looted, fault>>
    BY DEF SyncDB
  <1>8. TypeOK'
    BY <1>1, <1>4, <1>6, <1>7 DEF TypeOK
  <1>9. ClientsKept /\ SpawnCharacterAsserts'
    BY <1>7 DEF ClientsKept, SessionInv, SpawnCharacterAsserts
  <1> QED BY <1>4, <1>7, <1>8, <1>9, Frame, GroundFrame, QuestFrame DEF SessionInv
LEMMA DropType ==
    ASSUME NEW drop \in Drops
    PROVE  /\ drop \in Seq({"currency", "thing"})
           /\ Len(drop) \in Nat /\ DOMAIN drop = 1 .. Len(drop)
           /\ \A i \in DOMAIN drop : drop[i] \in {"currency", "thing"}
  <1>1. drop \in Seq({"currency", "thing"})
    <2>1. CASE drop = <<>>
      BY <2>1
    <2>2. CASE drop = <<"currency">>
      BY <2>2
    <2>3. CASE drop = <<"thing">>
      BY <2>3
    <2>4. CASE drop = <<"thing", "thing">>
      BY <2>4
    <2> QED BY <2>1, <2>2, <2>3, <2>4 DEF Drops
  <1> QED BY <1>1

\* A list that loses its first items keeps a part of itself.
LEMMA KeptList ==
    ASSUME NEW S, NEW s \in Seq(S)
    PROVE  /\ Kept(s) \in Seq(S) /\ Len(Kept(s)) <= MaxItems
           /\ \E a \in Nat : \A k \in DOMAIN Kept(s) :
                 k \in Nat /\ a + k \in DOMAIN s /\ Kept(s)[k] = s[a + k]
  <1> DEFINE m == IF Len(s) > MaxItems THEN Len(s) - MaxItems + 1 ELSE 1
             r == SubSeq(s, m, Len(s))
  <1>1. /\ Len(s) \in Nat /\ DOMAIN s = 1 .. Len(s) /\ m \in 1 .. Len(s) + 1
        /\ \A i \in m .. Len(s) : s[i] \in S
    BY SessionAssumption
  <1>2. Len(s) - m + 1 <= MaxItems
    BY <1>1, SessionAssumption
  <1> HIDE DEF m
  <1>3. /\ r \in Seq(S) /\ Len(r) = IF m <= Len(s) THEN Len(s) - m + 1 ELSE 0
        /\ \A i \in 1 .. Len(s) - m + 1 : r[i] = s[m + i - 1]
    BY <1>1, SubSeqProperties
  <1>4. Kept(s) = r
    BY DEF Kept, m
  <1> HIDE DEF r
  <1>5. /\ DOMAIN r = 1 .. Len(s) - m + 1
        /\ Len(r) <= MaxItems
    BY <1>1, <1>2, <1>3, SessionAssumption
  <1>6. \A k \in DOMAIN r : k \in Nat /\ (m - 1) + k \in DOMAIN s /\ r[k] = s[(m - 1) + k]
    <2>1. ASSUME NEW k \in DOMAIN r
          PROVE  k \in Nat /\ (m - 1) + k \in DOMAIN s /\ r[k] = s[(m - 1) + k]
      <3>1. k \in 1 .. Len(s) - m + 1 /\ m + k - 1 = (m - 1) + k
        BY <1>1, <1>5
      <3>2. r[k] = s[m + k - 1]
        BY <1>3, <3>1
      <3> QED BY <1>1, <3>1, <3>2
    <2> QED BY <2>1
  <1>7. m - 1 \in Nat
    BY <1>1
  <1> QED BY <1>3, <1>4, <1>5, <1>6, <1>7

LEMMA DropKeeps ==
    ASSUME SessionInv, NEW pl \in hunted, NEW drop \in Drops,
           DespawnMob(pl, drop), Len(kinds) + Len(drop) <= MaxEntities
    PROVE  SessionInv'
  <1> DEFINE new == [i \in DOMAIN drop |-> [id |-> Len(kinds) + i, kind |-> drop[i]]]
             all == items[pl] \o new
             ids == [i \in DOMAIN drop |-> "item"]
  <1>1. TypeOK /\ QuestsEmpty /\ LyingOnce /\ LootedOnce /\ Lockstep
    BY DEF SessionInv
  <1>2. /\ items \in [Places -> Seq(Items)] /\ items[pl] \in Seq(Items) /\ pl \in Places
        /\ kinds \in Seq({"character", "item"}) /\ hunted \in SUBSET Places
    BY <1>1 DEF TypeOK
  <1>3. /\ Len(drop) \in Nat /\ DOMAIN drop = 1 .. Len(drop)
        /\ \A i \in DOMAIN drop : drop[i] \in {"currency", "thing"}
    BY DropType
  <1>4. /\ Len(kinds) \in Nat /\ DOMAIN kinds = 1 .. Len(kinds)
        /\ Len(items[pl]) \in Nat /\ DOMAIN items[pl] = 1 .. Len(items[pl])
        /\ Len(looted) \in Nat /\ DOMAIN looted = 1 .. Len(looted)
    BY <1>1, <1>2, Counts
  <1>5. /\ kinds' = kinds \o ids
        /\ items' = [items EXCEPT ![pl] = Kept(all)]
        /\ hunted' = hunted \ {pl}
        /\ UNCHANGED <<client, toMaster, toWorld, link, breaks, saved, slots,
                       characters, present, dungeons, looted, fault>>
    <2>1. ~(Len(kinds) + Len(drop) > MaxEntities)
      BY <1>3, <1>4, SessionAssumption
    <2> QED BY <2>1 DEF DespawnMob, master
  <1>6. new \in Seq(Items) /\ Len(new) = Len(drop)
        /\ \A i \in DOMAIN drop : new[i].id = Len(kinds) + i
    <2>1. \A i \in DOMAIN drop : [id |-> Len(kinds) + i, kind |-> drop[i]] \in Items
      <3>1. \A i \in DOMAIN drop : Len(kinds) + i \in 1 .. MaxEntities
        BY <1>3, <1>4, SessionAssumption
      <3> QED BY <1>3, <3>1 DEF Items
    <2>2. new \in [1 .. Len(drop) -> Items]
      BY <1>3, <2>1
    <2>3. \A i \in DOMAIN drop : new[i].id = Len(kinds) + i
      OBVIOUS
    <2> HIDE DEF new
    <2> QED BY <1>3, <2>2, <2>3
  <1>7. ids \in Seq({"character", "item"}) /\ Len(ids) = Len(drop)
        /\ \A i \in DOMAIN drop : ids[i] = "item"
    <2>1. ids \in [1 .. Len(drop) -> {"character", "item"}] /\ \A i \in DOMAIN drop : ids[i] = "item"
      BY <1>3
    <2> HIDE DEF ids
    <2> QED BY <1>3, <2>1
  <1> HIDE DEF new, ids
  <1>8. /\ kinds' \in Seq({"character", "item"})
        /\ Len(kinds') = Len(kinds) + Len(drop)
        /\ \A i \in 1 .. Len(kinds) + Len(drop) :
              kinds'[i] = IF i <= Len(kinds) THEN kinds[i] ELSE ids[i - Len(kinds)]
    <2>1. /\ kinds \o ids \in Seq({"character", "item"})
          /\ Len(kinds \o ids) = Len(kinds) + Len(ids)
          /\ \A i \in 1 .. Len(kinds) + Len(ids) :
                (kinds \o ids)[i] = IF i <= Len(kinds) THEN kinds[i] ELSE ids[i - Len(kinds)]
      BY ZenonT(60), <1>2, <1>7, ConcatProperties
    <2> QED BY <1>5, <1>7, <2>1
  <1>9. /\ DOMAIN kinds' = 1 .. Len(kinds) + Len(drop)
        /\ \A i \in DOMAIN kinds : i \in DOMAIN kinds' /\ kinds'[i] = kinds[i]
        /\ \A i \in DOMAIN drop :
              Len(kinds) + i \in DOMAIN kinds' /\ kinds'[Len(kinds) + i] = "item"
    <2>1. DOMAIN kinds' = 1 .. Len(kinds) + Len(drop)
      BY <1>3, <1>4, <1>8
    <2>2. \A i \in DOMAIN kinds : i \in DOMAIN kinds' /\ kinds'[i] = kinds[i]
      BY <1>3, <1>4, <1>8, <2>1
    <2>3. ASSUME NEW i \in DOMAIN drop
          PROVE  Len(kinds) + i \in DOMAIN kinds' /\ kinds'[Len(kinds) + i] = "item"
      <3>1. /\ Len(kinds) + i \in 1 .. Len(kinds) + Len(drop)
            /\ ~(Len(kinds) + i <= Len(kinds)) /\ (Len(kinds) + i) - Len(kinds) = i
        BY <1>3, <1>4
      <3> QED BY <1>7, <1>8, <2>1, <3>1
    <2> QED BY <2>1, <2>2, <2>3
  <1>10. /\ all \in Seq(Items) /\ Len(all) = Len(items[pl]) + Len(drop)
         /\ \A i \in 1 .. Len(items[pl]) + Len(drop) :
               all[i] = IF i <= Len(items[pl]) THEN items[pl][i] ELSE new[i - Len(items[pl])]
    <2>1. /\ items[pl] \o new \in Seq(Items)
          /\ Len(items[pl] \o new) = Len(items[pl]) + Len(new)
          /\ \A i \in 1 .. Len(items[pl]) + Len(new) :
                (items[pl] \o new)[i] = IF i <= Len(items[pl]) THEN items[pl][i]
                                                               ELSE new[i - Len(items[pl])]
      BY ZenonT(60), <1>2, <1>6, ConcatProperties
    <2> QED BY <1>6, <2>1
  <1>11. DOMAIN all = 1 .. Len(items[pl]) + Len(drop)
    BY <1>3, <1>4, <1>10
  <1> HIDE DEF all
  \* An entry of the long list is an old one, or has the entity of a new item.
  <1>12. ASSUME NEW i \in DOMAIN all
         PROVE  \/ i \in DOMAIN items[pl] /\ all[i] = items[pl][i] /\ all[i].id \in DOMAIN kinds
                \/ /\ i \notin DOMAIN items[pl] /\ i - Len(items[pl]) \in DOMAIN drop
                   /\ all[i].id = Len(kinds) + (i - Len(items[pl]))
    <2>1. CASE i <= Len(items[pl])
      BY <1>1, <1>2, <1>4, <1>10, <1>11, <2>1 DEF LyingOnce
    <2>2. CASE ~(i <= Len(items[pl]))
      <3>1. i - Len(items[pl]) \in DOMAIN drop /\ i \notin DOMAIN items[pl]
        BY <1>3, <1>4, <1>11, <2>2
      <3>2. all[i] = new[i - Len(items[pl])]
        BY <1>10, <1>11, <2>2
      <3> QED BY <1>6, <3>1, <3>2
    <2> QED BY <2>1, <2>2
  <1>13. \A i, j \in DOMAIN all : all[i].id = all[j].id => i = j
    <2>1. ASSUME NEW i \in DOMAIN all, NEW j \in DOMAIN all, all[i].id = all[j].id
          PROVE  i = j
      <3>1. CASE i \in DOMAIN items[pl] /\ j \in DOMAIN items[pl]
        <4>1. all[i] = items[pl][i] /\ all[j] = items[pl][j]
          BY <1>12, <3>1
        <4> QED BY <1>1, <1>2, <2>1, <3>1, <4>1 DEF LyingOnce
      <3>2. CASE i \notin DOMAIN items[pl] /\ j \notin DOMAIN items[pl]
        <4>1. Len(kinds) + (i - Len(items[pl])) = Len(kinds) + (j - Len(items[pl]))
          BY <1>12, <2>1, <3>2
        <4> QED BY SMTT(60), <1>3, <1>4, <1>11, <4>1
      <3>3. \A h \in DOMAIN all : h \in DOMAIN items[pl] <=> all[h].id \in DOMAIN kinds
        BY <1>3, <1>4, <1>12
      <3> QED BY <2>1, <3>1, <3>2, <3>3
    <2> QED BY <2>1
  <1>14. PICK a \in Nat : \A k \in DOMAIN Kept(all) :
                             k \in Nat /\ a + k \in DOMAIN all /\ Kept(all)[k] = all[a + k]
    BY <1>10, KeptList
  <1>15. Kept(all) \in Seq(Items) /\ Len(Kept(all)) <= MaxItems
    BY <1>10, KeptList
  <1>16. items'[pl] = Kept(all) /\ \A p \in Places : p # pl => items'[p] = items[p]
    BY <1>2, <1>5
  <1>17. items' \in [Places -> Seq(Items)] /\ \A p \in Places : Len(items'[p]) <= MaxItems
    BY <1>1, <1>2, <1>5, <1>15, <1>16 DEF TypeOK
  <1>18. TypeOK'
    BY <1>1, <1>2, <1>5, <1>8, <1>17 DEF TypeOK
  <1>19. QuestsEmpty'
    <2>1. \A w \in QuestWorlds : <<w, 0>> \in Places /\ <<w, 0>> # pl
      <3>1. \A w \in QuestWorlds : <<w, 0>> \notin hunted
        BY <1>1 DEF QuestsEmpty
      <3>2. \A w \in QuestWorlds : <<w, 0>> \in Places
        BY SessionAssumption DEF Places
      <3> QED BY <3>1, <3>2
    <2> QED BY <1>1, <1>5, <1>16, <2>1 DEF QuestsEmpty
  \* Every entry that lies there now is one of before, or new.
  <1>20. ASSUME NEW p \in Places, NEW k \in DOMAIN items'[p]
         PROVE  /\ items'[p][k].id \in DOMAIN kinds'
                /\ kinds'[items'[p][k].id] = "item"
                /\ ~Has(looted, items'[p][k].id)
    <2>1. CASE p # pl
      BY <1>1, <1>9, <1>16, <2>1 DEF LyingOnce, LootedOnce
    <2>2. CASE p = pl
      <3>1. PICK i \in DOMAIN all : items'[p][k] = all[i]
        BY <1>14, <1>16, <2>2
      <3>2. CASE i \in DOMAIN items[pl] /\ all[i] = items[pl][i]
        BY <1>1, <1>2, <1>9, <3>1, <3>2 DEF LyingOnce, LootedOnce
      <3>3. CASE i - Len(items[pl]) \in DOMAIN drop /\ all[i].id = Len(kinds) + (i - Len(items[pl]))
        <4>1. all[i].id \notin DOMAIN kinds
          BY <1>3, <1>4, <3>3
        <4>2. ~Has(looted, all[i].id)
          BY <1>1, <4>1 DEF LyingOnce, Has
        <4> QED BY <1>9, <3>1, <3>3, <4>2
      <3> QED BY <1>12, <3>2, <3>3
    <2> QED BY <2>1, <2>2
  <1>21. ASSUME NEW p \in Places, NEW q \in Places, NEW k \in DOMAIN items'[p],
                NEW l \in DOMAIN items'[q], items'[p][k].id = items'[q][l].id
         PROVE  p = q /\ k = l
    <2>1. ASSUME NEW r \in Places, r # pl, NEW n \in DOMAIN items'[r],
                 NEW h \in DOMAIN items'[pl]
          PROVE  items'[r][n].id # items'[pl][h].id
      <3>1. PICK i \in DOMAIN all : items'[pl][h] = all[i]
        BY <1>14, <1>16
      <3>2. n \in DOMAIN items[r] /\ items'[r][n].id = items[r][n].id /\ items[r][n].id \in DOMAIN kinds
        BY <1>1, <1>16, <2>1 DEF LyingOnce
      <3>3. CASE i \in DOMAIN items[pl] /\ all[i] = items[pl][i]
        BY <1>1, <1>2, <2>1, <3>1, <3>2, <3>3 DEF LyingOnce
      <3>4. CASE i - Len(items[pl]) \in DOMAIN drop /\ all[i].id = Len(kinds) + (i - Len(items[pl]))
        BY <1>3, <1>4, <3>1, <3>2, <3>4
      <3> QED BY <1>12, <3>3, <3>4
    <2>2. CASE p # pl /\ q # pl
      BY <1>1, <1>16, <1>21, <2>2 DEF LyingOnce
    <2>3. CASE p = pl /\ q = pl
      <3>1. a + k = a + l /\ k \in Nat /\ l \in Nat
        BY <1>13, <1>14, <1>16, <1>21, <2>3
      <3> QED BY <2>3, <3>1
    <2> QED BY <1>21, <2>1, <2>2, <2>3
  <1>22. LyingOnce'
    <2>1. \A k \in DOMAIN looted' : looted'[k] \in DOMAIN kinds'
      BY <1>1, <1>5, <1>9 DEF LyingOnce
    <2> QED BY <1>20, <1>21, <2>1 DEF LyingOnce
  <1>23. LootedOnce'
    BY <1>1, <1>5, <1>20 DEF LootedOnce
  <1>24. Lockstep'
    <2>1. \A i \in DOMAIN characters : i \in DOMAIN kinds
      BY <1>1, Counts DEF Lockstep
    <2> QED BY <1>1, <1>3, <1>4, <1>5, <1>8, <1>9, <2>1 DEF Lockstep
  <1>25. Bound' /\ ListedOnce' /\ Placed' /\ NoGhosts' /\ SpawnCharacterAsserts'
    BY <1>5 DEF SessionInv, Bound, ListedOnce, Placed, AtPosition, NoGhosts, Listed,
                SpawnCharacterAsserts
  <1> QED BY <1>18, <1>19, <1>22, <1>23, <1>24, <1>25 DEF SessionInv
-----------------------------------------------------------------------------
(* The steps that move a character.                                        *)

Repositioned(e, w) ==
    characters' = [characters EXCEPT ![e].world = w, ![e].dirty = TRUE]

LEMMA MovedRecords ==
    ASSUME TypeOK, NEW e \in DOMAIN characters, NEW w \in Worlds, Repositioned(e, w)
    PROVE  /\ characters' \in Seq(Characters)
           /\ Len(characters') = Len(characters) /\ DOMAIN characters' = DOMAIN characters
           /\ \A i \in DOMAIN characters :
                 /\ characters'[i].id = characters[i].id
                 /\ characters'[i].conn = characters[i].conn
                 /\ characters'[i].world = IF i = e THEN w ELSE characters[i].world
  <1> DEFINE new == [[characters[e] EXCEPT !.world = w] EXCEPT !.dirty = TRUE]
  <1>1. characters \in Seq(Characters) /\ characters[e] \in Characters
    BY RecordFields DEF TypeOK
  <1>2. /\ new \in Characters /\ new.world = w
        /\ new.id = characters[e].id /\ new.conn = characters[e].conn
    BY <1>1 DEF Characters
  <1>3. characters' = [characters EXCEPT ![e] = new]
    BY DEF Repositioned
  <1> HIDE DEF new
  <1>4. /\ characters' \in Seq(Characters) /\ Len(characters') = Len(characters)
        /\ DOMAIN characters' = DOMAIN characters
        /\ \A i \in DOMAIN characters : characters'[i] = IF i = e THEN new ELSE characters[i]
    BY <1>1, <1>2, <1>3
  <1> QED BY <1>2, <1>4

LEMMA MovedLists ==
    ASSUME NEW S, NEW P \in Lists(S), Singly(P),
           NEW pl \in Places, NEW q \in Places, NEW e \in S, Has(P[pl], e)
    PROVE  /\ Into(OutOf(P, pl, e), q, e) \in Lists(S)
           /\ Singly(Into(OutOf(P, pl, e), q, e))
           /\ \A p \in Places : \A x :
                 Has(Into(OutOf(P, pl, e), q, e)[p], x)
                 <=> (Has(P[p], x) /\ x # e) \/ (p = q /\ x = e)
           /\ \A p \in Places \ {pl, q} : Into(OutOf(P, pl, e), q, e)[p] = P[p]
  <1> DEFINE left == OutOf(P, pl, e)
  <1>1. /\ left \in Lists(S) /\ Singly(left)
        /\ \A p \in Places : \A x : Has(left[p], x) <=> Has(P[p], x) /\ x # e
        /\ \A p \in Places \ {pl} : left[p] = P[p]
    BY DespawnFrom
  <1> HIDE DEF left
  <1>2. \A p \in Places : ~Has(left[p], e)
    BY <1>1
  <1>3. /\ Into(left, q, e) \in Lists(S) /\ Singly(Into(left, q, e))
        /\ \A p \in Places : \A x :
              Has(Into(left, q, e)[p], x) <=> Has(left[p], x) \/ (p = q /\ x = e)
        /\ \A p \in Places \ {q} : Into(left, q, e)[p] = left[p]
    BY <1>1, <1>2, SpawnIn
  <1>4. \A p \in Places \ {pl, q} : Into(left, q, e)[p] = P[p]
    BY <1>1, <1>3
  <1> QED BY <1>1, <1>3, <1>4 DEF left

LEMMA PresentMoved ==
    ASSUME TypeOK, ListedOnce, NEW e \in 1 .. MaxEntities, NEW pl \in Places,
           NEW q \in Places, Has(present[pl], e),
           present' = Into(OutOf(present, pl, e), q, e)
    PROVE  /\ present' \in Lists(1 .. MaxEntities) /\ Singly(present')
           /\ \A p \in Places : \A x :
                 Has(present'[p], x) <=> (Has(present[p], x) /\ x # e) \/ (p = q /\ x = e)
           /\ \A p \in Places \ {pl, q} : present'[p] = present[p]
  <1> DEFINE S == 1 .. MaxEntities
  <1>1. present \in Lists(S) /\ Singly(present) /\ e \in S
    BY SinglyPresent DEF TypeOK, Lists
  <1> HIDE DEF S
  <1>2. /\ Into(OutOf(present, pl, e), q, e) \in Lists(S)
        /\ Singly(Into(OutOf(present, pl, e), q, e))
        /\ \A p \in Places : \A x :
              Has(Into(OutOf(present, pl, e), q, e)[p], x)
              <=> (Has(present[p], x) /\ x # e) \/ (p = q /\ x = e)
        /\ \A p \in Places \ {pl, q} : Into(OutOf(present, pl, e), q, e)[p] = present[p]
    BY ONLY <1>1, pl \in Places, q \in Places, Has(present[pl], e), MovedLists
  <1> QED BY <1>2 DEF S

\* A character goes from the list of one place to that of another, and its
\* position with it.
LEMMA MoveKeeps ==
    ASSUME SessionInv, NEW c \in ConnIDs, NEW e, e = client[c].entity, e # 0,
           NEW pl \in Places, Has(present[pl], e), NEW q \in Places, NEW w \in Worlds,
           present' = Into(OutOf(present, pl, e), q, e),
           Repositioned(e, w), q[1] = w,
           \/ w \in Normal /\ q[2] = 0
           \/ q[2] \in DOMAIN dungeons' /\ dungeons'[q[2]] = [world |-> w, owner |-> e],
           \A n \in DOMAIN dungeons : n \in DOMAIN dungeons' /\ dungeons'[n] = dungeons[n],
           UNCHANGED <<client, kinds, slots>>
    PROVE  /\ present' \in Lists(1 .. MaxEntities)
           /\ characters' \in Seq(Characters) /\ Len(characters') <= MaxCharacters
           /\ \A p \in Places \ {pl, q} : present'[p] = present[p]
           /\ Lockstep' /\ Bound' /\ ListedOnce' /\ Placed' /\ NoGhosts'
  <1>1. TypeOK /\ Lockstep /\ Bound /\ ListedOnce /\ Placed /\ NoGhosts
    BY DEF SessionInv
  <1>2. /\ e \in DOMAIN characters /\ e \in 1 .. MaxEntities
        /\ characters[e].conn = c /\ client[c].phase = "open"
    BY PlayFacts
  <1>3. /\ characters' \in Seq(Characters)
        /\ Len(characters') = Len(characters) /\ DOMAIN characters' = DOMAIN characters
        /\ \A i \in DOMAIN characters :
              /\ characters'[i].id = characters[i].id
              /\ characters'[i].conn = characters[i].conn
              /\ characters'[i].world = IF i = e THEN w ELSE characters[i].world
    BY <1>1, <1>2, MovedRecords
  <1>4. present \in Lists(1 .. MaxEntities) /\ Singly(present)
        /\ \A p \in Places : \A x : Has(present[p], x) => x \in DOMAIN characters
    BY <1>1, SinglyPresent DEF TypeOK, Lists
  <1>5. /\ present' \in Lists(1 .. MaxEntities) /\ Singly(present')
        /\ \A p \in Places : \A x :
              Has(present'[p], x) <=> (Has(present[p], x) /\ x # e) \/ (p = q /\ x = e)
        /\ \A p \in Places \ {pl, q} : present'[p] = present[p]
    <2>1. TypeOK /\ ListedOnce /\ e \in 1 .. MaxEntities
      BY <1>1, <1>2
    <2>2. pl \in Places /\ q \in Places /\ Has(present[pl], e)
          /\ present' = Into(OutOf(present, pl, e), q, e)
      OBVIOUS
    <2> QED BY ONLY <2>1, <2>2, PresentMoved
  <1>6. Lockstep' /\ Bound'
    BY <1>1, <1>3 DEF Lockstep, Bound
  <1>7. ListedOnce'
    <2>1. \A p \in Places : \A x : Has(present'[p], x) => x \in DOMAIN characters'
      BY ZenonT(60), <1>2, <1>3, <1>4, <1>5
    <2>2. \A p \in Places : \A i \in DOMAIN present'[p] : present'[p][i] \in DOMAIN characters'
      BY <2>1 DEF Has
    <2>3. \A p, r \in Places : \A i \in DOMAIN present'[p], j \in DOMAIN present'[r] :
             present'[p][i] = present'[r][j] => p = r /\ i = j
      BY <1>5, SinglyMeans
    <2> QED BY <2>2, <2>3 DEF ListedOnce
  <1>8. Placed'
    <2>1. ASSUME NEW d \in ConnIDs, d # c, client[d].entity # 0
          PROVE  client[d].entity # e /\ client[d].entity \in DOMAIN characters
      BY <1>1, <1>2, <2>1 DEF Bound
    <2>2. ASSUME NEW x \in DOMAIN characters, x # e, NEW p \in Places, AtPosition(x, p)
          PROVE  AtPosition(x, p)'
      BY <1>3, <2>2 DEF AtPosition
    <2>3. AtPosition(e, q)'
      BY <1>2, <1>3 DEF AtPosition
    <2>4. Has(present'[q], e)
      BY <1>5
    <2>5. ASSUME NEW d \in ConnIDs, client[d].entity # 0
          PROVE  \/ \E p \in Places : Has(present'[p], client[d].entity)
                                      /\ AtPosition(client[d].entity, p)'
                 \/ client[d].disc /\ \A p \in Places : ~Has(present'[p], client[d].entity)
      <3>1. CASE d = c
        BY <2>3, <2>4, <3>1
      <3>2. CASE d # c
        BY <1>1, <1>5, <2>1, <2>2, <2>5, <3>2 DEF Placed
      <3> QED BY <3>1, <3>2
    <2> QED BY <2>5 DEF Placed
  <1>9. NoGhosts'
    <2>1. ASSUME NEW i \in DOMAIN characters, NEW p \in Places, Has(present'[p], i)
          PROVE  \/ client[characters[i].conn].phase = "open"
                    /\ client[characters[i].conn].entity = i
                 \/ \E j \in DOMAIN characters : j > i /\ characters[j].conn = characters[i].conn
      <3>1. CASE i = e
        BY <1>2, <3>1
      <3>2. CASE i # e
        <4>1. Has(present[p], i)
          BY <1>5, <2>1, <3>2
        <4>2. Listed(i) # {}
          BY <1>1, <4>1, ListedIs DEF Has
        <4> QED BY <1>1, <4>2 DEF NoGhosts, Lockstep
      <3> QED BY <3>1, <3>2
    <2>2. \A i \in DOMAIN characters : characters'[i].id = i
      BY <1>1, <1>3 DEF Lockstep
    <2>3. ASSUME NEW i \in DOMAIN characters, Listed(i)' # {}
          PROVE  \E p \in Places : Has(present'[p], i)
      BY <2>3 DEF Listed, Has
    <2> QED BY <1>3, <2>1, <2>2, <2>3 DEF NoGhosts, Listed
  <1>10. Len(characters') <= MaxCharacters
    BY <1>1, <1>3 DEF TypeOK
  <1> QED BY <1>3, <1>5, <1>6, <1>7, <1>8, <1>9, <1>10

LEMMA WarpKeeps ==
    ASSUME SessionInv, NEW c \in ConnIDs, NEW w \in Worlds, Warp(c, w)
    PROVE  SessionInv'
  <1> DEFINE e  == client[c].entity
             pl == WorldOf(Of(e))
             q  == <<w, 0>>
  <1>1. TypeOK /\ QuestsEmpty /\ ListedOnce /\ SpawnCharacterAsserts
    BY DEF SessionInv
  <1>2. /\ e # 0 /\ e \in DOMAIN characters /\ Lookup(e) = e /\ Of(e) = characters[e]
        /\ w \in Normal
    BY PlayFacts DEF Warp, Playing
  <1>3. q \in Places /\ q[1] = w /\ q[2] = 0
    BY SessionAssumption DEF Places
  <1>4. ASSUME pl # Void PROVE pl \in Places
    BY <1>2, <1>4, WorldOfIs
  <1>5. ASSUME CanDespawn(pl, e), WarpTo(c, w),
               UNCHANGED <<client, master, kinds, slots, items, dungeons, hunted,
                           looted, fault>>
        PROVE  SessionInv'
    <2>1. pl \in Places /\ Has(present[pl], e)
      BY <1>4, <1>5 DEF CanDespawn
    <2>2. present' = Into(OutOf(present, pl, e), q, e) /\ Repositioned(e, w)
      BY <1>2, <1>5 DEF WarpTo, Moved, Repositioned, Into, OutOf
    <2>3. UNCHANGED <<client, kinds, slots, dungeons>>
      BY <1>5
    <2> HIDE DEF pl, q
    <2>5. /\ present' \in Lists(1 .. MaxEntities)
          /\ characters' \in Seq(Characters) /\ Len(characters') <= MaxCharacters
          /\ \A p \in Places \ {pl, q} : present'[p] = present[p]
          /\ Lockstep' /\ Bound' /\ ListedOnce' /\ Placed' /\ NoGhosts'
      BY <1>2, <1>3, <2>1, <2>2, <2>3, MoveKeeps
    <2>6. TypeOK'
      BY <1>1, <1>5, <2>5 DEF TypeOK, master, Lists
    <2>7. QuestsEmpty'
      <3>1. ASSUME NEW v \in QuestWorlds, NEW n \in 0 .. MaxInstances,
                   n = 0 \/ n > Len(dungeons)
            PROVE  present'[<<v, n>>] = <<>>
        <4>1. <<v, n>> \in Places /\ <<v, n>> # q
          BY <1>2, SessionAssumption DEF Places, Normal, q
        <4>2. present[<<v, n>>] = <<>>
          BY <1>1, <3>1 DEF QuestsEmpty
        <4>3. <<v, n>> # pl
          BY <2>1, <4>2 DEF Has
        <4> QED BY <2>5, <4>1, <4>2, <4>3
      <3> QED BY <1>1, <1>5, <3>1 DEF QuestsEmpty
    <2>8. LyingOnce' /\ LootedOnce' /\ SpawnCharacterAsserts'
      BY <1>1, <1>5, GroundFrame DEF SpawnCharacterAsserts
    <2> QED BY <2>5, <2>6, <2>7, <2>8 DEF SessionInv
  \* The assert of RTWorldSpawnCharacter holds: the list has no entry of e.
  <1>6. ASSUME CanDespawn(pl, e), ~CanSpawn(q), pl # q PROVE FALSE
    <2>1. pl \in Places /\ Has(present[pl], e)
      BY <1>4, <1>6 DEF CanDespawn
    <2>2. ~Has(present[q], e)
      BY <1>1, <1>3, <1>6, <2>1, SinglyPresent DEF Singly
    <2>3. Len(present[q]) < Len(characters) /\ Len(characters) <= MaxCharacters
      BY <1>1, <1>2, <1>3, <2>2, ListsShort DEF TypeOK
    <2> QED BY <1>1, <1>3, <1>6, <2>3, Counts, SessionAssumption DEF CanSpawn
  <1>7. ASSUME Fault(DespawnFault(pl)) PROVE SessionInv'
    <2>1. DespawnFault(pl) \in Faults \ {"SpawnCharacter"}
      BY DEF DespawnFault, Faults
    <2> QED BY <1>7, <2>1, FaultFrame
  <1> QED BY <1>5, <1>6, <1>7 DEF Warp
LEMMA PresentLeft ==
    ASSUME TypeOK, ListedOnce, NEW pl \in Places, NEW e, Has(present[pl], e),
           present' = OutOf(present, pl, e)
    PROVE  /\ present' \in Lists(1 .. MaxEntities) /\ Singly(present')
           /\ \A p \in Places : \A x : Has(present'[p], x) <=> Has(present[p], x) /\ x # e
           /\ \A p \in Places \ {pl} : present'[p] = present[p]
  <1> DEFINE S == 1 .. MaxEntities
  <1>1. present \in Lists(S) /\ Singly(present)
    BY SinglyPresent DEF TypeOK, Lists
  <1> HIDE DEF S
  <1>2. /\ OutOf(present, pl, e) \in Lists(S) /\ Singly(OutOf(present, pl, e))
        /\ \A p \in Places : \A x :
              Has(OutOf(present, pl, e)[p], x) <=> Has(present[p], x) /\ x # e
        /\ \A p \in Places \ {pl} : OutOf(present, pl, e)[p] = present[p]
    BY ONLY <1>1, pl \in Places, Has(present[pl], e), DespawnFrom
  <1> QED BY <1>2 DEF S

LEMMA PresentJoined ==
    ASSUME TypeOK, ListedOnce, NEW q \in Places, NEW e \in 1 .. MaxEntities,
           e \notin DOMAIN characters, present' = Into(present, q, e)
    PROVE  /\ present' \in Lists(1 .. MaxEntities) /\ Singly(present')
           /\ \A p \in Places : \A x :
                 Has(present'[p], x) <=> Has(present[p], x) \/ (p = q /\ x = e)
           /\ \A p \in Places \ {q} : present'[p] = present[p]
  <1> DEFINE S == 1 .. MaxEntities
  <1>1. present \in Lists(S) /\ Singly(present) /\ e \in S
    BY SinglyPresent DEF TypeOK, Lists
  <1>2. \A p \in Places : ~Has(present[p], e)
    BY SinglyPresent
  <1> HIDE DEF S
  <1>3. /\ Into(present, q, e) \in Lists(S) /\ Singly(Into(present, q, e))
        /\ \A p \in Places : \A x :
              Has(Into(present, q, e)[p], x) <=> Has(present[p], x) \/ (p = q /\ x = e)
        /\ \A p \in Places \ {q} : Into(present, q, e)[p] = present[p]
    BY ONLY <1>1, <1>2, q \in Places, SpawnIn
  <1> QED BY <1>3 DEF S

\* A character leaves its list; its client goes with it, or is flagged.
LEMMA LeaveKeeps ==
    ASSUME SessionInv, NEW c \in ConnIDs, NEW e, e = client[c].entity, e # 0,
           NEW pl \in Places, Has(present[pl], e), present' = OutOf(present, pl, e),
           UNCHANGED <<kinds, slots, characters, dungeons>>,
           \A d \in ConnIDs \ {c} : client'[d] = client[d],
           \/ client'[c].entity = 0
           \/ client'[c].entity = e /\ client'[c].phase = "open" /\ client'[c].disc
    PROVE  /\ present' \in [Places -> Seq(1 .. MaxEntities)]
           /\ \A p \in Places \ {pl} : present'[p] = present[p]
           /\ Lockstep' /\ Bound' /\ ListedOnce' /\ Placed' /\ NoGhosts'
  <1>1. TypeOK /\ Lockstep /\ Bound /\ ListedOnce /\ Placed /\ NoGhosts
    BY DEF SessionInv
  <1>2. e \in DOMAIN characters /\ characters[e].conn = c /\ client[c].phase = "open"
    BY PlayFacts
  <1>3. /\ present' \in Lists(1 .. MaxEntities) /\ Singly(present')
        /\ \A p \in Places : \A x : Has(present'[p], x) <=> Has(present[p], x) /\ x # e
        /\ \A p \in Places \ {pl} : present'[p] = present[p]
    BY ONLY <1>1, pl \in Places, Has(present[pl], e), present' = OutOf(present, pl, e),
            PresentLeft
  <1>4. Lockstep'
    BY <1>1 DEF Lockstep
  <1>5. ASSUME NEW d \in ConnIDs, client'[d].entity # 0
        PROVE  /\ client'[d].entity = client[d].entity /\ client'[d].phase = "open"
               /\ d # c => client'[d].disc = client[d].disc /\ client[d].entity # e
               /\ d = c => client'[d].disc
    BY <1>1, <1>2, <1>5 DEF Bound
  <1>6. Bound'
    BY <1>1, <1>5 DEF Bound
  <1>7. ListedOnce'
    <2>1. \A p \in Places : \A i \in DOMAIN present'[p] : present'[p][i] \in DOMAIN characters'
      BY <1>1, <1>3, SinglyPresent DEF Has
    <2>2. \A p, r \in Places : \A i \in DOMAIN present'[p], j \in DOMAIN present'[r] :
             present'[p][i] = present'[r][j] => p = r /\ i = j
      BY <1>3, SinglyMeans
    <2> QED BY <2>1, <2>2 DEF ListedOnce
  <1>8. Placed'
    <2>1. ASSUME NEW d \in ConnIDs, client'[d].entity # 0
          PROVE  \/ \E p \in Places : Has(present'[p], client'[d].entity)
                                      /\ AtPosition(client'[d].entity, p)
                 \/ client'[d].disc /\ \A p \in Places : ~Has(present'[p], client'[d].entity)
      <3>1. CASE d = c
        BY <1>3, <1>5, <2>1, <3>1
      <3>2. CASE d # c
        BY <1>1, <1>3, <1>5, <2>1, <3>2 DEF Placed
      <3> QED BY <3>1, <3>2
    <2> QED BY <2>1 DEF Placed, AtPosition
  <1>9. NoGhosts'
    <2>1. ASSUME NEW i \in DOMAIN characters, NEW p \in Places, Has(present'[p], i)
          PROVE  \/ client'[characters[i].conn].phase = "open"
                    /\ client'[characters[i].conn].entity = i
                 \/ \E j \in DOMAIN characters : j > i /\ characters[j].conn = characters[i].conn
      <3>1. Has(present[p], i) /\ i # e
        BY <1>3, <2>1
      <3>2. Listed(i) # {}
        BY <1>1, <3>1, ListedIs DEF Has
      <3>3. characters[i].conn \in ConnIDs
        BY <1>1, RecordFields
      <3>4. characters[i].id = i
        BY <1>1 DEF Lockstep
      <3>5. \/ client[characters[i].conn].phase = "open" /\ client[characters[i].conn].entity = i
            \/ \E j \in DOMAIN characters : j > i /\ characters[j].conn = characters[i].conn
        BY <1>1, <3>2, <3>4 DEF NoGhosts
      <3>6. characters[i].conn # c => client'[characters[i].conn] = client[characters[i].conn]
        BY <3>3
      <3>7. characters[i].conn = c => client[characters[i].conn].entity # i
        BY <3>1
      <3> QED BY ONLY <3>5, <3>6, <3>7
    <2>2. \A i \in DOMAIN characters : characters[i].id = i
      BY <1>1 DEF Lockstep
    <2>3. ASSUME NEW i \in DOMAIN characters, Listed(i)' # {}
          PROVE  \E p \in Places : Has(present'[p], i)
      BY <2>3 DEF Listed, Has
    <2> QED BY <2>1, <2>2, <2>3 DEF NoGhosts, Listed
  <1> QED BY <1>3, <1>4, <1>6, <1>7, <1>8, <1>9 DEF Lists
LEMMA QuestsLeft ==
    ASSUME QuestsEmpty, NEW pl \in Places, NEW e, Has(present[pl], e),
           \A p \in Places \ {pl} : present'[p] = present[p],
           UNCHANGED <<items, dungeons, hunted>>
    PROVE  QuestsEmpty'
  <1>1. ASSUME NEW v \in QuestWorlds, NEW n \in 0 .. MaxInstances,
               n = 0 \/ n > Len(dungeons)
        PROVE  present'[<<v, n>>] = <<>>
    <2>1. <<v, n>> \in Places /\ present[<<v, n>>] = <<>>
      BY <1>1, SessionAssumption DEF QuestsEmpty, Places
    <2>2. <<v, n>> # pl
      BY <2>1 DEF Has
    <2> QED BY <2>1, <2>2
  <1> QED BY <1>1 DEF QuestsEmpty

LEMMA WarpDungeonKeeps ==
    ASSUME SessionInv, NEW c \in ConnIDs, NEW w \in Worlds, WarpDungeon(c, w)
    PROVE  SessionInv'
  <1> DEFINE e  == client[c].entity
             pl == WorldOf(Of(e))
             n  == Len(dungeons) + 1
             q  == <<w, n>>
  <1>1. TypeOK /\ QuestsEmpty /\ LyingOnce /\ LootedOnce /\ SpawnCharacterAsserts
    BY DEF SessionInv
  <1>2. /\ e # 0 /\ e \in DOMAIN characters /\ Lookup(e) = e /\ Of(e) = characters[e]
        /\ e \in 1 .. MaxEntities /\ client[c].phase = "open"
    BY PlayFacts DEF WarpDungeon, Playing
  <1>3. ASSUME pl # Void PROVE pl \in Places /\ AtPosition(e, pl)
    BY <1>2, <1>3, WorldOfIs
  <1>4. ASSUME CanDespawn(pl, e), CanOpen(e, w),
               dungeons' = Append(dungeons, [world |-> w, owner |-> e]),
               present' = [OutOf(present, pl, e) EXCEPT
                             ![q] = Append(OutOf(present, pl, e)[<<w, 0>>], e)],
               items' = [items EXCEPT ![q] = items[<<w, 0>>]],
               characters' = Moved(e, w),
               UNCHANGED <<client, master, kinds, slots, hunted, looted, fault>>
        PROVE  SessionInv'
    <2>1. /\ pl \in Places /\ Has(present[pl], e) /\ AtPosition(e, pl)
          /\ w \in QuestWorlds /\ characters[e].world \in Normal /\ Len(dungeons) < MaxInstances
      BY <1>2, <1>3, <1>4 DEF CanDespawn, CanOpen
    <2>2. /\ Len(dungeons) \in Nat /\ DOMAIN dungeons = 1 .. Len(dungeons)
          /\ n \in 0 .. MaxInstances /\ n > Len(dungeons) /\ 0 \in 0 .. MaxInstances
      BY <1>1, <2>1, Counts, SessionAssumption
    <2>3. /\ q \in Places /\ <<w, 0>> \in Places /\ q[1] = w /\ q[2] = n
          /\ pl[1] \in Normal /\ w \notin Normal
      BY <2>1, <2>2 DEF Places, Normal, AtPosition
    <2>4. /\ present[q] = <<>> /\ present[<<w, 0>>] = <<>>
          /\ items[<<w, 0>>] = <<>>
      BY <1>1, <2>1, <2>2 DEF QuestsEmpty
    <2>5. q # pl /\ <<w, 0>> # pl
      BY <2>3
    <2>6. present \in Lists(1 .. MaxEntities)
      BY <1>1 DEF TypeOK, Lists
    <2>7. OutOf(present, pl, e)[q] = <<>> /\ OutOf(present, pl, e)[<<w, 0>>] = <<>>
      BY <2>3, <2>4, <2>5, <2>6 DEF OutOf, Lists
    <2>8. present' = Into(OutOf(present, pl, e), q, e)
      BY <1>4, <2>7 DEF Into
    <2>9. Repositioned(e, w)
      BY <1>2, <1>4 DEF Moved, Repositioned
    <2>10. [world |-> w, owner |-> e] \in Dungeons
      BY <1>2, <2>1 DEF Dungeons
    <2>11. /\ dungeons' \in Seq(Dungeons) /\ Len(dungeons') = n
           /\ n \in DOMAIN dungeons' /\ dungeons'[n] = [world |-> w, owner |-> e]
           /\ \A k \in DOMAIN dungeons : k \in DOMAIN dungeons' /\ dungeons'[k] = dungeons[k]
      BY <1>1, <1>4, <2>2, <2>10 DEF TypeOK
    <2>12. Len(dungeons') <= MaxInstances
      BY <2>1, <2>2, <2>11, SessionAssumption
    <2>13. UNCHANGED <<client, kinds, slots>>
      BY <1>4
    <2>14. items[q] \in Seq(Items) /\ items \in [Places -> Seq(Items)]
      BY <1>1, <2>3 DEF TypeOK
    <2>15. /\ items' \in [Places -> Seq(Items)]
           /\ \A p \in Places : items'[p] = items[p] \/ items'[p] = <<>>
      BY <1>4, <2>3, <2>4, <2>14
    <2>16. \A p \in Places : Len(items'[p]) <= MaxItems
      BY <1>1, <2>15, SessionAssumption DEF TypeOK
    <2> HIDE DEF pl, q, n
    <2>17. /\ present' \in Lists(1 .. MaxEntities)
           /\ characters' \in Seq(Characters) /\ Len(characters') <= MaxCharacters
           /\ \A p \in Places \ {pl, q} : present'[p] = present[p]
           /\ Lockstep' /\ Bound' /\ ListedOnce' /\ Placed' /\ NoGhosts'
      BY <1>2, <2>1, <2>3, <2>8, <2>9, <2>11, <2>13, MoveKeeps
    <2>18. TypeOK'
      BY <1>1, <1>4, <2>11, <2>12, <2>15, <2>16, <2>17 DEF TypeOK, master, Lists
    <2>19. QuestsEmpty'
      <3>1. ASSUME NEW v \in QuestWorlds, NEW k \in 0 .. MaxInstances,
                   k = 0 \/ k > Len(dungeons')
            PROVE  present'[<<v, k>>] = <<>>
        <4>1. k = 0 \/ k > Len(dungeons)
          BY <2>2, <2>11, <3>1 DEF n
        <4>2. <<v, k>> \in Places /\ present[<<v, k>>] = <<>>
          BY <1>1, <3>1, <4>1, SessionAssumption DEF QuestsEmpty, Places
        <4>3. <<v, k>> # pl
          BY <2>1, <4>2 DEF Has
        <4>4. <<v, k>> # q
          BY <2>2, <2>11, <3>1 DEF q, n
        <4> QED BY <2>17, <4>2, <4>3, <4>4
      <3>2. \A v \in QuestWorlds : items'[<<v, 0>>] = <<>>
        <4>1. \A v \in QuestWorlds : <<v, 0>> \in Places
          BY <2>2, SessionAssumption DEF Places
        <4> QED BY <1>1, <2>15, <4>1 DEF QuestsEmpty
      <3> QED BY <1>1, <1>4, <3>1, <3>2 DEF QuestsEmpty
    <2>20. LyingOnce' /\ LootedOnce'
      <3>1. \A p \in Places : \A k \in DOMAIN items'[p] :
               k \in DOMAIN items[p] /\ items'[p][k] = items[p][k]
        BY <2>15
      <3>2. UNCHANGED <<kinds, looted>>
        BY <1>4
      <3>3. LyingOnce'
        BY <1>1, <3>1, <3>2 DEF LyingOnce
      <3>4. LootedOnce'
        BY <1>1, <3>1, <3>2 DEF LootedOnce
      <3> QED BY <3>3, <3>4
    <2>21. SpawnCharacterAsserts'
      BY <1>1, <1>4 DEF SpawnCharacterAsserts
    <2> QED BY <2>17, <2>18, <2>19, <2>20, <2>21 DEF SessionInv
  <1>5. ASSUME CanDespawn(pl, e), present' = OutOf(present, pl, e),
               client' = [client EXCEPT ![c].disc = TRUE],
               UNCHANGED <<master, memory, items, dungeons, hunted, looted, fault>>
        PROVE  SessionInv'
    <2>1. pl \in Places /\ Has(present[pl], e)
      BY <1>3, <1>5 DEF CanDespawn
    <2>2. client[c] \in Clients /\ client \in [ConnIDs -> Clients]
      BY <1>1 DEF TypeOK
    <2>3. /\ client' \in [ConnIDs -> Clients]
          /\ \A d \in ConnIDs \ {c} : client'[d] = client[d]
          /\ client'[c].entity = e /\ client'[c].phase = "open" /\ client'[c].disc
      BY <1>2, <1>5, <2>2 DEF Clients
    <2>4. UNCHANGED <<kinds, slots, characters, dungeons>>
      BY <1>5 DEF memory
    <2> HIDE DEF pl
    <2>5. /\ present' \in [Places -> Seq(1 .. MaxEntities)]
          /\ \A p \in Places \ {pl} : present'[p] = present[p]
          /\ Lockstep' /\ Bound' /\ ListedOnce' /\ Placed' /\ NoGhosts'
      BY <1>2, <1>5, <2>1, <2>3, <2>4, LeaveKeeps
    <2>6. TypeOK'
      BY <1>1, <1>5, <2>3, <2>5 DEF TypeOK, master, memory
    <2>7. QuestsEmpty'
      BY <1>1, <1>5, <2>1, <2>5, QuestsLeft
    <2>8. LyingOnce' /\ LootedOnce' /\ SpawnCharacterAsserts'
      BY <1>1, <1>5, GroundFrame DEF SpawnCharacterAsserts, memory
    <2> QED BY <2>5, <2>6, <2>7, <2>8 DEF SessionInv
  <1>6. ASSUME Fault(DespawnFault(pl)) PROVE SessionInv'
    <2>1. DespawnFault(pl) \in Faults \ {"SpawnCharacter"}
      BY DEF DespawnFault, Faults
    <2> QED BY <1>6, <2>1, FaultFrame
  <1> QED BY <1>4, <1>5, <1>6 DEF WarpDungeon, OutOf

LEMMA OnDisconnectKeeps ==
    ASSUME SessionInv, NEW c \in ConnIDs, OnDisconnect(c)
    PROVE  SessionInv'
  <1> DEFINE e  == client[c].entity
             pl == WorldOf(Of(e))
  <1>1. TypeOK /\ QuestsEmpty /\ SpawnCharacterAsserts
    BY DEF SessionInv
  <1>2. Gone \in Clients /\ Gone.entity = 0
    BY SessionAssumption DEF Gone, Client, Clients
  <1>3. CASE e = 0
    <2>1. /\ client' = [client EXCEPT ![c] = Gone]
          /\ UNCHANGED <<master, memory, present, items, dungeons, hunted, looted, fault>>
      BY <1>3 DEF OnDisconnect
    <2>2. TypeOK'
      BY <1>1, <1>2, <2>1 DEF TypeOK, master, memory
    <2>3. ClientsKept
      BY <1>1, <1>2, <1>3, <2>1 DEF ClientsKept, TypeOK
    <2> QED BY <2>1, <2>2, <2>3, QuietKeeps DEF Quiet, memory
  <1>4. ASSUME e # 0, CanDespawn(pl, e), client' = [client EXCEPT ![c] = Gone],
               present' = OutOf(present, pl, e),
               UNCHANGED <<master, memory, items, dungeons, hunted, looted, fault>>
        PROVE  SessionInv'
    <2>1. pl \in Places /\ Has(present[pl], e)
      BY <1>4, PlayFacts, WorldOfIs DEF CanDespawn
    <2>2. /\ client' \in [ConnIDs -> Clients] /\ client'[c].entity = 0
          /\ \A d \in ConnIDs \ {c} : client'[d] = client[d]
      BY <1>1, <1>2, <1>4 DEF TypeOK
    <2>3. UNCHANGED <<kinds, slots, characters, dungeons>>
      BY <1>4 DEF memory
    <2> HIDE DEF pl
    <2>4. /\ present' \in [Places -> Seq(1 .. MaxEntities)]
          /\ \A p \in Places \ {pl} : present'[p] = present[p]
          /\ Lockstep' /\ Bound' /\ ListedOnce' /\ Placed' /\ NoGhosts'
      BY <1>4, <2>1, <2>2, <2>3, LeaveKeeps
    <2>5. TypeOK'
      BY <1>1, <1>4, <2>2, <2>4 DEF TypeOK, master, memory
    <2>6. QuestsEmpty'
      BY <1>1, <1>4, <2>1, <2>4, QuestsLeft
    <2>7. LyingOnce' /\ LootedOnce' /\ SpawnCharacterAsserts'
      BY <1>1, <1>4, GroundFrame DEF SpawnCharacterAsserts, memory
    <2> QED BY <2>4, <2>5, <2>6, <2>7 DEF SessionInv
  <1>5. ASSUME Fault(DespawnFault(pl)) PROVE SessionInv'
    <2>1. DespawnFault(pl) \in Faults \ {"SpawnCharacter"}
      BY DEF DespawnFault, Faults
    <2> QED BY <1>5, <2>1, FaultFrame
  <1> QED BY <1>3, <1>4, <1>5 DEF OnDisconnect, OutOf
\* The new record: the asserts of RTRuntimeGetCharacter make its index, its
\* entity and its slot the same number.
LEMMA EntryKeeps ==
    ASSUME SessionInv, NEW r \in Replies, EntryFault(r) = "none",
           client[r.conn].phase = "open",
           CreateCharacter(r.conn, r.player, r.world),
           client' = [client EXCEPT ![r.conn].entity = NextEntity],
           present' = Into(present, <<r.world, 0>>, NextEntity),
           toWorld' \in Seq(Replies),
           UNCHANGED <<toMaster, link, breaks, saved, items, dungeons, hunted,
                       looted, fault>>
    PROVE  SessionInv'
  <1> DEFINE e == NextEntity
             q == <<r.world, 0>>
             c == r.conn
             new == Character(e, c, r.player, r.world)
  <1>1. /\ TypeOK /\ Lockstep /\ Bound /\ ListedOnce /\ QuestsEmpty /\ Placed
        /\ LyingOnce /\ NoGhosts /\ LootedOnce /\ SpawnCharacterAsserts
    BY DEF SessionInv
  <1>2. c \in ConnIDs /\ r.player \in Players /\ r.world \in Worlds
    BY DEF Replies
  <1>3. /\ Len(kinds) \in Nat /\ DOMAIN kinds = 1 .. Len(kinds)
        /\ Len(characters) \in Nat /\ DOMAIN characters = 1 .. Len(characters)
    BY <1>1, Counts
  <1>4. /\ ~(Len(characters) >= MaxCharacters) /\ ~(Len(kinds) >= MaxEntities)
        /\ ~(e > MaxCharacters) /\ ~(e > Len(characters) + 1)
        /\ r.world \notin QuestWorlds
    BY DEF EntryFault
  <1>5. /\ e = Len(characters) + 1 /\ e = Len(kinds) + 1 /\ e \in Nat
        /\ e \in 1 .. MaxCharacters /\ e \in 1 .. MaxEntities
        /\ e \notin DOMAIN characters /\ e \notin DOMAIN kinds
    BY <1>1, <1>3, <1>4, SessionAssumption DEF Lockstep, NextEntity
  <1>6. /\ kinds' = Append(kinds, "character")
        /\ slots' = [slots EXCEPT ![e] = e]
        /\ characters' = Append(characters, new)
    BY <1>5 DEF CreateCharacter
  <1>7. /\ new \in Characters /\ new.id = e /\ new.conn = c /\ new.world = r.world
    BY <1>2, <1>5 DEF Character, Characters
  <1>8. q \in Places /\ q[1] = r.world /\ q[2] = 0 /\ q[1] \in Normal
    BY <1>2, <1>4, SessionAssumption DEF Places, Normal
  <1>9. client \in [ConnIDs -> Clients] /\ client[c] \in Clients
    BY <1>1, <1>2 DEF TypeOK
  <1> HIDE DEF e, new
  <1>10. /\ client' \in [ConnIDs -> Clients]
         /\ client'[c].entity = e /\ client'[c].phase = "open"
         /\ \A d \in ConnIDs \ {c} : client'[d] = client[d]
    <2>1. client' = [client EXCEPT ![c].entity = e]
      BY DEF e
    <2>2. client[c].phase = "open" /\ e \in 0 .. MaxEntities
      BY <1>5, SessionAssumption
    <2> HIDE DEF c
    <2> DEFINE cl == [client[c] EXCEPT !.entity = e]
    <2>3. cl \in Clients /\ cl.entity = e /\ cl.phase = "open"
      BY <1>9, <2>2 DEF Clients
    <2>4. client' = [client EXCEPT ![c] = cl]
      BY <2>1
    <2> HIDE DEF cl
    <2> QED BY <1>2, <1>9, <2>3, <2>4
  <1>11. /\ characters' \in Seq(Characters) /\ Len(characters') = e
         /\ DOMAIN characters' = 1 .. e /\ e \in DOMAIN characters' /\ characters'[e] = new
         /\ \A i \in DOMAIN characters : characters'[i] = characters[i] /\ i \in DOMAIN characters' /\ i < e
    BY <1>1, <1>3, <1>5, <1>6, <1>7 DEF TypeOK
  <1>12. /\ kinds' \in Seq({"character", "item"}) /\ Len(kinds') = e
         /\ DOMAIN kinds' = 1 .. e /\ kinds'[e] = "character"
         /\ \A i \in DOMAIN kinds : kinds'[i] = kinds[i] /\ i \in DOMAIN kinds'
    BY <1>1, <1>3, <1>5, <1>6 DEF TypeOK
  <1>13. /\ slots' \in [1 .. MaxCharacters -> 1 .. MaxCharacters] /\ slots'[e] = e
         /\ \A i \in DOMAIN characters : slots'[i] = slots[i]
    BY <1>1, <1>3, <1>5, <1>6 DEF TypeOK
  <1>14. present' = Into(present, q, e)
    BY DEF e
  <1>15. /\ present' \in Lists(1 .. MaxEntities) /\ Singly(present')
         /\ \A p \in Places : \A x :
               Has(present'[p], x) <=> Has(present[p], x) \/ (p = q /\ x = e)
         /\ \A p \in Places \ {q} : present'[p] = present[p]
    BY ONLY <1>1, <1>5, <1>8, <1>14, PresentJoined
  <1> HIDE DEF q, c
  <1>16. TypeOK'
    <2>1. Len(characters') <= MaxCharacters /\ Len(kinds') <= MaxEntities
      BY <1>5, <1>11, <1>12, SessionAssumption
    <2> QED BY <1>1, <1>10, <1>11, <1>12, <1>13, <1>15, <2>1 DEF TypeOK, Lists
  <1>17. Lockstep'
    <2>1. ASSUME NEW i \in DOMAIN characters'
          PROVE  characters'[i].id = i /\ slots'[i] = i /\ kinds'[i] = "character"
      <3>1. CASE i = e
        BY <1>7, <1>11, <1>12, <1>13, <3>1
      <3>2. CASE i # e
        <4>1. i \in DOMAIN characters /\ i \in DOMAIN kinds
          BY <1>3, <1>5, <1>11, <3>2
        <4> QED BY <1>1, <1>11, <1>12, <1>13, <4>1 DEF Lockstep
      <3> QED BY <3>1, <3>2
    <2> QED BY <1>5, <1>11, <1>12, <2>1 DEF Lockstep
  <1>18. Bound'
    <2>1. ASSUME NEW d \in ConnIDs, client'[d].entity # 0
          PROVE  /\ client'[d].phase = "open"
                 /\ client'[d].entity \in DOMAIN characters'
                 /\ characters'[client'[d].entity].conn = d
      <3>1. CASE d = c
        BY <1>5, <1>7, <1>10, <1>11, <3>1
      <3>2. CASE d # c
        <4>1. client'[d] = client[d]
          BY <1>10, <3>2
        <4>2. client[d].phase = "open" /\ client[d].entity \in DOMAIN characters
              /\ characters[client[d].entity].conn = d
          BY <1>1, <2>1, <4>1 DEF Bound
        <4> QED BY <1>11, <4>1, <4>2
      <3> QED BY <3>1, <3>2
    <2> QED BY <2>1 DEF Bound
  <1>19. ListedOnce'
    <2>1. \A p \in Places : \A x : Has(present[p], x) => x \in DOMAIN characters
      BY <1>1, SinglyPresent
    <2>2. \A p \in Places : \A x : Has(present'[p], x) => x \in DOMAIN characters'
      <3>1. ASSUME NEW p \in Places, NEW x, Has(present'[p], x) PROVE x \in DOMAIN characters'
        <4>1. Has(present[p], x) \/ x = e
          BY <1>15, <3>1
        <4> QED BY <1>11, <2>1, <4>1
      <3> QED BY <3>1
    <2>3. \A p \in Places : \A i \in DOMAIN present'[p] : present'[p][i] \in DOMAIN characters'
      BY <2>2 DEF Has
    <2>4. \A p, s \in Places : \A i \in DOMAIN present'[p], j \in DOMAIN present'[s] :
             present'[p][i] = present'[s][j] => p = s /\ i = j
      BY <1>15, SinglyMeans
    <2> QED BY <2>3, <2>4 DEF ListedOnce
  <1>20. QuestsEmpty'
    <2>1. ASSUME NEW v \in QuestWorlds, NEW n \in 0 .. MaxInstances,
                 n = 0 \/ n > Len(dungeons)
          PROVE  present'[<<v, n>>] = <<>>
      <3>1. <<v, n>> \in Places /\ present[<<v, n>>] = <<>>
        BY <1>1, <2>1, SessionAssumption DEF QuestsEmpty, Places
      <3>2. <<v, n>> # q
        BY <1>8 DEF Normal
      <3> QED BY <1>15, <3>1, <3>2
    <2> QED BY <1>1, <2>1 DEF QuestsEmpty
  <1>21. Placed'
    <2>1. ASSUME NEW d \in ConnIDs, client'[d].entity # 0
          PROVE  \/ \E p \in Places : Has(present'[p], client'[d].entity)
                                      /\ AtPosition(client[d].entity, p)'
                 \/ client'[d].disc /\ \A p \in Places : ~Has(present'[p], client'[d].entity)
      <3>1. CASE d = c
        <4>1. Has(present'[q], client'[d].entity)
          BY <1>8, <1>10, <1>15, <3>1
        <4>2. AtPosition(client[d].entity, q)'
          BY <1>7, <1>8, <1>10, <1>11, <3>1 DEF AtPosition
        <4> QED BY <1>8, <4>1, <4>2
      <3>2. CASE d # c
        <4>1. /\ client'[d] = client[d] /\ client[d].entity \in DOMAIN characters
              /\ client[d].entity # e
          BY <1>1, <1>5, <1>10, <2>1, <3>2 DEF Bound
        <4>2. \A p \in Places : AtPosition(client[d].entity, p) => AtPosition(client[d].entity, p)'
          BY <1>11, <4>1 DEF AtPosition
        <4> QED BY <1>1, <1>15, <2>1, <4>1, <4>2 DEF Placed
      <3> QED BY <3>1, <3>2
    <2> QED BY <2>1 DEF Placed
  <1>22. NoGhosts'
    <2>1. ASSUME NEW i \in DOMAIN characters', NEW p \in Places, Has(present'[p], i)
          PROVE  \/ client'[characters'[i].conn].phase = "open"
                    /\ client'[characters'[i].conn].entity = i
                 \/ \E j \in DOMAIN characters' : j > i /\ characters'[j].conn = characters'[i].conn
      <3>1. CASE i = e
        BY <1>7, <1>10, <1>11, <3>1
      <3>2. CASE i # e
        <4>1. i \in DOMAIN characters /\ Has(present[p], i) /\ characters'[i] = characters[i] /\ i < e
          <5>1. Has(present[p], i)
            BY <1>15, <2>1, <3>2
          <5>2. i \in DOMAIN characters
            BY <1>1, <5>1, SinglyPresent
          <5> QED BY <1>11, <5>1, <5>2
        <4>2. Listed(i) # {} /\ characters[i].conn \in ConnIDs
          BY <1>1, <4>1, ListedIs, RecordFields DEF Has
        <4>3. CASE characters[i].conn = c
          BY <1>5, <1>7, <1>11, <4>1, <4>3
        <4>4. CASE characters[i].conn # c
          <5>1. \/ client[characters[i].conn].phase = "open" /\ client[characters[i].conn].entity = i
                \/ \E j \in DOMAIN characters : j > i /\ characters[j].conn = characters[i].conn
            BY <1>1, <4>1, <4>2 DEF NoGhosts, Lockstep
          <5>2. client'[characters[i].conn] = client[characters[i].conn]
            BY <1>10, <4>2, <4>4
          <5> QED BY <1>11, <4>1, <5>1, <5>2
        <4> QED BY <4>3, <4>4
      <3> QED BY <3>1, <3>2
    <2>2. \A i \in DOMAIN characters' : characters'[i].id = i
      BY <1>17 DEF Lockstep
    <2>3. ASSUME NEW i \in DOMAIN characters', Listed(i)' # {}
          PROVE  \E p \in Places : Has(present'[p], i)
      BY <2>3 DEF Listed, Has
    <2>4. ASSUME NEW i \in DOMAIN characters', Listed(characters[i].id)' # {}
          PROVE  \/ client'[characters'[i].conn].phase = "open"
                    /\ client'[characters'[i].conn].entity = characters'[i].id
                 \/ \E j \in DOMAIN characters' : j > i /\ characters'[j].conn = characters'[i].conn
      <3>1. Listed(i)' # {}
        BY <2>2, <2>4 DEF Listed
      <3> QED BY <2>1, <2>2, <2>3, <3>1
    <2> QED BY <2>4 DEF NoGhosts
  <1>23. LyingOnce' /\ LootedOnce'
    <2>1. LyingOnce'
      BY <1>1, <1>12 DEF LyingOnce
    <2> QED BY <1>1, <1>12, <2>1 DEF LyingOnce, LootedOnce
  <1>24. SpawnCharacterAsserts'
    BY <1>1 DEF SpawnCharacterAsserts
  <1> QED BY <1>16, <1>17, <1>18, <1>19, <1>20, <1>21, <1>22, <1>23, <1>24 DEF SessionInv

LEMMA OnWorldGetCharacterKeeps ==
    ASSUME SessionInv, OnWorldGetCharacter
    PROVE  SessionInv'
  <1> DEFINE r == Head(toWorld)
             enters == client[r.conn].phase = "open" /\ r.ok
  <1>1. TypeOK /\ ListedOnce
    BY DEF SessionInv
  <1>2. toWorld # <<>> /\ r \in Replies /\ Tail(toWorld) \in Seq(Replies)
    BY <1>1 DEF TypeOK, OnWorldGetCharacter
  <1>3. r.conn \in ConnIDs /\ r.world \in Worlds
    BY <1>2 DEF Replies
  <1>4. CASE ~enters
    <2>1. /\ RefuseEntry(r) /\ toWorld' = Tail(toWorld)
          /\ UNCHANGED <<toMaster, link, breaks, saved, memory, present, items,
                         dungeons, hunted, looted, fault>>
      BY <1>4 DEF OnWorldGetCharacter
    <2>2. client \in [ConnIDs -> Clients] /\ client[r.conn] \in Clients
      BY <1>1, <1>3 DEF TypeOK
    <2>3. client' \in [ConnIDs -> Clients] /\ ClientsKept
      BY <2>1, <2>2 DEF RefuseEntry, Clients, ClientsKept
    <2>4. TypeOK'
      BY <1>1, <1>2, <2>1, <2>3 DEF TypeOK, memory
    <2> QED BY <2>1, <2>3, <2>4, QuietKeeps DEF Quiet, memory
  <1>5. CASE enters /\ EntryFault(r) = "none"
    <2>1. /\ CreateCharacter(r.conn, r.player, r.world)
          /\ client' = [client EXCEPT ![r.conn].entity = NextEntity]
          /\ present' = [present EXCEPT ![<<r.world, 0>>] = Append(@, NextEntity)]
          /\ toWorld' = Tail(toWorld)
          /\ UNCHANGED <<toMaster, link, breaks, saved, items, dungeons, hunted,
                         looted, fault>>
      BY <1>5 DEF OnWorldGetCharacter
    <2>2. present' = Into(present, <<r.world, 0>>, NextEntity)
      BY <2>1 DEF Into
    <2>3. toWorld' \in Seq(Replies)
      BY <1>2, <2>1
    <2> HIDE DEF r
    <2> QED BY <1>2, <1>5, <2>1, <2>2, <2>3, EntryKeeps
  <1>6. CASE enters /\ EntryFault(r) # "none"
    <2>1. Fault(EntryFault(r))
      BY <1>6 DEF OnWorldGetCharacter
    \* There are never more listed than records.
    <2>2. ASSUME EntryFault(r) = "SpawnCharacter" PROVE FALSE
      <3>1. ~(Len(characters) >= MaxCharacters) /\ Len(present[<<r.world, 0>>]) >= MaxCharacters
        BY <2>2 DEF EntryFault
      <3>2. <<r.world, 0>> \in Places
        BY <1>3, SessionAssumption DEF Places
      <3>3. Len(present[<<r.world, 0>>]) <= Len(characters)
        BY <1>1, <3>2, ListsShort
      <3> QED BY <1>1, <3>1, <3>2, <3>3, Counts, SessionAssumption
    <2>3. EntryFault(r) \in Faults \ {"SpawnCharacter"}
      BY <2>2 DEF EntryFault, Faults
    <2> QED BY <2>1, <2>3, FaultFrame
  <1> QED BY <1>4, <1>5, <1>6

LEMMA DespawnMobKeeps ==
    ASSUME SessionInv, NEW pl \in Places, NEW drop \in Drops, DespawnMob(pl, drop)
    PROVE  SessionInv'
  <1>1. CASE Len(kinds) + Len(drop) <= MaxEntities
    BY <1>1, DropKeeps DEF DespawnMob
  <1>2. CASE ~(Len(kinds) + Len(drop) <= MaxEntities)
    <2>1. Fault("CreateEntity")
      BY <1>2 DEF DespawnMob
    <2> QED BY <2>1, FaultFrame DEF Faults
  <1> QED BY <1>1, <1>2

-----------------------------------------------------------------------------
(* The invariant, and what follows from it.                                *)

LEMMA SessionStep == SessionInv /\ [Next]_vars => SessionInv'
  <1> SUFFICES ASSUME SessionInv, [Next]_vars PROVE SessionInv'
    OBVIOUS
  <1>1. ASSUME NEW c \in ConnIDs, ClientStep(c) PROVE SessionInv'
    BY <1>1, AcceptKeeps, InitializeKeeps, WarpKeeps, WarpDungeonKeeps, HitMobKeeps,
       LootKeeps DEF ClientStep
  <1>2. ASSUME NEW c \in ConnIDs, SyncDB(c) \/ OnDisconnect(c) PROVE SessionInv'
    BY <1>2, SyncKeeps, OnDisconnectKeeps
  <1>3. CASE MasterStep
    BY <1>3, MasterKeeps DEF MasterStep
  <1>4. CASE WorldLoop
    BY <1>4, OnWorldGetCharacterKeeps, LinkKeeps, DespawnMobKeeps DEF WorldLoop
  <1>5. CASE BreakLink
    BY <1>5, LinkKeeps
  <1>6. CASE UNCHANGED vars
    <2>1. TypeOK'
      BY <1>6 DEF SessionInv, TypeOK, vars, memory, master
    <2>2. ClientsKept /\ Quiet
      BY <1>6 DEF ClientsKept, Quiet, vars, memory, master
    <2> QED BY <2>1, <2>2, QuietKeeps
  <1> QED BY <1>1, <1>2, <1>3, <1>4, <1>5, <1>6 DEF Next

\* The inductive invariant, from which the theorems below follow: entities,
\* records and EntityToCharacter go up in step, a client in play stands where
\* its position says or was refused a dungeon, and every entity and every item
\* is in one list at most.
THEOREM Session == Spec => []SessionInv
  <1>1. SessionInv /\ [Next]_vars => SessionInv'
    BY SessionStep
  <1> QED BY SessionInit, <1>1, PTL DEF Spec

\* However often players enter, warp, loot and leave, the state of the world
\* server has its types: no pool and no list outgrows its array.
THEOREM SessionTypes == Spec => []TypeOK
  <1>1. SessionInv => TypeOK
    BY DEF SessionInv
  <1> QED BY Session, <1>1, PTL

\* EntityToCharacter leads every client in play to the record made for its
\* connection, whatever entities items took, and no two clients share an entity.
THEOREM SessionOwnRecord == Spec => []OwnRecord
  <1>1. SessionInv => OwnRecord
    <2> SUFFICES ASSUME SessionInv, NEW c \in ConnIDs, InPlay(c)
                 PROVE  LET e == client[c].entity
                        IN  /\ Found(e) /\ Of(e).id = e /\ Of(e).conn = c
                            /\ kinds[e] = "character"
                            /\ \A d \in ConnIDs \ {c} : InPlay(d) => client[d].entity # e
      BY DEF OwnRecord
    <2> DEFINE e == client[c].entity
    <2>1. /\ e \in DOMAIN characters /\ Of(e) = characters[e]
          /\ characters[e].id = e /\ characters[e].conn = c
      BY PlayFacts DEF InPlay
    <2>2. Found(e)
      BY <2>1, Counts DEF SessionInv, Found
    <2>3. kinds[e] = "character"
      BY <2>1 DEF SessionInv, Lockstep
    <2>4. ASSUME NEW d \in ConnIDs \ {c}, InPlay(d) PROVE client[d].entity # e
      BY <2>1, <2>4 DEF SessionInv, Bound, InPlay
    <2> QED BY <2>1, <2>2, <2>3, <2>4
  <1> QED BY Session, <1>1, PTL

\* However it warps, a player in play is in exactly one list, or in none when a
\* dungeon refused it and its connection is flagged; and the world lookup gives
\* that list unless two instances of one world have the same owner.
THEOREM SessionOneWorld == Spec => []OneWorld
  <1>1. SessionInv => OneWorld
    <2> SUFFICES ASSUME SessionInv, NEW c \in ConnIDs, InPlay(c)
                 PROVE  LET e == client[c].entity
                            n == Cardinality(Listed(e))
                        IN  /\ n = 1 \/ (n = 0 /\ client[c].disc)
                            /\ n = 1 /\ (\A i, j \in DOMAIN dungeons : i # j => dungeons[i] # dungeons[j])
                                   => CanDespawn(WorldOf(Of(e)), e)
      BY DEF OneWorld
    <2> DEFINE e == client[c].entity
               n == Cardinality(Listed(e))
    <2>1. e # 0 /\ e \in DOMAIN characters /\ Of(e) = characters[e] /\ characters[e].id = e
      BY PlayFacts DEF InPlay
    <2>2. TypeOK /\ ListedOnce
      BY DEF SessionInv
    <2>3. CASE client[c].disc /\ \A pl \in Places : ~Has(present[pl], e)
      <3>1. Listed(e) = {}
        BY <2>3 DEF Listed, Has
      <3>2. n = 0
        BY <3>1, FS_EmptySet
      <3> QED BY <2>3, <3>2
    <2>4. ASSUME NEW pl \in Places, Has(present[pl], e), AtPosition(e, pl)
          PROVE  /\ n = 1
                 /\ (\A i, j \in DOMAIN dungeons : i # j => dungeons[i] # dungeons[j])
                        => CanDespawn(WorldOf(Of(e)), e)
      <3>1. PICK k \in DOMAIN present[pl] : present[pl][k] = e
        BY <2>4 DEF Has
      <3>2. <<pl, k>> \in Listed(e)
        BY <2>2, <3>1, ListedIs
      <3>3. \A at \in Listed(e) : at = <<pl, k>>
        BY <2>2, <3>1 DEF Listed, ListedOnce
      <3>4. Listed(e) = {<<pl, k>>}
        BY <3>2, <3>3
      <3>5. n = 1
        BY <3>4, FS_Singleton
      <3>6. ASSUME \A i, j \in DOMAIN dungeons : i # j => dungeons[i] # dungeons[j]
            PROVE  CanDespawn(WorldOf(Of(e)), e)
        <4>1. WorldOf(characters[e]) = pl
          BY <2>1, <2>4, <3>6, WorldOfPlace
        <4>2. pl # Void
          <5>1. PICK w \in Worlds, m \in 0 .. MaxInstances : pl = <<w, m>>
            BY DEF Places
          <5>2. Len(pl) = 2 /\ Len(<<>>) = 0
            BY ONLY <5>1
          <5> QED BY <5>2 DEF Void
        <4> QED BY <2>1, <2>4, <4>1, <4>2 DEF CanDespawn
      <3> QED BY <3>5, <3>6
    <2>5. \/ \E pl \in Places : Has(present[pl], e) /\ AtPosition(e, pl)
          \/ client[c].disc /\ \A pl \in Places : ~Has(present[pl], e)
      BY <2>1 DEF SessionInv, Placed
    <2> QED BY <2>3, <2>4, <2>5
  <1> QED BY Session, <1>1, PTL

\* A character in a world's list is that of an open connection, or a later
\* INITIALIZE on the same connection replaced it.
THEOREM SessionNoGhosts == Spec => []NoGhosts
  <1>1. SessionInv => NoGhosts
    BY DEF SessionInv
  <1> QED BY Session, <1>1, PTL

\* No item is looted twice, and a looted one lies nowhere, in any world or
\* instance: LOOT_INVENTORY_ITEM, LOOT_CURRENCY_ITEM and the list that throws
\* out its first item all agree on it.
THEOREM SessionLootedOnce == Spec => []LootedOnce
  <1>1. SessionInv => LootedOnce
    BY DEF SessionInv
  <1> QED BY Session, <1>1, PTL

\* The assert of RTWorldSpawnCharacter never fails: the lists have room for
\* every record there can be.
THEOREM SessionSpawns == Spec => []SpawnCharacterAsserts
  <1>1. SessionInv => SpawnCharacterAsserts
    BY DEF SessionInv
  <1> QED BY Session, <1>1, PTL

-----------------------------------------------------------------------------
(* The aggro list of a mob.                                                *)

USE AggroAssumption

\* Nobody is on a list twice.
OnceEach(s) == \A j, k \in DOMAIN s : s[j].who = s[k].who => j = k

\* Entries the walk has yet to look at, at most m.
Upto(m) == {w \in Walks : Len(w.s) + 1 - w.k <= m}

LEMMA TakeOutIs ==
    ASSUME NEW s \in Seq(Entries), NEW k \in 1 .. Len(s)
    PROVE  /\ TakeOut(s, k) \in Seq(Entries) /\ Len(s) \in Nat
           /\ Len(TakeOut(s, k)) = Len(s) - 1
           /\ \A j \in 1 .. Len(s) - 1 : TakeOut(s, k)[j] = IF j = k THEN s[k + 1] ELSE s[j]
  <1> DEFINE n == Len(s)
             r == TakeOut(s, k)
  <1>1. n \in Nat /\ \A j \in 1 .. n : s[j] \in Entries
    OBVIOUS
  <1>2. \A j \in 1 .. n - 1 : (IF j = k THEN s[k + 1] ELSE s[j]) \in Entries
    <2> HIDE DEF n
    <2>1. \A j \in 1 .. n - 1 : j \in 1 .. n /\ (j = k => k + 1 \in 1 .. n)
      BY ONLY <1>1
    <2> QED BY ONLY <1>1, <2>1
  <1>3. r = [j \in 1 .. n - 1 |-> IF j = k THEN s[k + 1] ELSE s[j]]
    BY DEF TakeOut
  <1> HIDE DEF n, r
  <1>4. n - 1 \in Nat
    BY <1>1 DEF n
  <1>5. r \in Seq(Entries) /\ Len(r) = n - 1
    BY ONLY <1>2, <1>3, <1>4
  <1> QED BY ONLY <1>1, <1>3, <1>5 DEF n, r

LEMMA LookAtIs ==
    ASSUME NEW w \in Walks, w.k <= Len(w.s)
    PROVE  /\ LookAt(w) \in Walks
           /\ \A m \in Int : w \in Upto(m) => LookAt(w) \in Upto(m - 1)
           /\ w.k \in 1 .. Len(w.s) /\ w.s \in Seq(Entries) /\ Len(w.s) \in Nat
           /\ Here(w.s[w.k].who) => LookAt(w).k = w.k + 1 /\ LookAt(w).s = w.s
           /\ ~Here(w.s[w.k].who) => LookAt(w).k = w.k /\ LookAt(w).s = TakeOut(w.s, w.k)
  <1> DEFINE v == LookAt(w)
             K == 1 .. MaxAggro + 1
             L == Seq(Entries)
  <1>1. /\ w \in [k : K, s : L] /\ Len(w.s) <= MaxAggro
        /\ w.k \in K /\ w.s \in L
    BY DEF Walks
  <1>2. Len(w.s) \in Nat /\ w.k \in Nat /\ w.k >= 1 /\ MaxAggro \in Nat
    BY <1>1, AggroAssumption
  <1>3. w.k \in 1 .. Len(w.s)
    BY ONLY <1>2, w.k <= Len(w.s)
  <1>4. CASE Here(w.s[w.k].who)
    <2>1. v = [w EXCEPT !.k = w.k + 1]
      BY <1>4 DEF LookAt
    <2>2. w.k + 1 \in K
      BY ONLY <1>1, <1>2, w.k <= Len(w.s)
    <2> HIDE DEF v, K, L
    <2>3. v \in [k : K, s : L] /\ v.k = w.k + 1 /\ v.s = w.s
      BY ONLY <1>1, <2>1, <2>2
    <2>4. v \in Walks
      BY ONLY <1>1, <2>3 DEF Walks, K, L
    <2>5. \A m \in Int : w \in Upto(m) => v \in Upto(m - 1)
      BY ONLY <1>2, <2>3, <2>4 DEF Upto
    <2> QED BY ONLY <1>1, <1>2, <1>3, <1>4, <2>3, <2>4, <2>5 DEF v, L
  <1>5. CASE ~Here(w.s[w.k].who)
    <2> DEFINE t == TakeOut(w.s, w.k)
    <2>1. v = [w EXCEPT !.s = t]
      BY <1>5 DEF LookAt
    <2>2. t \in L /\ Len(t) = Len(w.s) - 1
      BY ONLY <1>1, <1>3, TakeOutIs
    <2> HIDE DEF v, K, L, t
    <2>3. v \in [k : K, s : L] /\ v.k = w.k /\ v.s = t
      BY ONLY <1>1, <2>1, <2>2
    <2>4. v \in Walks
      <3>1. Len(v.s) <= MaxAggro
        BY ONLY <1>1, <1>2, <2>2, <2>3
      <3> QED BY ONLY <2>3, <3>1 DEF Walks, K, L
    <2>5. \A m \in Int : w \in Upto(m) => v \in Upto(m - 1)
      BY ONLY <1>2, <2>2, <2>3, <2>4 DEF Upto
    <2> QED BY ONLY <1>1, <1>2, <1>3, <1>5, <2>3, <2>4, <2>5 DEF v, L, t
  <1> QED BY ONLY <1>4, <1>5

LEMMA UptoIs ==
    /\ Upto(MaxAggro) = Walks
    /\ \A m \in Int : \A w \in Upto(m) : w \in Walks
    /\ \A w \in Upto(0) : w.k > Len(w.s)
    /\ \A w \in Walks : w.s \in Seq(Entries) /\ Len(w.s) \in Nat /\ w.k \in Nat
  <1>1. MaxAggro \in Nat
    BY AggroAssumption
  <1>2. \A w \in Walks : /\ w.s \in Seq(Entries) /\ Len(w.s) \in Nat /\ w.k \in Nat
                         /\ w.k >= 1 /\ Len(w.s) <= MaxAggro
    BY <1>1 DEF Walks
  <1>3. \A w \in Walks : Len(w.s) + 1 - w.k <= MaxAggro
    BY ONLY <1>1, <1>2
  <1>4. \A w \in Upto(0) : w.k > Len(w.s)
    BY ONLY <1>2 DEF Upto
  <1>5. Upto(MaxAggro) = Walks
    BY ONLY <1>3 DEF Upto
  <1> QED BY ONLY <1>2, <1>4, <1>5 DEF Upto

\* The walk comes to an end, whatever list it begins with.
LEMMA SweptUnfolds ==
    \A w \in Walks : SweptFrom[w] = IF w.k > Len(w.s) THEN w.s ELSE SweptFrom[LookAt(w)]
  <1> DEFINE Step(f, w) == IF w.k > Len(w.s) THEN w.s ELSE f[LookAt(w)]
             Walked(m, f) == f \in [Upto(m) -> Seq(Entries)] /\ \A w \in Upto(m) : f[w] = Step(f, w)
             S == {m \in 0 .. MaxAggro : \E f : Walked(m, f)}
             Runs(f) == f = [w \in Walks |-> Step(f, w)]
             all == CHOOSE f : Runs(f)
  <1>0. MaxAggro \in Nat
    BY AggroAssumption
  <1>1. 0 \in S
    <2> DEFINE f == [w \in Upto(0) |-> w.s]
    <2>1. \A w \in Upto(0) : w.k > Len(w.s) /\ w.s \in Seq(Entries)
      BY UptoIs
    <2>2. Walked(0, f)
      BY ONLY <2>1
    <2> HIDE DEF f, Walked
    <2>3. 0 \in 0 .. MaxAggro
      BY ONLY <1>0
    <2> QED BY ONLY <2>2, <2>3
  <1>2. ASSUME NEW i \in 1 .. MaxAggro, i - 1 \in S
        PROVE  i \in S
    <2>1. i \in Int /\ i - 1 \in Int /\ i \in 0 .. MaxAggro
      BY ONLY <1>0, i \in 1 .. MaxAggro
    <2>2. PICK f : Walked(i - 1, f)
      <3> HIDE DEF Walked
      <3> QED BY ONLY <1>2
    <2> DEFINE g == [w \in Upto(i) |-> Step(f, w)]
    <2>3. ASSUME NEW w \in Upto(i), ~(w.k > Len(w.s))
          PROVE  LookAt(w) \in Upto(i - 1) /\ f[LookAt(w)] \in Seq(Entries)
      <3>1. w \in Walks /\ w.k <= Len(w.s)
        BY ONLY <2>1, <2>3, w \in Upto(i), UptoIs
      <3>2. LookAt(w) \in Upto(i - 1)
        BY ONLY <2>1, <3>1, w \in Upto(i), LookAtIs
      <3> QED BY ONLY <2>2, <3>2
    <2>4. \A w \in Upto(i) : Step(f, w) \in Seq(Entries)
      <3>1. \A w \in Upto(i) : w.s \in Seq(Entries)
        BY ONLY <2>1, UptoIs
      <3> QED BY ONLY <2>3, <3>1
    <2>5. \A w \in Upto(i - 1) : w \in Upto(i)
      BY ONLY <2>1, UptoIs DEF Upto
    <2>6. \A w \in Upto(i) : g[w] = Step(f, w)
      OBVIOUS
    <2> HIDE DEF g
    <2>7. \A w \in Upto(i - 1) : g[w] = f[w]
      BY ONLY <2>2, <2>5, <2>6
    <2>8. \A w \in Upto(i) : g[w] = Step(g, w)
      BY ONLY <2>3, <2>6, <2>7
    <2>9. g \in [Upto(i) -> Seq(Entries)]
      <3> HIDE DEF Step
      <3> QED BY ONLY <2>4 DEF g
    <2>10. Walked(i, g)
      BY ONLY <2>8, <2>9
    <2> HIDE DEF Walked
    <2> QED BY ONLY <2>1, <2>10
  <1>3. PICK f : Walked(MaxAggro, f)
    <2> HIDE DEF S
    <2>1. \A i \in 0 .. MaxAggro : i \in S
      BY ONLY <1>0, <1>1, <1>2, Rises
    <2>2. MaxAggro \in S
      BY ONLY <1>0, <2>1
    <2> HIDE DEF Walked
    <2> QED BY ONLY <2>2 DEF S
  <1>4. Runs(f)
    <2>1. f \in [Walks -> Seq(Entries)] /\ \A w \in Walks : f[w] = Step(f, w)
      BY ONLY <1>3, UptoIs
    <2>2. f = [w \in Walks |-> f[w]]
      BY ONLY <2>1
    <2> HIDE DEF Step
    <2> QED BY ONLY <2>1, <2>2
  <1>5. Runs(all)
    <2> HIDE DEF Runs
    <2> QED BY ONLY <1>4
  <1>6. SweptFrom = all
    BY DEF SweptFrom, all
  <1> HIDE DEF all
  <1>7. \A w \in Walks : all[w] = Step(all, w)
    <2> HIDE DEF Step
    <2> DEFINE R == [w \in Walks |-> Step(all, w)]
    <2>1. all = R
      BY ONLY <1>5
    <2>2. \A w \in Walks : R[w] = Step(all, w)
      OBVIOUS
    <2> HIDE DEF R
    <2> QED BY ONLY <2>1, <2>2
  <1> QED BY ONLY <1>6, <1>7

\* All entries before the index of the walk are of characters that are here.
Looked(w) == \A j \in DOMAIN w.s : j < w.k => Here(w.s[j].who)

\* Nobody who is behind an entry to be taken out is lost with it.
Smooth(w) == \A j \in DOMAIN w.s : j >= w.k /\ ~Here(w.s[j].who) => j + 1 >= Len(w.s)

\* What a walk leaves: entries of the list, of characters that are here; and if
\* it takes nobody out by accident, all of them.
Comes(w, r) ==
    /\ r \in Seq(Entries) /\ Len(r) <= Len(w.s)
    /\ \A k \in DOMAIN r : Here(r[k].who) /\ \E j \in DOMAIN w.s : w.s[j] = r[k]
    /\ Smooth(w) /\ OnceEach(w.s) =>
          /\ OnceEach(r)
          /\ \A j \in DOMAIN w.s : Here(w.s[j].who) => \E k \in DOMAIN r : r[k] = w.s[j]

\* One entry is taken out, with no more than one behind it or with more.
LEMMA ComesOn ==
    ASSUME NEW w \in Walks, w.k <= Len(w.s), Looked(w),
           NEW r, Looked(LookAt(w)) => Comes(LookAt(w), r)
    PROVE  Comes(w, r)
  <1> DEFINE v == LookAt(w)
             s == w.s
             k == w.k
             n == Len(s)
             t == TakeOut(s, k)
  <1>1. /\ k \in 1 .. n /\ s \in Seq(Entries) /\ n \in Nat /\ v.s \in Seq(Entries)
        /\ Here(s[k].who) => v.k = k + 1 /\ v.s = s
        /\ ~Here(s[k].who) => v.k = k /\ v.s = t
    BY ONLY w \in Walks, w.k <= Len(w.s), LookAtIs, UptoIs
  <1>2. Looked(v) => Comes(v, r)
    OBVIOUS
  <1>3. /\ DOMAIN s = 1 .. n
        /\ \A j \in 1 .. n : j < k => Here(s[j].who)
        /\ Smooth(w) => \A j \in 1 .. n : j >= k /\ ~Here(s[j].who) => j + 1 >= n
    <2>1. DOMAIN s = 1 .. n
      BY ONLY <1>1
    <2> QED BY ONLY <2>1, Looked(w) DEF Looked, Smooth
  <1> HIDE DEF v, s, k, n, t
  <1>4. CASE Here(s[k].who)
    <2>1. v.k = k + 1 /\ v.s = s
      BY ONLY <1>1, <1>4
    <2>2. Looked(v)
      <3>1. \A j \in 1 .. n : j < k + 1 => j < k \/ j = k
        BY ONLY <1>1
      <3> QED BY ONLY <1>3, <1>4, <2>1, <3>1 DEF Looked
    <2>3. Smooth(w) => Smooth(v)
      <3>1. \A j \in 1 .. n : j >= k + 1 => j >= k
        BY ONLY <1>1
      <3>2. Len(v.s) = n
        BY ONLY <2>1 DEF n
      <3> QED BY ONLY <1>3, <2>1, <3>1, <3>2 DEF Smooth
    <2> QED BY ONLY <1>2, <2>1, <2>2, <2>3 DEF Comes, s
  <1>5. CASE ~Here(s[k].who)
    <2>1. v.k = k /\ v.s = t
      BY ONLY <1>1, <1>5
    <2>2. /\ t \in Seq(Entries) /\ Len(t) = n - 1
          /\ \A j \in 1 .. n - 1 : t[j] = IF j = k THEN s[k + 1] ELSE s[j]
      BY ONLY <1>1, TakeOutIs DEF t, n
    <2>3. DOMAIN t = 1 .. n - 1
      BY ONLY <2>2
    <2>4. \A j \in 1 .. n - 1 : j \in 1 .. n /\ (j = k => k + 1 \in 1 .. n)
      BY ONLY <1>1
    <2>5. Looked(v)
      BY ONLY <1>3, <2>1, <2>2, <2>3, <2>4 DEF Looked
    <2>6. Comes(v, r)
      BY ONLY <1>2, <2>5
    <2>7. \A j \in DOMAIN t : \E i \in DOMAIN s : s[i] = t[j]
      BY ONLY <1>3, <2>2, <2>3, <2>4
    <2>8. /\ r \in Seq(Entries) /\ Len(r) <= n
          /\ \A i \in DOMAIN r : Here(r[i].who) /\ \E j \in DOMAIN s : s[j] = r[i]
      <3>1. /\ r \in Seq(Entries) /\ Len(r) <= n - 1
            /\ \A i \in DOMAIN r : Here(r[i].who) /\ \E j \in DOMAIN t : t[j] = r[i]
        BY ONLY <2>1, <2>2, <2>6 DEF Comes
      <3>2. Len(r) \in Nat
        BY ONLY <3>1
      <3>3. Len(r) <= n
        BY ONLY <1>1, <3>1, <3>2
      <3> QED BY ONLY <2>7, <3>1, <3>3
    <2>9. ASSUME Smooth(w), OnceEach(s)
          PROVE  /\ OnceEach(r)
                 /\ \A j \in DOMAIN s : Here(s[j].who) => \E i \in DOMAIN r : r[i] = s[j]
      <3>1. k + 1 >= n
        BY ONLY <1>1, <1>3, <1>5, <2>9
      <3>2. Smooth(v)
        <4>1. \A j \in 1 .. n - 1 : j + 1 >= n - 1 \/ ~(j >= k)
          BY ONLY <1>1, <3>1
        <4> QED BY ONLY <2>1, <2>2, <2>3, <4>1 DEF Smooth
      <3> DEFINE Old(j) == IF j = k THEN k + 1 ELSE j
      <3>3. \A j \in 1 .. n - 1 : Old(j) \in 1 .. n /\ t[j] = s[Old(j)]
        BY ONLY <2>2, <2>4
      <3>4. \A i, j \in 1 .. n - 1 : Old(i) = Old(j) => i = j
        BY ONLY <1>1, <3>1
      <3>5. \A j \in 1 .. n : j # k => \E i \in 1 .. n - 1 : Old(i) = j
        <4>1. ASSUME NEW j \in 1 .. n, j # k, j < n PROVE \E i \in 1 .. n - 1 : Old(i) = j
          <5>1. j \in 1 .. n - 1 /\ Old(j) = j
            BY ONLY <1>1, <4>1, j \in 1 .. n
          <5> QED BY ONLY <5>1
        <4>2. ASSUME NEW j \in 1 .. n, j # k, j = n PROVE \E i \in 1 .. n - 1 : Old(i) = j
          <5>1. k \in 1 .. n - 1 /\ Old(k) = j
            BY ONLY <1>1, <3>1, <4>2
          <5> QED BY ONLY <5>1
        <4>3. \A j \in 1 .. n : j < n \/ j = n
          BY ONLY <1>1
        <4> QED BY ONLY <4>1, <4>2, <4>3
      <3> HIDE DEF Old
      <3>6. OnceEach(t)
        BY ONLY <1>3, <2>3, <2>9, <3>3, <3>4 DEF OnceEach
      <3>7. \A j \in DOMAIN s : Here(s[j].who) => \E i \in DOMAIN t : t[i] = s[j]
        BY ONLY <1>3, <1>5, <2>3, <3>3, <3>5
      <3> QED BY ONLY <2>1, <2>6, <3>2, <3>6, <3>7 DEF Comes
    <2> QED BY ONLY <2>8, <2>9 DEF Comes, s, n
  <1> QED BY ONLY <1>4, <1>5

\* What the mob's list is after the walk.
LEMMA SweptIs ==
    ASSUME aggro \in Seq(Entries), Len(aggro) <= MaxAggro
    PROVE  /\ Swept \in Seq(Entries) /\ Len(Swept) <= MaxAggro
           /\ \A k \in DOMAIN Swept : /\ Here(Swept[k].who)
                                      /\ \E j \in DOMAIN aggro : aggro[j] = Swept[k]
           /\ ~TornNow /\ OnceEach(aggro) =>
                /\ OnceEach(Swept)
                /\ \A j \in DOMAIN aggro :
                      Here(aggro[j].who) => \E k \in DOMAIN Swept : Swept[k] = aggro[j]
  <1> DEFINE S == {m \in 0 .. MaxAggro : \A w \in Upto(m) : Looked(w) => Comes(w, SweptFrom[w])}
             start == [k |-> 1, s |-> aggro]
  <1>0. MaxAggro \in Nat
    BY AggroAssumption
  <1>1. ASSUME NEW w \in Walks, w.k > Len(w.s), Looked(w)
        PROVE  Comes(w, SweptFrom[w])
    <2>1. SweptFrom[w] = w.s /\ w.s \in Seq(Entries) /\ Len(w.s) \in Nat /\ w.k \in Nat
      BY ONLY <1>1, SweptUnfolds, UptoIs
    <2>2. DOMAIN w.s = 1 .. Len(w.s) /\ Len(w.s) <= Len(w.s)
      BY ONLY <2>1
    <2>3. \A j \in DOMAIN w.s : j < w.k
      BY ONLY <1>1, <2>1, <2>2
    <2> QED BY ONLY <1>1, <2>1, <2>2, <2>3 DEF Comes, Looked
  <1>2. 0 \in S
    <2>1. \A w \in Upto(0) : Looked(w) => Comes(w, SweptFrom[w])
      <3>1. \A w \in Upto(0) : w \in Walks /\ w.k > Len(w.s)
        BY ONLY UptoIs
      <3> QED BY ONLY <1>1, <3>1
    <2>2. 0 \in 0 .. MaxAggro
      BY ONLY <1>0
    <2> QED BY ONLY <2>1, <2>2
  <1>3. ASSUME NEW i \in 1 .. MaxAggro, i - 1 \in S
        PROVE  i \in S
    <2>1. i \in Int /\ i - 1 \in Int /\ i \in 0 .. MaxAggro
      BY ONLY <1>0, i \in 1 .. MaxAggro
    <2>2. \A w \in Upto(i - 1) : Looked(w) => Comes(w, SweptFrom[w])
      BY ONLY <1>3
    <2>3. ASSUME NEW w \in Upto(i), Looked(w)
          PROVE  Comes(w, SweptFrom[w])
      <3>1. w \in Walks /\ Len(w.s) \in Nat /\ w.k \in Nat
        BY ONLY <2>1, w \in Upto(i), UptoIs
      <3>2. CASE w.k > Len(w.s)
        BY ONLY <1>1, <2>3, <3>1, <3>2
      <3>3. CASE w.k <= Len(w.s)
        <4>1. LookAt(w) \in Upto(i - 1)
          BY ONLY <2>1, <3>1, <3>3, w \in Upto(i), LookAtIs
        <4>2. SweptFrom[w] = SweptFrom[LookAt(w)]
          BY ONLY <3>1, <3>3, SweptUnfolds
        <4>3. Looked(LookAt(w)) => Comes(LookAt(w), SweptFrom[w])
          BY ONLY <2>2, <4>1, <4>2
        <4> QED BY ONLY <2>3, <3>1, <3>3, <4>3, ComesOn
      <3> QED BY ONLY <3>1, <3>2, <3>3
    <2> QED BY ONLY <2>1, <2>3
  <1>4. \A w \in Walks : Looked(w) => Comes(w, SweptFrom[w])
    <2>1. \A i \in 0 .. MaxAggro : i \in S
      <3> HIDE DEF S
      <3> QED BY ONLY <1>0, <1>2, <1>3, Rises
    <2>2. MaxAggro \in S
      BY ONLY <1>0, <2>1
    <2> QED BY ONLY <2>2, UptoIs
  <1>5. start \in Walks /\ start.k = 1 /\ start.s = aggro
    <2>1. 1 \in 1 .. MaxAggro + 1
      BY ONLY <1>0
    <2> QED BY ONLY <2>1, aggro \in Seq(Entries), Len(aggro) <= MaxAggro DEF Walks
  <1>6. Len(aggro) \in Nat /\ DOMAIN aggro = 1 .. Len(aggro)
    OBVIOUS
  <1>7. Swept = SweptFrom[start]
    BY DEF Swept
  <1> HIDE DEF start
  <1>8. Looked(start)
    BY ONLY <1>5, <1>6 DEF Looked
  <1>9. ~TornNow => Smooth(start)
    <2>1. \A k \in 1 .. Len(aggro) : ~(k + 1 < Len(aggro)) => k + 1 >= Len(aggro)
      BY ONLY <1>6
    <2> QED BY ONLY <1>5, <1>6, <2>1 DEF TornNow, Smooth
  <1>10. Comes(start, Swept)
    BY ONLY <1>4, <1>5, <1>7, <1>8
  <1>11. Len(Swept) <= MaxAggro
    <2>1. Len(Swept) \in Nat /\ Len(Swept) <= Len(aggro)
      BY ONLY <1>5, <1>10 DEF Comes
    <2> QED BY ONLY <1>0, <1>6, <2>1, Len(aggro) <= MaxAggro
  <1> QED BY ONLY <1>5, <1>9, <1>10, <1>11 DEF Comes

\* The target is in an entry with the most damage.
LEMMA TopIs ==
    ASSUME NEW s \in Seq(Entries), s # <<>>
    PROVE  \E top \in DOMAIN s : /\ MaxAggroTarget(s) = s[top].who
                                 /\ \A j \in DOMAIN s : s[j].dmg <= s[top].dmg
  <1> DEFINE First(k) == \A j \in DOMAIN s :
                            s[j].dmg < s[k].dmg \/ (s[j].dmg = s[k].dmg /\ k <= j)
             top == CHOOSE k \in DOMAIN s : First(k)
             Below == {MaxHP - s[j].dmg : j \in DOMAIN s}
  <1>1. Len(s) \in Nat /\ Len(s) > 0 /\ DOMAIN s = 1 .. Len(s) /\ MaxHP \in Nat
    BY AggroAssumption
  <1>2. \A j \in DOMAIN s : s[j].dmg \in 0 .. MaxHP
    <2>1. \A j \in DOMAIN s : s[j] \in Entries
      BY ONLY <1>1, s \in Seq(Entries)
    <2> QED BY ONLY <2>1 DEF Entries
  <1>3. PICK k \in DOMAIN s : \A j \in DOMAIN s : s[j].dmg <= s[k].dmg
    <2>1. Below \in SUBSET Nat /\ Below # {}
      <3>1. \A j \in DOMAIN s : MaxHP - s[j].dmg \in Nat
        BY ONLY <1>1, <1>2
      <3>2. 1 \in DOMAIN s
        BY ONLY <1>1
      <3> QED BY ONLY <3>1, <3>2
    <2>2. PICK x \in Below : \A y \in Below : x <= y
      <3> HIDE DEF Below
      <3> QED BY ONLY <2>1, LeastElement
    <2>3. PICK k \in DOMAIN s : x = MaxHP - s[k].dmg
      OBVIOUS
    <2>4. \A j \in DOMAIN s : MaxHP - s[k].dmg <= MaxHP - s[j].dmg
      BY ONLY <2>2, <2>3
    <2>5. \A j \in DOMAIN s : s[j].dmg <= s[k].dmg
      BY ONLY <1>1, <1>2, <2>4
    <2> QED BY ONLY <2>5
  <1> DEFINE K == {i \in DOMAIN s : s[i].dmg = s[k].dmg}
  <1>4. PICK i \in K : \A j \in K : i <= j
    <2>1. K \in SUBSET Nat /\ K # {}
      <3>1. \A j \in DOMAIN s : j \in Nat
        BY ONLY <1>1
      <3> QED BY ONLY <3>1
    <2> HIDE DEF K
    <2> QED BY ONLY <2>1, LeastElement
  <1>5. i \in DOMAIN s /\ First(i)
    <2>1. \A j \in DOMAIN s : s[j].dmg < s[k].dmg \/ s[j].dmg = s[k].dmg
      BY ONLY <1>2, <1>3
    <2> QED BY ONLY <1>4, <2>1
  <1>6. top \in DOMAIN s /\ First(top)
    <2> HIDE DEF First
    <2> QED BY ONLY <1>5
  <1>7. MaxAggroTarget(s) = s[top].who
    BY DEF MaxAggroTarget
  <1> HIDE DEF top
  <1>8. \A j \in DOMAIN s : s[j].dmg <= s[top].dmg
    BY ONLY <1>2, <1>6
  <1> QED BY ONLY <1>6, <1>7, <1>8

\* A life is worth its HP: what everybody did and what is left of it.
AggroIInv ==
    /\ AggroTypeOK /\ AggroBacked /\ DropToAttacker
    /\ \A c \in Chars : dealt[c] + hunter.hp <= MaxHP

LEMMA TargetFrom ==
    ASSUME AggroTypeOK, AggroBacked
    PROVE  TargetIsTop
  <1> DEFINE s == Swept
  <1>1. /\ aggro \in Seq(Entries) /\ Len(aggro) <= MaxAggro
        /\ dealt \in [Chars -> 0 .. MaxHP] /\ MaxHP \in Nat
    BY AggroAssumption DEF AggroTypeOK
  <1>2. /\ s \in Seq(Entries)
        /\ \A k \in DOMAIN s : /\ Here(s[k].who)
                               /\ \E j \in DOMAIN aggro : aggro[j] = s[k]
        /\ ~TornNow /\ OnceEach(aggro) =>
             \A j \in DOMAIN aggro : Here(aggro[j].who) => \E k \in DOMAIN s : s[k] = aggro[j]
    BY ONLY <1>1, SweptIs
  <1>3. CASE s = <<>>
    BY <1>3 DEF TargetIsTop, MaxAggroTarget
  <1>4. CASE s # <<>>
    <2> HIDE DEF s
    <2>1. PICK top \in DOMAIN s : /\ MaxAggroTarget(s) = s[top].who
                                  /\ \A j \in DOMAIN s : s[j].dmg <= s[top].dmg
      BY ONLY <1>2, <1>4, TopIs
    <2> DEFINE t == s[top].who
    <2>2. /\ Here(t) /\ s[top] \in Entries /\ s[top].dmg <= dealt[t]
      <3>1. s[top] \in Entries
        BY ONLY <1>2, top \in DOMAIN s
      <3>2. PICK j \in DOMAIN aggro : aggro[j] = s[top]
        BY ONLY <1>2
      <3>3. aggro[j].dmg <= dealt[aggro[j].who]
        BY AggroBacked DEF AggroBacked
      <3> QED BY ONLY <1>2, <3>1, <3>2, <3>3
    <2>3. t \in Chars /\ s[top].dmg \in 0 .. MaxHP /\ dealt[t] \in 0 .. MaxHP
      BY ONLY <1>1, <2>2 DEF Entries
    <2>4. ASSUME ~(torn \/ TornNow), NEW c \in Chars, Here(c)
          PROVE  dealt[c] <= dealt[t]
      <3>0. dealt[c] \in 0 .. MaxHP
        BY ONLY <1>1, c \in Chars
      <3>1. CASE dealt[c] > 0
        <4>1. /\ OnceEach(aggro)
              /\ \E k \in DOMAIN aggro : aggro[k] = [who |-> c, dmg |-> dealt[c]]
          BY ONLY <2>4, <3>1, AggroBacked, c \in Chars DEF AggroBacked, OnceEach
        <4>2. PICK k \in DOMAIN aggro : aggro[k] = [who |-> c, dmg |-> dealt[c]]
          BY ONLY <4>1
        <4>3. aggro[k].who = c /\ aggro[k].dmg = dealt[c]
          BY ONLY <4>2
        <4>4. PICK i \in DOMAIN s : s[i] = aggro[k]
          BY ONLY <1>2, <2>4, <4>1, <4>3
        <4>5. s[i].dmg <= s[top].dmg
          BY ONLY <2>1
        <4> HIDE DEF t
        <4> QED BY ONLY <1>1, <2>2, <2>3, <3>0, <4>3, <4>4, <4>5
      <3>2. CASE ~(dealt[c] > 0)
        <4> HIDE DEF t
        <4> QED BY ONLY <1>1, <2>3, <3>0, <3>2
      <3> QED BY ONLY <3>1, <3>2
    <2> QED BY ONLY <2>1, <2>2, <2>4 DEF TargetIsTop, s
  <1> QED BY ONLY <1>3, <1>4

LEMMA AggroHolding ==
    ASSUME AggroIInv
    PROVE  /\ data \in Kinds /\ hunter \in Mobs
           /\ hunter.hp \in 0 .. MaxHP /\ hunter.find \in 0 .. FindCount
           /\ hunter.spawned \in BOOLEAN /\ hunter.dead \in BOOLEAN
           /\ hunter.owner \in Chars \cup {NoChar}
           /\ aggro \in Seq(Entries) /\ Len(aggro) <= MaxAggro
           /\ place \in [Chars -> {"listed", "away", "gone"}]
           /\ dealt \in [Chars -> 0 .. MaxHP]
           /\ owned \in BOOLEAN /\ torn \in BOOLEAN /\ failed = FALSE
           /\ AggroBacked /\ DropToAttacker
           /\ \A c \in Chars : dealt[c] + hunter.hp <= MaxHP
           /\ MaxHP \in Nat /\ MaxHP > 0 /\ MaxAggro \in Nat /\ MaxAggro > 0 /\ FindCount \in Nat
  <1>1. AggroTypeOK /\ MaxHP \in Nat \ {0} /\ MaxAggro \in Nat \ {0} /\ FindCount \in Nat
    BY AggroAssumption DEF AggroIInv
  <1>2. hunter \in Mobs
    BY ONLY <1>1 DEF AggroTypeOK
  <1>3. /\ hunter.hp \in 0 .. MaxHP /\ hunter.find \in 0 .. FindCount
        /\ hunter.spawned \in BOOLEAN /\ hunter.dead \in BOOLEAN
        /\ hunter.owner \in Chars \cup {NoChar}
    BY ONLY <1>2 DEF Mobs
  <1>4. MaxHP \in Nat /\ MaxHP > 0 /\ MaxAggro \in Nat /\ MaxAggro > 0 /\ FindCount \in Nat
    BY ONLY <1>1
  <1> QED BY ONLY <1>1, <1>2, <1>3, <1>4, AggroIInv DEF AggroTypeOK, AggroIInv

LEMMA AggroFirst == AggroInit => AggroIInv
  <1> SUFFICES ASSUME AggroInit PROVE AggroIInv
    OBVIOUS
  <1>1. MaxHP \in Nat /\ FindCount \in Nat /\ MaxAggro \in Nat
    BY AggroAssumption
  <1>2. hunter \in Mobs /\ hunter.hp = 0 /\ hunter.spawned = FALSE /\ hunter.dead = FALSE
    BY ONLY <1>1, AggroInit DEF AggroInit, Mobs
  <1>3. aggro \in Seq(Entries) /\ Len(aggro) = 0 /\ DOMAIN aggro = {}
    BY ONLY AggroInit DEF AggroInit
  <1>4. AggroTypeOK
    <2>1. place \in [Chars -> {"listed", "away", "gone"}]
      BY ONLY AggroInit DEF AggroInit
    <2>2. dealt \in [Chars -> 0 .. MaxHP]
      <3>1. 0 \in 0 .. MaxHP
        BY ONLY <1>1
      <3> QED BY ONLY <3>1, AggroInit DEF AggroInit
    <2>3. Len(aggro) <= MaxAggro
      BY ONLY <1>1, <1>3
    <2>4. data \in Kinds /\ owned = FALSE /\ torn = FALSE /\ failed = FALSE
      BY ONLY AggroInit DEF AggroInit
    <2> QED BY ONLY <1>2, <1>3, <2>1, <2>2, <2>3, <2>4 DEF AggroTypeOK
  <1>5. \A c \in Chars : dealt[c] = 0
    BY ONLY AggroInit DEF AggroInit
  <1>6. AggroBacked
    BY ONLY <1>3, <1>5 DEF AggroBacked
  <1>7. \A c \in Chars : dealt[c] + hunter.hp <= MaxHP
    BY ONLY <1>1, <1>2, <1>5
  <1> QED BY ONLY <1>2, <1>4, <1>6, <1>7 DEF AggroIInv, DropToAttacker

\* A hit is added to the first entry of the attacker, or gets one of its own.
LEMMA HitNoted ==
    ASSUME AggroIInv, NEW c \in Chars, NEW applied \in 0 .. hunter.hp,
           dealt' = [dealt EXCEPT ![c] = @ + applied],
           LET known == {k \in DOMAIN aggro : aggro[k].who = c}
               first == CHOOSE k \in known : \A j \in known : k <= j
           IN  /\ aggro' = IF known # {} THEN [aggro EXCEPT ![first].dmg = @ + applied]
                           ELSE IF HasRoom(aggro)
                           THEN Append(aggro, [who |-> c, dmg |-> applied])
                           ELSE aggro
               /\ torn' = (torn \/ (known = {} /\ ~HasRoom(aggro)))
    PROVE  /\ aggro' \in Seq(Entries) /\ Len(aggro') <= MaxAggro
           /\ dealt' \in [Chars -> 0 .. MaxHP] /\ AggroBacked'
           /\ \A d \in Chars : dealt'[d] + (hunter.hp - applied) <= MaxHP
           /\ torn' \in BOOLEAN
  <1> DEFINE known == {k \in DOMAIN aggro : aggro[k].who = c}
             first == CHOOSE k \in known : \A j \in known : k <= j
             n == Len(aggro)
  <1>0. /\ aggro \in Seq(Entries) /\ Len(aggro) <= MaxAggro /\ dealt \in [Chars -> 0 .. MaxHP]
        /\ torn \in BOOLEAN /\ AggroBacked /\ \A d \in Chars : dealt[d] + hunter.hp <= MaxHP
        /\ hunter.hp \in 0 .. MaxHP /\ MaxHP \in Nat /\ MaxAggro \in Nat
    BY ONLY AggroIInv, AggroHolding
  <1>1. /\ aggro' = IF known # {} THEN [aggro EXCEPT ![first].dmg = @ + applied]
                    ELSE IF n < MaxAggro THEN Append(aggro, [who |-> c, dmg |-> applied])
                    ELSE aggro
        /\ torn' = (torn \/ (known = {} /\ ~(n < MaxAggro)))
    BY DEF HasRoom
  <1>2. n \in Nat /\ DOMAIN aggro = 1 .. n /\ \A k \in 1 .. n : aggro[k] \in Entries
    BY ONLY <1>0
  <1>3. /\ \A d \in Chars : dealt[d] \in 0 .. MaxHP
        /\ dealt'[c] = dealt[c] + applied
        /\ \A d \in Chars : d # c => dealt'[d] = dealt[d]
        /\ DOMAIN dealt' = Chars /\ dealt' = [d \in Chars |-> dealt'[d]]
    BY ONLY <1>0, dealt' = [dealt EXCEPT ![c] = @ + applied], c \in Chars
  <1>4. applied \in Nat /\ applied <= hunter.hp /\ hunter.hp \in Nat
    BY ONLY <1>0, applied \in 0 .. hunter.hp
  <1>5. \A d \in Chars : /\ dealt'[d] \in 0 .. MaxHP /\ dealt[d] <= dealt'[d]
                         /\ dealt'[d] + (hunter.hp - applied) <= MaxHP
    <2>1. ASSUME NEW d \in Chars
          PROVE  /\ dealt'[d] \in 0 .. MaxHP /\ dealt[d] <= dealt'[d]
                 /\ dealt'[d] + (hunter.hp - applied) <= MaxHP
      <3> DEFINE x == dealt[d]
                 y == dealt'[d]
                 h == hunter.hp
      <3>1. x \in 0 .. MaxHP /\ x + h <= MaxHP /\ (y = x + applied \/ y = x)
        BY ONLY <1>0, <1>3
      <3> HIDE DEF x, y
      <3>2. y \in 0 .. MaxHP /\ x <= y /\ y + (h - applied) <= MaxHP
        <4> HIDE DEF h
        <4>1. h \in Nat /\ applied <= h
          BY ONLY <1>4 DEF h
        <4> QED BY ONLY <1>0, <1>4, <3>1, <4>1, SMTT(30)
      <3> QED BY ONLY <3>2 DEF x, y
    <2> QED BY ONLY <2>1
  <1>6. dealt' \in [Chars -> 0 .. MaxHP]
    BY ONLY <1>3, <1>5
  <1>7. /\ \A k \in 1 .. n : aggro[k].dmg <= dealt[aggro[k].who]
        /\ ~torn => /\ \A j, k \in 1 .. n : aggro[j].who = aggro[k].who => j = k
                    /\ \A d \in Chars : dealt[d] > 0 => \E k \in 1 .. n :
                                          aggro[k] = [who |-> d, dmg |-> dealt[d]]
    BY ONLY <1>0, <1>2 DEF AggroBacked
  <1>8. \A k \in 1 .. n : aggro[k].who \in Chars /\ aggro[k].dmg \in 0 .. MaxHP
                          /\ aggro[k] = [who |-> aggro[k].who, dmg |-> aggro[k].dmg]
    BY ONLY <1>2 DEF Entries
  <1>9. torn' \in BOOLEAN
    BY ONLY <1>0, <1>1
  <1>10. CASE known # {}
    <2>1. first \in known
      <3>1. known \in SUBSET Nat
        <4>1. \A k \in 1 .. n : k \in Nat
          BY ONLY <1>2
        <4> QED BY ONLY <1>2, <4>1
      <3>2. \E k \in known : \A j \in known : k <= j
        <4> HIDE DEF known
        <4> QED BY ONLY <1>10, <3>1, LeastElement
      <3> HIDE DEF known
      <3> QED BY ONLY <3>2
    <2> HIDE DEF first
    <2>2. first \in 1 .. n /\ aggro[first].who = c
      BY ONLY <1>2, <2>1
    <2> DEFINE e == [who |-> c, dmg |-> aggro[first].dmg + applied]
    <2>3. aggro' = [aggro EXCEPT ![first] = e]
      <3>1. aggro' = [aggro EXCEPT ![first].dmg = @ + applied]
        BY ONLY <1>1, <1>10
      <3>2. [aggro[first] EXCEPT !.dmg = @ + applied] = e
        <4> DEFINE old == aggro[first]
        <4>1. old \in [who : Chars, dmg : 0 .. MaxHP] /\ old.who = c
          BY ONLY <1>2, <2>2 DEF Entries
        <4> HIDE DEF old
        <4>2. [old EXCEPT !.dmg = @ + applied] = [who |-> c, dmg |-> old.dmg + applied]
          BY ONLY <4>1
        <4> QED BY ONLY <4>2 DEF old
      <3> HIDE DEF e
      <3> QED BY ONLY <3>1, <3>2
    <2>4. aggro[first].dmg + applied <= dealt'[c] /\ e \in Entries
      <3> DEFINE x == aggro[first].dmg
                 y == dealt[c]
                 z == dealt'[c]
      <3>1. x \in 0 .. MaxHP /\ x <= y /\ y \in 0 .. MaxHP /\ z = y + applied /\ z \in 0 .. MaxHP
        BY ONLY <1>3, <1>5, <1>7, <1>8, <2>2, c \in Chars
      <3> HIDE DEF x, y, z
      <3>2. x + applied <= z /\ x + applied \in 0 .. MaxHP
        BY ONLY <1>0, <1>4, <3>1
      <3> QED BY ONLY <3>2, c \in Chars DEF x, z, Entries
    <2> HIDE DEF e
    <2>5. /\ aggro' \in Seq(Entries) /\ Len(aggro') = n /\ DOMAIN aggro' = 1 .. n
          /\ aggro'[first] = e /\ \A k \in 1 .. n : k # first => aggro'[k] = aggro[k]
      BY ONLY <1>0, <1>2, <2>2, <2>3, <2>4
    <2>6. e.who = c /\ e.dmg = aggro[first].dmg + applied
      BY DEF e
    <2>7. \A k \in 1 .. n : aggro'[k].who = aggro[k].who
      BY ONLY <2>2, <2>5, <2>6
    <2>8. \A k \in DOMAIN aggro' : aggro'[k].dmg <= dealt'[aggro'[k].who]
      <3>1. ASSUME NEW k \in 1 .. n, k # first
            PROVE  aggro'[k].dmg <= dealt'[aggro'[k].who]
        <4> DEFINE x == aggro[k].dmg
                   y == dealt[aggro[k].who]
                   z == dealt'[aggro[k].who]
        <4>1. x \in 0 .. MaxHP /\ x <= y /\ y \in 0 .. MaxHP /\ z \in 0 .. MaxHP /\ y <= z
          BY ONLY <1>3, <1>5, <1>7, <1>8, k \in 1 .. n
        <4> HIDE DEF x, y, z
        <4>2. x <= z
          BY ONLY <1>0, <4>1
        <4> QED BY ONLY <2>5, <2>7, <3>1, <4>2 DEF x, z
      <3>2. aggro'[first].dmg <= dealt'[aggro'[first].who]
        BY ONLY <2>2, <2>4, <2>5, <2>6
      <3> QED BY ONLY <2>5, <3>1, <3>2
    <2>9. ASSUME ~torn'
          PROVE  /\ \A j, k \in DOMAIN aggro' : aggro'[j].who = aggro'[k].who => j = k
                 /\ \A d \in Chars : dealt'[d] > 0 => \E k \in DOMAIN aggro' :
                                       aggro'[k] = [who |-> d, dmg |-> dealt'[d]]
      <3>1. ~torn
        BY ONLY <1>0, <1>1, <2>9
      <3>2. \A j, k \in DOMAIN aggro' : aggro'[j].who = aggro'[k].who => j = k
        BY ONLY <1>7, <2>5, <2>7, <3>1
      <3>3. ASSUME NEW d \in Chars, dealt'[d] > 0, d # c
            PROVE  \E k \in DOMAIN aggro' : aggro'[k] = [who |-> d, dmg |-> dealt'[d]]
        <4>1. PICK k \in 1 .. n : aggro[k] = [who |-> d, dmg |-> dealt[d]]
          BY ONLY <1>3, <1>7, <3>1, <3>3
        <4>2. k # first
          BY ONLY <2>2, <3>3, <4>1
        <4> QED BY ONLY <1>3, <2>5, <3>3, <4>1, <4>2
      <3>4. \E k \in DOMAIN aggro' : aggro'[k] = [who |-> c, dmg |-> dealt'[c]]
        <4>1. aggro[first].dmg = dealt[c]
          <5>1. CASE dealt[c] > 0
            <6>1. PICK k \in 1 .. n : aggro[k] = [who |-> c, dmg |-> dealt[c]]
              BY ONLY <1>7, <3>1, <5>1, c \in Chars
            <6>2. k = first
              BY ONLY <1>7, <2>2, <3>1, <6>1
            <6> QED BY ONLY <6>1, <6>2
          <5>2. CASE ~(dealt[c] > 0)
            <6> DEFINE x == aggro[first].dmg
                       y == dealt[c]
            <6>1. x \in 0 .. MaxHP /\ y \in 0 .. MaxHP /\ x <= y /\ ~(y > 0)
              BY ONLY <1>3, <1>7, <1>8, <2>2, <5>2, c \in Chars
            <6> HIDE DEF x, y
            <6>2. x = y
              BY ONLY <1>0, <6>1
            <6> QED BY ONLY <6>2 DEF x, y
          <5> QED BY ONLY <5>1, <5>2
        <4>2. e = [who |-> c, dmg |-> dealt'[c]]
          BY ONLY <1>3, <4>1 DEF e
        <4> QED BY ONLY <2>2, <2>5, <4>2
      <3> QED BY ONLY <3>2, <3>3, <3>4
    <2>10. AggroBacked'
      BY ONLY <2>8, <2>9 DEF AggroBacked
    <2> QED BY ONLY <1>0, <1>5, <1>6, <1>9, <2>5, <2>10
  <1>11. CASE known = {} /\ n < MaxAggro
    <2> DEFINE e == [who |-> c, dmg |-> applied]
    <2>1. aggro' = Append(aggro, e) /\ torn' = torn
      BY ONLY <1>0, <1>1, <1>11
    <2>2. \A k \in 1 .. n : aggro[k].who # c
      BY ONLY <1>2, <1>11
    <2>3. e \in Entries /\ applied <= dealt'[c]
      <3> DEFINE y == dealt[c]
                 z == dealt'[c]
      <3>1. y \in 0 .. MaxHP /\ z = y + applied
        BY ONLY <1>3, c \in Chars
      <3> HIDE DEF y, z
      <3>2. applied <= z /\ applied \in 0 .. MaxHP
        BY ONLY <1>0, <1>4, <3>1
      <3> QED BY ONLY <3>2, c \in Chars DEF z, Entries
    <2>4. e.who = c /\ e.dmg = applied
      OBVIOUS
    <2> HIDE DEF e
    <2>5. /\ aggro' \in Seq(Entries) /\ Len(aggro') = n + 1 /\ DOMAIN aggro' = 1 .. n + 1
          /\ aggro'[n + 1] = e /\ \A k \in 1 .. n : aggro'[k] = aggro[k]
      BY ONLY <1>0, <1>2, <2>1, <2>3
    <2>6. \A k \in 1 .. n + 1 : k = n + 1 \/ k \in 1 .. n
      BY ONLY <1>2
    <2>7. 1 .. n \subseteq 1 .. n + 1 /\ n + 1 \in 1 .. n + 1
      BY ONLY <1>2
    <2>8. \A k \in DOMAIN aggro' : aggro'[k].dmg <= dealt'[aggro'[k].who]
      <3>1. ASSUME NEW k \in 1 .. n
            PROVE  aggro'[k].dmg <= dealt'[aggro'[k].who]
        <4>1. aggro[k].who \in Chars /\ aggro[k].who # c
          BY ONLY <1>8, <2>2, k \in 1 .. n
        <4>2. aggro[k].dmg <= dealt[aggro[k].who]
          BY ONLY <1>7, k \in 1 .. n
        <4> QED BY ONLY <1>3, <2>5, <4>1, <4>2
      <3>2. aggro'[n + 1].dmg <= dealt'[aggro'[n + 1].who]
        BY ONLY <2>3, <2>4, <2>5
      <3> QED BY ONLY <2>5, <2>6, <3>1, <3>2
    <2>9. ASSUME ~torn'
          PROVE  /\ \A j, k \in DOMAIN aggro' : aggro'[j].who = aggro'[k].who => j = k
                 /\ \A d \in Chars : dealt'[d] > 0 => \E k \in DOMAIN aggro' :
                                       aggro'[k] = [who |-> d, dmg |-> dealt'[d]]
      <3>1. ~torn
        BY ONLY <2>1, <2>9
      <3>2. \A j, k \in DOMAIN aggro' : aggro'[j].who = aggro'[k].who => j = k
        BY ONLY <1>7, <2>2, <2>4, <2>5, <2>6, <3>1
      <3>3. ASSUME NEW d \in Chars, dealt'[d] > 0, d # c
            PROVE  \E k \in DOMAIN aggro' : aggro'[k] = [who |-> d, dmg |-> dealt'[d]]
        <4>1. PICK k \in 1 .. n : aggro[k] = [who |-> d, dmg |-> dealt[d]]
          BY ONLY <1>3, <1>7, <3>1, <3>3
        <4> QED BY ONLY <1>3, <2>5, <2>7, <3>3, <4>1
      <3>4. \E k \in DOMAIN aggro' : aggro'[k] = [who |-> c, dmg |-> dealt'[c]]
        <4>1. dealt[c] = 0
          <5>1. ~(dealt[c] > 0)
            <6>1. \A k \in 1 .. n : aggro[k] # [who |-> c, dmg |-> dealt[c]]
              BY ONLY <2>2
            <6> QED BY ONLY <1>7, <3>1, <6>1, c \in Chars
          <5>2. dealt[c] \in 0 .. MaxHP
            BY ONLY <1>3, c \in Chars
          <5> QED BY ONLY <1>0, <5>1, <5>2
        <4>2. dealt'[c] = applied
          BY ONLY <1>3, <1>4, <4>1
        <4>3. e = [who |-> c, dmg |-> dealt'[c]]
          BY ONLY <4>2 DEF e
        <4> QED BY ONLY <2>5, <2>7, <4>3
      <3> QED BY ONLY <3>2, <3>3, <3>4
    <2>10. AggroBacked'
      BY ONLY <2>8, <2>9 DEF AggroBacked
    <2>11. Len(aggro') <= MaxAggro
      BY ONLY <1>0, <1>2, <1>11, <2>5
    <2> QED BY ONLY <1>5, <1>6, <1>9, <2>5, <2>10, <2>11
  <1>12. CASE known = {} /\ ~(n < MaxAggro)
    <2>1. aggro' = aggro /\ torn'
      BY ONLY <1>1, <1>12
    <2>2. \A k \in 1 .. n : aggro[k].who \in Chars /\ aggro[k].who # c
      BY ONLY <1>2, <1>8, <1>12
    <2>3. \A k \in DOMAIN aggro' : aggro'[k].dmg <= dealt'[aggro'[k].who]
      BY ONLY <1>2, <1>3, <1>7, <2>1, <2>2
    <2>4. AggroBacked'
      BY ONLY <2>1, <2>3 DEF AggroBacked
    <2> QED BY ONLY <1>0, <1>5, <1>6, <1>9, <2>1, <2>4
  <1> QED BY ONLY <1>10, <1>11, <1>12

\* The parts of the invariant, one by one.
LEMMA AggroAgain ==
    ASSUME data' \in Kinds, hunter' \in Mobs,
           aggro' \in Seq(Entries), Len(aggro') <= MaxAggro,
           place' \in [Chars -> {"listed", "away", "gone"}],
           dealt' \in [Chars -> 0 .. MaxHP],
           owned' \in BOOLEAN, torn' \in BOOLEAN, failed' = FALSE,
           AggroBacked', DropToAttacker', \A c \in Chars : dealt'[c] + hunter'.hp <= MaxHP
    PROVE  AggroIInv'
  <1>1. AggroTypeOK'
    BY DEF AggroTypeOK
  <1> QED BY <1>1 DEF AggroIInv

\* Nothing about the list and the damage changes, nor the HP.
LEMMA AggroStill ==
    ASSUME AggroIInv, UNCHANGED <<data, aggro, dealt, owned, torn, failed>>,
           hunter' \in Mobs, hunter'.hp = hunter.hp, hunter'.owner = hunter.owner,
           hunter.hp = 0 /\ (hunter'.spawned \/ hunter'.dead) => hunter.spawned \/ hunter.dead,
           place' \in [Chars -> {"listed", "away", "gone"}]
    PROVE  AggroIInv'
  <1>1. /\ data \in Kinds /\ aggro \in Seq(Entries) /\ Len(aggro) <= MaxAggro
        /\ dealt \in [Chars -> 0 .. MaxHP] /\ owned \in BOOLEAN /\ torn \in BOOLEAN
        /\ failed = FALSE /\ AggroBacked /\ DropToAttacker
        /\ \A c \in Chars : dealt[c] + hunter.hp <= MaxHP
    BY ONLY AggroIInv, AggroHolding
  <1>2. AggroBacked'
    BY <1>1 DEF AggroBacked
  <1>3. DropToAttacker'
    BY <1>1 DEF DropToAttacker
  <1>4. \A c \in Chars : dealt'[c] + hunter'.hp <= MaxHP
    BY <1>1
  <1> QED BY <1>1, <1>2, <1>3, <1>4, AggroAgain

LEMMA AttackKept ==
    ASSUME AggroIInv, NEW c \in Chars, NEW hit \in BOOLEAN, NEW total \in 0 .. MaxHP,
           Attack(c, hit, total)
    PROVE  AggroIInv'
  <1> DEFINE h == hunter.hp
             applied == IF hit THEN IF total < h THEN total ELSE h ELSE 0
             kills == hit /\ h - total <= 0
  <1>1. /\ data \in Kinds /\ hunter \in Mobs /\ h \in 0 .. MaxHP /\ MaxHP \in Nat
        /\ hunter.owner \in Chars \cup {NoChar} /\ DropToAttacker
        /\ place \in [Chars -> {"listed", "away", "gone"}]
        /\ owned \in BOOLEAN /\ failed = FALSE
    BY ONLY AggroIInv, AggroHolding
  <1>2. /\ hunter' = [hunter EXCEPT !.hp = @ - applied, !.moving = FALSE,
                                    !.owner = IF kills THEN c ELSE @]
        /\ dealt' = [dealt EXCEPT ![c] = @ + applied]
        /\ owned' = (owned \/ kills)
        /\ data' = data /\ place' = place /\ failed' = failed
    BY ONLY Attack(c, hit, total) DEF Attack, Kills, h, applied, kills
  <1>3. applied \in 0 .. h /\ h - applied \in 0 .. MaxHP
    <2> HIDE DEF h
    <2> QED BY ONLY <1>1, total \in 0 .. MaxHP, hit \in BOOLEAN
  <1>4. h - applied = 0 => h = 0 \/ kills
    <2> HIDE DEF h
    <2> QED BY ONLY <1>1, total \in 0 .. MaxHP, hit \in BOOLEAN
  <1>5. /\ aggro' \in Seq(Entries) /\ Len(aggro') <= MaxAggro
        /\ dealt' \in [Chars -> 0 .. MaxHP] /\ AggroBacked'
        /\ \A d \in Chars : dealt'[d] + (h - applied) <= MaxHP
        /\ torn' \in BOOLEAN
    <2>1. applied \in 0 .. hunter.hp
      BY ONLY <1>3 DEF h
    <2>2. LET known == {k \in DOMAIN aggro : aggro[k].who = c}
              first == CHOOSE k \in known : \A j \in known : k <= j
          IN  /\ aggro' = IF known # {} THEN [aggro EXCEPT ![first].dmg = @ + applied]
                          ELSE IF HasRoom(aggro)
                          THEN Append(aggro, [who |-> c, dmg |-> applied])
                          ELSE aggro
              /\ torn' = (torn \/ (known = {} /\ ~HasRoom(aggro)))
      BY ONLY Attack(c, hit, total) DEF Attack, h, applied
    <2>3. dealt' = [dealt EXCEPT ![c] = @ + applied]
      BY ONLY <1>2
    <2> HIDE DEF applied
    <2> QED BY ONLY AggroIInv, c \in Chars, <2>1, <2>2, <2>3, HitNoted DEF h
  <1> HIDE DEF applied, kills
  <1>6. /\ hunter' \in Mobs /\ hunter'.hp = h - applied
        /\ hunter'.owner = (IF kills THEN c ELSE hunter.owner)
        /\ hunter'.spawned = hunter.spawned /\ hunter'.dead = hunter.dead
    <2> DEFINE o == IF kills THEN c ELSE hunter.owner
               left == h - applied
    <2>1. hunter' = [hunter EXCEPT !.hp = left, !.moving = FALSE, !.owner = o]
      BY ONLY <1>2 DEF h
    <2>2. o \in Chars \cup {NoChar} /\ left \in 0 .. MaxHP
      BY ONLY <1>1, <1>3, c \in Chars
    <2> HIDE DEF o, left
    <2>3. hunter' \in Mobs /\ hunter'.hp = left /\ hunter'.owner = o
          /\ hunter'.spawned = hunter.spawned /\ hunter'.dead = hunter.dead
      BY ONLY <1>1, <2>1, <2>2 DEF Mobs
    <2> QED BY ONLY <2>3 DEF o, left
  <1>7. DropToAttacker'
    <2>1. c # NoChar
      BY ONLY c \in Chars, AggroAssumption
    <2>2. CASE kills
      BY ONLY <1>2, <1>6, <2>1, <2>2 DEF DropToAttacker
    <2>3. CASE ~kills
      <3>1. hunter'.hp = 0 => h = 0
        BY ONLY <1>4, <1>6, <2>3
      <3> QED BY ONLY <1>1, <1>2, <1>6, <2>3, <3>1 DEF DropToAttacker, h
    <2> QED BY ONLY <2>2, <2>3
  <1>8. owned' \in BOOLEAN
    BY ONLY <1>2
  <1> QED BY ONLY <1>1, <1>2, <1>5, <1>6, <1>7, <1>8, AggroAgain

LEMMA TravelKept ==
    ASSUME AggroIInv, NEW c \in Chars, Travel(c)
    PROVE  AggroIInv'
  <1>1. hunter \in Mobs /\ place \in [Chars -> {"listed", "away", "gone"}]
    BY ONLY AggroIInv, AggroHolding
  <1>2. place' \in [Chars -> {"listed", "away", "gone"}]
    BY ONLY <1>1, Travel(c) DEF Travel
  <1> QED BY <1>1, <1>2, AggroStill DEF Travel

LEMMA TimeKept ==
    ASSUME AggroIInv, TimePasses
    PROVE  AggroIInv'
  <1>1. hunter \in Mobs /\ place \in [Chars -> {"listed", "away", "gone"}]
    BY ONLY AggroIInv, AggroHolding
  <1>2. /\ hunter' \in Mobs /\ hunter'.hp = hunter.hp /\ hunter'.owner = hunter.owner
        /\ hunter'.spawned = hunter.spawned /\ hunter'.dead = hunter.dead
    BY ONLY <1>1, TimePasses DEF TimePasses, Mobs
  <1> QED BY <1>1, <1>2, AggroStill DEF TimePasses

LEMMA DespawnKept ==
    ASSUME AggroIInv, Despawn
    PROVE  AggroIInv'
  <1>1. hunter \in Mobs /\ place \in [Chars -> {"listed", "away", "gone"}]
    BY ONLY AggroIInv, AggroHolding
  <1>2. hunter' \in Mobs /\ hunter'.hp = hunter.hp /\ hunter'.owner = hunter.owner
    BY ONLY <1>1, Despawn DEF Despawn, Mobs
  <1> QED BY <1>1, <1>2, AggroStill DEF Despawn

LEMMA SpawnKept ==
    ASSUME AggroIInv, SpawnAgain
    PROVE  AggroIInv'
  <1>1. /\ hunter \in Mobs /\ place \in [Chars -> {"listed", "away", "gone"}] /\ data \in Kinds
        /\ failed = FALSE /\ MaxHP \in Nat /\ MaxHP > 0 /\ MaxAggro \in Nat
    BY ONLY AggroIInv, AggroHolding
  <1>2. hunter' \in Mobs /\ hunter'.hp = MaxHP
    <2>1. MaxHP \in 0 .. MaxHP
      BY ONLY <1>1
    <2> QED BY ONLY <1>1, <2>1, SpawnAgain DEF SpawnAgain, Mobs
  <1>3. /\ aggro' \in Seq(Entries) /\ Len(aggro') = 0 /\ DOMAIN aggro' = {}
        /\ owned' = FALSE /\ torn' = FALSE /\ dealt' = [c \in Chars |-> 0]
        /\ data' = data /\ place' = place /\ failed' = failed
    BY ONLY SpawnAgain DEF SpawnAgain
  <1>4. \A c \in Chars : dealt'[c] = 0
    BY ONLY <1>3
  <1>5. dealt' \in [Chars -> 0 .. MaxHP]
    <2>1. 0 \in 0 .. MaxHP
      BY ONLY <1>1
    <2> QED BY ONLY <1>3, <2>1
  <1>6. AggroBacked'
    BY ONLY <1>3, <1>4 DEF AggroBacked
  <1>7. DropToAttacker'
    BY ONLY <1>1, <1>2 DEF DropToAttacker
  <1>8. Len(aggro') <= MaxAggro
    BY ONLY <1>1, <1>3
  <1>9. \A c \in Chars : dealt'[c] + hunter'.hp <= MaxHP
    BY ONLY <1>1, <1>2, <1>4
  <1> QED BY ONLY <1>1, <1>2, <1>3, <1>5, <1>6, <1>7, <1>8, <1>9, AggroAgain

LEMMA WalkKept ==
    ASSUME AggroIInv, WalkOn
    PROVE  AggroIInv'
  <1>1. hunter \in Mobs /\ place \in [Chars -> {"listed", "away", "gone"}]
    BY ONLY AggroIInv, AggroHolding
  <1>2. PICK more \in BOOLEAN : hunter' = [hunter EXCEPT !.moving = more, !.wait = TRUE]
    BY ONLY WalkOn DEF WalkOn
  <1>3. /\ hunter' \in Mobs /\ hunter'.hp = hunter.hp /\ hunter'.owner = hunter.owner
        /\ hunter'.spawned = hunter.spawned /\ hunter'.dead = hunter.dead
    BY ONLY <1>1, <1>2, more \in BOOLEAN DEF Mobs
  <1> QED BY <1>1, <1>3, AggroStill DEF WalkOn

\* Whoever is taken out is forgotten, and the others are still one for each.
LEMMA SweepKept ==
    ASSUME AggroIInv, Sweep(Swept), aggro' = Swept
    PROVE  /\ aggro' \in Seq(Entries) /\ Len(aggro') <= MaxAggro
           /\ dealt' \in [Chars -> 0 .. MaxHP] /\ torn' \in BOOLEAN /\ AggroBacked'
           /\ \A c \in Chars : dealt'[c] + hunter.hp <= MaxHP
  <1> DEFINE s == Swept
             Remains(c) == \E k \in DOMAIN s : s[k].who = c
  <1>1. /\ aggro \in Seq(Entries) /\ Len(aggro) <= MaxAggro /\ dealt \in [Chars -> 0 .. MaxHP]
        /\ torn \in BOOLEAN /\ AggroBacked /\ \A c \in Chars : dealt[c] + hunter.hp <= MaxHP
        /\ hunter.hp \in 0 .. MaxHP /\ MaxHP \in Nat
    BY ONLY AggroIInv, AggroHolding
  <1>2. /\ s \in Seq(Entries) /\ Len(s) <= MaxAggro
        /\ \A k \in DOMAIN s : /\ Here(s[k].who)
                               /\ \E j \in DOMAIN aggro : aggro[j] = s[k]
        /\ ~TornNow /\ OnceEach(aggro) =>
             /\ OnceEach(s)
             /\ \A j \in DOMAIN aggro : Here(aggro[j].who) => \E k \in DOMAIN s : s[k] = aggro[j]
    BY ONLY <1>1, SweptIs
  <1>3. /\ dealt' = [c \in Chars |-> IF Remains(c) THEN dealt[c] ELSE 0]
        /\ torn' = (torn \/ TornNow) /\ aggro' = s
    BY ONLY Sweep(Swept), aggro' = Swept DEF Sweep, s, Remains
  <1> HIDE DEF s
  <1>4. \A c \in Chars : dealt'[c] = IF Remains(c) THEN dealt[c] ELSE 0
    BY ONLY <1>3
  <1>5. \A c \in Chars : dealt'[c] \in 0 .. MaxHP /\ dealt'[c] + hunter.hp <= MaxHP
    <2> HIDE DEF Remains
    <2>1. ASSUME NEW c \in Chars
          PROVE  dealt'[c] \in 0 .. MaxHP /\ dealt'[c] + hunter.hp <= MaxHP
      <3> DEFINE h == hunter.hp
                 x == dealt[c]
                 y == dealt'[c]
      <3>1. x \in 0 .. MaxHP /\ x + h <= MaxHP /\ (y = x \/ y = 0) /\ h \in 0 .. MaxHP
        BY ONLY <1>1, <1>4, c \in Chars
      <3> HIDE DEF h, x, y
      <3>2. y \in 0 .. MaxHP /\ y + h <= MaxHP
        BY ONLY <1>1, <3>1
      <3> QED BY ONLY <3>2 DEF h, y
    <2> QED BY ONLY <2>1
  <1>6. dealt' \in [Chars -> 0 .. MaxHP]
    <2> HIDE DEF Remains
    <2>1. dealt' = [c \in Chars |-> dealt'[c]]
      BY ONLY <1>3
    <2> QED BY ONLY <1>5, <2>1
  <1>7. \A k \in DOMAIN s : s[k].who \in Chars
    <2>1. \A k \in DOMAIN s : s[k] \in Entries
      BY ONLY <1>2
    <2> QED BY ONLY <2>1 DEF Entries
  <1>8. \A k \in DOMAIN s : s[k].dmg <= dealt'[s[k].who]
    <2>1. ASSUME NEW k \in DOMAIN s
          PROVE  s[k].dmg <= dealt'[s[k].who]
      <3>1. dealt'[s[k].who] = dealt[s[k].who]
        BY ONLY <1>4, <1>7, k \in DOMAIN s
      <3>2. PICK j \in DOMAIN aggro : aggro[j] = s[k]
        BY ONLY <1>2, k \in DOMAIN s
      <3>3. aggro[j].dmg <= dealt[aggro[j].who]
        BY ONLY <1>1, j \in DOMAIN aggro DEF AggroBacked
      <3> QED BY ONLY <3>1, <3>2, <3>3
    <2> QED BY ONLY <2>1
  <1>9. ASSUME ~torn'
        PROVE  /\ OnceEach(s)
               /\ \A c \in Chars : dealt'[c] > 0 => \E k \in DOMAIN s :
                                      s[k] = [who |-> c, dmg |-> dealt'[c]]
    <2>1. /\ OnceEach(aggro)
          /\ \A c \in Chars : dealt[c] > 0 => \E k \in DOMAIN aggro :
                                 aggro[k] = [who |-> c, dmg |-> dealt[c]]
      BY ONLY <1>1, <1>3, <1>9 DEF AggroBacked, OnceEach
    <2>2. /\ OnceEach(s)
          /\ \A j \in DOMAIN aggro : Here(aggro[j].who) => \E k \in DOMAIN s : s[k] = aggro[j]
      BY ONLY <1>2, <1>3, <1>9, <2>1
    <2>3. ASSUME NEW c \in Chars, dealt'[c] > 0
          PROVE  \E k \in DOMAIN s : s[k] = [who |-> c, dmg |-> dealt'[c]]
      <3>1. Remains(c)
        <4> HIDE DEF Remains
        <4> QED BY ONLY <1>4, <2>3, c \in Chars
      <3>2. dealt'[c] = dealt[c]
        BY ONLY <1>4, <3>1, c \in Chars
      <3>3. Here(c)
        BY ONLY <1>2, <3>1
      <3>4. PICK j \in DOMAIN aggro : aggro[j] = [who |-> c, dmg |-> dealt[c]]
        BY ONLY <2>1, <2>3, <3>2, c \in Chars
      <3>5. aggro[j].who = c
        BY ONLY <3>4
      <3> QED BY ONLY <2>2, <3>2, <3>3, <3>4, <3>5
    <2> QED BY ONLY <2>2, <2>3
  <1>10. AggroBacked'
    BY ONLY <1>3, <1>8, <1>9 DEF AggroBacked, OnceEach
  <1> QED BY ONLY <1>1, <1>2, <1>3, <1>5, <1>6, <1>10

\* A mob that lives goes on with its life.
LEMMA LivesOn ==
    ASSUME IsAlive, hunter \in Mobs, hunter'.hp = hunter.hp
    PROVE  DropToAttacker'
  BY DEF IsAlive, DropToAttacker, Mobs

LEMMA FindKept ==
    ASSUME AggroIInv, Find
    PROVE  AggroIInv'
  <1>1. /\ hunter \in Mobs /\ hunter.find \in 0 .. FindCount /\ FindCount \in Nat
        /\ place \in [Chars -> {"listed", "away", "gone"}] /\ data \in Kinds
        /\ hunter.hp \in 0 .. MaxHP /\ MaxHP \in Nat /\ MaxAggro \in Nat /\ MaxAggro > 0
        /\ owned \in BOOLEAN /\ failed = FALSE
    BY ONLY AggroIInv, AggroHolding
  <1>2. /\ IsAlive /\ hunter.find > 0 /\ Swept = <<>> /\ Sweep(<<>>)
        /\ data' = data /\ place' = place /\ owned' = owned
    BY ONLY Find DEF Find
  <1>3. CASE aggro' = <<>> /\ hunter' = [hunter EXCEPT !.find = @ - 1, !.wait = TRUE]
             /\ failed' = failed
    <2>1. /\ aggro' \in Seq(Entries) /\ Len(aggro') <= MaxAggro
          /\ dealt' \in [Chars -> 0 .. MaxHP] /\ torn' \in BOOLEAN /\ AggroBacked'
          /\ \A c \in Chars : dealt'[c] + hunter.hp <= MaxHP
      BY ONLY AggroIInv, <1>2, <1>3, SweepKept
    <2> DEFINE f == hunter.find - 1
    <2>2. f \in 0 .. FindCount
      <3> DEFINE g == hunter.find
      <3> HIDE DEF g
      <3>1. g \in 0 .. FindCount /\ g > 0
        BY ONLY <1>1, <1>2 DEF g
      <3>2. g - 1 \in 0 .. FindCount
        BY ONLY <1>1, <3>1
      <3> QED BY ONLY <3>2 DEF g
    <2>3. hunter' = [hunter EXCEPT !.find = f, !.wait = TRUE]
      BY ONLY <1>3 DEF f
    <2> HIDE DEF f
    <2>4. hunter' \in Mobs /\ hunter'.hp = hunter.hp
      BY ONLY <1>1, <2>2, <2>3 DEF Mobs
    <2>5. DropToAttacker'
      BY ONLY <1>1, <1>2, <2>4, LivesOn
    <2> QED BY ONLY <1>1, <1>2, <1>3, <2>1, <2>4, <2>5, AggroAgain
  <1>4. ASSUME NEW c \in Chars, aggro' = <<[who |-> c, dmg |-> 0]>>,
               failed' = ~HasRoom(Swept), hunter' = [hunter EXCEPT !.find = FindCount]
        PROVE  AggroIInv'
    <2> DEFINE e == [who |-> c, dmg |-> 0]
    <2>1. \A d \in Chars : dealt'[d] = 0
      BY ONLY <1>2 DEF Sweep
    <2>2. dealt' \in [Chars -> 0 .. MaxHP]
      <3>1. 0 \in 0 .. MaxHP
        BY ONLY <1>1
      <3>2. dealt' = [d \in Chars |-> dealt'[d]]
        BY ONLY <1>2 DEF Sweep
      <3> QED BY ONLY <2>1, <3>1, <3>2
    <2>3. e \in Entries /\ e.who = c /\ e.dmg = 0
      BY ONLY <1>1, c \in Chars DEF Entries
    <2> HIDE DEF e
    <2>4. /\ aggro' \in Seq(Entries) /\ Len(aggro') = 1 /\ DOMAIN aggro' = {1}
          /\ aggro'[1] = e
      <3>1. aggro' = <<e>>
        BY ONLY <1>4 DEF e
      <3> QED BY ONLY <2>3, <3>1
    <2>5. Len(aggro') <= MaxAggro
      BY ONLY <1>1, <2>4
    <2>6. AggroBacked'
      <3>1. \A k \in DOMAIN aggro' : aggro'[k].dmg <= dealt'[aggro'[k].who]
        BY ONLY <2>1, <2>3, <2>4, c \in Chars
      <3>2. \A j, k \in DOMAIN aggro' : j = k
        BY ONLY <2>4
      <3> QED BY ONLY <2>1, <3>1, <3>2 DEF AggroBacked
    <2>7. torn' \in BOOLEAN /\ failed' = FALSE
      <3>1. failed' = FALSE
        <4>1. Len(Swept) = 0
          BY ONLY <1>2
        <4>2. HasRoom(Swept)
          BY ONLY <1>1, <4>1 DEF HasRoom
        <4> QED BY ONLY <1>4, <4>2
      <3>2. torn' \in BOOLEAN
        BY ONLY <1>2 DEF Sweep
      <3> QED BY ONLY <3>1, <3>2
    <2>8. hunter' \in Mobs /\ hunter'.hp = hunter.hp
      <3>1. FindCount \in 0 .. FindCount
        BY ONLY <1>1
      <3> QED BY ONLY <1>1, <1>4, <3>1 DEF Mobs
    <2>9. DropToAttacker'
      BY ONLY <1>1, <1>2, <2>8, LivesOn
    <2>10. \A d \in Chars : dealt'[d] + hunter'.hp <= MaxHP
      BY ONLY <1>1, <2>1, <2>8
    <2> QED BY ONLY <1>1, <1>2, <2>2, <2>4, <2>5, <2>6, <2>7, <2>8, <2>9, <2>10, AggroAgain
  <1> QED BY ONLY <1>3, <1>4, Find DEF Find

LEMMA HuntKept ==
    ASSUME AggroIInv, Hunt
    PROVE  AggroIInv'
  <1>1. /\ hunter \in Mobs /\ FindCount \in Nat
        /\ place \in [Chars -> {"listed", "away", "gone"}] /\ data \in Kinds
        /\ owned \in BOOLEAN /\ failed = FALSE
    BY ONLY AggroIInv, AggroHolding
  <1>2. /\ IsAlive /\ Sweep(Swept) /\ aggro' = Swept
        /\ data' = data /\ place' = place /\ owned' = owned /\ failed' = failed
    BY ONLY Hunt DEF Hunt
  <1>3. \/ hunter' = [hunter EXCEPT !.wait = TRUE]
        \/ hunter' = [hunter EXCEPT !.moving = TRUE, !.wait = TRUE]
        \/ hunter' = hunter
        \/ hunter' = [hunter EXCEPT !.find = FindCount]
    BY ONLY Hunt DEF Hunt
  <1>4. hunter' \in Mobs /\ hunter'.hp = hunter.hp
    <2>1. FindCount \in 0 .. FindCount
      BY ONLY <1>1
    <2>2. CASE hunter' = hunter \/ hunter' = [hunter EXCEPT !.find = FindCount]
      BY ONLY <1>1, <2>1, <2>2 DEF Mobs
    <2>3. CASE \/ hunter' = [hunter EXCEPT !.wait = TRUE]
               \/ hunter' = [hunter EXCEPT !.moving = TRUE, !.wait = TRUE]
      BY ONLY <1>1, <2>3 DEF Mobs
    <2> QED BY ONLY <1>3, <2>2, <2>3
  <1>5. /\ aggro' \in Seq(Entries) /\ Len(aggro') <= MaxAggro
        /\ dealt' \in [Chars -> 0 .. MaxHP] /\ torn' \in BOOLEAN /\ AggroBacked'
        /\ \A c \in Chars : dealt'[c] + hunter.hp <= MaxHP
    BY ONLY AggroIInv, <1>2, SweepKept
  <1>6. DropToAttacker'
    BY ONLY <1>1, <1>2, <1>4, LivesOn
  <1> QED BY ONLY <1>1, <1>2, <1>4, <1>5, <1>6, AggroAgain

LEMMA AggroKept ==
    ASSUME AggroIInv, [AggroNext]_aggroVars
    PROVE  AggroIInv'
  <1>1. CASE UNCHANGED aggroVars
    <2>1. AggroTypeOK' /\ AggroBacked' /\ DropToAttacker'
      BY ONLY AggroIInv, <1>1 DEF AggroIInv, aggroVars, AggroTypeOK, AggroBacked, DropToAttacker
    <2>2. \A c \in Chars : dealt'[c] + hunter'.hp <= MaxHP
      BY ONLY AggroIInv, <1>1 DEF AggroIInv, aggroVars
    <2> QED BY ONLY <2>1, <2>2 DEF AggroIInv
  <1>2. ASSUME NEW c \in Chars, NEW total \in 0 .. MaxHP, Attack(c, TRUE, total)
        PROVE  AggroIInv'
    BY ONLY AggroIInv, <1>2, c \in Chars, total \in 0 .. MaxHP, AttackKept
  <1>3. ASSUME NEW c \in Chars, Attack(c, FALSE, 0)
        PROVE  AggroIInv'
    <2>1. 0 \in 0 .. MaxHP
      BY AggroAssumption
    <2> QED BY ONLY AggroIInv, <1>3, <2>1, c \in Chars, AttackKept
  <1>4. ASSUME NEW c \in Chars, Travel(c)
        PROVE  AggroIInv'
    BY ONLY AggroIInv, <1>4, c \in Chars, TravelKept
  <1>5. CASE TimePasses
    BY ONLY AggroIInv, <1>5, TimeKept
  <1>6. CASE Despawn
    BY ONLY AggroIInv, <1>6, DespawnKept
  <1>7. CASE SpawnAgain
    BY ONLY AggroIInv, <1>7, SpawnKept
  <1>8. CASE WalkOn
    BY ONLY AggroIInv, <1>8, WalkKept
  <1>9. CASE Find
    BY ONLY AggroIInv, <1>9, FindKept
  <1>10. CASE Hunt
    BY ONLY AggroIInv, <1>10, HuntKept
  <1> QED BY ONLY <1>1, <1>2, <1>3, <1>4, <1>5, <1>6, <1>7, <1>8, <1>9, <1>10,
                  [AggroNext]_aggroVars DEF AggroNext, Update

\* AggroInv holds whatever the characters, the size of the list and the mob:
\* what Mob->Aggro credits an attacker with was done in this life, whoever the
\* mob would hunt did the most of those it could, and the drop of a dead mob is
\* for a character that attacked it in the life that ended.
THEOREM AggroHolds == AggroSpec => []AggroInv
  <1>1. AggroIInv => AggroInv
    BY TargetFrom DEF AggroIInv, AggroInv
  <1>2. AggroIInv /\ [AggroNext]_aggroVars => AggroIInv'
    BY AggroKept
  <1> QED BY <1>1, <1>2, AggroFirst, PTL DEF AggroSpec
=============================================================================
