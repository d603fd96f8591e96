------------------------- MODULE ItemStorageProofs -------------------------
(***************************************************************************)
(* Proofs about ItemStorage for inventories, requests, stacks and prices   *)
(* of any size: the lists stay sorted, nothing exists twice, nobody gets   *)
(* richer, and what is not marked is stored.                               *)
(***************************************************************************)
EXTENDS ItemStorage, RunLemmas

-----------------------------------------------------------------------------
(* Entries name a slot by an integer, and have a count.                    *)

Entries == [at : Int, kind : Kinds, level : Nat, n : Int]

SlotLists == {list \in Seq(Entries) : Ascending(list)}

-----------------------------------------------------------------------------
(* Where an entry is, and where a new one goes.                            *)

LEMMA ListType ==
    ASSUME NEW list \in SlotLists
    PROVE  /\ Len(list) \in Nat
           /\ DOMAIN list = 1 .. Len(list)
           /\ \A k \in 1 .. Len(list) : list[k] \in Entries
           /\ \A k \in 1 .. Len(list) : list[k].at \in Int
  <1>1. list \in Seq(Entries)
    BY DEF SlotLists
  <1>2. \A e \in Entries : e.at \in Int
    BY DEF Entries
  <1> QED BY <1>1, <1>2

LEMMA PositionIs ==
    ASSUME NEW list \in SlotLists, NEW s, Holds(list, s)
    PROVE  /\ Position(list, s) \in 1 .. Len(list)
           /\ list[Position(list, s)].at = s
           /\ \A i \in 1 .. Len(list) :
                 list[i].at = s => i = Position(list, s)
  <1>1. Positions(list, s) \in SUBSET Nat /\ Positions(list, s) # {}
    BY DEF Positions, Holds, SlotLists
  <1>2. \E i \in Positions(list, s) : \A j \in Positions(list, s) : i <= j
    BY <1>1, LeastElement
  <1>3. Position(list, s) \in Positions(list, s)
    BY <1>2 DEF Position
  <1>4. \A i \in DOMAIN list : list[i].at = s => i = Position(list, s)
    BY <1>3, ListType DEF Positions, SlotLists, Ascending
  <1> QED BY <1>3, <1>4 DEF Positions, SlotLists

LEMMA InsertionIndexIs ==
    ASSUME NEW list \in SlotLists, NEW s \in Int
    PROVE  /\ InsertionIndex(list, s) \in 1 .. Len(list) + 1
           /\ \A j \in 1 .. InsertionIndex(list, s) - 1 : list[j].at <= s
           /\ \A j \in InsertionIndex(list, s) .. Len(list) : list[j].at > s
  <1> DEFINE Behind == {i \in 1 .. Len(list) : list[i].at > s}
             Right(i) == /\ \A j \in 1 .. i - 1 : list[j].at <= s
                         /\ i <= Len(list) => list[i].at > s
  <1>1. /\ Len(list) \in Nat
        /\ DOMAIN list = 1 .. Len(list)
        /\ \A i \in 1 .. Len(list) : list[i].at \in Int
    BY ListType
  <1>2. \E i \in 1 .. Len(list) + 1 : Right(i)
    <2>1. CASE Behind = {}
      <3>1. Right(Len(list) + 1)
        BY <1>1, <2>1
      <3> QED BY <1>1, <3>1
    <2>2. CASE Behind # {}
      <3>1. PICK i \in Behind : \A j \in Behind : i <= j
        <4>1. Behind \in SUBSET Nat
          BY <1>1
        <4> HIDE DEF Behind
        <4> QED BY <4>1, <2>2, LeastElement
      <3>2. Right(i)
        BY <1>1, <3>1
      <3>3. i \in 1 .. Len(list) + 1
        BY <1>1
      <3> HIDE DEF Right, Behind
      <3> QED BY <3>2, <3>3
    <2> QED BY <2>1, <2>2
  <1>3. /\ InsertionIndex(list, s) \in 1 .. Len(list) + 1
        /\ Right(InsertionIndex(list, s))
    BY <1>2 DEF InsertionIndex
  <1>4. ASSUME NEW j \in InsertionIndex(list, s) .. Len(list)
        PROVE  list[j].at > s
    <2>1. list[InsertionIndex(list, s)].at > s
      BY <1>1, <1>3
    <2>2. list[j].at >= list[InsertionIndex(list, s)].at
      BY <1>1, <1>3 DEF SlotLists, Ascending
    <2> QED BY <1>1, <1>3, <2>1, <2>2
  <1> QED BY <1>3, <1>4

-----------------------------------------------------------------------------
(* The two elementary changes and a changed count: the list stays          *)
(* ascending, and its entries change as asked and no other.                *)

Contents(list) == {list[i] : i \in 1 .. Len(list)}

LEMMA WithSlotIs ==
    ASSUME NEW list \in SlotLists, NEW e \in Entries, ~Holds(list, e.at)
    PROVE  /\ WithSlot(list, e) \in SlotLists
           /\ Contents(WithSlot(list, e)) = Contents(list) \cup {e}
  <1> DEFINE i == InsertionIndex(list, e.at)
             new == WithSlot(list, e)
  <1>1. /\ Len(list) \in Nat
        /\ DOMAIN list = 1 .. Len(list)
        /\ \A k \in 1 .. Len(list) : list[k] \in Entries
        /\ \A k \in 1 .. Len(list) : list[k].at \in Int
        /\ e.at \in Int
    <2>1. e.at \in Int
      BY DEF Entries
    <2> QED BY <2>1, ListType
  <1>2. /\ i \in 1 .. Len(list) + 1
        /\ \A k \in 1 .. i - 1 : list[k].at < e.at
        /\ \A k \in i .. Len(list) : list[k].at > e.at
    <2>1. \A k \in 1 .. Len(list) : list[k].at # e.at
      BY <1>1 DEF Holds, Positions
    <2>2. /\ i \in 1 .. Len(list) + 1
          /\ \A k \in 1 .. i - 1 : list[k].at <= e.at
          /\ \A k \in i .. Len(list) : list[k].at > e.at
      BY <1>1, InsertionIndexIs
    <2> HIDE DEF i
    <2> QED BY SMTT(30), <1>1, <2>1, <2>2
  <1> HIDE DEF i
  <1>3. new = [k \in 1 .. Len(list) + 1 |->
                  IF k < i THEN list[k] ELSE IF k = i THEN e ELSE list[k - 1]]
    BY DEF WithSlot, i
  <1> HIDE DEF new
  <1>4. new \in Seq(Entries) /\ Len(new) = Len(list) + 1
    BY <1>1, <1>2, <1>3
  <1>5. Ascending(new)
    <2> SUFFICES ASSUME NEW j \in 1 .. Len(list) + 1,
                        NEW k \in 1 .. Len(list) + 1, j < k
                 PROVE  new[j].at < new[k].at
      BY <1>1, <1>3 DEF Ascending
    <2>1. \A a, b \in 1 .. Len(list) : a < b => list[a].at < list[b].at
      BY <1>1 DEF SlotLists, Ascending
    <2>2. CASE k < i
      BY <1>1, <1>2, <1>3, <2>1, <2>2
    <2>3. CASE k = i
      BY <1>1, <1>2, <1>3, <2>3
    <2>4. CASE k > i /\ j < i
      BY <1>1, <1>2, <1>3, <2>1, <2>4
    <2>5. CASE k > i /\ j = i
      BY <1>1, <1>2, <1>3, <2>5
    <2>6. CASE k > i /\ j > i
      BY <1>1, <1>2, <1>3, <2>1, <2>6
    <2> QED BY <1>1, <1>2, <2>2, <2>3, <2>4, <2>5, <2>6
  <1>6. Contents(new) = Contents(list) \cup {e}
    <2>1. ASSUME NEW k \in 1 .. Len(new), new[k] # e
          PROVE  new[k] \in Contents(list)
      <3>1. CASE k < i
        BY <1>1, <1>2, <1>3, <1>4, <3>1 DEF Contents
      <3>2. CASE k > i
        <4>1. k - 1 \in 1 .. Len(list) /\ new[k] = list[k - 1]
          BY <1>1, <1>2, <1>3, <1>4, <3>2
        <4> QED BY <4>1 DEF Contents
      <3> QED BY <1>1, <1>2, <1>3, <1>4, <2>1, <3>1, <3>2
    <2>2. e \in Contents(new)
      BY <1>1, <1>2, <1>3, <1>4 DEF Contents
    <2>3. ASSUME NEW k \in 1 .. Len(list) PROVE list[k] \in Contents(new)
      <3>1. CASE k < i
        BY <1>1, <1>2, <1>3, <1>4, <3>1 DEF Contents
      <3>2. CASE k >= i
        <4>1. k + 1 \in 1 .. Len(new) /\ new[k + 1] = list[k]
          BY <1>1, <1>2, <1>3, <1>4, <3>2
        <4> QED BY <4>1 DEF Contents
      <3> QED BY <1>1, <1>2, <3>1, <3>2
    <2> QED BY <2>1, <2>2, <2>3 DEF Contents
  <1> QED BY <1>4, <1>5, <1>6 DEF SlotLists, new

LEMMA WithoutSlotIs ==
    ASSUME NEW list \in SlotLists, NEW s, Holds(list, s)
    PROVE  /\ WithoutSlot(list, s) \in SlotLists
           /\ Contents(WithoutSlot(list, s)) = {e \in Contents(list) : e.at # s}
  <1> DEFINE i == Position(list, s)
             new == WithoutSlot(list, s)
  <1>1. /\ Len(list) \in Nat
        /\ DOMAIN list = 1 .. Len(list)
        /\ \A k \in 1 .. Len(list) : list[k] \in Entries
        /\ \A k \in 1 .. Len(list) : list[k].at \in Int
    BY ListType
  <1>2. /\ i \in 1 .. Len(list)
        /\ \A k \in 1 .. Len(list) : list[k].at = s <=> k = i
    BY PositionIs
  <1> HIDE DEF i
  <1>3. new = [k \in 1 .. Len(list) - 1 |->
                  IF k < i THEN list[k] ELSE list[k + 1]]
    BY DEF WithoutSlot, i
  <1> HIDE DEF new
  <1>4. new \in Seq(Entries) /\ Len(new) = Len(list) - 1
        /\ DOMAIN new = 1 .. Len(list) - 1
    BY <1>1, <1>2, <1>3
  <1>5. Ascending(new)
    BY SMTT(60), <1>1, <1>2, <1>3, <1>4 DEF SlotLists, Ascending
  <1>6. Contents(new) = {e \in Contents(list) : e.at # s}
    <2>1. ASSUME NEW k \in 1 .. Len(new)
          PROVE  \E j \in 1 .. Len(list) : j # i /\ new[k] = list[j]
      <3>1. CASE k < i
        <4>1. k \in 1 .. Len(list) /\ new[k] = list[k]
          BY <1>1, <1>2, <1>3, <1>4, <3>1
        <4> QED BY <3>1, <4>1
      <3>2. CASE k >= i
        <4>1. k + 1 \in 1 .. Len(list) /\ k + 1 # i /\ new[k] = list[k + 1]
          BY <1>1, <1>2, <1>3, <1>4, <3>2
        <4> QED BY <4>1
      <3> QED BY <1>1, <1>2, <1>4, <3>1, <3>2
    <2>2. ASSUME NEW j \in 1 .. Len(list), j # i
          PROVE  \E k \in 1 .. Len(new) : new[k] = list[j]
      <3>1. CASE j < i
        BY SMTT(30), <1>1, <1>2, <1>3, <1>4, <3>1
      <3>2. CASE j > i
        <4>1. j - 1 \in 1 .. Len(new) /\ new[j - 1] = list[j]
          BY <1>1, <1>2, <1>3, <1>4, <3>2
        <4> QED BY <4>1
      <3> QED BY <1>1, <1>2, <2>2, <3>1, <3>2
    <2>3. Contents(new) \subseteq {e \in Contents(list) : e.at # s}
      BY <1>2, <2>1 DEF Contents
    <2>4. {e \in Contents(list) : e.at # s} \subseteq Contents(new)
      BY <1>2, <2>2 DEF Contents
    <2> QED BY <2>3, <2>4
  <1> QED BY <1>4, <1>5, <1>6 DEF SlotLists, new

LEMMA CountChanged ==
    ASSUME NEW list \in SlotLists, NEW s, Holds(list, s), NEW v \in Int
    PROVE  LET i == Position(list, s)
               new == [list EXCEPT ![i].n = v]
           IN  /\ new \in SlotLists
               /\ Contents(new) = {e \in Contents(list) : e.at # s}
                                     \cup {[list[i] EXCEPT !.n = v]}
  <1> DEFINE i == Position(list, s)
             new == [list EXCEPT ![i].n = v]
  <1>1. /\ Len(list) \in Nat
        /\ DOMAIN list = 1 .. Len(list)
        /\ \A k \in 1 .. Len(list) : list[k] \in Entries
        /\ \A k \in 1 .. Len(list) : list[k].at \in Int
    BY ListType
  <1>2. /\ i \in 1 .. Len(list)
        /\ \A k \in 1 .. Len(list) : list[k].at = s <=> k = i
    BY PositionIs
  <1> HIDE DEF i
  <1>3. [list[i] EXCEPT !.n = v] \in Entries
        /\ [list[i] EXCEPT !.n = v].at = list[i].at
    BY <1>1, <1>2 DEF Entries
  <1>4. new \in Seq(Entries) /\ Len(new) = Len(list)
        /\ DOMAIN new = 1 .. Len(list)
    BY <1>1, <1>2, <1>3 DEF SlotLists
  <1>5. /\ new[i] = [list[i] EXCEPT !.n = v]
        /\ \A k \in 1 .. Len(list) : k # i => new[k] = list[k]
    BY <1>1, <1>2
  <1> HIDE DEF new
  <1>6. \A k \in 1 .. Len(list) : new[k].at = list[k].at
    BY <1>3, <1>5
  <1>7. Ascending(new)
    BY <1>1, <1>4, <1>6 DEF SlotLists, Ascending
  <1>8. Contents(new) = {e \in Contents(list) : e.at # s}
                           \cup {[list[i] EXCEPT !.n = v]}
    BY <1>1, <1>2, <1>4, <1>5 DEF Contents
  <1> QED BY <1>4, <1>7, <1>8 DEF SlotLists, new, i

-----------------------------------------------------------------------------
(* Moving items.                                                           *)

Counted(i, rest) == IF rest < 1 THEN {} ELSE {[i EXCEPT !.n = rest]}

LEMMA StackAdds ==
    ASSUME NEW a \in Entries, NEW b \in Entries
    PROVE  /\ Stacked(a, b) \in Int /\ Rest(a, b) \in Int
           /\ Stacked(a, b) + Rest(a, b) = a.n + b.n
           /\ Rest(a, b) >= 0
  <1>1. a.n \in Int /\ b.n \in Int /\ MaxStack[a.kind] \in Int
    BY StackAssumption DEF Entries
  <1> QED BY <1>1 DEF Stacked, Rest

LEMMA WithRestIs ==
    ASSUME NEW list \in SlotLists, NEW s, Holds(list, s), NEW rest \in Int
    PROVE  /\ WithRest(list, s, rest) \in SlotLists
           /\ Contents(WithRest(list, s, rest)) =
                 {e \in Contents(list) : e.at # s}
                     \cup Counted(list[Position(list, s)], rest)
  <1>1. CASE rest < 1
    BY <1>1, WithoutSlotIs DEF WithRest, Counted
  <1>2. CASE ~(rest < 1)
    BY <1>2, CountChanged DEF WithRest, Counted
  <1> QED BY <1>1, <1>2

\* Moving an item to another list (inventory and equipment, warehouse or
\* recovery list, Inventory.c): both lists stay ascending, the item is in the
\* slot it was moved to, a stack and what is left of the other keep their
\* units together, and nothing else in either list changes.
THEOREM MoveToSlot ==
    ASSUME NEW from \in SlotLists, NEW to \in SlotLists, NEW s, NEW t \in Int,
           CanMove(from, to, s, t)
    PROVE  LET a == from[Position(from, s)]
               b == to[Position(to, t)]
           IN  /\ LeftOf(from, to, s, t) \in SlotLists
               /\ MovedTo(from, to, s, t) \in SlotLists
               /\ ~Holds(to, t) =>
                     /\ Contents(LeftOf(from, to, s, t)) =
                           {e \in Contents(from) : e.at # s}
                     /\ Contents(MovedTo(from, to, s, t)) =
                           Contents(to) \cup {[a EXCEPT !.at = t]}
               /\ Holds(to, t) =>
                     /\ Contents(LeftOf(from, to, s, t)) =
                           {e \in Contents(from) : e.at # s}
                               \cup Counted(a, Rest(a, b))
                     /\ Contents(MovedTo(from, to, s, t)) =
                           {e \in Contents(to) : e.at # t}
                               \cup {[b EXCEPT !.n = Stacked(a, b)]}
                     /\ Stacked(a, b) + Rest(a, b) = a.n + b.n
  <1> DEFINE a == from[Position(from, s)]
             b == to[Position(to, t)]
  <1>1. Holds(from, s) /\ a \in Entries
    BY PositionIs, ListType DEF CanMove
  <1>2. CASE ~Holds(to, t)
    <2>1. /\ LeftOf(from, to, s, t) = WithoutSlot(from, s)
          /\ MovedTo(from, to, s, t) = WithSlot(to, [a EXCEPT !.at = t])
      BY <1>2 DEF LeftOf, MovedTo
    <2>2. [a EXCEPT !.at = t] \in Entries /\ [a EXCEPT !.at = t].at = t
      BY <1>1 DEF Entries
    <2> HIDE DEF a
    <2>3. ~Holds(to, [a EXCEPT !.at = t].at)
      BY <1>2, <2>2
    <2>4. /\ WithSlot(to, [a EXCEPT !.at = t]) \in SlotLists
          /\ Contents(WithSlot(to, [a EXCEPT !.at = t])) =
                Contents(to) \cup {[a EXCEPT !.at = t]}
      BY <2>2, <2>3, WithSlotIs
    <2>5. /\ WithoutSlot(from, s) \in SlotLists
          /\ Contents(WithoutSlot(from, s)) = {e \in Contents(from) : e.at # s}
      BY <1>1, WithoutSlotIs
    <2> QED BY <1>2, <2>1, <2>4, <2>5 DEF a
  <1>3. CASE Holds(to, t)
    <2>1. b \in Entries
      BY <1>3, PositionIs, ListType
    <2>2. /\ Stacked(a, b) \in Int /\ Rest(a, b) \in Int
          /\ Stacked(a, b) + Rest(a, b) = a.n + b.n
      BY <1>1, <2>1, StackAdds
    <2>3. /\ LeftOf(from, to, s, t) = WithRest(from, s, Rest(a, b))
          /\ MovedTo(from, to, s, t) =
                [to EXCEPT ![Position(to, t)].n = Stacked(a, b)]
      BY <1>3 DEF LeftOf, MovedTo
    <2>4. /\ MovedTo(from, to, s, t) \in SlotLists
          /\ Contents(MovedTo(from, to, s, t)) =
                {e \in Contents(to) : e.at # t}
                    \cup {[b EXCEPT !.n = Stacked(a, b)]}
      <3>1. \A v \in Int :
               LET more == [to EXCEPT ![Position(to, t)].n = v]
               IN  /\ more \in SlotLists
                   /\ Contents(more) = {e \in Contents(to) : e.at # t}
                                          \cup {[b EXCEPT !.n = v]}
        BY <1>3, CountChanged
      <3> HIDE DEF a, b
      <3> QED BY <2>2, <2>3, <3>1
    <2>5. /\ LeftOf(from, to, s, t) \in SlotLists
          /\ Contents(LeftOf(from, to, s, t)) =
                {e \in Contents(from) : e.at # s} \cup Counted(a, Rest(a, b))
      BY <1>1, <2>2, <2>3, WithRestIs
    <2> QED BY <1>3, <2>2, <2>4, <2>5
  <1> QED BY <1>2, <1>3

\* Moving an item within its list (RTInventoryMoveSlot): the list stays
\* ascending and no other slot changes, whether the item goes to a free slot,
\* onto another stack, or onto the very slot it is in.
THEOREM MoveWithinList ==
    ASSUME NEW list \in SlotLists, NEW s, NEW t \in Int,
           CanMove(list, list, s, t)
    PROVE  /\ MovedWithin(list, s, t) \in SlotLists
           /\ {e \in Contents(MovedWithin(list, s, t)) : e.at \notin {s, t}} =
                 {e \in Contents(list) : e.at \notin {s, t}}
  <1> DEFINE a == list[Position(list, s)]
             b == list[Position(list, t)]
  <1>1. Holds(list, s) /\ a \in Entries /\ a.at = s
    BY PositionIs, ListType DEF CanMove
  <1>2. CASE ~Holds(list, t)
    <2> DEFINE less == WithoutSlot(list, s)
    <2>1. MovedWithin(list, s, t) = WithSlot(less, [a EXCEPT !.at = t])
      BY <1>2 DEF MovedWithin
    <2>2. [a EXCEPT !.at = t] \in Entries /\ [a EXCEPT !.at = t].at = t
      BY <1>1 DEF Entries
    <2>3. less \in SlotLists /\ Contents(less) = {e \in Contents(list) : e.at # s}
      BY <1>1, WithoutSlotIs
    <2> HIDE DEF a, less
    <2>4. ~Holds(less, t)
      <3>1. \A e \in Contents(list) : e.at # t
        BY <1>2, ListType DEF Contents, Holds, Positions
      <3>2. \A e \in Contents(less) : e.at # t
        BY <2>3, <3>1
      <3> QED BY <2>3, <3>2, ListType DEF Contents, Holds, Positions
    <2>5. /\ WithSlot(less, [a EXCEPT !.at = t]) \in SlotLists
          /\ Contents(WithSlot(less, [a EXCEPT !.at = t])) =
                Contents(less) \cup {[a EXCEPT !.at = t]}
      BY <2>2, <2>3, <2>4, WithSlotIs
    <2> QED BY <2>1, <2>2, <2>3, <2>5
  <1>3. CASE Holds(list, t)
    <2> DEFINE more == [list EXCEPT ![Position(list, t)].n = Stacked(a, b)]
    <2>1. b \in Entries /\ b.at = t
      BY <1>3, PositionIs, ListType
    <2>2. Stacked(a, b) \in Int /\ Rest(a, b) \in Int
      BY <1>1, <2>1, StackAdds
    <2>3. MovedWithin(list, s, t) = WithRest(more, s, Rest(a, b))
      BY <1>3 DEF MovedWithin
    <2>4. /\ more \in SlotLists
          /\ Contents(more) = {e \in Contents(list) : e.at # t}
                                 \cup {[b EXCEPT !.n = Stacked(a, b)]}
      BY ZenonT(60), <1>3, <2>2, CountChanged
    <2>5. [b EXCEPT !.n = Stacked(a, b)].at = t
      BY <2>1 DEF Entries
    <2> HIDE DEF a, b, more
    <2>6. Holds(more, s)
      <3>1. \E e \in Contents(list) : e.at = s
        BY <1>1, ListType DEF Contents, Holds, Positions
      <3>2. \E e \in Contents(more) : e.at = s
        BY <2>4, <2>5, <3>1
      <3> QED BY <2>4, <3>2, ListType DEF Contents, Holds, Positions
    <2>7. /\ WithRest(more, s, Rest(a, b)) \in SlotLists
          /\ Contents(WithRest(more, s, Rest(a, b))) =
                {e \in Contents(more) : e.at # s}
                    \cup Counted(more[Position(more, s)], Rest(a, b))
      BY <2>2, <2>4, <2>6, WithRestIs
    <2>8. \A e \in Counted(more[Position(more, s)], Rest(a, b)) : e.at = s
      <3>1. /\ more[Position(more, s)] \in Entries
            /\ more[Position(more, s)].at = s
        BY <2>4, <2>6, PositionIs, ListType
      <3> QED BY <3>1 DEF Counted, Entries
    <2> QED BY <2>3, <2>4, <2>5, <2>7, <2>8
  <1> QED BY <1>2, <1>3

-----------------------------------------------------------------------------
(* Sums over a list.                                                       *)

\* An element more: the sum grows by it, wherever it is put.
Inserted(f, i, v) ==
    [k \in 1 .. Len(f) + 1 |-> IF k < i THEN f[k] ELSE IF k = i THEN v ELSE f[k - 1]]
Removed(f, i) == [k \in 1 .. Len(f) - 1 |-> IF k < i THEN f[k] ELSE f[k + 1]]

LEMMA TotalInserted ==
    ASSUME NEW f \in Seq(Nat), NEW i \in 1 .. Len(f) + 1, NEW v \in Nat
    PROVE  /\ Inserted(f, i, v) \in Seq(Nat)
           /\ Total(Inserted(f, i, v)) = Total(f) + v
           /\ Total(f) \in Nat
  <1> DEFINE n == Len(f)
             g == Inserted(f, i, v)
  <1>1. n \in Nat /\ \A k \in 1 .. n : f[k] \in Nat
    OBVIOUS
  <1>2. g \in Seq(Nat) /\ Len(g) = n + 1
    BY <1>1 DEF Inserted
  <1>3. \A k \in 1 .. n + 1 : g[k] = IF k < i THEN f[k] ELSE IF k = i THEN v ELSE f[k - 1]
    BY <1>1 DEF Inserted
  <1>4. PICK s \in [0 .. n -> Nat] :
            s[0] = 0 /\ (\A k \in 1 .. n : s[k] = s[k - 1] + f[k]) /\ Total(f) = s[n]
    BY TotalIs
  <1>5. PICK t \in [0 .. n + 1 -> Nat] :
            t[0] = 0 /\ (\A k \in 1 .. n + 1 : t[k] = t[k - 1] + g[k]) /\ Total(g) = t[n + 1]
    <2> HIDE DEF g
    <2> QED BY <1>2, TotalIs
  <1> HIDE DEF g, n
  <1> DEFINE Agree(k) == t[k] = IF k < i THEN s[k] ELSE s[k - 1] + v
  <1>6. i \in 1 .. n + 1
    BY DEF n
  <1>7. Agree(0)
    BY <1>1, <1>4, <1>5, <1>6
  <1>8. ASSUME NEW k \in 1 .. n + 1, Agree(k - 1)
        PROVE  Agree(k)
    <2>1. t[k] = t[k - 1] + g[k] /\ t[k - 1] = IF k - 1 < i THEN s[k - 1] ELSE s[k - 2] + v
      <3>1. t[k] = t[k - 1] + g[k]
        BY <1>5
      <3>2. k - 1 - 1 = k - 2
        OBVIOUS
      <3> QED BY <1>8, <3>1, <3>2
    <2>2. CASE k < i
      BY <1>1, <1>3, <1>4, <1>6, <2>1, <2>2
    <2>3. CASE k = i
      BY <1>1, <1>3, <1>4, <1>6, <2>1, <2>3
    <2>4. CASE k > i
      <3>1. k - 1 \in 1 .. n
        BY <1>1, <1>6, <2>4
      <3>2. s[k - 1] = s[k - 2] + f[k - 1]
        <4>1. k - 1 - 1 = k - 2
          OBVIOUS
        <4> QED BY <1>4, <3>1, <4>1
      <3>3. s[k - 1] \in Nat /\ s[k - 2] \in Nat /\ f[k - 1] \in Nat
        BY SMTT(30), <1>1, <1>4, <3>1
      <3>4. g[k] = f[k - 1]
        BY <1>1, <1>3, <1>6, <2>4
      <3>5. t[k] = s[k - 1] + v
        BY SMTT(30), <1>6, <2>1, <2>4, <3>1, <3>2, <3>3, <3>4
      <3> QED BY <1>6, <2>4, <3>5
    <2> QED BY <1>6, <2>2, <2>3, <2>4
  <1>9. \A k \in 0 .. n + 1 : Agree(k)
    <2> DEFINE S == {k \in 0 .. n + 1 : Agree(k)}
    <2> HIDE DEF Agree
    <2>1. n + 1 \in Nat /\ 0 \in S /\ \A k \in 1 .. n + 1 : k - 1 \in S => k \in S
      BY <1>1, <1>7, <1>8
    <2>2. \A k \in 0 .. n + 1 : k \in S
      <3> HIDE DEF S
      <3> QED BY ONLY <2>1, Rises
    <2> QED BY <2>2
  <1>10. t[n + 1] = s[n] + v
    BY <1>1, <1>6, <1>9
  <1> QED BY <1>1, <1>2, <1>4, <1>5, <1>10 DEF g

-----------------------------------------------------------------------------
(* What lists weigh: w gives each entry a number, a count of units or an   *)
(* amount of Alz.                                                          *)

Stock == [at : Nat, kind : Kinds, level : Levelled, n : Nat]
Weigh(w, list) == Total([i \in DOMAIN list |-> w[list[i]]])

LEMMA WeighInserted ==
    ASSUME NEW w \in [Stock -> Nat], NEW list \in Seq(Stock),
           NEW i \in 1 .. Len(list) + 1, NEW e \in Stock
    PROVE  /\ Inserted(list, i, e) \in Seq(Stock)
           /\ Len(Inserted(list, i, e)) = Len(list) + 1
           /\ Weigh(w, list) \in Nat
           /\ Weigh(w, Inserted(list, i, e)) = Weigh(w, list) + w[e]
  <1> DEFINE n == Len(list)
             more == Inserted(list, i, e)
             f == [k \in DOMAIN list |-> w[list[k]]]
             g == [k \in DOMAIN more |-> w[more[k]]]
  <1>1. /\ n \in Nat /\ DOMAIN list = 1 .. n /\ i \in 1 .. n + 1
        /\ \A k \in 1 .. n : list[k] \in Stock
    OBVIOUS
  <1>2. more = [k \in 1 .. n + 1 |->
                   IF k < i THEN list[k] ELSE IF k = i THEN e ELSE list[k - 1]]
    BY DEF Inserted
  <1>3. more \in Seq(Stock) /\ Len(more) = n + 1 /\ DOMAIN more = 1 .. n + 1
    <2> HIDE DEF more, n
    <2>1. \A k \in 1 .. n + 1 : more[k] \in Stock
      BY <1>1, <1>2
    <2> QED BY <1>1, <1>2, <2>1
  <1>4. f \in Seq(Nat) /\ Len(f) = n /\ \A k \in 1 .. n : f[k] = w[list[k]]
    BY <1>1
  <1>5. w[e] \in Nat
    OBVIOUS
  <1>6. g = Inserted(f, i, w[e])
    <2>1. ASSUME NEW k \in 1 .. n + 1
          PROVE  g[k] = IF k < i THEN f[k] ELSE IF k = i THEN w[e] ELSE f[k - 1]
      <3>1. g[k] = w[more[k]]
        BY <1>3
      <3> HIDE DEF g, f, more, n
      <3>2. k < i => more[k] = list[k] /\ k \in 1 .. n
        BY <1>1, <1>2
      <3>3. k = i => more[k] = e
        BY <1>1, <1>2
      <3>4. k > i => more[k] = list[k - 1] /\ k - 1 \in 1 .. n
        BY <1>1, <1>2
      <3> QED BY <1>1, <1>4, <3>1, <3>2, <3>3, <3>4
    <2>2. DOMAIN g = 1 .. n + 1 /\ Len(f) = n
      BY <1>3, <1>4
    <2>3. g = [k \in 1 .. n + 1 |-> g[k]]
      BY <2>2
    <2> HIDE DEF g, f, more, n
    <2> QED BY <2>1, <2>2, <2>3 DEF Inserted
  <1>7. Total(g) = Total(f) + w[e] /\ Total(f) \in Nat
    <2> HIDE DEF g, f, more
    <2> QED BY <1>1, <1>4, <1>5, <1>6, TotalInserted
  <1> QED BY <1>3, <1>7 DEF Weigh

LEMMA WeighRemoved ==
    ASSUME NEW w \in [Stock -> Nat], NEW list \in Seq(Stock), NEW i \in 1 .. Len(list)
    PROVE  /\ Removed(list, i) \in Seq(Stock)
           /\ Len(Removed(list, i)) = Len(list) - 1
           /\ list[i] \in Stock
           /\ Weigh(w, Removed(list, i)) \in Nat
           /\ Weigh(w, list) = Weigh(w, Removed(list, i)) + w[list[i]]
  <1> DEFINE n == Len(list)
             less == Removed(list, i)
  <1>1. /\ n \in Nat /\ list = [k \in 1 .. n |-> list[k]] /\ i \in 1 .. n
        /\ \A k \in 1 .. n : list[k] \in Stock
    OBVIOUS
  <1>2. less = [k \in 1 .. n - 1 |-> IF k < i THEN list[k] ELSE list[k + 1]]
    BY DEF Removed
  <1> HIDE DEF n
  <1>3. less \in Seq(Stock) /\ Len(less) = n - 1
    <2> HIDE DEF less
    <2>1. \A k \in 1 .. n - 1 : less[k] \in Stock
      BY <1>1, <1>2
    <2>2. n - 1 \in Nat
      BY <1>1
    <2> QED BY <1>2, <2>1, <2>2
  <1> HIDE DEF less
  <1>4. list = Inserted(less, i, list[i])
    <2> DEFINE back == Inserted(less, i, list[i])
    <2>1. back = [k \in 1 .. n |->
                     IF k < i THEN less[k] ELSE IF k = i THEN list[i] ELSE less[k - 1]]
      BY <1>1, <1>3 DEF Inserted
    <2>2. ASSUME NEW k \in 1 .. n
          PROVE  back[k] = list[k]
      <3> HIDE DEF back
      <3>1. k < i => back[k] = less[k] /\ less[k] = list[k]
        BY <1>1, <1>2, <2>1
      <3>2. k > i => back[k] = less[k - 1] /\ less[k - 1] = list[k]
        BY <1>1, <1>2, <2>1
      <3> QED BY <1>1, <2>1, <3>1, <3>2
    <2> HIDE DEF back
    <2>3. back = list
      BY <1>1, <2>1, <2>2
    <2> QED BY <2>3 DEF back
  <1>5. i \in 1 .. Len(less) + 1 /\ list[i] \in Stock
    BY <1>1, <1>3
  <1>6. /\ Weigh(w, less) \in Nat
        /\ Weigh(w, Inserted(less, i, list[i])) = Weigh(w, less) + w[list[i]]
    BY <1>3, <1>5, WeighInserted
  <1> QED BY <1>3, <1>4, <1>5, <1>6 DEF less, n

LEMMA WeighReplaced ==
    ASSUME NEW w \in [Stock -> Nat], NEW list \in Seq(Stock), NEW i \in 1 .. Len(list),
           NEW e \in Stock
    PROVE  /\ [list EXCEPT ![i] = e] \in Seq(Stock)
           /\ Weigh(w, [list EXCEPT ![i] = e]) + w[list[i]] = Weigh(w, list) + w[e]
  <1> DEFINE new == [list EXCEPT ![i] = e]
  <1>1. /\ new \in Seq(Stock) /\ Len(new) = Len(list) /\ new[i] = e
        /\ \A k \in 1 .. Len(list) : k # i => new[k] = list[k]
    OBVIOUS
  <1> HIDE DEF new
  <1>2. Removed(new, i) = Removed(list, i)
    <2>1. \A k \in 1 .. Len(list) - 1 :
             (IF k < i THEN new[k] ELSE new[k + 1]) = (IF k < i THEN list[k] ELSE list[k + 1])
      BY <1>1
    <2> QED BY <1>1, <2>1 DEF Removed
  <1>3. /\ Weigh(w, Removed(list, i)) \in Nat
        /\ Weigh(w, list) = Weigh(w, Removed(list, i)) + w[list[i]]
        /\ Weigh(w, new) = Weigh(w, Removed(new, i)) + w[new[i]]
    BY <1>1, WeighRemoved
  <1>4. w[list[i]] \in Nat /\ w[e] \in Nat
    OBVIOUS
  <1>5. Weigh(w, new) + w[list[i]] = Weigh(w, list) + w[e]
    BY <1>1, <1>2, <1>3, <1>4
  <1> QED BY <1>1, <1>5 DEF new

LEMMA WeighNothing ==
    ASSUME NEW w \in [Stock -> Nat]
    PROVE  /\ Weigh(w, <<>>) = 0
           /\ \A list \in Seq(Stock) : Weigh(w, list) \in Nat
           /\ \A e \in Stock : Weigh(w, <<e>>) = w[e]
           /\ \A list \in Seq(Stock), e \in Stock :
                 Weigh(w, Append(list, e)) = Weigh(w, list) + w[e]
  <1>1. Weigh(w, <<>>) = 0
    <2>1. [i \in DOMAIN <<>> |-> w[<<>>[i]]] = <<>>
      OBVIOUS
    <2>2. <<>> \in Seq(Nat) /\ Len(<<>>) = 0
      OBVIOUS
    <2>3. Total(<<>>) = 0
      BY <2>2, TotalIs
    <2> QED BY <2>1, <2>3 DEF Weigh
  <1>2. ASSUME NEW list \in Seq(Stock)
        PROVE  Weigh(w, list) \in Nat
    <2> DEFINE f == [i \in DOMAIN list |-> w[list[i]]]
    <2>1. f \in Seq(Nat)
      OBVIOUS
    <2>2. 1 \in 1 .. Len(f) + 1
      BY <2>1
    <2> HIDE DEF f
    <2>3. Total(f) \in Nat
      BY <2>1, <2>2, TotalInserted
    <2> QED BY <2>3 DEF Weigh, f
  <1>3. ASSUME NEW list \in Seq(Stock), NEW e \in Stock
        PROVE  Weigh(w, Append(list, e)) = Weigh(w, list) + w[e]
    <2>1. Len(list) + 1 \in 1 .. Len(list) + 1
      OBVIOUS
    <2>2. Append(list, e) = Inserted(list, Len(list) + 1, e)
      <3> DEFINE n == Len(list)
      <3>1. n \in Nat /\ Append(list, e) \in Seq(Stock) /\ Len(Append(list, e)) = n + 1
        OBVIOUS
      <3>2. ASSUME NEW k \in 1 .. n + 1
            PROVE  Append(list, e)[k] = IF k < n + 1 THEN list[k]
                                        ELSE IF k = n + 1 THEN e ELSE list[k - 1]
        OBVIOUS
      <3>3. Append(list, e) = [k \in 1 .. n + 1 |-> Append(list, e)[k]]
        <4> DEFINE q == Append(list, e)
        <4>1. q \in Seq(Stock) /\ Len(q) = n + 1
          BY <3>1
        <4> HIDE DEF q, n
        <4>2. q = [k \in 1 .. n + 1 |-> q[k]]
          BY <4>1
        <4> QED BY <4>2 DEF q
      <3> HIDE DEF n
      <3>4. Append(list, e) = [k \in 1 .. n + 1 |-> IF k < n + 1 THEN list[k]
                                        ELSE IF k = n + 1 THEN e ELSE list[k - 1]]
        BY <3>2, <3>3
      <3> QED BY <3>4 DEF Inserted, n
    <2> QED BY <2>1, <2>2, WeighInserted
  <1>4. ASSUME NEW e \in Stock
        PROVE  Weigh(w, <<e>>) = w[e]
    <2> DEFINE none == <<>>
    <2>1. none \in Seq(Stock) /\ Append(none, e) = <<e>>
      OBVIOUS
    <2>2. w[e] \in Nat
      OBVIOUS
    <2>3. Weigh(w, none) = 0
      BY <1>1
    <2> HIDE DEF none
    <2>4. Weigh(w, Append(none, e)) = Weigh(w, none) + w[e]
      BY ONLY <1>3, <2>1, e \in Stock
    <2>5. Weigh(w, Append(none, e)) = w[e]
      BY <2>2, <2>3, <2>4
    <2> QED BY <2>1, <2>5
  <1> QED BY <1>1, <1>2, <1>3, <1>4

-----------------------------------------------------------------------------
(* The lists of a character, and the elementary changes: their types, and  *)
(* what they weigh.                                                        *)

Ok(limit) == {e \in Slots(limit, Levelled) : StacksFit => Fits(e)}
Lists(limit) == {list \in Seq(Ok(limit)) : Ascending(list)}
Worn == {list \in Seq(Ok(MaxEquipment)) :
            /\ Len(list) <= MaxEquipment
            /\ \A i, j \in DOMAIN list : list[i].at = list[j].at => i = j}

LEMMA OkIs ==
    ASSUME NEW limit \in Nat
    PROVE  /\ Ok(limit) \subseteq Stock /\ Ok(limit) \subseteq Entries
           /\ Lists(limit) \subseteq SlotLists
           /\ Seq(Ok(limit)) \subseteq Seq(Stock)
           /\ Worn \subseteq Seq(Ok(MaxEquipment))
           /\ Lists(limit) \subseteq Seq(Ok(limit))
  <1>1. TopLevel \in Nat
    BY StorageAssumption
  <1>2. Ok(limit) \subseteq Stock /\ Ok(limit) \subseteq Entries
    BY <1>1 DEF Ok, Slots, Stock, Entries, Levelled
  <1>3. Seq(Ok(limit)) \subseteq Seq(Stock) /\ Seq(Ok(limit)) \subseteq Seq(Entries)
    <2>1. ASSUME NEW list \in Seq(Ok(limit))
          PROVE  list \in Seq(Stock) /\ list \in Seq(Entries)
      <3>1. Len(list) \in Nat /\ list = [k \in 1 .. Len(list) |-> list[k]]
            /\ \A k \in 1 .. Len(list) : list[k] \in Ok(limit)
        OBVIOUS
      <3>2. \A k \in 1 .. Len(list) : list[k] \in Stock /\ list[k] \in Entries
        BY <1>2, <3>1
      <3> QED BY <3>1, <3>2
    <2> QED BY <2>1
  <1> QED BY <1>2, <1>3 DEF Lists, SlotLists, Worn

LEMMA PositionFound ==
    ASSUME NEW S, NEW list \in Seq(S), NEW s, Holds(list, s)
    PROVE  /\ Position(list, s) \in 1 .. Len(list)
           /\ list[Position(list, s)].at = s
           /\ list[Position(list, s)] \in S
  <1>1. Positions(list, s) \in SUBSET Nat /\ Positions(list, s) # {}
    BY DEF Positions, Holds
  <1>2. \E i \in Positions(list, s) : \A j \in Positions(list, s) : i <= j
    BY <1>1, LeastElement
  <1>3. Position(list, s) \in Positions(list, s)
    BY <1>2 DEF Position
  <1> QED BY <1>3 DEF Positions

\* A list of good entries that is in order is one of Lists.
LEMMA ListFromContents ==
    ASSUME NEW limit \in Nat, NEW list \in SlotLists,
           \A k \in 1 .. Len(list) : list[k] \in Ok(limit)
    PROVE  list \in Lists(limit)
  <1>1. list \in Seq(Entries) /\ Ascending(list)
    BY DEF SlotLists
  <1>2. list = [k \in 1 .. Len(list) |-> list[k]] /\ Len(list) \in Nat
    BY <1>1
  <1>3. list \in Seq(Ok(limit))
    BY <1>2
  <1> QED BY <1>1, <1>3 DEF Lists

LEMMA Put ==
    ASSUME NEW limit \in Nat, NEW list \in Lists(limit), NEW e \in Ok(limit),
           ~Holds(list, e.at)
    PROVE  /\ WithSlot(list, e) \in Lists(limit)
           /\ Len(WithSlot(list, e)) = Len(list) + 1
           /\ \A w \in [Stock -> Nat] : Weigh(w, WithSlot(list, e)) = Weigh(w, list) + w[e]
  <1> DEFINE i == InsertionIndex(list, e.at)
             new == WithSlot(list, e)
  <1>1. list \in SlotLists /\ list \in Seq(Stock) /\ e \in Entries /\ e \in Stock
        /\ list \in Seq(Ok(limit))
    BY OkIs
  <1>2. e.at \in Int
    BY <1>1 DEF Entries
  <1>3. i \in 1 .. Len(list) + 1
    BY <1>1, <1>2, InsertionIndexIs
  <1>4. new = Inserted(list, i, e)
    BY DEF WithSlot, Inserted
  <1>5. new \in SlotLists /\ Contents(new) = Contents(list) \cup {e}
    BY <1>1, WithSlotIs
  <1>6. \A k \in 1 .. Len(new) : new[k] \in Ok(limit)
    <2>1. \A x \in Contents(list) : x \in Ok(limit)
      BY <1>1 DEF Contents
    <2>2. \A k \in 1 .. Len(new) : new[k] \in Contents(new)
      BY DEF Contents
    <2> HIDE DEF new
    <2> QED BY <1>5, <2>1, <2>2
  <1>7. new \in Lists(limit)
    <2> HIDE DEF new
    <2> QED BY <1>5, <1>6, ListFromContents
  <1>8. \A w \in [Stock -> Nat] : Len(new) = Len(list) + 1 /\ Weigh(w, new) = Weigh(w, list) + w[e]
    <2> HIDE DEF new, i
    <2> QED BY <1>1, <1>3, <1>4, WeighInserted
  <1>9. Len(new) = Len(list) + 1
    <2>1. [x \in Stock |-> 0] \in [Stock -> Nat]
      OBVIOUS
    <2> HIDE DEF new
    <2> QED BY <1>8, <2>1
  <1> QED BY <1>7, <1>8, <1>9

LEMMA Take ==
    ASSUME NEW limit \in Nat, NEW list \in Seq(Ok(limit)), NEW s, Holds(list, s)
    PROVE  /\ EntryAt(list, s) \in Ok(limit) /\ EntryAt(list, s).at = s
           /\ WithoutSlot(list, s) \in Seq(Ok(limit))
           /\ Len(WithoutSlot(list, s)) = Len(list) - 1
           /\ \A k \in 1 .. Len(WithoutSlot(list, s)) :
                 \E j \in 1 .. Len(list) : /\ j # Position(list, s)
                                           /\ WithoutSlot(list, s)[k] = list[j]
                                           /\ j = IF k < Position(list, s) THEN k ELSE k + 1
           /\ \A w \in [Stock -> Nat] :
                 Weigh(w, list) = Weigh(w, WithoutSlot(list, s)) + w[EntryAt(list, s)]
  <1> DEFINE i == Position(list, s)
             new == WithoutSlot(list, s)
  <1>1. i \in 1 .. Len(list) /\ list[i].at = s /\ list[i] \in Ok(limit)
    BY PositionFound
  <1>2. EntryAt(list, s) = list[i]
    BY DEF EntryAt
  <1>3. new = [k \in 1 .. Len(list) - 1 |-> IF k < i THEN list[k] ELSE list[k + 1]]
    BY DEF WithoutSlot
  <1>4. Len(list) \in Nat /\ \A k \in 1 .. Len(list) : list[k] \in Ok(limit)
    OBVIOUS
  <1> HIDE DEF i, new
  <1>5. ASSUME NEW k \in 1 .. Len(list) - 1
        PROVE  \E j \in 1 .. Len(list) : /\ j # i /\ new[k] = list[j]
                                         /\ j = IF k < i THEN k ELSE k + 1
    <2>1. CASE k < i
      BY <1>1, <1>3, <1>4, <2>1
    <2>2. CASE ~(k < i)
      <3>1. k + 1 \in 1 .. Len(list) /\ k + 1 # i /\ new[k] = list[k + 1]
        BY <1>1, <1>3, <1>4, <2>2
      <3> QED BY <2>2, <3>1
    <2> QED BY <2>1, <2>2
  <1>6. new \in Seq(Ok(limit)) /\ Len(new) = Len(list) - 1
    <2>1. Len(list) - 1 \in Nat
      BY <1>1, <1>4
    <2>2. \A k \in 1 .. Len(list) - 1 : new[k] \in Ok(limit)
      BY <1>4, <1>5
    <2> QED BY <1>3, <2>1, <2>2
  <1>7. \A w \in [Stock -> Nat] : Weigh(w, list) = Weigh(w, new) + w[list[i]]
    <2>1. list \in Seq(Stock)
      BY OkIs
    <2>2. new = Removed(list, i)
      BY <1>3 DEF Removed
    <2> QED BY <1>1, <2>1, <2>2, WeighRemoved
  <1> QED BY <1>1, <1>2, <1>5, <1>6, <1>7 DEF i, new

LEMMA TakeSorted ==
    ASSUME NEW limit \in Nat, NEW list \in Lists(limit), NEW s, Holds(list, s)
    PROVE  /\ WithoutSlot(list, s) \in Lists(limit)
           /\ ~Holds(WithoutSlot(list, s), s)
           /\ \A t : t # s => (Holds(list, t) <=> Holds(WithoutSlot(list, s), t))
  <1> DEFINE new == WithoutSlot(list, s)
  <1>1. list \in SlotLists /\ list \in Seq(Ok(limit))
    BY OkIs
  <1>2. new \in SlotLists /\ Contents(new) = {e \in Contents(list) : e.at # s}
    BY <1>1, WithoutSlotIs
  <1>3. new \in Seq(Ok(limit))
    BY <1>1, Take
  <1> HIDE DEF new
  <1>4. new \in Lists(limit)
    BY <1>2, <1>3 DEF Lists, SlotLists
  <1>5. \A k \in DOMAIN new : new[k] \in Contents(new)
    BY <1>3 DEF Contents
  <1>6. \A k \in DOMAIN new : new[k].at # s /\ \E j \in DOMAIN list : new[k] = list[j]
    <2>1. \A x \in Contents(list) : \E j \in DOMAIN list : x = list[j]
      BY <1>1 DEF Contents
    <2>2. \A x \in Contents(new) : x \in Contents(list) /\ x.at # s
      BY <1>2
    <2> QED BY <1>5, <2>1, <2>2
  <1>7. \A j \in DOMAIN list : list[j].at # s => \E k \in DOMAIN new : new[k] = list[j]
    <2>1. \A x \in Contents(new) : \E k \in DOMAIN new : x = new[k]
      BY <1>3 DEF Contents
    <2>2. \A j \in DOMAIN list : list[j] \in Contents(list)
      BY <1>1 DEF Contents
    <2> QED BY <1>2, <2>1, <2>2
  <1> QED BY <1>4, <1>6, <1>7 DEF Holds, Positions, new

LEMMA TakeWorn ==
    ASSUME NEW list \in Worn, NEW s, Holds(list, s)
    PROVE  WithoutSlot(list, s) \in Worn
  <1> DEFINE new == WithoutSlot(list, s)
             p == Position(list, s)
  <1>1. /\ list \in Seq(Ok(MaxEquipment)) /\ Len(list) <= MaxEquipment
        /\ \A i, j \in DOMAIN list : list[i].at = list[j].at => i = j
    BY DEF Worn
  <1>2. /\ new \in Seq(Ok(MaxEquipment)) /\ Len(new) = Len(list) - 1
        /\ \A k \in 1 .. Len(new) :
              \E j \in 1 .. Len(list) : /\ j # p /\ new[k] = list[j]
                                        /\ j = IF k < p THEN k ELSE k + 1
    BY <1>1, StorageAssumption, Take
  <1>3. p \in 1 .. Len(list)
    BY <1>1, PositionFound
  <1> HIDE DEF new, p
  <1>4. ASSUME NEW a \in 1 .. Len(new), NEW b \in 1 .. Len(new), new[a].at = new[b].at
        PROVE  a = b
    <2>1. PICK i \in 1 .. Len(list) : new[a] = list[i] /\ i = IF a < p THEN a ELSE a + 1
      BY <1>2
    <2>2. PICK j \in 1 .. Len(list) : new[b] = list[j] /\ j = IF b < p THEN b ELSE b + 1
      BY <1>2
    <2>3. i = j
      BY <1>1, <1>4, <2>1, <2>2
    <2> QED BY <1>3, <2>1, <2>2, <2>3
  <1> QED BY <1>1, <1>2, <1>4, StorageAssumption DEF Worn, new

LEMMA PutOn ==
    ASSUME NEW list \in Worn, NEW e \in Ok(MaxEquipment), Len(list) < MaxEquipment,
           ~Holds(list, e.at)
    PROVE  /\ Append(list, e) \in Worn
           /\ \A w \in [Stock -> Nat] : Weigh(w, Append(list, e)) = Weigh(w, list) + w[e]
  <1>1. /\ list \in Seq(Ok(MaxEquipment)) /\ MaxEquipment \in Nat
        /\ \A i, j \in DOMAIN list : list[i].at = list[j].at => i = j
    BY StorageAssumption DEF Worn
  <1>2. \A i \in 1 .. Len(list) : list[i].at # e.at
    BY <1>1 DEF Holds, Positions
  <1> DEFINE new == Append(list, e)
  <1>3. /\ new \in Seq(Ok(MaxEquipment)) /\ Len(new) = Len(list) + 1
        /\ \A i \in 1 .. Len(list) : new[i] = list[i]
        /\ new[Len(list) + 1] = e
    BY <1>1
  <1> HIDE DEF new
  <1>4. \A i, j \in 1 .. Len(new) : new[i].at = new[j].at => i = j
    BY <1>1, <1>2, <1>3
  <1>5. new \in Worn
    BY <1>1, <1>3, <1>4 DEF Worn
  <1>6. list \in Seq(Stock) /\ e \in Stock
    BY <1>1, OkIs
  <1> QED BY <1>5, <1>6, WeighNothing DEF new

Counting(e, v) == [e EXCEPT !.n = v]
Recounted(list, s, v) == [list EXCEPT ![Position(list, s)].n = v]

LEMMA Recount ==
    ASSUME NEW limit \in Nat, NEW list \in Lists(limit), NEW s, Holds(list, s), NEW v \in Nat,
           StacksFit => Fits(Counting(EntryAt(list, s), v))
    PROVE  /\ Recounted(list, s, v) \in Lists(limit)
           /\ Len(Recounted(list, s, v)) = Len(list)
           /\ Counting(EntryAt(list, s), v) \in Ok(limit)
           /\ \A t : Positions(Recounted(list, s, v), t) = Positions(list, t)
           /\ \A t : t # s /\ Holds(list, t) =>
                        EntryAt(Recounted(list, s, v), t) = EntryAt(list, t)
           /\ EntryAt(Recounted(list, s, v), s) = Counting(EntryAt(list, s), v)
           /\ \A w \in [Stock -> Nat] :
                 Weigh(w, Recounted(list, s, v)) + w[EntryAt(list, s)]
                     = Weigh(w, list) + w[Counting(EntryAt(list, s), v)]
  <1> DEFINE i == Position(list, s)
             old == EntryAt(list, s)
             e == Counting(old, v)
             new == Recounted(list, s, v)
  <1>1. list \in SlotLists /\ list \in Seq(Ok(limit)) /\ list \in Seq(Stock)
    BY OkIs
  <1>2. i \in 1 .. Len(list) /\ old = list[i] /\ old \in Ok(limit) /\ old.at = s
    BY <1>1, PositionFound DEF EntryAt
  <1>3. e \in Ok(limit) /\ e.at = old.at
    BY <1>2 DEF Ok, Slots, Counting
  <1>4. new = [list EXCEPT ![i] = e]
    BY <1>1, <1>2 DEF Recounted, Counting
  <1>5. e \in Stock
    BY <1>3, OkIs
  <1> HIDE DEF e, new, i, old
  <1>6. /\ new \in Seq(Ok(limit)) /\ Len(new) = Len(list) /\ new[i] = e
        /\ \A k \in 1 .. Len(list) : k # i => new[k] = list[k]
    BY <1>1, <1>2, <1>3, <1>4
  <1>7. \A k \in 1 .. Len(list) : new[k].at = list[k].at
    BY <1>2, <1>3, <1>6
  <1>8. new \in Lists(limit)
    BY <1>1, <1>6, <1>7 DEF Lists, SlotLists, Ascending
  <1>9. \A t : Positions(new, t) = Positions(list, t)
    BY <1>1, <1>6, <1>7 DEF Positions
  <1>10. \A t : Position(new, t) = Position(list, t)
    BY <1>9 DEF Position
  <1>11. ASSUME NEW t, t # s, Holds(list, t)
         PROVE  EntryAt(new, t) = EntryAt(list, t)
    <2>1. Position(list, t) \in 1 .. Len(list) /\ list[Position(list, t)].at = t
      BY <1>1, <1>11, PositionFound
    <2>2. Position(list, t) # i
      BY <1>2, <1>11, <2>1
    <2> QED BY <1>6, <1>10, <2>1, <2>2 DEF EntryAt
  <1>12. EntryAt(new, s) = e
    BY <1>6, <1>10 DEF EntryAt, i
  <1>13. \A w \in [Stock -> Nat] : Weigh(w, new) + w[old] = Weigh(w, list) + w[e]
    BY <1>1, <1>2, <1>4, <1>5, WeighReplaced
  <1> QED BY <1>3, <1>6, <1>8, <1>9, <1>11, <1>12, <1>13 DEF e, new, old, i

-----------------------------------------------------------------------------
(* Weights that follow the kind and the count of an entry: what is moved   *)
(* or stacked never weighs more than before.                               *)

Weights ==
    {w \in [Stock -> Nat] :
        /\ \A e, f \in Stock : e.kind = f.kind /\ e.n <= f.n => w[e] <= w[f]
        /\ \A a, b, c, d \in Stock :
              /\ b.kind = a.kind /\ c.kind = a.kind /\ d.kind = a.kind
              /\ MaxStack[a.kind] > 1 /\ c.n + d.n = a.n + b.n
              => w[c] + w[d] <= w[a] + w[b]
        /\ StacksFit \/ \A e, f \in Stock :
                           e.kind = f.kind /\ MaxStack[e.kind] > 1 => w[e] = w[f]}

LEMMA SameWeight ==
    ASSUME NEW w \in Weights, NEW e \in Stock, NEW f \in Stock, e.kind = f.kind, e.n = f.n
    PROVE  w[e] = w[f]
  <1>1. w[e] \in Nat /\ w[f] \in Nat /\ e.n \in Nat
    BY DEF Weights, Stock
  <1>2. w[e] <= w[f] /\ w[f] <= w[e]
    BY <1>1 DEF Weights
  <1> QED BY <1>1, <1>2

\* Stacking a onto b: what is on the stack then, and what is left.
LEMMA StackWeighs ==
    ASSUME NEW limit \in Nat, NEW a \in Ok(limit), NEW b \in Ok(limit), CanStack(a, b)
    PROVE  LET st   == Stacked(a, b)
               rest == Rest(a, b)
           IN  /\ st \in Nat /\ rest \in Nat
               /\ Fits(Counting(b, st))
               /\ StacksFit => Fits(Counting(a, rest))
               /\ \A w \in Weights :
                     /\ w[Counting(b, st)] + w[Counting(a, rest)] <= w[a] + w[b]
                     /\ a = b => w[Counting(a, rest)] <= w[a]
  <1> DEFINE st == Stacked(a, b)
             rest == Rest(a, b)
             max == MaxStack[a.kind]
             c == Counting(b, st)
             d == Counting(a, rest)
  <1>1. a \in Stock /\ b \in Stock
    BY OkIs
  <1>2. /\ a.kind \in Kinds /\ b.kind = a.kind /\ max \in Nat /\ max > 1
        /\ a.n \in Nat /\ b.n \in Nat
    BY <1>1, StackAssumption DEF CanStack, Stock
  <1>3. st = (IF a.n + b.n <= max THEN a.n + b.n ELSE max) /\ rest = a.n + b.n - st
    BY DEF Stacked, Rest
  <1> HIDE DEF st, rest, max
  <1>4. st \in Nat /\ rest \in Nat /\ st <= max /\ st + rest = a.n + b.n
    BY <1>2, <1>3
  <1>5. /\ c \in Stock /\ c.kind = a.kind /\ c.n = st
        /\ d \in Stock /\ d.kind = a.kind /\ d.n = rest
    BY <1>1, <1>2, <1>4 DEF Stock, Counting
  <1>6. StacksFit => a.n <= max /\ b.n <= max
    BY <1>2 DEF Ok, Fits, max
  <1>7. StacksFit => rest <= a.n
    BY <1>2, <1>3, <1>6
  <1>8. Fits(c) /\ (StacksFit => Fits(d))
    BY <1>2, <1>4, <1>5, <1>6, <1>7 DEF Fits, max
  <1> HIDE DEF c, d
  <1>9. ASSUME NEW w \in Weights
        PROVE  /\ w[c] + w[d] <= w[a] + w[b]
               /\ a = b => w[d] <= w[a]
    <2>1. w[c] + w[d] <= w[a] + w[b]
      <3>1. \A p, q, r, s \in Stock :
              /\ q.kind = p.kind /\ r.kind = p.kind /\ s.kind = p.kind
              /\ MaxStack[p.kind] > 1 /\ r.n + s.n = p.n + q.n
              => w[r] + w[s] <= w[p] + w[q]
        BY DEF Weights
      <3>2. MaxStack[a.kind] > 1 /\ c.n + d.n = a.n + b.n
        BY <1>2, <1>4, <1>5 DEF max
      <3> QED BY <1>1, <1>2, <1>5, <3>1, <3>2
    <2>2. CASE StacksFit
      <3>1. \A e, f \in Stock : e.kind = f.kind /\ e.n <= f.n => w[e] <= w[f]
        BY DEF Weights
      <3>2. w[d] <= w[a]
        BY <1>1, <1>5, <1>7, <2>2, <3>1
      <3> QED BY <2>1, <3>2
    <2>3. CASE ~StacksFit
      <3>1. \A e, f \in Stock : e.kind = f.kind /\ MaxStack[e.kind] > 1 => w[e] = w[f]
        BY <2>3 DEF Weights
      <3>2. w[d] = w[a] /\ w[a] \in Nat
        BY <1>1, <1>2, <1>5, <3>1 DEF max, Weights
      <3> QED BY <2>1, <3>2
    <2> QED BY <2>2, <2>3
  <1> QED BY <1>4, <1>8, <1>9 DEF st, rest, c, d

LEMMA RestLeft ==
    ASSUME NEW limit \in Nat, NEW list \in Lists(limit), NEW s, Holds(list, s),
           NEW rest \in Nat, StacksFit => Fits(Counting(EntryAt(list, s), rest))
    PROVE  LET a == EntryAt(list, s)
           IN  /\ WithRest(list, s, rest) \in Lists(limit)
               /\ a \in Stock /\ Counting(a, rest) \in Stock
               /\ \A w \in [Stock -> Nat] :
                     Weigh(w, WithRest(list, s, rest)) + w[a]
                         <= Weigh(w, list) + w[Counting(a, rest)]
  <1> DEFINE a == EntryAt(list, s)
             d == Counting(a, rest)
             new == WithRest(list, s, rest)
             less == WithoutSlot(list, s)
             more == Recounted(list, s, rest)
  <1>1. list \in Seq(Ok(limit)) /\ Ok(limit) \subseteq Stock
    BY OkIs
  <1>2. less \in Lists(limit) /\ a \in Stock
        /\ \A w \in [Stock -> Nat] : Weigh(w, list) = Weigh(w, less) + w[a]
    BY <1>1, Take, TakeSorted
  <1>3. more \in Lists(limit) /\ d \in Stock
        /\ \A w \in [Stock -> Nat] : Weigh(w, more) + w[a] = Weigh(w, list) + w[d]
    <2>1. /\ more \in Lists(limit) /\ d \in Ok(limit)
          /\ \A w \in [Stock -> Nat] : Weigh(w, more) + w[a] = Weigh(w, list) + w[d]
      BY Recount
    <2> QED BY <1>1, <2>1
  <1>4. new = IF rest < 1 THEN less ELSE more
    BY DEF WithRest, Recounted
  <1>5. less \in Seq(Stock) /\ more \in Seq(Stock) /\ list \in Seq(Stock)
    BY <1>2, <1>3, OkIs
  <1> HIDE DEF a, d, new, less, more
  <1>6. ASSUME NEW w \in [Stock -> Nat]
        PROVE  Weigh(w, new) + w[a] <= Weigh(w, list) + w[d]
    <2>1. w[a] \in Nat /\ w[d] \in Nat
      BY <1>2, <1>3
    <2>2. Weigh(w, less) \in Nat /\ Weigh(w, list) \in Nat /\ Weigh(w, more) \in Nat
      BY <1>5, WeighNothing
    <2> QED BY <1>2, <1>3, <1>4, <2>1, <2>2
  <1> QED BY <1>2, <1>3, <1>4, <1>6 DEF a, d, new

LEMMA MovedWithinWeighs ==
    ASSUME NEW limit \in Nat, NEW list \in Lists(limit), NEW s, NEW t \in 0 .. limit,
           CanMove(list, list, s, t)
    PROVE  /\ MovedWithin(list, s, t) \in Lists(limit)
           /\ \A w \in Weights : Weigh(w, MovedWithin(list, s, t)) <= Weigh(w, list)
  <1> DEFINE a == EntryAt(list, s)
             b == EntryAt(list, t)
             new == MovedWithin(list, s, t)
  <1>1. list \in Seq(Ok(limit)) /\ Ok(limit) \subseteq Stock /\ list \in Seq(Stock) /\ Holds(list, s)
        /\ Lists(limit) \subseteq Seq(Stock)
    BY OkIs DEF CanMove
  <1>2. a \in Ok(limit) /\ a.at = s /\ a \in Stock
    BY <1>1, Take
  <1>3. CASE ~Holds(list, t)
    <2> DEFINE less == WithoutSlot(list, s)
               e == [a EXCEPT !.at = t]
    <2>1. new = WithSlot(less, e)
      BY <1>3 DEF MovedWithin, EntryAt
    <2>2. less \in Lists(limit) /\ ~Holds(less, t)
      BY <1>1, <1>3, TakeSorted
    <2>3. e \in Ok(limit) /\ e.at = t /\ e.kind = a.kind /\ e.n = a.n
      BY <1>2 DEF Ok, Slots, Fits
    <2>4. \A w \in [Stock -> Nat] : Weigh(w, list) = Weigh(w, less) + w[a]
      BY <1>1, Take
    <2> HIDE DEF less, e, a, new
    <2>5. new \in Lists(limit)
          /\ \A w \in [Stock -> Nat] : Weigh(w, new) = Weigh(w, less) + w[e]
      BY <2>1, <2>2, <2>3, Put
    <2>6. ASSUME NEW w \in Weights
          PROVE  Weigh(w, new) <= Weigh(w, list)
      <3>1. w \in [Stock -> Nat] /\ w[a] = w[e] /\ w[a] \in Nat
        BY <1>1, <1>2, <2>3, SameWeight DEF Weights
      <3>2. Weigh(w, less) \in Nat
        BY <1>1, <2>2, <3>1, WeighNothing
      <3> QED BY <2>4, <2>5, <3>1, <3>2
    <2> QED BY <2>5, <2>6 DEF new
  <1>4. CASE Holds(list, t)
    <2> DEFINE st == Stacked(a, b)
               rest == Rest(a, b)
               more == Recounted(list, t, st)
    <2>1. b \in Ok(limit) /\ b.at = t /\ b \in Stock /\ CanStack(a, b)
      BY <1>1, <1>4, Take DEF CanMove, EntryAt
    <2>2. /\ st \in Nat /\ rest \in Nat
          /\ Fits(Counting(b, st))
          /\ StacksFit => Fits(Counting(a, rest))
          /\ \A w \in Weights :
                /\ w[Counting(b, st)] + w[Counting(a, rest)] <= w[a] + w[b]
                /\ a = b => w[Counting(a, rest)] <= w[a]
      <3> HIDE DEF a, b
      <3> QED BY <1>2, <2>1, StackWeighs
    <2>3. new = WithRest(more, s, rest)
      BY <1>4 DEF MovedWithin, EntryAt, Recounted
    <2> HIDE DEF st, rest, new
    <2>4. /\ more \in Lists(limit)
          /\ Counting(b, st) \in Ok(limit)
          /\ \A x : Positions(more, x) = Positions(list, x)
          /\ \A x : x # t /\ Holds(list, x) => EntryAt(more, x) = EntryAt(list, x)
          /\ EntryAt(more, t) = Counting(b, st)
          /\ \A w \in [Stock -> Nat] :
                Weigh(w, more) + w[b] = Weigh(w, list) + w[Counting(b, st)]
      BY <1>4, <2>2, Recount
    <2> HIDE DEF more
    <2>5. Holds(more, s)
      BY <1>1, <2>4 DEF Holds
    <2> DEFINE a2 == EntryAt(more, s)
               d == Counting(a, rest)
               c == Counting(b, st)
    <2>6. Counting(a2, rest) = d
      <3>1. CASE s = t
        <4>1. a = b
          BY <3>1
        <4> HIDE DEF a, b
        <4> QED BY <2>4, <3>1, <4>1 DEF Counting
      <3>2. CASE s # t
        BY <1>1, <2>4, <3>2
      <3> QED BY <3>1, <3>2
    <2>7. a2 = IF s = t THEN c ELSE a
      BY <1>1, <2>4
    <2> HIDE DEF a2
    <2>8. /\ new \in Lists(limit) /\ d \in Stock
          /\ \A w \in [Stock -> Nat] : Weigh(w, new) + w[a2] <= Weigh(w, more) + w[d]
      <3>1. StacksFit => Fits(Counting(a2, rest))
        BY <2>2, <2>6
      <3>2. LET x == EntryAt(more, s)
            IN  /\ WithRest(more, s, rest) \in Lists(limit)
                /\ x \in Stock /\ Counting(x, rest) \in Stock
                /\ \A w \in [Stock -> Nat] :
                      Weigh(w, WithRest(more, s, rest)) + w[x]
                          <= Weigh(w, more) + w[Counting(x, rest)]
        BY <2>2, <2>4, <2>5, <3>1, RestLeft DEF a2
      <3> HIDE DEF a, d
      <3> QED BY <2>3, <2>6, <3>2 DEF a2
    <2>9. s = t => a = b
      OBVIOUS
    <2>10. c \in Stock
      BY <1>1, <2>4
    <2>11. \A w \in Weights : w[c] + w[d] <= w[a] + w[b] /\ (a = b => w[d] <= w[a])
      BY <2>2
    <2>12. \A w \in [Stock -> Nat] : Weigh(w, more) + w[b] = Weigh(w, list) + w[c]
      BY <2>4
    <2> HIDE DEF a, b, c, d
    <2>13. ASSUME NEW w \in Weights
           PROVE  Weigh(w, new) <= Weigh(w, list)
      <3>1. w \in [Stock -> Nat]
        BY DEF Weights
      <3>2. w[a] \in Nat /\ w[b] \in Nat /\ w[c] \in Nat /\ w[d] \in Nat
        BY <1>2, <2>1, <2>8, <2>10, <3>1
      <3>3. Weigh(w, new) \in Nat /\ Weigh(w, list) \in Nat /\ Weigh(w, more) \in Nat
        BY <1>1, <2>4, <2>8, <3>1, WeighNothing
      <3>4. Weigh(w, new) + w[a2] <= Weigh(w, more) + w[d]
            /\ Weigh(w, more) + w[b] = Weigh(w, list) + w[c]
        BY <2>8, <2>12, <3>1
      <3>5. w[c] + w[d] <= w[a] + w[b] /\ (a = b => w[d] <= w[a])
        BY <2>11
      <3>6. CASE s = t
        BY <2>7, <2>9, <3>2, <3>3, <3>4, <3>5, <3>6
      <3>7. CASE s # t
        BY <2>7, <3>2, <3>3, <3>4, <3>5, <3>7
      <3> QED BY <3>6, <3>7
    <2> QED BY <2>8, <2>13 DEF new
  <1> QED BY <1>3, <1>4

LEMMA MovedToWeighs ==
    ASSUME NEW limit \in Nat, NEW from \in Lists(limit), NEW to \in Lists(limit), NEW s,
           NEW t \in 0 .. limit, CanMove(from, to, s, t)
    PROVE  /\ LeftOf(from, to, s, t) \in Lists(limit)
           /\ MovedTo(from, to, s, t) \in Lists(limit)
           /\ \A w \in Weights :
                 Weigh(w, LeftOf(from, to, s, t)) + Weigh(w, MovedTo(from, to, s, t))
                     <= Weigh(w, from) + Weigh(w, to)
  <1> DEFINE a == EntryAt(from, s)
             b == EntryAt(to, t)
             left == LeftOf(from, to, s, t)
             more == MovedTo(from, to, s, t)
  <1>1. /\ from \in Seq(Ok(limit)) /\ to \in Seq(Ok(limit)) /\ Holds(from, s)
        /\ Ok(limit) \subseteq Stock /\ Lists(limit) \subseteq Seq(Stock)
    BY OkIs DEF CanMove
  <1>2. a \in Ok(limit) /\ a \in Stock
    BY <1>1, Take
  <1>3. CASE ~Holds(to, t)
    <2> DEFINE e == [a EXCEPT !.at = t]
    <2>1. left = WithoutSlot(from, s) /\ more = WithSlot(to, e)
      BY <1>3 DEF LeftOf, MovedTo, EntryAt
    <2>2. /\ left \in Lists(limit)
          /\ \A w \in [Stock -> Nat] : Weigh(w, from) = Weigh(w, left) + w[a]
      BY <1>1, <2>1, Take, TakeSorted
    <2>3. e \in Ok(limit) /\ e.at = t /\ e.kind = a.kind /\ e.n = a.n
      BY <1>2 DEF Ok, Slots, Fits
    <2> HIDE DEF e, a, left, more
    <2>4. more \in Lists(limit) /\ \A w \in [Stock -> Nat] : Weigh(w, more) = Weigh(w, to) + w[e]
      BY <1>3, <2>1, <2>3, Put
    <2>5. ASSUME NEW w \in Weights
          PROVE  Weigh(w, left) + Weigh(w, more) <= Weigh(w, from) + Weigh(w, to)
      <3>1. w \in [Stock -> Nat] /\ w[a] = w[e] /\ w[a] \in Nat
        BY <1>1, <1>2, <2>3, SameWeight DEF Weights
      <3>2. Weigh(w, left) \in Nat /\ Weigh(w, to) \in Nat
        BY <1>1, <2>2, <3>1, WeighNothing
      <3> QED BY <2>2, <2>4, <3>1, <3>2
    <2> QED BY <2>2, <2>4, <2>5 DEF left, more
  <1>4. CASE Holds(to, t)
    <2> DEFINE st == Stacked(a, b)
               rest == Rest(a, b)
               c == Counting(b, st)
               d == Counting(a, rest)
    <2>1. b \in Ok(limit) /\ b \in Stock /\ CanStack(a, b)
      BY <1>1, <1>4, Take DEF CanMove, EntryAt
    <2>2. /\ st \in Nat /\ rest \in Nat /\ Fits(c)
          /\ StacksFit => Fits(d)
          /\ \A w \in Weights : w[c] + w[d] <= w[a] + w[b]
      <3> HIDE DEF a, b
      <3> QED BY <1>2, <2>1, StackWeighs
    <2>3. left = WithRest(from, s, rest) /\ more = Recounted(to, t, st)
      BY <1>4 DEF LeftOf, MovedTo, EntryAt, Recounted
    <2> HIDE DEF st, rest, left, more
    <2>4. /\ more \in Lists(limit) /\ c \in Ok(limit)
          /\ \A w \in [Stock -> Nat] : Weigh(w, more) + w[b] = Weigh(w, to) + w[c]
      BY <1>4, <2>2, <2>3, Recount
    <2>5. /\ left \in Lists(limit) /\ d \in Stock
          /\ \A w \in [Stock -> Nat] : Weigh(w, left) + w[a] <= Weigh(w, from) + w[d]
      <3>1. LET x == EntryAt(from, s)
            IN  /\ WithRest(from, s, rest) \in Lists(limit)
                /\ x \in Stock /\ Counting(x, rest) \in Stock
                /\ \A w \in [Stock -> Nat] :
                      Weigh(w, WithRest(from, s, rest)) + w[x]
                          <= Weigh(w, from) + w[Counting(x, rest)]
        BY <1>1, <2>2, RestLeft
      <3> QED BY <2>3, <3>1
    <2> HIDE DEF a, b, c, d
    <2>6. ASSUME NEW w \in Weights
          PROVE  Weigh(w, left) + Weigh(w, more) <= Weigh(w, from) + Weigh(w, to)
      <3>1. w \in [Stock -> Nat]
        BY DEF Weights
      <3>2. w[a] \in Nat /\ w[b] \in Nat /\ w[c] \in Nat /\ w[d] \in Nat
        BY <1>1, <1>2, <2>1, <2>4, <2>5, <3>1
      <3>3. /\ Weigh(w, left) \in Nat /\ Weigh(w, more) \in Nat
            /\ Weigh(w, from) \in Nat /\ Weigh(w, to) \in Nat
        BY <1>1, <2>4, <2>5, <3>1, WeighNothing
      <3> QED BY <2>2, <2>4, <2>5, <3>1, <3>2, <3>3
    <2> QED BY <2>4, <2>5, <2>6 DEF left, more
  <1> QED BY <1>3, <1>4

Relevelled(list, i, l) == [list EXCEPT ![i].level = l]

LEMMA Relevel ==
    ASSUME NEW limit \in Nat, NEW list \in Lists(limit), NEW i \in 1 .. Len(list),
           NEW l \in Levelled
    PROVE  /\ Relevelled(list, i, l) \in Lists(limit)
           /\ \A w \in Weights : Weigh(w, Relevelled(list, i, l)) = Weigh(w, list)
  <1> DEFINE e == [list[i] EXCEPT !.level = l]
             new == Relevelled(list, i, l)
  <1>1. /\ list \in Seq(Ok(limit)) /\ list \in Seq(Stock) /\ Ascending(list)
        /\ Ok(limit) \subseteq Stock
    BY OkIs DEF Lists
  <1>2. list[i] \in Ok(limit)
    BY <1>1
  <1>3. e \in Ok(limit) /\ e.at = list[i].at /\ e.kind = list[i].kind /\ e.n = list[i].n
    BY <1>2 DEF Ok, Slots, Fits
  <1>4. new = [list EXCEPT ![i] = e]
    BY <1>1 DEF Relevelled
  <1> HIDE DEF e, new
  <1>5. /\ new \in Seq(Ok(limit)) /\ Len(new) = Len(list)
        /\ \A k \in 1 .. Len(list) : new[k].at = list[k].at
    BY <1>1, <1>3, <1>4
  <1>6. new \in Lists(limit)
    BY <1>1, <1>5 DEF Lists, Ascending
  <1>7. ASSUME NEW w \in Weights
        PROVE  Weigh(w, new) = Weigh(w, list)
    <2>1. w \in [Stock -> Nat] /\ list[i] \in Stock /\ e \in Stock
      BY <1>1, <1>2, <1>3 DEF Weights
    <2>2. w[e] = w[list[i]] /\ w[e] \in Nat
      BY <1>3, <2>1, SameWeight
    <2>3. Weigh(w, new) + w[list[i]] = Weigh(w, list) + w[e]
      BY <1>1, <1>4, <2>1, WeighReplaced
    <2>4. Weigh(w, new) \in Nat /\ Weigh(w, list) \in Nat
      <3>1. new \in Seq(Stock)
        BY <1>6, OkIs
      <3> QED BY <1>1, <2>1, <3>1, WeighNothing
    <2> QED BY <2>2, <2>3, <2>4
  <1> QED BY <1>6, <1>7 DEF new

-----------------------------------------------------------------------------
(* The inductive invariant.                                                *)

RecoveryLists ==
    {rec \in [count   : 0 .. MaxRecovery,
              entries : [0 .. MaxRecovery - 1 -> Ok(0) \cup {Nothing}]] :
        Cardinality({r \in 0 .. MaxRecovery - 1 : rec.entries[r] # Nothing}) <= rec.count}

\* What is in the recovery list weighs; that recovering it costs Alz is in the
\* weight Margins.
WeighRecovery(w, rec) ==
    Total([i \in 1 .. MaxRecovery |->
              IF rec.entries[i - 1] = Nothing THEN 0 ELSE w[rec.entries[i - 1]]])

UnitsOf(k) == [e \in Stock |-> IF e.kind = k THEN Units(e) ELSE 0]
Worths     == [e \in Stock |-> Value(e)]
Margins    == [e \in Stock |-> Value(e) - SellPrice[e.kind]]

Carried(w) == Weigh(w, inv) + Weigh(w, equip) + Weigh(w, temp)
Stored(w)  == Weigh(w, saved["INVENTORY"]) + Weigh(w, saved["EQUIPMENT"])

Held(w)    == Carried(w) + WeighRecovery(w, recovery)
Riches     == alz + Carried(Worths) + WeighRecovery(Margins, recovery)

SoundItems == {e \in Items : StacksFit => Fits(e)}
ItemParts  == {"EQUIPMENT", "INVENTORY"}

\* The lists are in order, live and stored, and a change of the equipment, which
\* is always one of the inventory as well, marks both.
Typed ==
    /\ inv \in Lists(MaxSlots - 1) /\ temp \in Lists(MaxSlots - 1) /\ equip \in Worn
    /\ recovery \in RecoveryLists /\ alz \in Nat
    /\ DOMAIN saved = Parts /\ saved["INFO"] \in Nat
    /\ saved["EQUIPMENT"] \in Worn /\ saved["INVENTORY"] \in Lists(MaxSlots - 1)
    /\ \A o \in DOMAIN offers : offers[o] \in SoundItems
    /\ closing \in BOOLEAN /\ fault \in BOOLEAN
    /\ made \in [Kinds -> Nat] /\ worth \in Nat
    /\ mask \subseteq Parts /\ slip \subseteq {"INFO", "INVENTORY"} /\ lost \subseteq Parts
    /\ "EQUIPMENT" \in mask => "INVENTORY" \in mask

\* Units are neither carried nor stored that did not come into being.
UnitsCounted ==
    StacksFit =>
        \A k \in Kinds :
            /\ Held(UnitsOf(k)) <= made[k]
            /\ lost \cap ItemParts = {} => Stored(UnitsOf(k)) <= made[k]

\* The parts are stored at different times, so each mixture of a live and a
\* stored part that the marks allow for is counted.
WorthCounted ==
    /\ Riches <= worth
    /\ "INVENTORY" \notin mask /\ lost \cap ItemParts = {} => alz + Stored(Worths) <= worth
    /\ "INFO" \notin mask \cup lost => saved["INFO"] + Carried(Worths) <= worth
    /\ lost = {} => saved["INFO"] + Stored(Worths) <= worth

StorageIInv == Typed /\ UnitsCounted /\ WorthCounted /\ ChangesMarked

-----------------------------------------------------------------------------
(* Units, worths and margins are weights.                                  *)

LEMMA UnitsWeigh ==
    ASSUME NEW k \in Kinds
    PROVE  /\ UnitsOf(k) \in [Stock -> Nat]
           /\ StacksFit => UnitsOf(k) \in Weights
           /\ \A list \in Seq(Stock) : UnitsIn(list, k) = Weigh(UnitsOf(k), list)
  <1>1. MaxStack \in [Kinds -> Nat]
    BY StackAssumption
  <1>2. \A e \in Stock : e.kind \in Kinds /\ e.n \in Nat
    BY DEF Stock
  <1>3. \A e \in Stock : Units(e) \in Nat
    BY <1>2 DEF Units
  <1>4. UnitsOf(k) \in [Stock -> Nat]
    BY <1>3 DEF UnitsOf
  <1>5. \A e \in Stock : UnitsOf(k)[e] =
           IF e.kind = k THEN IF MaxStack[e.kind] > 1 THEN e.n ELSE 1 ELSE 0
    BY DEF UnitsOf, Units
  <1>6. ASSUME StacksFit
        PROVE  UnitsOf(k) \in Weights
    <2> DEFINE w == UnitsOf(k)
    <2>1. w \in [Stock -> Nat] /\ \A e \in Stock : w[e] =
             IF e.kind = k THEN IF MaxStack[e.kind] > 1 THEN e.n ELSE 1 ELSE 0
      BY <1>4, <1>5
    <2> HIDE DEF w
    <2>2. \A e, f \in Stock : e.kind = f.kind /\ e.n <= f.n => w[e] <= w[f]
      BY <1>2, <2>1
    <2>3. \A a, b, c, d \in Stock :
              /\ b.kind = a.kind /\ c.kind = a.kind /\ d.kind = a.kind
              /\ MaxStack[a.kind] > 1 /\ c.n + d.n = a.n + b.n
              => w[c] + w[d] <= w[a] + w[b]
      BY <1>2, <2>1
    <2>4. w \in Weights
      BY <1>6, <2>1, <2>2, <2>3 DEF Weights
    <2> QED BY <2>4 DEF w
  <1>7. ASSUME NEW list \in Seq(Stock)
        PROVE  UnitsIn(list, k) = Weigh(UnitsOf(k), list)
    <2>1. \A i \in DOMAIN list : list[i] \in Stock
      OBVIOUS
    <2>2. \A i \in DOMAIN list :
             (IF list[i].kind = k THEN Units(list[i]) ELSE 0) = UnitsOf(k)[list[i]]
      BY <2>1 DEF UnitsOf
    <2>3. [i \in DOMAIN list |-> IF list[i].kind = k THEN Units(list[i]) ELSE 0]
             = [i \in DOMAIN list |-> UnitsOf(k)[list[i]]]
      BY <2>2
    <2> QED BY <2>3 DEF UnitsIn, Weigh
  <1> QED BY <1>4, <1>6, <1>7

LEMMA WorthsWeigh ==
    /\ Worths \in Weights /\ Margins \in Weights
    /\ \A e \in Stock : /\ SellPrice[e.kind] \in Nat
                        /\ Worths[e] = SellPrice[e.kind] + Margins[e]
                        /\ e.kind \in Coins => e.n <= Worths[e]
    /\ \A list \in Seq(Stock) : ValueOf(list) = Weigh(Worths, list)
  <1>1. MaxStack \in [Kinds -> Nat] /\ SellPrice \in [Kinds -> Nat]
    BY StackAssumption, StorageAssumption
  <1>2. \A e \in Stock : e.kind \in Kinds /\ e.n \in Nat /\ SellPrice[e.kind] \in Nat
    BY <1>1 DEF Stock
  <1>3. \A e \in Stock : /\ Value(e) \in Nat /\ Value(e) - SellPrice[e.kind] \in Nat
                         /\ e.kind \in Coins => e.n <= Value(e)
    BY <1>2 DEF Value
  <1>4. Worths \in [Stock -> Nat] /\ Margins \in [Stock -> Nat]
    BY <1>3 DEF Worths, Margins
  <1>5. \A e \in Stock : Worths[e] = Value(e) /\ Margins[e] = Value(e) - SellPrice[e.kind]
    BY DEF Worths, Margins
  <1>6. \A c \in Coins : MaxStack[c] <= 1
    BY StorageAssumption
  <1>7. \A e \in Stock : MaxStack[e.kind] > 1 => Value(e) = SellPrice[e.kind]
    BY <1>1, <1>2, <1>6 DEF Value
  <1>8. \A e, f \in Stock : e.kind = f.kind /\ e.n <= f.n => Value(e) <= Value(f)
    BY <1>2 DEF Value
  <1>9. \A a, b \in Stock : b.kind = a.kind => SellPrice[a.kind] = SellPrice[b.kind]
    OBVIOUS
  <1>10. Worths \in Weights
    <2> DEFINE w == Worths
    <2>1. w \in [Stock -> Nat] /\ \A e \in Stock : w[e] = Value(e)
      BY <1>4, <1>5
    <2> HIDE DEF w
    <2>2. \A e, f \in Stock : e.kind = f.kind /\ e.n <= f.n => w[e] <= w[f]
      BY <1>8, <2>1
    <2>3. \A e, f \in Stock : e.kind = f.kind /\ MaxStack[e.kind] > 1 => w[e] = w[f]
      BY <1>2, <1>7, <2>1
    <2>4. \A a, b, c, d \in Stock :
              /\ b.kind = a.kind /\ c.kind = a.kind /\ d.kind = a.kind
              /\ MaxStack[a.kind] > 1 /\ c.n + d.n = a.n + b.n
              => w[c] + w[d] <= w[a] + w[b]
      <3>1. \A e \in Stock : w[e] \in Nat
        BY <2>1
      <3> QED BY <2>3, <3>1
    <2>5. w \in Weights
      BY <2>1, <2>2, <2>3, <2>4 DEF Weights
    <2> QED BY <2>5 DEF w
  <1>11. Margins \in Weights
    <2> DEFINE w == Margins
    <2>1. w \in [Stock -> Nat] /\ \A e \in Stock : w[e] = Value(e) - SellPrice[e.kind]
      BY <1>4, <1>5
    <2> HIDE DEF w
    <2>2. \A e, f \in Stock : e.kind = f.kind /\ e.n <= f.n => w[e] <= w[f]
      BY <1>2, <1>3, <1>8, <2>1
    <2>3. \A e, f \in Stock : e.kind = f.kind /\ MaxStack[e.kind] > 1 => w[e] = w[f]
      BY <1>2, <1>7, <2>1
    <2>4. \A a, b, c, d \in Stock :
              /\ b.kind = a.kind /\ c.kind = a.kind /\ d.kind = a.kind
              /\ MaxStack[a.kind] > 1 /\ c.n + d.n = a.n + b.n
              => w[c] + w[d] <= w[a] + w[b]
      <3>1. \A e \in Stock : w[e] \in Nat
        BY <2>1
      <3> QED BY <2>3, <3>1
    <2>5. w \in Weights
      BY <2>1, <2>2, <2>3, <2>4 DEF Weights
    <2> QED BY <2>5 DEF w
  <1>12. ASSUME NEW list \in Seq(Stock)
         PROVE  ValueOf(list) = Weigh(Worths, list)
    <2>1. \A i \in DOMAIN list : list[i] \in Stock
      OBVIOUS
    <2>2. \A i \in DOMAIN list : Value(list[i]) = Worths[list[i]]
      BY <1>5, <2>1
    <2>3. [i \in DOMAIN list |-> Value(list[i])] = [i \in DOMAIN list |-> Worths[list[i]]]
      BY <2>2
    <2> QED BY <2>3 DEF ValueOf, Weigh
  <1>13. \A e \in Stock : Worths[e] = SellPrice[e.kind] + Margins[e]
    BY <1>2, <1>3, <1>5
  <1> QED BY <1>2, <1>3, <1>5, <1>10, <1>11, <1>12, <1>13

-----------------------------------------------------------------------------
(* The recovery list.                                                      *)

LEMMA RecoveryIs ==
    ASSUME NEW w \in [Stock -> Nat], NEW rec \in RecoveryLists
    PROVE  WeighRecovery(w, rec) \in Nat
  <1>1. MaxRecovery \in Nat \ {0} /\ 0 \in Nat
    BY StorageAssumption
  <1>2. /\ rec.entries \in [0 .. MaxRecovery - 1 -> Ok(0) \cup {Nothing}]
        /\ Ok(0) \subseteq Stock
    BY <1>1, OkIs DEF RecoveryLists
  <1> DEFINE f == [i \in 1 .. MaxRecovery |->
                      IF rec.entries[i - 1] = Nothing THEN 0 ELSE w[rec.entries[i - 1]]]
  <1>3. \A i \in 1 .. MaxRecovery : f[i] \in Nat
    BY <1>1, <1>2
  <1>4. f \in Seq(Nat)
    BY <1>1, <1>3
  <1>5. Total(f) \in Nat
    <2> HIDE DEF f
    <2>1. Len(f) \in Nat
      BY <1>4
    <2> QED BY <1>4, <2>1, TotalIs
  <1> QED BY <1>5 DEF WeighRecovery

Entered(rec, count, r, e) == [count |-> count, entries |-> [rec.entries EXCEPT ![r] = e]]

LEMMA EntryWeighs ==
    ASSUME NEW w \in [Stock -> Nat], NEW rec \in RecoveryLists, NEW r \in 0 .. MaxRecovery - 1,
           NEW count, NEW e \in Ok(0) \cup {Nothing}
    PROVE  WeighRecovery(w, Entered(rec, count, r, e))
               + (IF rec.entries[r] = Nothing THEN 0 ELSE w[rec.entries[r]])
           = WeighRecovery(w, rec) + (IF e = Nothing THEN 0 ELSE w[e])
  <1> DEFINE new == [rec.entries EXCEPT ![r] = e]
             old == rec.entries
             Weight(x) == IF x = Nothing THEN 0 ELSE w[x]
             f == [i \in 1 .. MaxRecovery |-> Weight(old[i - 1])]
             g == [i \in 1 .. MaxRecovery |-> Weight(new[i - 1])]
  <1>1. MaxRecovery \in Nat \ {0} /\ 0 \in Nat
    BY StorageAssumption
  <1>2. /\ old \in [0 .. MaxRecovery - 1 -> Ok(0) \cup {Nothing}]
        /\ Ok(0) \subseteq Stock
    BY <1>1, OkIs DEF RecoveryLists
  <1>3. /\ new \in [0 .. MaxRecovery - 1 -> Ok(0) \cup {Nothing}]
        /\ new[r] = e /\ \A q \in 0 .. MaxRecovery - 1 : q # r => new[q] = old[q]
    BY <1>2
  <1> HIDE DEF new, old
  <1>4. \A x \in Ok(0) \cup {Nothing} : Weight(x) \in Nat
    BY <1>2
  <1> HIDE DEF Weight
  <1>5. \A i \in 1 .. MaxRecovery : i - 1 \in 0 .. MaxRecovery - 1
    BY <1>1
  <1>6. f \in [1 .. MaxRecovery -> Nat] /\ g \in [1 .. MaxRecovery -> Nat]
    <2>1. \A i \in 1 .. MaxRecovery : f[i] \in Nat /\ g[i] \in Nat
      BY <1>2, <1>3, <1>4, <1>5
    <2> QED BY <1>1, <2>1
  <1>7. \A k \in 1 .. MaxRecovery : k # r + 1 => g[k] = f[k]
    <2>1. ASSUME NEW k \in 1 .. MaxRecovery, k # r + 1
          PROVE  new[k - 1] = old[k - 1]
      <3>1. k - 1 # r
        BY <2>1
      <3> QED BY <1>3, <1>5, <3>1
    <2> QED BY <2>1
  <1>8. r + 1 \in 1 .. MaxRecovery /\ r + 1 - 1 = r
    BY <1>1
  <1>9. f[r + 1] = Weight(old[r]) /\ g[r + 1] = Weight(e)
    BY <1>3, <1>8
  <1>10. Total(f) = WeighRecovery(w, rec)
    BY DEF WeighRecovery, old, Weight
  <1>11. Total(g) = WeighRecovery(w, Entered(rec, count, r, e))
    BY DEF WeighRecovery, new, Weight, Entered
  <1>12. Total(g) + f[r + 1] = Total(f) + g[r + 1]
    <2> HIDE DEF f, g
    <2> QED BY <1>1, <1>6, <1>7, <1>8, TotalReplaced
  <1> HIDE DEF f, g
  <1> QED BY <1>9, <1>10, <1>11, <1>12 DEF Weight, old

LEMMA EmptyRecovery ==
    /\ NoRecovery \in RecoveryLists
    /\ \A w \in [Stock -> Nat] : WeighRecovery(w, NoRecovery) = 0
  <1>1. MaxRecovery \in Nat \ {0}
    BY StorageAssumption
  <1>2. {r \in 0 .. MaxRecovery - 1 : NoRecovery.entries[r] # Nothing} = {}
    BY DEF NoRecovery
  <1>3. NoRecovery \in RecoveryLists
    BY <1>1, <1>2, FS_EmptySet DEF RecoveryLists, NoRecovery
  <1>4. ASSUME NEW w \in [Stock -> Nat]
        PROVE  WeighRecovery(w, NoRecovery) = 0
    <2> DEFINE f == [i \in 1 .. MaxRecovery |-> 0]
    <2>1. f \in Seq(Nat) /\ Len(f) = MaxRecovery /\ \A i \in 1 .. MaxRecovery : f[i] = 0
      BY <1>1
    <2>2. WeighRecovery(w, NoRecovery) = Total(f)
      <3>1. \A i \in 1 .. MaxRecovery : NoRecovery.entries[i - 1] = Nothing
        BY <1>1 DEF NoRecovery
      <3> QED BY <3>1 DEF WeighRecovery
    <2> HIDE DEF f
    <2>3. PICK a \in [0 .. MaxRecovery -> Nat] :
             /\ a[0] = 0
             /\ \A k \in 1 .. MaxRecovery : a[k] = a[k - 1] + f[k]
             /\ Total(f) = a[MaxRecovery]
      BY <2>1, TotalIs
    <2> DEFINE S == {m \in 0 .. MaxRecovery : a[m] = 0}
    <2>4. 0 \in S /\ \A m \in 1 .. MaxRecovery : m - 1 \in S => m \in S
      BY <1>1, <2>1, <2>3
    <2>5. MaxRecovery \in S
      <3> HIDE DEF S
      <3>1. \A m \in 0 .. MaxRecovery : m \in S
        BY <1>1, <2>4, Rises
      <3> QED BY <1>1, <3>1
    <2> QED BY <2>2, <2>3, <2>5
  <1> QED BY <1>3, <1>4

-----------------------------------------------------------------------------
(* The requests that name several slots.                                   *)

\* A list of moves: what is moved never weighs more than before.
LEMMA MovedIs ==
    ASSUME NEW moves \in Seq((0 .. 2 * MaxSlots - 1) \X SlotNo),
           inv \in Lists(MaxSlots - 1), temp \in Lists(MaxSlots - 1)
    PROVE  LET b == Moved(moves)
           IN  /\ b.inv \in Lists(MaxSlots - 1) /\ b.temp \in Lists(MaxSlots - 1)
               /\ \A w \in Weights :
                     Weigh(w, b.inv) + Weigh(w, b.temp) <= Weigh(w, inv) + Weigh(w, temp)
  <1> DEFINE n == Len(moves)
             L == Lists(MaxSlots - 1)
             start == [ok |-> TRUE, inv |-> inv, temp |-> temp]
             T == [ok : BOOLEAN, inv : L, temp : L]
             Fine == {b \in T : \A w \in Weights :
                         Weigh(w, b.inv) + Weigh(w, b.temp) <= Weigh(w, inv) + Weigh(w, temp)}
             Good == [i \in 0 .. n |-> Fine]
             Runs(g) == g = [i \in 0 .. n |->
                                IF i = 0 THEN start ELSE ListedMove(g[i - 1], moves[i])]
             all == CHOOSE g : Runs(g)
  <1>0. /\ n \in Nat /\ Fine \subseteq T
        /\ \A i \in 1 .. n : moves[i] \in (0 .. 2 * MaxSlots - 1) \X SlotNo
    OBVIOUS
  <1> HIDE DEF n
  <1>1. Good \in [0 .. n -> SUBSET T] /\ \A i \in 0 .. n : Good[i] = Fine
    BY <1>0
  <1>a. MaxSlots - 1 \in Nat /\ SlotNo = 0 .. MaxSlots - 1
    BY StorageAssumption DEF SlotNo
  <1>b. \A w \in Weights, list \in L : Weigh(w, list) \in Nat
    BY <1>a, OkIs, WeighNothing DEF Weights
  <1>c. inv \in L /\ temp \in L
    OBVIOUS
  <1>2. start \in Fine /\ Good \in [0 .. n -> SUBSET T]
    <2>1. start \in T /\ start.inv = inv /\ start.temp = temp
      OBVIOUS
    <2>2. \A w \in Weights : Weigh(w, inv) + Weigh(w, temp) <= Weigh(w, inv) + Weigh(w, temp)
      <3> HIDE DEF L
      <3>1. \A w \in Weights : Weigh(w, inv) + Weigh(w, temp) \in Int
        BY <1>b, <1>c
      <3> QED BY <3>1
    <2> HIDE DEF start
    <2> QED BY <1>1, <2>1, <2>2
  <1>3. /\ \A i \in 0 .. n : Good[i] = Fine
        /\ \A i \in 1 .. n : \A b \in Fine : ListedMove(b, moves[i]) \in Fine
    <2>1. ASSUME NEW i \in 1 .. n, NEW b \in Fine
          PROVE  ListedMove(b, moves[i]) \in Fine
      <3> DEFINE s == moves[i][1] % MaxSlots
                 t == moves[i][2]
                 Total0(w) == Weigh(w, inv) + Weigh(w, temp)
      <3>1. /\ b \in T /\ b.inv \in L /\ b.temp \in L /\ b.ok \in BOOLEAN
            /\ \A w \in Weights : Weigh(w, b.inv) + Weigh(w, b.temp) <= Total0(w)
        OBVIOUS
      <3>2. t \in 0 .. MaxSlots - 1
        BY <1>0, <1>a
      <3>3. CASE ~b.ok
        BY <3>3 DEF ListedMove
      <3>4. CASE b.ok /\ moves[i][1] < MaxSlots /\ CanMove(b.inv, b.inv, s, t)
        <4> DEFINE m == MovedWithin(b.inv, s, t)
        <4>1. m \in L /\ \A w \in Weights : Weigh(w, m) <= Weigh(w, b.inv)
          <5> HIDE DEF s, t
          <5> QED BY <1>a, <3>1, <3>2, <3>4, MovedWithinWeighs
        <4>2. ListedMove(b, moves[i]) = [b EXCEPT !.inv = m]
          BY <3>4 DEF ListedMove
        <4> HIDE DEF m, s, t, L
        <4>3. \A w \in Weights : Weigh(w, m) + Weigh(w, b.temp) <= Total0(w)
          <5>1. \A w \in Weights : /\ Weigh(w, m) \in Nat /\ Weigh(w, b.inv) \in Nat
                                   /\ Weigh(w, b.temp) \in Nat /\ Total0(w) \in Nat
            BY <1>b, <1>c, <3>1, <4>1
          <5> HIDE DEF Total0
          <5> QED BY <3>1, <4>1, <5>1
        <4> DEFINE new == [b EXCEPT !.inv = m]
        <4>4. new \in T /\ new.inv = m /\ new.temp = b.temp
          BY <3>1, <4>1
        <4> HIDE DEF new
        <4>5. new \in Fine
          BY <4>3, <4>4
        <4> QED BY <4>2, <4>5 DEF new
      <3>5. CASE b.ok /\ moves[i][1] < MaxSlots /\ ~CanMove(b.inv, b.inv, s, t)
        <4> DEFINE new == [b EXCEPT !.ok = FALSE]
        <4>1. ListedMove(b, moves[i]) = new
          BY <3>5 DEF ListedMove
        <4>2. new \in T /\ new.inv = b.inv /\ new.temp = b.temp
          BY <3>1
        <4> HIDE DEF new
        <4> QED BY <3>1, <4>1, <4>2
      <3>6. CASE b.ok /\ ~(moves[i][1] < MaxSlots) /\ CanMove(b.temp, b.inv, s, t)
        <4> DEFINE m == MovedTo(b.temp, b.inv, s, t)
                   l == LeftOf(b.temp, b.inv, s, t)
                   new == [ok |-> TRUE, inv |-> m, temp |-> l]
        <4>1. /\ m \in L /\ l \in L
              /\ \A w \in Weights : Weigh(w, l) + Weigh(w, m) <= Weigh(w, b.temp) + Weigh(w, b.inv)
          <5> HIDE DEF s, t
          <5> QED BY <1>a, <3>1, <3>2, <3>6, MovedToWeighs
        <4>2. ListedMove(b, moves[i]) = new
          BY <3>6 DEF ListedMove
        <4> HIDE DEF m, l, s, t, L
        <4>3. \A w \in Weights : Weigh(w, m) + Weigh(w, l) <= Total0(w)
          <5>1. \A w \in Weights : /\ Weigh(w, m) \in Nat /\ Weigh(w, b.inv) \in Nat
                                   /\ Weigh(w, b.temp) \in Nat /\ Total0(w) \in Nat
                                   /\ Weigh(w, l) \in Nat
            BY <1>b, <1>c, <3>1, <4>1
          <5> HIDE DEF Total0, T, Fine
          <5> TAKE w \in Weights
          <5>2. /\ Weigh(w, l) + Weigh(w, m) <= Weigh(w, b.temp) + Weigh(w, b.inv)
                /\ Weigh(w, b.inv) + Weigh(w, b.temp) <= Total0(w)
            BY <3>1, <4>1
          <5>3. /\ Weigh(w, m) \in Nat /\ Weigh(w, b.inv) \in Nat /\ Total0(w) \in Nat
                /\ Weigh(w, b.temp) \in Nat /\ Weigh(w, l) \in Nat
            BY <5>1
          <5> QED BY ONLY <5>2, <5>3
        <4>4. new \in T /\ new.inv = m /\ new.temp = l
          BY <4>1
        <4> HIDE DEF new
        <4>5. new \in Fine
          BY <4>3, <4>4
        <4> QED BY <4>2, <4>5
      <3>7. CASE b.ok /\ ~(moves[i][1] < MaxSlots) /\ ~CanMove(b.temp, b.inv, s, t)
        <4> DEFINE new == [b EXCEPT !.ok = FALSE]
        <4>1. ListedMove(b, moves[i]) = new
          BY <3>7 DEF ListedMove
        <4>2. new \in T /\ new.inv = b.inv /\ new.temp = b.temp
          BY <3>1
        <4> HIDE DEF new
        <4> QED BY <3>1, <4>1, <4>2
      <3> QED BY <3>3, <3>4, <3>5, <3>6, <3>7
    <2> QED BY <1>1, <2>1
  <1>4. \E g : Runs(g)
    <2> DEFINE G == [x \in (1 .. n) \X T |-> ListedMove(x[2], moves[x[1]])]
    <2>1. \A i \in 1 .. n : \A b \in T : G[<<i, b>>] = ListedMove(b, moves[i])
      OBVIOUS
    <2>2. Leads(G, n, Good, T, start)
      <3> HIDE DEF G, T, Fine, start
      <3> QED BY <1>0, <1>1, <1>2, <1>3, <2>1 DEF Leads
    <2>3. PICK g \in [0 .. n -> T] :
              /\ g[0] = start
              /\ \A i \in 1 .. n : g[i - 1] \in Good[i - 1] /\ g[i] = G[<<i, g[i - 1]>>]
      <3> HIDE DEF Good, G, T, start
      <3> QED BY ONLY <2>2, RunExists
    <2>4. \A i \in 1 .. n : g[i - 1] \in T
      <3> HIDE DEF T, Good, G, start
      <3>1. \A i \in 1 .. n : i - 1 \in 0 .. n
        BY <1>0
      <3> QED BY <2>3, <3>1
    <2>5. \A i \in 1 .. n : g[i] = ListedMove(g[i - 1], moves[i])
      <3> HIDE DEF G, Good, T, start
      <3> QED BY <2>1, <2>3, <2>4
    <2>6. g = [i \in 0 .. n |-> IF i = 0 THEN start ELSE ListedMove(g[i - 1], moves[i])]
      <3> HIDE DEF G, Good, T, start
      <3>1. g = [i \in 0 .. n |-> g[i]]
        BY <2>3
      <3>2. \A i \in 0 .. n : g[i] = IF i = 0 THEN start ELSE ListedMove(g[i - 1], moves[i])
        BY <1>0, <2>3, <2>5
      <3> QED BY <3>1, <3>2
    <2> QED BY <2>6
  <1>5. Runs(all)
    <2> HIDE DEF Runs
    <2> QED BY <1>4
  <1>6. all[n] = Moved(moves)
    BY DEF Moved, n
  <1> HIDE DEF all
  <1>7. all[0] = start /\ \A i \in 1 .. n : all[i] = ListedMove(all[i - 1], moves[i])
    <2> HIDE DEF start, n
    <2> DEFINE R == [i \in 0 .. n |-> IF i = 0 THEN start ELSE ListedMove(all[i - 1], moves[i])]
    <2>1. all = R
      BY <1>5
    <2>2. \A i \in 0 .. n : R[i] = IF i = 0 THEN start ELSE ListedMove(all[i - 1], moves[i])
      OBVIOUS
    <2> HIDE DEF R
    <2>3. 0 \in 0 .. n /\ \A i \in 1 .. n : i \in 0 .. n /\ i # 0
      BY ONLY <1>0
    <2>4. all[0] = start
      <3>1. R[0] = start
        BY ONLY <2>2, <2>3
      <3> QED BY ONLY <2>1, <3>1
    <2>5. \A i \in 1 .. n : all[i] = ListedMove(all[i - 1], moves[i])
      <3>1. \A i \in 1 .. n : R[i] = ListedMove(all[i - 1], moves[i])
        BY ONLY <2>2, <2>3
      <3> QED BY ONLY <2>1, <3>1
    <2> QED BY ONLY <2>4, <2>5
  <1>8. all[n] \in Good[n]
    <2> HIDE DEF T, Fine, start, Runs
    <2>1. all[0] \in Good[0]
      BY <1>0, <1>2, <1>3, <1>7
    <2>2. \A i \in 1 .. n : all[i - 1] \in Good[i - 1] => all[i] \in Good[i]
      BY <1>0, <1>2, <1>3, <1>7
    <2>3. \A i \in 0 .. n : all[i] \in Good[i]
      <3> HIDE DEF Good
      <3> QED BY ONLY <1>0, <2>1, <2>2, RunStays
    <2> QED BY <1>0, <2>3
  <1> QED BY <1>0, <1>3, <1>6, <1>8 DEF n

\* The cores of an upgrade are removed slot by slot.
LEMMA ClearedIs ==
    ASSUME NEW slots, \A s \in slots : s \in SlotNo /\ Holds(inv, s),
           inv \in Lists(MaxSlots - 1)
    PROVE  /\ Cleared(slots) \in Lists(MaxSlots - 1)
           /\ \A w \in [Stock -> Nat] : Weigh(w, Cleared(slots)) <= Weigh(w, inv)
  <1> DEFINE n == MaxSlots
             T == Lists(MaxSlots - 1)
             start == inv
             Good == [i \in 0 .. n |->
                         {b \in T : /\ \A w \in [Stock -> Nat] : Weigh(w, b) <= Weigh(w, inv)
                                    /\ \A s \in slots : s >= i => Holds(b, s)}]
             Runs(g) == g = [i \in 0 .. n |->
                                IF i = 0 THEN start
                                ELSE IF i - 1 \in slots THEN WithoutSlot(g[i - 1], i - 1)
                                ELSE g[i - 1]]
             all == CHOOSE g : Runs(g)
  <1>0. n \in Nat /\ n - 1 \in Nat /\ \A s \in slots : s \in 0 .. n - 1 /\ Holds(inv, s)
    BY StorageAssumption DEF SlotNo
  <1>a. \A list \in T : list \in Seq(Ok(MaxSlots - 1)) /\ list \in Seq(Stock)
    BY <1>0, OkIs
  <1>b. \A w \in [Stock -> Nat], list \in T : Weigh(w, list) \in Nat
    BY <1>a, WeighNothing
  <1>2. Good \in [0 .. n -> SUBSET T] /\ start \in Good[0]
    <2>1. \A w \in [Stock -> Nat] : Weigh(w, inv) \in Nat
      BY <1>b
    <2> QED BY <1>0, <2>1
  <1>3. \A i \in 1 .. n : \A b \in Good[i - 1] :
           (IF i - 1 \in slots THEN WithoutSlot(b, i - 1) ELSE b) \in Good[i]
    <2> SUFFICES ASSUME NEW i \in 1 .. n, NEW b \in Good[i - 1]
                 PROVE  (IF i - 1 \in slots THEN WithoutSlot(b, i - 1) ELSE b) \in Good[i]
      OBVIOUS
    <2>0. i \in Int /\ n \in Nat /\ i - 1 \in 0 .. n /\ i \in 0 .. n
      BY <1>0
    <2>1. /\ b \in T
          /\ \A w \in [Stock -> Nat] : Weigh(w, b) <= Weigh(w, inv)
          /\ \A s \in slots : s >= i - 1 => Holds(b, s)
      BY <2>0
    <2>2. CASE i - 1 \notin slots
      <3>1. \A s \in slots : s >= i => Holds(b, s)
        BY <1>0, <2>0, <2>1
      <3> QED BY <2>0, <2>1, <2>2, <3>1
    <2>3. CASE i - 1 \in slots
      <3> DEFINE new == WithoutSlot(b, i - 1)
      <3>1. Holds(b, i - 1)
        BY <2>0, <2>1, <2>3
      <3>2. new \in T /\ \A t : t # i - 1 => (Holds(b, t) <=> Holds(new, t))
        BY <1>0, <2>1, <3>1, TakeSorted
      <3>3. \A w \in [Stock -> Nat] :
               Weigh(w, b) = Weigh(w, new) + w[EntryAt(b, i - 1)] /\ EntryAt(b, i - 1) \in Stock
        <4>1. b \in Seq(Ok(MaxSlots - 1)) /\ Ok(MaxSlots - 1) \subseteq Stock
          BY <1>0, <1>a, <2>1, OkIs
        <4> QED BY <1>0, <3>1, <4>1, Take
      <3> HIDE DEF new
      <3>4. \A w \in [Stock -> Nat] : Weigh(w, new) <= Weigh(w, inv)
        <4> TAKE w \in [Stock -> Nat]
        <4>1. /\ Weigh(w, b) \in Nat /\ Weigh(w, new) \in Nat /\ w[EntryAt(b, i - 1)] \in Nat
              /\ Weigh(w, inv) \in Nat
          BY <1>b, <2>1, <3>2, <3>3
        <4>2. Weigh(w, b) <= Weigh(w, inv) /\ Weigh(w, b) = Weigh(w, new) + w[EntryAt(b, i - 1)]
          BY <2>1, <3>3
        <4> QED BY ONLY <4>1, <4>2
      <3>5. \A s \in slots : s >= i => Holds(new, s)
        BY <1>0, <2>0, <2>1, <3>2
      <3>6. new \in Good[i]
        BY <2>0, <3>2, <3>4, <3>5
      <3> QED BY <2>3, <3>6 DEF new
    <2> QED BY <2>2, <2>3
  <1>4. \E g : Runs(g)
    <2> DEFINE G == [x \in (1 .. n) \X T |-> (IF x[1] - 1 \in slots THEN WithoutSlot(x[2], x[1] - 1) ELSE x[2])]
    <2>1. \A i \in 1 .. n : \A b \in T : G[<<i, b>>] = (IF i - 1 \in slots THEN WithoutSlot(b, i - 1) ELSE b)
      OBVIOUS
    <2>2. Leads(G, n, Good, T, start)
      <3> HIDE DEF G, T, Good, start
      <3>1. \A i \in 1 .. n : i - 1 \in 0 .. n
        BY <1>0
      <3>2. ASSUME NEW i \in 1 .. n, NEW b \in Good[i - 1]
            PROVE  G[<<i, b>>] \in Good[i]
        <4>1. b \in T
          BY <1>2, <3>1
        <4> QED BY <1>3, <2>1, <4>1
      <3> QED BY <1>0, <1>2, <3>2 DEF Leads
    <2> HIDE DEF Good, G, T, start
    <2>3. PICK g \in [0 .. n -> T] :
              /\ g[0] = start
              /\ \A i \in 1 .. n : g[i - 1] \in Good[i - 1] /\ g[i] = G[<<i, g[i - 1]>>]
      BY ONLY <2>2, RunExists
    <2>4. \A i \in 1 .. n : i - 1 \in 0 .. n
      BY <1>0
    <2>5. \A i \in 1 .. n : g[i] = (IF i - 1 \in slots THEN WithoutSlot(g[i - 1], i - 1) ELSE g[i - 1])
      BY <2>1, <2>3, <2>4
    <2>6. g = [i \in 0 .. n |-> g[i]]
      BY <2>3
    <2>7. \A i \in 0 .. n : g[i] = IF i = 0 THEN start ELSE (IF i - 1 \in slots THEN WithoutSlot(g[i - 1], i - 1) ELSE g[i - 1])
      BY <1>0, <2>3, <2>5
    <2> QED BY <2>6, <2>7
  <1>5. Runs(all)
    <2> HIDE DEF Runs
    <2> QED BY <1>4
  <1>6. all[n] = Cleared(slots)
    BY DEF Cleared
  <1> HIDE DEF all
  <1>7. all[0] = start /\ \A i \in 1 .. n : all[i] = (IF i - 1 \in slots THEN WithoutSlot(all[i - 1], i - 1) ELSE all[i - 1])
    <2> HIDE DEF start, n
    <2> DEFINE R == [i \in 0 .. n |-> IF i = 0 THEN start ELSE IF i - 1 \in slots THEN WithoutSlot(all[i - 1], i - 1) ELSE all[i - 1]]
    <2>1. all = R
      BY <1>5
    <2>2. \A i \in 0 .. n : R[i] = IF i = 0 THEN start ELSE IF i - 1 \in slots THEN WithoutSlot(all[i - 1], i - 1) ELSE all[i - 1]
      OBVIOUS
    <2> HIDE DEF R
    <2>3. 0 \in 0 .. n /\ \A i \in 1 .. n : i \in 0 .. n /\ i # 0
      BY ONLY <1>0
    <2>4. all[0] = start
      <3>1. R[0] = start
        BY ONLY <2>2, <2>3
      <3> QED BY ONLY <2>1, <3>1
    <2>5. \A i \in 1 .. n : all[i] = (IF i - 1 \in slots THEN WithoutSlot(all[i - 1], i - 1) ELSE all[i - 1])
      <3>1. \A i \in 1 .. n : R[i] = (IF i - 1 \in slots THEN WithoutSlot(all[i - 1], i - 1) ELSE all[i - 1])
        BY ONLY <2>2, <2>3
      <3> QED BY ONLY <2>1, <3>1
    <2> QED BY ONLY <2>4, <2>5
  <1>8. all[n] \in Good[n]
    <2> HIDE DEF T, Good, start, Runs
    <2>2. all[0] \in Good[0]
      BY <1>2, <1>7
    <2>3. \A i \in 1 .. n : all[i - 1] \in Good[i - 1] => all[i] \in Good[i]
      BY <1>3, <1>7
    <2>1. \A i \in 0 .. n : all[i] \in Good[i]
      BY ONLY <1>0, <2>2, <2>3, RunStays
    <2> QED BY <1>0, <2>1
  <1> QED BY <1>0, <1>6, <1>8

\* An item that comes into being in a slot.
LEMMA AtOk ==
    ASSUME NEW limit \in Nat, NEW s \in 0 .. limit, NEW item \in SoundItems
    PROVE  At(s, item) \in Ok(limit) /\ At(s, item).at = s
  <1>1. /\ item.kind \in Kinds /\ item.level \in Levelled /\ item.n \in Nat
        /\ StacksFit => Fits(item)
    BY DEF SoundItems, Items
  <1> DEFINE e == At(s, item)
  <1>2. /\ e \in Slots(limit, Levelled)
        /\ e.at = s /\ e.kind = item.kind /\ e.n = item.n
    BY <1>1 DEF At, Slots
  <1> HIDE DEF e
  <1>3. StacksFit => Fits(e)
    BY <1>1, <1>2 DEF Fits
  <1> QED BY <1>2, <1>3 DEF Ok, e

LEMMA ItemSound ==
    ASSUME NEW kind \in Kinds, NEW level \in Levelled
    PROVE  Item(kind, level, 0) \in SoundItems
  <1>1. MaxStack[kind] \in Nat
    BY StackAssumption
  <1> DEFINE item == Item(kind, level, 0)
  <1>2. item \in Items /\ item.kind = kind /\ item.n = 0
    BY DEF Item, Items
  <1> HIDE DEF item
  <1>3. Fits(item)
    BY <1>1, <1>2 DEF Fits
  <1> QED BY <1>2, <1>3 DEF SoundItems, item

\* What extraction yields: each item goes to the slot the count names.
LEMMA ExtractedIs ==
    ASSUME NEW kinds \in Seq(Kinds), temp \in Lists(MaxSlots - 1),
           Len(temp) + Len(kinds) <= MaxSlots
    PROVE  LET b == Extracted(kinds)
           IN  /\ b.temp \in Lists(MaxSlots - 1) /\ b.new \in Seq(Ok(MaxSlots - 1))
               /\ \A w \in [Stock -> Nat] :
                     Weigh(w, b.temp) = Weigh(w, temp) + Weigh(w, b.new)
  <1> DEFINE n == Len(kinds)
             L == Lists(MaxSlots - 1)
             T == [temp : L, new : Seq(Ok(MaxSlots - 1))]
             start == [temp |-> temp, new |-> <<>>]
             Good == [i \in 0 .. n |->
                         {b \in T : /\ Len(b.temp) <= Len(temp) + i
                                    /\ \A w \in [Stock -> Nat] :
                                          Weigh(w, b.temp) = Weigh(w, temp) + Weigh(w, b.new)}]
             Runs(g) == g = [i \in 0 .. n |->
                                IF i = 0 THEN start ELSE ExtractOne(g[i - 1], kinds[i])]
             all == CHOOSE g : Runs(g)
  <1>0. n \in Nat /\ (\A i \in 1 .. n : kinds[i] \in Kinds) /\ Len(temp) + n <= MaxSlots
    OBVIOUS
  <1> HIDE DEF n
  <1>a. MaxSlots - 1 \in Nat /\ MaxSlots \in Nat /\ 0 \in Levelled
    BY StorageAssumption DEF Levelled
  <1>b. /\ \A list \in Seq(Ok(MaxSlots - 1)) : list \in Seq(Stock)
        /\ \A list \in L : list \in Seq(Stock) /\ Len(list) \in Nat
        /\ Ok(MaxSlots - 1) \subseteq Stock
    BY <1>a, OkIs
  <1>c. temp \in L
    OBVIOUS
  <1> HIDE DEF L
  <1>2. Good \in [0 .. n -> SUBSET T] /\ start \in Good[0]
    <2>1. <<>> \in Seq(Ok(MaxSlots - 1))
      OBVIOUS
    <2>2. \A w \in [Stock -> Nat] : Weigh(w, temp) = Weigh(w, temp) + Weigh(w, <<>>)
      BY <1>b, <1>c, WeighNothing
    <2>3. Len(temp) <= Len(temp) + 0
      BY <1>b, <1>c
    <2>4. start \in T /\ start.temp = temp /\ start.new = <<>>
      BY <1>c, <2>1
    <2> HIDE DEF start, T
    <2>5. start \in Good[0]
      BY <1>0, <2>2, <2>3, <2>4
    <2> QED BY <2>5
  <1>3. \A i \in 1 .. n : \A b \in Good[i - 1] : ExtractOne(b, kinds[i]) \in Good[i]
    <2> SUFFICES ASSUME NEW i \in 1 .. n, NEW b \in Good[i - 1]
                 PROVE  ExtractOne(b, kinds[i]) \in Good[i]
      OBVIOUS
    <2>0. i \in Int /\ n \in Nat /\ i - 1 \in 0 .. n /\ i \in 0 .. n /\ i <= n /\ 1 <= i
      BY <1>0
    <2>1. /\ b \in T /\ b.temp \in L /\ b.new \in Seq(Ok(MaxSlots - 1))
          /\ Len(b.temp) <= Len(temp) + (i - 1)
          /\ \A w \in [Stock -> Nat] : Weigh(w, b.temp) = Weigh(w, temp) + Weigh(w, b.new)
      BY <2>0
    <2>2. Len(b.temp) \in 0 .. MaxSlots - 1 /\ Len(b.temp) \in Nat /\ Len(temp) \in Nat
      BY <1>0, <1>a, <1>b, <1>c, <2>0, <2>1
    <2> HIDE DEF Good
    <2> DEFINE e == At(Len(b.temp), Item(kinds[i], 0, 0))
    <2>3. CASE Holds(b.temp, Len(b.temp))
      <3>1. Len(b.temp) <= Len(temp) + i
        BY <2>0, <2>1, <2>2
      <3>2. b \in Good[i]
        BY <2>0, <2>1, <3>1 DEF Good
      <3> QED BY <2>3, <3>2 DEF ExtractOne
    <2>4. CASE ~Holds(b.temp, Len(b.temp))
      <3> DEFINE more == WithSlot(b.temp, e)
                 new == Append(b.new, e)
                 r == [temp |-> more, new |-> new]
      <3>1. e \in Ok(MaxSlots - 1) /\ e.at = Len(b.temp)
        <4>1. kinds[i] \in Kinds
          BY <1>0
        <4> QED BY <1>a, <2>2, <4>1, AtOk, ItemSound
      <3>2. ExtractOne(b, kinds[i]) = r
        BY <2>4 DEF ExtractOne
      <3> HIDE DEF e
      <3>3. /\ more \in L /\ Len(more) = Len(b.temp) + 1
            /\ \A w \in [Stock -> Nat] : Weigh(w, more) = Weigh(w, b.temp) + w[e]
        BY <1>a, <2>1, <2>4, <3>1, Put DEF L
      <3>4. /\ new \in Seq(Ok(MaxSlots - 1))
            /\ \A w \in [Stock -> Nat] : Weigh(w, new) = Weigh(w, b.new) + w[e]
        <4>1. b.new \in Seq(Stock) /\ e \in Stock
          BY <1>b, <2>1, <3>1
        <4>2. new \in Seq(Ok(MaxSlots - 1))
          BY <2>1, <3>1
        <4> QED BY <4>1, <4>2, WeighNothing
      <3> HIDE DEF more, new
      <3>5. \A w \in [Stock -> Nat] : Weigh(w, more) = Weigh(w, temp) + Weigh(w, new)
        <4> TAKE w \in [Stock -> Nat]
        <4>1. /\ Weigh(w, b.temp) \in Nat /\ Weigh(w, temp) \in Nat /\ w[e] \in Nat
              /\ Weigh(w, b.new) \in Nat
          BY <1>b, <1>c, <2>1, <3>1, WeighNothing
        <4>2. /\ Weigh(w, b.temp) = Weigh(w, temp) + Weigh(w, b.new)
              /\ Weigh(w, more) = Weigh(w, b.temp) + w[e]
              /\ Weigh(w, new) = Weigh(w, b.new) + w[e]
          BY <2>1, <3>3, <3>4
        <4> QED BY ONLY <4>1, <4>2
      <3>6. Len(more) <= Len(temp) + i
        <4>1. Len(b.temp) <= Len(temp) + (i - 1) /\ Len(more) = Len(b.temp) + 1
          BY <2>1, <3>3
        <4>2. i \in Int /\ Len(b.temp) \in Nat /\ Len(temp) \in Nat
          BY <2>0, <2>2
        <4> QED BY ONLY <4>1, <4>2
      <3>7. r \in T /\ r.temp = more /\ r.new = new
        BY <3>3, <3>4
      <3> HIDE DEF r, T
      <3>8. r \in Good[i]
        BY <2>0, <3>5, <3>6, <3>7 DEF Good
      <3> QED BY <3>2, <3>8
    <2> QED BY <2>3, <2>4
  <1>4. \E g : Runs(g)
    <2> DEFINE G == [x \in (1 .. n) \X T |-> ExtractOne(x[2], kinds[x[1]])]
    <2>1. \A i \in 1 .. n : \A b \in T : G[<<i, b>>] = ExtractOne(b, kinds[i])
      OBVIOUS
    <2>2. Leads(G, n, Good, T, start)
      <3> HIDE DEF G, T, Good, start
      <3>1. \A i \in 1 .. n : i - 1 \in 0 .. n
        BY <1>0
      <3>2. ASSUME NEW i \in 1 .. n, NEW b \in Good[i - 1]
            PROVE  G[<<i, b>>] \in Good[i]
        <4>1. b \in T
          BY <1>2, <3>1
        <4> QED BY <1>3, <2>1, <4>1
      <3> QED BY <1>0, <1>2, <3>2 DEF Leads
    <2> HIDE DEF Good, G, T, start
    <2>3. PICK g \in [0 .. n -> T] :
              /\ g[0] = start
              /\ \A i \in 1 .. n : g[i - 1] \in Good[i - 1] /\ g[i] = G[<<i, g[i - 1]>>]
      BY ONLY <2>2, RunExists
    <2>4. \A i \in 1 .. n : i - 1 \in 0 .. n
      BY <1>0
    <2>5. \A i \in 1 .. n : g[i] = ExtractOne(g[i - 1], kinds[i])
      BY <2>1, <2>3, <2>4
    <2>6. g = [i \in 0 .. n |-> g[i]]
      BY <2>3
    <2>7. \A i \in 0 .. n : g[i] = IF i = 0 THEN start ELSE ExtractOne(g[i - 1], kinds[i])
      BY <1>0, <2>3, <2>5
    <2> QED BY <2>6, <2>7
  <1>5. Runs(all)
    <2> HIDE DEF Runs
    <2> QED BY <1>4
  <1>6. all[n] = Extracted(kinds)
    BY DEF Extracted, n
  <1> HIDE DEF all
  <1>7. all[0] = start /\ \A i \in 1 .. n : all[i] = ExtractOne(all[i - 1], kinds[i])
    <2> HIDE DEF start, n
    <2> DEFINE R == [i \in 0 .. n |-> IF i = 0 THEN start ELSE ExtractOne(all[i - 1], kinds[i])]
    <2>1. all = R
      BY <1>5
    <2>2. \A i \in 0 .. n : R[i] = IF i = 0 THEN start ELSE ExtractOne(all[i - 1], kinds[i])
      OBVIOUS
    <2> HIDE DEF R
    <2>3. 0 \in 0 .. n /\ \A i \in 1 .. n : i \in 0 .. n /\ i # 0
      BY ONLY <1>0
    <2>4. all[0] = start
      <3>1. R[0] = start
        BY ONLY <2>2, <2>3
      <3> QED BY ONLY <2>1, <3>1
    <2>5. \A i \in 1 .. n : all[i] = ExtractOne(all[i - 1], kinds[i])
      <3>1. \A i \in 1 .. n : R[i] = ExtractOne(all[i - 1], kinds[i])
        BY ONLY <2>2, <2>3
      <3> QED BY ONLY <2>1, <3>1
    <2> QED BY ONLY <2>4, <2>5
  <1>8. all[n] \in Good[n]
    <2> HIDE DEF T, Good, start, Runs
    <2>2. all[0] \in Good[0]
      BY <1>2, <1>7
    <2>3. \A i \in 1 .. n : all[i - 1] \in Good[i - 1] => all[i] \in Good[i]
      BY <1>3, <1>7
    <2>1. \A i \in 0 .. n : all[i] \in Good[i]
      BY ONLY <1>0, <2>2, <2>3, RunStays
    <2> QED BY <1>0, <2>1
  <1> QED BY <1>0, <1>6, <1>8 DEF L

\* What is bought: the inventory holds that much more.
LEMMA BoughtIs ==
    ASSUME NEW o, offers[o] \in SoundItems, NEW slots \in Seq(SlotNo),
           inv \in Lists(MaxSlots - 1)
    PROVE  LET b == Bought(o, slots)
           IN  /\ b.inv \in Lists(MaxSlots - 1) /\ b.new \in Seq(Ok(MaxSlots - 1))
               /\ b.offer \in SoundItems /\ b.ok \in BOOLEAN
               /\ \A w \in [Stock -> Nat] :
                     Weigh(w, b.inv) = Weigh(w, inv) + Weigh(w, b.new)
  <1> DEFINE n == Len(slots)
             L == Lists(MaxSlots - 1)
             T == [ok : BOOLEAN, inv : L, offer : SoundItems, new : Seq(Ok(MaxSlots - 1))]
             start == [ok |-> TRUE, inv |-> inv, offer |-> offers[o], new |-> <<>>]
             Fine == {b \in T : \A w \in [Stock -> Nat] :
                                   Weigh(w, b.inv) = Weigh(w, inv) + Weigh(w, b.new)}
             Good == [i \in 0 .. n |-> Fine]
             Runs(g) == g = [i \in 0 .. n |->
                                IF i = 0 THEN start ELSE BuyOne(g[i - 1], slots[i])]
             all == CHOOSE g : Runs(g)
  <1>0. n \in Nat /\ \A i \in 1 .. n : slots[i] \in SlotNo
    OBVIOUS
  <1> HIDE DEF n
  <1>a. MaxSlots - 1 \in Nat /\ SlotNo = 0 .. MaxSlots - 1 /\ TopLevel \in Levelled
    BY StorageAssumption DEF Levelled, SlotNo
  <1>b. /\ \A list \in Seq(Ok(MaxSlots - 1)) : list \in Seq(Stock)
        /\ \A list \in L : list \in Seq(Stock)
        /\ Ok(MaxSlots - 1) \subseteq Stock
    BY <1>a, OkIs
  <1>c. inv \in L
    OBVIOUS
  <1> HIDE DEF L
  <1>2. Good \in [0 .. n -> SUBSET T] /\ start \in Good[0]
    <2>1. <<>> \in Seq(Ok(MaxSlots - 1))
      OBVIOUS
    <2>2. \A w \in [Stock -> Nat] : Weigh(w, inv) = Weigh(w, inv) + Weigh(w, <<>>)
      BY <1>b, <1>c, WeighNothing
    <2>3. start \in T /\ start.inv = inv /\ start.new = <<>>
      BY <1>c, <2>1
    <2> HIDE DEF start, T
    <2>4. start \in Good[0]
      BY <1>0, <2>2, <2>3
    <2> QED BY <2>4
  <1>3. \A i \in 1 .. n : \A b \in Good[i - 1] : BuyOne(b, slots[i]) \in Good[i]
    <2> SUFFICES ASSUME NEW i \in 1 .. n, NEW b \in Fine
                 PROVE  BuyOne(b, slots[i]) \in Fine
      BY <1>0
    <2>1. /\ b \in T /\ b.ok \in BOOLEAN /\ b.inv \in L /\ b.new \in Seq(Ok(MaxSlots - 1))
          /\ b.offer \in SoundItems
          /\ \A w \in [Stock -> Nat] : Weigh(w, b.inv) = Weigh(w, inv) + Weigh(w, b.new)
      OBVIOUS
    <2> HIDE DEF Fine
    <2> DEFINE e == At(slots[i], b.offer)
               later == IF b.offer.kind \in Boosted THEN Item(b.offer.kind, TopLevel, 0)
                        ELSE b.offer
    <2>2. e \in Ok(MaxSlots - 1) /\ e.at = slots[i] /\ e \in Stock
      BY <1>0, <1>a, <1>b, <2>1, AtOk
    <2>3. later \in SoundItems
      <3>1. b.offer.kind \in Kinds
        BY <2>1 DEF SoundItems, Items
      <3> QED BY <1>a, <2>1, <3>1, ItemSound
    <2>4. CASE ~b.ok
      BY <2>4 DEF BuyOne
    <2>5. CASE b.ok /\ Holds(b.inv, slots[i])
      <3> DEFINE r == [ok |-> FALSE, inv |-> b.inv, offer |-> later, new |-> b.new]
      <3>1. BuyOne(b, slots[i]) = r
        BY <2>5 DEF BuyOne
      <3> HIDE DEF later, e
      <3>2. r \in T /\ r.inv = b.inv /\ r.new = b.new
        BY <2>1, <2>3
      <3> HIDE DEF r, T
      <3>3. r \in Fine
        BY <2>1, <3>2 DEF Fine
      <3> QED BY <3>1, <3>3
    <2>6. CASE b.ok /\ ~Holds(b.inv, slots[i])
      <3> DEFINE more == WithSlot(b.inv, e)
                 new == Append(b.new, e)
                 r == [ok |-> TRUE, inv |-> more, offer |-> later, new |-> new]
      <3>1. BuyOne(b, slots[i]) = r
        BY <2>6 DEF BuyOne
      <3> HIDE DEF later, e
      <3>2. /\ more \in L
            /\ \A w \in [Stock -> Nat] : Weigh(w, more) = Weigh(w, b.inv) + w[e]
        BY <1>a, <2>1, <2>2, <2>6, Put DEF L
      <3>3. /\ new \in Seq(Ok(MaxSlots - 1))
            /\ \A w \in [Stock -> Nat] : Weigh(w, new) = Weigh(w, b.new) + w[e]
        <4>1. b.new \in Seq(Stock)
          BY <1>b, <2>1
        <4>2. new \in Seq(Ok(MaxSlots - 1))
          BY <2>1, <2>2
        <4> QED BY <2>2, <4>1, <4>2, WeighNothing
      <3> HIDE DEF more, new
      <3>4. \A w \in [Stock -> Nat] : Weigh(w, more) = Weigh(w, inv) + Weigh(w, new)
        <4> TAKE w \in [Stock -> Nat]
        <4>1. /\ Weigh(w, b.inv) \in Nat /\ Weigh(w, inv) \in Nat /\ w[e] \in Nat
              /\ Weigh(w, b.new) \in Nat
          BY <1>b, <1>c, <2>1, <2>2, WeighNothing
        <4>2. /\ Weigh(w, b.inv) = Weigh(w, inv) + Weigh(w, b.new)
              /\ Weigh(w, more) = Weigh(w, b.inv) + w[e]
              /\ Weigh(w, new) = Weigh(w, b.new) + w[e]
          BY <2>1, <3>2, <3>3
        <4> QED BY ONLY <4>1, <4>2
      <3>5. r \in T /\ r.inv = more /\ r.new = new
        BY <2>3, <3>2, <3>3
      <3> HIDE DEF r, T
      <3>6. r \in Fine
        BY <3>4, <3>5 DEF Fine
      <3> QED BY <3>1, <3>6
    <2> QED BY <2>4, <2>5, <2>6
  <1>4. \E g : Runs(g)
    <2> DEFINE G == [x \in (1 .. n) \X T |-> BuyOne(x[2], slots[x[1]])]
    <2>1. \A i \in 1 .. n : \A b \in T : G[<<i, b>>] = BuyOne(b, slots[i])
      OBVIOUS
    <2>2. Leads(G, n, Good, T, start)
      <3> HIDE DEF G, T, Good, start
      <3>1. \A i \in 1 .. n : i - 1 \in 0 .. n
        BY <1>0
      <3>2. ASSUME NEW i \in 1 .. n, NEW b \in Good[i - 1]
            PROVE  G[<<i, b>>] \in Good[i]
        <4>1. b \in T
          BY <1>2, <3>1
        <4> QED BY <1>3, <2>1, <4>1
      <3> QED BY <1>0, <1>2, <3>2 DEF Leads
    <2> HIDE DEF Good, G, T, start
    <2>3. PICK g \in [0 .. n -> T] :
              /\ g[0] = start
              /\ \A i \in 1 .. n : g[i - 1] \in Good[i - 1] /\ g[i] = G[<<i, g[i - 1]>>]
      BY ONLY <2>2, RunExists
    <2>4. \A i \in 1 .. n : i - 1 \in 0 .. n
      BY <1>0
    <2>5. \A i \in 1 .. n : g[i] = BuyOne(g[i - 1], slots[i])
      BY <2>1, <2>3, <2>4
    <2>6. g = [i \in 0 .. n |-> g[i]]
      BY <2>3
    <2>7. \A i \in 0 .. n : g[i] = IF i = 0 THEN start ELSE BuyOne(g[i - 1], slots[i])
      BY <1>0, <2>3, <2>5
    <2> QED BY <2>6, <2>7
  <1>5. Runs(all)
    <2> HIDE DEF Runs
    <2> QED BY <1>4
  <1>6. all[n] = Bought(o, slots)
    BY DEF Bought, n
  <1> HIDE DEF all
  <1>7. all[0] = start /\ \A i \in 1 .. n : all[i] = BuyOne(all[i - 1], slots[i])
    <2> HIDE DEF start, n
    <2> DEFINE R == [i \in 0 .. n |-> IF i = 0 THEN start ELSE BuyOne(all[i - 1], slots[i])]
    <2>1. all = R
      BY <1>5
    <2>2. \A i \in 0 .. n : R[i] = IF i = 0 THEN start ELSE BuyOne(all[i - 1], slots[i])
      OBVIOUS
    <2> HIDE DEF R
    <2>3. 0 \in 0 .. n /\ \A i \in 1 .. n : i \in 0 .. n /\ i # 0
      BY ONLY <1>0
    <2>4. all[0] = start
      <3>1. R[0] = start
        BY ONLY <2>2, <2>3
      <3> QED BY ONLY <2>1, <3>1
    <2>5. \A i \in 1 .. n : all[i] = BuyOne(all[i - 1], slots[i])
      <3>1. \A i \in 1 .. n : R[i] = BuyOne(all[i - 1], slots[i])
        BY ONLY <2>2, <2>3
      <3> QED BY ONLY <2>1, <3>1
    <2> QED BY ONLY <2>4, <2>5
  <1>8. all[n] \in Good[n]
    <2> HIDE DEF T, Good, start, Runs
    <2>2. all[0] \in Good[0]
      BY <1>2, <1>7
    <2>3. \A i \in 1 .. n : all[i - 1] \in Good[i - 1] => all[i] \in Good[i]
      BY <1>3, <1>7
    <2>1. \A i \in 0 .. n : all[i] \in Good[i]
      BY ONLY <1>0, <2>2, <2>3, RunStays
    <2> QED BY <1>0, <2>1
  <1> QED BY <1>0, <1>6, <1>8 DEF L

\* Selling enters an item under the next index, recovering clears an entry.
NextCount(rec) == IF rec.count < MaxRecovery THEN rec.count + 1 ELSE MaxRecovery
PendingIn(entries) == {r \in 0 .. MaxRecovery - 1 : entries[r] # Nothing}

LEMMA RecoveryNumbers ==
    /\ IsFiniteSet(0 .. MaxRecovery - 1)
    /\ Cardinality(0 .. MaxRecovery - 1) = MaxRecovery
  <1> DEFINE m == MaxRecovery - 1
  <1>1. m \in Int /\ 0 \in Int /\ m >= 0 /\ m - 0 + 1 = MaxRecovery
    BY StorageAssumption
  <1> HIDE DEF m
  <1>2. IsFiniteSet(0 .. m) /\ Cardinality(0 .. m) = (IF 0 > m THEN 0 ELSE m - 0 + 1)
    BY ONLY <1>1, FS_Interval
  <1>3. IsFiniteSet(0 .. m) /\ Cardinality(0 .. m) = MaxRecovery
    BY <1>1, <1>2
  <1> QED BY <1>3 DEF m

LEMMA Enter ==
    ASSUME NEW rec \in RecoveryLists, NEW e \in Ok(0)
    PROVE  LET new == Entered(rec, NextCount(rec), rec.count % MaxRecovery, e)
           IN  /\ new \in RecoveryLists
               /\ \A w \in [Stock -> Nat] :
                     WeighRecovery(w, new) <= WeighRecovery(w, rec) + w[e]
  <1> DEFINE r == rec.count % MaxRecovery
             new == Entered(rec, NextCount(rec), r, e)
             old == PendingIn(rec.entries)
             more == PendingIn(new.entries)
             All == 0 .. MaxRecovery - 1
  <1>1. MaxRecovery \in Nat \ {0} /\ rec.count \in 0 .. MaxRecovery
        /\ rec.entries \in [All -> Ok(0) \cup {Nothing}]
        /\ Cardinality(old) <= rec.count
    BY StorageAssumption DEF RecoveryLists, PendingIn
  <1>2. r \in All
    BY <1>1
  <1> HIDE DEF r
  <1>3. /\ new.count = NextCount(rec) /\ new.count \in 0 .. MaxRecovery
        /\ new.entries \in [All -> Ok(0) \cup {Nothing}]
        /\ \A q \in All : q # r => new.entries[q] = rec.entries[q]
        /\ new = [count |-> new.count, entries |-> new.entries]
    BY <1>1, <1>2 DEF Entered, NextCount
  <1> HIDE DEF new
  <1>4. /\ more \subseteq old \cup {r} /\ more \subseteq All /\ old \subseteq All
    BY <1>3 DEF PendingIn
  <1>5. IsFiniteSet(All) /\ Cardinality(All) = MaxRecovery
    BY RecoveryNumbers
  <1> HIDE DEF old, more
  <1>6. IsFiniteSet(old) /\ Cardinality(old) \in Nat
    BY <1>4, <1>5, FS_Subset, FS_CardinalityType
  <1>7. IsFiniteSet(old \cup {r}) /\ Cardinality(old \cup {r}) <= Cardinality(old) + 1
    <2>1. r \notin old => Cardinality(old \cup {r}) = Cardinality(old) + 1
      BY <1>6, FS_AddElement
    <2>2. r \in old => old \cup {r} = old
      OBVIOUS
    <2> QED BY <1>6, <2>1, <2>2, FS_AddElement
  <1>8. Cardinality(more) <= Cardinality(All) /\ Cardinality(more) <= Cardinality(old \cup {r})
        /\ Cardinality(more) \in Nat /\ Cardinality(old \cup {r}) \in Nat
    BY <1>4, <1>5, <1>7, FS_Subset, FS_CardinalityType
  <1>9. Cardinality(more) <= new.count
    <2> DEFINE cm == Cardinality(more)
               co == Cardinality(old)
               cr == Cardinality(old \cup {r})
    <2>1. cm <= MaxRecovery /\ cm <= cr /\ cr <= co + 1 /\ co <= rec.count
          /\ cm \in Nat /\ cr \in Nat /\ co \in Nat /\ rec.count \in Nat /\ MaxRecovery \in Nat
      BY <1>1, <1>5, <1>6, <1>7, <1>8
    <2> HIDE DEF cm, co, cr
    <2>2. cm <= NextCount(rec)
      BY <2>1 DEF NextCount
    <2> QED BY <1>3, <2>2 DEF cm
  <1>10. new \in RecoveryLists
    BY <1>3, <1>9 DEF RecoveryLists, more, PendingIn
  <1>11. ASSUME NEW w \in [Stock -> Nat]
         PROVE  WeighRecovery(w, new) <= WeighRecovery(w, rec) + w[e]
    <2> DEFINE was == IF rec.entries[r] = Nothing THEN 0 ELSE w[rec.entries[r]]
               is == IF e = Nothing THEN 0 ELSE w[e]
    <2>1. WeighRecovery(w, new) + was = WeighRecovery(w, rec) + is
      BY <1>2, EntryWeighs DEF new
    <2>2. Ok(0) \subseteq Stock
      BY OkIs
    <2>3. was \in Nat /\ is \in Nat /\ is <= w[e] /\ w[e] \in Nat
      BY <1>1, <1>2, <2>2
    <2>4. WeighRecovery(w, new) \in Nat /\ WeighRecovery(w, rec) \in Nat
      BY <1>10, RecoveryIs
    <2> HIDE DEF was, is
    <2> QED BY ONLY <2>1, <2>3, <2>4
  <1> QED BY <1>10, <1>11 DEF new, r

LEMMA Clear ==
    ASSUME NEW rec \in RecoveryLists, NEW r \in 0 .. MaxRecovery - 1,
           rec.entries[r] # Nothing
    PROVE  LET new == Entered(rec, rec.count - 1, r, Nothing)
           IN  /\ rec.entries[r] \in Ok(0)
               /\ new \in RecoveryLists
               /\ \A w \in [Stock -> Nat] :
                     WeighRecovery(w, rec) = WeighRecovery(w, new) + w[rec.entries[r]]
  <1> DEFINE new == Entered(rec, rec.count - 1, r, Nothing)
             old == PendingIn(rec.entries)
             less == PendingIn(new.entries)
             All == 0 .. MaxRecovery - 1
  <1>1. MaxRecovery \in Nat \ {0} /\ rec.count \in 0 .. MaxRecovery
        /\ rec.entries \in [All -> Ok(0) \cup {Nothing}]
        /\ Cardinality(old) <= rec.count
    BY StorageAssumption DEF RecoveryLists, PendingIn
  <1>2. rec.entries[r] \in Ok(0)
    BY <1>1
  <1>3. /\ new.count = rec.count - 1
        /\ new.entries \in [All -> Ok(0) \cup {Nothing}]
        /\ new.entries[r] = Nothing
        /\ \A q \in All : q # r => new.entries[q] = rec.entries[q]
        /\ new = [count |-> new.count, entries |-> new.entries]
    BY <1>1 DEF Entered
  <1> HIDE DEF new
  <1>4. less = old \ {r} /\ r \in old /\ old \subseteq All
    BY <1>3 DEF PendingIn
  <1> HIDE DEF old, less
  <1>5. IsFiniteSet(old) /\ Cardinality(old) \in Nat
    <2>1. IsFiniteSet(All)
      BY RecoveryNumbers
    <2> HIDE DEF All
    <2> QED BY <1>4, <2>1, FS_Subset, FS_CardinalityType
  <1>6. Cardinality(less) = Cardinality(old) - 1 /\ Cardinality(less) \in Nat
    BY <1>4, <1>5, FS_RemoveElement, FS_CardinalityType
  <1>7. new.count \in 0 .. MaxRecovery /\ Cardinality(less) <= new.count
    BY <1>1, <1>3, <1>5, <1>6
  <1>8. new \in RecoveryLists
    BY <1>3, <1>7 DEF RecoveryLists, less, PendingIn
  <1>9. ASSUME NEW w \in [Stock -> Nat]
        PROVE  WeighRecovery(w, rec) = WeighRecovery(w, new) + w[rec.entries[r]]
    <2>1. WeighRecovery(w, new) + (IF rec.entries[r] = Nothing THEN 0 ELSE w[rec.entries[r]])
            = WeighRecovery(w, rec) + (IF Nothing = Nothing THEN 0 ELSE w[Nothing])
      <3>1. Nothing \in Ok(0) \cup {Nothing}
        OBVIOUS
      <3> QED BY <3>1, EntryWeighs DEF new
    <2>2. WeighRecovery(w, new) + w[rec.entries[r]] = WeighRecovery(w, rec) + 0
      BY <2>1
    <2>3. WeighRecovery(w, rec) \in Nat
      BY RecoveryIs
    <2> QED BY <2>2, <2>3
  <1> QED BY <1>2, <1>8, <1>9 DEF new

\* What is sold moves to the recovery list, and its price is the Alz that
\* recovering it will take: nothing that follows kind and count grows.
Clearance(newInv, newAlz, newRec) ==
    /\ \A w \in Weights : Weigh(w, newInv) + WeighRecovery(w, newRec)
                             <= Weigh(w, inv) + WeighRecovery(w, recovery)
    /\ newAlz + Weigh(Worths, newInv) + WeighRecovery(Margins, newRec)
          <= alz + Weigh(Worths, inv) + WeighRecovery(Margins, recovery)
    /\ Len(newInv) <= Len(inv)
    /\ Len(newInv) = Len(inv) => newAlz = alz

LEMMA SoldIs ==
    ASSUME NEW slots \in Seq(SlotNo), inv \in Lists(MaxSlots - 1),
           alz \in Nat, recovery \in RecoveryLists
    PROVE  LET b == Sold(slots)
           IN  /\ b.inv \in Lists(MaxSlots - 1) /\ b.alz \in Nat /\ b.rec \in RecoveryLists
               /\ b.ok \in BOOLEAN
               /\ Clearance(b.inv, b.alz, b.rec)
  <1> DEFINE n == Len(slots)
             L == Lists(MaxSlots - 1)
             T == [ok : BOOLEAN, inv : L, alz : Nat, rec : RecoveryLists]
             start == [ok |-> TRUE, inv |-> inv, alz |-> alz, rec |-> recovery]
             Fine == {b \in T : Clearance(b.inv, b.alz, b.rec)}
             Good == [i \in 0 .. n |-> Fine]
             Runs(g) == g = [i \in 0 .. n |->
                                IF i = 0 THEN start ELSE SellOne(g[i - 1], slots[i])]
             all == CHOOSE g : Runs(g)
  <1>0. n \in Nat /\ \A i \in 1 .. n : slots[i] \in SlotNo
    OBVIOUS
  <1> HIDE DEF n
  <1>a. MaxSlots - 1 \in Nat /\ MaxRecovery \in Nat \ {0}
    BY StorageAssumption
  <1>b. /\ \A list \in L : list \in Seq(Stock) /\ list \in Seq(Ok(MaxSlots - 1)) /\ Len(list) \in Nat
        /\ Ok(MaxSlots - 1) \subseteq Stock /\ Ok(0) \subseteq Stock
    BY <1>a, OkIs
  <1>c. inv \in L
    OBVIOUS
  <1>d. \A w \in Weights : /\ w \in [Stock -> Nat]
                           /\ \A list \in L : Weigh(w, list) \in Nat
                           /\ \A rec \in RecoveryLists : WeighRecovery(w, rec) \in Nat
    BY <1>b, WeighNothing, RecoveryIs DEF Weights
  <1>e. Worths \in Weights /\ Margins \in Weights
    BY WorthsWeigh
  <1> HIDE DEF L
  <1>2. Good \in [0 .. n -> SUBSET T] /\ start \in Good[0]
    <2>1. Clearance(inv, alz, recovery)
      <3>1. \A w \in Weights : Weigh(w, inv) + WeighRecovery(w, recovery) \in Int
        BY <1>c, <1>d
      <3>2. alz + Weigh(Worths, inv) + WeighRecovery(Margins, recovery) \in Int
        BY <1>c, <1>d, <1>e
      <3>3. Len(inv) \in Nat
        BY <1>b, <1>c
      <3> QED BY <3>1, <3>2, <3>3 DEF Clearance
    <2>2. start \in T /\ start.inv = inv /\ start.alz = alz /\ start.rec = recovery
      BY <1>c
    <2> HIDE DEF start, T
    <2>3. start \in Good[0]
      BY <1>0, <2>1, <2>2
    <2> QED BY <2>3
  <1>3. \A i \in 1 .. n : \A b \in Good[i - 1] : SellOne(b, slots[i]) \in Good[i]
    <2> SUFFICES ASSUME NEW i \in 1 .. n, NEW b \in Fine
                 PROVE  SellOne(b, slots[i]) \in Fine
      BY <1>0
    <2>1. /\ b \in T /\ b.ok \in BOOLEAN /\ b.inv \in L /\ b.alz \in Nat
          /\ b.rec \in RecoveryLists /\ Clearance(b.inv, b.alz, b.rec)
      OBVIOUS
    <2> HIDE DEF Fine
    <2> DEFINE s == slots[i]
    <2>2. CASE ~b.ok \/ ~Holds(b.inv, s)
      <3> DEFINE r == [b EXCEPT !.ok = FALSE]
      <3>1. SellOne(b, s) = r
        BY <2>2 DEF SellOne
      <3>2. r \in T /\ r.inv = b.inv /\ r.alz = b.alz /\ r.rec = b.rec
        BY <2>1
      <3> HIDE DEF r, T
      <3>3. r \in Fine
        BY <2>1, <3>2 DEF Fine
      <3> QED BY <3>1, <3>3
    <2>3. CASE b.ok /\ Holds(b.inv, s)
      <3> DEFINE e == EntryAt(b.inv, s)
                 e0 == [e EXCEPT !.at = 0]
                 less == WithoutSlot(b.inv, s)
                 price == SellPrice[e.kind]
                 rec == Entered(b.rec, NextCount(b.rec), b.rec.count % MaxRecovery, e0)
                 r == [ok |-> TRUE, inv |-> less, alz |-> b.alz + price, rec |-> rec]
      <3>1. SellOne(b, s) = r
        BY <2>3 DEF SellOne, Entered, NextCount
      <3>2. /\ e \in Ok(MaxSlots - 1) /\ Len(less) = Len(b.inv) - 1
            /\ \A w \in [Stock -> Nat] : Weigh(w, b.inv) = Weigh(w, less) + w[e]
        BY <1>a, <1>b, <2>1, <2>3, Take
      <3>3. less \in L
        BY <1>a, <2>1, <2>3, TakeSorted DEF L
      <3> HIDE DEF less, e
      <3>4. e0 \in Ok(0) /\ e0.kind = e.kind /\ e0.n = e.n
        <4>1. /\ e.kind \in Kinds /\ e.level \in Levelled /\ e.n \in Nat
              /\ StacksFit => Fits(e)
              /\ e0 = [at |-> 0, kind |-> e.kind, level |-> e.level, n |-> e.n]
          BY <3>2 DEF Ok, Slots
        <4> HIDE DEF e0
        <4>2. StacksFit => Fits(e0)
          BY <4>1 DEF Fits
        <4> QED BY <4>1, <4>2 DEF Ok, Slots
      <3>5. e \in Stock /\ e0 \in Stock
        BY <1>b, <3>2, <3>4
      <3> HIDE DEF e0
      <3>6. /\ rec \in RecoveryLists
            /\ \A w \in [Stock -> Nat] : WeighRecovery(w, rec) <= WeighRecovery(w, b.rec) + w[e0]
        BY <2>1, <3>4, Enter
      <3>7. \A w \in Weights : w[e0] = w[e]
        BY <3>4, <3>5, SameWeight
      <3>8. price \in Nat /\ Worths[e] = price + Margins[e]
        BY <3>5, WorthsWeigh
      <3> HIDE DEF rec, price
      <3>9. \A w \in Weights :
               /\ Weigh(w, less) + WeighRecovery(w, rec) <= Weigh(w, inv) + WeighRecovery(w, recovery)
               /\ w[e] \in Nat /\ Weigh(w, b.inv) = Weigh(w, less) + w[e]
               /\ WeighRecovery(w, rec) <= WeighRecovery(w, b.rec) + w[e]
        <4> TAKE w \in Weights
        <4> DEFINE x == Weigh(w, b.inv)
                   x1 == Weigh(w, less)
                   x0 == Weigh(w, inv)
                   y == WeighRecovery(w, b.rec)
                   y1 == WeighRecovery(w, rec)
                   y0 == WeighRecovery(w, recovery)
                   v == w[e]
        <4>1. x = x1 + v /\ y1 <= y + v /\ x + y <= x0 + y0
          BY <1>d, <2>1, <3>2, <3>6, <3>7 DEF Clearance
        <4>2. /\ x \in Nat /\ x1 \in Nat /\ x0 \in Nat /\ v \in Nat
              /\ y \in Nat /\ y1 \in Nat /\ y0 \in Nat
          BY <1>c, <1>d, <2>1, <3>3, <3>5, <3>6
        <4> HIDE DEF x, x1, x0, y, y1, y0, v
        <4>3. x1 + y1 <= x0 + y0
          BY ONLY <4>1, <4>2
        <4> QED BY <4>1, <4>2, <4>3 DEF x, x1, x0, y, y1, y0, v
      <3>10. b.alz + price + Weigh(Worths, less) + WeighRecovery(Margins, rec)
                <= alz + Weigh(Worths, inv) + WeighRecovery(Margins, recovery)
        <4> DEFINE x == Weigh(Worths, b.inv)
                   x1 == Weigh(Worths, less)
                   x0 == Weigh(Worths, inv)
                   y == WeighRecovery(Margins, b.rec)
                   y1 == WeighRecovery(Margins, rec)
                   y0 == WeighRecovery(Margins, recovery)
                   u == Worths[e]
                   v == Margins[e]
                   a == b.alz
        <4>1. /\ x = x1 + u /\ y1 <= y + v /\ u = price + v
              /\ a + x + y <= alz + x0 + y0
          BY <1>e, <2>1, <3>8, <3>9 DEF Clearance
        <4>2. /\ x \in Nat /\ x1 \in Nat /\ x0 \in Nat /\ u \in Nat /\ v \in Nat
              /\ y \in Nat /\ y1 \in Nat /\ y0 \in Nat /\ a \in Nat /\ alz \in Nat /\ price \in Nat
          BY <1>c, <1>d, <1>e, <2>1, <3>3, <3>6, <3>8, <3>9
        <4> HIDE DEF x, x1, x0, y, y1, y0, u, v, a
        <4>3. a + price + x1 + y1 <= alz + x0 + y0
          BY ONLY <4>1, <4>2
        <4> QED BY <4>3 DEF x1, x0, y1, y0, a
      <3>11. Len(less) < Len(inv)
        <4>1. Len(b.inv) <= Len(inv) /\ Len(less) = Len(b.inv) - 1
          BY <2>1, <3>2 DEF Clearance
        <4>2. Len(b.inv) \in Nat /\ Len(inv) \in Nat
          BY <1>b, <1>c, <2>1
        <4> QED BY ONLY <4>1, <4>2
      <3>12. Clearance(less, b.alz + price, rec)
        <4>1. Len(less) \in Nat /\ Len(inv) \in Nat
          BY <1>b, <1>c, <3>3
        <4>2. Len(less) <= Len(inv) /\ Len(less) # Len(inv)
          BY ONLY <3>11, <4>1
        <4> QED BY <3>9, <3>10, <4>2 DEF Clearance
      <3>13. b.alz + price \in Nat
        BY <2>1, <3>8
      <3>14. r \in T /\ r.inv = less /\ r.alz = b.alz + price /\ r.rec = rec
        BY <3>3, <3>6, <3>13
      <3> HIDE DEF r, T
      <3>15. r \in Fine
        BY <3>12, <3>14 DEF Fine
      <3> QED BY <3>1, <3>15
    <2> QED BY <2>2, <2>3
  <1>4. \E g : Runs(g)
    <2> DEFINE G == [x \in (1 .. n) \X T |-> SellOne(x[2], slots[x[1]])]
    <2>1. \A i \in 1 .. n : \A b \in T : G[<<i, b>>] = SellOne(b, slots[i])
      OBVIOUS
    <2>2. Leads(G, n, Good, T, start)
      <3> HIDE DEF G, T, Good, start
      <3>1. \A i \in 1 .. n : i - 1 \in 0 .. n
        BY <1>0
      <3>2. ASSUME NEW i \in 1 .. n, NEW b \in Good[i - 1]
            PROVE  G[<<i, b>>] \in Good[i]
        <4>1. b \in T
          BY <1>2, <3>1
        <4> QED BY <1>3, <2>1, <4>1
      <3> QED BY <1>0, <1>2, <3>2 DEF Leads
    <2> HIDE DEF Good, G, T, start
    <2>3. PICK g \in [0 .. n -> T] :
              /\ g[0] = start
              /\ \A i \in 1 .. n : g[i - 1] \in Good[i - 1] /\ g[i] = G[<<i, g[i - 1]>>]
      BY ONLY <2>2, RunExists
    <2>4. \A i \in 1 .. n : i - 1 \in 0 .. n
      BY <1>0
    <2>5. \A i \in 1 .. n : g[i] = SellOne(g[i - 1], slots[i])
      BY <2>1, <2>3, <2>4
    <2>6. g = [i \in 0 .. n |-> g[i]]
      BY <2>3
    <2>7. \A i \in 0 .. n : g[i] = IF i = 0 THEN start ELSE SellOne(g[i - 1], slots[i])
      BY <1>0, <2>3, <2>5
    <2> QED BY <2>6, <2>7
  <1>5. Runs(all)
    <2> HIDE DEF Runs
    <2> QED BY <1>4
  <1>6. all[n] = Sold(slots)
    BY DEF Sold, n
  <1> HIDE DEF all
  <1>7. all[0] = start /\ \A i \in 1 .. n : all[i] = SellOne(all[i - 1], slots[i])
    <2> HIDE DEF start, n
    <2> DEFINE R == [i \in 0 .. n |-> IF i = 0 THEN start ELSE SellOne(all[i - 1], slots[i])]
    <2>1. all = R
      BY <1>5
    <2>2. \A i \in 0 .. n : R[i] = IF i = 0 THEN start ELSE SellOne(all[i - 1], slots[i])
      OBVIOUS
    <2> HIDE DEF R
    <2>3. 0 \in 0 .. n /\ \A i \in 1 .. n : i \in 0 .. n /\ i # 0
      BY ONLY <1>0
    <2>4. all[0] = start
      <3>1. R[0] = start
        BY ONLY <2>2, <2>3
      <3> QED BY ONLY <2>1, <3>1
    <2>5. \A i \in 1 .. n : all[i] = SellOne(all[i - 1], slots[i])
      <3>1. \A i \in 1 .. n : R[i] = SellOne(all[i - 1], slots[i])
        BY ONLY <2>2, <2>3
      <3> QED BY ONLY <2>1, <3>1
    <2> QED BY ONLY <2>4, <2>5
  <1>8. all[n] \in Good[n]
    <2> HIDE DEF T, Good, start, Runs
    <2>2. all[0] \in Good[0]
      BY <1>2, <1>7
    <2>3. \A i \in 1 .. n : all[i - 1] \in Good[i - 1] => all[i] \in Good[i]
      BY <1>3, <1>7
    <2>1. \A i \in 0 .. n : all[i] \in Good[i]
      BY ONLY <1>0, <2>2, <2>3, RunStays
    <2> QED BY <1>0, <2>1
  <1> QED BY <1>0, <1>6, <1>8 DEF L

-----------------------------------------------------------------------------
(* What every step but saving and logging in does.                         *)

\* What is changed is marked or noted as not marked.
Marked ==
    /\ saved' = saved /\ lost' = lost /\ mask \subseteq mask' /\ slip \subseteq slip'
    /\ "INFO" \in mask' \cup slip' \/ alz' = alz
    /\ "EQUIPMENT" \in mask' \cup slip' \/ equip' = equip
    /\ "INVENTORY" \in mask' \cup slip' \/ inv' = inv

\* What is held grows by no more than what came into being; so does the Alz
\* alone unless the inventory is marked, and the items alone unless the Alz is.
Tallied ==
    /\ worth <= worth' /\ \A k \in Kinds : made[k] <= made'[k]
    /\ StacksFit => \A k \in Kinds :
          Held(UnitsOf(k))' + made[k] <= Held(UnitsOf(k)) + made'[k]
    /\ Riches' + worth <= Riches + worth'
    /\ "INVENTORY" \in mask' \/ alz' + worth <= alz + worth'
    /\ "INFO" \in mask' \/ Carried(Worths)' + worth <= Carried(Worths) + worth'

LEMMA Amount ==
    ASSUME NEW limit \in Nat, NEW w \in [Stock -> Nat]
    PROVE  /\ \A list \in Lists(limit) : Weigh(w, list) \in Nat
           /\ \A list \in Worn : Weigh(w, list) \in Nat
           /\ \A rec \in RecoveryLists : WeighRecovery(w, rec) \in Nat
  <1>1. MaxEquipment \in Nat
    BY StorageAssumption
  <1> QED BY <1>1, OkIs, WeighNothing, RecoveryIs

LEMMA Amounts ==
    ASSUME Typed
    PROVE  /\ \A w \in [Stock -> Nat] :
                 /\ Weigh(w, inv) \in Nat /\ Weigh(w, equip) \in Nat
                 /\ Weigh(w, temp) \in Nat /\ WeighRecovery(w, recovery) \in Nat
                 /\ Weigh(w, saved["INVENTORY"]) \in Nat
                 /\ Weigh(w, saved["EQUIPMENT"]) \in Nat
                 /\ Carried(w) \in Nat /\ Held(w) \in Nat /\ Stored(w) \in Nat
           /\ Riches \in Nat /\ alz \in Nat /\ worth \in Nat /\ saved["INFO"] \in Nat
           /\ \A k \in Kinds : made[k] \in Nat
  <1>1. /\ inv \in Lists(MaxSlots - 1) /\ temp \in Lists(MaxSlots - 1) /\ equip \in Worn
        /\ saved["INVENTORY"] \in Lists(MaxSlots - 1) /\ saved["EQUIPMENT"] \in Worn
        /\ recovery \in RecoveryLists /\ alz \in Nat /\ worth \in Nat
        /\ saved["INFO"] \in Nat /\ made \in [Kinds -> Nat]
    BY DEF Typed
  <1>2. ASSUME NEW w \in [Stock -> Nat]
        PROVE  /\ Weigh(w, inv) \in Nat /\ Weigh(w, equip) \in Nat
               /\ Weigh(w, temp) \in Nat /\ WeighRecovery(w, recovery) \in Nat
               /\ Weigh(w, saved["INVENTORY"]) \in Nat
               /\ Weigh(w, saved["EQUIPMENT"]) \in Nat
               /\ Carried(w) \in Nat /\ Held(w) \in Nat /\ Stored(w) \in Nat
    <2>1. MaxSlots - 1 \in Nat
      BY StorageAssumption
    <2>2. /\ Weigh(w, inv) \in Nat /\ Weigh(w, equip) \in Nat
          /\ Weigh(w, temp) \in Nat /\ WeighRecovery(w, recovery) \in Nat
          /\ Weigh(w, saved["INVENTORY"]) \in Nat
          /\ Weigh(w, saved["EQUIPMENT"]) \in Nat
      BY <1>1, <2>1, Amount
    <2>3. Carried(w) \in Nat /\ Stored(w) \in Nat
      BY <2>2 DEF Carried, Stored
    <2> QED BY <2>2, <2>3 DEF Held
  <1>3. Riches \in Nat
    <2>1. Worths \in [Stock -> Nat] /\ Margins \in [Stock -> Nat]
      BY WorthsWeigh DEF Weights
    <2>2. alz \in Nat /\ Carried(Worths) \in Nat /\ WeighRecovery(Margins, recovery) \in Nat
      BY <1>1, <1>2, <2>1
    <2> QED BY <2>2 DEF Riches
  <1> QED BY <1>1, <1>2, <1>3

LEMMA AmountsAfter ==
    ASSUME Typed'
    PROVE  /\ \A w \in [Stock -> Nat] :
                 /\ Weigh(w, inv') \in Nat /\ Weigh(w, equip') \in Nat
                 /\ Weigh(w, temp') \in Nat /\ WeighRecovery(w, recovery') \in Nat
                 /\ Weigh(w, saved'["INVENTORY"]) \in Nat
                 /\ Weigh(w, saved'["EQUIPMENT"]) \in Nat
                 /\ Carried(w)' \in Nat /\ Held(w)' \in Nat /\ Stored(w)' \in Nat
           /\ Riches' \in Nat /\ alz' \in Nat /\ worth' \in Nat /\ saved'["INFO"] \in Nat
           /\ \A k \in Kinds : made'[k] \in Nat
  <1>1. /\ inv' \in Lists(MaxSlots - 1) /\ temp' \in Lists(MaxSlots - 1) /\ equip' \in Worn
        /\ saved'["INVENTORY"] \in Lists(MaxSlots - 1) /\ saved'["EQUIPMENT"] \in Worn
        /\ recovery' \in RecoveryLists /\ alz' \in Nat /\ worth' \in Nat
        /\ saved'["INFO"] \in Nat /\ made' \in [Kinds -> Nat]
    BY DEF Typed
  <1>2. ASSUME NEW w \in [Stock -> Nat]
        PROVE  /\ Weigh(w, inv') \in Nat /\ Weigh(w, equip') \in Nat
               /\ Weigh(w, temp') \in Nat /\ WeighRecovery(w, recovery') \in Nat
               /\ Weigh(w, saved'["INVENTORY"]) \in Nat
               /\ Weigh(w, saved'["EQUIPMENT"]) \in Nat
               /\ Carried(w)' \in Nat /\ Held(w)' \in Nat /\ Stored(w)' \in Nat
    <2>1. MaxSlots - 1 \in Nat
      BY StorageAssumption
    <2>2. /\ Weigh(w, inv') \in Nat /\ Weigh(w, equip') \in Nat
          /\ Weigh(w, temp') \in Nat /\ WeighRecovery(w, recovery') \in Nat
          /\ Weigh(w, saved'["INVENTORY"]) \in Nat
          /\ Weigh(w, saved'["EQUIPMENT"]) \in Nat
      BY <1>1, <2>1, Amount
    <2>3. Carried(w)' \in Nat /\ Stored(w)' \in Nat
      BY <2>2 DEF Carried, Stored
    <2> QED BY <2>2, <2>3 DEF Held
  <1>3. Riches' \in Nat
    <2>1. Worths \in [Stock -> Nat] /\ Margins \in [Stock -> Nat]
      BY WorthsWeigh DEF Weights
    <2>2. alz' \in Nat /\ Carried(Worths)' \in Nat /\ WeighRecovery(Margins, recovery') \in Nat
      BY <1>1, <1>2, <2>1
    <2> QED BY <2>2 DEF Riches
  <1> QED BY <1>1, <1>2, <1>3

\* Moving, stacking and using up.
LEMMA NoGain ==
    ASSUME Typed, Typed', UNCHANGED <<made, worth, recovery, alz>>,
           \A w \in Weights : Carried(w)' <= Carried(w)
    PROVE  Tallied
  <1>1. /\ \A w \in [Stock -> Nat] : Carried(w) \in Nat /\ Carried(w)' \in Nat
                                     /\ WeighRecovery(w, recovery) \in Nat
        /\ worth \in Nat /\ alz \in Nat
        /\ \A k \in Kinds : made[k] \in Nat /\ UnitsOf(k) \in [Stock -> Nat]
        /\ Worths \in [Stock -> Nat] /\ Margins \in [Stock -> Nat]
    <2>1. Worths \in [Stock -> Nat] /\ Margins \in [Stock -> Nat]
      BY WorthsWeigh DEF Weights
    <2> QED BY <2>1, Amounts, AmountsAfter, UnitsWeigh
  <1>2. ASSUME NEW w \in Weights
        PROVE  Held(w)' <= Held(w)
    <2>1. w \in [Stock -> Nat]
      BY DEF Weights
    <2>2. /\ Carried(w)' <= Carried(w) /\ Carried(w) \in Nat /\ Carried(w)' \in Nat
          /\ WeighRecovery(w, recovery) \in Nat
          /\ Held(w)' = Carried(w)' + WeighRecovery(w, recovery)
          /\ Held(w) = Carried(w) + WeighRecovery(w, recovery)
      BY <1>1, <2>1 DEF Held
    <2> QED BY <2>2
  <1>3. ASSUME StacksFit, NEW k \in Kinds
        PROVE  Held(UnitsOf(k))' + made[k] <= Held(UnitsOf(k)) + made'[k]
    <2>1. UnitsOf(k) \in Weights /\ UnitsOf(k) \in [Stock -> Nat]
      BY <1>3, UnitsWeigh
    <2>2. /\ Held(UnitsOf(k))' <= Held(UnitsOf(k)) /\ made'[k] = made[k] /\ made[k] \in Nat
          /\ Held(UnitsOf(k))' \in Nat /\ Held(UnitsOf(k)) \in Nat
      BY <1>1, <1>2, <2>1, Amounts, AmountsAfter
    <2> QED BY <2>2
  <1>4. Worths \in Weights /\ Carried(Worths)' <= Carried(Worths)
    BY WorthsWeigh
  <1>5. Riches' <= Riches
    <2>1. /\ Riches' = alz + Carried(Worths)' + WeighRecovery(Margins, recovery)
          /\ Riches = alz + Carried(Worths) + WeighRecovery(Margins, recovery)
      BY DEF Riches
    <2>2. /\ alz \in Nat /\ WeighRecovery(Margins, recovery) \in Nat
          /\ Carried(Worths)' \in Nat /\ Carried(Worths) \in Nat
      BY <1>1
    <2> QED BY <1>4, <2>1, <2>2
  <1>6. Riches \in Nat /\ Riches' \in Nat /\ Carried(Worths)' \in Nat /\ Carried(Worths) \in Nat
    BY <1>1, Amounts, AmountsAfter
  <1>7. worth' = worth /\ alz' = alz /\ \A k \in Kinds : made[k] <= made'[k]
    BY <1>1
  <1>8. /\ Riches' + worth <= Riches + worth'
        /\ alz' + worth <= alz + worth'
        /\ Carried(Worths)' + worth <= Carried(Worths) + worth'
    <2>1. worth \in Nat /\ alz \in Nat /\ worth' = worth /\ alz' = alz
      BY <1>1, <1>7
    <2>2. \A a, b \in Nat : a <= b => a + worth <= b + worth'
      BY ONLY <2>1
    <2>3. Riches' + worth <= Riches + worth'
      BY ONLY <1>5, <1>6, <2>2
    <2>4. Carried(Worths)' + worth <= Carried(Worths) + worth'
      BY ONLY <1>4, <1>6, <2>2
    <2> QED BY <2>1, <2>3, <2>4
  <1>9. worth <= worth'
    BY <1>1, <1>7
  <1>10. StacksFit => \A k \in Kinds :
            Held(UnitsOf(k))' + made[k] <= Held(UnitsOf(k)) + made'[k]
    BY <1>3
  <1> QED BY ONLY <1>7, <1>8, <1>9, <1>10 DEF Tallied

\* What comes into being is carried.
LEMMA Gain ==
    ASSUME Typed, Typed', NEW new \in Seq(Stock), Create(new), recovery' = recovery,
           alz' <= alz, \A w \in [Stock -> Nat] : Carried(w)' = Carried(w) + Weigh(w, new)
    PROVE  Tallied
  <1>1. /\ \A w \in [Stock -> Nat] : /\ Carried(w) \in Nat /\ Carried(w)' \in Nat
                                     /\ WeighRecovery(w, recovery) \in Nat
                                     /\ Weigh(w, new) \in Nat
        /\ \A k \in Kinds : made[k] \in Nat
    BY Amounts, AmountsAfter, WeighNothing
  <1>2. worth \in Nat /\ alz \in Nat /\ alz' \in Nat /\ Riches \in Nat /\ Riches' \in Nat
    BY Amounts, AmountsAfter
  <1>3. /\ Worths \in [Stock -> Nat] /\ Margins \in [Stock -> Nat]
        /\ \A k \in Kinds : UnitsOf(k) \in [Stock -> Nat]
    BY WorthsWeigh, UnitsWeigh DEF Weights
  <1>4. worth' = worth + Weigh(Worths, new)
    BY WorthsWeigh DEF Create
  <1>5. \A k \in Kinds : made'[k] = made[k] + Weigh(UnitsOf(k), new)
    BY UnitsWeigh DEF Create
  <1>6. ASSUME NEW w \in [Stock -> Nat]
        PROVE  Held(w)' = Held(w) + Weigh(w, new)
    <2> DEFINE c == Carried(w)
               d == Weigh(w, new)
               r == WeighRecovery(w, recovery)
    <2>1. Held(w)' = c + d + r /\ Held(w) = c + r
      BY DEF Held
    <2>2. c \in Nat /\ d \in Nat /\ r \in Nat
      BY <1>1
    <2> HIDE DEF c, d, r
    <2>3. Held(w)' = Held(w) + d
      BY <2>1, <2>2
    <2> QED BY <2>3 DEF d
  <1>7. ASSUME NEW k \in Kinds
        PROVE  /\ Held(UnitsOf(k))' + made[k] <= Held(UnitsOf(k)) + made'[k]
               /\ made[k] <= made'[k]
    <2> DEFINE h == Held(UnitsOf(k))
               h1 == Held(UnitsOf(k))'
               d == Weigh(UnitsOf(k), new)
               m == made[k]
    <2>1. h1 = h + d /\ made'[k] = m + d
      BY <1>3, <1>5, <1>6
    <2>2. h \in Nat /\ d \in Nat /\ m \in Nat
      BY <1>1, <1>3, Amounts
    <2> HIDE DEF h, h1, d, m
    <2>3. h1 + m <= h + made'[k] /\ m <= made'[k]
      BY ONLY <2>1, <2>2
    <2> QED BY <2>3 DEF h, h1, m
  <1>8. Riches' + worth <= Riches + worth' /\ worth <= worth'
        /\ Carried(Worths)' + worth <= Carried(Worths) + worth'
        /\ alz' + worth <= alz + worth'
    <2> DEFINE c == Carried(Worths)
               c1 == Carried(Worths)'
               d == Weigh(Worths, new)
               r == WeighRecovery(Margins, recovery)
    <2>1. c1 = c + d
      BY <1>3
    <2>2. Riches = alz + c + r /\ Riches' = alz' + c1 + r
      BY DEF Riches
    <2>3. c \in Nat /\ d \in Nat /\ r \in Nat
      BY <1>1, <1>3
    <2>4. worth' = worth + d
      BY <1>4
    <2> HIDE DEF c, c1, d, r
    <2>5. /\ Riches' + worth <= Riches + worth' /\ worth <= worth' /\ c1 + worth <= c + worth'
          /\ alz' + worth <= alz + worth'
      <3> DEFINE v == worth
                 v1 == worth'
                 a == alz
                 a1 == alz'
                 x == Riches
                 x1 == Riches'
      <3>1. /\ v \in Nat /\ a \in Nat /\ a1 \in Nat /\ c \in Nat /\ d \in Nat /\ r \in Nat
            /\ v1 = v + d /\ c1 = c + d /\ x = a + c + r /\ x1 = a1 + c1 + r /\ a1 <= a
        BY <1>2, <2>1, <2>2, <2>3, <2>4
      <3> HIDE DEF v, v1, a, a1, x, x1
      <3>2. x1 + v <= x + v1 /\ v <= v1 /\ c1 + v <= c + v1 /\ a1 + v <= a + v1
        BY ONLY <3>1
      <3> QED BY <3>2 DEF v, v1, a, a1, x, x1
    <2> QED BY <2>5 DEF c, c1
  <1> QED BY ONLY <1>7, <1>8 DEF Tallied

\* The parts of the inductive invariant that a step keeps.
LEMMA StillCounted ==
    ASSUME StorageIInv, Typed', Marked, Tallied
    PROVE  StorageIInv'
  <1>1. Typed /\ UnitsCounted /\ WorthCounted /\ ChangesMarked
    BY DEF StorageIInv
  <1>2. /\ saved' = saved /\ lost' = lost /\ mask \subseteq mask' /\ slip \subseteq slip'
        /\ worth <= worth' /\ \A k \in Kinds : made[k] <= made'[k]
    BY DEF Marked, Tallied
  <1>3. \A w : Stored(w)' = Stored(w)
    BY <1>2 DEF Stored
  <1>4. UnitsCounted'
    <2> SUFFICES ASSUME StacksFit, NEW k \in Kinds
                 PROVE  /\ Held(UnitsOf(k))' <= made'[k]
                        /\ lost' \cap ItemParts = {} => Stored(UnitsOf(k))' <= made'[k]
      BY DEF UnitsCounted
    <2> DEFINE h == Held(UnitsOf(k))
               h1 == Held(UnitsOf(k))'
               m == made[k]
               m1 == made'[k]
               d == Stored(UnitsOf(k))
    <2>1. /\ h \in Nat /\ h1 \in Nat /\ m \in Nat /\ m1 \in Nat /\ d \in Nat
      BY <1>1, UnitsWeigh, Amounts, AmountsAfter
    <2>2. h1 + m <= h + m1 /\ m <= m1
      BY <1>2 DEF Tallied
    <2>3. h <= m /\ (lost \cap ItemParts = {} => d <= m)
      BY <1>1 DEF UnitsCounted
    <2> HIDE DEF h, h1, m, m1, d
    <2>4. h1 <= m1 /\ (lost \cap ItemParts = {} => d <= m1)
      BY ONLY <2>1, <2>2, <2>3
    <2> QED BY <1>2, <1>3, <2>4 DEF h, h1, m, m1, d
  <1>5. WorthCounted'
    <2> DEFINE c == Carried(Worths)
               c1 == Carried(Worths)'
               d == Stored(Worths)
               i == saved["INFO"]
    <2>1. /\ c \in Nat /\ c1 \in Nat /\ d \in Nat /\ i \in Nat
          /\ alz \in Nat /\ alz' \in Nat /\ worth \in Nat /\ worth' \in Nat
          /\ Riches \in Nat /\ Riches' \in Nat
      <3>1. Worths \in [Stock -> Nat]
        BY WorthsWeigh DEF Weights
      <3> QED BY <1>1, <3>1, Amounts, AmountsAfter
    <2> DEFINE v == worth
               v1 == worth'
               a == alz
               a1 == alz'
               x == Riches
               x1 == Riches'
               noInv == "INVENTORY" \notin mask /\ lost \cap ItemParts = {}
               noInv1 == "INVENTORY" \notin mask' /\ lost \cap ItemParts = {}
               noInfo == "INFO" \notin mask \cup lost
               noInfo1 == "INFO" \notin mask' \cup lost
    <2>2. /\ x1 + v <= x + v1 /\ v <= v1
          /\ noInv1 => a1 + v <= a + v1
          /\ noInfo1 => c1 + v <= c + v1
      BY DEF Tallied
    <2>3. /\ x <= v
          /\ noInv => a + d <= v
          /\ noInfo => i + c <= v
          /\ lost = {} => i + d <= v
      BY <1>1 DEF WorthCounted
    <2>4. saved'["INFO"] = i /\ Stored(Worths)' = d /\ lost' = lost
      BY <1>2, <1>3
    <2>5. (noInv1 => noInv) /\ (noInfo1 => noInfo)
      BY <1>2
    <2>6. /\ c \in Nat /\ c1 \in Nat /\ d \in Nat /\ i \in Nat /\ a \in Nat /\ a1 \in Nat
          /\ v \in Nat /\ v1 \in Nat /\ x \in Nat /\ x1 \in Nat
      BY <2>1
    <2> HIDE DEF c, c1, d, i, a, a1, v, v1, x, x1, noInv, noInv1, noInfo, noInfo1
    <2>7. x1 <= v1
      BY ONLY <2>2, <2>3, <2>6
    <2>8. noInv1 => a1 + d <= v1
      BY ONLY <2>2, <2>3, <2>5, <2>6
    <2>9. noInfo1 => i + c1 <= v1
      BY ONLY <2>2, <2>3, <2>5, <2>6
    <2>10. lost = {} => i + d <= v1
      BY ONLY <2>2, <2>3, <2>6
    <2> QED BY <2>4, <2>7, <2>8, <2>9, <2>10
            DEF WorthCounted, c1, a1, v1, x1, noInv1, noInfo1
  <1>6. ChangesMarked'
    BY <1>1, <1>2 DEF ChangesMarked, Marked, Parts, Live
  <1> QED BY <1>4, <1>5, <1>6 DEF StorageIInv

Kept == Typed' /\ Marked /\ Tallied

LEMMA ListsTyped ==
    ASSUME Typed
    PROVE  /\ MaxSlots - 1 \in Nat /\ MaxEquipment \in Nat
           /\ SlotNo = 0 .. MaxSlots - 1 /\ EquipNo = 0 .. MaxEquipment
           /\ inv \in Lists(MaxSlots - 1) /\ inv \in Seq(Ok(MaxSlots - 1)) /\ inv \in Seq(Stock)
           /\ temp \in Lists(MaxSlots - 1) /\ temp \in Seq(Stock)
           /\ equip \in Worn /\ equip \in Seq(Ok(MaxEquipment)) /\ equip \in Seq(Stock)
           /\ Ok(MaxSlots - 1) \subseteq Stock /\ Ok(MaxEquipment) \subseteq Stock
           /\ Ok(0) \subseteq Stock /\ Weights \subseteq [Stock -> Nat]
  <1>1. MaxSlots - 1 \in Nat /\ MaxEquipment \in Nat
    BY StorageAssumption
  <1>2. inv \in Lists(MaxSlots - 1) /\ temp \in Lists(MaxSlots - 1) /\ equip \in Worn
    BY DEF Typed
  <1>3. Weights \subseteq [Stock -> Nat]
    BY DEF Weights
  <1> QED BY <1>1, <1>2, <1>3, OkIs DEF SlotNo, EquipNo

Moving(e, s) == [e EXCEPT !.at = s]

LEMMA Reslot ==
    ASSUME NEW from \in Nat, NEW to \in Nat, NEW e \in Ok(from), NEW s \in 0 .. to
    PROVE  /\ Moving(e, s) \in Ok(to) /\ Moving(e, s).at = s /\ Moving(e, s) \in Stock
           /\ e \in Stock
           /\ \A w \in Weights : w[Moving(e, s)] = w[e] /\ w[e] \in Nat
  <1> DEFINE e1 == Moving(e, s)
  <1>1. /\ e.kind \in Kinds /\ e.level \in Levelled /\ e.n \in Nat
        /\ StacksFit => Fits(e)
        /\ e1 = [at |-> s, kind |-> e.kind, level |-> e.level, n |-> e.n]
    BY DEF Ok, Slots, Moving
  <1> HIDE DEF e1
  <1>2. e1 \in Slots(to, Levelled) /\ e1.kind = e.kind /\ e1.n = e.n /\ e1.at = s
    BY <1>1 DEF Slots
  <1>3. e1 \in Ok(to)
    BY <1>1, <1>2 DEF Ok, Fits
  <1>4. e1 \in Stock /\ e \in Stock
    BY <1>3, OkIs
  <1>5. \A w \in Weights : w[e1] = w[e] /\ w[e] \in Nat
    BY <1>2, <1>4, SameWeight DEF Weights
  <1> QED BY <1>2, <1>3, <1>4, <1>5 DEF e1

LEMMA KeptByInventoryToEquipment ==
    ASSUME Typed, NEW s \in SlotNo, NEW t \in EquipNo, InventoryToEquipment(s, t)
    PROVE  Kept
  <1> DEFINE e == EntryAt(inv, s)
             e1 == Moving(e, t)
  <1>1. /\ Holds(inv, s) /\ Len(equip) < MaxEquipment /\ ~Holds(equip, t)
        /\ equip' = Append(equip, e1) /\ inv' = WithoutSlot(inv, s)
        /\ mask' = mask \cup {"EQUIPMENT", "INVENTORY"}
        /\ UNCHANGED <<temp, recovery, alz, saved, offers, closing, fault, ghost>>
    BY DEF InventoryToEquipment, Mark, Moving
  <1>2. /\ e \in Ok(MaxSlots - 1) /\ inv' \in Lists(MaxSlots - 1)
        /\ \A w \in [Stock -> Nat] : Weigh(w, inv) = Weigh(w, inv') + w[e]
    BY <1>1, ListsTyped, Take, TakeSorted
  <1>3. /\ e1 \in Ok(MaxEquipment) /\ e1.at = t
        /\ \A w \in Weights : w[e1] = w[e] /\ w[e] \in Nat
    <2>1. MaxSlots - 1 \in Nat /\ MaxEquipment \in Nat /\ t \in 0 .. MaxEquipment
      BY ListsTyped
    <2> HIDE DEF e
    <2> QED BY ONLY <1>2, <2>1, Reslot
  <1> HIDE DEF e, e1
  <1>4. /\ equip' \in Worn
        /\ \A w \in [Stock -> Nat] : Weigh(w, equip') = Weigh(w, equip) + w[e1]
    BY <1>1, <1>3, ListsTyped, PutOn
  <1>5. Typed'
    BY <1>1, <1>2, <1>4 DEF Typed, ghost, Parts
  <1>6. Marked
    BY <1>1 DEF Marked, ghost
  <1>7. ASSUME NEW w \in Weights
        PROVE  Carried(w)' <= Carried(w)
    <2> DEFINE i == Weigh(w, inv)
               i1 == Weigh(w, inv')
               q == Weigh(w, equip)
               q1 == Weigh(w, equip')
               t0 == Weigh(w, temp)
               x == w[e]
    <2>1. /\ i = i1 + x /\ q1 = q + x
          /\ i \in Nat /\ i1 \in Nat /\ q \in Nat /\ q1 \in Nat /\ t0 \in Nat /\ x \in Nat
      BY <1>2, <1>3, <1>4, <1>5, ListsTyped, Amounts, AmountsAfter
    <2>2. Carried(w) = i + q + t0 /\ Carried(w)' = i1 + q1 + t0
      BY <1>1 DEF Carried
    <2> HIDE DEF i, i1, q, q1, t0, x
    <2> QED BY ONLY <2>1, <2>2
  <1>8. Tallied
    BY <1>1, <1>5, <1>7, NoGain DEF ghost
  <1> QED BY <1>5, <1>6, <1>8 DEF Kept

LEMMA KeptByEquipmentToInventory ==
    ASSUME Typed, NEW s \in EquipNo, NEW t \in SlotNo, EquipmentToInventory(s, t)
    PROVE  Kept
  <1> DEFINE e == EntryAt(equip, s)
             e1 == Moving(e, t)
  <1>1. /\ Holds(equip, s) /\ ~Holds(inv, t)
        /\ inv' = WithSlot(inv, e1) /\ equip' = WithoutSlot(equip, s)
        /\ mask' = mask \cup {"EQUIPMENT", "INVENTORY"}
        /\ UNCHANGED <<temp, recovery, alz, saved, offers, closing, fault, ghost>>
    BY DEF EquipmentToInventory, Mark, Moving
  <1>2. /\ e \in Ok(MaxEquipment) /\ equip' \in Worn
        /\ \A w \in [Stock -> Nat] : Weigh(w, equip) = Weigh(w, equip') + w[e]
    BY <1>1, ListsTyped, Take, TakeWorn
  <1>3. /\ e1 \in Ok(MaxSlots - 1) /\ e1.at = t
        /\ \A w \in Weights : w[e1] = w[e] /\ w[e] \in Nat
    <2>1. MaxSlots - 1 \in Nat /\ MaxEquipment \in Nat /\ t \in 0 .. MaxSlots - 1
      BY ListsTyped
    <2> HIDE DEF e
    <2> QED BY ONLY SMTT(30), <1>2, <2>1, Reslot
  <1> HIDE DEF e, e1
  <1>4. /\ inv' \in Lists(MaxSlots - 1)
        /\ \A w \in [Stock -> Nat] : Weigh(w, inv') = Weigh(w, inv) + w[e1]
    BY <1>1, <1>3, ListsTyped, Put
  <1>5. Typed'
    BY <1>1, <1>2, <1>4 DEF Typed, ghost, Parts
  <1>6. Marked
    BY <1>1 DEF Marked, ghost
  <1>7. ASSUME NEW w \in Weights
        PROVE  Carried(w)' <= Carried(w)
    <2> DEFINE i == Weigh(w, inv)
               i1 == Weigh(w, inv')
               q == Weigh(w, equip)
               q1 == Weigh(w, equip')
               t0 == Weigh(w, temp)
               x == w[e]
    <2>1. /\ i1 = i + x /\ q = q1 + x
          /\ i \in Nat /\ i1 \in Nat /\ q \in Nat /\ q1 \in Nat /\ t0 \in Nat /\ x \in Nat
      BY <1>2, <1>3, <1>4, <1>5, ListsTyped, Amounts, AmountsAfter
    <2>2. Carried(w) = i + q + t0 /\ Carried(w)' = i1 + q1 + t0
      BY <1>1 DEF Carried
    <2> HIDE DEF i, i1, q, q1, t0, x
    <2> QED BY ONLY <2>1, <2>2
  <1>8. Tallied
    BY <1>1, <1>5, <1>7, NoGain DEF ghost
  <1> QED BY <1>5, <1>6, <1>8 DEF Kept

\* An inventory that weighs no more.
Lighter(list) ==
    list \in Lists(MaxSlots - 1) /\ \A w \in Weights : Weigh(w, list) <= Weigh(w, inv)

LEMMA KeptByLess ==
    ASSUME Typed, Lighter(inv'),
           UNCHANGED <<equip, temp, recovery, alz, saved, offers, made, worth, lost>>,
           closing' \in BOOLEAN, fault' \in BOOLEAN,
           mask \subseteq mask', mask' \subseteq Parts,
           slip \subseteq slip', slip' \subseteq {"INFO", "INVENTORY"},
           "EQUIPMENT" \in mask' => "INVENTORY" \in mask',
           "INVENTORY" \in mask' \cup slip' \/ inv' = inv
    PROVE  Kept
  <1>1. Typed'
    BY DEF Typed, Lighter
  <1>2. Marked
    BY DEF Marked
  <1>3. ASSUME NEW w \in Weights
        PROVE  Carried(w)' <= Carried(w)
    <2> DEFINE i == Weigh(w, inv)
               i1 == Weigh(w, inv')
               q == Weigh(w, equip)
               t0 == Weigh(w, temp)
    <2>1. i1 <= i /\ i \in Nat /\ i1 \in Nat /\ q \in Nat /\ t0 \in Nat
      BY <1>1, ListsTyped, Amounts, AmountsAfter DEF Lighter
    <2>2. Carried(w) = i + q + t0 /\ Carried(w)' = i1 + q + t0
      BY DEF Carried
    <2> HIDE DEF i, i1, q, t0
    <2> QED BY ONLY <2>1, <2>2
  <1>4. Tallied
    BY <1>1, <1>3, NoGain
  <1> QED BY <1>1, <1>2, <1>4 DEF Kept

LEMMA LighterIs ==
    ASSUME Typed
    PROVE  /\ Lighter(inv)
           /\ \A s : Holds(inv, s) => Lighter(WithoutSlot(inv, s))
           /\ \A s : Holds(inv, s) /\ EntryAt(inv, s).n > 0
                        => Lighter(Recounted(inv, s, EntryAt(inv, s).n - 1))
  <1>1. \A w \in Weights : Weigh(w, inv) \in Nat
    BY ListsTyped, Amounts
  <1>2. Lighter(inv)
    BY <1>1, ListsTyped DEF Lighter
  <1>3. ASSUME NEW s, Holds(inv, s)
        PROVE  /\ Lighter(WithoutSlot(inv, s))
               /\ EntryAt(inv, s) \in Ok(MaxSlots - 1)
    <2>1. /\ WithoutSlot(inv, s) \in Lists(MaxSlots - 1) /\ EntryAt(inv, s) \in Ok(MaxSlots - 1)
          /\ \A w \in [Stock -> Nat] :
                Weigh(w, inv) = Weigh(w, WithoutSlot(inv, s)) + w[EntryAt(inv, s)]
      BY <1>3, ListsTyped, Take, TakeSorted
    <2>2. ASSUME NEW w \in Weights
          PROVE  Weigh(w, WithoutSlot(inv, s)) <= Weigh(w, inv)
      <3> DEFINE a == Weigh(w, inv)
                 b == Weigh(w, WithoutSlot(inv, s))
                 c == w[EntryAt(inv, s)]
      <3>1. a = b + c
        BY <2>1 DEF Weights
      <3>2. a \in Nat /\ b \in Nat /\ c \in Nat
        BY <1>1, <2>1, ListsTyped, Amount
      <3> HIDE DEF a, b, c
      <3>3. b <= a
        BY ONLY <3>1, <3>2
      <3> QED BY <3>3 DEF a, b
    <2> QED BY <2>1, <2>2 DEF Lighter
  <1>4. ASSUME NEW s, Holds(inv, s), EntryAt(inv, s).n > 0
        PROVE  Lighter(Recounted(inv, s, EntryAt(inv, s).n - 1))
    <2> DEFINE e == EntryAt(inv, s)
               v == e.n - 1
               new == Recounted(inv, s, v)
    <2>1. e \in Ok(MaxSlots - 1) /\ e \in Stock
      BY <1>3, <1>4, ListsTyped
    <2>2. e.n \in Nat /\ v \in Nat /\ e.kind \in Kinds /\ (StacksFit => Fits(e))
      BY <1>4, <2>1 DEF Ok, Slots
    <2>3. Counting(e, v).kind = e.kind /\ Counting(e, v).n = v
      BY <2>1 DEF Counting, Stock
    <2>4. StacksFit => Fits(Counting(e, v))
      BY <2>2, <2>3, StackAssumption DEF Fits
    <2> HIDE DEF e, v
    <2>5. /\ new \in Lists(MaxSlots - 1) /\ Counting(e, v) \in Stock
          /\ \A w \in [Stock -> Nat] : Weigh(w, new) + w[e] = Weigh(w, inv) + w[Counting(e, v)]
      <3>1. v \in Nat /\ Holds(inv, s) /\ (StacksFit => Fits(Counting(EntryAt(inv, s), v)))
        BY <1>4, <2>2, <2>4 DEF e
      <3> QED BY <3>1, ListsTyped, Recount DEF e
    <2> HIDE DEF new
    <2>6. v <= e.n
      BY <2>2 DEF v
    <2>7. ASSUME NEW w \in Weights
          PROVE  Weigh(w, new) <= Weigh(w, inv)
      <3> DEFINE a == Weigh(w, inv)
                 b == Weigh(w, new)
                 c == w[e]
                 d == w[Counting(e, v)]
      <3>1. b + c = a + d
        BY <2>5 DEF Weights
      <3>2. d <= c
        BY <2>1, <2>3, <2>5, <2>6 DEF Weights
      <3>3. a \in Nat /\ b \in Nat /\ c \in Nat /\ d \in Nat
        BY <1>1, <2>1, <2>5, ListsTyped, Amount
      <3> HIDE DEF a, b, c, d
      <3>4. b <= a
        BY ONLY <3>1, <3>2, <3>3
      <3> QED BY <3>4 DEF a, b
    <2>8. Lighter(new)
      BY <2>5, <2>7 DEF Lighter
    <2> QED BY <2>8 DEF new, v, e
  <1> QED BY <1>2, <1>3, <1>4

LEMMA KeptByWithinInventory ==
    ASSUME Typed, NEW s \in SlotNo, NEW t \in SlotNo, WithinInventory(s, t)
    PROVE  Kept
  <1>1. /\ CanMove(inv, inv, s, t) /\ inv' = MovedWithin(inv, s, t)
        /\ mask' = mask \cup {"INVENTORY"}
        /\ UNCHANGED <<equip, temp, recovery, alz, saved, offers, closing, fault, ghost>>
    BY DEF WithinInventory, Mark
  <1>2. Lighter(inv')
    BY <1>1, ListsTyped, MovedWithinWeighs DEF Lighter
  <1>3. mask \subseteq Parts /\ slip \subseteq {"INFO", "INVENTORY"} /\ closing \in BOOLEAN /\ fault \in BOOLEAN
    BY DEF Typed
  <1> QED BY <1>1, <1>2, <1>3, KeptByLess DEF ghost, Parts

LEMMA KeptByUsePotion ==
    ASSUME Typed, NEW s \in SlotNo, UsePotion(s)
    PROVE  Kept
  <1> DEFINE e == EntryAt(inv, s)
  <1>1. /\ Holds(inv, s) /\ mask \subseteq mask' /\ mask' \subseteq mask \cup {"INFO", "INVENTORY"}
        /\ slip \subseteq slip' /\ slip' \subseteq slip \cup {"INVENTORY"}
        /\ "INVENTORY" \in mask' \cup slip'
        /\ UNCHANGED <<equip, temp, recovery, alz, saved, offers, closing, fault, made, worth, lost>>
    BY DEF UsePotion, Mark, Forget
  <1>2. \/ inv' = WithoutSlot(inv, s)
        \/ ~(MaxStack[e.kind] = 0 \/ e.n <= 1) /\ inv' = Recounted(inv, s, e.n - 1)
    BY DEF UsePotion, Recounted
  <1>3. e.n \in Nat
    BY <1>1, ListsTyped, Take DEF Ok, Slots
  <1>4. Lighter(inv')
    BY <1>1, <1>2, <1>3, LighterIs
  <1>5. mask \subseteq Parts /\ slip \subseteq {"INFO", "INVENTORY"} /\ closing \in BOOLEAN /\ fault \in BOOLEAN
        /\ ("EQUIPMENT" \in mask => "INVENTORY" \in mask)
    BY DEF Typed
  <1> QED BY <1>1, <1>4, <1>5, KeptByLess DEF Parts

LEMMA KeptByUseSpent ==
    ASSUME Typed, NEW s \in SlotNo, UseSpent(s)
    PROVE  Kept
  <1>1. /\ Holds(inv, s) /\ inv' = WithoutSlot(inv, s) /\ mask' = mask \cup {"INVENTORY"}
        /\ UNCHANGED <<equip, temp, recovery, alz, saved, offers, closing, fault, ghost>>
    BY DEF UseSpent, Mark
  <1>2. Lighter(inv')
    BY <1>1, LighterIs
  <1>3. mask \subseteq Parts /\ slip \subseteq {"INFO", "INVENTORY"} /\ closing \in BOOLEAN /\ fault \in BOOLEAN
    BY DEF Typed
  <1> QED BY <1>1, <1>2, <1>3, KeptByLess DEF ghost, Parts

LEMMA KeptByReturnWarp ==
    ASSUME Typed, NEW s \in SlotNo, ReturnWarp(s)
    PROVE  Kept
  <1> DEFINE e == EntryAt(inv, s)
  <1>1. /\ Holds(inv, s) /\ e.n > 0 /\ mask' = mask \cup {"INFO"}
        /\ slip' = slip \cup {"INVENTORY"}
        /\ UNCHANGED <<equip, temp, recovery, alz, saved, offers, closing, fault, made, worth, lost>>
    BY DEF ReturnWarp, Mark, Forget
  <1>2. inv' = WithoutSlot(inv, s) \/ inv' = Recounted(inv, s, e.n - 1)
    BY DEF ReturnWarp, Recounted
  <1>3. Lighter(inv')
    BY <1>1, <1>2, LighterIs
  <1>4. mask \subseteq Parts /\ slip \subseteq {"INFO", "INVENTORY"} /\ closing \in BOOLEAN /\ fault \in BOOLEAN
        /\ ("EQUIPMENT" \in mask => "INVENTORY" \in mask)
    BY DEF Typed
  <1> QED BY <1>1, <1>3, <1>4, KeptByLess DEF Parts

LEMMA KeptByUpgradeItemLevel ==
    ASSUME Typed, NEW s \in SlotNo, UpgradeItemLevel(s)
    PROVE  Kept
  <1> DEFINE i == Position(inv, s)
             found == FindCores(CoresNeeded(inv[i].level))
             cores == {inv[c].at : c \in found}
             left == Cleared(cores)
  <1>1. /\ Holds(inv, s) /\ mask' = mask \cup {"INVENTORY"}
        /\ \/ inv' = left
           \/ /\ ~(i > Len(left))
              /\ \E level \in Reached(left[i].level) : inv' = [left EXCEPT ![i].level = level]
        /\ UNCHANGED <<equip, temp, recovery, alz, saved, offers, closing, fault, ghost>>
    BY DEF UpgradeItemLevel, Mark
  <1>2. \A c \in found : c \in DOMAIN inv
    BY DEF FindCores
  <1>3. i \in 1 .. Len(inv)
    BY <1>1, ListsTyped, PositionFound
  <1> HIDE DEF found
  <1>4. \A r \in cores : r \in SlotNo /\ Holds(inv, r)
    <2>1. ASSUME NEW c \in found
          PROVE  inv[c].at \in SlotNo /\ Holds(inv, inv[c].at)
      <3>1. c \in DOMAIN inv
        BY <1>2
      <3>2. inv[c] \in Ok(MaxSlots - 1)
        BY <3>1, ListsTyped
      <3>3. inv[c].at \in SlotNo
        BY <3>2, ListsTyped DEF Ok, Slots
      <3> QED BY <3>1, <3>3 DEF Holds, Positions
    <2> QED BY <2>1
  <1> HIDE DEF cores
  <1>5. Lighter(left)
    BY <1>4, ListsTyped, ClearedIs DEF Lighter
  <1> HIDE DEF left
  <1>6. ASSUME NEW level \in Reached(left[i].level), ~(i > Len(left)),
               inv' = [left EXCEPT ![i].level = level]
        PROVE  Lighter(inv')
    <2>1. left \in Lists(MaxSlots - 1) /\ left \in Seq(Ok(MaxSlots - 1)) /\ MaxSlots - 1 \in Nat
      BY <1>5, ListsTyped, OkIs DEF Lighter
    <2>2. i \in 1 .. Len(left)
      <3>1. Len(left) \in Nat /\ Len(inv) \in Nat
        BY <2>1, ListsTyped
      <3> QED BY <1>3, <1>6, <3>1
    <2>3. left[i].level \in Levelled
      <3>1. left[i] \in Ok(MaxSlots - 1)
        BY <2>1, <2>2
      <3> QED BY <3>1 DEF Ok, Slots
    <2>4. level \in Levelled
      BY <1>6, <2>3, StorageAssumption DEF Reached
    <2> HIDE DEF i
    <2>5. /\ Relevelled(left, i, level) \in Lists(MaxSlots - 1)
          /\ \A w \in Weights : Weigh(w, Relevelled(left, i, level)) = Weigh(w, left)
      BY ONLY <2>1, <2>2, <2>4, Relevel
    <2>6. inv' = Relevelled(left, i, level)
      BY <1>6 DEF Relevelled
    <2> QED BY <1>5, <2>5, <2>6 DEF Lighter
  <1>7. Lighter(inv')
    BY <1>1, <1>5, <1>6
  <1>8. mask \subseteq Parts /\ slip \subseteq {"INFO", "INVENTORY"} /\ closing \in BOOLEAN /\ fault \in BOOLEAN
    BY DEF Typed
  <1> QED BY <1>1, <1>7, <1>8, KeptByLess DEF ghost, Parts

\* Steps that change no list.
LEMMA KeptByRefused ==
    ASSUME Typed, Refused \/ \E s \in SlotNo : UpgradeAssert(s)
    PROVE  Kept
  <1>1. /\ UNCHANGED <<inv, equip, temp, recovery, alz, mask, saved, offers, ghost>>
        /\ closing' \in BOOLEAN /\ fault' \in BOOLEAN
    BY DEF Refused, UpgradeAssert, Typed, lists
  <1>2. Lighter(inv')
    BY <1>1, LighterIs
  <1>3. mask \subseteq Parts /\ slip \subseteq {"INFO", "INVENTORY"}
        /\ ("EQUIPMENT" \in mask => "INVENTORY" \in mask)
    BY DEF Typed
  <1> QED BY <1>1, <1>2, <1>3, KeptByLess DEF ghost

LEMMA KeptByMoves ==
    ASSUME Typed, NEW moves \in Seq((0 .. 2 * MaxSlots - 1) \X SlotNo),
           MoveInventoryItemList(moves)
    PROVE  Kept
  <1> DEFINE b == Moved(moves)
  <1>1. /\ inv' = b.inv /\ temp' = b.temp
        /\ mask \subseteq mask' /\ mask' \subseteq mask \cup {"INVENTORY"}
        /\ slip \subseteq slip' /\ slip' \subseteq slip \cup {"INVENTORY"}
        /\ "INVENTORY" \in mask' \cup slip' \/ inv' = inv
        /\ UNCHANGED <<equip, recovery, alz, saved, offers, closing, fault, made, worth, lost>>
    BY DEF MoveInventoryItemList, Mark, Forget
  <1>2. /\ b.inv \in Lists(MaxSlots - 1) /\ b.temp \in Lists(MaxSlots - 1)
        /\ \A w \in Weights :
              Weigh(w, b.inv) + Weigh(w, b.temp) <= Weigh(w, inv) + Weigh(w, temp)
    BY ListsTyped, MovedIs
  <1> HIDE DEF b
  <1>3. Typed'
    BY <1>1, <1>2 DEF Typed, Parts
  <1>4. Marked
    BY <1>1 DEF Marked
  <1>5. ASSUME NEW w \in Weights
        PROVE  Carried(w)' <= Carried(w)
    <2> DEFINE i == Weigh(w, inv)
               i1 == Weigh(w, inv')
               q == Weigh(w, equip)
               t0 == Weigh(w, temp)
               t1 == Weigh(w, temp')
    <2>1. /\ i1 + t1 <= i + t0
          /\ i \in Nat /\ i1 \in Nat /\ q \in Nat /\ t0 \in Nat /\ t1 \in Nat
      BY <1>1, <1>2, <1>3, ListsTyped, Amounts, AmountsAfter
    <2>2. Carried(w) = i + q + t0 /\ Carried(w)' = i1 + q + t1
      BY <1>1 DEF Carried
    <2> HIDE DEF i, i1, q, t0, t1
    <2> QED BY ONLY <2>1, <2>2
  <1>6. Tallied
    BY <1>1, <1>3, <1>5, NoGain
  <1> QED BY <1>3, <1>4, <1>6 DEF Kept

LEMMA Created ==
    ASSUME Typed, NEW new \in Seq(Stock), Create(new)
    PROVE  made' \in [Kinds -> Nat] /\ worth' \in Nat
  <1>1. ASSUME NEW k \in Kinds
        PROVE  UnitsIn(new, k) \in Nat /\ made[k] \in Nat
    <2>1. UnitsOf(k) \in [Stock -> Nat] /\ UnitsIn(new, k) = Weigh(UnitsOf(k), new)
      BY UnitsWeigh
    <2>2. Weigh(UnitsOf(k), new) \in Nat
      BY <2>1, WeighNothing
    <2>3. made[k] \in Nat
      BY Amounts
    <2> QED BY <2>1, <2>2, <2>3
  <1>2. ValueOf(new) \in Nat /\ worth \in Nat
    BY WorthsWeigh, WeighNothing, Amounts DEF Weights
  <1>3. made' = [k \in Kinds |-> made[k] + UnitsIn(new, k)] /\ worth' = worth + ValueOf(new)
    BY DEF Create
  <1> QED BY <1>1, <1>2, <1>3

LEMMA KeptByBuyItem ==
    ASSUME Typed, NEW o \in DOMAIN offers, NEW slots \in Seq(SlotNo), BuyItem(o, slots)
    PROVE  Kept
  <1> DEFINE b == Bought(o, slots)
  <1>1. /\ inv' = b.inv /\ offers' = [offers EXCEPT ![o] = b.offer]
        /\ closing' = (closing \/ ~b.ok) /\ mask' = mask \cup {"INVENTORY"}
        /\ Create(b.new)
        /\ UNCHANGED <<equip, temp, recovery, alz, saved, fault, slip, lost>>
    BY DEF BuyItem, Mark
  <1>2. offers[o] \in SoundItems /\ inv \in Lists(MaxSlots - 1)
    BY DEF Typed
  <1>3. /\ b.inv \in Lists(MaxSlots - 1) /\ b.new \in Seq(Ok(MaxSlots - 1))
        /\ b.offer \in SoundItems /\ b.ok \in BOOLEAN
        /\ \A w \in [Stock -> Nat] : Weigh(w, b.inv) = Weigh(w, inv) + Weigh(w, b.new)
    BY <1>2, BoughtIs
  <1> HIDE DEF b
  <1>4. b.new \in Seq(Stock)
    BY <1>3, ListsTyped, OkIs
  <1>5. made' \in [Kinds -> Nat] /\ worth' \in Nat
    BY <1>1, <1>4, Created
  <1>6. \A p \in DOMAIN offers' : offers'[p] \in SoundItems
    BY <1>1, <1>3 DEF Typed
  <1>7. Typed'
    BY <1>1, <1>3, <1>5, <1>6 DEF Typed, Parts
  <1>8. Marked
    BY <1>1 DEF Marked
  <1>9. ASSUME NEW w \in [Stock -> Nat]
        PROVE  Carried(w)' = Carried(w) + Weigh(w, b.new)
    <2> DEFINE i == Weigh(w, inv)
               i1 == Weigh(w, inv')
               q == Weigh(w, equip)
               t0 == Weigh(w, temp)
               x == Weigh(w, b.new)
    <2>1. /\ i1 = i + x
          /\ i \in Nat /\ i1 \in Nat /\ q \in Nat /\ t0 \in Nat /\ x \in Nat
      BY <1>1, <1>3, <1>4, <1>7, Amounts, AmountsAfter, WeighNothing
    <2>2. Carried(w) = i + q + t0 /\ Carried(w)' = i1 + q + t0
      BY <1>1 DEF Carried
    <2> HIDE DEF i, i1, q, t0, x
    <2>3. Carried(w)' = Carried(w) + x
      BY ONLY <2>1, <2>2
    <2> QED BY <2>3 DEF x
  <1>10. recovery' = recovery /\ alz' <= alz
    BY <1>1, Amounts
  <1>11. Tallied
    <2> DEFINE new == b.new
    <2>1. new \in Seq(Stock) /\ Create(new)
          /\ \A w \in [Stock -> Nat] : Carried(w)' = Carried(w) + Weigh(w, new)
      BY <1>1, <1>4, <1>9
    <2> HIDE DEF new
    <2> QED BY <1>7, <1>10, <2>1, Gain
  <1> QED BY <1>7, <1>8, <1>11 DEF Kept

\* An item that comes into being in a free slot of the inventory.
LEMMA Arrives ==
    ASSUME Typed, NEW item \in SoundItems, NEW s \in SlotNo, ~Holds(inv, s),
           inv' = WithSlot(inv, At(s, item)), Create(<<At(s, item)>>)
    PROVE  /\ inv' \in Lists(MaxSlots - 1)
           /\ made' \in [Kinds -> Nat] /\ worth' \in Nat
           /\ <<At(s, item)>> \in Seq(Stock)
           /\ UNCHANGED <<equip, temp>> =>
                 \A w \in [Stock -> Nat] :
                    Carried(w)' = Carried(w) + Weigh(w, <<At(s, item)>>)
  <1> DEFINE e == At(s, item)
             new == <<e>>
  <1>1. e \in Ok(MaxSlots - 1) /\ e.at = s /\ e \in Stock
    BY ListsTyped, AtOk
  <1>2. inv' = WithSlot(inv, e) /\ Create(new)
    OBVIOUS
  <1> HIDE DEF e
  <1>3. /\ inv' \in Lists(MaxSlots - 1)
        /\ \A w \in [Stock -> Nat] : Weigh(w, inv') = Weigh(w, inv) + w[e]
    BY <1>1, <1>2, ListsTyped, Put
  <1>4. new \in Seq(Stock) /\ \A w \in [Stock -> Nat] : Weigh(w, new) = w[e]
    BY <1>1, WeighNothing
  <1> HIDE DEF new
  <1>5. made' \in [Kinds -> Nat] /\ worth' \in Nat
    BY <1>2, <1>4, Created
  <1>6. ASSUME UNCHANGED <<equip, temp>>, NEW w \in [Stock -> Nat]
        PROVE  Carried(w)' = Carried(w) + Weigh(w, new)
    <2> DEFINE i == Weigh(w, inv)
               i1 == Weigh(w, inv')
               q == Weigh(w, equip)
               t0 == Weigh(w, temp)
               x == Weigh(w, new)
    <2>1. i1 = i + x /\ i \in Nat /\ q \in Nat /\ t0 \in Nat /\ x \in Nat
      BY <1>3, <1>4, Amounts, WeighNothing
    <2>2. Carried(w) = i + q + t0 /\ Carried(w)' = i1 + q + t0
      BY <1>6 DEF Carried
    <2> HIDE DEF i, i1, q, t0, x
    <2>3. Carried(w)' = Carried(w) + x
      BY ONLY <2>1, <2>2
    <2> QED BY <2>3 DEF x
  <1> QED BY <1>3, <1>4, <1>5, <1>6 DEF new, e

LEMMA KeptByBuySkillbook ==
    ASSUME Typed, NEW book \in Books, NEW s \in SlotNo, BuySkillbook(book, s)
    PROVE  Kept
  <1> DEFINE item == Item(book.kind, 0, book.n)
             new == <<At(s, item)>>
  <1>1. /\ alz >= book.price /\ ~Holds(inv, s) /\ inv' = WithSlot(inv, At(s, item))
        /\ alz' = alz - book.price /\ slip' = slip \cup {"INFO", "INVENTORY"}
        /\ Create(<<At(s, item)>>)
        /\ UNCHANGED <<equip, temp, recovery, mask, saved, offers, closing, fault, lost>>
    BY DEF BuySkillbook, Forget
  <1>2. item \in SoundItems
    <2>1. /\ book.kind \in Kinds /\ book.n \in Nat /\ TopLevel \in Nat
          /\ StacksFit => Fits(book)
      BY StorageAssumption DEF StacksFit
    <2>2. item = [kind |-> book.kind, level |-> 0, n |-> book.n]
      BY DEF Item
    <2> HIDE DEF item
    <2>3. item \in Items /\ item.kind = book.kind /\ item.n = book.n
      BY <2>1, <2>2 DEF Items, Levelled
    <2>4. StacksFit => Fits(item)
      BY <2>1, <2>3 DEF Fits
    <2> QED BY <2>3, <2>4 DEF SoundItems
  <1>3. alz \in Nat /\ book.price \in Nat
    BY StorageAssumption, Amounts
  <1>4. alz' \in Nat /\ alz' <= alz
    BY <1>1, <1>3
  <1> HIDE DEF item
  <1>5. /\ inv' \in Lists(MaxSlots - 1) /\ made' \in [Kinds -> Nat] /\ worth' \in Nat
        /\ new \in Seq(Stock)
        /\ \A w \in [Stock -> Nat] : Carried(w)' = Carried(w) + Weigh(w, new)
    BY <1>1, <1>2, Arrives
  <1>6. Typed'
    BY <1>1, <1>4, <1>5 DEF Typed
  <1>7. Marked
    BY <1>1 DEF Marked
  <1>8. Tallied
    <2>1. Create(new) /\ recovery' = recovery
      BY <1>1
    <2> HIDE DEF new
    <2> QED BY <1>4, <1>5, <1>6, <2>1, Gain
  <1> QED BY <1>6, <1>7, <1>8 DEF Kept

LEMMA KeptByLootInventoryItem ==
    ASSUME Typed, NEW item \in Drops, NEW s \in SlotNo, LootInventoryItem(item, s)
    PROVE  Kept
  <1> DEFINE new == <<At(s, item)>>
  <1>1. /\ mask' = mask \cup {"INFO"}
        /\ UNCHANGED <<equip, temp, recovery, alz, saved, offers, closing, fault, lost>>
    BY DEF LootInventoryItem, Mark
  <1>2. /\ mask \subseteq Parts /\ slip \subseteq {"INFO", "INVENTORY"}
        /\ closing \in BOOLEAN /\ fault \in BOOLEAN
        /\ ("EQUIPMENT" \in mask => "INVENTORY" \in mask)
    BY DEF Typed
  <1>3. CASE Holds(inv, s)
    <2>1. UNCHANGED <<inv, made, worth, slip>>
      BY <1>3 DEF LootInventoryItem
    <2>2. Lighter(inv')
      BY <2>1, LighterIs
    <2> QED BY <1>1, <1>2, <2>1, <2>2, KeptByLess DEF Parts
  <1>4. CASE ~Holds(inv, s)
    <2>1. /\ inv' = WithSlot(inv, At(s, item)) /\ Create(<<At(s, item)>>)
          /\ slip' = slip \cup {"INVENTORY"}
      BY <1>4 DEF LootInventoryItem, Forget
    <2>2. item \in SoundItems
      BY StorageAssumption DEF SoundItems, StacksFit
    <2>3. /\ inv' \in Lists(MaxSlots - 1) /\ made' \in [Kinds -> Nat] /\ worth' \in Nat
          /\ new \in Seq(Stock)
          /\ \A w \in [Stock -> Nat] : Carried(w)' = Carried(w) + Weigh(w, new)
      BY <1>1, <1>4, <2>1, <2>2, Arrives
    <2>4. Typed'
      BY <1>1, <2>1, <2>3 DEF Typed, Parts
    <2>5. Marked
      BY <1>1, <2>1 DEF Marked
    <2>6. Tallied
      <3>1. Create(new) /\ recovery' = recovery /\ alz' <= alz
        BY <1>1, <2>1, Amounts
      <3> HIDE DEF new
      <3> QED BY <2>3, <2>4, <3>1, Gain
    <2> QED BY <2>4, <2>5, <2>6 DEF Kept
  <1> QED BY <1>3, <1>4

LEMMA KeptByExtractItem ==
    ASSUME Typed, NEW s \in SlotNo, ExtractItem(s)
    PROVE  Kept
  <1> DEFINE kind == EntryAt(inv, s).kind
  <1>1. /\ Holds(inv, s)
        /\ UNCHANGED <<inv, equip, recovery, alz, mask, saved, offers, closing, fault, slip, lost>>
    BY DEF ExtractItem
  <1>2. kind \in Kinds
    <2>1. EntryAt(inv, s) \in Ok(MaxSlots - 1)
      BY <1>1, ListsTyped, Take
    <2> QED BY <2>1 DEF Ok, Slots
  <1>3. PICK result \in Pools[kind] :
           /\ Len(temp) + Len(result) <= MaxSlots
           /\ temp' = Extracted(result).temp
           /\ Create(Extracted(result).new)
    BY DEF ExtractItem
  <1> DEFINE b == Extracted(result)
             new == b.new
  <1>4. result \in Seq(Kinds)
    <2>1. result \in Seq(Kinds \ (Potions \cup {Stone}))
      BY <1>2, StorageAssumption
    <2>2. /\ result = [i \in 1 .. Len(result) |-> result[i]] /\ Len(result) \in Nat
          /\ \A i \in 1 .. Len(result) : result[i] \in Kinds
      BY <2>1
    <2> QED BY <2>2
  <1>5. /\ b.temp \in Lists(MaxSlots - 1) /\ b.new \in Seq(Ok(MaxSlots - 1))
        /\ \A w \in [Stock -> Nat] : Weigh(w, b.temp) = Weigh(w, temp) + Weigh(w, b.new)
    BY <1>3, <1>4, ListsTyped, ExtractedIs
  <1>6. temp' = b.temp /\ Create(new)
    BY <1>3
  <1> HIDE DEF b
  <1>7. new \in Seq(Stock)
    BY <1>5, ListsTyped, OkIs
  <1>8. made' \in [Kinds -> Nat] /\ worth' \in Nat
    BY <1>6, <1>7, Created
  <1>9. Typed'
    BY <1>1, <1>5, <1>6, <1>8 DEF Typed
  <1>10. Marked
    BY <1>1 DEF Marked
  <1>11. ASSUME NEW w \in [Stock -> Nat]
         PROVE  Carried(w)' = Carried(w) + Weigh(w, new)
    <2> DEFINE i == Weigh(w, inv)
               q == Weigh(w, equip)
               t0 == Weigh(w, temp)
               t1 == Weigh(w, temp')
               x == Weigh(w, new)
    <2>1. t1 = t0 + x /\ i \in Nat /\ q \in Nat /\ t0 \in Nat /\ x \in Nat
      BY <1>5, <1>6, <1>7, Amounts, WeighNothing
    <2>2. Carried(w) = i + q + t0 /\ Carried(w)' = i + q + t1
      BY <1>1 DEF Carried
    <2> HIDE DEF i, q, t0, t1, x
    <2>3. Carried(w)' = Carried(w) + x
      BY ONLY <2>1, <2>2
    <2> QED BY <2>3 DEF x
  <1>12. Tallied
    <2>1. recovery' = recovery /\ alz' <= alz
      BY <1>1, Amounts
    <2> HIDE DEF new
    <2> QED BY <1>6, <1>7, <1>9, <1>11, <2>1, Gain
  <1> QED BY <1>9, <1>10, <1>12 DEF Kept

\* A step after which nothing new exists, and what is held has not grown.
LEMMA SteadyTally ==
    ASSUME Typed, Typed', made' = made, worth' = worth,
           \A w \in Weights : Held(w)' <= Held(w), Riches' <= Riches,
           "INVENTORY" \in mask' \/ alz' <= alz,
           "INFO" \in mask' \/ Carried(Worths)' <= Carried(Worths)
    PROVE  Tallied
  <1>1. /\ worth \in Nat /\ alz \in Nat /\ alz' \in Nat /\ Riches \in Nat /\ Riches' \in Nat
        /\ \A k \in Kinds : made[k] \in Nat
    BY Amounts, AmountsAfter
  <1>2. Carried(Worths) \in Nat /\ Carried(Worths)' \in Nat
    <2>1. Worths \in [Stock -> Nat]
      BY WorthsWeigh DEF Weights
    <2> QED BY <2>1, Amounts, AmountsAfter
  <1>3. ASSUME StacksFit, NEW k \in Kinds
        PROVE  Held(UnitsOf(k))' + made[k] <= Held(UnitsOf(k)) + made'[k]
    <2>1. UnitsOf(k) \in Weights /\ UnitsOf(k) \in [Stock -> Nat]
      BY <1>3, UnitsWeigh
    <2>2. /\ Held(UnitsOf(k))' <= Held(UnitsOf(k)) /\ made'[k] = made[k] /\ made[k] \in Nat
          /\ Held(UnitsOf(k))' \in Nat /\ Held(UnitsOf(k)) \in Nat
      BY <1>1, <2>1, Amounts, AmountsAfter
    <2> QED BY <2>2
  <1>4. /\ Riches' + worth <= Riches + worth'
        /\ "INVENTORY" \in mask' \/ alz' + worth <= alz + worth'
    <2> DEFINE v == worth
               v1 == worth'
               a == alz
               a1 == alz'
               x == Riches
               x1 == Riches'
               marked == "INVENTORY" \in mask'
    <2>1. /\ v \in Nat /\ v1 = v /\ a \in Nat /\ a1 \in Nat /\ x \in Nat /\ x1 \in Nat
          /\ x1 <= x /\ (~marked => a1 <= a)
      BY <1>1
    <2> HIDE DEF v, v1, a, a1, x, x1, marked
    <2>2. x1 + v <= x + v1 /\ (~marked => a1 + v <= a + v1)
      BY ONLY <2>1
    <2> QED BY <2>2 DEF v, v1, a, a1, x, x1, marked
  <1>6. "INFO" \in mask' \/ Carried(Worths)' + worth <= Carried(Worths) + worth'
    <2> DEFINE c == Carried(Worths)
               c1 == Carried(Worths)'
    <2>1. c \in Nat /\ c1 \in Nat /\ ("INFO" \in mask' \/ c1 <= c)
      BY <1>2
    <2> HIDE DEF c, c1
    <2>2. "INFO" \in mask' \/ c1 + worth <= c + worth'
      BY <1>1, <2>1
    <2> QED BY <2>2 DEF c, c1
  <1>7. worth <= worth' /\ \A k \in Kinds : made[k] <= made'[k]
    BY <1>1
  <1>8. StacksFit => \A k \in Kinds :
            Held(UnitsOf(k))' + made[k] <= Held(UnitsOf(k)) + made'[k]
    BY <1>3
  <1> QED BY ONLY <1>4, <1>6, <1>7, <1>8 DEF Tallied

\* Selling: what leaves the inventory is in the recovery list, or was pushed out
\* of it.
LEMMA KeptBySellItem ==
    ASSUME Typed, NEW slots \in Seq(SlotNo), SellItem(slots)
    PROVE  Kept
  <1> DEFINE b == Sold(slots)
  <1>1. /\ inv' = b.inv /\ alz' = b.alz /\ recovery' = b.rec
        /\ closing' = (closing \/ ~b.ok)
        /\ mask' = mask \cup (IF b.inv # inv THEN {"INFO", "INVENTORY"} ELSE {})
        /\ UNCHANGED <<equip, temp, saved, offers, fault, ghost>>
    BY DEF SellItem, Mark
  <1>2. inv \in Lists(MaxSlots - 1) /\ alz \in Nat /\ recovery \in RecoveryLists
    BY DEF Typed
  <1>3. /\ b.inv \in Lists(MaxSlots - 1) /\ b.alz \in Nat /\ b.rec \in RecoveryLists
        /\ b.ok \in BOOLEAN /\ Clearance(b.inv, b.alz, b.rec)
    BY <1>2, SoldIs
  <1> HIDE DEF b
  <1>4. Typed'
    BY <1>1, <1>3 DEF Typed, ghost, Parts
  <1>5. inv' = inv => alz' = alz
    BY <1>1, <1>3 DEF Clearance
  <1>6. Marked
    BY <1>1, <1>5 DEF Marked, ghost
  <1>7. ASSUME NEW w \in Weights
        PROVE  Held(w)' <= Held(w)
    <2> DEFINE i == Weigh(w, inv)
               i1 == Weigh(w, inv')
               q == Weigh(w, equip)
               t0 == Weigh(w, temp)
               r == WeighRecovery(w, recovery)
               r1 == WeighRecovery(w, recovery')
    <2>1. /\ i1 + r1 <= i + r /\ i \in Nat /\ i1 \in Nat /\ q \in Nat /\ t0 \in Nat
          /\ r \in Nat /\ r1 \in Nat
      BY <1>1, <1>3, <1>4, ListsTyped, Amounts, AmountsAfter DEF Clearance
    <2>2. Held(w) = i + q + t0 + r /\ Held(w)' = i1 + q + t0 + r1
      BY <1>1 DEF Held, Carried
    <2> HIDE DEF i, i1, q, t0, r, r1
    <2> QED BY ONLY <2>1, <2>2
  <1>8. Riches' <= Riches
    <2> DEFINE i == Weigh(Worths, inv)
               i1 == Weigh(Worths, inv')
               q == Weigh(Worths, equip)
               t0 == Weigh(Worths, temp)
               r == WeighRecovery(Margins, recovery)
               r1 == WeighRecovery(Margins, recovery')
               a == alz
               a1 == alz'
    <2>0. Worths \in [Stock -> Nat] /\ Margins \in [Stock -> Nat]
      BY WorthsWeigh DEF Weights
    <2>1. a1 + i1 + r1 <= a + i + r
      BY <1>1, <1>3 DEF Clearance
    <2>2. /\ i \in Nat /\ i1 \in Nat /\ q \in Nat /\ t0 \in Nat
          /\ r \in Nat /\ r1 \in Nat /\ a \in Nat /\ a1 \in Nat
      BY <1>4, <2>0, Amounts, AmountsAfter
    <2>3. Riches = a + (i + q + t0) + r /\ Riches' = a1 + (i1 + q + t0) + r1
      BY <1>1 DEF Riches, Carried
    <2> HIDE DEF i, i1, q, t0, r, r1, a, a1
    <2> QED BY ONLY <2>1, <2>2, <2>3
  <1>9. made' = made /\ worth' = worth
    BY <1>1 DEF ghost
  <1>10. "INVENTORY" \in mask' \/ alz' <= alz
    <2>1. "INVENTORY" \in mask' \/ inv' = inv
      BY <1>1
    <2> QED BY <1>2, <1>5, <2>1
  <1>11. "INFO" \in mask' \/ Carried(Worths)' <= Carried(Worths)
    <2>1. "INFO" \in mask' \/ inv' = inv
      BY <1>1
    <2>2. inv' = inv => Carried(Worths)' = Carried(Worths)
      BY <1>1 DEF Carried
    <2>3. Worths \in [Stock -> Nat]
      BY WorthsWeigh DEF Weights
    <2>4. Carried(Worths) \in Nat
      BY <2>3, Amounts
    <2> DEFINE c == Carried(Worths)
               c1 == Carried(Worths)'
    <2>5. c \in Nat /\ (inv' = inv => c1 = c)
      BY <2>2, <2>4
    <2> HIDE DEF c, c1
    <2>6. "INFO" \in mask' \/ c1 <= c
      BY <2>1, <2>5
    <2> QED BY <2>6 DEF c, c1
  <1>12. Tallied
    BY <1>4, <1>7, <1>8, <1>9, <1>10, <1>11, SteadyTally
  <1> QED BY <1>4, <1>6, <1>12 DEF Kept

\* Recovering: the item comes back for the price it was sold at.
LEMMA KeptByRecoverItem ==
    ASSUME Typed, NEW r \in 0 .. MaxRecovery - 1, NEW s \in SlotNo, RecoverItem(r, s)
    PROVE  Kept
  <1> DEFINE e == recovery.entries[r]
             e1 == Moving(e, s)
             new == Entered(recovery, recovery.count - 1, r, Nothing)
             price == SellPrice[e.kind]
  <1>1. /\ e # Nothing /\ alz >= price /\ ~Holds(inv, s) /\ inv' = WithSlot(inv, e1)
        /\ recovery' = new /\ alz' = alz - price
        /\ mask' = mask \cup {"INFO", "INVENTORY"}
        /\ UNCHANGED <<equip, temp, saved, offers, closing, fault, ghost>>
    BY DEF RecoverItem, Mark, Moving, Entered
  <1>2. recovery \in RecoveryLists /\ alz \in Nat
    BY DEF Typed
  <1>3. /\ e \in Ok(0) /\ recovery' \in RecoveryLists
        /\ \A w \in [Stock -> Nat] :
              WeighRecovery(w, recovery) = WeighRecovery(w, recovery') + w[e]
    BY <1>1, <1>2, Clear
  <1> HIDE DEF e, new
  <1>4. /\ e1 \in Ok(MaxSlots - 1) /\ e1.at = s /\ e \in Stock /\ e1 \in Stock
        /\ \A w \in Weights : w[e1] = w[e] /\ w[e] \in Nat
    <2>1. MaxSlots - 1 \in Nat /\ 0 \in Nat /\ s \in 0 .. MaxSlots - 1
      BY ListsTyped
    <2> QED BY ONLY <1>3, <2>1, Reslot
  <1> HIDE DEF e1
  <1>5. /\ inv' \in Lists(MaxSlots - 1)
        /\ \A w \in [Stock -> Nat] : Weigh(w, inv') = Weigh(w, inv) + w[e1]
    BY <1>1, <1>4, ListsTyped, Put
  <1>6. price \in Nat /\ Worths[e] = price + Margins[e]
    BY <1>4, WorthsWeigh
  <1> HIDE DEF price
  <1>7. Typed'
    <2>1. alz' \in Nat
      BY <1>1, <1>2, <1>6
    <2> QED BY <1>1, <1>3, <1>5, <2>1 DEF Typed, ghost, Parts
  <1>8. Marked
    BY <1>1 DEF Marked, ghost
  <1>9. ASSUME NEW w \in Weights
        PROVE  Held(w)' <= Held(w)
    <2> DEFINE i == Weigh(w, inv)
               i1 == Weigh(w, inv')
               q == Weigh(w, equip)
               t0 == Weigh(w, temp)
               y == WeighRecovery(w, recovery)
               y1 == WeighRecovery(w, recovery')
               x == w[e]
    <2>1. /\ i1 = i + x /\ y = y1 + x /\ i \in Nat /\ i1 \in Nat /\ q \in Nat /\ t0 \in Nat
          /\ y \in Nat /\ y1 \in Nat /\ x \in Nat
      BY <1>3, <1>4, <1>5, <1>7, ListsTyped, Amounts, AmountsAfter
    <2>2. Held(w) = i + q + t0 + y /\ Held(w)' = i1 + q + t0 + y1
      BY <1>1 DEF Held, Carried
    <2> HIDE DEF i, i1, q, t0, y, y1, x
    <2> QED BY ONLY <2>1, <2>2
  <1>10. Riches' <= Riches
    <2> DEFINE i == Weigh(Worths, inv)
               i1 == Weigh(Worths, inv')
               q == Weigh(Worths, equip)
               t0 == Weigh(Worths, temp)
               y == WeighRecovery(Margins, recovery)
               y1 == WeighRecovery(Margins, recovery')
               a == alz
               a1 == alz'
               u == Worths[e]
               v == Margins[e]
    <2>0. /\ Worths \in [Stock -> Nat] /\ Margins \in [Stock -> Nat]
          /\ Worths \in Weights /\ Margins \in Weights
      BY WorthsWeigh DEF Weights
    <2>1. i1 = i + u /\ y = y1 + v /\ u = price + v /\ a1 = a - price
      BY <1>1, <1>3, <1>4, <1>5, <1>6, <2>0
    <2>2. /\ i \in Nat /\ i1 \in Nat /\ q \in Nat /\ t0 \in Nat /\ u \in Nat /\ v \in Nat
          /\ y \in Nat /\ y1 \in Nat /\ a \in Nat /\ a1 \in Nat /\ price \in Nat
      BY <1>4, <1>6, <1>7, <2>0, Amounts, AmountsAfter
    <2>3. Riches = a + (i + q + t0) + y /\ Riches' = a1 + (i1 + q + t0) + y1
      BY <1>1 DEF Riches, Carried
    <2> HIDE DEF i, i1, q, t0, y, y1, a, a1, u, v
    <2> QED BY ONLY <2>1, <2>2, <2>3
  <1>11. made' = made /\ worth' = worth /\ "INVENTORY" \in mask' /\ "INFO" \in mask'
    BY <1>1 DEF ghost
  <1>12. Tallied
    BY <1>7, <1>9, <1>10, <1>11, SteadyTally
  <1> QED BY <1>7, <1>8, <1>12 DEF Kept

\* Using an Alz reward: it is worth at least the Alz it gives.
LEMMA KeptByUseCoin ==
    ASSUME Typed, NEW s \in SlotNo, UseCoin(s)
    PROVE  Kept
  <1> DEFINE e == EntryAt(inv, s)
             n == e.n
  <1>1. /\ Holds(inv, s) /\ e.kind \in Coins /\ alz' = alz + n /\ inv' = WithoutSlot(inv, s)
        /\ mask' = mask \cup {"INVENTORY"} /\ slip' = slip \cup {"INFO"}
        /\ UNCHANGED <<equip, temp, recovery, saved, offers, closing, fault, made, worth, lost>>
    BY DEF UseCoin, Mark, Forget
  <1>2. /\ e \in Ok(MaxSlots - 1) /\ inv' \in Lists(MaxSlots - 1)
        /\ \A w \in [Stock -> Nat] : Weigh(w, inv) = Weigh(w, inv') + w[e]
    BY <1>1, ListsTyped, Take, TakeSorted
  <1> HIDE DEF e
  <1>3. e \in Stock
    BY <1>2, ListsTyped
  <1>4. n \in Nat /\ n <= Worths[e]
    BY <1>1, <1>3, WorthsWeigh DEF Stock
  <1>5. \A w \in Weights : w[e] \in Nat
    BY <1>3, ListsTyped
  <1> HIDE DEF n
  <1>6. Typed'
    <2>1. alz' \in Nat
      BY <1>1, <1>4, Amounts
    <2> QED BY <1>1, <1>2, <2>1 DEF Typed, Parts
  <1>7. Marked
    BY <1>1 DEF Marked
  <1>8. ASSUME NEW w \in Weights
        PROVE  Held(w)' <= Held(w) /\ Carried(w)' + w[e] = Carried(w)
    <2> DEFINE i == Weigh(w, inv)
               i1 == Weigh(w, inv')
               q == Weigh(w, equip)
               t0 == Weigh(w, temp)
               y == WeighRecovery(w, recovery)
               x == w[e]
    <2>1. /\ i = i1 + x /\ i \in Nat /\ i1 \in Nat /\ q \in Nat /\ t0 \in Nat
          /\ y \in Nat /\ x \in Nat
      BY <1>2, <1>5, <1>6, ListsTyped, Amounts, AmountsAfter
    <2>2. /\ Held(w) = i + q + t0 + y /\ Held(w)' = i1 + q + t0 + y
          /\ Carried(w) = i + q + t0 /\ Carried(w)' = i1 + q + t0
      BY <1>1 DEF Held, Carried
    <2> HIDE DEF i, i1, q, t0, y, x
    <2>3. Held(w)' <= Held(w) /\ Carried(w)' + x = Carried(w)
      BY ONLY <2>1, <2>2
    <2> QED BY <2>3 DEF x
  <1>9. Riches' <= Riches /\ Carried(Worths)' <= Carried(Worths)
    <2> DEFINE c == Carried(Worths)
               c1 == Carried(Worths)'
               y == WeighRecovery(Margins, recovery)
               a == alz
               a1 == alz'
               u == Worths[e]
    <2>0. /\ Worths \in [Stock -> Nat] /\ Margins \in [Stock -> Nat] /\ Worths \in Weights
      BY WorthsWeigh DEF Weights
    <2>1. c1 + u = c /\ a1 = a + n /\ n <= u
      BY <1>1, <1>4, <1>8, <2>0
    <2>2. /\ c \in Nat /\ c1 \in Nat /\ u \in Nat /\ y \in Nat /\ a \in Nat /\ a1 \in Nat /\ n \in Nat
      BY <1>4, <1>5, <1>6, <2>0, Amounts, AmountsAfter
    <2>3. Riches = a + c + y /\ Riches' = a1 + c1 + y
      BY <1>1 DEF Riches
    <2> HIDE DEF c, c1, y, a, a1, u
    <2>4. Riches' <= Riches /\ c1 <= c
      BY ONLY <2>1, <2>2, <2>3
    <2> QED BY <2>4 DEF c, c1
  <1>10. made' = made /\ worth' = worth /\ "INVENTORY" \in mask'
    BY <1>1
  <1>11. Tallied
    BY <1>6, <1>8, <1>9, <1>10, SteadyTally
  <1> QED BY <1>6, <1>7, <1>11 DEF Kept

LEMMA KeptByLootCurrencyItem ==
    ASSUME Typed, NEW amount \in Purses, LootCurrencyItem(amount)
    PROVE  Kept
  <1>1. /\ alz' = alz + amount /\ worth' = worth + amount /\ mask' = mask \cup {"INFO"}
        /\ UNCHANGED <<inv, equip, temp, recovery, saved, offers, closing, fault, made, slip, lost>>
    BY DEF LootCurrencyItem, Mark, lists
  <1>2. amount \in Nat /\ alz \in Nat /\ worth \in Nat /\ Riches \in Nat
        /\ \A k \in Kinds : made[k] \in Nat
    BY StorageAssumption, Amounts
  <1>3. alz' \in Nat /\ worth' \in Nat
    BY <1>1, <1>2
  <1>4. Typed'
    BY <1>1, <1>3 DEF Typed, Parts
  <1>5. Marked
    BY <1>1 DEF Marked
  <1>6. Riches' + worth <= Riches + worth'
    <2> DEFINE c == Carried(Worths)
               y == WeighRecovery(Margins, recovery)
               a == alz
               a1 == alz'
               v == worth
               v1 == worth'
    <2>0. Worths \in [Stock -> Nat] /\ Margins \in [Stock -> Nat]
      BY WorthsWeigh DEF Weights
    <2>1. Riches = a + c + y /\ Riches' = a1 + c + y
      BY <1>1 DEF Riches, Carried
    <2>2. /\ c \in Nat /\ y \in Nat /\ a \in Nat /\ v \in Nat /\ amount \in Nat
          /\ a1 = a + amount /\ v1 = v + amount
      BY <1>1, <1>2, <2>0, Amounts
    <2> HIDE DEF c, y, a, a1, v, v1
    <2>3. Riches' + v <= Riches + v1
      BY ONLY <2>1, <2>2
    <2> QED BY <2>3 DEF v, v1
  <1>7. alz' + worth <= alz + worth' /\ worth <= worth' /\ "INFO" \in mask'
    BY <1>1, <1>2
  <1>8. ASSUME NEW k \in Kinds
        PROVE  /\ Held(UnitsOf(k))' + made[k] <= Held(UnitsOf(k)) + made'[k]
               /\ made[k] <= made'[k]
    <2>1. Held(UnitsOf(k)) \in Nat
      BY UnitsWeigh, Amounts
    <2>2. Held(UnitsOf(k))' = Held(UnitsOf(k)) /\ made'[k] = made[k]
      BY <1>1 DEF Held, Carried
    <2> QED BY <1>2, <2>1, <2>2
  <1>9. Tallied
    BY <1>6, <1>7, <1>8 DEF Tallied
  <1> QED BY <1>4, <1>5, <1>9 DEF Kept

-----------------------------------------------------------------------------
(* Every step keeps the inductive invariant.                               *)

LEMMA BatchIs ==
    ASSUME NEW S, NEW list \in Batches(S)
    PROVE  list \in Seq(S)
  <1>1. PICK m \in 1 .. MaxBatch : list \in [1 .. m -> S]
    BY DEF Batches
  <1>2. m \in Nat
    BY <1>1
  <1> QED BY <1>1, <1>2

LEMMA MoveKept ==
    ASSUME Typed, MoveInventoryItem
    PROVE  Kept
  <1> QED BY KeptByInventoryToEquipment, KeptByEquipmentToInventory, KeptByWithinInventory
          DEF MoveInventoryItem

LEMMA TradeKept ==
    ASSUME Typed, Trade
    PROVE  Kept
  <1>1. CASE \E o \in DOMAIN offers, slots \in Batches(SlotNo) : BuyItem(o, slots)
    BY <1>1, BatchIs, KeptByBuyItem
  <1>2. CASE \E slots \in Batches(SlotNo) : SellItem(slots)
    BY <1>2, BatchIs, KeptBySellItem
  <1>3. CASE \E r \in 0 .. MaxRecovery - 1, s \in SlotNo : RecoverItem(r, s)
    BY <1>3, KeptByRecoverItem
  <1>4. CASE \E book \in Books, s \in SlotNo : BuySkillbook(book, s)
    BY <1>4, KeptByBuySkillbook
  <1> QED BY <1>1, <1>2, <1>3, <1>4 DEF Trade

LEMMA UseKept ==
    ASSUME Typed, UseItem
    PROVE  Kept
  <1> QED BY KeptByUsePotion, KeptByUseSpent, KeptByUseCoin, KeptByReturnWarp DEF UseItem

LEMMA LootKept ==
    ASSUME Typed, Loot
    PROVE  Kept
  <1> QED BY KeptByLootInventoryItem, KeptByLootCurrencyItem DEF Loot

LEMMA UpgradeKept ==
    ASSUME Typed, Upgrade
    PROVE  Kept
  <1> QED BY KeptByUpgradeItemLevel, KeptByRefused DEF Upgrade

\* After a save nothing is marked.  Either the items were stored together, or
\* neither was marked and both are stored as before, or one of them got lost.
LEMMA SavedTogether ==
    ASSUME StorageIInv, SyncDB, lost' \cap ItemParts = {}
    PROVE  \/ saved'["INVENTORY"] = inv /\ saved'["EQUIPMENT"] = equip
           \/ /\ "INVENTORY" \notin mask /\ "EQUIPMENT" \notin mask /\ lost \cap ItemParts = {}
              /\ saved'["INVENTORY"] = saved["INVENTORY"]
              /\ saved'["EQUIPMENT"] = saved["EQUIPMENT"]
  <1>1. PICK written \in SUBSET mask :
           /\ saved' = [p \in Parts |-> IF p \in written THEN Live[p] ELSE saved[p]]
           /\ lost' = (lost \ written) \cup (mask \ written)
    BY DEF SyncDB
  <1>2. /\ mask \subseteq Parts /\ slip \subseteq {"INFO", "INVENTORY"}
        /\ "EQUIPMENT" \in mask => "INVENTORY" \in mask
    BY DEF StorageIInv, Typed
  <1>3. \A p \in ItemParts : /\ p \in mask => p \in written
                             /\ p \in lost => p \in written
                             /\ p \in Parts
    BY <1>1 DEF ItemParts, Parts
  <1>4. /\ saved'["INVENTORY"] = IF "INVENTORY" \in written THEN inv ELSE saved["INVENTORY"]
        /\ saved'["EQUIPMENT"] = IF "EQUIPMENT" \in written THEN equip ELSE saved["EQUIPMENT"]
    BY <1>1 DEF Parts, Live
  <1>5. "EQUIPMENT" \notin mask => "EQUIPMENT" \notin written /\ "EQUIPMENT" \notin lost
    BY <1>3 DEF ItemParts
  <1>6. "EQUIPMENT" \notin mask => saved["EQUIPMENT"] = equip
    BY <1>2, <1>5 DEF StorageIInv, ChangesMarked, Parts, Live
  <1>7. CASE "INVENTORY" \in mask
    BY <1>3, <1>4, <1>5, <1>6, <1>7 DEF ItemParts
  <1>8. CASE "INVENTORY" \notin mask
    BY <1>2, <1>3, <1>4, <1>5, <1>8 DEF ItemParts
  <1> QED BY <1>7, <1>8

\* The Alz was stored, or was not marked and is stored as before, or got lost.
LEMMA SavedAlz ==
    ASSUME StorageIInv, SyncDB, "INFO" \notin lost'
    PROVE  \/ saved'["INFO"] = alz
           \/ "INFO" \notin mask \cup lost /\ saved'["INFO"] = saved["INFO"]
  <1>1. PICK written \in SUBSET mask :
           /\ saved' = [p \in Parts |-> IF p \in written THEN Live[p] ELSE saved[p]]
           /\ lost' = (lost \ written) \cup (mask \ written)
    BY DEF SyncDB
  <1>2. saved'["INFO"] = IF "INFO" \in written THEN alz ELSE saved["INFO"]
    BY <1>1 DEF Parts, Live
  <1> QED BY <1>1, <1>2

LEMMA SyncTyped ==
    ASSUME StorageIInv, SyncDB
    PROVE  Typed' /\ ChangesMarked'
  <1>1. PICK written \in SUBSET mask :
           /\ saved' = [p \in Parts |-> IF p \in written THEN Live[p] ELSE saved[p]]
           /\ lost' = (lost \ written) \cup (mask \ written)
           /\ slip' = slip \ written
    BY DEF SyncDB
  <1>2. mask' = {} /\ UNCHANGED <<inv, equip, temp, recovery, alz, offers, closing, fault, made, worth>>
    BY DEF SyncDB, lists
  <1>3. Typed /\ ChangesMarked
    BY DEF StorageIInv
  <1>4. /\ saved'["INFO"] \in {alz, saved["INFO"]}
        /\ saved'["INVENTORY"] \in {inv, saved["INVENTORY"]}
        /\ saved'["EQUIPMENT"] \in {equip, saved["EQUIPMENT"]}
        /\ DOMAIN saved' = Parts
    BY <1>1 DEF Parts, Live
  <1>5. lost' \subseteq Parts /\ slip' \subseteq {"INFO", "INVENTORY"}
    BY <1>1, <1>3 DEF Typed
  <1>6. Typed'
    BY <1>2, <1>3, <1>4, <1>5 DEF Typed
  <1>7. ASSUME NEW p \in Parts, p \notin mask', p \notin slip', p \notin lost'
        PROVE  saved'[p] = Live'[p]
    <2>1. Live' = Live
      BY <1>2 DEF Live
    <2>2. p \notin written => p \notin mask /\ p \notin slip /\ p \notin lost
      BY <1>1, <1>7
    <2>3. p \notin written => saved[p] = Live[p]
      BY <1>3, <2>2 DEF ChangesMarked
    <2> QED BY <1>1, <2>1, <2>3
  <1> QED BY <1>6, <1>7 DEF ChangesMarked

LEMMA SyncKept ==
    ASSUME StorageIInv, SyncDB
    PROVE  StorageIInv'
  <1>1. Typed /\ UnitsCounted /\ WorthCounted
    BY DEF StorageIInv
  <1>2. Typed' /\ ChangesMarked'
    BY SyncTyped
  <1>3. mask' = {} /\ UNCHANGED <<inv, equip, temp, recovery, alz, made, worth>>
    BY DEF SyncDB, lists
  <1>4. lost' = {} => lost' \cap ItemParts = {} /\ "INFO" \notin lost'
    OBVIOUS
  \* What is stored is what is carried, or what was stored when it was not marked.
  <1>5. ASSUME NEW w \in [Stock -> Nat], lost' \cap ItemParts = {}
        PROVE  \/ Stored(w)' <= Carried(w)
               \/ /\ Stored(w)' = Stored(w) /\ lost \cap ItemParts = {}
                  /\ "INVENTORY" \notin mask /\ "EQUIPMENT" \notin mask
    <2> DEFINE i == Weigh(w, inv)
               q == Weigh(w, equip)
               t0 == Weigh(w, temp)
               i1 == Weigh(w, saved'["INVENTORY"])
               q1 == Weigh(w, saved'["EQUIPMENT"])
    <2>1. CASE saved'["INVENTORY"] = inv /\ saved'["EQUIPMENT"] = equip
      <3>1. Stored(w)' = i1 + q1 /\ Carried(w) = i + q + t0 /\ i1 = i /\ q1 = q
        BY <2>1 DEF Stored, Carried
      <3>2. i \in Nat /\ q \in Nat /\ t0 \in Nat
        BY <1>1, Amounts
      <3> HIDE DEF i, q, t0, i1, q1
      <3>3. Stored(w)' <= Carried(w)
        BY ONLY <3>1, <3>2
      <3> QED BY <3>3
    <2>2. CASE /\ "INVENTORY" \notin mask /\ "EQUIPMENT" \notin mask /\ lost \cap ItemParts = {}
               /\ saved'["INVENTORY"] = saved["INVENTORY"]
               /\ saved'["EQUIPMENT"] = saved["EQUIPMENT"]
      BY <2>2 DEF Stored
    <2> QED BY <1>5, <2>1, <2>2, SavedTogether
  <1>6. UnitsCounted'
    <2> SUFFICES ASSUME StacksFit, NEW k \in Kinds
                 PROVE  /\ Held(UnitsOf(k))' <= made'[k]
                        /\ lost' \cap ItemParts = {} => Stored(UnitsOf(k))' <= made'[k]
      BY DEF UnitsCounted
    <2> DEFINE h == Held(UnitsOf(k))
               c == Carried(UnitsOf(k))
               y == WeighRecovery(UnitsOf(k), recovery)
               m == made[k]
               d == Stored(UnitsOf(k))
               d1 == Stored(UnitsOf(k))'
               noneLost == lost \cap ItemParts = {}
               noneLost1 == lost' \cap ItemParts = {}
    <2>0. UnitsOf(k) \in [Stock -> Nat]
      BY UnitsWeigh
    <2>1. /\ c \in Nat /\ y \in Nat /\ m \in Nat /\ d \in Nat /\ d1 \in Nat
      BY <1>1, <1>2, <2>0, Amounts, AmountsAfter
    <2>2. h = c + y
      BY DEF Held
    <2>3. h <= m /\ (noneLost => d <= m)
      BY <1>1 DEF UnitsCounted
    <2>4. noneLost1 => d1 <= c \/ (d1 = d /\ noneLost)
      BY <1>5, <2>0
    <2>5. Held(UnitsOf(k))' = h /\ made' = made
      BY <1>3 DEF Held, Carried
    <2> HIDE DEF h, c, y, m, d, d1, noneLost, noneLost1
    <2>6. h <= m /\ (noneLost1 => d1 <= m)
      BY ONLY <2>1, <2>2, <2>3, <2>4
    <2> QED BY <2>5, <2>6 DEF h, m, d1, noneLost1
  <1>7. WorthCounted'
    <2> DEFINE c == Carried(Worths)
               y == WeighRecovery(Margins, recovery)
               a == alz
               v == worth
               f == saved["INFO"]
               f1 == saved'["INFO"]
               d == Stored(Worths)
               d1 == Stored(Worths)'
               noneLost == lost \cap ItemParts = {}
               noneLost1 == lost' \cap ItemParts = {}
               infoKept == "INFO" \notin lost'
               infoLeft == "INFO" \notin mask \cup lost
               itemsLeft == "INVENTORY" \notin mask /\ "EQUIPMENT" \notin mask
    <2>0. Worths \in [Stock -> Nat] /\ Margins \in [Stock -> Nat]
      BY WorthsWeigh DEF Weights
    <2>1. /\ c \in Nat /\ y \in Nat /\ a \in Nat /\ v \in Nat /\ f \in Nat /\ f1 \in Nat
          /\ d \in Nat /\ d1 \in Nat
      BY <1>1, <1>2, <2>0, Amounts, AmountsAfter
    <2>2. a + c + y <= v
      BY <1>1 DEF WorthCounted, Riches
    <2>3. /\ itemsLeft /\ noneLost => a + d <= v
          /\ infoLeft => f + c <= v
      BY <1>1 DEF WorthCounted
    <2>4. noneLost1 => d1 <= c \/ (d1 = d /\ noneLost /\ itemsLeft)
      BY <1>5, <2>0
    <2>5. infoKept => f1 = a \/ (infoLeft /\ f1 = f)
      BY SavedAlz
    <2>6. ~(infoLeft /\ itemsLeft)
      BY <1>1 DEF SyncDB, Typed, Parts
    <2> HIDE DEF c, y, a, v, f, f1, d, d1, noneLost, noneLost1, infoKept, infoLeft, itemsLeft
    <2>7. noneLost1 => a + d1 <= v
      BY ONLY <2>1, <2>2, <2>3, <2>4
    <2>8. infoKept => f1 + c <= v
      BY ONLY <2>1, <2>2, <2>3, <2>5
    <2>9. infoKept /\ noneLost1 => f1 + d1 <= v
      BY ONLY <2>1, <2>2, <2>3, <2>4, <2>5, <2>6
    <2>10. Riches' <= worth'
      BY <1>1, <1>3 DEF WorthCounted, Riches, Carried
    <2>11. noneLost1 => alz' + Stored(Worths)' <= worth'
      BY <1>3, <2>7 DEF a, v, d1
    <2>12. infoKept => saved'["INFO"] + Carried(Worths)' <= worth'
      <3>1. Carried(Worths)' = Carried(Worths) /\ worth' = worth
        BY <1>3 DEF Carried
      <3> QED BY <2>8, <3>1 DEF f1, c, v
    <2>13. infoKept /\ noneLost1 => saved'["INFO"] + Stored(Worths)' <= worth'
      BY <1>3, <2>9 DEF f1, d1, v
    <2> QED BY <1>3, <1>4, <2>10, <2>11, <2>12, <2>13 DEF WorthCounted, noneLost1, infoKept
  <1> QED BY <1>2, <1>6, <1>7 DEF StorageIInv

\* A character that has just come into the world.
Fresh ==
    /\ inv \in Lists(MaxSlots - 1) /\ equip \in Worn /\ alz \in Nat
    /\ temp = <<>> /\ recovery = NoRecovery
    /\ DOMAIN saved = Parts /\ saved["INFO"] = alz
    /\ saved["EQUIPMENT"] = equip /\ saved["INVENTORY"] = inv
    /\ \A o \in DOMAIN offers : offers[o] \in SoundItems
    /\ closing = FALSE /\ fault \in BOOLEAN
    /\ mask = {} /\ slip = {} /\ lost = {}
    /\ made = [k \in Kinds |-> UnitsIn(inv, k) + UnitsIn(equip, k)]
    /\ worth = alz + ValueOf(inv) + ValueOf(equip)

LEMMA FreshSound == Fresh => StorageIInv
  <1> SUFFICES ASSUME Fresh
               PROVE  StorageIInv
    OBVIOUS
  <1>1. MaxSlots - 1 \in Nat /\ MaxEquipment \in Nat
    BY StorageAssumption
  <1>2. inv \in Lists(MaxSlots - 1) /\ equip \in Worn /\ alz \in Nat
    BY DEF Fresh
  <1>3. inv \in Seq(Stock) /\ equip \in Seq(Stock)
    BY <1>1, <1>2, OkIs
  <1>4. \A w \in [Stock -> Nat] : /\ Weigh(w, inv) \in Nat /\ Weigh(w, equip) \in Nat
                                  /\ Weigh(w, temp) = 0 /\ WeighRecovery(w, recovery) = 0
    BY <1>3, WeighNothing, EmptyRecovery DEF Fresh
  <1>5. ASSUME NEW k \in Kinds
        PROVE  /\ UnitsOf(k) \in [Stock -> Nat]
               /\ made[k] = Weigh(UnitsOf(k), inv) + Weigh(UnitsOf(k), equip)
               /\ made[k] \in Nat
    <2>1. UnitsOf(k) \in [Stock -> Nat]
      BY UnitsWeigh
    <2>2. made[k] = UnitsIn(inv, k) + UnitsIn(equip, k)
      BY DEF Fresh
    <2>3. UnitsIn(inv, k) = Weigh(UnitsOf(k), inv) /\ UnitsIn(equip, k) = Weigh(UnitsOf(k), equip)
      BY <1>3, UnitsWeigh
    <2> QED BY <1>4, <2>1, <2>2, <2>3
  <1>6. /\ Worths \in [Stock -> Nat] /\ Margins \in [Stock -> Nat]
        /\ worth = alz + Weigh(Worths, inv) + Weigh(Worths, equip)
    BY <1>3, WorthsWeigh DEF Fresh, Weights
  <1>7. worth \in Nat
    BY <1>2, <1>4, <1>6
  <1>8. \A w : Stored(w) = Weigh(w, inv) + Weigh(w, equip)
    BY DEF Fresh, Stored
  <1>9. \A w \in [Stock -> Nat] : Carried(w) = Weigh(w, inv) + Weigh(w, equip)
    BY <1>4 DEF Carried
  <1>10. \A w \in [Stock -> Nat] : Held(w) = Weigh(w, inv) + Weigh(w, equip)
    <2> TAKE w \in [Stock -> Nat]
    <2>1. Held(w) = Carried(w) + 0
      BY <1>4 DEF Held
    <2> QED BY <1>4, <1>9, <2>1
  <1>11. Typed
    <2>1. made \in [Kinds -> Nat]
      <3>1. made = [k \in Kinds |-> made[k]]
        BY DEF Fresh
      <3> QED BY <1>5, <3>1
    <2>2. <<>> \in Lists(MaxSlots - 1)
      BY DEF Lists, Ascending
    <2> QED BY <1>2, <1>7, <2>1, <2>2, EmptyRecovery DEF Typed, Fresh
  <1>12. UnitsCounted
    <2>1. ASSUME NEW k \in Kinds
          PROVE  /\ Held(UnitsOf(k)) <= made[k]
                 /\ lost \cap ItemParts = {} => Stored(UnitsOf(k)) <= made[k]
      <3>1. Held(UnitsOf(k)) = made[k] /\ Stored(UnitsOf(k)) = made[k] /\ made[k] \in Nat
        BY <1>5, <1>8, <1>10
      <3> QED BY <3>1
    <2> QED BY <2>1, Zenon DEF UnitsCounted
  <1>13. WorthCounted
    <2> DEFINE c == Carried(Worths)
               d == Stored(Worths)
               i == Weigh(Worths, inv)
               q == Weigh(Worths, equip)
    <2>1. c = i + q /\ d = i + q /\ i \in Nat /\ q \in Nat /\ alz \in Nat /\ worth = alz + i + q
      BY <1>2, <1>4, <1>6, <1>8, <1>9
    <2>2. Riches = alz + c + 0
      BY <1>4, <1>6 DEF Riches
    <2> HIDE DEF c, d, i, q
    <2>3. Riches <= worth /\ alz + d <= worth /\ alz + c <= worth
      BY ONLY <2>1, <2>2
    <2>4. saved["INFO"] = alz
      BY DEF Fresh
    <2> QED BY <2>3, <2>4 DEF WorthCounted, c, d
  <1>14. ChangesMarked
    BY DEF ChangesMarked, Fresh, Parts, Live
  <1> QED BY <1>11, <1>12, <1>13, <1>14 DEF StorageIInv

LEMMA RelogKept ==
    ASSUME StorageIInv, Relog
    PROVE  StorageIInv'
  <1>1. Typed
    BY DEF StorageIInv
  <1>2. Fresh'
    BY <1>1 DEF Fresh, Relog, Login, Typed
  <1>3. Fresh' => StorageIInv'
    BY FreshSound, PTL
  <1> QED BY <1>2, <1>3

LEMMA InitSound ==
    ASSUME Init
    PROVE  StorageIInv
  <1>1. /\ inv \in Seq(Slots(MaxSlots - 1, Levelled)) /\ Ascending(inv)
        /\ StacksFit => \A i \in DOMAIN inv : Fits(inv[i])
    BY StorageAssumption DEF Init, StacksFit
  <1>2. inv \in Lists(MaxSlots - 1)
    <2>1. /\ inv = [i \in 1 .. Len(inv) |-> inv[i]] /\ Len(inv) \in Nat
          /\ \A i \in 1 .. Len(inv) : inv[i] \in Ok(MaxSlots - 1)
      BY <1>1 DEF Ok
    <2>2. inv \in Seq(Ok(MaxSlots - 1))
      BY <2>1
    <2> QED BY <1>1, <2>2 DEF Lists
  <1>3. equip \in Worn
    BY StorageAssumption DEF Init, Worn
  <1>4. \A o \in DOMAIN offers : offers[o] \in SoundItems
    <2>1. offers = StartOffers
      BY DEF Init
    <2>2. \A o \in DOMAIN StartOffers : StartOffers[o] \in Offered
      BY DEF Offered
    <2>3. \A item \in Offered : item \in SoundItems
      BY StorageAssumption DEF SoundItems, StacksFit
    <2> QED BY <2>1, <2>2, <2>3
  <1>5. inv \in Seq(Stock)
    <2>1. MaxSlots - 1 \in Nat
      BY StorageAssumption
    <2> QED BY <1>2, <2>1, OkIs
  <1>6. /\ \A k \in Kinds : UnitsIn(inv, k) \in Nat /\ UnitsIn(<<>>, k) = 0
        /\ ValueOf(inv) \in Nat /\ ValueOf(<<>>) = 0
    <2>1. <<>> \in Seq(Stock)
      OBVIOUS
    <2>2. ASSUME NEW k \in Kinds
          PROVE  UnitsIn(inv, k) \in Nat /\ UnitsIn(<<>>, k) = 0
      <3>1. UnitsOf(k) \in [Stock -> Nat]
        BY UnitsWeigh
      <3>2. /\ UnitsIn(inv, k) = Weigh(UnitsOf(k), inv)
            /\ UnitsIn(<<>>, k) = Weigh(UnitsOf(k), <<>>)
        BY <1>5, <2>1, UnitsWeigh
      <3> QED BY <1>5, <3>1, <3>2, WeighNothing
    <2>3. ValueOf(inv) \in Nat /\ ValueOf(<<>>) = 0
      BY <1>5, <2>1, WorthsWeigh, WeighNothing DEF Weights
    <2> QED BY <2>2, <2>3
  <1>7. made = [k \in Kinds |-> UnitsIn(inv, k) + UnitsIn(equip, k)]
    <2>1. equip = <<>> /\ made = [k \in Kinds |-> UnitsIn(inv, k)]
      BY DEF Init
    <2>2. ASSUME NEW k \in Kinds
          PROVE  UnitsIn(inv, k) = UnitsIn(inv, k) + UnitsIn(equip, k)
      <3>1. UnitsIn(equip, k) = 0
        BY <1>6, <2>1
      <3>2. UnitsIn(inv, k) \in Nat
        BY <1>6
      <3> QED BY <3>1, <3>2
    <2> QED BY <2>1, <2>2
  <1>8. alz \in Nat /\ worth = alz + ValueOf(inv) + ValueOf(equip)
    <2>1. alz \in Nat
      BY StorageAssumption DEF Init
    <2> QED BY <1>6, <2>1 DEF Init
  <1>9. Fresh
    BY <1>2, <1>3, <1>4, <1>7, <1>8 DEF Fresh, Init, Live, Parts
  <1> QED BY <1>9, FreshSound

LEMMA StepSound ==
    ASSUME StorageIInv, [Next]_vars
    PROVE  StorageIInv'
  <1>1. Typed
    BY DEF StorageIInv
  <1>2. ASSUME Kept
        PROVE  StorageIInv'
    BY <1>2, StillCounted DEF Kept
  <1>3. CASE MoveInventoryItem
    BY <1>1, <1>2, <1>3, MoveKept
  <1>4. CASE \E moves \in Batches((0 .. 2 * MaxSlots - 1) \X SlotNo) :
                MoveInventoryItemList(moves)
    BY <1>1, <1>2, <1>4, BatchIs, KeptByMoves
  <1>5. CASE Trade
    BY <1>1, <1>2, <1>5, TradeKept
  <1>6. CASE UseItem
    BY <1>1, <1>2, <1>6, UseKept
  <1>7. CASE Loot
    BY <1>1, <1>2, <1>7, LootKept
  <1>8. CASE Upgrade
    BY <1>1, <1>2, <1>8, UpgradeKept
  <1>9. CASE \E s \in SlotNo : ExtractItem(s)
    BY <1>1, <1>2, <1>9, KeptByExtractItem
  <1>10. CASE Refused
    BY <1>1, <1>2, <1>10, KeptByRefused
  <1>11. CASE SyncDB
    BY <1>11, SyncKept
  <1>12. CASE Relog
    BY <1>12, RelogKept
  <1>13. CASE UNCHANGED vars
    BY <1>13 DEF vars, lists, ghost, StorageIInv, Typed, UnitsCounted, WorthCounted, ChangesMarked,
       Held, Carried, Stored, Riches, Live
  <1> QED BY <1>3, <1>4, <1>5, <1>6, <1>7, <1>8, <1>9, <1>10, <1>11, <1>12, <1>13 DEF Next

-----------------------------------------------------------------------------
(* The theorems.                                                           *)

\* In every state the lists are in order, and no mixture of live and stored parts
\* that the marks allow for is worth more, or holds more units, than what came
\* into being: whatever requests, saves, lost saves and logins came before.
THEOREM StorageInductive == Spec => []StorageIInv
  <1>1. Init => StorageIInv
    BY InitSound
  <1>2. StorageIInv /\ [Next]_vars => StorageIInv'
    BY StepSound
  <1> QED BY <1>1, <1>2, PTL DEF Spec

\* The inventory, the temporary inventory and the stored inventory ascend, no
\* equipment slot is worn twice, and every list stays within its array: for any
\* number of slots, any items and any requests.
THEOREM ListsInOrder == Spec => []InventoryInv
  <1>1. StorageIInv => InventoryInv
    <2> SUFFICES ASSUME Typed
                 PROVE  InventoryInv
      BY DEF StorageIInv
    <2>1. \A limit : \A list \in Seq(Ok(limit)) : list \in Seq(Slots(limit, Levelled))
      <3> TAKE limit
      <3>1. Ok(limit) \subseteq Slots(limit, Levelled)
        BY DEF Ok
      <3>2. ASSUME NEW list \in Seq(Ok(limit))
            PROVE  list \in Seq(Slots(limit, Levelled))
        <4>1. list = [i \in 1 .. Len(list) |-> list[i]] /\ Len(list) \in Nat
              /\ \A i \in 1 .. Len(list) : list[i] \in Slots(limit, Levelled)
          BY <3>1
        <4> QED BY <4>1
      <3> QED BY <3>2
    <2>2. TypeOK
      <3>1. /\ inv \in Seq(Slots(MaxSlots - 1, Levelled))
            /\ temp \in Seq(Slots(MaxSlots - 1, Levelled))
            /\ equip \in Seq(Slots(MaxEquipment, Levelled)) /\ Len(equip) <= MaxEquipment
        BY <2>1 DEF Typed, Lists, Worn
      <3>2. /\ recovery.count \in 0 .. MaxRecovery
            /\ recovery.entries \in [0 .. MaxRecovery - 1 -> Slots(0, Levelled) \cup {Nothing}]
        <4>1. recovery \in RecoveryLists /\ Ok(0) \subseteq Slots(0, Levelled)
          BY DEF Typed, Ok
        <4> QED BY <4>1 DEF RecoveryLists
      <3> QED BY <3>1, <3>2 DEF TypeOK, Typed, Parts
    <2>3. SlotsSorted
      BY DEF SlotsSorted, Typed, Lists, Worn
    <2> QED BY <2>2, <2>3 DEF InventoryInv
  <1> QED BY <1>1, StorageInductive, PTL

\* The recovery list counts at least the entries that can be recovered, whatever
\* was sold and recovered in which order: the count never goes below zero.
THEOREM RecoveriesCounted == Spec => []RecoveryCounted
  <1>1. StorageIInv => RecoveryCounted
    BY DEF StorageIInv, Typed, RecoveryLists, RecoveryCounted, Pending
  <1> QED BY <1>1, StorageInductive, PTL

\* What is neither marked, nor changed by a handler that does not mark, nor lost
\* is stored as it is.
THEOREM MarksCoverChanges == Spec => []ChangesMarked
  <1>1. StorageIInv => ChangesMarked
    BY DEF StorageIInv
  <1> QED BY <1>1, StorageInductive, PTL

\* As long as no save got lost the character, carried or stored, is worth no more
\* than what it found, was given and began with.
THEOREM NobodyGetsRich == Spec => []NoProfit
  <1>1. StorageIInv => NoProfit
    <2> SUFFICES ASSUME Typed, WorthCounted, lost = {}
                 PROVE  /\ alz + ValueOf(inv) + ValueOf(equip) + ValueOf(temp) <= worth
                        /\ saved["INFO"] + ValueOf(saved["INVENTORY"])
                             + ValueOf(saved["EQUIPMENT"]) <= worth
      BY DEF StorageIInv, NoProfit
    <2> DEFINE i == Weigh(Worths, inv)
               q == Weigh(Worths, equip)
               t0 == Weigh(Worths, temp)
               si == Weigh(Worths, saved["INVENTORY"])
               sq == Weigh(Worths, saved["EQUIPMENT"])
               y == WeighRecovery(Margins, recovery)
               a == alz
               sa == saved["INFO"]
               v == worth
    <2>1. /\ saved["INVENTORY"] \in Seq(Stock) /\ saved["EQUIPMENT"] \in Seq(Stock)
      <3>1. saved["INVENTORY"] \in Lists(MaxSlots - 1) /\ saved["EQUIPMENT"] \in Worn
        BY DEF Typed
      <3> QED BY <3>1, ListsTyped, OkIs
    <2>2. /\ ValueOf(inv) = i /\ ValueOf(equip) = q /\ ValueOf(temp) = t0
          /\ ValueOf(saved["INVENTORY"]) = si /\ ValueOf(saved["EQUIPMENT"]) = sq
      BY <2>1, ListsTyped, WorthsWeigh
    <2>3. Worths \in [Stock -> Nat] /\ Margins \in [Stock -> Nat]
      BY WorthsWeigh DEF Weights
    <2>4. /\ i \in Nat /\ q \in Nat /\ t0 \in Nat /\ si \in Nat /\ sq \in Nat
          /\ y \in Nat /\ a \in Nat /\ sa \in Nat /\ v \in Nat
      BY <2>3, Amounts
    <2>5. a + (i + q + t0) + y <= v
      BY DEF WorthCounted, Riches, Carried
    <2>6. sa + (si + sq) <= v
      BY DEF WorthCounted, Stored
    <2> HIDE DEF i, q, t0, si, sq, y, a, sa, v
    <2>7. a + i + q + t0 <= v /\ sa + si + sq <= v
      BY ONLY <2>4, <2>5, <2>6
    <2> QED BY <2>2, <2>7 DEF a, sa, v
  <1> QED BY <1>1, StorageInductive, PTL

\* Where no stack that comes into being is larger than its kind allows, no unit
\* exists twice as long as no save got lost: neither among what is carried and can
\* be recovered, nor in what a login would bring back.
THEOREM NothingTwice == StacksFit => (Spec => []NothingDuplicated)
  <1> SUFFICES ASSUME StacksFit
               PROVE  Spec => []NothingDuplicated
    OBVIOUS
  <1>1. StorageIInv => NothingDuplicated
    <2> SUFFICES ASSUME Typed, UnitsCounted, lost = {}, NEW k \in Kinds
                 PROVE  /\ UnitsIn(inv, k) + UnitsIn(equip, k) + UnitsIn(temp, k)
                             + Recoverable(k) <= made[k]
                        /\ UnitsIn(saved["INVENTORY"], k) + UnitsIn(saved["EQUIPMENT"], k)
                             <= made[k]
      BY DEF StorageIInv, NothingDuplicated
    <2> DEFINE w == UnitsOf(k)
               i == Weigh(w, inv)
               q == Weigh(w, equip)
               t0 == Weigh(w, temp)
               si == Weigh(w, saved["INVENTORY"])
               sq == Weigh(w, saved["EQUIPMENT"])
               y == WeighRecovery(w, recovery)
               m == made[k]
    <2>1. /\ saved["INVENTORY"] \in Seq(Stock) /\ saved["EQUIPMENT"] \in Seq(Stock)
      <3>1. saved["INVENTORY"] \in Lists(MaxSlots - 1) /\ saved["EQUIPMENT"] \in Worn
        BY DEF Typed
      <3> QED BY <3>1, ListsTyped, OkIs
    <2>2. /\ UnitsIn(inv, k) = i /\ UnitsIn(equip, k) = q /\ UnitsIn(temp, k) = t0
          /\ UnitsIn(saved["INVENTORY"], k) = si /\ UnitsIn(saved["EQUIPMENT"], k) = sq
      BY <2>1, ListsTyped, UnitsWeigh
    <2>3. w \in [Stock -> Nat]
      BY UnitsWeigh
    <2>4. Recoverable(k) = y
      <3>1. /\ recovery.entries \in [0 .. MaxRecovery - 1 -> Ok(0) \cup {Nothing}]
            /\ MaxRecovery \in Nat
        BY StorageAssumption DEF Typed, RecoveryLists
      <3>2. ASSUME NEW e \in Ok(0)
            PROVE  UnitsIn(<<e>>, k) = w[e]
        <4>1. e \in Stock /\ <<e>> \in Seq(Stock)
          BY ListsTyped
        <4> QED BY <2>3, <4>1, UnitsWeigh, WeighNothing
      <3> HIDE DEF w
      <3>3. ASSUME NEW p \in 1 .. MaxRecovery
            PROVE  (IF recovery.entries[p - 1] = Nothing THEN 0
                    ELSE UnitsIn(<<recovery.entries[p - 1]>>, k))
                   = (IF recovery.entries[p - 1] = Nothing THEN 0 ELSE w[recovery.entries[p - 1]])
        BY <3>1, <3>2
      <3> QED BY <3>3 DEF Recoverable, WeighRecovery
    <2>5. /\ i \in Nat /\ q \in Nat /\ t0 \in Nat /\ si \in Nat /\ sq \in Nat
          /\ y \in Nat /\ m \in Nat
      BY <2>3, Amounts
    <2>6. (i + q + t0) + y <= m /\ si + sq <= m
      <3>1. /\ Held(UnitsOf(k)) <= made[k]
            /\ lost \cap ItemParts = {} => Stored(UnitsOf(k)) <= made[k]
        BY DEF UnitsCounted
      <3> QED BY <3>1 DEF Held, Carried, Stored
    <2> HIDE DEF w, i, q, t0, si, sq, y, m
    <2>7. i + q + t0 + y <= m /\ si + sq <= m
      BY ONLY <2>5, <2>6
    <2> QED BY <2>2, <2>4, <2>7 DEF m
  <1> QED BY <1>1, StorageInductive, PTL
=============================================================================
