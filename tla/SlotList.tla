------------------------------ MODULE SlotList ------------------------------
(***************************************************************************)
(* The slot list of RuntimeLib/Inventory.c: an array of occupied slots,    *)
(* each naming the slot it is in, kept in ascending order of slot numbers. *)
(*                                                                         *)
(* A slot is a record [at, kind, level, n]: SlotIndex, the item without    *)
(* its level, its upgrade level (kind and level together are Item.Serial)  *)
(* and ItemOptions, the number of units in a stack.                        *)
(***************************************************************************)
EXTENDS Integers, Sequences

CONSTANTS
    Kinds,      \* items there is data about
    MaxStack    \* MaxStackSize of each kind

ASSUME StackAssumption == MaxStack \in [Kinds -> Nat]

Slots(limit, levels) ==
    [at : 0 .. limit, kind : Kinds, level : levels, n : Nat]

-----------------------------------------------------------------------------
(* Looking up and the two elementary changes.                              *)

Positions(list, s) == {i \in DOMAIN list : list[i].at = s}
Holds(list, s)     == Positions(list, s) # {}
Position(list, s)  ==
    CHOOSE i \in Positions(list, s) : \A j \in Positions(list, s) : i <= j

\* The first entry behind slot s, or the end.
InsertionIndex(list, s) ==
    CHOOSE i \in 1 .. Len(list) + 1 :
        /\ \A j \in 1 .. i - 1 : list[j].at <= s
        /\ i <= Len(list) => list[i].at > s

\* Mutant of WithSlot: the entry is stored behind all others.
WithSlotLast(list, e) == Append(list, e)

\* The list with an entry for a slot that is not in use.
WithSlot(list, e) ==
    LET i == InsertionIndex(list, e.at)
    IN  [k \in 1 .. Len(list) + 1 |->
            IF k < i THEN list[k] ELSE IF k = i THEN e ELSE list[k - 1]]

\* The list without the entry for a slot in use.
WithoutSlot(list, s) ==
    LET i == Position(list, s)
    IN  [k \in 1 .. Len(list) - 1 |-> IF k < i THEN list[k] ELSE list[k + 1]]

-----------------------------------------------------------------------------
(* Moving an item: to a free slot, or onto a stack of the same item.  What *)
(* does not fit on the stack stays.                                        *)

CanStack(a, b) ==
    a.kind = b.kind /\ a.level = b.level /\ MaxStack[a.kind] > 1

CanMove(from, to, s, t) ==
    /\ Holds(from, s)
    /\ Holds(to, t) => CanStack(from[Position(from, s)], to[Position(to, t)])

Stacked(a, b) ==
    IF a.n + b.n <= MaxStack[a.kind] THEN a.n + b.n ELSE MaxStack[a.kind]

\* What stays in the source slot.
Rest(a, b) == a.n + b.n - Stacked(a, b)

WithRest(list, s, rest) ==
    IF rest < 1 THEN WithoutSlot(list, s)
    ELSE [list EXCEPT ![Position(list, s)].n = rest]

\* Within one list.  The two counts are stored one after the other: when t is
\* s itself the second store hits the same entry.
MovedWithin(list, s, t) ==
    LET a == list[Position(list, s)]
    IN  IF ~Holds(list, t)
        THEN WithSlot(WithoutSlot(list, s), [a EXCEPT !.at = t])
        ELSE LET b == list[Position(list, t)]
             IN  WithRest([list EXCEPT ![Position(list, t)].n = Stacked(a, b)],
                          s, Rest(a, b))

\* Mutant of LeftOf: the moved item is not cleared.
LeftUncleared(from, to, s, t) == from

\* From one list to another: what is left of the first, and the second.
LeftOf(from, to, s, t) ==
    LET a == from[Position(from, s)]
    IN  IF ~Holds(to, t) THEN WithoutSlot(from, s)
        ELSE WithRest(from, s, Rest(a, to[Position(to, t)]))
MovedTo(from, to, s, t) ==
    LET a == from[Position(from, s)]
    IN  IF ~Holds(to, t) THEN WithSlot(to, [a EXCEPT !.at = t])
        ELSE [to EXCEPT ![Position(to, t)].n = Stacked(a, to[Position(to, t)])]

-----------------------------------------------------------------------------
\* Every slot is in the list at most once, in ascending order.
Ascending(list) ==
    \A i, j \in DOMAIN list : i < j => list[i].at < list[j].at
=============================================================================
