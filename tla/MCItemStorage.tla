---------------------------- MODULE MCItemStorage ----------------------------
(***************************************************************************)
(* Small instances of ItemStorage for TLC: what the kinds of items are     *)
(* like, and what the shop, the trainer, the ground and the stored         *)
(* characters of each configuration offer.                                 *)
(***************************************************************************)
EXTENDS ItemStorage

CONSTANTS gear, potion, coin, book, stone, core

\* Stacks of two; gear cannot be stacked, and a skill book has no stack size.
McMaxStack ==
    [k \in Kinds |-> IF k \in {potion, stone} THEN 2
                     ELSE IF k = book THEN 0 ELSE 1]
McSellPrice == [k \in Kinds |-> 1]

ASSUME McStacksFit == StacksFit

\* What extraction yields: one or two pieces of gear from gear.
McPools == [k \in Kinds |-> IF k = gear THEN {<<gear>>, <<gear, gear>>} ELSE {}]
NoPools == [k \in Kinds |-> {}]

\* Upgrade data for levels 0 and 1; level 2 is the top and has none.
McLevels ==
    [l \in {0, 1} |-> IF l = 0 THEN [cores |-> 1, to |-> {0, 1}]
                      ELSE [cores |-> 2, to |-> {0, 2}]]
NoLevels == [l \in {} |-> {}]

NoOffers   == <<>>
GearOffers == <<Item(gear, 0, 0)>>
CoreOffers == <<Item(core, 0, 1)>>

McBooks == {[kind |-> book, n |-> 1, price |-> 2]}
GearDrops == {Item(gear, 0, 0)}

\* Stored inventories.
Gear   == {<<At(0, Item(gear, 0, 0))>>}
Stacks == {<<At(0, Item(potion, 0, 2)), At(1, Item(potion, 0, 1))>>}
Purse  == {<<At(0, Item(stone, 0, 2)), At(1, Item(coin, 0, 1))>>}
Owned  == Gear \cup Stacks \cup Purse
Cores  == {<<At(0, Item(core, 0, 1)), At(1, Item(core, 0, 1)),
             At(2, Item(gear, 1, 0))>>}
=============================================================================
