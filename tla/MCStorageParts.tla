---------------------------- MODULE MCStorageParts ----------------------------
(***************************************************************************)
(* Two instances of ItemStorage in one run, on the same variables and      *)
(* apart from each other: two slots in which everything but upgrades       *)
(* happens, and three slots with upgrades, the shop that sells the cores   *)
(* for them and moves within the inventory.                                *)
(***************************************************************************)
EXTENDS MCItemStorage

VARIABLE part    \* the instance this behaviour is one of

Narrow == INSTANCE ItemStorage WITH
              MaxSlots <- 2, Boosted <- {}, TopLevel <- 0, Levels <- NoLevels,
              StartOffers <- NoOffers, Start <- Owned

InitParts ==
    \/ part = "moves" /\ Narrow!Init
    \/ part = "upgrades" /\ Init

Upgrades ==
    /\ ~fault
    /\ \/ \E s, t \in SlotNo : WithinInventory(s, t)
       \/ \E o \in DOMAIN offers, s \in SlotNo : BuyItem(o, <<s>>)
       \/ \E s \in SlotNo : SellItem(<<s>>)
       \/ Upgrade \/ SyncDB \/ Relog

NextParts ==
    \/ part = "moves" /\ Narrow!Next /\ UNCHANGED part
    \/ part = "upgrades" /\ Upgrades /\ UNCHANGED part

SpecParts == InitParts /\ [][NextParts]_<<vars, part>>
=============================================================================
