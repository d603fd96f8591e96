------------------------------ MODULE MCLinks ------------------------------
(***************************************************************************)
(* Directory and a fair Handoff, the two things the links between the      *)
(* servers are for, in one run and apart from each other: each behaviour   *)
(* is one of Directory or one of Handoff, while the variables of the other *)
(* rest.                                                                   *)
(***************************************************************************)
EXTENDS Directory

CONSTANTS Masters, Accounts, Keys, NoAccount, NoKey    \* of Handoff

VARIABLES
    auth, world, handAuthLink, handWorldLink, named, handListed, registered,
    dirty, handAcked, rows, handToMaster, handToAuth, handToWorld, fromWorld,
    drops, asked, granted, issued, told

handVars == <<auth, world, handAuthLink, handWorldLink, named, handListed,
              registered, dirty, handAcked, rows, handToMaster, handToAuth,
              handToWorld, fromWorld, drops, asked, granted, issued, told>>

H == INSTANCE MCHandoff WITH
        MaxAuthConn <- 1, MaxWorldConn <- 1, IdSpace <- 2, MaxDrops <- 1,
        authLink <- handAuthLink, worldLink <- handWorldLink,
        listed <- handListed, acked <- handAcked, toMaster <- handToMaster,
        toAuth <- handToAuth, toWorld <- handToWorld

VARIABLE part    \* the module this behaviour is one of

\* The links of Handoff are up, and nothing has to be done, where it rests.
InitLinks ==
    /\ Init
    /\ \/ part = "handoff" /\ H!Opening
       \/ part = "directory" /\ H!Competing /\ rows = [m \in Masters |-> {}]

NextLinks ==
    /\ UNCHANGED part
    /\ \/ part = "handoff" /\ H!Next /\ UNCHANGED vars
       \/ part = "directory" /\ Next /\ UNCHANGED handVars

SpecLinks == InitLinks /\ [][NextLinks]_<<vars, handVars, part>> /\ H!Fairness

LinksFirst == H!LinksFirst

\* The servers together keep the promise of the hand-off (Handoff).
KeepsPromise == H!KeepsPromise

\* With the links up every client whose request was sent is told an answer or
\* its connection is closed (Handoff).
RequestAnswered == H!RequestAnswered
=============================================================================
