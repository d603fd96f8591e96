------------------------------ MODULE MCStore ------------------------------
(***************************************************************************)
(* Four instances of CharacterStore in one run, on the same variables and  *)
(* apart from each other, by what the clients do: create characters, set   *)
(* and delete sub-passwords, play, or confirm passwords.                   *)
(***************************************************************************)
EXTENDS CharacterStore

CONSTANTS a, b, info, quests

MCStart == [k \in 1 .. 2 |-> [acct |-> IF k = 1 THEN a ELSE b, slot |-> IF k = 1 THEN 1 ELSE 0,
                           data |-> [p \in Parts |-> 0]]]

MCPending ==
    [r \in Requests |-> IF r = "getCharacter" THEN 2 ELSE 1]

MaxChanges == 2    \* bound: changes of all parts together

MaxOdd == 1        \* bound: only this connection asks for a slot past the list, for the
                   \* character of account b, or for what it has asked for or been given

VARIABLE part      \* the instance this behaviour is one of

Common == Links \/ OnConnect \/ Handling \/ \E c \in Conns : Leave(c)

Bound == \E c \in Conns :
            OnAuthVerifyLinks(c, a) \/ (~Loaded(c) /\ GetCharacters(c))

Creating ==
    \/ Common \/ Bound
    \/ \E c \in Conns :
          \/ Loaded(c) /\ c = MaxOdd /\ GetCharacters(c)
          \/ \E s \in Slots \cup Beyond : (s \in Slots \/ c = MaxOdd) /\ CreateCharacter(c, s)

Securing == Common \/ Bound \/ Subpassword \/ TimePasses

Gaming ==
    \/ Common \/ Bound
    \/ \E c \in Conns :
          \/ \E k \in Chars :
                /\ c = MaxOdd \/ (k = 1 /\ Pending(c, "getCharacter") = 0)
                /\ Initialize(c, k)
          \/ SyncDB(c)
          \/ \E p \in Parts : newest[1][info] + newest[1][quests] < MaxChanges /\ Play(c, p)

Confirming == Common \/ \E c \in Conns : VerifyCredentials(c)

InitParts == Init /\ part \in {"create", "secure", "play", "confirm"}

NextParts ==
    /\ UNCHANGED part
    /\ \/ part = "create" /\ Creating
       \/ part = "secure" /\ Securing
       \/ part = "play" /\ Gaming
       \/ part = "confirm" /\ Confirming

SpecParts == InitParts /\ [][NextParts]_<<vars, part>> /\ Fairness
=============================================================================
