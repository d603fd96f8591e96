------------------------------- MODULE MCLogin ------------------------------
(***************************************************************************)
(* AuthLogin and Keychain, a connection of AuthSvr and its encryption, in  *)
(* one run and apart from each other: a behaviour is one of one of them.   *)
(***************************************************************************)
EXTENDS AuthLogin

CONSTANTS MaxFlight

VARIABLES
    client, server, toServer, toClient, asked, told, waiting, torn,   \* of Keychain
    part      \* the module this behaviour is one of

keyVars == <<client, server, toServer, toClient, asked, told, waiting, torn>>

\* Tables of three keys.
MCWords == <<
    <<1, 0, 2, 3>>, <<2, 3, 1, 0>>, <<0, 2, 3, 1>>, <<3, 1, 1, 2>>,
    <<2, 2, 1, 1>>, <<0, 1, 3, 0>>, <<3, 2, 0, 2>>, <<1, 3, 2, 1>>,
    <<3, 0, 3, 2>>, <<1, 1, 0, 3>>, <<2, 0, 2, 0>>, <<0, 3, 1, 3>> >>

K == INSTANCE Keychain WITH
        Words <- [key \in 0 .. 2 |-> [k \in 0 .. 3 |-> MCWords[4 * key + k + 1]]],
        FirstKey <- 2, XorKeys <- {0, 1},
        ClientXor <- <<2, 1, 2, 3>>, ServerXor <- <<1, 3, 2, 0>>,
        Magic <- <<2, 1>>, ExtendedMagic <- <<3, 0>>,
        ClientPayloads <- {<<1, 2>>, <<1, 3, 2>>, <<2, 0, 2, 3>>, <<3, 2, 3, 0, 1>>},
        ServerPayloads <- {<<1, 2>>, <<2, 3, 1, 2, 0>>}

ASSUME K!KeychainAssumption

\* What rests begins in one way.
InitParts ==
    /\ Init /\ K!Init
    /\ \/ part = "login"
       \/ part = "keychain" /\ config = [maintenance |-> FALSE, autoDisconnect |-> FALSE]

NextParts ==
    /\ UNCHANGED part
    /\ \/ part = "login" /\ Next /\ UNCHANGED keyVars
       \/ part = "keychain" /\ K!Next /\ UNCHANGED vars

\* The Fairness of AuthLogin.
FairParts ==
    /\ WF_vars(part = "login" /\ GoOn)
    /\ SF_vars(part = "login" /\ \E s \in 1 .. MaxLag, accept \in BOOLEAN : Begin(s, accept))

SpecParts == InitParts /\ [][NextParts]_<<vars, keyVars, part>> /\ FairParts

\* The two ends of an encrypted connection understand each other (Keychain).
KeychainInv == K!KeychainInv
=============================================================================
