----------------------------- MODULE Directory -----------------------------
(***************************************************************************)
(* How the number of players of a world gets to the clients that choose a  *)
(* world: WorldSvr tells its MasterSvr, MasterSvr tells AuthSvr, AuthSvr   *)
(* tells its logged in clients.                                            *)
(*                                                                         *)
(* Each of the three remembers the second in which its list was last       *)
(* marked as updated and the second in which it was last sent, and sends   *)
(* it at the end of an iteration of its loop if the one is before the      *)
(* other.  Only this comparison is kept of the two times: "due" says that  *)
(* the last mark is later than the last broadcast, "fresh" that the last   *)
(* broadcast was made in the present second, in which case a mark changes  *)
(* nothing.                                                                *)
(***************************************************************************)
EXTENDS Integers, Sequences

CONSTANTS
    Worlds,        \* the worlds of one MasterSvr
    MasterSvr, AuthSvr,
    NotListed,     \* the entry of a world that is not in a list
    MaxPlayers,    \* bound: client connections of a world
    MaxInFlight,   \* bound: packets on a link in one direction
    MaxBreaks      \* bound: how often links break

\* MasterSvr and AuthSvr keep timestamps of their own.
ASSUME DirectoryAssumption ==
    /\ MasterSvr \notin Worlds /\ AuthSvr \notin Worlds /\ MasterSvr # AuthSvr
    /\ MaxPlayers \in Nat /\ MaxInFlight \in Nat /\ MaxBreaks \in Nat

Servers == Worlds \cup {MasterSvr, AuthSvr}
Lists   == [Worlds -> (0 .. MaxPlayers) \cup {NotListed}]

VARIABLES
    players,     \* ClientSocket->Connections.Count of each WorldSvr
    fresh, due,  \* the two timestamps of each server, see above
    worldLink,   \* the connection WorldSvr -- MasterSvr is up
    acked,       \* WorldSvr: SERVER_FLAGS_MASTER_CONNECTED
    authLink,    \* the connection MasterSvr -- AuthSvr is up
    worlds,      \* MasterSvr: its initialized worlds
    listed,      \* AuthSvr: Master->Worlds
    seen,        \* the list some logged in client was sent last
    toMaster, toWorld,   \* packets on the link of each world
    toAuth, fromAuth,    \* packets on the link to AuthSvr
    breaks,      \* links broken so far
    missed,      \* history: a mark had no effect since the last list was sent
    drifted      \* history: the players changed since their number was sent

links   == <<worldLink, acked, authLink>>
packets == <<toMaster, toWorld, toAuth, fromAuth>>
history == <<missed, drifted>>
vars == <<players, fresh, due, links, worlds, listed, seen, packets, breaks, history>>

Control(k)   == [kind |-> k]
UserList(n)  == [kind |-> "USERLIST", count |-> n]
WorldList(l) == [kind |-> "WORLDLIST", list |-> l]

NoList == [w \in Worlds |-> NotListed]

\* The packets of each link and direction.
FromWorlds == [kind : {"REQCONNECT"}] \cup [kind : {"USERLIST"}, count : 0 .. MaxPlayers]
ToAuthSvr  == [kind : {"REQCONNECT"}] \cup [kind : {"WORLDLIST"}, list : Lists]
Acks       == [kind : {"ACKCONNECT"}]

TypeOK ==
    /\ players \in [Worlds -> 0 .. MaxPlayers]
    /\ fresh \in [Servers -> BOOLEAN] /\ due \in [Servers -> BOOLEAN]
    /\ worldLink \in [Worlds -> BOOLEAN] /\ acked \in [Worlds -> BOOLEAN]
    /\ authLink \in BOOLEAN
    /\ worlds \in Lists /\ listed \in Lists /\ seen \in Lists
    /\ toMaster \in [Worlds -> Seq(FromWorlds)] /\ toWorld \in [Worlds -> Seq(Acks)]
    /\ toAuth \in Seq(ToAuthSvr) /\ fromAuth \in Seq(Acks)
    /\ breaks \in 0 .. MaxBreaks
    /\ missed \in [Servers -> BOOLEAN] /\ drifted \in [Worlds -> BOOLEAN]

Init ==
    /\ players = [w \in Worlds |-> 0]
    /\ fresh = [s \in Servers |-> FALSE] /\ due = [s \in Servers |-> FALSE]
    /\ worldLink = [w \in Worlds |-> FALSE] /\ acked = [w \in Worlds |-> FALSE]
    /\ authLink = FALSE
    /\ worlds = NoList /\ listed = NoList /\ seen = NoList
    /\ toMaster = [w \in Worlds |-> <<>>] /\ toWorld = [w \in Worlds |-> <<>>]
    /\ toAuth = <<>> /\ fromAuth = <<>>
    /\ breaks = 0
    /\ missed = [s \in Servers |-> FALSE] /\ drifted = [w \in Worlds |-> FALSE]

---------------------------------------------------------------------------
\* UpdateTimestamp := Timestamp, and what comes of it.
Mark(s) ==
    /\ due' = [due EXCEPT ![s] = ~fresh[s]]
    /\ missed' = [missed EXCEPT ![s] = @ \/ fresh[s]]

\* BroadcastTimestamp := UpdateTimestamp := Timestamp
Stamp(s) ==
    /\ due[s]
    /\ due' = [due EXCEPT ![s] = FALSE]
    /\ fresh' = [fresh EXCEPT ![s] = TRUE]
    /\ missed' = [missed EXCEPT ![s] = FALSE]

\* The clock of a server shows the next second.
Second(s) ==
    /\ fresh[s]
    /\ fresh' = [fresh EXCEPT ![s] = FALSE]
    /\ UNCHANGED <<players, due, links, worlds, listed, seen, packets, breaks, history>>

\* Room for one more packet on a link.
Fits(q) == Len(q) < MaxInFlight

---------------------------------------------------------------------------
\* WorldSvr.

\* A client is accepted or taken out; neither marks the list.
Move(w, n) ==
    /\ n \in {players[w] + 1, players[w] - 1} /\ n \in 0 .. MaxPlayers
    /\ players' = [players EXCEPT ![w] = n]
    /\ drifted' = [drifted EXCEPT ![w] = TRUE]
    /\ UNCHANGED <<fresh, due, links, worlds, listed, seen, packets, breaks, missed>>

\* A client sends CONNECT.
OnConnect(w) ==
    /\ players[w] > 0
    /\ Mark(w)
    /\ UNCHANGED <<players, fresh, links, worlds, listed, seen, packets, breaks, drifted>>

\* The end of an iteration of WorldSvr.
BroadcastUserList(w) ==
    /\ acked[w] /\ Fits(toMaster[w]) /\ Stamp(w)
    /\ toMaster' = [toMaster EXCEPT ![w] = Append(@, UserList(players[w]))]
    /\ drifted' = [drifted EXCEPT ![w] = FALSE]
    /\ UNCHANGED <<players, links, worlds, listed, seen, toWorld, toAuth, fromAuth, breaks>>

MasterSocketOnConnect(w) ==
    /\ ~worldLink[w]
    /\ worldLink' = [worldLink EXCEPT ![w] = TRUE]
    /\ toMaster' = [toMaster EXCEPT ![w] = <<Control("REQCONNECT")>>]
    /\ UNCHANGED <<players, fresh, due, acked, authLink, worlds, listed, seen, toWorld, toAuth,
                   fromAuth, breaks, history>>

\* WORLD_ACKCONNECT
OnWorldAcknowledged(w) ==
    /\ toWorld[w] # <<>>
    /\ toWorld' = [toWorld EXCEPT ![w] = Tail(@)]
    /\ acked' = [acked EXCEPT ![w] = TRUE]
    /\ Mark(w)
    /\ UNCHANGED <<players, fresh, worldLink, authLink, worlds, listed, seen, toMaster, toAuth,
                   fromAuth, breaks, drifted>>

---------------------------------------------------------------------------
\* MasterSvr.

\* WORLD_REQCONNECT: the world starts with no players; the list is marked and
\* sent at once, which the timestamp of the broadcast does not show.
OnWorldConnect(w) ==
    /\ toMaster[w] # <<>> /\ Head(toMaster[w]).kind = "REQCONNECT"
    /\ Fits(toAuth)
    /\ toMaster' = [toMaster EXCEPT ![w] = Tail(@)]
    /\ toWorld' = [toWorld EXCEPT ![w] = Append(@, Control("ACKCONNECT"))]
    /\ worlds' = [worlds EXCEPT ![w] = 0]
    /\ Mark(MasterSvr)
    /\ toAuth' = IF authLink THEN Append(toAuth, WorldList(worlds')) ELSE toAuth
    /\ UNCHANGED <<players, fresh, links, listed, seen, fromAuth, breaks, drifted>>

OnWorldUserlist(w) ==
    /\ toMaster[w] # <<>> /\ Head(toMaster[w]).kind = "USERLIST"
    /\ toMaster' = [toMaster EXCEPT ![w] = Tail(@)]
    /\ worlds' = [worlds EXCEPT ![w] = Head(toMaster[w]).count]
    /\ Mark(MasterSvr)
    /\ UNCHANGED <<players, fresh, links, listed, seen, toWorld, toAuth, fromAuth, breaks,
                   drifted>>

AuthSocketOnConnect ==
    /\ ~authLink
    /\ authLink' = TRUE
    /\ toAuth' = <<Control("REQCONNECT")>>
    /\ UNCHANGED <<players, fresh, due, worldLink, acked, worlds, listed, seen, toMaster,
                   toWorld, fromAuth, breaks, history>>

\* Mutant: the answer of AuthSvr does not mark the list.
OnAuthConnectUnmarked ==
    /\ fromAuth # <<>>
    /\ fromAuth' = Tail(fromAuth)
    /\ UNCHANGED <<players, fresh, due, links, worlds, listed, seen, toMaster, toWorld, toAuth,
                   breaks, history>>

\* AUTH_ACKCONNECT
OnAuthConnect ==
    /\ fromAuth # <<>>
    /\ fromAuth' = Tail(fromAuth)
    /\ Mark(MasterSvr)
    /\ UNCHANGED <<players, fresh, links, worlds, listed, seen, toMaster, toWorld, toAuth,
                   breaks, drifted>>

\* The end of an iteration of MasterSvr.
BroadcastWorldList ==
    /\ authLink /\ Fits(toAuth) /\ Stamp(MasterSvr)
    /\ toAuth' = Append(toAuth, WorldList(worlds))
    /\ UNCHANGED <<players, links, worlds, listed, seen, toMaster, toWorld, fromAuth, breaks,
                   drifted>>

---------------------------------------------------------------------------
\* AuthSvr.

OnMasterConnect ==
    /\ toAuth # <<>> /\ Head(toAuth).kind = "REQCONNECT"
    /\ toAuth' = Tail(toAuth)
    /\ fromAuth' = Append(fromAuth, Control("ACKCONNECT"))
    /\ UNCHANGED <<players, fresh, due, links, worlds, listed, seen, toMaster, toWorld, breaks,
                   history>>

OnMasterWorldList ==
    /\ toAuth # <<>> /\ Head(toAuth).kind = "WORLDLIST"
    /\ toAuth' = Tail(toAuth)
    /\ listed' = Head(toAuth).list
    /\ Mark(AuthSvr)
    /\ UNCHANGED <<players, fresh, links, worlds, seen, toMaster, toWorld, fromAuth, breaks,
                   drifted>>

\* BroadcastWorldListToConnection at the end of a login: the client looked at
\* is from now on the one that has just logged in.
LogIn ==
    /\ seen' = listed
    /\ UNCHANGED <<players, fresh, due, links, worlds, listed, packets, breaks, history>>

\* The end of an iteration of AuthSvr.
BroadcastToClients ==
    /\ Stamp(AuthSvr)
    /\ seen' = listed
    /\ UNCHANGED <<players, links, worlds, listed, packets, breaks, drifted>>

---------------------------------------------------------------------------
\* A link breaks: what is in flight is lost, both ends free their contexts.

BreakWorld(w) ==
    /\ worldLink[w] /\ breaks < MaxBreaks
    /\ breaks' = breaks + 1
    /\ worldLink' = [worldLink EXCEPT ![w] = FALSE]
    /\ acked' = [acked EXCEPT ![w] = FALSE]
    /\ toMaster' = [toMaster EXCEPT ![w] = <<>>]
    /\ toWorld' = [toWorld EXCEPT ![w] = <<>>]
    /\ worlds' = [worlds EXCEPT ![w] = NotListed]
    /\ Mark(MasterSvr)
    /\ UNCHANGED <<players, fresh, authLink, listed, seen, toAuth, fromAuth, drifted>>

\* AuthSvr drops its list with the connection and marks nothing.
BreakAuth ==
    /\ authLink /\ breaks < MaxBreaks
    /\ breaks' = breaks + 1
    /\ authLink' = FALSE
    /\ toAuth' = <<>> /\ fromAuth' = <<>>
    /\ listed' = NoList
    /\ UNCHANGED <<players, fresh, due, worldLink, acked, worlds, seen, toMaster, toWorld,
                   missed, drifted>>

Next ==
    \/ \E s \in Servers : Second(s)
    \/ \E w \in Worlds, n \in 0 .. MaxPlayers : Move(w, n)
    \/ \E w \in Worlds :
          \/ OnConnect(w) \/ BroadcastUserList(w)
          \/ MasterSocketOnConnect(w) \/ OnWorldAcknowledged(w) \/ BreakWorld(w)
          \/ OnWorldConnect(w) \/ OnWorldUserlist(w)
    \/ AuthSocketOnConnect \/ OnAuthConnect \/ BroadcastWorldList \/ BreakAuth
    \/ OnMasterConnect \/ OnMasterWorldList \/ LogIn \/ BroadcastToClients

Spec == Init /\ [][Next]_vars

---------------------------------------------------------------------------
\* Nothing is under way, and no server that can has anything left to send.
Settled ==
    /\ \A w \in Worlds : toMaster[w] = <<>> /\ toWorld[w] = <<>> /\ (acked[w] => ~due[w])
    /\ toAuth = <<>> /\ fromAuth = <<>>
    /\ ~due[MasterSvr] /\ ~due[AuthSvr]

\* Once everything is sent, a client sees the number of players of every
\* world that is connected and no other world, whatever links broke before.
\* Two things are excepted: changes of the number that no CONNECT followed,
\* and marks made in the second of a broadcast, until the next one is made.
ListsAgree ==
    authLink /\ Settled /\ ~missed[MasterSvr] /\ ~missed[AuthSvr] =>
        \A w \in Worlds :
            IF acked[w] THEN missed[w] \/ drifted[w] \/ seen[w] = players[w]
            ELSE seen[w] = NotListed

\* The list a client sees lags behind the servers in no way but those, on links
\* that break and come back.
DirectoryInv == TypeOK /\ ListsAgree

---------------------------------------------------------------------------
\* Inductive support of DirectoryInv: what a list differs in is still to be
\* marked, sent or read, one stage behind the other.

\* The connection of a world: none, asked for, acknowledged, in use.
Connecting(w) ==
    \/ /\ ~worldLink[w] /\ ~acked[w] /\ toMaster[w] = <<>> /\ toWorld[w] = <<>>
       /\ worlds[w] = NotListed
    \/ /\ worldLink[w] /\ ~acked[w]
       /\ toMaster[w] = <<Control("REQCONNECT")>> /\ toWorld[w] = <<>>
    \/ /\ worldLink[w] /\ ~acked[w]
       /\ toMaster[w] = <<>> /\ toWorld[w] = <<Control("ACKCONNECT")>>
    \/ /\ worldLink[w] /\ acked[w] /\ toWorld[w] = <<>>
       /\ \A i \in DOMAIN toMaster[w] : toMaster[w][i].kind = "USERLIST"

\* What MasterSvr has of a world, or will have.
CountToCome(w) ==
    IF toMaster[w] = <<>> THEN worlds[w] ELSE toMaster[w][Len(toMaster[w])].count

PlayersTold(w) ==
    acked[w] => missed[w] \/ drifted[w] \/ due[w] \/ CountToCome(w) = players[w]

\* What AuthSvr has of MasterSvr, or will have.
ListToCome == IF toAuth = <<>> THEN listed ELSE toAuth[Len(toAuth)].list

WorldsTold ==
    authLink => \/ \E i \in DOMAIN toAuth : toAuth[i].kind = "REQCONNECT"
                \/ fromAuth # <<>> \/ due[MasterSvr] \/ missed[MasterSvr]
                \/ ListToCome = worlds

\* AuthSvr drops its list without a mark when the link breaks; what comes of
\* the next connection marks it.
ClientsTold ==
    authLink => \/ toAuth # <<>> \/ fromAuth # <<>> \/ due[MasterSvr] \/ missed[MasterSvr]
                \/ due[AuthSvr] \/ missed[AuthSvr] \/ seen = listed

DirectoryIInv ==
    /\ TypeOK /\ WorldsTold /\ ClientsTold
    /\ \A w \in Worlds : Connecting(w) /\ PlayersTold(w)
    /\ ~authLink => toAuth = <<>> /\ fromAuth = <<>>
=============================================================================
