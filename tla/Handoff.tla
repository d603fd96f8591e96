------------------------------ MODULE Handoff ------------------------------
(***************************************************************************)
(* The hand-off of a player from the auth server to a world server.        *)
(*                                                                         *)
(* A client that logged in at AuthSvr asks (C2S_VERIFYLINKS) that the      *)
(* connection it has meanwhile opened to a world server, named by the      *)
(* world's connection ID ("EntityID") and the random AuthKey the world     *)
(* handed out, be bound to its account.  AuthSvr broadcasts the request to *)
(* every connected MasterSvr; the one addressed looks the account up in    *)
(* its database and forwards to its WorldSvr; the answer travels back and  *)
(* AuthSvr tells the client and drops it.                                  *)
(*                                                                         *)
(* Every server is a single thread that handles one packet at a time, so   *)
(* one action is one handler.  Each master serves one world.  Packets on   *)
(* one TCP connection are FIFO; when a link breaks both ends have run      *)
(* their OnDisconnect and what was in flight is lost.                      *)
(***************************************************************************)
EXTENDS Integers, Sequences, FiniteSets

CONSTANTS
    Masters,        \* the MasterSvr processes, each with its own ServerID
    Accounts,       \* account IDs of the auth database
    Keys,           \* values rand() may give as AuthKey
    NoAccount,      \* AccountID -1: nobody logged in
    NoKey,          \* CLIENT_FLAGS_CONNECTED not set: no key handed out yet
    MaxAuthConn,    \* bound: client connections AuthSvr accepts in all
    MaxWorldConn,   \* bound: client connections each WorldSvr accepts in all
    IdSpace,        \* number of values of the UInt16 ConnectionID / EntityID
    MaxDrops        \* bound: how often links between servers break

ASSUME HandoffAssumption ==
    /\ NoAccount \notin Accounts
    /\ NoKey \notin Keys
    /\ MaxAuthConn \in Nat \ {0} /\ MaxWorldConn \in Nat \ {0}
    /\ IdSpace \in Nat \ {0}
    /\ MaxDrops \in Nat

VARIABLES
    auth,       \* AuthSvr's client connections by connection ID
    world,      \* each WorldSvr's client connections by connection ID
    authLink,   \* is the connection AuthSvr -- MasterSvr up
    worldLink,  \* is the connection MasterSvr -- WorldSvr up
    named,      \* AuthSvr knows the ServerID of this master
    listed,     \* AuthSvr's copy of this master's world list has the world
    registered, \* MasterSvr has the world with WORLD_INITIALIZED
    dirty,      \* MasterSvr has a world list update to broadcast
    acked,      \* WorldSvr has its master's ServerID
    rows,       \* accounts with a row in the database of this master
    toMaster,   \* packets AuthSvr -> MasterSvr
    toAuth,     \* packets MasterSvr -> AuthSvr
    toWorld,    \* packets MasterSvr -> WorldSvr
    fromWorld,  \* packets WorldSvr -> MasterSvr
    drops,      \* link breaks so far
    asked,      \* history: every request AuthSvr ever sent
    granted,    \* history: every request a world accepted
    issued,     \* history: keys handed to a world connection
    told        \* history: answers AuthSvr sent to a client

conns   == <<auth, world>>
links   == <<authLink, worldLink, named, listed, registered, dirty, acked>>
packets == <<toMaster, toAuth, toWorld, fromWorld>>
history == <<asked, granted, issued, told>>
vars    == <<conns, links, rows, packets, drops, history>>

AuthIDs  == 1 .. MaxAuthConn
WorldIDs == 1 .. MaxWorldConn

\* A connection ID squeezed into the UInt16 fields of the protocols.
Trunc(id) == id % IdSpace

Requests == [conn : 0 .. IdSpace - 1, to : Masters, acct : Accounts,
             key : Keys, entity : 0 .. IdSpace - 1]
Results  == [conn : 0 .. IdSpace - 1, to : Masters, status : {0, 1}]

Control(k)     == [kind |-> k]
WorldList(b)   == [kind |-> "WORLDLIST", listed |-> b]
VerifyLinks(r) == [kind |-> "VERIFYLINKS", req |-> r]
Verdict(r, s)  == [kind |-> "VERIFYRESULT",
                   res |-> [conn |-> r.conn, to |-> r.to, status |-> s]]

Packets == [kind : {"REQCONNECT", "ACKCONNECT"}]
           \cup [kind : {"WORLDLIST"}, listed : BOOLEAN]
           \cup [kind : {"VERIFYLINKS"}, req : Requests]
           \cup [kind : {"VERIFYRESULT"}, res : Results]

AuthConn(phase, acct, verified, disc) ==
    [phase |-> phase, acct |-> acct, verified |-> verified, disc |-> disc]
WorldConn(phase, key, acct, verified, disc) ==
    [phase |-> phase, key |-> key, acct |-> acct, verified |-> verified,
     disc |-> disc]

Phases     == {"unused", "open", "gone"}
AuthConns  == [phase : Phases, acct : Accounts \cup {NoAccount},
               verified : BOOLEAN, disc : BOOLEAN]
WorldConns == [phase : Phases, key : Keys \cup {NoKey},
               acct : Accounts \cup {NoAccount},
               verified : BOOLEAN, disc : BOOLEAN]

\* The whole state has the shape the structures of the servers give it.
TypeOK ==
    /\ auth \in [AuthIDs -> AuthConns]
    /\ world \in [Masters -> [WorldIDs -> WorldConns]]
    /\ authLink \in [Masters -> BOOLEAN] /\ worldLink \in [Masters -> BOOLEAN]
    /\ named \in [Masters -> BOOLEAN] /\ listed \in [Masters -> BOOLEAN]
    /\ registered \in [Masters -> BOOLEAN] /\ dirty \in [Masters -> BOOLEAN]
    /\ acked \in [Masters -> BOOLEAN]
    /\ rows \in [Masters -> SUBSET Accounts]
    /\ toMaster \in [Masters -> Seq(Packets)]
    /\ toAuth \in [Masters -> Seq(Packets)]
    /\ toWorld \in [Masters -> Seq(Packets)]
    /\ fromWorld \in [Masters -> Seq(Packets)]
    /\ drops \in 0 .. MaxDrops
    /\ asked \in SUBSET Requests
    /\ granted \in SUBSET Requests
    /\ issued \in [Masters -> [WorldIDs -> SUBSET Keys]]
    /\ told \in [AuthIDs -> Seq([by : Masters, status : {0, 1}])]

Init ==
    /\ auth = [c \in AuthIDs |-> AuthConn("unused", NoAccount, FALSE, FALSE)]
    /\ world = [m \in Masters |-> [e \in WorldIDs |->
                    WorldConn("unused", NoKey, NoAccount, FALSE, FALSE)]]
    /\ authLink = [m \in Masters |-> FALSE]
    /\ worldLink = [m \in Masters |-> FALSE]
    /\ named = [m \in Masters |-> FALSE]
    /\ listed = [m \in Masters |-> FALSE]
    /\ registered = [m \in Masters |-> FALSE]
    /\ dirty = [m \in Masters |-> FALSE]
    /\ acked = [m \in Masters |-> FALSE]
    /\ rows \in [Masters -> SUBSET Accounts]
    /\ toMaster = [m \in Masters |-> <<>>]
    /\ toAuth = [m \in Masters |-> <<>>]
    /\ toWorld = [m \in Masters |-> <<>>]
    /\ fromWorld = [m \in Masters |-> <<>>]
    /\ drops = 0
    /\ asked = {} /\ granted = {}
    /\ issued = [m \in Masters |-> [e \in WorldIDs |-> {}]]
    /\ told = [c \in AuthIDs |-> <<>>]

\* SocketSend on a link: appended while the link is up, silently dropped
\* otherwise (SocketSendRaw returns, SocketSendAll has no connection).
Sent(chan, m, up, p) ==
    IF up THEN [chan EXCEPT ![m] = Append(@, p)] ELSE chan

\* The next packet of a link is of this kind.
Receives(chan, m, kind) == chan[m] # <<>> /\ Head(chan[m]).kind = kind

-----------------------------------------------------------------------------
(* The links between the servers.                                          *)

\* MasterSvr's connection to AuthSvr is established on both ends: it sends
\* AUTH_REQCONNECT, and AuthSvr has a fresh MasterContext.
ConnectAuth(m) ==
    /\ ~authLink[m]
    /\ authLink' = [authLink EXCEPT ![m] = TRUE]
    /\ toMaster' = [toMaster EXCEPT ![m] = <<>>]
    /\ toAuth' = [toAuth EXCEPT ![m] = <<Control("REQCONNECT")>>]
    /\ UNCHANGED <<conns, worldLink, named, listed, registered, dirty, acked,
                   rows, toWorld, fromWorld, drops, history>>

\* AuthSvr learns the ServerID of the master and acknowledges.
OnMasterConnect(m) ==
    /\ Receives(toAuth, m, "REQCONNECT")
    /\ toAuth' = [toAuth EXCEPT ![m] = Tail(@)]
    /\ named' = [named EXCEPT ![m] = TRUE]
    /\ toMaster' = Sent(toMaster, m, TRUE, Control("ACKCONNECT"))
    /\ UNCHANGED <<conns, authLink, worldLink, listed, registered, dirty,
                   acked, rows, toWorld, fromWorld, drops, history>>

\* MasterSvr marks its world list as updated.  The mark compares whole
\* seconds: made in the second of the last broadcast it has no effect.
Marked(m, lost) == [dirty EXCEPT ![m] = IF lost THEN @ ELSE TRUE]

OnAuthConnect(m) ==
    /\ Receives(toMaster, m, "ACKCONNECT")
    /\ toMaster' = [toMaster EXCEPT ![m] = Tail(@)]
    /\ \E lost \in BOOLEAN : dirty' = Marked(m, lost)
    /\ UNCHANGED <<conns, authLink, worldLink, named, listed, registered,
                   acked, rows, toAuth, toWorld, fromWorld, drops, history>>

\* The broadcast of MasterSvr's main loop.
BroadcastWorldList(m) ==
    /\ dirty[m] /\ authLink[m]
    /\ dirty' = [dirty EXCEPT ![m] = FALSE]
    /\ toAuth' = Sent(toAuth, m, TRUE, WorldList(registered[m]))
    /\ UNCHANGED <<conns, authLink, worldLink, named, listed, registered,
                   acked, rows, toMaster, toWorld, fromWorld, drops, history>>

OnMasterWorldList(m) ==
    /\ Receives(toAuth, m, "WORLDLIST")
    /\ listed' = [listed EXCEPT ![m] = Head(toAuth[m]).listed]
    /\ toAuth' = [toAuth EXCEPT ![m] = Tail(@)]
    /\ UNCHANGED <<conns, authLink, worldLink, named, registered, dirty, acked,
                   rows, toMaster, toWorld, fromWorld, drops, history>>

\* WorldSvr's connection to its master is established: it sends
\* WORLD_REQCONNECT, and both ends have fresh contexts.
ConnectWorld(m) ==
    /\ ~worldLink[m]
    /\ worldLink' = [worldLink EXCEPT ![m] = TRUE]
    /\ toWorld' = [toWorld EXCEPT ![m] = <<>>]
    /\ fromWorld' = [fromWorld EXCEPT ![m] = <<Control("REQCONNECT")>>]
    /\ UNCHANGED <<conns, authLink, named, listed, registered, dirty, acked,
                   rows, toMaster, toAuth, drops, history>>

\* MasterSvr registers its world, acknowledges and broadcasts the list at
\* once; the mark before the broadcast stays for the main loop.
OnWorldConnect(m) ==
    /\ Receives(fromWorld, m, "REQCONNECT")
    /\ fromWorld' = [fromWorld EXCEPT ![m] = Tail(@)]
    /\ registered' = [registered EXCEPT ![m] = TRUE]
    /\ toWorld' = Sent(toWorld, m, TRUE, Control("ACKCONNECT"))
    /\ toAuth' = Sent(toAuth, m, authLink[m], WorldList(TRUE))
    /\ \E lost \in BOOLEAN : dirty' = Marked(m, lost)
    /\ UNCHANGED <<conns, authLink, worldLink, named, listed, acked, rows,
                   toMaster, drops, history>>

\* WorldSvr learns the ServerID of its master.
OnWorldAcknowledged(m) ==
    /\ Receives(toWorld, m, "ACKCONNECT")
    /\ toWorld' = [toWorld EXCEPT ![m] = Tail(@)]
    /\ acked' = [acked EXCEPT ![m] = TRUE]
    /\ UNCHANGED <<conns, authLink, worldLink, named, listed, registered,
                   dirty, rows, toMaster, toAuth, fromWorld, drops, history>>

\* A link breaks: both ends free their contexts, packets in flight are lost.
BreakAuth(m) ==
    /\ authLink[m] /\ drops < MaxDrops
    /\ drops' = drops + 1
    /\ authLink' = [authLink EXCEPT ![m] = FALSE]
    /\ named' = [named EXCEPT ![m] = FALSE]
    /\ listed' = [listed EXCEPT ![m] = FALSE]
    /\ toMaster' = [toMaster EXCEPT ![m] = <<>>]
    /\ toAuth' = [toAuth EXCEPT ![m] = <<>>]
    /\ UNCHANGED <<conns, worldLink, registered, dirty, acked, rows, toWorld,
                   fromWorld, history>>

BreakWorld(m) ==
    /\ worldLink[m] /\ drops < MaxDrops
    /\ drops' = drops + 1
    /\ worldLink' = [worldLink EXCEPT ![m] = FALSE]
    /\ registered' = [registered EXCEPT ![m] = FALSE]
    /\ acked' = [acked EXCEPT ![m] = FALSE]
    /\ \E lost \in BOOLEAN : dirty' = Marked(m, lost)
    /\ toWorld' = [toWorld EXCEPT ![m] = <<>>]
    /\ fromWorld' = [fromWorld EXCEPT ![m] = <<>>]
    /\ UNCHANGED <<conns, authLink, named, listed, rows, toMaster, toAuth,
                   history>>

-----------------------------------------------------------------------------
(* AuthSvr's clients.                                                      *)

\* Connection IDs are handed out in order and never reused.
AuthAccept(c) ==
    /\ auth[c].phase = "unused"
    /\ \A d \in AuthIDs : d < c => auth[d].phase # "unused"
    /\ auth' = [auth EXCEPT ![c].phase = "open"]
    /\ UNCHANGED <<world, links, rows, packets, drops, history>>

\* The login chain ends with this account; a client may go through it again.
\* A login that fails (ok FALSE) flags the connection, but has replaced the
\* account of an earlier one, whose AUTHENTICATED flag stays.
OnAuthenticate(c, a, ok) ==
    /\ auth[c].phase = "open"
    /\ LET authenticated == ok \/ auth[c].acct # NoAccount
       IN  auth' = [auth EXCEPT ![c].acct = IF authenticated THEN a ELSE @,
                                ![c].disc = @ \/ ~ok]
    /\ UNCHANGED <<world, links, rows, packets, drops, history>>

Request(c, m, k, e) ==
    [conn |-> Trunc(c), to |-> m, acct |-> auth[c].acct, key |-> k,
     entity |-> e]

\* Mutant: the VERIFIED flag is not set.
OnVerifyLinksUnflagged(c, m, k, e, ok) ==
    /\ auth[c].phase = "open" /\ auth[c].acct # NoAccount
    /\ ~auth[c].verified /\ named[m] /\ listed[m] /\ ok
    /\ toMaster' = [n \in Masters |->
                      Sent(toMaster, n, authLink[n],
                           VerifyLinks(Request(c, m, k, e)))[n]]
    /\ asked' = asked \cup {Request(c, m, k, e)}
    /\ UNCHANGED <<conns, links, rows, toAuth, toWorld, fromWorld, drops,
                   granted, issued, told>>

\* Mutant: a client that has not logged in may ask.
OnVerifyLinksAnyone(c, m, k, e, ok) ==
    /\ auth[c].phase = "open"
    /\ ~auth[c].verified /\ named[m] /\ listed[m] /\ ok
    /\ auth' = [auth EXCEPT ![c].verified = TRUE]
    /\ toMaster' = [n \in Masters |->
                      Sent(toMaster, n, authLink[n],
                           VerifyLinks(Request(c, m, k, e)))[n]]
    /\ asked' = asked \cup {Request(c, m, k, e)}
    /\ UNCHANGED <<world, links, rows, toAuth, toWorld, fromWorld, drops,
                   granted, issued, told>>

\* C2S_VERIFYLINKS with the world of master m, key k and connection e.  ok:
\* the magic key is the configured one and the world list entry is not full.
OnVerifyLinks(c, m, k, e, ok) ==
    /\ auth[c].phase = "open" /\ auth[c].acct # NoAccount
    /\ ~auth[c].verified /\ named[m] /\ listed[m] /\ ok
    /\ auth' = [auth EXCEPT ![c].verified = TRUE]
    /\ toMaster' = [n \in Masters |->
                      Sent(toMaster, n, authLink[n],
                           VerifyLinks(Request(c, m, k, e)))[n]]
    /\ asked' = asked \cup {Request(c, m, k, e)}
    /\ UNCHANGED <<world, links, rows, toAuth, toWorld, fromWorld, drops,
                   granted, issued, told>>

\* Every other C2S_VERIFYLINKS is an error: the connection is flagged.
OnVerifyLinksError(c, m, ok) ==
    /\ auth[c].phase = "open"
    /\ \/ auth[c].acct = NoAccount \/ auth[c].verified
       \/ ~named[m] \/ ~listed[m] \/ ~ok
    /\ auth' = [auth EXCEPT ![c].disc = TRUE]
    /\ UNCHANGED <<world, links, rows, packets, drops, history>>

\* The auto-disconnect timer fires in AuthSvr's main loop, or the connection
\* fails: it is flagged.
AuthClose(c) ==
    /\ auth[c].phase = "open"
    /\ auth' = [auth EXCEPT ![c].disc = TRUE]
    /\ UNCHANGED <<world, links, rows, packets, drops, history>>

\* SocketUpdate removes a flagged connection.
AuthReap(c) ==
    /\ auth[c].phase = "open" /\ auth[c].disc
    /\ auth' = [auth EXCEPT ![c] = AuthConn("gone", NoAccount, FALSE, FALSE)]
    /\ UNCHANGED <<world, links, rows, packets, drops, history>>

-----------------------------------------------------------------------------
(* WorldSvr's clients.                                                     *)

WorldAccept(m, e) ==
    /\ world[m][e].phase = "unused"
    /\ \A d \in WorldIDs : d < e => world[m][d].phase # "unused"
    /\ world' = [world EXCEPT ![m][e].phase = "open"]
    /\ UNCHANGED <<auth, links, rows, packets, drops, history>>

\* CONNECT: a new random key, also for a connection that has one already.
OnConnect(m, e, k) ==
    /\ world[m][e].phase = "open"
    /\ world' = [world EXCEPT ![m][e].key = k]
    /\ issued' = [issued EXCEPT ![m][e] = @ \cup {k}]
    /\ UNCHANGED <<auth, links, rows, packets, drops, asked, granted, told>>

WorldLost(m, e) ==
    /\ world[m][e].phase = "open" /\ ~world[m][e].disc
    /\ world' = [world EXCEPT ![m][e].disc = TRUE]
    /\ UNCHANGED <<auth, links, rows, packets, drops, history>>

WorldReap(m, e) ==
    /\ world[m][e].phase = "open" /\ world[m][e].disc
    /\ world' = [world EXCEPT ![m][e] =
                    WorldConn("gone", NoKey, NoAccount, FALSE, FALSE)]
    /\ UNCHANGED <<auth, links, rows, packets, drops, history>>

-----------------------------------------------------------------------------
(* The request on its way and the answer back.                             *)

\* MasterDBGetOrCreateAccount succeeds only for an account that has a row.
\* For a new one the row may be inserted, but the AccountID is then replaced
\* by the last insert ID, which names no row, and the final select fails.
GetOrCreateAccount(m, a, ok, r) ==
    \/ ok /\ a \in rows[m] /\ r = rows[m]
    \/ ~ok /\ r = rows[m]
    \/ ~ok /\ a \notin rows[m] /\ r = rows[m] \cup {a}

\* Mutant: the error path of the master sends no answer.
OnAuthVerifyLinksSilent(m) ==
    /\ Receives(toMaster, m, "VERIFYLINKS")
    /\ toMaster' = [toMaster EXCEPT ![m] = Tail(@)]
    /\ LET r == Head(toMaster[m]).req
       IN  IF r.to = m /\ registered[m] /\ r.acct \in rows[m]
           THEN toWorld' = Sent(toWorld, m, worldLink[m], VerifyLinks(r))
           ELSE UNCHANGED toWorld
    /\ UNCHANGED <<conns, links, rows, toAuth, fromWorld, drops, history>>

\* MasterSvr: refuse a request for another ServerID, for a world that is not
\* there or for an account the database does not give; else forward it.
OnAuthVerifyLinks(m) ==
    /\ Receives(toMaster, m, "VERIFYLINKS")
    /\ toMaster' = [toMaster EXCEPT ![m] = Tail(@)]
    /\ LET r == Head(toMaster[m]).req
           refuse == /\ toAuth' = Sent(toAuth, m, authLink[m], Verdict(r, 0))
                     /\ UNCHANGED toWorld
       IN  \/ /\ r.to # m \/ ~registered[m]
              /\ refuse
              /\ UNCHANGED rows
           \/ /\ r.to = m /\ registered[m]
              /\ \E ok \in BOOLEAN, new \in SUBSET Accounts :
                    /\ GetOrCreateAccount(m, r.acct, ok, new)
                    /\ rows' = [rows EXCEPT ![m] = new]
                    /\ IF ok
                       THEN /\ toWorld' = Sent(toWorld, m, worldLink[m],
                                               VerifyLinks(r))
                            /\ UNCHANGED toAuth
                       ELSE refuse
    /\ UNCHANGED <<conns, links, fromWorld, drops, history>>

\* Mutant: the lookup forgets the AuthKey.
MatchesAnyKey(m, r, e) ==
    world[m][e].phase = "open" /\ world[m][e].key # NoKey /\ e = r.entity

\* ServerGetClientByAuthKey: the connection ID is compared at full width.
Matches(m, r, e) ==
    /\ world[m][e].phase = "open"
    /\ world[m][e].key # NoKey
    /\ world[m][e].key = r.key
    /\ e = r.entity

\* Mutant: the world binds a connection that is bound already.
OnWorldVerifyLinksTwice(m) ==
    /\ Receives(toWorld, m, "VERIFYLINKS")
    /\ toWorld' = [toWorld EXCEPT ![m] = Tail(@)]
    /\ LET r == Head(toWorld[m]).req
       IN  \E e \in WorldIDs :
                /\ acked[m] /\ r.to = m /\ Matches(m, r, e)
                /\ world' = [world EXCEPT ![m][e].verified = TRUE,
                                          ![m][e].acct = r.acct]
                /\ granted' = granted \cup {r}
                /\ fromWorld' = Sent(fromWorld, m, worldLink[m], Verdict(r, 1))
    /\ UNCHANGED <<auth, links, rows, toMaster, toAuth, drops, asked, issued,
                   told>>

\* WorldSvr: bind the account to the connection the request names, unless it
\* is for another server, names no connection or one that is bound already.
OnWorldVerifyLinks(m) ==
    /\ Receives(toWorld, m, "VERIFYLINKS")
    /\ toWorld' = [toWorld EXCEPT ![m] = Tail(@)]
    /\ LET r == Head(toWorld[m]).req
           accepts(e) == /\ acked[m] /\ r.to = m
                         /\ Matches(m, r, e) /\ ~world[m][e].verified
       IN  \/ \E e \in WorldIDs :
                /\ accepts(e)
                /\ world' = [world EXCEPT ![m][e].verified = TRUE,
                                          ![m][e].acct = r.acct]
                /\ granted' = granted \cup {r}
                /\ fromWorld' = Sent(fromWorld, m, worldLink[m], Verdict(r, 1))
           \/ /\ \A e \in WorldIDs : ~accepts(e)
              /\ fromWorld' = Sent(fromWorld, m, worldLink[m], Verdict(r, 0))
              /\ UNCHANGED <<world, granted>>
    /\ UNCHANGED <<auth, links, rows, toMaster, toAuth, drops, asked, issued,
                   told>>

\* Mutant: the answer of the world is taken for a yes.
OnWorldVerifyResultYes(m) ==
    /\ Receives(fromWorld, m, "VERIFYRESULT")
    /\ fromWorld' = [fromWorld EXCEPT ![m] = Tail(@)]
    /\ toAuth' = Sent(toAuth, m, authLink[m],
                      Verdict(Head(fromWorld[m]).res, 1))
    /\ UNCHANGED <<conns, links, rows, toMaster, toWorld, drops, history>>

\* MasterSvr passes the answer on, if AuthSvr is there to take it.
OnWorldVerifyResult(m) ==
    /\ Receives(fromWorld, m, "VERIFYRESULT")
    /\ fromWorld' = [fromWorld EXCEPT ![m] = Tail(@)]
    /\ toAuth' = Sent(toAuth, m, authLink[m], Head(fromWorld[m]))
    /\ UNCHANGED <<conns, links, rows, toMaster, toWorld, drops, history>>

\* AuthSvr tells the client with this connection ID, if it is still there,
\* and flags its connection.
OnMasterVerifyResult(m) ==
    /\ Receives(toAuth, m, "VERIFYRESULT")
    /\ toAuth' = [toAuth EXCEPT ![m] = Tail(@)]
    /\ LET res == Head(toAuth[m]).res
           here(c) == c = res.conn /\ auth[c].phase = "open"
       IN  \/ \E c \in AuthIDs :
                /\ here(c)
                /\ auth' = [auth EXCEPT ![c].disc = TRUE]
                /\ told' = [told EXCEPT ![c] =
                              Append(@, [by |-> m, status |-> res.status])]
           \/ (\A c \in AuthIDs : ~here(c)) /\ UNCHANGED <<auth, told>>
    /\ UNCHANGED <<world, links, rows, toMaster, toWorld, fromWorld, drops,
                   asked, granted, issued>>

-----------------------------------------------------------------------------
LinkStep(m) ==
    \/ ConnectAuth(m) \/ OnMasterConnect(m) \/ OnAuthConnect(m)
    \/ BroadcastWorldList(m) \/ OnMasterWorldList(m)
    \/ ConnectWorld(m) \/ OnWorldConnect(m) \/ OnWorldAcknowledged(m)

VerifyStep(m) ==
    \/ OnAuthVerifyLinks(m) \/ OnWorldVerifyLinks(m)
    \/ OnWorldVerifyResult(m) \/ OnMasterVerifyResult(m)

Break(m) == BreakAuth(m) \/ BreakWorld(m)

\* What a client may name: an ID a world handed out, or one that names nobody.
EntityIDs == {0} \cup {Trunc(e) : e \in WorldIDs}

AuthStep(c) ==
    \/ AuthAccept(c) \/ AuthClose(c) \/ AuthReap(c)
    \/ \E a \in Accounts, ok \in BOOLEAN : OnAuthenticate(c, a, ok)
    \/ \E m \in Masters, ok \in BOOLEAN : OnVerifyLinksError(c, m, ok)
    \/ \E m \in Masters, k \in Keys, e \in EntityIDs, ok \in BOOLEAN :
          OnVerifyLinks(c, m, k, e, ok)

WorldStep(m) ==
    \E e \in WorldIDs :
        \/ WorldAccept(m, e) \/ WorldLost(m, e) \/ WorldReap(m, e)
        \/ \E k \in Keys : OnConnect(m, e, k)

Next ==
    \/ \E m \in Masters : LinkStep(m) \/ VerifyStep(m) \/ Break(m) \/ WorldStep(m)
    \/ \E c \in AuthIDs : AuthStep(c)

Spec == Init /\ [][Next]_vars

\* Each server's loop handles what it has received, connects again when it is
\* not connected, and checks timers and flags: weak fairness of those steps.
\* Clients are free to stop, and nothing makes a link break.
Fairness ==
    /\ \A m \in Masters : WF_vars(LinkStep(m)) /\ WF_vars(VerifyStep(m))
    /\ \A c \in AuthIDs : WF_vars(AuthReap(c))

FairSpec == Spec /\ Fairness

-----------------------------------------------------------------------------
(* Properties.                                                             *)

\* A world connection that plays under an account was named, by its own
\* connection ID and a key this connection was given, in a request AuthSvr
\* sent for that account and this world: no lookup, late packet or reused ID
\* binds a player to somebody else's account.
SessionsGranted ==
    \A m \in Masters : \A e \in WorldIDs :
        world[m][e].verified =>
            \E r \in granted \cap asked :
                /\ r.to = m /\ r.entity = e
                /\ r.acct = world[m][e].acct
                /\ r.key \in issued[m][e]

\* Inductive support of SessionsGranted: requests on the way are requests that
\* were made, and a key in use is a key that was handed out.
CarriesAsked(chan, made) ==
    \A m \in Masters : \A i \in DOMAIN chan[m] :
        chan[m][i].kind = "VERIFYLINKS" => chan[m][i].req \in made
KeysIssued ==
    \A m \in Masters : \A e \in WorldIDs :
        world[m][e].key # NoKey => world[m][e].key \in issued[m][e]

Authentic ==
    /\ TypeOK
    /\ CarriesAsked(toMaster, asked) /\ CarriesAsked(toWorld, asked)
    /\ granted \subseteq asked
    /\ KeysIssued
    /\ SessionsGranted

\* What is still under way on behalf of client connection c at master m:
\* requests to it or its world, and answers from its world or it.
About(p, c) == \/ p.kind = "VERIFYLINKS" /\ p.req.conn = c
               \/ p.kind = "VERIFYRESULT" /\ p.res.conn = c
Carried(chan, m, c) == {i \in DOMAIN chan[m] : About(chan[m][i], c)}
Heard(m, c) == {i \in DOMAIN told[c] : told[c][i].by = m}

\* Of one client's request each master holds at most one piece, request or
\* answer, and it is gone once that master's answer is delivered: nothing on
\* the way of four servers duplicates it.
OnePiecePerMaster ==
    \A c \in AuthIDs : \A m \in Masters :
        Cardinality(Carried(toMaster, m, c)) + Cardinality(Carried(toWorld, m, c))
        + Cardinality(Carried(fromWorld, m, c)) + Cardinality(Carried(toAuth, m, c))
        + Cardinality(Heard(m, c)) <= 1

\* Inductive support of OnePiecePerMaster and KeepsPromise.  A client that is
\* not flagged VERIFIED has no request, and nobody has two.
OneRequest ==
    /\ \A r \in asked : /\ r.conn \in AuthIDs
                        /\ auth[r.conn].verified \/ auth[r.conn].phase = "gone"
    /\ \A r, q \in asked : r.conn = q.conn => r = q
    /\ \A c \in AuthIDs : told[c] # <<>> => \E r \in asked : r.conn = c

\* A request still on the way to its world has not been accepted, and an
\* answer says of a request that was made whether this world accepted it.
Fits(p, m, made, given) ==
    /\ p.kind = "VERIFYLINKS" =>
          p.req \in made /\ (p.req.to = m => p.req \notin given)
    /\ p.kind = "VERIFYRESULT" =>
          \E r \in made :
              /\ r.conn = p.res.conn
              /\ p.res.status = 1 <=> r.to = m /\ r \in given
Fitting(chan, made, given) ==
    \A m \in Masters : \A i \in DOMAIN chan[m] : Fits(chan[m][i], m, made, given)

\* OnePiecePerMaster without the counting.
Lone(S) == \A x, y \in S : x = y
OneOf(A, B, C, D, E) ==
    /\ Lone(A) /\ Lone(B) /\ Lone(C) /\ Lone(D) /\ Lone(E)
    /\ A # {} => B = {} /\ C = {} /\ D = {} /\ E = {}
    /\ B # {} => C = {} /\ D = {} /\ E = {}
    /\ C # {} => D = {} /\ E = {}
    /\ D # {} => E = {}
OnePiece ==
    \A m \in Masters : \A c \in AuthIDs :
        OneOf(Carried(toMaster, m, c), Carried(toWorld, m, c),
              Carried(fromWorld, m, c), Carried(toAuth, m, c), Heard(m, c))

\* The connection of an accepted request is bound, until it is closed for ever.
GrantsBound ==
    \A g \in granted :
        /\ g.entity \in WorldIDs
        /\ world[g.to][g.entity].verified \/ world[g.to][g.entity].phase = "gone"

HandoffInv ==
    /\ Authentic /\ OneRequest /\ GrantsBound /\ OnePiece
    /\ Fitting(toMaster, asked, granted) /\ Fitting(toWorld, asked, granted)
    /\ Fitting(fromWorld, asked, granted) /\ Fitting(toAuth, asked, granted)

\* Connection IDs that fit the UInt16 fields of the protocols: no two clients
\* of AuthSvr share one.
IdsFit == MaxAuthConn < IdSpace

\* A world connection keeps the account it was bound to until it is closed.
AccountPinned ==
    [][\A m \in Masters : \A e \in WorldIDs :
          world[m][e].verified =>
              \/ world'[m][e].verified /\ world'[m][e].acct = world[m][e].acct
              \/ world'[m][e].phase = "gone"]_vars

\* The servers together keep the promise of the hand-off.
Promise == INSTANCE HandoffPromise WITH Conns <- AuthIDs, Reqs <- Requests
KeepsPromise == Promise!PSpec

\* While the links between the servers hold, a client whose request was sent
\* is told an answer or its connection is closed: no error path of a server
\* in between swallows the request.
RequestAnswered ==
    \A c \in AuthIDs :
        auth[c].verified ~> (told[c] # <<>> \/ auth[c].phase = "gone")
=============================================================================
