----------------------------- MODULE AuthLogin -----------------------------
(***************************************************************************)
(* The main loop of AuthSvr and the login chain of its clients.            *)
(*                                                                         *)
(* One iteration reads the clock, accepts at most one connection, handles  *)
(* what each connection has sent, in the order of the array, takes out the *)
(* connections flagged for it, handles the answers of the masters and ends *)
(* with the timers.  The flag is only looked at when connections are taken *)
(* out: until then a flagged client is handled like any other.             *)
(*                                                                         *)
(* A read is any number of whole packets, handled one by one.  Fewer than  *)
(* four bytes of a further packet stay in the buffer and show up with the  *)
(* read that completes them; with four or more SocketFetchReadBuffer never *)
(* leaves its loop.                                                        *)
(***************************************************************************)
EXTENDS Integers, Sequences, SequencesExt

CONSTANTS
    Accounts,     \* account IDs of the auth database
    NoAccount,    \* AccountID -1: no login yet
    Unknown,      \* AccountID 0: the name of the last login is not known
    MaxClients,   \* Config.Auth.MaxConnectionCount
    Delay,        \* Config.Auth.AutoDisconnectDelay in seconds
    MaxConns,     \* bound: connections accepted in all
    MaxLag        \* bound: seconds from one iteration to the next

ASSUME LoginAssumption ==
    /\ NoAccount \notin Accounts /\ Unknown \notin Accounts /\ NoAccount # Unknown
    /\ MaxClients \in Nat \ {0} /\ MaxConns \in Nat \ {0}
    /\ Delay \in Nat /\ MaxLag \in Nat \ {0}

VARIABLES
    phase,    \* what the loop does next: "top", "receive", "handle", "sweep" or "rest"
    at,       \* index of the connection it is at
    conns,    \* ClientSocket->Connections with their contexts
    nextID,   \* ClientSocket->NextConnectionID
    config,   \* the switches of Config.Auth
    halted    \* "no", "assert" failed or "packet": the loop at an incomplete one

vars == <<phase, at, conns, nextID, config, halted>>

\* The flags of a client in the order the protocol raises them.
Chain == <<"CONNECTED", "VERSION_CHECKED", "USERNAME_CHECKED",
           "PUBLICKEY_INITIALIZED", "AUTHORIZED", "AUTHENTICATED", "VERIFIED">>
Flags == {Chain[k] : k \in 1 .. Len(Chain)}

Off == -2   \* CLIENT_FLAGS_CHECK_DISCONNECT_TIMER not set

\* left: DisconnectTimestamp less the server's clock.  History: proved is the
\* account the last login gave the password of, NoAccount if it failed; asked is
\* the account the masters were sent, with what was proved by then.
Clients == [id : 1 .. MaxConns, flags : SUBSET Flags, rsa : BOOLEAN,
            acct : Accounts \cup {NoAccount, Unknown}, left : (-1 .. Delay) \cup {Off},
            disc : BOOLEAN, proved : Accounts \cup {NoAccount},
            asked : (Accounts \cup {NoAccount, Unknown}) \X (Accounts \cup {NoAccount})]

TypeOK ==
    /\ phase \in {"top", "receive", "handle", "sweep", "rest"}
    /\ conns \in Seq(Clients) /\ Len(conns) <= MaxClients
    /\ at \in 0 .. MaxClients + 1
    /\ nextID \in 1 .. MaxConns + 1
    /\ config \in [maintenance : BOOLEAN, autoDisconnect : BOOLEAN]
    /\ halted \in {"no", "assert", "packet"}

Init ==
    /\ phase = "top" /\ at = 1 /\ conns = <<>> /\ nextID = 1
    /\ config \in [maintenance : BOOLEAN, autoDisconnect : BOOLEAN]
    /\ halted = "no"

---------------------------------------------------------------------------
\* The handlers: the client after one packet.

Has(c, flag)   == flag \in c.flags
Raise(c, flag) == [c EXCEPT !.flags = @ \cup {flag}]
SocketDisconnect(c) == [c EXCEPT !.disc = TRUE]

OnCheckVersion(c) ==
    IF Has(c, "CONNECTED") THEN Raise(c, "VERSION_CHECKED") ELSE SocketDisconnect(c)

OnServerEnv(c) ==
    IF Has(c, "VERSION_CHECKED") THEN Raise(c, "USERNAME_CHECKED") ELSE SocketDisconnect(c)

\* made: RSA_generate_key_ex succeeded.
OnPublicKey(c, made) ==
    IF Has(c, "USERNAME_CHECKED") /\ made
    THEN [Raise(c, "PUBLICKEY_INITIALIZED") EXCEPT !.rsa = TRUE]
    ELSE SocketDisconnect(c)

StartTimer(c) == [c EXCEPT !.left = Delay]

OnAuthAccount(c) ==
    IF ~Has(c, "PUBLICKEY_INITIALIZED") \/ config.maintenance THEN SocketDisconnect(c)
    ELSE IF config.autoDisconnect THEN StartTimer(Raise(c, "AUTHORIZED"))
    ELSE Raise(c, "AUTHORIZED")

\* Mutant: a client that is logged in is not disconnected for a login that fails.
OnAuthenticateLenient(c, p) ==
    IF ~Has(c, "AUTHORIZED") THEN SocketDisconnect(c)
    ELSE IF ~p.readable THEN SocketDisconnect(c)
    ELSE IF ~p.success
         THEN IF Has(c, "AUTHENTICATED")
              THEN [c EXCEPT !.acct = p.acct, !.proved = NoAccount]
              ELSE SocketDisconnect([c EXCEPT !.acct = p.acct, !.proved = NoAccount])
    ELSE StartTimer([Raise(c, "AUTHENTICATED") EXCEPT !.acct = p.acct, !.proved = p.acct])

\* A payload that cannot be read leaves the account alone; any other login
\* stores the account found, also when it then fails.
OnAuthenticate(c, p) ==
    IF ~Has(c, "AUTHORIZED") THEN SocketDisconnect(c)
    ELSE IF ~p.readable THEN SocketDisconnect(c)
    ELSE IF ~p.success
         THEN SocketDisconnect([c EXCEPT !.acct = p.acct, !.proved = NoAccount])
    ELSE StartTimer([Raise(c, "AUTHENTICATED") EXCEPT !.acct = p.acct, !.proved = p.acct])

\* fits: the magic key is right and the world is listed and not full.  The
\* account goes out to every master.
OnVerifyLinks(c, fits) ==
    IF ~Has(c, "AUTHENTICATED") \/ Has(c, "VERIFIED") \/ ~fits THEN SocketDisconnect(c)
    ELSE [Raise(c, "VERIFIED") EXCEPT !.asked = <<c.acct, c.proved>>]

\* What a client may send, with what the database, the RSA library and the
\* world list make of it.
Packets ==
    [kind : {"CONNECT", "CHECKVERSION", "SERVERENV", "AUTHACCOUNT", "DISCONNECT"}]
    \cup [kind : {"PUBLICKEY"}, made : BOOLEAN]
    \cup [kind : {"AUTHENTICATE"}, readable : {FALSE}]
    \cup [kind : {"AUTHENTICATE"}, readable : {TRUE}, acct : Accounts, success : BOOLEAN]
    \cup [kind : {"AUTHENTICATE"}, readable : {TRUE}, acct : {Unknown}, success : {FALSE}]
    \cup [kind : {"VERIFYLINKS"}, fits : BOOLEAN]

OnReceived(c, p) ==
    CASE p.kind = "CONNECT"      -> Raise(c, "CONNECTED")
      [] p.kind = "CHECKVERSION" -> OnCheckVersion(c)
      [] p.kind = "SERVERENV"    -> OnServerEnv(c)
      [] p.kind = "PUBLICKEY"    -> OnPublicKey(c, p.made)
      [] p.kind = "AUTHACCOUNT"  -> OnAuthAccount(c)
      [] p.kind = "AUTHENTICATE" -> OnAuthenticate(c, p)
      [] p.kind = "VERIFYLINKS"  -> OnVerifyLinks(c, p.fits)
      [] p.kind = "DISCONNECT"   -> SocketDisconnect(c)

\* The handlers' asserts: a login is decrypted with a key, and the client that
\* is passed on to the masters has an account.
Asserts(c, p) ==
    /\ p.kind = "AUTHENTICATE" /\ Has(c, "AUTHORIZED") => c.rsa
    /\ p.kind = "VERIFYLINKS" /\ p.fits /\ Has(c, "AUTHENTICATED") /\ ~Has(c, "VERIFIED") =>
          c.acct \in Accounts

---------------------------------------------------------------------------
\* The loop.

NewClient(id) == [id |-> id, flags |-> {}, rsa |-> FALSE, acct |-> NoAccount,
                  left |-> Off, disc |-> FALSE, proved |-> NoAccount,
                  asked |-> <<NoAccount, NoAccount>>]

\* The clock shows s seconds more: every running timer has that much less left.
Elapse(s) == [k \in 1 .. Len(conns) |->
    IF conns[k].left = Off THEN conns[k]
    ELSE [conns[k] EXCEPT !.left = IF @ - s < -1 THEN -1 ELSE @ - s]]

\* The clock is read and a waiting client accepted, if there is room.
Begin(s, accept) ==
    /\ phase = "top" /\ halted = "no"
    /\ accept => Len(conns) < MaxClients /\ nextID <= MaxConns
    /\ conns' = IF accept THEN Append(Elapse(s), NewClient(nextID)) ELSE Elapse(s)
    /\ nextID' = IF accept THEN nextID + 1 ELSE nextID
    /\ phase' = "receive" /\ at' = 1
    /\ UNCHANGED <<config, halted>>

\* SocketFlushWriteBuffer fails when what is to be sent cannot be; what has
\* come in is received and handled all the same.  If recv fails, nothing is.
Receive(flushed, received) ==
    /\ phase = "receive" /\ halted = "no" /\ at <= Len(conns)
    /\ conns' = IF flushed /\ received THEN conns
                ELSE [conns EXCEPT ![at] = SocketDisconnect(@)]
    /\ IF received THEN phase' = "handle" /\ UNCHANGED at
       ELSE at' = at + 1 /\ UNCHANGED phase
    /\ UNCHANGED <<nextID, config, halted>>

\* ClientSocketOnReceived
Handle(p) ==
    /\ phase = "handle" /\ halted = "no"
    /\ IF Asserts(conns[at], p)
       THEN conns' = [conns EXCEPT ![at] = OnReceived(@, p)] /\ UNCHANGED halted
       ELSE halted' = "assert" /\ UNCHANGED conns
    /\ UNCHANGED <<phase, at, nextID, config>>

\* No whole packet is left in the buffer: the next connection's turn, or the
\* end of the server.
Handled ==
    /\ phase = "handle" /\ halted = "no"
    /\ phase' = "receive" /\ at' = at + 1
    /\ UNCHANGED <<conns, nextID, config, halted>>

Incomplete ==
    /\ phase = "handle" /\ halted = "no"
    /\ halted' = "packet"
    /\ UNCHANGED <<phase, at, conns, nextID, config>>

\* Mutant: the last connection is not gone through.
AllReceivedButOne ==
    /\ phase = "receive" /\ halted = "no" /\ at > Len(conns)
    /\ phase' = "sweep" /\ at' = IF conns = <<>> THEN 0 ELSE Len(conns) - 1
    /\ UNCHANGED <<conns, nextID, config, halted>>

AllReceived ==
    /\ phase = "receive" /\ halted = "no" /\ at > Len(conns)
    /\ phase' = "sweep" /\ at' = Len(conns)
    /\ UNCHANGED <<conns, nextID, config, halted>>

\* A flagged connection is taken out, the ones behind moving up; the array is
\* gone through from the last to the first.
Sweep ==
    /\ phase = "sweep" /\ at > 0
    /\ conns' = IF conns[at].disc THEN RemoveAt(conns, at) ELSE conns
    /\ at' = at - 1
    /\ UNCHANGED <<phase, nextID, config, halted>>

Swept ==
    /\ phase = "sweep" /\ at = 0
    /\ phase' = "rest" /\ at' = 1
    /\ UNCHANGED <<conns, nextID, config, halted>>

\* A master answers the request of a client that is still connected; the
\* client is told and flagged.  Further masters may answer as well.
OnMasterVerifyResult(k) ==
    /\ phase = "rest" /\ k \in 1 .. Len(conns)
    /\ Has(conns[k], "VERIFIED") /\ ~conns[k].disc
    /\ conns' = [conns EXCEPT ![k] = SocketDisconnect(@)]
    /\ UNCHANGED <<phase, at, nextID, config, halted>>

\* Mutant: a timer that has run out is forgotten, not acted upon.
ExpireForgotten(c) == IF c.left = -1 THEN [c EXCEPT !.left = Off] ELSE c

\* A timer runs out when its second is over.
Expire(c) == IF c.left = -1 THEN SocketDisconnect([c EXCEPT !.left = Off]) ELSE c

Timers ==
    /\ phase = "rest"
    /\ conns' = [k \in 1 .. Len(conns) |-> Expire(conns[k])]
    /\ phase' = "top"
    /\ UNCHANGED <<at, nextID, config, halted>>

Next ==
    \/ \E s \in 0 .. MaxLag, accept \in BOOLEAN : Begin(s, accept)
    \/ \E flushed, received \in BOOLEAN : Receive(flushed, received)
    \/ \E p \in Packets : Handle(p)
    \/ Handled
    \/ Incomplete
    \/ AllReceived
    \/ Sweep
    \/ Swept
    \/ \E k \in 1 .. MaxClients : OnMasterVerifyResult(k)
    \/ Timers

\* The loop does not stop unless it is halted, a read ends, and time goes by.
\* A step of GoOn is possible wherever the loop can be.
GoOn ==
    \/ Begin(0, FALSE) \/ Handled \/ AllReceived \/ Sweep \/ Swept \/ Timers
    \/ \E flushed, received \in BOOLEAN : Receive(flushed, received)
Fairness ==
    /\ WF_vars(GoOn)
    /\ SF_vars(\E s \in 1 .. MaxLag, accept \in BOOLEAN : Begin(s, accept))

Spec == Init /\ [][Next]_vars
FairSpec == Spec /\ Fairness

---------------------------------------------------------------------------
\* Properties.

Connected(id) == \E k \in 1 .. Len(conns) : conns[k].id = id

\* Whatever order a client sends its packets in, its flags are raised in the
\* order of the chain, and it has a key before a login is decrypted with it:
\* the assert in OnAuthenticate cannot fail.
LoginOrder ==
    \A i \in 1 .. Len(conns) :
        /\ \A k \in 2 .. Len(Chain) : Has(conns[i], Chain[k]) => Has(conns[i], Chain[k - 1])
        /\ Has(conns[i], "AUTHORIZED") => conns[i].rsa

\* A client that fell: a login failed after one that had succeeded.  The flag of
\* the first stays, AccountID is that of the failed one (OnAuthenticate.c:151).
Fell(c) == Has(c, "AUTHENTICATED") /\ c.proved = NoAccount

\* What a client counts as logged in to, and what the masters are asked for on its
\* behalf, is the account it has last given the password of, unless it fell.
Backed(c) ==
    /\ Has(c, "AUTHENTICATED") =>
          /\ c.acct # NoAccount
          /\ IF Fell(c) THEN c.disc ELSE c.acct = c.proved /\ c.acct \in Accounts
    /\ Has(c, "VERIFIED") =>
          /\ c.asked[1] \in Accounts
          /\ IF c.asked[2] = NoAccount THEN c.disc ELSE c.asked[1] = c.asked[2]

\* Every client is backed, however many logins of its fail or succeed and whether
\* or not it is flagged.  The exception is one that fell: it is served until the
\* sweep and may ask for an account whose password it never gave or, its name being
\* unknown, fail the assert of OnVerifyLinks.c:22.  It is on its way out by then,
\* and nobody else ever does either.
LoginBacked ==
    /\ \A i \in 1 .. Len(conns) : Backed(conns[i])
    /\ halted = "assert" => Fell(conns[at]) /\ conns[at].acct = Unknown

\* Connections stand in the order they were accepted in, each ID once: what a
\* master answers finds the client that asked.
Ascending ==
    /\ \A i, j \in 1 .. Len(conns) : i < j => conns[i].id < conns[j].id
    /\ \A i \in 1 .. Len(conns) : conns[i].id < nextID

\* Whatever a client has sent, it may do what it has earned: the three above, for
\* any number of packets, failed logins and connections.
LoginInv == TypeOK /\ LoginOrder /\ LoginBacked /\ Ascending

\* Inductive support of LoginInv and SweptClean: a raised flag of the key has
\* the key with it, the loop is inside the array, an assert fails in a handler,
\* and the connections the loop has swept are kept.
LoginIInv ==
    /\ LoginInv
    /\ \A i \in 1 .. Len(conns) : Has(conns[i], "PUBLICKEY_INITIALIZED") => conns[i].rsa
    /\ phase = "receive" => at \in 1 .. Len(conns) + 1
    /\ phase = "handle" => at \in 1 .. Len(conns)
    /\ halted = "assert" => phase = "handle"
    /\ phase = "sweep" => at \in 0 .. Len(conns)
    /\ phase = "sweep" => \A i \in 1 .. Len(conns) : at < i => ~conns[i].disc

\* A connection that is not flagged stays and is not mixed up with another one
\* by the sweep, which leaves no flagged one behind.
SweptStep ==
    /\ \A i \in 1 .. Len(conns) : ~conns[i].disc =>
          \E j \in 1 .. Len(conns') :
              /\ conns'[j].id = conns[i].id
              /\ phase = "sweep" => conns'[j] = conns[i]
    /\ phase = "sweep" => \A j \in 1 .. Len(conns') : \E i \in 1 .. Len(conns) : conns'[j] = conns[i]
    /\ phase = "sweep" /\ phase' # "sweep" => \A j \in 1 .. Len(conns') : ~conns'[j].disc

\* Taking out connections while going through the array takes out flagged ones
\* only, leaves every other one as it is, and is through with all of them when
\* it ends.  Nothing else takes a connection out.
SweptClean == [][SweptStep]_vars

\* A client that is told how long it has left is gone some time after,
\* unless it starts a timer again and again or the server stops: no timer is
\* lost by connections that move in the array or by a loop that takes long.
Left(id, S) == \E k \in 1 .. Len(conns) : conns[k].id = id /\ conns[k].left \in S
TimedOut ==
    \A id \in 1 .. MaxConns :
        []<>Left(id, {Delay})
        \/ (Left(id, -1 .. Delay) ~> ~Connected(id) \/ halted # "no")
=============================================================================
