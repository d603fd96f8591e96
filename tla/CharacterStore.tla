--------------------------- MODULE CharacterStore ---------------------------
(***************************************************************************)
(* What WorldSvr keeps of the master's database: the account a client was  *)
(* bound with, its list of characters and the character it plays, how they *)
(* are fetched, changed and written back over the one link to MasterSvr.   *)
(*                                                                         *)
(* Both servers handle one packet at a time.  An answer names a client     *)
(* connection; when it is gone, most handlers of WorldSvr disconnect the   *)
(* connection the answer came on, which is the link.  A flagged link is    *)
(* taken out after the batch of packets it was flagged in, and what is     *)
(* under way is lost.  Packets a client may not send have it disconnected, *)
(* which is Leave.                                                         *)
(***************************************************************************)
EXTENDS Integers, Sequences, FiniteSets, Functions

CONSTANTS
    Accounts,      \* accounts with a row in the master's database
    NoAccount,     \* AccountID -1: not verified
    Slots,         \* SlotIndex values, from 0
    Beyond,        \* SlotIndex values past the list that 1 << SlotIndex lets through
    Parts,         \* the parts of a character, a bit of the mask each
    Start,         \* the characters there are at first
    MaxConns,      \* bound: client connections WorldSvr accepts in all
    MaxVersion,    \* bound: changes of one part of one character
    MaxBreaks,     \* bound: times the link breaks by itself
    MaxFails,      \* bound: statements that fail
    MaxNow,        \* bound: hours that pass
    MaxUnderWay,   \* bound: packets under way to MasterSvr when one more is sent unasked
    MaxPending     \* bound: requests of a kind a client has under way at a time

Requests == {"getCharacters", "createCharacter", "getCharacter", "verifyPassword"}

\* The table allows one character per account and slot (SQL/MasterDB/0004).
ASSUME StoreAssumption ==
    /\ NoAccount \notin Accounts /\ IsFiniteSet(Slots) /\ Slots \cap Beyond = {}
    /\ MaxPending \in [Requests -> Nat]
    /\ MaxConns \in Nat /\ MaxVersion \in Nat /\ MaxNow \in Nat
    /\ MaxBreaks \in Nat /\ MaxFails \in Nat /\ MaxUnderWay \in Nat
    /\ Start \in Seq([acct : Accounts, slot : Slots, data : [Parts -> 0 .. MaxVersion]])
    /\ \A j, k \in DOMAIN Start :
          Start[j].acct = Start[k].acct /\ Start[j].slot = Start[k].slot => j = k

VARIABLES
    client,     \* WorldSvr's client contexts by connection ID
    link,       \* "up", "cut": flagged by WorldSvr, "down"; "overrun": a server has
                \* written past a list of characters and is not followed any further
    toMaster,   \* packets WorldSvr -> MasterSvr
    toWorld,    \* packets MasterSvr -> WorldSvr
    atAuth,     \* connections whose password AuthSvr is asked about
    account,    \* the rows of `accounts`
    rows,       \* the rows of `characters`, by id
    now,        \* the hour
    spent,      \* breaks and failures so far
    newest,     \* history: the last change of each part of each character
    unsaved,    \* history: the parts whose last change got lost, as the code allows
    shared,     \* history: characters two clients played at a time, or that were
                \* asked for once more while they were played or under way
    raced       \* history: accounts a client may have an outdated copy of

db      == <<account, rows>>
history == <<newest, unsaved, shared, raced>>
vars    == <<client, link, toMaster, toWorld, atAuth, db, now, spent, history>>

Chars == 1 .. Len(rows)
Conns == DOMAIN client

\* waiting: the requests under way.  History: missed are those that will not be
\* answered; untold, rows of the account that came to be without the client being
\* told, up to the next list it gets.
NewClient == [open |-> TRUE, acct |-> NoAccount, set |-> FALSE, until |-> 0,
              index |-> <<>>, deletable |-> FALSE, char |-> 0, has |-> <<>>,
              mask |-> {}, waiting |-> {}, missed |-> {}, untold |-> {}]

Init ==
    /\ client = <<>> /\ link = "up" /\ toMaster = <<>> /\ toWorld = <<>> /\ atAuth = <<>>
    /\ account = [a \in Accounts |-> [set |-> FALSE, until |-> 0]]
    /\ rows = Start /\ now = 0 /\ spent = [breaks |-> 0, fails |-> 0]
    /\ newest = [k \in 1 .. Len(Start) |-> Start[k].data]
    /\ unsaved = [k \in 1 .. Len(Start) |-> {}]
    /\ shared = {} /\ raced = {}

Open(c)   == client[c].open
Loaded(c) == client[c].index # <<>>     \* CLIENT_FLAGS_CHARACTER_INDEX_LOADED

Linked == link \in {"up", "cut"}
Serves == link \in {"up", "down"}       \* WorldSvr gets round to its clients

---------------------------------------------------------------------------
\* The link.

\* SocketSendAll: with the link away nothing is sent and nobody is told.
Send(m) == toMaster' = IF link = "down" THEN toMaster ELSE Append(toMaster, m)

\* The answer of MasterSvr, behind the packet it answers.
Answer(m) == toWorld' = Append(toWorld, m)

UpdateUnderWay(a) == \E m \in Range(toMaster) : m.cmd = "updateSubpassword" /\ m.acct = a

\* The answer that client c has a new character k.
Tells(m, c, k) == m.cmd = "createCharacter" /\ m.conn = c /\ m.char = k

\* What is under way on a link that breaks.
Break ==
    /\ link' = "down" /\ toMaster' = <<>> /\ toWorld' = <<>>
    /\ client' = [c \in Conns |-> [client[c] EXCEPT
          !.missed = client[c].waiting,
          !.untold = @ \cup {k \in Chars : \E m \in Range(toWorld) : Tells(m, c, k)}]]
    /\ unsaved' = [k \in Chars |-> unsaved[k] \cup
                      UNION {DOMAIN m.data : m \in {s \in Range(toMaster) :
                                s.cmd = "dbSync" /\ s.char = k}}]
    /\ raced' = raced \cup {a \in Accounts : UpdateUnderWay(a)}
    /\ UNCHANGED <<atAuth, db, now, newest, shared>>

BreakLink ==
    /\ Linked /\ spent.breaks < MaxBreaks
    /\ spent' = [spent EXCEPT !.breaks = @ + 1]
    /\ Break

\* SocketUpdate(MasterSocket) takes out the flagged connection.
Sweep == link = "cut" /\ Break /\ UNCHANGED spent

Reconnect ==
    /\ link = "down" /\ link' = "up"
    /\ UNCHANGED <<client, toMaster, toWorld, atAuth, db, now, spent, history>>

---------------------------------------------------------------------------
\* Clients come, are bound to an account, and leave.

OnConnect ==
    /\ Len(client) < MaxConns /\ link # "overrun"
    /\ client' = Append(client, NewClient)
    /\ UNCHANGED <<link, toMaster, toWorld, atAuth, db, now, spent, history>>

\* The hand-off (module Handoff): MasterSvr reads the account, WorldSvr copies
\* it.  The copy can be outdated when an update is under way towards MasterSvr
\* or another client of the account may still send one.
OnAuthVerifyLinks(c, a) ==
    /\ Linked /\ Open(c) /\ client[c].acct = NoAccount
    /\ \A m \in Range(toWorld) : m.cmd = "verifyLinks" => m.conn # c
    /\ Answer([cmd |-> "verifyLinks", conn |-> c, acct |-> a, row |-> account[a]])
    /\ raced' = IF \/ UpdateUnderWay(a)
                   \/ \E d \in Conns : Open(d) /\ client[d].acct = a
                   \/ \E m \in Range(toWorld) : m.cmd = "verifyLinks" /\ m.acct = a
                THEN raced \cup {a} ELSE raced
    /\ UNCHANGED <<client, link, toMaster, atAuth, db, now, spent, newest, unsaved, shared>>

OnWorldVerifyLinks(m) ==
    /\ IF Open(m.conn) /\ client[m.conn].acct = NoAccount
       THEN client' = [client EXCEPT ![m.conn].acct = m.acct, ![m.conn].set = m.row.set,
                                     ![m.conn].until = m.row.until]
       ELSE UNCHANGED client
    /\ UNCHANGED <<link, history>>

\* The record of the character a client plays is let go of, with its marks.
LetGo(c) ==
    unsaved' = IF client[c].char = 0 THEN unsaved
               ELSE [unsaved EXCEPT ![client[c].char] = @ \cup client[c].mask]

\* ClientSocketOnDisconnect: the character is not saved.
Leave(c) ==
    /\ Open(c) /\ Serves
    /\ client' = [client EXCEPT ![c] = [NewClient EXCEPT !.open = FALSE]]
    /\ LetGo(c)
    /\ UNCHANGED <<link, toMaster, toWorld, atAuth, db, now, spent, newest, shared, raced>>

TimePasses ==
    /\ now < MaxNow /\ now' = now + 1 /\ link # "overrun"
    /\ UNCHANGED <<client, link, toMaster, toWorld, atAuth, db, spent, history>>

---------------------------------------------------------------------------
\* Requests of a client that MasterSvr has to answer.

Pending(c, cmd) ==
    Cardinality({i \in DOMAIN toMaster : toMaster[i].cmd = cmd /\ toMaster[i].conn = c})
    + Cardinality({i \in DOMAIN toWorld : toWorld[i].cmd = cmd /\ toWorld[i].conn = c})
    + Cardinality({i \in DOMAIN atAuth : cmd = "verifyPassword" /\ atAuth[i] = c})

\* A client may ask again before it is answered.
Request(c, m) ==
    /\ Open(c) /\ Serves
    /\ Pending(c, m.cmd) < MaxPending[m.cmd]
    /\ Send(m)
    /\ client' = [client EXCEPT
          ![c].waiting = @ \cup {m.cmd},
          ![c].missed  = IF link = "down" THEN @ \cup {m.cmd} ELSE @ \ {m.cmd}]
    /\ UNCHANGED <<link, toWorld, atAuth, db, now, spent, newest, unsaved, raced>>

GetCharacters(c) ==
    /\ client[c].acct # NoAccount
    /\ Request(c, [cmd |-> "getCharacters", conn |-> c, acct |-> client[c].acct])
    /\ UNCHANGED shared

\* SlotIndex is not compared with the length of the list: for numbers of 32 and
\* more, whose bit of CharacterSlotFlags is undefined, what lies behind the list is
\* looked at for a character.
CreateCharacter(c, s) ==
    /\ Loaded(c) /\ (s \in Slots => client[c].index[s] = 0)
    /\ Request(c, [cmd |-> "createCharacter", conn |-> c, acct |-> client[c].acct, slot |-> s])
    /\ UNCHANGED shared

\* C2S_INITIALIZE; another client may be playing the character.
Initialize(c, k) ==
    /\ Loaded(c) /\ client[c].char = 0
    /\ Request(c, [cmd |-> "getCharacter", conn |-> c, acct |-> client[c].acct, char |-> k])
    /\ shared' = IF \E d \in Conns : client[d].char = k THEN shared \cup {k} ELSE shared

VerifyCredentials(c) ==
    /\ Request(c, [cmd |-> "verifyPassword", conn |-> c])
    /\ UNCHANGED shared

---------------------------------------------------------------------------
\* The sub-password, decided from the copy and written back unasked.

Local(c) == Loaded(c) /\ Open(c) /\ Serves /\ Len(toMaster) < MaxUnderWay

Unchanged == UNCHANGED <<link, toWorld, atAuth, db, now, spent, newest, unsaved, shared>>

\* Mutant: deleting is only noted in the copy.
SaveSubpasswordWhenSet(c, set) ==
    /\ IF set THEN Send([cmd |-> "updateSubpassword", acct |-> client[c].acct, set |-> set])
       ELSE UNCHANGED toMaster
    /\ raced' = IF link = "down" THEN raced \cup {client[c].acct} ELSE raced

SaveSubpassword(c, set) ==
    /\ Send([cmd |-> "updateSubpassword", acct |-> client[c].acct, set |-> set])
    /\ raced' = IF link = "down" THEN raced \cup {client[c].acct} ELSE raced

CreateSubpassword(c) ==
    /\ Local(c) /\ ~client[c].set
    /\ client' = [client EXCEPT ![c].set = TRUE]
    /\ SaveSubpassword(c, TRUE)
    /\ Unchanged

\* The right sub-password; hours: ExpirationInHours.
VerifySubpassword(c, hours) ==
    /\ Local(c) /\ client[c].set
    /\ client' = [client EXCEPT ![c].until = now + hours]
    /\ Send([cmd |-> "updateSession", acct |-> client[c].acct, until |-> now + hours])
    /\ UNCHANGED raced /\ Unchanged

VerifyDeleteSubpassword(c) ==
    /\ Local(c) /\ client[c].set
    /\ client' = [client EXCEPT ![c].deletable = TRUE,
                                ![c].until = IF @ > now THEN @ ELSE now + 1]
    /\ UNCHANGED <<toMaster, raced>> /\ Unchanged

DeleteSubpassword(c) ==
    /\ Local(c) /\ client[c].set /\ client[c].deletable /\ client[c].until > now
    /\ client' = [client EXCEPT ![c].set = FALSE]
    /\ SaveSubpassword(c, FALSE)
    /\ Unchanged

---------------------------------------------------------------------------
\* Playing and saving.

\* Any handler that changes part p and marks it.
Play(c, p) ==
    LET k == client[c].char IN
    /\ Open(c) /\ Serves /\ k # 0 /\ newest[k][p] < MaxVersion
    /\ newest' = [newest EXCEPT ![k][p] = @ + 1]
    /\ client' = [client EXCEPT ![c].has[p] = newest[k][p] + 1, ![c].mask = @ \cup {p}]
    /\ UNCHANGED <<link, toMaster, toWorld, atAuth, db, now, spent, unsaved, shared, raced>>

\* Mutant: a request carries one part, and all marks are cleared.
MarkedFirst(c) ==
    [p \in {CHOOSE q \in client[c].mask : TRUE} |-> client[c].has[p]]

\* The parts a REQDBSYNC carries, one for each bit of the mask.
Marked(c) == [p \in client[c].mask |-> client[c].has[p]]

\* Mutant: the mask is compared with ==, not with &.
SyncDBWhole(c) ==
    /\ Open(c) /\ Serves /\ client[c].mask = Parts
    /\ Send([cmd |-> "dbSync", char |-> client[c].char, data |-> Marked(c)])
    /\ client' = [client EXCEPT ![c].mask = {}]
    /\ unsaved' = IF link = "down"
                  THEN [unsaved EXCEPT ![client[c].char] = @ \cup client[c].mask] ELSE unsaved
    /\ UNCHANGED <<link, toWorld, atAuth, db, now, spent, newest, shared, raced>>

\* ServerSyncDB of one character: the marks are cleared once the request is
\* handed over.  When the time for that has come is left open.
SyncDB(c) ==
    /\ Open(c) /\ Serves /\ client[c].mask # {}
    /\ Send([cmd |-> "dbSync", char |-> client[c].char, data |-> Marked(c)])
    /\ client' = [client EXCEPT ![c].mask = {}]
    /\ unsaved' = IF link = "down"
                  THEN [unsaved EXCEPT ![client[c].char] = @ \cup client[c].mask] ELSE unsaved
    /\ UNCHANGED <<link, toWorld, atAuth, db, now, spent, newest, shared, raced>>

---------------------------------------------------------------------------
\* MasterSvr.  fails: the statements of a handler that fail.

Fails(n) == spent.fails + n <= MaxFails /\ spent' = [spent EXCEPT !.fails = @ + n]

Missed(m) == client' = [client EXCEPT ![m.conn].missed =
                            IF Open(m.conn) THEN @ \cup {m.cmd} ELSE @]

\* Mutant: the characters are listed one behind the other.
CharactersInRow(acct) ==
    LET mine == {k \in Chars : rows[k].acct = acct}
    IN  [s \in Slots |-> IF \E k \in mine : Cardinality({j \in mine : j < k}) = s
                         THEN CHOOSE k \in mine : Cardinality({j \in mine : j < k}) = s ELSE 0]

\* The characters of an account by slot, 0 where there is none.
Characters(acct) ==
    [s \in Slots |-> IF \E k \in Chars : rows[k].acct = acct /\ rows[k].slot = s
                     THEN CHOOSE k \in Chars : rows[k].acct = acct /\ rows[k].slot = s ELSE 0]

Overflows(acct) == \E k \in Chars : rows[k].acct = acct /\ rows[k].slot \notin Slots

\* The row of each character is written to its slot of the answer, whichever it is.
OnWorldGetCharacters(m) ==
    /\ \/ /\ Fails(0)
          /\ Answer([cmd |-> m.cmd, conn |-> m.conn, index |-> Characters(m.acct)])
          /\ link' = IF Overflows(m.acct) THEN "overrun" ELSE link
          /\ UNCHANGED client
       \/ Fails(1) /\ Missed(m) /\ UNCHANGED <<link, toWorld>>      \* no answer
    /\ UNCHANGED <<atAuth, db, history>>

Insert(acct, slot) ==
    /\ rows' = Append(rows, [acct |-> acct, slot |-> slot, data |-> [p \in Parts |-> 0]])
    /\ newest' = Append(newest, [p \in Parts |-> 0])
    /\ unsaved' = Append(unsaved, {})

\* The clients of an account, those in told apart, do not hear of its row k.
Untold(acct, k, told) ==
    client' = [c \in Conns |-> IF client[c].acct = acct /\ c \notin told
                               THEN [client[c] EXCEPT !.untold = @ \cup {k}] ELSE client[c]]

\* The table allows one character per account and slot (SQL/MasterDB/0004).
\* A name in use is refused like a statement that fails; other accounts may
\* use any name, so a refusal is always possible.  The row is read again after it
\* was inserted: when that fails the client is told of an error, and the row stays.
OnWorldCreateCharacter(m) ==
    LET k == Len(rows) + 1
        free == ~\E j \in Chars : rows[j].acct = m.acct /\ rows[j].slot = m.slot
        Status(char) == Answer([cmd |-> m.cmd, conn |-> m.conn, slot |-> m.slot, char |-> char])
    IN
    /\ \/ Fails(0) /\ free /\ Insert(m.acct, m.slot) /\ Status(k) /\ Untold(m.acct, k, {m.conn})
       \/ Fails(1) /\ free /\ Insert(m.acct, m.slot) /\ Status(0) /\ Untold(m.acct, k, {})
       \/ Fails(0) /\ Status(0) /\ UNCHANGED <<client, rows, newest, unsaved>>
    /\ UNCHANGED <<atAuth, account, shared, raced>>

\* Mutant: the error path ends without sending the response.
OnWorldGetCharacterSilent(m) ==
    /\ IF rows[m.char].acct = m.acct
       THEN Fails(0) /\ Answer([cmd |-> m.cmd, conn |-> m.conn,
                                char |-> m.char, data |-> rows[m.char].data])
       ELSE Fails(0) /\ UNCHANGED toWorld
    /\ UNCHANGED <<client, atAuth, db, history>>

OnWorldGetCharacter(m) ==
    /\ \/ /\ Fails(0) /\ rows[m.char].acct = m.acct
          /\ Answer([cmd |-> m.cmd, conn |-> m.conn, char |-> m.char, data |-> rows[m.char].data])
       \/ /\ IF rows[m.char].acct = m.acct THEN Fails(1) ELSE Fails(0)
          /\ Answer([cmd |-> m.cmd, conn |-> m.conn, char |-> 0])
    /\ UNCHANGED <<client, atAuth, db, history>>

\* Each part is a statement of its own; the response with the parts that
\* failed is filled in and never sent.
OnWorldDBSync(m) ==
    \E failed \in SUBSET DOMAIN m.data :
        LET written == DOMAIN m.data \ failed IN
        /\ Fails(Cardinality(failed))
        /\ rows' = [rows EXCEPT ![m.char].data =
                       [p \in Parts |-> IF p \in written THEN m.data[p] ELSE @[p]]]
        /\ unsaved' = [unsaved EXCEPT ![m.char] =
                          (@ \ {p \in written : m.data[p] = newest[m.char][p]}) \cup failed]
        /\ UNCHANGED <<client, toWorld, atAuth, account, newest, shared, raced>>

OnWorldUpdateAccountSubpasswordData(m) ==
    /\ \/ Fails(0) /\ account' = [account EXCEPT ![m.acct].set = m.set] /\ UNCHANGED raced
       \/ Fails(1) /\ UNCHANGED account /\ raced' = raced \cup {m.acct}
    /\ UNCHANGED <<client, toWorld, atAuth, rows, newest, unsaved, shared>>

OnWorldUpdateAccountSessionData(m) ==
    /\ \/ Fails(0) /\ account' = [account EXCEPT ![m.acct].until = m.until]
       \/ Fails(1) /\ UNCHANGED account
    /\ UNCHANGED <<client, toWorld, atAuth, rows, history>>

\* Forwarded to every AuthSvr; with none connected there is no answer.
OnWorldVerifyPassword(m) ==
    /\ Fails(0)
    /\ \/ atAuth' = Append(atAuth, m.conn) /\ UNCHANGED client
       \/ Missed(m) /\ UNCHANGED atAuth
    /\ UNCHANGED <<toWorld, db, history>>

MasterHandles ==
    /\ toMaster # <<>> /\ Linked
    /\ toMaster' = Tail(toMaster)
    /\ LET m == Head(toMaster) IN
       \/ m.cmd = "getCharacters"     /\ OnWorldGetCharacters(m)
       \/ /\ \/ m.cmd = "createCharacter"   /\ OnWorldCreateCharacter(m)
             \/ m.cmd = "getCharacter"      /\ OnWorldGetCharacter(m)
             \/ m.cmd = "verifyPassword"    /\ OnWorldVerifyPassword(m)
             \/ m.cmd = "dbSync"            /\ OnWorldDBSync(m)
             \/ m.cmd = "updateSubpassword" /\ OnWorldUpdateAccountSubpasswordData(m)
             \/ m.cmd = "updateSession"     /\ OnWorldUpdateAccountSessionData(m)
          /\ UNCHANGED link
    /\ UNCHANGED now

\* OnMasterVerifyPassword of AuthSvr and OnAuthVerifyPassword of MasterSvr; the
\* verdict goes to the world, if it is there.
OnMasterVerifyPassword ==
    /\ atAuth # <<>> /\ atAuth' = Tail(atAuth) /\ link # "overrun"
    /\ IF link = "down"
       THEN Missed([conn |-> Head(atAuth), cmd |-> "verifyPassword"]) /\ UNCHANGED toWorld
       ELSE Answer([cmd |-> "verifyPassword", conn |-> Head(atAuth)]) /\ UNCHANGED client
    /\ UNCHANGED <<link, toMaster, db, now, spent, history>>

---------------------------------------------------------------------------
\* WorldSvr and the answers.

\* The client context of an open connection once a request is answered.
Answered(m) == [client[m.conn] EXCEPT !.waiting = @ \ {m.cmd}, !.missed = @ \ {m.cmd}]

\* SocketDisconnect(Socket, Connection) with the socket of the link.
Disconnect == link' = "cut" /\ UNCHANGED client

AckGetCharacters(m) ==
    /\ IF Open(m.conn)
       THEN /\ client' = [client EXCEPT ![m.conn] =
                             [Answered(m) EXCEPT !.index = m.index, !.untold = @ \ Range(m.index)]]
            /\ UNCHANGED link
       ELSE Disconnect
    /\ UNCHANGED history

\* The slot is not compared with the length of the list here either.
AckCreateCharacter(m) ==
    /\ IF ~Open(m.conn) THEN Disconnect
       ELSE IF m.char # 0 /\ m.slot \notin Slots THEN link' = "overrun" /\ UNCHANGED client
       ELSE /\ client' = [client EXCEPT ![m.conn] = IF m.char = 0 THEN Answered(m)
                             ELSE [Answered(m) EXCEPT !.index[m.slot] = m.char]]
            /\ UNCHANGED link
    /\ UNCHANGED history

\* A character that cannot be had disconnects the client.  One that is there is
\* played from a record of its own, whether or not the client plays another one by
\* now (only the request asks that), another client plays it or it was asked for
\* once more.
AckGetCharacter(m) ==
    LET c == m.conn
        busy == \/ \E d \in Conns : client[d].char = m.char
                \/ \E n \in Range(toMaster) \cup Range(Tail(toWorld)) :
                      n.cmd = "getCharacter" /\ n.char = m.char
    IN
    /\ IF ~Open(c) THEN UNCHANGED <<client, unsaved, shared>>
       ELSE /\ LetGo(c)
            /\ IF m.char = 0
               THEN /\ client' = [client EXCEPT ![c] = [NewClient EXCEPT !.open = FALSE]]
                    /\ UNCHANGED shared
               ELSE /\ client' = [client EXCEPT ![c] =
                             [Answered(m) EXCEPT !.char = m.char, !.has = m.data, !.mask = {}]]
                    /\ shared' = IF busy THEN shared \cup {m.char} ELSE shared
    /\ UNCHANGED <<link, newest, raced>>

AckVerifyPassword(m) ==
    /\ IF Open(m.conn) THEN client' = [client EXCEPT ![m.conn] = Answered(m)] /\ UNCHANGED link
       ELSE Disconnect
    /\ UNCHANGED history

WorldHandles ==
    /\ toWorld # <<>> /\ Linked
    /\ toWorld' = Tail(toWorld)
    /\ LET m == Head(toWorld) IN
       \/ m.cmd = "verifyLinks"     /\ OnWorldVerifyLinks(m)
       \/ m.cmd = "getCharacters"   /\ AckGetCharacters(m)
       \/ m.cmd = "createCharacter" /\ AckCreateCharacter(m)
       \/ m.cmd = "getCharacter"    /\ AckGetCharacter(m)
       \/ m.cmd = "verifyPassword"  /\ AckVerifyPassword(m)
    /\ UNCHANGED <<toMaster, atAuth, db, now, spent>>

---------------------------------------------------------------------------
Links == BreakLink \/ Sweep \/ Reconnect

Index ==
    \E c \in Conns :
        \/ GetCharacters(c) \/ VerifyCredentials(c)
        \/ \E s \in Slots \cup Beyond : CreateCharacter(c, s)
        \/ \E k \in Chars : Initialize(c, k)

Subpassword ==
    \E c \in Conns :
        \/ CreateSubpassword(c) \/ VerifyDeleteSubpassword(c) \/ DeleteSubpassword(c)
        \/ \E hours \in {0, 1} : VerifySubpassword(c, hours)

Playing == \E c \in Conns : SyncDB(c) \/ \E p \in Parts : Play(c, p)

Comings ==
    \/ OnConnect \/ TimePasses
    \/ \E c \in Conns : Leave(c) \/ \E a \in Accounts : OnAuthVerifyLinks(c, a)

Handling == MasterHandles \/ WorldHandles \/ OnMasterVerifyPassword

Next == Links \/ Comings \/ Index \/ Subpassword \/ Playing \/ Handling

\* The servers poll their sockets for ever, and ServerSyncDB runs in each
\* iteration of WorldSvr; clients and links do as they like.
Fairness ==
    /\ WF_vars(MasterHandles) /\ WF_vars(WorldHandles) /\ WF_vars(OnMasterVerifyPassword)
    /\ WF_vars(Sweep)
    /\ \A c \in 1 .. MaxConns : WF_vars(c \in Conns /\ SyncDB(c))

Spec     == Init /\ [][Next]_vars
FairSpec == Spec /\ Fairness

---------------------------------------------------------------------------
(* Properties.                                                             *)

ConnIDs == 1 .. MaxConns

\* The states of the parts of a character, and of some of them.
Versions == [Parts -> 0 .. MaxVersion]
Pieces == UNION {[D -> 0 .. MaxVersion] : D \in SUBSET Parts}

Clients ==
    [open : BOOLEAN, acct : Accounts \cup {NoAccount}, set : BOOLEAN,
     until : 0 .. MaxNow + 1, index : {<<>>} \cup [Slots -> Nat],
     deletable : BOOLEAN, char : Nat, has : {<<>>} \cup Versions,
     mask : SUBSET Parts, waiting : SUBSET Requests, missed : SUBSET Requests,
     untold : SUBSET Nat]

ToMaster ==
    [cmd : {"getCharacters"}, conn : ConnIDs, acct : Accounts]
    \cup [cmd : {"createCharacter"}, conn : ConnIDs, acct : Accounts,
          slot : Slots \cup Beyond]
    \cup [cmd : {"getCharacter"}, conn : ConnIDs, acct : Accounts, char : Nat]
    \cup [cmd : {"verifyPassword"}, conn : ConnIDs]
    \cup [cmd : {"dbSync"}, char : Nat, data : Pieces]
    \cup [cmd : {"updateSubpassword"}, acct : Accounts, set : BOOLEAN]
    \cup [cmd : {"updateSession"}, acct : Accounts, until : 0 .. MaxNow + 1]

CharacterRows == [acct : Accounts, slot : Slots \cup Beyond, data : Versions]

LinkStates == {"up", "cut", "down", "overrun"}

AccountRows == [set : BOOLEAN, until : 0 .. MaxNow + 1]

ToWorld ==
    [cmd : {"verifyLinks"}, conn : ConnIDs, acct : Accounts, row : AccountRows]
    \cup [cmd : {"getCharacters"}, conn : ConnIDs, index : [Slots -> Nat]]
    \cup [cmd : {"createCharacter"}, conn : ConnIDs, slot : Slots \cup Beyond, char : Nat]
    \cup [cmd : {"getCharacter"}, conn : ConnIDs, char : Nat, data : Versions]
    \cup [cmd : {"getCharacter"}, conn : ConnIDs, char : {0}]
    \cup [cmd : {"verifyPassword"}, conn : ConnIDs]

\* Types.
TypeOK ==
    /\ client \in Seq(Clients) /\ Len(client) <= MaxConns
    /\ link \in LinkStates
    /\ toMaster \in Seq(ToMaster) /\ toWorld \in Seq(ToWorld) /\ atAuth \in Seq(ConnIDs)
    /\ account \in [Accounts -> AccountRows]
    /\ rows \in Seq(CharacterRows)
    /\ now \in 0 .. MaxNow
    /\ newest \in Seq(Versions) /\ Len(newest) = Len(rows)
    /\ unsaved \in Seq(SUBSET Parts) /\ Len(unsaved) = Len(rows)
    /\ shared \subseteq Chars /\ raced \subseteq Accounts

\* No account has more characters in its slots than there are slots.
Placed(a) == {k \in Chars : rows[k].acct = a /\ rows[k].slot \in Slots}

RowsFit == \A a \in Accounts : Cardinality(Placed(a)) <= Cardinality(Slots)

\* A list of characters of an account.
Backed(index, a) ==
    \A s \in Slots : index[s] # 0 =>
        index[s] \in Chars /\ rows[index[s]].acct = a /\ rows[index[s]].slot = s

\* What a client has in its list of characters are rows of its account in the
\* slots they stand in, however requests, answers, creations by other clients
\* of the account and breaks of the link interleave: CREATE_CHARACTER and
\* INITIALIZE are decided from the list.
IndexBacked == \A c \in Conns : Loaded(c) => Backed(client[c].index, client[c].acct)

\* Whoever creates a character learns of it: a character of the account is in
\* its slot of a client's list, or the answer is on its way.  The exceptions are
\* characters that came to be without this client being told: another client
\* created them, the answer was lost with the link, or MasterSvr could not read
\* the row it had inserted and answered with an error.  The next list has them.
IndexComplete ==
    \A c \in Conns : Loaded(c) => \A k \in Placed(client[c].acct) \ client[c].untold :
        \/ client[c].index[rows[k].slot] = k
        \/ \E m \in Range(toWorld) : Tells(m, c, k)

\* A list of characters shows rows of the account and, but for the exceptions of
\* IndexComplete, all of them; no account has more of them than slots.
StoreInv == TypeOK /\ RowsFit /\ IndexBacked /\ IndexComplete

\* The last change of a part of character k is in the database, on its way, or
\* still marked at the client that plays k, and what that client plays is the
\* last state.
ChangeKept(k) ==
    \A p \in Parts \ unsaved[k] :
        /\ \/ rows[k].data[p] = newest[k][p]
           \/ \E m \in Range(toMaster) :
                 /\ m.cmd = "dbSync" /\ m.char = k
                 /\ p \in DOMAIN m.data /\ m.data[p] = newest[k][p]
           \/ \E c \in Conns : client[c].char = k /\ p \in client[c].mask
        /\ \A c \in Conns : client[c].char = k => client[c].has[p] = newest[k][p]

\* No change of a character gets lost, but for the exceptions the code leaves:
\* the client left with marks set, an INITIALIZE answered late replaced the
\* record it played, the link was away or broke, the statement failed (unsaved),
\* or the character had several records at a time (shared): two clients played
\* it, or one asked for it again.
\* This is what lets a player come back right behind a save that is still under
\* way.
LastChangeKept == \A k \in Chars \ shared : ChangeKept(k)

\* With no update under way, what the clients of an account think of its
\* sub-password is what the database has.
CopyAgrees(a) ==
    ~UpdateUnderWay(a) => \A c \in Conns : client[c].acct = a => client[c].set = account[a].set

\* With no update under way the sub-password of an account is set in the
\* database just when every client of the account thinks so.  The exceptions
\* are accounts that were handed to a client while another one had them or an
\* update was under way, and updates that got lost.
SubpasswordAgrees == \A a \in Accounts \ raced : CopyAgrees(a)

---------------------------------------------------------------------------
\* Inductive support of StoreInv: one row for each slot, and what packets and
\* contexts refer to is there and belongs to the account.
OneRow ==
    \A j, k \in Chars : rows[j].acct = rows[k].acct /\ rows[j].slot = rows[k].slot => j = k

Proper(c) ==
    /\ ~Open(c) => client[c].acct = NoAccount
    /\ client[c].acct = NoAccount => client[c].index = <<>> /\ client[c].char = 0
    /\ client[c].char = 0 => client[c].mask = {}
    /\ client[c].char # 0 => /\ client[c].char \in Chars
                             /\ client[c].has \in Versions

OwnRequest(m) ==
    /\ m.cmd \in Requests => m.conn \in Conns
    /\ m.cmd \in {"getCharacter", "dbSync"} => m.char \in Chars
    /\ m.cmd \in Requests \ {"verifyPassword"} /\ Open(m.conn) => m.acct = client[m.conn].acct
    /\ m.cmd = "createCharacter" /\ Open(m.conn) => Loaded(m.conn)

OwnAnswer(m) ==
    /\ m.conn \in Conns
    /\ m.cmd \in {"getCharacters", "getCharacter"} /\ Open(m.conn) =>
          client[m.conn].acct # NoAccount
    /\ m.cmd = "getCharacters" /\ Open(m.conn) => Backed(m.index, client[m.conn].acct)
    /\ m.cmd = "getCharacter" => m.char \in Chars \cup {0}
    /\ m.cmd = "createCharacter" /\ m.char # 0 /\ Open(m.conn) =>
          /\ Loaded(m.conn) /\ m.char \in Chars
          /\ rows[m.char].acct = client[m.conn].acct /\ rows[m.char].slot = m.slot

Owned ==
    /\ \A m \in Range(toMaster) : OwnRequest(m)
    /\ \A m \in Range(toWorld) : OwnAnswer(m)
    /\ \A c \in Range(atAuth) : c \in Conns

StoreIInv == TypeOK /\ IndexBacked /\ OneRow /\ (\A c \in Conns : Proper(c)) /\ Owned

\* Inductive support of IndexComplete.

\* A list as it is on its way at i, or at hand with i = 0, misses no row but
\* those the client is not told of or will be told of behind the list.
Complete(index, c, i) ==
    \A k \in Placed(client[c].acct) \ client[c].untold :
        \/ index[rows[k].slot] = k
        \/ \E j \in DOMAIN toWorld : j > i /\ Tells(toWorld[j], c, k)

Lists(m, c) == m.cmd = "getCharacters" /\ m.conn = c

\* What is in a list is in those sent later.
Listed(c) ==
    /\ Loaded(c) => Complete(client[c].index, c, 0)
    /\ \A i \in DOMAIN toWorld : Lists(toWorld[i], c) =>
          /\ Complete(toWorld[i].index, c, i)
          /\ \A j \in DOMAIN toWorld : i < j /\ Lists(toWorld[j], c) =>
                Range(toWorld[i].index) \ {0} \subseteq Range(toWorld[j].index)

ListInv == \A c \in Conns : Open(c) => Listed(c)

\* Inductive support of LastChangeKept.
Fetches(m, k) == m.cmd = "getCharacter" /\ m.char = k
Saves(m, k)   == m.cmd = "dbSync" /\ m.char = k

\* One client plays a character that is not shared, or some ask for it.
OnePlayer(k) ==
    /\ \A c, d \in Conns : client[c].char = k /\ client[d].char = k => c = d
    /\ (\E c \in Conns : client[c].char = k) =>
          \A m \in Range(toMaster) \cup Range(toWorld) : ~Fetches(m, k)

\* What was sent to be saved is read by those who ask for it.
SavedFirst(k) ==
    /\ \A i, j \in DOMAIN toMaster : i < j /\ Fetches(toMaster[i], k) => ~Saves(toMaster[j], k)
    /\ (\E m \in Range(toWorld) : Fetches(m, k)) => \A m \in Range(toMaster) : ~Saves(m, k)

\* The database is never ahead.
Behind(k) == \A p \in Parts : rows[k].data[p] <= newest[k][p]

\* The states of a part under way ascend, from that in the database to the
\* newest, which is then the player's.
Ascends(k) ==
    \A i \in DOMAIN toMaster : Saves(toMaster[i], k) => \A p \in DOMAIN toMaster[i].data :
        /\ rows[k].data[p] < toMaster[i].data[p] /\ toMaster[i].data[p] <= newest[k][p]
        /\ \A j \in DOMAIN toMaster :
              i < j /\ Saves(toMaster[j], k) /\ p \in DOMAIN toMaster[j].data =>
                  toMaster[i].data[p] < toMaster[j].data[p]
        /\ toMaster[i].data[p] = newest[k][p] =>
              \A c \in Conns : client[c].char = k => client[c].has[p] = newest[k][p]

\* A marked part is newer than all that was sent.
MarkedNewest(k) ==
    \A c \in Conns : client[c].char = k => \A p \in client[c].mask :
        /\ client[c].has[p] = newest[k][p] /\ rows[k].data[p] < newest[k][p]
        /\ \A i \in DOMAIN toMaster :
              Saves(toMaster[i], k) /\ p \in DOMAIN toMaster[i].data =>
                  toMaster[i].data[p] < newest[k][p]

FetchedNewest(k) ==
    \A m \in Range(toWorld) : Fetches(m, k) =>
        \A p \in Parts \ unsaved[k] : m.data[p] = newest[k][p]

Kept(k) ==
    /\ ChangeKept(k) /\ OnePlayer(k) /\ SavedFirst(k)
    /\ Behind(k) /\ Ascends(k) /\ MarkedNewest(k) /\ FetchedNewest(k)

KeptInv == \A k \in Chars \ shared : Kept(k)

\* Inductive support of SubpasswordAgrees.
Updates(m, a) == m.cmd = "updateSubpassword" /\ m.acct = a
Hands(m, a)   == m.cmd = "verifyLinks" /\ m.acct = a

\* An account is with one client, or on its way to one and as in the database.
OneHolder(a) ==
    /\ \A c, d \in Conns : client[c].acct = a /\ client[d].acct = a => c = d
    /\ \A i \in DOMAIN toWorld : Hands(toWorld[i], a) =>
          /\ \A c \in Conns : client[c].acct # a
          /\ ~UpdateUnderWay(a) /\ toWorld[i].row.set = account[a].set
          /\ \A j \in DOMAIN toWorld : Hands(toWorld[j], a) => i = j

\* The last update under way is what the client has.
LastUpdate(a) ==
    \A c \in Conns : client[c].acct = a => \A i \in DOMAIN toMaster :
        /\ Updates(toMaster[i], a)
        /\ \A j \in DOMAIN toMaster : Updates(toMaster[j], a) => j <= i
        => toMaster[i].set = client[c].set

SubpasswordInv == \A a \in Accounts \ raced : CopyAgrees(a) /\ OneHolder(a) /\ LastUpdate(a)

---------------------------------------------------------------------------
\* A request that reaches MasterSvr is answered, unless the client leaves: only
\* a break of the link, a missing AuthSvr and a failed OnWorldGetCharacters
\* leave a client waiting.
RequestsAnswered ==
    \A c \in 1 .. MaxConns : \A r \in Requests :
        (c \in Conns /\ r \in client[c].waiting)
            ~> \/ c \in Conns => r \notin client[c].waiting \/ r \in client[c].missed
               \/ link = "overrun"

\* A change does not stay unsaved: ServerSyncDB gets round to every client.
\* (Of the characters there are at first.)
ChangesSaved ==
    \A k \in DOMAIN Start, p \in Parts :
        rows[k].data[p] # newest[k][p]
            ~> \/ rows[k].data[p] = newest[k][p] \/ p \in unsaved[k] \/ k \in shared
               \/ link = "overrun"
=============================================================================
