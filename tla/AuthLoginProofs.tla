-------------------------- MODULE AuthLoginProofs --------------------------
(***************************************************************************)
(* Proofs about AuthLogin.  What a handler does to the client it is given  *)
(* is proved first, for one client and one packet; the steps of the loop   *)
(* then carry it over to the array of connections.                         *)
(***************************************************************************)
EXTENDS AuthLogin, TLAPS

---------------------------------------------------------------------------
\* One client.

\* The order of the chain, flag by flag.
InOrder(c) ==
    /\ Has(c, "VERSION_CHECKED") => Has(c, "CONNECTED")
    /\ Has(c, "USERNAME_CHECKED") => Has(c, "VERSION_CHECKED")
    /\ Has(c, "PUBLICKEY_INITIALIZED") => Has(c, "USERNAME_CHECKED")
    /\ Has(c, "AUTHORIZED") => Has(c, "PUBLICKEY_INITIALIZED")
    /\ Has(c, "AUTHENTICATED") => Has(c, "AUTHORIZED")
    /\ Has(c, "VERIFIED") => Has(c, "AUTHENTICATED")

LEMMA ChainInOrder ==
    ASSUME NEW c
    PROVE  InOrder(c) <=> \A k \in 2 .. Len(Chain) : Has(c, Chain[k]) => Has(c, Chain[k - 1])
  <1>1. Len(Chain) = 7
    BY DEF Chain
  <1>2. 2 .. 7 = {2, 3, 4, 5, 6, 7}
    OBVIOUS
  <1>3. /\ Chain[1] = "CONNECTED" /\ Chain[2] = "VERSION_CHECKED"
        /\ Chain[3] = "USERNAME_CHECKED" /\ Chain[4] = "PUBLICKEY_INITIALIZED"
        /\ Chain[5] = "AUTHORIZED" /\ Chain[6] = "AUTHENTICATED" /\ Chain[7] = "VERIFIED"
    BY DEF Chain
  <1>4. ASSUME InOrder(c), NEW k \in {2, 3, 4, 5, 6, 7}, Has(c, Chain[k]) PROVE Has(c, Chain[k - 1])
    <2>1. CASE k = 2
      BY <1>3, <1>4, <2>1 DEF InOrder
    <2>2. CASE k = 3
      BY <1>3, <1>4, <2>2 DEF InOrder
    <2>3. CASE k = 4
      BY <1>3, <1>4, <2>3 DEF InOrder
    <2>4. CASE k = 5
      BY <1>3, <1>4, <2>4 DEF InOrder
    <2>5. CASE k = 6
      BY <1>3, <1>4, <2>5 DEF InOrder
    <2>6. CASE k = 7
      BY <1>3, <1>4, <2>6 DEF InOrder
    <2> QED BY <1>4, <2>1, <2>2, <2>3, <2>4, <2>5, <2>6
  <1>5. ASSUME \A k \in 2 .. 7 : Has(c, Chain[k]) => Has(c, Chain[k - 1]) PROVE InOrder(c)
    <2>1. /\ Has(c, Chain[2]) => Has(c, Chain[1])
          /\ Has(c, Chain[3]) => Has(c, Chain[2])
          /\ Has(c, Chain[4]) => Has(c, Chain[3])
          /\ Has(c, Chain[5]) => Has(c, Chain[4])
          /\ Has(c, Chain[6]) => Has(c, Chain[5])
          /\ Has(c, Chain[7]) => Has(c, Chain[6])
      BY <1>5
    <2> QED BY <1>3, <2>1 DEF InOrder
  <1> QED BY <1>1, <1>2, <1>4, <1>5

\* What LoginIInv says of a client, but for its ID.
Sound(c) ==
    /\ c \in Clients
    /\ InOrder(c)
    /\ Has(c, "PUBLICKEY_INITIALIZED") => c.rsa
    /\ Backed(c)

LEMMA FlagsAre ==
    Flags = {"CONNECTED", "VERSION_CHECKED", "USERNAME_CHECKED", "PUBLICKEY_INITIALIZED",
             "AUTHORIZED", "AUTHENTICATED", "VERIFIED"}
  <1>1. Len(Chain) = 7
    BY DEF Chain
  <1>2. 1 .. 7 = {1, 2, 3, 4, 5, 6, 7}
    OBVIOUS
  <1>3. /\ Chain[1] = "CONNECTED" /\ Chain[2] = "VERSION_CHECKED"
        /\ Chain[3] = "USERNAME_CHECKED" /\ Chain[4] = "PUBLICKEY_INITIALIZED"
        /\ Chain[5] = "AUTHORIZED" /\ Chain[6] = "AUTHENTICATED" /\ Chain[7] = "VERIFIED"
    BY DEF Chain
  <1>4. Flags = {Chain[k] : k \in {1, 2, 3, 4, 5, 6, 7}}
    BY <1>1, <1>2 DEF Flags
  <1> QED BY <1>3, <1>4

\* A client after a step: sound, the same one, and flagged if it was.
Follows(d, c) == Sound(d) /\ d.id = c.id /\ (c.disc => d.disc)

LEMMA DisconnectSound ==
    ASSUME NEW c, Sound(c)
    PROVE  Follows(SocketDisconnect(c), c) /\ SocketDisconnect(c).disc
  BY DEF Sound, Backed, Fell, Follows, InOrder, Has, SocketDisconnect, Clients

\* The flags up to the one of a login may be raised once the flag before them is.
LEMMA RaiseSound ==
    ASSUME NEW c, Sound(c), NEW flag \in Flags \ {"AUTHENTICATED"},
           flag = "VERSION_CHECKED" => Has(c, "CONNECTED"),
           flag = "USERNAME_CHECKED" => Has(c, "VERSION_CHECKED"),
           flag = "PUBLICKEY_INITIALIZED" => Has(c, "USERNAME_CHECKED") /\ c.rsa,
           flag = "AUTHORIZED" => Has(c, "PUBLICKEY_INITIALIZED"),
           flag # "VERIFIED"
    PROVE  Follows(Raise(c, flag), c) /\ (Raise(c, flag).disc = c.disc)
  <1> DEFINE d == Raise(c, flag)
  <1>1. /\ c \in Clients /\ d \in Clients /\ d.flags = c.flags \cup {flag}
        /\ d.id = c.id /\ d.rsa = c.rsa /\ d.disc = c.disc /\ d.acct = c.acct /\ d.proved = c.proved
        /\ d.asked = c.asked
    BY DEF Sound, Raise, Clients
  <1>2. InOrder(d) 
    BY <1>1, FlagsAre DEF Sound, InOrder, Has
  <1>3. /\ Has(d, "AUTHENTICATED") <=> Has(c, "AUTHENTICATED")
        /\ Has(d, "VERIFIED") <=> Has(c, "VERIFIED")
        /\ Has(d, "PUBLICKEY_INITIALIZED") => c.rsa
    BY <1>1 DEF Sound, Has
  <1>4. Sound(d)
    BY <1>1, <1>2, <1>3 DEF Sound, Backed, Fell
  <1> QED BY <1>1, <1>4 DEF Follows

LEMMA TimerSound ==
    ASSUME NEW c, Sound(c), NEW n \in (-1 .. Delay) \cup {Off}
    PROVE  Follows([c EXCEPT !.left = n], c) /\ [c EXCEPT !.left = n].disc = c.disc
  BY DEF Sound, Backed, Fell, Follows, InOrder, Has, Clients


\* A handler whose assert holds leaves a sound client sound.
LEMMA OnReceivedSound ==
    ASSUME TypeOK, NEW c, Sound(c), NEW p \in Packets, Asserts(c, p)
    PROVE  Follows(OnReceived(c, p), c)
  <1> USE DEF Has
  <1>1. CASE p.kind = "CONNECT"
    <2>1. OnReceived(c, p) = Raise(c, "CONNECTED")
      BY <1>1 DEF OnReceived
    <2> QED BY <2>1, RaiseSound, FlagsAre
  <1>2. CASE p.kind = "CHECKVERSION"
    <2>1. OnReceived(c, p) = OnCheckVersion(c)
      BY <1>2 DEF OnReceived
    <2>2. CASE Has(c, "CONNECTED")
      BY <2>1, <2>2, RaiseSound, FlagsAre DEF OnCheckVersion
    <2>3. CASE ~Has(c, "CONNECTED")
      BY <2>1, <2>3, DisconnectSound DEF OnCheckVersion
    <2> QED BY <2>2, <2>3
  <1>3. CASE p.kind = "SERVERENV"
    <2>1. OnReceived(c, p) = OnServerEnv(c)
      BY <1>3 DEF OnReceived
    <2>2. CASE Has(c, "VERSION_CHECKED")
      BY <2>1, <2>2, RaiseSound, FlagsAre DEF OnServerEnv
    <2>3. CASE ~Has(c, "VERSION_CHECKED")
      BY <2>1, <2>3, DisconnectSound DEF OnServerEnv
    <2> QED BY <2>2, <2>3
  <1>4. CASE p.kind = "PUBLICKEY"
    <2>1. OnReceived(c, p) = OnPublicKey(c, p.made)
      BY <1>4 DEF OnReceived
    <2>2. CASE Has(c, "USERNAME_CHECKED") /\ p.made
      <3> DEFINE e == [c EXCEPT !.rsa = TRUE]
      <3>1. Sound(e) /\ e.id = c.id /\ e.disc = c.disc /\ e.rsa /\ e.flags = c.flags
        BY DEF Sound, Backed, Fell, InOrder, Clients
      <3>2. OnPublicKey(c, p.made) = Raise(e, "PUBLICKEY_INITIALIZED")
        BY <2>2 DEF OnPublicKey, Raise, Sound, Clients
      <3> HIDE DEF e
      <3>3. Follows(Raise(e, "PUBLICKEY_INITIALIZED"), e)
        BY <3>1, <2>2, RaiseSound, FlagsAre
      <3> QED BY <2>1, <3>1, <3>2, <3>3 DEF Follows
    <2>3. CASE ~(Has(c, "USERNAME_CHECKED") /\ p.made)
      BY <2>1, <2>3, DisconnectSound DEF OnPublicKey
    <2> QED BY <2>2, <2>3
  <1>5. CASE p.kind = "AUTHACCOUNT"
    <2>1. OnReceived(c, p) = OnAuthAccount(c)
      BY <1>5 DEF OnReceived
    <2>2. CASE ~Has(c, "PUBLICKEY_INITIALIZED") \/ config.maintenance
      BY <2>1, <2>2, DisconnectSound DEF OnAuthAccount
    <2>3. CASE Has(c, "PUBLICKEY_INITIALIZED") /\ ~config.maintenance
      <3>1. Follows(Raise(c, "AUTHORIZED"), c)
        BY <2>3, RaiseSound, FlagsAre
      <3>2. Sound(Raise(c, "AUTHORIZED"))
        BY <3>1 DEF Follows
      <3>3. Follows(StartTimer(Raise(c, "AUTHORIZED")), Raise(c, "AUTHORIZED"))
        BY <3>2, TimerSound, LoginAssumption DEF StartTimer
      <3>4. Follows(StartTimer(Raise(c, "AUTHORIZED")), c)
        BY <3>1, <3>3 DEF Follows
      <3> QED BY <2>1, <2>3, <3>1, <3>4 DEF OnAuthAccount
    <2> QED BY <2>2, <2>3
  <1>6. CASE p.kind = "AUTHENTICATE"
    <2>1. OnReceived(c, p) = OnAuthenticate(c, p)
      BY <1>6 DEF OnReceived
    <2>2. CASE ~Has(c, "AUTHORIZED") \/ ~p.readable
      BY <2>1, <2>2, DisconnectSound DEF OnAuthenticate
    <2>3. CASE Has(c, "AUTHORIZED") /\ p.readable /\ ~p.success
      <3>1. p.acct \in Accounts \cup {Unknown}
        BY <1>6, <2>3 DEF Packets
      <3> DEFINE e == SocketDisconnect([c EXCEPT !.acct = p.acct, !.proved = NoAccount])
      <3>2. OnAuthenticate(c, p) = e
        BY <2>3 DEF OnAuthenticate
      <3>3. /\ e \in Clients /\ e.flags = c.flags /\ e.rsa = c.rsa /\ e.id = c.id
            /\ e.disc /\ e.acct # NoAccount /\ e.proved = NoAccount /\ e.asked = c.asked
        BY <3>1, LoginAssumption DEF Sound, SocketDisconnect, Clients
      <3> HIDE DEF e
      <3>4. Sound(e)
        BY <3>3 DEF Sound, InOrder, Backed, Fell
      <3> QED BY <2>1, <3>2, <3>3, <3>4 DEF Follows
    <2>4. CASE Has(c, "AUTHORIZED") /\ p.readable /\ p.success
      <3>1. p.acct \in Accounts
        BY <1>6, <2>4 DEF Packets
      <3> DEFINE e == [Raise(c, "AUTHENTICATED") EXCEPT !.acct = p.acct, !.proved = p.acct]
      <3>2. /\ e \in Clients /\ e.flags = c.flags \cup {"AUTHENTICATED"} /\ e.rsa = c.rsa
            /\ e.id = c.id /\ e.disc = c.disc /\ e.acct = p.acct /\ e.proved = p.acct
            /\ e.asked = c.asked
        BY <3>1, FlagsAre DEF Sound, Raise, Clients
      <3>3. OnAuthenticate(c, p) = StartTimer(e)
        BY <2>4 DEF OnAuthenticate
      <3> HIDE DEF e
      <3>4. Sound(e)
        BY <3>1, <3>2, <2>4, LoginAssumption DEF Sound, InOrder, Backed, Fell
      <3>5. Follows(StartTimer(e), e)
        BY <3>4, TimerSound, LoginAssumption DEF StartTimer
      <3> QED BY <2>1, <3>2, <3>3, <3>5 DEF Follows
    <2> QED BY <2>2, <2>3, <2>4
  <1>7. CASE p.kind = "VERIFYLINKS"
    <2>1. OnReceived(c, p) = OnVerifyLinks(c, p.fits)
      BY <1>7 DEF OnReceived
    <2>2. CASE ~Has(c, "AUTHENTICATED") \/ Has(c, "VERIFIED") \/ ~p.fits
      BY <2>1, <2>2, DisconnectSound DEF OnVerifyLinks
    <2>3. CASE ~(~Has(c, "AUTHENTICATED") \/ Has(c, "VERIFIED") \/ ~p.fits)
      <3> DEFINE e == [Raise(c, "VERIFIED") EXCEPT !.asked = <<c.acct, c.proved>>]
      <3>1. /\ e \in Clients /\ e.flags = c.flags \cup {"VERIFIED"} /\ e.rsa = c.rsa
            /\ e.id = c.id /\ e.disc = c.disc /\ e.acct = c.acct /\ e.proved = c.proved
            /\ e.asked = <<c.acct, c.proved>>
        BY FlagsAre DEF Sound, Raise, Clients
      <3>2. OnVerifyLinks(c, p.fits) = e
        BY <2>3 DEF OnVerifyLinks
      <3> HIDE DEF e
      <3>3. c.acct \in Accounts
        BY <1>7, <2>3 DEF Asserts
      <3>4. InOrder(e)
        BY <2>3, <3>1, FlagsAre DEF Sound, InOrder
      <3>5. Backed(e)
        BY <2>3, <3>1, <3>3 DEF Sound, Backed, Fell
      <3>6. Sound(e)
        BY <3>1, <3>4, <3>5 DEF Sound
      <3> QED BY <2>1, <3>1, <3>2, <3>6 DEF Follows
    <2> QED BY <2>2, <2>3
  <1>8. CASE p.kind = "DISCONNECT"
    BY <1>8, DisconnectSound DEF OnReceived
  <1>9. p.kind \in {"CONNECT", "CHECKVERSION", "SERVERENV", "AUTHACCOUNT", "DISCONNECT",
                    "PUBLICKEY", "AUTHENTICATE", "VERIFYLINKS"}
    BY DEF Packets
  <1> QED BY <1>1, <1>2, <1>3, <1>4, <1>5, <1>6, <1>7, <1>8, <1>9


---------------------------------------------------------------------------
\* The array of connections.

Array(s, n) ==
    /\ s \in Seq(Clients) /\ Len(s) <= MaxClients
    /\ \A i \in 1 .. Len(s) : Sound(s[i]) /\ s[i].id < n
    /\ \A i, j \in 1 .. Len(s) : i < j => s[i].id < s[j].id

\* The loop is inside the array s, and what it has swept is kept.
InPlace(ph, k, s) ==
    /\ ph = "receive" => k \in 1 .. Len(s) + 1
    /\ ph = "handle" => k \in 1 .. Len(s)
    /\ ph = "sweep" => k \in 0 .. Len(s)
    /\ ph = "sweep" => \A i \in 1 .. Len(s) : k < i => ~s[i].disc

Scalars ==
    /\ phase \in {"top", "receive", "handle", "sweep", "rest"}
    /\ at \in 0 .. MaxClients + 1
    /\ nextID \in 1 .. MaxConns + 1
    /\ config \in [maintenance : BOOLEAN, autoDisconnect : BOOLEAN]
    /\ halted \in {"no", "assert", "packet"}
    /\ halted = "assert" => phase = "handle" /\ Fell(conns[at]) /\ conns[at].acct = Unknown

LEMMA EachSound ==
    ASSUME NEW s \in Seq(Clients), NEW i \in 1 .. Len(s)
    PROVE  Sound(s[i]) <=>
              /\ \A k \in 2 .. Len(Chain) : Has(s[i], Chain[k]) => Has(s[i], Chain[k - 1])
              /\ Has(s[i], "PUBLICKEY_INITIALIZED") => s[i].rsa
              /\ Backed(s[i])
  <1>1. s[i] \in Clients
    OBVIOUS
  <1> QED BY <1>1, ChainInOrder DEF Sound

\* A sound client that may log in has a key.
LEMMA SoundKey ==
    ASSUME NEW c, Sound(c), Has(c, "AUTHORIZED")
    PROVE  c.rsa
  BY DEF Sound, InOrder

LEMMA LoginIs ==
    /\ LoginIInv => Scalars /\ Array(conns, nextID) /\ InPlace(phase, at, conns)
    /\ Scalars' /\ Array(conns', nextID') /\ InPlace(phase', at', conns') => LoginIInv'
  <1>1. ASSUME LoginIInv PROVE Scalars /\ Array(conns, nextID) /\ InPlace(phase, at, conns)
    <2>1. Scalars /\ InPlace(phase, at, conns) /\ conns \in Seq(Clients) /\ Len(conns) <= MaxClients
      BY <1>1 DEF LoginIInv, LoginInv, LoginBacked, TypeOK, Scalars, InPlace
    <2>2. ASSUME NEW i \in 1 .. Len(conns) PROVE Sound(conns[i])
      BY <1>1, <2>1, EachSound DEF LoginIInv, LoginInv, LoginOrder, LoginBacked
    <2> QED BY <1>1, <2>1, <2>2 DEF Array, LoginIInv, LoginInv, Ascending
  <1>2. ASSUME Scalars', Array(conns', nextID'), InPlace(phase', at', conns') PROVE LoginIInv'
    <2>1. conns' \in Seq(Clients) /\ Len(conns') <= MaxClients
      BY <1>2 DEF Array
    <2>2. ASSUME NEW i \in 1 .. Len(conns')
          PROVE  /\ \A k \in 2 .. Len(Chain) : Has(conns'[i], Chain[k]) => Has(conns'[i], Chain[k - 1])
                 /\ Has(conns'[i], "PUBLICKEY_INITIALIZED") => conns'[i].rsa
                 /\ Backed(conns'[i])
                 /\ Has(conns'[i], "AUTHORIZED") => conns'[i].rsa
      <3>1. Sound(conns'[i])
        BY <1>2 DEF Array
      <3> QED BY <2>1, <3>1, EachSound, SoundKey
    <2>3. TypeOK'
      BY <1>2, <2>1 DEF Scalars, TypeOK
    <2>4. LoginOrder'
      BY <2>2 DEF LoginOrder, Has
    <2>5. LoginBacked'
      BY <1>2, <2>2 DEF LoginBacked, Scalars, Backed, Fell, Has
    <2>6. Ascending'
      BY <1>2 DEF Ascending, Array
    <2>7. \A i \in 1 .. Len(conns') : Has(conns'[i], "PUBLICKEY_INITIALIZED") => conns'[i].rsa
      BY <2>2
    <2> QED BY <1>2, <2>3, <2>4, <2>5, <2>6, <2>7 DEF LoginIInv, LoginInv, InPlace, Scalars, Has
  <1> QED BY <1>1, <1>2

\* A step that changes clients where they stand.
LEMMA ChangedArray ==
    ASSUME NEW n \in Nat, NEW s, Array(s, n), NEW t \in Seq(Clients), Len(t) = Len(s),
           \A i \in 1 .. Len(s) : Follows(t[i], s[i])
    PROVE  Array(t, n)
  BY DEF Array, Follows

LEMMA ChangedOne ==
    ASSUME NEW n \in Nat, NEW s, Array(s, n), NEW k \in 1 .. Len(s), NEW c, Follows(c, s[k])
    PROVE  /\ Array([s EXCEPT ![k] = c], n)
           /\ Len([s EXCEPT ![k] = c]) = Len(s)
           /\ \A i \in 1 .. Len(s) : [s EXCEPT ![k] = c][i].id = s[i].id
  <1> DEFINE t == [s EXCEPT ![k] = c]
  <1>1. c \in Clients /\ s \in Seq(Clients)
    BY DEF Array, Follows, Sound
  <1>2. t \in Seq(Clients) /\ Len(t) = Len(s) /\ \A i \in 1 .. Len(s) : t[i] = IF i = k THEN c ELSE s[i]
    BY <1>1
  <1>3. \A i \in 1 .. Len(s) : Follows(s[i], s[i])
    BY DEF Array, Follows
  <1>4. \A i \in 1 .. Len(s) : Follows(t[i], s[i])
    BY <1>2, <1>3
  <1> HIDE DEF t
  <1>5. Array(t, n)
    BY <1>2, <1>4, ChangedArray
  <1> QED BY <1>2, <1>4, <1>5 DEF t, Follows

\* A connection is taken out and the ones behind it move up.
LEMMA TakenOut ==
    ASSUME NEW n \in Nat, NEW s, Array(s, n), NEW k \in 1 .. Len(s)
    PROVE  /\ Array(RemoveAt(s, k), n)
           /\ Len(RemoveAt(s, k)) = Len(s) - 1
           /\ \A i \in 1 .. Len(s) - 1 : RemoveAt(s, k)[i] = IF i < k THEN s[i] ELSE s[i + 1]
  <1> DEFINE u == SubSeq(s, 1, k - 1)
             v == SubSeq(s, k + 1, Len(s))
             t == u \o v
  <1>1. s \in Seq(Clients) /\ Len(s) \in Nat /\ k \in 1 .. Len(s)
    BY DEF Array
  <1>8. /\ u \in Seq(Clients) /\ Len(u) = k - 1
        /\ \A i \in 1 .. k - 1 : u[i] = s[i]
    BY <1>1
  <1>9. /\ v \in Seq(Clients) /\ Len(v) = Len(s) - k
        /\ \A i \in 1 .. Len(s) - k : v[i] = s[k + i]
    BY <1>1
  <1>7. RemoveAt(s, k) = t
    BY DEF RemoveAt
  <1> HIDE DEF u, v
  <1>2. t \in Seq(Clients) /\ Len(t) = Len(s) - 1
    <2>2. u \in Seq(Clients) /\ v \in Seq(Clients)
      BY <1>8, <1>9
    <2>1. t \in Seq(Clients) /\ Len(t) = Len(u) + Len(v)
      BY ONLY <2>2
    <2> QED BY <1>1, <1>8, <1>9, <2>1
  <1>3. \A i \in 1 .. Len(s) - 1 : t[i] = IF i < k THEN s[i] ELSE s[i + 1]
    BY <1>1, <1>8, <1>9
  <1> HIDE DEF t
  <1>4. ASSUME NEW i \in 1 .. Len(t) PROVE Sound(t[i]) /\ t[i].id < n
    <2> DEFINE p == IF i < k THEN i ELSE i + 1
    <2>1. p \in 1 .. Len(s) /\ t[i] = s[p]
      BY <1>1, <1>2, <1>3
    <2> HIDE DEF p
    <2> QED BY <2>1 DEF Array
  <1>5. ASSUME NEW i \in 1 .. Len(t), NEW j \in 1 .. Len(t), i < j PROVE t[i].id < t[j].id
    <2> DEFINE p == IF i < k THEN i ELSE i + 1
               q == IF j < k THEN j ELSE j + 1
    <2>1. p \in 1 .. Len(s) /\ q \in 1 .. Len(s) /\ p < q
      BY <1>1, <1>2, <1>5
    <2>2. t[i] = s[p] /\ t[j] = s[q]
      BY <1>1, <1>2, <1>3
    <2> HIDE DEF p, q
    <2> QED BY <2>1, <2>2 DEF Array
  <1>6. Array(t, n)
    <2>1. Len(s) <= MaxClients
      BY DEF Array
    <2>2. Len(t) <= MaxClients
      BY <1>1, <1>2, <2>1, LoginAssumption
    <2> QED BY <1>2, <1>4, <1>5, <2>2 DEF Array
  <1> QED BY <1>2, <1>3, <1>6, <1>7

\* A client accepted with the next ID comes last.
LEMMA Accepted ==
    ASSUME NEW n \in 1 .. MaxConns, NEW s, Array(s, n), Len(s) < MaxClients
    PROVE  Array(Append(s, NewClient(n)), n + 1)
  <1> DEFINE c == NewClient(n)
             t == Append(s, c)
  <1>1. Sound(c) /\ c.id = n
    BY FlagsAre, LoginAssumption DEF NewClient, Sound, Backed, InOrder, Has, Clients
  <1> HIDE DEF c
  <1>2. s \in Seq(Clients) /\ c \in Clients /\ n \in Nat
    BY <1>1 DEF Array, Sound
  <1>3. /\ t \in Seq(Clients) /\ Len(t) = Len(s) + 1
        /\ \A i \in 1 .. Len(t) : t[i] = IF i <= Len(s) THEN s[i] ELSE c
    BY <1>2
  <1> HIDE DEF t
  <1>4. \A i \in 1 .. Len(s) : s[i].id \in Int /\ s[i].id < n /\ Sound(s[i])
    BY DEF Array, Sound, Clients
  <1>5. \A i \in 1 .. Len(t) : Sound(t[i]) /\ t[i].id < n + 1
    BY <1>1, <1>2, <1>3, <1>4
  <1>6. \A i, j \in 1 .. Len(t) : i < j => t[i].id < t[j].id
    BY <1>1, <1>2, <1>3, <1>4 DEF Array
  <1>7. Len(t) <= MaxClients
    BY <1>2, <1>3, LoginAssumption
  <1>8. Array(t, n + 1)
    BY <1>3, <1>5, <1>6, <1>7 DEF Array
  <1> QED BY <1>8 DEF t, c

---------------------------------------------------------------------------
\* The steps.

LEMMA InitLogin == Init => LoginIInv
  BY LoginAssumption DEF Init, LoginIInv, LoginInv, TypeOK, LoginOrder, LoginBacked, Ascending

\* What every step needs of the state before it.
Held ==
    /\ Scalars /\ Array(conns, nextID) /\ InPlace(phase, at, conns)
    /\ conns \in Seq(Clients) /\ Len(conns) \in Nat /\ Len(conns) <= MaxClients /\ nextID \in Nat

\* No connection goes, though others may come.
AllStay == \A i \in 1 .. Len(conns) : i \in 1 .. Len(conns') /\ conns'[i].id = conns[i].id

LEMMA LoginHeld == ASSUME LoginIInv PROVE Held
  <1>1. Scalars /\ Array(conns, nextID) /\ InPlace(phase, at, conns)
    BY LoginIs
  <1> QED BY <1>1, LoginAssumption DEF Held, Scalars, Array

LEMMA LoginBegin ==
    ASSUME LoginIInv, NEW s \in 0 .. MaxLag, NEW accept \in BOOLEAN, Begin(s, accept)
    PROVE  LoginIInv' /\ AllStay
  <1>1. Held
    BY LoginHeld
  <1> DEFINE t == Elapse(s)
  <1>2. t \in Seq(Clients) /\ Len(t) = Len(conns) /\ \A i \in 1 .. Len(conns) : Follows(t[i], conns[i])
    <2>1. ASSUME NEW i \in 1 .. Len(conns) PROVE Follows(t[i], conns[i])
      <3> DEFINE c == conns[i]
      <3>1. Sound(c) /\ c \in Clients
        BY <1>1 DEF Held, Array, Sound
      <3>2. CASE c.left = Off
        BY <3>1, <3>2 DEF Elapse, Follows
      <3>3. CASE c.left # Off
        <4> DEFINE l == IF c.left - s < -1 THEN -1 ELSE c.left - s
        <4>1. l \in -1 .. Delay
          BY <3>1, <3>3, LoginAssumption DEF Clients
        <4>2. t[i] = [c EXCEPT !.left = l]
          BY <3>3 DEF Elapse
        <4> HIDE DEF l, t, c
        <4> QED BY <3>1, <4>1, <4>2, TimerSound DEF c
      <3> QED BY <3>2, <3>3
    <2>2. t \in Seq(Clients) /\ Len(t) = Len(conns)
      <3>1. DOMAIN t = 1 .. Len(conns) /\ t \in [1 .. Len(conns) -> Clients]
        BY <2>1 DEF Elapse, Follows, Sound
      <3> HIDE DEF t
      <3> QED BY <1>1, <3>1 DEF Held
    <2> QED BY <2>1, <2>2
  <1>3. Array(t, nextID)
    <2> HIDE DEF t
    <2> QED BY <1>1, <1>2, ChangedArray DEF Held
  <1> HIDE DEF t
  <1>4. Array(conns', nextID') /\ nextID' \in 1 .. MaxConns + 1
    <2>1. CASE accept
      <3>1. /\ nextID \in 1 .. MaxConns /\ Len(t) < MaxClients
            /\ conns' = Append(t, NewClient(nextID)) /\ nextID' = nextID + 1
        BY <1>1, <1>2, <2>1, LoginAssumption DEF Begin, Held, Scalars, t
      <3>2. Array(Append(t, NewClient(nextID)), nextID + 1)
        BY <1>3, <3>1, Accepted
      <3>3. nextID + 1 \in 1 .. MaxConns + 1
        BY <3>1, LoginAssumption
      <3> QED BY <3>1, <3>2, <3>3
    <2>2. CASE ~accept
      <3>1. conns' = t /\ nextID' = nextID
        BY <2>2 DEF Begin, t
      <3> QED BY <1>1, <1>3, <3>1 DEF Held, Scalars
    <2> QED BY <2>1, <2>2
  <1>5. Scalars' /\ InPlace(phase', at', conns')
    <2>1. phase' = "receive" /\ at' = 1 /\ config' = config /\ halted' = halted /\ halted = "no"
      BY DEF Begin
    <2>2. Len(conns') \in Nat
      BY <1>4, LoginAssumption DEF Array
    <2>3. Scalars'
      BY <1>1, <1>4, <2>1, LoginAssumption DEF Held, Scalars
    <2> QED BY ONLY <2>1, <2>2, <2>3 DEF InPlace
  <1>6. AllStay
    <2>1. Len(t) \in Nat /\ (conns' = t \/ conns' = Append(t, NewClient(nextID)))
      BY <1>1, <1>2 DEF Begin, Held, t
    <2>2. \A i \in 1 .. Len(t) : i \in 1 .. Len(conns') /\ conns'[i] = t[i]
      BY <1>2, <2>1
    <2> QED BY <1>2, <2>2 DEF AllStay, Follows
  <1> QED BY <1>6, <1>4, <1>5, LoginIs

LEMMA LoginReceive ==
    ASSUME LoginIInv, NEW flushed \in BOOLEAN, NEW received \in BOOLEAN, Receive(flushed, received)
    PROVE  LoginIInv' /\ AllStay
  <1>1. Held
    BY LoginHeld
  <1>2. at \in 1 .. Len(conns)
    BY <1>1 DEF Held, Scalars, InPlace, Receive
  <1>3. Array(conns', nextID') /\ Len(conns') = Len(conns) /\ AllStay
    <2>1. CASE flushed /\ received
      BY <1>1, <2>1 DEF Receive, Held, AllStay
    <2>2. CASE ~(flushed /\ received)
      <3> DEFINE c == SocketDisconnect(conns[at])
      <3>1. conns' = [conns EXCEPT ![at] = c] /\ nextID' = nextID
        BY <2>2 DEF Receive
      <3>2. Follows(c, conns[at])
        BY <1>1, <1>2, DisconnectSound DEF Held, Array
      <3> HIDE DEF c
      <3>3. /\ Array([conns EXCEPT ![at] = c], nextID) /\ Len([conns EXCEPT ![at] = c]) = Len(conns)
            /\ \A i \in 1 .. Len(conns) : [conns EXCEPT ![at] = c][i].id = conns[i].id
        BY SMTT(60), <1>1, <1>2, <3>2, ChangedOne DEF Held
      <3> QED BY <3>1, <3>3 DEF AllStay
    <2> QED BY <2>1, <2>2
  <1>4. Scalars' /\ InPlace(phase', at', conns')
    BY <1>1, <1>2, <1>3, LoginAssumption DEF Receive, Held, Scalars, InPlace
  <1> QED BY <1>3, <1>4, LoginIs

LEMMA LoginHandle ==
    ASSUME LoginIInv, NEW p \in Packets, Handle(p)
    PROVE  LoginIInv' /\ AllStay
  <1>1. Held /\ TypeOK
    BY LoginHeld DEF LoginIInv, LoginInv
  <1>2. at \in 1 .. Len(conns)
    BY <1>1 DEF Held, Scalars, InPlace, Handle
  <1>3. Array(conns', nextID') /\ Len(conns') = Len(conns) /\ AllStay
    <2>1. CASE Asserts(conns[at], p)
      <3> DEFINE c == OnReceived(conns[at], p)
      <3>1. conns' = [conns EXCEPT ![at] = c] /\ nextID' = nextID
        BY <2>1 DEF Handle
      <3>2. Follows(c, conns[at])
        BY <1>1, <1>2, <2>1, OnReceivedSound DEF Held, Array
      <3> HIDE DEF c
      <3>3. /\ Array([conns EXCEPT ![at] = c], nextID) /\ Len([conns EXCEPT ![at] = c]) = Len(conns)
            /\ \A i \in 1 .. Len(conns) : [conns EXCEPT ![at] = c][i].id = conns[i].id
        BY <1>1, <1>2, <3>2, ChangedOne DEF Held
      <3> QED BY <3>1, <3>3 DEF AllStay
    <2>2. CASE ~Asserts(conns[at], p)
      BY <1>1, <2>2 DEF Handle, Held, AllStay
    <2> QED BY <2>1, <2>2
  <1>4. Scalars' /\ InPlace(phase', at', conns')
    <2>1. ASSUME ~Asserts(conns[at], p) PROVE Fell(conns[at]) /\ conns[at].acct = Unknown
      <3> DEFINE c == conns[at]
      <3>1. Sound(c)
        BY <1>1, <1>2 DEF Held, Array
      <3> HIDE DEF c
      <3>2. ~(p.kind = "AUTHENTICATE" /\ Has(c, "AUTHORIZED") /\ ~c.rsa)
        BY <3>1, SoundKey
      <3>3. Has(c, "AUTHENTICATED") /\ c.acct \notin Accounts
        BY <2>1, <3>2 DEF Asserts, c
      <3>4. Fell(c) /\ c.acct \in Accounts \cup {NoAccount, Unknown}
        BY <3>1, <3>3 DEF Sound, Backed, Clients
      <3>5. c.acct # NoAccount
        BY <3>1, <3>3 DEF Sound, Backed
      <3> QED BY <3>3, <3>4, <3>5 DEF c
    <2> QED BY <1>1, <1>2, <1>3, <2>1 DEF Handle, Held, Scalars, InPlace
  <1> QED BY <1>3, <1>4, LoginIs

LEMMA LoginHandled ==
    ASSUME LoginIInv, Handled \/ Incomplete
    PROVE  LoginIInv' /\ AllStay
  <1>1. Held
    BY LoginHeld
  <1>2. Array(conns', nextID')
    BY <1>1 DEF Handled, Incomplete, Held
  <1>3. Scalars' /\ InPlace(phase', at', conns')
    BY <1>1, LoginAssumption DEF Handled, Incomplete, Held, Scalars, InPlace
  <1>4. AllStay
    BY <1>1 DEF AllStay, Held, Handled, Incomplete
  <1> QED BY <1>4, <1>2, <1>3, LoginIs

LEMMA LoginAllReceived ==
    ASSUME LoginIInv, AllReceived
    PROVE  LoginIInv' /\ AllStay
  <1>1. Held
    BY LoginHeld
  <1>2. Array(conns', nextID')
    BY <1>1 DEF AllReceived, Held
  <1>3. Scalars' /\ InPlace(phase', at', conns')
    BY <1>1, LoginAssumption DEF AllReceived, Held, Scalars, InPlace
  <1>4. AllStay
    BY <1>1 DEF AllStay, Held, AllReceived
  <1> QED BY <1>4, <1>2, <1>3, LoginIs

LEMMA LoginSweep ==
    ASSUME LoginIInv, Sweep
    PROVE  LoginIInv'
  <1>1. Held
    BY LoginHeld
  <1>2. at \in 1 .. Len(conns) /\ \A i \in 1 .. Len(conns) : at < i => ~conns[i].disc
    BY <1>1 DEF Held, Scalars, InPlace, Sweep
  <1>3. /\ Array(conns', nextID') /\ Len(conns') \in at - 1 .. MaxClients
        /\ \A i \in 1 .. Len(conns') : at - 1 < i => ~conns'[i].disc
    <2>1. CASE conns[at].disc
      <3>1. conns' = RemoveAt(conns, at) /\ nextID' = nextID
        BY <2>1 DEF Sweep
      <3>2. /\ Array(conns', nextID) /\ Len(conns') = Len(conns) - 1
            /\ \A i \in 1 .. Len(conns) - 1 : conns'[i] = IF i < at THEN conns[i] ELSE conns[i + 1]
        BY <1>1, <1>2, <3>1, TakenOut DEF Held
      <3>3. ASSUME NEW i \in 1 .. Len(conns'), at - 1 < i PROVE ~conns'[i].disc
        <4>1. i + 1 \in 1 .. Len(conns) /\ at < i + 1 /\ conns'[i] = conns[i + 1]
          BY <1>1, <1>2, <3>2, <3>3 DEF Held
        <4> QED BY <1>2, <4>1
      <3> QED BY <1>1, <1>2, <3>1, <3>2, <3>3, LoginAssumption DEF Held
    <2>2. CASE ~conns[at].disc
      <3>1. conns' = conns /\ nextID' = nextID
        BY <2>2 DEF Sweep
      <3>2. ASSUME NEW i \in 1 .. Len(conns), at - 1 < i PROVE ~conns[i].disc
        <4>1. i = at \/ at < i
          BY <1>1, <1>2, <3>2
        <4> QED BY <1>2, <2>2, <4>1
      <3> QED BY <1>1, <1>2, <3>1, <3>2, LoginAssumption DEF Held
    <2> QED BY <2>1, <2>2
  <1>4. Scalars' /\ InPlace(phase', at', conns')
    BY <1>1, <1>2, <1>3, LoginAssumption DEF Sweep, Held, Scalars, InPlace
  <1> QED BY <1>3, <1>4, LoginIs

LEMMA LoginSwept ==
    ASSUME LoginIInv, Swept
    PROVE  LoginIInv' /\ AllStay
  <1>1. Held
    BY LoginHeld
  <1>2. Array(conns', nextID')
    BY <1>1 DEF Swept, Held
  <1>3. Scalars' /\ InPlace(phase', at', conns')
    BY <1>1, LoginAssumption DEF Swept, Held, Scalars, InPlace
  <1>4. AllStay
    BY <1>1 DEF AllStay, Held, Swept
  <1> QED BY <1>4, <1>2, <1>3, LoginIs

LEMMA LoginOnMasterVerifyResult ==
    ASSUME LoginIInv, NEW k \in 1 .. MaxClients, OnMasterVerifyResult(k)
    PROVE  LoginIInv' /\ AllStay
  <1>1. Held
    BY LoginHeld
  <1> DEFINE c == SocketDisconnect(conns[k])
  <1>2. Array(conns', nextID') /\ AllStay
    <2>1. conns' = [conns EXCEPT ![k] = c] /\ nextID' = nextID
      BY DEF OnMasterVerifyResult
    <2>4. k \in 1 .. Len(conns)
      BY DEF OnMasterVerifyResult
    <2>2. Follows(c, conns[k])
      BY <1>1, <2>4, DisconnectSound DEF Held, Array
    <2> HIDE DEF c
    <2>3. /\ Array([conns EXCEPT ![k] = c], nextID) /\ Len([conns EXCEPT ![k] = c]) = Len(conns)
          /\ \A i \in 1 .. Len(conns) : [conns EXCEPT ![k] = c][i].id = conns[i].id
      BY SMTT(30), <1>1, <2>2, <2>4, ChangedOne DEF Held
    <2> QED BY <2>1, <2>3 DEF AllStay
  <1>3. Scalars' /\ InPlace(phase', at', conns')
    BY <1>1 DEF OnMasterVerifyResult, Held, Scalars, InPlace
  <1> QED BY <1>2, <1>3, LoginIs

LEMMA LoginTimers ==
    ASSUME LoginIInv, Timers
    PROVE  LoginIInv' /\ AllStay
  <1>1. Held
    BY LoginHeld
  <1> DEFINE t == [k \in 1 .. Len(conns) |-> Expire(conns[k])]
  <1>2. ASSUME NEW i \in 1 .. Len(conns) PROVE Follows(Expire(conns[i]), conns[i])
    <2> DEFINE c == conns[i]
    <2>1. Sound(c)
      BY <1>1 DEF Held, Array
    <2> HIDE DEF c
    <2>2. CASE c.left = -1
      <3>1. Follows([c EXCEPT !.left = Off], c)
        BY <2>1, TimerSound
      <3>2. Follows(SocketDisconnect([c EXCEPT !.left = Off]), [c EXCEPT !.left = Off])
        BY <3>1, DisconnectSound DEF Follows
      <3> QED BY <2>2, <3>1, <3>2 DEF Expire, Follows, c
    <2>3. CASE c.left # -1
      BY <2>1, <2>3 DEF Expire, Follows, c
    <2> QED BY <2>2, <2>3
  <1>3. t \in Seq(Clients) /\ Len(t) = Len(conns) /\ \A i \in 1 .. Len(conns) : t[i] = Expire(conns[i])
    <2>1. DOMAIN t = 1 .. Len(conns) /\ t \in [1 .. Len(conns) -> Clients]
      BY <1>2 DEF Follows, Sound
    <2>2. \A i \in 1 .. Len(conns) : t[i] = Expire(conns[i])
      OBVIOUS
    <2> HIDE DEF t
    <2> QED BY <1>1, <2>1, <2>2 DEF Held
  <1>4. conns' = t /\ nextID' = nextID
    BY DEF Timers
  <1> HIDE DEF t
  <1>5. Array(conns', nextID')
    BY <1>1, <1>2, <1>3, <1>4, ChangedArray DEF Held
  <1>6. Scalars' /\ InPlace(phase', at', conns')
    BY <1>1 DEF Timers, Held, Scalars, InPlace
  <1>7. AllStay
    BY <1>1, <1>2, <1>3, <1>4 DEF Held, Follows, AllStay
  <1> QED BY <1>7, <1>5, <1>6, LoginIs

LEMMA LoginNext == LoginIInv /\ [Next]_vars => LoginIInv'
  <1> SUFFICES ASSUME LoginIInv, [Next]_vars PROVE LoginIInv'
    OBVIOUS
  <1>1. CASE UNCHANGED vars
    BY <1>1, LoginHeld, LoginIs DEF vars, Held, Scalars
  <1>2. CASE Next
    BY <1>2, LoginBegin, LoginReceive, LoginHandle, LoginHandled, LoginAllReceived, LoginSweep,
       LoginSwept, LoginOnMasterVerifyResult, LoginTimers DEF Next
  <1> QED BY <1>1, <1>2

---------------------------------------------------------------------------
\* The theorems.

\* For any accounts, connections and limits, whatever packets a client sends and
\* however often a login fails: it gets through the login chain in its order, and
\* what it counts as logged in to and what the masters are asked for is the account
\* it last gave the password of.  Only a client whose login failed after it had
\* logged in may ask for another account or fail the assert of OnVerifyLinks.c:22,
\* and that one is flagged.
THEOREM LoginSafe == Spec => []LoginInv
  <1>1. Init => LoginIInv
    BY InitLogin
  <1>2. LoginIInv /\ [Next]_vars => LoginIInv'
    BY LoginNext
  <1>3. LoginIInv => LoginInv
    BY DEF LoginIInv
  <1> QED BY <1>1, <1>2, <1>3, PTL DEF Spec

\* The assert of OnAuthenticate, that a login is decrypted with a key, holds
\* for every connection and every packet at any time.
KeyAsserted ==
    \A i \in 1 .. Len(conns), p \in Packets : p.kind = "AUTHENTICATE" => Asserts(conns[i], p)

\* No client can bring AuthSvr down by a login before it was given a key.
THEOREM KeyAlwaysMade == Spec => []KeyAsserted
  <1>1. LoginInv => KeyAsserted
    BY DEF LoginInv, LoginOrder, KeyAsserted, Asserts
  <1> QED BY <1>1, LoginSafe, PTL

LEMMA SweepStep == ASSUME LoginIInv, Sweep PROVE SweptStep
  <1>1. Held
    BY LoginHeld
  <1>2. at \in 1 .. Len(conns)
    BY <1>1 DEF Held, Scalars, InPlace, Sweep
  <1>3. phase' = "sweep"
    BY DEF Sweep
  <1>4. CASE conns[at].disc
    <2>1. conns' = RemoveAt(conns, at)
      BY <1>4 DEF Sweep
    <2>2. /\ Len(conns') = Len(conns) - 1
          /\ \A i \in 1 .. Len(conns) - 1 : conns'[i] = IF i < at THEN conns[i] ELSE conns[i + 1]
      BY <1>1, <1>2, <2>1, TakenOut DEF Held
    <2>3. ASSUME NEW i \in 1 .. Len(conns), ~conns[i].disc
          PROVE  \E j \in 1 .. Len(conns') : conns'[j] = conns[i]
      <3> DEFINE q == IF i < at THEN i ELSE i - 1
      <3>1. i # at
        BY <1>4, <2>3
      <3>2. q \in 1 .. Len(conns') /\ (IF q < at THEN q ELSE q + 1) = i
        BY <1>1, <1>2, <2>2, <3>1 DEF Held
      <3>3. conns'[q] = conns[i]
        BY <1>1, <2>2, <3>2 DEF Held
      <3> HIDE DEF q
      <3> QED BY <3>2, <3>3
    <2>4. ASSUME NEW j \in 1 .. Len(conns')
          PROVE  \E i \in 1 .. Len(conns) : conns'[j] = conns[i]
      <3> DEFINE q == IF j < at THEN j ELSE j + 1
      <3>1. q \in 1 .. Len(conns) /\ conns'[j] = conns[q]
        BY <1>1, <1>2, <2>2 DEF Held
      <3> HIDE DEF q
      <3> QED BY <3>1
    <2> QED BY <1>3, <2>3, <2>4 DEF SweptStep
  <1>5. CASE ~conns[at].disc
    <2>1. conns' = conns
      BY <1>5 DEF Sweep
    <2> QED BY <1>3, <2>1 DEF SweptStep
  <1> QED BY <1>4, <1>5

LEMMA EveryStepSwept == LoginIInv /\ [Next]_vars => SweptStep
  <1> SUFFICES ASSUME LoginIInv, [Next]_vars PROVE SweptStep
    OBVIOUS
  <1>1. CASE UNCHANGED vars
    BY <1>1 DEF vars, SweptStep
  <1>2. CASE Next
    <2>1. CASE Sweep
      BY <2>1, SweepStep
    <2>2. CASE Swept
      <3>1. conns' = conns /\ phase = "sweep" /\ at = 0
        BY <2>2 DEF Swept
      <3>2. \A i \in 1 .. Len(conns) : ~conns[i].disc
        BY <3>1 DEF LoginIInv
      <3> QED BY <3>1, <3>2 DEF SweptStep
    <2>3. ASSUME AllStay, phase # "sweep" PROVE SweptStep
      BY <2>3 DEF AllStay, SweptStep
    <2>4. CASE \E s \in 0 .. MaxLag, accept \in BOOLEAN : Begin(s, accept)
      BY <2>4, <2>3, LoginBegin DEF Begin
    <2>5. CASE \E flushed, received \in BOOLEAN : Receive(flushed, received)
      BY <2>5, <2>3, LoginReceive DEF Receive
    <2>6. CASE \E p \in Packets : Handle(p)
      BY <2>6, <2>3, LoginHandle DEF Handle
    <2>7. CASE Handled \/ Incomplete
      BY <2>7, <2>3, LoginHandled DEF Handled, Incomplete
    <2>8. CASE AllReceived
      BY <2>8, <2>3, LoginAllReceived DEF AllReceived
    <2>9. CASE \E k \in 1 .. MaxClients : OnMasterVerifyResult(k)
      BY <2>9, <2>3, LoginOnMasterVerifyResult DEF OnMasterVerifyResult
    <2>10. CASE Timers
      BY <2>10, <2>3, LoginTimers DEF Timers
    <2> QED BY <1>2, <2>1, <2>2, <2>4, <2>5, <2>6, <2>7, <2>8, <2>9, <2>10 DEF Next
  <1> QED BY <1>1, <1>2

\* Whatever connections are flagged and however many there are, the sweep
\* takes out each of them, no other, and mixes up none.
THEOREM SweepClean == Spec => SweptClean
  <1>1. Init => LoginIInv
    BY InitLogin
  <1>2. LoginIInv /\ [Next]_vars => LoginIInv'
    BY LoginNext
  <1>3. LoginIInv /\ [Next]_vars => [SweptStep]_vars
    BY EveryStepSwept
  <1> QED BY <1>1, <1>2, <1>3, PTL DEF Spec, SweptClean
=============================================================================
