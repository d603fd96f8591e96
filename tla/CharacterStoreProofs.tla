------------------------ MODULE CharacterStoreProofs ------------------------
(***************************************************************************)
(* Proofs about CharacterStore for any accounts, slots, parts of a         *)
(* character, characters there are at first, connections, breaks of the    *)
(* link and failures.                                                      *)
(***************************************************************************)
EXTENDS CharacterStore, FiniteSetTheorems, FunctionTheorems, TLAPS

-----------------------------------------------------------------------------
(* Queues and packets.                                                     *)

LEMMA Appended ==
    ASSUME NEW S, NEW s \in Seq(S), NEW m \in S
    PROVE  /\ Append(s, m) \in Seq(S)
           /\ Range(Append(s, m)) = Range(s) \cup {m}
           /\ DOMAIN Append(s, m) = DOMAIN s \cup {Len(s) + 1}
           /\ Append(s, m)[Len(s) + 1] = m
           /\ \A i \in DOMAIN s : Append(s, m)[i] = s[i]
  <1>1. /\ Append(s, m) \in Seq(S)
        /\ DOMAIN Append(s, m) = DOMAIN s \cup {Len(s) + 1}
        /\ Append(s, m)[Len(s) + 1] = m
        /\ \A i \in DOMAIN s : Append(s, m)[i] = s[i]
    OBVIOUS
  <1> DEFINE t == Append(s, m)
  <1> HIDE DEF t
  <1>2. Range(t) = Range(s) \cup {m}
    BY <1>1 DEF Range, t
  <1> QED BY <1>1, <1>2 DEF t

LEMMA Popped ==
    ASSUME NEW S, NEW s \in Seq(S), s # <<>>
    PROVE  /\ Tail(s) \in Seq(S) /\ Head(s) \in S
           /\ Head(s) \in Range(s) /\ Range(Tail(s)) \subseteq Range(s)
           /\ \A m \in Range(s) : m = Head(s) \/ m \in Range(Tail(s))
           /\ 1 \in DOMAIN s /\ Head(s) = s[1]
           /\ \A i \in DOMAIN Tail(s) : i \in Nat \ {0} /\ i + 1 \in DOMAIN s /\ Tail(s)[i] = s[i + 1]
           /\ \A i \in DOMAIN s : i # 1 => i - 1 \in DOMAIN Tail(s)
  <1>1. /\ Tail(s) \in Seq(S) /\ Head(s) \in S /\ 1 \in DOMAIN s /\ Head(s) = s[1]
        /\ \A i \in DOMAIN Tail(s) : i \in Nat \ {0} /\ i + 1 \in DOMAIN s /\ Tail(s)[i] = s[i + 1]
        /\ \A i \in DOMAIN s : i \in Nat /\ (i # 1 => i - 1 \in DOMAIN Tail(s))
    OBVIOUS
  <1> DEFINE t == Tail(s)  h == Head(s)
  <1> HIDE DEF t, h
  <1>2. h \in Range(s) /\ Range(t) \subseteq Range(s)
    BY <1>1 DEF Range, t, h
  <1>3. ASSUME NEW m \in Range(s) PROVE m = h \/ m \in Range(t)
    <2>1. PICK i \in DOMAIN s : m = s[i]
      BY DEF Range
    <2>2. CASE i = 1
      BY <1>1, <2>1, <2>2 DEF h
    <2>3. CASE i # 1
      <3>1. i - 1 \in DOMAIN t /\ i - 1 + 1 = i
        BY <1>1, <2>1, <2>3 DEF t
      <3>2. t[i - 1] = s[i]
        BY <1>1, <3>1 DEF t
      <3> QED BY <2>1, <3>1, <3>2 DEF Range
    <2> QED BY <2>2, <2>3
  <1> QED BY <1>1, <1>2, <1>3 DEF t, h

Put(s, i, x) == [s EXCEPT ![i] = x]

LEMMA Replaced ==
    ASSUME NEW S, NEW s \in Seq(S), NEW i, NEW x \in S
    PROVE  /\ Put(s, i, x) \in Seq(S) /\ Len(Put(s, i, x)) = Len(s)
           /\ DOMAIN Put(s, i, x) = DOMAIN s
           /\ \A j \in DOMAIN s : Put(s, i, x)[j] = IF j = i THEN x ELSE s[j]
  <1> DEFINE t == Put(s, i, x)
  <1>1. Len(s) \in Nat /\ DOMAIN s = 1 .. Len(s) /\ \A j \in 1 .. Len(s) : s[j] \in S
    OBVIOUS
  <1>2. t = [j \in 1 .. Len(s) |-> IF j = i THEN x ELSE s[j]]
    BY <1>1 DEF Put
  <1> HIDE DEF t
  <1>3. t \in Seq(S) /\ Len(t) = Len(s)
    BY <1>1, <1>2
  <1> QED BY <1>1, <1>2, <1>3 DEF t

LEMMA RequestFields ==
    ASSUME NEW m \in ToMaster
    PROVE  /\ m.cmd \in Requests => m.conn \in ConnIDs
           /\ m.cmd \in Requests \ {"verifyPassword"} => m.acct \in Accounts
           /\ m.cmd = "createCharacter" => m.slot \in Slots \cup Beyond
           /\ m.cmd \in {"getCharacter", "dbSync"} => m.char \in Nat
           /\ m.cmd = "dbSync" => m.data \in Pieces
           /\ m.cmd = "updateSubpassword" => m.acct \in Accounts /\ m.set \in BOOLEAN
           /\ m.cmd = "updateSession" => m.acct \in Accounts /\ m.until \in 0 .. MaxNow + 1
  BY DEF ToMaster, Requests

LEMMA AnswerFields ==
    ASSUME NEW m \in ToWorld
    PROVE  /\ m.conn \in ConnIDs
           /\ m.cmd = "verifyLinks" => m.acct \in Accounts /\ m.row \in AccountRows
           /\ m.cmd = "getCharacters" => m.index \in [Slots -> Nat]
           /\ m.cmd = "createCharacter" => m.slot \in Slots \cup Beyond /\ m.char \in Nat
           /\ m.cmd = "getCharacter" =>
                 m.char \in Nat /\ (m.char # 0 => m.data \in Versions)
  BY DEF ToWorld

LEMMA RequestPackets ==
    /\ \A c \in ConnIDs : [cmd |-> "verifyPassword", conn |-> c] \in ToMaster
    /\ \A c \in ConnIDs, a \in Accounts :
          /\ [cmd |-> "getCharacters", conn |-> c, acct |-> a] \in ToMaster
          /\ \A s \in Slots \cup Beyond :
                [cmd |-> "createCharacter", conn |-> c, acct |-> a, slot |-> s] \in ToMaster
          /\ \A k \in Nat : [cmd |-> "getCharacter", conn |-> c, acct |-> a, char |-> k] \in ToMaster
    /\ \A a \in Accounts :
          /\ \A b \in BOOLEAN : [cmd |-> "updateSubpassword", acct |-> a, set |-> b] \in ToMaster
          /\ \A u \in 0 .. MaxNow + 1 : [cmd |-> "updateSession", acct |-> a, until |-> u] \in ToMaster
    /\ \A k \in Nat, d \in Pieces : [cmd |-> "dbSync", char |-> k, data |-> d] \in ToMaster
  BY DEF ToMaster

LEMMA AnswerPackets ==
    ASSUME NEW c \in ConnIDs
    PROVE  /\ [cmd |-> "verifyPassword", conn |-> c] \in ToWorld
           /\ \A a \in Accounts, r \in AccountRows :
                 [cmd |-> "verifyLinks", conn |-> c, acct |-> a, row |-> r] \in ToWorld
           /\ \A x \in [Slots -> Nat] : [cmd |-> "getCharacters", conn |-> c, index |-> x] \in ToWorld
           /\ \A s \in Slots \cup Beyond, k \in Nat :
                 [cmd |-> "createCharacter", conn |-> c, slot |-> s, char |-> k] \in ToWorld
           /\ \A k \in Nat, d \in Versions :
                 [cmd |-> "getCharacter", conn |-> c, char |-> k, data |-> d] \in ToWorld
           /\ [cmd |-> "getCharacter", conn |-> c, char |-> 0] \in ToWorld
  BY DEF ToWorld

-----------------------------------------------------------------------------
(* Client contexts: what a step leaves as it is.                           *)

ContextFine(c) == Proper(c) /\ (Loaded(c) => Backed(client[c].index, client[c].acct))

\* No connection and no character goes away; an open client keeps the account
\* it was bound to and the list it has loaded.
Keeps ==
    /\ Len(client) <= Len(client') /\ Len(rows) <= Len(rows')
    /\ \A k \in Chars : rows'[k].acct = rows[k].acct /\ rows'[k].slot = rows[k].slot
    /\ \A c \in Conns : Open(c)' =>
          /\ Open(c)
          /\ client[c].acct # NoAccount => client'[c].acct = client[c].acct
          /\ Loaded(c) => Loaded(c)'

LEMMA Chosen ==
    ASSUME client \in Seq(Clients), NEW c \in Conns
    PROVE  client[c] \in Clients /\ c \in Nat \ {0} /\ c <= Len(client)
  BY DEF Conns

LEMMA Known ==
    ASSUME TypeOK
    PROVE  /\ Conns \subseteq ConnIDs /\ Chars \subseteq Nat \ {0}
           /\ \A k \in Chars : /\ rows[k] \in CharacterRows
                               /\ newest[k] \in Versions
                               /\ unsaved[k] \in SUBSET Parts
           /\ DOMAIN newest = Chars /\ DOMAIN unsaved = Chars /\ DOMAIN rows = Chars
  <1>1. Conns \subseteq ConnIDs /\ Chars \subseteq Nat \ {0}
    BY StoreAssumption DEF TypeOK, ConnIDs, Conns, Chars
  <1>2. /\ rows \in Seq(CharacterRows) /\ newest \in Seq(Versions) /\ unsaved \in Seq(SUBSET Parts)
        /\ Len(newest) = Len(rows) /\ Len(unsaved) = Len(rows)
    BY DEF TypeOK
  <1> QED BY <1>1, <1>2 DEF Chars

LEMMA Changed ==
    ASSUME client \in Seq(Clients), NEW c \in Conns, NEW r \in Clients,
           client' = [client EXCEPT ![c] = r]
    PROVE  /\ client' \in Seq(Clients) /\ Len(client') = Len(client) /\ Conns' = Conns
           /\ client'[c] = r
           /\ \A d \in Conns : d # c => client'[d] = client[d]
  BY DEF Conns

\* A context of which only the requests or the rows it is not told of change.
SameBut(c) ==
    /\ client'[c].open = client[c].open /\ client'[c].acct = client[c].acct
    /\ client'[c].set = client[c].set /\ client'[c].index = client[c].index
    /\ client'[c].char = client[c].char /\ client'[c].has = client[c].has
    /\ client'[c].mask = client[c].mask

LEMMA SameFine ==
    ASSUME NEW c, ContextFine(c), SameBut(c), Chars \subseteq Chars',
           \A k \in Chars : rows'[k].acct = rows[k].acct /\ rows'[k].slot = rows[k].slot
    PROVE  ContextFine(c)'
  <1>1. Proper(c)'
    BY DEF ContextFine, Proper, SameBut, Open
  <1>2. Loaded(c)' => Backed(client[c].index, client[c].acct)'
    BY DEF ContextFine, SameBut, Loaded, Backed
  <1> QED BY <1>1, <1>2 DEF ContextFine

\* Clients of an account that do not hear of a row.
LEMMA UntoldKept ==
    ASSUME TypeOK, NEW a, NEW k \in Nat, NEW told, Untold(a, k, told)
    PROVE  /\ client' \in Seq(Clients) /\ Len(client') = Len(client) /\ Conns' = Conns
           /\ \A c \in Conns : SameBut(c) /\ client'[c].untold =
                 IF client[c].acct = a /\ c \notin told
                 THEN client[c].untold \cup {k} ELSE client[c].untold
           /\ \A c \in Conns : client'[c].waiting = client[c].waiting
                              /\ client'[c].missed = client[c].missed
  <1> DEFINE new(c) == IF client[c].acct = a /\ c \notin told
                       THEN [client[c] EXCEPT !.untold = @ \cup {k}] ELSE client[c]
  <1>1. client' = [c \in Conns |-> new(c)]
    BY DEF Untold
  <1>2. ASSUME NEW c \in Conns
        PROVE  /\ new(c) \in Clients /\ new(c).open = client[c].open /\ new(c).acct = client[c].acct
               /\ new(c).set = client[c].set
               /\ new(c).index = client[c].index /\ new(c).char = client[c].char
               /\ new(c).has = client[c].has /\ new(c).mask = client[c].mask
               /\ new(c).waiting = client[c].waiting /\ new(c).missed = client[c].missed
               /\ new(c).untold = IF client[c].acct = a /\ c \notin told
                                  THEN client[c].untold \cup {k} ELSE client[c].untold
    <2>1. client[c] \in Clients
      BY Chosen DEF TypeOK
    <2>2. CASE client[c].acct = a /\ c \notin told
      <3>1. new(c) = [client[c] EXCEPT !.untold = @ \cup {k}]
        BY <2>2
      <3> HIDE DEF new
      <3> QED BY <2>1, <2>2, <3>1 DEF Clients
    <2>3. CASE ~(client[c].acct = a /\ c \notin told)
      BY <2>1, <2>3
    <2> QED BY <2>2, <2>3
  <1> HIDE DEF new
  <1>3. Conns = 1 .. Len(client) /\ Len(client) \in Nat
    BY DEF Conns, TypeOK
  <1>4. client' \in Seq(Clients) /\ Len(client') = Len(client) /\ Conns' = Conns
    <2>1. \A c \in 1 .. Len(client) : new(c) \in Clients
      BY <1>2, <1>3
    <2>2. client' = [c \in 1 .. Len(client) |-> new(c)]
      BY <1>1, <1>3
    <2> QED BY ONLY <1>3, <2>1, <2>2 DEF Conns
  <1> QED BY <1>1, <1>2, <1>4 DEF SameBut

LEMMA StoreKept ==
    ASSUME StoreIInv, TypeOK', Keeps, OneRow',
           \A c \in Conns' : (c \in Conns /\ client'[c] = client[c]) \/ ContextFine(c)',
           \A m \in Range(toMaster') : m \in Range(toMaster) \/ OwnRequest(m)',
           \A m \in Range(toWorld') : m \in Range(toWorld) \/ OwnAnswer(m)',
           \A c \in Range(atAuth') : c \in Range(atAuth) \/ c \in Conns'
    PROVE  StoreIInv'
  <1>1. Conns \subseteq Conns' /\ Chars \subseteq Chars' /\ Chars \subseteq Nat \ {0}
    <2>1. client \in Seq(Clients) /\ client' \in Seq(Clients)
      BY DEF StoreIInv, TypeOK
    <2>2. /\ Len(rows) \in Nat /\ Len(rows') \in Nat
      BY DEF StoreIInv, TypeOK
    <2> QED BY <2>1, <2>2 DEF Keeps, Conns, Chars
  <1>2. \A x, a : Backed(x, a) => Backed(x, a)'
    BY <1>1 DEF Backed, Keeps
  <1>3. ASSUME NEW c \in Conns' PROVE ContextFine(c)'
    <2>1. CASE c \in Conns /\ client'[c] = client[c]
      <3>1. ContextFine(c)
        BY <2>1 DEF StoreIInv, IndexBacked, ContextFine
      <3>2. Proper(c)'
        BY <1>1, <2>1, <3>1 DEF ContextFine, Proper, Open
      <3>3. Loaded(c)' => Backed(client[c].index, client[c].acct)'
        BY <1>2, <2>1, <3>1 DEF ContextFine, Loaded
      <3> QED BY <2>1, <3>2, <3>3 DEF ContextFine
    <2> QED BY <2>1
  <1>4. ASSUME NEW m \in Range(toMaster), OwnRequest(m), m \in ToMaster PROVE OwnRequest(m)'
    <2>1. m.cmd \in Requests => m.conn \in Conns
      BY <1>4 DEF OwnRequest
    <2>2. m.cmd \in Requests \ {"verifyPassword"} => m.acct # NoAccount
      BY <1>4, RequestFields, StoreAssumption
    <2> QED BY <1>1, <1>4, <2>1, <2>2 DEF OwnRequest, Keeps, Requests
  <1>5. ASSUME NEW m \in Range(toWorld), OwnAnswer(m), m \in ToWorld PROVE OwnAnswer(m)'
    <2>1. m.conn \in Conns
      BY <1>5 DEF OwnAnswer
    <2>2. Loaded(m.conn) => client[m.conn].acct # NoAccount
      BY <2>1 DEF StoreIInv, Proper, Loaded
    <2>3. ASSUME m.cmd = "getCharacters", Open(m.conn)'
          PROVE  Backed(m.index, client[m.conn].acct)'
      <3>1. Open(m.conn) /\ client'[m.conn].acct = client[m.conn].acct
        BY <1>5, <2>1, <2>3 DEF OwnAnswer, Keeps
      <3>2. PICK a : a = client[m.conn].acct
        OBVIOUS
      <3>3. Backed(m.index, a)
        BY <1>5, <2>3, <3>1, <3>2 DEF OwnAnswer
      <3>4. Backed(m.index, a)'
        BY <1>2, <3>3
      <3> QED BY <3>1, <3>2, <3>4
    <2>6. m.cmd \in {"getCharacters", "getCharacter"} /\ Open(m.conn)' => client'[m.conn].acct # NoAccount
      BY <1>5, <2>1 DEF OwnAnswer, Keeps
    <2>7. m.cmd = "createCharacter" /\ m.char # 0 /\ Open(m.conn)' =>
              /\ Loaded(m.conn)' /\ m.char \in Chars'
              /\ rows'[m.char].acct = client'[m.conn].acct /\ rows'[m.char].slot = m.slot
      BY <1>1, <1>5, <2>1, <2>2 DEF OwnAnswer, Keeps
    <2>8. m.conn \in Conns' /\ (m.cmd = "getCharacter" => m.char \in Chars' \cup {0})
      BY <1>1, <1>5, <2>1 DEF OwnAnswer
    <2> QED BY <2>3, <2>6, <2>7, <2>8 DEF OwnAnswer
  <1>6. Owned'
    <2>1. /\ \A m \in Range(toMaster) : m \in ToMaster /\ OwnRequest(m)
          /\ \A m \in Range(toWorld) : m \in ToWorld /\ OwnAnswer(m)
          /\ \A c \in Range(atAuth) : c \in Conns
      BY DEF StoreIInv, TypeOK, Owned, Range
    <2> QED BY <1>1, <1>4, <1>5, <2>1 DEF Owned
  <1> QED BY <1>3, <1>6 DEF StoreIInv, IndexBacked, ContextFine

-----------------------------------------------------------------------------
(* StoreIInv holds at first and is kept by every step.                     *)

LEMMA StoreInit == ASSUME Init PROVE StoreIInv
  <1>1. /\ client = <<>> /\ link = "up" /\ toMaster = <<>> /\ toWorld = <<>> /\ atAuth = <<>>
        /\ Conns = {} /\ Range(toMaster) = {} /\ Range(toWorld) = {} /\ Range(atAuth) = {}
    BY DEF Init, Conns, Range
  <1>2. rows \in Seq(CharacterRows) /\ rows = Start /\ Chars = 1 .. Len(Start) /\ Len(Start) \in Nat
    <2> DEFINE S == [acct : Accounts, slot : Slots, data : Versions]
    <2>1. rows = Start /\ Start \in Seq(S)
      BY StoreAssumption DEF Init, Versions
    <2>2. S \subseteq CharacterRows
      BY DEF CharacterRows
    <2> HIDE DEF S
    <2>3. Start \in Seq(CharacterRows) /\ Len(Start) \in Nat
      <3>1. Len(Start) \in Nat /\ Start \in [1 .. Len(Start) -> S]
        BY ONLY <2>1
      <3>2. Start \in [1 .. Len(Start) -> CharacterRows]
        BY ONLY <2>2, <3>1
      <3> QED BY ONLY <3>1, <3>2
    <2> QED BY ONLY <2>1, <2>3 DEF Chars
  <1>3. \A k \in 1 .. Len(Start) : Start[k].data \in Versions
    <2> SUFFICES ASSUME NEW k \in 1 .. Len(Start) PROVE Start[k].data \in Versions
      OBVIOUS
    <2>1. Start[k] \in CharacterRows
      BY <1>2
    <2> QED BY <2>1 DEF CharacterRows
  <1>4. newest \in Seq(Versions) /\ Len(newest) = Len(rows)
    BY <1>2, <1>3 DEF Init
  <1>5. unsaved \in Seq(SUBSET Parts) /\ Len(unsaved) = Len(rows)
    BY <1>2 DEF Init
  <1>6. account \in [Accounts -> AccountRows] /\ now \in 0 .. MaxNow
    BY StoreAssumption DEF Init, AccountRows
  <1>7. shared \subseteq Chars /\ raced \subseteq Accounts
    BY DEF Init
  <1>8. TypeOK
    BY <1>1, <1>2, <1>4, <1>5, <1>6, <1>7, StoreAssumption DEF TypeOK, LinkStates
  <1>9. OneRow
    BY <1>2, StoreAssumption DEF OneRow
  <1> QED BY <1>1, <1>8, <1>9 DEF StoreIInv, IndexBacked, Owned

\* A step that changes neither characters nor contexts.
LEMMA SameContexts ==
    ASSUME StoreIInv, UNCHANGED <<client, rows>>
    PROVE  Keeps /\ OneRow' /\ Conns' = Conns /\ Chars' = Chars
           /\ \A c \in Conns' : c \in Conns /\ client'[c] = client[c]
  <1>1. Len(client) \in Nat /\ Len(rows) \in Nat
    BY DEF StoreIInv, TypeOK
  <1> QED BY <1>1 DEF StoreIInv, Keeps, OneRow, Conns, Chars, Open, Loaded

\* A step that changes one context.
LEMMA OneContext ==
    ASSUME StoreIInv, UNCHANGED rows, NEW c \in Conns, NEW r \in Clients,
           client' = [client EXCEPT ![c] = r],
           r.open => /\ Open(c)
                     /\ client[c].acct # NoAccount => r.acct = client[c].acct
                     /\ Loaded(c) => r.index # <<>>
    PROVE  /\ Keeps /\ OneRow' /\ Conns' = Conns /\ Chars' = Chars
           /\ client' \in Seq(Clients) /\ Len(client') <= MaxConns /\ client'[c] = r
           /\ \A d \in Conns' : d # c => d \in Conns /\ client'[d] = client[d]
  <1>1. client \in Seq(Clients) /\ Len(client) \in Nat /\ Len(rows) \in Nat /\ Len(client) <= MaxConns
    BY DEF StoreIInv, TypeOK
  <1>2. /\ client' \in Seq(Clients) /\ Len(client') = Len(client) /\ Conns' = Conns
        /\ client'[c] = r
        /\ \A d \in Conns : d # c => client'[d] = client[d]
    BY <1>1, Changed
  <1>3. Keeps
    BY <1>1, <1>2 DEF Keeps, Open, Loaded, Chars
  <1> QED BY <1>1, <1>2, <1>3 DEF StoreIInv, OneRow, Chars

\* What a break does to the contexts.
LEMMA BreakKept ==
    ASSUME TypeOK, Break
    PROVE  /\ client' \in Seq(Clients) /\ Len(client') = Len(client) /\ Conns' = Conns
           /\ \A c \in Conns : SameBut(c) /\ client'[c].waiting = client[c].waiting
                 /\ client'[c].missed = client[c].waiting
                 /\ client'[c].untold = client[c].untold
                       \cup {k \in Chars : \E m \in Range(toWorld) : Tells(m, c, k)}
  <1> DEFINE lost(c) == {k \in Chars : \E m \in Range(toWorld) : Tells(m, c, k)}
             new(c) == [client[c] EXCEPT !.missed = client[c].waiting, !.untold = @ \cup lost(c)]
  <1>1. client' = [c \in Conns |-> new(c)]
    BY DEF Break
  <1>2. \A c \in Conns : lost(c) \in SUBSET Nat
    BY Known
  <1> HIDE DEF lost
  <1>3. ASSUME NEW c \in Conns
        PROVE  /\ new(c) \in Clients /\ new(c).open = client[c].open /\ new(c).acct = client[c].acct
               /\ new(c).set = client[c].set
               /\ new(c).index = client[c].index /\ new(c).char = client[c].char
               /\ new(c).has = client[c].has /\ new(c).mask = client[c].mask
               /\ new(c).waiting = client[c].waiting /\ new(c).missed = client[c].waiting
               /\ new(c).untold = client[c].untold \cup lost(c)
    <2>1. client[c] \in Clients
      BY Chosen DEF TypeOK
    <2>2. client[c].untold \cup lost(c) \in SUBSET Nat
      BY <1>2, <2>1 DEF Clients
    <2> QED BY <2>1, <2>2 DEF Clients
  <1> HIDE DEF new
  <1>4. Conns = 1 .. Len(client) /\ Len(client) \in Nat
    BY DEF Conns, TypeOK
  <1>5. client' \in Seq(Clients) /\ Len(client') = Len(client) /\ Conns' = Conns
    BY <1>1, <1>3, <1>4 DEF Conns
  <1> QED BY <1>1, <1>3, <1>5 DEF SameBut, lost

LEMMA StoreBreak == ASSUME StoreIInv, Break PROVE StoreIInv'
  <1>1. TypeOK
    BY DEF StoreIInv
  <1>4. Len(client) \in Nat /\ Len(client) <= MaxConns
    BY <1>1 DEF Conns, TypeOK
  <1>5. /\ client' \in Seq(Clients) /\ Len(client') = Len(client) /\ Conns' = Conns
        /\ \A c \in Conns : SameBut(c)
    BY <1>1, BreakKept
  <1>6. /\ toMaster' = <<>> /\ toWorld' = <<>> /\ link' = "down"
        /\ Range(toMaster') = {} /\ Range(toWorld') = {}
        /\ UNCHANGED <<atAuth, account, rows, now, newest, shared>> /\ Chars' = Chars
    <2>1. /\ toMaster' = <<>> /\ toWorld' = <<>> /\ link' = "down"
          /\ UNCHANGED <<atAuth, account, rows, now, newest, shared>>
      BY DEF Break, db
    <2> QED BY ONLY <2>1 DEF Range, Chars
  <1>7. unsaved' \in Seq(SUBSET Parts) /\ Len(unsaved') = Len(unsaved)
    <2>1. \A k \in Chars : unsaved[k] \in SUBSET Parts
      BY <1>1, Known
    <2>2. \A m \in Range(toMaster) : m.cmd = "dbSync" => DOMAIN m.data \in SUBSET Parts
      BY <1>1, RequestFields DEF TypeOK, Range, Pieces
    <2> DEFINE lost(k) == unsaved[k] \cup UNION {DOMAIN m.data : m \in {x \in Range(toMaster) :
                                x.cmd = "dbSync" /\ x.char = k}}
    <2>3. \A k \in Chars : lost(k) \in SUBSET Parts
      BY <2>1, <2>2
    <2>4. unsaved' = [k \in Chars |-> lost(k)]
      BY DEF Break
    <2>5. Chars = 1 .. Len(unsaved) /\ Len(unsaved) \in Nat
      BY <1>1 DEF TypeOK, Chars
    <2> HIDE DEF lost
    <2> QED BY ONLY <2>3, <2>4, <2>5
  <1>8. raced' \subseteq Accounts
    BY <1>1 DEF Break, TypeOK
  <1>9. TypeOK'
    BY <1>1, <1>4, <1>5, <1>6, <1>7, <1>8 DEF TypeOK, LinkStates
  <1>10. Keeps
    <2>1. Len(rows) \in Nat
      BY <1>1 DEF TypeOK
    <2> QED BY <1>4, <1>5, <1>6, <2>1 DEF Keeps, Open, Loaded, SameBut
  <1>11. ASSUME NEW c \in Conns' PROVE ContextFine(c)'
    <2>1. ContextFine(c) /\ c \in Conns
      BY <1>5 DEF StoreIInv, IndexBacked, ContextFine
    <2> QED BY <1>5, <1>6, <2>1, SameFine
  <1>12. OneRow'
    BY <1>6 DEF StoreIInv, OneRow
  <1> QED BY <1>6, <1>9, <1>10, <1>11, <1>12, StoreKept

LEMMA StoreConnect == ASSUME StoreIInv, OnConnect PROVE StoreIInv'
  <1>1. client \in Seq(Clients) /\ Len(client) \in Nat /\ Len(client) < MaxConns
    BY DEF StoreIInv, TypeOK, OnConnect
  <1>2. NewClient \in Clients
    BY StoreAssumption DEF NewClient, Clients
  <1>3. /\ client' \in Seq(Clients) /\ Len(client') = Len(client) + 1
        /\ client'[Len(client) + 1] = NewClient
        /\ \A c \in Conns : client'[c] = client[c]
        /\ Conns' = Conns \cup {Len(client) + 1}
    BY <1>1, <1>2 DEF OnConnect, Conns
  <1>4. UNCHANGED <<link, toMaster, toWorld, atAuth, account, rows, now, newest, unsaved, shared, raced>>
    BY DEF OnConnect, db, history
  <1>5. TypeOK'
    BY <1>1, <1>3, <1>4, StoreAssumption DEF StoreIInv, TypeOK, Chars
  <1>6. Keeps
    <2>1. Len(rows) \in Nat
      BY DEF StoreIInv, TypeOK
    <2> QED BY <1>1, <1>3, <1>4, <2>1 DEF Keeps, Open, Loaded
  <1>7. \A c \in Conns' : c \in Conns \/ ContextFine(c)'
    BY <1>3 DEF ContextFine, Proper, Open, Loaded, NewClient
  <1>8. OneRow'
    BY <1>4 DEF StoreIInv, OneRow, Chars
  <1> QED BY <1>3, <1>4, <1>5, <1>6, <1>7, <1>8, StoreKept

LEMMA StoreHandOver ==
    ASSUME StoreIInv, NEW c \in Conns, NEW a \in Accounts, OnAuthVerifyLinks(c, a)
    PROVE  StoreIInv'
  <1> DEFINE m == [cmd |-> "verifyLinks", conn |-> c, acct |-> a, row |-> account[a]]
  <1>1. UNCHANGED <<client, link, toMaster, atAuth, account, rows, now, newest, unsaved, shared>>
        /\ toWorld' = Append(toWorld, m)
    BY DEF OnAuthVerifyLinks, db, Answer
  <1>2. m \in ToWorld /\ m.cmd = "verifyLinks" /\ m.conn = c
    BY Known, AnswerPackets DEF StoreIInv, TypeOK
  <1> HIDE DEF m
  <1>3. toWorld \in Seq(ToWorld) /\ raced' \subseteq Accounts
    BY DEF StoreIInv, TypeOK, OnAuthVerifyLinks
  <1>4. toWorld' \in Seq(ToWorld) /\ Range(toWorld') = Range(toWorld) \cup {m}
    BY <1>1, <1>2, <1>3, Appended
  <1>5. TypeOK'
    BY <1>1, <1>3, <1>4 DEF StoreIInv, TypeOK, Chars
  <1>6. /\ Keeps /\ OneRow' /\ Conns' = Conns
        /\ \A d \in Conns' : d \in Conns /\ client'[d] = client[d]
    BY <1>1, SameContexts
  <1>7. \A n : n = m => OwnAnswer(n)'
    BY <1>2, <1>6 DEF OwnAnswer
  <1> QED BY <1>1, <1>4, <1>5, <1>6, <1>7, StoreKept

\* A record that is let go of leaves its marks.
LEMMA LetGoKept ==
    ASSUME TypeOK, NEW c \in Conns, LetGo(c)
    PROVE  unsaved' \in Seq(SUBSET Parts) /\ Len(unsaved') = Len(unsaved)
  <1>1. client[c] \in Clients /\ unsaved \in Seq(SUBSET Parts)
    BY Chosen DEF TypeOK
  <1>2. client[c].mask \in SUBSET Parts
    BY <1>1 DEF Clients
  <1> QED BY <1>1, <1>2 DEF LetGo

LEMMA StoreLeave == ASSUME StoreIInv, NEW c \in Conns, Leave(c) PROVE StoreIInv'
  <1> DEFINE r == [NewClient EXCEPT !.open = FALSE]
  <1>1. r \in Clients /\ ~r.open /\ r.acct = NoAccount /\ r.index = <<>> /\ r.char = 0 /\ r.mask = {}
    <2>1. NewClient \in Clients
      BY StoreAssumption DEF NewClient, Clients
    <2>2. r \in Clients /\ ~r.open /\ r.acct = NewClient.acct /\ r.index = NewClient.index
          /\ r.char = NewClient.char /\ r.mask = NewClient.mask
      BY <2>1 DEF Clients
    <2> QED BY <2>2 DEF NewClient
  <1>2. /\ client' = [client EXCEPT ![c] = r]
        /\ UNCHANGED <<link, toMaster, toWorld, atAuth, account, rows, now, newest, shared, raced>>
    BY DEF Leave, db
  <1> HIDE DEF r
  <1>3. /\ Keeps /\ OneRow' /\ Conns' = Conns /\ Chars' = Chars
        /\ client' \in Seq(Clients) /\ Len(client') <= MaxConns /\ client'[c] = r
        /\ \A d \in Conns' : d # c => d \in Conns /\ client'[d] = client[d]
    BY <1>1, <1>2, OneContext
  <1>4. unsaved' \in Seq(SUBSET Parts) /\ Len(unsaved') = Len(unsaved)
    BY LetGoKept DEF StoreIInv, Leave
  <1>5. TypeOK'
    BY <1>2, <1>3, <1>4 DEF StoreIInv, TypeOK
  <1>6. ContextFine(c)'
    BY <1>1, <1>3 DEF ContextFine, Proper, Open, Loaded
  <1> QED BY <1>2, <1>3, <1>5, <1>6, StoreKept

\* A client acts: it keeps its account, list and character, and may send.
LEMMA StoreAct ==
    ASSUME StoreIInv, NEW c \in Conns, NEW r \in Clients, client' = [client EXCEPT ![c] = r],
           r.open = client[c].open, r.acct = client[c].acct, r.index = client[c].index,
           r.char = client[c].char,
           r.char = 0 => r.mask = {}, r.char # 0 => r.has \in Versions,
           UNCHANGED <<link, toWorld, atAuth, account, rows, now>>,
           shared' \subseteq Chars, raced' \subseteq Accounts,
           newest' \in Seq(Versions), Len(newest') = Len(newest),
           unsaved' \in Seq(SUBSET Parts), Len(unsaved') = Len(unsaved),
           NEW m \in ToMaster, OwnRequest(m),
           toMaster' = toMaster \/ toMaster' = Append(toMaster, m)
    PROVE  StoreIInv'
  <1>1. /\ Keeps /\ OneRow' /\ Conns' = Conns /\ Chars' = Chars
        /\ client' \in Seq(Clients) /\ Len(client') <= MaxConns /\ client'[c] = r
        /\ \A d \in Conns' : d # c => d \in Conns /\ client'[d] = client[d]
    BY OneContext DEF Open, Loaded
  <1>2. /\ toMaster' \in Seq(ToMaster)
        /\ \A n \in Range(toMaster') : n \in Range(toMaster) \/ n = m
    <2>1. toMaster \in Seq(ToMaster)
      BY DEF StoreIInv, TypeOK
    <2>2. Append(toMaster, m) \in Seq(ToMaster) /\ Range(Append(toMaster, m)) = Range(toMaster) \cup {m}
      BY <2>1, Appended
    <2>3. CASE toMaster' = toMaster
      BY <2>1, <2>3
    <2>4. CASE toMaster' = Append(toMaster, m)
      BY <2>2, <2>4
    <2> QED BY <2>3, <2>4
  <1>3. TypeOK'
    BY <1>1, <1>2 DEF StoreIInv, TypeOK
  <1>4. ContextFine(c)'
    <2>1. ContextFine(c)
      BY DEF StoreIInv, IndexBacked, ContextFine
    <2> QED BY <1>1, <2>1 DEF ContextFine, Proper, Open, Loaded, Backed, Versions
  <1>5. OwnRequest(m)'
    BY <1>1 DEF OwnRequest, Open, Loaded, Requests
  <1> QED BY <1>1, <1>2, <1>3, <1>4, <1>5, StoreKept

LEMMA ContextIs ==
    ASSUME StoreIInv, NEW c \in Conns
    PROVE  /\ client[c] \in Clients /\ Proper(c) /\ c \in ConnIDs
           /\ client[c].char # 0 => client[c].char \in Chars /\ client[c].has \in Versions
           /\ Loaded(c) => client[c].acct \in Accounts
           /\ client[c].acct # NoAccount => client[c].acct \in Accounts
  <1>1. client[c] \in Clients /\ Proper(c)
    BY Chosen DEF StoreIInv, TypeOK
  <1>2. c \in ConnIDs
    BY Known DEF StoreIInv
  <1>3. client[c].acct \in Accounts \cup {NoAccount}
    BY <1>1 DEF Clients
  <1> QED BY <1>1, <1>2, <1>3 DEF Proper, Loaded, Versions

LEMMA StoreRequest ==
    ASSUME StoreIInv, NEW c \in Conns, NEW m \in ToMaster, Request(c, m),
           m.cmd \in Requests, OwnRequest(m), shared' \subseteq Chars
    PROVE  StoreIInv'
  <1> DEFINE r == [client[c] EXCEPT !.waiting = @ \cup {m.cmd},
                      !.missed = IF link = "down" THEN @ \cup {m.cmd} ELSE @ \ {m.cmd}]
  <1>1. /\ client' = [client EXCEPT ![c] = r]
        /\ toMaster' = (IF link = "down" THEN toMaster ELSE Append(toMaster, m))
        /\ UNCHANGED <<link, toWorld, atAuth, account, rows, now, newest, unsaved, raced>>
    BY DEF Request, Send, db
  <1>2. client[c] \in Clients /\ Proper(c)
    BY ContextIs
  <1>3. r \in Clients
    BY <1>2 DEF Clients
  <1>4. /\ r.open = client[c].open /\ r.acct = client[c].acct /\ r.index = client[c].index
        /\ r.char = client[c].char /\ r.has = client[c].has /\ r.mask = client[c].mask
    BY <1>2 DEF Clients
  <1>5. (r.char = 0 => r.mask = {}) /\ (r.char # 0 => r.has \in Versions)
    BY <1>2, <1>4 DEF Proper, Versions
  <1>6. newest' \in Seq(Versions) /\ unsaved' \in Seq(SUBSET Parts) /\ raced' \subseteq Accounts
    BY <1>1 DEF StoreIInv, TypeOK
  <1> HIDE DEF r
  <1> QED BY <1>1, <1>3, <1>4, <1>5, <1>6, StoreAct

LEMMA StoreIndex ==
    ASSUME StoreIInv, NEW c \in Conns,
           \/ GetCharacters(c) \/ VerifyCredentials(c)
           \/ \E s \in Slots \cup Beyond : CreateCharacter(c, s)
           \/ \E k \in Chars : Initialize(c, k)
    PROVE  StoreIInv'
  <1>1. /\ c \in ConnIDs /\ (Loaded(c) => client[c].acct \in Accounts)
        /\ client[c].acct # NoAccount => client[c].acct \in Accounts
    BY ContextIs
  <1>2. shared \subseteq Chars /\ Chars \subseteq Nat
    BY Known DEF StoreIInv, TypeOK
  <1>3. CASE GetCharacters(c)
    <2> DEFINE m == [cmd |-> "getCharacters", conn |-> c, acct |-> client[c].acct]
    <2>1. m \in ToMaster /\ m.cmd \in Requests /\ OwnRequest(m)
      BY <1>1, <1>3, RequestPackets DEF GetCharacters, OwnRequest, Requests
    <2>2. Request(c, m) /\ shared' \subseteq Chars
      BY <1>2, <1>3 DEF GetCharacters
    <2> HIDE DEF m
    <2> QED BY <2>1, <2>2, StoreRequest
  <1>4. CASE VerifyCredentials(c)
    <2> DEFINE m == [cmd |-> "verifyPassword", conn |-> c]
    <2>1. m \in ToMaster /\ m.cmd \in Requests /\ OwnRequest(m)
      BY <1>1, RequestPackets DEF OwnRequest, Requests
    <2>2. Request(c, m) /\ shared' \subseteq Chars
      BY <1>2, <1>4 DEF VerifyCredentials
    <2> HIDE DEF m
    <2> QED BY <2>1, <2>2, StoreRequest
  <1>5. ASSUME NEW s \in Slots \cup Beyond, CreateCharacter(c, s) PROVE StoreIInv'
    <2> DEFINE m == [cmd |-> "createCharacter", conn |-> c, acct |-> client[c].acct, slot |-> s]
    <2>1. m \in ToMaster /\ m.cmd \in Requests /\ OwnRequest(m)
      BY <1>1, <1>5, RequestPackets DEF CreateCharacter, OwnRequest, Requests
    <2>2. Request(c, m) /\ shared' \subseteq Chars
      BY <1>2, <1>5 DEF CreateCharacter
    <2> HIDE DEF m
    <2> QED BY <2>1, <2>2, StoreRequest
  <1>6. ASSUME NEW k \in Chars, Initialize(c, k) PROVE StoreIInv'
    <2> DEFINE m == [cmd |-> "getCharacter", conn |-> c, acct |-> client[c].acct, char |-> k]
    <2>1. m \in ToMaster /\ m.cmd \in Requests /\ OwnRequest(m)
      BY <1>1, <1>2, <1>6, RequestPackets DEF Initialize, OwnRequest, Requests
    <2>2. Request(c, m) /\ shared' \subseteq Chars
      BY <1>2, <1>6 DEF Initialize
    <2> HIDE DEF m
    <2> QED BY <2>1, <2>2, StoreRequest
  <1> QED BY <1>3, <1>4, <1>5, <1>6

\* What a client decides about its sub-password keeps the rest of its context.
LEMMA SubpasswordStep ==
    ASSUME StoreIInv, NEW c \in Conns,
           \/ CreateSubpassword(c) \/ VerifyDeleteSubpassword(c) \/ DeleteSubpassword(c)
           \/ \E hours \in {0, 1} : VerifySubpassword(c, hours)
    PROVE  /\ UNCHANGED <<link, toWorld, atAuth, account, rows, now, newest, unsaved, shared>>
           /\ raced' \subseteq Accounts
           /\ \E m \in ToMaster :
                 /\ OwnRequest(m) /\ (toMaster' = toMaster \/ toMaster' = Append(toMaster, m))
                 /\ m.cmd \in {"updateSubpassword", "updateSession"}
           /\ \E r \in Clients :
                 /\ client' = [client EXCEPT ![c] = r]
                 /\ r.open = client[c].open /\ r.acct = client[c].acct /\ r.index = client[c].index
                 /\ r.char = client[c].char /\ r.has = client[c].has /\ r.mask = client[c].mask
                 /\ r.waiting = client[c].waiting /\ r.missed = client[c].missed
                 /\ r.untold = client[c].untold
  <1>1. /\ client[c] \in Clients /\ Proper(c)
        /\ client[c].char # 0 => client[c].has \in Versions
    BY ContextIs
  <1>2. Loaded(c)
    BY DEF CreateSubpassword, VerifyDeleteSubpassword, DeleteSubpassword, VerifySubpassword, Local
  <1>3. client[c].acct \in Accounts
    BY <1>2, ContextIs
  <1>4. now \in 0 .. MaxNow /\ MaxNow \in Nat /\ raced \subseteq Accounts
    BY StoreAssumption DEF StoreIInv, TypeOK
  <1>5. UNCHANGED <<link, toWorld, atAuth, account, rows, now, newest, unsaved, shared>>
    BY DEF CreateSubpassword, VerifyDeleteSubpassword, DeleteSubpassword, VerifySubpassword,
           Unchanged, db
  <1>6. newest' \in Seq(Versions) /\ unsaved' \in Seq(SUBSET Parts) /\ shared' \subseteq Chars
    BY <1>5 DEF StoreIInv, TypeOK
  <1>7. raced' \subseteq Accounts
    BY <1>3, <1>4
    DEF CreateSubpassword, VerifyDeleteSubpassword, DeleteSubpassword, VerifySubpassword,
        SaveSubpassword
  <1>8. \E m \in ToMaster :
           /\ OwnRequest(m) /\ (toMaster' = toMaster \/ toMaster' = Append(toMaster, m))
           /\ m.cmd \in {"updateSubpassword", "updateSession"}
    <2>1. ASSUME NEW b \in BOOLEAN,
                 Send([cmd |-> "updateSubpassword", acct |-> client[c].acct, set |-> b])
          PROVE  <1>8
      <3> DEFINE m == [cmd |-> "updateSubpassword", acct |-> client[c].acct, set |-> b]
      <3>1. m \in ToMaster /\ OwnRequest(m) /\ m.cmd \in {"updateSubpassword", "updateSession"}
        BY <1>3, RequestPackets DEF OwnRequest, Requests
      <3>2. toMaster' = toMaster \/ toMaster' = Append(toMaster, m)
        BY <2>1 DEF Send
      <3> HIDE DEF m
      <3> QED BY <3>1, <3>2
    <2>2. ASSUME NEW u \in 0 .. MaxNow + 1,
                 Send([cmd |-> "updateSession", acct |-> client[c].acct, until |-> u])
          PROVE  <1>8
      <3> DEFINE m == [cmd |-> "updateSession", acct |-> client[c].acct, until |-> u]
      <3>1. m \in ToMaster /\ OwnRequest(m) /\ m.cmd \in {"updateSubpassword", "updateSession"}
        BY <1>3, RequestPackets DEF OwnRequest, Requests
      <3>2. toMaster' = toMaster \/ toMaster' = Append(toMaster, m)
        BY <2>2 DEF Send
      <3> HIDE DEF m
      <3> QED BY <3>1, <3>2
    <2>3. ASSUME toMaster' = toMaster PROVE <1>8
      <3> DEFINE m == [cmd |-> "updateSubpassword", acct |-> client[c].acct, set |-> TRUE]
      <3>1. m \in ToMaster /\ OwnRequest(m) /\ m.cmd \in {"updateSubpassword", "updateSession"}
        BY <1>3, RequestPackets DEF OwnRequest, Requests
      <3> HIDE DEF m
      <3> QED BY <2>3, <3>1
    <2>4. CASE CreateSubpassword(c) \/ DeleteSubpassword(c)
      BY <2>1, <2>4 DEF CreateSubpassword, DeleteSubpassword, SaveSubpassword
    <2>5. CASE VerifyDeleteSubpassword(c)
      BY <2>3, <2>5 DEF VerifyDeleteSubpassword
    <2>6. ASSUME NEW hours \in {0, 1}, VerifySubpassword(c, hours) PROVE <1>8
      <3>1. now + hours \in 0 .. MaxNow + 1
        BY <1>4
      <3> QED BY <2>2, <2>6, <3>1 DEF VerifySubpassword
    <2> QED BY <2>4, <2>5, <2>6
  <1>9. \E r \in Clients :
           /\ client' = [client EXCEPT ![c] = r]
           /\ r.open = client[c].open /\ r.acct = client[c].acct /\ r.index = client[c].index
           /\ r.char = client[c].char /\ r.has = client[c].has /\ r.mask = client[c].mask
           /\ r.waiting = client[c].waiting /\ r.missed = client[c].missed
           /\ r.untold = client[c].untold
    <2>1. ASSUME NEW b \in BOOLEAN, client' = [client EXCEPT ![c].set = b] PROVE <1>9
      <3> DEFINE r == [client[c] EXCEPT !.set = b]
      <3>1. /\ r \in Clients
            /\ r.open = client[c].open /\ r.acct = client[c].acct /\ r.index = client[c].index
            /\ r.char = client[c].char /\ r.has = client[c].has /\ r.mask = client[c].mask
            /\ r.waiting = client[c].waiting /\ r.missed = client[c].missed
            /\ r.untold = client[c].untold
        BY <1>1 DEF Clients
      <3>2. client' = [client EXCEPT ![c] = r]
        BY <2>1
      <3> HIDE DEF r
      <3> QED BY <3>1, <3>2
    <2>2. ASSUME NEW u \in 0 .. MaxNow + 1, client' = [client EXCEPT ![c].until = u] PROVE <1>9
      <3> DEFINE r == [client[c] EXCEPT !.until = u]
      <3>1. /\ r \in Clients
            /\ r.open = client[c].open /\ r.acct = client[c].acct /\ r.index = client[c].index
            /\ r.char = client[c].char /\ r.has = client[c].has /\ r.mask = client[c].mask
            /\ r.waiting = client[c].waiting /\ r.missed = client[c].missed
            /\ r.untold = client[c].untold
        BY <1>1 DEF Clients
      <3>2. client' = [client EXCEPT ![c] = r]
        BY <2>2
      <3> HIDE DEF r
      <3> QED BY <3>1, <3>2
    <2>3. CASE CreateSubpassword(c) \/ DeleteSubpassword(c)
      BY <2>1, <2>3 DEF CreateSubpassword, DeleteSubpassword
    <2>4. ASSUME NEW hours \in {0, 1}, VerifySubpassword(c, hours) PROVE <1>9
      <3>1. now + hours \in 0 .. MaxNow + 1
        BY <1>4
      <3> QED BY <2>2, <2>4, <3>1 DEF VerifySubpassword
    <2>5. CASE VerifyDeleteSubpassword(c)
      <3> DEFINE r == [client[c] EXCEPT !.deletable = TRUE,
                                        !.until = IF @ > now THEN @ ELSE now + 1]
      <3>1. client[c].until \in 0 .. MaxNow + 1 /\ now + 1 \in 0 .. MaxNow + 1
        BY <1>1, <1>4 DEF Clients
      <3>2. /\ r \in Clients
            /\ r.open = client[c].open /\ r.acct = client[c].acct /\ r.index = client[c].index
            /\ r.char = client[c].char /\ r.has = client[c].has /\ r.mask = client[c].mask
            /\ r.waiting = client[c].waiting /\ r.missed = client[c].missed
            /\ r.untold = client[c].untold
        BY <1>1, <3>1 DEF Clients
      <3>3. client' = [client EXCEPT ![c] = r]
        BY <2>5 DEF VerifyDeleteSubpassword
      <3> HIDE DEF r
      <3> QED BY <3>2, <3>3
    <2> QED BY <2>3, <2>4, <2>5
  <1> QED BY <1>5, <1>6, <1>7, <1>8, <1>9

LEMMA StoreSubpassword ==
    ASSUME StoreIInv, NEW c \in Conns,
           \/ CreateSubpassword(c) \/ VerifyDeleteSubpassword(c) \/ DeleteSubpassword(c)
           \/ \E hours \in {0, 1} : VerifySubpassword(c, hours)
    PROVE  StoreIInv'
  <1>1. /\ UNCHANGED <<link, toWorld, atAuth, account, rows, now, newest, unsaved, shared>>
        /\ raced' \subseteq Accounts
    BY SubpasswordStep
  <1>2. PICK m \in ToMaster :
           OwnRequest(m) /\ (toMaster' = toMaster \/ toMaster' = Append(toMaster, m))
    BY SubpasswordStep
  <1>3. PICK r \in Clients :
           /\ client' = [client EXCEPT ![c] = r]
           /\ r.open = client[c].open /\ r.acct = client[c].acct /\ r.index = client[c].index
           /\ r.char = client[c].char /\ r.has = client[c].has /\ r.mask = client[c].mask
    BY SubpasswordStep
  <1>4. (r.char = 0 => r.mask = {}) /\ (r.char # 0 => r.has \in Versions)
    BY <1>3, ContextIs DEF Proper
  <1>5. newest' \in Seq(Versions) /\ unsaved' \in Seq(SUBSET Parts) /\ shared' \subseteq Chars
    BY <1>1 DEF StoreIInv, TypeOK
  <1> QED BY <1>1, <1>2, <1>3, <1>4, <1>5, StoreAct

LEMMA StorePlay ==
    ASSUME StoreIInv, NEW c \in Conns, NEW p \in Parts, Play(c, p)
    PROVE  StoreIInv'
  <1> DEFINE k == client[c].char
             r == [client[c] EXCEPT !.has[p] = newest[k][p] + 1, !.mask = @ \cup {p}]
             v == newest[k][p] + 1
             m == [cmd |-> "verifyPassword", conn |-> c]
  <1>1. client[c] \in Clients /\ c \in ConnIDs /\ k \in Chars /\ client[c].has \in Versions
    BY ContextIs DEF Play
  <1>2. newest[k] \in Versions /\ newest[k][p] < MaxVersion /\ newest \in Seq(Versions)
    BY <1>1, Known DEF Play, StoreIInv, TypeOK
  <1>3. v \in 0 .. MaxVersion
    BY SMTT(30), <1>2, StoreAssumption DEF Versions
  <1>4. [client[c].has EXCEPT ![p] = v] \in Versions /\ [newest[k] EXCEPT ![p] = v] \in Versions
    BY <1>1, <1>2, <1>3 DEF Versions
  <1>5. /\ r \in Clients /\ r.open = client[c].open /\ r.acct = client[c].acct
        /\ r.index = client[c].index /\ r.char = client[c].char
        /\ r.has = [client[c].has EXCEPT ![p] = v]
    BY <1>1, <1>4 DEF Clients
  <1>6. newest' \in Seq(Versions) /\ Len(newest') = Len(newest)
    <2>1. newest' = Put(newest, k, [newest[k] EXCEPT ![p] = v])
      BY DEF Play, Put
    <2> HIDE DEF k, v
    <2> QED BY <1>2, <1>4, <2>1, Replaced
  <1>7. /\ client' = [client EXCEPT ![c] = r]
        /\ UNCHANGED <<link, toMaster, toWorld, atAuth, account, rows, now, unsaved, shared, raced>>
    BY DEF Play, db
  <1>8. m \in ToMaster /\ OwnRequest(m)
    BY <1>1, RequestPackets DEF OwnRequest
  <1>9. unsaved' \in Seq(SUBSET Parts) /\ shared' \subseteq Chars /\ raced' \subseteq Accounts
    BY <1>7 DEF StoreIInv, TypeOK
  <1>10. client[c].char # 0
    BY DEF Play
  <1> HIDE DEF r, m, v
  <1> QED BY <1>1, <1>4, <1>5, <1>6, <1>7, <1>8, <1>9, <1>10, StoreAct

LEMMA StoreSync == ASSUME StoreIInv, NEW c \in Conns, SyncDB(c) PROVE StoreIInv'
  <1> DEFINE k == client[c].char
             r == [client[c] EXCEPT !.mask = {}]
             m == [cmd |-> "dbSync", char |-> k, data |-> Marked(c)]
  <1>1. client[c] \in Clients /\ client[c].mask # {} /\ Proper(c)
    BY ContextIs DEF SyncDB
  <1>2. k # 0 /\ k \in Chars /\ k \in Nat /\ client[c].has \in Versions /\ client[c].mask \in SUBSET Parts
    BY <1>1, ContextIs, Known DEF Proper, Clients, StoreIInv
  <1>3. Marked(c) \in Pieces
    BY <1>2 DEF Marked, Pieces, Versions
  <1>4. m \in ToMaster /\ OwnRequest(m)
    BY <1>2, <1>3, RequestPackets DEF OwnRequest, Requests
  <1>5. /\ r \in Clients /\ r.open = client[c].open /\ r.acct = client[c].acct
        /\ r.index = client[c].index /\ r.char = client[c].char
        /\ r.has = client[c].has /\ r.mask = {}
    BY <1>1 DEF Clients
  <1>6. /\ client' = [client EXCEPT ![c] = r]
        /\ toMaster' = toMaster \/ toMaster' = Append(toMaster, m)
        /\ UNCHANGED <<link, toWorld, atAuth, account, rows, now, newest, shared, raced>>
    BY DEF SyncDB, Send, db
  <1>7. unsaved' \in Seq(SUBSET Parts) /\ Len(unsaved') = Len(unsaved)
    <2>1. unsaved \in Seq(SUBSET Parts) /\ unsaved[k] \in SUBSET Parts
      BY <1>2, Known DEF StoreIInv, TypeOK
    <2>2. unsaved[k] \cup client[c].mask \in SUBSET Parts
      BY <1>2, <2>1
    <2>3. unsaved' = unsaved \/ unsaved' = Put(unsaved, k, unsaved[k] \cup client[c].mask)
      BY DEF SyncDB, Put
    <2> HIDE DEF k
    <2> QED BY <2>1, <2>2, <2>3, Replaced
  <1>8. newest' \in Seq(Versions) /\ shared' \subseteq Chars /\ raced' \subseteq Accounts
    BY <1>6 DEF StoreIInv, TypeOK
  <1> HIDE DEF r, m
  <1> QED BY <1>2, <1>4, <1>5, <1>6, <1>7, <1>8, StoreAct

LEMMA StoreTime ==
    ASSUME StoreIInv, TimePasses \/ Reconnect
    PROVE  StoreIInv'
  <1>1. /\ UNCHANGED <<client, toMaster, toWorld, atAuth, account, rows, newest, unsaved, shared, raced>>
        /\ link' \in LinkStates /\ now' \in 0 .. MaxNow
    BY StoreAssumption DEF TimePasses, Reconnect, StoreIInv, TypeOK, LinkStates, db, history
  <1>2. Keeps /\ OneRow' /\ Conns' = Conns /\ Chars' = Chars
           /\ \A c \in Conns' : c \in Conns /\ client'[c] = client[c]
    BY <1>1, SameContexts
  <1>3. TypeOK'
    BY <1>1, <1>2 DEF StoreIInv, TypeOK
  <1> QED BY <1>1, <1>2, <1>3, StoreKept

\* MasterSvr lists the characters of an account as they are.
LEMMA CharactersBacked ==
    ASSUME TypeOK, NEW a
    PROVE  Characters(a) \in [Slots -> Nat] /\ Backed(Characters(a), a)
  <1>1. Chars \subseteq Nat \ {0}
    BY Known
  <1>2. ASSUME NEW s \in Slots
        PROVE  /\ Characters(a)[s] \in Nat
               /\ Characters(a)[s] # 0 =>
                    /\ Characters(a)[s] \in Chars
                    /\ rows[Characters(a)[s]].acct = a /\ rows[Characters(a)[s]].slot = s
    <2> DEFINE is(k) == rows[k].acct = a /\ rows[k].slot = s
    <2>1. Characters(a)[s] = IF \E k \in Chars : is(k) THEN CHOOSE k \in Chars : is(k) ELSE 0
      BY DEF Characters
    <2> HIDE DEF is
    <2>2. CASE \E k \in Chars : is(k)
      <3>1. Characters(a)[s] \in Chars /\ is(Characters(a)[s])
        BY <2>1, <2>2
      <3> QED BY <1>1, <3>1 DEF is
    <2>3. CASE ~\E k \in Chars : is(k)
      BY <2>1, <2>3
    <2> QED BY <2>2, <2>3
  <1>3. Characters(a) = [s \in Slots |-> Characters(a)[s]]
    BY DEF Characters
  <1> QED BY <1>2, <1>3 DEF Backed

\* A request that will not be answered.
LEMMA MissedKept ==
    ASSUME StoreIInv, NEW c \in Conns, NEW cmd \in Requests, UNCHANGED rows,
           client' = [client EXCEPT ![c].missed = IF Open(c) THEN @ \cup {cmd} ELSE @]
    PROVE  /\ Keeps /\ OneRow' /\ Conns' = Conns /\ Chars' = Chars
           /\ client' \in Seq(Clients) /\ Len(client') <= MaxConns
           /\ \A d \in Conns' : (d \in Conns /\ client'[d] = client[d]) \/ ContextFine(d)'
  <1> DEFINE r == [client[c] EXCEPT !.missed = IF Open(c) THEN @ \cup {cmd} ELSE @]
  <1>1. client' = [client EXCEPT ![c] = r]
    OBVIOUS
  <1>2. client[c] \in Clients
    BY ContextIs
  <1>3. /\ r \in Clients /\ r.open = client[c].open /\ r.acct = client[c].acct
        /\ r.index = client[c].index /\ r.char = client[c].char
        /\ r.has = client[c].has /\ r.mask = client[c].mask
    BY <1>2 DEF Clients
  <1> HIDE DEF r
  <1>4. /\ Keeps /\ OneRow' /\ Conns' = Conns /\ Chars' = Chars
        /\ client' \in Seq(Clients) /\ Len(client') <= MaxConns /\ client'[c] = r
        /\ \A d \in Conns' : d # c => d \in Conns /\ client'[d] = client[d]
    <2>1. StoreIInv /\ UNCHANGED rows /\ c \in Conns
      OBVIOUS
    <2>2. r.open => /\ Open(c)
                    /\ client[c].acct # NoAccount => r.acct = client[c].acct
                    /\ Loaded(c) => r.index # <<>>
      BY <1>3 DEF Open, Loaded
    <2> QED BY ONLY <1>1, <1>3, <2>1, <2>2, OneContext
  <1>5. ContextFine(c)'
    <2>1. ContextFine(c)
      BY DEF StoreIInv, IndexBacked, ContextFine
    <2> QED BY <1>3, <1>4, <2>1 DEF ContextFine, Proper, Open, Loaded, Backed
  <1> QED BY <1>4, <1>5

\* A server hands on: at most one context changed, one answer more.
LEMMA StoreHandled ==
    ASSUME StoreIInv, Keeps, OneRow', Conns' = Conns, Chars' = Chars,
           client' \in Seq(Clients), Len(client') <= MaxConns,
           \A d \in Conns' : (d \in Conns /\ client'[d] = client[d]) \/ ContextFine(d)',
           link' \in LinkStates, now' = now, rows' \in Seq(CharacterRows),
           toMaster' \in Seq(ToMaster), Range(toMaster') \subseteq Range(toMaster),
           atAuth' \in Seq(ConnIDs), \A c \in Range(atAuth') : c \in Range(atAuth) \/ c \in Conns,
           account' \in [Accounts -> AccountRows],
           newest' = newest, unsaved' \in Seq(SUBSET Parts), Len(unsaved') = Len(rows'),
           Len(rows') = Len(rows), shared' \subseteq Chars, raced' \subseteq Accounts,
           toWorld' \in Seq(ToWorld),
           \A m \in Range(toWorld') : m \in Range(toWorld) \/ OwnAnswer(m)'
    PROVE  StoreIInv'
  <1>1. TypeOK'
    BY DEF StoreIInv, TypeOK
  <1> QED BY <1>1, StoreKept

\* One answer more.
LEMMA AnswerSent ==
    ASSUME StoreIInv, NEW a \in ToWorld, Answer(a)
    PROVE  /\ toWorld' \in Seq(ToWorld)
           /\ \A m \in Range(toWorld') : m \in Range(toWorld) \/ m = a
  <1>1. toWorld \in Seq(ToWorld) /\ toWorld' = Append(toWorld, a)
    BY DEF StoreIInv, TypeOK, Answer
  <1> QED BY <1>1, Appended

\* The packet MasterSvr takes from the link.
LEMMA RequestTaken ==
    ASSUME StoreIInv, MasterHandles
    PROVE  /\ toMaster' \in Seq(ToMaster) /\ Range(toMaster') \subseteq Range(toMaster)
           /\ Head(toMaster) \in ToMaster /\ OwnRequest(Head(toMaster))
           /\ Head(toMaster) \in Range(toMaster)
           /\ link' \in LinkStates /\ now' = now /\ toMaster' = Tail(toMaster) /\ toMaster # <<>>
  <1>1. toMaster \in Seq(ToMaster) /\ toMaster # <<>> /\ toMaster' = Tail(toMaster)
        /\ link' \in LinkStates /\ now' = now
    BY DEF StoreIInv, TypeOK, MasterHandles, OnWorldGetCharacters, LinkStates
  <1>2. /\ Tail(toMaster) \in Seq(ToMaster) /\ Range(Tail(toMaster)) \subseteq Range(toMaster)
        /\ Head(toMaster) \in ToMaster /\ Head(toMaster) \in Range(toMaster)
    BY <1>1, Popped
  <1> QED BY <1>1, <1>2 DEF StoreIInv, Owned

LEMMA StoreMaster ==
    ASSUME StoreIInv, MasterHandles, Head(toMaster).cmd # "createCharacter"
    PROVE  StoreIInv'
  <1> DEFINE m == Head(toMaster)
  <1>1. /\ toMaster' \in Seq(ToMaster) /\ Range(toMaster') \subseteq Range(toMaster)
        /\ m \in ToMaster /\ OwnRequest(m) /\ link' \in LinkStates /\ now' = now
    BY RequestTaken
  <1>2. /\ toWorld \in Seq(ToWorld) /\ atAuth \in Seq(ConnIDs) /\ link \in LinkStates
        /\ account \in [Accounts -> AccountRows] /\ rows \in Seq(CharacterRows)
        /\ newest \in Seq(Versions) /\ unsaved \in Seq(SUBSET Parts)
        /\ Len(unsaved) = Len(rows) /\ shared \subseteq Chars /\ raced \subseteq Accounts
        /\ client \in Seq(Clients) /\ Len(client) <= MaxConns
    BY DEF StoreIInv, TypeOK, LinkStates
  <1>3. ASSUME UNCHANGED <<client, rows>>
        PROVE  Keeps /\ OneRow' /\ Conns' = Conns /\ Chars' = Chars
               /\ \A c \in Conns' : c \in Conns /\ client'[c] = client[c]
    BY <1>3, SameContexts
  <1>4. m.cmd \in Requests => m.conn \in Conns /\ m.conn \in ConnIDs
    BY <1>1, RequestFields DEF OwnRequest
  <1>5. CASE m.cmd = "getCharacters" /\ OnWorldGetCharacters(m)
    <2>1. UNCHANGED <<atAuth, account, rows, newest, unsaved, shared, raced>> /\ m.cmd \in Requests
      BY <1>5 DEF OnWorldGetCharacters, db, history, Requests
    <2>2. CASE Missed(m) /\ UNCHANGED toWorld
      <3>1. /\ Keeps /\ OneRow' /\ Conns' = Conns /\ Chars' = Chars
            /\ client' \in Seq(Clients) /\ Len(client') <= MaxConns
            /\ \A d \in Conns' : (d \in Conns /\ client'[d] = client[d]) \/ ContextFine(d)'
        BY <1>4, <2>1, <2>2, MissedKept DEF Missed
      <3> HIDE DEF m
      <3> QED BY <1>1, <1>2, <2>1, <2>2, <3>1, StoreHandled
    <2>3. CASE UNCHANGED client /\ ~(Missed(m) /\ UNCHANGED toWorld)
      <3> DEFINE a == [cmd |-> m.cmd, conn |-> m.conn, index |-> Characters(m.acct)]
      <3>1. Characters(m.acct) \in [Slots -> Nat] /\ Backed(Characters(m.acct), m.acct)
        BY CharactersBacked DEF StoreIInv
      <3>2. Answer(a)
        BY <1>5, <2>3 DEF OnWorldGetCharacters
      <3>3. a \in ToWorld
        BY <1>4, <1>5, <2>1, <3>1, AnswerPackets
      <3>4. /\ toWorld' \in Seq(ToWorld)
            /\ \A n \in Range(toWorld') : n \in Range(toWorld) \/ n = a
        BY <3>2, <3>3, AnswerSent
      <3>5. OwnAnswer(a)
        <4>1. Open(m.conn) => m.acct = client[m.conn].acct /\ client[m.conn].acct # NoAccount
          BY <1>1, <1>5, RequestFields, StoreAssumption DEF OwnRequest, Requests
        <4> QED BY <1>4, <1>5, <2>1, <3>1, <4>1 DEF OwnAnswer
      <3>6. \A n : n = a => OwnAnswer(n)'
        <4> HIDE DEF a, m
        <4> QED BY <1>3, <2>1, <2>3, <3>5 DEF OwnAnswer, Open, Loaded, Backed
      <3> HIDE DEF a, m
      <3> QED BY <1>1, <1>2, <1>3, <2>1, <2>3, <3>4, <3>6, StoreHandled
    <2> QED BY <1>5, <2>2, <2>3 DEF OnWorldGetCharacters
  <1>6. CASE m.cmd = "getCharacter" /\ OnWorldGetCharacter(m)
    <2>1. UNCHANGED <<client, atAuth, account, rows, newest, unsaved, shared, raced>> /\ m.cmd \in Requests
      BY <1>6 DEF OnWorldGetCharacter, db, history, Requests
    <2>2. m.char \in Chars /\ rows[m.char].data \in Versions /\ m.char \in Nat
      BY <1>1, <1>6, Known DEF OwnRequest, StoreIInv, CharacterRows
    <2>3. Open(m.conn) => client[m.conn].acct # NoAccount
      BY <1>1, <1>6, RequestFields, StoreAssumption DEF OwnRequest, Requests
    <2>4. \E a \in ToWorld : Answer(a) /\ OwnAnswer(a)
      <3> DEFINE a == [cmd |-> m.cmd, conn |-> m.conn, char |-> m.char, data |-> rows[m.char].data]
                 b == [cmd |-> m.cmd, conn |-> m.conn, char |-> 0]
      <3>1. a \in ToWorld /\ b \in ToWorld
        BY <1>4, <1>6, <2>1, <2>2, AnswerPackets DEF Versions
      <3>2. OwnAnswer(a) /\ OwnAnswer(b)
        BY <1>4, <1>6, <2>1, <2>2, <2>3 DEF OwnAnswer
      <3>3. Answer(a) \/ Answer(b)
        BY <1>6 DEF OnWorldGetCharacter
      <3> HIDE DEF a, b
      <3> QED BY <3>1, <3>2, <3>3
    <2>5. PICK a \in ToWorld : Answer(a) /\ OwnAnswer(a)
      BY <2>4
    <2>6. /\ toWorld' \in Seq(ToWorld)
          /\ \A n \in Range(toWorld') : n \in Range(toWorld) \/ n = a
      BY <2>5, AnswerSent
    <2>7. OwnAnswer(a)'
      BY <1>3, <2>1, <2>5 DEF OwnAnswer, Open, Loaded, Backed
    <2> HIDE DEF m
    <2> QED BY <1>1, <1>2, <1>3, <2>1, <2>6, <2>7, StoreHandled
  <1>7. CASE m.cmd = "verifyPassword" /\ OnWorldVerifyPassword(m)
    <2>1. UNCHANGED <<toWorld, account, rows, newest, unsaved, shared, raced>> /\ m.cmd \in Requests
      BY <1>7 DEF OnWorldVerifyPassword, db, history, Requests
    <2>2. CASE Missed(m) /\ UNCHANGED atAuth
      <3>1. /\ Keeps /\ OneRow' /\ Conns' = Conns /\ Chars' = Chars
            /\ client' \in Seq(Clients) /\ Len(client') <= MaxConns
            /\ \A d \in Conns' : (d \in Conns /\ client'[d] = client[d]) \/ ContextFine(d)'
        BY <1>4, <2>1, <2>2, MissedKept DEF Missed
      <3> HIDE DEF m
      <3> QED BY <1>1, <1>2, <2>1, <2>2, <3>1, StoreHandled
    <2>3. CASE atAuth' = Append(atAuth, m.conn) /\ UNCHANGED client
      <3>1. atAuth' \in Seq(ConnIDs) /\ \A c \in Range(atAuth') : c \in Range(atAuth) \/ c \in Conns
        BY <1>2, <1>4, <2>1, <2>3, Appended
      <3> HIDE DEF m
      <3> QED BY <1>1, <1>2, <1>3, <2>1, <2>3, <3>1, StoreHandled
    <2> QED BY <1>7, <2>2, <2>3 DEF OnWorldVerifyPassword
  <1>8. CASE m.cmd = "dbSync" /\ OnWorldDBSync(m)
    <2>1. PICK failed \in SUBSET DOMAIN m.data :
             /\ rows' = [rows EXCEPT ![m.char].data =
                       [p \in Parts |-> IF p \in DOMAIN m.data \ failed THEN m.data[p] ELSE @[p]]]
             /\ unsaved' = [unsaved EXCEPT ![m.char] =
                          (@ \ {p \in DOMAIN m.data \ failed : m.data[p] = newest[m.char][p]}) \cup failed]
      BY <1>8 DEF OnWorldDBSync
    <2>2. UNCHANGED <<client, toWorld, atAuth, account, newest, shared, raced>>
      BY <1>8 DEF OnWorldDBSync
    <2>3. m.char \in Chars /\ rows[m.char] \in CharacterRows /\ unsaved[m.char] \in SUBSET Parts
      BY <1>1, <1>8, Known DEF OwnRequest, StoreIInv
    <2>4. DOMAIN m.data \in SUBSET Parts /\ \A p \in DOMAIN m.data : m.data[p] \in 0 .. MaxVersion
      BY <1>1, <1>8, RequestFields DEF Pieces
    <2> DEFINE d == [p \in Parts |-> IF p \in DOMAIN m.data \ failed THEN m.data[p]
                                     ELSE rows[m.char].data[p]]
               x == [rows[m.char] EXCEPT !.data = d]
               y == (unsaved[m.char] \ {p \in DOMAIN m.data \ failed : m.data[p] = newest[m.char][p]})
                       \cup failed
    <2>5. d \in Versions
      BY <2>3, <2>4 DEF CharacterRows, Versions
    <2>6. x \in CharacterRows /\ x.acct = rows[m.char].acct /\ x.slot = rows[m.char].slot
      <3> HIDE DEF d
      <3> QED BY <2>3, <2>5 DEF CharacterRows
    <2>7. y \in SUBSET Parts
      BY <2>3, <2>4
    <2>8. rows' = [rows EXCEPT ![m.char] = x] /\ unsaved' = [unsaved EXCEPT ![m.char] = y]
      BY <2>1
    <2> HIDE DEF x, y, m
    <2>9. /\ rows' \in Seq(CharacterRows) /\ Len(rows') = Len(rows)
          /\ \A k \in DOMAIN rows : rows'[k] = IF k = m.char THEN x ELSE rows[k]
      <3>1. rows \in Seq(CharacterRows)
        BY <1>2
      <3>2. rows' = Put(rows, m.char, x)
        BY <2>8 DEF Put
      <3> QED BY ONLY <2>6, <3>1, <3>2, Replaced
    <2>10. unsaved' \in Seq(SUBSET Parts) /\ Len(unsaved') = Len(unsaved)
      <3>1. unsaved \in Seq(SUBSET Parts)
        BY <1>2
      <3>2. unsaved' = Put(unsaved, m.char, y)
        BY <2>8 DEF Put
      <3> QED BY ONLY <2>7, <3>1, <3>2, Replaced
    <2>11. /\ Chars' = Chars /\ DOMAIN rows = Chars
           /\ \A k \in Chars : rows'[k].acct = rows[k].acct /\ rows'[k].slot = rows[k].slot
      <3>1. DOMAIN rows = Chars /\ Chars' = Chars
        BY <1>2, <2>9 DEF Chars
      <3> QED BY <2>6, <2>9, <3>1
    <2>12. Keeps /\ OneRow' /\ Conns' = Conns
      <3>1. Len(client) \in Nat /\ Len(rows) \in Nat
        BY <1>2
      <3> QED BY <2>2, <2>9, <2>11, <3>1 DEF StoreIInv, Keeps, OneRow, Conns, Open, Loaded
    <2> QED BY <1>1, <1>2, <2>2, <2>9, <2>10, <2>11, <2>12, StoreHandled
  <1>9. CASE m.cmd = "updateSubpassword" /\ OnWorldUpdateAccountSubpasswordData(m)
    <2>1. /\ UNCHANGED <<client, toWorld, atAuth, rows, newest, unsaved, shared>>
          /\ account' = account \/ account' = [account EXCEPT ![m.acct].set = m.set]
          /\ raced' = raced \/ raced' = raced \cup {m.acct}
      BY <1>9 DEF OnWorldUpdateAccountSubpasswordData
    <2>2. m.acct \in Accounts /\ m.set \in BOOLEAN
      BY <1>1, <1>9, RequestFields
    <2> HIDE DEF m
    <2>3. account' \in [Accounts -> AccountRows] /\ raced' \subseteq Accounts
      BY ZenonT(60), <1>2, <2>1, <2>2 DEF AccountRows
    <2> QED BY <1>1, <1>2, <1>3, <2>1, <2>3, StoreHandled
  <1>10. CASE m.cmd = "updateSession" /\ OnWorldUpdateAccountSessionData(m)
    <2>1. /\ UNCHANGED <<client, toWorld, atAuth, rows, newest, unsaved, shared, raced>>
          /\ account' = account \/ account' = [account EXCEPT ![m.acct].until = m.until]
      BY <1>10 DEF OnWorldUpdateAccountSessionData, history
    <2>2. m.acct \in Accounts /\ m.until \in 0 .. MaxNow + 1
      BY <1>1, <1>10, RequestFields
    <2> HIDE DEF m
    <2>3. account' \in [Accounts -> AccountRows]
      BY <1>2, <2>1, <2>2 DEF AccountRows
    <2> QED BY <1>1, <1>2, <1>3, <2>1, <2>3, StoreHandled
  <1> QED BY <1>5, <1>6, <1>7, <1>8, <1>9, <1>10 DEF MasterHandles

\* The table takes a row only for a slot that is free.
LEMMA StoreCreate ==
    ASSUME StoreIInv, MasterHandles, Head(toMaster).cmd = "createCharacter"
    PROVE  StoreIInv'
  <1> DEFINE m == Head(toMaster)
             n == Len(rows) + 1
  <1>1. /\ toMaster' \in Seq(ToMaster) /\ Range(toMaster') \subseteq Range(toMaster)
        /\ m \in ToMaster /\ OwnRequest(m) /\ link' \in LinkStates /\ now' = now
    BY RequestTaken
  <1>2. /\ toWorld \in Seq(ToWorld) /\ atAuth \in Seq(ConnIDs) /\ link \in LinkStates
        /\ account \in [Accounts -> AccountRows] /\ rows \in Seq(CharacterRows)
        /\ newest \in Seq(Versions) /\ unsaved \in Seq(SUBSET Parts) /\ Len(newest) = Len(rows)
        /\ Len(unsaved) = Len(rows) /\ shared \subseteq Chars /\ raced \subseteq Accounts
        /\ client \in Seq(Clients) /\ Len(client) <= MaxConns /\ Len(client) \in Nat
    BY DEF StoreIInv, TypeOK
  <1>3. OnWorldCreateCharacter(m)
    BY DEF MasterHandles
  <1>4. UNCHANGED <<atAuth, account, shared, raced>>
    BY <1>3 DEF OnWorldCreateCharacter
  <1>5. /\ m.conn \in Conns /\ m.conn \in ConnIDs /\ m.acct \in Accounts /\ m.slot \in Slots \cup Beyond
        /\ Open(m.conn) => m.acct = client[m.conn].acct /\ Loaded(m.conn)
    BY <1>1, RequestFields DEF OwnRequest, Requests
  <1>6. CASE Answer([cmd |-> m.cmd, conn |-> m.conn, slot |-> m.slot, char |-> 0])
             /\ UNCHANGED <<client, rows, newest, unsaved>>
    <2> DEFINE a == [cmd |-> m.cmd, conn |-> m.conn, slot |-> m.slot, char |-> 0]
    <2>1. a \in ToWorld /\ (OwnAnswer(a) /\ a.cmd = "createCharacter" /\ a.char = 0 /\ a.conn = m.conn)
      BY <1>5, AnswerPackets DEF OwnAnswer
    <2>2. /\ toWorld' \in Seq(ToWorld)
          /\ \A x \in Range(toWorld') : x \in Range(toWorld) \/ x = a
      BY <1>6, <2>1, AnswerSent
    <2> HIDE DEF a, m
    <2>3. \A x : x = a => OwnAnswer(x)'
      BY <1>5, <1>6, <2>1 DEF OwnAnswer, Conns
    <2>4. Keeps /\ OneRow' /\ Conns' = Conns /\ Chars' = Chars
          /\ \A c \in Conns' : c \in Conns /\ client'[c] = client[c]
      BY <1>4, <1>6, SameContexts
    <2>5. link' \in LinkStates /\ rows' \in Seq(CharacterRows) /\ Len(rows') = Len(rows)
          /\ unsaved' \in Seq(SUBSET Parts) /\ Len(unsaved') = Len(rows') /\ newest' = newest
          /\ client' \in Seq(Clients) /\ Len(client') <= MaxConns
      BY <1>1, <1>2, <1>6
    <2> QED BY <1>1, <1>2, <1>4, <2>2, <2>3, <2>4, <2>5, StoreHandled
  <1>7. ASSUME ~\E k \in Chars : rows[k].acct = m.acct /\ rows[k].slot = m.slot,
               Insert(m.acct, m.slot), NEW told, Untold(m.acct, n, told), NEW v \in {0, n},
               Answer([cmd |-> m.cmd, conn |-> m.conn, slot |-> m.slot, char |-> v])
        PROVE  StoreIInv'
    <2> DEFINE zero == [p \in Parts |-> 0]
               x == [acct |-> m.acct, slot |-> m.slot, data |-> zero]
               a == [cmd |-> m.cmd, conn |-> m.conn, slot |-> m.slot, char |-> v]
    <2>1. zero \in Versions /\ {} \in SUBSET Parts
      BY StoreAssumption DEF Versions
    <2>2. x \in CharacterRows /\ x.acct = m.acct /\ x.slot = m.slot
      <3> HIDE DEF zero
      <3> QED BY <1>5, <2>1 DEF CharacterRows
    <2>3. rows' = Append(rows, x) /\ newest' = Append(newest, zero) /\ unsaved' = Append(unsaved, {})
      BY <1>7 DEF Insert
    <2>4. a \in ToWorld /\ a.cmd = "createCharacter" /\ a.conn = m.conn /\ a.char = v /\ a.slot = m.slot
      <3>1. v \in Nat
        BY <1>2
      <3> HIDE DEF n
      <3> QED BY <1>5, <3>1, AnswerPackets
    <2>0. /\ client' \in Seq(Clients) /\ Len(client') = Len(client) /\ Conns' = Conns
          /\ \A c \in Conns : SameBut(c)
      <3>1. TypeOK /\ n \in Nat
        BY <1>2 DEF StoreIInv
      <3> HIDE DEF n, m
      <3> QED BY <1>7, <3>1, UntoldKept
    <2>5. /\ toWorld' \in Seq(ToWorld)
          /\ \A y \in Range(toWorld') : y \in Range(toWorld) \/ y = a
      BY <1>7, <2>4, AnswerSent
    <2> HIDE DEF a, m, x, zero
    <2>6. rows' \in Seq(CharacterRows) /\ Len(rows') = Len(rows) + 1
      BY <1>2, <2>2, <2>3
    <2>7. newest' \in Seq(Versions) /\ Len(newest') = Len(newest) + 1
      BY <1>2, <2>1, <2>3
    <2>8. unsaved' \in Seq(SUBSET Parts) /\ Len(unsaved') = Len(unsaved) + 1
      BY <1>2, <2>1, <2>3
    <2>9. Chars' = Chars \cup {n} /\ n \notin Chars /\ Len(rows) \in Nat
      BY <1>2, <2>6 DEF Chars
    <2>10. rows'[n] = x /\ \A k \in Chars : rows'[k] = rows[k]
      BY <1>2, <2>3 DEF Chars
    <2>11. TypeOK'
      BY <1>1, <1>2, <1>4, <2>0, <2>5, <2>6, <2>7, <2>8, <2>9 DEF StoreIInv, TypeOK
    <2>12. Keeps
      BY <1>2, <2>0, <2>6, <2>9, <2>10 DEF Keeps, Open, Loaded, SameBut
    <2>13. OneRow'
      <3>1. \A k \in Chars : ~(rows[k].acct = x.acct /\ rows[k].slot = x.slot)
        BY <1>7, <2>2
      <3>2. \A j, k \in Chars : rows[j].acct = rows[k].acct /\ rows[j].slot = rows[k].slot => j = k
        BY DEF StoreIInv, OneRow
      <3> QED BY <2>9, <2>10, <3>1, <3>2 DEF OneRow
    <2>14. \A y : y = a => OwnAnswer(y)'
      <3>1. m.conn \in Conns' /\ SameBut(m.conn)
        BY <1>5, <2>0
      <3> QED BY <1>5, <1>7, <2>2, <2>4, <2>9, <2>10, <3>1 DEF OwnAnswer, Open, Loaded, SameBut
    <2>15. ASSUME NEW c \in Conns' PROVE ContextFine(c)'
      <3>1. ContextFine(c) /\ SameBut(c)
        BY <2>0 DEF StoreIInv, IndexBacked, ContextFine
      <3> QED BY <2>9, <2>10, <3>1, SameFine
    <2> QED BY <1>1, <1>4, <2>5, <2>11, <2>12, <2>13, <2>14, <2>15, StoreKept
  <1>8. n \in {0, n} /\ 0 \in {0, n}
    OBVIOUS
  <1> QED
    <2> HIDE DEF m
    <2> QED BY <1>3, <1>6, <1>7, <1>8 DEF OnWorldCreateCharacter

\* AuthSvr's verdict on a password.
LEMMA StoreVerdict == ASSUME StoreIInv, OnMasterVerifyPassword PROVE StoreIInv'
  <1> DEFINE c == Head(atAuth)
  <1>1. /\ atAuth \in Seq(ConnIDs) /\ atAuth # <<>> /\ atAuth' = Tail(atAuth)
        /\ UNCHANGED <<link, toMaster, account, rows, now, newest, unsaved, shared, raced>>
    BY DEF StoreIInv, TypeOK, OnMasterVerifyPassword, db, history
  <1>2. /\ atAuth' \in Seq(ConnIDs) /\ Range(atAuth') \subseteq Range(atAuth)
        /\ c \in ConnIDs /\ c \in Conns
    <2>1. c \in Range(atAuth) /\ c \in ConnIDs
          /\ Tail(atAuth) \in Seq(ConnIDs) /\ Range(Tail(atAuth)) \subseteq Range(atAuth)
      BY <1>1, Popped
    <2> QED BY <1>1, <2>1 DEF StoreIInv, Owned
  <1>3. /\ toWorld \in Seq(ToWorld) /\ toMaster \in Seq(ToMaster) /\ link \in LinkStates
        /\ account \in [Accounts -> AccountRows] /\ rows \in Seq(CharacterRows)
        /\ newest \in Seq(Versions) /\ unsaved \in Seq(SUBSET Parts)
        /\ Len(unsaved) = Len(rows) /\ shared \subseteq Chars /\ raced \subseteq Accounts
        /\ client \in Seq(Clients) /\ Len(client) <= MaxConns
    BY DEF StoreIInv, TypeOK
  <1>4. CASE Missed([conn |-> c, cmd |-> "verifyPassword"]) /\ UNCHANGED toWorld
    <2>1. client' = [client EXCEPT ![c].missed = IF Open(c) THEN @ \cup {"verifyPassword"} ELSE @]
          /\ "verifyPassword" \in Requests
      BY <1>4 DEF Missed, Requests
    <2>2. /\ Keeps /\ OneRow' /\ Conns' = Conns /\ Chars' = Chars
          /\ client' \in Seq(Clients) /\ Len(client') <= MaxConns
          /\ \A d \in Conns' : (d \in Conns /\ client'[d] = client[d]) \/ ContextFine(d)'
      BY <1>1, <1>2, <2>1, MissedKept
    <2> HIDE DEF c
    <2> QED BY <1>1, <1>2, <1>3, <1>4, <2>2, StoreHandled
  <1>5. CASE Answer([cmd |-> "verifyPassword", conn |-> c]) /\ UNCHANGED client
    <2> DEFINE a == [cmd |-> "verifyPassword", conn |-> c]
    <2>1. a \in ToWorld /\ a.cmd = "verifyPassword" /\ a.conn = c
      BY <1>2, AnswerPackets
    <2>2. /\ toWorld' \in Seq(ToWorld)
          /\ \A x \in Range(toWorld') : x \in Range(toWorld) \/ x = a
      BY <1>5, <2>1, AnswerSent
    <2> HIDE DEF a, c
    <2>3. Keeps /\ OneRow' /\ Conns' = Conns /\ Chars' = Chars
          /\ \A d \in Conns' : d \in Conns /\ client'[d] = client[d]
      BY <1>1, <1>5, SameContexts
    <2>4. \A x : x = a => OwnAnswer(x)'
      BY <1>2, <2>1, <2>3 DEF OwnAnswer
    <2> QED BY <1>1, <1>2, <1>3, <1>5, <2>2, <2>3, <2>4, StoreHandled
  <1> QED BY <1>4, <1>5 DEF OnMasterVerifyPassword

\* The answer WorldSvr takes from the link.
LEMMA AnswerTaken ==
    ASSUME StoreIInv, WorldHandles
    PROVE  /\ toWorld' \in Seq(ToWorld) /\ Range(toWorld') \subseteq Range(toWorld)
           /\ Head(toWorld) \in ToWorld /\ OwnAnswer(Head(toWorld))
           /\ Head(toWorld) \in Range(toWorld)
           /\ toWorld' = Tail(toWorld) /\ toWorld # <<>>
           /\ UNCHANGED <<toMaster, atAuth, account, rows, now>>
  <1>1. toWorld \in Seq(ToWorld) /\ toWorld # <<>> /\ toWorld' = Tail(toWorld)
        /\ UNCHANGED <<toMaster, atAuth, account, rows, now>>
    BY DEF StoreIInv, TypeOK, WorldHandles, db
  <1>2. /\ Tail(toWorld) \in Seq(ToWorld) /\ Range(Tail(toWorld)) \subseteq Range(toWorld)
        /\ Head(toWorld) \in ToWorld /\ Head(toWorld) \in Range(toWorld)
    BY <1>1, Popped
  <1> QED BY <1>1, <1>2 DEF StoreIInv, Owned

LEMMA StoreWorld == ASSUME StoreIInv, WorldHandles PROVE StoreIInv'
  <1> DEFINE m == Head(toWorld)
             c == m.conn
  <1>1. /\ toWorld' \in Seq(ToWorld) /\ Range(toWorld') \subseteq Range(toWorld)
        /\ m \in ToWorld /\ OwnAnswer(m) /\ m.conn \in Conns
        /\ UNCHANGED <<toMaster, atAuth, account, rows, now>>
    BY AnswerTaken DEF OwnAnswer
  <1>2. /\ toMaster \in Seq(ToMaster) /\ atAuth \in Seq(ConnIDs) /\ link \in LinkStates
        /\ account \in [Accounts -> AccountRows] /\ rows \in Seq(CharacterRows)
        /\ newest \in Seq(Versions) /\ unsaved \in Seq(SUBSET Parts)
        /\ Len(unsaved) = Len(rows) /\ shared \subseteq Chars /\ raced \subseteq Accounts
        /\ client \in Seq(Clients) /\ Len(client) <= MaxConns
    BY DEF StoreIInv, TypeOK
  <1>3. /\ client[c] \in Clients /\ ContextFine(c)
        /\ client[c].acct # NoAccount => client[c].acct \in Accounts
    BY <1>1, ContextIs DEF ContextFine, StoreIInv, IndexBacked
  <1>4. /\ UNCHANGED <<newest, raced>> /\ shared' \subseteq Chars /\ link' \in LinkStates
        /\ unsaved' \in Seq(SUBSET Parts) /\ Len(unsaved') = Len(rows)
    <2>1. m.cmd = "getCharacter" => m.char \in Chars \cup {0}
      BY <1>1 DEF OwnAnswer
    <2>2. CASE m.cmd = "getCharacter" /\ AckGetCharacter(m)
      <3>1. link' = link /\ newest' = newest /\ raced' = raced
        BY <2>2 DEF AckGetCharacter
      <3>2. shared' = shared \/ (m.char # 0 /\ shared' = shared \cup {m.char})
        BY <2>2 DEF AckGetCharacter
      <3>3. unsaved' = unsaved \/ LetGo(c)
        BY <2>2 DEF AckGetCharacter
      <3>4. unsaved' \in Seq(SUBSET Parts) /\ Len(unsaved') = Len(rows)
        <4>1. TypeOK /\ c \in Conns
          BY <1>1 DEF StoreIInv
        <4> HIDE DEF c
        <4> QED BY <1>2, <3>3, <4>1, LetGoKept
      <3> HIDE DEF m
      <3> QED BY <1>2, <2>1, <2>2, <3>1, <3>2, <3>4
    <2>3. CASE /\ UNCHANGED history
               /\ link' = link \/ link' \in {"cut", "overrun"}
      BY <1>2, <2>3 DEF history, LinkStates
    <2> HIDE DEF m, c
    <2> QED BY <2>2, <2>3
        DEF WorldHandles, OnWorldVerifyLinks, AckGetCharacters, AckCreateCharacter,
            AckVerifyPassword, Disconnect, m
  <1>5. CASE UNCHANGED client
    <2>1. Keeps /\ OneRow' /\ Conns' = Conns /\ Chars' = Chars
          /\ \A d \in Conns' : d \in Conns /\ client'[d] = client[d]
      BY <1>1, <1>5, SameContexts
    <2> QED BY <1>1, <1>2, <1>4, <1>5, <2>1, StoreHandled
  <1>6. ASSUME NEW r \in Clients, client' = [client EXCEPT ![c] = r],
               r.open => /\ Open(c)
                         /\ client[c].acct # NoAccount => r.acct = client[c].acct
                         /\ Loaded(c) => r.index # <<>>,
               ~r.open => r.acct = NoAccount,
               r.acct = NoAccount => r.index = <<>> /\ r.char = 0,
               r.char = 0 => r.mask = {}, r.char # 0 => r.char \in Chars /\ r.has \in Versions,
               r.index # <<>> => Backed(r.index, r.acct)
        PROVE  StoreIInv'
    <2> HIDE DEF m
    <2>1. c \in Conns
      BY <1>1
    <2>2. /\ Keeps /\ OneRow' /\ Conns' = Conns /\ Chars' = Chars
          /\ client' \in Seq(Clients) /\ Len(client') <= MaxConns /\ client'[c] = r
          /\ \A d \in Conns' : d # c => d \in Conns /\ client'[d] = client[d]
      BY <1>1, <1>6, <2>1, OneContext
    <2>3. \A d \in Conns' : d = c => ContextFine(d)'
      BY <1>1, <1>6, <2>2 DEF ContextFine, Proper, Open, Loaded, Versions, Backed
    <2>4. \A d \in Conns' : (d \in Conns /\ client'[d] = client[d]) \/ ContextFine(d)'
      BY <2>2, <2>3
    <2> QED BY <1>1, <1>2, <1>4, <2>2, <2>4, StoreHandled
  <1>7. CASE m.cmd = "verifyLinks" /\ OnWorldVerifyLinks(m) /\ Open(c) /\ client[c].acct = NoAccount
    <2> DEFINE r == [client[c] EXCEPT !.acct = m.acct, !.set = m.row.set, !.until = m.row.until]
    <2>1. m.acct \in Accounts /\ m.row \in AccountRows
      BY <1>1, <1>7, AnswerFields
    <2>2. /\ r \in Clients /\ r.open = client[c].open /\ r.acct = m.acct
          /\ r.index = client[c].index /\ r.char = client[c].char
          /\ r.has = client[c].has /\ r.mask = client[c].mask
      <3> HIDE DEF m
      <3> QED BY <1>3, <2>1 DEF Clients, AccountRows
    <2>3. client' = [client EXCEPT ![c] = r]
      BY <1>7 DEF OnWorldVerifyLinks
    <2>4. client[c].index = <<>> /\ client[c].char = 0 /\ client[c].mask = {} /\ m.acct # NoAccount
      BY <1>3, <1>7, <2>1, StoreAssumption DEF ContextFine, Proper
    <2> HIDE DEF r, m
    <2> QED BY <1>6, <1>7, <2>2, <2>3, <2>4 DEF Open, Loaded
  <1>8. CASE Open(c) /\ m.cmd \in Requests
    <2> DEFINE r0 == Answered(m)
    <2>1. /\ r0 \in Clients /\ r0.open = client[c].open /\ r0.acct = client[c].acct
          /\ r0.index = client[c].index /\ r0.char = client[c].char
          /\ r0.has = client[c].has /\ r0.mask = client[c].mask
      <3> HIDE DEF m
      <3> QED BY <1>3 DEF Clients, Answered
    <2>2. /\ client[c].acct = NoAccount => client[c].index = <<>> /\ client[c].char = 0
          /\ client[c].char = 0 => client[c].mask = {}
          /\ client[c].char # 0 => client[c].char \in Chars /\ client[c].has \in Versions
          /\ client[c].index # <<>> => Backed(client[c].index, client[c].acct)
          /\ client[c].open
      BY <1>3, <1>8 DEF ContextFine, Proper, Loaded, Versions, Open
    <2>3. CASE client' = [client EXCEPT ![c] = r0]
      <3> HIDE DEF m, r0
      <3> QED BY <1>6, <2>1, <2>2, <2>3, <1>8 DEF Open, Loaded
    <2>4. CASE m.cmd = "getCharacters" /\ AckGetCharacters(m)
      <3> DEFINE r == [r0 EXCEPT !.index = m.index, !.untold = @ \ Range(m.index)]
      <3>1. /\ m.index \in [Slots -> Nat] /\ Backed(m.index, client[c].acct)
            /\ client[c].acct # NoAccount
        BY <1>1, <1>8, <2>4, AnswerFields DEF OwnAnswer
      <3>2. client' = [client EXCEPT ![c] = r]
        BY <1>8, <2>4 DEF AckGetCharacters
      <3> HIDE DEF m, r0
      <3>3. /\ r \in Clients /\ r.open = r0.open /\ r.acct = r0.acct /\ r.index = m.index
            /\ r.char = r0.char /\ r.has = r0.has /\ r.mask = r0.mask
        BY <2>1, <3>1 DEF Clients
      <3>4. client[c].index # <<>> => m.index # <<>>
        BY <1>3, <3>1 DEF Clients
      <3> HIDE DEF r
      <3> QED BY <1>6, <1>8, <2>1, <2>2, <3>1, <3>2, <3>3, <3>4 DEF Open, Loaded
    <2>5. CASE m.cmd = "createCharacter" /\ AckCreateCharacter(m)
      <3>1. CASE m.char = 0
        <4>1. client' = [client EXCEPT ![c] = r0]
          BY <1>8, <2>5, <3>1 DEF AckCreateCharacter
        <4> QED BY <2>3, <4>1
      <3>3. CASE m.char # 0 /\ m.slot \notin Slots
        <4>1. UNCHANGED client
          BY <1>8, <2>5, <3>3 DEF AckCreateCharacter
        <4> QED BY <1>5, <4>1
      <3>2. CASE m.char # 0 /\ m.slot \in Slots
        <4> DEFINE x == [client[c].index EXCEPT ![m.slot] = m.char]
                   r == [r0 EXCEPT !.index = x]
        <4>1. /\ m.slot \in Slots /\ m.char \in Nat /\ Loaded(c) /\ m.char \in Chars
              /\ rows[m.char].acct = client[c].acct /\ rows[m.char].slot = m.slot
          BY <1>1, <1>8, <2>5, <3>2, AnswerFields DEF OwnAnswer
        <4>2. client' = [client EXCEPT ![c] = r]
          BY <1>8, <2>1, <2>5, <3>2 DEF AckCreateCharacter
        <4>3. client[c].index \in [Slots -> Nat] /\ Backed(client[c].index, client[c].acct)
          BY <1>3, <2>2, <4>1 DEF Clients, Loaded
        <4> HIDE DEF m, r0
        <4>4. x \in [Slots -> Nat] /\ Backed(x, client[c].acct) /\ x # <<>>
          <5>1. x \in [Slots -> Nat] /\ x # <<>>
            BY <4>1, <4>3
          <5>2. \A s \in Slots : x[s] = IF s = m.slot THEN m.char ELSE client[c].index[s]
            BY <4>3
          <5> HIDE DEF x
          <5> QED BY <4>1, <4>3, <5>1, <5>2 DEF Backed
        <4> HIDE DEF x
        <4>5. /\ r \in Clients /\ r.open = r0.open /\ r.acct = r0.acct /\ r.index = x
              /\ r.char = r0.char /\ r.has = r0.has /\ r.mask = r0.mask
          BY <2>1, <4>4 DEF Clients
        <4> HIDE DEF r
        <4> QED BY <1>6, <1>8, <2>1, <2>2, <4>1, <4>2, <4>4, <4>5 DEF Open, Loaded
      <3> QED BY <3>1, <3>2, <3>3
    <2>6. CASE m.cmd = "getCharacter" /\ AckGetCharacter(m)
      <3>1. CASE m.char = 0
        <4> DEFINE r == [NewClient EXCEPT !.open = FALSE]
        <4>1. client' = [client EXCEPT ![c] = r]
          BY <1>8, <2>6, <3>1 DEF AckGetCharacter
        <4>2. NewClient \in Clients
          BY StoreAssumption DEF NewClient, Clients
        <4>3. r \in Clients /\ ~r.open /\ r.acct = NewClient.acct /\ r.index = NewClient.index
                /\ r.char = NewClient.char /\ r.mask = NewClient.mask
          BY <4>2 DEF Clients
        <4>4. /\ NewClient.acct = NoAccount /\ NewClient.index = <<>> /\ NewClient.char = 0
              /\ NewClient.mask = {}
          BY DEF NewClient
        <4> HIDE DEF r, m
        <4> QED BY <1>6, <4>1, <4>3, <4>4
      <3>2. CASE m.char # 0
        <4> DEFINE r == [r0 EXCEPT !.char = m.char, !.has = m.data, !.mask = {}]
        <4>1. /\ m.char \in Chars /\ m.char \in Nat /\ m.data \in Versions
              /\ client[c].acct # NoAccount
          BY <1>1, <1>8, <2>6, <3>2, AnswerFields DEF OwnAnswer, Versions
        <4>2. client' = [client EXCEPT ![c] = r]
          BY <1>8, <2>6, <3>2 DEF AckGetCharacter
        <4> HIDE DEF m, r0
        <4>3. /\ r \in Clients /\ r.open = r0.open /\ r.acct = r0.acct /\ r.index = r0.index
              /\ r.char = m.char /\ r.has = m.data /\ r.mask = {}
          BY <2>1, <4>1 DEF Clients
        <4> HIDE DEF r
        <4> QED BY <1>6, <1>8, <2>1, <2>2, <3>2, <4>1, <4>2, <4>3 DEF Open, Loaded
      <3> QED BY <3>1, <3>2
    <2>7. CASE m.cmd = "verifyPassword" /\ AckVerifyPassword(m)
      <3>1. client' = [client EXCEPT ![c] = r0]
        BY <1>8, <2>7 DEF AckVerifyPassword
      <3> QED BY <2>3, <3>1
    <2> QED BY <1>8, <2>4, <2>5, <2>6, <2>7 DEF WorldHandles, Requests
  <1>9. CASE ~Open(c) /\ m.cmd \in Requests
    <2>1. UNCHANGED client
      BY <1>9 DEF WorldHandles, AckGetCharacters, AckCreateCharacter, AckGetCharacter,
                  AckVerifyPassword, Disconnect, Requests
    <2> QED BY <1>5, <2>1
  <1>10. CASE m.cmd = "verifyLinks" /\ ~(Open(c) /\ client[c].acct = NoAccount)
    <2>1. UNCHANGED client
      BY <1>10 DEF WorldHandles, OnWorldVerifyLinks
    <2> QED BY <1>5, <2>1
  <1> QED BY <1>7, <1>8, <1>9, <1>10 DEF WorldHandles, Requests

LEMMA StoreNext == ASSUME StoreIInv, [Next]_vars PROVE StoreIInv'
  <1>1. CASE Links
    BY <1>1, StoreBreak, StoreTime DEF Links, BreakLink, Sweep
  <1>2. CASE Comings
    BY <1>2, StoreConnect, StoreTime, StoreLeave, StoreHandOver DEF Comings
  <1>3. CASE Index
    BY <1>3, StoreIndex DEF Index
  <1>4. CASE Subpassword
    BY <1>4, StoreSubpassword DEF Subpassword
  <1>5. CASE Playing
    BY <1>5, StoreSync, StorePlay DEF Playing
  <1>6. CASE Handling
    BY <1>6, StoreMaster, StoreCreate, StoreVerdict, StoreWorld DEF Handling
  <1>7. CASE UNCHANGED vars
    <2>1. UNCHANGED <<client, link, toMaster, toWorld, atAuth, account, rows, now, newest,
                      unsaved, shared, raced>>
      BY <1>7 DEF vars, db, history
    <2>2. Keeps /\ OneRow' /\ Chars' = Chars
             /\ \A c \in Conns' : c \in Conns /\ client'[c] = client[c]
      BY <2>1, SameContexts
    <2>3. TypeOK'
      BY <2>1, <2>2 DEF StoreIInv, TypeOK
    <2> QED BY <2>1, <2>2, <2>3, StoreKept
  <1> QED BY <1>1, <1>2, <1>3, <1>4, <1>5, <1>6, <1>7 DEF Next

\* The rows of an account stand in different slots.
LEMMA RowsInSlots == ASSUME StoreIInv PROVE RowsFit
  <1> SUFFICES ASSUME NEW a \in Accounts PROVE Cardinality(Placed(a)) <= Cardinality(Slots)
    BY DEF RowsFit
  <1> DEFINE S == Placed(a)
             f == [k \in S |-> rows[k].slot]
  <1>1. \A k \in S : k \in Chars /\ rows[k].slot \in Slots /\ rows[k].acct = a
    BY DEF Placed
  <1> HIDE DEF S
  <1>2. f \in [S -> Slots]
    BY <1>1
  <1>3. \A j, k \in S : f[j] = f[k] => j = k
    BY <1>1 DEF StoreIInv, OneRow
  <1> HIDE DEF f
  <1>4. f \in Injection(S, Slots)
    BY <1>2, <1>3, Fun_IsInj
  <1>5. Cardinality(S) <= Cardinality(Slots)
    BY <1>4, FS_Injection, StoreAssumption
  <1> QED BY <1>5 DEF S

-----------------------------------------------------------------------------
(* A client learns of the characters it creates.                           *)

\* A step that sends at most one answer, which is no list for c, and adds only
\* rows c is not told of or that this answer tells.
LEMMA ListedKept ==
    ASSUME TypeOK, NEW c \in Conns, Listed(c), NEW a \in ToWorld, ~Lists(a, c),
           toWorld' = toWorld \/ toWorld' = Append(toWorld, a),
           client'[c].acct = client[c].acct, client'[c].index = client[c].index,
           client[c].untold \subseteq client'[c].untold,
           \A k \in Placed(client[c].acct)' :
              \/ /\ k \in Placed(client[c].acct)
                 /\ rows'[k].slot = rows[k].slot
              \/ k \in client'[c].untold
              \/ toWorld' = Append(toWorld, a) /\ Tells(a, c, k)
    PROVE  Listed(c)'
  <1>0. toWorld \in Seq(ToWorld) /\ Len(toWorld) \in Nat
        /\ DOMAIN toWorld = 1 .. Len(toWorld)
    BY DEF TypeOK
  <1>1. /\ DOMAIN toWorld \subseteq DOMAIN toWorld' /\ DOMAIN toWorld \subseteq Nat
        /\ \A i \in DOMAIN toWorld : toWorld'[i] = toWorld[i] /\ i <= Len(toWorld)
        /\ \A i \in DOMAIN toWorld' : i \in DOMAIN toWorld \/ toWorld'[i] = a
    <2>1. DOMAIN toWorld \subseteq Nat /\ \A i \in DOMAIN toWorld : i <= Len(toWorld)
      BY ONLY <1>0
    <2>2. CASE toWorld' = toWorld
      BY ONLY <2>1, <2>2
    <2>3. CASE toWorld' = Append(toWorld, a)
      BY <1>0, <2>3, Appended
    <2> QED BY <2>2, <2>3
  <1>3. toWorld' = Append(toWorld, a) =>
              /\ Len(toWorld) + 1 \in DOMAIN toWorld' /\ toWorld'[Len(toWorld) + 1] = a
              /\ \A i \in DOMAIN toWorld : Len(toWorld) + 1 > i
              /\ Len(toWorld) + 1 > 0
    BY <1>0, Appended
  <1>2. ASSUME NEW index, NEW i, i = 0 \/ i \in DOMAIN toWorld, Complete(index, c, i)
        PROVE  \A k \in Placed(client[c].acct)' \ client'[c].untold :
                  \/ index[rows'[k].slot] = k
                  \/ \E j \in DOMAIN toWorld' : j > i /\ Tells(toWorld'[j], c, k)
    <2> TAKE k \in Placed(client[c].acct)' \ client'[c].untold
    <2>1. CASE k \in Placed(client[c].acct) /\ rows'[k].slot = rows[k].slot
      <3>1. k \in Placed(client[c].acct) \ client[c].untold
        BY <2>1
      <3>2. \/ index[rows[k].slot] = k
            \/ \E j \in DOMAIN toWorld : j > i /\ Tells(toWorld[j], c, k)
        BY <1>2, <3>1 DEF Complete
      <3> QED BY <1>1, <2>1, <3>2
    <2>2. CASE toWorld' = Append(toWorld, a) /\ Tells(a, c, k)
      BY <1>2, <1>3, <2>2
    <2>3. CASE k \in client'[c].untold
      BY <2>3
    <2> QED BY <2>1, <2>2, <2>3
  <1>4. ASSUME NEW index, NEW i, i = 0 \/ i \in DOMAIN toWorld, Complete(index, c, i)
        PROVE  \A index1 : index1 = index =>
                 \A k \in Placed(client[c].acct)' \ client'[c].untold :
                  \/ index1[rows'[k].slot] = k
                  \/ \E j \in DOMAIN toWorld' : j > i /\ Tells(toWorld'[j], c, k)
    BY <1>2, <1>4
  <1>5. Loaded(c)' => Complete(client[c].index, c, 0)'
    <2>1. Loaded(c)' => Loaded(c)
      BY DEF Loaded
    <2>2. ASSUME Loaded(c) PROVE Complete(client[c].index, c, 0)'
      <3>1. Complete(client[c].index, c, 0)
        BY <2>2 DEF Listed
      <3>2. \A k \in Placed(client[c].acct)' \ client'[c].untold :
                  \/ client'[c].index[rows'[k].slot] = k
                  \/ \E j \in DOMAIN toWorld' : j > 0 /\ Tells(toWorld'[j], c, k)
        BY <1>4, <3>1
      <3> QED BY <3>2 DEF Complete
    <2> QED BY <2>1, <2>2
  <1>6. ASSUME NEW i \in DOMAIN toWorld', Lists(toWorld'[i], c)
        PROVE  /\ i \in DOMAIN toWorld /\ toWorld'[i] = toWorld[i] /\ Lists(toWorld[i], c)
               /\ Complete(toWorld[i].index, c, i)'
    <2>1. i \in DOMAIN toWorld /\ toWorld'[i] = toWorld[i] /\ Lists(toWorld[i], c)
      BY <1>1, <1>6
    <2>2. Complete(toWorld[i].index, c, i)
      BY <2>1 DEF Listed
    <2>3. \A k \in Placed(client[c].acct)' \ client'[c].untold :
                  \/ toWorld'[i].index[rows'[k].slot] = k
                  \/ \E j \in DOMAIN toWorld' : j > i /\ Tells(toWorld'[j], c, k)
      BY <1>4, <2>1, <2>2
    <2> QED BY <2>1, <2>3 DEF Complete
  <1>7. ASSUME NEW i \in DOMAIN toWorld', NEW j \in DOMAIN toWorld', i < j,
               Lists(toWorld'[i], c), Lists(toWorld'[j], c)
        PROVE  Range(toWorld'[i].index) \ {0} \subseteq Range(toWorld'[j].index)
    <2>1. /\ i \in DOMAIN toWorld /\ toWorld'[i] = toWorld[i] /\ Lists(toWorld[i], c)
          /\ j \in DOMAIN toWorld /\ toWorld'[j] = toWorld[j] /\ Lists(toWorld[j], c)
      BY <1>6, <1>7
    <2> QED BY <1>7, <2>1 DEF Listed
  <1>8. \A m : Lists(m, c)' <=> Lists(m, c)
    BY DEF Lists
  <1> QED
    <2>1. \A i \in DOMAIN toWorld' : Lists(toWorld[i], c)' => Complete(toWorld[i].index, c, i)'
      BY <1>6, <1>8 DEF Lists
    <2>2. \A i, j \in DOMAIN toWorld' :
             Lists(toWorld[i], c)' /\ i < j /\ Lists(toWorld[j], c)' =>
                Range(toWorld'[i].index) \ {0} \subseteq Range(toWorld'[j].index)
      BY <1>7 DEF Lists
    <2> QED BY <1>5, <2>1, <2>2 DEF Listed, Range

\* A list MasterSvr sends has all characters of the account in their slots.
LEMMA CharactersFull ==
    ASSUME OneRow, NEW a, NEW k \in Placed(a)
    PROVE  Characters(a)[rows[k].slot] = k
  <1> DEFINE s == rows[k].slot
             is(j) == rows[j].acct = a /\ rows[j].slot = s
  <1>1. s \in Slots /\ k \in Chars /\ is(k)
    BY DEF Placed
  <1>2. Characters(a)[s] = IF \E j \in Chars : is(j) THEN CHOOSE j \in Chars : is(j) ELSE 0
    BY <1>1 DEF Characters
  <1>3. \A j \in Chars : is(j) => j = k
    BY <1>1 DEF OneRow
  <1> HIDE DEF is, s
  <1>4. (CHOOSE j \in Chars : is(j)) = k
    BY <1>1, <1>3
  <1> QED BY <1>1, <1>2, <1>4 DEF s

\* A list is sent behind those that are under way.
LEMMA ListSent ==
    ASSUME StoreIInv, NEW c \in Conns, Open(c), Listed(c), UNCHANGED <<client, rows>>,
           NEW a \in ToWorld, Lists(a, c), a.index = Characters(client[c].acct),
           toWorld' = Append(toWorld, a)
    PROVE  Listed(c)'
  <1> DEFINE n == Len(toWorld) + 1
  <1>1. toWorld \in Seq(ToWorld) /\ Len(toWorld) \in Nat /\ DOMAIN toWorld = 1 .. Len(toWorld)
    BY DEF StoreIInv, TypeOK
  <1>2. /\ DOMAIN toWorld' = DOMAIN toWorld \cup {n} /\ toWorld'[n] = a
        /\ \A i \in DOMAIN toWorld : toWorld'[i] = toWorld[i] /\ i < n
        /\ n \notin DOMAIN toWorld
    <2>1. /\ DOMAIN Append(toWorld, a) = DOMAIN toWorld \cup {Len(toWorld) + 1}
          /\ Append(toWorld, a)[Len(toWorld) + 1] = a
          /\ \A i \in DOMAIN toWorld : Append(toWorld, a)[i] = toWorld[i]
      BY <1>1, Appended
    <2> QED BY <1>1, <2>1
  <1> HIDE DEF n
  <1>3. ASSUME NEW index, NEW i, Complete(index, c, i)
        PROVE  \A k \in Placed(client[c].acct)' \ client'[c].untold :
                  \/ index[rows'[k].slot] = k
                  \/ \E j \in DOMAIN toWorld' : j > i /\ Tells(toWorld'[j], c, k)
    <2>1. Placed(client[c].acct)' = Placed(client[c].acct)
      BY DEF Placed, Chars
    <2> QED BY <1>2, <1>3, <2>1 DEF Complete
  <1>4. \A k \in Placed(client[c].acct)' : a.index[rows'[k].slot] = k
    <2>1. Placed(client[c].acct)' = Placed(client[c].acct)
      BY DEF Placed, Chars
    <2> QED BY <2>1, CharactersFull DEF StoreIInv
  <1>5. ASSUME NEW i \in DOMAIN toWorld, Lists(toWorld[i], c)
        PROVE  Range(toWorld[i].index) \ {0} \subseteq Range(a.index)
    <2> DEFINE x == toWorld[i].index
    <2>1. x \in [Slots -> Nat] /\ Backed(x, client[c].acct)
      <3>1. toWorld[i] \in ToWorld /\ OwnAnswer(toWorld[i])
        BY <1>1 DEF StoreIInv, Owned, Range
      <3> QED BY <1>5, <3>1, AnswerFields DEF Lists, OwnAnswer
    <2>2. DOMAIN a.index = Slots
      BY DEF Characters
    <2> HIDE DEF x
    <2>3. ASSUME NEW v \in Range(x) \ {0} PROVE v \in Range(a.index)
      <3>1. PICK s \in Slots : x[s] = v /\ v # 0
        BY <2>1 DEF Range
      <3>2. v \in Placed(client[c].acct) /\ rows[v].slot = s
        BY <2>1, <3>1 DEF Backed, Placed
      <3>3. a.index[s] = v
        BY <3>2, CharactersFull DEF StoreIInv
      <3> QED BY <2>2, <3>3 DEF Range
    <2> QED BY <2>3 DEF x
  <1>6. Loaded(c)' => Complete(client[c].index, c, 0)'
    <2>1. Loaded(c)' => Complete(client[c].index, c, 0)
      BY DEF Listed, Loaded
    <2>2. Loaded(c)' => \A k \in Placed(client[c].acct)' \ client'[c].untold :
                  \/ client[c].index[rows'[k].slot] = k
                  \/ \E j \in DOMAIN toWorld' : j > 0 /\ Tells(toWorld'[j], c, k)
      BY <1>3, <2>1
    <2> QED BY <2>2 DEF Complete
  <1>7. ASSUME NEW i \in DOMAIN toWorld', Lists(toWorld'[i], c)
        PROVE  Complete(toWorld[i].index, c, i)'
    <2>1. CASE i = n
      BY <1>2, <1>4, <2>1 DEF Complete
    <2>2. CASE i \in DOMAIN toWorld
      <3>1. Complete(toWorld[i].index, c, i)
        BY <1>2, <1>7, <2>2 DEF Listed
      <3>2. \A k \in Placed(client[c].acct)' \ client'[c].untold :
                  \/ toWorld'[i].index[rows'[k].slot] = k
                  \/ \E j \in DOMAIN toWorld' : j > i /\ Tells(toWorld'[j], c, k)
        BY <1>2, <1>3, <2>2, <3>1
      <3> QED BY <3>2 DEF Complete
    <2> QED BY <1>2, <2>1, <2>2
  <1>8. ASSUME NEW i \in DOMAIN toWorld', NEW j \in DOMAIN toWorld', i < j,
               Lists(toWorld'[i], c), Lists(toWorld'[j], c)
        PROVE  Range(toWorld'[i].index) \ {0} \subseteq Range(toWorld'[j].index)
    <2>0. n \in Nat /\ \A x \in DOMAIN toWorld : x \in Nat
      BY <1>1 DEF n
    <2>1. i \in DOMAIN toWorld
      BY <1>2, <1>8, <2>0
    <2>2. CASE j = n
      BY <1>2, <1>5, <1>8, <2>1, <2>2
    <2>3. CASE j \in DOMAIN toWorld
      BY <1>2, <1>8, <2>1, <2>3 DEF Listed
    <2> QED BY <1>2, <2>2, <2>3
  <1> QED
    <2>1. \A i \in DOMAIN toWorld' : Lists(toWorld[i], c)' => Complete(toWorld[i].index, c, i)'
      BY <1>7 DEF Lists
    <2>2. \A i, j \in DOMAIN toWorld' :
             Lists(toWorld[i], c)' /\ i < j /\ Lists(toWorld[j], c)' =>
                (Range(toWorld[i].index) \ {0} \subseteq Range(toWorld[j].index))'
      <3>1. ASSUME NEW i \in DOMAIN toWorld', NEW j \in DOMAIN toWorld', i < j,
                   Lists(toWorld[i], c)', Lists(toWorld[j], c)'
            PROVE  Range(toWorld'[i].index) \ {0} \subseteq Range(toWorld'[j].index)
        BY <1>8, <3>1 DEF Lists
      <3> QED BY <3>1, ZenonT(60) DEF Range
    <2> QED BY <1>6, <2>1, <2>2 DEF Listed

\* WorldSvr takes an answer: the list at hand and those under way miss what they
\* missed, where the client's list and the rows it is not told of change with a
\* list or with an answer that tells it of a row.
LEMMA ListTaken ==
    ASSUME StoreIInv, NEW c \in Conns, Open(c), Listed(c), UNCHANGED rows,
           toWorld # <<>>, toWorld' = Tail(toWorld), client'[c].acct = client[c].acct,
           \/ /\ Loaded(c)' => Loaded(c)
              /\ client[c].untold = client'[c].untold
              /\ \A k \in Placed(client[c].acct) :
                    (Loaded(c) /\ client[c].index[rows[k].slot] = k) \/ Tells(Head(toWorld), c, k) =>
                        client'[c].index[rows[k].slot] = k
           \/ /\ Lists(Head(toWorld), c)
              /\ client'[c].index = Head(toWorld).index
              /\ client'[c].untold = client[c].untold \ Range(Head(toWorld).index)
    PROVE  Listed(c)'
  <1> DEFINE m == Head(toWorld)
             x == client[c].index
             y == client'[c].index
             u == client[c].untold
             v == client'[c].untold
             P == Placed(client[c].acct)
  <1>1. /\ DOMAIN toWorld \subseteq Nat /\ 1 \in DOMAIN toWorld /\ toWorld[1] = m
        /\ \A i \in DOMAIN toWorld' :
              i \in Nat \ {0} /\ i + 1 \in DOMAIN toWorld /\ toWorld'[i] = toWorld[i + 1]
        /\ \A i \in DOMAIN toWorld : i # 1 =>
              i - 1 \in DOMAIN toWorld' /\ i - 1 + 1 = i
    <2>1. toWorld \in Seq(ToWorld) /\ DOMAIN toWorld \subseteq Nat
      BY DEF StoreIInv, TypeOK
    <2> QED BY <2>1, Popped
  <1>2. Placed(client[c].acct)' = P
    BY DEF Placed, Chars
  <1>3. ASSUME NEW i \in DOMAIN toWorld, Lists(toWorld[i], c)
        PROVE  /\ Complete(toWorld[i].index, c, i) /\ DOMAIN toWorld[i].index = Slots
               /\ \A s \in Slots : toWorld[i].index[s] # 0 =>
                     rows[toWorld[i].index[s]].slot = s
    <2>1. Backed(toWorld[i].index, client[c].acct) /\ toWorld[i].index \in [Slots -> Nat]
      <3>1. toWorld[i] \in ToWorld /\ OwnAnswer(toWorld[i])
        BY DEF StoreIInv, TypeOK, Owned, Range
      <3> QED BY <1>3, <3>1, AnswerFields DEF Lists, OwnAnswer
    <2> QED BY <1>3, <2>1 DEF Listed, Backed
  <1>4. ASSUME NEW i \in DOMAIN toWorld', Lists(toWorld'[i], c), NEW k \in P \ v
        PROVE  \/ toWorld'[i].index[rows[k].slot] = k
               \/ \E j \in DOMAIN toWorld' : j > i /\ Tells(toWorld'[j], c, k)
    <2>1. i + 1 \in DOMAIN toWorld /\ toWorld'[i] = toWorld[i + 1] /\ i \in Nat \ {0}
      BY <1>1
    <2>2. CASE k \notin u
      <3>1. \/ toWorld[i + 1].index[rows[k].slot] = k
            \/ \E j \in DOMAIN toWorld : j > i + 1 /\ Tells(toWorld[j], c, k)
        BY <1>3, <1>4, <2>1, <2>2 DEF Complete
      <3>2. ASSUME NEW j \in DOMAIN toWorld, j > i + 1, Tells(toWorld[j], c, k)
            PROVE  \E l \in DOMAIN toWorld' : l > i /\ Tells(toWorld'[l], c, k)
        <4>1. j - 1 \in DOMAIN toWorld' /\ j - 1 + 1 = j /\ j - 1 > i
          BY <1>1, <2>1, <3>2
        <4> QED BY <1>1, <3>2, <4>1
      <3> QED BY <2>1, <3>1, <3>2
    <2>3. CASE k \in u
      <3>1. Lists(m, c) /\ k \in Range(m.index) /\ k # 0
        <4>1. P \subseteq Nat \ {0}
          BY Known DEF StoreIInv, Placed
        <4> QED BY <2>3, <4>1
      <3>2. k \in Range(toWorld[i + 1].index)
        <4>1. 1 < i + 1
          BY <2>1
        <4> QED BY <1>1, <1>4, <2>1, <3>1, <4>1 DEF Listed
      <3>3. PICK s \in Slots : toWorld[i + 1].index[s] = k
        BY <1>3, <1>4, <2>1, <3>2 DEF Range
      <3> QED BY <1>3, <1>4, <2>1, <3>1, <3>3
    <2> QED BY <2>2, <2>3
  <1>5. ASSUME Loaded(c)', NEW k \in P \ v
        PROVE  \/ y[rows[k].slot] = k
               \/ \E j \in DOMAIN toWorld' : j > 0 /\ Tells(toWorld'[j], c, k)
    <2>1. ASSUME NEW j \in DOMAIN toWorld, j # 1, Tells(toWorld[j], c, k)
          PROVE  \E l \in DOMAIN toWorld' : l > 0 /\ Tells(toWorld'[l], c, k)
      <3>1. j - 1 \in DOMAIN toWorld' /\ j - 1 + 1 = j
        BY <1>1, <2>1
      <3>2. toWorld'[j - 1] = toWorld[j] /\ j - 1 > 0
        BY <1>1, <3>1
      <3> QED BY <2>1, <3>1, <3>2
    <2>2. CASE Lists(m, c) /\ y = m.index /\ v = u \ Range(m.index)
      <3>1. CASE k \notin u
        <4>1. \/ m.index[rows[k].slot] = k
              \/ \E j \in DOMAIN toWorld : j > 1 /\ Tells(toWorld[j], c, k)
          BY <1>1, <1>3, <2>2, <3>1 DEF Complete
        <4> QED BY <2>1, <2>2, <4>1
      <3>2. CASE k \in u
        <4>1. k \in Range(m.index) /\ k # 0
          <5>1. P \subseteq Nat \ {0}
            BY Known DEF StoreIInv, Placed
          <5> QED BY <2>2, <3>2, <5>1
        <4>2. PICK s \in Slots : m.index[s] = k
          BY <1>1, <1>3, <2>2, <4>1 DEF Range
        <4> QED BY <1>1, <1>3, <2>2, <4>1, <4>2
      <3> QED BY <3>1, <3>2
    <2>3. CASE /\ Loaded(c) /\ v = u
               /\ (x[rows[k].slot] = k \/ Tells(m, c, k)) => y[rows[k].slot] = k
      <3>1. \/ x[rows[k].slot] = k
            \/ \E j \in DOMAIN toWorld : j > 0 /\ Tells(toWorld[j], c, k)
        BY <2>3 DEF Listed, Complete
      <3> QED BY <1>1, <2>1, <2>3, <3>1
    <2> QED BY <1>5, <2>2, <2>3
  <1>6. ASSUME NEW i \in DOMAIN toWorld', NEW j \in DOMAIN toWorld', i < j,
               Lists(toWorld'[i], c), Lists(toWorld'[j], c)
        PROVE  Range(toWorld'[i].index) \ {0} \subseteq Range(toWorld'[j].index)
    <2>1. /\ i + 1 \in DOMAIN toWorld /\ toWorld'[i] = toWorld[i + 1]
          /\ j + 1 \in DOMAIN toWorld /\ toWorld'[j] = toWorld[j + 1]
          /\ i + 1 < j + 1
      BY <1>1, <1>6
    <2> QED BY <1>6, <2>1 DEF Listed
  <1> QED
    <2>1. \A i \in DOMAIN toWorld' : Lists(toWorld[i], c)' => Complete(toWorld[i].index, c, i)'
      BY <1>2, <1>4 DEF Lists, Complete
    <2>2. \A i, j \in DOMAIN toWorld' :
             Lists(toWorld[i], c)' /\ i < j /\ Lists(toWorld[j], c)' =>
                (Range(toWorld[i].index) \ {0} \subseteq Range(toWorld[j].index))'
      <3>1. ASSUME NEW i \in DOMAIN toWorld', NEW j \in DOMAIN toWorld', i < j,
                   Lists(toWorld[i], c)', Lists(toWorld[j], c)'
            PROVE  Range(toWorld'[i].index) \ {0} \subseteq Range(toWorld'[j].index)
        BY <1>6, <3>1 DEF Lists
      <3> QED BY <3>1, ZenonT(60) DEF Range
    <2>3. Loaded(c)' => Complete(client[c].index, c, 0)'
      BY <1>2, <1>5 DEF Complete
    <2> QED BY <2>1, <2>2, <2>3 DEF Listed

\* What Listed depends on of a context.
KeepsList(c) ==
    /\ client'[c].open = client[c].open /\ client'[c].acct = client[c].acct
    /\ client'[c].index = client[c].index /\ client'[c].untold = client[c].untold

\* A step that sends at most an answer that is no list.
LEMMA ListQuiet ==
    ASSUME StoreIInv, ListInv, NEW a \in ToWorld, a.cmd # "getCharacters",
           toWorld' = toWorld \/ toWorld' = Append(toWorld, a),
           Conns' = Conns, Chars' = Chars,
           \A k \in Chars : rows'[k].acct = rows[k].acct /\ rows'[k].slot = rows[k].slot,
           \A c \in Conns : KeepsList(c) \/ ~Open(c)'
    PROVE  ListInv'
  <1> SUFFICES ASSUME NEW c \in Conns, Open(c)' PROVE Listed(c)'
    BY DEF ListInv
  <1>1. Listed(c) /\ KeepsList(c)
    BY DEF ListInv, KeepsList, Open
  <1>2. \A k \in Placed(client[c].acct)' :
           k \in Placed(client[c].acct) /\ rows'[k].slot = rows[k].slot
    BY <1>1 DEF Placed, KeepsList
  <1>3. ~Lists(a, c)
    BY DEF Lists
  <1> QED BY <1>1, <1>2, <1>3, ListedKept DEF StoreIInv, KeepsList

LEMMA ListInit == ASSUME Init PROVE ListInv
  BY DEF Init, ListInv, Conns

LEMMA ListBreak == ASSUME StoreIInv, ListInv, Break PROVE ListInv'
  <1> SUFFICES ASSUME NEW c \in Conns', Open(c)' PROVE Listed(c)'
    BY DEF ListInv
  <1>1. TypeOK
    BY DEF StoreIInv
  <1>2. /\ c \in Conns /\ SameBut(c)
        /\ client'[c].untold = client[c].untold
              \cup {k \in Chars : \E m \in Range(toWorld) : Tells(m, c, k)}
    BY <1>1, BreakKept
  <1>3. toWorld' = <<>> /\ rows' = rows
    BY DEF Break, db
  <1>4. Listed(c) /\ Placed(client[c].acct)' = Placed(client[c].acct)
    BY <1>2, <1>3 DEF ListInv, SameBut, Open, Placed, Chars
  <1>5. ASSUME Loaded(c)', NEW k \in Placed(client[c].acct) \ client'[c].untold
        PROVE  client[c].index[rows[k].slot] = k
    <2>1. k \in Chars /\ k \notin client[c].untold /\ ~\E m \in Range(toWorld) : Tells(m, c, k)
      BY <1>2 DEF Placed
    <2>2. Complete(client[c].index, c, 0)
      BY <1>2, <1>4, <1>5 DEF Listed, Loaded, SameBut
    <2>3. \A j \in DOMAIN toWorld : ~Tells(toWorld[j], c, k)
      BY <2>1 DEF Range
    <2> QED BY <2>1, <2>2, <2>3 DEF Complete
  <1> QED
    <2>1. Loaded(c)' => Complete(client[c].index, c, 0)'
      BY <1>2, <1>3, <1>4, <1>5 DEF Complete, SameBut
    <2>2. DOMAIN toWorld' = {}
      BY <1>3
    <2> QED BY <2>1, <2>2 DEF Listed

LEMMA ListedStill ==
    ASSUME NEW c, Listed(c), UNCHANGED <<toWorld, rows>>, KeepsList(c)
    PROVE  Listed(c)'
  <1>1. Placed(client[c].acct)' = Placed(client[c].acct) /\ client'[c].untold = client[c].untold
        /\ client'[c].index = client[c].index
    BY DEF Placed, KeepsList, Chars
  <1>2. ASSUME NEW index, NEW i, Complete(index, c, i)
        PROVE  \A k \in Placed(client[c].acct)' \ client'[c].untold :
                  \/ index[rows'[k].slot] = k
                  \/ \E j \in DOMAIN toWorld' : j > i /\ Tells(toWorld'[j], c, k)
    BY <1>1, <1>2 DEF Complete
  <1>3. Loaded(c)' => Complete(client[c].index, c, 0)'
    <2>1. Loaded(c)' => Complete(client[c].index, c, 0)
      BY <1>1 DEF Listed, Loaded
    <2>2. Loaded(c)' => \A k \in Placed(client[c].acct)' \ client'[c].untold :
                  \/ client[c].index[rows'[k].slot] = k
                  \/ \E j \in DOMAIN toWorld' : j > 0 /\ Tells(toWorld'[j], c, k)
      BY <1>2, <2>1
    <2> QED BY <1>1, <2>2 DEF Complete
  <1>4. ASSUME NEW i \in DOMAIN toWorld', Lists(toWorld'[i], c)
        PROVE  Complete(toWorld[i].index, c, i)'
    <2>1. Complete(toWorld[i].index, c, i)
      BY <1>4 DEF Listed
    <2>2. \A k \in Placed(client[c].acct)' \ client'[c].untold :
                  \/ toWorld'[i].index[rows'[k].slot] = k
                  \/ \E j \in DOMAIN toWorld' : j > i /\ Tells(toWorld'[j], c, k)
      BY <1>2, <2>1
    <2> QED BY <2>2 DEF Complete
  <1>5. \A i, j \in DOMAIN toWorld' :
           Lists(toWorld'[i], c) /\ i < j /\ Lists(toWorld'[j], c) =>
              Range(toWorld'[i].index) \ {0} \subseteq Range(toWorld'[j].index)
    BY DEF Listed
  <1> QED BY <1>3, <1>4, <1>5 DEF Listed, Lists, Range

\* Steps that send no answer and leave lists, accounts and rows alone.
LEMMA ListStill ==
    ASSUME StoreIInv, ListInv, UNCHANGED <<toWorld, rows>>, Conns' = Conns,
           \A c \in Conns : KeepsList(c) \/ ~Open(c)'
    PROVE  ListInv'
  <1> SUFFICES ASSUME NEW c \in Conns, Open(c)' PROVE Listed(c)'
    BY DEF ListInv
  <1>1. Listed(c) /\ KeepsList(c)
    BY DEF ListInv, KeepsList, Open
  <1> QED BY <1>1, ListedStill

LEMMA ListConnect == ASSUME StoreIInv, ListInv, OnConnect PROVE ListInv'
  <1>1. client \in Seq(Clients) /\ Len(client) \in Nat
    BY DEF StoreIInv, TypeOK
  <1>2. UNCHANGED <<toWorld, rows>> /\ client' = Append(client, NewClient)
    BY DEF OnConnect, db
  <1>3. Conns' = Conns \cup {Len(client) + 1} /\ Len(client) + 1 \notin Conns
        /\ client'[Len(client) + 1] = NewClient
        /\ \A c \in Conns : client'[c] = client[c]
    BY <1>1, <1>2 DEF Conns
  <1> SUFFICES ASSUME NEW c \in Conns', Open(c)' PROVE Listed(c)'
    BY DEF ListInv
  <1>4. CASE c \in Conns
    <2>1. Listed(c) /\ KeepsList(c)
      BY <1>3, <1>4 DEF ListInv, Open, KeepsList
    <2> QED BY <1>2, <2>1, ListedStill
  <1>5. CASE c = Len(client) + 1
    <2>1. ~Loaded(c)'
      BY <1>3, <1>5 DEF Loaded, NewClient
    <2>2. \A i \in DOMAIN toWorld' : ~Lists(toWorld[i], c)'
      BY <1>2, <1>3, <1>5 DEF StoreIInv, Owned, OwnAnswer, Range, Lists
    <2> QED BY <2>1, <2>2 DEF Listed
  <1> QED BY <1>3, <1>4, <1>5

LEMMA ListComings ==
    ASSUME StoreIInv, ListInv, Comings \/ Reconnect
    PROVE  ListInv'
  <1>1. CASE Reconnect \/ TimePasses
    <2>1. UNCHANGED <<toWorld, rows, client>>
      BY <1>1 DEF Reconnect, TimePasses, db
    <2> QED BY <2>1, ListStill DEF KeepsList, Conns
  <1>2. ASSUME NEW c \in Conns, Leave(c) PROVE ListInv'
    <2> DEFINE r == [NewClient EXCEPT !.open = FALSE]
    <2>1. UNCHANGED <<toWorld, rows>> /\ client' = [client EXCEPT ![c] = r] /\ ~r.open
      BY <1>2 DEF Leave, db, NewClient
    <2>2. r \in Clients
      <3>1. NewClient \in Clients
        BY StoreAssumption DEF NewClient, Clients
      <3> QED BY <3>1 DEF Clients
    <2> HIDE DEF r
    <2>3. Conns' = Conns /\ client'[c] = r /\ \A d \in Conns : d # c => client'[d] = client[d]
      BY <2>1, <2>2, Changed DEF StoreIInv, TypeOK
    <2> QED BY <2>1, <2>3, ListStill DEF KeepsList, Open
  <1>3. ASSUME NEW c \in Conns, NEW b \in Accounts, OnAuthVerifyLinks(c, b) PROVE ListInv'
    <2> DEFINE a == [cmd |-> "verifyLinks", conn |-> c, acct |-> b, row |-> account[b]]
    <2>1. UNCHANGED <<client, rows>> /\ toWorld' = Append(toWorld, a)
      BY <1>3 DEF OnAuthVerifyLinks, db, Answer
    <2>2. a \in ToWorld /\ a.cmd # "getCharacters"
      BY Known, AnswerPackets DEF StoreIInv, TypeOK
    <2> HIDE DEF a
    <2> QED BY <2>1, <2>2, ListQuiet DEF KeepsList, Conns, Chars
  <1> QED BY <1>1, <1>2, <1>3, ListConnect DEF Comings

\* Clients ask, play and save: no answer is sent.
LEMMA ListActs ==
    ASSUME StoreIInv, ListInv, Index \/ Playing \/ Subpassword
    PROVE  ListInv'
  <1>1. ASSUME NEW c \in Conns, NEW r \in Clients, client' = [client EXCEPT ![c] = r],
               UNCHANGED <<toWorld, rows>>,
               r.open = client[c].open, r.acct = client[c].acct,
               r.index = client[c].index, r.untold = client[c].untold
        PROVE  ListInv'
    <2>1. Conns' = Conns /\ client'[c] = r /\ \A d \in Conns : d # c => client'[d] = client[d]
      BY <1>1, Changed DEF StoreIInv, TypeOK
    <2> QED BY <1>1, <2>1, ListStill DEF KeepsList
  <1>2. ASSUME NEW c \in Conns, NEW m, Request(c, m), m.cmd \in Requests PROVE ListInv'
    <2> DEFINE r == [client[c] EXCEPT !.waiting = @ \cup {m.cmd},
                        !.missed = IF link = "down" THEN @ \cup {m.cmd} ELSE @ \ {m.cmd}]
    <2>1. client' = [client EXCEPT ![c] = r] /\ UNCHANGED <<toWorld, rows>>
      BY <1>2 DEF Request, db
    <2>2. client[c] \in Clients
      BY ContextIs
    <2>3. /\ r \in Clients /\ r.open = client[c].open /\ r.acct = client[c].acct
          /\ r.index = client[c].index /\ r.untold = client[c].untold
      BY <1>2, <2>2 DEF Clients
    <2> HIDE DEF r
    <2> QED BY <1>1, <2>1, <2>3
  <1>3. CASE Index
    <2>1. PICK c \in Conns :
             \/ GetCharacters(c) \/ VerifyCredentials(c)
             \/ \E s \in Slots \cup Beyond : CreateCharacter(c, s)
             \/ \E k \in Chars : Initialize(c, k)
      BY <1>3 DEF Index
    <2>2. CASE GetCharacters(c)
      BY <1>2, <2>2 DEF GetCharacters, Requests
    <2>3. CASE VerifyCredentials(c)
      BY <1>2, <2>3 DEF VerifyCredentials, Requests
    <2>4. ASSUME NEW s \in Slots \cup Beyond, CreateCharacter(c, s) PROVE ListInv'
      BY <1>2, <2>4 DEF CreateCharacter, Requests
    <2>5. ASSUME NEW k \in Chars, Initialize(c, k) PROVE ListInv'
      BY <1>2, <2>5 DEF Initialize, Requests
    <2> QED BY <2>1, <2>2, <2>3, <2>4, <2>5
  <1>4. ASSUME NEW c \in Conns, NEW p \in Parts, Play(c, p) PROVE ListInv'
    <2> DEFINE k == client[c].char
               v == newest[k][p] + 1
               r == [client[c] EXCEPT !.has[p] = v, !.mask = @ \cup {p}]
    <2>1. client' = [client EXCEPT ![c] = r] /\ UNCHANGED <<toWorld, rows>>
      BY <1>4 DEF Play, db
    <2>2. client[c] \in Clients /\ k \in Chars /\ client[c].has \in Versions
      BY <1>4, ContextIs DEF Play
    <2>3. v \in 0 .. MaxVersion
      <3>1. newest[k] \in Versions /\ newest[k][p] < MaxVersion
        BY <1>4, <2>2, Known DEF Play, StoreIInv
      <3> QED BY SMTT(30), <3>1, StoreAssumption DEF Versions
    <2> HIDE DEF v
    <2>4. [client[c].has EXCEPT ![p] = v] \in Versions
      BY <2>2, <2>3 DEF Versions
    <2>5. /\ r \in Clients /\ r.open = client[c].open /\ r.acct = client[c].acct
          /\ r.index = client[c].index /\ r.untold = client[c].untold
      BY <2>2, <2>4 DEF Clients
    <2> HIDE DEF r
    <2> QED BY <1>1, <2>1, <2>5
  <1>5. ASSUME NEW c \in Conns, SyncDB(c) PROVE ListInv'
    <2> DEFINE r == [client[c] EXCEPT !.mask = {}]
    <2>1. client' = [client EXCEPT ![c] = r] /\ UNCHANGED <<toWorld, rows>>
      BY <1>5 DEF SyncDB, db
    <2>2. client[c] \in Clients
      BY ContextIs
    <2>3. /\ r \in Clients /\ r.open = client[c].open /\ r.acct = client[c].acct
          /\ r.index = client[c].index /\ r.untold = client[c].untold
      BY <2>2 DEF Clients
    <2> HIDE DEF r
    <2> QED BY <1>1, <2>1, <2>3
  <1>6. CASE Subpassword
    <2>1. PICK c \in Conns :
             \/ CreateSubpassword(c) \/ VerifyDeleteSubpassword(c) \/ DeleteSubpassword(c)
             \/ \E hours \in {0, 1} : VerifySubpassword(c, hours)
      BY <1>6 DEF Subpassword
    <2>2. PICK r \in Clients :
             /\ client' = [client EXCEPT ![c] = r]
             /\ r.open = client[c].open /\ r.acct = client[c].acct
             /\ r.index = client[c].index /\ r.untold = client[c].untold
      BY <2>1, SubpasswordStep
    <2>3. UNCHANGED <<toWorld, rows>>
      BY <2>1, SubpasswordStep
    <2> QED BY <1>1, <2>2, <2>3
  <1> QED BY <1>3, <1>4, <1>5, <1>6 DEF Playing

\* The contexts after a request that will not be answered.
LEMMA MissedList ==
    ASSUME StoreIInv, NEW c \in Conns, NEW cmd \in Requests,
           client' = [client EXCEPT ![c].missed = IF Open(c) THEN @ \cup {cmd} ELSE @]
    PROVE  Conns' = Conns /\ \A d \in Conns : KeepsList(d)
  <1> DEFINE r == [client[c] EXCEPT !.missed = IF Open(c) THEN @ \cup {cmd} ELSE @]
  <1>1. client' = [client EXCEPT ![c] = r]
    OBVIOUS
  <1>2. client[c] \in Clients
    BY ContextIs
  <1>3. /\ r \in Clients /\ r.open = client[c].open /\ r.acct = client[c].acct
        /\ r.index = client[c].index /\ r.untold = client[c].untold
    BY <1>2 DEF Clients
  <1> HIDE DEF r
  <1>4. Conns' = Conns /\ client'[c] = r /\ \A d \in Conns : d # c => client'[d] = client[d]
    BY <1>1, <1>3, Changed DEF StoreIInv, TypeOK
  <1> QED BY <1>3, <1>4 DEF KeepsList

LEMMA ListVerdict == ASSUME StoreIInv, ListInv, OnMasterVerifyPassword PROVE ListInv'
  <1> DEFINE c == Head(atAuth)
             a == [cmd |-> "verifyPassword", conn |-> c]
  <1>1. atAuth # <<>> /\ rows' = rows
    BY DEF OnMasterVerifyPassword, db
  <1>2. c \in Conns
    BY <1>1, Popped DEF StoreIInv, TypeOK, Owned
  <1>3. CASE Missed([conn |-> c, cmd |-> "verifyPassword"]) /\ UNCHANGED toWorld
    <2>1. client' = [client EXCEPT ![c].missed = IF Open(c) THEN @ \cup {"verifyPassword"} ELSE @]
          /\ "verifyPassword" \in Requests
      BY <1>3 DEF Missed, Requests
    <2> HIDE DEF c
    <2> QED BY <1>1, <1>2, <1>3, <2>1, MissedList, ListStill
  <1>4. CASE Answer(a) /\ UNCHANGED client
    <2>1. a \in ToWorld /\ a.cmd # "getCharacters"
      BY <1>2, Known, AnswerPackets DEF StoreIInv
    <2> HIDE DEF a, c
    <2> QED BY <1>1, <1>4, <2>1, ListQuiet DEF KeepsList, Conns, Chars, Answer
  <1> QED BY <1>3, <1>4 DEF OnMasterVerifyPassword

\* MasterSvr sends a list of an account, or none when the statement fails.
LEMMA ListFetched ==
    ASSUME StoreIInv, ListInv, MasterHandles, Head(toMaster).cmd = "getCharacters"
    PROVE  ListInv'
  <1>1. PICK m \in ToMaster : m = Head(toMaster) /\ OwnRequest(m)
    BY RequestTaken
  <1> DEFINE a == [cmd |-> m.cmd, conn |-> m.conn, index |-> Characters(m.acct)]
  <1>2. OnWorldGetCharacters(m) /\ m.cmd = "getCharacters"
    BY <1>1 DEF MasterHandles
  <1>3. /\ m.conn \in Conns /\ m.conn \in ConnIDs /\ m.acct \in Accounts /\ rows' = rows
        /\ Open(m.conn) => m.acct = client[m.conn].acct
    BY <1>1, <1>2, RequestFields DEF OwnRequest, Requests, OnWorldGetCharacters, db
  <1>4. CASE Missed(m) /\ UNCHANGED toWorld
    <2>1. client' = [client EXCEPT ![m.conn].missed =
                         IF Open(m.conn) THEN @ \cup {"getCharacters"} ELSE @]
          /\ "getCharacters" \in Requests
      BY <1>2, <1>4 DEF Missed, Requests
    <2>2. PICK c \in Conns : c = m.conn
      BY <1>3
    <2>3. Conns' = Conns /\ \A d \in Conns : KeepsList(d)
      BY <2>1, <2>2, MissedList
    <2> QED BY <1>3, <1>4, <2>3, ListStill
  <1>5. CASE Answer(a) /\ UNCHANGED client
    <2>1. a \in ToWorld /\ a.cmd = "getCharacters" /\ a.conn = m.conn /\ a.index = Characters(m.acct)
      <3>1. PICK x : x = Characters(m.acct) /\ x \in [Slots -> Nat]
        BY CharactersBacked DEF StoreIInv
      <3>2. [cmd |-> "getCharacters", conn |-> m.conn, index |-> x] \in ToWorld
        BY <1>3, <3>1, AnswerPackets
      <3> QED BY <1>2, <3>1, <3>2
    <2> HIDE DEF a
    <2> SUFFICES ASSUME NEW c \in Conns, Open(c) PROVE Listed(c)'
      BY <1>5 DEF ListInv, Conns, Open
    <2>2. Listed(c) /\ toWorld' = Append(toWorld, a)
      BY <1>5 DEF ListInv, Answer
    <2>3. CASE c = m.conn
      <3>1. Lists(a, c) /\ a.index = Characters(client[c].acct)
        BY <1>3, <2>1, <2>3 DEF Lists
      <3> QED BY <1>3, <1>5, <2>1, <2>2, <3>1, ListSent
    <2>4. CASE c # m.conn
      <3>1. ~Lists(a, c)
        BY <2>1, <2>4 DEF Lists
      <3>2. \A k \in Placed(client[c].acct)' :
               k \in Placed(client[c].acct) /\ rows'[k].slot = rows[k].slot
        BY <1>3, <1>5 DEF Placed, Chars
      <3>3. TypeOK
        BY DEF StoreIInv
      <3> QED BY <1>5, <2>1, <2>2, <3>1, <3>2, <3>3, ListedKept
    <2> QED BY <2>3, <2>4
  <1> HIDE DEF a
  <1> QED BY <1>2, <1>4, <1>5 DEF OnWorldGetCharacters, a

\* A row that came to be is told of by the answer, or the clients of the account
\* are not told of it.
LEMMA ListCreated ==
    ASSUME StoreIInv, ListInv, MasterHandles, Head(toMaster).cmd = "createCharacter"
    PROVE  ListInv'
  <1>1. PICK m \in ToMaster : m = Head(toMaster) /\ OwnRequest(m)
    BY RequestTaken
  <1> DEFINE n == Len(rows) + 1
  <1>2. OnWorldCreateCharacter(m) /\ m.cmd = "createCharacter"
    BY <1>1 DEF MasterHandles
  <1>3. m.conn \in Conns /\ m.conn \in ConnIDs /\ m.slot \in Slots \cup Beyond
    BY <1>1, <1>2, RequestFields DEF OwnRequest, Requests
  <1>4. rows \in Seq(CharacterRows) /\ Len(rows) \in Nat /\ n \in Nat
    BY DEF StoreIInv, TypeOK
  <1>5. ASSUME NEW v \in {0, n}
        PROVE  LET a == [cmd |-> m.cmd, conn |-> m.conn, slot |-> m.slot, char |-> v]
               IN  a \in ToWorld /\ a.cmd = "createCharacter" /\ a.conn = m.conn /\ a.char = v
    <2>1. v \in Nat
      BY <1>4
    <2> HIDE DEF n
    <2> QED BY <1>2, <1>3, <2>1, AnswerPackets
  <1>6. CASE Answer([cmd |-> m.cmd, conn |-> m.conn, slot |-> m.slot, char |-> 0])
             /\ UNCHANGED <<client, rows>>
    <2> DEFINE a == [cmd |-> m.cmd, conn |-> m.conn, slot |-> m.slot, char |-> 0]
    <2>1. a \in ToWorld /\ a.cmd = "createCharacter" /\ toWorld' = Append(toWorld, a)
      BY <1>5, <1>6 DEF Answer
    <2> HIDE DEF a
    <2> QED BY <1>6, <2>1, ListQuiet DEF KeepsList, Conns, Chars
  <1>7. ASSUME Insert(m.acct, m.slot), NEW told, Untold(m.acct, n, told), NEW v \in {0, n},
               told \subseteq {m.conn}, told # {} => v = n,
               Answer([cmd |-> m.cmd, conn |-> m.conn, slot |-> m.slot, char |-> v])
        PROVE  ListInv'
    <2> DEFINE zero == [p \in Parts |-> 0]
               x == [acct |-> m.acct, slot |-> m.slot, data |-> zero]
               a == [cmd |-> m.cmd, conn |-> m.conn, slot |-> m.slot, char |-> v]
    <2>1. /\ a \in ToWorld /\ a.cmd = "createCharacter" /\ a.conn = m.conn /\ a.char = v
          /\ toWorld' = Append(toWorld, a)
      BY <1>5, <1>7 DEF Answer
    <2>2. rows' = Append(rows, x) /\ x.acct = m.acct
      BY <1>7 DEF Insert
    <2>3. TypeOK
      BY DEF StoreIInv
    <2> HIDE DEF a, x
    <2>4. /\ Conns' = Conns
          /\ \A c \in Conns : SameBut(c) /\ client'[c].untold =
                 IF client[c].acct = m.acct /\ c \notin told
                 THEN client[c].untold \cup {n} ELSE client[c].untold
      <3> HIDE DEF n
      <3> QED BY <1>4, <1>7, <2>3, UntoldKept
    <2>5. Chars' = Chars \cup {n} /\ rows'[n] = x /\ \A k \in Chars : rows'[k] = rows[k]
      BY <1>4, <2>2 DEF Chars
    <2> HIDE DEF n
    <2> SUFFICES ASSUME NEW c \in Conns, Open(c)' PROVE Listed(c)'
      BY <2>4 DEF ListInv
    <2>6. /\ Listed(c) /\ client'[c].acct = client[c].acct /\ client'[c].index = client[c].index
          /\ client'[c].untold = IF client[c].acct = m.acct /\ c \notin told
                                 THEN client[c].untold \cup {n} ELSE client[c].untold
      BY <2>4 DEF ListInv, SameBut, Open
    <2>7. ASSUME NEW k \in Placed(client[c].acct)'
          PROVE  \/ /\ k \in Placed(client[c].acct)
                    /\ rows'[k].slot = rows[k].slot
                 \/ k \in client'[c].untold
                 \/ toWorld' = Append(toWorld, a) /\ Tells(a, c, k)
      <3>1. k \in Chars' /\ rows'[k].acct = client[c].acct /\ rows'[k].slot \in Slots
        BY <2>6 DEF Placed
      <3>2. CASE k \in Chars
        BY <2>5, <3>1, <3>2 DEF Placed
      <3>3. CASE k = n
        <4>1. client[c].acct = m.acct
          BY <2>2, <2>5, <3>1, <3>3
        <4>2. CASE c \in told
          BY <1>7, <2>1, <3>3, <4>2 DEF Tells
        <4>3. CASE c \notin told
          BY <2>6, <3>3, <4>1, <4>3
        <4> QED BY <4>2, <4>3
      <3> QED BY <2>5, <3>1, <3>2, <3>3
    <2>8. ~Lists(a, c) /\ client[c].untold \subseteq client'[c].untold
      BY <2>1, <2>6 DEF Lists
    <2> QED BY <2>1, <2>3, <2>6, <2>7, <2>8, ListedKept
  <1>8. n \in {0, n} /\ 0 \in {0, n} /\ {} \subseteq {m.conn} /\ {m.conn} \subseteq {m.conn}
    OBVIOUS
  <1> QED BY <1>2, <1>6, <1>7, <1>8 DEF OnWorldCreateCharacter

LEMMA ListMaster == ASSUME StoreIInv, ListInv, MasterHandles PROVE ListInv'
  <1>1. PICK m \in ToMaster : m = Head(toMaster) /\ OwnRequest(m)
    BY RequestTaken
  <1>2. CASE m.cmd = "getCharacters"
    BY <1>1, <1>2, ListFetched
  <1>3. CASE m.cmd = "createCharacter"
    BY <1>1, <1>3, ListCreated
  <1>4. CASE m.cmd = "getCharacter" /\ OnWorldGetCharacter(m)
    <2>1. m.conn \in ConnIDs /\ m.char \in Chars
      BY <1>1, <1>4, RequestFields DEF OwnRequest, Requests
    <2>2. rows[m.char].data \in Versions /\ m.char \in Nat
      BY <2>1, Known DEF StoreIInv, CharacterRows
    <2>3. UNCHANGED <<client, rows>>
      BY <1>4 DEF OnWorldGetCharacter, db
    <2>4. ASSUME NEW a, Answer(a), a \in ToWorld, a.cmd = "getCharacter" PROVE ListInv'
      BY <2>3, <2>4, ListQuiet DEF KeepsList, Conns, Chars, Answer
    <2>5. CASE Answer([cmd |-> m.cmd, conn |-> m.conn, char |-> m.char, data |-> rows[m.char].data])
      <3> DEFINE a == [cmd |-> "getCharacter", conn |-> m.conn, char |-> m.char,
                       data |-> rows[m.char].data]
      <3>1. a \in ToWorld /\ a.cmd = "getCharacter"
        BY <2>1, <2>2, AnswerPackets
      <3>2. Answer(a)
        BY <1>4, <2>5
      <3> HIDE DEF a
      <3> QED BY <2>4, <3>1, <3>2
    <2>6. CASE Answer([cmd |-> m.cmd, conn |-> m.conn, char |-> 0])
      <3> DEFINE a == [cmd |-> "getCharacter", conn |-> m.conn, char |-> 0]
      <3>1. a \in ToWorld /\ a.cmd = "getCharacter"
        BY <2>1, AnswerPackets
      <3>2. Answer(a)
        BY <1>4, <2>6
      <3> HIDE DEF a
      <3> QED BY <2>4, <3>1, <3>2
    <2> QED BY <1>4, <2>5, <2>6 DEF OnWorldGetCharacter
  <1>5. CASE m.cmd = "verifyPassword" /\ OnWorldVerifyPassword(m)
    <2>1. UNCHANGED <<toWorld, rows>>
      BY <1>5 DEF OnWorldVerifyPassword, db
    <2>2. CASE UNCHANGED client
      BY <2>1, <2>2, ListStill DEF KeepsList, Conns
    <2>3. CASE Missed(m)
      <3>1. client' = [client EXCEPT ![m.conn].missed =
                           IF Open(m.conn) THEN @ \cup {"verifyPassword"} ELSE @]
            /\ "verifyPassword" \in Requests
        BY <1>5, <2>3 DEF Missed, Requests
      <3>2. PICK c \in Conns : c = m.conn
        BY <1>1, <1>5 DEF OwnRequest, Requests
      <3>3. Conns' = Conns /\ \A d \in Conns : KeepsList(d)
        BY <3>1, <3>2, MissedList
      <3> QED BY <2>1, <3>3, ListStill
    <2> QED BY <1>5, <2>2, <2>3 DEF OnWorldVerifyPassword
  <1>6. CASE m.cmd = "dbSync" /\ OnWorldDBSync(m)
    <2>1. PICK d : rows' = [rows EXCEPT ![m.char].data = d]
      BY <1>6 DEF OnWorldDBSync
    <2>2. UNCHANGED <<client, toWorld>>
      BY <1>6 DEF OnWorldDBSync
    <2>3. /\ Chars' = Chars
          /\ \A k \in Chars : rows'[k].acct = rows[k].acct /\ rows'[k].slot = rows[k].slot
      <3>1. rows \in Seq(CharacterRows) /\ \A k \in Chars : rows[k] \in CharacterRows
        BY Known DEF StoreIInv, TypeOK
      <3>2. Chars = 1 .. Len(rows) /\ Len(rows) \in Nat
        BY <3>1 DEF Chars
      <3> DEFINE x == [rows[m.char] EXCEPT !.data = d]
      <3>3. m.char \in Chars => x.acct = rows[m.char].acct /\ x.slot = rows[m.char].slot
        BY <3>1 DEF CharacterRows
      <3>4. rows' = [rows EXCEPT ![m.char] = x]
        BY <2>1
      <3> HIDE DEF x
      <3>5. Len(rows') = Len(rows) /\ \A k \in 1 .. Len(rows) :
               rows'[k] = IF k = m.char THEN x ELSE rows[k]
        BY <3>1, <3>4
      <3> QED BY <3>2, <3>3, <3>5 DEF Chars
    <2> SUFFICES ASSUME NEW c \in Conns, Open(c) PROVE Listed(c)'
      BY <2>2 DEF ListInv, Conns, Open
    <2>4. c \in ConnIDs
      BY ContextIs
    <2>5. [cmd |-> "verifyPassword", conn |-> c] \in ToWorld
      BY <2>4, AnswerPackets
    <2>6. \A k \in Placed(client[c].acct)' :
             k \in Placed(client[c].acct) /\ rows'[k].slot = rows[k].slot
      BY <2>2, <2>3 DEF Placed
    <2>7. TypeOK /\ Listed(c)
      BY DEF StoreIInv, ListInv
    <2>8. ~Lists([cmd |-> "verifyPassword", conn |-> c], c)
      BY DEF Lists
    <2> QED BY <2>2, <2>5, <2>6, <2>7, <2>8, ListedKept
  <1>7. CASE \/ m.cmd = "updateSubpassword" /\ OnWorldUpdateAccountSubpasswordData(m)
             \/ m.cmd = "updateSession" /\ OnWorldUpdateAccountSessionData(m)
    <2>1. UNCHANGED <<client, toWorld, rows>>
      BY <1>7 DEF OnWorldUpdateAccountSubpasswordData, OnWorldUpdateAccountSessionData
    <2> QED BY <2>1, ListStill DEF KeepsList, Conns
  <1> QED BY <1>1, <1>2, <1>3, <1>4, <1>5, <1>6, <1>7 DEF MasterHandles

\* A client whose list an answer does not touch.
LEMMA ListAside ==
    ASSUME StoreIInv, ListInv, NEW c \in Conns, Open(c), UNCHANGED rows,
           toWorld # <<>>, toWorld' = Tail(toWorld), KeepsList(c),
           \A k \in Placed(client[c].acct) : ~Tells(Head(toWorld), c, k)
    PROVE  Listed(c)'
  <1>1. Listed(c) /\ (Loaded(c)' => Loaded(c))
    BY DEF ListInv, KeepsList, Loaded
  <1>2. \A k \in Placed(client[c].acct) :
           (Loaded(c) /\ client[c].index[rows[k].slot] = k) \/ Tells(Head(toWorld), c, k) =>
               client'[c].index[rows[k].slot] = k
    BY DEF KeepsList
  <1>3. client'[c].acct = client[c].acct /\ client[c].untold = client'[c].untold
    BY DEF KeepsList
  <1> QED BY <1>1, <1>2, <1>3, ListTaken

LEMMA ListWorld == ASSUME StoreIInv, ListInv, WorldHandles PROVE ListInv'
  <1>1. PICK m \in ToWorld :
           /\ m = Head(toWorld) /\ OwnAnswer(m) /\ m.conn \in Conns
           /\ toWorld # <<>> /\ toWorld' = Tail(toWorld) /\ rows' = rows
    BY AnswerTaken DEF OwnAnswer
  <1>2. PICK c \in Conns : c = m.conn
    BY <1>1
  <1>3. client[c] \in Clients /\ TypeOK
    BY ContextIs DEF StoreIInv
  <1>4. ASSUME NEW d \in Conns, d # c, client'[d] = client[d], Open(d)' PROVE Listed(d)'
    <2>1. Open(d) /\ KeepsList(d)
      BY <1>4 DEF Open, KeepsList
    <2>2. \A k : ~Tells(m, d, k)
      BY <1>2, <1>4 DEF Tells
    <2> QED BY <1>1, <2>1, <2>2, ListAside
  <1>5. ASSUME NEW r \in Clients, client' = [client EXCEPT ![c] = r], r.open => Listed(c)'
        PROVE  ListInv'
    <2>1. Conns' = Conns /\ client'[c] = r /\ \A d \in Conns : d # c => client'[d] = client[d]
      BY <1>3, <1>5, Changed DEF TypeOK
    <2> QED BY <1>4, <1>5, <2>1 DEF ListInv, Open
  <1>6. ASSUME UNCHANGED client, Open(c) => Listed(c)' PROVE ListInv'
    BY <1>4, <1>6 DEF ListInv, Conns, Open
  <1>7. ASSUME Open(c), \A k \in Placed(client[c].acct) : ~Tells(m, c, k), KeepsList(c)
        PROVE  Listed(c)'
    BY <1>1, <1>7, ListAside
  <1>8. CASE m.cmd = "verifyLinks" /\ OnWorldVerifyLinks(m)
    <2>1. \A k : ~Tells(m, c, k)
      BY <1>8 DEF Tells
    <2>2. CASE UNCHANGED client
      <3>1. KeepsList(c)
        BY <2>2 DEF KeepsList
      <3> QED BY <1>6, <1>7, <2>1, <2>2, <3>1
    <2>3. CASE Open(c) /\ client[c].acct = NoAccount
      <3> DEFINE r == [client[c] EXCEPT !.acct = m.acct, !.set = m.row.set, !.until = m.row.until]
      <3>1. client' = [client EXCEPT ![c] = r]
        BY <1>2, <1>8, <2>3 DEF OnWorldVerifyLinks
      <3>2. m.acct \in Accounts /\ m.row \in AccountRows
        BY <1>8, AnswerFields
      <3>3. r \in Clients /\ r.index = client[c].index
        BY <1>3, <3>2 DEF Clients, AccountRows
      <3>4. client[c].index = <<>>
        BY <2>3, ContextIs DEF Proper
      <3> HIDE DEF r
      <3>5. client'[c] = r
        BY <1>3, <3>1, <3>3, Changed DEF TypeOK
      <3>6. ~Loaded(c)'
        BY <3>3, <3>4, <3>5 DEF Loaded
      <3>7. \A i \in DOMAIN toWorld' : ~Lists(toWorld'[i], c)
        <4>1. \A n \in Range(toWorld) : ~Lists(n, c)
          BY <2>3 DEF StoreIInv, Owned, OwnAnswer, Lists
        <4>2. Range(toWorld') \subseteq Range(toWorld)
          BY AnswerTaken
        <4> QED BY <4>1, <4>2 DEF Range
      <3>8. Listed(c)'
        BY <3>6, <3>7 DEF Listed, Lists
      <3> QED BY <1>5, <3>1, <3>3, <3>8
    <2> QED BY <1>2, <1>8, <2>2, <2>3 DEF OnWorldVerifyLinks
  <1>9. CASE ~Open(c) /\ UNCHANGED client
    BY <1>6, <1>9
  <1> DEFINE r0 == Answered(m)
  <1>10. /\ r0 \in Clients /\ r0.open = client[c].open /\ r0.acct = client[c].acct
         /\ r0.index = client[c].index /\ r0.untold = client[c].untold
    BY <1>2, <1>3 DEF Clients, Answered
  <1> HIDE DEF r0
  <1>11. ASSUME Open(c), client' = [client EXCEPT ![c] = r0],
                \A k \in Placed(client[c].acct) : ~Tells(m, c, k)
         PROVE  ListInv'
    <2>1. client'[c] = r0
      BY <1>3, <1>10, <1>11, Changed DEF TypeOK
    <2>2. KeepsList(c)
      BY <1>10, <2>1 DEF KeepsList
    <2> QED BY <1>5, <1>7, <1>10, <1>11, <2>2
  <1>12. CASE m.cmd = "getCharacters" /\ AckGetCharacters(m) /\ Open(c)
    <2> DEFINE r == [r0 EXCEPT !.index = m.index, !.untold = @ \ Range(m.index)]
    <2>1. client' = [client EXCEPT ![c] = r]
      BY <1>2, <1>12 DEF AckGetCharacters, r0
    <2>2. m.index \in [Slots -> Nat]
      BY <1>12, AnswerFields
    <2>3. /\ r \in Clients /\ r.acct = client[c].acct /\ r.index = m.index
          /\ r.untold = client[c].untold \ Range(m.index)
      BY <1>10, <2>2 DEF Clients
    <2> HIDE DEF r
    <2>4. client'[c] = r
      BY <1>3, <2>1, <2>3, Changed DEF TypeOK
    <2>5. Lists(Head(toWorld), c) /\ Listed(c)
      BY <1>1, <1>2, <1>12 DEF Lists, ListInv
    <2>6. Listed(c)'
      BY <1>1, <1>12, <2>3, <2>4, <2>5, ListTaken
    <2> QED BY <1>5, <2>1, <2>3, <2>6
  <1>13. CASE m.cmd = "createCharacter" /\ AckCreateCharacter(m) /\ Open(c)
    <2>0. m.char # 0 => /\ Loaded(c) /\ m.char \in Chars
                        /\ rows[m.char].acct = client[c].acct /\ rows[m.char].slot = m.slot
      BY <1>1, <1>2, <1>13 DEF OwnAnswer
    <2>1. CASE m.char = 0
      <3>1. \A k \in Placed(client[c].acct) : ~Tells(m, c, k)
        BY <1>3, <2>1, Known DEF Placed, Tells
      <3>2. client' = [client EXCEPT ![c] = r0]
        BY <1>2, <1>13, <2>1 DEF AckCreateCharacter, r0
      <3> QED BY <1>11, <1>13, <3>1, <3>2
    <2>2. CASE m.char # 0 /\ m.slot \notin Slots
      <3>1. UNCHANGED client
        BY <1>2, <1>13, <2>2 DEF AckCreateCharacter
      <3>2. \A k \in Placed(client[c].acct) : ~Tells(m, c, k)
        BY <2>0, <2>2 DEF Placed, Tells
      <3>3. KeepsList(c)
        BY <3>1 DEF KeepsList
      <3> QED BY <1>6, <1>7, <3>1, <3>2, <3>3
    <2>3. CASE m.char # 0 /\ m.slot \in Slots
      <3> DEFINE x == [client[c].index EXCEPT ![m.slot] = m.char]
                 r == [r0 EXCEPT !.index = x]
      <3>1. client' = [client EXCEPT ![c] = r]
        BY <1>2, <1>10, <1>13, <2>3 DEF AckCreateCharacter, r0
      <3>2. client[c].index \in [Slots -> Nat] /\ m.char \in Nat
        BY <1>3, <1>13, <2>0, <2>3, AnswerFields DEF Clients, Loaded
      <3>3. x \in [Slots -> Nat]
            /\ \A s \in Slots : x[s] = IF s = m.slot THEN m.char ELSE client[c].index[s]
        BY <3>2
      <3> HIDE DEF x
      <3>4. r \in Clients /\ r.acct = client[c].acct /\ r.index = x /\ r.untold = client[c].untold
        BY <1>10, <3>3 DEF Clients
      <3> HIDE DEF r
      <3>5. client'[c] = r
        BY <1>3, <3>1, <3>4, Changed DEF TypeOK
      <3>6. \A k \in Placed(client[c].acct) :
               (Loaded(c) /\ client[c].index[rows[k].slot] = k) \/ Tells(Head(toWorld), c, k) =>
                   client'[c].index[rows[k].slot] = k
        <4> SUFFICES ASSUME NEW k \in Placed(client[c].acct),
                            (Loaded(c) /\ client[c].index[rows[k].slot] = k) \/ Tells(m, c, k)
                     PROVE  x[rows[k].slot] = k
          BY <1>1, <3>4, <3>5
        <4>1. k \in Chars /\ rows[k].acct = client[c].acct /\ rows[k].slot \in Slots
          BY DEF Placed
        <4>2. CASE rows[k].slot = m.slot
          <5>1. k = m.char
            BY <2>0, <2>3, <4>1, <4>2 DEF StoreIInv, OneRow
          <5> QED BY <3>3, <4>1, <4>2, <5>1
        <4>3. CASE rows[k].slot # m.slot
          <5>1. ~Tells(m, c, k)
            BY <2>0, <2>3, <4>3 DEF Tells
          <5> QED BY <3>3, <4>1, <4>3, <5>1
        <4> QED BY <4>2, <4>3
      <3>7. Listed(c) /\ Loaded(c)
        BY <1>13, <2>0, <2>3 DEF ListInv
      <3>8. Listed(c)'
        BY <1>1, <1>13, <3>4, <3>5, <3>6, <3>7, ListTaken
      <3> QED BY <1>5, <3>1, <3>4, <3>8
    <2> QED BY <2>1, <2>2, <2>3
  <1>14. CASE m.cmd = "getCharacter" /\ AckGetCharacter(m) /\ Open(c)
    <2>1. \A k : ~Tells(m, c, k)
      BY <1>14 DEF Tells
    <2>2. CASE m.char = 0
      <3> DEFINE r == [NewClient EXCEPT !.open = FALSE]
      <3>1. client' = [client EXCEPT ![c] = r]
        BY <1>2, <1>14, <2>2 DEF AckGetCharacter
      <3>2. NewClient \in Clients
        BY StoreAssumption DEF NewClient, Clients
      <3>3. r \in Clients /\ ~r.open
        BY <3>2 DEF Clients
      <3> HIDE DEF r
      <3> QED BY <1>5, <3>1, <3>3
    <2>3. CASE m.char # 0
      <3> DEFINE r == [r0 EXCEPT !.char = m.char, !.has = m.data, !.mask = {}]
      <3>1. m.char \in Nat /\ m.data \in Versions
        BY <1>14, <2>3, AnswerFields
      <3>2. client' = [client EXCEPT ![c] = r]
        BY <1>2, <1>14, <2>3 DEF AckGetCharacter, r0
      <3>3. /\ r \in Clients /\ r.open = r0.open /\ r.acct = r0.acct
            /\ r.index = r0.index /\ r.untold = r0.untold
        BY <1>10, <3>1 DEF Clients
      <3> HIDE DEF r
      <3>4. client'[c] = r
        BY <1>3, <3>2, <3>3, Changed DEF TypeOK
      <3>5. KeepsList(c)
        BY <1>10, <3>3, <3>4 DEF KeepsList
      <3> QED BY <1>5, <1>7, <1>14, <2>1, <3>2, <3>3, <3>5
    <2> QED BY <2>2, <2>3
  <1>15. CASE m.cmd = "verifyPassword" /\ AckVerifyPassword(m) /\ Open(c)
    <2>1. \A k : ~Tells(m, c, k)
      BY <1>15 DEF Tells
    <2>2. client' = [client EXCEPT ![c] = r0]
      BY <1>2, <1>15 DEF AckVerifyPassword, r0
    <2> QED BY <1>11, <1>15, <2>1, <2>2
  <1>16. CASE ~Open(c) /\ m.cmd # "verifyLinks"
    <2>1. UNCHANGED client
      BY <1>1, <1>2, <1>16 DEF WorldHandles, AckGetCharacters, AckCreateCharacter, AckGetCharacter,
                  AckVerifyPassword, Disconnect
    <2> QED BY <1>9, <1>16, <2>1
  <1> QED BY <1>1, <1>2, <1>8, <1>12, <1>13, <1>14, <1>15, <1>16 DEF WorldHandles

LEMMA ListNext == ASSUME StoreIInv, ListInv, [Next]_vars PROVE ListInv'
  <1>1. CASE Links
    BY <1>1, ListBreak, ListComings DEF Links, BreakLink, Sweep
  <1>2. CASE Comings
    BY <1>2, ListComings
  <1>3. CASE Index \/ Playing \/ Subpassword
    BY <1>3, ListActs
  <1>4. CASE Handling
    BY <1>4, ListMaster, ListVerdict, ListWorld DEF Handling
  <1>5. CASE UNCHANGED vars
    <2>1. UNCHANGED <<client, toWorld, rows>>
      BY <1>5 DEF vars, db
    <2> QED BY <2>1, ListStill DEF KeepsList, Conns
  <1> QED BY <1>1, <1>2, <1>3, <1>4, <1>5 DEF Next

LEMMA ListsComplete == ASSUME StoreIInv, ListInv PROVE IndexComplete
  <1> SUFFICES ASSUME NEW c \in Conns, Loaded(c), NEW k \in Placed(client[c].acct) \ client[c].untold
               PROVE  \/ client[c].index[rows[k].slot] = k
                      \/ \E m \in Range(toWorld) : Tells(m, c, k)
    BY DEF IndexComplete
  <1>1. Open(c)
    BY DEF StoreIInv, Proper, Loaded
  <1>2. Complete(client[c].index, c, 0)
    BY <1>1 DEF ListInv, Listed
  <1> QED BY <1>2 DEF Complete, Range

\* The list of characters WorldSvr decides CREATE_CHARACTER and INITIALIZE from
\* holds rows of the account in the slots they stand in, and all of them but those
\* the client was not told of; no account has more characters in its slots than
\* there are slots; for any number of connections, requests under way, failing
\* statements and breaks of the link.
THEOREM StoreBacked == Spec => []StoreInv
  <1>1. Init => StoreIInv /\ ListInv
    BY StoreInit, ListInit
  <1>2. StoreIInv /\ ListInv /\ [Next]_vars => (StoreIInv /\ ListInv)'
    BY StoreNext, ListNext
  <1>3. StoreIInv /\ ListInv => StoreInv
    BY RowsInSlots, ListsComplete DEF StoreInv, StoreIInv
  <1> QED BY <1>1, <1>2, <1>3, PTL DEF Spec

-----------------------------------------------------------------------------
(* No change gets lost: what a step leaves as it is.                       *)

\* Packets of t are those of s, d places further on.
Comes(s, t, d, cmd) ==
    \A j \in DOMAIN t : t[j].cmd = cmd => j + d \in DOMAIN s /\ s[j + d] = t[j]

\* A packet of s of one character is still in t.
Stays(s, t, d, k) ==
    \A i \in DOMAIN s : Saves(s[i], k) => i - d \in DOMAIN t /\ t[i - d] = s[i]

LEMMA QueueSame ==
    ASSUME NEW S, NEW s \in Seq(S)
    PROVE  /\ \A cmd : Comes(s, s, 0, cmd)
           /\ \A k : Stays(s, s, 0, k)
  <1>1. \A i \in DOMAIN s : i \in Nat
    OBVIOUS
  <1> QED BY <1>1 DEF Comes, Stays

LEMMA QueueAppended ==
    ASSUME NEW S, NEW s \in Seq(S), NEW m \in S
    PROVE  /\ \A cmd : m.cmd # cmd => Comes(s, Append(s, m), 0, cmd)
           /\ \A k : Stays(s, Append(s, m), 0, k)
  <1> DEFINE t == Append(s, m)
  <1>1. /\ DOMAIN t = DOMAIN s \cup {Len(s) + 1} /\ t[Len(s) + 1] = m
        /\ \A i \in DOMAIN s : t[i] = s[i]
    BY Appended
  <1>2. \A i \in DOMAIN s : i \in Nat
    OBVIOUS
  <1> HIDE DEF t
  <1>3. (\A cmd : m.cmd # cmd => Comes(s, t, 0, cmd)) /\ \A k : Stays(s, t, 0, k)
    BY <1>1, <1>2 DEF Comes, Stays
  <1> QED BY <1>3 DEF t

LEMMA QueuePopped ==
    ASSUME NEW S, NEW s \in Seq(S), s # <<>>
    PROVE  /\ \A cmd : Comes(s, Tail(s), 1, cmd)
           /\ \A k : ~Saves(Head(s), k) => Stays(s, Tail(s), 1, k)
  <1> DEFINE t == Tail(s)
  <1>1. /\ Head(s) = s[1]
        /\ \A i \in DOMAIN t : i \in Nat \ {0} /\ i + 1 \in DOMAIN s /\ t[i] = s[i + 1]
        /\ \A i \in DOMAIN s : i # 1 => i - 1 \in DOMAIN t
    BY Popped
  <1>2. \A i \in DOMAIN s : i \in Nat /\ i - 1 + 1 = i
    OBVIOUS
  <1> HIDE DEF t
  <1>3. \A cmd : Comes(s, t, 1, cmd)
    BY <1>1 DEF Comes
  <1>4. \A k : ~Saves(Head(s), k) => Stays(s, t, 1, k)
    BY <1>1, <1>2 DEF Stays
  <1> QED BY <1>3, <1>4 DEF t

LEMMA QueueEmpty == ASSUME NEW s, NEW cmd PROVE Comes(s, <<>>, 0, cmd)
  BY DEF Comes

\* What becomes of one character in a step that does nothing for it.
LEMMA CharacterKept ==
    ASSUME StoreIInv, NEW k \in Chars, Kept(k), NEW d \in {0, 1},
           \A j \in DOMAIN toMaster' : Fetches(toMaster'[j], k) \/ Saves(toMaster'[j], k) =>
              j + d \in DOMAIN toMaster /\ toMaster[j + d] = toMaster'[j],
           Stays(toMaster, toMaster', d, k) \/
              \A m \in Range(toMaster) : Saves(m, k) => DOMAIN m.data \subseteq unsaved'[k],
           \A m \in Range(toWorld') : Fetches(m, k) => m \in Range(toWorld),
           \A i \in DOMAIN toMaster' : i \in Nat,
           rows'[k].data = rows[k].data, newest'[k] = newest[k], unsaved[k] \subseteq unsaved'[k],
           \A c \in Conns' : client'[c].char = k =>
              /\ c \in Conns /\ client[c].char = k
              /\ client'[c].has = client[c].has /\ client'[c].mask \subseteq client[c].mask,
           \A c \in Conns : client[c].char = k =>
              \/ c \in Conns' /\ client'[c].char = k /\ client'[c].mask = client[c].mask
              \/ client[c].mask \subseteq unsaved'[k]
    PROVE  Kept(k)'
  <1>1. \A j \in DOMAIN toMaster' : Fetches(toMaster'[j], k) \/ Saves(toMaster'[j], k) =>
           j \in Nat /\ j + d \in DOMAIN toMaster /\ toMaster[j + d] = toMaster'[j]
    BY DEF Comes, Saves
  <1>2. \A m \in Range(toMaster') : Fetches(m, k) \/ Saves(m, k) => m \in Range(toMaster)
    BY <1>1 DEF Range
  <1>3. \A i, j \in Nat : i < j => i + d < j + d
    OBVIOUS
  <1>4. OnePlayer(k)'
    BY <1>2 DEF Kept, OnePlayer
  <1>5. SavedFirst(k)'
    <2>1. \A i, j \in DOMAIN toMaster' :
             i < j /\ Fetches(toMaster'[i], k) => ~Saves(toMaster'[j], k)
      <3> SUFFICES ASSUME NEW i \in DOMAIN toMaster', NEW j \in DOMAIN toMaster', i < j,
                          Fetches(toMaster'[i], k), Saves(toMaster'[j], k)
                   PROVE  FALSE
        OBVIOUS
      <3>1. /\ i + d \in DOMAIN toMaster /\ j + d \in DOMAIN toMaster /\ i + d < j + d
            /\ toMaster[i + d] = toMaster'[i] /\ toMaster[j + d] = toMaster'[j]
        BY <1>1, <1>3
      <3> QED BY <3>1 DEF Kept, SavedFirst
    <2>2. (\E m \in Range(toWorld') : Fetches(m, k)) => \A m \in Range(toMaster') : ~Saves(m, k)
      BY <1>2 DEF Kept, SavedFirst
    <2> QED BY <2>1, <2>2 DEF SavedFirst
  <1>6. Ascends(k)'
    <2> SUFFICES ASSUME NEW i \in DOMAIN toMaster', Saves(toMaster'[i], k),
                        NEW p \in DOMAIN toMaster'[i].data
                 PROVE  /\ rows'[k].data[p] < toMaster'[i].data[p]
                        /\ toMaster'[i].data[p] <= newest'[k][p]
                        /\ \A j \in DOMAIN toMaster' :
                              i < j /\ Saves(toMaster'[j], k) /\ p \in DOMAIN toMaster'[j].data =>
                                  toMaster'[i].data[p] < toMaster'[j].data[p]
                        /\ toMaster'[i].data[p] = newest'[k][p] =>
                              \A c \in Conns' : client'[c].char = k => client'[c].has[p] = newest'[k][p]
      BY DEF Ascends
    <2>1. i + d \in DOMAIN toMaster /\ toMaster[i + d] = toMaster'[i]
      BY <1>1
    <2>2. /\ rows[k].data[p] < toMaster'[i].data[p]
          /\ toMaster'[i].data[p] <= newest[k][p]
          /\ \A j \in DOMAIN toMaster :
                i + d < j /\ Saves(toMaster[j], k) /\ p \in DOMAIN toMaster[j].data =>
                    toMaster'[i].data[p] < toMaster[j].data[p]
          /\ toMaster'[i].data[p] = newest[k][p] =>
                \A c \in Conns : client[c].char = k => client[c].has[p] = newest[k][p]
      BY <2>1 DEF Kept, Ascends
    <2>3. ASSUME NEW j \in DOMAIN toMaster', i < j, Saves(toMaster'[j], k),
                 p \in DOMAIN toMaster'[j].data
          PROVE  toMaster'[i].data[p] < toMaster'[j].data[p]
      <3>1. j + d \in DOMAIN toMaster /\ toMaster[j + d] = toMaster'[j] /\ i + d < j + d
        BY <1>1, <1>3, <2>3
      <3> QED BY <2>2, <2>3, <3>1
    <2> QED BY <2>2, <2>3
  <1>7. MarkedNewest(k)'
    <2>1. ASSUME NEW c \in Conns', client'[c].char = k, NEW p \in client'[c].mask
          PROVE  /\ client'[c].has[p] = newest'[k][p] /\ rows'[k].data[p] < newest'[k][p]
                 /\ \A i \in DOMAIN toMaster' :
                       Saves(toMaster'[i], k) /\ p \in DOMAIN toMaster'[i].data =>
                           toMaster'[i].data[p] < newest'[k][p]
      BY <1>1, <2>1 DEF Kept, MarkedNewest
    <2> QED BY <2>1 DEF MarkedNewest
  <1>8. FetchedNewest(k)' /\ Behind(k)'
    BY DEF Kept, FetchedNewest, Behind
  <1>9. ChangeKept(k)'
    <2> SUFFICES ASSUME NEW p \in Parts \ unsaved'[k]
                 PROVE  /\ \/ rows'[k].data[p] = newest'[k][p]
                           \/ \E m \in Range(toMaster') :
                                 /\ m.cmd = "dbSync" /\ m.char = k
                                 /\ p \in DOMAIN m.data /\ m.data[p] = newest'[k][p]
                           \/ \E c \in Conns' : client'[c].char = k /\ p \in client'[c].mask
                        /\ \A c \in Conns' : client'[c].char = k => client'[c].has[p] = newest'[k][p]
      BY DEF ChangeKept
    <2>1. p \in Parts \ unsaved[k]
      OBVIOUS
    <2>2. \A c \in Conns' : client'[c].char = k => client'[c].has[p] = newest'[k][p]
      BY <2>1 DEF Kept, ChangeKept
    <2>3. CASE rows[k].data[p] = newest[k][p]
      BY <2>2, <2>3
    <2>4. CASE \E m \in Range(toMaster) : Saves(m, k) /\ p \in DOMAIN m.data /\ m.data[p] = newest[k][p]
      <3>1. PICK m \in Range(toMaster) : Saves(m, k) /\ p \in DOMAIN m.data /\ m.data[p] = newest[k][p]
        BY <2>4
      <3>2. PICK i \in DOMAIN toMaster : toMaster[i] = m
        BY DEF Range
      <3>3. Stays(toMaster, toMaster', d, k)
        BY <3>1
      <3>4. m \in Range(toMaster')
        BY <3>1, <3>2, <3>3 DEF Stays, Range
      <3> QED BY <2>2, <3>1, <3>4 DEF Saves
    <2>5. CASE \E c \in Conns : client[c].char = k /\ p \in client[c].mask
      <3>1. PICK c \in Conns : client[c].char = k /\ p \in client[c].mask
        BY <2>5
      <3>2. c \in Conns' /\ client'[c].char = k /\ p \in client'[c].mask
        BY <3>1
      <3> QED BY <2>2, <3>2
    <2> QED BY <2>1, <2>3, <2>4, <2>5 DEF Kept, ChangeKept, Saves
  <1> QED BY <1>4, <1>5, <1>6, <1>7, <1>8, <1>9 DEF Kept

\* A context that keeps what it plays; one that is left; one that is new.
ContextKept(c) ==
    \/ /\ c \in Conns /\ client'[c].char = client[c].char
       /\ client'[c].has = client[c].has /\ client'[c].mask = client[c].mask
    \/ /\ c \in Conns /\ client'[c].char = 0
       /\ client[c].char # 0 => client[c].mask \subseteq unsaved'[client[c].char]
    \/ c \notin Conns /\ client'[c].char = 0

LEMMA Counted ==
    ASSUME TypeOK
    PROVE  /\ \A i \in DOMAIN toMaster \cup DOMAIN toWorld : i \in Nat
           /\ toMaster \in Seq(ToMaster) /\ toWorld \in Seq(ToWorld)
           /\ 0 \notin Chars
           /\ \A k : Stays(toMaster, toMaster, 0, k)
           /\ \A cmd : Comes(toMaster, toMaster, 0, cmd) /\ Comes(toWorld, toWorld, 0, cmd)
  <1>1. toMaster \in Seq(ToMaster) /\ toWorld \in Seq(ToWorld)
    BY DEF TypeOK
  <1>2. (\A i \in DOMAIN toMaster : i \in Nat) /\ (\A i \in DOMAIN toWorld : i \in Nat)
    BY <1>1
  <1> QED BY <1>1, <1>2, QueueSame, Known

LEMMA AllKept ==
    ASSUME StoreIInv, StoreIInv', KeptInv, NEW d \in {0, 1}, NEW e \in {0, 1},
           Comes(toMaster, toMaster', d, "dbSync"),
           Comes(toMaster, toMaster', d, "getCharacter"),
           Comes(toWorld, toWorld', e, "getCharacter"),
           \/ \A k \in Chars : Stays(toMaster, toMaster', d, k)
           \/ \A m \in Range(toMaster) : m.cmd = "dbSync" => DOMAIN m.data \subseteq unsaved'[m.char],
           shared \subseteq shared', Conns \subseteq Conns', Chars' = Chars,
           \A k \in Chars : /\ rows'[k].data = rows[k].data /\ newest'[k] = newest[k]
                            /\ unsaved[k] \subseteq unsaved'[k],
           \A c \in Conns' : ContextKept(c)
    PROVE  KeptInv'
  <1>1. \A i \in DOMAIN toMaster' \cup DOMAIN toWorld' : i \in Nat
    <2>1. TypeOK'
      BY DEF StoreIInv
    <2>2. toMaster' \in Seq(ToMaster) /\ toWorld' \in Seq(ToWorld)
      BY <2>1 DEF TypeOK
    <2> QED BY <2>2
  <1>2. 0 \notin Chars
    BY Counted DEF StoreIInv
  <1>4. ASSUME NEW k \in Chars, k \notin shared'
        PROVE  Kept(k)'
    <2>1. Kept(k)
      BY <1>4 DEF KeptInv
    <2>2. \A j \in DOMAIN toMaster' : Fetches(toMaster'[j], k) \/ Saves(toMaster'[j], k) =>
              j + d \in DOMAIN toMaster /\ toMaster[j + d] = toMaster'[j]
      BY DEF Comes, Fetches, Saves
    <2>3. \A m \in Range(toWorld') : Fetches(m, k) => m \in Range(toWorld)
      BY DEF Comes, Fetches, Range
    <2>4. Stays(toMaster, toMaster', d, k) \/
              \A m \in Range(toMaster) : Saves(m, k) => DOMAIN m.data \subseteq unsaved'[k]
      BY <1>4 DEF Saves
    <2>5. \A c \in Conns' : client'[c].char = k =>
              /\ c \in Conns /\ client[c].char = k
              /\ client'[c].has = client[c].has /\ client'[c].mask = client[c].mask
      BY <1>2, <1>4 DEF ContextKept
    <2>6. \A c \in Conns : client[c].char = k =>
              \/ c \in Conns' /\ client'[c].char = k /\ client'[c].mask = client[c].mask
              \/ client[c].mask \subseteq unsaved'[k]
      BY <1>2, <1>4 DEF ContextKept
    <2>7. \A i \in DOMAIN toMaster' : i \in Nat
      BY <1>1
    <2>8. rows'[k].data = rows[k].data /\ newest'[k] = newest[k] /\ unsaved[k] \subseteq unsaved'[k]
      BY <1>4
    <2> QED BY <2>1, <2>2, <2>3, <2>4, <2>5, <2>6, <2>7, <2>8, CharacterKept
  <1> QED BY <1>4 DEF KeptInv

-----------------------------------------------------------------------------
(* The steps that do nothing for a character.                              *)

LEMMA KeptBreak == ASSUME StoreIInv, StoreIInv', KeptInv, Break PROVE KeptInv'
  <1>1. /\ toMaster' = <<>> /\ toWorld' = <<>> /\ UNCHANGED <<rows, newest, shared>> /\ Chars' = Chars
    BY DEF Break, db, Chars
  <1>2. /\ Comes(toMaster, toMaster', 0, "dbSync") /\ Comes(toMaster, toMaster', 0, "getCharacter")
        /\ Comes(toWorld, toWorld', 0, "getCharacter")
    BY <1>1, QueueEmpty
  <1>5. Conns' = Conns /\ \A c \in Conns : SameBut(c)
    BY BreakKept DEF StoreIInv
  <1>7. \A c \in Conns' : ContextKept(c)
    BY <1>5 DEF SameBut, ContextKept
  <1>8. ASSUME NEW k \in Chars
        PROVE  /\ unsaved[k] \subseteq unsaved'[k]
               /\ \A m \in Range(toMaster) : m.cmd = "dbSync" /\ m.char = k =>
                     DOMAIN m.data \subseteq unsaved'[k]
    BY DEF Break
  <1>9. \A m \in Range(toMaster) : m.cmd = "dbSync" => DOMAIN m.data \subseteq unsaved'[m.char]
    BY <1>8 DEF StoreIInv, Owned, OwnRequest
  <1> QED BY <1>1, <1>2, <1>5, <1>7, <1>8, <1>9, AllKept

LEMMA SameKept ==
    ASSUME StoreIInv, NEW c \in Conns, client'[c] = client[c]
    PROVE  ContextKept(c)
  BY DEF ContextKept

\* A step that changes no context and sends nothing about a character.
LEMMA KeptAside ==
    ASSUME StoreIInv, StoreIInv', KeptInv, UNCHANGED <<client, rows, newest, unsaved, shared, toMaster>>,
           NEW e \in {0, 1}, Comes(toWorld, toWorld', e, "getCharacter")
    PROVE  KeptInv'
  <1>1. /\ \A k : Stays(toMaster, toMaster, 0, k)
        /\ \A cmd : Comes(toMaster, toMaster, 0, cmd)
    BY Counted DEF StoreIInv
  <1>2. Conns' = Conns /\ Chars' = Chars
    BY DEF Conns, Chars
  <1>3. \A c \in Conns' : ContextKept(c)
    BY <1>2, SameKept
  <1>4. /\ Comes(toMaster, toMaster', 0, "dbSync") /\ Comes(toMaster, toMaster', 0, "getCharacter")
        /\ \A k \in Chars : Stays(toMaster, toMaster', 0, k)
    BY <1>1
  <1> QED BY <1>2, <1>3, <1>4, AllKept

LEMMA KeptComings ==
    ASSUME StoreIInv, StoreIInv', KeptInv, Comings \/ Reconnect
    PROVE  KeptInv'
  <1>1. /\ \A k : Stays(toMaster, toMaster, 0, k)
        /\ \A cmd : Comes(toMaster, toMaster, 0, cmd) /\ Comes(toWorld, toWorld, 0, cmd)
        /\ toWorld \in Seq(ToWorld)
    BY Counted DEF StoreIInv
  <1>2. CASE TimePasses \/ Reconnect
    <2>1. UNCHANGED <<client, rows, newest, unsaved, shared, toMaster, toWorld>>
      BY <1>2 DEF TimePasses, Reconnect, db, history
    <2>2. Comes(toWorld, toWorld', 0, "getCharacter")
      BY <1>1, <2>1
    <2> QED BY <2>1, <2>2, KeptAside
  <1>3. ASSUME NEW c \in Conns, NEW a \in Accounts, OnAuthVerifyLinks(c, a)
        PROVE  KeptInv'
    <2> DEFINE m == [cmd |-> "verifyLinks", conn |-> c, acct |-> a, row |-> account[a]]
    <2>1. UNCHANGED <<client, rows, newest, unsaved, shared, toMaster>> /\ toWorld' = Append(toWorld, m)
      BY <1>3 DEF OnAuthVerifyLinks, db, Answer
    <2>2. m \in ToWorld /\ m.cmd = "verifyLinks"
      BY Known, AnswerPackets DEF StoreIInv, TypeOK
    <2> HIDE DEF m
    <2>3. Comes(toWorld, Append(toWorld, m), 0, "getCharacter")
      BY <1>1, <2>2, QueueAppended
    <2>4. Comes(toWorld, toWorld', 0, "getCharacter")
      BY <2>1, <2>3
    <2> QED BY <2>1, <2>4, KeptAside
  <1>4. CASE OnConnect
    <2>1. UNCHANGED <<rows, newest, unsaved, shared, toMaster, toWorld>>
      BY <1>4 DEF OnConnect, db, history
    <2>2. client \in Seq(Clients) /\ client' = Append(client, NewClient)
      BY <1>4 DEF OnConnect, StoreIInv, TypeOK
    <2>3. /\ Conns' = Conns \cup {Len(client) + 1} /\ Len(client) + 1 \notin Conns
          /\ client'[Len(client) + 1] = NewClient
          /\ \A c \in Conns : client'[c] = client[c]
      BY <2>2 DEF Conns
    <2>4. \A c \in Conns' : ContextKept(c)
      BY <2>3, SameKept DEF NewClient, ContextKept
    <2>5. Conns \subseteq Conns' /\ Chars' = Chars
      BY <2>1, <2>3 DEF Chars
    <2>6. /\ Comes(toMaster, toMaster', 0, "dbSync") /\ Comes(toMaster, toMaster', 0, "getCharacter")
          /\ Comes(toWorld, toWorld', 0, "getCharacter")
          /\ \A k \in Chars : Stays(toMaster, toMaster', 0, k)
      BY <1>1, <2>1
    <2> QED BY <2>1, <2>4, <2>5, <2>6, AllKept
  <1>5. ASSUME NEW c \in Conns, Leave(c)
        PROVE  KeptInv'
    <2> DEFINE r == [NewClient EXCEPT !.open = FALSE]
    <2>1. UNCHANGED <<rows, newest, shared, toMaster, toWorld>>
      BY <1>5 DEF Leave, db
    <2>2. client \in Seq(Clients) /\ client' = [client EXCEPT ![c] = r] /\ unsaved \in Seq(SUBSET Parts)
      BY <1>5 DEF Leave, StoreIInv, TypeOK
    <2>3. ~r.open /\ r.char = 0
      BY DEF NewClient
    <2> HIDE DEF r
    <2>4. Conns' = Conns /\ client'[c] = r /\ \A b \in Conns : b # c => client'[b] = client[b]
      BY <2>2 DEF Conns
    <2>5. ASSUME NEW k \in Chars
          PROVE  /\ unsaved[k] \subseteq unsaved'[k]
                 /\ client[c].char = k => client[c].mask \subseteq unsaved'[k]
      <3>1. DOMAIN unsaved = Chars /\ k # 0
        BY Known DEF StoreIInv
      <3> QED BY <1>5, <3>1 DEF Leave, LetGo
    <2>6. client[c].char # 0 => client[c].char \in Chars
      BY ContextIs
    <2>7. \A b \in Conns' : ContextKept(b)
      BY <2>3, <2>4, <2>5, <2>6, SameKept DEF ContextKept
    <2>8. Chars' = Chars
      BY <2>1 DEF Chars
    <2>9. /\ Comes(toMaster, toMaster', 0, "dbSync") /\ Comes(toMaster, toMaster', 0, "getCharacter")
          /\ Comes(toWorld, toWorld', 0, "getCharacter")
          /\ \A k \in Chars : Stays(toMaster, toMaster', 0, k)
      BY <1>1, <2>1
    <2> QED BY <2>1, <2>4, <2>5, <2>7, <2>8, <2>9, AllKept
  <1> QED BY <1>2, <1>3, <1>4, <1>5 DEF Comings

\* A client acts without a change to a character.
LEMMA KeptAct ==
    ASSUME StoreIInv, StoreIInv', KeptInv, NEW c \in Conns, NEW r \in Clients,
           client' = [client EXCEPT ![c] = r],
           r.char = client[c].char, r.has = client[c].has, r.mask = client[c].mask,
           NEW m \in ToMaster, m.cmd \notin {"getCharacter", "dbSync"},
           toMaster' = toMaster \/ toMaster' = Append(toMaster, m),
           UNCHANGED <<rows, newest, unsaved, shared, toWorld>>
    PROVE  KeptInv'
  <1>1. /\ \A k : Stays(toMaster, toMaster, 0, k)
        /\ \A cmd : Comes(toMaster, toMaster, 0, cmd) /\ Comes(toWorld, toWorld, 0, cmd)
        /\ toMaster \in Seq(ToMaster)
    BY Counted DEF StoreIInv
  <1>2. /\ \A k : Stays(toMaster, Append(toMaster, m), 0, k)
        /\ \A cmd : m.cmd # cmd => Comes(toMaster, Append(toMaster, m), 0, cmd)
    BY <1>1, QueueAppended
  <1>3. /\ Comes(toMaster, toMaster', 0, "dbSync") /\ Comes(toMaster, toMaster', 0, "getCharacter")
        /\ Comes(toWorld, toWorld', 0, "getCharacter")
        /\ \A k \in Chars : Stays(toMaster, toMaster', 0, k)
    <2>1. CASE toMaster' = toMaster
      BY <1>1, <2>1
    <2>2. CASE toMaster' = Append(toMaster, m)
      BY <1>1, <1>2, <2>2
    <2> QED BY <2>1, <2>2
  <1>4. Conns' = Conns /\ client'[c] = r /\ \A b \in Conns : b # c => client'[b] = client[b]
    BY Changed DEF StoreIInv, TypeOK
  <1>5. ContextKept(c)
    BY <1>4 DEF ContextKept
  <1>6. \A b \in Conns' : ContextKept(b)
    BY <1>4, <1>5, SameKept
  <1>7. Chars' = Chars
    BY DEF Chars
  <1> QED BY <1>3, <1>4, <1>6, <1>7, AllKept

LEMMA RequestStep ==
    ASSUME StoreIInv, NEW c \in Conns, NEW m \in ToMaster, Request(c, m), m.cmd \in Requests
    PROVE  \E r \in Clients :
              /\ client' = [client EXCEPT ![c] = r]
              /\ r.open = client[c].open /\ r.char = client[c].char
              /\ r.has = client[c].has /\ r.mask = client[c].mask
              /\ r.acct = client[c].acct /\ r.set = client[c].set
  <1> DEFINE r == [client[c] EXCEPT !.waiting = @ \cup {m.cmd},
                      !.missed = IF link = "down" THEN @ \cup {m.cmd} ELSE @ \ {m.cmd}]
  <1>1. client' = [client EXCEPT ![c] = r]
    BY DEF Request
  <1>2. client[c] \in Clients
    BY ContextIs
  <1>3. /\ r \in Clients /\ r.open = client[c].open
        /\ r.char = client[c].char /\ r.has = client[c].has /\ r.mask = client[c].mask
        /\ r.acct = client[c].acct /\ r.set = client[c].set
    BY <1>2 DEF Clients
  <1> HIDE DEF r
  <1> QED BY <1>1, <1>3

LEMMA KeptRequest ==
    ASSUME StoreIInv, StoreIInv', KeptInv, NEW c \in Conns,
           \/ GetCharacters(c) \/ VerifyCredentials(c)
           \/ \E s \in Slots \cup Beyond : CreateCharacter(c, s)
    PROVE  KeptInv'
  <1>1. /\ c \in ConnIDs /\ (Loaded(c) => client[c].acct \in Accounts)
        /\ client[c].acct # NoAccount => client[c].acct \in Accounts
    BY ContextIs
  <1>2. \E m \in ToMaster : /\ m.cmd \in Requests \ {"getCharacter"} /\ Request(c, m)
    <2>1. CASE GetCharacters(c)
      BY <1>1, <2>1, RequestPackets DEF GetCharacters, Requests
    <2>2. CASE VerifyCredentials(c)
      BY <1>1, <2>2, RequestPackets DEF VerifyCredentials, Requests
    <2>3. ASSUME NEW s \in Slots \cup Beyond, CreateCharacter(c, s) PROVE <1>2
      BY <1>1, <2>3, RequestPackets DEF CreateCharacter, Requests
    <2> QED BY <2>1, <2>2, <2>3
  <1>3. PICK m \in ToMaster : m.cmd \in Requests \ {"getCharacter"} /\ Request(c, m)
    BY <1>2
  <1>4. PICK r \in Clients :
              /\ client' = [client EXCEPT ![c] = r]
              /\ r.open = client[c].open /\ r.char = client[c].char
              /\ r.has = client[c].has /\ r.mask = client[c].mask
    BY <1>3, RequestStep
  <1>5. /\ toMaster' = toMaster \/ toMaster' = Append(toMaster, m)
        /\ UNCHANGED <<rows, newest, unsaved, toWorld>>
    BY <1>3 DEF Request, Send, db
  <1>6. UNCHANGED shared
    BY DEF GetCharacters, VerifyCredentials, CreateCharacter
  <1>7. m.cmd \notin {"getCharacter", "dbSync"}
    BY <1>3 DEF Requests
  <1> QED BY <1>4, <1>5, <1>6, <1>7, KeptAct

LEMMA KeptSubpassword ==
    ASSUME StoreIInv, StoreIInv', KeptInv, Subpassword
    PROVE  KeptInv'
  <1>1. PICK c \in Conns :
           \/ CreateSubpassword(c) \/ VerifyDeleteSubpassword(c) \/ DeleteSubpassword(c)
           \/ \E hours \in {0, 1} : VerifySubpassword(c, hours)
    BY DEF Subpassword
  <1>2. PICK m \in ToMaster :
           /\ toMaster' = toMaster \/ toMaster' = Append(toMaster, m)
           /\ m.cmd \in {"updateSubpassword", "updateSession"}
    BY <1>1, SubpasswordStep
  <1>3. PICK r \in Clients :
           /\ client' = [client EXCEPT ![c] = r]
           /\ r.open = client[c].open
           /\ r.char = client[c].char /\ r.has = client[c].has /\ r.mask = client[c].mask
           /\ r.waiting = client[c].waiting /\ r.missed = client[c].missed
    BY <1>1, SubpasswordStep
  <1>4. UNCHANGED <<rows, newest, unsaved, shared, toWorld>>
    BY <1>1, SubpasswordStep
  <1>6. m.cmd \notin {"getCharacter", "dbSync"}
    BY <1>2
  <1> QED BY <1>2, <1>3, <1>4, <1>6, KeptAct

-----------------------------------------------------------------------------
(* No change gets lost: clients play, save and fetch characters.           *)

LEMMA OtherKept ==
    ASSUME StoreIInv, StoreIInv', KeptInv, NEW k \in Chars, k \notin shared,
           NEW d \in {0, 1},
           \A j \in DOMAIN toMaster' : Fetches(toMaster'[j], k) \/ Saves(toMaster'[j], k) =>
              j + d \in DOMAIN toMaster /\ toMaster[j + d] = toMaster'[j],
           Stays(toMaster, toMaster', d, k),
           \A m \in Range(toWorld') : Fetches(m, k) => m \in Range(toWorld),
           rows'[k].data = rows[k].data, newest'[k] = newest[k], unsaved'[k] = unsaved[k],
           Conns' = Conns,
           \A c \in Conns : \/ /\ client'[c].char = client[c].char /\ client'[c].has = client[c].has
                               /\ client'[c].mask = client[c].mask
                            \/ client'[c].char # k /\ client[c].char # k
    PROVE  Kept(k)'
  <1>1. \A i \in DOMAIN toMaster' : i \in Nat
    <2>1. TypeOK'
      BY DEF StoreIInv
    <2>2. toMaster' \in Seq(ToMaster)
      BY <2>1 DEF TypeOK
    <2> QED BY <2>2
  <1>2. Kept(k)
    BY DEF KeptInv
  <1> QED BY <1>1, <1>2, CharacterKept

LEMMA KeptPlay ==
    ASSUME StoreIInv, StoreIInv', KeptInv, NEW c \in Conns, NEW p \in Parts, Play(c, p),
           NEW k \in Chars, client[c].char = k
    PROVE  KeptInv'
  <1> DEFINE r == [client[c] EXCEPT !.has[p] = newest[k][p] + 1, !.mask = @ \cup {p}]
             v == newest[k][p] + 1
  <1>1. client[c] \in Clients /\ k \in Chars /\ client[c].has \in Versions /\ client[c].mask \subseteq Parts
    BY ContextIs DEF Play, Clients
  <1>2. /\ rows[k].data \in Versions /\ newest[k] \in Versions /\ MaxVersion \in Nat
        /\ k \in DOMAIN newest /\ Parts = DOMAIN newest[k]
    BY <1>1, Known, StoreAssumption DEF StoreIInv, CharacterRows, Versions
  <1>3. UNCHANGED <<toMaster, toWorld, rows, unsaved, shared>> /\ Chars' = Chars
    BY DEF Play, db, Chars
  <1>4. /\ r.open = client[c].open /\ r.char = client[c].char
        /\ r.waiting = client[c].waiting /\ r.missed = client[c].missed
        /\ r.mask = client[c].mask \cup {p} /\ r.has[p] = v
        /\ \A q \in Parts : q # p => r.has[q] = client[c].has[q]
    BY <1>1 DEF Clients, Versions
  <1>5. client' = [client EXCEPT ![c] = r] /\ client \in Seq(Clients)
    BY DEF Play, StoreIInv, TypeOK
  <1>6. /\ newest'[k][p] = v /\ \A q \in Parts : q # p => newest'[k][q] = newest[k][q]
        /\ \A j \in Chars : j # k => newest'[j] = newest[j]
    BY <1>1, <1>2, Known DEF Play, StoreIInv
  <1>7. newest[k][p] \in Nat /\ newest[k][p] < v /\ v \in Nat
    BY <1>2 DEF Versions
  <1> HIDE DEF r, v
  <1>8. Conns' = Conns /\ client'[c] = r /\ \A b \in Conns : b # c => client'[b] = client[b]
    BY <1>5 DEF Conns
  <1>9. \A i \in DOMAIN toMaster \cup DOMAIN toWorld : i \in Nat /\ i + 0 = i
    BY Counted DEF StoreIInv
  <1>11. ASSUME NEW j \in Chars, j \notin shared, j # k PROVE Kept(j)'
    <2>1. /\ \A i \in DOMAIN toMaster' : i + 0 \in DOMAIN toMaster /\ toMaster[i + 0] = toMaster'[i]
          /\ Stays(toMaster, toMaster', 0, j)
      BY <1>3, <1>9, Counted DEF StoreIInv
    <2>2. \A b \in Conns : client'[b] = client[b] \/ (client'[b].char # j /\ client[b].char # j)
      BY <1>4, <1>8, <1>11
    <2>3. /\ rows'[j].data = rows[j].data /\ newest'[j] = newest[j] /\ unsaved'[j] = unsaved[j]
          /\ \A m \in Range(toWorld') : Fetches(m, j) => m \in Range(toWorld)
      BY <1>3, <1>6, <1>11
    <2> QED BY <1>8, <1>11, <2>1, <2>2, <2>3, OtherKept
  <1>12. ASSUME k \notin shared PROVE Kept(k)'
    <2>1. Kept(k)
      BY <1>1, <1>12 DEF KeptInv
    <2>2. \A b \in Conns' : client'[b].char = k => b = c
      <3>1. \A b \in Conns : client[b].char = k => b = c
        BY <2>1 DEF Kept, OnePlayer
      <3> QED BY <1>4, <1>8, <3>1
    <2>3. client'[c].char = k /\ client[c].char = k
      BY <1>4, <1>8
    <2>4. OnePlayer(k)' /\ SavedFirst(k)' /\ FetchedNewest(k)'
      BY <1>3, <1>8, <2>1, <2>2, <2>3 DEF Kept, OnePlayer, SavedFirst, FetchedNewest
    <2>5. \A q \in Parts : /\ rows[k].data[q] <= newest[k][q] /\ newest[k][q] <= newest'[k][q]
                           /\ rows[k].data[q] \in Nat /\ newest[k][q] \in Nat /\ newest'[k][q] \in Nat
      BY <1>2, <1>6, <1>7, <2>1 DEF Kept, Behind, Versions
    <2>6. Behind(k)'
      BY <1>3, <2>5 DEF Behind
    <2>7. \A i \in DOMAIN toMaster : Saves(toMaster[i], k) =>
              /\ DOMAIN toMaster[i].data \subseteq Parts
              /\ \A q \in DOMAIN toMaster[i].data : toMaster[i].data[q] \in Nat
      <3>1. toMaster \in Seq(ToMaster)
        BY DEF StoreIInv, TypeOK
      <3> QED BY <3>1, RequestFields, StoreAssumption DEF Saves, Pieces
    <2>8. Ascends(k)'
      <3> SUFFICES ASSUME NEW i \in DOMAIN toMaster, Saves(toMaster[i], k), NEW q \in DOMAIN toMaster[i].data
                   PROVE  /\ toMaster[i].data[q] <= newest'[k][q]
                          /\ toMaster[i].data[q] = newest'[k][q] =>
                                \A b \in Conns' : client'[b].char = k => client'[b].has[q] = newest'[k][q]
        BY <1>3, <2>1 DEF Kept, Ascends
      <3>1. q \in Parts /\ toMaster[i].data[q] \in Nat
        BY <2>7
      <3>2. /\ toMaster[i].data[q] <= newest[k][q]
            /\ toMaster[i].data[q] = newest[k][q] => client[c].has[q] = newest[k][q]
        BY <2>1, <2>3 DEF Kept, Ascends
      <3>3. CASE q = p
        BY <1>6, <1>7, <3>1, <3>2, <3>3
      <3>4. CASE q # p
        BY <1>4, <1>6, <1>8, <2>2, <3>1, <3>2, <3>4
      <3> QED BY <3>3, <3>4
    <2>9. MarkedNewest(k)'
      <3> SUFFICES ASSUME NEW q \in r.mask
                   PROVE  /\ r.has[q] = newest'[k][q] /\ rows[k].data[q] < newest'[k][q]
                          /\ \A i \in DOMAIN toMaster :
                                Saves(toMaster[i], k) /\ q \in DOMAIN toMaster[i].data =>
                                    toMaster[i].data[q] < newest'[k][q]
        BY <1>3, <1>8, <2>2 DEF MarkedNewest
      <3>1. CASE q = p
        <4>1. r.has[q] = newest'[k][q] /\ rows[k].data[q] < newest'[k][q]
          BY <1>4, <1>6, <1>7, <2>5, <3>1
        <4>2. ASSUME NEW i \in DOMAIN toMaster, Saves(toMaster[i], k), q \in DOMAIN toMaster[i].data
              PROVE  toMaster[i].data[q] < newest'[k][q]
          <5>1. toMaster[i].data[q] <= newest[k][q] /\ toMaster[i].data[q] \in Nat
            BY <2>1, <2>7, <4>2 DEF Kept, Ascends
          <5> QED BY <1>6, <1>7, <3>1, <5>1
        <4> QED BY <4>1, <4>2
      <3>2. CASE q # p
        <4>1. q \in client[c].mask /\ q \in Parts
          BY <1>1, <1>4, <3>2
        <4>2. newest'[k][q] = newest[k][q] /\ r.has[q] = client[c].has[q]
          BY <1>4, <1>6, <3>2, <4>1
        <4> QED BY <2>1, <2>3, <4>1, <4>2 DEF Kept, MarkedNewest
      <3> QED BY <3>1, <3>2
    <2>10. ChangeKept(k)'
      <3> SUFFICES ASSUME NEW q \in Parts \ unsaved[k]
                   PROVE  /\ \/ rows[k].data[q] = newest'[k][q]
                             \/ \E m \in Range(toMaster) :
                                   /\ m.cmd = "dbSync" /\ m.char = k
                                   /\ q \in DOMAIN m.data /\ m.data[q] = newest'[k][q]
                             \/ q \in r.mask
                          /\ r.has[q] = newest'[k][q]
        BY <1>3, <1>8, <2>2, <2>3 DEF ChangeKept
      <3>1. CASE q = p
        BY <1>4, <1>6, <3>1
      <3>2. CASE q # p
        <4>1. newest'[k][q] = newest[k][q] /\ r.has[q] = client[c].has[q]
          BY <1>4, <1>6, <3>2
        <4>2. \A b \in Conns : client[b].char = k => b = c
          BY <2>1, <2>3 DEF Kept, OnePlayer
        <4> QED BY <1>4, <2>1, <2>3, <4>1, <4>2 DEF Kept, ChangeKept
      <3> QED BY <3>1, <3>2
    <2> QED BY <2>4, <2>6, <2>8, <2>9, <2>10 DEF Kept
  <1> QED BY <1>3, <1>11, <1>12 DEF KeptInv

\* The queue towards MasterSvr with one packet more.
LEMMA OneMore ==
    ASSUME StoreIInv, NEW m \in ToMaster, toMaster' = Append(toMaster, m)
    PROVE  /\ DOMAIN toMaster' = DOMAIN toMaster \cup {Len(toMaster) + 1}
           /\ toMaster'[Len(toMaster) + 1] = m
           /\ \A i \in DOMAIN toMaster : i < Len(toMaster) + 1 /\ toMaster'[i] = toMaster[i]
           /\ \A i \in DOMAIN toMaster' : i \in Nat /\ i + 0 = i
           /\ Range(toMaster') = Range(toMaster) \cup {m}
           /\ \A k : Stays(toMaster, toMaster', 0, k)
  <1>1. toMaster \in Seq(ToMaster)
    BY DEF StoreIInv, TypeOK
  <1>2. \A i \in DOMAIN toMaster : i < Len(toMaster) + 1 /\ i \in Nat /\ Len(toMaster) \in Nat
    BY <1>1
  <1>3. \A k : Stays(toMaster, Append(toMaster, m), 0, k)
    BY <1>1, QueueAppended
  <1>4. /\ DOMAIN toMaster' = DOMAIN toMaster \cup {Len(toMaster) + 1}
        /\ toMaster'[Len(toMaster) + 1] = m
        /\ \A i \in DOMAIN toMaster : toMaster'[i] = toMaster[i]
        /\ Range(toMaster') = Range(toMaster) \cup {m}
    BY <1>1, Appended
  <1>5. \A i \in DOMAIN toMaster' : i \in Nat
    BY <1>1, <1>2, <1>4
  <1> QED BY <1>2, <1>3, <1>4, <1>5

LEMMA KeptSync ==
    ASSUME StoreIInv, StoreIInv', KeptInv, NEW c \in Conns, SyncDB(c),
           NEW k \in Chars, client[c].char = k
    PROVE  KeptInv'
  <1> DEFINE r == [client[c] EXCEPT !.mask = {}]
             m == [cmd |-> "dbSync", char |-> k, data |-> Marked(c)]
  <1>1. client[c] \in Clients /\ client[c].has \in Versions /\ client[c].mask \subseteq Parts
    BY ContextIs, Counted DEF StoreIInv, Clients
  <1>2. UNCHANGED <<toWorld, rows, newest, shared>> /\ Chars' = Chars
    BY DEF SyncDB, db, Chars
  <1>3. /\ r.open = client[c].open /\ r.char = client[c].char /\ r.has = client[c].has
        /\ r.waiting = client[c].waiting /\ r.missed = client[c].missed /\ r.mask = {}
    BY <1>1 DEF Clients
  <1>4. client' = [client EXCEPT ![c] = r] /\ client \in Seq(Clients)
    BY DEF SyncDB, StoreIInv, TypeOK
  <1> HIDE DEF r
  <1>5. Conns' = Conns /\ client'[c] = r /\ \A b \in Conns : b # c => client'[b] = client[b]
    BY <1>4 DEF Conns
  <1>6. Marked(c) \in Pieces /\ DOMAIN Marked(c) = client[c].mask
        /\ \A p \in client[c].mask : Marked(c)[p] = client[c].has[p]
    BY <1>1 DEF Marked, Pieces, Versions
  <1>7. /\ m \in ToMaster /\ Saves(m, k) /\ m.data = Marked(c)
        /\ \A j : ~Fetches(m, j) /\ (j # k => ~Saves(m, j))
    BY <1>6, Known, RequestPackets DEF Saves, Fetches, StoreIInv
  <1>8. \A i \in DOMAIN toMaster \cup DOMAIN toWorld : i \in Nat /\ i + 0 = i
    BY Counted DEF StoreIInv
  <1>9. toMaster' = toMaster \/ toMaster' = Append(toMaster, m)
    BY DEF SyncDB, Send
  <1>10. m.cmd = "dbSync"
    OBVIOUS
  <1> HIDE DEF m
  <1>12. CASE link = "down"
    <2>1. toMaster' = toMaster
      BY <1>12 DEF SyncDB, Send
    <2>2. \A j \in Chars : unsaved[j] \subseteq unsaved'[j]
      BY <1>12, Known DEF SyncDB, StoreIInv
    <2>3. client[c].mask \subseteq unsaved'[k]
      BY <1>12, Known DEF SyncDB, StoreIInv
    <2>4. ASSUME NEW j \in Chars, j \notin shared PROVE Kept(j)'
      <3>1. /\ \A i \in DOMAIN toMaster' : i + 0 \in DOMAIN toMaster /\ toMaster[i + 0] = toMaster'[i] /\ i \in Nat
            /\ Stays(toMaster, toMaster', 0, j)
        BY <1>8, <2>1, Counted DEF StoreIInv
      <3>2. \A b \in Conns' : client'[b].char = j =>
              /\ b \in Conns /\ client[b].char = j
              /\ client'[b].has = client[b].has /\ client'[b].mask \subseteq client[b].mask
        BY <1>3, <1>5
      <3>3. \A b \in Conns : client[b].char = j =>
              \/ b \in Conns' /\ client'[b].char = j /\ client'[b].mask = client[b].mask
              \/ client[b].mask \subseteq unsaved'[j]
        BY <1>3, <1>5, <2>3
      <3>4. Kept(j)
        BY <2>4 DEF KeptInv
      <3> QED BY <1>2, <2>2, <3>1, <3>2, <3>3, <3>4, CharacterKept
    <2> QED BY <1>2, <2>4 DEF KeptInv
  <1>13. CASE link # "down"
    <2>1. toMaster' = Append(toMaster, m) /\ unsaved' = unsaved
      BY <1>13 DEF SyncDB, Send, m
    <2> DEFINE n == Len(toMaster) + 1
    <2>2. /\ DOMAIN toMaster' = DOMAIN toMaster \cup {n} /\ toMaster'[n] = m
          /\ \A i \in DOMAIN toMaster : i < n /\ toMaster'[i] = toMaster[i]
          /\ \A i \in DOMAIN toMaster' : i \in Nat /\ i + 0 = i
          /\ Range(toMaster') = Range(toMaster) \cup {m}
          /\ \A j : Stays(toMaster, toMaster', 0, j)
      BY <1>7, <2>1, OneMore
    <2>3. n \in Nat /\ \A i \in DOMAIN toMaster' : ~(n < i)
      <3>1. toMaster \in Seq(ToMaster)
        BY Counted DEF StoreIInv
      <3> QED BY <2>2, <3>1
    <2> HIDE DEF n
    <2>4. ASSUME NEW j \in Chars, j \notin shared, j # k PROVE Kept(j)'
      <3>1. /\ \A i \in DOMAIN toMaster' : Fetches(toMaster'[i], j) \/ Saves(toMaster'[i], j) =>
                   i + 0 \in DOMAIN toMaster /\ toMaster[i + 0] = toMaster'[i]
            /\ Stays(toMaster, toMaster', 0, j)
        BY <1>7, <2>2, <2>4
      <3>2. \A b \in Conns : client'[b] = client[b] \/ (client'[b].char # j /\ client[b].char # j)
        BY <1>3, <1>5, <2>4
      <3> QED BY <1>2, <1>5, <2>1, <2>4, <3>1, <3>2, OtherKept
    <2>5. ASSUME k \notin shared PROVE Kept(k)'
      <3>1. /\ ChangeKept(k) /\ OnePlayer(k) /\ SavedFirst(k) /\ Behind(k) /\ Ascends(k)
            /\ MarkedNewest(k) /\ FetchedNewest(k)
        BY <2>5 DEF KeptInv, Kept
      <3>2. /\ \A b \in Conns : client[b].char = k => b = c
            /\ \A b \in Conns' : client'[b].char = k => b = c
            /\ client'[c].char = k
        BY <1>3, <1>5, <3>1 DEF OnePlayer
      <3>3. /\ \A x \in Range(toMaster') : ~Fetches(x, k)
            /\ \A x \in Range(toWorld) : ~Fetches(x, k)
        BY <1>7, <2>2, <3>1 DEF OnePlayer
      <3>4. OnePlayer(k)' /\ SavedFirst(k)' /\ FetchedNewest(k)' /\ Behind(k)'
        BY <1>2, <3>1, <3>2, <3>3 DEF OnePlayer, SavedFirst, FetchedNewest, Behind, Range
      <3>5. \A p \in client[c].mask :
               /\ m.data[p] = newest[k][p] /\ rows[k].data[p] < newest[k][p]
               /\ client[c].has[p] = newest[k][p] /\ newest[k][p] \in Nat
               /\ \A i \in DOMAIN toMaster : Saves(toMaster[i], k) /\ p \in DOMAIN toMaster[i].data =>
                      toMaster[i].data[p] < newest[k][p]
        BY <1>1, <1>6, <1>7, <3>1, Known DEF MarkedNewest, StoreIInv, Versions
      <3>6. DOMAIN m.data = client[c].mask
        BY <1>6, <1>7
      <3>7. MarkedNewest(k)'
        BY <1>3, <1>5, <3>2 DEF MarkedNewest
      <3>8. ASSUME NEW i \in DOMAIN toMaster', Saves(toMaster'[i], k), NEW p \in DOMAIN toMaster'[i].data
            PROVE  /\ rows[k].data[p] < toMaster'[i].data[p]
                   /\ toMaster'[i].data[p] <= newest[k][p]
                   /\ \A j \in DOMAIN toMaster' :
                         i < j /\ Saves(toMaster'[j], k) /\ p \in DOMAIN toMaster'[j].data =>
                             toMaster'[i].data[p] < toMaster'[j].data[p]
                   /\ toMaster'[i].data[p] = newest[k][p] => r.has[p] = newest[k][p]
        <4>1. CASE i = n
          BY <1>3, <2>2, <2>3, <3>5, <3>6, <4>1
        <4>2. CASE i # n
          <5>1. i \in DOMAIN toMaster /\ toMaster'[i] = toMaster[i]
            BY <2>2, <4>2
          <5>2. /\ rows[k].data[p] < toMaster[i].data[p]
                /\ toMaster[i].data[p] <= newest[k][p]
                /\ \A j \in DOMAIN toMaster :
                      i < j /\ Saves(toMaster[j], k) /\ p \in DOMAIN toMaster[j].data =>
                          toMaster[i].data[p] < toMaster[j].data[p]
                /\ toMaster[i].data[p] = newest[k][p] => r.has[p] = newest[k][p]
            BY <1>3, <3>1, <3>8, <5>1 DEF Ascends
          <5>3. ASSUME NEW j \in DOMAIN toMaster', i < j, Saves(toMaster'[j], k),
                       p \in DOMAIN toMaster'[j].data
                PROVE  toMaster'[i].data[p] < toMaster'[j].data[p]
            <6>1. CASE j = n
              BY <2>2, <3>5, <3>6, <3>8, <5>1, <5>3, <6>1
            <6>2. CASE j # n
              BY <2>2, <5>1, <5>2, <5>3, <6>2
            <6> QED BY <6>1, <6>2
          <5> QED BY <5>1, <5>2, <5>3
        <4> QED BY <4>1, <4>2
      <3>9. Ascends(k)'
        BY <1>2, <1>5, <3>2, <3>8 DEF Ascends
      <3>10. ChangeKept(k)'
        <4> SUFFICES ASSUME NEW p \in Parts \ unsaved[k]
                     PROVE  /\ \/ rows[k].data[p] = newest[k][p]
                               \/ \E x \in Range(toMaster') :
                                     /\ x.cmd = "dbSync" /\ x.char = k
                                     /\ p \in DOMAIN x.data /\ x.data[p] = newest[k][p]
                            /\ r.has[p] = newest[k][p]
          BY <1>2, <1>5, <2>1, <3>2 DEF ChangeKept
        <4>1. /\ \/ rows[k].data[p] = newest[k][p]
                 \/ \E x \in Range(toMaster) :
                       /\ x.cmd = "dbSync" /\ x.char = k
                       /\ p \in DOMAIN x.data /\ x.data[p] = newest[k][p]
                 \/ p \in client[c].mask
              /\ r.has[p] = newest[k][p]
          BY <1>3, <3>1, <3>2 DEF ChangeKept
        <4> QED BY <1>7, <2>2, <3>5, <3>6, <4>1 DEF Saves
      <3> QED BY <3>4, <3>7, <3>9, <3>10 DEF Kept
    <2> QED BY <1>2, <2>4, <2>5 DEF KeptInv
  <1> QED BY <1>12, <1>13

LEMMA KeptInitialize ==
    ASSUME StoreIInv, StoreIInv', KeptInv, NEW c \in Conns, NEW k \in Chars, Initialize(c, k)
    PROVE  KeptInv'
  <1> DEFINE m == [cmd |-> "getCharacter", conn |-> c, acct |-> client[c].acct, char |-> k]
  <1>1. /\ m \in ToMaster /\ Fetches(m, k) /\ m.cmd = "getCharacter" /\ m.conn = c
        /\ \A j : ~Saves(m, j) /\ (j # k => ~Fetches(m, j))
    BY ContextIs, Known, RequestPackets DEF Saves, Fetches, StoreIInv, Initialize
  <1>2. Request(c, m) /\ client[c].char = 0 /\ Open(c)
    BY DEF Initialize, Request
  <1>3. /\ shared' = (IF \E d \in Conns : client[d].char = k THEN shared \cup {k} ELSE shared)
        /\ toMaster' = (IF link = "down" THEN toMaster ELSE Append(toMaster, m))
        /\ UNCHANGED <<toWorld, rows, newest, unsaved>> /\ Chars' = Chars
    BY DEF Initialize, Request, Send, db, Chars
  <1> HIDE DEF m
  <1>4. PICK r \in Clients :
              /\ client' = [client EXCEPT ![c] = r]
              /\ r.open = client[c].open /\ r.char = client[c].char
              /\ r.has = client[c].has /\ r.mask = client[c].mask
    BY <1>1, <1>2, RequestStep DEF Requests
  <1>5. Conns' = Conns /\ client'[c] = r /\ \A b \in Conns : b # c => client'[b] = client[b]
    BY <1>4, Changed DEF StoreIInv, TypeOK
  <1>6. \A i \in DOMAIN toMaster \cup DOMAIN toWorld : i \in Nat /\ i + 0 = i
    BY Counted DEF StoreIInv
  <1>7. CASE link = "down"
    <2>1. \A b \in Conns' : ContextKept(b)
      BY <1>4, <1>5, SameKept DEF ContextKept
    <2>2. /\ Comes(toMaster, toMaster', 0, "dbSync") /\ Comes(toMaster, toMaster', 0, "getCharacter")
          /\ Comes(toWorld, toWorld', 0, "getCharacter")
          /\ \A j \in Chars : Stays(toMaster, toMaster', 0, j)
      BY <1>3, <1>7, Counted DEF StoreIInv
    <2> QED BY <1>3, <1>5, <2>1, <2>2, AllKept
  <1>8. CASE link # "down"
    <2> DEFINE n == Len(toMaster) + 1
    <2>1. /\ DOMAIN toMaster' = DOMAIN toMaster \cup {n} /\ toMaster'[n] = m
          /\ \A i \in DOMAIN toMaster : i < n /\ toMaster'[i] = toMaster[i]
          /\ \A i \in DOMAIN toMaster' : i \in Nat /\ i + 0 = i
          /\ Range(toMaster') = Range(toMaster) \cup {m}
          /\ \A j : Stays(toMaster, toMaster', 0, j)
      BY <1>1, <1>3, <1>8, OneMore
    <2>2. n \in Nat /\ \A i \in DOMAIN toMaster' : ~(n < i)
      <3>1. toMaster \in Seq(ToMaster)
        BY Counted DEF StoreIInv
      <3> QED BY <2>1, <3>1
    <2> HIDE DEF n
    <2>5. ASSUME NEW j \in Chars, j \notin shared, j # k PROVE Kept(j)'
      <3>1. /\ \A i \in DOMAIN toMaster' : Fetches(toMaster'[i], j) \/ Saves(toMaster'[i], j) =>
                   i + 0 \in DOMAIN toMaster /\ toMaster[i + 0] = toMaster'[i]
            /\ Stays(toMaster, toMaster', 0, j)
        BY <1>1, <2>1, <2>5
      <3>2. \A b \in Conns : client'[b] = client[b] \/ (client'[b].char # j /\ client[b].char # j)
        BY <1>2, <1>4, <1>5, <2>5, Counted DEF StoreIInv
      <3> QED BY <1>3, <1>5, <2>5, <3>1, <3>2, OtherKept
    <2>6. ASSUME k \notin shared' PROVE Kept(k)'
      <3>1. k \notin shared /\ \A b \in Conns : client[b].char # k
        BY <1>3, <2>6
      <3>2. /\ ChangeKept(k) /\ SavedFirst(k) /\ Behind(k) /\ Ascends(k) /\ FetchedNewest(k)
        BY <3>1 DEF KeptInv, Kept
      <3>3. \A b \in Conns' : client'[b].char # k
        BY <1>4, <1>5, <3>1
      <3>4. \A i \in DOMAIN toMaster' : Saves(toMaster'[i], k) =>
               i \in DOMAIN toMaster /\ toMaster'[i] = toMaster[i]
        BY <1>1, <2>1
      <3>5. \A x \in Range(toMaster') : Saves(x, k) => x \in Range(toMaster)
        BY <1>1, <2>1
      <3>6. OnePlayer(k)' /\ MarkedNewest(k)' /\ FetchedNewest(k)' /\ Behind(k)'
        BY <1>3, <3>2, <3>3 DEF OnePlayer, MarkedNewest, FetchedNewest, Behind
      <3>7. \A i, j \in DOMAIN toMaster' : i < j /\ Fetches(toMaster'[i], k) => ~Saves(toMaster'[j], k)
        <4> SUFFICES ASSUME NEW i \in DOMAIN toMaster', NEW j \in DOMAIN toMaster', i < j,
                            Fetches(toMaster'[i], k), Saves(toMaster'[j], k)
                     PROVE  FALSE
          OBVIOUS
        <4>1. j \in DOMAIN toMaster /\ toMaster'[j] = toMaster[j]
          BY <3>4
        <4>2. i \in DOMAIN toMaster /\ toMaster'[i] = toMaster[i]
          BY <2>1, <2>2
        <4> QED BY <3>2, <4>1, <4>2 DEF SavedFirst
      <3>8. SavedFirst(k)'
        BY <1>3, <3>2, <3>5, <3>7 DEF SavedFirst
      <3>9. Ascends(k)'
        BY <1>3, <3>2, <3>3, <3>4 DEF Ascends
      <3>10. ChangeKept(k)'
        BY <1>3, <2>1, <3>1, <3>2, <3>3 DEF ChangeKept
      <3> QED BY <3>6, <3>8, <3>9, <3>10 DEF Kept
    <2> QED BY <1>3, <1>5, <2>5, <2>6 DEF KeptInv
  <1> QED BY <1>7, <1>8

-----------------------------------------------------------------------------
(* No change gets lost: what MasterSvr does.                               *)

\* The queue towards MasterSvr without its first packet.
LEMMA OneLess ==
    ASSUME StoreIInv, MasterHandles
    PROVE  /\ 1 \in DOMAIN toMaster /\ toMaster[1] = Head(toMaster)
           /\ \A i \in DOMAIN toMaster' : /\ i \in Nat \ {0} /\ 1 < i + 1
                                          /\ i + 1 \in DOMAIN toMaster /\ toMaster'[i] = toMaster[i + 1]
           /\ \A i \in DOMAIN toMaster : i # 1 =>
                 /\ 1 < i /\ i - 1 \in DOMAIN toMaster' /\ toMaster'[i - 1] = toMaster[i]
           /\ Range(toMaster') \subseteq Range(toMaster)
           /\ \A m \in Range(toMaster) : m = Head(toMaster) \/ m \in Range(toMaster')
           /\ \A cmd : Comes(toMaster, toMaster', 1, cmd)
           /\ \A k : ~Saves(Head(toMaster), k) => Stays(toMaster, toMaster', 1, k)
  <1>1. toMaster \in Seq(ToMaster) /\ toMaster # <<>> /\ toMaster' = Tail(toMaster)
    BY RequestTaken DEF StoreIInv, TypeOK
  <1>2. /\ 1 \in DOMAIN toMaster /\ toMaster[1] = Head(toMaster)
        /\ \A i \in DOMAIN toMaster' : /\ i \in Nat \ {0}
                                       /\ i + 1 \in DOMAIN toMaster /\ toMaster'[i] = toMaster[i + 1]
        /\ \A i \in DOMAIN toMaster : i # 1 => i - 1 \in DOMAIN toMaster'
        /\ Range(toMaster') \subseteq Range(toMaster)
        /\ \A m \in Range(toMaster) : m = Head(toMaster) \/ m \in Range(toMaster')
    BY <1>1, Popped
  <1>3. \A i \in DOMAIN toMaster : i \in Nat \ {0} /\ (i - 1) + 1 = i
    BY <1>1
  <1>4. \A i \in DOMAIN toMaster : i # 1 => 1 < i /\ toMaster'[i - 1] = toMaster[i]
    BY <1>2, <1>3
  <1>5. \A i \in DOMAIN toMaster' : 1 < i + 1
    BY <1>2
  <1>6. /\ \A cmd : Comes(toMaster, toMaster', 1, cmd)
        /\ \A k : ~Saves(Head(toMaster), k) => Stays(toMaster, toMaster', 1, k)
    BY <1>1, QueuePopped
  <1> QED BY <1>2, <1>4, <1>5, <1>6

\* A request that will not be answered leaves what is played as it is.
LEMMA MissedSame ==
    ASSUME StoreIInv, NEW c \in Conns, NEW cmd,
           client' = [client EXCEPT ![c].missed = IF Open(c) THEN @ \cup {cmd} ELSE @]
    PROVE  Conns' = Conns /\ \A d \in Conns : SameBut(d)
  <1> DEFINE r == [client[c] EXCEPT !.missed = IF Open(c) THEN @ \cup {cmd} ELSE @]
  <1>1. client' = [client EXCEPT ![c] = r]
    OBVIOUS
  <1>2. client[c] \in Clients
    BY ContextIs
  <1>3. /\ r.open = client[c].open /\ r.acct = client[c].acct /\ r.set = client[c].set
        /\ r.index = client[c].index /\ r.char = client[c].char
        /\ r.has = client[c].has /\ r.mask = client[c].mask
    BY <1>2 DEF Clients
  <1> HIDE DEF r
  <1>4. Conns' = Conns /\ client'[c] = r /\ \A d \in Conns : d # c => client'[d] = client[d]
    BY <1>1 DEF Conns, StoreIInv, TypeOK
  <1> QED BY <1>3, <1>4 DEF SameBut

\* Nothing about a character is taken, answered or missed.
LEMMA KeptHandled ==
    ASSUME StoreIInv, StoreIInv', KeptInv, NEW d \in {0, 1},
           Comes(toMaster, toMaster', d, "dbSync"), Comes(toMaster, toMaster', d, "getCharacter"),
           \A k : Stays(toMaster, toMaster', d, k),
           \/ toWorld' = toWorld
           \/ \E a \in ToWorld : a.cmd # "getCharacter" /\ Answer(a),
           Conns' = Conns, \A c \in Conns : SameBut(c),
           UNCHANGED <<rows, newest, unsaved, shared>>
    PROVE  KeptInv'
  <1>1. Comes(toWorld, toWorld', 0, "getCharacter")
    <2>1. CASE toWorld' = toWorld
      BY <2>1, Counted DEF StoreIInv
    <2>2. ASSUME NEW a \in ToWorld, a.cmd # "getCharacter", Answer(a)
          PROVE  Comes(toWorld, toWorld', 0, "getCharacter")
      <3>1. Comes(toWorld, Append(toWorld, a), 0, "getCharacter")
        BY <2>2, QueueAppended DEF StoreIInv, TypeOK
      <3> QED BY <2>2, <3>1 DEF Answer
    <2> QED BY <2>1, <2>2
  <1>2. \A c \in Conns' : ContextKept(c)
    BY DEF ContextKept, SameBut
  <1>3. Chars' = Chars
    BY DEF Chars
  <1> QED BY <1>1, <1>2, <1>3, AllKept

\* A save reaches the database.
LEMMA KeptSaved ==
    ASSUME StoreIInv, StoreIInv', KeptInv, MasterHandles, NEW k \in Chars, Saves(Head(toMaster), k)
    PROVE  KeptInv'
  <1> DEFINE m == Head(toMaster)
  <1>1. /\ m \in ToMaster /\ m.data \in Pieces /\ m.cmd = "dbSync" /\ m.char = k
        /\ DOMAIN m.data \subseteq Parts /\ \A p \in DOMAIN m.data : m.data[p] \in Nat
    <2>1. m \in ToMaster /\ m.cmd = "dbSync" /\ m.char = k
      BY RequestTaken DEF Saves
    <2>2. m.data \in Pieces
      BY SMTT(60), <2>1, RequestFields
    <2> QED BY <2>1, <2>2, StoreAssumption DEF Pieces
  <1>2. PICK failed \in SUBSET DOMAIN m.data :
             /\ rows' = [rows EXCEPT ![m.char].data =
                       [p \in Parts |-> IF p \in DOMAIN m.data \ failed THEN m.data[p] ELSE @[p]]]
             /\ unsaved' = [unsaved EXCEPT ![m.char] =
                          (@ \ {p \in DOMAIN m.data \ failed : m.data[p] = newest[m.char][p]}) \cup failed]
             /\ UNCHANGED <<client, toWorld, newest, shared>>
    BY <1>1 DEF MasterHandles, OnWorldDBSync
  <1>3. /\ rows[k] \in CharacterRows /\ rows[k].data \in Versions /\ newest[k] \in Versions
        /\ DOMAIN rows = Chars /\ DOMAIN unsaved = Chars
    BY Known DEF StoreIInv, CharacterRows
  <1>4. /\ Chars' = Chars /\ Conns' = Conns
        /\ \A j \in Chars : j # k => rows'[j] = rows[j] /\ unsaved'[j] = unsaved[j]
        /\ rows'[k].data = [p \in Parts |-> IF p \in DOMAIN m.data \ failed THEN m.data[p]
                                            ELSE rows[k].data[p]]
        /\ unsaved'[k] = (unsaved[k] \ {p \in DOMAIN m.data \ failed : m.data[p] = newest[k][p]}) \cup failed
    <2>1. Len(rows') = Len(rows)
      BY <1>2 DEF StoreIInv, TypeOK
    <2>2. rows'[k].data = [p \in Parts |-> IF p \in DOMAIN m.data \ failed THEN m.data[p]
                                            ELSE rows[k].data[p]]
      <3> DEFINE f == [p \in Parts |-> IF p \in DOMAIN m.data \ failed THEN m.data[p] ELSE rows[k].data[p]]
      <3>1. rows' = [rows EXCEPT ![k] = [rows[k] EXCEPT !.data = f]]
        BY <1>1, <1>2
      <3> HIDE DEF f, m
      <3> QED BY <1>3, <3>1 DEF CharacterRows, f
    <2>3. /\ \A j \in Chars : j # k => rows'[j] = rows[j] /\ unsaved'[j] = unsaved[j]
          /\ unsaved'[k] = (unsaved[k] \ {p \in DOMAIN m.data \ failed : m.data[p] = newest[k][p]}) \cup failed
      <3> HIDE DEF m
      <3> QED BY <1>1, <1>2, <1>3
    <2> QED BY <1>2, <2>1, <2>2, <2>3 DEF Conns, Chars
  <1>5. /\ 1 \in DOMAIN toMaster /\ toMaster[1] = m
        /\ \A i \in DOMAIN toMaster' : /\ i \in Nat \ {0} /\ 1 < i + 1
                                       /\ i + 1 \in DOMAIN toMaster /\ toMaster'[i] = toMaster[i + 1]
        /\ Range(toMaster') \subseteq Range(toMaster)
        /\ \A n \in Range(toMaster) : n = m \/ n \in Range(toMaster')
        /\ \A cmd : Comes(toMaster, toMaster', 1, cmd)
        /\ \A j : ~Saves(m, j) => Stays(toMaster, toMaster', 1, j)
    BY OneLess
  <1>6. m \in Range(toMaster)
    BY RequestTaken
  <1>7. Saves(m, k) /\ \A j : j # k => ~Saves(m, j)
    BY <1>1 DEF Saves
  <1> HIDE DEF m
  <1>9. ASSUME NEW j \in Chars, j \notin shared, j # k PROVE Kept(j)'
    BY <1>2, <1>4, <1>5, <1>7, <1>9, OtherKept
  <1>10. ASSUME k \notin shared PROVE Kept(k)'
    <2>1. /\ ChangeKept(k) /\ OnePlayer(k) /\ SavedFirst(k) /\ Behind(k) /\ Ascends(k)
          /\ MarkedNewest(k) /\ FetchedNewest(k)
      BY <1>10 DEF KeptInv, Kept
    <2>2. \A n \in Range(toWorld) : ~Fetches(n, k)
      BY <1>6, <1>7, <2>1 DEF SavedFirst
    <2>3. OnePlayer(k)' /\ FetchedNewest(k)'
      <3>1. \A n \in Range(toMaster') \cup Range(toWorld') : n \in Range(toMaster) \cup Range(toWorld)
        BY <1>2, <1>5
      <3>2. UNCHANGED client /\ Conns' = Conns
        BY <1>2, <1>4
      <3>3. OnePlayer(k)'
        BY <2>1, <3>1, <3>2 DEF OnePlayer
      <3> QED BY <1>2, <2>2, <3>3 DEF FetchedNewest
    <2>4. SavedFirst(k)'
      <3>1. \A i, j \in Nat : i < j => i + 1 < j + 1
        OBVIOUS
      <3>2. \A i, j \in DOMAIN toMaster' : i < j /\ Fetches(toMaster'[i], k) => ~Saves(toMaster'[j], k)
        BY <1>5, <2>1, <3>1 DEF SavedFirst
      <3> QED BY <1>2, <2>2, <3>2 DEF SavedFirst
    <2>5. \A p \in DOMAIN m.data :
             /\ rows[k].data[p] < m.data[p] /\ m.data[p] <= newest[k][p]
             /\ \A i \in DOMAIN toMaster' : Saves(toMaster'[i], k) /\ p \in DOMAIN toMaster'[i].data =>
                   m.data[p] < toMaster'[i].data[p]
             /\ m.data[p] = newest[k][p] =>
                   \A c \in Conns : client[c].char = k => client[c].has[p] = newest[k][p]
      BY <1>5, <1>7, <2>1 DEF Ascends
    <2>6. \A p \in Parts : rows'[k].data[p] = IF p \in DOMAIN m.data \ failed THEN m.data[p]
                                              ELSE rows[k].data[p]
      BY <1>4
    <2>7. Behind(k)'
      BY <1>1, <1>2, <2>1, <2>5, <2>6 DEF Behind
    <2>8. Ascends(k)'
      <3> SUFFICES ASSUME NEW i \in DOMAIN toMaster', Saves(toMaster'[i], k),
                          NEW p \in DOMAIN toMaster'[i].data
                   PROVE  /\ rows'[k].data[p] < toMaster'[i].data[p]
                          /\ toMaster'[i].data[p] <= newest[k][p]
                          /\ \A j \in DOMAIN toMaster' :
                                i < j /\ Saves(toMaster'[j], k) /\ p \in DOMAIN toMaster'[j].data =>
                                    toMaster'[i].data[p] < toMaster'[j].data[p]
                          /\ toMaster'[i].data[p] = newest[k][p] =>
                                \A c \in Conns : client[c].char = k => client[c].has[p] = newest[k][p]
        BY <1>2, <1>4 DEF Ascends
      <3>1. /\ rows[k].data[p] < toMaster'[i].data[p]
            /\ toMaster'[i].data[p] <= newest[k][p]
            /\ \A j \in DOMAIN toMaster :
                  i + 1 < j /\ Saves(toMaster[j], k) /\ p \in DOMAIN toMaster[j].data =>
                      toMaster'[i].data[p] < toMaster[j].data[p]
            /\ toMaster'[i].data[p] = newest[k][p] =>
                  \A c \in Conns : client[c].char = k => client[c].has[p] = newest[k][p]
        BY <1>5, <2>1 DEF Ascends
      <3>2. p \in Parts
        <4>1. toMaster'[i] \in ToMaster
          BY <1>5, Counted DEF StoreIInv
        <4> QED BY <4>1, RequestFields DEF Saves, Pieces
      <3>3. rows'[k].data[p] < toMaster'[i].data[p]
        BY <2>5, <2>6, <3>1, <3>2
      <3>4. ASSUME NEW j \in DOMAIN toMaster', i < j, Saves(toMaster'[j], k), p \in DOMAIN toMaster'[j].data
            PROVE  toMaster'[i].data[p] < toMaster'[j].data[p]
        <4>1. i + 1 < j + 1 /\ j + 1 \in DOMAIN toMaster /\ toMaster'[j] = toMaster[j + 1]
          BY <1>5, <3>4
        <4> QED BY <3>1, <3>4, <4>1
      <3> QED BY <3>1, <3>3, <3>4
    <2>9. MarkedNewest(k)'
      <3> SUFFICES ASSUME NEW c \in Conns, client[c].char = k, NEW p \in client[c].mask
                   PROVE  /\ client[c].has[p] = newest[k][p] /\ rows'[k].data[p] < newest[k][p]
                          /\ \A i \in DOMAIN toMaster' :
                                Saves(toMaster'[i], k) /\ p \in DOMAIN toMaster'[i].data =>
                                    toMaster'[i].data[p] < newest[k][p]
        BY <1>2, <1>4 DEF MarkedNewest
      <3>1. /\ client[c].has[p] = newest[k][p] /\ rows[k].data[p] < newest[k][p]
            /\ \A i \in DOMAIN toMaster :
                  Saves(toMaster[i], k) /\ p \in DOMAIN toMaster[i].data =>
                      toMaster[i].data[p] < newest[k][p]
        BY <2>1 DEF MarkedNewest
      <3>2. p \in Parts
        BY ContextIs DEF Clients
      <3> QED BY <1>5, <1>7, <2>6, <3>1, <3>2
    <2>10. ChangeKept(k)'
      <3> SUFFICES ASSUME NEW p \in Parts \ unsaved'[k]
                   PROVE  /\ \/ rows'[k].data[p] = newest[k][p]
                             \/ \E n \in Range(toMaster') :
                                   /\ n.cmd = "dbSync" /\ n.char = k
                                   /\ p \in DOMAIN n.data /\ n.data[p] = newest[k][p]
                             \/ \E c \in Conns : client[c].char = k /\ p \in client[c].mask
                          /\ \A c \in Conns : client[c].char = k => client[c].has[p] = newest[k][p]
        BY <1>2, <1>4 DEF ChangeKept
      <3>1. CASE p \in DOMAIN m.data \ failed /\ m.data[p] = newest[k][p]
        BY <2>5, <2>6, <3>1
      <3>2. CASE ~(p \in DOMAIN m.data \ failed /\ m.data[p] = newest[k][p])
        <4>1. p \in Parts \ unsaved[k] /\ p \notin failed
          BY <1>4, <3>2
        <4>2. /\ \/ rows[k].data[p] = newest[k][p]
                 \/ \E n \in Range(toMaster) :
                       /\ n.cmd = "dbSync" /\ n.char = k
                       /\ p \in DOMAIN n.data /\ n.data[p] = newest[k][p]
                 \/ \E c \in Conns : client[c].char = k /\ p \in client[c].mask
              /\ \A c \in Conns : client[c].char = k => client[c].has[p] = newest[k][p]
          BY <2>1, <4>1 DEF ChangeKept
        <4>3. CASE rows[k].data[p] = newest[k][p]
          <5>1. p \notin DOMAIN m.data
            BY <1>1, <1>3, <2>5, <4>3 DEF Versions
          <5> QED BY <2>6, <4>2, <4>3, <5>1
        <4>4. CASE \E n \in Range(toMaster) :
                       /\ n.cmd = "dbSync" /\ n.char = k
                       /\ p \in DOMAIN n.data /\ n.data[p] = newest[k][p]
          BY <1>5, <3>2, <4>1, <4>2, <4>4
        <4> QED BY <4>2, <4>3, <4>4
      <3> QED BY <3>1, <3>2
    <2> QED BY <2>3, <2>4, <2>7, <2>8, <2>9, <2>10 DEF Kept
  <1> QED BY <1>2, <1>4, <1>9, <1>10 DEF KeptInv

\* The answer of MasterSvr to an INITIALIZE.
LEMMA KeptFetched ==
    ASSUME StoreIInv, StoreIInv', KeptInv, MasterHandles, NEW k \in Chars, Fetches(Head(toMaster), k)
    PROVE  KeptInv'
  <1> DEFINE m == Head(toMaster)
             n == Len(toWorld) + 1
  <1>1. m \in ToMaster /\ m.cmd = "getCharacter" /\ m.char = k
    BY RequestTaken DEF Fetches
  <1>2. m.conn \in Conns /\ m.conn \in ConnIDs
    BY <1>1, RequestTaken, RequestFields DEF OwnRequest, Requests
  <1>3. UNCHANGED <<client, rows, newest, unsaved, shared>> /\ Conns' = Conns /\ Chars' = Chars
    BY <1>1 DEF MasterHandles, OnWorldGetCharacter, db, history, Conns, Chars
  <1>4. \E a \in ToWorld : /\ Answer(a) /\ a.cmd = "getCharacter" /\ a.conn = m.conn
                           /\ a.char = 0 \/ (a.char = k /\ a.data = rows[k].data)
    <2> DEFINE a == [cmd |-> m.cmd, conn |-> m.conn, char |-> m.char, data |-> rows[m.char].data]
               b == [cmd |-> m.cmd, conn |-> m.conn, char |-> 0]
    <2>1. OnWorldGetCharacter(m)
      BY <1>1 DEF MasterHandles
    <2>2. Answer(a) \/ Answer(b)
      BY <2>1 DEF OnWorldGetCharacter
    <2>3. rows[k].data \in Versions /\ k \in Nat
      BY Known DEF StoreIInv, CharacterRows
    <2>4. a \in ToWorld /\ b \in ToWorld
      BY <1>1, <1>2, <2>3, AnswerPackets DEF Versions
    <2>5. /\ a.cmd = "getCharacter" /\ a.conn = m.conn /\ a.char = k /\ a.data = rows[k].data
          /\ b.cmd = "getCharacter" /\ b.conn = m.conn /\ b.char = 0
      BY <1>1
    <2> HIDE DEF a, b, m
    <2> QED BY <2>2, <2>4, <2>5
  <1>5. PICK a \in ToWorld : /\ Answer(a) /\ a.cmd = "getCharacter" /\ a.conn = m.conn
                             /\ a.char = 0 \/ (a.char = k /\ a.data = rows[k].data)
    BY <1>4
  <1>6. /\ 1 \in DOMAIN toMaster /\ toMaster[1] = m /\ m \in Range(toMaster)
        /\ \A i \in DOMAIN toMaster' : /\ i \in Nat \ {0} /\ 1 < i + 1
                                       /\ i + 1 \in DOMAIN toMaster /\ toMaster'[i] = toMaster[i + 1]
        /\ Range(toMaster') \subseteq Range(toMaster)
        /\ \A x \in Range(toMaster) : x = m \/ x \in Range(toMaster')
    BY OneLess, RequestTaken
  <1>7. /\ Fetches(m, k) /\ \A j : ~Saves(m, j) /\ (j # k => ~Fetches(m, j))
        /\ \A j : Stays(toMaster, toMaster', 1, j)
    BY <1>1, OneLess DEF Saves, Fetches
  <1> HIDE DEF m
  <1>8. /\ DOMAIN toWorld' = DOMAIN toWorld \cup {n} /\ toWorld'[n] = a
        /\ \A i \in DOMAIN toWorld : toWorld'[i] = toWorld[i]
        /\ Range(toWorld') = Range(toWorld) \cup {a}
        /\ n \in Nat /\ \A i \in DOMAIN toWorld : i \in Nat /\ i + 0 = i
    <2>1. toWorld \in Seq(ToWorld) /\ toWorld' = Append(toWorld, a)
      BY <1>5, Counted DEF StoreIInv, Answer
    <2> QED BY <2>1, Appended
  <1> HIDE DEF n
  <1>11. ASSUME NEW j \in Chars, j \notin shared, j # k \/ a.char = 0 PROVE Kept(j)'
    <2>1. \A x \in Range(toWorld') : Fetches(x, j) => x \in Range(toWorld)
      BY <1>5, <1>8, <1>11, Counted DEF StoreIInv, Fetches
    <2> QED BY <1>3, <1>6, <1>7, <1>11, <2>1, OtherKept
  <1>12. ASSUME k \notin shared, a.char # 0 PROVE Kept(k)'
    <2>1. /\ ChangeKept(k) /\ OnePlayer(k) /\ SavedFirst(k) /\ Behind(k) /\ Ascends(k)
          /\ MarkedNewest(k) /\ FetchedNewest(k)
      BY <1>12 DEF KeptInv, Kept
    <2>2. \A c \in Conns : client[c].char # k
      BY <1>6, <1>7, <2>1 DEF OnePlayer
    <2>3. \A i \in DOMAIN toMaster : ~Saves(toMaster[i], k)
      <3>1. \A i \in DOMAIN toMaster : i # 1 => 1 < i
        BY OneLess
      <3> QED BY <1>6, <1>7, <2>1, <3>1 DEF SavedFirst
    <2>4. \A i \in DOMAIN toMaster' : ~Saves(toMaster'[i], k)
      BY <1>6, <2>3
    <2>5. \A x \in Range(toMaster) \cup Range(toMaster') : ~Saves(x, k)
      BY <2>3, <2>4 DEF Range
    <2>6. OnePlayer(k)' /\ SavedFirst(k)' /\ Ascends(k)' /\ MarkedNewest(k)' /\ Behind(k)'
      BY <1>3, <2>1, <2>2, <2>4, <2>5 DEF OnePlayer, SavedFirst, Ascends, MarkedNewest, Behind
    <2>7. \A p \in Parts \ unsaved[k] : rows[k].data[p] = newest[k][p]
      BY <2>1, <2>2, <2>5 DEF ChangeKept, Saves
    <2>8. FetchedNewest(k)'
      BY <1>3, <1>5, <1>8, <1>12, <2>1, <2>7 DEF FetchedNewest
    <2>9. ChangeKept(k)'
      BY <1>3, <2>2, <2>7 DEF ChangeKept
    <2> QED BY <2>6, <2>8, <2>9 DEF Kept
  <1> QED BY <1>3, <1>11, <1>12 DEF KeptInv

\* A character is created: nobody plays it and nothing about it is under way.
LEMMA KeptCreated ==
    ASSUME StoreIInv, StoreIInv', KeptInv, MasterHandles, Head(toMaster).cmd = "createCharacter"
    PROVE  KeptInv'
  <1> DEFINE m == Head(toMaster)
             n == Len(rows) + 1
  <1>0. OnWorldCreateCharacter(m) /\ UNCHANGED shared
    BY DEF MasterHandles, OnWorldCreateCharacter
  <1>1. Conns' = Conns /\ \A c \in Conns : SameBut(c)
    <2>1. TypeOK /\ n \in Nat
      BY DEF StoreIInv, TypeOK
    <2>2. UNCHANGED client \/ \E told : Untold(m.acct, n, told)
      BY <1>0 DEF OnWorldCreateCharacter
    <2> HIDE DEF m, n
    <2>3. CASE UNCHANGED client
      BY <2>3 DEF Conns, SameBut
    <2>4. ASSUME NEW told, Untold(m.acct, n, told)
          PROVE  Conns' = Conns /\ \A c \in Conns : SameBut(c)
      BY <2>1, <2>4, UntoldKept
    <2> QED BY <2>2, <2>3, <2>4
  <1>2. m \in ToMaster /\ m.conn \in ConnIDs /\ m.acct \in Accounts /\ m.slot \in Slots \cup Beyond
    BY RequestTaken, RequestFields DEF Requests
  <1>3. \E a \in ToWorld : Answer(a) /\ a.cmd = "createCharacter"
    <2>1. n \in Nat /\ 0 \in Nat
      BY DEF StoreIInv, TypeOK
    <2>2. \E x \in {0, n} : Answer([cmd |-> m.cmd, conn |-> m.conn, slot |-> m.slot, char |-> x])
      BY <1>0 DEF OnWorldCreateCharacter
    <2> HIDE DEF n
    <2> QED BY <1>2, <2>1, <2>2, AnswerPackets
  <1>4. PICK a \in ToWorld : Answer(a) /\ a.cmd = "createCharacter"
    BY <1>3
  <1>5. /\ \A cmd : Comes(toMaster, toMaster', 1, cmd)
        /\ \A k : Stays(toMaster, toMaster', 1, k)
    BY OneLess DEF Saves
  <1>6. CASE UNCHANGED <<rows, newest, unsaved>>
    BY <1>0, <1>1, <1>4, <1>5, <1>6, KeptHandled
  <1>7. CASE Insert(m.acct, m.slot)
    <2> DEFINE zero == [p \in Parts |-> 0]
               x == [acct |-> m.acct, slot |-> m.slot, data |-> zero]
    <2>1. /\ rows' = Append(rows, x) /\ newest' = Append(newest, zero) /\ unsaved' = Append(unsaved, {})
          /\ x.data = zero /\ \A p \in Parts : zero[p] = 0
      BY <1>7 DEF Insert
    <2>2. /\ rows \in Seq(CharacterRows) /\ newest \in Seq(Versions) /\ unsaved \in Seq(SUBSET Parts)
          /\ Len(newest) = Len(rows) /\ Len(unsaved) = Len(rows)
      BY DEF StoreIInv, TypeOK
    <2> HIDE DEF x, zero, m
    <2>3. /\ Chars' = Chars \cup {n} /\ n \notin Chars /\ n # 0
          /\ rows'[n] = x /\ newest'[n] = zero
          /\ \A k \in Chars : rows'[k] = rows[k] /\ newest'[k] = newest[k] /\ unsaved'[k] = unsaved[k]
      BY <2>1, <2>2 DEF Chars
    <2> HIDE DEF n
    <2>4. /\ \A i \in DOMAIN toMaster' : /\ i \in Nat
                                         /\ i + 1 \in DOMAIN toMaster /\ toMaster'[i] = toMaster[i + 1]
          /\ Range(toMaster') \subseteq Range(toMaster)
      BY OneLess
    <2>5. /\ toWorld \in Seq(ToWorld) /\ toWorld' = Append(toWorld, a)
          /\ \A i \in DOMAIN toWorld \cup DOMAIN toWorld' : i \in Nat /\ i + 0 = i
      BY <1>4, Counted DEF Answer, StoreIInv
    <2>6. Range(toWorld') = Range(toWorld) \cup {a} /\ Comes(toWorld, toWorld', 0, "getCharacter")
      BY <1>4, <2>5, Appended, QueueAppended
    <2>8. ASSUME NEW k \in Chars, k \notin shared PROVE Kept(k)'
      <3>1. \A y \in Range(toWorld') : Fetches(y, k) => y \in Range(toWorld)
        BY <1>4, <2>6 DEF Fetches
      <3>2. rows'[k].data = rows[k].data /\ newest'[k] = newest[k] /\ unsaved'[k] = unsaved[k]
        BY <2>3
      <3>3. \A c \in Conns : /\ client'[c].char = client[c].char /\ client'[c].has = client[c].has
                             /\ client'[c].mask = client[c].mask
        BY <1>1 DEF SameBut
      <3>4. \A j \in DOMAIN toMaster' : j + 1 \in DOMAIN toMaster /\ toMaster[j + 1] = toMaster'[j]
        BY <2>4
      <3> QED BY <1>1, <1>5, <2>8, <3>1, <3>2, <3>3, <3>4, OtherKept
    <2>9. ASSUME NEW k, k = n PROVE Kept(k)'
      <3>1. \A c \in Conns' : client'[c].char # k
        BY <1>1, <2>3, <2>9, ContextIs DEF SameBut
      <3>2. \A y \in Range(toMaster') : ~Fetches(y, k) /\ ~Saves(y, k)
        BY <2>3, <2>4, <2>9 DEF StoreIInv, Owned, OwnRequest, Fetches, Saves
      <3>3. \A y \in Range(toWorld') : ~Fetches(y, k)
        BY <1>4, <2>3, <2>6, <2>9 DEF StoreIInv, Owned, OwnAnswer, Fetches
      <3>4. \A p \in Parts : rows'[k].data[p] = 0 /\ newest'[k][p] = 0
        BY <2>1, <2>3, <2>9
      <3>5. \A i \in DOMAIN toMaster' : toMaster'[i] \in Range(toMaster')
        BY DEF Range
      <3>6. OnePlayer(k)' /\ MarkedNewest(k)' /\ SavedFirst(k)' /\ FetchedNewest(k)'
        BY <1>1, <3>1, <3>2, <3>3, <3>5 DEF OnePlayer, MarkedNewest, SavedFirst, FetchedNewest
      <3>7. Ascends(k)' /\ Behind(k)'
        BY <3>2, <3>4, <3>5 DEF Ascends, Behind
      <3>8. ChangeKept(k)'
        BY <1>1, <3>1, <3>4 DEF ChangeKept
      <3> QED BY <3>6, <3>7, <3>8 DEF Kept
    <2> QED BY <1>0, <2>3, <2>8, <2>9 DEF KeptInv
  <1> QED BY <1>0, <1>6, <1>7 DEF OnWorldCreateCharacter

LEMMA KeptMaster == ASSUME StoreIInv, StoreIInv', KeptInv, MasterHandles PROVE KeptInv'
  <1> DEFINE m == Head(toMaster)
  <1>1. m \in ToMaster /\ OwnRequest(m)
    BY RequestTaken
  <1>2. m.cmd = "getCharacter" => \E k \in Chars : Fetches(m, k)
    BY <1>1 DEF OwnRequest, Fetches
  <1>3. m.cmd = "dbSync" => \E k \in Chars : Saves(m, k)
    BY <1>1 DEF OwnRequest, Saves
  <1>4. CASE m.cmd \in {"getCharacters", "verifyPassword", "updateSubpassword", "updateSession"}
    <2>1. /\ \A cmd : Comes(toMaster, toMaster', 1, cmd)
          /\ \A k : Stays(toMaster, toMaster', 1, k)
      BY <1>4, OneLess DEF Saves
    <2>2. UNCHANGED <<rows, newest, unsaved, shared>>
      BY <1>4 DEF MasterHandles, OnWorldGetCharacters, OnWorldVerifyPassword, db, history,
                  OnWorldUpdateAccountSubpasswordData, OnWorldUpdateAccountSessionData
    <2>3. Conns' = Conns /\ \A c \in Conns : SameBut(c)
      <3>1. UNCHANGED client \/ (m.cmd \in {"getCharacters", "verifyPassword"} /\ Missed(m))
        BY <1>4 DEF MasterHandles, OnWorldGetCharacters, OnWorldVerifyPassword,
                    OnWorldUpdateAccountSubpasswordData, OnWorldUpdateAccountSessionData
      <3>2. CASE UNCHANGED client
        BY <3>2 DEF Conns, SameBut
      <3>3. CASE m.cmd \in {"getCharacters", "verifyPassword"} /\ Missed(m)
        <4>1. m.conn \in Conns
          BY <1>1, <3>3 DEF OwnRequest, Requests
        <4>2. client' = [client EXCEPT ![m.conn].missed = IF Open(m.conn) THEN @ \cup {m.cmd} ELSE @]
          BY <3>3 DEF Missed
        <4> HIDE DEF m
        <4> QED BY <4>1, <4>2, MissedSame
      <3> QED BY <3>1, <3>2, <3>3
    <2>4. \/ toWorld' = toWorld
          \/ \E a \in ToWorld : a.cmd # "getCharacter" /\ Answer(a)
      <3>1. CASE m.cmd = "getCharacters"
        <4> DEFINE a == [cmd |-> m.cmd, conn |-> m.conn, index |-> Characters(m.acct)]
        <4>1. m.conn \in ConnIDs
          BY <1>1, <3>1, RequestFields DEF Requests
        <4>2. Characters(m.acct) \in [Slots -> Nat]
          BY CharactersBacked DEF StoreIInv
        <4>3. a \in ToWorld /\ a.cmd # "getCharacter"
          BY <3>1, <4>1, <4>2, AnswerPackets
        <4>4. toWorld' = toWorld \/ Answer(a)
          BY <3>1 DEF MasterHandles, OnWorldGetCharacters
        <4> QED BY <4>3, <4>4
      <3>2. CASE m.cmd # "getCharacters"
        BY <1>4, <3>2 DEF MasterHandles, OnWorldVerifyPassword,
                  OnWorldUpdateAccountSubpasswordData, OnWorldUpdateAccountSessionData
      <3> QED BY <3>1, <3>2
    <2> HIDE DEF m
    <2> QED BY <2>1, <2>2, <2>3, <2>4, KeptHandled
  <1> QED BY <1>2, <1>3, <1>4, KeptSaved, KeptFetched, KeptCreated DEF MasterHandles

LEMMA KeptVerdict == ASSUME StoreIInv, StoreIInv', KeptInv, OnMasterVerifyPassword PROVE KeptInv'
  <1> DEFINE c == Head(atAuth)
             a == [cmd |-> "verifyPassword", conn |-> c]
  <1>1. UNCHANGED <<toMaster, rows, newest, unsaved, shared>>
    BY DEF OnMasterVerifyPassword, db, history
  <1>2. c \in Conns /\ c \in ConnIDs
    <2>1. c \in Conns
      BY Popped DEF StoreIInv, TypeOK, Owned, OnMasterVerifyPassword
    <2> QED BY <2>1, Known DEF StoreIInv
  <1>3. a \in ToWorld /\ a.cmd # "getCharacter"
    BY <1>2, AnswerPackets
  <1>4. \/ Missed([conn |-> c, cmd |-> "verifyPassword"]) /\ UNCHANGED toWorld
        \/ Answer(a) /\ UNCHANGED client
    BY DEF OnMasterVerifyPassword
  <1>5. Conns' = Conns /\ \A d \in Conns : SameBut(d)
    <2>1. CASE UNCHANGED client
      BY <2>1 DEF Conns, SameBut
    <2>2. CASE Missed([conn |-> c, cmd |-> "verifyPassword"])
      <3>1. client' = [client EXCEPT ![c].missed = IF Open(c) THEN @ \cup {"verifyPassword"} ELSE @]
        BY <2>2 DEF Missed
      <3> HIDE DEF c
      <3> QED BY <1>2, <3>1, MissedSame
    <2> QED BY <1>4, <2>1, <2>2
  <1>6. /\ \A cmd : Comes(toMaster, toMaster', 0, cmd)
        /\ \A k : Stays(toMaster, toMaster', 0, k)
    BY <1>1, Counted DEF StoreIInv
  <1> HIDE DEF a, c
  <1> QED BY <1>1, <1>3, <1>4, <1>5, <1>6, KeptHandled

-----------------------------------------------------------------------------
(* No change gets lost: what WorldSvr does with an answer.                 *)

\* A record that is let go of leaves its marks, and nothing else changes.
LEMMA LetGoLeaves ==
    ASSUME StoreIInv, NEW c \in Conns, LetGo(c), NEW k \in Chars
    PROVE  /\ unsaved[k] \subseteq unsaved'[k]
           /\ client[c].char = k => client[c].mask \subseteq unsaved'[k]
           /\ client[c].char # k => unsaved'[k] = unsaved[k]
  <1>1. DOMAIN unsaved = Chars /\ k # 0
    BY Known DEF StoreIInv
  <1> QED BY <1>1 DEF LetGo

\* A character arrives and is played; another one may be let go of.
LEMMA KeptPlayed ==
    ASSUME StoreIInv, StoreIInv', KeptInv, WorldHandles, NEW k \in Chars, Fetches(Head(toWorld), k),
           NEW c \in Conns, Head(toWorld).conn = c, Open(c)
    PROVE  KeptInv'
  <1> DEFINE m == Head(toWorld)
             r == [Answered(m) EXCEPT !.char = k, !.has = m.data, !.mask = {}]
  <1>1. m \in ToWorld /\ m.cmd = "getCharacter" /\ m.char = k /\ k # 0 /\ m.conn = c
    BY AnswerTaken, Counted DEF Fetches, StoreIInv
  <1>2. m.data \in Versions
    BY <1>1, AnswerFields
  <1>3. AckGetCharacter(m)
    BY <1>1 DEF WorldHandles
  <1>4. client' = [client EXCEPT ![c] = r]
    BY <1>1, <1>3 DEF AckGetCharacter
  <1>5. client[c] \in Clients
    BY ContextIs
  <1>6. /\ Answered(m) \in Clients /\ Answered(m).open = client[c].open
    BY <1>1, <1>5 DEF Answered, Clients
  <1>7. r.open = client[c].open /\ r.char = k /\ r.has = m.data /\ r.mask = {}
    <2> DEFINE r0 == Answered(m)
    <2>1. r0 \in Clients /\ r0.open = client[c].open
      BY <1>6
    <2> HIDE DEF r0
    <2>2. r = [r0 EXCEPT !.char = k, !.has = m.data, !.mask = {}]
      BY DEF r0
    <2> HIDE DEF m
    <2> QED BY <2>1, <2>2 DEF Clients
  <1>8. /\ toMaster' = toMaster /\ toWorld' = Tail(toWorld)
        /\ UNCHANGED <<rows, newest>> /\ Chars' = Chars /\ LetGo(c)
    BY <1>1, <1>3 DEF WorldHandles, AckGetCharacter, db, Chars
  <1>9. \/ k \in shared' /\ shared \subseteq shared'
        \/ /\ shared' = shared
           /\ \A d \in Conns : client[d].char # k
           /\ \A x \in Range(toMaster) \cup Range(Tail(toWorld)) : ~Fetches(x, k)
    BY <1>1, <1>3 DEF AckGetCharacter, Fetches
  <1>10. Conns' = Conns /\ client'[c] = r /\ \A b \in Conns : b # c => client'[b] = client[b]
    BY <1>4 DEF Conns, StoreIInv, TypeOK
  <1>11. /\ 1 \in DOMAIN toWorld /\ toWorld[1] = m /\ m \in Range(toWorld)
         /\ \A i \in DOMAIN toWorld' : i \in Nat \ {0} /\ i + 1 \in DOMAIN toWorld /\ toWorld'[i] = toWorld[i + 1]
         /\ Range(toWorld') \subseteq Range(toWorld)
         /\ \A i \in DOMAIN toMaster : i \in Nat /\ i + 0 = i
    BY <1>8, AnswerTaken, Popped, Counted DEF StoreIInv
  <1>12. m.data \in Versions /\ Fetches(m, k)
    BY <1>2
  <1> HIDE DEF m, r
  <1>15. ASSUME NEW j \in Chars, j \notin shared', j # k PROVE Kept(j)'
    <2>1. /\ \A i \in DOMAIN toMaster' : i \in Nat /\ i + 0 \in DOMAIN toMaster /\ toMaster[i + 0] = toMaster'[i]
          /\ Stays(toMaster, toMaster', 0, j)
      BY <1>8, <1>11, Counted DEF StoreIInv
    <2>2. /\ unsaved[j] \subseteq unsaved'[j]
          /\ client[c].char = j => client[c].mask \subseteq unsaved'[j]
      BY <1>8, LetGoLeaves
    <2>3. \A b \in Conns' : client'[b].char = j =>
             /\ b \in Conns /\ client[b].char = j
             /\ client'[b].has = client[b].has /\ client'[b].mask \subseteq client[b].mask
      BY <1>7, <1>10, <1>15
    <2>4. \A b \in Conns : client[b].char = j =>
             \/ b \in Conns' /\ client'[b].char = j /\ client'[b].mask = client[b].mask
             \/ client[b].mask \subseteq unsaved'[j]
      BY <1>10, <2>2
    <2>5. Kept(j)
      BY <1>9, <1>15 DEF KeptInv
    <2>6. \A x \in Range(toWorld') : Fetches(x, j) => x \in Range(toWorld)
      BY <1>11
    <2> QED BY <1>8, <2>1, <2>2, <2>3, <2>4, <2>5, <2>6, CharacterKept
  <1>16. ASSUME k \notin shared' PROVE Kept(k)'
    <2>1. /\ k \notin shared
          /\ \A d \in Conns : client[d].char # k
          /\ \A x \in Range(toMaster') \cup Range(toWorld') : ~Fetches(x, k)
          /\ unsaved'[k] = unsaved[k]
      BY <1>8, <1>9, <1>16, LetGoLeaves
    <2>2. /\ ChangeKept(k) /\ SavedFirst(k) /\ Behind(k) /\ FetchedNewest(k)
      BY <2>1 DEF KeptInv, Kept
    <2>3. \A x \in Range(toMaster) : ~Saves(x, k)
      BY <1>11, <1>12, <2>2 DEF SavedFirst
    <2>4. \A i \in DOMAIN toMaster : toMaster[i] \in Range(toMaster) /\ ~Saves(toMaster[i], k)
      BY <2>3 DEF Range
    <2>5. \A b \in Conns' : client'[b].char = k => b = c
      BY <1>10, <2>1
    <2>7. OnePlayer(k)' /\ SavedFirst(k)' /\ Behind(k)' /\ FetchedNewest(k)'
      BY <1>8, <2>1, <2>2, <2>4, <2>5 DEF OnePlayer, SavedFirst, Behind, FetchedNewest
    <2>8. Ascends(k)' /\ MarkedNewest(k)'
      BY <1>7, <1>8, <1>10, <2>4, <2>5 DEF Ascends, MarkedNewest
    <2>9. \A p \in Parts \ unsaved[k] : m.data[p] = newest[k][p] /\ rows[k].data[p] = newest[k][p]
      BY <1>11, <1>12, <2>1, <2>2, <2>3 DEF FetchedNewest, ChangeKept, Saves
    <2>10. ChangeKept(k)'
      BY <1>7, <1>8, <1>10, <2>1, <2>5, <2>9 DEF ChangeKept
    <2> QED BY <2>7, <2>8, <2>10 DEF Kept
  <1> QED BY <1>8, <1>10, <1>15, <1>16 DEF KeptInv

LEMMA KeptWorld == ASSUME StoreIInv, StoreIInv', KeptInv, WorldHandles PROVE KeptInv'
  <1> DEFINE m == Head(toWorld)
             c == m.conn
  <1>1. m \in ToWorld /\ OwnAnswer(m) /\ c \in Conns
    BY AnswerTaken DEF OwnAnswer
  <1>2. CASE m.cmd = "getCharacter" /\ m.char # 0 /\ Open(c)
    <2>1. \E k \in Chars : Fetches(m, k)
      BY <1>1, <1>2 DEF OwnAnswer, Fetches
    <2> QED BY <1>1, <1>2, <2>1, KeptPlayed
  <1>3. ASSUME UNCHANGED <<toMaster, rows, newest, shared>>, Conns' = Conns,
               \A k \in Chars : unsaved[k] \subseteq unsaved'[k],
               \A b \in Conns : b # c => client'[b] = client[b], ContextKept(c)
        PROVE  KeptInv'
    <2>1. /\ Comes(toMaster, toMaster', 0, "dbSync") /\ Comes(toMaster, toMaster', 0, "getCharacter")
          /\ \A k \in Chars : Stays(toMaster, toMaster', 0, k)
      BY <1>3, Counted DEF StoreIInv
    <2>2. Comes(toWorld, toWorld', 1, "getCharacter")
      BY AnswerTaken, QueuePopped, Counted DEF StoreIInv
    <2>3. \A b \in Conns' : ContextKept(b)
      BY <1>3, SameKept
    <2>4. Chars' = Chars
      BY <1>3 DEF Chars
    <2> QED BY <1>3, <2>1, <2>2, <2>3, <2>4, AllKept
  <1>4. ASSUME m.cmd # "getCharacter" \/ ~Open(c)
        PROVE  UNCHANGED <<toMaster, rows, newest, unsaved, shared>>
    BY <1>4 DEF WorldHandles, OnWorldVerifyLinks, AckGetCharacters, AckCreateCharacter,
                AckGetCharacter, AckVerifyPassword, Disconnect, history, db
  <1>5. CASE UNCHANGED client /\ (m.cmd # "getCharacter" \/ ~Open(c))
    <2>1. Conns' = Conns /\ \A b \in Conns : client'[b] = client[b]
      BY <1>5 DEF Conns
    <2>2. ContextKept(c)
      BY <1>1, <2>1, SameKept
    <2> QED BY <1>3, <1>4, <1>5, <2>1, <2>2
  <1>6. ASSUME NEW r, client' = [client EXCEPT ![c] = r],
               m.cmd # "getCharacter" \/ ~Open(c),
               r.char = client[c].char /\ r.has = client[c].has /\ r.mask = client[c].mask
        PROVE  KeptInv'
    <2>1. Conns' = Conns /\ client'[c] = r /\ \A b \in Conns : b # c => client'[b] = client[b]
      BY <1>1, <1>6 DEF Conns, StoreIInv, TypeOK
    <2>2. ASSUME NEW d \in Conns, d = c PROVE ContextKept(d)
      BY <1>6, <2>1, <2>2 DEF ContextKept
    <2> QED BY <1>1, <1>3, <1>4, <1>6, <2>1, <2>2
  <1>7. CASE m.cmd = "verifyLinks" /\ OnWorldVerifyLinks(m)
    <2> DEFINE r == [client[c] EXCEPT !.acct = m.acct, !.set = m.row.set, !.until = m.row.until]
    <2>1. client[c] \in Clients
      BY <1>1, ContextIs
    <2>2. r.char = client[c].char /\ r.has = client[c].has /\ r.mask = client[c].mask
      <3> HIDE DEF m
      <3> QED BY <2>1 DEF Clients
    <2>3. UNCHANGED client \/ client' = [client EXCEPT ![c] = r]
      BY <1>7 DEF OnWorldVerifyLinks
    <2> HIDE DEF r
    <2> QED BY <1>5, <1>6, <1>7, <2>2, <2>3
  <1>8. CASE ~Open(c) /\ m.cmd \in Requests
    <2>1. UNCHANGED client
      BY <1>8 DEF WorldHandles, AckGetCharacters, AckCreateCharacter, AckGetCharacter,
                  AckVerifyPassword, Disconnect, Requests
    <2> QED BY <1>5, <1>8, <2>1
  <1>9. CASE m.cmd = "getCharacter" /\ m.char = 0 /\ Open(c)
    <2> DEFINE r == [NewClient EXCEPT !.open = FALSE]
    <2>1. /\ client' = [client EXCEPT ![c] = r] /\ LetGo(c)
          /\ UNCHANGED <<toMaster, rows, newest, shared>>
      BY <1>9 DEF WorldHandles, AckGetCharacter, db
    <2>2. r.char = 0
      BY DEF NewClient
    <2> HIDE DEF r
    <2>3. Conns' = Conns /\ client'[c] = r /\ \A b \in Conns : b # c => client'[b] = client[b]
      BY <1>1, <2>1 DEF Conns, StoreIInv, TypeOK
    <2>4. client[c].char # 0 => client[c].char \in Chars
      BY <1>1, ContextIs
    <2> HIDE DEF m, c
    <2>5. \A k \in Chars : /\ unsaved[k] \subseteq unsaved'[k]
                           /\ client[c].char = k => client[c].mask \subseteq unsaved'[k]
      BY <1>1, <2>1, LetGoLeaves
    <2>6. ASSUME NEW d \in Conns, d = c PROVE ContextKept(d)
      BY <2>2, <2>3, <2>4, <2>5, <2>6 DEF ContextKept
    <2> QED BY <1>1, <1>3, <2>1, <2>3, <2>5, <2>6
  <1>10. CASE m.cmd \in Requests \ {"getCharacter"} /\ Open(c)
    <2> DEFINE r0 == Answered(m)
    <2>1. client[c] \in Clients
      BY <1>1, ContextIs
    <2>2. /\ r0 \in Clients /\ r0.char = client[c].char
          /\ r0.has = client[c].has /\ r0.mask = client[c].mask
      <3> HIDE DEF m
      <3> QED BY <2>1 DEF Clients, Answered
    <2>3. CASE UNCHANGED client \/ client' = [client EXCEPT ![c] = r0]
      <3> HIDE DEF m, r0
      <3> QED BY <1>5, <1>6, <1>10, <2>2, <2>3
    <2>4. CASE m.cmd = "getCharacters" /\ AckGetCharacters(m)
      <3> DEFINE r == [r0 EXCEPT !.index = m.index, !.untold = @ \ Range(m.index)]
      <3>1. client' = [client EXCEPT ![c] = r]
        BY <1>10, <2>4 DEF AckGetCharacters
      <3> HIDE DEF m, r0
      <3>2. r.char = r0.char /\ r.has = r0.has /\ r.mask = r0.mask
        BY <2>2 DEF Clients
      <3> HIDE DEF r
      <3> QED BY <1>6, <1>10, <2>2, <3>1, <3>2
    <2>5. CASE m.cmd = "createCharacter" /\ AckCreateCharacter(m)
      <3> DEFINE x == [client[c].index EXCEPT ![m.slot] = m.char]
                 r == [r0 EXCEPT !.index = x]
      <3>1. r0.index = client[c].index
        BY <2>1 DEF Clients, Answered
      <3>2. UNCHANGED client \/ client' = [client EXCEPT ![c] = r0] \/ client' = [client EXCEPT ![c] = r]
        BY <1>10, <2>5, <3>1 DEF AckCreateCharacter
      <3> HIDE DEF m, r0, x
      <3>3. r.char = r0.char /\ r.has = r0.has /\ r.mask = r0.mask
        BY <2>2 DEF Clients
      <3> HIDE DEF r
      <3>4. CASE client' = [client EXCEPT ![c] = r]
        BY <1>6, <1>10, <2>2, <3>3, <3>4
      <3> QED BY <2>3, <3>2, <3>4
    <2>6. CASE m.cmd = "verifyPassword" /\ AckVerifyPassword(m)
      BY <1>10, <2>3, <2>6 DEF AckVerifyPassword
    <2> QED BY <1>10, <2>4, <2>5, <2>6 DEF WorldHandles, Requests
  <1> QED BY <1>2, <1>7, <1>8, <1>9, <1>10 DEF WorldHandles, Requests

LEMMA KeptInit == ASSUME Init PROVE KeptInv
  <1>1. /\ Conns = {} /\ Range(toMaster) = {} /\ Range(toWorld) = {}
        /\ DOMAIN toMaster = {} /\ DOMAIN toWorld = {}
    BY DEF Init, Conns, Range
  <1>2. StoreIInv
    BY StoreInit
  <1>3. \A k \in Chars : \A p \in Parts : rows[k].data[p] = newest[k][p] /\ newest[k][p] \in Nat
    <2>1. \A k \in Chars : newest[k] = rows[k].data
      BY DEF Init, Chars
    <2>2. \A k \in Chars : newest[k] \in Versions
      BY <1>2, Known DEF StoreIInv
    <2> QED BY <2>1, <2>2, StoreAssumption DEF Versions
  <1>4. ASSUME NEW k \in Chars PROVE Kept(k)
    BY <1>1, <1>3 DEF Kept, ChangeKept, OnePlayer, SavedFirst, Behind, Ascends, MarkedNewest,
                      FetchedNewest
  <1> QED BY <1>1, <1>4 DEF KeptInv

LEMMA KeptNext == ASSUME StoreIInv, KeptInv, [Next]_vars PROVE KeptInv'
  <1>1. StoreIInv'
    BY StoreNext
  <1>2. CASE Links
    BY <1>1, <1>2, KeptBreak, KeptComings DEF Links, BreakLink, Sweep
  <1>3. CASE Comings
    BY <1>1, <1>3, KeptComings
  <1>4. CASE Index
    BY <1>1, <1>4, KeptRequest, KeptInitialize DEF Index
  <1>5. CASE Subpassword
    BY <1>1, <1>5, KeptSubpassword
  <1>6. CASE Playing
    <2>1. ASSUME NEW c \in Conns, SyncDB(c) PROVE KeptInv'
      <3>1. client[c].char \in Chars
        BY <2>1, ContextIs DEF SyncDB, Proper
      <3> QED BY <1>1, <2>1, <3>1, KeptSync
    <2>2. ASSUME NEW c \in Conns, NEW p \in Parts, Play(c, p) PROVE KeptInv'
      <3>1. client[c].char \in Chars
        BY <2>2, ContextIs DEF Play
      <3> QED BY <1>1, <2>2, <3>1, KeptPlay
    <2> QED BY <1>6, <2>1, <2>2 DEF Playing
  <1>7. CASE Handling
    BY <1>1, <1>7, KeptMaster, KeptWorld, KeptVerdict DEF Handling
  <1>8. CASE UNCHANGED vars
    <2>1. UNCHANGED <<client, rows, newest, unsaved, shared, toMaster, toWorld>>
      BY <1>8 DEF vars, db, history
    <2>2. Comes(toWorld, toWorld', 0, "getCharacter")
      BY <2>1, Counted DEF StoreIInv
    <2> QED BY <1>1, <2>1, <2>2, KeptAside
  <1> QED BY <1>2, <1>3, <1>4, <1>5, <1>6, <1>7, <1>8 DEF Next

\* No change of a character gets lost, for any number of parts, characters,
\* connections, INITIALIZEs in flight, breaks of the link and failed statements,
\* unless the code lets it go (unsaved: also when the answer to a second
\* INITIALIZE replaces the record a client plays) or the character had several
\* records at a time (shared).
THEOREM ChangesKept == Spec => []LastChangeKept
  <1>1. Init => StoreIInv /\ KeptInv
    BY StoreInit, KeptInit
  <1>2. StoreIInv /\ KeptInv /\ [Next]_vars => StoreIInv' /\ KeptInv'
    BY StoreNext, KeptNext
  <1>3. KeptInv => LastChangeKept
    BY DEF KeptInv, Kept, LastChangeKept
  <1> QED BY <1>1, <1>2, <1>3, PTL DEF Spec

-----------------------------------------------------------------------------
(* The sub-password: what a step leaves as it is.                          *)

\* The updates of one account in s are still in t.
Waits(s, t, d, a) ==
    \A i \in DOMAIN s : Updates(s[i], a) => i - d \in DOMAIN t /\ t[i - d] = s[i]

LEMMA UpdatesSame ==
    ASSUME NEW S, NEW s \in Seq(S)
    PROVE  \A a : Waits(s, s, 0, a)
  <1>1. \A i \in DOMAIN s : i \in Nat
    OBVIOUS
  <1> QED BY <1>1 DEF Waits

LEMMA UpdatesAppended ==
    ASSUME NEW S, NEW s \in Seq(S), NEW m \in S
    PROVE  \A a : Waits(s, Append(s, m), 0, a)
  <1> DEFINE t == Append(s, m)
  <1>1. DOMAIN t = DOMAIN s \cup {Len(s) + 1} /\ \A i \in DOMAIN s : t[i] = s[i]
    BY Appended
  <1>2. \A i \in DOMAIN s : i \in Nat
    OBVIOUS
  <1> HIDE DEF t
  <1>3. \A a : Waits(s, t, 0, a)
    BY <1>1, <1>2 DEF Waits
  <1> QED BY <1>3 DEF t

LEMMA UpdatesPopped ==
    ASSUME NEW S, NEW s \in Seq(S), s # <<>>
    PROVE  \A a : ~Updates(Head(s), a) => Waits(s, Tail(s), 1, a)
  <1> DEFINE t == Tail(s)
  <1>1. /\ Head(s) = s[1]
        /\ \A i \in DOMAIN t : i \in Nat \ {0} /\ i + 1 \in DOMAIN s /\ t[i] = s[i + 1]
        /\ \A i \in DOMAIN s : i # 1 => i - 1 \in DOMAIN t
    BY Popped
  <1>2. \A i \in DOMAIN s : i \in Nat /\ i - 1 + 1 = i
    OBVIOUS
  <1> HIDE DEF t
  <1>3. \A a : ~Updates(Head(s), a) => Waits(s, t, 1, a)
    BY <1>1, <1>2 DEF Waits
  <1> QED BY <1>3 DEF t

AccountKept(a) == CopyAgrees(a) /\ OneHolder(a) /\ LastUpdate(a)

\* What becomes of one account in a step that does nothing for it.
LEMMA OtherAccount ==
    ASSUME StoreIInv, StoreIInv', NEW a \in Accounts, AccountKept(a),
           NEW d \in {0, 1}, NEW e \in {0, 1},
           \A j \in DOMAIN toMaster' : Updates(toMaster'[j], a) =>
              j + d \in DOMAIN toMaster /\ toMaster[j + d] = toMaster'[j],
           Waits(toMaster, toMaster', d, a),
           \A j \in DOMAIN toWorld' : Hands(toWorld'[j], a) =>
              j + e \in DOMAIN toWorld /\ toWorld[j + e] = toWorld'[j],
           account'[a].set = account[a].set,
           \A c \in Conns' : client'[c].acct = a =>
              c \in Conns /\ client[c].acct = a /\ client'[c].set = client[c].set
    PROVE  AccountKept(a)'
  <1>1. /\ \A i \in DOMAIN toMaster \cup DOMAIN toWorld : i \in Nat
        /\ \A i \in DOMAIN toMaster' \cup DOMAIN toWorld' : i \in Nat
    <2>1. TypeOK /\ TypeOK'
      BY DEF StoreIInv
    <2>2. /\ toMaster' \in Seq(ToMaster) /\ toWorld' \in Seq(ToWorld)
          /\ toMaster \in Seq(ToMaster) /\ toWorld \in Seq(ToWorld)
      BY <2>1 DEF TypeOK
    <2> QED BY <2>2
  <1>2. UpdateUnderWay(a)' <=> UpdateUnderWay(a)
    <2>1. UpdateUnderWay(a) <=> \E i \in DOMAIN toMaster : Updates(toMaster[i], a)
      BY DEF UpdateUnderWay, Updates, Range
    <2>2. UpdateUnderWay(a)' <=> \E i \in DOMAIN toMaster' : Updates(toMaster'[i], a)
      BY DEF UpdateUnderWay, Updates, Range
    <2>3. \A i \in DOMAIN toMaster : Updates(toMaster[i], a) => Updates(toMaster'[i - d], a)
      BY DEF Waits
    <2> QED BY <2>1, <2>2, <2>3 DEF Waits
  <1>3. CopyAgrees(a)'
    BY <1>2 DEF AccountKept, CopyAgrees
  <1>4. OneHolder(a)'
    <2>1. \A b, c \in Conns' : client'[b].acct = a /\ client'[c].acct = a => b = c
      BY DEF AccountKept, OneHolder
    <2>2. ASSUME NEW i \in DOMAIN toWorld', Hands(toWorld'[i], a)
          PROVE  /\ \A c \in Conns' : client'[c].acct # a
                 /\ ~UpdateUnderWay(a)' /\ toWorld'[i].row.set = account'[a].set
                 /\ \A j \in DOMAIN toWorld' : Hands(toWorld'[j], a) => i = j
      <3>1. i + e \in DOMAIN toWorld /\ toWorld[i + e] = toWorld'[i]
        BY <2>2
      <3>2. /\ \A c \in Conns : client[c].acct # a
            /\ ~UpdateUnderWay(a) /\ toWorld[i + e].row.set = account[a].set
            /\ \A j \in DOMAIN toWorld : Hands(toWorld[j], a) => i + e = j
        BY <2>2, <3>1 DEF AccountKept, OneHolder
      <3>3. ASSUME NEW j \in DOMAIN toWorld', Hands(toWorld'[j], a) PROVE i = j
        <4>1. i + e = j + e
          BY <3>2, <3>3
        <4> QED BY <1>1, <4>1
      <3> QED BY <1>2, <3>1, <3>2, <3>3
    <2> QED BY <2>1, <2>2 DEF OneHolder
  <1>5. LastUpdate(a)'
    <2> SUFFICES ASSUME NEW c \in Conns', client'[c].acct = a, NEW i \in DOMAIN toMaster',
                        Updates(toMaster'[i], a),
                        \A j \in DOMAIN toMaster' : Updates(toMaster'[j], a) => j <= i
                 PROVE  toMaster'[i].set = client'[c].set
      BY DEF LastUpdate
    <2>1. i + d \in DOMAIN toMaster /\ toMaster[i + d] = toMaster'[i]
      OBVIOUS
    <2>2. ASSUME NEW j \in DOMAIN toMaster, Updates(toMaster[j], a) PROVE j <= i + d
      <3>1. j - d \in DOMAIN toMaster' /\ Updates(toMaster'[j - d], a)
        BY <2>2 DEF Waits
      <3> QED BY <1>1, <3>1
    <2>3. toMaster[i + d].set = client[c].set
      BY <2>1, <2>2 DEF AccountKept, LastUpdate
    <2> QED BY <2>1, <2>3
  <1> QED BY <1>3, <1>4, <1>5 DEF AccountKept

\* A step that leaves what the sub-password is decided from as it is.
LEMMA AllAccounts ==
    ASSUME StoreIInv, StoreIInv', SubpasswordInv, NEW d \in {0, 1}, NEW e \in {0, 1},
           Comes(toMaster, toMaster', d, "updateSubpassword"),
           \A a \in Accounts : Waits(toMaster, toMaster', d, a),
           Comes(toWorld, toWorld', e, "verifyLinks"),
           raced \subseteq raced', \A a \in Accounts : account'[a].set = account[a].set,
           \A c \in Conns' : \/ /\ c \in Conns /\ client'[c].acct = client[c].acct
                                /\ client'[c].set = client[c].set
                             \/ client'[c].acct = NoAccount
    PROVE  SubpasswordInv'
  <1> SUFFICES ASSUME NEW a \in Accounts \ raced' PROVE AccountKept(a)'
    BY DEF SubpasswordInv, AccountKept
  <1>1. AccountKept(a)
    BY DEF SubpasswordInv, AccountKept
  <1>2. \A j \in DOMAIN toMaster' : Updates(toMaster'[j], a) =>
              j + d \in DOMAIN toMaster /\ toMaster[j + d] = toMaster'[j]
    BY DEF Comes, Updates
  <1>3. \A j \in DOMAIN toWorld' : Hands(toWorld'[j], a) =>
              j + e \in DOMAIN toWorld /\ toWorld[j + e] = toWorld'[j]
    BY DEF Comes, Hands
  <1>4. \A c \in Conns' : client'[c].acct = a =>
              c \in Conns /\ client[c].acct = a /\ client'[c].set = client[c].set
    BY StoreAssumption
  <1> QED BY <1>1, <1>2, <1>3, <1>4, OtherAccount

\* Nothing about a sub-password is sent, taken or handed over.
LEMMA AccountsAside ==
    ASSUME StoreIInv, StoreIInv', SubpasswordInv,
           \/ toMaster' = toMaster
           \/ \E m \in ToMaster : m.cmd # "updateSubpassword" /\ toMaster' = Append(toMaster, m)
           \/ toMaster # <<>> /\ toMaster' = Tail(toMaster) /\ Head(toMaster).cmd # "updateSubpassword",
           \/ toWorld' = toWorld
           \/ \E a \in ToWorld : a.cmd # "verifyLinks" /\ Answer(a)
           \/ toWorld # <<>> /\ toWorld' = Tail(toWorld),
           raced' = raced, \A a \in Accounts : account'[a].set = account[a].set,
           \A c \in Conns' : \/ /\ c \in Conns /\ client'[c].acct = client[c].acct
                                /\ client'[c].set = client[c].set
                             \/ client'[c].acct = NoAccount
    PROVE  SubpasswordInv'
  <1>1. toMaster \in Seq(ToMaster) /\ toWorld \in Seq(ToWorld)
    BY DEF StoreIInv, TypeOK
  <1>2. PICK d \in {0, 1} : /\ Comes(toMaster, toMaster', d, "updateSubpassword")
                            /\ \A a \in Accounts : Waits(toMaster, toMaster', d, a)
    <2>1. CASE toMaster' = toMaster
      BY <1>1, <2>1, QueueSame, UpdatesSame
    <2>2. CASE \E m \in ToMaster : m.cmd # "updateSubpassword" /\ toMaster' = Append(toMaster, m)
      <3>1. PICK m \in ToMaster : m.cmd # "updateSubpassword" /\ toMaster' = Append(toMaster, m)
        BY <2>2
      <3>2. /\ Comes(toMaster, Append(toMaster, m), 0, "updateSubpassword")
            /\ \A a \in Accounts : Waits(toMaster, Append(toMaster, m), 0, a)
        BY <1>1, <3>1, QueueAppended, UpdatesAppended
      <3> QED BY <3>1, <3>2
    <2>3. CASE toMaster # <<>> /\ toMaster' = Tail(toMaster) /\ Head(toMaster).cmd # "updateSubpassword"
      <3>1. /\ Comes(toMaster, Tail(toMaster), 1, "updateSubpassword")
            /\ \A a \in Accounts : Waits(toMaster, Tail(toMaster), 1, a)
        BY <1>1, <2>3, QueuePopped, UpdatesPopped DEF Updates
      <3> QED BY <2>3, <3>1
    <2> QED BY <2>1, <2>2, <2>3
  <1>3. PICK e \in {0, 1} : Comes(toWorld, toWorld', e, "verifyLinks")
    <2>1. CASE toWorld' = toWorld
      BY <1>1, <2>1, QueueSame
    <2>2. CASE \E a \in ToWorld : a.cmd # "verifyLinks" /\ Answer(a)
      <3>1. PICK a \in ToWorld : a.cmd # "verifyLinks" /\ toWorld' = Append(toWorld, a)
        BY <2>2 DEF Answer
      <3>2. Comes(toWorld, Append(toWorld, a), 0, "verifyLinks")
        BY <1>1, <3>1, QueueAppended
      <3> QED BY <3>1, <3>2
    <2>3. CASE toWorld # <<>> /\ toWorld' = Tail(toWorld)
      <3>1. Comes(toWorld, Tail(toWorld), 1, "verifyLinks")
        BY <1>1, <2>3, QueuePopped
      <3> QED BY <2>3, <3>1
    <2> QED BY <2>1, <2>2, <2>3
  <1> QED BY <1>2, <1>3, AllAccounts

LEMMA AccountsBreak == ASSUME StoreIInv, StoreIInv', SubpasswordInv, Break PROVE SubpasswordInv'
  <1>1. /\ toMaster' = <<>> /\ toWorld' = <<>> /\ UNCHANGED account
        /\ raced' = raced \cup {a \in Accounts : UpdateUnderWay(a)}
    BY DEF Break, db
  <1>2. Conns' = Conns /\ \A c \in Conns : SameBut(c)
    BY BreakKept DEF StoreIInv
  <1>3. \A c \in Conns : client'[c].acct = client[c].acct /\ client'[c].set = client[c].set
    BY <1>2 DEF SameBut
  <1> SUFFICES ASSUME NEW a \in Accounts \ raced' PROVE AccountKept(a)'
    BY DEF SubpasswordInv, AccountKept
  <1>4. AccountKept(a) /\ ~UpdateUnderWay(a)
    BY <1>1 DEF SubpasswordInv, AccountKept
  <1>5. \A i \in DOMAIN toMaster \cup DOMAIN toWorld : i \in Nat /\ i + 0 = i /\ i - 0 = i
    BY Counted DEF StoreIInv
  <1>6. Waits(toMaster, toMaster', 0, a)
    BY <1>4 DEF Waits, UpdateUnderWay, Updates, Range
  <1>7. DOMAIN toMaster' = {} /\ DOMAIN toWorld' = {}
    BY <1>1
  <1>8. \A c \in Conns' : client'[c].acct = a =>
           c \in Conns /\ client[c].acct = a /\ client'[c].set = client[c].set
    BY <1>2, <1>3
  <1> QED BY <1>1, <1>4, <1>6, <1>7, <1>8, OtherAccount

\* MasterSvr hands a client over with a copy of the account.
LEMMA AccountsHanded ==
    ASSUME StoreIInv, StoreIInv', SubpasswordInv, NEW c \in Conns, NEW b \in Accounts,
           OnAuthVerifyLinks(c, b)
    PROVE  SubpasswordInv'
  <1> DEFINE m == [cmd |-> "verifyLinks", conn |-> c, acct |-> b, row |-> account[b]]
             n == Len(toWorld) + 1
  <1>1. UNCHANGED <<client, toMaster, account>> /\ toWorld' = Append(toWorld, m) /\ Conns' = Conns
    BY DEF OnAuthVerifyLinks, db, Answer, Conns
  <1>2. m \in ToWorld /\ m.cmd = "verifyLinks" /\ m.acct = b /\ m.row = account[b]
    BY Known, AnswerPackets DEF StoreIInv, TypeOK
  <1>3. /\ raced \subseteq raced'
        /\ b \notin raced' =>
              /\ ~UpdateUnderWay(b)
              /\ \A d \in Conns : ~(Open(d) /\ client[d].acct = b)
              /\ \A x \in Range(toWorld) : ~Hands(x, b)
    BY DEF OnAuthVerifyLinks, Hands
  <1> HIDE DEF m
  <1>4. /\ DOMAIN toWorld' = DOMAIN toWorld \cup {n} /\ toWorld'[n] = m
        /\ \A i \in DOMAIN toWorld : toWorld'[i] = toWorld[i]
        /\ n \in Nat /\ \A i \in DOMAIN toWorld : i \in Nat /\ i + 0 = i
    <2>1. toWorld \in Seq(ToWorld)
      BY Counted DEF StoreIInv
    <2> QED BY <1>1, <1>2, <2>1, Appended
  <1> HIDE DEF n
  <1>5. /\ \A i \in DOMAIN toMaster : i \in Nat /\ i + 0 = i
        /\ \A a : Waits(toMaster, toMaster, 0, a)
    <2>1. toMaster \in Seq(ToMaster)
      BY Counted DEF StoreIInv
    <2> QED BY <2>1, Counted, UpdatesSame DEF StoreIInv
  <1>6. ASSUME NEW a \in Accounts \ raced', a # b PROVE AccountKept(a)'
    <2>1. AccountKept(a)
      BY <1>3 DEF SubpasswordInv, AccountKept
    <2>2. \A j \in DOMAIN toWorld' : Hands(toWorld'[j], a) =>
              j + 0 \in DOMAIN toWorld /\ toWorld[j + 0] = toWorld'[j]
      BY <1>2, <1>4, <1>6 DEF Hands
    <2>3. \A j \in DOMAIN toMaster' : j + 0 \in DOMAIN toMaster /\ toMaster[j + 0] = toMaster'[j]
      BY <1>1, <1>5
    <2>4. Waits(toMaster, toMaster', 0, a)
      BY <1>1, <1>5
    <2>5. \A d \in Conns' : client'[d].acct = a =>
             d \in Conns /\ client[d].acct = a /\ client'[d].set = client[d].set
      BY <1>1
    <2> QED BY <1>1, <2>1, <2>2, <2>3, <2>4, <2>5, OtherAccount
  <1>7. ASSUME b \notin raced' PROVE AccountKept(b)'
    <2>1. ~UpdateUnderWay(b)' /\ \A i \in DOMAIN toMaster' : ~Updates(toMaster'[i], b)
      BY <1>1, <1>3, <1>7 DEF UpdateUnderWay, Updates, Range
    <2>2. \A d \in Conns' : client'[d].acct # b
      <3>1. \A d \in Conns : ~Open(d) => client[d].acct = NoAccount
        BY ContextIs DEF Proper
      <3> QED BY <1>1, <1>3, <1>7, <3>1, StoreAssumption
    <2>3. \A i \in DOMAIN toWorld' : Hands(toWorld'[i], b) => i = n
      BY <1>3, <1>4, <1>7 DEF Range
    <2>4. CopyAgrees(b)' /\ LastUpdate(b)'
      BY <2>2 DEF CopyAgrees, LastUpdate
    <2>5. OneHolder(b)'
      BY <1>1, <1>2, <1>4, <2>1, <2>2, <2>3 DEF OneHolder
    <2> QED BY <2>4, <2>5 DEF AccountKept
  <1>8. \A a \in Accounts \ raced' : AccountKept(a)'
    BY <1>6, <1>7
  <1> QED BY <1>8 DEF SubpasswordInv, AccountKept

LEMMA AccountsComings ==
    ASSUME StoreIInv, StoreIInv', SubpasswordInv, Comings \/ Reconnect
    PROVE  SubpasswordInv'
  <1>1. CASE TimePasses \/ Reconnect
    <2>1. UNCHANGED <<client, toMaster, toWorld, account, raced>> /\ Conns' = Conns
      BY <1>1 DEF TimePasses, Reconnect, db, history, Conns
    <2> QED BY <2>1, AccountsAside
  <1>2. CASE OnConnect
    <2>1. UNCHANGED <<toMaster, toWorld, account, raced>> /\ client' = Append(client, NewClient)
      BY <1>2 DEF OnConnect, db, history
    <2>2. client \in Seq(Clients)
      BY DEF StoreIInv, TypeOK
    <2>3. \A c \in Conns' : \/ c \in Conns /\ client'[c] = client[c]
                            \/ client'[c] = NewClient
      BY <2>1, <2>2 DEF Conns
    <2>4. NewClient.acct = NoAccount
      BY DEF NewClient
    <2> QED BY <2>1, <2>3, <2>4, AccountsAside
  <1>3. ASSUME NEW c \in Conns, Leave(c) PROVE SubpasswordInv'
    <2> DEFINE r == [NewClient EXCEPT !.open = FALSE]
    <2>1. UNCHANGED <<toMaster, toWorld, account, raced>> /\ client' = [client EXCEPT ![c] = r]
      BY <1>3 DEF Leave, db
    <2>2. r.acct = NoAccount
      BY DEF NewClient
    <2> HIDE DEF r
    <2>3. \A b \in Conns' : \/ b \in Conns /\ client'[b] = client[b]
                            \/ client'[b] = r
      BY <2>1 DEF Conns, StoreIInv, TypeOK
    <2> QED BY <2>1, <2>2, <2>3, AccountsAside
  <1> QED BY <1>1, <1>2, <1>3, AccountsHanded DEF Comings

-----------------------------------------------------------------------------
(* The sub-password: what clients and servers do.                          *)

LEMMA AccountsContext ==
    ASSUME StoreIInv, StoreIInv', SubpasswordInv, NEW c \in Conns, NEW r,
           client' = [client EXCEPT ![c] = r],
           r.acct = NoAccount \/ (r.acct = client[c].acct /\ r.set = client[c].set),
           \/ toMaster' = toMaster
           \/ \E m \in ToMaster : m.cmd # "updateSubpassword" /\ toMaster' = Append(toMaster, m)
           \/ toMaster # <<>> /\ toMaster' = Tail(toMaster) /\ Head(toMaster).cmd # "updateSubpassword",
           \/ toWorld' = toWorld
           \/ \E a \in ToWorld : a.cmd # "verifyLinks" /\ Answer(a)
           \/ toWorld # <<>> /\ toWorld' = Tail(toWorld),
           UNCHANGED <<account, raced>>
    PROVE  SubpasswordInv'
  <1>1. \A b \in Conns' : b \in Conns /\ client'[b] = IF b = c THEN r ELSE client[b]
    BY DEF Conns, StoreIInv, TypeOK
  <1>2. \A b \in Conns' : \/ /\ b \in Conns /\ client'[b].acct = client[b].acct
                             /\ client'[b].set = client[b].set
                          \/ client'[b].acct = NoAccount
    BY <1>1
  <1> QED BY <1>2, AccountsAside

LEMMA AccountsIndex == ASSUME StoreIInv, StoreIInv', SubpasswordInv, Index PROVE SubpasswordInv'
  <1>1. PICK c \in Conns : \/ GetCharacters(c) \/ VerifyCredentials(c)
                           \/ \E s \in Slots \cup Beyond : CreateCharacter(c, s)
                           \/ \E k \in Chars : Initialize(c, k)
    BY DEF Index
  <1>2. /\ c \in ConnIDs /\ (Loaded(c) => client[c].acct \in Accounts)
        /\ client[c].acct # NoAccount => client[c].acct \in Accounts
    BY ContextIs
  <1>3. Chars \subseteq Nat
    BY Known DEF StoreIInv
  <1>4. \E m \in ToMaster : m.cmd \in Requests /\ Request(c, m)
    <2>1. CASE GetCharacters(c)
      BY <1>2, <2>1, RequestPackets DEF GetCharacters, Requests
    <2>2. CASE VerifyCredentials(c)
      BY <1>2, <2>2, RequestPackets DEF VerifyCredentials, Requests
    <2>3. ASSUME NEW s \in Slots \cup Beyond, CreateCharacter(c, s) PROVE <1>4
      BY <1>2, <2>3, RequestPackets DEF CreateCharacter, Requests
    <2>4. ASSUME NEW k \in Chars, Initialize(c, k) PROVE <1>4
      BY <1>2, <1>3, <2>4, RequestPackets DEF Initialize, Requests
    <2> QED BY <1>1, <2>1, <2>2, <2>3, <2>4
  <1>5. PICK m \in ToMaster : m.cmd \in Requests /\ Request(c, m)
    BY <1>4
  <1>6. PICK r \in Clients : /\ client' = [client EXCEPT ![c] = r]
                             /\ r.acct = client[c].acct /\ r.set = client[c].set
    BY <1>5, RequestStep
  <1>7. /\ toMaster' = toMaster \/ toMaster' = Append(toMaster, m)
        /\ UNCHANGED <<toWorld, account, raced>>
    BY <1>5 DEF Request, Send, db
  <1>8. m.cmd # "updateSubpassword"
    BY <1>5 DEF Requests
  <1> QED BY <1>6, <1>7, <1>8, AccountsContext

LEMMA AccountsPlaying == ASSUME StoreIInv, StoreIInv', SubpasswordInv, Playing PROVE SubpasswordInv'
  <1>1. ASSUME NEW c \in Conns, NEW p \in Parts, Play(c, p) PROVE SubpasswordInv'
    <2> DEFINE r == [client[c] EXCEPT !.has[p] = newest[client[c].char][p] + 1, !.mask = @ \cup {p}]
    <2>1. client' = [client EXCEPT ![c] = r] /\ UNCHANGED <<toMaster, toWorld, account, raced>>
      BY <1>1 DEF Play, db
    <2>2. client[c] \in Clients
      BY ContextIs
    <2>3. r.acct = client[c].acct /\ r.set = client[c].set
      BY <2>2 DEF Clients
    <2> HIDE DEF r
    <2> QED BY <2>1, <2>3, AccountsContext
  <1>2. ASSUME NEW c \in Conns, SyncDB(c) PROVE SubpasswordInv'
    <2> DEFINE r == [client[c] EXCEPT !.mask = {}]
               m == [cmd |-> "dbSync", char |-> client[c].char, data |-> Marked(c)]
    <2>1. /\ client' = [client EXCEPT ![c] = r] /\ UNCHANGED <<toWorld, account, raced>>
          /\ toMaster' = toMaster \/ toMaster' = Append(toMaster, m)
      BY <1>2 DEF SyncDB, Send, db
    <2>2. client[c] \in Clients /\ client[c].mask # {} /\ Proper(c)
      BY <1>2, ContextIs DEF SyncDB
    <2>3. r.acct = client[c].acct /\ r.set = client[c].set
      BY <2>2 DEF Clients
    <2>4. client[c].has \in Versions /\ client[c].mask \subseteq Parts /\ client[c].char \in Nat
      BY <2>2 DEF Clients, Proper, Versions
    <2>5. m \in ToMaster /\ m.cmd # "updateSubpassword"
      <3>1. Marked(c) \in Pieces
        BY <2>4 DEF Marked, Pieces, Versions
      <3> QED BY <2>4, <3>1, RequestPackets
    <2> HIDE DEF r, m
    <2> QED BY <2>1, <2>3, <2>5, AccountsContext
  <1> QED BY <1>1, <1>2 DEF Playing

\* A client decides that its sub-password is set, or not, and says so.
LEMMA AccountsSaved ==
    ASSUME StoreIInv, StoreIInv', SubpasswordInv, NEW c \in Conns, NEW b \in Accounts,
           client[c].acct = b, NEW set \in BOOLEAN,
           client' = [client EXCEPT ![c].set = set], SaveSubpassword(c, set),
           UNCHANGED <<toWorld, account>>
    PROVE  SubpasswordInv'
  <1> DEFINE m == [cmd |-> "updateSubpassword", acct |-> b, set |-> set]
             n == Len(toMaster) + 1
             r == [client[c] EXCEPT !.set = set]
  <1>1. client[c] \in Clients
    BY ContextIs
  <1>2. r.acct = b /\ r.set = set
    BY <1>1 DEF Clients
  <1>3. client' = [client EXCEPT ![c] = r]
    OBVIOUS
  <1> HIDE DEF r
  <1>4. Conns' = Conns /\ client'[c] = r /\ \A d \in Conns : d # c => client'[d] = client[d]
    BY <1>3 DEF Conns, StoreIInv, TypeOK
  <1>5. m \in ToMaster /\ m.cmd = "updateSubpassword" /\ m.acct = b /\ m.set = set
    BY RequestPackets
  <1>6. /\ raced \subseteq raced' /\ (link = "down" => b \in raced')
        /\ toMaster' = IF link = "down" THEN toMaster ELSE Append(toMaster, m)
    BY DEF SaveSubpassword, Send
  <1> HIDE DEF m
  <1>7. /\ \A i \in DOMAIN toMaster \cup DOMAIN toWorld : i \in Nat /\ i + 0 = i
        /\ toMaster \in Seq(ToMaster)
    BY Counted DEF StoreIInv
  <1>8. ASSUME NEW a \in Accounts \ raced', a # b PROVE AccountKept(a)'
    <2>1. AccountKept(a)
      BY <1>6 DEF SubpasswordInv, AccountKept
    <2>2. \A j \in DOMAIN toWorld' : j + 0 \in DOMAIN toWorld /\ toWorld[j + 0] = toWorld'[j]
      BY <1>7
    <2>3. /\ \A j \in DOMAIN toMaster' : Updates(toMaster'[j], a) =>
                j + 0 \in DOMAIN toMaster /\ toMaster[j + 0] = toMaster'[j]
          /\ Waits(toMaster, toMaster', 0, a)
      <3>1. CASE toMaster' = toMaster
        BY <1>7, <3>1, UpdatesSame
      <3>2. CASE toMaster' = Append(toMaster, m)
        <4>1. Waits(toMaster, Append(toMaster, m), 0, a)
          BY <1>5, <1>7, UpdatesAppended
        <4> QED BY <1>5, <1>7, <1>8, <3>2, <4>1, OneMore DEF Updates
      <3> QED BY <1>6, <3>1, <3>2
    <2>4. \A d \in Conns' : client'[d].acct = a =>
             d \in Conns /\ client[d].acct = a /\ client'[d].set = client[d].set
      BY <1>2, <1>4, <1>8
    <2> QED BY <2>1, <2>2, <2>3, <2>4, OtherAccount
  <1>9. ASSUME b \notin raced' PROVE AccountKept(b)'
    <2>1. AccountKept(b)
      BY <1>6, <1>9 DEF SubpasswordInv, AccountKept
    <2>2. toMaster' = Append(toMaster, m)
      BY <1>6, <1>9
    <2>3. /\ DOMAIN toMaster' = DOMAIN toMaster \cup {n} /\ toMaster'[n] = m
          /\ \A i \in DOMAIN toMaster : i < n
          /\ Range(toMaster') = Range(toMaster) \cup {m}
      BY <1>5, <2>2, OneMore
    <2>4. n \in Nat /\ \A i \in DOMAIN toMaster : i \in Nat
      BY <1>7
    <2> HIDE DEF n
    <2>5. \A d \in Conns' : client'[d].acct = b => d = c
      BY <1>2, <1>4, <2>1 DEF AccountKept, OneHolder
    <2>6. OneHolder(b)'
      <3>1. \A i \in DOMAIN toWorld : ~Hands(toWorld[i], b)
        BY <2>1 DEF AccountKept, OneHolder
      <3> QED BY <2>5, <3>1 DEF OneHolder
    <2>7. UpdateUnderWay(b)'
      BY <1>5, <2>3 DEF UpdateUnderWay
    <2>8. CopyAgrees(b)'
      BY <2>7 DEF CopyAgrees
    <2>9. LastUpdate(b)'
      <3> SUFFICES ASSUME NEW i \in DOMAIN toMaster', Updates(toMaster'[i], b),
                          \A j \in DOMAIN toMaster' : Updates(toMaster'[j], b) => j <= i
                   PROVE  toMaster'[i].set = client'[c].set
        BY <2>5 DEF LastUpdate
      <3>1. n <= i
        BY <1>5, <2>3 DEF Updates
      <3>2. i = n
        BY <2>3, <2>4, <3>1
      <3> QED BY <1>2, <1>4, <1>5, <2>3, <3>2
    <2> QED BY <2>6, <2>8, <2>9 DEF AccountKept
  <1>10. \A a \in Accounts \ raced' : AccountKept(a)'
    BY <1>8, <1>9
  <1> QED BY <1>10 DEF SubpasswordInv, AccountKept

LEMMA AccountsSubpassword ==
    ASSUME StoreIInv, StoreIInv', SubpasswordInv, Subpassword
    PROVE  SubpasswordInv'
  <1>1. PICK c \in Conns :
           \/ CreateSubpassword(c) \/ VerifyDeleteSubpassword(c) \/ DeleteSubpassword(c)
           \/ \E hours \in {0, 1} : VerifySubpassword(c, hours)
    BY DEF Subpassword
  <1>2. client[c] \in Clients /\ client[c].acct \in Accounts /\ now \in 0 .. MaxNow /\ MaxNow \in Nat
    BY <1>1, ContextIs, StoreAssumption DEF CreateSubpassword, VerifyDeleteSubpassword,
       DeleteSubpassword, VerifySubpassword, Local, StoreIInv, TypeOK
  <1>3. UNCHANGED <<toWorld, account>>
    BY <1>1, SubpasswordStep
  <1>4. ASSUME NEW set \in BOOLEAN, NEW r \in Clients, client' = [client EXCEPT ![c].set = set],
               SaveSubpassword(c, set)
        PROVE  SubpasswordInv'
    BY <1>2, <1>3, <1>4, AccountsSaved
  <1>5. CASE CreateSubpassword(c)
    BY <1>2, <1>4, <1>5 DEF CreateSubpassword
  <1>6. CASE DeleteSubpassword(c)
    BY <1>2, <1>4, <1>6 DEF DeleteSubpassword
  <1>7. CASE VerifyDeleteSubpassword(c)
    <2> DEFINE r == [client[c] EXCEPT !.deletable = TRUE, !.until = IF @ > now THEN @ ELSE now + 1]
    <2>1. client' = [client EXCEPT ![c] = r] /\ UNCHANGED <<toMaster, raced>>
      BY <1>7 DEF VerifyDeleteSubpassword
    <2>2. r.acct = client[c].acct /\ r.set = client[c].set
      BY <1>2 DEF Clients
    <2> HIDE DEF r
    <2> QED BY <1>3, <2>1, <2>2, AccountsContext
  <1>8. ASSUME NEW hours \in {0, 1}, VerifySubpassword(c, hours)
        PROVE  SubpasswordInv'
    <2> DEFINE r == [client[c] EXCEPT !.until = now + hours]
               m == [cmd |-> "updateSession", acct |-> client[c].acct, until |-> now + hours]
    <2>1. /\ client' = [client EXCEPT ![c] = r] /\ UNCHANGED raced
          /\ toMaster' = toMaster \/ toMaster' = Append(toMaster, m)
      BY <1>8 DEF VerifySubpassword, Send
    <2>2. r.acct = client[c].acct /\ r.set = client[c].set
      BY <1>2 DEF Clients
    <2>3. m \in ToMaster /\ m.cmd # "updateSubpassword"
      BY <1>2, RequestPackets
    <2> HIDE DEF r, m
    <2> QED BY <1>3, <2>1, <2>2, <2>3, AccountsContext
  <1> QED BY <1>1, <1>5, <1>6, <1>7, <1>8

\* An update reaches the database.
LEMMA AccountsUpdated ==
    ASSUME StoreIInv, StoreIInv', SubpasswordInv, MasterHandles,
           Head(toMaster).cmd = "updateSubpassword"
    PROVE  SubpasswordInv'
  <1> DEFINE m == Head(toMaster)
             b == m.acct
  <1>1. m \in ToMaster /\ m.cmd = "updateSubpassword" /\ b \in Accounts /\ m.set \in BOOLEAN
    BY RequestTaken, RequestFields
  <1>2. /\ UNCHANGED <<client, toWorld>> /\ Conns' = Conns
        /\ \/ account' = [account EXCEPT ![b].set = m.set] /\ UNCHANGED raced
           \/ UNCHANGED account /\ raced' = raced \cup {b}
    BY <1>1 DEF MasterHandles, OnWorldUpdateAccountSubpasswordData, Conns
  <1>3. /\ 1 \in DOMAIN toMaster /\ toMaster[1] = m
        /\ \A i \in DOMAIN toMaster' : /\ i \in Nat \ {0}
                                       /\ i + 1 \in DOMAIN toMaster /\ toMaster'[i] = toMaster[i + 1]
        /\ \A i \in DOMAIN toMaster : i # 1 =>
              1 < i /\ i - 1 \in DOMAIN toMaster' /\ toMaster'[i - 1] = toMaster[i]
    BY OneLess
  <1>4. \A a : ~Updates(m, a) => Waits(toMaster, toMaster', 1, a)
    BY RequestTaken, UpdatesPopped, Counted DEF StoreIInv
  <1>5. \A i \in DOMAIN toMaster \cup DOMAIN toWorld : i \in Nat /\ i + 0 = i
    BY Counted DEF StoreIInv
  <1>6. account \in [Accounts -> AccountRows]
    BY DEF StoreIInv, TypeOK
  <1>7. /\ raced \subseteq raced'
        /\ \A a \in Accounts : a # b => account'[a].set = account[a].set
        /\ b \notin raced' => account'[b].set = m.set
    BY <1>1, <1>2, <1>6 DEF AccountRows
  <1>8. Updates(m, b) /\ \A a : a # b => ~Updates(m, a)
    BY <1>1 DEF Updates
  <1> HIDE DEF m
  <1>9. ASSUME NEW a \in Accounts \ raced', a # b PROVE AccountKept(a)'
    <2>1. AccountKept(a)
      BY <1>7 DEF SubpasswordInv, AccountKept
    <2>2. /\ \A j \in DOMAIN toWorld' : j + 0 \in DOMAIN toWorld /\ toWorld[j + 0] = toWorld'[j]
          /\ \A j \in DOMAIN toMaster' : j + 1 \in DOMAIN toMaster /\ toMaster[j + 1] = toMaster'[j]
      BY <1>2, <1>3, <1>5
    <2>3. \A c \in Conns' : client'[c].acct = a =>
             c \in Conns /\ client[c].acct = a /\ client'[c].set = client[c].set
      BY <1>2
    <2> QED BY <1>4, <1>7, <1>8, <1>9, <2>1, <2>2, <2>3, OtherAccount
  <1>10. ASSUME NEW a \in Accounts \ raced', a = b PROVE AccountKept(a)'
    <2>1. AccountKept(a) /\ UpdateUnderWay(a)
      BY <1>3, <1>7, <1>8, <1>10 DEF SubpasswordInv, AccountKept, UpdateUnderWay, Updates, Range
    <2>2. OneHolder(a)'
      <3>1. \A i \in DOMAIN toWorld : ~Hands(toWorld[i], a)
        BY <2>1 DEF AccountKept, OneHolder
      <3> QED BY <1>2, <2>1, <3>1 DEF AccountKept, OneHolder
    <2>3. CopyAgrees(a)'
      <3> SUFFICES ASSUME ~UpdateUnderWay(a)', NEW c \in Conns, client[c].acct = a
                   PROVE  client[c].set = m.set
        BY <1>2, <1>7, <1>10 DEF CopyAgrees
      <3>1. \A i \in DOMAIN toMaster' : ~Updates(toMaster'[i], a)
        BY DEF UpdateUnderWay, Updates, Range
      <3>2. \A i \in DOMAIN toMaster : Updates(toMaster[i], a) => i = 1
        BY <1>3, <3>1
      <3>3. \A i \in DOMAIN toMaster : Updates(toMaster[i], a) => i <= 1
        BY <3>2
      <3> QED BY <1>3, <1>8, <1>10, <2>1, <3>3 DEF AccountKept, LastUpdate
    <2>4. LastUpdate(a)'
      <3> SUFFICES ASSUME NEW c \in Conns, client[c].acct = a, NEW i \in DOMAIN toMaster',
                          Updates(toMaster'[i], a),
                          \A j \in DOMAIN toMaster' : Updates(toMaster'[j], a) => j <= i
                   PROVE  toMaster'[i].set = client[c].set
        BY <1>2 DEF LastUpdate
      <3>1. i + 1 \in DOMAIN toMaster /\ toMaster[i + 1] = toMaster'[i] /\ i \in Nat
        BY <1>3
      <3>2. ASSUME NEW j \in DOMAIN toMaster, Updates(toMaster[j], a) PROVE j <= i + 1
        <4>1. CASE j = 1
          BY <3>1, <4>1
        <4>2. CASE j # 1
          <5>1. j - 1 \in DOMAIN toMaster' /\ Updates(toMaster'[j - 1], a) /\ j \in Nat
            BY <1>3, <1>5, <3>2, <4>2
          <5> QED BY <3>1, <5>1
        <4> QED BY <4>1, <4>2
      <3> QED BY <2>1, <3>1, <3>2 DEF AccountKept, LastUpdate
    <2> QED BY <2>2, <2>3, <2>4 DEF AccountKept
  <1>11. \A a \in Accounts \ raced' : AccountKept(a)'
    BY <1>9, <1>10
  <1> QED BY <1>11 DEF SubpasswordInv, AccountKept

LEMMA AccountsMaster ==
    ASSUME StoreIInv, StoreIInv', SubpasswordInv, MasterHandles
    PROVE  SubpasswordInv'
  <1> DEFINE m == Head(toMaster)
  <1>1. m \in ToMaster /\ OwnRequest(m) /\ toMaster # <<>> /\ toMaster' = Tail(toMaster)
    BY RequestTaken
  <1>2. /\ m.cmd \in Requests => m.conn \in ConnIDs /\ m.conn \in Conns
        /\ m.cmd = "getCharacter" => m.char \in Chars
        /\ m.cmd = "createCharacter" => m.slot \in Slots \cup Beyond
        /\ m.cmd = "updateSession" => m.acct \in Accounts /\ m.until \in 0 .. MaxNow + 1
    BY <1>1, RequestFields DEF OwnRequest, Requests
  <1>3. ASSUME m.cmd # "updateSubpassword", NEW r, NEW c,
               UNCHANGED client \/ (c \in Conns /\ client' = [client EXCEPT ![c] = r]
                                       /\ r.acct = client[c].acct /\ r.set = client[c].set),
               toWorld' = toWorld \/ \E a \in ToWorld : a.cmd # "verifyLinks" /\ Answer(a),
               raced' = raced, \A a \in Accounts : account'[a].set = account[a].set
        PROVE  SubpasswordInv'
    <2>1. \A b \in Conns' : /\ b \in Conns /\ client'[b].acct = client[b].acct
                            /\ client'[b].set = client[b].set
      BY <1>3 DEF Conns, StoreIInv, TypeOK
    <2> QED BY <1>1, <1>3, <2>1, AccountsAside
  <1>4. ASSUME m.cmd \in Requests, Missed(m)
        PROVE  \E c \in Conns : \E r : /\ client' = [client EXCEPT ![c] = r]
                                       /\ r.acct = client[c].acct /\ r.set = client[c].set
    <2> DEFINE c == m.conn
               r == [client[c] EXCEPT !.missed = IF Open(c) THEN @ \cup {m.cmd} ELSE @]
    <2>1. client' = [client EXCEPT ![c] = r] /\ c \in Conns
      BY <1>2, <1>4 DEF Missed
    <2>2. client[c] \in Clients
      BY <2>1, ContextIs
    <2>3. r.acct = client[c].acct /\ r.set = client[c].set
      <3> HIDE DEF c, m
      <3> QED BY <2>2 DEF Clients
    <2> HIDE DEF r, c
    <2> QED BY <2>1, <2>3
  <1>5. CASE m.cmd = "getCharacters"
    <2>1. UNCHANGED <<account, raced>>
      BY <1>5 DEF MasterHandles, OnWorldGetCharacters, db, history
    <2> DEFINE a == [cmd |-> m.cmd, conn |-> m.conn, index |-> Characters(m.acct)]
    <2>2. a \in ToWorld /\ a.cmd # "verifyLinks"
      BY <1>2, <1>5, CharactersBacked, AnswerPackets DEF StoreIInv, Requests
    <2>3. \/ Answer(a) /\ UNCHANGED client
          \/ Missed(m) /\ UNCHANGED toWorld
      BY <1>5 DEF MasterHandles, OnWorldGetCharacters
    <2>4. m.cmd \in Requests /\ m.cmd # "updateSubpassword"
      BY <1>5 DEF Requests
    <2> HIDE DEF a, m
    <2> QED BY <1>3, <1>4, <2>1, <2>2, <2>3, <2>4
  <1>6. CASE m.cmd = "verifyPassword"
    <2>1. UNCHANGED <<account, raced, toWorld>> /\ (UNCHANGED client \/ Missed(m))
      BY <1>6 DEF MasterHandles, OnWorldVerifyPassword, db, history
    <2>2. m.cmd \in Requests /\ m.cmd # "updateSubpassword"
      BY <1>6 DEF Requests
    <2> HIDE DEF m
    <2> QED BY <1>3, <1>4, <2>1, <2>2
  <1>7. CASE m.cmd = "createCharacter"
    <2> DEFINE k == Len(rows) + 1
    <2>1. UNCHANGED <<account, raced>> /\ (UNCHANGED client \/ \E told : Untold(m.acct, k, told))
      BY <1>7 DEF MasterHandles, OnWorldCreateCharacter
    <2>2. \E a \in ToWorld : a.cmd # "verifyLinks" /\ Answer(a)
      <3> DEFINE n == Len(rows) + 1
      <3>1. n \in Nat /\ 0 \in Nat
        BY DEF StoreIInv, TypeOK
      <3>2. \E x \in {0, n} : Answer([cmd |-> "createCharacter", conn |-> m.conn, slot |-> m.slot, char |-> x])
        BY <1>7 DEF MasterHandles, OnWorldCreateCharacter
      <3> HIDE DEF n
      <3> QED BY <1>2, <1>7, <3>1, <3>2, AnswerPackets DEF Requests
    <2>3. TypeOK /\ k \in Nat
      BY DEF StoreIInv, TypeOK
    <2>4. /\ toMaster # <<>> /\ toMaster' = Tail(toMaster) /\ Head(toMaster).cmd # "updateSubpassword"
          /\ \A a \in Accounts : account'[a].set = account[a].set
      BY <1>1, <1>7, <2>1
    <2> HIDE DEF m, k
    <2>5. CASE UNCHANGED client
      BY <1>3, <1>7, <2>1, <2>2, <2>5
    <2>6. ASSUME NEW told, Untold(m.acct, k, told) PROVE SubpasswordInv'
      <3>1. Conns' = Conns /\ \A b \in Conns : SameBut(b)
        BY <2>3, <2>6, UntoldKept
      <3>2. \A b \in Conns' : /\ b \in Conns /\ client'[b].acct = client[b].acct
                              /\ client'[b].set = client[b].set
        BY <3>1 DEF SameBut
      <3> QED BY <2>1, <2>2, <2>4, <3>2, AccountsAside
    <2> QED BY <2>1, <2>5, <2>6
  <1>8. CASE m.cmd = "getCharacter"
    <2>1. UNCHANGED <<account, raced, client>>
      BY <1>8 DEF MasterHandles, OnWorldGetCharacter, db, history
    <2>2. \E a \in ToWorld : a.cmd # "verifyLinks" /\ Answer(a)
      <3> DEFINE a == [cmd |-> m.cmd, conn |-> m.conn, char |-> m.char, data |-> rows[m.char].data]
                 b == [cmd |-> m.cmd, conn |-> m.conn, char |-> 0]
      <3>1. Answer(a) \/ Answer(b)
        BY <1>8 DEF MasterHandles, OnWorldGetCharacter
      <3>2. m.char \in Nat /\ rows[m.char].data \in Versions
        BY <1>2, <1>8, Known DEF StoreIInv, CharacterRows
      <3>3. a \in ToWorld /\ b \in ToWorld /\ a.cmd # "verifyLinks" /\ b.cmd # "verifyLinks"
        BY <1>2, <1>8, <3>2, AnswerPackets DEF Requests, Versions
      <3> HIDE DEF a, b
      <3> QED BY <3>1, <3>3
    <2> HIDE DEF m
    <2> QED BY <1>3, <1>8, <2>1, <2>2
  <1>9. CASE m.cmd = "dbSync"
    <2>1. UNCHANGED <<account, raced, client, toWorld>>
      BY <1>9 DEF MasterHandles, OnWorldDBSync
    <2> HIDE DEF m
    <2> QED BY <1>3, <1>9, <2>1
  <1>10. CASE m.cmd = "updateSession"
    <2>1. UNCHANGED <<raced, client, toWorld>>
          /\ (account' = account \/ account' = [account EXCEPT ![m.acct].until = m.until])
      BY <1>10 DEF MasterHandles, OnWorldUpdateAccountSessionData, history
    <2> HIDE DEF m
    <2>2. \A a \in Accounts : account'[a].set = account[a].set
      BY ZenonT(60), <1>2, <1>10, <2>1 DEF StoreIInv, TypeOK, AccountRows
    <2> QED BY <1>3, <1>10, <2>1, <2>2
  <1> QED BY <1>5, <1>6, <1>7, <1>8, <1>9, <1>10, AccountsUpdated DEF MasterHandles

\* The verdict on a password.
LEMMA AccountsVerdict ==
    ASSUME StoreIInv, StoreIInv', SubpasswordInv, OnMasterVerifyPassword
    PROVE  SubpasswordInv'
  <1> DEFINE c == Head(atAuth)
             a == [cmd |-> "verifyPassword", conn |-> c]
             r == [client[c] EXCEPT !.missed = IF Open(c) THEN @ \cup {"verifyPassword"} ELSE @]
  <1>1. c \in Conns /\ c \in ConnIDs
    <2>1. atAuth \in Seq(ConnIDs) /\ atAuth # <<>>
      BY DEF OnMasterVerifyPassword, StoreIInv, TypeOK
    <2>2. c \in Range(atAuth)
      BY <2>1, Popped DEF Range
    <2> QED BY <2>1, <2>2, ContextIs DEF StoreIInv, Owned
  <1>2. UNCHANGED <<toMaster, account, raced>>
    BY DEF OnMasterVerifyPassword, db, history
  <1>3. \/ toWorld' = toWorld /\ client' = [client EXCEPT ![c] = r]
        \/ Answer(a) /\ UNCHANGED client
    BY DEF OnMasterVerifyPassword, Missed
  <1>4. client[c] \in Clients
    BY <1>1, ContextIs
  <1> HIDE DEF c
  <1>5. r.acct = client[c].acct /\ r.set = client[c].set
    BY <1>4 DEF Clients
  <1>6. a \in ToWorld /\ a.cmd # "verifyLinks"
    BY <1>1, AnswerPackets
  <1> HIDE DEF a, r
  <1>7. CASE toWorld' = toWorld /\ client' = [client EXCEPT ![c] = r]
    BY <1>1, <1>2, <1>5, <1>7, AccountsContext
  <1>8. CASE Answer(a) /\ UNCHANGED client
    <2>1. Conns' = Conns
      BY <1>8 DEF Conns
    <2> QED BY <1>2, <1>6, <1>8, <2>1, AccountsAside
  <1> QED BY <1>3, <1>7, <1>8

\* A client is bound to the account it was handed over with.
LEMMA AccountsBound ==
    ASSUME StoreIInv, StoreIInv', SubpasswordInv, WorldHandles,
           Head(toWorld).cmd = "verifyLinks", client' # client
    PROVE  SubpasswordInv'
  <1> DEFINE m == Head(toWorld)
             c == m.conn
             b == m.acct
             r == [client[c] EXCEPT !.acct = b, !.set = m.row.set, !.until = m.row.until]
  <1>1. m \in ToWorld /\ m.cmd = "verifyLinks" /\ OwnAnswer(m) /\ c \in Conns
    BY AnswerTaken DEF OwnAnswer
  <1>2. b \in Accounts /\ m.row \in AccountRows
    BY <1>1, AnswerFields
  <1>3. client' = [client EXCEPT ![c] = r] /\ client[c].acct = NoAccount
    BY <1>1 DEF WorldHandles, OnWorldVerifyLinks
  <1>4. UNCHANGED <<toMaster, account, raced>>
    BY <1>1 DEF WorldHandles, OnWorldVerifyLinks, db, history
  <1>5. client[c] \in Clients
    BY <1>1, ContextIs
  <1>6. r.acct = b /\ r.set = m.row.set
    BY <1>5 DEF Clients
  <1>7. /\ 1 \in DOMAIN toWorld /\ toWorld[1] = m
        /\ \A j \in DOMAIN toWorld' : /\ j \in Nat \ {0}
                                      /\ j + 1 \in DOMAIN toWorld /\ toWorld'[j] = toWorld[j + 1]
    <2>1. toWorld \in Seq(ToWorld) /\ toWorld # <<>> /\ toWorld' = Tail(toWorld)
      BY AnswerTaken, Counted DEF StoreIInv
    <2> QED BY ONLY <2>1, Popped
  <1>8. /\ \A i \in DOMAIN toMaster : i \in Nat /\ i + 0 = i
        /\ \A a : Waits(toMaster, toMaster, 0, a)
    BY Counted, UpdatesSame DEF StoreIInv
  <1>9. Hands(m, b) /\ \A a : Hands(m, a) => a = b
    BY <1>1 DEF Hands
  <1> HIDE DEF m, r
  <1>10. Conns' = Conns /\ client'[c] = r /\ \A d \in Conns : d # c => client'[d] = client[d]
    BY <1>1, <1>3 DEF Conns, StoreIInv, TypeOK
  <1>11. ASSUME NEW a \in Accounts \ raced', a # b PROVE AccountKept(a)'
    <2>1. AccountKept(a)
      BY <1>4 DEF SubpasswordInv, AccountKept
    <2>2. \A j \in DOMAIN toWorld' : j + 1 \in DOMAIN toWorld /\ toWorld[j + 1] = toWorld'[j]
      BY <1>7
    <2>3. /\ \A j \in DOMAIN toMaster' : j + 0 \in DOMAIN toMaster /\ toMaster[j + 0] = toMaster'[j]
          /\ Waits(toMaster, toMaster', 0, a)
      BY <1>4, <1>8
    <2>4. \A d \in Conns' : client'[d].acct = a =>
             d \in Conns /\ client[d].acct = a /\ client'[d].set = client[d].set
      BY <1>6, <1>10, <1>11
    <2> QED BY <1>4, <2>1, <2>2, <2>3, <2>4, OtherAccount
  <1>12. ASSUME NEW a \in Accounts \ raced', a = b PROVE AccountKept(a)'
    <2>1. /\ \A d \in Conns : client[d].acct # a
          /\ ~UpdateUnderWay(a) /\ m.row.set = account[a].set
          /\ \A j \in DOMAIN toWorld : Hands(toWorld[j], a) => 1 = j
      BY <1>4, <1>7, <1>9, <1>12 DEF SubpasswordInv, OneHolder
    <2>2. \A d \in Conns' : client'[d].acct = a => d = c
      BY <1>10, <2>1
    <2>3. client'[c].set = account'[a].set
      BY <1>4, <1>6, <1>10, <2>1
    <2>4. \A j \in DOMAIN toWorld' : ~Hands(toWorld'[j], a)
      <3> SUFFICES ASSUME NEW j \in DOMAIN toWorld', Hands(toWorld'[j], a) PROVE FALSE
        OBVIOUS
      <3>1. j + 1 = 1
        BY <1>7, <2>1
      <3> QED BY <1>7, <3>1
    <2>5. \A i \in DOMAIN toMaster' : ~Updates(toMaster'[i], a)
      BY <1>4, <2>1 DEF UpdateUnderWay, Updates, Range
    <2>6. CopyAgrees(a)'
      BY <2>2, <2>3 DEF CopyAgrees
    <2>7. OneHolder(a)'
      BY <2>2, <2>4 DEF OneHolder
    <2>8. LastUpdate(a)'
      BY <2>5 DEF LastUpdate
    <2> QED BY <2>6, <2>7, <2>8 DEF AccountKept
  <1>13. \A a \in Accounts \ raced' : AccountKept(a)'
    BY <1>11, <1>12
  <1> QED BY <1>13 DEF SubpasswordInv, AccountKept

LEMMA AccountsWorld ==
    ASSUME StoreIInv, StoreIInv', SubpasswordInv, WorldHandles
    PROVE  SubpasswordInv'
  <1> DEFINE m == Head(toWorld)
             c == m.conn
  <1>1. m \in ToWorld /\ c \in Conns /\ toWorld # <<>> /\ toWorld' = Tail(toWorld)
    BY AnswerTaken DEF OwnAnswer
  <1>2. UNCHANGED <<toMaster, account>>
    BY SMTT(60) DEF WorldHandles, db
  <1>3. raced' = raced
    BY DEF WorldHandles, OnWorldVerifyLinks, AckGetCharacters, AckCreateCharacter,
           AckGetCharacter, AckVerifyPassword, history
  <1>4. CASE client' = client
    <2>1. Conns' = Conns
      BY <1>4 DEF Conns
    <2> QED BY <1>1, <1>2, <1>3, <1>4, <2>1, AccountsAside
  <1>5. ASSUME NEW r, client' = [client EXCEPT ![c] = r],
               r.acct = NoAccount \/ (r.acct = client[c].acct /\ r.set = client[c].set)
        PROVE  SubpasswordInv'
    <2> HIDE DEF c, m
    <2> QED BY <1>1, <1>2, <1>3, <1>5, AccountsContext
  <1>6. CASE m.cmd = "verifyLinks"
    BY <1>4, <1>6, AccountsBound
  <1> DEFINE r0 == Answered(m)
  <1>7. r0 \in Clients /\ r0.acct = client[c].acct /\ r0.set = client[c].set
    <2>1. client[c] \in Clients
      BY <1>1, ContextIs
    <2> HIDE DEF m
    <2> QED BY <2>1 DEF Clients, Answered
  <1>8. CASE m.cmd = "getCharacters" /\ AckGetCharacters(m)
    <2> DEFINE r == [r0 EXCEPT !.index = m.index, !.untold = @ \ Range(m.index)]
    <2>1. client' = client \/ client' = [client EXCEPT ![c] = r]
      BY <1>8 DEF AckGetCharacters, Disconnect
    <2> HIDE DEF r0, m
    <2>2. r.acct = client[c].acct /\ r.set = client[c].set
      BY <1>7 DEF Clients
    <2> HIDE DEF r
    <2> QED BY <1>4, <1>5, <2>1, <2>2
  <1>9. CASE m.cmd = "createCharacter" /\ AckCreateCharacter(m)
    <2> DEFINE x == [client[c].index EXCEPT ![m.slot] = m.char]
               r == [r0 EXCEPT !.index = x]
    <2>0. r0.index = client[c].index
      BY <1>1, ContextIs DEF Clients, Answered
    <2>1. client' = client \/ client' = [client EXCEPT ![c] = r0] \/ client' = [client EXCEPT ![c] = r]
      BY <1>9, <2>0 DEF AckCreateCharacter, Disconnect
    <2> HIDE DEF r0, m, x
    <2>2. r.acct = client[c].acct /\ r.set = client[c].set
      BY <1>7 DEF Clients
    <2> HIDE DEF r
    <2> QED BY <1>4, <1>5, <1>7, <2>1, <2>2
  <1>10. CASE m.cmd = "getCharacter" /\ AckGetCharacter(m)
    <2> DEFINE r == [r0 EXCEPT !.char = m.char, !.has = m.data, !.mask = {}]
               gone == [NewClient EXCEPT !.open = FALSE]
    <2>1. client' = client \/ client' = [client EXCEPT ![c] = gone] \/ client' = [client EXCEPT ![c] = r]
      BY <1>10 DEF AckGetCharacter
    <2>2. gone.acct = NoAccount
      BY DEF NewClient
    <2> HIDE DEF r0, m
    <2>3. r.acct = client[c].acct /\ r.set = client[c].set
      BY <1>7 DEF Clients
    <2> HIDE DEF r, gone
    <2> QED BY <1>4, <1>5, <2>1, <2>2, <2>3
  <1>11. CASE m.cmd = "verifyPassword" /\ AckVerifyPassword(m)
    <2>1. client' = client \/ client' = [client EXCEPT ![c] = r0]
      BY <1>11 DEF AckVerifyPassword, Disconnect
    <2> HIDE DEF r0, m
    <2> QED BY <1>4, <1>5, <1>7, <2>1
  <1> QED BY <1>6, <1>8, <1>9, <1>10, <1>11 DEF WorldHandles

LEMMA AccountsInit == ASSUME Init PROVE SubpasswordInv
  <1>1. Conns = {} /\ DOMAIN toWorld = {}
    BY DEF Init, Conns
  <1> QED BY <1>1 DEF SubpasswordInv, CopyAgrees, OneHolder, LastUpdate

LEMMA AccountsNext == ASSUME StoreIInv, SubpasswordInv, [Next]_vars PROVE SubpasswordInv'
  <1>1. StoreIInv'
    BY StoreNext
  <1>2. CASE Links
    BY <1>1, <1>2, AccountsBreak, AccountsComings DEF Links, BreakLink, Sweep
  <1>3. CASE Comings
    BY <1>1, <1>3, AccountsComings
  <1>4. CASE Index
    BY <1>1, <1>4, AccountsIndex
  <1>5. CASE Subpassword
    BY <1>1, <1>5, AccountsSubpassword
  <1>6. CASE Playing
    BY <1>1, <1>6, AccountsPlaying
  <1>7. CASE Handling
    BY <1>1, <1>7, AccountsMaster, AccountsWorld, AccountsVerdict DEF Handling
  <1>8. CASE UNCHANGED vars
    <2>1. UNCHANGED <<client, toMaster, toWorld, account, raced>> /\ Conns' = Conns
      BY <1>8 DEF vars, db, history, Conns
    <2> QED BY <1>1, <2>1, AccountsAside
  <1> QED BY <1>2, <1>3, <1>4, <1>5, <1>6, <1>7, <1>8 DEF Next

\* But for the accounts that a client may have an outdated copy of, what the
\* clients of an account think of its sub-password is what the database has
\* once no update is under way.  WorldSvr decides every sub-password operation
\* from the copy that came with the hand-off.
THEOREM SubpasswordsAgree == Spec => []SubpasswordAgrees
  <1>1. Init => StoreIInv /\ SubpasswordInv
    BY StoreInit, AccountsInit
  <1>2. StoreIInv /\ SubpasswordInv /\ [Next]_vars => (StoreIInv /\ SubpasswordInv)'
    BY StoreNext, AccountsNext
  <1>3. StoreIInv /\ SubpasswordInv => SubpasswordAgrees
    BY DEF SubpasswordInv, SubpasswordAgrees
  <1> QED BY <1>1, <1>2, <1>3, PTL DEF Spec
=============================================================================
