--------------------------- MODULE DirectoryProofs ---------------------------
(***************************************************************************)
(* Proofs about Directory for any worlds, numbers of players, packets in   *)
(* flight and breaks of the links.                                         *)
(***************************************************************************)
EXTENDS Directory, TLAPS

USE DirectoryAssumption

-----------------------------------------------------------------------------
(* Queues, packets and marks.                                              *)

LEMMA Queued ==
    ASSUME NEW S, NEW q \in Seq(S), NEW m \in S
    PROVE  /\ Append(q, m) \in Seq(S) /\ Append(q, m) # <<>>
           /\ Append(q, m)[Len(Append(q, m))] = m
           /\ \A i \in DOMAIN q : i \in DOMAIN Append(q, m) /\ Append(q, m)[i] = q[i]
           /\ \A i \in DOMAIN Append(q, m) : i \in DOMAIN q \/ Append(q, m)[i] = m
  OBVIOUS

LEMMA Taken ==
    ASSUME NEW S, NEW q \in Seq(S), q # <<>>
    PROVE  /\ Tail(q) \in Seq(S) /\ Head(q) \in S /\ Head(q) = q[1] /\ 1 \in DOMAIN q
           /\ Tail(q) = <<>> => Head(q) = q[Len(q)]
           /\ Tail(q) # <<>> => Tail(q)[Len(Tail(q))] = q[Len(q)]
           /\ \A i \in DOMAIN Tail(q) : i + 1 \in DOMAIN q /\ Tail(q)[i] = q[i + 1]
           /\ \A i \in DOMAIN q : i # 1 => \E j \in DOMAIN Tail(q) : Tail(q)[j] = q[i]
  <1>1. /\ Tail(q) \in Seq(S) /\ Head(q) \in S /\ Head(q) = q[1] /\ 1 \in DOMAIN q
        /\ \A i \in DOMAIN Tail(q) : i + 1 \in DOMAIN q /\ Tail(q)[i] = q[i + 1]
    OBVIOUS
  <1>2. Len(q) \in Nat \ {0} /\ Len(Tail(q)) = Len(q) - 1
    OBVIOUS
  <1>3. Tail(q) = <<>> => Head(q) = q[Len(q)]
    <2> DEFINE t == Tail(q)
    <2> HIDE DEF t
    <2>1. t = <<>> => Len(t) = 0
      OBVIOUS
    <2>2. Tail(q) = <<>> => Len(q) = 1
      BY <1>2, <2>1 DEF t
    <2> QED BY <1>1, <2>2
  <1>4. Tail(q) # <<>> => Tail(q)[Len(Tail(q))] = q[Len(q)]
    OBVIOUS
  <1>5. ASSUME NEW i \in DOMAIN q, i # 1 PROVE i - 1 \in DOMAIN Tail(q) /\ Tail(q)[i - 1] = q[i]
    BY <1>5
  <1> QED BY <1>1, <1>3, <1>4, <1>5

LEMMA Lasting ==
    ASSUME NEW S, NEW q \in Seq(S), q # <<>>
    PROVE  Len(q) \in DOMAIN q /\ q[Len(q)] \in S
  OBVIOUS

LEMMA Single == ASSUME NEW S, NEW m \in S PROVE <<m>> \in Seq(S) /\ <<m>> # <<>> /\ <<m>>[1] = m
                                               /\ Head(<<m>>) = m /\ Tail(<<m>>) = <<>>
                                               /\ 1 \in DOMAIN <<m>>
  OBVIOUS

LEMMA Packets ==
    /\ Control("REQCONNECT") \in FromWorlds /\ Control("REQCONNECT") \in ToAuthSvr
    /\ Control("REQCONNECT").kind = "REQCONNECT" /\ Control("ACKCONNECT") \in Acks
    /\ \A n \in 0 .. MaxPlayers : /\ UserList(n) \in FromWorlds
                                  /\ UserList(n).kind = "USERLIST" /\ UserList(n).count = n
    /\ \A l \in Lists : /\ WorldList(l) \in ToAuthSvr
                        /\ WorldList(l).kind = "WORLDLIST" /\ WorldList(l).list = l
  BY DEF Control, UserList, WorldList, FromWorlds, ToAuthSvr, Acks

LEMMA PacketFields ==
    /\ \A m \in FromWorlds : m.kind \in {"REQCONNECT", "USERLIST"}
    /\ \A m \in FromWorlds : m.kind = "USERLIST" => m.count \in 0 .. MaxPlayers
    /\ \A m \in ToAuthSvr : m.kind \in {"REQCONNECT", "WORLDLIST"}
    /\ \A m \in ToAuthSvr : m.kind = "WORLDLIST" => m.list \in Lists
  BY DEF FromWorlds, ToAuthSvr

\* A mark shows in one of the two.
LEMMA Marked ==
    ASSUME TypeOK, NEW s \in Servers, Mark(s)
    PROVE  /\ due' \in [Servers -> BOOLEAN] /\ missed' \in [Servers -> BOOLEAN]
           /\ due'[s] \/ missed'[s]
           /\ \A t \in Servers : t # s => due'[t] = due[t] /\ missed'[t] = missed[t]
  BY DEF TypeOK, Mark

LEMMA Stamped ==
    ASSUME TypeOK, NEW s \in Servers, Stamp(s)
    PROVE  /\ due' \in [Servers -> BOOLEAN] /\ missed' \in [Servers -> BOOLEAN]
           /\ fresh' \in [Servers -> BOOLEAN]
           /\ \A t \in Servers : t # s => due'[t] = due[t] /\ missed'[t] = missed[t]
  BY DEF TypeOK, Stamp

-----------------------------------------------------------------------------
(* What a step leaves alone.                                               *)

\* A step need not do more than mark what is kept of a world.
WorldKept(w) == Connecting(w) /\ PlayersTold(w)

LEMMA WorldSame ==
    ASSUME NEW w \in Worlds, WorldKept(w),
           worldLink'[w] = worldLink[w], acked'[w] = acked[w], toMaster'[w] = toMaster[w],
           toWorld'[w] = toWorld[w], worlds'[w] = worlds[w],
           \/ players'[w] = players[w] /\ drifted'[w] = drifted[w]
           \/ drifted'[w],
           \/ due'[w] = due[w] /\ missed'[w] = missed[w]
           \/ due'[w] \/ missed'[w]
    PROVE  WorldKept(w)'
  <1>1. Connecting(w)'
    BY DEF WorldKept, Connecting
  <1>2. CountToCome(w)' = CountToCome(w)
    BY DEF CountToCome
  <1>3. PlayersTold(w)'
    BY <1>2 DEF WorldKept, PlayersTold
  <1> QED BY <1>1, <1>3 DEF WorldKept

\* The lists of MasterSvr, AuthSvr and the clients.
ListsKept == WorldsTold /\ ClientsTold /\ (~authLink => toAuth = <<>> /\ fromAuth = <<>>)

LEMMA ListsSame ==
    ASSUME ListsKept, UNCHANGED <<authLink, toAuth, fromAuth, listed>>,
           seen' = seen \/ seen' = listed,
           \/ worlds' = worlds /\ due'[MasterSvr] = due[MasterSvr]
                               /\ missed'[MasterSvr] = missed[MasterSvr]
           \/ due'[MasterSvr] \/ missed'[MasterSvr],
           \/ due'[AuthSvr] = due[AuthSvr] /\ missed'[AuthSvr] = missed[AuthSvr]
           \/ due'[AuthSvr] \/ missed'[AuthSvr]
           \/ seen' = listed
    PROVE  ListsKept'
  <1>1. WorldsTold'
    <2>1. ListToCome' = ListToCome
      BY DEF ListToCome
    <2> QED BY <2>1 DEF ListsKept, WorldsTold
  <1>2. ClientsTold'
    BY DEF ListsKept, ClientsTold
  <1> QED BY <1>1, <1>2 DEF ListsKept

LEMMA DirectoryParts ==
    /\ DirectoryIInv <=> TypeOK /\ ListsKept /\ \A w \in Worlds : WorldKept(w)
    /\ DirectoryIInv' <=> TypeOK' /\ ListsKept' /\ \A w \in Worlds : WorldKept(w)'
  BY DEF DirectoryIInv, ListsKept, WorldKept

LEMMA OwnTimes ==
    /\ MasterSvr \in Servers /\ AuthSvr \in Servers /\ MasterSvr # AuthSvr
    /\ \A w \in Worlds : w \in Servers /\ w # MasterSvr /\ w # AuthSvr
  BY DEF DirectoryAssumption, Servers

-----------------------------------------------------------------------------
(* WorldSvr.                                                               *)

LEMMA DirectorySecond ==
    ASSUME DirectoryIInv, NEW s \in Servers, Second(s) PROVE DirectoryIInv'
  <1> USE DirectoryParts
  <1>1. UNCHANGED <<players, due, links, worlds, listed, seen, packets, breaks, history>>
    BY DEF Second
  <1> USE <1>1 DEF links, packets, history
  <1>2. TypeOK'
    BY DEF TypeOK, Second
  <1>3. ListsKept'
    BY ListsSame
  <1>4. \A w \in Worlds : WorldKept(w)'
    BY WorldSame
  <1> QED BY <1>2, <1>3, <1>4

LEMMA DirectoryMove ==
    ASSUME DirectoryIInv, NEW w \in Worlds, NEW n \in 0 .. MaxPlayers, Move(w, n)
    PROVE  DirectoryIInv'
  <1> USE DirectoryParts
  <1>1. /\ players' = [players EXCEPT ![w] = n] /\ drifted' = [drifted EXCEPT ![w] = TRUE]
        /\ UNCHANGED <<fresh, due, links, worlds, listed, seen, packets, breaks, missed>>
    BY DEF Move
  <1> USE <1>1 DEF links, packets
  <1>2. TypeOK'
    BY DEF TypeOK
  <1>3. ListsKept'
    BY ListsSame
  <1>4. ASSUME NEW v \in Worlds PROVE WorldKept(v)'
    <2>1. drifted'[v] \/ (players'[v] = players[v] /\ drifted'[v] = drifted[v])
      BY DEF TypeOK
    <2> QED BY <2>1, WorldSame
  <1> QED BY <1>2, <1>3, <1>4

LEMMA DirectoryOnConnect ==
    ASSUME DirectoryIInv, NEW w \in Worlds, OnConnect(w)
    PROVE  DirectoryIInv'
  <1> USE DirectoryParts, OwnTimes
  <1>1. UNCHANGED <<players, fresh, links, worlds, listed, seen, packets, breaks, drifted>>
    BY DEF OnConnect
  <1>2. /\ due' \in [Servers -> BOOLEAN] /\ missed' \in [Servers -> BOOLEAN]
        /\ due'[w] \/ missed'[w]
        /\ \A t \in Servers : t # w => due'[t] = due[t] /\ missed'[t] = missed[t]
    BY Marked DEF OnConnect
  <1> USE <1>1 DEF links, packets
  <1>3. TypeOK'
    BY <1>2 DEF TypeOK
  <1>4. ListsKept'
    BY <1>2, ListsSame
  <1>5. \A v \in Worlds : WorldKept(v)'
    BY <1>2, WorldSame
  <1> QED BY <1>3, <1>4, <1>5

LEMMA DirectoryBroadcastUserList ==
    ASSUME DirectoryIInv, NEW w \in Worlds, BroadcastUserList(w)
    PROVE  DirectoryIInv'
  <1> USE DirectoryParts, OwnTimes
  <1> DEFINE m == UserList(players[w])
  <1>1. /\ acked[w] /\ toMaster' = [toMaster EXCEPT ![w] = Append(@, m)]
        /\ drifted' = [drifted EXCEPT ![w] = FALSE]
        /\ UNCHANGED <<players, links, worlds, listed, seen, toWorld, toAuth, fromAuth, breaks>>
    BY DEF BroadcastUserList
  <1>2. /\ due' \in [Servers -> BOOLEAN] /\ missed' \in [Servers -> BOOLEAN]
        /\ fresh' \in [Servers -> BOOLEAN]
        /\ \A t \in Servers : t # w => due'[t] = due[t] /\ missed'[t] = missed[t]
    BY Stamped DEF BroadcastUserList
  <1>3. m \in FromWorlds /\ m.kind = "USERLIST" /\ m.count = players[w]
    BY Packets DEF TypeOK
  <1> HIDE DEF m
  <1>4. toMaster[w] \in Seq(FromWorlds) /\ toMaster \in [Worlds -> Seq(FromWorlds)]
    BY DEF TypeOK
  <1>5. /\ Append(toMaster[w], m) \in Seq(FromWorlds) /\ Append(toMaster[w], m) # <<>>
        /\ Append(toMaster[w], m)[Len(Append(toMaster[w], m))] = m
        /\ \A i \in DOMAIN Append(toMaster[w], m) :
              i \in DOMAIN toMaster[w] \/ Append(toMaster[w], m)[i] = m
        /\ \A i \in DOMAIN toMaster[w] : Append(toMaster[w], m)[i] = toMaster[w][i]
    BY <1>3, <1>4, Queued
  <1> DEFINE q == Append(toMaster[w], m)
  <1> HIDE DEF q
  <1>6. toMaster' = [toMaster EXCEPT ![w] = q] /\ toMaster'[w] = q
    BY <1>1, <1>4 DEF q
  <1>7. TypeOK'
    <2>1. toMaster' \in [Worlds -> Seq(FromWorlds)]
      BY <1>4, <1>5, <1>6 DEF q
    <2> QED BY <1>1, <1>2, <2>1 DEF TypeOK, links
  <1>8. ListsKept'
    BY <1>1, <1>2, ListsSame DEF links
  <1>9. ASSUME NEW v \in Worlds PROVE WorldKept(v)'
    <2>1. CASE v # w
      <3>1. toMaster'[v] = toMaster[v] /\ drifted'[v] = drifted[v]
        BY <1>1, <2>1 DEF TypeOK
      <3> QED BY <1>1, <1>2, <2>1, <3>1, WorldSame DEF links
    <2>2. CASE v = w
      <3>1. Connecting(w)'
        BY <1>1, <1>3, <1>5, <1>6 DEF WorldKept, Connecting, links, q
      <3>2. PlayersTold(w)'
        BY <1>1, <1>3, <1>5, <1>6 DEF PlayersTold, CountToCome, q
      <3> QED BY <2>2, <3>1, <3>2 DEF WorldKept
    <2> QED BY <2>1, <2>2
  <1> QED BY <1>7, <1>8, <1>9

LEMMA DirectoryMasterSocketOnConnect ==
    ASSUME DirectoryIInv, NEW w \in Worlds, MasterSocketOnConnect(w)
    PROVE  DirectoryIInv'
  <1> USE DirectoryParts
  <1> DEFINE m == Control("REQCONNECT")
  <1>1. /\ ~worldLink[w] /\ worldLink' = [worldLink EXCEPT ![w] = TRUE]
        /\ toMaster' = [toMaster EXCEPT ![w] = <<m>>]
        /\ UNCHANGED <<players, fresh, due, acked, authLink, worlds, listed, seen, toWorld, toAuth,
                       fromAuth, breaks, history>>
    BY DEF MasterSocketOnConnect
  <1>2. <<m>> \in Seq(FromWorlds)
    BY Packets
  <1> HIDE DEF m
  <1>3. TypeOK'
    BY <1>1, <1>2 DEF TypeOK, history
  <1>4. ListsKept'
    BY <1>1, ListsSame DEF history
  <1>5. ASSUME NEW v \in Worlds PROVE WorldKept(v)'
    <2>1. CASE v # w
      <3>1. toMaster'[v] = toMaster[v] /\ worldLink'[v] = worldLink[v]
        BY <1>1, <2>1 DEF TypeOK
      <3> QED BY <1>1, <3>1, WorldSame DEF history
    <2>2. CASE v = w
      <3>1. ~acked[w] /\ toWorld[w] = <<>>
        BY <1>1 DEF WorldKept, Connecting
      <3>2. Connecting(w)'
        BY <1>1, <3>1 DEF Connecting, TypeOK, m
      <3> QED BY <1>1, <2>2, <3>1, <3>2 DEF WorldKept, PlayersTold
    <2> QED BY <2>1, <2>2
  <1> QED BY <1>3, <1>4, <1>5

LEMMA DirectoryOnWorldAcknowledged ==
    ASSUME DirectoryIInv, NEW w \in Worlds, OnWorldAcknowledged(w)
    PROVE  DirectoryIInv'
  <1> USE DirectoryParts, OwnTimes
  <1>1. /\ toWorld[w] # <<>> /\ toWorld' = [toWorld EXCEPT ![w] = Tail(@)]
        /\ acked' = [acked EXCEPT ![w] = TRUE]
        /\ UNCHANGED <<players, fresh, worldLink, authLink, worlds, listed, seen, toMaster, toAuth,
                       fromAuth, breaks, drifted>>
    BY DEF OnWorldAcknowledged
  <1>2. /\ due' \in [Servers -> BOOLEAN] /\ missed' \in [Servers -> BOOLEAN]
        /\ due'[w] \/ missed'[w]
        /\ \A t \in Servers : t # w => due'[t] = due[t] /\ missed'[t] = missed[t]
    BY Marked DEF OnWorldAcknowledged
  <1>3. worldLink[w] /\ toMaster[w] = <<>> /\ toWorld[w] = <<Control("ACKCONNECT")>>
    BY <1>1 DEF WorldKept, Connecting
  <1>4. Tail(toWorld[w]) = <<>> /\ <<>> \in Seq(Acks)
    BY <1>3
  <1>5. toWorld' = [toWorld EXCEPT ![w] = <<>>]
    BY <1>1, <1>4
  <1>6. TypeOK'
    BY SMTT(60), <1>1, <1>2, <1>4, <1>5 DEF TypeOK
  <1>7. ListsKept'
    BY <1>1, <1>2, ListsSame
  <1>8. ASSUME NEW v \in Worlds PROVE WorldKept(v)'
    <2>1. CASE v # w
      <3>1. toWorld'[v] = toWorld[v] /\ acked'[v] = acked[v]
        BY <1>1, <1>5, <2>1 DEF TypeOK
      <3> QED BY <1>1, <1>2, <2>1, <3>1, WorldSame
    <2>2. CASE v = w
      <3>1. Connecting(w)'
        BY <1>1, <1>3, <1>5 DEF Connecting, TypeOK
      <3> QED BY <1>2, <2>2, <3>1 DEF WorldKept, PlayersTold
    <2> QED BY <2>1, <2>2
  <1> QED BY <1>6, <1>7, <1>8

-----------------------------------------------------------------------------
(* MasterSvr and AuthSvr.                                                  *)

LEMMA DirectoryOnWorldConnect ==
    ASSUME DirectoryIInv, NEW w \in Worlds, OnWorldConnect(w)
    PROVE  DirectoryIInv'
  <1> USE DirectoryParts, OwnTimes
  <1> DEFINE a == Control("ACKCONNECT")
             m == WorldList(worlds')
  <1>1. /\ toMaster[w] # <<>> /\ Head(toMaster[w]).kind = "REQCONNECT"
        /\ toMaster' = [toMaster EXCEPT ![w] = Tail(@)]
        /\ toWorld' = [toWorld EXCEPT ![w] = Append(@, a)]
        /\ worlds' = [worlds EXCEPT ![w] = 0]
        /\ toAuth' = IF authLink THEN Append(toAuth, m) ELSE toAuth
        /\ UNCHANGED <<players, fresh, links, listed, seen, fromAuth, breaks, drifted>>
    BY DEF OnWorldConnect
  <1>2. /\ due' \in [Servers -> BOOLEAN] /\ missed' \in [Servers -> BOOLEAN]
        /\ due'[MasterSvr] \/ missed'[MasterSvr]
        /\ \A t \in Servers : t # MasterSvr => due'[t] = due[t] /\ missed'[t] = missed[t]
    BY Marked DEF OnWorldConnect
  <1>3. worldLink[w] /\ ~acked[w] /\ toMaster[w] = <<Control("REQCONNECT")>> /\ toWorld[w] = <<>>
    <2>1. Head(toMaster[w]) = toMaster[w][1] /\ 1 \in DOMAIN toMaster[w]
      BY <1>1, Taken DEF TypeOK
    <2> QED BY <1>1, <2>1 DEF WorldKept, Connecting
  <1>4. /\ Tail(toMaster[w]) = <<>> /\ Append(toWorld[w], a) = <<a>>
        /\ <<>> \in Seq(FromWorlds) /\ <<a>> \in Seq(Acks)
    BY <1>3, Packets
  <1> HIDE DEF a
  <1>5. /\ toMaster' = [toMaster EXCEPT ![w] = <<>>] /\ toWorld' = [toWorld EXCEPT ![w] = <<a>>]
    BY <1>1, <1>4
  <1>6. worlds' \in Lists /\ m \in ToAuthSvr
    <2>1. worlds' \in Lists
      BY <1>1 DEF TypeOK, Lists, DirectoryAssumption
    <2> QED BY <2>1, Packets
  <1> HIDE DEF m
  <1>7. /\ toAuth' \in Seq(ToAuthSvr) /\ (authLink => toAuth' # <<>>)
        /\ ~authLink => toAuth' = toAuth
    BY SMTT(30), <1>1, <1>6, Queued DEF TypeOK
  <1>8. TypeOK'
    BY SMTT(60), <1>1, <1>2, <1>4, <1>5, <1>6, <1>7 DEF TypeOK, links
  <1>9. ListsKept'
    BY <1>1, <1>2, <1>7 DEF ListsKept, WorldsTold, ClientsTold, links
  <1>10. ASSUME NEW v \in Worlds PROVE WorldKept(v)'
    <2>1. CASE v # w
      <3>1. toWorld'[v] = toWorld[v] /\ toMaster'[v] = toMaster[v] /\ worlds'[v] = worlds[v]
        BY <1>1, <1>5, <2>1 DEF TypeOK, Lists
      <3> QED BY <1>1, <1>2, <3>1, WorldSame DEF links
    <2>2. CASE v = w
      <3>1. Connecting(w)'
        BY <1>1, <1>3, <1>5 DEF Connecting, TypeOK, links, a
      <3> QED BY <1>1, <1>3, <2>2, <3>1 DEF WorldKept, PlayersTold, links
    <2> QED BY <2>1, <2>2
  <1> QED BY <1>8, <1>9, <1>10

LEMMA DirectoryOnWorldUserlist ==
    ASSUME DirectoryIInv, NEW w \in Worlds, OnWorldUserlist(w)
    PROVE  DirectoryIInv'
  <1> USE DirectoryParts, OwnTimes
  <1> DEFINE m == Head(toMaster[w])
             q == Tail(toMaster[w])
  <1>1. /\ toMaster[w] # <<>> /\ m.kind = "USERLIST"
        /\ toMaster' = [toMaster EXCEPT ![w] = q] /\ worlds' = [worlds EXCEPT ![w] = m.count]
        /\ UNCHANGED <<players, fresh, links, listed, seen, toWorld, toAuth, fromAuth, breaks,
                       drifted>>
    BY DEF OnWorldUserlist
  <1>2. /\ due' \in [Servers -> BOOLEAN] /\ missed' \in [Servers -> BOOLEAN]
        /\ due'[MasterSvr] \/ missed'[MasterSvr]
        /\ \A t \in Servers : t # MasterSvr => due'[t] = due[t] /\ missed'[t] = missed[t]
    BY Marked DEF OnWorldUserlist
  <1>3. /\ q \in Seq(FromWorlds) /\ m \in FromWorlds
        /\ m = toMaster[w][1] /\ 1 \in DOMAIN toMaster[w]
        /\ q = <<>> => m = toMaster[w][Len(toMaster[w])]
        /\ q # <<>> => q[Len(q)] = toMaster[w][Len(toMaster[w])]
        /\ \A i \in DOMAIN q : i + 1 \in DOMAIN toMaster[w] /\ q[i] = toMaster[w][i + 1]
    BY SMTT(60), <1>1, Taken DEF TypeOK
  <1> HIDE DEF m, q
  <1>4. m.count \in 0 .. MaxPlayers
    BY <1>1, <1>3, PacketFields
  <1>5. worldLink[w] /\ acked[w] /\ toWorld[w] = <<>>
        /\ \A i \in DOMAIN toMaster[w] : toMaster[w][i].kind = "USERLIST"
    <2>1. Control("REQCONNECT").kind # "USERLIST" /\ <<Control("REQCONNECT")>>[1] = Control("REQCONNECT")
      BY DEF Control
    <2> QED BY <1>1, <1>3, <2>1 DEF WorldKept, Connecting
  <1>6. TypeOK'
    BY <1>1, <1>2, <1>3, <1>4 DEF TypeOK, links, Lists
  <1>7. ListsKept'
    BY <1>1, <1>2, ListsSame DEF links
  <1>8. ASSUME NEW v \in Worlds PROVE WorldKept(v)'
    <2>1. CASE v # w
      <3>1. toMaster'[v] = toMaster[v] /\ worlds'[v] = worlds[v]
        BY <1>1, <2>1 DEF TypeOK, Lists
      <3> QED BY <1>1, <1>2, <3>1, WorldSame DEF links
    <2>2. CASE v = w
      <3>1. toMaster'[w] = q /\ worlds'[w] = m.count
        BY <1>1 DEF TypeOK, Lists
      <3>2. Connecting(w)'
        BY <1>1, <1>3, <1>5, <3>1 DEF Connecting, links
      <3>3. CountToCome(w)' = CountToCome(w)
        BY <1>1, <1>3, <3>1 DEF CountToCome
      <3>4. PlayersTold(w)'
        BY <1>1, <1>2, <3>3 DEF WorldKept, PlayersTold, links
      <3> QED BY <2>2, <3>2, <3>4 DEF WorldKept
    <2> QED BY <2>1, <2>2
  <1> QED BY <1>6, <1>7, <1>8

LEMMA DirectoryAuthSocketOnConnect ==
    ASSUME DirectoryIInv, AuthSocketOnConnect
    PROVE  DirectoryIInv'
  <1> USE DirectoryParts
  <1> DEFINE m == Control("REQCONNECT")
  <1>1. /\ authLink' = TRUE /\ toAuth' = <<m>>
        /\ UNCHANGED <<players, fresh, due, worldLink, acked, worlds, listed, seen, toMaster,
                       toWorld, fromAuth, breaks, history>>
    BY DEF AuthSocketOnConnect
  <1>2. /\ <<m>> \in Seq(ToAuthSvr) /\ <<m>> # <<>> /\ 1 \in DOMAIN <<m>>
        /\ <<m>>[1].kind = "REQCONNECT"
    BY Packets, Single
  <1> HIDE DEF m
  <1>3. TypeOK'
    BY <1>1, <1>2 DEF TypeOK, history
  <1>4. ListsKept'
    BY <1>1, <1>2 DEF ListsKept, WorldsTold, ClientsTold
  <1>5. \A w \in Worlds : WorldKept(w)'
    BY <1>1, WorldSame DEF history
  <1> QED BY <1>3, <1>4, <1>5

LEMMA DirectoryOnAuthConnect ==
    ASSUME DirectoryIInv, OnAuthConnect
    PROVE  DirectoryIInv'
  <1> USE DirectoryParts, OwnTimes
  <1>1. /\ fromAuth # <<>> /\ fromAuth' = Tail(fromAuth)
        /\ UNCHANGED <<players, fresh, links, worlds, listed, seen, toMaster, toWorld, toAuth,
                       breaks, drifted>>
    BY DEF OnAuthConnect
  <1>2. /\ due' \in [Servers -> BOOLEAN] /\ missed' \in [Servers -> BOOLEAN]
        /\ due'[MasterSvr] \/ missed'[MasterSvr]
        /\ \A t \in Servers : t # MasterSvr => due'[t] = due[t] /\ missed'[t] = missed[t]
    BY Marked DEF OnAuthConnect
  <1>3. fromAuth' \in Seq(Acks)
    BY <1>1, Taken DEF TypeOK
  <1>4. TypeOK'
    BY <1>1, <1>2, <1>3 DEF TypeOK, links
  <1>5. ListsKept'
    BY <1>1, <1>2 DEF ListsKept, WorldsTold, ClientsTold, links
  <1>6. \A w \in Worlds : WorldKept(w)'
    BY <1>1, <1>2, WorldSame DEF links
  <1> QED BY <1>4, <1>5, <1>6

LEMMA DirectoryBroadcastWorldList ==
    ASSUME DirectoryIInv, BroadcastWorldList
    PROVE  DirectoryIInv'
  <1> USE DirectoryParts, OwnTimes
  <1> DEFINE m == WorldList(worlds)
  <1>1. /\ toAuth' = Append(toAuth, m) /\ authLink
        /\ UNCHANGED <<players, links, worlds, listed, seen, toMaster, toWorld, fromAuth, breaks,
                       drifted>>
    BY DEF BroadcastWorldList
  <1>2. /\ due' \in [Servers -> BOOLEAN] /\ missed' \in [Servers -> BOOLEAN]
        /\ fresh' \in [Servers -> BOOLEAN]
        /\ \A t \in Servers : t # MasterSvr => due'[t] = due[t] /\ missed'[t] = missed[t]
    BY Stamped DEF BroadcastWorldList
  <1>3. m \in ToAuthSvr /\ m.list = worlds
    BY Packets DEF TypeOK
  <1> HIDE DEF m
  <1>4. toAuth' \in Seq(ToAuthSvr) /\ toAuth' # <<>> /\ toAuth'[Len(toAuth')] = m
    <2>1. toAuth \in Seq(ToAuthSvr)
      BY DEF TypeOK
    <2> QED BY ONLY <1>1, <1>3, <2>1, Queued
  <1>5. TypeOK'
    BY <1>1, <1>2, <1>4 DEF TypeOK, links
  <1>6. ListsKept'
    <2>1. ListToCome' = worlds'
      BY <1>1, <1>3, <1>4 DEF ListToCome
    <2> QED BY <1>1, <1>4, <2>1 DEF ListsKept, WorldsTold, ClientsTold, links
  <1>7. \A w \in Worlds : WorldKept(w)'
    BY <1>1, <1>2, WorldSame DEF links
  <1> QED BY <1>5, <1>6, <1>7

LEMMA DirectoryOnMasterConnect ==
    ASSUME DirectoryIInv, OnMasterConnect
    PROVE  DirectoryIInv'
  <1> USE DirectoryParts
  <1> DEFINE a == Control("ACKCONNECT")
  <1>1. /\ toAuth # <<>> /\ toAuth' = Tail(toAuth) /\ fromAuth' = Append(fromAuth, a)
        /\ UNCHANGED <<players, fresh, due, links, worlds, listed, seen, toMaster, toWorld, breaks,
                       history>>
    BY DEF OnMasterConnect
  <1>2. a \in Acks
    BY Packets
  <1> HIDE DEF a
  <1>3. fromAuth' \in Seq(Acks) /\ fromAuth' # <<>> /\ toAuth' \in Seq(ToAuthSvr)
    BY <1>1, <1>2, Queued, Taken DEF TypeOK
  <1>4. TypeOK'
    BY <1>1, <1>3 DEF TypeOK, links, history
  <1>5. ListsKept'
    BY <1>1, <1>3 DEF ListsKept, WorldsTold, ClientsTold, links
  <1>6. \A w \in Worlds : WorldKept(w)'
    BY <1>1, WorldSame DEF links, history
  <1> QED BY <1>4, <1>5, <1>6

LEMMA DirectoryOnMasterWorldList ==
    ASSUME DirectoryIInv, OnMasterWorldList
    PROVE  DirectoryIInv'
  <1> USE DirectoryParts, OwnTimes
  <1> DEFINE m == Head(toAuth)
             q == Tail(toAuth)
  <1>1. /\ toAuth # <<>> /\ m.kind = "WORLDLIST" /\ toAuth' = q /\ listed' = m.list
        /\ UNCHANGED <<players, fresh, links, worlds, seen, toMaster, toWorld, fromAuth, breaks,
                       drifted>>
    BY DEF OnMasterWorldList
  <1>2. /\ due' \in [Servers -> BOOLEAN] /\ missed' \in [Servers -> BOOLEAN]
        /\ due'[AuthSvr] \/ missed'[AuthSvr]
        /\ \A t \in Servers : t # AuthSvr => due'[t] = due[t] /\ missed'[t] = missed[t]
    BY Marked DEF OnMasterWorldList
  <1>3. /\ q \in Seq(ToAuthSvr) /\ m \in ToAuthSvr /\ m = toAuth[1]
        /\ q = <<>> => m = toAuth[Len(toAuth)]
        /\ q # <<>> => q[Len(q)] = toAuth[Len(toAuth)]
        /\ \A i \in DOMAIN toAuth : i # 1 => \E j \in DOMAIN q : q[j] = toAuth[i]
    <2>1. toAuth \in Seq(ToAuthSvr) /\ toAuth # <<>>
      BY <1>1 DEF TypeOK
    <2> QED BY ONLY <2>1, Taken
  <1> HIDE DEF m, q
  <1>4. m.list \in Lists
    BY <1>1, <1>3, PacketFields
  <1>5. TypeOK'
    BY <1>1, <1>2, <1>3, <1>4 DEF TypeOK, links
  <1>6. ListsKept'
    <2>1. ListToCome' = ListToCome
      BY <1>1, <1>3 DEF ListToCome
    <2>2. (\E i \in DOMAIN toAuth : toAuth[i].kind = "REQCONNECT")
             => \E i \in DOMAIN toAuth' : toAuth'[i].kind = "REQCONNECT"
      BY <1>1, <1>3
    <2>3. WorldsTold'
      BY <1>1, <1>2, <2>1, <2>2 DEF ListsKept, WorldsTold, links
    <2>4. ClientsTold'
      BY <1>1, <1>2 DEF ClientsTold
    <2> QED BY <1>1, <2>3, <2>4 DEF ListsKept, links
  <1>7. \A w \in Worlds : WorldKept(w)'
    BY <1>1, <1>2, WorldSame DEF links
  <1> QED BY <1>5, <1>6, <1>7

LEMMA DirectoryLogIn ==
    ASSUME DirectoryIInv, LogIn
    PROVE  DirectoryIInv'
  <1> USE DirectoryParts
  <1>1. /\ seen' = listed
        /\ UNCHANGED <<players, fresh, due, links, worlds, listed, packets, breaks, history>>
    BY DEF LogIn
  <1> USE <1>1 DEF links, packets, history
  <1>2. TypeOK'
    BY DEF TypeOK
  <1>3. ListsKept'
    BY ListsSame
  <1>4. \A w \in Worlds : WorldKept(w)'
    BY WorldSame
  <1> QED BY <1>2, <1>3, <1>4

LEMMA DirectoryBroadcastToClients ==
    ASSUME DirectoryIInv, BroadcastToClients
    PROVE  DirectoryIInv'
  <1> USE DirectoryParts, OwnTimes
  <1>1. /\ seen' = listed
        /\ UNCHANGED <<players, links, worlds, listed, packets, breaks, drifted>>
    BY DEF BroadcastToClients
  <1>2. /\ due' \in [Servers -> BOOLEAN] /\ missed' \in [Servers -> BOOLEAN]
        /\ fresh' \in [Servers -> BOOLEAN]
        /\ \A t \in Servers : t # AuthSvr => due'[t] = due[t] /\ missed'[t] = missed[t]
    BY Stamped DEF BroadcastToClients
  <1> USE <1>1 DEF links, packets
  <1>3. TypeOK'
    BY <1>2 DEF TypeOK
  <1>4. ListsKept'
    BY <1>2, ListsSame
  <1>5. \A w \in Worlds : WorldKept(w)'
    BY <1>2, WorldSame
  <1> QED BY <1>3, <1>4, <1>5

-----------------------------------------------------------------------------
(* A link breaks.                                                          *)

LEMMA DirectoryBreakWorld ==
    ASSUME DirectoryIInv, NEW w \in Worlds, BreakWorld(w)
    PROVE  DirectoryIInv'
  <1> USE DirectoryParts, OwnTimes
  <1>1. /\ breaks < MaxBreaks /\ breaks' = breaks + 1
        /\ worldLink' = [worldLink EXCEPT ![w] = FALSE] /\ acked' = [acked EXCEPT ![w] = FALSE]
        /\ toMaster' = [toMaster EXCEPT ![w] = <<>>] /\ toWorld' = [toWorld EXCEPT ![w] = <<>>]
        /\ worlds' = [worlds EXCEPT ![w] = NotListed]
        /\ UNCHANGED <<players, fresh, authLink, listed, seen, toAuth, fromAuth, drifted>>
    BY DEF BreakWorld
  <1>2. /\ due' \in [Servers -> BOOLEAN] /\ missed' \in [Servers -> BOOLEAN]
        /\ due'[MasterSvr] \/ missed'[MasterSvr]
        /\ \A t \in Servers : t # MasterSvr => due'[t] = due[t] /\ missed'[t] = missed[t]
    BY Marked DEF BreakWorld
  <1>3. TypeOK'
    <2>1. breaks' \in 0 .. MaxBreaks
      BY SMTT(30), <1>1 DEF TypeOK, DirectoryAssumption
    <2>2. <<>> \in Seq(FromWorlds) /\ <<>> \in Seq(Acks)
      OBVIOUS
    <2> QED BY <1>1, <1>2, <2>1, <2>2 DEF TypeOK, Lists
  <1>4. ListsKept'
    BY <1>1, <1>2, ListsSame
  <1>5. ASSUME NEW v \in Worlds PROVE WorldKept(v)'
    <2>1. CASE v # w
      <3>1. /\ toWorld'[v] = toWorld[v] /\ toMaster'[v] = toMaster[v] /\ worlds'[v] = worlds[v]
            /\ worldLink'[v] = worldLink[v] /\ acked'[v] = acked[v]
        BY <1>1, <2>1 DEF TypeOK, Lists
      <3> QED BY <1>1, <1>2, <3>1, WorldSame
    <2>2. CASE v = w
      <3>1. /\ toWorld'[w] = <<>> /\ toMaster'[w] = <<>> /\ worlds'[w] = NotListed
            /\ ~worldLink'[w] /\ ~acked'[w]
        BY <1>1 DEF TypeOK, Lists
      <3> QED BY <2>2, <3>1 DEF WorldKept, Connecting, PlayersTold
    <2> QED BY <2>1, <2>2
  <1> QED BY <1>3, <1>4, <1>5

LEMMA DirectoryBreakAuth ==
    ASSUME DirectoryIInv, BreakAuth
    PROVE  DirectoryIInv'
  <1> USE DirectoryParts
  <1>1. /\ breaks < MaxBreaks /\ breaks' = breaks + 1 /\ authLink' = FALSE
        /\ toAuth' = <<>> /\ fromAuth' = <<>> /\ listed' = NoList
        /\ UNCHANGED <<players, fresh, due, worldLink, acked, worlds, seen, toMaster, toWorld,
                       missed, drifted>>
    BY DEF BreakAuth
  <1>2. TypeOK'
    <2>1. breaks' \in 0 .. MaxBreaks
      BY <1>1 DEF TypeOK, DirectoryAssumption
    <2>2. <<>> \in Seq(ToAuthSvr) /\ <<>> \in Seq(Acks) /\ NoList \in Lists
      BY DEF NoList, Lists
    <2> QED BY <1>1, <2>1, <2>2 DEF TypeOK
  <1>3. ListsKept'
    BY <1>1 DEF ListsKept, WorldsTold, ClientsTold
  <1>4. \A w \in Worlds : WorldKept(w)'
    BY <1>1, WorldSame
  <1> QED BY <1>2, <1>3, <1>4

-----------------------------------------------------------------------------
(* The invariant and what it says of a client.                             *)

LEMMA DirectoryInit == ASSUME Init PROVE DirectoryIInv
  <1>1. TypeOK
    <2>1. 0 \in 0 .. MaxPlayers /\ 0 \in 0 .. MaxBreaks /\ NoList \in Lists
      BY DEF DirectoryAssumption, NoList, Lists
    <2>2. \A S : <<>> \in Seq(S)
      OBVIOUS
    <2> QED BY <2>1, <2>2 DEF Init, TypeOK
  <1> QED BY <1>1 DEF Init, DirectoryIInv, WorldsTold, ClientsTold, Connecting, PlayersTold, NoList

LEMMA DirectoryNext ==
    ASSUME DirectoryIInv, [Next]_vars PROVE DirectoryIInv'
  <1>1. CASE UNCHANGED vars
    <2>1. TypeOK' /\ WorldsTold' /\ ClientsTold'
      BY <1>1 DEF vars, links, packets, history, DirectoryIInv, TypeOK, WorldsTold, ClientsTold,
                  ListToCome
    <2>2. \A w \in Worlds : Connecting(w)' /\ PlayersTold(w)'
      BY <1>1 DEF vars, links, packets, history, DirectoryIInv, Connecting, PlayersTold, CountToCome
    <2> QED BY <1>1, <2>1, <2>2 DEF DirectoryIInv, vars, links, packets
  <1>2. CASE Next
    BY <1>2, DirectorySecond, DirectoryMove, DirectoryOnConnect, DirectoryBroadcastUserList,
       DirectoryMasterSocketOnConnect, DirectoryOnWorldAcknowledged, DirectoryBreakWorld,
       DirectoryOnWorldConnect, DirectoryOnWorldUserlist, DirectoryAuthSocketOnConnect,
       DirectoryOnAuthConnect, DirectoryBroadcastWorldList, DirectoryBreakAuth,
       DirectoryOnMasterConnect, DirectoryOnMasterWorldList, DirectoryLogIn,
       DirectoryBroadcastToClients DEF Next
  <1> QED BY <1>1, <1>2

LEMMA DirectoryAgrees == ASSUME DirectoryIInv PROVE ListsAgree
  <1> SUFFICES ASSUME authLink, Settled, ~missed[MasterSvr], ~missed[AuthSvr], NEW w \in Worlds
               PROVE  IF acked[w] THEN missed[w] \/ drifted[w] \/ seen[w] = players[w]
                      ELSE seen[w] = NotListed
    BY DEF ListsAgree
  <1>1. /\ toMaster[w] = <<>> /\ toWorld[w] = <<>> /\ (acked[w] => ~due[w])
        /\ toAuth = <<>> /\ fromAuth = <<>> /\ ~due[MasterSvr] /\ ~due[AuthSvr]
    BY DEF Settled
  <1>2. \A i \in DOMAIN toAuth : FALSE
    BY <1>1
  <1>3. seen = worlds
    BY <1>1, <1>2 DEF DirectoryIInv, WorldsTold, ClientsTold, ListToCome
  <1>4. CASE acked[w]
    BY <1>1, <1>3, <1>4 DEF DirectoryIInv, PlayersTold, CountToCome
  <1>5. CASE ~acked[w]
    BY <1>1, <1>3, <1>5 DEF DirectoryIInv, Connecting
  <1> QED BY <1>4, <1>5

\* The list a client that chooses a world was sent shows, once everything is
\* sent, the players of every connected world and no other world, but for the
\* lags the one-second timestamps of the servers leave.
THEOREM ListsShown == Spec => []DirectoryInv
  <1>1. Init => DirectoryIInv
    BY DirectoryInit
  <1>2. DirectoryIInv /\ [Next]_vars => DirectoryIInv'
    BY DirectoryNext
  <1>3. DirectoryIInv => DirectoryInv
    BY DirectoryAgrees DEF DirectoryIInv, DirectoryInv
  <1> QED BY <1>1, <1>2, <1>3, PTL DEF Spec
=============================================================================
