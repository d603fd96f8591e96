--------------------------- MODULE HandoffProofs ---------------------------
(***************************************************************************)
(* Proofs about Handoff for any number of masters, clients, keys,          *)
(* accounts, connection IDs and link breaks: first what holds whatever the *)
(* width of the IDs, then, while connection IDs fit their fields, that no  *)
(* master ever holds two pieces of one client's request, and that Handoff  *)
(* implements HandoffPromise.                                              *)
(***************************************************************************)
EXTENDS Handoff, FiniteSetTheorems, TLAPS

-----------------------------------------------------------------------------
(* The helpers the actions are built from keep the types.                  *)

LEMMA RequestType ==
    ASSUME TypeOK, NEW c \in AuthIDs, NEW m \in Masters, NEW k \in Keys,
           NEW e \in EntityIDs, auth[c].acct # NoAccount
    PROVE  Request(c, m, k, e) \in Requests
  <1>1. Trunc(c) \in 0 .. IdSpace - 1
    BY HandoffAssumption DEF Trunc, AuthIDs
  <1>2. e \in 0 .. IdSpace - 1
    BY HandoffAssumption DEF EntityIDs, Trunc, WorldIDs
  <1>3. auth[c].acct \in Accounts
    BY DEF TypeOK, AuthConns
  <1> QED BY <1>1, <1>2, <1>3 DEF Request, Requests

LEMMA PacketTypes ==
    /\ \A k \in {"REQCONNECT", "ACKCONNECT"} : Control(k) \in Packets
    /\ \A b \in BOOLEAN : WorldList(b) \in Packets
    /\ \A r \in Requests : VerifyLinks(r) \in Packets
    /\ \A r \in Requests : \A s \in {0, 1} : Verdict(r, s) \in Packets
  BY DEF Control, WorldList, VerifyLinks, Verdict, Packets, Requests, Results

LEMMA PacketFields ==
    ASSUME NEW p \in Packets
    PROVE  /\ p.kind = "WORLDLIST" => p.listed \in BOOLEAN
           /\ p.kind = "VERIFYLINKS" => p.req \in Requests
           /\ p.kind = "VERIFYRESULT" => p.res \in Results
  BY DEF Packets

LEMMA SentType ==
    ASSUME NEW chan \in [Masters -> Seq(Packets)], NEW m \in Masters,
           NEW up, NEW p \in Packets
    PROVE  Sent(chan, m, up, p) \in [Masters -> Seq(Packets)]
  BY DEF Sent

LEMMA MarkedType ==
    ASSUME dirty \in [Masters -> BOOLEAN], NEW m \in Masters, NEW lost
    PROVE  Marked(m, lost) \in [Masters -> BOOLEAN]
  BY DEF Marked

LEMMA WorldSetType ==
    ASSUME world \in [Masters -> [WorldIDs -> WorldConns]],
           NEW m \in Masters, NEW e \in WorldIDs, NEW w \in WorldConns
    PROVE  [world EXCEPT ![m][e] = w] \in [Masters -> [WorldIDs -> WorldConns]]
  OBVIOUS

LEMMA ReceivedType ==
    ASSUME NEW chan \in [Masters -> Seq(Packets)], NEW m \in Masters,
           NEW kind, Receives(chan, m, kind)
    PROVE  /\ [chan EXCEPT ![m] = Tail(@)] \in [Masters -> Seq(Packets)]
           /\ Head(chan[m]) \in Packets
           /\ Head(chan[m]).kind = kind
  BY DEF Receives

-----------------------------------------------------------------------------
(* Type correctness.                                                       *)

LEMMA TypeInit == Init => TypeOK
  BY HandoffAssumption
  DEF Init, TypeOK, AuthConn, AuthConns, WorldConn, WorldConns, Phases

\* The steps that make, announce or break the links.
LEMMA TypeLinks ==
    ASSUME TypeOK, NEW m \in Masters, LinkStep(m) \/ Break(m)
    PROVE  TypeOK'
  <1>1. CASE ConnectAuth(m)
    BY <1>1, PacketTypes
    DEF TypeOK, ConnectAuth, conns, history
  <1>2. CASE OnMasterConnect(m)
    BY <1>2, PacketTypes, ReceivedType, SentType
    DEF TypeOK, OnMasterConnect, conns, history
  <1>3. CASE OnAuthConnect(m)
    BY <1>3, ReceivedType
    DEF TypeOK, OnAuthConnect, conns, history, Marked
  <1>4. CASE BroadcastWorldList(m)
    BY <1>4, PacketTypes, SentType
    DEF TypeOK, BroadcastWorldList, conns, history
  <1>5. CASE OnMasterWorldList(m)
    BY <1>5, ReceivedType, PacketFields
    DEF TypeOK, OnMasterWorldList, conns, history
  <1>6. CASE ConnectWorld(m)
    BY <1>6, PacketTypes
    DEF TypeOK, ConnectWorld, conns, history
  <1>7. CASE OnWorldConnect(m)
    BY <1>7, PacketTypes, ReceivedType, SentType
    DEF TypeOK, OnWorldConnect, conns, history, Marked
  <1>8. CASE OnWorldAcknowledged(m)
    BY <1>8, ReceivedType
    DEF TypeOK, OnWorldAcknowledged, conns, history
  <1>9. CASE BreakAuth(m)
    BY <1>9, HandoffAssumption
    DEF TypeOK, BreakAuth, conns, history
  <1>10. CASE BreakWorld(m)
    BY <1>10, HandoffAssumption, MarkedType
    DEF TypeOK, BreakWorld, conns, history
  <1> QED BY <1>1, <1>2, <1>3, <1>4, <1>5, <1>6, <1>7, <1>8, <1>9, <1>10 DEF LinkStep, Break

\* The steps of AuthSvr's clients.
LEMMA TypeAuth ==
    ASSUME TypeOK, NEW c \in AuthIDs, AuthStep(c)
    PROVE  TypeOK'
  <1>1. CASE AuthAccept(c)
    BY ZenonT(60), <1>1 DEF TypeOK, AuthAccept, AuthConns, Phases, links, packets, history
  <1>2. CASE AuthClose(c)
    BY <1>2 DEF TypeOK, AuthClose, AuthConns, links, packets, history
  <1>3. CASE AuthReap(c)
    BY <1>3 DEF TypeOK, AuthReap, AuthConns, AuthConn, Phases, links, packets, history
  <1>4. ASSUME NEW a \in Accounts, NEW ok \in BOOLEAN, OnAuthenticate(c, a, ok)
        PROVE  TypeOK'
    <2> DEFINE keeps == ok \/ auth[c].acct # NoAccount
               acct  == IF keeps THEN a ELSE auth[c].acct
               disc  == auth[c].disc \/ ~ok
    <2>1. auth[c] \in AuthConns
      BY DEF TypeOK
    <2>2. acct \in Accounts \cup {NoAccount} /\ disc \in BOOLEAN
      BY <2>1 DEF AuthConns
    <2>3. auth' = [auth EXCEPT ![c] = [[auth[c] EXCEPT !.acct = acct]
                                         EXCEPT !.disc = disc]]
      BY <1>4 DEF OnAuthenticate, TypeOK, AuthConns
    <2>4. [[auth[c] EXCEPT !.acct = acct] EXCEPT !.disc = disc] \in AuthConns
      BY <2>1, <2>2 DEF AuthConns
    <2>5. auth' \in [AuthIDs -> AuthConns]
      <3> HIDE DEF acct, disc
      <3> QED BY <2>3, <2>4 DEF TypeOK
    <2> QED BY <1>4, <2>5 DEF TypeOK, OnAuthenticate, links, packets, history
  <1>5. ASSUME NEW m \in Masters, NEW ok \in BOOLEAN, OnVerifyLinksError(c, m, ok)
        PROVE  TypeOK'
    BY <1>5 DEF TypeOK, OnVerifyLinksError, AuthConns, links, packets, history
  <1>6. ASSUME NEW m \in Masters, NEW k \in Keys, NEW e \in EntityIDs,
               NEW ok \in BOOLEAN, OnVerifyLinks(c, m, k, e, ok)
        PROVE  TypeOK'
    <2>1. Request(c, m, k, e) \in Requests
      BY <1>6, RequestType DEF OnVerifyLinks
    <2>2. VerifyLinks(Request(c, m, k, e)) \in Packets
      BY <2>1, PacketTypes
    <2>3. \A n \in Masters :
             Sent(toMaster, n, authLink[n], VerifyLinks(Request(c, m, k, e)))
                \in [Masters -> Seq(Packets)]
      BY <2>2, SentType DEF TypeOK
    <2>4. toMaster' \in [Masters -> Seq(Packets)]
      BY <1>6, <2>3 DEF OnVerifyLinks
    <2>5. auth' \in [AuthIDs -> AuthConns]
      BY ZenonT(60), <1>6 DEF OnVerifyLinks, TypeOK, AuthConns
    <2>6. asked' \in SUBSET Requests
      BY <1>6, <2>1 DEF OnVerifyLinks, TypeOK
    <2> QED BY <1>6, <2>4, <2>5, <2>6 DEF OnVerifyLinks, TypeOK, links
  <1> QED BY <1>1, <1>2, <1>3, <1>4, <1>5, <1>6 DEF AuthStep

\* The steps of WorldSvr's clients.
LEMMA TypeWorld ==
    ASSUME TypeOK, NEW m \in Masters, WorldStep(m)
    PROVE  TypeOK'
  <1>0. PICK e \in WorldIDs :
            \/ WorldAccept(m, e) \/ WorldLost(m, e) \/ WorldReap(m, e)
            \/ \E k \in Keys : OnConnect(m, e, k)
    BY DEF WorldStep
  <1>1. CASE WorldAccept(m, e)
    <2> DEFINE w == [world[m][e] EXCEPT !.phase = "open"]
    <2>0. world[m][e] \in WorldConns
      BY DEF TypeOK
    <2>1. w \in WorldConns
      BY <2>0 DEF WorldConns, Phases
    <2>2. world' = [world EXCEPT ![m][e] = w]
      BY <1>1 DEF WorldAccept, TypeOK, WorldConns
    <2>3. world' \in [Masters -> [WorldIDs -> WorldConns]]
      BY <2>1, <2>2, WorldSetType DEF TypeOK
    <2> QED BY <1>1, <2>3 DEF TypeOK, WorldAccept, links, packets, history
  <1>2. CASE WorldLost(m, e)
    <2> DEFINE w == [world[m][e] EXCEPT !.disc = TRUE]
    <2>0. world[m][e] \in WorldConns
      BY DEF TypeOK
    <2>1. w \in WorldConns
      BY <2>0 DEF WorldConns
    <2>2. world' = [world EXCEPT ![m][e] = w]
      BY <1>2 DEF WorldLost, TypeOK, WorldConns
    <2>3. world' \in [Masters -> [WorldIDs -> WorldConns]]
      BY <2>1, <2>2, WorldSetType DEF TypeOK
    <2> QED BY <1>2, <2>3 DEF TypeOK, WorldLost, links, packets, history
  <1>3. CASE WorldReap(m, e)
    BY <1>3 DEF TypeOK, WorldReap, WorldConns, WorldConn, Phases, links, packets, history
  <1>4. ASSUME NEW k \in Keys, OnConnect(m, e, k)
        PROVE  TypeOK'
    <2> DEFINE w == [world[m][e] EXCEPT !.key = k]
    <2>0. world[m][e] \in WorldConns
      BY DEF TypeOK
    <2>1. w \in WorldConns
      BY <2>0 DEF WorldConns
    <2>2. world' = [world EXCEPT ![m][e] = w]
      BY <1>4 DEF OnConnect, TypeOK, WorldConns
    <2>3. world' \in [Masters -> [WorldIDs -> WorldConns]]
      BY <2>1, <2>2, WorldSetType DEF TypeOK
    <2>4. issued' \in [Masters -> [WorldIDs -> SUBSET Keys]]
      BY <1>4 DEF OnConnect, TypeOK
    <2> QED BY <1>4, <2>3, <2>4 DEF TypeOK, OnConnect, links, packets
  <1> QED BY <1>0, <1>1, <1>2, <1>3, <1>4

\* The steps that carry a request or an answer.
LEMMA TypeVerify ==
    ASSUME TypeOK, NEW m \in Masters, VerifyStep(m)
    PROVE  TypeOK'
  <1>1. CASE OnAuthVerifyLinks(m)
    <2> DEFINE r == Head(toMaster[m]).req
    <2>0. Receives(toMaster, m, "VERIFYLINKS") /\ toMaster \in [Masters -> Seq(Packets)]
      BY <1>1 DEF OnAuthVerifyLinks, TypeOK
    <2>1. r \in Requests /\ toMaster' \in [Masters -> Seq(Packets)]
      BY <1>1, <2>0, ReceivedType, PacketFields DEF OnAuthVerifyLinks
    <2>2. /\ Sent(toAuth, m, authLink[m], Verdict(r, 0)) \in [Masters -> Seq(Packets)]
          /\ Sent(toWorld, m, worldLink[m], VerifyLinks(r)) \in [Masters -> Seq(Packets)]
      BY <2>1, PacketTypes, SentType DEF TypeOK
    <2>3. toAuth' \in [Masters -> Seq(Packets)] /\ toWorld' \in [Masters -> Seq(Packets)]
      BY <1>1, <2>2 DEF OnAuthVerifyLinks, TypeOK
    <2>4. rows' \in [Masters -> SUBSET Accounts]
      BY <1>1 DEF OnAuthVerifyLinks, TypeOK
    <2> QED
      BY <1>1, <2>1, <2>3, <2>4 DEF OnAuthVerifyLinks, TypeOK, conns, links, history
  <1>2. CASE OnWorldVerifyLinks(m)
    <2> DEFINE r == Head(toWorld[m]).req
    <2>1. r \in Requests /\ toWorld' \in [Masters -> Seq(Packets)]
      BY <1>2, ReceivedType, PacketFields DEF OnWorldVerifyLinks, TypeOK
    <2>2. \A s \in {0, 1} :
            Sent(fromWorld, m, worldLink[m], Verdict(r, s)) \in [Masters -> Seq(Packets)]
      BY <2>1, PacketTypes, SentType DEF TypeOK
    <2>3. fromWorld' \in [Masters -> Seq(Packets)]
      BY <1>2, <2>2 DEF OnWorldVerifyLinks
    <2>4. r.acct \in Accounts
      BY <2>1 DEF Requests
    <2>5. world' \in [Masters -> [WorldIDs -> WorldConns]]
      <3>1. CASE UNCHANGED world
        BY <3>1 DEF TypeOK
      <3>2. ASSUME NEW e \in WorldIDs,
                   world' = [world EXCEPT ![m][e].verified = TRUE, ![m][e].acct = r.acct]
            PROVE  world' \in [Masters -> [WorldIDs -> WorldConns]]
        <4> DEFINE w == [world[m][e] EXCEPT !.verified = TRUE, !.acct = r.acct]
        <4>0. world[m][e] \in WorldConns
          BY DEF TypeOK
        <4>1. w \in WorldConns
          BY <2>4, <4>0 DEF WorldConns
        <4>2. world' = [world EXCEPT ![m][e] = w]
          BY <3>2 DEF TypeOK, WorldConns
        <4> QED BY <4>1, <4>2, WorldSetType DEF TypeOK
      <3> QED BY <1>2, <3>1, <3>2 DEF OnWorldVerifyLinks
    <2>6. granted' \in SUBSET Requests
      BY ZenonT(60), <1>2, <2>1 DEF OnWorldVerifyLinks, TypeOK
    <2> QED
      BY <1>2, <2>1, <2>3, <2>5, <2>6 DEF OnWorldVerifyLinks, TypeOK, links
  <1>3. CASE OnWorldVerifyResult(m)
    BY <1>3, ReceivedType, SentType
    DEF OnWorldVerifyResult, TypeOK, conns, links, history
  <1>4. CASE OnMasterVerifyResult(m)
    <2> DEFINE res == Head(toAuth[m]).res
    <2>1. res \in Results /\ toAuth' \in [Masters -> Seq(Packets)]
      BY <1>4, ReceivedType, PacketFields DEF OnMasterVerifyResult, TypeOK
    <2>2. [by |-> m, status |-> res.status] \in [by : Masters, status : {0, 1}]
      BY <2>1 DEF Results
    <2>3. auth' \in [AuthIDs -> AuthConns]
      <3>1. CASE UNCHANGED auth
        BY <3>1 DEF TypeOK
      <3>2. ASSUME NEW c \in AuthIDs, auth' = [auth EXCEPT ![c].disc = TRUE]
            PROVE  auth' \in [AuthIDs -> AuthConns]
        BY ZenonT(60), <3>2 DEF TypeOK, AuthConns
      <3> QED BY <1>4, <3>1, <3>2 DEF OnMasterVerifyResult
    <2>4. told' \in [AuthIDs -> Seq([by : Masters, status : {0, 1}])]
      <3> DEFINE ans == [by |-> m, status |-> res.status]
      <3>1. CASE UNCHANGED told
        BY <3>1 DEF TypeOK
      <3>2. ASSUME NEW c \in AuthIDs, told' = [told EXCEPT ![c] = Append(@, ans)]
            PROVE  told' \in [AuthIDs -> Seq([by : Masters, status : {0, 1}])]
        <4>1. told[c] \in Seq([by : Masters, status : {0, 1}])
          BY DEF TypeOK
        <4>2. Append(told[c], ans) \in Seq([by : Masters, status : {0, 1}])
          BY <2>2, <4>1
        <4> QED BY <3>2, <4>2 DEF TypeOK
      <3> QED BY <1>4, <3>1, <3>2 DEF OnMasterVerifyResult
    <2> QED BY <1>4, <2>1, <2>3, <2>4 DEF OnMasterVerifyResult, TypeOK, links
  <1> QED BY <1>1, <1>2, <1>3, <1>4 DEF VerifyStep

LEMMA TypeStep == TypeOK /\ [Next]_vars => TypeOK'
  <1> SUFFICES ASSUME TypeOK, [Next]_vars PROVE TypeOK'
    OBVIOUS
  <1>1. CASE Next
    BY <1>1, TypeLinks, TypeAuth, TypeWorld, TypeVerify DEF Next
  <1>2. CASE UNCHANGED vars
    BY <1>2 DEF vars, conns, links, packets, history, TypeOK
  <1> QED BY <1>1, <1>2

\* The servers' tables, links and packets always have the types the code
\* declares, for every number of masters, clients and connection IDs.
THEOREM TypeCorrect == Spec => []TypeOK
  BY TypeInit, TypeStep, PTL DEF Spec

-----------------------------------------------------------------------------
(* Authenticity of the hand-off: what a world binds was asked for.         *)

LEMMA CarriesFewer ==
    ASSUME NEW chan \in [Masters -> Seq(Packets)], NEW m \in Masters,
           NEW made, CarriesAsked(chan, made)
    PROVE  /\ CarriesAsked([chan EXCEPT ![m] = <<>>], made)
           /\ chan[m] # <<>> => CarriesAsked([chan EXCEPT ![m] = Tail(@)], made)
  <1>1. CarriesAsked([chan EXCEPT ![m] = <<>>], made)
    BY DEF CarriesAsked
  <1>2. ASSUME chan[m] # <<>>
        PROVE  CarriesAsked([chan EXCEPT ![m] = Tail(@)], made)
    <2>1. \A i \in DOMAIN Tail(chan[m]) :
             i + 1 \in DOMAIN chan[m] /\ Tail(chan[m])[i] = chan[m][i + 1]
      BY <1>2
    <2> QED BY <2>1 DEF CarriesAsked
  <1> QED BY <1>1, <1>2

LEMMA CarriesSent ==
    ASSUME NEW chan \in [Masters -> Seq(Packets)], NEW m \in Masters,
           NEW up, NEW p \in Packets, NEW made, CarriesAsked(chan, made),
           p.kind = "VERIFYLINKS" => p.req \in made
    PROVE  CarriesAsked(Sent(chan, m, up, p), made)
  <1>1. \A i \in DOMAIN Append(chan[m], p) :
           \/ i \in DOMAIN chan[m] /\ Append(chan[m], p)[i] = chan[m][i]
           \/ Append(chan[m], p)[i] = p
    OBVIOUS
  <1> QED BY <1>1 DEF CarriesAsked, Sent

LEMMA CarriesHead ==
    ASSUME NEW chan \in [Masters -> Seq(Packets)], NEW m \in Masters,
           NEW made, CarriesAsked(chan, made),
           Receives(chan, m, "VERIFYLINKS")
    PROVE  Head(chan[m]).req \in made
  BY DEF CarriesAsked, Receives

LEMMA CarriesMore ==
    ASSUME NEW chan, NEW made, NEW more, CarriesAsked(chan, made),
           made \subseteq more
    PROVE  CarriesAsked(chan, more)
  BY DEF CarriesAsked

LEMMA AuthenticInit == Init => Authentic
  <1> SUFFICES ASSUME Init PROVE Authentic
    OBVIOUS
  <1>1. TypeOK
    BY TypeInit
  <1>2. CarriesAsked(toMaster, asked) /\ CarriesAsked(toWorld, asked)
    BY DEF Init, CarriesAsked
  <1>3. granted \subseteq asked /\ KeysIssued /\ SessionsGranted
    BY DEF Init, KeysIssued, SessionsGranted, WorldConn
  <1> QED BY <1>1, <1>2, <1>3 DEF Authentic

\* A step that leaves the worlds and the history alone has only the packets
\* to account for.
LEMMA AuthenticFrame ==
    ASSUME Authentic, TypeOK', UNCHANGED <<world, history>>,
           CarriesAsked(toMaster', asked), CarriesAsked(toWorld', asked)
    PROVE  Authentic'
  BY DEF Authentic, KeysIssued, SessionsGranted, CarriesAsked, history

LEMMA AuthenticLinks ==
    ASSUME Authentic, TypeOK', NEW m \in Masters, LinkStep(m) \/ Break(m)
    PROVE  Authentic'
  <1>0. /\ toMaster \in [Masters -> Seq(Packets)] /\ toWorld \in [Masters -> Seq(Packets)]
        /\ CarriesAsked(toMaster, asked) /\ CarriesAsked(toWorld, asked)
    BY DEF Authentic, TypeOK
  <1>1. CarriesAsked(Sent(toMaster, m, TRUE, Control("ACKCONNECT")), asked)
    BY <1>0, CarriesSent, PacketTypes DEF Control
  <1>2. CarriesAsked(Sent(toWorld, m, TRUE, Control("ACKCONNECT")), asked)
    BY <1>0, CarriesSent, PacketTypes DEF Control
  <1>3. /\ CarriesAsked([toMaster EXCEPT ![m] = <<>>], asked)
        /\ CarriesAsked([toWorld EXCEPT ![m] = <<>>], asked)
        /\ toMaster[m] # <<>> => CarriesAsked([toMaster EXCEPT ![m] = Tail(@)], asked)
        /\ toWorld[m] # <<>> => CarriesAsked([toWorld EXCEPT ![m] = Tail(@)], asked)
    BY <1>0, CarriesFewer
  <1>4. UNCHANGED <<world, history>>
    BY DEF LinkStep, Break, ConnectAuth, OnMasterConnect, OnAuthConnect,
           BroadcastWorldList, OnMasterWorldList, ConnectWorld, OnWorldConnect,
           OnWorldAcknowledged, BreakAuth, BreakWorld, conns, history
  <1>5. CarriesAsked(toMaster', asked) /\ CarriesAsked(toWorld', asked)
    <2>1. CASE ConnectAuth(m) \/ BreakAuth(m)
      BY <2>1, <1>0, <1>3 DEF ConnectAuth, BreakAuth
    <2>2. CASE OnMasterConnect(m)
      BY <2>2, <1>0, <1>1 DEF OnMasterConnect
    <2>3. CASE OnAuthConnect(m)
      BY <2>3, <1>0, <1>3 DEF OnAuthConnect, Receives
    <2>4. CASE BroadcastWorldList(m) \/ OnMasterWorldList(m)
      BY <2>4, <1>0 DEF BroadcastWorldList, OnMasterWorldList
    <2>5. CASE ConnectWorld(m) \/ BreakWorld(m)
      BY <2>5, <1>0, <1>3 DEF ConnectWorld, BreakWorld
    <2>6. CASE OnWorldConnect(m)
      BY <2>6, <1>0, <1>2 DEF OnWorldConnect
    <2>7. CASE OnWorldAcknowledged(m)
      BY <2>7, <1>0, <1>3 DEF OnWorldAcknowledged, Receives
    <2> QED BY <2>1, <2>2, <2>3, <2>4, <2>5, <2>6, <2>7 DEF LinkStep, Break
  <1> QED BY <1>4, <1>5, AuthenticFrame

LEMMA AuthenticAuth ==
    ASSUME Authentic, TypeOK', NEW c \in AuthIDs, AuthStep(c)
    PROVE  Authentic'
  <1>0. /\ toMaster \in [Masters -> Seq(Packets)] /\ toWorld \in [Masters -> Seq(Packets)]
        /\ CarriesAsked(toMaster, asked) /\ CarriesAsked(toWorld, asked) /\ TypeOK
    BY DEF Authentic, TypeOK
  <1>1. CASE UNCHANGED <<world, history, toMaster, toWorld>>
    BY <1>0, <1>1, AuthenticFrame
  <1>2. ASSUME NEW m \in Masters, NEW k \in Keys, NEW e \in EntityIDs,
               NEW ok \in BOOLEAN, OnVerifyLinks(c, m, k, e, ok)
        PROVE  Authentic'
    <2> DEFINE r == Request(c, m, k, e)
    <2>1. /\ asked' = asked \cup {r}
          /\ UNCHANGED <<world, toWorld, granted, issued>>
      BY <1>2 DEF OnVerifyLinks
    <2>2. r \in Requests
      BY <1>0, <1>2, RequestType DEF OnVerifyLinks
    <2>3. VerifyLinks(r) \in Packets /\ VerifyLinks(r).req = r
      BY <2>2, PacketTypes DEF VerifyLinks
    <2>4. CarriesAsked(toMaster, asked') /\ CarriesAsked(toWorld, asked')
      BY <1>0, <2>1, CarriesMore
    <2>5. \A n \in Masters :
             CarriesAsked(Sent(toMaster, n, authLink[n], VerifyLinks(r)), asked')
      BY <1>0, <2>1, <2>3, <2>4, CarriesSent
    <2>6. CarriesAsked(toMaster', asked')
      <3>1. toMaster' = [n \in Masters |->
                           Sent(toMaster, n, authLink[n], VerifyLinks(r))[n]]
        BY <1>2 DEF OnVerifyLinks
      <3> QED BY <3>1, <2>5 DEF CarriesAsked
    <2>7. KeysIssued' /\ SessionsGranted' /\ granted' \subseteq asked'
      BY <2>1 DEF Authentic, KeysIssued, SessionsGranted
    <2> QED BY <2>1, <2>4, <2>6, <2>7 DEF Authentic
  <1> QED
    BY <1>1, <1>2
    DEF AuthStep, AuthAccept, AuthClose, AuthReap, OnAuthenticate,
        OnVerifyLinksError, packets, history

LEMMA AuthenticWorld ==
    ASSUME Authentic, TypeOK', NEW m \in Masters, WorldStep(m)
    PROVE  Authentic'
  <1>0. PICK e \in WorldIDs :
            \/ WorldAccept(m, e) \/ WorldLost(m, e) \/ WorldReap(m, e)
            \/ \E k \in Keys : OnConnect(m, e, k)
    BY DEF WorldStep
  <1>1. UNCHANGED <<toMaster, toWorld, asked, granted>>
    BY <1>0 DEF WorldAccept, WorldLost, WorldReap, OnConnect, packets, history
  <1>2. world \in [Masters -> [WorldIDs -> WorldConns]]
        /\ issued \in [Masters -> [WorldIDs -> SUBSET Keys]]
    BY DEF Authentic, TypeOK
  <1>3. \A n \in Masters : \A d \in WorldIDs : issued[n][d] \subseteq issued'[n][d]
    <2>1. CASE UNCHANGED issued
      BY <2>1
    <2>2. ASSUME NEW k \in Keys, OnConnect(m, e, k)
          PROVE  \A n \in Masters : \A d \in WorldIDs : issued[n][d] \subseteq issued'[n][d]
      BY <1>2, <2>2 DEF OnConnect
    <2> QED BY <1>0, <2>1, <2>2 DEF WorldAccept, WorldLost, WorldReap, history
  <1>4. \A n \in Masters : \A d \in WorldIDs :
           /\ world'[n][d].verified => /\ world[n][d].verified
                                       /\ world'[n][d].acct = world[n][d].acct
           /\ \/ world'[n][d].key = NoKey
              \/ world'[n][d].key = world[n][d].key
              \/ world'[n][d].key \in issued'[n][d]
    <2>1. CASE WorldAccept(m, e)
      BY <2>1, <1>2 DEF WorldAccept, WorldConns
    <2>2. CASE WorldLost(m, e)
      BY <2>2, <1>2 DEF WorldLost, WorldConns
    <2>3. CASE WorldReap(m, e)
      BY <2>3, <1>2 DEF WorldReap, WorldConn
    <2>4. ASSUME NEW k \in Keys, OnConnect(m, e, k)
          PROVE  \A n \in Masters : \A d \in WorldIDs :
                    /\ world'[n][d].verified => /\ world[n][d].verified
                                                /\ world'[n][d].acct = world[n][d].acct
                    /\ \/ world'[n][d].key = NoKey
                       \/ world'[n][d].key = world[n][d].key
                       \/ world'[n][d].key \in issued'[n][d]
      BY <2>4, <1>2 DEF OnConnect, WorldConns
    <2> QED BY <1>0, <2>1, <2>2, <2>3, <2>4
  <1>5. KeysIssued' /\ SessionsGranted'
    BY <1>1, <1>3, <1>4 DEF Authentic, KeysIssued, SessionsGranted
  <1> QED BY <1>1, <1>5 DEF Authentic, CarriesAsked

\* What binding a connection does to the connections of the worlds.
LEMMA BindEffect ==
    ASSUME world \in [Masters -> [WorldIDs -> WorldConns]],
           NEW m \in Masters, NEW e \in WorldIDs, NEW a,
           world' = [world EXCEPT ![m][e].verified = TRUE, ![m][e].acct = a]
    PROVE  \A n \in Masters : \A d \in WorldIDs :
             /\ world'[n][d].key = world[n][d].key
             /\ \/ n = m /\ d = e /\ world'[n][d].acct = a
                \/ world'[n][d] = world[n][d]
  <1> DEFINE w == [world[m][e] EXCEPT !.verified = TRUE, !.acct = a]
  <1>1. world[m][e] \in WorldConns
    OBVIOUS
  <1>2. w.key = world[m][e].key /\ w.acct = a
    BY <1>1 DEF WorldConns
  <1>3. world' = [world EXCEPT ![m][e] = w]
    BY DEF WorldConns
  <1>4. world'[m][e] = w
    BY <1>3
  <1>5. \A n \in Masters : \A d \in WorldIDs :
           ~(n = m /\ d = e) => world'[n][d] = world[n][d]
    BY <1>3
  <1> QED BY <1>2, <1>4, <1>5

LEMMA AuthenticVerify ==
    ASSUME Authentic, TypeOK', NEW m \in Masters, VerifyStep(m)
    PROVE  Authentic'
  <1>0. /\ toMaster \in [Masters -> Seq(Packets)] /\ toWorld \in [Masters -> Seq(Packets)]
        /\ CarriesAsked(toMaster, asked) /\ CarriesAsked(toWorld, asked)
    BY DEF Authentic, TypeOK
  <1>1. CASE OnAuthVerifyLinks(m)
    <2> DEFINE r == Head(toMaster[m]).req
    <2>1. /\ Receives(toMaster, m, "VERIFYLINKS") /\ toMaster[m] # <<>>
          /\ toMaster' = [toMaster EXCEPT ![m] = Tail(@)]
      BY <1>1 DEF OnAuthVerifyLinks, Receives
    <2>2. r \in asked /\ VerifyLinks(r) \in Packets
      BY <1>0, <2>1, CarriesHead, PacketTypes DEF Authentic, TypeOK
    <2>3. CarriesAsked(toMaster', asked)
      BY <1>0, <2>1, CarriesFewer
    <2>4. CarriesAsked(Sent(toWorld, m, worldLink[m], VerifyLinks(r)), asked)
      BY <1>0, <2>2, CarriesSent DEF VerifyLinks
    <2>5. CarriesAsked(toWorld', asked)
      BY <1>0, <1>1, <2>4 DEF OnAuthVerifyLinks
    <2>6. UNCHANGED <<world, history>>
      BY <1>1 DEF OnAuthVerifyLinks, conns
    <2> QED BY <2>3, <2>5, <2>6, AuthenticFrame
  <1>2. CASE OnWorldVerifyLinks(m)
    <2> DEFINE r == Head(toWorld[m]).req
    <2>1. /\ Receives(toWorld, m, "VERIFYLINKS") /\ toWorld[m] # <<>>
          /\ toWorld' = [toWorld EXCEPT ![m] = Tail(@)]
          /\ UNCHANGED <<toMaster, asked, issued>>
      BY <1>2 DEF OnWorldVerifyLinks, Receives
    <2>2. r \in asked
      BY <1>0, <2>1, CarriesHead
    <2>3. CarriesAsked(toWorld', asked') /\ CarriesAsked(toMaster', asked')
      BY <1>0, <2>1, CarriesFewer
    <2>4. CASE UNCHANGED <<world, granted>>
      BY <2>1, <2>3, <2>4 DEF Authentic, KeysIssued, SessionsGranted
    <2>5. ASSUME NEW e \in WorldIDs, r.to = m, Matches(m, r, e),
                 world' = [world EXCEPT ![m][e].verified = TRUE,
                                        ![m][e].acct = r.acct],
                 granted' = granted \cup {r}
          PROVE  Authentic'
      <3>1. world \in [Masters -> [WorldIDs -> WorldConns]]
        BY DEF Authentic, TypeOK
      <3>2. \A n \in Masters : \A d \in WorldIDs :
               /\ world'[n][d].key = world[n][d].key
               /\ \/ n = m /\ d = e /\ world'[n][d].acct = r.acct
                  \/ world'[n][d] = world[n][d]
        BY SMTT(60), <2>5, <3>1, BindEffect
      <3>3. r.entity = e /\ r.key \in issued[m][e]
        BY <2>5 DEF Matches, Authentic, KeysIssued
      <3>4. KeysIssued'
        BY <2>1, <3>2 DEF Authentic, KeysIssued
      <3>5. SessionsGranted'
        <4> SUFFICES ASSUME NEW n \in Masters, NEW d \in WorldIDs,
                            world'[n][d].verified
                     PROVE  \E q \in granted' \cap asked' :
                              /\ q.to = n /\ q.entity = d
                              /\ q.acct = world'[n][d].acct
                              /\ q.key \in issued'[n][d]
          BY DEF SessionsGranted
        <4>1. CASE world'[n][d] = world[n][d]
          BY <4>1, <2>1, <2>5 DEF Authentic, SessionsGranted
        <4>2. CASE n = m /\ d = e /\ world'[n][d].acct = r.acct
          BY <4>2, <2>1, <2>2, <2>5, <3>3
        <4> QED BY <3>2, <4>1, <4>2
      <3>6. granted' \subseteq asked'
        BY <2>1, <2>2, <2>5 DEF Authentic
      <3> QED BY <2>3, <3>4, <3>5, <3>6 DEF Authentic
    <2> QED BY <1>2, <2>4, <2>5 DEF OnWorldVerifyLinks
  <1>3. CASE OnWorldVerifyResult(m)
    BY <1>0, <1>3, AuthenticFrame DEF OnWorldVerifyResult, conns
  <1>4. CASE OnMasterVerifyResult(m)
    <2>1. UNCHANGED <<world, toMaster, toWorld, asked, granted, issued>>
      BY <1>4 DEF OnMasterVerifyResult
    <2> QED BY <2>1, <1>0 DEF Authentic, KeysIssued, SessionsGranted, CarriesAsked
  <1> QED BY <1>1, <1>2, <1>3, <1>4 DEF VerifyStep

LEMMA AuthenticStep == Authentic /\ [Next]_vars => Authentic'
  <1> SUFFICES ASSUME Authentic, [Next]_vars PROVE Authentic'
    OBVIOUS
  <1>1. TypeOK'
    BY TypeStep DEF Authentic
  <1>2. CASE Next
    BY <1>1, <1>2, AuthenticLinks, AuthenticAuth, AuthenticWorld, AuthenticVerify
    DEF Next
  <1>3. CASE UNCHANGED vars
    <2>1. UNCHANGED <<world, history, toMaster, toWorld>>
      BY <1>3 DEF vars, conns, packets
    <2> QED BY <1>1, <2>1, AuthenticFrame DEF Authentic
  <1> QED BY <1>2, <1>3

\* Whoever plays on a world connection plays under the account of a request
\* that AuthSvr sent, that this world accepted, and that named this connection
\* and a key it was given: for any number of servers, clients and link breaks.
THEOREM HandoffAuthentic == Spec => []SessionsGranted
  <1>1. Authentic => SessionsGranted
    BY DEF Authentic
  <1> QED BY <1>1, AuthenticInit, AuthenticStep, PTL DEF Spec

\* No later request, refused or accepted, moves a bound world connection to
\* another account while it lives.
THEOREM HandoffPinned == Spec => AccountPinned
  <1> DEFINE Pinned ==
        \A m \in Masters : \A e \in WorldIDs :
          world[m][e].verified =>
              \/ world'[m][e].verified /\ world'[m][e].acct = world[m][e].acct
              \/ world'[m][e].phase = "gone"
  <1>1. TypeOK /\ [Next]_vars => [Pinned]_vars
    <2> SUFFICES ASSUME TypeOK, Next PROVE Pinned
      OBVIOUS
    <2>0. world \in [Masters -> [WorldIDs -> WorldConns]]
      BY DEF TypeOK
    <2>1. CASE UNCHANGED world
      BY <2>1
    <2>2. ASSUME NEW m \in Masters, WorldStep(m) PROVE Pinned
      <3>0. PICK e \in WorldIDs :
                \/ WorldAccept(m, e) \/ WorldLost(m, e) \/ WorldReap(m, e)
                \/ \E k \in Keys : OnConnect(m, e, k)
        BY <2>2 DEF WorldStep
      <3>1. CASE WorldAccept(m, e)
        BY <3>1, <2>0 DEF WorldAccept, WorldConns
      <3>2. CASE WorldLost(m, e)
        BY <3>2, <2>0 DEF WorldLost, WorldConns
      <3>3. CASE WorldReap(m, e)
        BY <3>3, <2>0 DEF WorldReap, WorldConn
      <3>4. ASSUME NEW k \in Keys, OnConnect(m, e, k) PROVE Pinned
        BY <3>4, <2>0 DEF OnConnect, WorldConns
      <3> QED BY <3>0, <3>1, <3>2, <3>3, <3>4
    <2>3. ASSUME NEW m \in Masters, OnWorldVerifyLinks(m) PROVE Pinned
      <3>1. CASE UNCHANGED world
        BY <3>1
      <3>2. ASSUME NEW e \in WorldIDs, NEW a, ~world[m][e].verified,
                   world' = [world EXCEPT ![m][e].verified = TRUE, ![m][e].acct = a]
            PROVE  Pinned
        BY <3>2, <2>0, BindEffect
      <3> QED BY <2>3, <3>1, <3>2 DEF OnWorldVerifyLinks
    <2>4. \/ UNCHANGED world
          \/ \E m \in Masters : WorldStep(m) \/ OnWorldVerifyLinks(m)
      BY ZenonT(60) DEF Next, LinkStep, VerifyStep, Break, AuthStep, ConnectAuth,
             OnMasterConnect, OnAuthConnect, BroadcastWorldList,
             OnMasterWorldList, ConnectWorld, OnWorldConnect,
             OnWorldAcknowledged, BreakAuth, BreakWorld, OnAuthVerifyLinks,
             OnWorldVerifyResult, OnMasterVerifyResult, AuthAccept, AuthClose,
             AuthReap, OnAuthenticate, OnVerifyLinksError, OnVerifyLinks, conns
    <2> QED BY <2>1, <2>2, <2>3, <2>4
  <1> QED BY <1>1, TypeInit, TypeStep, PTL DEF Spec, AccountPinned
-----------------------------------------------------------------------------
Channels == [Masters -> Seq(Packets)]

-----------------------------------------------------------------------------
(* What one step of a channel does to the pieces it carries.               *)

\* T has no piece where S had none, and no two where S had at most one.
NoMore(T, S) == (S = {} => T = {}) /\ (Lone(S) => Lone(T))

\* Fewer pieces in every place keep the count.
LEMMA OneOfFewer ==
    ASSUME NEW A, NEW B, NEW C, NEW D, NEW E, OneOf(A, B, C, D, E),
           NEW A2, NEW B2, NEW C2, NEW D2, NEW E2,
           NoMore(A2, A), NoMore(B2, B), NoMore(C2, C), NoMore(D2, D), NoMore(E2, E)
    PROVE  OneOf(A2, B2, C2, D2, E2)
  <1> USE DEF NoMore
  <1> HIDE DEF Lone
  <1> QED BY DEF OneOf

\* A channel loses its first packet: a piece it was is in no other place of
\* that channel.
LEMMA Popped ==
    ASSUME NEW chan \in Channels, NEW m \in Masters, chan[m] # <<>>
    PROVE  /\ \A n \in Masters : \A c :
                 NoMore(Carried([chan EXCEPT ![m] = Tail(@)], n, c), Carried(chan, n, c))
           /\ \A c : About(Head(chan[m]), c) =>
                 /\ Carried(chan, m, c) # {}
                 /\ Lone(Carried(chan, m, c)) =>
                        Carried([chan EXCEPT ![m] = Tail(@)], m, c) = {}
           /\ \A made, given : Fitting(chan, made, given) =>
                 /\ Fitting([chan EXCEPT ![m] = Tail(@)], made, given)
                 /\ Fits(Head(chan[m]), m, made, given)
  <1> DEFINE Q == [chan EXCEPT ![m] = Tail(@)]
  <1>1. chan[m] \in Seq(Packets) /\ 1 \in DOMAIN chan[m] /\ Head(chan[m]) = chan[m][1]
    BY DEF Channels
  <1>2. /\ DOMAIN Q = Masters
        /\ \A n \in Masters : n # m => Q[n] = chan[n]
        /\ Q[m] = Tail(chan[m])
    BY DEF Channels
  <1>3. \A i \in DOMAIN Q[m] : i \in Nat /\ i + 1 \in DOMAIN chan[m]
                                /\ i + 1 # 1 /\ Q[m][i] = chan[m][i + 1]
    BY <1>1, <1>2
  <1> HIDE DEF Q
  <1>4. \A c : \A i \in Carried(Q, m, c) : i \in Nat /\ i + 1 \in Carried(chan, m, c) /\ i + 1 # 1
    BY <1>3 DEF Carried
  <1>5. \A n \in Masters : \A c : NoMore(Carried(Q, n, c), Carried(chan, n, c))
    <2> SUFFICES ASSUME NEW n \in Masters, NEW c
                 PROVE  NoMore(Carried(Q, n, c), Carried(chan, n, c))
      OBVIOUS
    <2>1. CASE n # m
      BY <1>2, <2>1 DEF NoMore, Carried
    <2>2. CASE n = m
      <3>1. Carried(chan, m, c) = {} => Carried(Q, m, c) = {}
        BY <1>4
      <3>2. Lone(Carried(chan, m, c)) => Lone(Carried(Q, m, c))
        <4> SUFFICES ASSUME Lone(Carried(chan, m, c)), NEW x \in Carried(Q, m, c),
                            NEW y \in Carried(Q, m, c)
                     PROVE  x = y
          BY DEF Lone
        <4>1. x + 1 = y + 1
          BY <1>4 DEF Lone
        <4> QED BY <4>1, <1>4
      <3> QED BY <2>2, <3>1, <3>2 DEF NoMore
    <2> QED BY <2>1, <2>2
  <1>6. ASSUME NEW c, About(Head(chan[m]), c)
        PROVE  /\ Carried(chan, m, c) # {}
               /\ Lone(Carried(chan, m, c)) => Carried(Q, m, c) = {}
    <2>1. 1 \in Carried(chan, m, c)
      BY <1>1, <1>6 DEF Carried
    <2> QED BY <1>4, <2>1 DEF Lone
  <1>7. ASSUME NEW made, NEW given, Fitting(chan, made, given)
        PROVE  Fitting(Q, made, given) /\ Fits(Head(chan[m]), m, made, given)
    BY <1>1, <1>2, <1>3, <1>7 DEF Fitting
  <1> QED BY <1>5, <1>6, <1>7 DEF Q

\* A packet is put on a channel.
LEMMA Appended ==
    ASSUME NEW chan \in Channels, NEW m \in Masters, NEW up, NEW p
    PROVE  /\ \A n \in Masters : \A c : n # m \/ ~About(p, c) =>
                 NoMore(Carried(Sent(chan, m, up, p), n, c), Carried(chan, n, c))
           /\ \A c : Carried(chan, m, c) = {} => Lone(Carried(Sent(chan, m, up, p), m, c))
           /\ \A made, given : Fitting(chan, made, given) /\ Fits(p, m, made, given)
                 => Fitting(Sent(chan, m, up, p), made, given)
  <1> DEFINE Q == Sent(chan, m, up, p)
  <1>1. CASE ~up
    BY <1>1 DEF Sent, NoMore, Lone
  <1>2. CASE up
    <2>1. Q = [chan EXCEPT ![m] = Append(@, p)]
      BY <1>2 DEF Sent
    <2>2. /\ \A n \in Masters : n # m => Q[n] = chan[n]
          /\ Q[m] = Append(chan[m], p)
      BY <2>1 DEF Channels
    <2>3. chan[m] \in Seq(Packets)
      BY DEF Channels
    <2>4. /\ DOMAIN Q[m] = DOMAIN chan[m] \cup {Len(chan[m]) + 1}
          /\ Q[m][Len(chan[m]) + 1] = p
          /\ \A i \in DOMAIN chan[m] : Q[m][i] = chan[m][i]
      BY <2>2, <2>3
    <2> HIDE DEF Q
    <2>5. \A c : Carried(Q, m, c) \subseteq Carried(chan, m, c) \cup {Len(chan[m]) + 1}
      BY <2>4 DEF Carried
    <2>6. \A c : ~About(p, c) => Carried(Q, m, c) \subseteq Carried(chan, m, c)
      BY <2>4 DEF Carried
    <2>7. \A n \in Masters : n # m => \A c : Carried(Q, n, c) = Carried(chan, n, c)
      BY <2>2 DEF Carried
    <2>8. \A n \in Masters : \A c : n # m \/ ~About(p, c) =>
             NoMore(Carried(Q, n, c), Carried(chan, n, c))
      BY <2>6, <2>7 DEF NoMore, Lone
    <2>9. \A c : Carried(chan, m, c) = {} => Lone(Carried(Q, m, c))
      BY <2>5 DEF Lone
    <2>10. \A made, given : Fitting(chan, made, given) /\ Fits(p, m, made, given)
             => Fitting(Q, made, given)
      BY <2>2, <2>4 DEF Fitting
    <2> QED BY <2>8, <2>9, <2>10 DEF Q
  <1> QED BY <1>1, <1>2

\* A channel is reset: it holds nothing, or one control packet.
LEMMA Reset ==
    ASSUME NEW chan \in Channels, NEW m \in Masters, NEW q,
           q = <<>> \/ q = <<Control("REQCONNECT")>>
    PROVE  /\ \A n \in Masters : \A c :
                 NoMore(Carried([chan EXCEPT ![m] = q], n, c), Carried(chan, n, c))
           /\ \A made, given : Fitting(chan, made, given)
                 => Fitting([chan EXCEPT ![m] = q], made, given)
  <1> DEFINE Q == [chan EXCEPT ![m] = q]
  <1>1. \A n \in Masters : n # m => Q[n] = chan[n]
    BY DEF Channels
  <1>2. Q[m] = q
    BY DEF Channels
  <1>3. \A i \in DOMAIN q : q[i].kind = "REQCONNECT"
    BY DEF Control
  <1> HIDE DEF Q
  <1>4. \A c : Carried(Q, m, c) = {}
    BY <1>2, <1>3 DEF Carried, About
  <1>5. \A n \in Masters : n # m => \A c : Carried(Q, n, c) = Carried(chan, n, c)
    BY <1>1 DEF Carried
  <1>6. \A n \in Masters : \A c : NoMore(Carried(Q, n, c), Carried(chan, n, c))
    BY <1>4, <1>5 DEF NoMore, Lone
  <1>7. \A made, given : Fitting(chan, made, given) => Fitting(Q, made, given)
    BY <1>1, <1>2, <1>3 DEF Fitting, Fits
  <1> QED BY <1>6, <1>7 DEF Q

-----------------------------------------------------------------------------
(* HandoffInv holds in every state.                                        *)

LEMMA HandoffInit == Init => HandoffInv
  <1> SUFFICES ASSUME Init PROVE HandoffInv
    OBVIOUS
  <1>1. Authentic
    BY AuthenticInit
  <1>2. OneRequest /\ GrantsBound
    BY DEF Init, OneRequest, GrantsBound
  <1>3. /\ Fitting(toMaster, asked, granted) /\ Fitting(toWorld, asked, granted)
        /\ Fitting(fromWorld, asked, granted) /\ Fitting(toAuth, asked, granted)
    BY DEF Init, Fitting
  <1>4. OnePiece
    BY DEF Init, OnePiece, OneOf, Lone, Carried, Heard
  <1> QED BY <1>1, <1>2, <1>3, <1>4 DEF HandoffInv

\* Every channel still fits the history, and carries nothing it did not.
Fits4 ==
    /\ Fitting(toMaster, asked, granted) /\ Fitting(toWorld, asked, granted)
    /\ Fitting(fromWorld, asked, granted) /\ Fitting(toAuth, asked, granted)

Quieter(chan2, chan) ==
    \A m \in Masters : \A c : NoMore(Carried(chan2, m, c), Carried(chan, m, c))

LEMMA QuieterSame == ASSUME NEW chan PROVE Quieter(chan, chan)
  BY DEF Quieter, NoMore

\* Steps that ask, accept and answer nothing, and only take packets away.
LEMMA QuietStep ==
    ASSUME HandoffInv, Authentic', OneRequest', GrantsBound', Fits4',
           UNCHANGED told,
           Quieter(toMaster', toMaster), Quieter(toWorld', toWorld),
           Quieter(fromWorld', fromWorld), Quieter(toAuth', toAuth)
    PROVE  HandoffInv'
  <1>1. OnePiece'
    <2> SUFFICES ASSUME NEW m \in Masters, NEW c \in AuthIDs
                 PROVE  OneOf(Carried(toMaster', m, c), Carried(toWorld', m, c),
                              Carried(fromWorld', m, c), Carried(toAuth', m, c), Heard(m, c)')
      BY DEF OnePiece
    <2>1. OneOf(Carried(toMaster, m, c), Carried(toWorld, m, c),
                Carried(fromWorld, m, c), Carried(toAuth, m, c), Heard(m, c))
      BY DEF HandoffInv, OnePiece
    <2>2. NoMore(Heard(m, c)', Heard(m, c))
      BY DEF NoMore, Heard
    <2> QED BY ONLY <2>1, <2>2, m \in Masters, OneOfFewer,
                    Quieter(toMaster', toMaster), Quieter(toWorld', toWorld),
                    Quieter(fromWorld', fromWorld), Quieter(toAuth', toAuth)
            DEF Quieter
  <1> QED BY <1>1 DEF HandoffInv, Fits4

LEMMA ChannelTypes ==
    ASSUME TypeOK
    PROVE  toMaster \in Channels /\ toWorld \in Channels
           /\ fromWorld \in Channels /\ toAuth \in Channels
  BY DEF TypeOK, Channels

\* A packet that is neither a request nor an answer.
LEMMA Plain ==
    ASSUME NEW m \in Masters, NEW made, NEW given
    PROVE  /\ \A k \in {"REQCONNECT", "ACKCONNECT"} :
                 Fits(Control(k), m, made, given) /\ \A c : ~About(Control(k), c)
           /\ \A b : Fits(WorldList(b), m, made, given) /\ \A c : ~About(WorldList(b), c)
  BY DEF Control, WorldList, Fits, About

LEMMA SentPlain ==
    ASSUME NEW chan \in Channels, NEW m \in Masters, NEW up, NEW p,
           \A c : ~About(p, c), Fits(p, m, asked, granted),
           Fitting(chan, asked, granted)
    PROVE  /\ Quieter(Sent(chan, m, up, p), chan)
           /\ Fitting(Sent(chan, m, up, p), asked, granted)
  BY Appended DEF Quieter

LEMMA Shortened ==
    ASSUME NEW chan \in Channels, NEW m \in Masters, chan[m] # <<>>,
           Fitting(chan, asked, granted)
    PROVE  /\ Quieter([chan EXCEPT ![m] = Tail(@)], chan)
           /\ Fitting([chan EXCEPT ![m] = Tail(@)], asked, granted)
  BY Popped DEF Quieter

LEMMA Resets ==
    ASSUME NEW chan \in Channels, NEW m \in Masters, NEW q,
           q = <<>> \/ q = <<Control("REQCONNECT")>>,
           Fitting(chan, asked, granted)
    PROVE  /\ Quieter([chan EXCEPT ![m] = q], chan)
           /\ Fitting([chan EXCEPT ![m] = q], asked, granted)
  BY Reset DEF Quieter

\* The requests and the worlds' connections: what a step needs to leave alone.
LEMMA OneRequestKept ==
    ASSUME OneRequest, UNCHANGED <<asked, told>>,
           \A c \in AuthIDs : auth[c].verified \/ auth[c].phase = "gone"
                           => auth'[c].verified \/ auth'[c].phase = "gone"
    PROVE  OneRequest'
  BY DEF OneRequest

LEMMA GrantsBoundKept ==
    ASSUME GrantsBound, UNCHANGED granted, granted \subseteq Requests,
           \A m \in Masters : \A e \in WorldIDs :
              world[m][e].verified \/ world[m][e].phase = "gone"
                  => world'[m][e].verified \/ world'[m][e].phase = "gone"
    PROVE  GrantsBound'
  BY DEF GrantsBound, Requests

LEMMA InvLinks ==
    ASSUME HandoffInv, Authentic', NEW m \in Masters, LinkStep(m) \/ Break(m)
    PROVE  HandoffInv' /\ UNCHANGED <<asked, granted, told>>
  <1>0. TypeOK /\ Fits4 /\ OneRequest /\ GrantsBound /\ granted \subseteq Requests
    BY DEF HandoffInv, Fits4, Authentic, TypeOK
  <1>1. /\ toMaster \in Channels /\ toWorld \in Channels
        /\ fromWorld \in Channels /\ toAuth \in Channels
    BY <1>0, ChannelTypes
  <1>2. UNCHANGED <<auth, world, asked, granted, issued, told>>
    BY DEF LinkStep, Break, ConnectAuth, OnMasterConnect, OnAuthConnect,
           BroadcastWorldList, OnMasterWorldList, ConnectWorld, OnWorldConnect,
           OnWorldAcknowledged, BreakAuth, BreakWorld, conns, history
  <1>3. OneRequest' /\ GrantsBound'
    BY <1>0, <1>2, OneRequestKept, GrantsBoundKept
  <1>4. ASSUME NEW chan \in Channels, Fitting(chan, asked, granted)
        PROVE  /\ chan[m] # <<>> => /\ Quieter([chan EXCEPT ![m] = Tail(@)], chan)
                                    /\ Fitting([chan EXCEPT ![m] = Tail(@)], asked, granted)
               /\ \A q \in {<<>>, <<Control("REQCONNECT")>>} :
                     /\ Quieter([chan EXCEPT ![m] = q], chan)
                     /\ Fitting([chan EXCEPT ![m] = q], asked, granted)
               /\ \A up : \A b :
                     /\ Quieter(Sent(chan, m, up, WorldList(b)), chan)
                     /\ Fitting(Sent(chan, m, up, WorldList(b)), asked, granted)
               /\ \A up :
                     /\ Quieter(Sent(chan, m, up, Control("ACKCONNECT")), chan)
                     /\ Fitting(Sent(chan, m, up, Control("ACKCONNECT")), asked, granted)
    <2>1. chan[m] # <<>> => /\ Quieter([chan EXCEPT ![m] = Tail(@)], chan)
                            /\ Fitting([chan EXCEPT ![m] = Tail(@)], asked, granted)
      BY <1>4, Shortened
    <2>2. \A q \in {<<>>, <<Control("REQCONNECT")>>} :
                     /\ Quieter([chan EXCEPT ![m] = q], chan)
                     /\ Fitting([chan EXCEPT ![m] = q], asked, granted)
      BY <1>4, Resets
    <2>3. \A up : \A b :
                     /\ Quieter(Sent(chan, m, up, WorldList(b)), chan)
                     /\ Fitting(Sent(chan, m, up, WorldList(b)), asked, granted)
      BY <1>4, SentPlain, Plain
    <2>4. \A up : /\ Quieter(Sent(chan, m, up, Control("ACKCONNECT")), chan)
                  /\ Fitting(Sent(chan, m, up, Control("ACKCONNECT")), asked, granted)
      BY <1>4, SentPlain, Plain
    <2> QED BY <2>1, <2>2, <2>3, <2>4
  <1>5. \A chan : Quieter(chan, chan)
    BY QuieterSame
  <1>6. /\ Fits4'
        /\ Quieter(toMaster', toMaster) /\ Quieter(toWorld', toWorld)
        /\ Quieter(fromWorld', fromWorld) /\ Quieter(toAuth', toAuth)
    <2>1. CASE ConnectAuth(m)
      BY <2>1, <1>0, <1>1, <1>2, <1>4, <1>5 DEF ConnectAuth, Fits4
    <2>2. CASE OnMasterConnect(m)
      BY <2>2, <1>0, <1>1, <1>2, <1>4, <1>5 DEF OnMasterConnect, Receives, Fits4
    <2>3. CASE OnAuthConnect(m)
      BY <2>3, <1>0, <1>1, <1>2, <1>4, <1>5 DEF OnAuthConnect, Receives, Fits4
    <2>4. CASE BroadcastWorldList(m)
      BY <2>4, <1>0, <1>1, <1>2, <1>4, <1>5 DEF BroadcastWorldList, Fits4
    <2>5. CASE OnMasterWorldList(m)
      BY <2>5, <1>0, <1>1, <1>2, <1>4, <1>5 DEF OnMasterWorldList, Receives, Fits4
    <2>6. CASE ConnectWorld(m)
      BY <2>6, <1>0, <1>1, <1>2, <1>4, <1>5 DEF ConnectWorld, Fits4
    <2>7. CASE OnWorldConnect(m)
      BY <2>7, <1>0, <1>1, <1>2, <1>4, <1>5 DEF OnWorldConnect, Receives, Fits4
    <2>8. CASE OnWorldAcknowledged(m)
      BY <2>8, <1>0, <1>1, <1>2, <1>4, <1>5 DEF OnWorldAcknowledged, Receives, Fits4
    <2>9. CASE BreakAuth(m)
      BY <2>9, <1>0, <1>1, <1>2, <1>4, <1>5 DEF BreakAuth, Fits4
    <2>10. CASE BreakWorld(m)
      BY <2>10, <1>0, <1>1, <1>2, <1>4, <1>5 DEF BreakWorld, Fits4
    <2> QED BY <2>1, <2>2, <2>3, <2>4, <2>5, <2>6, <2>7, <2>8, <2>9, <2>10
            DEF LinkStep, Break
  <1> QED BY <1>2, <1>3, <1>6, QuietStep

\* A connection without a request has no piece anywhere.
LEMMA NoPieces ==
    ASSUME NEW chan, NEW made, NEW given, Fitting(chan, made, given),
           NEW c, \A q \in made : q.conn # c, NEW m \in Masters
    PROVE  Carried(chan, m, c) = {}
  BY DEF Fitting, Fits, Carried, About

LEMMA FittingMore ==
    ASSUME NEW chan, NEW made, NEW more, NEW given, Fitting(chan, made, given),
           made \subseteq more
    PROVE  Fitting(chan, more, given)
  BY DEF Fitting, Fits

\* The step that asks.
LEMMA InvAsk ==
    ASSUME IdsFit, HandoffInv, Authentic', NEW c \in AuthIDs, NEW m \in Masters,
           NEW k \in Keys, NEW e \in EntityIDs, NEW ok \in BOOLEAN,
           OnVerifyLinks(c, m, k, e, ok)
    PROVE  /\ HandoffInv'
           /\ \E r \in Requests : /\ r \in asked' \ asked
                                  /\ asked' = asked \cup {r}
                                  /\ \A q \in asked : q.conn # r.conn
                                  /\ UNCHANGED <<granted, told>>
  <1> DEFINE r == Request(c, m, k, e)
             p == VerifyLinks(r)
  <1>0. /\ TypeOK /\ Authentic /\ OneRequest /\ GrantsBound
        /\ Fitting(toMaster, asked, granted) /\ Fitting(toWorld, asked, granted)
        /\ Fitting(fromWorld, asked, granted) /\ Fitting(toAuth, asked, granted)
        /\ granted \subseteq asked
    BY DEF HandoffInv, Authentic
  <1>1. /\ toMaster \in Channels
        /\ auth[c].phase = "open" /\ ~auth[c].verified
        /\ auth' = [auth EXCEPT ![c].verified = TRUE]
        /\ toMaster' = [n \in Masters |-> Sent(toMaster, n, authLink[n], p)[n]]
        /\ asked' = asked \cup {r}
        /\ UNCHANGED <<world, toAuth, toWorld, fromWorld, granted, told>>
    BY <1>0, ChannelTypes DEF OnVerifyLinks
  <1>2. r \in Requests
    BY <1>0, RequestType DEF OnVerifyLinks
  <1>3. r.conn = c
    BY HandoffAssumption DEF Request, Trunc, IdsFit, AuthIDs
  <1> HIDE DEF r
  <1>4. /\ p.kind = "VERIFYLINKS" /\ p.req = r
        /\ \A d : About(p, d) <=> d = c
    BY <1>3 DEF VerifyLinks, About
  <1> HIDE DEF p
  <1>5. \A q \in asked : q.conn # c
    BY <1>0, <1>1 DEF OneRequest
  <1>6. r \notin asked /\ r \notin granted
    BY <1>0, <1>3, <1>5
  <1>7. told[c] = <<>>
    BY <1>0, <1>5 DEF OneRequest
  <1>8. /\ \A n \in Masters : Carried(toMaster, n, c) = {}
        /\ \A n \in Masters : Carried(toWorld, n, c) = {}
        /\ \A n \in Masters : Carried(fromWorld, n, c) = {}
        /\ \A n \in Masters : Carried(toAuth, n, c) = {}
        /\ \A n \in Masters : Heard(n, c) = {}
    BY <1>0, <1>5, <1>7, NoPieces DEF Heard
  <1>9. \A n \in Masters : Fits(p, n, asked', granted)
    BY <1>1, <1>4, <1>6 DEF Fits
  <1>10. Fits4'
    <2>1. /\ Fitting(toMaster, asked', granted) /\ Fitting(toWorld, asked', granted)
          /\ Fitting(fromWorld, asked', granted) /\ Fitting(toAuth, asked', granted)
      BY <1>0, <1>1, FittingMore
    <2>2. \A n \in Masters : Fitting(Sent(toMaster, n, authLink[n], p), asked', granted)
      BY <1>1, <1>9, <2>1, Appended
    <2>3. Fitting(toMaster', asked', granted)
      BY <1>1, <2>2 DEF Fitting
    <2> QED BY <1>1, <2>1, <2>3 DEF Fits4
  <1>11. OneRequest'
    <2>1. auth \in [AuthIDs -> AuthConns]
      BY <1>0 DEF TypeOK
    <2>2. /\ auth'[c].verified
          /\ \A d \in AuthIDs : d # c => auth'[d] = auth[d]
      BY <1>1, <2>1 DEF AuthConns
    <2>3. \A q \in asked' : /\ q.conn \in AuthIDs
                            /\ auth'[q.conn].verified \/ auth'[q.conn].phase = "gone"
      BY <1>0, <1>1, <1>3, <2>2 DEF OneRequest
    <2>4. \A q, s \in asked' : q.conn = s.conn => q = s
      BY <1>0, <1>1, <1>3, <1>5 DEF OneRequest
    <2>5. \A d \in AuthIDs : told'[d] # <<>> => \E q \in asked' : q.conn = d
      BY <1>0, <1>1 DEF OneRequest
    <2> QED BY <2>3, <2>4, <2>5 DEF OneRequest
  <1>12. OnePiece'
    <2> SUFFICES ASSUME NEW n \in Masters, NEW d \in AuthIDs
                 PROVE  OneOf(Carried(toMaster', n, d), Carried(toWorld', n, d),
                              Carried(fromWorld', n, d), Carried(toAuth', n, d), Heard(n, d)')
      BY DEF OnePiece
    <2>1. Carried(toMaster', n, d) = Carried(Sent(toMaster, n, authLink[n], p), n, d)
      BY <1>1 DEF Carried
    <2>2. Heard(n, d)' = Heard(n, d)
      BY <1>1 DEF Heard
    <2>3. CASE d = c
      <3>1. Lone(Carried(toMaster', n, c))
        BY <1>1, <1>8, <2>1, <2>3, Appended
      <3> QED BY <1>1, <1>8, <2>2, <2>3, <3>1 DEF OneOf, Lone
    <2>4. CASE d # c
      <3>1. NoMore(Carried(toMaster', n, d), Carried(toMaster, n, d))
        BY <1>1, <1>4, <2>1, <2>4, Appended
      <3>2. OneOf(Carried(toMaster, n, d), Carried(toWorld, n, d),
                  Carried(fromWorld, n, d), Carried(toAuth, n, d), Heard(n, d))
        BY DEF HandoffInv, OnePiece
      <3>3. \A S : NoMore(S, S)
        BY DEF NoMore
      <3> QED BY ONLY <1>1, <2>2, <3>1, <3>2, <3>3, OneOfFewer
    <2> QED BY <2>3, <2>4
  <1>13. GrantsBound'
    BY <1>0, <1>1 DEF GrantsBound
  <1>14. HandoffInv'
    BY <1>10, <1>11, <1>12, <1>13 DEF HandoffInv, Fits4
  <1> QED BY <1>1, <1>2, <1>3, <1>5, <1>6, <1>14

LEMMA InvAuth ==
    ASSUME IdsFit, HandoffInv, Authentic', NEW c \in AuthIDs, AuthStep(c)
    PROVE  /\ HandoffInv'
           /\ \/ UNCHANGED <<asked, granted, told>>
              \/ \E r \in Requests : /\ r \in asked' \ asked
                                     /\ asked' = asked \cup {r}
                                     /\ \A q \in asked : q.conn # r.conn
                                     /\ UNCHANGED <<granted, told>>
  <1>0. TypeOK /\ Fits4 /\ OneRequest /\ GrantsBound /\ granted \subseteq Requests
    BY DEF HandoffInv, Fits4, Authentic, TypeOK
  <1>1. ASSUME UNCHANGED <<world, packets, history>>,
               \A d \in AuthIDs : auth[d].verified \/ auth[d].phase = "gone"
                               => auth'[d].verified \/ auth'[d].phase = "gone"
        PROVE  HandoffInv' /\ UNCHANGED <<asked, granted, told>>
    <2>1. UNCHANGED <<asked, granted, told, toMaster, toWorld, fromWorld, toAuth>>
      BY <1>1 DEF history, packets
    <2>2. OneRequest' /\ GrantsBound' /\ Fits4'
      BY <1>0, <1>1, <2>1, OneRequestKept, GrantsBoundKept DEF Fits4
    <2>3. \A chan : Quieter(chan, chan)
      BY QuieterSame
    <2> QED BY <2>1, <2>2, <2>3, QuietStep
  <1>2. auth \in [AuthIDs -> AuthConns]
    BY <1>0 DEF TypeOK
  <1>3. CASE AuthAccept(c)
    BY <1>1, <1>2, <1>3 DEF AuthAccept, AuthConns
  <1>4. CASE AuthClose(c)
    BY <1>1, <1>2, <1>4 DEF AuthClose, AuthConns
  <1>5. CASE AuthReap(c)
    BY <1>1, <1>2, <1>5 DEF AuthReap, AuthConn
  <1>6. ASSUME NEW a \in Accounts, NEW ok \in BOOLEAN, OnAuthenticate(c, a, ok)
        PROVE  HandoffInv' /\ UNCHANGED <<asked, granted, told>>
    <2>1. /\ auth'[c].verified = auth[c].verified /\ auth'[c].phase = auth[c].phase
          /\ \A d \in AuthIDs : d # c => auth'[d] = auth[d]
      BY <1>2, <1>6 DEF OnAuthenticate, AuthConns
    <2> QED BY <1>1, <1>6, <2>1 DEF OnAuthenticate
  <1>7. ASSUME NEW m \in Masters, NEW ok \in BOOLEAN, OnVerifyLinksError(c, m, ok)
        PROVE  HandoffInv' /\ UNCHANGED <<asked, granted, told>>
    BY <1>1, <1>2, <1>7 DEF OnVerifyLinksError, AuthConns
  <1> QED BY <1>3, <1>4, <1>5, <1>6, <1>7, InvAsk DEF AuthStep

LEMMA InvWorld ==
    ASSUME HandoffInv, Authentic', NEW m \in Masters, WorldStep(m)
    PROVE  HandoffInv' /\ UNCHANGED <<asked, granted, told>>
  <1>0. TypeOK /\ Fits4 /\ OneRequest /\ GrantsBound /\ granted \subseteq Requests
    BY DEF HandoffInv, Fits4, Authentic, TypeOK
  <1>1. PICK e \in WorldIDs :
            \/ WorldAccept(m, e) \/ WorldLost(m, e) \/ WorldReap(m, e)
            \/ \E k \in Keys : OnConnect(m, e, k)
    BY DEF WorldStep
  <1>2. UNCHANGED <<auth, asked, granted, told, toMaster, toWorld, fromWorld, toAuth>>
    BY <1>1 DEF WorldAccept, WorldLost, WorldReap, OnConnect, packets, history
  <1>3. world \in [Masters -> [WorldIDs -> WorldConns]]
    BY <1>0 DEF TypeOK
  <1>4. \A n \in Masters : \A d \in WorldIDs :
           world[n][d].verified \/ world[n][d].phase = "gone"
               => world'[n][d].verified \/ world'[n][d].phase = "gone"
    <2>1. CASE WorldAccept(m, e)
      BY <2>1, <1>3 DEF WorldAccept, WorldConns
    <2>2. CASE WorldLost(m, e)
      BY <2>2, <1>3 DEF WorldLost, WorldConns
    <2>3. CASE WorldReap(m, e)
      BY <2>3, <1>3 DEF WorldReap, WorldConn
    <2>4. ASSUME NEW k \in Keys, OnConnect(m, e, k)
          PROVE  \A n \in Masters : \A d \in WorldIDs :
                    world[n][d].verified \/ world[n][d].phase = "gone"
                        => world'[n][d].verified \/ world'[n][d].phase = "gone"
      BY <2>4, <1>3 DEF OnConnect, WorldConns
    <2> QED BY <1>1, <2>1, <2>2, <2>3, <2>4
  <1>5. OneRequest' /\ GrantsBound' /\ Fits4'
    BY <1>0, <1>2, <1>4, OneRequestKept, GrantsBoundKept DEF Fits4
  <1>6. \A chan : Quieter(chan, chan)
    BY QuieterSame
  <1> QED BY <1>2, <1>5, <1>6, QuietStep

-----------------------------------------------------------------------------
(* The steps that carry a request or an answer on.                         *)

\* A piece leaves one place for another that held none; its other places
\* stay as they are.
LEMMA OneOfMoved ==
    ASSUME NEW A, NEW B, NEW C, NEW D, NEW E, OneOf(A, B, C, D, E),
           NEW A2, NEW B2, NEW C2, NEW D2, NEW E2,
           \/ A # {} /\ A2 = {} /\ (B = {} => Lone(B2)) /\ C2 = C /\ D2 = D /\ E2 = E
           \/ A # {} /\ A2 = {} /\ B2 = B /\ C2 = C /\ (D = {} => Lone(D2)) /\ E2 = E
           \/ B # {} /\ B2 = {} /\ A2 = A /\ (C = {} => Lone(C2)) /\ D2 = D /\ E2 = E
           \/ C # {} /\ C2 = {} /\ A2 = A /\ B2 = B /\ (D = {} => Lone(D2)) /\ E2 = E
           \/ D # {} /\ D2 = {} /\ A2 = A /\ B2 = B /\ C2 = C /\ (E = {} => Lone(E2))
    PROVE  OneOf(A2, B2, C2, D2, E2)
  <1>1. Lone({})
    BY DEF Lone
  <1> QED BY <1>1 DEF OneOf

\* What it means for a channel to pass its first packet on as p.
LEMMA Head4 ==
    ASSUME NEW chan \in Channels, NEW m \in Masters, NEW kind,
           Receives(chan, m, kind)
    PROVE  chan[m] # <<>> /\ Head(chan[m]) \in Packets /\ Head(chan[m]).kind = kind
  BY ReceivedType DEF Channels, Receives

LEMMA OnePieceHere ==
    ASSUME HandoffInv, NEW m \in Masters, NEW c \in AuthIDs
    PROVE  OneOf(Carried(toMaster, m, c), Carried(toWorld, m, c),
                 Carried(fromWorld, m, c), Carried(toAuth, m, c), Heard(m, c))
  BY DEF HandoffInv, OnePiece

\* A request that a channel of m delivers is about one client, whose only
\* piece at m it is.
LEMMA AboutRequest ==
    ASSUME NEW r, NEW s, NEW d
    PROVE  /\ About(VerifyLinks(r), d) <=> r.conn = d
           /\ About(Verdict(r, s), d) <=> r.conn = d
  BY DEF About, VerifyLinks, Verdict

LEMMA InvAuthVerify ==
    ASSUME HandoffInv, Authentic', NEW m \in Masters, OnAuthVerifyLinks(m)
    PROVE  HandoffInv' /\ UNCHANGED <<asked, granted, told>>
  <1> DEFINE r == Head(toMaster[m]).req
  <1>0. TypeOK /\ Fits4 /\ OneRequest /\ GrantsBound /\ granted \subseteq Requests
    BY DEF HandoffInv, Fits4, Authentic, TypeOK
  <1>1. toMaster \in Channels /\ toWorld \in Channels /\ toAuth \in Channels
    BY <1>0, ChannelTypes
  <1>2. /\ toMaster' = [toMaster EXCEPT ![m] = Tail(@)]
        /\ UNCHANGED <<auth, world, fromWorld, asked, granted, issued, told>>
        /\ Receives(toMaster, m, "VERIFYLINKS")
    BY DEF OnAuthVerifyLinks, conns, history
  <1>3. \/ /\ toAuth' = Sent(toAuth, m, authLink[m], Verdict(r, 0))
           /\ UNCHANGED toWorld
        \/ /\ toWorld' = Sent(toWorld, m, worldLink[m], VerifyLinks(r))
           /\ UNCHANGED toAuth
    BY DEF OnAuthVerifyLinks
  <1>4. /\ toMaster[m] # <<>> /\ Head(toMaster[m]) \in Packets
        /\ Head(toMaster[m]).kind = "VERIFYLINKS"
    BY <1>1, <1>2, Head4
  <1>5. /\ \A n \in Masters : \A d :
              NoMore(Carried(toMaster', n, d), Carried(toMaster, n, d))
        /\ \A d : About(Head(toMaster[m]), d) =>
              /\ Carried(toMaster, m, d) # {}
              /\ Lone(Carried(toMaster, m, d)) => Carried(toMaster', m, d) = {}
        /\ Fitting(toMaster', asked, granted)
        /\ Fits(Head(toMaster[m]), m, asked, granted)
    BY <1>0, <1>1, <1>2, <1>4, Popped DEF Fits4
  <1>6. \A d : About(Head(toMaster[m]), d) <=> r.conn = d
    BY <1>4 DEF About
  <1>7. r \in asked /\ (r.to = m => r \notin granted)
    BY <1>4, <1>5 DEF Fits
  <1>8. /\ Fits(VerifyLinks(r), m, asked, granted)
        /\ Fits(Verdict(r, 0), m, asked, granted)
    BY <1>7 DEF Fits, VerifyLinks, Verdict
  <1> HIDE DEF r
  <1>9. Fits4'
    <2>1. /\ Fitting(Sent(toAuth, m, authLink[m], Verdict(r, 0)), asked, granted)
          /\ Fitting(Sent(toWorld, m, worldLink[m], VerifyLinks(r)), asked, granted)
      BY <1>0, <1>1, <1>8, Appended DEF Fits4
    <2>2. Fitting(toAuth', asked, granted) /\ Fitting(toWorld', asked, granted)
      BY <1>0, <1>3, <2>1 DEF Fits4
    <2> QED BY <1>0, <1>2, <1>5, <2>2 DEF Fits4
  <1>10. OnePiece'
    <2> SUFFICES ASSUME NEW n \in Masters, NEW d \in AuthIDs
                 PROVE  OneOf(Carried(toMaster', n, d), Carried(toWorld', n, d),
                              Carried(fromWorld', n, d), Carried(toAuth', n, d), Heard(n, d)')
      BY DEF OnePiece
    <2>1. OneOf(Carried(toMaster, n, d), Carried(toWorld, n, d),
                Carried(fromWorld, n, d), Carried(toAuth, n, d), Heard(n, d))
      BY OnePieceHere
    <2>2. Heard(n, d)' = Heard(n, d) /\ Carried(fromWorld', n, d) = Carried(fromWorld, n, d)
      BY <1>2 DEF Heard
    <2>3. \A S : NoMore(S, S)
      BY DEF NoMore
    <2>4. CASE n = m /\ r.conn = d
      <3>1. Carried(toMaster, n, d) # {} /\ Carried(toMaster', n, d) = {}
        BY <1>5, <1>6, <2>1, <2>4 DEF OneOf
      <3>2. \/ /\ Carried(toAuth, n, d) = {} => Lone(Carried(toAuth', n, d))
               /\ Carried(toWorld', n, d) = Carried(toWorld, n, d)
            \/ /\ Carried(toWorld, n, d) = {} => Lone(Carried(toWorld', n, d))
               /\ Carried(toAuth', n, d) = Carried(toAuth, n, d)
        BY <1>1, <1>3, <2>4, Appended
      <3> QED BY ONLY <2>1, <2>2, <3>1, <3>2, OneOfMoved
    <2>5. CASE ~(n = m /\ r.conn = d)
      <3>1. n # m \/ (~About(VerifyLinks(r), d) /\ ~About(Verdict(r, 0), d))
        BY <2>5, AboutRequest
      <3>2. NoMore(Carried(toMaster', n, d), Carried(toMaster, n, d))
        BY <1>5
      <3>3. /\ NoMore(Carried(toWorld', n, d), Carried(toWorld, n, d))
            /\ NoMore(Carried(toAuth', n, d), Carried(toAuth, n, d))
        BY <1>1, <1>3, <2>3, <3>1, Appended
      <3> QED BY ONLY <2>1, <2>2, <2>3, <3>2, <3>3, OneOfFewer
    <2> QED BY <2>4, <2>5
  <1>11. OneRequest' /\ GrantsBound'
    BY <1>0, <1>2, OneRequestKept, GrantsBoundKept
  <1> QED BY <1>2, <1>9, <1>10, <1>11 DEF HandoffInv, Fits4

LEMMA InvWorldResult ==
    ASSUME HandoffInv, Authentic', NEW m \in Masters, OnWorldVerifyResult(m)
    PROVE  HandoffInv' /\ UNCHANGED <<asked, granted, told>>
  <1> DEFINE p == Head(fromWorld[m])
  <1>0. TypeOK /\ Fits4 /\ OneRequest /\ GrantsBound /\ granted \subseteq Requests
    BY DEF HandoffInv, Fits4, Authentic, TypeOK
  <1>1. fromWorld \in Channels /\ toAuth \in Channels
    BY <1>0, ChannelTypes
  <1>2. /\ fromWorld' = [fromWorld EXCEPT ![m] = Tail(@)]
        /\ toAuth' = Sent(toAuth, m, authLink[m], p)
        /\ UNCHANGED <<auth, world, toMaster, toWorld, asked, granted, issued, told>>
        /\ Receives(fromWorld, m, "VERIFYRESULT")
    BY DEF OnWorldVerifyResult, conns, history
  <1>4. fromWorld[m] # <<>>
    BY <1>1, <1>2, Head4
  <1>5. /\ \A n \in Masters : \A d :
              NoMore(Carried(fromWorld', n, d), Carried(fromWorld, n, d))
        /\ \A d : About(p, d) =>
              /\ Carried(fromWorld, m, d) # {}
              /\ Lone(Carried(fromWorld, m, d)) => Carried(fromWorld', m, d) = {}
        /\ Fitting(fromWorld', asked, granted)
        /\ Fits(p, m, asked, granted)
    BY <1>0, <1>1, <1>2, <1>4, Popped DEF Fits4
  <1> HIDE DEF p
  <1>9. Fits4'
    BY <1>0, <1>1, <1>2, <1>5, Appended DEF Fits4
  <1>10. OnePiece'
    <2> SUFFICES ASSUME NEW n \in Masters, NEW d \in AuthIDs
                 PROVE  OneOf(Carried(toMaster', n, d), Carried(toWorld', n, d),
                              Carried(fromWorld', n, d), Carried(toAuth', n, d), Heard(n, d)')
      BY DEF OnePiece
    <2>1. OneOf(Carried(toMaster, n, d), Carried(toWorld, n, d),
                Carried(fromWorld, n, d), Carried(toAuth, n, d), Heard(n, d))
      BY OnePieceHere
    <2>2. /\ Heard(n, d)' = Heard(n, d)
          /\ Carried(toMaster', n, d) = Carried(toMaster, n, d)
          /\ Carried(toWorld', n, d) = Carried(toWorld, n, d)
      BY <1>2 DEF Heard
    <2>3. \A S : NoMore(S, S)
      BY DEF NoMore
    <2>4. CASE n = m /\ About(p, d)
      <3>1. Carried(fromWorld, n, d) # {} /\ Carried(fromWorld', n, d) = {}
        BY <1>5, <2>1, <2>4 DEF OneOf
      <3>2. Carried(toAuth, n, d) = {} => Lone(Carried(toAuth', n, d))
        BY <1>1, <1>2, <2>4, Appended
      <3> QED BY ONLY <2>1, <2>2, <3>1, <3>2, OneOfMoved
    <2>5. CASE ~(n = m /\ About(p, d))
      <3>1. NoMore(Carried(fromWorld', n, d), Carried(fromWorld, n, d))
        BY <1>5
      <3>2. NoMore(Carried(toAuth', n, d), Carried(toAuth, n, d))
        BY <1>1, <1>2, <2>5, Appended
      <3> QED BY ONLY <2>1, <2>2, <2>3, <3>1, <3>2, OneOfFewer
    <2> QED BY <2>4, <2>5
  <1>11. OneRequest' /\ GrantsBound'
    BY <1>0, <1>2, OneRequestKept, GrantsBoundKept
  <1> QED BY <1>2, <1>9, <1>10, <1>11 DEF HandoffInv, Fits4

\* Binding a connection leaves the phase of every connection, and the flag of
\* the others.
LEMMA BindFlags ==
    ASSUME world \in [Masters -> [WorldIDs -> WorldConns]],
           NEW m \in Masters, NEW e \in WorldIDs, NEW a,
           world' = [world EXCEPT ![m][e].verified = TRUE, ![m][e].acct = a]
    PROVE  /\ world'[m][e].verified
           /\ \A n \in Masters : \A d \in WorldIDs :
                world[n][d].verified \/ world[n][d].phase = "gone"
                   => world'[n][d].verified \/ world'[n][d].phase = "gone"
  <1> DEFINE w == [world[m][e] EXCEPT !.verified = TRUE, !.acct = a]
  <1>1. world[m][e] \in WorldConns
    OBVIOUS
  <1>2. w.verified /\ w.phase = world[m][e].phase
    BY <1>1 DEF WorldConns
  <1>3. world' = [world EXCEPT ![m][e] = w]
    BY DEF WorldConns
  <1>4. world'[m][e] = w
    BY <1>3
  <1>5. \A n \in Masters : \A d \in WorldIDs :
           ~(n = m /\ d = e) => world'[n][d] = world[n][d]
    BY <1>3
  <1> QED BY <1>2, <1>4, <1>5

\* Accepting a request changes what no packet elsewhere says.
LEMMA FittingGranted ==
    ASSUME NEW chan, NEW made, NEW given, Fitting(chan, made, given),
           NEW r \in made, Carried(chan, r.to, r.conn) = {}
    PROVE  Fitting(chan, made, given \cup {r})
  <1> SUFFICES ASSUME NEW m \in Masters, NEW i \in DOMAIN chan[m]
               PROVE  Fits(chan[m][i], m, made, given \cup {r})
    BY DEF Fitting
  <1> DEFINE p == chan[m][i]
  <1>1. Fits(p, m, made, given)
    BY DEF Fitting
  <1>2. ~(m = r.to /\ About(p, r.conn))
    BY DEF Carried
  <1> HIDE DEF p
  <1>3. p.kind = "VERIFYLINKS" =>
          p.req \in made /\ (p.req.to = m => p.req \notin given \cup {r})
    BY <1>1, <1>2 DEF Fits, About
  <1>4. ASSUME p.kind = "VERIFYRESULT"
        PROVE  \E q \in made :
                  /\ q.conn = p.res.conn
                  /\ p.res.status = 1 <=> q.to = m /\ q \in given \cup {r}
    <2>1. PICK q \in made : /\ q.conn = p.res.conn
                            /\ p.res.status = 1 <=> q.to = m /\ q \in given
      BY <1>1, <1>4 DEF Fits
    <2>2. ~(q = r /\ q.to = m)
      BY <1>2, <1>4, <2>1 DEF About
    <2> QED BY <2>1, <2>2
  <1> QED BY <1>3, <1>4 DEF Fits, p

\* The steps of Promise, without its INSTANCE.
Granting(r) ==
    /\ r \in asked
    /\ \A i \in DOMAIN told[r.conn] : told[r.conn][i].by # r.to
    /\ \A g \in granted : <<g.to, g.entity>> # <<r.to, r.entity>>
    /\ granted' = granted \cup {r}
    /\ UNCHANGED <<asked, told>>

LEMMA InvWorldVerify ==
    ASSUME HandoffInv, Authentic', NEW m \in Masters, OnWorldVerifyLinks(m)
    PROVE  /\ HandoffInv'
           /\ \/ UNCHANGED <<asked, granted, told>>
              \/ \E r \in asked : Granting(r)
  <1> DEFINE r == Head(toWorld[m]).req
             sent(s) == Sent(fromWorld, m, worldLink[m], Verdict(r, s))
             bind(e) == /\ r.to = m /\ Matches(m, r, e) /\ ~world[m][e].verified
                        /\ world' = [world EXCEPT ![m][e].verified = TRUE,
                                                  ![m][e].acct = r.acct]
                        /\ granted' = granted \cup {r}
  <1>0. /\ TypeOK /\ Fits4 /\ OneRequest /\ GrantsBound
        /\ granted \subseteq Requests /\ granted \subseteq asked
    BY DEF HandoffInv, Fits4, Authentic, TypeOK
  <1>1. toWorld \in Channels /\ fromWorld \in Channels
    BY <1>0, ChannelTypes
  <1>2. /\ toWorld' = [toWorld EXCEPT ![m] = Tail(@)]
        /\ UNCHANGED <<auth, toMaster, toAuth, asked, told>>
        /\ Receives(toWorld, m, "VERIFYLINKS")
    BY DEF OnWorldVerifyLinks
  <1>3. \/ \E e \in WorldIDs : bind(e) /\ fromWorld' = sent(1)
        \/ UNCHANGED <<world, granted>> /\ fromWorld' = sent(0)
    BY DEF OnWorldVerifyLinks
  <1>4. /\ toWorld[m] # <<>> /\ Head(toWorld[m]) \in Packets
        /\ Head(toWorld[m]).kind = "VERIFYLINKS"
    BY <1>1, <1>2, Head4
  <1>5. /\ \A n \in Masters : \A d :
              NoMore(Carried(toWorld', n, d), Carried(toWorld, n, d))
        /\ \A d : About(Head(toWorld[m]), d) =>
              /\ Carried(toWorld, m, d) # {}
              /\ Lone(Carried(toWorld, m, d)) => Carried(toWorld', m, d) = {}
        /\ Fitting(toWorld', asked, granted)
        /\ Fits(Head(toWorld[m]), m, asked, granted)
    BY <1>0, <1>1, <1>2, <1>4, Popped DEF Fits4
  <1>6. \A d : About(Head(toWorld[m]), d) <=> r.conn = d
    BY <1>4 DEF About
  <1>7. r \in asked /\ (r.to = m => r \notin granted)
    BY <1>4, <1>5 DEF Fits
  <1>8. r.conn \in AuthIDs
    BY <1>0, <1>7 DEF OneRequest
  <1> HIDE DEF r
  \* The client's only piece at m is gone from toWorld.
  <1>9. /\ Carried(toWorld', m, r.conn) = {} /\ Carried(toMaster, m, r.conn) = {}
        /\ Carried(fromWorld, m, r.conn) = {} /\ Carried(toAuth, m, r.conn) = {}
        /\ Heard(m, r.conn) = {}
    BY <1>5, <1>6, <1>8, OnePieceHere DEF OneOf
  <1>10. OnePiece'
    <2> SUFFICES ASSUME NEW n \in Masters, NEW d \in AuthIDs
                 PROVE  OneOf(Carried(toMaster', n, d), Carried(toWorld', n, d),
                              Carried(fromWorld', n, d), Carried(toAuth', n, d), Heard(n, d)')
      BY DEF OnePiece
    <2>1. OneOf(Carried(toMaster, n, d), Carried(toWorld, n, d),
                Carried(fromWorld, n, d), Carried(toAuth, n, d), Heard(n, d))
      BY OnePieceHere
    <2>2. /\ Heard(n, d)' = Heard(n, d)
          /\ Carried(toMaster', n, d) = Carried(toMaster, n, d)
          /\ Carried(toAuth', n, d) = Carried(toAuth, n, d)
      BY <1>2 DEF Heard
    <2>3. \A S : NoMore(S, S)
      BY DEF NoMore
    <2>4. PICK s : fromWorld' = sent(s)
      BY <1>3
    <2>5. CASE n = m /\ r.conn = d
      <3>1. Carried(toWorld, n, d) # {} /\ Carried(toWorld', n, d) = {}
        BY <1>5, <1>6, <2>1, <2>5 DEF OneOf
      <3>2. Carried(fromWorld, n, d) = {} => Lone(Carried(fromWorld', n, d))
        BY <1>1, <2>4, <2>5, Appended
      <3> QED BY ONLY <2>1, <2>2, <3>1, <3>2, OneOfMoved
    <2>6. CASE ~(n = m /\ r.conn = d)
      <3>1. n # m \/ ~About(Verdict(r, s), d)
        BY <2>6, AboutRequest
      <3>2. NoMore(Carried(toWorld', n, d), Carried(toWorld, n, d))
        BY <1>5
      <3>3. NoMore(Carried(fromWorld', n, d), Carried(fromWorld, n, d))
        BY <1>1, <2>4, <3>1, Appended
      <3> QED BY ONLY <2>1, <2>2, <2>3, <3>2, <3>3, OneOfFewer
    <2> QED BY <2>5, <2>6
  <1>11. OneRequest'
    BY <1>0, <1>2, OneRequestKept
  <1>12. CASE UNCHANGED <<world, granted>> /\ fromWorld' = sent(0)
    <2>1. Fits(Verdict(r, 0), m, asked, granted)
      BY <1>7 DEF Fits, Verdict
    <2>2. Fitting(fromWorld', asked, granted)
      BY <1>0, <1>1, <1>12, <2>1, Appended DEF Fits4
    <2>3. GrantsBound'
      BY <1>0, <1>12, GrantsBoundKept
    <2> QED BY <1>0, <1>2, <1>5, <1>10, <1>11, <1>12, <2>2, <2>3 DEF HandoffInv, Fits4
  <1>13. ASSUME NEW e \in WorldIDs, bind(e), fromWorld' = sent(1)
         PROVE  HandoffInv' /\ Granting(r)
    <2>1. /\ r.to = m /\ r.entity = e /\ ~world[m][e].verified
          /\ world[m][e].phase = "open" /\ granted' = granted \cup {r}
      BY <1>13 DEF Matches
    <2>2. Fits(Verdict(r, 1), m, asked, granted')
      BY <1>7, <2>1 DEF Fits, Verdict
    <2>3. /\ Fitting(toMaster, asked, granted') /\ Fitting(toWorld', asked, granted')
          /\ Fitting(fromWorld, asked, granted') /\ Fitting(toAuth, asked, granted')
      BY <1>0, <1>5, <1>7, <1>9, <2>1, FittingGranted DEF Fits4
    <2>4. Fitting(fromWorld', asked, granted')
      BY <1>1, <1>13, <2>2, <2>3, Appended
    <2>5. world \in [Masters -> [WorldIDs -> WorldConns]]
      BY <1>0 DEF TypeOK
    <2>6. /\ world'[m][e].verified
          /\ \A n \in Masters : \A d \in WorldIDs :
                world[n][d].verified \/ world[n][d].phase = "gone"
                   => world'[n][d].verified \/ world'[n][d].phase = "gone"
      BY <1>13, <2>5, BindFlags
    <2>7. GrantsBound'
      BY <1>0, <2>1, <2>6 DEF GrantsBound, Requests
    <2>8. HandoffInv'
      BY <1>2, <1>10, <1>11, <2>3, <2>4, <2>7 DEF HandoffInv
    <2>9. \A g \in granted : <<g.to, g.entity>> # <<r.to, r.entity>>
      BY <1>0, <2>1 DEF GrantsBound
    <2>10. \A i \in DOMAIN told[r.conn] : told[r.conn][i].by # r.to
      BY <1>9, <2>1 DEF Heard
    <2> QED BY <1>2, <1>7, <2>1, <2>8, <2>9, <2>10 DEF Granting
  <1> QED BY <1>2, <1>3, <1>7, <1>12, <1>13

Telling(c, m, s) ==
    /\ \E r \in asked : r.conn = c /\ (s = 1 <=> r.to = m /\ r \in granted)
    /\ \A i \in DOMAIN told[c] : told[c][i].by # m
    /\ told' = [told EXCEPT ![c] = Append(@, [by |-> m, status |-> s])]
    /\ UNCHANGED <<asked, granted>>

\* The answers a client has heard after one more.
LEMMA ToldMore ==
    ASSUME TypeOK, NEW c \in AuthIDs, NEW m \in Masters, NEW s,
           told' = [told EXCEPT ![c] = Append(@, [by |-> m, status |-> s])]
    PROVE  /\ \A n \in Masters : \A d \in AuthIDs : n # m \/ d # c =>
                 NoMore(Heard(n, d)', Heard(n, d))
           /\ Heard(m, c) = {} => Lone(Heard(m, c)')
           /\ \A d \in AuthIDs : d # c => told'[d] = told[d]
  <1> DEFINE a == [by |-> m, status |-> s]
  <1>1. told[c] \in Seq([by : Masters, status : {0, 1}])
    BY DEF TypeOK
  <1>2. \A d \in AuthIDs : d # c => told'[d] = told[d]
    BY DEF TypeOK
  <1>3. told'[c] = Append(told[c], a)
    BY DEF TypeOK
  <1> HIDE DEF a
  <1>4. /\ DOMAIN told'[c] = DOMAIN told[c] \cup {Len(told[c]) + 1}
        /\ told'[c][Len(told[c]) + 1] = a
        /\ \A i \in DOMAIN told[c] : told'[c][i] = told[c][i]
    BY <1>1, <1>3
  <1>5. a.by = m
    BY DEF a
  <1>6. \A n \in Masters : n # m => Heard(n, c)' \subseteq Heard(n, c)
    BY <1>4, <1>5 DEF Heard
  <1>7. \A n \in Masters : \A d \in AuthIDs : d # c => Heard(n, d)' = Heard(n, d)
    BY <1>2 DEF Heard
  <1>8. Heard(m, c)' \subseteq Heard(m, c) \cup {Len(told[c]) + 1}
    BY <1>4 DEF Heard
  <1> QED BY <1>2, <1>6, <1>7, <1>8 DEF NoMore, Lone

LEMMA InvTell ==
    ASSUME HandoffInv, Authentic', NEW m \in Masters, OnMasterVerifyResult(m)
    PROVE  /\ HandoffInv'
           /\ \/ UNCHANGED <<asked, granted, told>>
              \/ \E c \in AuthIDs, s \in {0, 1} : Telling(c, m, s)
  <1> DEFINE p == Head(toAuth[m])
             res == Head(toAuth[m]).res
             ans(c) == told' = [told EXCEPT ![c] =
                                  Append(@, [by |-> m, status |-> res.status])]
  <1>0. TypeOK /\ Fits4 /\ OneRequest /\ GrantsBound /\ granted \subseteq Requests
    BY DEF HandoffInv, Fits4, Authentic, TypeOK
  <1>1. toAuth \in Channels
    BY <1>0, ChannelTypes
  <1>2. /\ toAuth' = [toAuth EXCEPT ![m] = Tail(@)]
        /\ UNCHANGED <<world, toMaster, toWorld, fromWorld, asked, granted>>
        /\ Receives(toAuth, m, "VERIFYRESULT")
    BY DEF OnMasterVerifyResult
  <1>3. \/ \E c \in AuthIDs : /\ c = res.conn /\ ans(c)
                              /\ auth' = [auth EXCEPT ![c].disc = TRUE]
        \/ UNCHANGED <<auth, told>>
    BY DEF OnMasterVerifyResult
  <1>4. /\ toAuth[m] # <<>> /\ p \in Packets /\ p.kind = "VERIFYRESULT"
    BY <1>1, <1>2, Head4
  <1>5. /\ \A n \in Masters : \A d :
              NoMore(Carried(toAuth', n, d), Carried(toAuth, n, d))
        /\ \A d : About(p, d) =>
              /\ Carried(toAuth, m, d) # {}
              /\ Lone(Carried(toAuth, m, d)) => Carried(toAuth', m, d) = {}
        /\ Fitting(toAuth', asked, granted)
        /\ Fits(p, m, asked, granted)
    BY <1>0, <1>1, <1>2, <1>4, Popped DEF Fits4
  <1>6. res.status \in {0, 1}
    BY <1>4, PacketFields DEF Results
  <1>7. PICK r \in asked : /\ r.conn = res.conn
                           /\ res.status = 1 <=> r.to = m /\ r \in granted
    BY <1>4, <1>5 DEF Fits
  <1>8. \A d : About(p, d) <=> res.conn = d
    BY <1>4 DEF About
  <1>9. Fits4' /\ GrantsBound'
    BY <1>0, <1>2, <1>5, GrantsBoundKept DEF Fits4
  <1> HIDE DEF p, res
  <1>10. CASE UNCHANGED <<auth, told>>
    <2>1. OneRequest'
      BY <1>0, <1>2, <1>10, OneRequestKept
    <2>2. \A chan : Quieter(chan, chan)
      BY QuieterSame
    <2>3. Quieter(toAuth', toAuth)
      BY <1>5 DEF Quieter
    <2> QED BY <1>2, <1>9, <1>10, <2>1, <2>2, <2>3, QuietStep
  <1>11. ASSUME NEW c \in AuthIDs, c = res.conn, ans(c),
                auth' = [auth EXCEPT ![c].disc = TRUE]
         PROVE  HandoffInv' /\ Telling(c, m, res.status)
    <2>1. /\ \A n \in Masters : \A d \in AuthIDs : n # m \/ d # c =>
                 NoMore(Heard(n, d)', Heard(n, d))
          /\ Heard(m, c) = {} => Lone(Heard(m, c)')
          /\ \A d \in AuthIDs : d # c => told'[d] = told[d]
      BY <1>0, <1>11, ToldMore
    <2>2. OneRequest'
      <3>1. \A d \in AuthIDs : /\ auth'[d].verified = auth[d].verified
                               /\ auth'[d].phase = auth[d].phase
        BY <1>0, <1>11 DEF TypeOK, AuthConns
      <3> QED BY <1>0, <1>2, <1>7, <1>11, <2>1, <3>1 DEF OneRequest
    <2>3. OnePiece'
      <3> SUFFICES ASSUME NEW n \in Masters, NEW d \in AuthIDs
                   PROVE  OneOf(Carried(toMaster', n, d), Carried(toWorld', n, d),
                                Carried(fromWorld', n, d), Carried(toAuth', n, d),
                                Heard(n, d)')
        BY DEF OnePiece
      <3>1. OneOf(Carried(toMaster, n, d), Carried(toWorld, n, d),
                  Carried(fromWorld, n, d), Carried(toAuth, n, d), Heard(n, d))
        BY OnePieceHere
      <3>2. /\ Carried(toMaster', n, d) = Carried(toMaster, n, d)
            /\ Carried(toWorld', n, d) = Carried(toWorld, n, d)
            /\ Carried(fromWorld', n, d) = Carried(fromWorld, n, d)
        BY <1>2
      <3>3. \A S : NoMore(S, S)
        BY DEF NoMore
      <3>4. CASE n = m /\ d = c
        <4>1. Carried(toAuth, n, d) # {} /\ Carried(toAuth', n, d) = {}
          BY <1>5, <1>8, <1>11, <3>1, <3>4 DEF OneOf
        <4>2. Heard(n, d) = {} => Lone(Heard(n, d)')
          BY <2>1, <3>4
        <4> QED BY ONLY <3>1, <3>2, <4>1, <4>2, OneOfMoved
      <3>5. CASE ~(n = m /\ d = c)
        <4>1. NoMore(Carried(toAuth', n, d), Carried(toAuth, n, d))
          BY <1>5
        <4>2. NoMore(Heard(n, d)', Heard(n, d))
          BY <2>1, <3>5
        <4> QED BY ONLY <3>1, <3>2, <3>3, <4>1, <4>2, OneOfFewer
      <3> QED BY <3>4, <3>5
    <2>4. HandoffInv'
      BY <1>9, <2>2, <2>3 DEF HandoffInv, Fits4
    <2>5. Heard(m, c) = {}
      BY <1>5, <1>8, <1>11, OnePieceHere DEF OneOf
    <2>6. \A i \in DOMAIN told[c] : told[c][i].by # m
      BY <2>5 DEF Heard
    <2> QED BY <1>2, <1>7, <1>11, <2>4, <2>6 DEF Telling
  <1> QED BY <1>3, <1>6, <1>10, <1>11

-----------------------------------------------------------------------------
(* The theorems.                                                           *)

\* What one step does to the promise: nothing, or one of its four actions.
PromiseStep ==
    \/ UNCHANGED <<asked, granted, told>>
    \/ \E r \in Requests : /\ r \in asked' \ asked
                           /\ asked' = asked \cup {r}
                           /\ \A q \in asked : q.conn # r.conn
                           /\ UNCHANGED <<granted, told>>
    \/ \E r \in asked : Granting(r)
    \/ \E c \in AuthIDs, m \in Masters, s \in {0, 1} : Telling(c, m, s)

LEMMA HandoffStep ==
    ASSUME IdsFit, HandoffInv, [Next]_vars
    PROVE  HandoffInv' /\ PromiseStep
  <1>1. Authentic'
    BY AuthenticStep DEF HandoffInv
  <1>2. CASE UNCHANGED vars
    <2>1. UNCHANGED <<auth, world, toMaster, toWorld, fromWorld, toAuth,
                      asked, granted, told>>
      BY <1>2 DEF vars, conns, packets, history
    <2>2. /\ Fits4 /\ OneRequest /\ GrantsBound /\ granted \subseteq Requests
      BY DEF HandoffInv, Fits4, Authentic, TypeOK
    <2>3. Fits4' /\ OneRequest' /\ GrantsBound'
      BY <2>1, <2>2, OneRequestKept, GrantsBoundKept DEF Fits4
    <2>4. \A chan : Quieter(chan, chan)
      BY QuieterSame
    <2> QED BY <1>1, <2>1, <2>3, <2>4, QuietStep DEF PromiseStep
  <1>3. ASSUME NEW m \in Masters, LinkStep(m) \/ Break(m)
        PROVE  HandoffInv' /\ PromiseStep
    BY <1>1, <1>3, InvLinks DEF PromiseStep
  <1>4. ASSUME NEW m \in Masters, VerifyStep(m)
        PROVE  HandoffInv' /\ PromiseStep
    BY <1>1, <1>4, InvAuthVerify, InvWorldVerify, InvWorldResult, InvTell
    DEF VerifyStep, PromiseStep
  <1>5. ASSUME NEW m \in Masters, WorldStep(m)
        PROVE  HandoffInv' /\ PromiseStep
    BY <1>1, <1>5, InvWorld DEF PromiseStep
  <1>6. ASSUME NEW c \in AuthIDs, AuthStep(c)
        PROVE  HandoffInv' /\ PromiseStep
    BY <1>1, <1>6, InvAuth DEF PromiseStep
  <1> QED BY <1>2, <1>3, <1>4, <1>5, <1>6 DEF Next

\* The inductive invariant holds in every reachable state, as long as the
\* connection IDs AuthSvr hands out fit the protocol's fields.
THEOREM HandoffInvariant ==
    ASSUME IdsFit PROVE Spec => []HandoffInv
  <1>1. HandoffInv /\ [Next]_vars => HandoffInv'
    BY HandoffStep
  <1> QED BY <1>1, HandoffInit, PTL DEF Spec

\* A set with no two elements has at most one.
LEMMA LoneCount ==
    ASSUME NEW S, Lone(S)
    PROVE  /\ S = {} => Cardinality(S) = 0
           /\ S # {} => Cardinality(S) = 1
  <1>1. Cardinality({}) = 0
    BY FS_EmptySet
  <1>2. ASSUME S # {} PROVE Cardinality(S) = 1
    <2>1. PICK x : x \in S
      BY <1>2
    <2>2. S = {x}
      BY <2>1 DEF Lone
    <2> QED BY <2>2, FS_Singleton
  <1> QED BY <1>1, <1>2

\* No crash, broadcast or late answer ever duplicates a client's request:
\* each master holds at most one piece of it, in the request on the way to it
\* or its world, in the answer on the way back, or told to the client.
THEOREM HandoffOnePiece ==
    ASSUME IdsFit PROVE Spec => []OnePiecePerMaster
  <1>1. HandoffInv => OnePiecePerMaster
    <2> SUFFICES ASSUME HandoffInv, NEW c \in AuthIDs, NEW m \in Masters
                 PROVE  Cardinality(Carried(toMaster, m, c)) + Cardinality(Carried(toWorld, m, c))
                        + Cardinality(Carried(fromWorld, m, c)) + Cardinality(Carried(toAuth, m, c))
                        + Cardinality(Heard(m, c)) <= 1
      BY DEF OnePiecePerMaster
    <2>1. OneOf(Carried(toMaster, m, c), Carried(toWorld, m, c),
                Carried(fromWorld, m, c), Carried(toAuth, m, c), Heard(m, c))
      BY OnePieceHere
    <2>2. ASSUME NEW A, NEW B, NEW C, NEW D, NEW E, OneOf(A, B, C, D, E)
          PROVE  Cardinality(A) + Cardinality(B) + Cardinality(C)
                 + Cardinality(D) + Cardinality(E) <= 1
      BY <2>2, LoneCount DEF OneOf
    <2> QED BY <2>1, <2>2
  <1> QED BY <1>1, HandoffInvariant, PTL

\* The four servers together implement HandoffPromise: every step is one of
\* its actions on the requests made, accepted and answered, or changes none.
THEOREM HandoffKeepsPromise ==
    ASSUME IdsFit PROVE Spec => KeepsPromise
  <1>1. Init => Promise!PInit
    BY DEF Init, Promise!PInit
  <1>2. HandoffInv /\ [Next]_vars => [Promise!PNext]_<<asked, granted, told>>
    <2> SUFFICES ASSUME HandoffInv, [Next]_vars
                 PROVE  Promise!PNext \/ UNCHANGED <<asked, granted, told>>
      OBVIOUS
    <2>0. PromiseStep
      BY HandoffStep
    <2>1. ASSUME NEW r \in Requests, r \in asked' \ asked, asked' = asked \cup {r},
                 \A q \in asked : q.conn # r.conn, UNCHANGED <<granted, told>>
          PROVE  Promise!PNext
      BY <2>1 DEF Promise!PNext, Promise!Ask
    <2>2. ASSUME NEW r \in asked, Granting(r)
          PROVE  Promise!PNext
      <3>1. ~Promise!Refused(r)
        BY <2>2 DEF Granting, Promise!Refused, Promise!Answers
      <3> QED BY <2>2, <3>1 DEF Granting, Promise!PNext, Promise!Grant
    <2>3. ASSUME NEW c \in AuthIDs, NEW m \in Masters, NEW s \in {0, 1}, Telling(c, m, s)
          PROVE  Promise!PNext
      <3>1. ~Promise!Answered(c, m)
        BY <2>3 DEF Telling, Promise!Answered, Promise!Answers
      <3>2. \E r \in asked : /\ r.conn = c
                             /\ s = 1 => r.to = m /\ r \in granted
                             /\ s = 0 => r.to # m \/ r \notin granted
        BY <2>3 DEF Telling
      <3> QED BY ZenonT(60), <2>3, <3>1, <3>2 DEF Telling, Promise!PNext, Promise!Answer
    <2> QED BY <2>0, <2>1, <2>2, <2>3 DEF PromiseStep
  <1> QED BY <1>1, <1>2, HandoffInvariant, PTL
          DEF Spec, KeepsPromise, Promise!PSpec, Promise!promise
=============================================================================
