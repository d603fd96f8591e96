------------------------------ MODULE Keychain ------------------------------
(***************************************************************************)
(* The keychains of the two ends of an encrypted connection.               *)
(*                                                                         *)
(* NetLib has both ends: the side that listens (AuthSvr and WorldSvr) and  *)
(* the side of a client.  What one end encrypts the other must decrypt     *)
(* from a stream of bytes without any boundary but the length it reads in  *)
(* the encrypted header.  For the packets of a client that header and the  *)
(* keys depend on how many packets went before and on the key that was     *)
(* agreed on last, so the ends have to stay in step.                       *)
(*                                                                         *)
(* A byte is scaled down to a number below 4, an index of 14 bits to one   *)
(* byte, and the key table to two halves of 4 words.  The words of a half  *)
(* are a function of the key it is generated from.                         *)
(*                                                                         *)
(* The client waits for the answer to CONNECT before it sends anything     *)
(* else, and then starts on the key in it.                                 *)
(***************************************************************************)
EXTENDS Integers, Sequences, SequencesExt

CONSTANTS
    Words,             \* what KeychainGenerate makes of a key: four words
    FirstKey, XorKeys, \* keys: the one of KeychainInit, and those rand() yields
    ClientXor, ServerXor,  \* 0x000EB7E2 and 0x7AB38CF1
    Magic, ExtendedMagic,  \* 0xB7E2 and 0xC8F3
    ClientPayloads,    \* what a client sends besides CONNECT
    ServerPayloads,    \* what a server sends besides the answer to it
    MaxFlight          \* bound: packets on the way in one direction

Count == 4                      \* KEYCHAIN_XORKEY_COUNT
Bytes == 0 .. 3
Word == [1 .. 4 -> Bytes]
Connect == <<0, 0, 0, 0, 0, 0>> \* the payload of C2S_CONNECT
FirstLength == 14               \* its length, which the server does not read

\* What a user of this module assumes of the constants.
KeychainAssumption ==
    /\ FirstKey \in Nat /\ XorKeys \subseteq Bytes
    /\ Words \in [XorKeys \cup {FirstKey} -> [0 .. Count - 1 -> Word]]
    /\ ClientXor \in Word /\ ServerXor \in Word
    /\ {Magic, ExtendedMagic} \subseteq [1 .. 2 -> Bytes] /\ Magic # ExtendedMagic
    /\ \A p \in ClientPayloads \cup ServerPayloads :
          /\ p \in Seq(Bytes) /\ Len(p) \in 2 .. 7
          /\ Head(p) # 0    \* the command, 0 being CONNECT
    /\ MaxFlight \in Nat \ {0}

VARIABLES
    client, server,        \* the two keychains
    toServer, toClient,    \* the bytes on the way
    asked, told,           \* history: the packets they were made of
    waiting,               \* the client has sent CONNECT
    torn                   \* history: bytes behind a packet were changed

vars == <<client, server, toServer, toClient, asked, told, waiting, torn>>

-----------------------------------------------------------------------------
(* Words and keys *)

XorByte(a, b) == ((a + b) % 2) + 2 * ((a \div 2 + b \div 2) % 2)
Xor(v, w) == [i \in 1 .. 4 |-> XorByte(v[i], w[i])]

\* The word behind the first n bytes, with zeros behind the last byte.
WordAt(b, n) == [i \in 1 .. 4 |-> IF n + i <= Len(b) THEN b[n + i] ELSE 0]

NoKey == 4
Keychains == [initial : BOOLEAN, header : Word, step : 0 .. Count - 1,
              mul : {1, 2}, seed : XorKeys \cup {NoKey}]

\* Word k of the table.  Only KeychainSeed fills the second half.
KeyAt(chain, k) ==
    IF k < Count THEN Words[FirstKey][k]
    ELSE IF chain.seed = NoKey THEN [i \in 1 .. 4 |-> 0]
    ELSE Words[chain.seed][k - Count]

\* KeychainInit, where the side that listens has an initial header of no use.
Fresh(header) == [initial |-> TRUE, header |-> header, step |-> 0, mul |-> 1, seed |-> NoKey]

\* KeychainSeed
Seeded(chain, key, index) ==
    LET c == [chain EXCEPT !.mul = 2, !.step = (index - 1) % Count, !.seed = key]
    IN  [c EXCEPT !.header = KeyAt(c, c.step * c.mul)]

Stepped(chain) ==
    LET c == [chain EXCEPT !.initial = FALSE, !.step = (@ + 1) % Count]
    IN  [c EXCEPT !.header = KeyAt(c, c.step * c.mul)]

\* Mutant: the step of CONNECT itself is made afterwards.
AgreedBefore(chain, key, index) == Stepped(Seeded(chain, key, index))

\* The server's keychain after CONNECT, which the handler seeds anew when the
\* packet is decrypted already.
Agreed(chain, key, index) == Seeded(Stepped(chain), key, index)

\* The bytes of the last, incomplete word that are encrypted (Mask).
Masked(rest) == 1 .. rest

\* b with every byte from n on, up to length, combined with the word of keys
\* for its place; keys is indexed by words.
Combined(b, n, length, keys) ==
    LET whole == (length - n) \div 4
    IN  [j \in 1 .. Len(b) |->
            LET w == (j - n - 1) \div 4
                i == ((j - n - 1) % 4) + 1
            IN  IF j <= n \/ j > length \/ (w = whole /\ i \notin Masked((length - n) % 4))
                THEN b[j] ELSE XorByte(b[j], keys[w][i])]

\* The keys to encrypt b from byte n on: each is named by the word before,
\* once that is encrypted.
EncryptKeys(chain, mul, b, n, first) ==
    LET key[w \in 0 .. (Len(b) - n) \div 4] ==
            IF w = 0 THEN first
            ELSE KeyAt(chain, Xor(WordAt(b, n + 4 * (w - 1)), key[w - 1])[1] * mul)
    IN  key

\* The keys to decrypt: each is named by the word before, as it came.
DecryptKeys(chain, mul, b, n, length, first) ==
    [w \in 0 .. (length - n) \div 4 |->
        IF w = 0 THEN first ELSE KeyAt(chain, WordAt(b, n + 4 * (w - 1))[1] * mul)]

-----------------------------------------------------------------------------
(* From the client to the server *)

Length2(length) == <<length % 4, length \div 4>>
LengthOf(w) == w[3] + 4 * w[4]

ClientPacket(payload) ==
    Magic \o Length2(Len(payload) + 8) \o <<0, 0, 0, 0>> \o payload

\* KeychainEncryptClientPacket.  The checksum is made of the last word.
EncryptClient(chain, p) ==
    LET head == Xor(WordAt(p, 0), IF chain.initial THEN ClientXor ELSE chain.header)
        keys == EncryptKeys(chain, chain.mul, p, 8, KeyAt(chain, head[1] * chain.mul))
        b    == Combined(p, 8, Len(p), keys)
        last == (Len(p) - 8) \div 4
        sum  == Xor(WordAt(b, 8 + 4 * last), KeyAt(chain, keys[last][1] * chain.mul))
    IN  head \o sum \o SubSeq(b, 9, Len(b))

\* KeychainGetPacketLength
ServerLength(chain, b) ==
    IF chain.initial THEN FirstLength ELSE LengthOf(Xor(WordAt(b, 0), chain.header))

\* KeychainDecryptPacket, in the buffer it came in.
DecryptServer(chain, b, length) ==
    LET first == KeyAt(chain, WordAt(b, 0)[1] * chain.mul)
        keys  == DecryptKeys(chain, chain.mul, b, 8, length, first)
        c     == Combined(b, 8, length, keys)
    IN  Magic \o Length2(length) \o <<0, 0, 0, 0>> \o SubSeq(c, 9, Len(c))

-----------------------------------------------------------------------------
(* From the server to the client: neither step nor agreed key is used *)

ServerPacket(payload, extended) ==
    IF extended THEN ExtendedMagic \o Length2(Len(payload) + 6) \o <<0, 0>> \o payload
    ELSE Magic \o Length2(Len(payload) + 4) \o payload

\* KeychainEncryptPacket
EncryptServer(chain, p) ==
    LET head == Xor(WordAt(p, 0), ServerXor)
        keys == EncryptKeys(chain, 1, p, 4, KeyAt(chain, head[1]))
        b    == Combined(p, 4, Len(p), keys)
    IN  head \o SubSeq(b, 5, Len(b))

\* KeychainGetClientPacketLength: a long header is longer than its first word.
ClientLength(chain, b) ==
    LET head == Xor(WordAt(b, 0), ServerXor)
        more == Xor(WordAt(b, 4), KeyAt(chain, WordAt(b, 0)[1]))
    IN  IF SubSeq(head, 1, 2) = ExtendedMagic
        THEN LengthOf(head) + 16 * (more[1] + 4 * more[2])
        ELSE LengthOf(head)

\* KeychainDecryptClientPacket.  With nothing left over the mask for the rest is
\* 0xFFFFFFFF shifted by its whole width: it may come out as none or as all, and
\* then the four bytes behind the packet are changed.
DecryptClient(chain, b, length, all) ==
    LET first == KeyAt(chain, WordAt(b, 0)[1])
        keys  == DecryptKeys(chain, 1, b, 4, length, first)
        c     == Combined(b, 4, length, keys)
        over  == IF all /\ (length - 4) % 4 = 0 THEN length + 1 .. length + 4 ELSE {}
    IN  Xor(WordAt(b, 0), ServerXor) \o
        [j \in 1 .. Len(b) - 4 |->
            IF j + 4 \in over THEN XorByte(c[j + 4], keys[(length - 4) \div 4][j + 4 - length])
            ELSE c[j + 4]]

-----------------------------------------------------------------------------
(* The connection *)

\* The command of a packet with a header of n bytes.
Command(p, n) == p[n + 1]

Init ==
    /\ client = Fresh(ClientXor)
    /\ server = Fresh(ServerXor)
    /\ toServer = <<>> /\ toClient = <<>> /\ asked = <<>> /\ told = <<>>
    /\ waiting = FALSE /\ torn = FALSE

\* The client sends a packet, CONNECT first and possibly again.
ClientSends(payload) ==
    LET p == ClientPacket(payload)
    IN  /\ ~torn /\ ~waiting /\ Len(asked) < MaxFlight
        /\ client.initial => payload = Connect
        /\ toServer' = toServer \o EncryptClient(client, p)
        /\ asked' = Append(asked, p)
        /\ client' = Stepped(client)
        /\ waiting' = (payload = Connect)
        /\ UNCHANGED <<server, toClient, told, torn>>

\* SocketSend and SocketFlushWriteBuffer
Sends(chain, payload, extended) ==
    LET p == ServerPacket(payload, extended)
    IN  /\ toClient' = toClient \o EncryptServer(chain, p)
        /\ told' = Append(told, p)

\* SocketFetchReadBuffer: the first packet in the buffer is decrypted, handled
\* and taken out.  The answer to CONNECT names the key and the step.
ServerReceives ==
    LET length == ServerLength(server, toServer)
        read   == DecryptServer(server, toServer, length)
    IN  /\ ~torn /\ toServer # <<>> /\ length \in 9 .. Len(toServer)
        /\ toServer' = SubSeq(read, length + 1, Len(read))
        /\ asked' = Tail(asked)
        /\ IF Command(read, 8) = 0
           THEN /\ Len(told) < MaxFlight
                /\ \E key \in XorKeys, index \in 0 .. Count - 1 :
                      /\ server' = Agreed(server, key, index)
                      /\ Sends(server', <<0, key, index>>, FALSE)
           ELSE server' = Stepped(server) /\ UNCHANGED <<toClient, told>>
        /\ UNCHANGED <<client, waiting, torn>>

\* A handler answers, or the server tells the client something.
ServerSends(payload, extended) ==
    /\ ~torn /\ Len(told) < MaxFlight /\ ~server.initial
    /\ Sends(server, payload, extended)
    /\ UNCHANGED <<client, server, toServer, asked, waiting, torn>>

\* The client reads, and starts on the key that the answer to CONNECT names.
ClientReceives ==
    LET length == ClientLength(client, toClient)
        header == IF SubSeq(Xor(WordAt(toClient, 0), ServerXor), 1, 2) = ExtendedMagic THEN 6 ELSE 4
    IN  /\ ~torn /\ toClient # <<>> /\ length \in header + 2 .. Len(toClient)
        /\ \E all \in BOOLEAN :
            LET read == DecryptClient(client, toClient, length, all)
            IN  /\ toClient' = SubSeq(read, length + 1, Len(read))
                /\ told' = Tail(told)
                /\ torn' = (toClient' # SubSeq(toClient, length + 1, Len(toClient)))
                /\ IF Command(read, header) = 0
                   THEN client' = Seeded(client, read[header + 2], read[header + 3]) /\ waiting' = FALSE
                   ELSE UNCHANGED <<client, waiting>>
        /\ UNCHANGED <<server, toServer, asked>>

Next ==
    \/ \E payload \in ClientPayloads \cup {Connect} : ClientSends(payload)
    \/ ServerReceives
    \/ \E payload \in ServerPayloads, extended \in BOOLEAN : ServerSends(payload, extended)
    \/ ClientReceives

Spec == Init /\ [][Next]_vars

-----------------------------------------------------------------------------
(* Properties *)

TypeOK ==
    /\ client \in Keychains /\ server \in Keychains
    /\ toServer \in Seq(Bytes) /\ toClient \in Seq(Bytes)
    /\ Len(asked) <= MaxFlight /\ Len(told) <= MaxFlight
    /\ waiting \in BOOLEAN /\ torn \in BOOLEAN

\* What one end reads from now on: the keychain and the bytes after one more
\* packet, and whether all were as they had been sent.
NextRead(r, p) ==
    LET length == ServerLength(r.chain, r.bytes)
        read   == DecryptServer(r.chain, r.bytes, length)
    IN  IF ~r.same \/ length > Len(r.bytes) THEN [r EXCEPT !.same = FALSE]
        ELSE [chain |-> Stepped(r.chain), bytes |-> SubSeq(read, length + 1, Len(read)),
              same |-> SubSeq(read, 1, length) = p]

NextHeard(r, p) ==
    LET length == ClientLength(r.chain, r.bytes)
        read   == DecryptClient(r.chain, r.bytes, length, FALSE)
    IN  IF ~r.same \/ length > Len(r.bytes) THEN [r EXCEPT !.same = FALSE]
        ELSE [r EXCEPT !.bytes = SubSeq(read, length + 1, Len(read)),
                       !.same = SubSeq(read, 1, length) = p]

Reading(chain, bytes) == [chain |-> chain, bytes |-> bytes, same |-> TRUE]

\* The server reads every packet on its way as the client sent it and finds the
\* borders between them, whatever was sent and agreed on before.
ServerReads ==
    LET end == FoldLeft(NextRead, Reading(server, toServer), asked)
    IN  ~torn => end.same /\ end.bytes = <<>>

\* So does the client, unless the mask for nothing has changed bytes behind a
\* packet.
ClientReads ==
    LET end == FoldLeft(NextHeard, Reading(client, toClient), told)
    IN  ~torn => end.same /\ end.bytes = <<>>

\* Between two packets of the client both keychains are the same, also after a
\* second CONNECT and after the step has wrapped around.
InStep == ~torn /\ ~waiting /\ toServer = <<>> /\ ~client.initial => client = server

\* The two ends of an encrypted connection understand each other: both read
\* what was sent, border by border, and come out of it in step.
KeychainInv == TypeOK /\ ServerReads /\ ClientReads /\ InStep
=============================================================================
