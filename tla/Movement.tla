------------------------------ MODULE Movement ------------------------------
(***************************************************************************)
(* How one character moves through a world.                                *)
(*                                                                         *)
(* The client tells where a move begins, where it ends and where its next  *)
(* corner is; WorldSvr reckons where the character is on the straight line *)
(* from one corner to the next, and takes a later request only if the      *)
(* position in it is near that line.  A request that is not taken ends     *)
(* the connection.  The position is stored from time to time, and the      *)
(* next login begins there.                                                *)
(*                                                                         *)
(* Speed and distance are left open: between two steps the character gets  *)
(* any way along its line.                                                 *)
(***************************************************************************)
EXTENDS Integers

CONSTANTS
    Size,        \* RUNTIME_WORLD_SIZE
    StoreWidth,  \* how many values a coordinate of RTCharacterPosition has (UInt16)
    ChunkSize,   \* RUNTIME_WORLD_CHUNK_SIZE
    Tolerance,   \* RUNTIME_MOVEMENT_MAX_ERROR_TOLERANCE: of a squared distance
    MaxLength,   \* RUNTIME_MOVEMENT_MAX_DISTANCE_LENGTH
    Grounds,     \* bound: sets of positions a client may name besides its own
    MaxApart     \* bound: how far these are from where the server has the character

\* Movement->Position*: Int32, in the world or not.
Positions == Int \X Int

ASSUME MovementAssumption ==
    /\ StoreWidth \in Nat /\ Size \in 1 .. StoreWidth /\ ChunkSize \in Nat \ {0}
    /\ Tolerance \in Nat /\ MaxLength \in Nat /\ MaxApart \in Nat
    /\ Grounds \subseteq SUBSET Positions /\ {} \notin Grounds

VARIABLES
    places,   \* the positions of this behaviour that a client may name
    online,   \* the character is in the world
    move,     \* Character->Movement
    along,    \* how far the character is on its line, in tiles of the longer side
    dirty,    \* SyncMask has RUNTIME_CHARACTER_SYNC_INFO
    stored     \* the position last stored

moveVars == <<places, online, move, along, dirty, stored>>

AbsOf(n) == IF n < 0 THEN -n ELSE n
Sign(n) == IF n < 0 THEN -1 ELSE 1

InWorld(p) == \A i \in {1, 2} : p[i] \in 0 .. Size - 1

\* RTCharacterPosition, and as much of p as it holds.
StoredPositions == (0 .. StoreWidth - 1) \X (0 .. StoreWidth - 1)
Kept(p) == <<p[1] % StoreWidth, p[2] % StoreWidth>>

\* Division in C: rounded towards zero.
Quotient(n, d) == Sign(n) * (AbsOf(n) \div d)

\* The coordinate in which a and b are farther apart.  Where both are alike the
\* code takes the second for reckoning and the first for checks: the tiles are
\* the same.
Longer(a, b) == IF AbsOf(b[1] - a[1]) < AbsOf(b[2] - a[2]) THEN 2 ELSE 1

Major(a, b) == AbsOf(b[Longer(a, b)] - a[Longer(a, b)])

\* RTMovementUpdateDeadReckoning: the tile k tiles along the line from a to b.
PointAt(a, b, k) ==
    LET i == Longer(a, b)
        n == Major(a, b)
        minor == AbsOf(b[3 - i] - a[3 - i])
        on(c) == a[c] + Sign(b[c] - a[c]) * (IF c = i THEN k ELSE (minor * k + n \div 2) \div n)
    IN  IF k = n THEN b ELSE <<on(1), on(2)>>

\* Where the character is by now, on its line or at rest.
Reckoned == IF move.moving THEN PointAt(move.a, move.b, along) ELSE move.current

\* Mutant: the same in either direction.
AheadForward(a, b, p) == p[Longer(a, b)] - a[Longer(a, b)]

\* How far p is along the line from a to b.
Ahead(a, b, p) ==
    LET i == Longer(a, b) IN IF b[i] > a[i] THEN p[i] - a[i] ELSE a[i] - p[i]

\* p is near the line through a and b (RTCharacterMovementChange).
NearLine(a, b, p) ==
    LET i == Longer(a, b)
        j == 3 - i
        n == IF b[i] = a[i] THEN 1 ELSE Major(a, b)
        ahead == Ahead(a, b, p)
        major == a[i] + Quotient(ahead * (b[i] - a[i]), n) - p[i]
        minor == a[j] - p[j] + Sign(b[j] - a[j])
                     * Quotient(AbsOf(b[j] - a[j]) * ahead + n \div 2, n)
    IN  major * major <= Tolerance /\ minor * minor <= Tolerance

\* p is near the row of a: END and TILE_POSITION take the difference of a
\* coordinate of b with itself for DeltaY.
NearRow(a, b, p) == NearLine(a, <<b[1], a[2]>>, p)

\* The chunk of p is at most one away from that of the position last reckoned.
NextChunk(p) ==
    \A i \in {1, 2} : AbsOf(p[i] \div ChunkSize - move.current[i] \div ChunkSize) <= 1

-----------------------------------------------------------------------------
(* Character->Movement *)

\* RTMovementInitialize: standing at p.
Standing(p) == [begin |-> p, current |-> p, end |-> p, a |-> <<0, 0>>, b |-> <<0, 0>>,
                moving |-> FALSE, reckoning |-> FALSE]

\* RTMovementStartDeadReckoning on the line from a to b.
Started(a, b, end) == [begin |-> a, current |-> a, end |-> end, a |-> a, b |-> b,
                       moving |-> TRUE, reckoning |-> TRUE]

\* The state is well-typed, and no time is counted from before the line.
MoveTypeOK ==
    /\ places \in Grounds
    /\ online \in BOOLEAN /\ dirty \in BOOLEAN
    /\ move \in [begin : Positions, current : Positions, end : Positions,
                 a : Positions, b : Positions, moving : BOOLEAN, reckoning : BOOLEAN]
    /\ along \in 0 .. Major(move.a, move.b)
    /\ stored \in StoredPositions

MoveInit ==
    /\ places \in Grounds
    /\ online = TRUE /\ dirty = FALSE /\ along = 0
    /\ \E p \in places : stored = Kept(p)
    /\ move = Standing(stored)

Mark == dirty' = TRUE /\ UNCHANGED <<online, stored>>

\* SocketDisconnect, and the disconnect it leads to.
Refuse == online' = FALSE /\ UNCHANGED <<move, along, dirty, stored>>

\* A character that stands near b may go by way of c.
MayBegin(b, c) ==
    /\ ~move.moving /\ NextChunk(c)
    /\ \A p \in {move.begin, move.current}, i \in {1, 2} : (p[i] - b[i]) * (p[i] - b[i]) <= Tolerance

\* MOVEMENT_BEGIN and KEY_MOVEMENT_BEGIN: from b by way of c to e.  The KEY_
\* requests name floats, cut off to whole tiles before anything is asked.
MovementBegin(b, c, e) ==
    IF ~MayBegin(b, c) THEN Refuse
    ELSE /\ move' = Started(b, c, e)
         /\ along' = 0
         /\ Mark

\* MOVEMENT_CHANGE and KEY_MOVEMENT_CHANGE: the move turns at b.  The one request
\* that has to stay in the world.
MovementChange(b, c, e) ==
    IF \/ ~move.moving \/ \E p \in {b, c, e} : ~InWorld(p)
       \/ ~NearLine(move.a, move.b, b) \/ ~NextChunk(c)
    THEN Refuse
    ELSE /\ move' = Started(b, c, e)
         /\ along' = 0
         /\ Mark

\* MOVEMENT_END and KEY_MOVEMENT_END: the character stops at p.
MovementEnd(p) ==
    IF ~move.moving \/ ~NearRow(move.a, move.b, p) THEN Refuse
    ELSE /\ move' = [Standing(p) EXCEPT !.a = move.a, !.b = move.b]
         /\ UNCHANGED along
         /\ Mark

\* MOVEMENT_WAYPOINTS: on to the line from p to q.  The time that counts for the
\* new line is what the lines before did not need, by a sum the model leaves
\* open.
MovementWaypoints(p, q) ==
    IF ~move.moving \/ \E i \in {1, 2} : AbsOf(q[i] - p[i]) >= MaxLength THEN Refuse
    ELSE /\ move' = [move EXCEPT !.a = p, !.b = q, !.current = p, !.reckoning = TRUE]
         /\ along' \in 0 .. Major(p, q)
         /\ Mark

\* MOVEMENT_TILE_POSITION: the next tile is p; only a new chunk is taken over.
TilePosition(p) ==
    IF \/ ~move.moving \/ ~NearRow(move.a, move.b, p) \/ ~NextChunk(p)
       \/ \E i \in {1, 2} : p[i] >= Tolerance
    THEN Refuse
    ELSE IF \A i \in {1, 2} : p[i] \div ChunkSize = move.current[i] \div ChunkSize
    THEN UNCHANGED <<online, move, along, dirty, stored>>
    ELSE /\ move' = [move EXCEPT !.current = p]
         /\ UNCHANGED along
         /\ Mark

AtRest == ~move.moving /\ ~move.reckoning /\ move.begin = move.current /\ move.begin = move.end

\* SKILL_TO_CHARACTER with a skill that moves: at once from p to q, if nothing is
\* in between.
SkillMove(p, q, free) ==
    IF ~AtRest \/ Major(move.current, p) > 1 \/ ~free THEN Refuse
    ELSE /\ move' = [move EXCEPT !.begin = q, !.current = q, !.end = q]
         /\ UNCHANGED along
         /\ Mark

\* WARP, if there is nothing against it.
Warp(p) ==
    IF move.moving \/ move.reckoning THEN Refuse
    ELSE /\ move' = Standing(p)
         /\ along' = 0
         /\ Mark

-----------------------------------------------------------------------------
(* The server's own steps *)

\* RTMovementUpdateDeadReckoning
Updated == [move EXCEPT !.current = IF move.reckoning THEN Reckoned ELSE @,
                        !.reckoning = @ /\ along < Major(move.a, move.b)]

\* Another character does something that is told to the world.
Update ==
    /\ online /\ move.reckoning
    /\ move' = Updated
    /\ UNCHANGED <<online, along, dirty, stored>>

\* ServerSyncDB: as many bits as RTCharacterPosition has are kept.
SyncPosition ==
    /\ online /\ dirty
    /\ move' = Updated
    /\ stored' = Kept(Updated.current)
    /\ dirty' = FALSE
    /\ UNCHANGED <<online, along>>

TimePasses ==
    /\ online /\ move.reckoning
    /\ along' \in along + 1 .. Major(move.a, move.b)
    /\ UNCHANGED <<online, move, dirty, stored>>

\* The client leaves; nothing is stored.
Leave ==
    /\ online /\ online' = FALSE
    /\ UNCHANGED <<move, along, dirty, stored>>

\* RTCharacterInitialize for the next INITIALIZE.
Login ==
    /\ ~online /\ online' = TRUE
    /\ move' = Standing(stored) /\ along' = 0 /\ dirty' = FALSE
    /\ UNCHANGED stored

-----------------------------------------------------------------------------

\* No coordinate of p is so far from those of the move that the Int32 products of
\* the checks overflow, which is undefined.
Apart(p) ==
    \A q \in {move.begin, move.current} \cup (IF move.moving THEN {move.a, move.b} ELSE {}),
        i \in {1, 2} : AbsOf(p[i] - q[i]) <= MaxApart

\* A client names where it is or one of a few other places, in the world or not.
\* Where it says a move ends is read by nobody before the move is over, so it is
\* the first corner.
Named == {p \in places \cup {Reckoned} : Apart(p)}
Corners == {p \in places : Apart(p)}

Request ==
    \/ \E b \in Named, c \in Corners : MovementBegin(b, c, c)
    \/ \E b \in Named, c \in Corners : MovementChange(b, c, c)
    \/ \E p \in Named : MovementEnd(p)
    \/ \E p \in Named, q \in Corners : MovementWaypoints(p, q)
    \/ \E p \in Named : TilePosition(p)
    \/ \E p \in Named, q \in places, free \in BOOLEAN : SkillMove(p, q, free)
    \/ \E p \in places : InWorld(p) /\ Warp(p)

MoveNext ==
    /\ UNCHANGED places
    /\ \/ online /\ Request
       \/ Update \/ SyncPosition \/ TimePasses \/ Leave \/ Login

MoveSpec == MoveInit /\ [][MoveNext]_moveVars

-----------------------------------------------------------------------------
(* Properties *)

\* A character that does not move is in one place, whatever requests it stopped
\* after: OnSkillToMob.c and OnSkillToCharacter.c disconnect a client for which
\* that does not hold.
Rests == ~move.moving => AtRest

\* The position the server reckons is one it takes: the line checks of the
\* requests, which are written apart from the reckoning, never disconnect a
\* client that changes its move where the server has it (but for leaving the
\* world), nor one that stops there unless it is too far from the row the line
\* began in.
TakenWhereReckoned ==
    move.moving =>
        /\ NearLine(move.a, move.b, Reckoned)
        /\ (Reckoned[2] - move.a[2]) * (Reckoned[2] - move.a[2]) <= Tolerance
               => NearRow(move.a, move.b, Reckoned)

\* A character at rest with nothing left to store is stored where it is, as far as
\* the stored coordinates reach, however requests, updates and stores were mixed.
SavedAtRest == online /\ ~dirty /\ ~move.moving => stored = Kept(move.current)

\* The server's picture of a character holds together: where it is reckoned it is
\* taken, where it rests it is, and what is stored is where it rests.
MovementInv == MoveTypeOK /\ Rests /\ TakenWhereReckoned /\ SavedAtRest
=============================================================================
