------------------------------ MODULE MobPath -------------------------------
(***************************************************************************)
(* How one mob finds its way and walks it.                                 *)
(*                                                                         *)
(* RTMobUpdate gives the mob a place to go to: a tile of its spawn area or *)
(* that of the character it hunts.  RTMovementFindPath searches tiles      *)
(* around walls, keeps of them the corners it cannot see past, and the mob *)
(* is reckoned along the lines between these.  Where there is no path it   *)
(* goes straight on until it meets a wall.  A hit stops it where it was    *)
(* last reckoned.                                                          *)
(***************************************************************************)
EXTENDS Integers, FiniteSets, Sequences, SequencesExt

CONSTANTS
    Size,          \* RUNTIME_WORLD_SIZE
    TileSize,      \* steps of a trace in a tile: RUNTIME_WORLD_TILE_SIZE
    Maps,          \* bound: sets of tiles that collide
    MaxNodes,      \* RUNTIME_MOVEMENT_MAX_PATH_FIND_NODE_COUNT
    MaxWaypoints   \* RUNTIME_MOVEMENT_MAX_WAYPOINT_COUNT

Tiles == (0 .. Size - 1) \X (0 .. Size - 1)

ASSUME PathAssumption ==
    /\ Size \in Nat \ {0} /\ TileSize \in Nat \ {0, 1}
    /\ MaxNodes \in Nat \ {0} /\ MaxWaypoints \in Nat \ {0, 1, 2}
    /\ Maps \subseteq SUBSET Tiles /\ Tiles \notin Maps

VARIABLES
    map,     \* World->Tiles: those that collide
    mob,     \* Mob->Movement: its positions
    way,     \* Mob->Movement: the first WaypointCount of its waypoints
    index,   \* the corner it has passed last
    along    \* tiles it is past this corner, on the longer side of the line

vars == <<map, mob, way, index, along>>

AbsOf(n) == IF n < 0 THEN -n ELSE n
SignOf(n) == IF n < 0 THEN -1 ELSE 1
Larger(m, n) == IF m < n THEN n ELSE m

Colliding(m, t) == t \notin Tiles \/ t \in m

\* The coordinate in which a and b are farther apart, and how far.
Longer(a, b) == IF AbsOf(b[1] - a[1]) < AbsOf(b[2] - a[2]) THEN 2 ELSE 1
Major(a, b) == AbsOf(b[Longer(a, b)] - a[Longer(a, b)])
Minor(a, b) == AbsOf(b[3 - Longer(a, b)] - a[3 - Longer(a, b)])

-----------------------------------------------------------------------------
(* RTWorldTraceMovement *)

\* A trace takes one direction only: along the longer side or, if the line is
\* steep enough, diagonally.
Direction(a, b) ==
    [c \in {1, 2} |-> IF 2 * Minor(a, b) < Major(a, b) /\ c # Longer(a, b) THEN 0
                      ELSE SignOf(b[c] - a[c])]

\* The tile after i steps: a step down leaves a tile at once.
TraceAt(a, b, i) == [c \in {1, 2} |-> a[c] + (Direction(a, b)[c] * i) \div TileSize]

TraceSteps(a, b) == 1 .. TileSize * Major(a, b) + 1

Visible(m, a, b) == \A i \in TraceSteps(a, b) : ~Colliding(m, TraceAt(a, b, i))

\* The last tile before the first that collides.
TraceEnd(m, a, b) ==
    LET before == {i \in TraceSteps(a, b) : \A j \in 1 .. i : ~Colliding(m, TraceAt(a, b, j))}
    IN  IF before = {} THEN a
        ELSE TraceAt(a, b, CHOOSE i \in before : \A j \in before : j <= i)

-----------------------------------------------------------------------------
(* RTPathFindingAStar *)

Offsets == << <<1, 0>>, <<-1, 0>>, <<0, 1>>, <<0, -1>>, <<-1, 1>>, <<1, -1>>, <<1, 1>>, <<-1, -1>> >>

\* A node is the path to it; its cost is how far it is from the goal.
Cost(node, goal) == Major(Last(node), goal)

\* Behind the first of the list unless it is cheaper, before those that are not.
Inserted(open, node, goal) ==
    LET later == {k \in 2 .. Len(open) : Cost(open[k], goal) >= Cost(node, goal)}
    IN  IF open = <<>> \/ Cost(Head(open), goal) > Cost(node, goal) THEN <<node>> \o open
        ELSE IF later = {} THEN Append(open, node)
        ELSE InsertAt(open, CHOOSE k \in later : \A j \in later : k <= j, node)

\* One neighbour of a node that was taken from the list.
Opened(m, s, node, offset, goal) ==
    LET t == <<Last(node)[1] + offset[1], Last(node)[2] + offset[2]>>
    IN  IF s.full \/ t \notin Tiles \/ t \in s.marked THEN s
        ELSE IF Colliding(m, t) THEN [s EXCEPT !.marked = @ \cup {t}]
        ELSE IF s.nodes + 1 >= MaxNodes THEN [s EXCEPT !.full = TRUE]
        ELSE [s EXCEPT !.marked = @ \cup {t}, !.nodes = @ + 1,
                       !.open = Inserted(@, Append(node, t), goal)]

\* One round: the first node of the list is the goal, or its neighbours join.
Round(m, s, goal) ==
    LET node == Head(s.open)
        Joined[k \in 0 .. 8] ==
            IF k = 0 THEN [s EXCEPT !.open = Tail(@)]
            ELSE Opened(m, Joined[k - 1], node, Offsets[k], goal)
    IN  IF Last(node) = goal THEN [s EXCEPT !.path = node] ELSE Joined[8]

\* The search goes on from s.  The marks of the one before were taken back.  Each
\* round takes a node from the list, and there are fewer than MaxNodes.
Search(m, start, goal) ==
    LET Rounds[k \in 0 .. MaxNodes] ==
            IF k = 0
            THEN [open |-> << <<start>> >>, marked |-> {start}, nodes |-> 1, full |-> FALSE, path |-> <<>>]
            ELSE LET s == Rounds[k - 1]
                 IN  IF s.path # <<>> \/ s.full \/ s.open = <<>> THEN s ELSE Round(m, s, goal)
    IN  Rounds[MaxNodes]

-----------------------------------------------------------------------------
(* RTMovementFindPath *)

\* The binary search of RTPathFindLastVisibleNodeIndex between a and b.
Between(m, path, k, from) ==
    LET Found[a \in 1 .. Len(path), b \in 1 .. Len(path)] ==
            LET c == (a + b + 1) \div 2
            IN  IF b - a <= 1 THEN a
                ELSE IF Visible(m, path[k], path[c]) THEN Found[c, b] ELSE Found[a, c]
    IN  Found[from, Len(path)]

\* Mutant: the search starts behind the next node.
LastVisibleFar(m, path, k) ==
    IF Visible(m, path[k], Last(path)) \/ k + 2 > Len(path) THEN Len(path)
    ELSE Between(m, path, k, k + 2)

\* RTPathFindLastVisibleNodeIndex: the end of the path, or what a binary search
\* comes to.
LastVisible(m, path, k) ==
    IF Visible(m, path[k], Last(path)) THEN Len(path) ELSE Between(m, path, k, k + 1)

\* The corners of a path.
Corners(m, path) ==
    LET From[k \in 1 .. Len(path)] ==
            IF k = Len(path) THEN <<path[k]>>
            ELSE <<path[k]>> \o From[LastVisible(m, path, k)]
    IN  From[1]

\* Whether there is a path, and the waypoints that are left.
FindPath(m, begin, end) ==
    LET path == Search(m, begin, end).path
        corners == Corners(m, path)
        stop == TraceEnd(m, begin, end)
    IN  IF path = <<>>
        THEN [found |-> FALSE, way |-> IF stop = begin THEN <<>> ELSE <<begin, stop>>]
        ELSE IF Len(corners) >= MaxWaypoints
        THEN [found |-> FALSE, way |-> SubSeq(corners, 1, 2)]
        ELSE [found |-> TRUE, way |-> corners]

\* What the search and FindPath come to, from each tile to each (the @@ makes TLC
\* compute them once).
Searches == [m \in Maps, begin \in Tiles, end \in Tiles |-> Search(m, begin, end)]
            @@ <<>>

Paths == [m \in Maps, begin \in Tiles, end \in Tiles |-> FindPath(m, begin, end)]
         @@ <<>>

-----------------------------------------------------------------------------
(* RTMobUpdate *)

\* RTMovementInitialize
Standing(t) == [begin |-> t, current |-> t, end |-> t, moving |-> FALSE, reckoning |-> FALSE]

\* RTMovementUpdateDeadReckoning: the tile k tiles along the line from a to b.
PointAt(a, b, k) ==
    LET i == Longer(a, b)
        n == Major(a, b)
    IN  [c \in {1, 2} |-> a[c] + SignOf(b[c] - a[c])
                               * IF c = i THEN k ELSE (Minor(a, b) * k + n \div 2) \div n]

\* The state is well-typed; while it is reckoned, the mob is on one of its lines.
TypeOK ==
    /\ map \in Maps
    /\ mob \in [begin : Tiles, current : Tiles, end : Tiles, moving : BOOLEAN, reckoning : BOOLEAN]
    /\ way \in Seq(Tiles) /\ Len(way) < MaxWaypoints
    /\ mob.reckoning => /\ index \in 1 .. Len(way) - 1
                        /\ along \in 0 .. Major(way[index], way[index + 1])

Init ==
    /\ map \in Maps
    /\ \E t \in Tiles : mob = Standing(t)
    /\ way = <<>> /\ index = 0 /\ along = 0

\* Those of the last walk stay if the mob is where it is to go.
Way(target) ==
    IF mob.begin = target THEN [found |-> FALSE, way |-> way] ELSE Paths[map, mob.begin, target]

\* Mutant: where the mob is to go stays, even if it cannot get there.
BeginMoveFar(target) ==
    LET r == Way(target)
    IN  /\ ~mob.moving /\ way' = r.way
        /\ IF r.found \/ Len(r.way) = 2
           THEN /\ mob' = [mob EXCEPT !.end = target, !.moving = TRUE, !.reckoning = TRUE]
                /\ index' = 1 /\ along' = 0
           ELSE mob' = [mob EXCEPT !.end = target] /\ UNCHANGED <<index, along>>
        /\ UNCHANGED map

\* The mob sets out for target: all the way, or to the end of the first line.
BeginMove(target) ==
    LET r == Way(target)
    IN  /\ ~mob.moving /\ way' = r.way
        /\ IF r.found \/ Len(r.way) = 2
           THEN /\ mob' = [mob EXCEPT !.end = IF r.found THEN target ELSE r.way[2],
                                      !.moving = TRUE, !.reckoning = TRUE]
                /\ index' = 1 /\ along' = 0
           ELSE mob' = [mob EXCEPT !.end = target] /\ UNCHANGED <<index, along>>
        /\ UNCHANGED map

\* RTMovementEndDeadReckoning if the mob is where it was to go.
Stopped(m) ==
    IF m.current = m.end THEN [m EXCEPT !.begin = m.end, !.moving = FALSE, !.reckoning = FALSE]
    ELSE m

\* It got somewhere on its lines, ...
Walk ==
    /\ mob.reckoning
    /\ \E j \in index .. Len(way) - 1 : \E k \in 0 .. Major(way[j], way[j + 1]) - 1 :
        /\ j > index \/ k > along
        /\ mob' = Stopped([mob EXCEPT !.current = PointAt(way[j], way[j + 1], k)])
        /\ index' = j /\ along' = k
    /\ UNCHANGED <<map, way>>

\* ... or to their end.
Arrive ==
    /\ mob.reckoning
    /\ mob' = Stopped([mob EXCEPT !.current = Last(way), !.reckoning = FALSE])
    /\ UNCHANGED <<map, way, index, along>>

\* RTMobCancelMovement: it is hit.
CancelMovement ==
    /\ mob.moving
    /\ mob' = Standing(mob.current)
    /\ UNCHANGED <<map, way, index, along>>

\* RTWorldSpawnMob, after it died: anywhere in its area, in a wall as well.
Respawn ==
    /\ \E t \in Tiles : mob' = Standing(t)
    /\ way' = <<>> /\ index' = 0 /\ along' = 0
    /\ UNCHANGED map

Next ==
    \/ \E target \in Tiles : BeginMove(target)
    \/ Walk
    \/ Arrive
    \/ CancelMovement
    \/ Respawn

\* The server's loop updates the mob again and again.
Fairness == WF_vars(Walk \/ Arrive)

Spec == Init /\ [][Next]_vars
FairSpec == Spec /\ Fairness

-----------------------------------------------------------------------------
(* Properties *)

Adjacent(s, t) == s # t /\ AbsOf(s[1] - t[1]) <= 1 /\ AbsOf(s[2] - t[2]) <= 1

\* The free tiles that can be reached from t over free tiles.
Reachable(m, t) ==
    LET Grown[R \in SUBSET Tiles] ==
            LET S == R \cup {u \in Tiles \ m : \E v \in R : Adjacent(u, v)}
            IN  IF S = R THEN R ELSE Grown[S]
    IN  Grown[{t}]

Reached == [m \in Maps, t \in Tiles |-> Reachable(m, t)] @@ <<>>

\* RTPathFindingAStar: from where the mob stands a search finds every tile that
\* can be reached, if those are fewer than its nodes, finds no other, and its path
\* is one over free tiles.
PathFound ==
    ~mob.moving =>
        LET reachable == Reached[map, mob.begin]
        IN  \A t \in Tiles :
                LET path == Searches[map, mob.begin, t].path
                IN  /\ path # <<>> => /\ path[1] = mob.begin /\ Last(path) = t /\ t \in reachable
                                      /\ \A k \in 2 .. Len(path) :
                                             Adjacent(path[k - 1], path[k]) /\ path[k] \notin map
                    /\ t \in reachable /\ Cardinality(reachable) < MaxNodes => path # <<>>

\* The tiles the mob is reckoned on are free although the search, the trace and
\* the reckoning each have a line of their own, if that line is straight or
\* diagonal; on others the trace looks at other tiles.
WalksFree ==
    mob.moving =>
        \A j \in 1 .. Len(way) - 1 :
            LET a == way[j]  b == way[j + 1]
            IN  Minor(a, b) \in {0, Major(a, b)} =>
                    \A k \in 1 .. Major(a, b) : PointAt(a, b, k) \notin map

\* A mob at rest is in one place, which is where clients that come later are told
\* it is and goes, unless it looked for a way and had none.
RestsWhereItIs ==
    ~mob.moving => /\ mob.begin = mob.current /\ ~mob.reckoning
                   /\ mob.end = mob.begin \/ way = <<>>

\* RTMobUpdate: a mob that sets out stops again, on whatever way it went: without
\* a path, on too many corners, or where it stands.
Arrives == mob.moving ~> ~mob.moving

\* A mob finds what can be reached, keeps off the walls and rests where it is.
PathInv == TypeOK /\ PathFound /\ WalksFree /\ RestsWhereItIs
=============================================================================
