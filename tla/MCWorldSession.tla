--------------------------- MODULE MCWorldSession ---------------------------
(***************************************************************************)
(* Small instances of WorldSession for TLC.                                *)
(***************************************************************************)
EXTENDS WorldSession, TLC

CONSTANTS w1, w2, q1  \* the worlds the configurations use

\* Two groups of behaviours in one run.  Those that start with a break left
\* enter quest dungeons, with one packet under way at a time; the last break
\* is kept for those that start with none: they enter no dungeon, but two
\* packets may be under way at once and more things may drop.
InBounds ==
    IF breaks = MaxBreaks
    THEN \A i \in DOMAIN characters' : characters'[i].world \notin QuestWorlds
    ELSE /\ breaks' < MaxBreaks
         /\ Len(toMaster') + Len(toWorld') <= 1
         /\ Len(kinds') < MaxEntities
         /\ hunted' # {} => Cardinality({c \in ConnIDs : client'[c].phase # "unused"}) = 1

\* InitializeAnswered once no break is left.
InitializeAnsweredUnbroken ==
    \A c \in ConnIDs :
        (breaks = MaxBreaks /\ Waiting(c)) ~>
            (client[c].entity # 0 \/ client[c].phase = "gone" \/ fault # "none")
=============================================================================
