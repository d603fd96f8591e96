-------------------------- MODULE MCCharacterParts --------------------------
(***************************************************************************)
(* Progress and Movement, what a session does to one character, in one run *)
(* and apart from each other: a behaviour is one of Progress or one of     *)
(* Movement.  The grounds are pairs of far apart corners with the four     *)
(* slopes of a line between them; two lead out of the world.               *)
(***************************************************************************)
EXTENDS MCProgress, Movement

MCGrounds == {{<<0, 0>>, <<1, 4>>}, {<<0, 1>>, <<5, 3>>}, {<<0, 1>>, <<4, 4>>}, {<<4, 0>>, <<1, 3>>},
              {<<4, 4>>, <<8, 5>>}, {<<1, 1>>, <<-2, 0>>}}

VARIABLE part      \* the module this behaviour is one of

\* What rests begins in one way.
InitParts ==
    /\ Init /\ MoveInit
    /\ \/ part = "progress" /\ stored = <<0, 0>>
       \/ part = "movement" /\ plan = Ordered[5].plan

NextParts ==
    /\ UNCHANGED part
    /\ \/ part = "progress" /\ Next /\ UNCHANGED moveVars
       \/ part = "movement" /\ MoveNext /\ UNCHANGED vars

SpecParts == InitParts /\ [][NextParts]_<<vars, moveVars, part>>
=============================================================================
