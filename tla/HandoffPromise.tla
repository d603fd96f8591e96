--------------------------- MODULE HandoffPromise ---------------------------
(***************************************************************************)
(* What the hand-off promises, whatever the servers in between do: a       *)
(* client connection asks once; a world connection is bound at most once   *)
(* and only to a request that was made; each master answers a client at    *)
(* most once; a "yes" comes from the master asked and only after the bind; *)
(* a "no" of the master asked is final.                                    *)
(***************************************************************************)
EXTENDS Integers, Sequences

CONSTANTS Conns, Masters, Reqs

VARIABLES asked, granted, told

promise == <<asked, granted, told>>

PInit ==
    /\ asked = {} /\ granted = {}
    /\ told = [c \in Conns |-> <<>>]

Answers(c)    == {told[c][i] : i \in DOMAIN told[c]}
Refused(r)    == [by |-> r.to, status |-> 0] \in Answers(r.conn)
Answered(c, m) == \E ans \in Answers(c) : ans.by = m

Ask(r) ==
    /\ r \notin asked /\ \A q \in asked : q.conn # r.conn
    /\ asked' = asked \cup {r}
    /\ UNCHANGED <<granted, told>>

Grant(r) ==
    /\ r \in asked /\ ~Refused(r)
    /\ \A g \in granted : <<g.to, g.entity>> # <<r.to, r.entity>>
    /\ granted' = granted \cup {r}
    /\ UNCHANGED <<asked, told>>

Answer(c, m, s) ==
    /\ \E r \in asked :
          /\ r.conn = c
          /\ s = 1 => r.to = m /\ r \in granted
          /\ s = 0 => r.to # m \/ r \notin granted
    /\ ~Answered(c, m)
    /\ told' = [told EXCEPT ![c] = Append(@, [by |-> m, status |-> s])]
    /\ UNCHANGED <<asked, granted>>

\* The request of a step is the one that is new in asked.
PNext ==
    \/ \E r \in asked' \ asked : r \in Reqs /\ Ask(r)
    \/ \E r \in asked : Grant(r)
    \/ \E c \in Conns, m \in Masters, s \in {0, 1} : Answer(c, m, s)

PSpec == PInit /\ [][PNext]_promise
=============================================================================
