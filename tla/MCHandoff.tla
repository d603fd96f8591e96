----------------------------- MODULE MCHandoff -----------------------------
(***************************************************************************)
(* Small instances of Handoff for TLC.  Some behaviours start before the   *)
(* links between the servers come up, some in the state all servers reach  *)
(* once they are up and the world lists exchanged, which leaves more room  *)
(* for what follows.                                                       *)
(***************************************************************************)
EXTENDS Handoff, TLC

Symmetry == Permutations(Accounts) \cup Permutations(Keys) \cup Permutations(Masters)

\* Nothing is under way; the links are all up or all down.
Quiet(up) ==
    /\ world = [m \in Masters |-> [e \in WorldIDs |->
                    WorldConn("unused", NoKey, NoAccount, FALSE, FALSE)]]
    /\ LET all == [m \in Masters |-> up]
       IN  /\ authLink = all /\ worldLink = all /\ named = all /\ listed = all
           /\ registered = all /\ acked = all
    /\ dirty = [m \in Masters |-> FALSE]
    /\ rows \in [Masters -> SUBSET Accounts]
    /\ LET empty == [m \in Masters |-> <<>>]
       IN  toMaster = empty /\ toAuth = empty /\ toWorld = empty /\ fromWorld = empty
    /\ drops \in {0, MaxDrops}
    /\ asked = {} /\ granted = {}
    /\ issued = [m \in Masters |-> [e \in WorldIDs |-> {}]]
    /\ told = [c \in AuthIDs |-> <<>>]

Unused == AuthConn("unused", NoAccount, FALSE, FALSE)

Connected == Quiet(TRUE) /\ auth = [c \in AuthIDs |-> Unused]

\* Bring-up: no link is up yet, and one client came and left before.  The
\* last break is kept for the behaviours below.
Starting ==
    /\ Quiet(FALSE) /\ drops = 0
    /\ auth = [c \in AuthIDs |-> IF c = 1 THEN [Unused EXCEPT !.phase = "gone"]
                                 ELSE Unused]

\* Competing clients: the links are up and no break is left.
Competing == Connected /\ drops = MaxDrops

\* One of the accounts has a row at the master already; competing clients
\* both have.
InitRaces ==
    /\ Starting \/ Competing
    /\ \A m \in Masters :
          Cardinality(rows[m]) = IF drops = MaxDrops THEN Cardinality(Accounts) ELSE 1

SpecRaces == InitRaces /\ [][Next]_vars

\* One key is enough where clients compete, and one login of a client while
\* the links come up and break; the last break is not used there.
KeysUsed == {r.key : r \in asked} \cup UNION {issued[m][e] : m \in Masters, e \in WorldIDs}
InBounds ==
    IF drops = MaxDrops
    THEN Cardinality(KeysUsed') <= 1
    ELSE /\ drops' < MaxDrops
         /\ \A c \in AuthIDs : auth[c].acct # NoAccount =>
                auth'[c].acct \in {auth[c].acct, NoAccount}

\* No link is up at first, and one master has rows for all accounts.  Clients
\* come when the links are up, the world lists are exchanged and nothing is
\* under way, and the links hold from then on.
Opening ==
    /\ Quiet(FALSE) /\ auth = [c \in AuthIDs |-> Unused] /\ drops = 0
    /\ \E n \in Masters : rows = [m \in Masters |-> IF m = n THEN Accounts ELSE {}]

NobodyThere ==
    /\ auth = [c \in AuthIDs |-> Unused]
    /\ \A m \in Masters, e \in WorldIDs : world[m][e].phase = "unused"

LinksFirst ==
    /\ conns' # conns /\ NobodyThere => Quiet(TRUE)
    /\ drops' # drops => NobodyThere
=============================================================================
