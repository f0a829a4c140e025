----------------------------- MODULE LinkLives ------------------------------
(* Each link of Links lives the life that LinkLife describes. *)
EXTENDS Links

CellOf(zombie) == IF zombie THEN "closing" ELSE "open"

\* The cell of l in the local table of whichever side owns it.
OwnerCell(l) ==
    IF \E p \in Peer : \E i \in 1..Len(edge[p].local.links) : edge[p].local.links[i] = l
    THEN CellOf(\E p \in Peer : \E i \in edge[p].local.zombie : Get(edge[p].local, i) = l)
    ELSE "none"

Announced(l) ==
    \E p \in Peer : \E k \in 1..Len(Chan(p)) : l \in {Chan(p)[k].arg.link, Chan(p)[k].res.link}

\* The cell of l in a remote table, or the call under way that carries it.
OtherCell(l) ==
    IF \E p \in Peer : \E i \in 1..Len(edge[p].remote.links) : edge[p].remote.links[i] = l
    THEN CellOf(\E p \in Peer : \E i \in edge[p].remote.zombie : Get(edge[p].remote, i) = l)
    ELSE IF Announced(l) THEN "coming" ELSE "none"

Life(l) == INSTANCE LinkLife WITH owner <- OwnerCell(l), other <- OtherCell(l)

\* Through all crossings of drops, cancels and results, every link lives as
\* LinkLife has it, though several are opened and closed in one step: no side
\* gives up a cell, and so a number, that the other side still uses or has not
\* got yet, and none is opened a second time (linkUninvolved, the handlers of
\* begin and end).
LinkLives ==
    /\ \A l \in Link : Life(l)!Init
    /\ [][\A l \in Link : Life(l)!Next \/ UNCHANGED <<OwnerCell(l), OtherCell(l)>>]_vars
=============================================================================
