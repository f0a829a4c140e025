------------------------------ MODULE LinkLife ------------------------------
(***************************************************************************)
(* The life of one link, as its two sides may rely on it: the owner, in    *)
(* whose local table it is opened, and the other side.  A side that wants  *)
(* no more of the link begins to close it and keeps its cell until the     *)
(* other side is known to close it too; a side that learns of this while   *)
(* its own cell is open gives the cell up at once.                         *)
(***************************************************************************)
VARIABLES
    owner,      \* the owner's cell
    other       \* the other side's cell; "coming" while it is only announced

OwnerCells == {"none", "open", "closing"}
OtherCells == {"none", "coming", "open", "closing"}

Init == owner = "none" /\ other = "none"

Open == owner = "none" /\ other = "none" /\ owner' = "open" /\ other' = "coming"

\* The announcement arrives, even if the owner has begun to close by then.
Arrive == owner # "none" /\ other = "coming" /\ other' = "open" /\ UNCHANGED owner

OwnerClose == owner = "open" /\ owner' = "closing" /\ UNCHANGED other
OtherClose == other = "open" /\ other' = "closing" /\ UNCHANGED owner

\* A cell still open is given up only because the other side closes.
OwnerTake == owner = "open" /\ other = "closing" /\ owner' = "none" /\ UNCHANGED other
OtherTake == other = "open" /\ owner = "closing" /\ other' = "none" /\ UNCHANGED owner

\* A cell that closes is given up only when the other side does not use its own.
OwnerDone == owner = "closing" /\ other \in {"none", "closing"} /\ owner' = "none" /\ UNCHANGED other
OtherDone == other = "closing" /\ owner \in {"none", "closing"} /\ other' = "none" /\ UNCHANGED owner

Next == Open \/ Arrive \/ OwnerClose \/ OtherClose \/ OwnerTake \/ OtherTake \/ OwnerDone \/ OtherDone

vars == <<owner, other>>

Spec == Init /\ [][Next]_vars

-----------------------------------------------------------------------------
(* What both sides may rely on.                                            *)

\* One side is without the link only while the other has none either or has
\* begun to close its own: the owner's number is free only when the other side
\* does not send to it, and the other side's is when the owner does not
\* (remove, endRemove and beginRemove of both tables).
Agreed ==
    /\ owner \in OwnerCells /\ other \in OtherCells
    /\ owner = "none" => other \in {"none", "closing"}
    /\ other = "none" => owner \in {"none", "closing"}
=============================================================================
