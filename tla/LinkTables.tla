----------------------------- MODULE LinkTables -----------------------------
(***************************************************************************)
(* The two link tables of an edge (localEdge/localLinks.cpp and            *)
(* localEdge/remoteLinks.cpp) as pure operators.                           *)
(*                                                                         *)
(* A table is a record: links is the deque of cells, indexed by the        *)
(* identifier (index 1 of the sequence is the C++ index 0, see idx2Id),    *)
(* zombie the identifiers whose removal has begun, and, for the local      *)
(* table only, free the identifiers of the empty cells to be used again.   *)
(* A C++ call that returns bool is split in a predicate (Can...), the      *)
(* returned value, and the table it leaves behind when it returns true; it *)
(* leaves the table alone when it returns false.                           *)
(***************************************************************************)
EXTENDS Integers, Sequences

CONSTANTS
    Link,       \* the link objects
    NoLink      \* the null pointer of an empty cell

ASSUME NoLinkAssumption == NoLink \notin Link

LocalTable == [links : Seq(Link \cup {NoLink}), free : SUBSET Nat, zombie : SUBSET Nat]
RemoteTable == [links : Seq(Link \cup {NoLink}), zombie : SUBSET Nat]

EmptyLocal == [links |-> <<>>, free |-> {}, zombie |-> {}]
EmptyRemote == [links |-> <<>>, zombie |-> {}]

-----------------------------------------------------------------------------
(* What both classes share. *)

Get(t, id) == IF id \in 1..Len(t.links) THEN t.links[id] ELSE NoLink

Occupied(t, id) == Get(t, id) # NoLink

\* Mutant: a removal that has begun does not keep the cell from being removed.
CanRemoveZombie(t, id) == Occupied(t, id)

CanRemove(t, id) == id \notin t.zombie /\ Occupied(t, id)

CanBeginRemove(t, id) == Occupied(t, id) /\ id \notin t.zombie

CanEndRemove(t, id) == id \in t.zombie /\ Occupied(t, id)

BeginRemoved(t, id) == [t EXCEPT !.zombie = @ \cup {id}]

\* The length left when the null cells at the back are popped.
TrimmedLen(s) ==
    CHOOSE n \in 0..Len(s) : /\ n # 0 => s[n] # NoLink
                             /\ \A k \in (n + 1)..Len(s) : s[k] = NoLink

Trimmed(s) == SubSeq(s, 1, TrimmedLen(s))

Reset(s, id) == [s EXCEPT ![id] = NoLink]

-----------------------------------------------------------------------------
(* LocalLinks: the table that allocates the identifiers. *)

\* Mutant: emplace returns the index of the cell, not its identifier.
NextLocalIdIndex(t) == Len(t.links)

\* The identifier emplace will return: the smallest free one, or a new cell.
NextLocalId(t) ==
    IF t.free = {} THEN Len(t.links) + 1
    ELSE CHOOSE i \in t.free : \A j \in t.free : i <= j

LocalEmplaced(t, l) ==
    IF t.free = {}
    THEN [t EXCEPT !.links = Append(@, l)]
    ELSE [links |-> [t.links EXCEPT ![NextLocalId(t)] = l],
          free |-> t.free \ {NextLocalId(t)},
          zombie |-> t.zombie]

\* Mutant: the cells popped from the back stay on the free list.
VacatedKeepsPopped(t, id) ==
    [links |-> Trimmed(Reset(t.links, id)), free |-> t.free \cup {id}, zombie |-> t.zombie]

\* Reset the cell, put it on the free list, then pop the null cells at the
\* back, taking each popped one off the free list.
Vacated(t, id) ==
    LET cells == Reset(t.links, id)
    IN  [links |-> Trimmed(cells),
         free |-> (t.free \cup {id}) \ ((TrimmedLen(cells) + 1)..Len(cells)),
         zombie |-> t.zombie]

LocalRemoved(t, id) == Vacated(t, id)

LocalEndRemoved(t, id) == Vacated([t EXCEPT !.zombie = @ \ {id}], id)

-----------------------------------------------------------------------------
(* RemoteLinks: the table indexed by the identifiers the peer allocates. *)

CanEmplaceRemote(t, id) == id \notin t.zombie /\ ~Occupied(t, id)

RemoteEmplaced(t, id, l) ==
    [t EXCEPT !.links =
        [i \in 1..(IF id > Len(t.links) THEN id ELSE Len(t.links)) |->
            IF i = id THEN l ELSE Get(t, i)]]

RemoteRemoved(t, id) == [links |-> Trimmed(Reset(t.links, id)), zombie |-> t.zombie]

RemoteEndRemoved(t, id) ==
    [links |-> Trimmed(Reset(t.links, id)), zombie |-> t.zombie \ {id}]

-----------------------------------------------------------------------------
(* What the callers of the tables rely on. *)

\* The last cell is never empty (both classes pop the null cells at the back).
NoTrailingNull(t) == t.links # <<>> => t.links[Len(t.links)] # NoLink

\* A removal can only have begun for a cell that still holds a link.
ZombiesOccupied(t) == \A id \in t.zombie : Occupied(t, id)

\* The free list names the empty cells inside the table, all of them and
\* nothing else (dbgAssert(!_links[idx]) and !_zombieList.contains in emplace).
FreeListExact(t) == t.free = {id \in 1..Len(t.links) : t.links[id] = NoLink}

LocalSound(t) == NoTrailingNull(t) /\ ZombiesOccupied(t) /\ FreeListExact(t)

RemoteSound(t) == NoTrailingNull(t) /\ ZombiesOccupied(t)
=============================================================================
