---------------------------- MODULE LinksProofs -----------------------------
(***************************************************************************)
(* Theorems about Links, for any sets of links and any bound.  First, what *)
(* each operation of the link tables does to a table that is sound: the    *)
(* table stays sound, and the cells and the zombies change as the          *)
(* operation promises.  This is stated with Get and zombie only, so that   *)
(* the proofs about Links need neither the deque nor its trimming.         *)
(***************************************************************************)
EXTENDS Links, SequenceTheorems, WellFoundedInduction, TLAPS

Cell == Link \cup {NoLink}

\* A nonempty set of natural numbers has a smallest element.
LEMMA SmallestExists ==
    ASSUME NEW T \in SUBSET Nat, T # {}
    PROVE  \E x \in T : \A y \in T : x <= y
<1>1. PICK x \in T : \A y \in T : ~ (<<y, x>> \in OpToRel(<, Nat))
  BY WFMin, NatLessThanWellFounded
<1>2. \A y \in T : ~ (y < x)
  BY <1>1 DEF OpToRel
<1>. QED
  BY <1>2

\* Popping the null cells at the back stops at a cell that is not null, or
\* when the deque is empty.
LEMMA TrimmedLenFact ==
    ASSUME NEW s \in Seq(Cell)
    PROVE  /\ TrimmedLen(s) \in 0..Len(s)
           /\ TrimmedLen(s) # 0 => s[TrimmedLen(s)] # NoLink
           /\ \A k \in (TrimmedLen(s) + 1)..Len(s) : s[k] = NoLink
<1> DEFINE T == {n \in 0..Len(s) : \A k \in (n + 1)..Len(s) : s[k] = NoLink}
<1>0. Len(s) \in Nat
  OBVIOUS
<1>1. T \in SUBSET Nat /\ Len(s) \in T
  BY <1>0
<1>2. PICK n \in T : \A y \in T : n <= y
  BY <1>1, SmallestExists
<1>3. n # 0 => s[n] # NoLink
  <2>. SUFFICES ASSUME n # 0, s[n] = NoLink PROVE FALSE
    OBVIOUS
  <2>1. n - 1 \in 0..Len(s)
    BY <1>0
  <2>2. \A k \in ((n - 1) + 1)..Len(s) : s[k] = NoLink
    <3>. SUFFICES ASSUME NEW k \in ((n - 1) + 1)..Len(s) PROVE s[k] = NoLink
      OBVIOUS
    <3>1. CASE k = n
      BY <3>1
    <3>2. CASE k # n
      BY <1>0, <3>2
    <3>. QED BY <3>1, <3>2
  <2>3. n - 1 \in T
    BY <2>1, <2>2
  <2>. QED
    <3>1. n \in Nat /\ n - 1 \in Nat
      BY <1>1, <2>1
    <3>2. n <= n - 1
      BY <1>2, <2>3
    <3>. QED
      BY <3>1, <3>2
<1>. QED
  BY <1>2, <1>3 DEF TrimmedLen

\* Trimming keeps every cell that is not null where it was.
LEMMA TrimmedFact ==
    ASSUME NEW s \in Seq(Cell)
    PROVE  /\ Trimmed(s) \in Seq(Cell)
           /\ Len(Trimmed(s)) = TrimmedLen(s)
           /\ \A k \in 1..TrimmedLen(s) : Trimmed(s)[k] = s[k]
<1>1. TrimmedLen(s) \in 0..Len(s)
  BY TrimmedLenFact
<1>2. \A i \in 1..TrimmedLen(s) : s[i] \in Cell
  BY <1>1
<1>. QED
  BY <1>1, <1>2, SubSeqProperties DEF Trimmed

-----------------------------------------------------------------------------
(* Emptying a cell, which both tables do alike. *)

\* The cells that resetting cell id and trimming leave behind.
LEMMA ResetTrimmedFact ==
    ASSUME NEW s \in Seq(Cell), NEW id \in 1..Len(s)
    PROVE  LET r == Trimmed(Reset(s, id))
           IN  /\ r \in Seq(Cell)
               /\ Len(r) = TrimmedLen(Reset(s, id))
               /\ Len(r) \in 0..Len(s)
               /\ r # <<>> => r[Len(r)] # NoLink
               /\ \A k \in 1..Len(r) : r[k] = IF k = id THEN NoLink ELSE s[k]
               /\ \A k \in (Len(r) + 1)..Len(s) : k = id \/ s[k] = NoLink
<1> DEFINE c == Reset(s, id)
           r == Trimmed(c)
<1>1. /\ c \in Seq(Cell)
      /\ Len(c) = Len(s)
      /\ \A k \in 1..Len(s) : c[k] = IF k = id THEN NoLink ELSE s[k]
  BY ExceptSeq DEF Reset, Cell
<1>2. /\ TrimmedLen(c) \in 0..Len(s)
      /\ TrimmedLen(c) # 0 => c[TrimmedLen(c)] # NoLink
      /\ \A k \in (TrimmedLen(c) + 1)..Len(s) : c[k] = NoLink
  BY <1>1, TrimmedLenFact
<1>3. /\ r \in Seq(Cell)
      /\ Len(r) = TrimmedLen(c)
      /\ \A k \in 1..TrimmedLen(c) : r[k] = c[k]
  BY <1>1, TrimmedFact
<1> HIDE DEF c, r
<1>4. r # <<>> => r[Len(r)] # NoLink
  BY <1>2, <1>3
<1>5. \A k \in 1..Len(r) : r[k] = IF k = id THEN NoLink ELSE s[k]
  BY <1>1, <1>2, <1>3
<1>6. \A k \in (Len(r) + 1)..Len(s) : k = id \/ s[k] = NoLink
  BY <1>1, <1>2, <1>3
<1>. QED
  BY <1>2, <1>3, <1>4, <1>5, <1>6 DEF c, r

\* Removal from the remote table empties cell id and no other.
LEMMA RemoteResetFact ==
    ASSUME NEW t \in RemoteTable, NEW id \in Nat, Occupied(t, id),
           NEW z \in SUBSET Nat
    PROVE  LET u == [links |-> Trimmed(Reset(t.links, id)), zombie |-> z]
           IN  /\ u \in RemoteTable
               /\ u.zombie = z
               /\ NoTrailingNull(u)
               /\ \A k \in Int : Get(u, k) = IF k = id THEN NoLink ELSE Get(t, k)
<1> DEFINE r == Trimmed(Reset(t.links, id))
           u == [links |-> Trimmed(Reset(t.links, id)), zombie |-> z]
<1>1. t.links \in Seq(Cell) /\ t.zombie \in SUBSET Nat
  BY DEF RemoteTable, Cell
<1>2. id \in 1..Len(t.links)
  BY DEF Occupied, Get
<1>3. /\ r \in Seq(Cell)
      /\ Len(r) \in 0..Len(t.links)
      /\ r # <<>> => r[Len(r)] # NoLink
      /\ \A k \in 1..Len(r) : r[k] = IF k = id THEN NoLink ELSE t.links[k]
      /\ \A k \in (Len(r) + 1)..Len(t.links) : k = id \/ t.links[k] = NoLink
  BY <1>1, <1>2, ResetTrimmedFact
<1>4. u = [links |-> r, zombie |-> z]
  OBVIOUS
<1> HIDE DEF r, u
<1>5. \A k \in Int : Get(u, k) = IF k = id THEN NoLink ELSE Get(t, k)
  BY <1>1, <1>2, <1>3, <1>4 DEF Get
<1>6. u \in RemoteTable /\ NoTrailingNull(u)
  BY <1>3, <1>4 DEF RemoteTable, NoTrailingNull, Cell
<1>. QED
  BY <1>4, <1>5, <1>6 DEF u

\* Removal from the local table empties cell id and no other, and the free
\* list stays exact.
LEMMA VacatedFact ==
    ASSUME NEW t \in LocalTable, NEW id \in Nat, Occupied(t, id),
           FreeListExact(t)
    PROVE  LET u == Vacated(t, id)
           IN  /\ u \in LocalTable
               /\ u.zombie = t.zombie
               /\ NoTrailingNull(u)
               /\ FreeListExact(u)
               /\ \A k \in Int : Get(u, k) = IF k = id THEN NoLink ELSE Get(t, k)
<1> DEFINE r == Trimmed(Reset(t.links, id))
           u == Vacated(t, id)
           n == TrimmedLen(Reset(t.links, id))
           f == (t.free \cup {id}) \ ((n + 1)..Len(t.links))
<1>1. t.links \in Seq(Cell) /\ t.zombie \in SUBSET Nat /\ t.free \in SUBSET Nat
  BY DEF LocalTable, Cell
<1>2. id \in 1..Len(t.links)
  BY DEF Occupied, Get
<1>3. /\ r \in Seq(Cell)
      /\ Len(r) = n
      /\ Len(r) \in 0..Len(t.links)
      /\ r # <<>> => r[Len(r)] # NoLink
      /\ \A k \in 1..Len(r) : r[k] = IF k = id THEN NoLink ELSE t.links[k]
      /\ \A k \in (Len(r) + 1)..Len(t.links) : k = id \/ t.links[k] = NoLink
  BY <1>1, <1>2, ResetTrimmedFact
<1>4. Len(Reset(t.links, id)) = Len(t.links)
  BY <1>1, <1>2 DEF Reset
<1>5. u = [links |-> r, free |-> f, zombie |-> t.zombie]
  BY <1>4 DEF Vacated
<1> HIDE DEF r, u, n, f
<1>6. \A k \in Int : Get(u, k) = IF k = id THEN NoLink ELSE Get(t, k)
  BY <1>1, <1>2, <1>3, <1>5 DEF Get
<1>7. u \in LocalTable /\ NoTrailingNull(u)
  BY <1>1, <1>3, <1>5 DEF LocalTable, NoTrailingNull, Cell, f
<1>8. f = {k \in 1..Len(r) : r[k] = NoLink}
  BY <1>1, <1>2, <1>3 DEF FreeListExact, f
<1>. QED
  BY <1>5, <1>6, <1>7, <1>8 DEF u, FreeListExact

-----------------------------------------------------------------------------
(* One lemma per operation. *)

\* LocalLinks::emplace takes an empty cell of a sound table, one the peer is
\* told of by a number that is not zero, and touches no other.
LEMMA LocalEmplaceFact ==
    ASSUME NEW t \in LocalTable, LocalSound(t), NEW l \in Link
    PROVE  LET id == NextLocalId(t)
               u == LocalEmplaced(t, l)
           IN  /\ id \in Nat \ {0}
               /\ ~Occupied(t, id)
               /\ u \in LocalTable
               /\ LocalSound(u)
               /\ u.zombie = t.zombie
               /\ \A k \in Int : Get(u, k) = IF k = id THEN l ELSE Get(t, k)
<1> DEFINE id == NextLocalId(t)
           u == LocalEmplaced(t, l)
<1>1. /\ t.links \in Seq(Cell) /\ t.zombie \in SUBSET Nat /\ t.free \in SUBSET Nat
      /\ Len(t.links) \in Nat
      /\ l \in Cell /\ l # NoLink
  BY NoLinkAssumption DEF LocalTable, Cell
<1>2. /\ t.free = {k \in 1..Len(t.links) : t.links[k] = NoLink}
      /\ t.links # <<>> => t.links[Len(t.links)] # NoLink
      /\ \A k \in t.zombie : Get(t, k) # NoLink
  BY DEF LocalSound, FreeListExact, NoTrailingNull, ZombiesOccupied, Occupied
<1>3. CASE t.free = {}
  <2>1. id = Len(t.links) + 1 /\ u = [t EXCEPT !.links = Append(@, l)]
    BY <1>3 DEF NextLocalId, LocalEmplaced
  <2> HIDE DEF id, u
  <2>2. /\ u.links = Append(t.links, l) /\ u.free = t.free /\ u.zombie = t.zombie
        /\ u \in LocalTable
    <3>1. Append(t.links, l) \in Seq(Cell)
      BY <1>1, AppendProperties
    <3> DEFINE a == Append(t.links, l)
    <3> HIDE DEF a
    <3>2. u = [t EXCEPT !.links = a] /\ a \in Seq(Cell)
      BY <2>1, <3>1 DEF a
    <3>3. u.links = a /\ u.free = t.free /\ u.zombie = t.zombie /\ u \in LocalTable
      BY <3>2 DEF LocalTable, Cell
    <3>. QED
      BY <3>3 DEF a
  <2>3. /\ Len(u.links) = Len(t.links) + 1
        /\ \A k \in 1..Len(t.links) : u.links[k] = t.links[k]
        /\ u.links[Len(t.links) + 1] = l
    BY <1>1, <2>2, AppendProperties
  <2>4. \A k \in Int : Get(u, k) = IF k = id THEN l ELSE Get(t, k)
    BY <1>1, <2>1, <2>3 DEF Get
  <2>5. id \in Nat \ {0} /\ ~Occupied(t, id)
    BY <1>1, <2>1 DEF Occupied, Get
  <2>6. NoTrailingNull(u) /\ FreeListExact(u)
    BY <1>1, <1>2, <1>3, <2>2, <2>3 DEF NoTrailingNull, FreeListExact
  <2>7. ZombiesOccupied(u)
    BY <1>1, <1>2, <2>2, <2>4 DEF ZombiesOccupied, Occupied
  <2>. QED
    BY <2>2, <2>4, <2>5, <2>6, <2>7 DEF LocalSound, id, u
<1>4. CASE t.free # {}
  <2>1. id \in t.free
    <3>1. \E i \in t.free : \A j \in t.free : i <= j
      BY <1>1, <1>4, SmallestExists
    <3>. QED
      BY <3>1, <1>4 DEF NextLocalId
  <2>2. u = [links |-> [t.links EXCEPT ![id] = l], free |-> t.free \ {id}, zombie |-> t.zombie]
    BY <1>4 DEF LocalEmplaced
  <2> HIDE DEF id, u
  <2>3. id \in 1..Len(t.links) /\ t.links[id] = NoLink
    BY <1>2, <2>1
  <2>4. /\ u.links \in Seq(Cell)
        /\ Len(u.links) = Len(t.links)
        /\ \A k \in 1..Len(t.links) : u.links[k] = IF k = id THEN l ELSE t.links[k]
    BY <1>1, <2>2, <2>3, ExceptSeq
  <2>5. \A k \in Int : Get(u, k) = IF k = id THEN l ELSE Get(t, k)
    BY <1>1, <2>3, <2>4 DEF Get
  <2>6. id \in Nat \ {0} /\ ~Occupied(t, id)
    BY <1>1, <2>3 DEF Occupied, Get
  <2>7. NoTrailingNull(u) /\ FreeListExact(u)
    BY <1>1, <1>2, <2>2, <2>3, <2>4 DEF NoTrailingNull, FreeListExact
  <2>8. ZombiesOccupied(u)
    BY <1>1, <1>2, <2>2, <2>5 DEF ZombiesOccupied, Occupied
  <2>9. u \in LocalTable /\ u.zombie = t.zombie
    BY <1>1, <2>2, <2>4 DEF LocalTable, Cell
  <2>. QED
    BY <2>5, <2>6, <2>7, <2>8, <2>9 DEF LocalSound, id, u
<1>. QED
  BY <1>3, <1>4

\* LocalLinks::remove empties the cell it is asked for.
LEMMA LocalRemoveFact ==
    ASSUME NEW t \in LocalTable, LocalSound(t), NEW id \in Nat, CanRemove(t, id)
    PROVE  LET u == LocalRemoved(t, id)
           IN  /\ u \in LocalTable
               /\ LocalSound(u)
               /\ u.zombie = t.zombie
               /\ \A k \in Int : Get(u, k) = IF k = id THEN NoLink ELSE Get(t, k)
<1>1. Occupied(t, id) /\ id \notin t.zombie /\ FreeListExact(t) /\ ZombiesOccupied(t)
  BY DEF CanRemove, LocalSound
<1>2. t.zombie \in SUBSET Nat
  BY DEF LocalTable
<1> DEFINE u == Vacated(t, id)
<1>3. /\ u \in LocalTable /\ u.zombie = t.zombie /\ NoTrailingNull(u) /\ FreeListExact(u)
      /\ \A k \in Int : Get(u, k) = IF k = id THEN NoLink ELSE Get(t, k)
  BY <1>1, VacatedFact
<1> HIDE DEF u
<1>4. ZombiesOccupied(u)
  BY <1>1, <1>2, <1>3 DEF ZombiesOccupied, Occupied
<1>. QED
  BY <1>3, <1>4 DEF LocalRemoved, LocalSound, u

\* LocalLinks::endRemove empties the cell and forgets the begun removal.
LEMMA LocalEndRemoveFact ==
    ASSUME NEW t \in LocalTable, LocalSound(t), NEW id \in Nat, CanEndRemove(t, id)
    PROVE  LET u == LocalEndRemoved(t, id)
           IN  /\ u \in LocalTable
               /\ LocalSound(u)
               /\ u.zombie = t.zombie \ {id}
               /\ \A k \in Int : Get(u, k) = IF k = id THEN NoLink ELSE Get(t, k)
<1> DEFINE v == [t EXCEPT !.zombie = @ \ {id}]
           u == Vacated(v, id)
<1>1. /\ v \in LocalTable /\ v.zombie = t.zombie \ {id}
      /\ v.links = t.links /\ v.free = t.free
  BY DEF LocalTable
<1> HIDE DEF v
<1>2. /\ \A k \in Int : Get(v, k) = Get(t, k)
      /\ Occupied(v, id) /\ FreeListExact(v) /\ ZombiesOccupied(v)
  BY <1>1 DEF Get, Occupied, FreeListExact, ZombiesOccupied, CanEndRemove, LocalSound
<1>3. /\ u \in LocalTable /\ u.zombie = v.zombie /\ NoTrailingNull(u) /\ FreeListExact(u)
      /\ \A k \in Int : Get(u, k) = IF k = id THEN NoLink ELSE Get(v, k)
  BY <1>1, <1>2, VacatedFact
<1> HIDE DEF u
<1>4. ZombiesOccupied(u)
  <2>1. v.zombie \in SUBSET Nat
    BY <1>1 DEF LocalTable
  <2>. QED
    BY <2>1, <1>1, <1>2, <1>3 DEF ZombiesOccupied, Occupied
<1>. QED
  BY <1>1, <1>2, <1>3, <1>4 DEF LocalEndRemoved, LocalSound, u, v

\* LocalLinks::beginRemove only marks the cell.
LEMMA LocalBeginRemoveFact ==
    ASSUME NEW t \in LocalTable, LocalSound(t), NEW id \in Nat, Occupied(t, id)
    PROVE  LET u == BeginRemoved(t, id)
           IN  /\ u \in LocalTable
               /\ LocalSound(u)
               /\ u.zombie = t.zombie \cup {id}
               /\ \A k \in Int : Get(u, k) = Get(t, k)
<1> DEFINE u == BeginRemoved(t, id)
<1>1. /\ u \in LocalTable /\ u.zombie = t.zombie \cup {id}
      /\ u.links = t.links /\ u.free = t.free
  BY DEF LocalTable, BeginRemoved
<1> HIDE DEF u
<1>2. \A k \in Int : Get(u, k) = Get(t, k)
  BY <1>1 DEF Get
<1>3. t.zombie \in SUBSET Nat
  BY DEF LocalTable
<1>4. LocalSound(u)
  BY <1>1, <1>2, <1>3
     DEF LocalSound, NoTrailingNull, ZombiesOccupied, FreeListExact, Occupied
<1>. QED
  BY <1>1, <1>2, <1>4 DEF u

\* RemoteLinks::emplace fills the cell the peer named.
LEMMA RemoteEmplaceFact ==
    ASSUME NEW t \in RemoteTable, RemoteSound(t), NEW id \in Nat \ {0},
           NEW l \in Link, CanEmplaceRemote(t, id)
    PROVE  LET u == RemoteEmplaced(t, id, l)
           IN  /\ u \in RemoteTable
               /\ RemoteSound(u)
               /\ u.zombie = t.zombie
               /\ \A k \in Int : Get(u, k) = IF k = id THEN l ELSE Get(t, k)
<1> DEFINE n == IF id > Len(t.links) THEN id ELSE Len(t.links)
           c == [i \in 1..n |-> IF i = id THEN l ELSE Get(t, i)]
           u == RemoteEmplaced(t, id, l)
<1>1. /\ t.links \in Seq(Cell) /\ t.zombie \in SUBSET Nat
      /\ Len(t.links) \in Nat
      /\ l \in Cell /\ l # NoLink
  BY NoLinkAssumption DEF RemoteTable, Cell
<1>2. n \in Nat /\ id \in 1..n /\ Len(t.links) <= n
  BY <1>1
<1>3. \A i \in 1..n : Get(t, i) \in Cell
  BY <1>1 DEF Get, Cell
<1>4. c \in Seq(Cell) /\ Len(c) = n
  <2> DEFINE g(i) == IF i = id THEN l ELSE Get(t, i)
  <2>1. \A i \in 1..n : g(i) \in Cell
    BY <1>1, <1>3
  <2>. QED
    BY <1>2, <2>1
<1>5. u.links = c /\ u.zombie = t.zombie /\ u \in RemoteTable
  BY <1>1, <1>4 DEF RemoteEmplaced, RemoteTable, Cell
<1>6. \A i \in 1..n : c[i] = IF i = id THEN l ELSE Get(t, i)
  OBVIOUS
<1> HIDE DEF c, u
<1>7. \A k \in Int : Get(u, k) = IF k = id THEN l ELSE Get(t, k)
  BY <1>1, <1>2, <1>4, <1>5, <1>6 DEF Get
<1>8. NoTrailingNull(u)
  <2>1. Len(t.links) # 0 => t.links[Len(t.links)] # NoLink
    BY <1>1 DEF RemoteSound, NoTrailingNull
  <2>2. c[n] # NoLink
    BY <1>1, <1>2, <1>6, <2>1 DEF Get
  <2>. QED
    BY <1>4, <1>5, <2>2 DEF NoTrailingNull
<1>9. ZombiesOccupied(u)
  BY <1>1, <1>5, <1>7 DEF ZombiesOccupied, Occupied, RemoteSound
<1>. QED
  BY <1>5, <1>7, <1>8, <1>9 DEF RemoteSound, u

\* RemoteLinks::remove empties the cell it is asked for.
LEMMA RemoteRemoveFact ==
    ASSUME NEW t \in RemoteTable, RemoteSound(t), NEW id \in Nat, CanRemove(t, id)
    PROVE  LET u == RemoteRemoved(t, id)
           IN  /\ u \in RemoteTable
               /\ RemoteSound(u)
               /\ u.zombie = t.zombie
               /\ \A k \in Int : Get(u, k) = IF k = id THEN NoLink ELSE Get(t, k)
<1> DEFINE u == RemoteRemoved(t, id)
<1>1. Occupied(t, id) /\ id \notin t.zombie /\ ZombiesOccupied(t) /\ t.zombie \in SUBSET Nat
  BY DEF CanRemove, RemoteSound, RemoteTable
<1>2. /\ u \in RemoteTable /\ u.zombie = t.zombie /\ NoTrailingNull(u)
      /\ \A k \in Int : Get(u, k) = IF k = id THEN NoLink ELSE Get(t, k)
  BY <1>1, RemoteResetFact DEF RemoteRemoved
<1> HIDE DEF u
<1>3. ZombiesOccupied(u)
  BY <1>1, <1>2 DEF ZombiesOccupied, Occupied
<1>. QED
  BY <1>2, <1>3 DEF RemoteSound, u

\* RemoteLinks::endRemove empties the cell and forgets the begun removal.
LEMMA RemoteEndRemoveFact ==
    ASSUME NEW t \in RemoteTable, RemoteSound(t), NEW id \in Nat, CanEndRemove(t, id)
    PROVE  LET u == RemoteEndRemoved(t, id)
           IN  /\ u \in RemoteTable
               /\ RemoteSound(u)
               /\ u.zombie = t.zombie \ {id}
               /\ \A k \in Int : Get(u, k) = IF k = id THEN NoLink ELSE Get(t, k)
<1> DEFINE u == RemoteEndRemoved(t, id)
<1>1. Occupied(t, id) /\ ZombiesOccupied(t) /\ t.zombie \in SUBSET Nat
  BY DEF CanEndRemove, RemoteSound, RemoteTable
<1>2. /\ u \in RemoteTable /\ u.zombie = t.zombie \ {id} /\ NoTrailingNull(u)
      /\ \A k \in Int : Get(u, k) = IF k = id THEN NoLink ELSE Get(t, k)
  BY <1>1, RemoteResetFact DEF RemoteEndRemoved
<1> HIDE DEF u
<1>3. ZombiesOccupied(u)
  BY <1>1, <1>2 DEF ZombiesOccupied, Occupied
<1>. QED
  BY <1>2, <1>3 DEF RemoteSound, u

\* RemoteLinks::beginRemove only marks the cell.
LEMMA RemoteBeginRemoveFact ==
    ASSUME NEW t \in RemoteTable, RemoteSound(t), NEW id \in Nat, Occupied(t, id)
    PROVE  LET u == BeginRemoved(t, id)
           IN  /\ u \in RemoteTable
               /\ RemoteSound(u)
               /\ u.zombie = t.zombie \cup {id}
               /\ \A k \in Int : Get(u, k) = Get(t, k)
<1> DEFINE u == BeginRemoved(t, id)
<1>1. /\ u \in RemoteTable /\ u.zombie = t.zombie \cup {id} /\ u.links = t.links
  BY DEF RemoteTable, BeginRemoved
<1> HIDE DEF u
<1>2. \A k \in Int : Get(u, k) = Get(t, k)
  BY <1>1 DEF Get
<1>3. t.zombie \in SUBSET Nat
  BY DEF RemoteTable
<1>4. RemoteSound(u)
  BY <1>1, <1>2, <1>3 DEF RemoteSound, NoTrailingNull, ZombiesOccupied, Occupied
<1>. QED
  BY <1>1, <1>2, <1>4 DEF u

-----------------------------------------------------------------------------
(* Two edges. *)

EdgeSound(e) == LocalSound(e.local) /\ RemoteSound(e.remote)

LEMMA OtherPeer ==
    ASSUME NEW p \in Peer
    PROVE  Other(p) \in Peer /\ Other(p) # p /\ \A q \in Peer : q = p \/ q = Other(p)
<1>1. \E q \in Peer : q # p
  BY PeerAssumption
<1>2. Other(p) \in Peer /\ Other(p) # p
  BY <1>1 DEF Other
<1>. QED
  BY <1>2, PeerAssumption

-----------------------------------------------------------------------------
(* The table operations seen through Ids.                                  *)

LEMMA LookupType ==
    ASSUME NEW e \in Edge, NEW id \in Int
    PROVE  Lookup(e, id) \in Link \cup {NoLink}
<1>1. e.local.links \in Seq(Link \cup {NoLink}) /\ e.remote.links \in Seq(Link \cup {NoLink})
  BY DEF Edge, LocalTable, RemoteTable
<1>. QED
  BY <1>1 DEF Lookup, Get

\* The id of a cell that is not empty is one of a link.
LEMMA OccupiedLookup ==
    ASSUME NEW e \in Edge, NEW id \in Int, Lookup(e, id) # NoLink
    PROVE  id # 0 /\ Lookup(e, id) \in Link
<1>1. Lookup(e, id) \in Link
  BY LookupType
<1>2. id # 0
  BY DEF Lookup, Get, Edge, RemoteTable
<1>. QED
  BY <1>1, <1>2

LEMMA EdgeRemoveFact ==
    ASSUME NEW e \in Edge, EdgeSound(e), NEW id \in Int, EdgeCanRemove(e, id)
    PROVE  LET u == EdgeRemoved(e, id)
           IN  /\ u \in Edge /\ EdgeSound(u)
               /\ \A k \in Int \ {0} : /\ Lookup(u, k) = IF k = id THEN NoLink ELSE Lookup(e, k)
                                       /\ IsZombie(u, k) <=> IsZombie(e, k)
<1>1. e.local \in LocalTable /\ e.remote \in RemoteTable
  BY DEF Edge
<1> DEFINE u == EdgeRemoved(e, id)
<1>2. CASE id > 0
  <2> DEFINE t == LocalRemoved(e.local, id)
  <2>1. CanRemove(e.local, id) /\ id \in Nat /\ LocalSound(e.local)
    BY <1>2 DEF EdgeCanRemove, EdgeSound
  <2>2. /\ t \in LocalTable /\ LocalSound(t) /\ t.zombie = e.local.zombie
        /\ \A k \in Int : Get(t, k) = IF k = id THEN NoLink ELSE Get(e.local, k)
    BY <1>1, <2>1, LocalRemoveFact
  <2>3. u = [e EXCEPT !.local = t]
    BY <1>2 DEF EdgeRemoved
  <2> HIDE DEF t, u
  <2>4. u.local = t /\ u.remote = e.remote /\ u \in Edge
    BY <2>2, <2>3 DEF Edge
  <2>. QED
    BY <1>1, <1>2, <2>2, <2>4 DEF EdgeSound, Lookup, IsZombie, u
<1>3. CASE ~(id > 0)
  <2> DEFINE t == RemoteRemoved(e.remote, -id)
  <2>1. CanRemove(e.remote, -id) /\ -id \in Nat /\ RemoteSound(e.remote)
    BY <1>3 DEF EdgeCanRemove, EdgeSound
  <2>2. /\ t \in RemoteTable /\ RemoteSound(t) /\ t.zombie = e.remote.zombie
        /\ \A k \in Int : Get(t, k) = IF k = -id THEN NoLink ELSE Get(e.remote, k)
    BY <1>1, <2>1, RemoteRemoveFact
  <2>3. u = [e EXCEPT !.remote = t]
    BY <1>3 DEF EdgeRemoved
  <2> HIDE DEF t, u
  <2>4. u.remote = t /\ u.local = e.local /\ u \in Edge
    BY <2>2, <2>3 DEF Edge
  <2>. QED
    BY <1>1, <1>3, <2>2, <2>4 DEF EdgeSound, Lookup, IsZombie, u
<1>. QED
  BY <1>2, <1>3

LEMMA EdgeEndRemoveFact ==
    ASSUME NEW e \in Edge, EdgeSound(e), NEW id \in Int, EdgeCanEndRemove(e, id)
    PROVE  LET u == EdgeEndRemoved(e, id)
           IN  /\ u \in Edge /\ EdgeSound(u)
               /\ \A k \in Int \ {0} : /\ Lookup(u, k) = IF k = id THEN NoLink ELSE Lookup(e, k)
                                       /\ IsZombie(u, k) <=> k # id /\ IsZombie(e, k)
<1>1. e.local \in LocalTable /\ e.remote \in RemoteTable
  BY DEF Edge
<1> DEFINE u == EdgeEndRemoved(e, id)
<1>2. CASE id > 0
  <2> DEFINE t == LocalEndRemoved(e.local, id)
  <2>1. CanEndRemove(e.local, id) /\ id \in Nat /\ LocalSound(e.local)
    BY <1>2 DEF EdgeCanEndRemove, EdgeSound
  <2>2. /\ t \in LocalTable /\ LocalSound(t) /\ t.zombie = e.local.zombie \ {id}
        /\ \A k \in Int : Get(t, k) = IF k = id THEN NoLink ELSE Get(e.local, k)
    BY <1>1, <2>1, LocalEndRemoveFact
  <2>3. u = [e EXCEPT !.local = t]
    BY <1>2 DEF EdgeEndRemoved
  <2> HIDE DEF t, u
  <2>4. u.local = t /\ u.remote = e.remote /\ u \in Edge
    BY <2>2, <2>3 DEF Edge
  <2>. QED
    BY <1>1, <1>2, <2>2, <2>4 DEF EdgeSound, Lookup, IsZombie, u
<1>3. CASE ~(id > 0)
  <2> DEFINE t == RemoteEndRemoved(e.remote, -id)
  <2>1. CanEndRemove(e.remote, -id) /\ -id \in Nat /\ RemoteSound(e.remote)
    BY <1>3 DEF EdgeCanEndRemove, EdgeSound
  <2>2. /\ t \in RemoteTable /\ RemoteSound(t) /\ t.zombie = e.remote.zombie \ {-id}
        /\ \A k \in Int : Get(t, k) = IF k = -id THEN NoLink ELSE Get(e.remote, k)
    BY <1>1, <2>1, RemoteEndRemoveFact
  <2>3. u = [e EXCEPT !.remote = t]
    BY <1>3 DEF EdgeEndRemoved
  <2> HIDE DEF t, u
  <2>4. u.remote = t /\ u.local = e.local /\ u \in Edge
    BY <2>2, <2>3 DEF Edge
  <2>. QED
    BY <1>1, <1>3, <2>2, <2>4 DEF EdgeSound, Lookup, IsZombie, u
<1>. QED
  BY <1>2, <1>3

LEMMA EdgeBeginRemoveFact ==
    ASSUME NEW e \in Edge, EdgeSound(e), NEW id \in Int, Lookup(e, id) # NoLink
    PROVE  LET u == EdgeBeginRemoved(e, id)
           IN  /\ u \in Edge /\ EdgeSound(u)
               /\ \A k \in Int \ {0} : /\ Lookup(u, k) = Lookup(e, k)
                                       /\ IsZombie(u, k) <=> k = id \/ IsZombie(e, k)
<1>1. e.local \in LocalTable /\ e.remote \in RemoteTable
  BY DEF Edge
<1> DEFINE u == EdgeBeginRemoved(e, id)
<1>2. CASE id > 0
  <2> DEFINE t == BeginRemoved(e.local, id)
  <2>1. Occupied(e.local, id) /\ id \in Nat /\ LocalSound(e.local)
    BY <1>2 DEF Lookup, Occupied, EdgeSound
  <2>2. /\ t \in LocalTable /\ LocalSound(t) /\ t.zombie = e.local.zombie \cup {id}
        /\ \A k \in Int : Get(t, k) = Get(e.local, k)
    BY <1>1, <2>1, LocalBeginRemoveFact
  <2>3. u = [e EXCEPT !.local = t]
    BY <1>2 DEF EdgeBeginRemoved
  <2> HIDE DEF t, u
  <2>4. u.local = t /\ u.remote = e.remote /\ u \in Edge
    BY <2>2, <2>3 DEF Edge
  <2>. QED
    BY <1>1, <1>2, <2>2, <2>4 DEF EdgeSound, Lookup, IsZombie, u
<1>3. CASE ~(id > 0)
  <2> DEFINE t == BeginRemoved(e.remote, -id)
  <2>1. Occupied(e.remote, -id) /\ -id \in Nat /\ RemoteSound(e.remote)
    BY <1>3 DEF Lookup, Occupied, EdgeSound
  <2>2. /\ t \in RemoteTable /\ RemoteSound(t) /\ t.zombie = e.remote.zombie \cup {-id}
        /\ \A k \in Int : Get(t, k) = Get(e.remote, k)
    BY <1>1, <2>1, RemoteBeginRemoveFact
  <2>3. u = [e EXCEPT !.remote = t]
    BY <1>3 DEF EdgeBeginRemoved
  <2> HIDE DEF t, u
  <2>4. u.remote = t /\ u.local = e.local /\ u \in Edge
    BY <2>2, <2>3 DEF Edge
  <2>. QED
    BY <1>1, <1>3, <2>2, <2>4 DEF EdgeSound, Lookup, IsZombie, u
<1>. QED
  BY <1>2, <1>3

LEMMA EdgeCanRemoveOccupied ==
    ASSUME NEW e, NEW id
    PROVE  /\ EdgeCanRemove(e, id) <=> Lookup(e, id) # NoLink /\ ~IsZombie(e, id)
           /\ EdgeCanEndRemove(e, id) <=> Lookup(e, id) # NoLink /\ IsZombie(e, id)
BY DEF EdgeCanRemove, EdgeCanEndRemove, CanRemove, CanEndRemove, Occupied, Lookup, IsZombie

\* Whatever flags a link object passes, linkUninvolved keeps the tables sound.
LEMMA UninvolvedFact ==
    ASSUME NEW e \in Edge, EdgeSound(e), NEW id \in Int, NEW uf
    PROVE  Uninvolved(e, id, uf) \in Edge /\ EdgeSound(Uninvolved(e, id, uf))
<1>1. EdgeCanRemove(e, id) => EdgeRemoved(e, id) \in Edge /\ EdgeSound(EdgeRemoved(e, id))
  BY EdgeRemoveFact
<1>2. EdgeCanEndRemove(e, id) =>
        EdgeEndRemoved(e, id) \in Edge /\ EdgeSound(EdgeEndRemoved(e, id))
  BY EdgeEndRemoveFact
<1>3. EdgeCanRemove(e, id) =>
        EdgeBeginRemoved(e, id) \in Edge /\ EdgeSound(EdgeBeginRemoved(e, id))
  BY EdgeBeginRemoveFact, EdgeCanRemoveOccupied
<1>. QED
  BY <1>1, <1>2, <1>3 DEF Uninvolved

LEMMA MsgType ==
    ASSUME NEW id \in Int \ {0}, NEW l \in Link
    PROVE  \A type \in {"result", "begin", "end"} : Msg(type, id, l) \in Message
BY DEF Msg, Message

LEMMA UninvolvedSendsType ==
    ASSUME NEW e \in Edge, NEW id \in Int, Lookup(e, id) # NoLink, NEW uf
    PROVE  UninvolvedSends(e, id, uf) \in Seq(Message)
<1>1. id \in Int \ {0} /\ Lookup(e, id) \in Link
  BY OccupiedLookup
<1> DEFINE b == Msg("begin", id, Lookup(e, id))
           n == Msg("end", id, Lookup(e, id))
<1>2. b \in Message /\ n \in Message
  BY <1>1, MsgType
<1> HIDE DEF b, n
<1> DEFINE sb == IF "sendBegin" \in uf THEN <<b>> ELSE <<>>
           sn == IF "sendEnd" \in uf THEN <<n>> ELSE <<>>
<1>3. sb \in Seq(Message) /\ sn \in Seq(Message)
  BY <1>2
<1>4. UninvolvedSends(e, id, uf) = sb \o sn
  BY DEF UninvolvedSends, b, n
<1> HIDE DEF sb, sn
<1>. QED
  BY <1>3, <1>4, ConcatProperties

LEMMA EmplacedFact ==
    ASSUME NEW t \in LocalTable, LocalSound(t), NEW l \in Link \cup {NoLink}
    PROVE  /\ Emplaced(t, l) \in LocalTable /\ LocalSound(Emplaced(t, l))
           /\ CarriedFor(t, l) \in Carried
<1>1. CASE l = NoLink
  BY <1>1 DEF Emplaced, CarriedFor, Carried
<1>2. CASE l \in Link
  <2>1. /\ NextLocalId(t) \in Nat \ {0}
        /\ LocalEmplaced(t, l) \in LocalTable /\ LocalSound(LocalEmplaced(t, l))
    BY <1>2, LocalEmplaceFact
  <2>. QED
    BY <1>2, <2>1, NoLinkAssumption DEF Emplaced, CarriedFor, Carried
<1>. QED
  BY <1>1, <1>2

LEMMA AcceptedFact ==
    ASSUME NEW t \in RemoteTable, RemoteSound(t), NEW c \in Carried, Acceptable(t, c)
    PROVE  Accepted(t, c) \in RemoteTable /\ RemoteSound(Accepted(t, c))
<1>1. CASE c.id = 0
  BY <1>1 DEF Accepted
<1>2. CASE c.id # 0
  <2>1. c.id \in Nat \ {0} /\ c.link \in Link /\ CanEmplaceRemote(t, c.id)
    BY <1>2 DEF Carried, NoneCarried, Acceptable
  <2>. QED
    BY <1>2, <2>1, RemoteEmplaceFact DEF Accepted
<1>. QED
  BY <1>1, <1>2

-----------------------------------------------------------------------------
(* Types and sound tables, together: an emplace keeps its type because the *)
(* free list names cells of the table.                                     *)

TypedAndSound == TypeOK /\ TablesSound

LEMMA TypedAndSoundInit == Init => TypedAndSound
<1>. SUFFICES ASSUME Init PROVE TypedAndSound
  OBVIOUS
<1>1. /\ EmptyLocal \in LocalTable /\ LocalSound(EmptyLocal)
      /\ EmptyRemote \in RemoteTable /\ RemoteSound(EmptyRemote)
  BY DEF EmptyLocal, EmptyRemote, LocalTable, RemoteTable, LocalSound, RemoteSound,
         NoTrailingNull, ZombiesOccupied, FreeListExact
<1> DEFINE e == [local |-> EmptyLocal, remote |-> EmptyRemote]
<1>2. e \in Edge /\ LocalSound(e.local) /\ RemoteSound(e.remote)
  BY <1>1 DEF Edge
<1>3. edge = [p \in Peer |-> e]
  BY DEF Init
<1> HIDE DEF e
<1>4. edge \in [Peer -> Edge] /\ TablesSound
  BY <1>2, <1>3 DEF TablesSound
<1>. QED
  BY <1>4 DEF Init, TypedAndSound, TypeOK, State

\* A call keeps both: its links are emplaced and carried.
LEMMA SendCallTyped ==
    ASSUME TypedAndSound, NEW p \in Peer, NEW id \in Int,
           NEW target \in Link \cup {NoLink},
           NEW a \in Link \cup {NoLink}, NEW r \in Link \cup {NoLink},
           SendCall(p, id, target, a, r)
    PROVE  TypedAndSound'
<1> DEFINE t == edge[p].local
           ta == Emplaced(t, a)
           tr == Emplaced(ta, r)
           m == CallMsg(id, target, CarriedFor(t, a), CarriedFor(ta, r))
<1>1. t \in LocalTable /\ LocalSound(t) /\ edge[p] \in Edge
  BY DEF TypedAndSound, TypeOK, TablesSound, Edge
<1>2. ta \in LocalTable /\ LocalSound(ta) /\ CarriedFor(t, a) \in Carried
  BY <1>1, EmplacedFact
<1>3. tr \in LocalTable /\ LocalSound(tr) /\ CarriedFor(ta, r) \in Carried
  BY <1>2, EmplacedFact
<1>4. m \in Message
  BY <1>2, <1>3 DEF CallMsg, Message
<1>5. edge' = [edge EXCEPT ![p].local = tr] /\ out' = [out EXCEPT ![p] = Append(@, m)]
      /\ UNCHANGED <<state, wire, inp, busy>>
  BY DEF SendCall
<1> HIDE DEF t, ta, tr, m
<1>6. edge' \in [Peer -> Edge] /\ TablesSound'
  <2>1. edge \in [Peer -> Edge] /\ TablesSound
    BY DEF TypedAndSound, TypeOK
  <2> DEFINE e == [edge[p] EXCEPT !.local = tr]
  <2>2. e \in Edge /\ e.local = tr /\ e.remote = edge[p].remote
    BY <1>1, <1>3 DEF Edge
  <2>3. edge' = [edge EXCEPT ![p] = e]
    BY <1>5
  <2> HIDE DEF e
  <2>. QED
    BY <1>3, <2>1, <2>2, <2>3 DEF TablesSound
<1>7. out' \in [Peer -> Seq(Message)]
  <2>1. out \in [Peer -> Seq(Message)] /\ Append(out[p], m) \in Seq(Message)
    BY <1>4, AppendProperties DEF TypedAndSound, TypeOK
  <2>. QED
    BY <1>5, <2>1
<1>. QED
  BY <1>5, <1>6, <1>7 DEF TypedAndSound, TypeOK

\* The same for a step that replaces one edge and appends to its output.
LEMMA EdgeStepTyped ==
    ASSUME TypedAndSound, NEW p \in Peer, NEW e \in Edge, EdgeSound(e),
           NEW s \in Seq(Message),
           edge' = [edge EXCEPT ![p] = e],
           out' = [out EXCEPT ![p] = @ \o s],
           state' \in [Peer -> State], wire' \in [Peer -> Seq(Message)],
           inp' \in [Peer -> Seq(Message)], busy' \in [Peer -> BOOLEAN]
    PROVE  TypedAndSound'
<1>1. /\ edge \in [Peer -> Edge] /\ out \in [Peer -> Seq(Message)]
      /\ \A q \in Peer : LocalSound(edge[q].local) /\ RemoteSound(edge[q].remote)
  BY DEF TypedAndSound, TypeOK, TablesSound
<1>2. edge' \in [Peer -> Edge] /\ TablesSound'
  BY <1>1 DEF TablesSound, EdgeSound
<1>3. out[p] \o s \in Seq(Message)
  BY <1>1, ConcatProperties
<1>4. out' \in [Peer -> Seq(Message)]
  BY <1>1, <1>3
<1>. QED
  BY <1>2, <1>4 DEF TypedAndSound, TypeOK

LEMMA ConsumeTyped ==
    ASSUME TypedAndSound, NEW p \in Peer, inp[p] # <<>>, Consume(p)
    PROVE  inp' \in [Peer -> Seq(Message)] /\ busy' \in [Peer -> BOOLEAN]
<1>1. inp \in [Peer -> Seq(Message)] /\ busy \in [Peer -> BOOLEAN]
  BY DEF TypedAndSound, TypeOK
<1>2. Tail(inp[p]) \in Seq(Message)
  BY <1>1, HeadTailProperties
<1>. QED
  BY <1>1, <1>2 DEF Consume

LEMMA FailTyped ==
    ASSUME TypedAndSound, NEW p \in Peer, Fail(p)
    PROVE  TypedAndSound'
BY DEF TypedAndSound, TypeOK, TablesSound, Fail, State

\* Every handler keeps types and tables.
LEMMA ProcessTyped ==
    ASSUME TypedAndSound, NEW p \in Peer, Process(p)
    PROVE  TypedAndSound'
<1> DEFINE m == Head(inp[p])
           id == Mirror(m.id)
           e == edge[p]
<1>1. /\ inp[p] # <<>> /\ inp[p] \in Seq(Message)
      /\ state \in [Peer -> State] /\ wire \in [Peer -> Seq(Message)]
      /\ edge \in [Peer -> Edge] /\ out \in [Peer -> Seq(Message)]
      /\ e \in Edge /\ EdgeSound(e)
  BY DEF Process, TypedAndSound, TypeOK, TablesSound, EdgeSound
<1>2. m \in Message
  BY <1>1, HeadTailProperties
<1>3. /\ m.id \in Int /\ id \in Int /\ m.arg \in Carried /\ m.res \in Carried
      /\ m.type \in {"call", "result", "begin", "end"}
  BY <1>2 DEF Message, Mirror, Carried
<1>4. /\ m.type = "call" => HandleCall(p, m)
      /\ m.type = "result" => HandleResult(p, m)
      /\ m.type = "begin" => HandleBegin(p, m)
      /\ m.type = "end" => HandleEnd(p, m)
  BY <1>3 DEF Process
<1> HIDE DEF m
<1>5. CASE m.type = "call"
  <2> DEFINE t == edge[p].remote
             ta == Accepted(t, m.arg)
             tr == Accepted(ta, m.res)
             ok == /\ id = 0 \/ Lookup(edge[p], id) # NoLink
                   /\ Acceptable(t, m.arg)
                   /\ Acceptable(ta, m.res)
  <2>1. CASE ok
    <3>1. edge' = [edge EXCEPT ![p].remote = tr] /\ Consume(p) /\ UNCHANGED <<state, out, wire>>
      BY <1>4, <1>5, <2>1 DEF HandleCall
    <3>2. t \in RemoteTable /\ RemoteSound(t)
      BY <1>1 DEF Edge, EdgeSound
    <3>3. ta \in RemoteTable /\ RemoteSound(ta)
      BY <1>3, <2>1, <3>2, AcceptedFact
    <3>4. tr \in RemoteTable /\ RemoteSound(tr)
      BY <1>3, <2>1, <3>3, AcceptedFact
    <3> DEFINE u == [edge[p] EXCEPT !.remote = tr]
    <3> HIDE DEF t, ta, tr, ok
    <3>5. u \in Edge /\ EdgeSound(u)
      BY <1>1, <3>4 DEF Edge, EdgeSound
    <3>6. edge' = [edge EXCEPT ![p] = u]
      BY <1>1, <3>1
    <3>7. out' = [out EXCEPT ![p] = @ \o <<>>]
      <4>1. out[p] \o <<>> = out[p]
        BY <1>1, ConcatEmptySeq
      <4>. QED
        BY <1>1, <3>1, <4>1
    <3>8. inp' \in [Peer -> Seq(Message)] /\ busy' \in [Peer -> BOOLEAN]
      BY <1>1, <3>1, ConsumeTyped
    <3> HIDE DEF u
    <3>9. <<>> \in Seq(Message)
      OBVIOUS
    <3>10. state' \in [Peer -> State] /\ wire' \in [Peer -> Seq(Message)]
      BY <1>1, <3>1
    <3>. QED
      BY <3>5, <3>6, <3>7, <3>8, <3>9, <3>10, EdgeStepTyped
  <2>2. CASE ~ok
    <3>1. Fail(p)
      BY <1>4, <1>5, <2>2 DEF HandleCall
    <3>. QED
      BY <3>1, FailTyped
  <2>. QED
    BY <2>1, <2>2
<1>6. CASE m.type = "result"
  <2>1. CASE Lookup(e, id) # NoLink
    <3> DEFINE uf == {"remove", "endRemove", "sendEnd"}
               u == Uninvolved(e, id, uf)
               s == UninvolvedSends(e, id, uf)
    <3>1. /\ edge' = [edge EXCEPT ![p] = u]
          /\ out' = [out EXCEPT ![p] = (@ \o <<>>) \o s]
          /\ UNCHANGED <<state, wire>> /\ Consume(p)
      BY <1>4, <1>6, <2>1 DEF HandleResult, LinkUninvolved
    <3>2. u \in Edge /\ EdgeSound(u)
      BY <1>1, <1>3, UninvolvedFact
    <3>3. s \in Seq(Message)
      BY <1>1, <1>3, <2>1, UninvolvedSendsType
    <3> HIDE DEF uf, u, s
    <3>4. out' = [out EXCEPT ![p] = @ \o s]
      <4>1. out[p] \o <<>> = out[p]
        BY <1>1, ConcatEmptySeq
      <4>. QED
        BY <3>1, <4>1
    <3>5. inp' \in [Peer -> Seq(Message)] /\ busy' \in [Peer -> BOOLEAN]
      BY <1>1, <3>1, ConsumeTyped
    <3>6. state' \in [Peer -> State] /\ wire' \in [Peer -> Seq(Message)]
      BY <1>1, <3>1
    <3>. QED
      BY <3>1, <3>2, <3>3, <3>4, <3>5, <3>6, EdgeStepTyped
  <2>2. CASE Lookup(e, id) = NoLink
    <3>1. Fail(p)
      BY <1>4, <1>6, <2>2 DEF HandleResult
    <3>. QED
      BY <3>1, FailTyped
  <2>. QED
    BY <2>1, <2>2
<1>7. CASE m.type = "begin"
  <2>1. CASE EdgeCanRemove(e, id)
    <3> DEFINE u == EdgeRemoved(e, id)
               s == <<Msg("end", id, Lookup(e, id))>>
    <3>1. /\ edge' = [edge EXCEPT ![p] = u]
          /\ out' = [out EXCEPT ![p] = Append(@, Msg("end", id, Lookup(e, id)))]
          /\ Consume(p) /\ UNCHANGED <<state, wire>>
      BY <1>4, <1>7, <2>1 DEF HandleBegin
    <3>2. u \in Edge /\ EdgeSound(u)
      BY <1>1, <1>3, <2>1, EdgeRemoveFact
    <3>3. Msg("end", id, Lookup(e, id)) \in Message
      <4>1. Lookup(e, id) # NoLink
        BY <2>1, EdgeCanRemoveOccupied
      <4>2. id \in Int \ {0} /\ Lookup(e, id) \in Link
        BY <1>1, <1>3, <4>1, OccupiedLookup
      <4>. QED
        BY <4>2, MsgType
    <3>4. s \in Seq(Message) /\ out' = [out EXCEPT ![p] = @ \o s]
      <4> DEFINE n == Msg("end", id, Lookup(e, id))
      <4>1. n \in Message /\ s = <<n>> /\ out' = [out EXCEPT ![p] = Append(@, n)]
        BY <3>1, <3>3
      <4> HIDE DEF n, s
      <4>2. Append(out[p], n) = out[p] \o s
        BY <1>1, <4>1, AppendIsConcat
      <4>. QED
        BY <4>1, <4>2
    <3> HIDE DEF u, s
    <3>5. inp' \in [Peer -> Seq(Message)] /\ busy' \in [Peer -> BOOLEAN]
      BY <1>1, <3>1, ConsumeTyped
    <3>6. state' \in [Peer -> State] /\ wire' \in [Peer -> Seq(Message)]
      BY <1>1, <3>1
    <3>. QED
      BY <3>1, <3>2, <3>4, <3>5, <3>6, EdgeStepTyped
  <2>2. CASE ~EdgeCanRemove(e, id) /\ EdgeCanEndRemove(e, id)
    <3> DEFINE u == EdgeEndRemoved(e, id)
    <3>1. edge' = [edge EXCEPT ![p] = u] /\ Consume(p) /\ UNCHANGED <<state, out, wire>>
      BY <1>4, <1>7, <2>2 DEF HandleBegin
    <3>2. u \in Edge /\ EdgeSound(u)
      BY <1>1, <1>3, <2>2, EdgeEndRemoveFact
    <3> HIDE DEF u
    <3>3. inp' \in [Peer -> Seq(Message)] /\ busy' \in [Peer -> BOOLEAN]
      BY <1>1, <3>1, ConsumeTyped
    <3>. QED
      BY <1>1, <3>1, <3>2, <3>3 DEF TypedAndSound, TypeOK, TablesSound, EdgeSound
  <2>3. CASE ~EdgeCanRemove(e, id) /\ ~EdgeCanEndRemove(e, id)
    <3>1. Fail(p)
      BY <1>4, <1>7, <2>3 DEF HandleBegin
    <3>. QED
      BY <3>1, FailTyped
  <2>. QED
    BY <2>1, <2>2, <2>3
<1>8. CASE m.type = "end"
  <2>1. Consume(p) /\ UNCHANGED <<state, out, wire>>
    BY <1>4, <1>8 DEF HandleEnd
  <2>2. edge' \in [Peer -> Edge] /\ TablesSound'
    <3>1. TablesSound
      BY DEF TypedAndSound
    <3>2. CASE EdgeCanEndRemove(e, id)
      <4>1. edge' = [edge EXCEPT ![p] = EdgeEndRemoved(e, id)]
        BY <1>4, <1>8, <3>2 DEF HandleEnd
      <4>2. EdgeEndRemoved(e, id) \in Edge /\ EdgeSound(EdgeEndRemoved(e, id))
        BY <1>1, <1>3, <3>2, EdgeEndRemoveFact
      <4>. QED
        BY <1>1, <3>1, <4>1, <4>2 DEF TablesSound, EdgeSound
    <3>3. CASE ~EdgeCanEndRemove(e, id)
      <4>1. edge' = edge
        BY <1>4, <1>8, <3>3 DEF HandleEnd
      <4>. QED
        BY <1>1, <3>1, <4>1 DEF TablesSound
    <3>. QED
      BY <3>2, <3>3
  <2>3. inp' \in [Peer -> Seq(Message)] /\ busy' \in [Peer -> BOOLEAN]
    BY <1>1, <2>1, ConsumeTyped
  <2>. QED
    BY <1>1, <2>1, <2>2, <2>3 DEF TypedAndSound, TypeOK
<1>. QED
  BY <1>3, <1>5, <1>6, <1>7, <1>8

LEMMA MessagesAssociate ==
    \A a, b, c \in Seq(Message) : (a \o b) \o c = a \o (b \o c)
<1>. SUFFICES ASSUME NEW S PROVE \A a, b, c \in Seq(S) : (a \o b) \o c = a \o (b \o c)
  OBVIOUS
<1>. QED
  BY ConcatAssociative

\* A user's step through linkUninvolved.
LEMMA LinkUninvolvedTyped ==
    ASSUME TypedAndSound, NEW p \in Peer, NEW id \in Int, Lookup(edge[p], id) # NoLink,
           NEW uf, NEW sent \in Seq(Message),
           LinkUninvolved(p, id, uf, sent), UNCHANGED <<inp, busy>>
    PROVE  TypedAndSound'
<1> DEFINE e == edge[p]
           u == Uninvolved(e, id, uf)
           s == sent \o UninvolvedSends(e, id, uf)
<1>1. /\ state \in [Peer -> State] /\ wire \in [Peer -> Seq(Message)]
      /\ inp \in [Peer -> Seq(Message)] /\ busy \in [Peer -> BOOLEAN]
      /\ out \in [Peer -> Seq(Message)] /\ e \in Edge /\ EdgeSound(e)
  BY DEF TypedAndSound, TypeOK, TablesSound, EdgeSound
<1>2. u \in Edge /\ EdgeSound(u)
  BY <1>1, UninvolvedFact
<1>3. UninvolvedSends(e, id, uf) \in Seq(Message)
  BY <1>1, UninvolvedSendsType
<1>4. s \in Seq(Message)
  BY <1>3, ConcatProperties
<1>5. (out[p] \o sent) \o UninvolvedSends(e, id, uf) = out[p] \o s
  <2>1. out[p] \in Seq(Message) /\ sent \in Seq(Message)
    BY <1>1
  <2> DEFINE v == UninvolvedSends(e, id, uf)
  <2>2. v \in Seq(Message)
    BY <1>3
  <2> HIDE DEF v
  <2>3. (out[p] \o sent) \o v = out[p] \o (sent \o v)
    BY <2>1, <2>2, MessagesAssociate
  <2>. QED
    BY <2>3 DEF v
<1>6. edge' = [edge EXCEPT ![p] = u] /\ out' = [out EXCEPT ![p] = @ \o s]
      /\ UNCHANGED <<state, wire>>
  BY <1>5 DEF LinkUninvolved
<1> HIDE DEF e, u, s
<1>7. /\ state' \in [Peer -> State] /\ wire' \in [Peer -> Seq(Message)]
      /\ inp' \in [Peer -> Seq(Message)] /\ busy' \in [Peer -> BOOLEAN]
  BY <1>1, <1>6
<1>. QED
  BY <1>2, <1>4, <1>6, <1>7, EdgeStepTyped

LEMMA TypedAndSoundStep ==
    ASSUME TypedAndSound, [Next]_vars
    PROVE  TypedAndSound'
<1>1. CASE UNCHANGED vars
  BY <1>1 DEF vars, TypedAndSound, TypeOK, TablesSound
<1>2. ASSUME NEW p \in Peer, Start(p) PROVE TypedAndSound'
  BY <1>2 DEF Start, TypedAndSound, TypeOK, TablesSound, State
<1>3. ASSUME NEW p \in Peer, Pause(p) PROVE TypedAndSound'
  BY <1>3 DEF Pause, TypedAndSound, TypeOK, TablesSound, State
<1>4. ASSUME NEW p \in Peer, Put(p) PROVE TypedAndSound'
  <2>1. PICK a \in IfaceLink, r \in ResultLink \cup {NoLink} : SendCall(p, 0, NoLink, a, r)
    BY <1>4 DEF Put
  <2>2. a \in Link \cup {NoLink} /\ r \in Link \cup {NoLink} /\ NoLink \in Link \cup {NoLink}
    BY LinkAssumption
  <2>3. 0 \in Int
    OBVIOUS
  <2>. QED
    BY <2>1, <2>2, <2>3, SendCallTyped
<1>5. ASSUME NEW p \in Peer, Call(p) PROVE TypedAndSound'
  <2>1. PICK id \in LiveIds(edge[p]), a \in IfaceLink \cup {NoLink},
             r \in ResultLink \cup {NoLink} :
          SendCall(p, id, Lookup(edge[p], id), a, r)
    BY <1>5 DEF Call
  <2>2. edge[p] \in Edge /\ id \in Int
    BY DEF LiveIds, TypedAndSound, TypeOK
  <2>3. Lookup(edge[p], id) \in Link \cup {NoLink}
    BY <2>2, LookupType
  <2>4. a \in Link \cup {NoLink} /\ r \in Link \cup {NoLink}
    BY LinkAssumption
  <2>. QED
    BY <2>1, <2>2, <2>3, <2>4, SendCallTyped
<1>6. ASSUME NEW p \in Peer, Drop(p) PROVE TypedAndSound'
  <2>1. PICK id \in LiveIds(edge[p]) :
          LinkUninvolved(p, id, {"beginRemove", "sendBegin"}, <<>>)
    BY <1>6 DEF Drop
  <2>2. id \in Int /\ Lookup(edge[p], id) # NoLink
    BY DEF LiveIds
  <2>3. <<>> \in Seq(Message) /\ UNCHANGED <<inp, busy>>
    BY <1>6 DEF Drop
  <2>. QED
    BY <2>1, <2>2, <2>3, LinkUninvolvedTyped
<1>7. ASSUME NEW p \in Peer, Resolve(p) PROVE TypedAndSound'
  <2>1. PICK id \in LiveIds(edge[p]) :
          LinkUninvolved(p, id, {"beginRemove"}, <<Msg("result", id, Lookup(edge[p], id))>>)
    BY <1>7 DEF Resolve
  <2>2. id \in Int /\ Lookup(edge[p], id) # NoLink /\ edge[p] \in Edge
    BY DEF LiveIds, TypedAndSound, TypeOK
  <2>3. Msg("result", id, Lookup(edge[p], id)) \in Message
    BY <2>2, OccupiedLookup, MsgType
  <2>4. <<Msg("result", id, Lookup(edge[p], id))>> \in Seq(Message) /\ UNCHANGED <<inp, busy>>
    BY <1>7, <2>3 DEF Resolve
  <2>. QED
    BY <2>1, <2>2, <2>4, LinkUninvolvedTyped
<1>8. ASSUME NEW p \in Peer, Flush(p) PROVE TypedAndSound'
  <2>1. wire[p] \o out[p] \in Seq(Message)
    BY ConcatProperties DEF TypedAndSound, TypeOK
  <2>. QED
    BY <1>8, <2>1 DEF Flush, TypedAndSound, TypeOK, TablesSound
<1>9. ASSUME NEW p \in Peer, Receive(p) PROVE TypedAndSound'
  <2>1. Other(p) \in Peer
    BY OtherPeer
  <2>2. inp[p] \o wire[Other(p)] \in Seq(Message)
    BY <2>1, ConcatProperties DEF TypedAndSound, TypeOK
  <2>. QED
    BY <1>9, <2>1, <2>2 DEF Receive, TypedAndSound, TypeOK, TablesSound
<1>10. ASSUME NEW p \in Peer, Leave(p) PROVE TypedAndSound'
  BY <1>10 DEF Leave, TypedAndSound, TypeOK, TablesSound
<1>. QED
  BY <1>1, <1>2, <1>3, <1>4, <1>5, <1>6, <1>7, <1>8, <1>9, <1>10, ProcessTyped DEF Next

\* Types are kept, and the tables are sound, in every reachable state.
THEOREM TypedAndSoundAlways == Spec => []TypedAndSound
<1>1. Init => TypedAndSound
  BY TypedAndSoundInit
<1>2. TypedAndSound /\ [Next]_vars => TypedAndSound'
  BY TypedAndSoundStep
<1>. QED
  BY <1>1, <1>2, PTL DEF Spec

\* Every variable of Links has its type in every reachable state, for any
\* number of links.
THEOREM TypeCorrect == Spec => []TypeOK
<1>1. TypedAndSound => TypeOK
  BY DEF TypedAndSound
<1>. QED
  BY <1>1, TypedAndSoundAlways, PTL

\* The free list of every local table names exactly its empty cells, no table
\* ends with an empty cell and no removal has begun for an empty cell, in every
\* reachable state: LocalLinks::emplace never meets its assertions.
THEOREM TablesAlwaysSound == Spec => []TablesSound
<1>1. TypedAndSound => TablesSound
  BY DEF TypedAndSound
<1>. QED
  BY <1>1, TypedAndSoundAlways, PTL
=============================================================================
