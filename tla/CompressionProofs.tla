------------------------- MODULE CompressionProofs --------------------------
(***************************************************************************)
(* Theorems about Compression, for any payloads, buffers and bounds, and   *)
(* whatever zstd does within its contract.                                 *)
(*                                                                         *)
(* As long as the reader is not lost, all units it has not taken stand in  *)
(* one line: those that wait at the reader, those in the stream, and those *)
(* the compressor has made or has no room for.  What was decompressed and  *)
(* the units up to the first bad one hold the first bytes given; if there  *)
(* is no bad one and the compressor never failed, they hold, with the      *)
(* bytes of no unit yet, all bytes given.                                  *)
(***************************************************************************)
EXTENDS Compression, StreamLemmas

Bytes == Seq(Nat)
Units == Seq(Bytes)

\* s counts on from 1, up to t at most, or up to t.
Good(s, t) == Runs(s, 0) /\ Len(s) <= t
Complete(s, t) == Runs(s, 0) /\ Len(s) = t

\* The bytes a and those of the first c units of the line l are good ones; w are
\* the bytes after the line, t is how many were given, e how often the compressor
\* failed.
PlacedAt(c, a, l, w, t, e) ==
    /\ Good(a \o FlattenSeq(First(l, c)), t)
    /\ c < Len(l) => l[c + 1] = BadUnit
    /\ c = Len(l) /\ e = 0 => Complete(a \o (FlattenSeq(l) \o w), t)

PlacedIn(a, l, w, t, e) == \E c \in 0..Len(l) : PlacedAt(c, a, l, w, t, e)

\* What was decompressed, the units on their way, and the bytes of no unit yet.
Done == output \o plain
Line == raw \o (stream \o (made \o coded))
Waiting == held \o source

Placed == PlacedIn(Done, Line, Waiting, Total(given), errors)

Shaped ==
    /\ given \in Seq(Nat) /\ source \in Bytes /\ held \in Bytes /\ plain \in Bytes /\ output \in Bytes
    /\ coded \in Units /\ made \in Units /\ stream \in Units /\ raw \in Units

\* The control of both loops.
Turns ==
    /\ writing \in {"idle", "compress", "flush", "failed"} /\ errors \in 0..MaxErrors
    /\ writing \in {"idle", "failed"} => made = <<>>
    /\ writing \in {"idle", "failed"} => held = <<>> /\ coded = <<>>
    /\ errors > 0 => held = <<>> /\ coded = <<>>
    /\ reading \in {"idle", "decompress", "drain"} /\ failed \in BOOLEAN /\ lost \in BOOLEAN
    /\ reading = "idle" => plain = <<>>
    /\ spoiled \in 0..MaxSpoiled

IInv == Shaped /\ Turns /\ (lost = FALSE => Placed)

-----------------------------------------------------------------------------
(* Sequences of bytes and of units. *)

\* Two sequences of bytes, one after the other.
LEMMA JoinBytes ==
    ASSUME NEW s \in Bytes, NEW t \in Bytes
    PROVE  s \o t \in Bytes /\ Len(s) \in Nat /\ Len(t) \in Nat /\ Len(s \o t) = Len(s) + Len(t)
BY ConcatProperties, LenProperties DEF Bytes

\* Three of them: which two are joined first does not matter.
LEMMA RegroupBytes ==
    ASSUME NEW s \in Bytes, NEW t \in Bytes, NEW u \in Bytes
    PROVE  (s \o t) \o u = s \o (t \o u)
<1>1. Regroups(s, t, u) BY Regrouped DEF Bytes
<1> QED BY <1>1 DEF Regroups

\* No bytes change nothing.
LEMMA NoBytes ==
    ASSUME NEW s \in Bytes
    PROVE  <<>> \in Bytes /\ <<>> \o s = s /\ s \o <<>> = s
BY ConcatEmptySeq, EmptySeq DEF Bytes

\* The same of units, and the bytes they hold.
LEMMA JoinUnits ==
    ASSUME NEW s \in Units, NEW t \in Units
    PROVE  /\ s \o t \in Units
           /\ FlattenSeq(s) \in Bytes /\ FlattenSeq(t) \in Bytes
           /\ FlattenSeq(s \o t) = FlattenSeq(s) \o FlattenSeq(t)
BY ConcatProperties, FlattenType, FlattenConcat DEF Units, Bytes

\* Three sequences of units.
LEMMA RegroupUnits ==
    ASSUME NEW s \in Units, NEW t \in Units, NEW u \in Units
    PROVE  (s \o t) \o u = s \o (t \o u)
<1>1. Regroups(s, t, u) BY Regrouped DEF Units
<1> QED BY <1>1 DEF Regroups

\* A block holds its bytes.
LEMMA FlattenBlock ==
    ASSUME NEW b \in Bytes
    PROVE  Block(b) \in Units /\ FlattenSeq(Block(b)) = b
<1>1. <<<<>>>> \in Units /\ <<>> \in Bytes BY EmptySeq DEF Units, Bytes
<1>2. Block(b) = Append(<<<<>>>>, b) BY DEF Block
<1>3. FlattenSeq(Append(<<<<>>>>, b)) = FlattenSeq(<<<<>>>>) \o b
    BY <1>1, FlattenAppend DEF Units, Bytes
<1>4. FlattenSeq(<<<<>>>>) = <<>> BY <1>1, FlattenOne DEF Bytes
<1>5. Append(<<<<>>>>, b) \in Units BY <1>1, AppendProperties DEF Units
<1> QED BY <1>2, <1>3, <1>4, <1>5, NoBytes

\* A sequence of bytes cut in two.
LEMMA CutBytes ==
    ASSUME NEW s \in Bytes, NEW n \in Nat
    PROVE  First(s, n) \in Bytes /\ Rest(s, n) \in Bytes /\ First(s, n) \o Rest(s, n) = s
BY FirstRest DEF Bytes

\* A sequence of units cut in two.
LEMMA CutUnits ==
    ASSUME NEW s \in Units, NEW n \in Nat
    PROVE  First(s, n) \in Units /\ Rest(s, n) \in Units /\ First(s, n) \o Rest(s, n) = s
BY FirstRest DEF Units

\* What goes out of c changes nothing of what is under way.
LEMMA RoomMoves ==
    ASSUME NEW m \in Units, NEW c \in Units
    PROVE  /\ First(c, CodedRoom) \in Units /\ Rest(c, CodedRoom) \in Units
           /\ m \o First(c, CodedRoom) \in Units
           /\ (m \o First(c, CodedRoom)) \o Rest(c, CodedRoom) = m \o c
<1>1. CodedRoom \in Nat BY SizeAssumption
<1>2. /\ First(c, CodedRoom) \in Units /\ Rest(c, CodedRoom) \in Units
      /\ First(c, CodedRoom) \o Rest(c, CodedRoom) = c
    BY <1>1, CutUnits
<1>3. m \o First(c, CodedRoom) \in Units BY <1>2, JoinUnits
<1>4. (m \o First(c, CodedRoom)) \o Rest(c, CodedRoom) = m \o (First(c, CodedRoom) \o Rest(c, CodedRoom))
    BY <1>2, RegroupUnits
<1> QED BY <1>2, <1>3, <1>4

-----------------------------------------------------------------------------
(* Lines of units. *)

\* Bytes that count on, cut in two.
LEMMA RunsSplit ==
    ASSUME NEW s \in Bytes, NEW t \in Bytes, NEW k \in Nat
    PROVE  Runs(s \o t, k) <=> Runs(s, k) /\ Runs(t, k + Len(s))
BY RunsConcat DEF Bytes

\* The first part of good bytes is good.
LEMMA GoodPart ==
    ASSUME NEW s \in Bytes, NEW m \in Bytes, NEW t \in Nat, Good(s \o m, t)
    PROVE  Good(s, t)
<1>1. Runs(s \o m, 0) /\ Len(s \o m) <= t BY DEF Good
<1>2. Runs(s, 0) BY <1>1, RunsSplit
<1>3. Len(s) \in Nat /\ Len(m) \in Nat /\ Len(s \o m) = Len(s) + Len(m) BY JoinBytes
<1> QED BY <1>1, <1>2, <1>3 DEF Good

\* The same where a was there before.
LEMMA GoodPart3 ==
    ASSUME NEW a \in Bytes, NEW s \in Bytes, NEW m \in Bytes, NEW t \in Nat, Good(a \o (s \o m), t)
    PROVE  Good(a \o s, t)
<1>1. (a \o s) \o m = a \o (s \o m) BY RegroupBytes
<1>2. a \o s \in Bytes BY JoinBytes
<1> QED BY <1>1, <1>2, GoodPart

\* Units have a length, and a place for each number up to it.
LEMMA UnitsLength ==
    ASSUME NEW l \in Units
    PROVE  Len(l) \in Nat
BY LenProperties DEF Units

\* Two lines, member by member.
InTwo(x, y) ==
    /\ Len(x \o y) = Len(x) + Len(y)
    /\ \A i \in 1..Len(x) : (x \o y)[i] = x[i]
    /\ \A i \in 1..Len(y) : (x \o y)[Len(x) + i] = y[i]

LEMMA TwoLines ==
    ASSUME NEW x \in Units, NEW y \in Units
    PROVE  InTwo(x, y)
<1>1. /\ Len(x) \in Nat /\ Len(y) \in Nat /\ Len(x \o y) = Len(x) + Len(y)
      /\ \A i \in 1..Len(x) + Len(y) : (x \o y)[i] = IF i <= Len(x) THEN x[i] ELSE y[i - Len(x)]
    BY ConcatProperties, LenProperties DEF Units
<1>2. ASSUME NEW i \in 1..Len(y) PROVE (x \o y)[Len(x) + i] = y[i]
    <2>1. Len(x) + i \in 1..Len(x) + Len(y) /\ ~(Len(x) + i <= Len(x)) /\ (Len(x) + i) - Len(x) = i
        BY <1>1
    <2> QED BY <1>1, <2>1
<1>3. \A i \in 1..Len(x) : (x \o y)[i] = x[i] BY <1>1
<1> QED BY <1>1, <1>2, <1>3 DEF InTwo

\* The bytes of the first c units are the first part of those of the first d.
LEMMA FirstFlattened ==
    ASSUME NEW l \in Units, NEW c \in Nat, NEW d \in Nat, c <= d, d <= Len(l)
    PROVE  /\ FlattenSeq(First(l, c)) \in Bytes
           /\ \E m \in Bytes : FlattenSeq(First(l, d)) = FlattenSeq(First(l, c)) \o m
<1> DEFINE u == First(l, d)
           v == Rest(l, d)
<1>1. u \in Units /\ v \in Units /\ u \o v = l BY CutUnits
<1>2. Len(u) = d
    <2>1. Len(l) \in Nat BY UnitsLength
    <2>2. Len(u) = (IF d < Len(l) THEN d ELSE Len(l)) BY FirstRest DEF Units
    <2> HIDE DEF u
    <2> QED BY <2>1, <2>2
<1> HIDE DEF u, v
<1>3. First(l, c) = First(u, c)
    <2>1. c <= Len(u) BY <1>2
    <2>2. First(u \o v, c) = First(u, c) BY <1>1, <2>1, RestConcat DEF Units
    <2> QED BY <1>1, <2>2
<1> DEFINE x == First(u, c)
           y == Rest(u, c)
<1>4. x \in Units /\ y \in Units /\ x \o y = u BY <1>1, CutUnits
<1> HIDE DEF x, y
<1>5. FlattenSeq(x \o y) = FlattenSeq(x) \o FlattenSeq(y) /\ FlattenSeq(x) \in Bytes /\ FlattenSeq(y) \in Bytes
    BY <1>4, JoinUnits
<1>6. First(l, c) = x BY <1>3 DEF x
<1> QED BY <1>4, <1>5, <1>6 DEF u

\* All units are the first ones of a line that long.
LEMMA AllOfLine ==
    ASSUME NEW l \in Units
    PROVE  First(l, Len(l)) = l
BY FirstAll DEF Units

\* Bytes become units at the end of the line.
LEMMA LineGrows ==
    ASSUME NEW a \in Bytes, NEW l \in Units, NEW x \in Units, NEW w \in Bytes, NEW v \in Bytes,
           NEW t \in Nat, w = FlattenSeq(x) \o v, PlacedIn(a, l, w, t, 0)
    PROVE  PlacedIn(a, l \o x, v, t, 0)
<1>1. PICK c \in 0..Len(l) : PlacedAt(c, a, l, w, t, 0) BY DEF PlacedIn
<1>2. /\ l \o x \in Units /\ FlattenSeq(l) \in Bytes /\ FlattenSeq(x) \in Bytes
      /\ FlattenSeq(l \o x) = FlattenSeq(l) \o FlattenSeq(x)
    BY JoinUnits
<1>3. Len(l) \in Nat /\ Len(x) \in Nat /\ Len(l \o x) = Len(l) + Len(x)
      /\ \A i \in 1..Len(l) : (l \o x)[i] = l[i]
    BY UnitsLength, TwoLines DEF InTwo
<1>4. CASE c < Len(l)
    <2>1. c \in 0..Len(l \o x) /\ c < Len(l \o x) /\ c + 1 \in 1..Len(l) /\ c \in Nat /\ c <= Len(l)
        BY <1>3, <1>4
    <2>2. First(l \o x, c) = First(l, c) BY <2>1, RestConcat DEF Units
    <2>3. (l \o x)[c + 1] = BadUnit BY <1>1, <1>3, <1>4, <2>1 DEF PlacedAt
    <2>4. c # Len(l \o x) BY <2>1, <1>3
    <2>5. PlacedAt(c, a, l \o x, v, t, 0) BY <1>1, <2>2, <2>3, <2>4 DEF PlacedAt
    <2> QED BY <2>1, <2>5 DEF PlacedIn
<1>5. CASE c = Len(l)
    <2> DEFINE f == FlattenSeq(l \o x)
               d == Len(l \o x)
    <2>1. Complete(a \o (FlattenSeq(l) \o (FlattenSeq(x) \o v)), t) BY <1>1, <1>5 DEF PlacedAt
    <2>2. f \o v = FlattenSeq(l) \o (FlattenSeq(x) \o v) /\ f \in Bytes
        <3>1. (FlattenSeq(l) \o FlattenSeq(x)) \o v = FlattenSeq(l) \o (FlattenSeq(x) \o v) BY <1>2, RegroupBytes
        <3>2. f \in Bytes BY <1>2, JoinBytes
        <3> QED BY <1>2, <3>1, <3>2
    <2> HIDE DEF f
    <2>3. Complete(a \o (f \o v), t) BY <2>1, <2>2
    <2>4. Good(a \o f, t)
        <3>1. Good(a \o (f \o v), t)
            <4>1. a \o (f \o v) \in Bytes
                <5>1. f \o v \in Bytes BY <2>2, JoinBytes
                <5> QED BY <5>1, JoinBytes
            <4>2. Len(a \o (f \o v)) = t /\ Runs(a \o (f \o v), 0) BY <2>3 DEF Complete
            <4> QED BY <4>2 DEF Good
        <3> QED BY <2>2, <3>1, GoodPart3
    <2>5. First(l \o x, d) = l \o x BY <1>2, AllOfLine
    <2>6. d \in 0..Len(l \o x) /\ ~(d < Len(l \o x)) BY <1>3
    <2>7. PlacedAt(d, a, l \o x, v, t, 0) BY <2>3, <2>4, <2>5, <2>6 DEF PlacedAt, f
    <2> QED BY <2>6, <2>7 DEF PlacedIn
<1> QED BY <1>1, <1>3, <1>4, <1>5

\* New bytes come after all others.
LEMMA LinePut ==
    ASSUME NEW a \in Bytes, NEW l \in Units, NEW w \in Bytes, NEW t \in Nat, NEW e \in Nat,
           NEW b \in Bytes, NEW u \in Nat, u = t + Len(b), Runs(b, t), PlacedIn(a, l, w, t, e)
    PROVE  PlacedIn(a, l, w \o b, u, e)
<1>1. PICK c \in 0..Len(l) : PlacedAt(c, a, l, w, t, e) BY DEF PlacedIn
<1>2. Len(l) \in Nat /\ Len(b) \in Nat BY UnitsLength, JoinBytes
<1>3. Good(a \o FlattenSeq(First(l, c)), u)
    <2> DEFINE s == a \o FlattenSeq(First(l, c))
    <2>1. FlattenSeq(First(l, c)) \in Bytes
        <3>1. c \in Nat /\ c <= c /\ c <= Len(l) BY <1>2
        <3> QED BY <3>1, FirstFlattened
    <2>2. Len(s) \in Nat
        <3>1. s \in Bytes BY <2>1, JoinBytes
        <3> QED BY <3>1, JoinBytes
    <2>3. Good(s, t) BY <1>1 DEF PlacedAt
    <2> HIDE DEF s
    <2>4. Good(s, u) BY <1>2, <2>2, <2>3 DEF Good
    <2> QED BY <2>4 DEF s
<1>4. ASSUME c = Len(l) /\ e = 0 PROVE Complete(a \o (FlattenSeq(l) \o (w \o b)), u)
    <2> DEFINE f == FlattenSeq(l)
               s == a \o (f \o w)
    <2>1. f \in Bytes BY JoinUnits
    <2>2. Complete(s, t) BY <1>1, <1>4 DEF PlacedAt
    <2> HIDE DEF f
    <2>3. f \o w \in Bytes /\ s \in Bytes
        <3>1. f \o w \in Bytes BY <2>1, JoinBytes
        <3> QED BY <3>1, JoinBytes
    <2>4. f \o (w \o b) = (f \o w) \o b BY <2>1, RegroupBytes
    <2>5. a \o ((f \o w) \o b) = s \o b BY <2>3, RegroupBytes
    <2> HIDE DEF s
    <2>6. Len(s \o b) = u /\ Runs(s \o b, 0)
        <3>1. Len(s) = t /\ Runs(s, 0) BY <2>2 DEF Complete
        <3>2. Len(s \o b) = Len(s) + Len(b) BY <2>3, JoinBytes
        <3>3. 0 + Len(s) = t BY <3>1
        <3>4. Runs(s \o b, 0) BY <2>3, <3>1, <3>3, RunsSplit
        <3> QED BY <3>1, <3>2, <3>4
    <2> QED BY <2>4, <2>5, <2>6 DEF Complete, f
<1>5. PlacedAt(c, a, l, w \o b, u, e) BY <1>1, <1>3, <1>4 DEF PlacedAt
<1> QED BY <1>5 DEF PlacedIn

\* A compressor that fails: the end y of the line is gone, and anything or
\* nothing comes after the rest of it.
LEMMA LineBreaks ==
    ASSUME NEW a \in Bytes, NEW x \in Units, NEW y \in Units, NEW w, NEW v, NEW t \in Nat, NEW e,
           NEW f \in Nat, f > 0, NEW m \in Anything, PlacedIn(a, x \o y, w, t, e)
    PROVE  m \in Units /\ PlacedIn(a, x \o m, v, t, f)
<1>1. m \in Units /\ (m # <<>> => m[1] = BadUnit)
    <2>1. <<>> \in Units BY EmptySeq DEF Units
    <2>2. BadUnit \in Bytes BY DEF BadUnit, BadByte, Bytes
    <2>3. <<BadUnit>> \in Units /\ <<BadUnit>>[1] = BadUnit
        <3> HIDE DEF Bytes
        <3> QED BY <2>2 DEF Units
    <2> QED BY <2>1, <2>3 DEF Anything
<1>2. PICK c \in 0..Len(x \o y) : PlacedAt(c, a, x \o y, w, t, e) BY DEF PlacedIn
<1>3. /\ Len(x) \in Nat /\ Len(y) \in Nat /\ Len(x \o y) = Len(x) + Len(y)
      /\ \A i \in 1..Len(x) : (x \o y)[i] = x[i]
    BY UnitsLength, TwoLines DEF InTwo
<1>4. /\ Len(m) \in Nat /\ Len(x \o m) = Len(x) + Len(m)
      /\ \A i \in 1..Len(x) : (x \o m)[i] = x[i]
      /\ \A i \in 1..Len(m) : (x \o m)[Len(x) + i] = m[i]
    BY <1>1, UnitsLength, TwoLines DEF InTwo
<1>5. c \in Nat /\ c <= Len(x \o y) BY <1>3
<1>6. PICK d \in Nat : d = (IF c < Len(x) THEN c ELSE Len(x)) BY <1>3, <1>5
<1>7. d <= c /\ d <= Len(x) /\ d \in 0..Len(x \o m) BY <1>3, <1>4, <1>5, <1>6
<1>8. First(x \o m, d) = First(x \o y, d)
    <2>1. First(x \o m, d) = First(x, d) BY <1>1, <1>7, RestConcat DEF Units
    <2>2. First(x \o y, d) = First(x, d) BY <1>7, RestConcat DEF Units
    <2> QED BY <2>1, <2>2
<1>9. Good(a \o FlattenSeq(First(x \o y, d)), t)
    <2> DEFINE l == x \o y
    <2>1. l \in Units BY JoinUnits
    <2>2. Good(a \o FlattenSeq(First(l, c)), t) BY <1>2 DEF PlacedAt
    <2> HIDE DEF l
    <2>3. c <= Len(l) BY <1>5 DEF l
    <2>4. /\ FlattenSeq(First(l, d)) \in Bytes
          /\ \E z \in Bytes : FlattenSeq(First(l, c)) = FlattenSeq(First(l, d)) \o z
        BY <1>5, <1>7, <2>1, <2>3, FirstFlattened
    <2>5. PICK z \in Bytes : FlattenSeq(First(l, c)) = FlattenSeq(First(l, d)) \o z BY <2>4
    <2>6. Good(a \o (FlattenSeq(First(l, d)) \o z), t) BY <2>2, <2>5
    <2> QED BY <2>4, <2>6, GoodPart3 DEF l
<1>10. ASSUME d < Len(x \o m) PROVE (x \o m)[d + 1] = BadUnit
    <2>1. CASE c < Len(x)
        <3>1. d = c /\ c + 1 \in 1..Len(x) /\ c < Len(x \o y) BY <1>3, <1>5, <1>6, <2>1
        <3>2. (x \o y)[c + 1] = BadUnit BY <1>2, <3>1 DEF PlacedAt
        <3> QED BY <1>3, <1>4, <3>1, <3>2
    <2>2. CASE ~(c < Len(x))
        <3>1. d = Len(x) BY <1>6, <2>2
        <3>2. 1 \in 1..Len(m) /\ m # <<>> BY <1>4, <1>10, <3>1
        <3> QED BY <1>1, <1>4, <3>1, <3>2
    <2> QED BY <2>1, <2>2
<1>11. f # 0 OBVIOUS
<1>12. PlacedAt(d, a, x \o m, v, t, f) BY <1>8, <1>9, <1>10, <1>11 DEF PlacedAt
<1> QED BY <1>1, <1>7, <1>12 DEF PlacedIn

\* One unit of the line at most is spoiled, the one at j.
LEMMA LineSpoils ==
    ASSUME NEW a \in Bytes, NEW l \in Units, NEW k \in Units, NEW w, NEW t \in Nat, NEW e,
           Len(k) = Len(l), NEW j \in 0..Len(l), \A i \in 1..Len(l) : i # j => k[i] = l[i],
           j # 0 => k[j] = BadUnit, PlacedIn(a, l, w, t, e)
    PROVE  PlacedIn(a, k, w, t, e)
<1>1. PICK c \in 0..Len(l) : PlacedAt(c, a, l, w, t, e) BY DEF PlacedIn
<1>2. Len(l) \in Nat BY UnitsLength
<1>3. PICK d \in Nat : d = (IF j # 0 /\ j <= c THEN j - 1 ELSE c) BY <1>2
<1>4. d <= c /\ d <= Len(l) /\ d \in 0..Len(k) /\ c \in Nat /\ c <= Len(l) BY <1>2, <1>3
<1>5. First(k, d) = First(l, d)
    <2>1. \A i \in 1..d : i \in 1..Len(l) /\ i # j BY <1>2, <1>3, <1>4
    <2>2. Same(k, l, d) BY <2>1 DEF Same
    <2> QED BY <1>4, <2>2, FirstSame DEF Units
<1>6. Good(a \o FlattenSeq(First(l, d)), t)
    <2>1. Good(a \o FlattenSeq(First(l, c)), t) BY <1>1 DEF PlacedAt
    <2>2. /\ FlattenSeq(First(l, d)) \in Bytes
          /\ \E z \in Bytes : FlattenSeq(First(l, c)) = FlattenSeq(First(l, d)) \o z
        BY <1>4, FirstFlattened
    <2>3. PICK z \in Bytes : FlattenSeq(First(l, c)) = FlattenSeq(First(l, d)) \o z BY <2>2
    <2>4. Good(a \o (FlattenSeq(First(l, d)) \o z), t) BY <2>1, <2>3
    <2> QED BY <2>2, <2>4, GoodPart3
<1>7. ASSUME d < Len(k) PROVE k[d + 1] = BadUnit
    <2>1. CASE j # 0 /\ j <= c
        <3>1. d + 1 = j BY <1>3, <2>1
        <3> QED BY <2>1, <3>1
    <2>2. CASE ~(j # 0 /\ j <= c)
        <3>1. d = c /\ c < Len(l) /\ c + 1 \in 1..Len(l) BY <1>2, <1>3, <1>7, <2>2
        <3>2. l[c + 1] = BadUnit BY <1>1, <3>1 DEF PlacedAt
        <3> QED BY <3>1, <3>2
    <2> QED BY <2>1, <2>2
<1>8. ASSUME d = Len(k), e = 0 PROVE Complete(a \o (FlattenSeq(k) \o w), t)
    <2>1. d = c /\ c = Len(l) BY <1>2, <1>3, <1>4, <1>8
    <2>2. Complete(a \o (FlattenSeq(l) \o w), t) BY <1>1, <1>8, <2>1 DEF PlacedAt
    <2>3. First(k, Len(k)) = k /\ First(l, Len(l)) = l BY AllOfLine
    <2>4. k = l BY <1>5, <1>8, <2>1, <2>3
    <2> QED BY <2>2, <2>4
<1>9. PlacedAt(d, a, k, w, t, e) BY <1>5, <1>6, <1>7, <1>8 DEF PlacedAt
<1> QED BY <1>4, <1>9 DEF PlacedIn

\* Units that are not bad leave the front of the line.
LEMMA LineTaken ==
    ASSUME NEW a \in Bytes, NEW x \in Units, NEW y \in Units, NEW w \in Bytes, NEW t \in Nat, NEW e,
           \A i \in 1..Len(x) : x[i] # BadUnit, PlacedIn(a, x \o y, w, t, e)
    PROVE  PlacedIn(a \o FlattenSeq(x), y, w, t, e)
<1>1. PICK c \in 0..Len(x \o y) : PlacedAt(c, a, x \o y, w, t, e) BY DEF PlacedIn
<1>2. /\ Len(x) \in Nat /\ Len(y) \in Nat /\ Len(x \o y) = Len(x) + Len(y)
      /\ \A i \in 1..Len(x) : (x \o y)[i] = x[i]
      /\ \A i \in 1..Len(y) : (x \o y)[Len(x) + i] = y[i]
    BY UnitsLength, TwoLines DEF InTwo
<1>3. ASSUME c < Len(x) PROVE FALSE
    <2>1. c + 1 \in 1..Len(x) /\ c < Len(x \o y) BY <1>2, <1>3
    <2>2. (x \o y)[c + 1] = BadUnit BY <1>1, <2>1 DEF PlacedAt
    <2> QED BY <1>2, <2>1, <2>2
<1>4. PICK d \in Nat : c = Len(x) + d
    <2>1. c \in Nat /\ ~(c < Len(x)) BY <1>2, <1>3
    <2>2. c - Len(x) \in Nat /\ c = Len(x) + (c - Len(x)) BY <1>2, <2>1
    <2> QED BY <2>2
<1>5. d \in 0..Len(y) BY <1>2, <1>4
<1> DEFINE p == First(y, d)
           q == Rest(y, d)
           f == FlattenSeq(x)
<1>6. p \in Units /\ q \in Units /\ p \o q = y BY CutUnits
<1>7. Len(p) = d
    <2>1. Len(p) = (IF d < Len(y) THEN d ELSE Len(y)) BY FirstRest DEF Units
    <2> HIDE DEF p
    <2> QED BY <1>2, <1>5, <2>1
<1> HIDE DEF p, q
<1>8. First(x \o y, c) = x \o p
    <2>1. x \o y = (x \o p) \o q BY <1>6, RegroupUnits
    <2>2. x \o p \in Units /\ Len(x \o p) = c
        <3>1. x \o p \in Units /\ Len(x \o p) = Len(x) + Len(p) BY <1>6, JoinUnits, TwoLines DEF InTwo
        <3> QED BY <1>4, <1>7, <3>1
    <2>3. First((x \o p) \o q, Len(x \o p)) = x \o p BY <1>6, <2>2, FirstIs DEF Units
    <2> QED BY <2>1, <2>2, <2>3
<1>9. f \in Bytes /\ FlattenSeq(p) \in Bytes /\ FlattenSeq(x \o p) = f \o FlattenSeq(p)
    BY <1>6, JoinUnits
<1>10. FlattenSeq(y) \in Bytes /\ FlattenSeq(x \o y) = f \o FlattenSeq(y) BY JoinUnits
<1> HIDE DEF f
<1>11. Good((a \o f) \o FlattenSeq(p), t)
    <2>1. Good(a \o (f \o FlattenSeq(p)), t) BY <1>1, <1>8, <1>9 DEF PlacedAt
    <2>2. (a \o f) \o FlattenSeq(p) = a \o (f \o FlattenSeq(p)) BY <1>9, RegroupBytes
    <2> QED BY <2>1, <2>2
<1>12. ASSUME d < Len(y) PROVE y[d + 1] = BadUnit
    <2>1. c < Len(x \o y) /\ d + 1 \in 1..Len(y) /\ c + 1 = Len(x) + (d + 1) BY <1>2, <1>4, <1>12
    <2>2. (x \o y)[c + 1] = BadUnit BY <1>1, <2>1 DEF PlacedAt
    <2> QED BY <1>2, <2>1, <2>2
<1>13. ASSUME d = Len(y), e = 0 PROVE Complete((a \o f) \o (FlattenSeq(y) \o w), t)
    <2> DEFINE g == FlattenSeq(y)
    <2>1. c = Len(x \o y) BY <1>2, <1>4, <1>13
    <2>2. Complete(a \o ((f \o g) \o w), t) BY <1>1, <1>10, <1>13, <2>1 DEF PlacedAt
    <2>3. g \in Bytes BY <1>10
    <2> HIDE DEF g
    <2>4. (f \o g) \o w = f \o (g \o w) /\ g \o w \in Bytes
        <3>1. (f \o g) \o w = f \o (g \o w) BY <1>9, <2>3, RegroupBytes
        <3>2. g \o w \in Bytes BY <2>3, JoinBytes
        <3> QED BY <3>1, <3>2
    <2>5. (a \o f) \o (g \o w) = a \o (f \o (g \o w)) BY <1>9, <2>4, RegroupBytes
    <2>6. Complete((a \o f) \o (g \o w), t) BY <2>2, <2>4, <2>5
    <2> QED BY <2>6 DEF g
<1>14. PlacedAt(d, a \o f, y, w, t, e) BY <1>11, <1>12, <1>13 DEF PlacedAt, p
<1>15. PlacedIn(a \o f, y, w, t, e) BY <1>5, <1>14 DEF PlacedIn
<1> QED BY <1>15 DEF f

-----------------------------------------------------------------------------
(* The writer. *)

\* What is given grows by the size of a payload.
LEMMA TotalGrows ==
    ASSUME given \in Seq(Nat), NEW n \in Nat
    PROVE  Total(given) \in Nat /\ Total(Append(given, n)) = Total(given) + n
BY TotalType, TotalAppend

\* The types of what Placed is about.
LEMMA PlacedTypes ==
    ASSUME Shaped
    PROVE  /\ Done \in Bytes /\ Line \in Units /\ Waiting \in Bytes /\ Total(given) \in Nat
           /\ made \o coded \in Units /\ stream \o made \in Units /\ stream \o (made \o coded) \in Units
<1>1. Done \in Bytes BY JoinBytes DEF Shaped, Done
<1>2. Waiting \in Bytes BY JoinBytes DEF Shaped, Waiting
<1>3. made \o coded \in Units /\ stream \o made \in Units BY JoinUnits DEF Shaped
<1>4. stream \o (made \o coded) \in Units BY <1>3, JoinUnits DEF Shaped
<1>5. Line \in Units BY <1>4, JoinUnits DEF Shaped, Line
<1>6. Total(given) \in Nat BY TotalType DEF Shaped
<1> QED BY <1>1, <1>2, <1>3, <1>4, <1>5, <1>6

\* Nothing of it changes.
LEMMA PlacedKept ==
    ASSUME Placed, UNCHANGED <<given, source, held, coded, made, errors, stream, raw, plain, output>>
    PROVE  Placed'
<1>1. Done' = Done /\ Line' = Line /\ Waiting' = Waiting BY DEF Done, Line, Waiting
<1> QED BY <1>1 DEF Placed

\* New bytes come behind all others.
LEMMA PutStep ==
    ASSUME IInv, Put
    PROVE  IInv'
<1>1. Shaped /\ Turns BY DEF IInv
<1>2. PICK n \in Size : /\ given' = Append(given, n)
                        /\ source' = source \o [i \in 1..n |-> Total(given) + i]
    BY DEF Put
<1>3. UNCHANGED <<held, coded, made, writing, errors, stream, reader, spoiled>> BY DEF Put
<1>4. n \in Nat /\ Total(given) \in Nat /\ Total(given') = Total(given) + n
    BY <1>1, <1>2, SizeAssumption, TotalGrows DEF Shaped
<1> DEFINE b == [i \in 1..n |-> Total(given) + i]
<1>5. b \in Bytes /\ Len(b) = n /\ \A i \in 1..n : b[i] = Total(given) + i
    <2>1. \A i \in 1..n : Total(given) + i \in Nat BY <1>4
    <2> QED BY <1>4, <2>1, IsASeq DEF Bytes
<1> HIDE DEF b
<1>6. source' = source \o b BY <1>2 DEF b
<1>7. Shaped'
    <2>1. given' \in Seq(Nat) BY <1>1, <1>2, <1>4, AppendProperties DEF Shaped
    <2>2. source' \in Bytes BY <1>1, <1>5, <1>6, JoinBytes DEF Shaped
    <2> QED BY <1>1, <1>3, <2>1, <2>2 DEF Shaped, reader
<1>8. Turns' BY <1>1, <1>3 DEF Turns, reader
<1>9. ASSUME lost = FALSE PROVE Placed'
    <2>1. Placed BY <1>9 DEF IInv
    <2>2. Done \in Bytes /\ Line \in Units /\ Waiting \in Bytes BY <1>1, PlacedTypes
    <2>3. Waiting' = Waiting \o b /\ Done' = Done /\ Line' = Line
        <3>1. held \o (source \o b) = (held \o source) \o b BY <1>1, <1>5, RegroupBytes DEF Shaped
        <3> QED BY <1>3, <1>6, <3>1 DEF Waiting, Done, Line, reader
    <2>4. errors \in Nat BY <1>1, BoundsAssumption DEF Turns
    <2>5. Runs(b, Total(given)) BY <1>5 DEF Runs
    <2>6. Total(given') = Total(given) + Len(b) /\ Total(given') \in Nat BY <1>4, <1>5
    <2>7. PlacedIn(Done, Line, Waiting \o b, Total(given'), errors)
        BY <1>4, <1>5, <2>1, <2>2, <2>4, <2>5, <2>6, LinePut DEF Placed
    <2> QED BY <1>3, <2>3, <2>7 DEF Placed
<1>10. lost' = lost BY <1>3 DEF reader
<1> QED BY <1>7, <1>8, <1>9, <1>10 DEF IInv

\* The loops of flushOutput begin and go on, or the failed protocol is started
\* again.
LEMMA CompressStep ==
    ASSUME IInv, Compress \/ CompressEnd \/ RestartWriter
    PROVE  IInv'
<1>1. Shaped /\ Turns BY DEF IInv
<1>2. UNCHANGED <<given, source, held, coded, made, errors, stream, reader, spoiled>>
    BY DEF Compress, CompressEnd, RestartWriter
<1>3. Shaped' BY <1>1, <1>2 DEF Shaped, reader
<1>4. Turns'
    <2>1. CASE Compress \/ CompressEnd
        <3>1. writing' \in {"compress", "flush"} BY <2>1 DEF Compress, CompressEnd
        <3> QED BY <1>1, <1>2, <3>1 DEF Turns, reader
    <2>2. CASE RestartWriter
        <3>1. writing = "failed" /\ writing' = "idle" BY <2>2 DEF RestartWriter
        <3>2. held = <<>> /\ coded = <<>> BY <1>1, <3>1 DEF Turns
        <3> QED BY <1>1, <1>2, <3>1, <3>2 DEF Turns, reader
    <2> QED BY <2>1, <2>2
<1> QED BY <1>1, <1>2, <1>3, <1>4, PlacedKept DEF IInv, reader

\* The line with x at its end.
LEMMA LineWith ==
    ASSUME Shaped, NEW x \in Units
    PROVE  raw \o (stream \o (made \o (coded \o x))) = Line \o x
<1>1. raw \in Units /\ stream \in Units /\ made \in Units /\ coded \in Units BY DEF Shaped
<1> DEFINE u == made \o coded
           z == stream \o u
<1>2. u \in Units BY <1>1, JoinUnits
<1>3. made \o (coded \o x) = u \o x BY <1>1, RegroupUnits
<1> HIDE DEF u
<1>4. z \in Units BY <1>1, <1>2, JoinUnits
<1>5. Regroups(stream, u, x) BY <1>1, <1>2, Regrouped DEF Units
<1>6. stream \o (u \o x) = z \o x BY <1>5 DEF Regroups
<1> HIDE DEF z
<1>7. Regroups(raw, z, x) BY <1>1, <1>4, Regrouped DEF Units
<1>8. raw \o (z \o x) = (raw \o z) \o x BY <1>7 DEF Regroups
<1> QED BY <1>3, <1>6, <1>8 DEF Line, u, z

\* zstd makes units of bytes that it has taken or takes.
LEMMA WriterTurn ==
    ASSUME Shaped, errors = 0, Placed, NEW x \in Units, NEW v \in Bytes,
           Waiting = FlattenSeq(x) \o v, Waiting' = v,
           stream' \o (made' \o coded') = stream \o (made \o (coded \o x)),
           UNCHANGED <<given, errors, raw, plain, output>>
    PROVE  Placed'
<1>1. Done \in Bytes /\ Line \in Units /\ Waiting \in Bytes /\ Total(given) \in Nat BY PlacedTypes
<1>2. PlacedIn(Done, Line, Waiting, Total(given), 0) BY DEF Placed
<1>3. PlacedIn(Done, Line \o x, v, Total(given), 0) BY <1>1, <1>2, LineGrows
<1>4. Line' = Line \o x BY LineWith DEF Line
<1>5. Done' = Done BY DEF Done
<1> QED BY <1>3, <1>4, <1>5 DEF Placed

\* zstd takes bytes from the front of those that wait, and may close a block.
LEMMA CompressTurnStep ==
    ASSUME IInv, CompressTurn
    PROVE  IInv'
<1>1. Shaped /\ Turns BY DEF IInv
<1>2. writing = "compress" /\ errors = 0 /\ UNCHANGED <<given, writing, errors, stream, reader, spoiled>>
    BY DEF CompressTurn
<1> DEFINE B(n) == held \o First(source, n)
           C(n, close) == IF close /\ B(n) # <<>> THEN coded \o Block(B(n)) ELSE coded
<1>3. PICK n \in 0..Len(source), close \in BOOLEAN :
        /\ source' = Rest(source, n) /\ held' = IF close THEN <<>> ELSE B(n)
        /\ PutOut(C(n, close))
    BY DEF CompressTurn
<1> DEFINE b == B(n)
           c == C(n, close)
           r == Rest(source, n)
<1>4. First(source, n) \in Bytes /\ r \in Bytes /\ First(source, n) \o r = source
    <2>1. n \in Nat BY <1>1, JoinBytes DEF Shaped
    <2> QED BY <1>1, <2>1, CutBytes DEF Shaped
<1>5. b \in Bytes /\ b \o r = held \o source
    <2>1. (held \o First(source, n)) \o r = held \o (First(source, n) \o r)
        BY <1>1, <1>4, RegroupBytes DEF Shaped
    <2> QED BY <1>1, <1>4, <2>1, JoinBytes DEF Shaped
<1>6. /\ source' = r /\ held' = (IF close THEN <<>> ELSE b)
      /\ made' = made \o First(c, CodedRoom) /\ coded' = Rest(c, CodedRoom)
    BY <1>3 DEF PutOut
<1>7. c = (IF close /\ b # <<>> THEN coded \o Block(b) ELSE coded) OBVIOUS
<1> HIDE DEF b, c, r, B, C
<1>8. \E x \in Units : c = coded \o x /\ held \o source = FlattenSeq(x) \o (held' \o r)
    <2>1. CASE close /\ b # <<>>
        <3>1. Block(b) \in Units /\ FlattenSeq(Block(b)) = b BY <1>5, FlattenBlock
        <3>2. held' \o r = r BY <1>4, <1>6, <2>1, NoBytes
        <3> QED BY <1>5, <1>7, <2>1, <3>1, <3>2
    <2>2. CASE ~(close /\ b # <<>>)
        <3>1. <<>> \in Units /\ coded \o <<>> = coded BY <1>1, EmptySeq, ConcatEmptySeq DEF Shaped, Units
        <3>2. held' = b BY <1>6, <2>2
        <3>3. held' \o r \in Bytes BY <1>4, <1>5, <3>2, JoinBytes
        <3>4. FlattenSeq(<<>>) \o (held' \o r) = held' \o r BY <3>3, FlattenEmpty, NoBytes
        <3> QED BY <1>5, <1>7, <2>2, <3>1, <3>2, <3>4
    <2> QED BY <2>1, <2>2
<1>9. PICK x \in Units : c = coded \o x /\ held \o source = FlattenSeq(x) \o (held' \o r) BY <1>8
<1>10. c \in Units BY <1>1, <1>9, JoinUnits DEF Shaped
<1>11. made' \in Units /\ coded' \in Units /\ made' \o coded' = made \o c
    BY <1>1, <1>6, <1>10, RoomMoves DEF Shaped
<1>12. held' \in Bytes BY <1>5, <1>6, NoBytes
<1>13. Shaped' BY <1>1, <1>2, <1>4, <1>6, <1>11, <1>12 DEF Shaped, reader
<1>14. Turns' BY <1>1, <1>2 DEF Turns, reader
<1>15. ASSUME lost = FALSE PROVE Placed'
    <2>1. Placed BY <1>15 DEF IInv
    <2> DEFINE v == held' \o r
    <2>2. v \in Bytes BY <1>4, <1>12, JoinBytes
    <2>3. Waiting = FlattenSeq(x) \o v /\ Waiting' = v BY <1>6, <1>9 DEF Waiting
    <2>4. stream' \o (made' \o coded') = stream \o (made \o (coded \o x)) BY <1>2, <1>9, <1>11
    <2> HIDE DEF v
    <2> QED BY <1>1, <1>2, <2>1, <2>2, <2>3, <2>4, WriterTurn DEF reader
<1> QED BY <1>2, <1>13, <1>14, <1>15 DEF IInv, reader

\* zstd closes its block; when nothing is left, what was made goes out.
LEMMA FlushTurnStep ==
    ASSUME IInv, FlushTurn
    PROVE  IInv'
<1>1. Shaped /\ Turns BY DEF IInv
<1> DEFINE c == IF held = <<>> THEN coded ELSE coded \o Block(held)
<1>2. /\ writing = "flush" /\ errors = 0 /\ held' = <<>>
      /\ UNCHANGED <<given, source, errors, reader, spoiled>>
      /\ coded' = Rest(c, CodedRoom)
      /\ IF coded' = <<>>
         THEN writing' = "idle" /\ stream' = stream \o made \o c /\ made' = <<>>
         ELSE made' = made \o First(c, CodedRoom) /\ UNCHANGED <<writing, stream>>
    BY DEF FlushTurn
<1>3. c = (IF held = <<>> THEN coded ELSE coded \o Block(held)) OBVIOUS
<1> HIDE DEF c
<1>4. \E x \in Units : c = coded \o x /\ FlattenSeq(x) = held
    <2>1. CASE held = <<>>
        <3>1. <<>> \in Units /\ coded \o <<>> = coded BY <1>1, EmptySeq, ConcatEmptySeq DEF Shaped, Units
        <3> QED BY <1>3, <2>1, <3>1, FlattenEmpty
    <2>2. CASE held # <<>>
        <3>1. Block(held) \in Units /\ FlattenSeq(Block(held)) = held BY <1>1, FlattenBlock DEF Shaped
        <3> QED BY <1>3, <2>2, <3>1
    <2> QED BY <2>1, <2>2
<1>5. PICK x \in Units : c = coded \o x /\ FlattenSeq(x) = held BY <1>4
<1>6. c \in Units BY <1>1, <1>5, JoinUnits DEF Shaped
<1>7. /\ stream' \in Units /\ made' \in Units /\ coded' \in Units
      /\ stream' \o (made' \o coded') = stream \o (made \o c)
    <2>1. <<>> \in Units /\ \A u \in Units : u \o <<>> = u BY EmptySeq, ConcatEmptySeq DEF Units
    <2>2. made \o c \in Units BY <1>1, <1>6, JoinUnits DEF Shaped
    <2>3. CASE coded' = <<>>
        <3>1. stream' = (stream \o made) \o c /\ made' = <<>> BY <1>2, <2>3
        <3>2. (stream \o made) \o c = stream \o (made \o c) BY <1>1, <1>6, RegroupUnits DEF Shaped
        <3>3. stream \o (made \o c) \in Units BY <1>1, <2>2, JoinUnits DEF Shaped
        <3>4. made' \o coded' = <<>> BY <2>1, <2>3, <3>1
        <3> QED BY <2>1, <2>3, <3>1, <3>2, <3>3, <3>4
    <2>4. CASE coded' # <<>>
        <3>1. stream' = stream /\ made' = made \o First(c, CodedRoom) BY <1>2, <2>4
        <3> QED BY <1>1, <1>2, <1>6, <3>1, RoomMoves DEF Shaped
    <2> QED BY <2>3, <2>4
<1>8. Shaped'
    <2>1. held' \in Bytes BY <1>2, EmptySeq DEF Bytes
    <2> QED BY <1>1, <1>2, <1>7, <2>1 DEF Shaped, reader
<1>9. Turns'
    <2>1. CASE coded' = <<>> BY <1>1, <1>2, <2>1 DEF Turns, reader
    <2>2. CASE coded' # <<>> BY <1>1, <1>2, <2>2 DEF Turns, reader
    <2> QED BY <2>1, <2>2
<1>10. ASSUME lost = FALSE PROVE Placed'
    <2>1. Placed BY <1>10 DEF IInv
    <2>2. source \in Bytes BY <1>1 DEF Shaped
    <2>3. Waiting = FlattenSeq(x) \o source /\ Waiting' = source
        <3>1. <<>> \o source = source BY <2>2, NoBytes
        <3> QED BY <1>2, <1>5, <3>1 DEF Waiting
    <2>4. stream' \o (made' \o coded') = stream \o (made \o (coded \o x)) BY <1>5, <1>7
    <2> QED BY <1>1, <1>2, <2>1, <2>2, <2>3, <2>4, WriterTurn DEF reader
<1> QED BY <1>2, <1>8, <1>9, <1>10 DEF IInv, reader

\* After an error anything or nothing comes behind what was made.
LEMMA WriterBreaks ==
    ASSUME Shaped, Placed, NEW m \in Anything, errors' \in Nat, errors' > 0,
           stream' \o (made' \o coded') = (stream \o made) \o m,
           UNCHANGED <<given, raw, plain, output>>
    PROVE  Placed'
<1> DEFINE u == raw \o (stream \o made)
<1>1. Done \in Bytes /\ Total(given) \in Nat /\ stream \o made \in Units BY PlacedTypes
<1>2. u \in Units BY <1>1, JoinUnits DEF Shaped
<1>3. Line = u \o coded
    <2>1. stream \o (made \o coded) = (stream \o made) \o coded BY RegroupUnits DEF Shaped
    <2>2. raw \o ((stream \o made) \o coded) = u \o coded BY <1>1, RegroupUnits DEF Shaped
    <2> QED BY <2>1, <2>2 DEF Line
<1>4. coded \in Units BY DEF Shaped
<1> DEFINE e == errors'
           v == Waiting'
<1>5. PlacedIn(Done, u \o coded, Waiting, Total(given), errors) BY <1>3 DEF Placed
<1>6. e \in Nat /\ e > 0 OBVIOUS
<1> HIDE DEF u, e, v
<1>7. m \in Units /\ PlacedIn(Done, u \o m, v, Total(given), e) BY <1>1, <1>2, <1>4, <1>5, <1>6, LineBreaks
<1>8. Line' = u \o m
    <2>1. raw \o ((stream \o made) \o m) = u \o m BY <1>1, <1>7, RegroupUnits DEF Shaped, u
    <2> QED BY <2>1 DEF Line
<1>9. Done' = Done BY DEF Done
<1> QED BY <1>7, <1>8, <1>9 DEF Placed, e, v

\* What anything may be.
LEMMA AnyUnits ==
    ASSUME NEW m \in Anything
    PROVE  m \in Units
<1>1. <<>> \in Units BY EmptySeq DEF Units
<1>2. BadUnit \in Bytes BY DEF BadUnit, BadByte, Bytes
<1>3. <<BadUnit>> \in Units
    <2> HIDE DEF Bytes
    <2> QED BY <1>2 DEF Units
<1> QED BY <1>1, <1>3 DEF Anything

\* The compressor fails.
LEMMA CompressFailsStep ==
    ASSUME IInv, CompressFails
    PROVE  IInv'
<1>1. Shaped /\ Turns BY DEF IInv
<1>2. /\ errors < MaxErrors /\ errors' = errors + 1 /\ writing' = "failed"
      /\ made' = <<>> /\ held' = <<>> /\ coded' = <<>>
      /\ UNCHANGED <<given, source, reader, spoiled>>
    BY DEF CompressFails
<1>3. PICK m \in Anything : stream' = stream \o (made \o m) BY DEF CompressFails
<1>4. m \in Units BY AnyUnits
<1>5. stream' \in Units /\ stream' = (stream \o made) \o m
    <2>1. made \o m \in Units BY <1>1, <1>4, JoinUnits DEF Shaped
    <2>2. stream \o (made \o m) \in Units BY <1>1, <2>1, JoinUnits DEF Shaped
    <2>3. (stream \o made) \o m = stream \o (made \o m) BY <1>1, <1>4, RegroupUnits DEF Shaped
    <2> QED BY <1>3, <2>2, <2>3
<1>6. <<>> \in Bytes /\ <<>> \in Units /\ \A z \in Units : z \o <<>> = z
    BY EmptySeq, ConcatEmptySeq DEF Bytes, Units
<1>7. Shaped' BY <1>1, <1>2, <1>5, <1>6 DEF Shaped, reader
<1>8. errors' \in 0..MaxErrors /\ errors' \in Nat /\ errors' > 0
    BY <1>1, <1>2, BoundsAssumption DEF Turns
<1>9. Turns' BY <1>1, <1>2, <1>8 DEF Turns, reader
<1>10. ASSUME lost = FALSE PROVE Placed'
    <2>1. Placed BY <1>10 DEF IInv
    <2>2. stream' \o (made' \o coded') = (stream \o made) \o m BY <1>2, <1>5, <1>6
    <2> QED BY <1>1, <1>2, <1>8, <2>1, <2>2, WriterBreaks DEF reader
<1> QED BY <1>2, <1>7, <1>9, <1>10 DEF IInv, reader

\* The loops go on after an error.
LEMMA CompressAnyhowStep ==
    ASSUME IInv, CompressAnyhow
    PROVE  IInv'
<1>1. Shaped /\ Turns BY DEF IInv
<1>2. /\ writing \in {"compress", "flush"} /\ errors > 0
      /\ UNCHANGED <<given, held, coded, errors, reader, spoiled>>
    BY DEF CompressAnyhow
<1>3. PICK n \in 0..Len(source), m \in Anything :
        /\ source' = Rest(source, n)
        /\ IF source' = <<>>
           THEN writing' = "idle" /\ stream' = stream \o (made \o m) /\ made' = <<>>
           ELSE n > 0 /\ made' = made \o m /\ UNCHANGED <<writing, stream>>
    BY DEF CompressAnyhow
<1>4. m \in Units BY AnyUnits
<1>5. source' \in Bytes
    <2>1. n \in Nat BY <1>1, JoinBytes DEF Shaped
    <2> QED BY <1>1, <1>3, <2>1, CutBytes DEF Shaped
<1>6. <<>> \in Bytes /\ <<>> \in Units /\ \A z \in Units : z \o <<>> = z
    BY EmptySeq, ConcatEmptySeq DEF Bytes, Units
<1>7. held = <<>> /\ coded = <<>> BY <1>1, <1>2 DEF Turns
<1>8. made \o m \in Units /\ stream \o (made \o m) \in Units /\ (stream \o made) \o m = stream \o (made \o m)
    <2>1. made \o m \in Units BY <1>1, <1>4, JoinUnits DEF Shaped
    <2>2. stream \o (made \o m) \in Units BY <1>1, <2>1, JoinUnits DEF Shaped
    <2>3. (stream \o made) \o m = stream \o (made \o m) BY <1>1, <1>4, RegroupUnits DEF Shaped
    <2> QED BY <2>1, <2>2, <2>3
<1>9. /\ stream' \in Units /\ made' \in Units
      /\ stream' \o (made' \o coded') = (stream \o made) \o m
      /\ writing' \in {"idle", "compress", "flush"} /\ (writing' = "idle" => made' = <<>>)
    <2>1. CASE source' = <<>>
        <3>1. stream' = stream \o (made \o m) /\ made' = <<>> /\ coded' = <<>> /\ writing' = "idle"
            BY <1>2, <1>3, <1>7, <2>1
        <3> QED BY <1>6, <1>8, <3>1
    <2>2. CASE source' # <<>>
        <3>1. stream' = stream /\ made' = made \o m /\ coded' = <<>> /\ writing' = writing
            BY <1>2, <1>3, <1>7, <2>2
        <3> QED BY <1>1, <1>2, <1>6, <1>8, <3>1 DEF Shaped
    <2> QED BY <2>1, <2>2
<1>10. Shaped' BY <1>1, <1>2, <1>5, <1>9 DEF Shaped, reader
<1>11. Turns' BY <1>1, <1>2, <1>7, <1>9 DEF Turns, reader
<1>12. ASSUME lost = FALSE PROVE Placed'
    <2>1. Placed BY <1>12 DEF IInv
    <2>2. errors' \in Nat /\ errors' > 0 BY <1>1, <1>2, BoundsAssumption DEF Turns
    <2> QED BY <1>1, <1>2, <1>9, <2>1, <2>2, WriterBreaks DEF reader
<1> QED BY <1>2, <1>10, <1>11, <1>12 DEF IInv, reader

-----------------------------------------------------------------------------
(* The reader. *)

\* Units leave the stream, one of them spoiled perhaps, and the line is as long as
\* it was.
LEMMA InputStep ==
    ASSUME IInv, Input
    PROVE  IInv'
<1>1. Shaped /\ Turns BY DEF IInv
<1>2. UNCHANGED <<writer, plain, output, reading, failed, lost>> BY DEF Input
<1> DEFINE N(u, j) == [i \in 1..u |-> IF i = j THEN BadUnit ELSE stream[i]]
<1>3. PICK u \in 1..Len(stream) : \E j \in 0..u :
        /\ j # 0 => spoiled < MaxSpoiled /\ spoiled' = spoiled + 1
        /\ j = 0 => spoiled' = spoiled
        /\ raw' = raw \o N(u, j) /\ stream' = Rest(stream, u)
    BY DEF Input
<1>4. PICK j \in 0..u :
        /\ j # 0 => spoiled < MaxSpoiled /\ spoiled' = spoiled + 1
        /\ j = 0 => spoiled' = spoiled
        /\ raw' = raw \o N(u, j) /\ stream' = Rest(stream, u)
    BY <1>3
<1> DEFINE n == N(u, j)
           f == First(stream, u)
           r == Rest(stream, u)
<1>5. Len(stream) \in Nat /\ u \in Nat /\ u <= Len(stream) /\ \A i \in 1..u : stream[i] \in Bytes
    BY <1>1, LenProperties, ElementOfSeq DEF Shaped, Units
<1>6. n \in Units /\ Len(n) = u
    <2>1. BadUnit \in Bytes BY DEF Bytes, BadUnit, BadByte
    <2>2. \A i \in 1..u : (IF i = j THEN BadUnit ELSE stream[i]) \in Bytes BY <1>5, <2>1
    <2>3. n \in Seq(Bytes) /\ Len(n) = u
        <3> HIDE DEF Bytes
        <3> QED BY <1>5, <2>2, IsASeq
    <2> QED BY <2>3 DEF Units
<1>7. /\ \A i \in 1..u : i # j => n[i] = stream[i]
      /\ j # 0 => n[j] = BadUnit
    OBVIOUS
<1>8. raw' = raw \o n /\ stream' = r BY <1>4
<1> HIDE DEF N, n
<1>9. f \in Units /\ r \in Units /\ f \o r = stream BY <1>1, <1>5, CutUnits DEF Shaped
<1>10. Len(f) = u /\ \A i \in 1..u : f[i] = stream[i]
    <2>1. /\ Len(f) = (IF u < Len(stream) THEN u ELSE Len(stream))
          /\ \A i \in 1..Len(f) : f[i] = stream[i]
        BY <1>1, <1>5, FirstRest DEF Shaped, Units
    <2> HIDE DEF f
    <2> QED BY <1>5, <2>1
<1> HIDE DEF f, r
<1>11. Shaped'
    <2>1. raw' \in Units BY <1>1, <1>6, <1>8, JoinUnits DEF Shaped
    <2> QED BY <1>1, <1>2, <1>8, <1>9, <2>1 DEF Shaped, writer
<1>12. Turns'
    <2>1. MaxSpoiled \in Nat /\ spoiled \in 0..MaxSpoiled BY <1>1, BoundsAssumption DEF Turns
    <2>2. spoiled' \in 0..MaxSpoiled BY <1>4, <2>1
    <2> QED BY <1>1, <1>2, <2>2 DEF Turns, writer
<1>13. ASSUME lost = FALSE PROVE Placed'
    <2> DEFINE q == made \o coded
               l == raw \o (f \o (r \o q))
               k == raw \o (n \o (r \o q))
               z == IF j = 0 THEN 0 ELSE Len(raw) + j
    <2>1. q \in Units BY <1>1, PlacedTypes
    <2> HIDE DEF q
    <2>2. r \o q \in Units BY <1>9, <2>1, JoinUnits
    <2>3. f \o (r \o q) \in Units /\ n \o (r \o q) \in Units BY <1>6, <1>9, <2>2, JoinUnits
    <2>4. l \in Units /\ k \in Units BY <1>1, <2>3, JoinUnits DEF Shaped
    <2>5. Line = l
        <3>1. (f \o r) \o q = f \o (r \o q) BY <1>9, <2>1, RegroupUnits
        <3> QED BY <1>9, <3>1 DEF Line, q
    <2>6. Line' = k
        <3>1. (raw \o n) \o (r \o q) = raw \o (n \o (r \o q)) BY <1>1, <1>6, <2>2, RegroupUnits DEF Shaped
        <3>2. Line' = raw' \o (stream' \o q) BY <1>2 DEF Line, writer, q
        <3> QED BY <1>8, <3>1, <3>2
    <2>7. /\ Len(raw) \in Nat /\ Len(r \o q) \in Nat
          /\ Len(f \o (r \o q)) = u + Len(r \o q) /\ Len(n \o (r \o q)) = u + Len(r \o q)
          /\ \A i \in 1..u : (f \o (r \o q))[i] = f[i] /\ (n \o (r \o q))[i] = n[i]
          /\ \A i \in 1..Len(r \o q) : (f \o (r \o q))[u + i] = (n \o (r \o q))[u + i]
        <3>1. Len(raw) \in Nat /\ Len(r \o q) \in Nat BY <1>1, <2>2, UnitsLength DEF Shaped
        <3>2. InTwo(f, r \o q) /\ InTwo(n, r \o q) BY <1>6, <1>9, <2>2, TwoLines
        <3> QED BY <1>6, <1>10, <3>1, <3>2 DEF InTwo
    <2> DEFINE g == f \o (r \o q)
               h == n \o (r \o q)
               v == Len(r \o q)
    <2>8. \A i \in 1..u + v : i # j => h[i] = g[i]
        <3> SUFFICES ASSUME NEW i \in 1..u + v, i # j PROVE h[i] = g[i] OBVIOUS
        <3>1. CASE i \in 1..u BY <1>7, <1>10, <2>7, <3>1
        <3>2. CASE i \notin 1..u
            <4>1. i - u \in 1..v /\ u + (i - u) = i BY <1>5, <2>7, <3>2
            <4> QED BY <2>7, <4>1
        <3> QED BY <3>1, <3>2
    <2>9. j # 0 => h[j] = BadUnit
        <3>1. j # 0 => j \in 1..u BY <1>5
        <3> QED BY <1>7, <2>7, <3>1
    <2>10. g \in Units /\ h \in Units /\ Len(g) = u + v /\ Len(h) = u + v /\ v \in Nat BY <2>3, <2>7
    <2> HIDE DEF g, h, v
    <2>11. InTwo(raw, g) /\ InTwo(raw, h) BY <1>1, <2>10, TwoLines DEF Shaped
    <2>12. l = raw \o g /\ k = raw \o h BY DEF g, h
    <2> HIDE DEF l, k
    <2>13. Len(l) = Len(raw) + (u + v) /\ Len(k) = Len(l) BY <2>10, <2>11, <2>12 DEF InTwo
    <2>14. z \in 0..Len(l) BY <1>5, <2>7, <2>10, <2>13
    <2>15. ASSUME NEW i \in 1..Len(l), i # z PROVE k[i] = l[i]
        <3>1. CASE i \in 1..Len(raw) BY <2>11, <2>12, <3>1 DEF InTwo
        <3>2. CASE i \notin 1..Len(raw)
            <4>1. PICK m \in Nat : m = i - Len(raw)
                <5>1. i - Len(raw) \in Nat BY <1>5, <2>7, <2>10, <2>13, <3>2
                <5> QED BY <5>1
            <4>2. m \in 1..u + v /\ Len(raw) + m = i BY <1>5, <2>7, <2>10, <2>13, <3>2, <4>1
            <4>3. m # j
                <5>1. CASE j = 0 BY <2>10, <4>2, <5>1
                <5>2. CASE j # 0 BY <2>15, <4>2, <5>2
                <5> QED BY <5>1, <5>2
            <4>4. h[m] = g[m] BY <2>8, <4>2, <4>3
            <4>5. k[Len(raw) + m] = h[m] /\ l[Len(raw) + m] = g[m] BY <2>10, <2>11, <2>12, <4>2 DEF InTwo
            <4> QED BY <4>2, <4>4, <4>5
        <3> QED BY <3>1, <3>2
    <2>16. z # 0 => k[z] = BadUnit
        <3> SUFFICES ASSUME z # 0 PROVE k[z] = BadUnit OBVIOUS
        <3>1. j # 0 /\ j \in 1..u + v /\ z = Len(raw) + j BY <1>5, <2>10
        <3>2. k[Len(raw) + j] = h[j] BY <2>10, <2>11, <2>12, <3>1 DEF InTwo
        <3> QED BY <2>9, <3>1, <3>2
    <2> HIDE DEF z
    <2>17. PlacedIn(Done, l, Waiting, Total(given), errors) BY <1>13, <2>5 DEF IInv, Placed
    <2>18. Done \in Bytes /\ Total(given) \in Nat BY <1>1, PlacedTypes
    <2>19. PlacedIn(Done, k, Waiting, Total(given), errors)
        BY <2>4, <2>13, <2>14, <2>15, <2>16, <2>17, <2>18, LineSpoils
    <2>20. Done' = Done /\ Waiting' = Waiting /\ given' = given /\ errors' = errors
        BY <1>2 DEF Done, Waiting, writer
    <2> QED BY <2>6, <2>19, <2>20 DEF Placed
<1> QED BY <1>2, <1>11, <1>12, <1>13 DEF IInv

\* The loop of the reader begins, or its protocol is started again.
LEMMA DecompressStep ==
    ASSUME IInv, Decompress \/ RestartReader
    PROVE  IInv'
<1>1. Shaped /\ Turns BY DEF IInv
<1>2. /\ reading' \in {reading, "decompress"} /\ failed' = FALSE
      /\ UNCHANGED <<writer, stream, raw, plain, output, lost, spoiled>>
    BY <1>1 DEF Decompress, RestartReader, Turns
<1>3. Shaped' BY <1>1, <1>2 DEF Shaped, writer
<1>4. Turns' BY <1>1, <1>2 DEF Turns, writer
<1> QED BY <1>1, <1>2, <1>3, <1>4, PlacedKept DEF IInv, writer

\* Bytes go from those decompressed to the output as far as there is room.
LEMMA OutputGrows ==
    ASSUME Shaped, NEW p \in Bytes, plain' = Rest(p, PlainRoom), output' = output \o First(p, PlainRoom)
    PROVE  /\ plain' \in Bytes /\ output' \in Bytes /\ Done' = output \o p
           /\ NotFilled(p) => plain' = <<>>
<1>1. PlainRoom \in Nat BY SizeAssumption
<1> DEFINE f == First(p, PlainRoom)
           r == Rest(p, PlainRoom)
<1>2. f \in Bytes /\ r \in Bytes /\ f \o r = p BY <1>1, CutBytes
<1>3. plain' = r /\ output' = output \o f OBVIOUS
<1>4. NotFilled(p) => r = <<>>
    <2>1. Len(r) = (IF PlainRoom < Len(p) THEN Len(p) - PlainRoom ELSE 0)
        BY <1>1, FirstRest DEF Bytes
    <2>2. Len(p) \in Nat BY JoinBytes
    <2> HIDE DEF r
    <2>3. NotFilled(p) => Len(r) = 0 BY <1>1, <2>1, <2>2 DEF NotFilled
    <2> QED BY <1>2, <2>3, EmptySeq DEF Bytes
<1> HIDE DEF f, r
<1>5. output \in Bytes BY DEF Shaped
<1>6. (output \o f) \o r = output \o (f \o r) /\ output \o f \in Bytes
    <2>1. (output \o f) \o r = output \o (f \o r) BY <1>2, <1>5, RegroupBytes
    <2> QED BY <1>2, <1>5, <2>1, JoinBytes
<1> QED BY <1>2, <1>3, <1>4, <1>5, <1>6 DEF Done

\* n good units are taken from the front of raw.
LEMMA DecompressTurnStep ==
    ASSUME IInv, DecompressTurn
    PROVE  IInv'
<1>1. Shaped /\ Turns BY DEF IInv
<1>2. UNCHANGED <<writer, stream, failed, lost, spoiled>> BY DEF DecompressTurn
<1> DEFINE P(n) == plain \o FlattenSeq(First(raw, n))
<1>3. PICK n \in Offered :
        /\ Sound(n) /\ raw' = Rest(raw, n) /\ plain' = Rest(P(n), PlainRoom)
        /\ output' = output \o First(P(n), PlainRoom) /\ reading' = AfterTurn(P(n), raw')
    BY DEF DecompressTurn
<1> DEFINE p == P(n)
           x == First(raw, n)
<1>4. Len(raw) \in Nat /\ n \in Nat /\ n <= Len(raw)
    <2>1. Len(raw) \in Nat BY <1>1, UnitsLength DEF Shaped
    <2> QED BY <2>1 DEF Offered
<1>5. x \in Units /\ raw' \in Units /\ x \o raw' = raw BY <1>1, <1>3, <1>4, CutUnits DEF Shaped
<1>6. \A i \in 1..Len(x) : x[i] # BadUnit
    <2>1. /\ Len(x) = (IF n < Len(raw) THEN n ELSE Len(raw))
          /\ \A i \in 1..Len(x) : x[i] = raw[i]
        BY <1>1, <1>4, FirstRest DEF Shaped, Units
    <2>2. \A i \in 1..n : raw[i] # BadUnit BY <1>3 DEF Sound
    <2> HIDE DEF x
    <2>3. Len(x) = n BY <1>4, <2>1
    <2> QED BY <2>1, <2>2, <2>3
<1>7. p = plain \o FlattenSeq(x) OBVIOUS
<1>8. plain' = Rest(p, PlainRoom) /\ output' = output \o First(p, PlainRoom) /\ reading' = AfterTurn(p, raw')
    BY <1>3
<1> HIDE DEF P, p, x
<1>9. FlattenSeq(x) \in Bytes /\ p \in Bytes
    <2>1. FlattenSeq(x) \in Bytes BY <1>5, JoinUnits
    <2> QED BY <1>1, <1>7, <2>1, JoinBytes DEF Shaped
<1>10. /\ plain' \in Bytes /\ output' \in Bytes /\ Done' = output \o p
       /\ NotFilled(p) => plain' = <<>>
    BY <1>1, <1>8, <1>9, OutputGrows
<1>11. Shaped' BY <1>1, <1>2, <1>5, <1>10 DEF Shaped, writer
<1>12. Turns'
    <2>1. reading' \in {"idle", "decompress", "drain"} /\ (reading' = "idle" => NotFilled(p))
        BY <1>8 DEF AfterTurn
    <2> QED BY <1>1, <1>2, <1>10, <2>1 DEF Turns, writer
<1>13. ASSUME lost = FALSE PROVE Placed'
    <2> DEFINE q == stream \o (made \o coded)
    <2>1. q \in Units BY <1>1, PlacedTypes
    <2>2. Line = raw \o q /\ Line' = raw' \o q BY <1>2 DEF Line, writer
    <2> HIDE DEF q
    <2>3. (x \o raw') \o q = x \o (raw' \o q) /\ raw' \o q \in Units
        <3>1. raw' \o q \in Units BY <1>5, <2>1, JoinUnits
        <3> QED BY <1>5, <2>1, <3>1, RegroupUnits
    <2> DEFINE y == raw' \o q
    <2>4. PlacedIn(Done, x \o y, Waiting, Total(given), errors) BY <1>5, <1>13, <2>2, <2>3 DEF IInv, Placed
    <2>5. Done \in Bytes /\ Waiting \in Bytes /\ Total(given) \in Nat BY <1>1, PlacedTypes
    <2>6. y \in Units BY <2>3
    <2>7. y = Line' BY <2>2
    <2> HIDE DEF y
    <2>8. PlacedIn(Done \o FlattenSeq(x), y, Waiting, Total(given), errors)
        BY <1>5, <1>6, <2>4, <2>5, <2>6, LineTaken
    <2>9. Done' = Done \o FlattenSeq(x)
        <3>1. (output \o plain) \o FlattenSeq(x) = output \o (plain \o FlattenSeq(x))
            BY <1>1, <1>9, RegroupBytes DEF Shaped
        <3> QED BY <1>7, <1>10, <3>1 DEF Done
    <2>10. Waiting' = Waiting /\ given' = given /\ errors' = errors BY <1>2 DEF Waiting, writer
    <2> QED BY <2>7, <2>8, <2>9, <2>10 DEF Placed
<1> QED BY <1>2, <1>11, <1>12, <1>13 DEF IInv

\* The same without input.
LEMMA DrainTurnStep ==
    ASSUME IInv, DrainTurn
    PROVE  IInv'
<1>1. Shaped /\ Turns BY DEF IInv
<1>2. /\ plain' = Rest(plain, PlainRoom) /\ output' = output \o First(plain, PlainRoom)
      /\ reading' = (IF NotFilled(plain) THEN "idle" ELSE "drain")
      /\ UNCHANGED <<writer, stream, raw, failed, lost, spoiled>>
    BY DEF DrainTurn
<1>3. /\ plain' \in Bytes /\ output' \in Bytes /\ Done' = output \o plain
      /\ NotFilled(plain) => plain' = <<>>
    BY <1>1, <1>2, OutputGrows DEF Shaped
<1>4. Shaped' BY <1>1, <1>2, <1>3 DEF Shaped, writer
<1>5. Turns' BY <1>1, <1>2, <1>3 DEF Turns, writer
<1>6. ASSUME lost = FALSE PROVE Placed'
    <2>1. Done' = Done /\ Line' = Line /\ Waiting' = Waiting /\ given' = given /\ errors' = errors
        BY <1>2, <1>3 DEF Done, Line, Waiting, writer
    <2> QED BY <1>6, <2>1 DEF IInv, Placed
<1> QED BY <1>2, <1>4, <1>5, <1>6 DEF IInv

\* Of a decompressor that is lost nothing is known but the types.
LEMMA LostStep ==
    ASSUME IInv, LostTurn \/ DecompressFails
    PROVE  IInv'
<1>1. Shaped /\ Turns BY DEF IInv
<1>2. /\ lost' = TRUE /\ plain' = <<>> /\ UNCHANGED <<writer, stream, spoiled>>
      /\ output' \in {output} \cup {Append(output, BadByte)}
    BY DEF LostTurn, DecompressFails, PutOutAnything
<1>3. output' \in Bytes /\ plain' \in Bytes
    <2>1. output \in Seq(Nat) /\ BadByte \in Nat BY <1>1 DEF Shaped, Bytes, BadByte
    <2>2. Append(output, BadByte) \in Seq(Nat) BY <2>1, AppendProperties
    <2> QED BY <1>2, <2>1, <2>2, EmptySeq DEF Bytes
<1>4. raw' \in Units /\ reading' \in {"idle", "decompress", "drain"} /\ failed' \in BOOLEAN
    <2>1. CASE LostTurn
        <3>1. PICK n \in 0..Len(raw) :
                /\ raw' = Rest(raw, n)
                /\ reading' \in IF raw' = <<>> THEN {"idle", "drain"} ELSE {"decompress"}
            BY <2>1 DEF LostTurn
        <3>2. n \in Nat
            <4>1. Len(raw) \in Nat BY <1>1, UnitsLength DEF Shaped
            <4> QED BY <4>1
        <3>3. raw' \in Units BY <1>1, <3>1, <3>2, CutUnits DEF Shaped
        <3> QED BY <1>1, <2>1, <3>1, <3>3 DEF LostTurn, Turns
    <2>2. CASE DecompressFails BY <1>1, <2>2 DEF DecompressFails, Shaped
    <2> QED BY <2>1, <2>2
<1>5. Shaped' BY <1>1, <1>2, <1>3, <1>4 DEF Shaped, writer
<1>6. Turns' BY <1>1, <1>2, <1>4 DEF Turns, writer
<1> QED BY <1>2, <1>5, <1>6 DEF IInv

-----------------------------------------------------------------------------
(* The invariant, and what it says. *)

\* At first there are no bytes at all.
LEMMA IInvInit ==
    ASSUME Init
    PROVE  IInv
<1>1. <<>> \in Bytes /\ <<>> \in Units /\ <<>> \in Seq(Nat) BY EmptySeq DEF Bytes, Units
<1>2. Shaped BY <1>1 DEF Shaped, Init
<1>3. Turns
    <2>1. spoiled \in 0..MaxSpoiled /\ errors \in 0..MaxErrors BY BoundsAssumption DEF Init
    <2> QED BY <2>1 DEF Turns, Init
<1>4. Done = <<>> /\ Waiting = <<>> /\ Line = <<>>
    <2>1. \A z \in Bytes : z \o <<>> = z BY NoBytes
    <2>2. <<>> \o <<>> = <<>> BY <1>1, <2>1
    <2> QED BY <2>2 DEF Done, Waiting, Line, Init
<1>5. PlacedIn(<<>>, <<>>, <<>>, 0, 0)
    <2>1. First(<<>>, 0) = <<>>
        <3>1. First(<<>>, Len(<<>>)) = <<>> BY <1>1, AllOfLine
        <3>2. Len(<<>>) = 0 OBVIOUS
        <3> QED BY <3>1, <3>2
    <2>2. <<>> \o <<>> = <<>> /\ FlattenSeq(<<>>) = <<>> BY <1>1, NoBytes, FlattenEmpty
    <2>3. Good(<<>>, 0) /\ Complete(<<>>, 0) BY DEF Good, Complete, Runs
    <2>4. PlacedAt(0, <<>>, <<>>, <<>>, 0, 0) BY <2>1, <2>2, <2>3 DEF PlacedAt
    <2> QED BY <2>4 DEF PlacedIn
<1>6. Total(given) = 0 /\ errors = 0 BY TotalEmpty DEF Init
<1>7. Placed BY <1>4, <1>5, <1>6 DEF Placed
<1> QED BY <1>2, <1>3, <1>7 DEF IInv

\* No step of either end leaves the invariant.
LEMMA IInvStep ==
    ASSUME IInv, [Next]_vars
    PROVE  IInv'
<1>1. CASE UNCHANGED vars
    <2>1. UNCHANGED <<writer, stream, reader, spoiled>> BY <1>1 DEF vars
    <2>2. Shaped' /\ Turns' BY <2>1 DEF IInv, Shaped, Turns, writer, reader
    <2> QED BY <2>1, <2>2, PlacedKept DEF IInv, writer, reader
<1>2. CASE Next
    BY <1>2, PutStep, CompressStep, CompressTurnStep, FlushTurnStep, CompressFailsStep, CompressAnyhowStep,
       InputStep, DecompressStep, DecompressTurnStep, DrainTurnStep, LostStep DEF Next
<1> QED BY <1>1, <1>2

\* The bytes given are, in their order, with the reader, in the line or behind
\* it, up to the first unit that is bad.
THEOREM IInvAlways == Spec => []IInv
BY IInvInit, IInvStep, PTL DEF Spec

\* Until the reader is lost its output is the first part of what was given.
LEMMA IInvFaithful == IInv => Faithful
<1>1. SUFFICES ASSUME IInv, lost = FALSE PROVE IsPrefix(output, [i \in 1..Total(given) |-> i])
    <2>1. IInv => lost \in BOOLEAN BY DEF IInv, Turns
    <2> QED BY <2>1 DEF Faithful
<1>2. Shaped /\ Placed BY <1>1 DEF IInv
<1> DEFINE a == Total(given)
           all == [i \in 1..a |-> i]
<1>3. a \in Nat /\ Done \in Bytes /\ Line \in Units BY <1>2, PlacedTypes
<1>4. Len(output) \in Nat /\ Runs(output, 0) /\ Len(output) <= a
    <2>1. PICK c \in 0..Len(Line) : PlacedAt(c, Done, Line, Waiting, a, errors) BY <1>2 DEF Placed, PlacedIn
    <2>2. Good(Done \o FlattenSeq(First(Line, c)), a) BY <2>1 DEF PlacedAt
    <2> HIDE DEF a
    <2>3. FlattenSeq(First(Line, c)) \in Bytes
        <3>1. Len(Line) \in Nat BY <1>3, UnitsLength
        <3>2. c \in Nat /\ c <= c /\ c <= Len(Line) BY <3>1
        <3> QED BY <1>3, <3>2, FirstFlattened
    <2>4. Good(output \o plain, a) BY <1>3, <2>2, <2>3, GoodPart DEF Done
    <2>5. Good(output, a) BY <1>2, <1>3, <2>4, GoodPart DEF Shaped
    <2>6. Len(output) \in Nat BY <1>2, JoinBytes DEF Shaped
    <2> QED BY <2>5, <2>6 DEF Good
<1> HIDE DEF a
<1>5. all \in Seq(Nat) /\ Len(all) = a /\ \A i \in 1..a : all[i] = i BY <1>3
<1> HIDE DEF all
<1>6. Same(output, all, Len(output)) BY <1>3, <1>4, <1>5 DEF Runs, Same
<1>7. IsPrefix(output, all)
    <2>1. output \in Seq(Nat) BY <1>2 DEF Shaped, Bytes
    <2> QED BY <1>4, <1>5, <1>6, <2>1, PrefixMembers
<1> QED BY <1>7 DEF all, a

\* Whatever the sizes of payloads and buffers: the control of the two stages
\* is one of the modelled loops', and the locals of flushOutput are gone between
\* its calls.
THEOREM CompressionTypeCorrect == Spec => []TypeOK
<1>1. IInv => TypeOK BY DEF IInv, Shaped, Turns, TypeOK, Units, Bytes
<1> QED BY <1>1, IInvAlways, PTL

\* After flushOutput of out::Compression, which ends only when ZSTD_flushStream
\* has nothing left, no byte waits in a compressor that has not failed.
THEOREM NothingEverHeldBack == Spec => []NothingHeldBack
<1>1. IInv => NothingHeldBack BY DEF IInv, Turns, NothingHeldBack
<1> QED BY <1>1, IInvAlways, PTL

\* After flushOutput of in::Compression, which goes on without input as long as
\* zstd fills its buffer, no byte waits in a decompressor that is not lost.
THEOREM NothingEverLeftInside == Spec => []NothingLeftInside
<1>1. IInv => NothingLeftInside BY DEF IInv, Turns, NothingLeftInside
<1> QED BY <1>1, IInvAlways, PTL

\* Until the decompressor takes a spoiled unit or reports an error, what comes out
\* of in::Compression is what was put into out::Compression, from the first byte
\* on: however the stream is cut up, wherever zstd closes its blocks, and whatever
\* comes of a compressor that has failed.
THEOREM AlwaysFaithful == Spec => []Faithful
BY IInvAlways, IInvFaithful, PTL

=============================================================================
