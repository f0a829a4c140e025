--------------------------- MODULE CuttingProofs ----------------------------
(***************************************************************************)
(* That the pair of cutting stages hands on whole messages in order, and   *)
(* so does what Delivery says, and that with integrity a chunk with a      *)
(* spoiled byte is reported: for all sizes of messages, chunks and         *)
(* checksums, every cutting of the stream and any number of spoiled bytes, *)
(* until the reader takes in a header that was spoiled.                    *)
(*                                                                         *)
(* What spoils a byte leaves its part and place as they are, so sequences  *)
(* of bytes are compared by their Places.  While it is not astray the      *)
(* reader is at some chunk (Reached): it has put out n messages and kept c *)
(* chunks of the next, and the header it keeps, its input and the stream   *)
(* together are all the chunks from there on.                              *)
(***************************************************************************)
EXTENDS Cutting, StreamLemmas

Part == {"body", "header", "checksum"}
Byte == [part : Part, of : Int \X Int, good : BOOLEAN]
Bytes == Seq(Byte)
Lengths == Seq(Nat \ {0})
Bodies == {b \in Byte : b.part = "body"}
Place == Part \X (Int \X Int)

\* The places of the bytes of message m from a to b.
Span(m, a, b) == [i \in 1..(b - a + 1) |-> <<"body", <<m, a + i - 1>>>>]

\* The places of the first n messages of s.
Told(s, n) == FlattenSeq([m \in 1..n |-> Span(m, 1, s[m])])

\* How many chunks are cut off a message of n bytes before the last.
Full(n) == (n - 1) \div MaxChunkBody

\* The chunks of message m of n bytes, without the first c.
Fulls(m, c, n) ==
    [j \in 1..(Full(n) - c) |-> Chunk(m, (c + j - 1) * MaxChunkBody + 1, (c + j) * MaxChunkBody, FALSE)]
From(m, c, n) == FlattenSeq(Fulls(m, c, n)) \o Chunk(m, Full(n) * MaxChunkBody + 1, n, TRUE)

\* All that is put out for messages of the sizes s, and what of it is left
\* behind n messages and c chunks of the next.
All(s) == [m \in 1..Len(s) |-> Chunks(m, s[m])]
Left(s, n, c) == IF n = Len(s) THEN <<>> ELSE From(n + 1, c, s[n + 1]) \o FlattenSeq(Rest(All(s), n + 1))
Within(s, n, c) ==
    /\ n \in 0..Len(s) /\ c \in Nat
    /\ n = Len(s) => c = 0
    /\ n < Len(s) => c <= Full(s[n + 1])

-----------------------------------------------------------------------------
(* The invariant. *)

Sizes == Seq(Size)

\* What holds at all times,
Typed ==
    /\ sent \in Sizes /\ stream \in Bytes /\ input \in Bytes
    /\ message \in Bytes /\ output \in Bytes
    /\ size \in Nat /\ final \in BOOLEAN /\ failed \in BOOLEAN /\ astray \in BOOLEAN
    /\ size = 0 => final = FALSE

\* and while every header that was read was one as put out.
Shaped ==
    /\ sent \in Sizes /\ stream \in Bytes /\ input \in Bytes
    /\ size \in 0..MaxChunkBody /\ final \in BOOLEAN
    /\ size = 0 => final = FALSE
    /\ message \in Seq(Bodies) /\ output \in Seq(Bodies) /\ failed \in BOOLEAN

\* The header that in::Cutting keeps.
Seen == IF size = 0 THEN <<>> ELSE HeaderBytes(size, final)

\* The reader is done with n messages and c chunks of the next.
Reached(n, c) ==
    /\ Within(sent, n, c)
    /\ Places(output) = Told(sent, n)
    /\ Places(message) = Span(n + 1, 1, c * MaxChunkBody)
    /\ Places(Seen \o (input \o stream)) = Places(Left(sent, n, c))
Somewhere == \E n, c : Reached(n, c)
Straight == Shaped /\ Somewhere

IInv == Typed /\ (astray = FALSE => Straight)

-----------------------------------------------------------------------------
(* Places. *)

\* Member by member.
LEMMA PlacesType ==
    ASSUME NEW s \in Bytes
    PROVE  /\ Len(s) \in Nat /\ DOMAIN s = 1..Len(s) /\ \A i \in 1..Len(s) : s[i] \in Byte
           /\ Places(s) \in Seq(Place) /\ Len(Places(s)) = Len(s)
           /\ \A i \in 1..Len(s) : Places(s)[i] = <<s[i].part, s[i].of>>
<1>1. Len(s) \in Nat /\ DOMAIN s = 1..Len(s) /\ \A i \in 1..Len(s) : s[i] \in Byte
    BY LenProperties, ElementOfSeq DEF Bytes
<1>2. \A i \in 1..Len(s) : <<s[i].part, s[i].of>> \in Place BY <1>1 DEF Byte, Place
<1>3. Places(s) = [i \in 1..Len(s) |-> <<s[i].part, s[i].of>>] BY <1>1 DEF Places
<1> QED BY <1>1, <1>2, <1>3, IsASeq

\* One after the other.
LEMMA PlacesConcat ==
    ASSUME NEW s \in Bytes, NEW t \in Bytes
    PROVE  s \o t \in Bytes /\ Places(s \o t) = Places(s) \o Places(t)
<1> DEFINE u == s \o t
           ps == Places(s)
           pt == Places(t)
           pu == Places(u)
<1>1. /\ u \in Bytes /\ Len(u) = Len(s) + Len(t) /\ Len(s) \in Nat /\ Len(t) \in Nat
      /\ \A i \in 1..Len(s) + Len(t) : u[i] = IF i <= Len(s) THEN s[i] ELSE t[i - Len(s)]
    BY ConcatProperties, LenProperties DEF Bytes
<1>2. /\ ps \in Seq(Place) /\ Len(ps) = Len(s)
      /\ \A i \in 1..Len(s) : ps[i] = <<s[i].part, s[i].of>>
    BY PlacesType
<1>3. /\ pt \in Seq(Place) /\ Len(pt) = Len(t)
      /\ \A i \in 1..Len(t) : pt[i] = <<t[i].part, t[i].of>>
    BY PlacesType
<1> HIDE DEF u
<1>4. /\ pu \in Seq(Place) /\ Len(pu) = Len(u)
      /\ \A i \in 1..Len(u) : pu[i] = <<u[i].part, u[i].of>>
    BY <1>1, PlacesType
<1> HIDE DEF ps, pt, pu
<1>5. /\ ps \o pt \in Seq(Place) /\ Len(ps \o pt) = Len(ps) + Len(pt)
      /\ \A i \in 1..Len(ps) + Len(pt) : (ps \o pt)[i] = IF i <= Len(ps) THEN ps[i] ELSE pt[i - Len(ps)]
    <2>1. ps \in Seq(Place) /\ pt \in Seq(Place) BY <1>2, <1>3
    <2> QED BY <2>1, ConcatProperties
<1>6. ASSUME NEW i \in 1..Len(pu) PROVE pu[i] = (ps \o pt)[i]
    <2>1. i \in 1..Len(u) /\ i \in 1..Len(s) + Len(t) /\ i \in 1..Len(ps) + Len(pt)
        BY <1>1, <1>2, <1>3, <1>4
    <2>2. CASE i <= Len(s)
        <3>1. i \in 1..Len(s) BY <1>1, <2>1, <2>2
        <3> QED BY <1>1, <1>2, <1>4, <1>5, <2>1, <2>2, <3>1
    <2>3. CASE ~(i <= Len(s))
        <3>1. i - Len(s) \in 1..Len(t) BY <1>1, <2>1, <2>3
        <3> QED BY <1>1, <1>2, <1>3, <1>4, <1>5, <2>1, <2>3, <3>1
    <2> QED BY <2>2, <2>3
<1>7. Len(pu) = Len(ps \o pt) BY <1>1, <1>2, <1>3, <1>4, <1>5
<1>8. pu = ps \o pt BY <1>4, <1>5, <1>6, <1>7, SeqEqual
<1> QED BY <1>1, <1>8 DEF u, ps, pt, pu

\* The two parts of a sequence of bytes.
LEMMA PlacesParts ==
    ASSUME NEW s \in Bytes, NEW n \in Nat, n <= Len(s)
    PROVE  /\ First(s, n) \in Bytes /\ Rest(s, n) \in Bytes /\ First(s, n) \o Rest(s, n) = s
           /\ Len(First(s, n)) = n
           /\ Places(First(s, n)) = First(Places(s), n) /\ Places(Rest(s, n)) = Rest(Places(s), n)
<1> DEFINE f == First(s, n)
           r == Rest(s, n)
<1>1. f \in Bytes /\ r \in Bytes /\ f \o r = s BY FirstRest DEF Bytes
<1>2. Len(f) = n BY FirstLength DEF Bytes
<1> HIDE DEF f, r
<1>3. Places(s) = Places(f) \o Places(r) BY <1>1, PlacesConcat
<1>4. Places(f) \in Seq(Place) /\ Len(Places(f)) = n /\ Places(r) \in Seq(Place)
    BY <1>1, <1>2, PlacesType
<1>5. First(Places(s), n) = Places(f) /\ Rest(Places(s), n) = Places(r)
    BY <1>3, <1>4, FirstIs, RestIs
<1> QED BY <1>1, <1>2, <1>5 DEF f, r

\* What spoils a byte does not move it.
LEMMA PlacesSpoiled ==
    ASSUME NEW s \in Bytes, NEW i \in 1..Len(s)
    PROVE  /\ [s EXCEPT ![i].good = FALSE] \in Bytes
           /\ Places([s EXCEPT ![i].good = FALSE]) = Places(s)
<1> DEFINE t == [s EXCEPT ![i].good = FALSE]
<1>1. Len(s) \in Nat /\ DOMAIN s = 1..Len(s) /\ \A j \in 1..Len(s) : s[j] \in Byte BY PlacesType
<1>2. t = [j \in 1..Len(s) |-> IF j = i THEN [s[j] EXCEPT !.good = FALSE] ELSE s[j]] BY <1>1
<1> HIDE DEF t
<1>3. ASSUME NEW j \in 1..Len(s) PROVE t[j] \in Byte /\ t[j].part = s[j].part /\ t[j].of = s[j].of
    <2>1. s[j] \in Byte BY <1>1
    <2>2. CASE j = i
        <3>1. t[j] = [s[j] EXCEPT !.good = FALSE] BY <1>2, <2>2
        <3> QED BY <2>1, <3>1 DEF Byte
    <2>3. CASE j # i
        <3>1. t[j] = s[j] BY <1>2, <2>3
        <3> QED BY <2>1, <3>1
    <2> QED BY <2>2, <2>3
<1>4. DOMAIN t = 1..Len(s) BY <1>2
<1>5. t \in [1..Len(s) -> Byte] BY <1>2, <1>3, <1>4
<1>6. t \in Bytes BY <1>1, <1>5, FunctionIsSeq DEF Bytes
<1>7. Places(t) = Places(s) BY <1>1, <1>3, <1>4 DEF Places
<1> QED BY <1>6, <1>7 DEF t

\* Bytes at places of a body are bytes of a body.
LEMMA BodyPlaces ==
    ASSUME NEW s \in Bytes, NEW m, NEW a, NEW b, Places(s) = Span(m, a, b), b - a + 1 \in Nat
    PROVE  s \in Seq(Bodies)
<1>1. /\ Len(s) \in Nat /\ DOMAIN s = 1..Len(s) /\ \A i \in 1..Len(s) : s[i] \in Byte
      /\ \A i \in 1..Len(s) : Places(s)[i] = <<s[i].part, s[i].of>>
      /\ Places(s) = [i \in 1..Len(s) |-> <<s[i].part, s[i].of>>]
    <2>1. Places(s) = [i \in DOMAIN s |-> <<s[i].part, s[i].of>>] BY DEF Places
    <2> QED BY <2>1, PlacesType
<1>2. DOMAIN Places(s) = 1..Len(s) BY <1>1
<1>3. DOMAIN Span(m, a, b) = 1..(b - a + 1) BY DEF Span
<1>4. ASSUME NEW i \in 1..Len(s) PROVE s[i] \in Bodies
    <2>1. i \in 1..(b - a + 1) BY <1>2, <1>3
    <2>2. Places(s)[i] = <<"body", <<m, a + i - 1>>>> BY <2>1 DEF Span
    <2>3. s[i].part = "body" BY <1>1, <2>2
    <2> QED BY <1>1, <2>3 DEF Bodies
<1>5. s = [i \in 1..Len(s) |-> s[i]] BY <1>1, LenProperties DEF Bytes
<1> QED BY <1>1, <1>4, <1>5, IsASeq

\* Bytes of bodies are bytes.
LEMMA BodiesAreBytes ==
    ASSUME NEW s \in Seq(Bodies)
    PROVE  s \in Bytes
<1>1. Bodies \subseteq Byte BY DEF Bodies
<1> QED BY <1>1, SeqMonotonic DEF Bytes

-----------------------------------------------------------------------------
(* Spans. *)

\* A span is of places, and as long as what it is of.
LEMMA SpanType ==
    ASSUME NEW m \in Int, NEW a \in Int, NEW b \in Int, NEW d \in Nat, d = b - a + 1
    PROVE  /\ Span(m, a, b) \in Seq(Place) /\ Len(Span(m, a, b)) = d
           /\ \A i \in 1..d : Span(m, a, b)[i] = <<"body", <<m, a + i - 1>>>>
<1> DEFINE f == [i \in 1..d |-> <<"body", <<m, a + i - 1>>>>]
<1>1. Span(m, a, b) = f BY DEF Span
<1>2. f \in [1..d -> Place] BY DEF Place, Part
<1>3. \A i \in 1..d : f[i] = <<"body", <<m, a + i - 1>>>> OBVIOUS
<1> HIDE DEF f
<1>4. f \in Seq(Place) /\ Len(f) = d BY <1>2, FunctionIsSeq
<1> QED BY <1>1, <1>3, <1>4

\* The d bytes behind the first e.
LEMMA SpanBehind ==
    ASSUME NEW m \in Int, NEW e \in Nat, NEW d \in Nat \ {0}
    PROVE  /\ Len(Span(m, e + 1, e + d)) = d
           /\ \A i \in 1..d : Span(m, e + 1, e + d)[i] = <<"body", <<m, (e + 1) + i - 1>>>>
<1> DEFINE a == e + 1
           z == e + d
<1>1. a \in Int /\ z \in Int /\ d \in Nat /\ d = z - a + 1 OBVIOUS
<1> HIDE DEF a, z
<1>2. Len(Span(m, a, z)) = d BY <1>1, SpanType
<1>3. Span(m, a, z) = [i \in 1..d |-> <<"body", <<m, a + i - 1>>>>] BY <1>1 DEF Span
<1>4. \A i \in 1..d : Span(m, a, z)[i] = <<"body", <<m, a + i - 1>>>> BY <1>3
<1> QED BY <1>2, <1>4 DEF a, z

\* Neighbouring spans.
LEMMA SpanConcat ==
    ASSUME NEW m \in Int, NEW a \in Nat, NEW b \in Nat, a <= b
    PROVE  Span(m, 1, a) \o Span(m, a + 1, b) = Span(m, 1, b)
<1> DEFINE x == Span(m, 1, a)
           y == Span(m, a + 1, b)
           z == Span(m, 1, b)
           d == b - a
<1>0. d \in Nat /\ a + d = b OBVIOUS
<1>1. x \in Seq(Place) /\ Len(x) = a /\ \A i \in 1..a : x[i] = <<"body", <<m, i>>>>
    <2>1. a = a - 1 + 1 /\ 1 \in Int /\ a \in Int OBVIOUS
    <2>2. x \in Seq(Place) /\ Len(x) = a /\ \A i \in 1..a : x[i] = <<"body", <<m, 1 + i - 1>>>>
        BY <2>1, SpanType
    <2>3. \A i \in 1..a : 1 + i - 1 = i OBVIOUS
    <2> HIDE DEF x
    <2> QED BY <2>2, <2>3
<1>2. z \in Seq(Place) /\ Len(z) = b /\ \A i \in 1..b : z[i] = <<"body", <<m, i>>>>
    <2>1. b = b - 1 + 1 /\ 1 \in Int /\ b \in Int OBVIOUS
    <2>2. z \in Seq(Place) /\ Len(z) = b /\ \A i \in 1..b : z[i] = <<"body", <<m, 1 + i - 1>>>>
        BY <2>1, SpanType
    <2>3. \A i \in 1..b : 1 + i - 1 = i OBVIOUS
    <2> HIDE DEF z
    <2> QED BY <2>2, <2>3
<1>3. y \in Seq(Place) /\ Len(y) = d /\ \A i \in 1..d : y[i] = <<"body", <<m, a + i>>>>
    <2>1. d = b - (a + 1) + 1 /\ a + 1 \in Int /\ b \in Int OBVIOUS
    <2>2. y \in Seq(Place) /\ Len(y) = d /\ \A i \in 1..d : y[i] = <<"body", <<m, (a + 1) + i - 1>>>>
        BY <1>0, <2>1, SpanType
    <2>3. \A i \in 1..d : (a + 1) + i - 1 = a + i BY <1>0
    <2> HIDE DEF y
    <2> QED BY <2>2, <2>3
<1> HIDE DEF x, y, z, d
<1> DEFINE w == x \o y
<1>4. /\ w \in Seq(Place) /\ Len(w) = b
      /\ \A i \in 1..b : w[i] = IF i <= a THEN x[i] ELSE y[i - a]
    <2>1. /\ w \in Seq(Place) /\ Len(w) = Len(x) + Len(y)
          /\ \A i \in 1..Len(x) + Len(y) : w[i] = IF i <= Len(x) THEN x[i] ELSE y[i - Len(x)]
        BY <1>1, <1>3, ConcatProperties
    <2>2. Len(x) + Len(y) = b BY <1>0, <1>1, <1>3
    <2> HIDE DEF w
    <2> QED BY <1>1, <2>1, <2>2
<1> HIDE DEF w
<1>5. ASSUME NEW i \in 1..Len(w) PROVE w[i] = z[i]
    <2>1. i \in 1..b BY <1>4
    <2>2. CASE i <= a
        <3>1. i \in 1..a BY <2>1, <2>2
        <3> QED BY <1>1, <1>2, <1>4, <2>1, <2>2, <3>1
    <2>3. CASE ~(i <= a)
        <3>1. i - a \in 1..d /\ a + (i - a) = i BY <1>0, <2>1, <2>3
        <3>2. y[i - a] = <<"body", <<m, i>>>> BY <1>3, <3>1
        <3> QED BY <1>2, <1>4, <2>1, <2>3, <3>2
    <2> QED BY <2>2, <2>3
<1> QED BY <1>2, <1>4, <1>5, SeqEqual DEF w, x, y, z

\* One message more is told.
LEMMA ToldNext ==
    ASSUME NEW s \in Lengths, NEW n \in Nat, n < Len(s)
    PROVE  /\ Told(s, n) \in Seq(Place) /\ Span(n + 1, 1, s[n + 1]) \in Seq(Place)
           /\ Told(s, n + 1) = Told(s, n) \o Span(n + 1, 1, s[n + 1])
<1> DEFINE f == [m \in 1..n |-> Span(m, 1, s[m])]
           g == [m \in 1..(n + 1) |-> Span(m, 1, s[m])]
           x == Span(n + 1, 1, s[n + 1])
<1>1. ASSUME NEW m \in 1..(n + 1) PROVE Span(m, 1, s[m]) \in Seq(Place)
    <2>1. m \in 1..Len(s) /\ m \in Int BY LenProperties DEF Lengths
    <2>2. s[m] \in Nat /\ s[m] \in Int BY <2>1, ElementOfSeq DEF Lengths
    <2>3. s[m] = s[m] - 1 + 1 /\ 1 \in Int BY <2>2
    <2> QED BY <2>1, <2>2, <2>3, SpanType
<1>2. x \in Seq(Place)
    <2>1. n + 1 \in 1..(n + 1) OBVIOUS
    <2> QED BY <1>1, <2>1
<1>3. f \in Seq(Seq(Place)) /\ Len(f) = n /\ \A m \in 1..n : f[m] = Span(m, 1, s[m])
    <2>1. \A m \in 1..n : m \in 1..(n + 1) OBVIOUS
    <2>2. \A m \in 1..n : Span(m, 1, s[m]) \in Seq(Place) BY <1>1, <2>1
    <2> QED BY <2>2, IsASeq
<1>4. g \in Seq(Seq(Place)) /\ Len(g) = n + 1 /\ \A m \in 1..(n + 1) : g[m] = Span(m, 1, s[m])
    <2>1. n + 1 \in Nat OBVIOUS
    <2> QED BY <1>1, <2>1, IsASeq
<1>5. g = Append(f, x)
    <2> DEFINE h == Append(f, x)
    <2> HIDE DEF f, g
    <2>1. x = Span(n + 1, 1, s[n + 1]) OBVIOUS
    <2> HIDE DEF x
    <2>2. /\ h \in Seq(Seq(Place)) /\ Len(h) = n + 1
          /\ \A m \in 1..n : h[m] = f[m]
          /\ h[n + 1] = x
        BY <1>2, <1>3, AppendProperties
    <2> HIDE DEF h
    <2>3. ASSUME NEW m \in 1..Len(g) PROVE g[m] = h[m]
        <3>1. m \in 1..(n + 1) BY <1>4
        <3>2. m \in 1..n \/ m = n + 1 BY <3>1
        <3> QED BY <1>3, <1>4, <2>1, <2>2, <3>1, <3>2
    <2> QED BY <1>4, <2>2, <2>3, SeqEqual DEF h
<1>6. FlattenSeq(g) = FlattenSeq(f) \o x BY <1>2, <1>3, <1>5, FlattenAppend
<1>7. FlattenSeq(f) \in Seq(Place) BY <1>3, FlattenType
<1> QED BY <1>2, <1>6, <1>7 DEF Told

\* Nothing is told of no message.
LEMMA ToldNothing ==
    ASSUME NEW s
    PROVE  Told(s, 0) = <<>>
<1>1. [m \in 1..0 |-> Span(m, 1, s[m])] = <<>> OBVIOUS
<1> QED BY <1>1, FlattenEmpty DEF Told

-----------------------------------------------------------------------------
(* Chunks. *)

\* A header.
LEMMA HeaderType ==
    ASSUME NEW d \in Nat, NEW l
    PROVE  /\ HeaderBytes(d, l) \in Bytes /\ Len(HeaderBytes(d, l)) = HeaderSize
           /\ Places(HeaderBytes(d, l)) \in Seq(Place) /\ Len(Places(HeaderBytes(d, l))) = HeaderSize
           /\ Places(HeaderBytes(d, l))[1] = <<"header", <<d, IF l THEN 1 ELSE 0>>>>
<1> DEFINE h == HeaderBytes(d, l)
           k == IF l THEN 1 ELSE 0
           x == [part |-> "header", of |-> <<d, k>>, good |-> TRUE]
           y == [part |-> "header", of |-> <<d, 2>>, good |-> TRUE]
<1>1. k \in Int OBVIOUS
<1>2. h = <<x, y>> BY DEF HeaderBytes
<1> HIDE DEF k
<1>3. x \in Byte /\ y \in Byte /\ x.part = "header" /\ x.of = <<d, k>> BY <1>1 DEF Byte, Part
<1> HIDE DEF x, y, h
<1>4. h \in Seq(Byte) /\ Len(h) = 2 /\ h[1] = x BY <1>2, <1>3
<1>5. /\ Places(h) \in Seq(Place) /\ Len(Places(h)) = Len(h)
      /\ \A i \in 1..Len(h) : Places(h)[i] = <<h[i].part, h[i].of>>
    BY <1>4, PlacesType DEF Bytes
<1>6. Places(h)[1] = <<"header", <<d, k>>>> BY <1>3, <1>4, <1>5
<1> QED BY <1>4, <1>5, <1>6 DEF h, k, HeaderSize, Bytes

\* A checksum.
LEMMA ChecksumType ==
    ASSUME NEW m \in Int, NEW a \in Int
    PROVE  /\ ChecksumSize \in Nat /\ ChecksumBytes(m, a) \in Bytes
           /\ Places(ChecksumBytes(m, a)) \in Seq(Place) /\ Len(Places(ChecksumBytes(m, a))) = ChecksumSize
           /\ \A i \in 1..ChecksumSize : Places(ChecksumBytes(m, a))[i] = <<"checksum", <<m, a>>>>
<1> DEFINE x == [part |-> "checksum", of |-> <<m, a>>, good |-> TRUE]
           f == [i \in 1..ChecksumSize |-> x]
<1>1. ChecksumSize \in Nat BY BoundsAssumption
<1>2. x \in Byte /\ x.part = "checksum" /\ x.of = <<m, a>> BY DEF Byte, Part
<1>3. ChecksumBytes(m, a) = f BY DEF ChecksumBytes
<1> HIDE DEF x
<1>4. f \in [1..ChecksumSize -> Byte] BY <1>2
<1>5. \A i \in 1..ChecksumSize : f[i] = x OBVIOUS
<1> HIDE DEF f
<1>6. f \in Seq(Byte) /\ Len(f) = ChecksumSize BY <1>1, <1>4, FunctionIsSeq
<1>7. /\ Places(f) \in Seq(Place) /\ Len(Places(f)) = Len(f)
      /\ \A i \in 1..Len(f) : Places(f)[i] = <<f[i].part, f[i].of>>
    BY <1>6, PlacesType DEF Bytes
<1>8. \A i \in 1..ChecksumSize : Places(f)[i] = <<"checksum", <<m, a>>>> BY <1>2, <1>5, <1>6, <1>7
<1> QED BY <1>1, <1>3, <1>6, <1>7, <1>8 DEF Bytes

\* The places of the checksum of a chunk behind e bytes of message m.
Sum(m, e) == Places(ChecksumBytes(m, e + 1))

LEMMA SumType ==
    ASSUME NEW m \in Int, NEW e \in Nat
    PROVE  /\ ChecksumSize \in Nat /\ Sum(m, e) \in Seq(Place) /\ Len(Sum(m, e)) = ChecksumSize
           /\ \A i \in 1..ChecksumSize : Sum(m, e)[i] = <<"checksum", <<m, e + 1>>>>
<1> DEFINE a == e + 1
<1>1. a \in Int OBVIOUS
<1> HIDE DEF a
<1>2. /\ ChecksumSize \in Nat
      /\ Places(ChecksumBytes(m, a)) \in Seq(Place) /\ Len(Places(ChecksumBytes(m, a))) = ChecksumSize
      /\ \A i \in 1..ChecksumSize : Places(ChecksumBytes(m, a))[i] = <<"checksum", <<m, a>>>>
    BY <1>1, ChecksumType
<1>3. Sum(m, e) = Places(ChecksumBytes(m, a)) BY DEF Sum, a
<1> QED BY <1>2, <1>3 DEF a

\* The bytes x are at the places h, p and k.
Shown(x, h, p, k) == Places(x) = h \o (p \o k)

\* A chunk.
LEMMA ChunkType ==
    ASSUME NEW m \in Int, NEW a \in Int, NEW b \in Int, NEW l, NEW d \in Nat, d = b - a + 1
    PROVE  /\ Chunk(m, a, b, l) \in Bytes
           /\ Span(m, a, b) \in Seq(Place) /\ Len(Span(m, a, b)) = d
           /\ Shown(Chunk(m, a, b, l), Places(HeaderBytes(d, l)), Span(m, a, b), Places(ChecksumBytes(m, a)))
<1> DEFINE f == [i \in 1..d |-> BodyByte(m, a + i - 1)]
           h == HeaderBytes(d, l)
           k == ChecksumBytes(m, a)
           p == Span(m, a, b)
<1>1. Chunk(m, a, b, l) = h \o f \o k BY DEF Chunk
<1>2. f \in [1..d -> Byte] BY DEF BodyByte, Byte, Part
<1>3. \A i \in 1..d : f[i] = BodyByte(m, a + i - 1) OBVIOUS
<1> HIDE DEF f
<1>4. f \in Bytes /\ Len(f) = d BY <1>2, FunctionIsSeq DEF Bytes
<1>5. /\ p \in Seq(Place) /\ Len(p) = d
      /\ \A i \in 1..d : p[i] = <<"body", <<m, a + i - 1>>>>
    BY SpanType
<1> HIDE DEF p
<1>6. /\ Places(f) \in Seq(Place) /\ Len(Places(f)) = d
      /\ \A i \in 1..d : Places(f)[i] = <<f[i].part, f[i].of>>
    BY <1>4, PlacesType
<1>7. Places(f) = p
    <2>1. ASSUME NEW i \in 1..d PROVE Places(f)[i] = p[i]
        <3>1. f[i] = [part |-> "body", of |-> <<m, a + i - 1>>, good |-> TRUE] BY <1>3 DEF BodyByte
        <3>2. f[i].part = "body" /\ f[i].of = <<m, a + i - 1>> BY <3>1
        <3> QED BY <1>5, <1>6, <3>2
    <2> QED BY <1>5, <1>6, <2>1, SeqEqual
<1>8. h \in Bytes /\ k \in Bytes BY HeaderType, ChecksumType
<1>9. Places(h) \in Seq(Place) /\ Places(k) \in Seq(Place) BY HeaderType, ChecksumType
<1> HIDE DEF h, k
<1>10. h \o f \in Bytes /\ Places(h \o f) = Places(h) \o Places(f) BY <1>4, <1>8, PlacesConcat
<1>11. (h \o f) \o k \in Bytes /\ Places((h \o f) \o k) = Places(h \o f) \o Places(k)
    BY <1>8, <1>10, PlacesConcat
<1>12. Regroups(Places(h), p, Places(k)) BY <1>5, <1>9, Regrouped
<1>13. Places((h \o f) \o k) = Places(h) \o (p \o Places(k)) BY <1>7, <1>10, <1>11, <1>12 DEF Regroups
<1> QED BY <1>1, <1>5, <1>11, <1>13 DEF Shown, h, k, p

\* The sizes of chunks: whole ones within the message, and a rest.
LEMMA ChunkSizes ==
    ASSUME NEW n \in Nat \ {0}, NEW c \in Nat, c <= Full(n)
    PROVE  /\ Full(n) \in Nat /\ MaxChunkBody \in Nat \ {0}
           /\ c * MaxChunkBody \in Nat /\ (c + 1) * MaxChunkBody = c * MaxChunkBody + MaxChunkBody
           /\ c * MaxChunkBody <= Full(n) * MaxChunkBody
           /\ Full(n) * MaxChunkBody \in Nat /\ Full(n) * MaxChunkBody < n
           /\ n - Full(n) * MaxChunkBody \in 1..MaxChunkBody
<1> DEFINE k == MaxChunkBody
           F == Full(n)
<1>1. k \in Nat \ {0} BY SizeAssumption
<1>2. F = (n - 1) \div k BY DEF Full
<1> HIDE DEF k, F
<1>3. F \in Nat /\ F * k <= n - 1 /\ n - 1 < F * k + k BY <1>1, <1>2, FullPieces
<1>4. c * k \in Nat /\ (c + 1) * k = c * k + k /\ F * k \in Nat BY <1>1, <1>3, Multiples
<1>5. c * k <= F * k
    <2>1. c <= F BY DEF F
    <2> QED BY <1>1, <1>3, <2>1, Multiples
<1> DEFINE e == F * k
<1>6. e \in Nat /\ e <= n - 1 /\ n - 1 < e + k BY <1>3, <1>4
<1> HIDE DEF e
<1>7. e < n /\ n - e \in 1..k BY <1>1, <1>6
<1> QED BY <1>1, <1>3, <1>4, <1>5, <1>7 DEF e, F, k

\* The full chunks, one by one.
LEMMA FullsType ==
    ASSUME NEW m \in Int, NEW n \in Nat \ {0}, NEW c \in Nat, c <= Full(n)
    PROVE  /\ Full(n) - c \in Nat
           /\ Fulls(m, c, n) \in Seq(Bytes) /\ Len(Fulls(m, c, n)) = Full(n) - c
           /\ \A j \in 1..(Full(n) - c) :
                Fulls(m, c, n)[j] = Chunk(m, (c + j - 1) * MaxChunkBody + 1, (c + j) * MaxChunkBody, FALSE)
<1> DEFINE k == MaxChunkBody
           l == Full(n) - c
           f == Fulls(m, c, n)
<1>1. Full(n) \in Nat /\ k \in Nat \ {0} BY ChunkSizes
<1>2. l \in Nat BY <1>1
<1>3. f = [j \in 1..l |-> Chunk(m, (c + j - 1) * k + 1, (c + j) * k, FALSE)] BY DEF Fulls
<1> HIDE DEF k, l
<1>4. ASSUME NEW j \in 1..l PROVE Chunk(m, (c + j - 1) * k + 1, (c + j) * k, FALSE) \in Bytes
    <2> DEFINE i == c + j - 1
    <2>1. i \in Nat /\ i + 1 = c + j BY <1>2
    <2> HIDE DEF i
    <2>2. i * k \in Nat /\ (i + 1) * k = i * k + k BY <1>1, <2>1, Multiples
    <2> DEFINE e == i * k
    <2>3. Chunk(m, i * k + 1, (i + 1) * k, FALSE) = Chunk(m, e + 1, e + k, FALSE) BY <2>2
    <2>4. e \in Nat BY <2>2
    <2> HIDE DEF e
    <2>5. e + 1 \in Int /\ e + k \in Int /\ k \in Nat /\ k = (e + k) - (e + 1) + 1 BY <1>1, <2>4
    <2>6. Chunk(m, e + 1, e + k, FALSE) \in Bytes BY <2>5, ChunkType
    <2> QED BY <2>1, <2>3, <2>6 DEF i
<1>5. f \in [1..l -> Bytes] BY <1>3, <1>4
<1>6. \A j \in 1..l : f[j] = Chunk(m, (c + j - 1) * k + 1, (c + j) * k, FALSE) BY <1>3
<1> HIDE DEF f
<1>7. f \in Seq(Bytes) /\ Len(f) = l BY <1>2, <1>5, FunctionIsSeq
<1> QED BY <1>2, <1>6, <1>7 DEF f, k, l

\* The last chunk.
LEMMA LastType ==
    ASSUME NEW m \in Int, NEW n \in Nat \ {0}
    PROVE  Chunk(m, Full(n) * MaxChunkBody + 1, n, TRUE) \in Bytes
<1> DEFINE e == Full(n) * MaxChunkBody
<1>1. Full(n) \in Nat
    <2>1. MaxChunkBody \in Nat \ {0} BY SizeAssumption
    <2> QED BY <2>1, FullPieces DEF Full
<1>2. Full(n) <= Full(n) BY <1>1
<1>3. e \in Nat /\ e < n BY <1>1, <1>2, ChunkSizes
<1> HIDE DEF e
<1>4. e + 1 \in Int /\ n \in Int /\ n - e \in Nat /\ n - e = n - (e + 1) + 1 BY <1>3
<1> QED BY <1>4, ChunkType DEF e

\* What is left of a message.
LEMMA FromType ==
    ASSUME NEW m \in Int, NEW n \in Nat \ {0}, NEW c \in Nat, c <= Full(n)
    PROVE  From(m, c, n) \in Bytes
<1>1. Fulls(m, c, n) \in Seq(Seq(Byte)) BY FullsType DEF Bytes
<1>2. FlattenSeq(Fulls(m, c, n)) \in Seq(Byte) BY <1>1, FlattenType
<1>3. Chunk(m, Full(n) * MaxChunkBody + 1, n, TRUE) \in Seq(Byte) BY LastType DEF Bytes
<1> QED BY <1>2, <1>3, ConcatProperties DEF From, Bytes

\* What is left of it is a full chunk and the rest, or the last one.
LEMMA FromNext ==
    ASSUME NEW m \in Int, NEW n \in Nat \ {0}, NEW c \in Nat, c < Full(n)
    PROVE  /\ From(m, c + 1, n) \in Bytes
           /\ From(m, c, n) = Chunk(m, c * MaxChunkBody + 1, (c + 1) * MaxChunkBody, FALSE) \o From(m, c + 1, n)
<1> DEFINE x == Chunk(m, c * MaxChunkBody + 1, (c + 1) * MaxChunkBody, FALSE)
           y == Chunk(m, Full(n) * MaxChunkBody + 1, n, TRUE)
           f == Fulls(m, c, n)
           g == Fulls(m, c + 1, n)
           F == Full(n)
<1>1. F \in Nat
    <2>1. MaxChunkBody \in Nat \ {0} BY SizeAssumption
    <2> QED BY <2>1, FullPieces DEF Full
<1>2. c + 1 \in Nat /\ c <= F /\ c + 1 <= F /\ c < F BY <1>1
<1> HIDE DEF F
<1>3. /\ f \in Seq(Bytes) /\ Len(f) = F - c
      /\ \A j \in 1..(F - c) : f[j] = Chunk(m, (c + j - 1) * MaxChunkBody + 1, (c + j) * MaxChunkBody, FALSE)
    BY <1>2, FullsType DEF F
<1>4. /\ g \in Seq(Bytes) /\ Len(g) = F - (c + 1)
      /\ \A j \in 1..(F - (c + 1)) :
            g[j] = Chunk(m, ((c + 1) + j - 1) * MaxChunkBody + 1, ((c + 1) + j) * MaxChunkBody, FALSE)
    BY <1>2, FullsType DEF F
<1>5. y \in Bytes BY LastType
<1>6. From(m, c, n) = FlattenSeq(f) \o y /\ From(m, c + 1, n) = FlattenSeq(g) \o y BY DEF From
<1>7. From(m, c + 1, n) \in Bytes BY <1>2, FromType DEF F
<1>8. f[1] = x
    <2>1. 1 \in 1..(F - c) /\ c + 1 - 1 = c BY <1>1, <1>2
    <2> HIDE DEF f
    <2> QED BY <1>3, <2>1
<1> HIDE DEF f, g, x, y
<1>9. x \in Bytes
    <2>1. 1 \in 1..Len(f) BY <1>1, <1>2, <1>3
    <2> QED BY <1>3, <1>8, <2>1, ElementOfSeq
<1>10. f = <<x>> \o g
    <2>1. <<x>> \in Seq(Bytes) /\ Len(<<x>>) = 1 /\ <<x>>[1] = x BY <1>9
    <2> DEFINE h == <<x>> \o g
    <2>2. /\ h \in Seq(Bytes) /\ Len(h) = Len(<<x>>) + Len(g)
          /\ \A i \in 1..Len(<<x>>) + Len(g) : h[i] = IF i <= Len(<<x>>) THEN <<x>>[i] ELSE g[i - Len(<<x>>)]
        BY <1>4, <2>1, ConcatProperties
    <2> HIDE DEF h
    <2>3. /\ Len(h) = F - c
          /\ \A i \in 1..(F - c) : h[i] = IF i <= 1 THEN x ELSE g[i - 1]
        <3>1. 1 + Len(g) = F - c BY <1>1, <1>2, <1>4
        <3>2. \A i \in 1..(F - c) : i <= 1 => i = 1 OBVIOUS
        <3> QED BY <2>1, <2>2, <3>1, <3>2
    <2>4. ASSUME NEW i \in 1..Len(f) PROVE f[i] = h[i]
        <3>1. i \in 1..(F - c) BY <1>3
        <3>2. CASE i <= 1
            <4>1. i = 1 BY <3>1, <3>2
            <4> QED BY <1>8, <2>3, <3>1, <3>2, <4>1
        <3>3. CASE ~(i <= 1)
            <4>1. /\ i - 1 \in 1..(F - (c + 1))
                  /\ (c + 1) + (i - 1) - 1 = c + i - 1 /\ (c + 1) + (i - 1) = c + i
                BY <1>1, <1>2, <3>1, <3>3
            <4>2. g[i - 1] = Chunk(m, ((c + 1) + (i - 1) - 1) * MaxChunkBody + 1,
                                      ((c + 1) + (i - 1)) * MaxChunkBody, FALSE)
                BY <1>4, <4>1
            <4>3. g[i - 1] = f[i] BY <1>3, <3>1, <4>1, <4>2
            <4> QED BY <2>3, <3>1, <3>3, <4>3
        <3> QED BY <3>2, <3>3
    <2> QED BY <1>3, <2>2, <2>3, <2>4, SeqEqual DEF h
<1>11. FlattenSeq(f) = x \o FlattenSeq(g) /\ FlattenSeq(g) \in Bytes
    <2>1. x \in Seq(Byte) /\ <<x>> \in Seq(Seq(Byte)) /\ g \in Seq(Seq(Byte)) BY <1>4, <1>9 DEF Bytes
    <2>2. FlattenSeq(<<x>> \o g) = FlattenSeq(<<x>>) \o FlattenSeq(g) BY <2>1, FlattenConcat
    <2>3. FlattenSeq(<<x>>) = x BY <2>1, FlattenOne
    <2> QED BY <1>10, <2>1, <2>2, <2>3, FlattenType DEF Bytes
<1>12. Regroups(x, FlattenSeq(g), y) BY <1>5, <1>9, <1>11, Regrouped DEF Bytes
<1>13. From(m, c, n) = x \o From(m, c + 1, n) BY <1>6, <1>11, <1>12 DEF Regroups
<1> QED BY <1>7, <1>13 DEF x

\* When the full chunks are through, the last one is left.
LEMMA FromLast ==
    ASSUME NEW m \in Int, NEW n \in Nat \ {0}, NEW c \in Nat, c = Full(n)
    PROVE  From(m, c, n) = Chunk(m, c * MaxChunkBody + 1, n, TRUE)
<1>1. c <= Full(n) /\ Full(n) - c = 0 OBVIOUS
<1>2. Fulls(m, c, n) \in Seq(Bytes) /\ Len(Fulls(m, c, n)) = 0 BY <1>1, FullsType
<1>3. Fulls(m, c, n) = <<>> BY <1>2, EmptySeq
<1>4. Chunk(m, Full(n) * MaxChunkBody + 1, n, TRUE) \in Seq(Byte) BY LastType DEF Bytes
<1> QED BY <1>3, <1>4, FlattenEmpty, ConcatEmptySeq DEF From

\* All of it is what out::Cutting puts out.
LEMMA FromAll ==
    ASSUME NEW m \in Int, NEW n \in Nat \ {0}
    PROVE  /\ 0 <= Full(n) /\ Full(n) \in Nat
           /\ From(m, 0, n) = Chunks(m, n)
<1> DEFINE F == Full(n)
           k == MaxChunkBody
           before == [c \in 1..F |-> Chunk(m, (c - 1) * k + 1, c * k, FALSE)]
<1>1. F \in Nat /\ F = (n - 1) \div k
    <2>1. MaxChunkBody \in Nat \ {0} BY SizeAssumption
    <2> QED BY <2>1, FullPieces DEF Full
<1>2. Chunks(m, n) = FlattenSeq(before) \o Chunk(m, F * k + 1, n, TRUE) BY <1>1 DEF Chunks
<1>3. Fulls(m, 0, n) = [j \in 1..(F - 0) |-> Chunk(m, (0 + j - 1) * k + 1, (0 + j) * k, FALSE)] BY DEF Fulls
<1>4. From(m, 0, n) = FlattenSeq(Fulls(m, 0, n)) \o Chunk(m, F * k + 1, n, TRUE) BY DEF From
<1> HIDE DEF F, k
<1>5. F - 0 = F /\ 0 <= F BY <1>1
<1>6. \A j \in 1..F : 0 + j = j /\ 0 + j - 1 = j - 1 OBVIOUS
<1>7. Fulls(m, 0, n) = before BY <1>3, <1>5, <1>6
<1> QED BY <1>1, <1>2, <1>4, <1>5, <1>7 DEF F

-----------------------------------------------------------------------------
(* What is left to be read. *)

\* The chunks of each message.
LEMMA AllType ==
    ASSUME NEW s \in Lengths
    PROVE  /\ Len(s) \in Nat /\ All(s) \in Seq(Bytes) /\ Len(All(s)) = Len(s)
           /\ \A m \in 1..Len(s) :
                /\ m \in Int /\ s[m] \in Nat \ {0}
                /\ All(s)[m] = Chunks(m, s[m])
                /\ From(m, 0, s[m]) = Chunks(m, s[m]) /\ Chunks(m, s[m]) \in Bytes
<1>1. Len(s) \in Nat BY LenProperties DEF Lengths
<1>2. ASSUME NEW m \in 1..Len(s)
      PROVE  /\ m \in Int /\ s[m] \in Nat \ {0}
             /\ From(m, 0, s[m]) = Chunks(m, s[m]) /\ Chunks(m, s[m]) \in Bytes
    <2>1. m \in Int BY <1>1
    <2>2. s[m] \in Nat \ {0} BY ElementOfSeq DEF Lengths
    <2>3. From(m, 0, s[m]) = Chunks(m, s[m]) /\ 0 <= Full(s[m]) BY <2>1, <2>2, FromAll
    <2>4. From(m, 0, s[m]) \in Bytes BY <2>1, <2>2, <2>3, FromType
    <2> QED BY <2>1, <2>2, <2>3, <2>4
<1> DEFINE f == [m \in 1..Len(s) |-> Chunks(m, s[m])]
<1>3. f \in [1..Len(s) -> Bytes] BY <1>2
<1>4. \A m \in 1..Len(s) : f[m] = Chunks(m, s[m]) OBVIOUS
<1>5. All(s) = f BY DEF All
<1> HIDE DEF f
<1>6. f \in Seq(Bytes) /\ Len(f) = Len(s) BY <1>1, <1>3, FunctionIsSeq
<1> QED BY <1>1, <1>2, <1>4, <1>5, <1>6

\* The chunks of one message more come last.
LEMMA AllAppend ==
    ASSUME NEW s \in Lengths, NEW d \in Nat \ {0}
    PROVE  /\ Append(s, d) \in Lengths
           /\ Chunks(Len(s) + 1, d) \in Bytes
           /\ All(Append(s, d)) = Append(All(s), Chunks(Len(s) + 1, d))
<1> DEFINE t == Append(s, d)
           x == Chunks(Len(s) + 1, d)
           a == All(s)
           b == All(t)
<1>1. /\ t \in Lengths /\ Len(t) = Len(s) + 1 /\ Len(s) \in Nat
      /\ \A m \in 1..Len(s) : t[m] = s[m]
      /\ t[Len(s) + 1] = d
    BY AppendProperties, LenProperties DEF Lengths
<1> HIDE DEF t
<1>2. /\ b \in Seq(Bytes) /\ Len(b) = Len(t)
      /\ \A m \in 1..Len(t) : b[m] = Chunks(m, t[m]) /\ Chunks(m, t[m]) \in Bytes
    BY <1>1, AllType
<1>3. a \in Seq(Bytes) /\ Len(a) = Len(s) /\ \A m \in 1..Len(s) : a[m] = Chunks(m, s[m]) BY AllType
<1>4. x \in Bytes
    <2>1. Len(s) + 1 \in 1..Len(t) BY <1>1
    <2> QED BY <1>1, <1>2, <2>1
<1>5. x = Chunks(Len(s) + 1, d) OBVIOUS
<1> HIDE DEF a, b, x
<1> DEFINE u == Append(a, x)
<1>6. /\ u \in Seq(Bytes) /\ Len(u) = Len(a) + 1
      /\ \A m \in 1..Len(a) : u[m] = a[m]
      /\ u[Len(a) + 1] = x
    BY <1>3, <1>4, AppendProperties
<1> HIDE DEF u
<1>7. ASSUME NEW m \in 1..Len(b) PROVE b[m] = u[m]
    <2>1. m \in 1..Len(t) BY <1>2
    <2>2. CASE m = Len(s) + 1
        <3>1. b[m] = Chunks(Len(s) + 1, d) BY <1>1, <1>2, <2>1, <2>2
        <3> QED BY <1>3, <1>5, <1>6, <2>2, <3>1
    <2>3. CASE m # Len(s) + 1
        <3>1. m \in 1..Len(s) BY <1>1, <2>1, <2>3
        <3>2. b[m] = Chunks(m, s[m]) BY <1>1, <1>2, <2>1, <3>1
        <3> QED BY <1>3, <1>6, <3>1, <3>2
    <2> QED BY <2>2, <2>3
<1>8. b = u BY <1>1, <1>2, <1>3, <1>6, <1>7, SeqEqual
<1> QED BY <1>1, <1>4, <1>8 DEF t, x, a, b, u

\* What is left is bytes.
LEMMA LeftType ==
    ASSUME NEW s \in Lengths, NEW n, NEW c, Within(s, n, c)
    PROVE  /\ Left(s, n, c) \in Bytes
           /\ n + 1 \in Nat /\ FlattenSeq(Rest(All(s), n + 1)) \in Bytes
           /\ n < Len(s) => /\ n + 1 \in 1..Len(s) /\ n + 1 \in Int /\ s[n + 1] \in Nat \ {0}
                            /\ From(n + 1, c, s[n + 1]) \in Bytes
<1>1. /\ n \in 0..Len(s) /\ c \in Nat /\ Len(s) \in Nat /\ n + 1 \in Nat
      /\ n < Len(s) => c <= Full(s[n + 1])
    BY AllType DEF Within
<1>2. FlattenSeq(Rest(All(s), n + 1)) \in Bytes
    <2>1. All(s) \in Seq(Seq(Byte)) BY AllType DEF Bytes
    <2>2. Rest(All(s), n + 1) \in Seq(Seq(Byte)) BY <1>1, <2>1, FirstRest
    <2> QED BY <2>2, FlattenType DEF Bytes
<1>3. ASSUME n < Len(s)
      PROVE  /\ n + 1 \in 1..Len(s) /\ n + 1 \in Int /\ s[n + 1] \in Nat \ {0}
             /\ From(n + 1, c, s[n + 1]) \in Bytes
    <2>1. n + 1 \in 1..Len(s) BY <1>1, <1>3
    <2>2. n + 1 \in Int /\ s[n + 1] \in Nat \ {0} BY <2>1, AllType
    <2>3. From(n + 1, c, s[n + 1]) \in Bytes BY <1>1, <1>3, <2>2, FromType
    <2> QED BY <2>1, <2>2, <2>3
<1>4. Left(s, n, c) \in Bytes
    <2>1. CASE n = Len(s)
        <3>1. Left(s, n, c) = <<>> BY <2>1 DEF Left
        <3> QED BY <3>1, EmptySeq DEF Bytes
    <2>2. CASE n # Len(s)
        <3>1. n < Len(s) BY <1>1, <2>2
        <3>2. From(n + 1, c, s[n + 1]) \in Bytes BY <1>3, <3>1
        <3>3. Left(s, n, c) = From(n + 1, c, s[n + 1]) \o FlattenSeq(Rest(All(s), n + 1))
            BY <2>2 DEF Left
        <3> QED BY <1>2, <3>2, <3>3, ConcatProperties DEF Bytes
    <2> QED BY <2>1, <2>2
<1> QED BY <1>1, <1>2, <1>3, <1>4

\* A message more is left behind what is.
LEMMA LeftSend ==
    ASSUME NEW s \in Lengths, NEW d \in Nat \ {0}, NEW n, NEW c, Within(s, n, c)
    PROVE  /\ Append(s, d) \in Lengths /\ Within(Append(s, d), n, c)
           /\ Chunks(Len(s) + 1, d) \in Bytes
           /\ Left(Append(s, d), n, c) = Left(s, n, c) \o Chunks(Len(s) + 1, d)
<1> DEFINE t == Append(s, d)
           x == Chunks(Len(s) + 1, d)
           a == All(s)
           b == All(t)
<1>1. t \in Lengths /\ x \in Bytes /\ b = Append(a, x) BY AllAppend
<1>2. /\ Len(t) = Len(s) + 1 /\ Len(s) \in Nat
      /\ \A m \in 1..Len(s) : t[m] = s[m]
      /\ t[Len(s) + 1] = d
    BY AppendProperties, LenProperties DEF Lengths
<1>3. /\ n \in 0..Len(s) /\ c \in Nat /\ n \in Nat
      /\ n = Len(s) => c = 0
      /\ n < Len(s) => c <= Full(s[n + 1])
    BY <1>2 DEF Within
<1>4. a \in Seq(Bytes) /\ Len(a) = Len(s) BY AllType
<1>5. b \in Seq(Bytes) /\ Len(b) = Len(t) BY <1>1, AllType
<1>6. n # Len(t) /\ n < Len(t) /\ n \in 0..Len(t) /\ n + 1 \in Nat BY <1>2, <1>3
<1>7. x = Chunks(Len(s) + 1, d) OBVIOUS
<1> HIDE DEF t, a, b, x
<1>8. Left(t, n, c) = From(n + 1, c, t[n + 1]) \o FlattenSeq(Rest(b, n + 1)) BY <1>6 DEF Left, b
<1>9. CASE n = Len(s)
    <2>1. c = 0 /\ t[n + 1] = d /\ n + 1 = Len(s) + 1 BY <1>2, <1>3, <1>9
    <2>2. Rest(b, n + 1) = <<>>
        <3>1. Len(b) = n + 1 BY <1>2, <1>5, <1>9
        <3> QED BY <1>6, <3>1, SubSeqEmpty DEF Rest
    <2>3. 0 <= Full(d) /\ From(n + 1, 0, d) = Chunks(n + 1, d)
        <3>1. n + 1 \in Int BY <1>6
        <3> QED BY <3>1, FromAll
    <2>4. Left(t, n, c) = x
        <3>1. From(n + 1, c, t[n + 1]) = x BY <1>7, <2>1, <2>3
        <3>2. Left(t, n, c) = x \o <<>> BY <1>8, <2>2, <3>1, FlattenEmpty
        <3> QED BY <1>1, <3>2, ConcatEmptySeq DEF Bytes
    <2>5. Left(s, n, c) = <<>> BY <1>9 DEF Left
    <2>6. <<>> \o x = x BY <1>1, ConcatEmptySeq DEF Bytes
    <2>7. Within(t, n, c) BY <1>3, <1>6, <2>1, <2>3 DEF Within
    <2> QED BY <1>1, <2>4, <2>5, <2>6, <2>7 DEF t, x
<1>10. CASE n # Len(s)
    <2>1. n < Len(s) /\ n + 1 \in 1..Len(s) /\ n + 1 <= Len(a) BY <1>2, <1>3, <1>4, <1>10
    <2>2. t[n + 1] = s[n + 1] BY <1>2, <2>1
    <2>3. Within(t, n, c) BY <1>3, <1>6, <2>1, <2>2 DEF Within
    <2> DEFINE f == From(n + 1, c, s[n + 1])
               r == Rest(a, n + 1)
    <2>4. f \in Bytes /\ FlattenSeq(r) \in Bytes BY <2>1, LeftType DEF a
    <2>5. Left(s, n, c) = f \o FlattenSeq(r) BY <1>10 DEF Left, a
    <2>6. Left(t, n, c) = f \o FlattenSeq(Rest(b, n + 1)) BY <1>8, <2>2
    <2>7. <<x>> \in Seq(Bytes) /\ Append(a, x) = a \o <<x>> BY <1>1, <1>4, AppendIsConcat
    <2>8. Rest(b, n + 1) = r \o <<x>> BY <1>1, <1>4, <1>6, <2>1, <2>7, RestConcat
    <2>9. r \in Seq(Bytes) BY <1>4, <1>6, FirstRest
    <2> HIDE DEF f, r
    <2>10. FlattenSeq(r \o <<x>>) = FlattenSeq(r) \o x
        <3>1. r \in Seq(Seq(Byte)) /\ x \in Seq(Byte) BY <1>1, <2>9 DEF Bytes
        <3>2. Append(r, x) = r \o <<x>> BY <3>1, AppendIsConcat
        <3> QED BY <3>1, <3>2, FlattenAppend
    <2>11. Regroups(f, FlattenSeq(r), x) BY <1>1, <2>4, Regrouped DEF Bytes
    <2>12. Left(t, n, c) = Left(s, n, c) \o x BY <2>5, <2>6, <2>8, <2>10, <2>11 DEF Regroups
    <2> QED BY <1>1, <2>3, <2>12 DEF t, x
<1> QED BY <1>9, <1>10

\* What is left behind a message begins with the next one.
LEMMA LeftBehind ==
    ASSUME NEW s \in Lengths, NEW n \in Nat, n < Len(s)
    PROVE  /\ Within(s, n + 1, 0)
           /\ Left(s, n + 1, 0) = FlattenSeq(Rest(All(s), n + 1))
<1> DEFINE a == All(s)
<1>1. a \in Seq(Bytes) /\ Len(a) = Len(s) /\ Len(s) \in Nat BY AllType
<1>2. n + 1 \in 0..Len(s) /\ n + 1 \in Nat BY <1>1
<1>3. CASE n + 1 = Len(s)
    <2>1. Left(s, n + 1, 0) = <<>> BY <1>3 DEF Left
    <2>2. Rest(a, n + 1) = <<>> BY <1>1, <1>2, <1>3, SubSeqEmpty DEF Rest
    <2>3. Within(s, n + 1, 0) BY <1>2, <1>3 DEF Within
    <2> QED BY <2>1, <2>2, <2>3, FlattenEmpty
<1>4. CASE n + 1 # Len(s)
    <2> DEFINE k == n + 1
    <2>1. k < Len(s) /\ k + 1 \in 1..Len(s) BY <1>1, <1>2, <1>4
    <2>2. /\ k + 1 \in Int /\ s[k + 1] \in Nat \ {0} /\ a[k + 1] = Chunks(k + 1, s[k + 1])
          /\ From(k + 1, 0, s[k + 1]) = Chunks(k + 1, s[k + 1]) /\ Chunks(k + 1, s[k + 1]) \in Bytes
        BY <2>1, AllType
    <2>3. 0 <= Full(s[k + 1]) BY <2>2, FromAll
    <2>4. Within(s, k, 0) BY <1>2, <1>4, <2>3 DEF Within
    <2>5. Left(s, k, 0) = a[k + 1] \o FlattenSeq(Rest(a, k + 1)) BY <1>4, <2>2 DEF Left
    <2>6. Rest(a, k) = <<a[k + 1]>> \o Rest(a, k + 1) BY <1>1, <1>2, <2>1, RestNext
    <2>7. Rest(a, k + 1) \in Seq(Bytes)
        <3>1. k + 1 \in Nat BY <1>2
        <3> QED BY <1>1, <3>1, FirstRest
    <2> DEFINE x == a[k + 1]
               r == Rest(a, k + 1)
    <2>8. x \in Seq(Byte) /\ r \in Seq(Seq(Byte)) BY <2>2, <2>7 DEF Bytes
    <2> HIDE DEF x, r, a, k
    <2>9. <<x>> \in Seq(Seq(Byte)) BY <2>8
    <2>10. FlattenSeq(<<x>> \o r) = FlattenSeq(<<x>>) \o FlattenSeq(r) BY <2>8, <2>9, FlattenConcat
    <2>11. FlattenSeq(<<x>>) = x BY <2>8, FlattenOne
    <2>12. FlattenSeq(Rest(a, k)) = Left(s, k, 0) BY <2>5, <2>6, <2>10, <2>11 DEF x, r
    <2> QED BY <2>4, <2>12 DEF k, a
<1> QED BY <1>3, <1>4

\* y is a header for d bytes, bytes at the places p and q, and t.
Starts(y, d, l, p, q, t) ==
    Places(y) = Places(HeaderBytes(d, l)) \o (p \o (q \o Places(t)))

\* The next chunk has d bytes of message n + 1, the last of it if l; n1 and c1
\* are what is behind the reader then.
Turn(s, n, c, d, l, n1, c1) ==
    /\ d \in 1..MaxChunkBody /\ l \in {TRUE, FALSE} /\ Within(s, n1, c1)
    /\ c * MaxChunkBody \in Nat
    /\ l = TRUE => n1 = n + 1 /\ c1 = 0 /\ c * MaxChunkBody + d = s[n + 1]
    /\ l = FALSE => n1 = n /\ c1 = c + 1 /\ (c + 1) * MaxChunkBody = c * MaxChunkBody + d
    /\ Starts(Left(s, n, c), d, l, Span(n + 1, c * MaxChunkBody + 1, c * MaxChunkBody + d),
              Sum(n + 1, c * MaxChunkBody), Left(s, n1, c1))

\* A chunk and what follows it.
LEMMA ChunkAhead ==
    ASSUME NEW m \in Int, NEW e \in Nat, NEW d \in Nat, NEW l, NEW t \in Bytes
    PROVE  Starts(Chunk(m, e + 1, e + d, l) \o t, d, l, Span(m, e + 1, e + d), Sum(m, e), t)
<1> DEFINE a == e + 1
           b == e + d
           x == Chunk(m, a, b, l)
           h == Places(HeaderBytes(d, l))
           p == Span(m, a, b)
           k == Places(ChecksumBytes(m, a))
           y == x \o t
<1>1. a \in Int /\ b \in Int /\ d = b - a + 1 OBVIOUS
<1> HIDE DEF a, b
<1>2. x \in Bytes /\ p \in Seq(Place) /\ Shown(x, h, p, k) BY <1>1, ChunkType
<1>3. h \in Seq(Place) /\ k \in Seq(Place) BY <1>1, HeaderType, ChecksumType
<1>4. Places(t) \in Seq(Place) BY PlacesType
<1> HIDE DEF x, h, p, k
<1>5. Places(x \o t) = Places(x) \o Places(t) BY <1>2, PlacesConcat
<1>6. p \o k \in Seq(Place) BY <1>2, <1>3, ConcatProperties
<1>7. Regroups(h, p \o k, Places(t)) BY <1>3, <1>4, <1>6, Regrouped
<1>8. Regroups(p, k, Places(t)) BY <1>2, <1>3, <1>4, Regrouped
<1>9. Places(y) = h \o (p \o (k \o Places(t))) BY <1>2, <1>5, <1>7, <1>8 DEF Regroups, Shown, y
<1> HIDE DEF y
<1>10. Starts(y, d, l, p, k, t) BY <1>9 DEF Starts, h
<1> QED BY <1>10 DEF x, p, a, b, y, k, Sum

\* Unless all was read there is a next chunk.
LEMMA LeftNext ==
    ASSUME NEW s \in Lengths, NEW n, NEW c, Within(s, n, c), n < Len(s)
    PROVE  \E d, l, n1, c1 : Turn(s, n, c, d, l, n1, c1)
<1> DEFINE z == s[n + 1]
           k == MaxChunkBody
           e == c * k
           r == FlattenSeq(Rest(All(s), n + 1))
<1>1. n \in 0..Len(s) /\ n \in Nat /\ Len(s) \in Nat /\ c \in Nat /\ c <= Full(z) /\ n # Len(s)
    BY AllType DEF Within
<1>2. n + 1 \in Int /\ z \in Nat \ {0} /\ r \in Bytes BY LeftType
<1>3. Left(s, n, c) = From(n + 1, c, z) \o r BY <1>1 DEF Left
<1> HIDE DEF z
<1>4. /\ Full(z) \in Nat /\ k \in Nat \ {0} /\ e \in Nat /\ (c + 1) * k = e + k /\ e <= Full(z) * k
      /\ Full(z) * k \in Nat /\ Full(z) * k < z /\ z - Full(z) * k \in 1..k
    BY <1>1, <1>2, ChunkSizes
<1>5. CASE c = Full(z)
    <2> DEFINE d == z - e
    <2>1. From(n + 1, c, z) = Chunk(n + 1, e + 1, z, TRUE) BY <1>1, <1>2, <1>5, FromLast
    <2>2. d \in 1..k /\ d \in Nat /\ e + d = z BY <1>2, <1>4, <1>5
    <2>3. Within(s, n + 1, 0) /\ Left(s, n + 1, 0) = r BY <1>1, LeftBehind
    <2> HIDE DEF r, d, e, k
    <2>4. Left(s, n, c) = Chunk(n + 1, e + 1, e + d, TRUE) \o Left(s, n + 1, 0)
        BY <1>3, <2>1, <2>2, <2>3
    <2>5. Left(s, n + 1, 0) \in Bytes BY <1>2, <2>3
    <2>6. Starts(Left(s, n, c), d, TRUE, Span(n + 1, e + 1, e + d), Sum(n + 1, e), Left(s, n + 1, 0))
        <3> DEFINE m == n + 1
                   t == Left(s, n + 1, 0)
        <3>1. m \in Int /\ t \in Bytes BY <1>2, <2>5
        <3>2. Left(s, n, c) = Chunk(m, e + 1, e + d, TRUE) \o t BY <2>4
        <3> HIDE DEF m, t
        <3>3. Starts(Chunk(m, e + 1, e + d, TRUE) \o t, d, TRUE, Span(m, e + 1, e + d), Sum(m, e), t)
            BY <1>4, <2>2, <3>1, ChunkAhead
        <3> QED BY <3>2, <3>3 DEF m, t
    <2>7. Turn(s, n, c, d, TRUE, n + 1, 0)
        BY <1>4, <2>2, <2>3, <2>6 DEF Turn, e, k, z
    <2> QED BY <2>7
<1>6. CASE c # Full(z)
    <2>1. c < Full(z) /\ c + 1 <= Full(z) /\ c + 1 \in Nat BY <1>1, <1>4, <1>6
    <2>2. /\ From(n + 1, c + 1, z) \in Bytes
          /\ From(n + 1, c, z) = Chunk(n + 1, e + 1, (c + 1) * k, FALSE) \o From(n + 1, c + 1, z)
        BY <1>1, <1>2, <2>1, FromNext
    <2>3. Within(s, n, c + 1) BY <1>1, <2>1 DEF Within, z
    <2>4. Left(s, n, c + 1) = From(n + 1, c + 1, z) \o r BY <1>1 DEF Left, z
    <2> HIDE DEF r, e, k
    <2> DEFINE x == Chunk(n + 1, e + 1, e + k, FALSE)
               f == From(n + 1, c + 1, z)
    <2>5. From(n + 1, c, z) = x \o f BY <1>4, <2>2
    <2>6. x \in Bytes
        <3>1. e + 1 \in Int /\ e + k \in Int /\ k \in Nat /\ k = (e + k) - (e + 1) + 1 BY <1>4
        <3> QED BY <1>2, <3>1, ChunkType
    <2>7. f \in Bytes BY <2>2
    <2>8. Left(s, n, c) = (x \o f) \o r /\ Left(s, n, c + 1) = f \o r BY <1>3, <2>4, <2>5
    <2> HIDE DEF x, f
    <2>9. Regroups(x, f, r) BY <1>2, <2>6, <2>7, Regrouped DEF Bytes
    <2>10. Left(s, n, c) = x \o Left(s, n, c + 1) BY <2>8, <2>9 DEF Regroups
    <2>11. Left(s, n, c + 1) \in Bytes BY <2>3, LeftType
    <2>12. Starts(Left(s, n, c), k, FALSE, Span(n + 1, e + 1, e + k), Sum(n + 1, e), Left(s, n, c + 1))
        <3> DEFINE m == n + 1
                   t == Left(s, n, c + 1)
        <3>1. m \in Int /\ t \in Bytes BY <1>2, <2>11
        <3>2. Left(s, n, c) = Chunk(m, e + 1, e + k, FALSE) \o t BY <2>10 DEF x
        <3> HIDE DEF m, t
        <3>3. Starts(Chunk(m, e + 1, e + k, FALSE) \o t, k, FALSE, Span(m, e + 1, e + k), Sum(m, e), t)
            BY <1>4, <3>1, ChunkAhead
        <3> QED BY <3>2, <3>3 DEF m, t
    <2>13. k \in 1..k BY <1>4
    <2>14. Turn(s, n, c, k, FALSE, n, c + 1)
        BY <1>4, <2>3, <2>12, <2>13 DEF Turn, e, k
    <2> QED BY <2>14
<1> QED BY <1>5, <1>6

-----------------------------------------------------------------------------
(* The actions. *)

\* Sizes of messages are not 0.
LEMMA SizesAre ==
    ASSUME NEW s \in Sizes
    PROVE  s \in Lengths
<1>1. Size \subseteq Nat \ {0} BY SizeAssumption
<1> QED BY <1>1, SeqMonotonic DEF Sizes, Lengths

\* What the reader keeps of a header.
LEMMA SeenType ==
    ASSUME Shaped
    PROVE  Seen \in Bytes
<1>1. size \in Nat
    <2>1. MaxChunkBody \in Nat BY SizeAssumption
    <2> QED BY <2>1 DEF Shaped
<1>2. <<>> \in Bytes BY EmptySeq DEF Bytes
<1> QED BY <1>1, <1>2, HeaderType DEF Seen

\* What was told stays when more is sent.
LEMMA ToldSend ==
    ASSUME NEW s \in Lengths, NEW d \in Nat \ {0}, NEW n \in 0..Len(s)
    PROVE  Told(Append(s, d), n) = Told(s, n)
<1> DEFINE t == Append(s, d)
<1>1. Len(s) \in Nat /\ \A m \in 1..Len(s) : t[m] = s[m]
    BY AppendProperties, LenProperties DEF Lengths
<1> HIDE DEF t
<1>2. \A m \in 1..n : t[m] = s[m] BY <1>1
<1>3. [m \in 1..n |-> Span(m, 1, t[m])] = [m \in 1..n |-> Span(m, 1, s[m])] BY <1>2
<1>4. Told(t, n) = Told(s, n) BY <1>3 DEF Told
<1> QED BY <1>4 DEF t

\* Three parts of which the last grows.
Grows(x, i, s, y) == x \o (i \o (s \o y)) = (x \o (i \o s)) \o y

LEMMA LastGrows ==
    ASSUME NEW x \in Bytes, NEW i \in Bytes, NEW s \in Bytes, NEW y \in Bytes
    PROVE  /\ s \o y \in Bytes
           /\ x \o (i \o s) \in Bytes
           /\ Grows(x, i, s, y)
<1>1. s \o y \in Bytes /\ i \o s \in Bytes BY ConcatProperties DEF Bytes
<1>2. x \o (i \o s) \in Bytes BY <1>1, ConcatProperties DEF Bytes
<1>3. Regroups(i, s, y) BY Regrouped DEF Bytes
<1>4. Regroups(x, i \o s, y) BY <1>1, Regrouped DEF Bytes
<1> QED BY <1>1, <1>2, <1>3, <1>4 DEF Regroups, Grows

\* A message more is in the stream.
LEMMA SendStep ==
    ASSUME Straight, Send
    PROVE  Straight'
<1>1. Shaped BY DEF Straight
<1>2. PICK n, c : Reached(n, c) BY DEF Straight, Somewhere
<1>3. PICK d \in Size : sent' = Append(sent, d) /\ stream' = stream \o Chunks(Len(sent) + 1, d) BY DEF Send
<1>4. /\ input' = input /\ size' = size /\ final' = final /\ message' = message /\ output' = output
      /\ failed' = failed
    BY DEF Send, reader
<1>5. d \in Nat \ {0} BY SizeAssumption
<1>6. sent \in Sizes /\ sent \in Lengths BY <1>1, SizesAre DEF Shaped
<1>7. Within(sent, n, c) BY <1>2 DEF Reached
<1> DEFINE t == Append(sent, d)
           y == Chunks(Len(sent) + 1, d)
           w == Seen \o (input \o stream)
<1>8. /\ Within(t, n, c) /\ y \in Bytes
      /\ Left(t, n, c) = Left(sent, n, c) \o y
    BY <1>5, <1>6, <1>7, LeftSend
<1>9. Left(sent, n, c) \in Bytes BY <1>6, <1>7, LeftType
<1>10. t \in Sizes BY <1>6, AppendProperties DEF Sizes
<1>11. n \in 0..Len(sent) BY <1>7 DEF Within
<1>12. Told(t, n) = Told(sent, n) BY <1>5, <1>6, <1>11, ToldSend
<1>13. sent' = t /\ stream' = stream \o y BY <1>3
<1>14. Seen \in Bytes BY <1>1, SeenType
<1>15. Seen' = Seen BY <1>4 DEF Seen
<1> HIDE DEF t, y
<1>16. input \in Bytes /\ stream \in Bytes BY <1>1 DEF Shaped
<1>17. stream \o y \in Bytes /\ w \in Bytes /\ Seen \o (input \o (stream \o y)) = w \o y
    <2>1. stream \o y \in Bytes /\ w \in Bytes /\ Grows(Seen, input, stream, y)
        BY <1>8, <1>14, <1>16, LastGrows
    <2> QED BY <2>1 DEF Grows
<1>18. Places(w) = Places(Left(sent, n, c)) BY <1>2 DEF Reached
<1> HIDE DEF w
<1>19. Places(w \o y) = Places(w) \o Places(y) BY <1>8, <1>17, PlacesConcat
<1>20. Places(Left(t, n, c)) = Places(Left(sent, n, c)) \o Places(y) BY <1>8, <1>9, PlacesConcat
<1>21. Places(Seen' \o (input' \o stream')) = Places(Left(t, n, c))
    BY <1>4, <1>13, <1>15, <1>17, <1>18, <1>19, <1>20
<1>22. Places(output) = Told(sent, n) /\ Places(message) = Span(n + 1, 1, c * MaxChunkBody)
    BY <1>2 DEF Reached
<1>23. Reached(n, c)' BY <1>4, <1>8, <1>12, <1>13, <1>21, <1>22 DEF Reached
<1>24. Shaped' BY <1>1, <1>4, <1>10, <1>13, <1>17 DEF Shaped
<1> QED BY <1>23, <1>24 DEF Straight, Somewhere

\* Bytes come in from the stream.
LEMMA InputStep ==
    ASSUME Straight, Input
    PROVE  Straight'
<1>1. Shaped BY DEF Straight
<1>2. PICK n, c : Reached(n, c) BY DEF Straight, Somewhere
<1>3. PICK k \in 1..Len(stream) : input' = input \o First(stream, k) /\ stream' = Rest(stream, k) BY DEF Input
<1>4. /\ sent' = sent /\ size' = size /\ final' = final /\ message' = message /\ output' = output
      /\ failed' = failed
    BY DEF Input
<1>5. input \in Bytes /\ stream \in Bytes BY <1>1 DEF Shaped
<1>6. k \in Nat /\ k <= Len(stream) BY <1>5, PlacesType
<1> DEFINE f == First(stream, k)
           r == Rest(stream, k)
<1>7. f \in Bytes /\ r \in Bytes /\ f \o r = stream BY <1>5, <1>6, PlacesParts
<1>8. input' = input \o f /\ stream' = r BY <1>3
<1> HIDE DEF f, r
<1>9. Regroups(input, f, r) BY <1>5, <1>7, Regrouped DEF Bytes
<1>10. input' \o stream' = input \o stream BY <1>7, <1>8, <1>9 DEF Regroups
<1>11. Seen' = Seen BY <1>4 DEF Seen
<1>12. Reached(n, c)' BY <1>2, <1>4, <1>10, <1>11 DEF Reached
<1>13. input \o f \in Bytes BY <1>5, <1>7, ConcatProperties DEF Bytes
<1>14. Shaped' BY <1>1, <1>4, <1>7, <1>8, <1>13 DEF Shaped
<1> QED BY <1>12, <1>14 DEF Straight, Somewhere

\* A byte is spoiled.
LEMMA SpoilStep ==
    ASSUME Straight, Spoil
    PROVE  Straight'
<1>1. Shaped BY DEF Straight
<1>2. PICK n, c : Reached(n, c) BY DEF Straight, Somewhere
<1>3. PICK i \in 1..Len(stream) : stream' = [stream EXCEPT ![i].good = FALSE] BY DEF Spoil
<1>4. /\ sent' = sent /\ input' = input /\ size' = size /\ final' = final /\ message' = message
      /\ output' = output /\ failed' = failed
    BY DEF Spoil, reader
<1>5. input \in Bytes /\ stream \in Bytes /\ Seen \in Bytes BY <1>1, SeenType DEF Shaped
<1> DEFINE s == [stream EXCEPT ![i].good = FALSE]
<1>6. s \in Bytes /\ Places(s) = Places(stream) BY <1>5, PlacesSpoiled
<1>7. stream' = s BY <1>3
<1> HIDE DEF s
<1>8. Places(Seen \o (input \o s)) = Places(Seen \o (input \o stream))
    <2>1. input \o s \in Bytes /\ Places(input \o s) = Places(input) \o Places(s) BY <1>5, <1>6, PlacesConcat
    <2>2. input \o stream \in Bytes /\ Places(input \o stream) = Places(input) \o Places(stream)
        BY <1>5, PlacesConcat
    <2> DEFINE u == input \o s
               v == input \o stream
    <2>3. u \in Bytes /\ v \in Bytes /\ Places(u) = Places(v) BY <1>6, <2>1, <2>2
    <2> HIDE DEF u, v
    <2>4. Places(Seen \o u) = Places(Seen) \o Places(u) BY <1>5, <2>3, PlacesConcat
    <2>5. Places(Seen \o v) = Places(Seen) \o Places(v) BY <1>5, <2>3, PlacesConcat
    <2>6. Places(Seen \o u) = Places(Seen \o v) BY <2>3, <2>4, <2>5
    <2> QED BY <2>6 DEF u, v
<1>9. Seen' = Seen BY <1>4 DEF Seen
<1>10. Reached(n, c)' BY <1>2, <1>4, <1>7, <1>8, <1>9 DEF Reached
<1>11. Shaped' BY <1>1, <1>4, <1>6, <1>7 DEF Shaped
<1> QED BY <1>10, <1>11 DEF Straight, Somewhere

\* The protocol is started again.
LEMMA RestartStep ==
    ASSUME Straight, Restart
    PROVE  Straight'
<1>1. Shaped BY DEF Straight
<1>2. PICK n, c : Reached(n, c) BY DEF Straight, Somewhere
<1>3. UNCHANGED <<sent, stream, input, size, final, message, output>> /\ failed' = FALSE BY DEF Restart
<1>4. Reached(n, c)' BY <1>2, <1>3 DEF Reached, Seen
<1>5. Shaped' BY <1>1, <1>3 DEF Shaped
<1> QED BY <1>4, <1>5 DEF Straight, Somewhere

-----------------------------------------------------------------------------
(* The turns of the reader. *)

\* Nothing is left only if all was read.
LEMMA SomethingLeft ==
    ASSUME NEW s \in Lengths, NEW n, NEW c, Within(s, n, c), NEW w \in Bytes, w # <<>>,
           Places(w) = Places(Left(s, n, c))
    PROVE  n < Len(s)
<1>1. n \in 0..Len(s) /\ Len(s) \in Nat BY AllType DEF Within
<1>2. SUFFICES ASSUME n = Len(s) PROVE FALSE BY <1>1
<1>3. Left(s, n, c) = <<>> BY <1>2 DEF Left
<1>4. <<>> \in Bytes /\ Len(<<>>) = 0 BY EmptySeq DEF Bytes
<1>5. Len(Places(w)) = Len(w) BY PlacesType
<1>6. Len(Places(<<>>)) = 0 BY <1>4, PlacesType
<1>7. Len(w) = 0 BY <1>3, <1>5, <1>6
<1> QED BY <1>7, EmptySeq DEF Bytes

\* How a header tells whether its chunk is the last.
Mark(l) == IF l THEN 1 ELSE 0

LEMMA MarkTells ==
    ASSUME NEW l, l \in {TRUE, FALSE}
    PROVE  (Mark(l) = 1) = l
<1>1. CASE l = TRUE
    <2>1. Mark(l) = 1 BY <1>1 DEF Mark
    <2> QED BY <1>1, <2>1
<1>2. CASE l = FALSE
    <2>1. Mark(l) = 0 BY <1>2 DEF Mark
    <2>2. (Mark(l) = 1) = FALSE BY <2>1
    <2> QED BY <1>2, <2>2
<1> QED BY <1>1, <1>2

LEMMA MarkSame ==
    ASSUME NEW k, NEW l, k \in {TRUE, FALSE}, l \in {TRUE, FALSE}, Mark(k) = Mark(l)
    PROVE  k = l
<1>1. (Mark(k) = 1) = k BY MarkTells
<1>2. (Mark(l) = 1) = l BY MarkTells
<1> QED BY <1>1, <1>2, Zenon

\* The bytes w show the header, and behind it x.
Begins(w, d, l, x) == Places(w) = Places(HeaderBytes(d, l)) \o x

\* With the header before the rest r and s, the bytes show the same as w.
Rejoins(d, l, r, s, w) == Places(HeaderBytes(d, l) \o (r \o s)) = Places(w)

\* A header is taken from the beginning of the input.
LEMMA HeaderTaken ==
    ASSUME NEW i \in Bytes, NEW s \in Bytes, HeaderSize <= Len(i),
           NEW d \in Nat, NEW l, NEW x \in Seq(Place),
           Begins(i \o s, d, l, x)
    PROVE  /\ Rest(i, HeaderSize) \in Bytes
           /\ i[1].of = <<d, Mark(l)>>
           /\ Rejoins(d, l, Rest(i, HeaderSize), s, i \o s)
<1> DEFINE h == HeaderBytes(d, l)
           ph == Places(h)
           f == First(i, HeaderSize)
           r == Rest(i, HeaderSize)
           k == Mark(l)
<1>1. h \in Bytes /\ ph \in Seq(Place) /\ Len(ph) = HeaderSize /\ ph[1] = <<"header", <<d, k>>>>
    BY HeaderType DEF Mark
<1>2. HeaderSize \in Nat /\ 1 \in 1..HeaderSize BY DEF HeaderSize
<1>3. f \in Bytes /\ r \in Bytes /\ f \o r = i /\ Len(f) = HeaderSize BY <1>2, PlacesParts
<1>4. \A j \in 1..Len(f) : f[j] = i[j] BY <1>2, FirstRest DEF Bytes
<1>5. Places(i \o s) = ph \o x BY DEF Begins
<1> HIDE DEF ph, f, r, k, h
<1>6. r \o s \in Bytes BY <1>3, ConcatProperties DEF Bytes
<1>7. Regroups(f, r, s) BY <1>3, Regrouped DEF Bytes
<1>8. i \o s = f \o (r \o s) BY <1>3, <1>7 DEF Regroups
<1> DEFINE y == r \o s
<1>9. Places(f \o y) = Places(f) \o Places(y) /\ Places(h \o y) = ph \o Places(y)
    <2>1. y \in Bytes BY <1>6
    <2> HIDE DEF y
    <2> QED BY <1>1, <1>3, <2>1, PlacesConcat DEF ph
<1>10. Places(y) \in Seq(Place) /\ Places(f) \in Seq(Place) /\ Len(Places(f)) = HeaderSize
    <2>1. y \in Bytes BY <1>6
    <2> HIDE DEF y
    <2> QED BY <1>3, <2>1, PlacesType
<1>11. Places(i \o s) = Places(f) \o Places(y) BY <1>8, <1>9
<1> HIDE DEF y
<1>12. Places(f) = ph
    <2>1. First(Places(f) \o Places(y), HeaderSize) = Places(f) BY <1>10, FirstIs
    <2>2. First(ph \o x, HeaderSize) = ph BY <1>1, FirstIs
    <2> QED BY <1>5, <1>11, <2>1, <2>2
<1>13. Places(f)[1] = <<f[1].part, f[1].of>> BY <1>2, <1>3, PlacesType
<1>14. i[1].of = <<d, k>>
    <2>1. f[1] = i[1] BY <1>2, <1>3, <1>4
    <2> QED BY <1>1, <1>12, <1>13, <2>1
<1>15. Places(h \o y) = Places(i \o s) BY <1>9, <1>11, <1>12
<1>16. Rejoins(d, l, r, s, i \o s) BY <1>15 DEF Rejoins, h, y
<1> QED BY <1>3, <1>14, <1>16 DEF k, r

\* Which header it was shows in its first byte.
LEMMA HeaderSame ==
    ASSUME NEW w, NEW a \in Nat, NEW b \in Nat, NEW k, NEW l, NEW x \in Seq(Place), NEW y \in Seq(Place),
           Begins(w, a, k, x), Begins(w, b, l, y)
    PROVE  a = b /\ Mark(k) = Mark(l) /\ x = y
<1> DEFINE p == Places(HeaderBytes(a, k))
           q == Places(HeaderBytes(b, l))
           u == Mark(k)
           v == Mark(l)
<1>1. p \in Seq(Place) /\ Len(p) = HeaderSize /\ p[1] = <<"header", <<a, u>>>> BY HeaderType DEF Mark
<1>2. q \in Seq(Place) /\ Len(q) = HeaderSize /\ q[1] = <<"header", <<b, v>>>> BY HeaderType DEF Mark
<1>3. p \o x = q \o y BY DEF Begins
<1> HIDE DEF p, q, u, v
<1>4. First(p \o x, HeaderSize) = p /\ Rest(p \o x, HeaderSize) = x BY <1>1, FirstIs, RestIs
<1>5. First(q \o y, HeaderSize) = q /\ Rest(q \o y, HeaderSize) = y BY <1>2, FirstIs, RestIs
<1>6. p = q /\ x = y BY <1>3, <1>4, <1>5
<1>7. a = b /\ u = v BY <1>1, <1>2, <1>6
<1> QED BY <1>6, <1>7 DEF u, v

\* The bytes w show p, q and t; the bytes r and s show t.
InThree(w, p, q, t) == Places(w) = p \o (q \o t)
Leaves(r, s, t) == Places(r \o s) = t

\* What is left of places.
LEMMA RestPlaces ==
    ASSUME NEW s \in Seq(Place), NEW n \in Nat
    PROVE  Rest(s, n) \in Seq(Place) /\ Len(Rest(s, n)) = (IF n < Len(s) THEN Len(s) - n ELSE 0)
BY FirstRest

\* A body and its checksum are taken from the beginning of the input.
LEMMA BodyTaken ==
    ASSUME NEW i \in Bytes, NEW s \in Bytes, NEW p \in Seq(Place), NEW q \in Seq(Place), NEW t \in Seq(Place),
           InThree(i \o s, p, q, t), NEW a \in Nat, NEW b \in Nat, Len(p) = a, Len(q) = b, a + b <= Len(i)
    PROVE  /\ First(i, a) \in Bytes /\ Rest(i, a + b) \in Bytes
           /\ Places(First(i, a)) = p
           /\ First(Rest(i, a), b) \in Bytes /\ Places(First(Rest(i, a), b)) = q
           /\ Leaves(Rest(i, a + b), s, t)
<1> DEFINE pi == Places(i)
           ps == Places(s)
           r == Rest(i, a + b)
<1>1. /\ pi \in Seq(Place) /\ ps \in Seq(Place) /\ Places(i \o s) = pi \o ps
      /\ Len(pi) = Len(i) /\ Len(i) \in Nat
    BY PlacesType, PlacesConcat
<1>2. a + b \in Nat /\ a <= Len(i) BY <1>1
<1>3. First(i, a) \in Bytes /\ Places(First(i, a)) = First(pi, a) BY <1>2, PlacesParts
<1>4. r \in Bytes /\ Places(r) = Rest(pi, a + b) BY <1>2, PlacesParts
<1>5. p \o (q \o t) = pi \o ps BY <1>1 DEF InThree
<1> HIDE DEF pi, ps, r
<1>6. q \o t \in Seq(Place) BY ConcatProperties
<1>7. p = First(pi, a) /\ q \o t = Rest(pi, a) \o ps
    <2> DEFINE y == q \o t
    <2>1. y \in Seq(Place) /\ p \o y = pi \o ps BY <1>5, <1>6
    <2> HIDE DEF y
    <2>2. First(p \o y, a) = p /\ Rest(p \o y, a) = y BY <2>1, FirstIs, RestIs
    <2>3. a <= Len(pi) BY <1>1, <1>2
    <2>4. First(pi \o ps, a) = First(pi, a) /\ Rest(pi \o ps, a) = Rest(pi, a) \o ps BY <1>1, <2>3, RestConcat
    <2>5. p = First(pi, a) /\ y = Rest(pi, a) \o ps BY <2>1, <2>2, <2>4
    <2> QED BY <2>5 DEF y
<1> DEFINE z == Rest(pi, a)
<1>8. z \in Seq(Place) /\ Len(z) = (IF a < Len(pi) THEN Len(pi) - a ELSE 0) BY <1>1, RestPlaces
<1>9. Rest(z, b) = Rest(pi, a + b) BY <1>1, RestRest
<1>10. q \o t = z \o ps BY <1>7
<1> HIDE DEF z
<1>11. b <= Len(z) BY <1>1, <1>2, <1>8
<1>12. t = Rest(z, b) \o ps
    <2>1. Rest(q \o t, b) = t BY RestIs
    <2>2. Rest(z \o ps, b) = Rest(z, b) \o ps BY <1>1, <1>8, <1>11, RestConcat
    <2> QED BY <1>10, <2>1, <2>2
<1>15. First(Rest(i, a), b) \in Bytes /\ Places(First(Rest(i, a), b)) = q
    <2> DEFINE v == Rest(i, a)
    <2>1. v \in Bytes /\ Places(v) = z BY <1>2, PlacesParts DEF z, pi
    <2> HIDE DEF v
    <2>2. Len(v) = Len(z) BY <2>1, PlacesType
    <2>3. First(v, b) \in Bytes /\ Places(First(v, b)) = First(z, b) BY <1>11, <2>1, <2>2, PlacesParts
    <2>4. First(q \o t, b) = q BY FirstIs
    <2>5. First(z \o ps, b) = First(z, b) BY <1>1, <1>8, <1>11, RestConcat
    <2> QED BY <1>10, <2>3, <2>4, <2>5 DEF v
<1>13. Places(r \o s) = Places(r) \o ps BY <1>4, PlacesConcat DEF ps
<1>14. Places(r \o s) = t BY <1>4, <1>9, <1>12, <1>13
<1> QED BY <1>3, <1>4, <1>7, <1>14, <1>15 DEF r, Leaves

\* The header at the beginning of the input is that of a chunk of d bytes, the
\* last if l.
Headed(d, l) ==
    /\ d \in 1..MaxChunkBody /\ l \in {TRUE, FALSE}
    /\ Headers(First(input, HeaderSize)) = {<<d, l>>}
    /\ Rest(input, HeaderSize) \in Bytes
    /\ Rejoins(d, l, Rest(input, HeaderSize), stream, input \o stream)

LEMMA HeaderFound ==
    ASSUME Straight, size = 0, Ready, Whole(First(input, HeaderSize))
    PROVE  \E d, l : Headed(d, l)
<1>1. Shaped BY DEF Straight
<1>2. PICK n, c : Reached(n, c) BY DEF Straight, Somewhere
<1>3. size = 0 /\ Len(input) >= HeaderSize + ChecksumSize BY DEF Ready
<1>6. input \in Bytes /\ stream \in Bytes /\ sent \in Lengths BY <1>1, SizesAre DEF Shaped
<1>7. Within(sent, n, c) BY <1>2 DEF Reached
<1>8. HeaderSize <= Len(input) /\ Len(input) \in Nat
    <2>1. ChecksumSize \in Nat /\ Len(input) \in Nat /\ HeaderSize \in Nat
        BY <1>6, BoundsAssumption, PlacesType DEF HeaderSize
    <2> QED BY <1>3, <2>1
<1> DEFINE w == input \o stream
           L == Left(sent, n, c)
<1>9. w \in Bytes BY <1>6, ConcatProperties DEF Bytes
<1>10. Places(w) = Places(L)
    <2>1. Seen = <<>> BY <1>3 DEF Seen
    <2>2. <<>> \o w = w BY <1>9, ConcatEmptySeq DEF Bytes
    <2> QED BY <1>2, <2>1, <2>2 DEF Reached
<1>11. w # <<>>
    <2>1. Len(w) = Len(input) + Len(stream) /\ Len(stream) \in Nat
        BY <1>6, ConcatProperties, PlacesType DEF Bytes
    <2>2. Len(w) # 0 BY <1>8, <2>1 DEF HeaderSize
    <2> QED BY <1>9, <2>2, EmptySeq DEF Bytes
<1>12. n < Len(sent) BY <1>6, <1>7, <1>9, <1>10, <1>11, SomethingLeft
<1>13. PICK d, l, n1, c1 : Turn(sent, n, c, d, l, n1, c1) BY <1>6, <1>7, <1>12, LeftNext
<1> DEFINE e == c * MaxChunkBody
           t == Left(sent, n1, c1)
           h == HeaderBytes(d, l)
           p == Span(n + 1, e + 1, e + d)
           q == Sum(n + 1, e)
           x == p \o (q \o Places(t))
<1>14. /\ d \in 1..MaxChunkBody /\ l \in {TRUE, FALSE} /\ Within(sent, n1, c1) /\ e \in Nat
       /\ Starts(L, d, l, p, q, t)
    BY <1>13 DEF Turn
<1>15. MaxChunkBody \in Nat /\ d \in Nat /\ d # 0
    <2>1. MaxChunkBody \in Nat BY SizeAssumption
    <2> QED BY <1>14, <2>1
<1>16. x \in Seq(Place)
    <2>1. t \in Bytes BY <1>6, <1>14, LeftType
    <2>2. Places(t) \in Seq(Place) /\ q \in Seq(Place)
        <3> DEFINE m == n + 1
        <3>1. m \in Int BY <1>6, <1>7, <1>12, LeftType
        <3> HIDE DEF m
        <3>2. Sum(m, e) \in Seq(Place) BY <1>14, <3>1, SumType
        <3> QED BY <2>1, <3>2, PlacesType DEF m
    <2>3. p \in Seq(Place)
        <3> DEFINE a == e + 1
                   b == e + d
                   m == n + 1
        <3>1. a \in Int /\ b \in Int /\ d = b - a + 1 BY <1>14, <1>15
        <3>2. m \in Int BY <1>6, <1>7, <1>12, LeftType
        <3> HIDE DEF a, b, m
        <3>3. Span(m, a, b) \in Seq(Place) BY <1>15, <3>1, <3>2, SpanType
        <3> QED BY <3>3 DEF a, b, m
    <2> HIDE DEF p, q, t
    <2>4. q \o Places(t) \in Seq(Place) BY <2>2, ConcatProperties
    <2> QED BY <2>3, <2>4, ConcatProperties
<1>17. Begins(input \o stream, d, l, x) BY <1>10, <1>14 DEF Starts, Begins
<1> HIDE DEF x, t, p, q, e, w
<1>18. /\ Rest(input, HeaderSize) \in Bytes
       /\ input[1].of = <<d, Mark(l)>>
       /\ Rejoins(d, l, Rest(input, HeaderSize), stream, input \o stream)
    BY <1>6, <1>8, <1>15, <1>16, <1>17, HeaderTaken
<1>19. First(input, HeaderSize)[1] = input[1]
    <2>1. HeaderSize \in Nat BY DEF HeaderSize
    <2>2. Len(First(input, HeaderSize)) = HeaderSize BY <1>6, <1>8, <2>1, PlacesParts
    <2>3. 1 \in 1..HeaderSize BY DEF HeaderSize
    <2> QED BY <1>6, <2>1, <2>2, <2>3, FirstRest DEF Bytes
<1>20. Headers(First(input, HeaderSize)) = {<<d, l>>}
    <2> DEFINE k == Mark(l)
    <2>1. Headers(First(input, HeaderSize)) = {<<d, k = 1>>} BY <1>18, <1>19 DEF Headers
    <2>2. (k = 1) = l BY <1>14, MarkTells
    <2> HIDE DEF k
    <2> QED BY <2>1, <2>2, Zenon
<1>21. Headed(d, l) BY <1>14, <1>18, <1>20 DEF Headed
<1> QED BY <1>21

\* The next header is taken in, as it was put out.
LEMMA ReadHeaderStep ==
    ASSUME Straight, ReadHeader, astray' = FALSE
    PROVE  Straight'
<1>1. Shaped BY DEF Straight
<1>2. PICK n, c : Reached(n, c) BY DEF Straight, Somewhere
<1>3. size = 0 /\ Ready /\ Whole(First(input, HeaderSize)) /\ input' = Rest(input, HeaderSize) BY DEF ReadHeader
<1>4. /\ sent' = sent /\ stream' = stream /\ message' = message /\ output' = output /\ failed' = failed
    BY DEF ReadHeader
<1>5. PICK d, l : Headed(d, l) BY <1>3, HeaderFound
<1>6. /\ d \in 1..MaxChunkBody /\ l \in {TRUE, FALSE} /\ input' \in Bytes
      /\ Rejoins(d, l, input', stream, input \o stream)
    BY <1>3, <1>5 DEF Headed
<1>7. size' = d /\ final' = l
    <2>1. PICK g \in Headers(First(input, HeaderSize)) : size' = g[1] /\ final' = g[2] BY DEF ReadHeader
    <2>2. g = <<d, l>> BY <1>5, <2>1 DEF Headed
    <2>3. g[1] = d /\ g[2] = l BY <2>2, Zenon
    <2> QED BY <2>1, <2>3, Zenon
<1>8. MaxChunkBody \in Nat /\ d # 0
    <2>1. MaxChunkBody \in Nat BY SizeAssumption
    <2> QED BY <1>6, <2>1
<1>9. Seen' = HeaderBytes(d, l) BY <1>7, <1>8 DEF Seen
<1>10. Places(input \o stream) = Places(Left(sent, n, c))
    <2>1. Seen = <<>> BY <1>3 DEF Seen
    <2> DEFINE w == input \o stream
    <2>2. w \in Bytes BY <1>1, ConcatProperties DEF Bytes, Shaped
    <2>3. Places(Seen \o w) = Places(Left(sent, n, c)) BY <1>2 DEF Reached
    <2> HIDE DEF w
    <2>4. <<>> \o w = w BY <2>2, ConcatEmptySeq DEF Bytes
    <2> QED BY <2>1, <2>3, <2>4 DEF w
<1>11. Reached(n, c)'
    <2>1. Places(Seen' \o (input' \o stream')) = Places(Left(sent', n, c))
        BY <1>4, <1>6, <1>9, <1>10 DEF Rejoins
    <2>2. Places(output') = Told(sent', n) /\ Places(message') = Span(n + 1, 1, c * MaxChunkBody)
        BY <1>2, <1>4 DEF Reached
    <2>3. Within(sent', n, c) BY <1>2, <1>4 DEF Reached
    <2> QED BY <2>1, <2>2, <2>3 DEF Reached
<1>12. Shaped'
    <2>1. size' \in 0..MaxChunkBody /\ size' # 0 BY <1>6, <1>7, <1>8
    <2>2. final' \in BOOLEAN BY <1>6, <1>7
    <2> QED BY <1>1, <1>4, <1>6, <2>1, <2>2 DEF Shaped
<1> QED BY <1>11, <1>12 DEF Straight, Somewhere

\* Every chunk that is put out has some bytes.
LEMMA NoneEmpty ==
    ASSUME Straight, ReadEmpty, astray' = FALSE
    PROVE  FALSE
<1>1. size = 0 /\ Ready /\ Whole(First(input, HeaderSize)) BY DEF ReadEmpty
<1>2. PICK d, l : Headed(d, l) BY <1>1, HeaderFound
<1>3. PICK g \in Headers(First(input, HeaderSize)) : g[1] = 0 BY DEF ReadEmpty
<1>4. g = <<d, l>> BY <1>2, <1>3 DEF Headed
<1>5. d = 0 BY <1>3, <1>4
<1>6. d \in 1..MaxChunkBody BY <1>2 DEF Headed
<1>7. MaxChunkBody \in Nat BY SizeAssumption
<1> QED BY <1>5, <1>6, <1>7

\* How many messages the bytes o are.
LastOf(o) == IF o = <<>> THEN 0 ELSE o[Len(o)].of[1]

\* A whole message.
LEMMA SpanWhole ==
    ASSUME NEW m \in Int, NEW z \in Nat
    PROVE  Len(Span(m, 1, z)) = z /\ \A i \in 1..z : Span(m, 1, z)[i] = <<"body", <<m, i>>>>
<1> DEFINE a == 1
           b == z
<1>1. b \in Int /\ z = b - a + 1 /\ a \in Int OBVIOUS
<1> HIDE DEF a, b
<1>2. Len(Span(m, a, b)) = z /\ \A i \in 1..z : Span(m, a, b)[i] = <<"body", <<m, a + i - 1>>>>
    BY <1>1, SpanType
<1>3. \A i \in 1..z : a + i - 1 = i BY DEF a
<1> QED BY <1>2, <1>3 DEF a, b

\* Where n messages came out, Got is n.
LEMMA LastIs ==
    ASSUME NEW s \in Lengths, NEW o \in Bytes, NEW n \in 0..Len(s), Places(o) = Told(s, n)
    PROVE  LastOf(o) = n
<1>1. Len(s) \in Nat /\ n \in Nat BY LenProperties DEF Lengths
<1>2. /\ Len(o) \in Nat /\ Len(Places(o)) = Len(o) /\ Places(o) \in Seq(Place)
      /\ \A i \in 1..Len(o) : Places(o)[i] = <<o[i].part, o[i].of>>
    BY PlacesType
<1>3. CASE n = 0
    <2>1. Places(o) = <<>> BY <1>3, ToldNothing
    <2>2. Len(o) = 0 BY <1>2, <2>1
    <2>3. o = <<>> BY <2>2, EmptySeq DEF Bytes
    <2> QED BY <1>3, <2>3 DEF LastOf
<1>4. CASE n # 0
    <2> DEFINE k == n - 1
    <2>1. k \in Nat /\ k < Len(s) /\ k + 1 = n BY <1>1, <1>4
    <2> HIDE DEF k
    <2>2. /\ Told(s, k) \in Seq(Place) /\ Span(k + 1, 1, s[k + 1]) \in Seq(Place)
          /\ Told(s, k + 1) = Told(s, k) \o Span(k + 1, 1, s[k + 1])
        BY <2>1, ToldNext
    <2> DEFINE x == Told(s, k)
               z == s[n]
               y == Span(n, 1, z)
    <2>3. z \in Nat \ {0}
        <3>1. n \in 1..Len(s) BY <1>1, <1>4
        <3> QED BY <3>1, ElementOfSeq DEF Lengths
    <2>4. x \in Seq(Place) /\ y \in Seq(Place) /\ Places(o) = x \o y BY <2>1, <2>2
    <2> HIDE DEF x, z
    <2>5. Len(y) = z /\ \A i \in 1..z : y[i] = <<"body", <<n, i>>>>
        <3>1. z \in Nat /\ n \in Int BY <1>1, <2>3
        <3> QED BY <3>1, SpanWhole
    <2> HIDE DEF y
    <2>6. /\ Len(x \o y) = Len(x) + z /\ Len(x) \in Nat
          /\ \A i \in 1..Len(x) + z : (x \o y)[i] = IF i <= Len(x) THEN x[i] ELSE y[i - Len(x)]
        BY <2>4, <2>5, ConcatProperties, LenProperties
    <2>7. Len(o) = Len(x) + z BY <1>2, <2>4, <2>6
    <2>8. Places(o)[Len(o)] = y[z]
        <3>1. Len(o) \in 1..Len(x) + z /\ ~(Len(o) <= Len(x)) /\ Len(o) - Len(x) = z BY <2>3, <2>6, <2>7
        <3> QED BY <2>4, <2>6, <3>1
    <2>9. z \in 1..z /\ Len(o) \in 1..Len(o) /\ Len(o) # 0 BY <2>3, <2>6, <2>7
    <2>10. y[z] = <<"body", <<n, z>>>> BY <2>5, <2>9
    <2>11. Places(o)[Len(o)] = <<o[Len(o)].part, o[Len(o)].of>> BY <1>2, <2>9
    <2>12. o[Len(o)].of[1] = n BY <2>8, <2>10, <2>11
    <2>13. o # <<>> BY <2>9
    <2> QED BY <2>12, <2>13 DEF LastOf
<1> QED BY <1>3, <1>4

\* A body more is kept, or a message more has come out.
Kept(n, c, n1, c1, b) ==
    /\ Places(output') = Told(sent, n1) /\ Places(message') = Span(n1 + 1, 1, c1 * MaxChunkBody)
    /\ output' \in Seq(Bodies) /\ message' \in Seq(Bodies) /\ failed' \in BOOLEAN

LEMMA BodyKept ==
    ASSUME Shaped, NEW n, NEW c, Reached(n, c), n < Len(sent),
           NEW d, NEW l, NEW n1, NEW c1, Turn(sent, n, c, d, l, n1, c1), final = l,
           NEW b \in Bytes, NEW right, Keep(b, right, final),
           Places(b) = Span(n + 1, c * MaxChunkBody + 1, c * MaxChunkBody + d)
    PROVE  Kept(n, c, n1, c1, b)
<1> DEFINE e == c * MaxChunkBody
           m == n + 1
<1>1. /\ d \in 1..MaxChunkBody /\ l \in {TRUE, FALSE} /\ Within(sent, n1, c1) /\ e \in Nat
      /\ l = TRUE => n1 = m /\ c1 = 0 /\ e + d = sent[m]
      /\ l = FALSE => n1 = n /\ c1 = c + 1 /\ (c + 1) * MaxChunkBody = e + d
    BY DEF Turn
<1>2. sent \in Lengths /\ output \in Seq(Bodies) /\ message \in Seq(Bodies) /\ failed \in BOOLEAN
    BY SizesAre DEF Shaped
<1>3. Within(sent, n, c) /\ Places(output) = Told(sent, n) /\ Places(message) = Span(m, 1, e)
    BY DEF Reached
<1>4. m \in Int /\ n \in Nat
    <2>1. m \in Int BY <1>2, <1>3, LeftType
    <2>2. n \in 0..Len(sent) BY <1>3 DEF Within
    <2> QED BY <2>1, <2>2
<1>5. d \in Nat /\ e + d \in Nat /\ e <= e + d
    <2>1. MaxChunkBody \in Nat BY SizeAssumption
    <2>2. d \in Nat BY <1>1, <2>1
    <2> HIDE DEF e
    <2> QED BY <1>1, <2>2
<1>6. Places(b) = Span(m, e + 1, e + d) OBVIOUS
<1>7. failed' \in BOOLEAN
    <2>1. failed' = (failed \/ ~right) BY DEF Keep
    <2> QED BY <2>1
<1>8. IF final
      THEN output' = (output \o message) \o b /\ message' = <<>>
      ELSE message' = message \o b /\ output' = output
    BY DEF Keep
<1> HIDE DEF e
<1>9. m = n + 1 OBVIOUS
<1> HIDE DEF m
<1>10. Span(m, 1, e) \o Span(m, e + 1, e + d) = Span(m, 1, e + d) BY <1>1, <1>4, <1>5, SpanConcat
<1>11. b \in Seq(Bodies)
    <2> DEFINE a == e + 1
               z == e + d
    <2>1. z - a + 1 \in Nat BY <1>1, <1>5
    <2>2. Places(b) = Span(m, a, z) BY <1>6
    <2> HIDE DEF a, z
    <2> QED BY <2>1, <2>2, BodyPlaces
<1>12. output \in Bytes /\ message \in Bytes BY <1>2, BodiesAreBytes
<1>13. CASE l = TRUE
    <2>1. output' = (output \o message) \o b /\ message' = <<>> BY <1>8, <1>13
    <2>2. output \o message \in Bytes /\ Places(output \o message) = Places(output) \o Places(message)
        BY <1>12, PlacesConcat
    <2> DEFINE u == output \o message
    <2>3. u \in Bytes /\ u \in Seq(Bodies) BY <1>2, <2>2, ConcatProperties
    <2>4. Places(u) = Told(sent, n) \o Span(m, 1, e) BY <1>3, <2>2
    <2>5. output' = u \o b BY <2>1
    <2> HIDE DEF u
    <2>6. Places(u \o b) = Places(u) \o Places(b) /\ u \o b \in Seq(Bodies)
        BY <1>11, <2>3, PlacesConcat, ConcatProperties
    <2>7. /\ Told(sent, n) \in Seq(Place) /\ Span(m, 1, sent[m]) \in Seq(Place)
          /\ Told(sent, n + 1) = Told(sent, n) \o Span(m, 1, sent[m])
        BY <1>2, <1>4, <1>9, ToldNext
    <2>8. Span(m, 1, e) \in Seq(Place) /\ Span(m, e + 1, e + d) \in Seq(Place)
        BY <1>3, <1>6, <1>12, PlacesType
    <2>9. Regroups(Told(sent, n), Span(m, 1, e), Span(m, e + 1, e + d)) BY <2>7, <2>8, Regrouped
    <2>10. e + d = sent[m] /\ n1 = n + 1 /\ c1 = 0 BY <1>1, <1>9, <1>13
    <2>11. Places(output') = Told(sent, n1)
        BY <1>6, <1>10, <2>4, <2>5, <2>6, <2>7, <2>9, <2>10 DEF Regroups
    <2>12. Places(message') = Span(n1 + 1, 1, c1 * MaxChunkBody) /\ message' \in Seq(Bodies)
        <3>1. c1 * MaxChunkBody = 0
            <4>1. MaxChunkBody \in Nat BY SizeAssumption
            <4> QED BY <2>10, <4>1
        <3>2. Span(n1 + 1, 1, 0) = <<>> BY DEF Span
        <3>3. Places(<<>>) = <<>> BY DEF Places
        <3> QED BY <2>1, <3>1, <3>2, <3>3, EmptySeq
    <2> QED BY <1>7, <2>5, <2>6, <2>11, <2>12 DEF Kept
<1>14. CASE l = FALSE
    <2>1. message' = message \o b /\ output' = output BY <1>8, <1>14
    <2>2. message \o b \in Seq(Bodies) /\ Places(message \o b) = Places(message) \o Places(b)
        BY <1>2, <1>11, <1>12, PlacesConcat, ConcatProperties
    <2>3. n1 = n /\ c1 = c + 1 /\ (c + 1) * MaxChunkBody = e + d BY <1>1, <1>14
    <2>4. Places(message') = Span(n1 + 1, 1, c1 * MaxChunkBody)
        BY <1>3, <1>6, <1>9, <1>10, <2>1, <2>2, <2>3
    <2> QED BY <1>2, <1>3, <1>7, <2>1, <2>2, <2>3, <2>4 DEF Kept
<1> QED BY <1>1, <1>13, <1>14

\* Nothing came out, or a message more.
Advances(n, n1) == (output' = output /\ n1 = n) \/ n1 = n + 1

\* What is taken in of the input: a body and a checksum, of the next chunk.
Found(n, c, d, n1, c1) ==
    /\ First(input, size) \in Bytes /\ First(Rest(input, size), ChecksumSize) \in Bytes
    /\ Rest(input, size + ChecksumSize) \in Bytes
    /\ Places(First(input, size)) = Span(n + 1, c * MaxChunkBody + 1, c * MaxChunkBody + d)
    /\ Places(First(Rest(input, size), ChecksumSize)) = Sum(n + 1, c * MaxChunkBody)
    /\ Places(Rest(input, size + ChecksumSize) \o stream) = Places(Left(sent, n1, c1))

LEMMA BodyFound ==
    ASSUME Straight, ReadBody, NEW n, NEW c, Reached(n, c)
    PROVE  /\ n < Len(sent)
           /\ \E d, l, n1, c1 : /\ Turn(sent, n, c, d, l, n1, c1) /\ size = d /\ final = l
                               /\ Found(n, c, d, n1, c1)
<1>1. Shaped BY DEF Straight
<1>2. size > 0 /\ Len(input) >= size + ChecksumSize BY DEF ReadBody, Ready
<1>4. /\ input \in Bytes /\ stream \in Bytes /\ sent \in Lengths /\ sent \in Sizes
      /\ size \in 0..MaxChunkBody /\ final \in BOOLEAN
    BY <1>1, SizesAre DEF Shaped
<1>5. Within(sent, n, c) BY DEF Reached
<1>6. ChecksumSize \in Nat /\ Len(input) \in Nat /\ size \in Nat /\ size # 0 /\ MaxChunkBody \in Nat
    <2>1. MaxChunkBody \in Nat BY SizeAssumption
    <2> QED BY <1>2, <1>4, <2>1, BoundsAssumption, PlacesType
<1> DEFINE w == input \o stream
           L == Left(sent, n, c)
           h == HeaderBytes(size, final)
<1>7. w \in Bytes /\ h \in Bytes /\ Len(h) = HeaderSize /\ Seen = h
    BY <1>4, <1>6, ConcatProperties, HeaderType DEF Bytes, Seen
<1>8. Places(h \o w) = Places(L) BY <1>7 DEF Reached
<1> HIDE DEF h
<1>9. h \o w \in Bytes /\ Places(h \o w) = Places(h) \o Places(w)
    <2> HIDE DEF w
    <2> QED BY <1>7, PlacesConcat
<1>10. h \o w # <<>>
    <2>1. Len(h \o w) = Len(h) + Len(w) /\ Len(w) \in Nat
        <3> HIDE DEF w
        <3> QED BY <1>7, ConcatProperties, PlacesType DEF Bytes
    <2>2. Len(h \o w) # 0 BY <1>7, <2>1 DEF HeaderSize
    <2> QED BY <1>9, <2>2, EmptySeq DEF Bytes
<1>11. n < Len(sent) BY <1>4, <1>5, <1>8, <1>9, <1>10, SomethingLeft
<1>12. PICK d, l, n1, c1 : Turn(sent, n, c, d, l, n1, c1) BY <1>4, <1>5, <1>11, LeftNext
<1> DEFINE e == c * MaxChunkBody
           t == Left(sent, n1, c1)
           p == Span(n + 1, e + 1, e + d)
           q == Sum(n + 1, e)
           x == p \o (q \o Places(t))
<1>13. /\ d \in 1..MaxChunkBody /\ l \in {TRUE, FALSE} /\ Within(sent, n1, c1) /\ e \in Nat
       /\ l = TRUE => n1 = n + 1
       /\ l = FALSE => n1 = n
       /\ Starts(L, d, l, p, q, t)
    BY <1>12 DEF Turn
<1>14. d \in Nat BY <1>6, <1>13
<1>15. t \in Bytes /\ Places(t) \in Seq(Place) BY <1>4, <1>13, LeftType, PlacesType
<1>16. q \in Seq(Place) /\ Len(q) = ChecksumSize
    <2> DEFINE m == n + 1
    <2>1. m \in Int BY <1>4, <1>5, <1>11, LeftType
    <2> HIDE DEF m, e
    <2>2. Sum(m, e) \in Seq(Place) /\ Len(Sum(m, e)) = ChecksumSize BY <1>13, <2>1, SumType
    <2> QED BY <2>2 DEF m
<1>17. p \in Seq(Place) /\ Len(p) = d
    <2> DEFINE a == e + 1
               b == e + d
               m == n + 1
    <2>1. a \in Int /\ b \in Int /\ d = b - a + 1 BY <1>13, <1>14
    <2>2. m \in Int BY <1>4, <1>5, <1>11, LeftType
    <2> HIDE DEF a, b, m
    <2>3. Span(m, a, b) \in Seq(Place) /\ Len(Span(m, a, b)) = d BY <1>14, <2>1, <2>2, SpanType
    <2> QED BY <2>3 DEF a, b, m
<1>18. Places(L) = Places(HeaderBytes(d, l)) \o x BY <1>13 DEF Starts
<1>19. Places(w) \in Seq(Place)
    <2> HIDE DEF w
    <2> QED BY <1>7, PlacesType
<1>20. x \in Seq(Place)
    <2> HIDE DEF p, q, t
    <2>1. q \o Places(t) \in Seq(Place) BY <1>15, <1>16, ConcatProperties
    <2> QED BY <1>17, <2>1, ConcatProperties
<1>21. size = d /\ Mark(final) = Mark(l) /\ Places(w) = x
    <2> DEFINE v == h \o w
               y == Places(w)
    <2>1. Begins(v, size, final, y) BY <1>9 DEF Begins, h
    <2>2. Begins(v, d, l, x) BY <1>8, <1>18 DEF Begins
    <2>3. y \in Seq(Place) BY <1>19
    <2> HIDE DEF v, y, x
    <2>4. size = d /\ Mark(final) = Mark(l) /\ y = x BY <1>6, <1>14, <1>20, <2>1, <2>2, <2>3, HeaderSame
    <2> QED BY <2>4 DEF y
<1>22. final = l
    <2>1. final \in {TRUE, FALSE} BY <1>4
    <2> QED BY <1>13, <1>21, <2>1, MarkSame
<1> DEFINE b == First(input, size)
           r == Rest(input, size + ChecksumSize)
           k == First(Rest(input, size), ChecksumSize)
<1>23. /\ b \in Bytes /\ r \in Bytes /\ k \in Bytes
       /\ Places(b) = p /\ Places(k) = q /\ Places(r \o stream) = Places(t)
    <2> DEFINE y == Places(t)
    <2>1. InThree(input \o stream, p, q, y) BY <1>21 DEF InThree
    <2>4. y \in Seq(Place) BY <1>15
    <2>2. size + ChecksumSize <= Len(input) BY <1>2, <1>6
    <2> HIDE DEF p, q, t, y
    <2>3. Len(p) = size BY <1>17, <1>21
    <2>5. /\ b \in Bytes /\ r \in Bytes /\ k \in Bytes
          /\ Places(b) = p /\ Places(k) = q /\ Leaves(r, stream, y)
        BY <1>4, <1>6, <1>16, <1>17, <2>1, <2>2, <2>3, <2>4, BodyTaken
    <2> QED BY <2>5 DEF Leaves, y
<1>24. Found(n, c, d, n1, c1) BY <1>23 DEF Found
<1> QED BY <1>11, <1>12, <1>21, <1>22, <1>24

\* The next body is taken in.
LEMMA BodyStep ==
    ASSUME Straight, ReadBody, NEW n, NEW c, Reached(n, c)
    PROVE  \E n1, c1 : Reached(n1, c1)' /\ Advances(n, n1) /\ Shaped'
<1>1. Shaped BY DEF Straight
<1>2. PICK right : Keep(First(input, size), right, final) BY DEF ReadBody
<1>3. /\ input' = Rest(input, size + ChecksumSize) /\ size' = 0 /\ final' = FALSE
      /\ sent' = sent /\ stream' = stream
    BY DEF ReadBody
<1>4. stream \in Bytes /\ sent \in Sizes BY <1>1 DEF Shaped
<1>5. n < Len(sent) BY BodyFound
<1>6. PICK d, l, n1, c1 : /\ Turn(sent, n, c, d, l, n1, c1) /\ size = d /\ final = l
                          /\ Found(n, c, d, n1, c1)
    BY BodyFound
<1>7. /\ l \in {TRUE, FALSE} /\ Within(sent, n1, c1)
      /\ l = TRUE => n1 = n + 1
      /\ l = FALSE => n1 = n
    BY <1>6 DEF Turn
<1> DEFINE b == First(input, size)
           r == Rest(input, size + ChecksumSize)
<1>8. /\ b \in Bytes /\ r \in Bytes
      /\ Places(b) = Span(n + 1, c * MaxChunkBody + 1, c * MaxChunkBody + d)
      /\ Places(r \o stream) = Places(Left(sent, n1, c1))
    BY <1>6 DEF Found
<1>9. Keep(b, right, final) /\ input' = r BY <1>2, <1>3
<1> HIDE DEF b, r
<1>10. Kept(n, c, n1, c1, b) BY <1>1, <1>5, <1>6, <1>8, <1>9, BodyKept
<1>11. Places(Seen' \o (input' \o stream')) = Places(Left(sent, n1, c1))
    <2>1. Seen' = <<>> BY <1>3 DEF Seen
    <2>2. r \o stream \in Bytes BY <1>4, <1>8, ConcatProperties DEF Bytes
    <2>3. <<>> \o (r \o stream) = r \o stream BY <2>2, ConcatEmptySeq DEF Bytes
    <2> QED BY <1>3, <1>8, <1>9, <2>1, <2>3
<1>12. Reached(n1, c1)'
    <2>1. Places(output') = Told(sent', n1) /\ Places(message') = Span(n1 + 1, 1, c1 * MaxChunkBody)
        BY <1>3, <1>10 DEF Kept
    <2>2. Within(sent', n1, c1) BY <1>3, <1>7
    <2>3. Places(Seen' \o (input' \o stream')) = Places(Left(sent', n1, c1)) BY <1>3, <1>11
    <2> QED BY <2>1, <2>2, <2>3 DEF Reached
<1>13. Shaped'
    <2>1. output' \in Seq(Bodies) /\ message' \in Seq(Bodies) /\ failed' \in BOOLEAN BY <1>10 DEF Kept
    <2>2. 0 \in 0..MaxChunkBody
        <3>1. MaxChunkBody \in Nat BY SizeAssumption
        <3> QED BY <3>1
    <2> QED BY <1>3, <1>4, <1>8, <1>9, <2>1, <2>2 DEF Shaped
<1>14. Advances(n, n1)
    <2>1. CASE l = TRUE BY <1>7, <2>1 DEF Advances
    <2>2. CASE l = FALSE
        <3>1. output' = output BY <1>6, <1>9, <2>2 DEF Keep
        <3> QED BY <1>7, <2>2, <3>1 DEF Advances
    <2> QED BY <1>7, <2>1, <2>2
<1> QED BY <1>12, <1>13, <1>14

LEMMA ReadBodyStep ==
    ASSUME Straight, ReadBody
    PROVE  Straight'
<1>1. PICK n, c : Reached(n, c) BY DEF Straight, Somewhere
<1>2. \E n1, c1 : Reached(n1, c1)' /\ Advances(n, n1) /\ Shaped' BY <1>1, BodyStep
<1> QED BY <1>2 DEF Straight, Somewhere

-----------------------------------------------------------------------------
(* What holds at all times. *)

\* What a header is read as.
LEMMA HeaderRead ==
    ASSUME Typed, Ready, size = 0
    PROVE  /\ Rest(input, HeaderSize) \in Bytes /\ Rest(input, HeaderSize + ChecksumSize) \in Bytes
           /\ \A h \in Headers(First(input, HeaderSize)) : h[1] \in Int /\ h[2] \in BOOLEAN
<1> DEFINE f == First(input, HeaderSize)
<1>1. input \in Bytes /\ Len(input) \in Nat /\ ChecksumSize \in Nat /\ HeaderSize \in Nat /\ HeaderSize = 2
    BY BoundsAssumption, PlacesType DEF Typed, HeaderSize
<1>2. Len(input) >= HeaderSize + ChecksumSize BY DEF Ready
<1>3. HeaderSize <= Len(input) /\ HeaderSize + ChecksumSize \in Nat BY <1>1, <1>2
<1>4. f \in Bytes /\ Len(f) = 2 BY <1>1, <1>3, PlacesParts
<1>5. Rest(input, HeaderSize) \in Bytes BY <1>1, <1>3, PlacesParts
<1>6. Rest(input, HeaderSize + ChecksumSize) \in Bytes BY <1>1, <1>3, FirstRest DEF Bytes
<1> HIDE DEF f
<1>7. f[1] \in Byte BY <1>4, PlacesType
<1>8. f[1].of[1] \in Int BY <1>7 DEF Byte
<1>9. ASSUME NEW h \in Headers(f) PROVE h[1] \in Int /\ h[2] \in BOOLEAN
    <2>1. CASE Whole(f)
        <3> DEFINE k == f[1].of[1]
                   l == (f[1].of[2] = 1)
        <3>1. h = <<k, l>> BY <2>1 DEF Headers
        <3>2. k \in Int /\ l \in BOOLEAN BY <1>8
        <3> HIDE DEF k, l
        <3>3. h[1] = k /\ h[2] = l BY <3>1, Zenon
        <3> QED BY <3>2, <3>3
    <2>2. CASE ~Whole(f)
        <3>1. h \in WrongSize \X BOOLEAN BY <2>2 DEF Headers
        <3>2. h[1] \in WrongSize /\ h[2] \in BOOLEAN BY <3>1
        <3> QED BY <3>2, BoundsAssumption
    <2> QED BY <2>1, <2>2
<1> QED BY <1>5, <1>6, <1>9 DEF f

\* What is kept of a chunk is bytes.
LEMMA KeepTyped ==
    ASSUME Typed, NEW b \in Bytes, NEW right, NEW last, Keep(b, right, last)
    PROVE  message' \in Bytes /\ output' \in Bytes /\ failed' \in BOOLEAN
<1>1. output \in Bytes /\ message \in Bytes BY DEF Typed
<1>2. <<>> \in Bytes BY EmptySeq DEF Bytes
<1>3. output \o message \in Bytes /\ message \o b \in Bytes BY <1>1, ConcatProperties DEF Bytes
<1>4. (output \o message) \o b \in Bytes BY <1>3, ConcatProperties DEF Bytes
<1>5. \/ output' = (output \o message) \o b /\ message' = <<>>
      \/ message' = message \o b /\ output' = output
    BY DEF Keep
<1>6. failed' \in BOOLEAN
    <2>1. failed' = (failed \/ ~right) BY DEF Keep
    <2> QED BY <2>1
<1> QED BY <1>1, <1>2, <1>3, <1>4, <1>5, <1>6

\* The types of what comes and goes.
LEMMA TypedStep ==
    ASSUME Typed, [Next]_vars
    PROVE  Typed'
<1>1. CASE Send
    <2>1. PICK d \in Size : sent' = Append(sent, d) /\ stream' = stream \o Chunks(Len(sent) + 1, d)
        BY <1>1 DEF Send
    <2>2. UNCHANGED <<input, size, final, message, output, failed, astray>> BY <1>1 DEF Send, reader
    <2>3. d \in Nat \ {0} /\ sent \in Sizes /\ sent \in Lengths BY SizeAssumption, SizesAre DEF Typed
    <2>4. Append(sent, d) \in Sizes BY <2>3, AppendProperties DEF Sizes
    <2>5. Chunks(Len(sent) + 1, d) \in Bytes BY <2>3, AllAppend
    <2>6. stream' \in Bytes
        <3> DEFINE y == Chunks(Len(sent) + 1, d)
        <3>1. y \in Bytes /\ stream \in Bytes /\ stream' = stream \o y BY <2>1, <2>5 DEF Typed
        <3> HIDE DEF y
        <3> QED BY <3>1, ConcatProperties DEF Bytes
    <2> QED BY <2>1, <2>2, <2>4, <2>6 DEF Typed
<1>2. CASE Input
    <2>1. PICK k \in 1..Len(stream) : input' = input \o First(stream, k) /\ stream' = Rest(stream, k)
        BY <1>2 DEF Input
    <2>2. UNCHANGED <<sent, size, final, message, output, failed, astray>> BY <1>2 DEF Input
    <2>3. input \in Bytes /\ stream \in Bytes BY DEF Typed
    <2>4. k \in Nat /\ k <= Len(stream) BY <2>3, PlacesType
    <2>5. First(stream, k) \in Bytes /\ Rest(stream, k) \in Bytes BY <2>3, <2>4, PlacesParts
    <2>6. input' \in Bytes BY <2>1, <2>3, <2>5, ConcatProperties DEF Bytes
    <2> QED BY <2>1, <2>2, <2>5, <2>6 DEF Typed
<1>3. CASE ReadHeader
    <2>1. size = 0 /\ Ready /\ input' = Rest(input, HeaderSize) BY <1>3 DEF ReadHeader
    <2>2. UNCHANGED <<sent, stream, message, output, failed>> BY <1>3 DEF ReadHeader
    <2>3. PICK h \in Headers(First(input, HeaderSize)) : h[1] > 0 /\ size' = h[1] /\ final' = h[2]
        BY <1>3 DEF ReadHeader
    <2>4. input' \in Bytes /\ h[1] \in Int /\ h[2] \in BOOLEAN BY <2>1, <2>3, HeaderRead
    <2>5. size' \in Nat /\ size' # 0 /\ final' \in BOOLEAN BY <2>3, <2>4
    <2>6. astray' \in BOOLEAN BY <1>3 DEF ReadHeader
    <2> QED BY <2>2, <2>4, <2>5, <2>6 DEF Typed
<1>4. CASE ReadEmpty
    <2>1. size = 0 /\ Ready /\ input' = Rest(input, HeaderSize + ChecksumSize) BY <1>4 DEF ReadEmpty
    <2>2. UNCHANGED <<sent, stream, size, final>> BY <1>4 DEF ReadEmpty
    <2>3. PICK right, last : Keep(<<>>, right, last) BY <1>4 DEF ReadEmpty
    <2>4. <<>> \in Bytes BY EmptySeq DEF Bytes
    <2>5. message' \in Bytes /\ output' \in Bytes /\ failed' \in BOOLEAN BY <2>3, <2>4, KeepTyped
    <2>6. input' \in Bytes BY <2>1, HeaderRead
    <2>7. astray' \in BOOLEAN BY <1>4 DEF ReadEmpty
    <2> QED BY <2>2, <2>5, <2>6, <2>7 DEF Typed
<1>5. CASE ReadBody
    <2>1. input' = Rest(input, size + ChecksumSize) /\ size' = 0 /\ final' = FALSE BY <1>5 DEF ReadBody
    <2>2. UNCHANGED <<sent, stream, astray>> BY <1>5 DEF ReadBody
    <2>3. PICK right : Keep(First(input, size), right, final) BY <1>5 DEF ReadBody
    <2>4. input \in Bytes /\ size \in Nat /\ ChecksumSize \in Nat BY BoundsAssumption DEF Typed
    <2>5. size + ChecksumSize \in Nat BY <2>4
    <2>6. First(input, size) \in Bytes /\ input' \in Bytes BY <2>1, <2>4, <2>5, FirstRest DEF Bytes
    <2>7. message' \in Bytes /\ output' \in Bytes /\ failed' \in BOOLEAN BY <2>3, <2>6, KeepTyped
    <2> QED BY <2>1, <2>2, <2>6, <2>7 DEF Typed
<1>6. CASE Spoil
    <2>1. PICK i \in 1..Len(stream) : stream' = [stream EXCEPT ![i].good = FALSE] BY <1>6 DEF Spoil
    <2>2. UNCHANGED <<sent, input, size, final, message, output, failed, astray>> BY <1>6 DEF Spoil, reader
    <2>3. stream' \in Bytes BY <2>1, PlacesSpoiled DEF Typed
    <2> QED BY <2>2, <2>3 DEF Typed
<1>7. CASE Restart BY <1>7 DEF Restart, Typed
<1>8. CASE UNCHANGED vars BY <1>8 DEF vars, reader, Typed
<1> QED BY <1>1, <1>2, <1>3, <1>4, <1>5, <1>6, <1>7, <1>8 DEF Next, Read

-----------------------------------------------------------------------------
(* The invariant holds. *)

\* Nothing was sent, and nothing is there to be read.
LEMMA IInvInit == Init => IInv
<1> SUFFICES ASSUME Init PROVE IInv OBVIOUS
<1>1. /\ sent = <<>> /\ stream = <<>> /\ input = <<>> /\ size = 0 /\ final = FALSE
      /\ message = <<>> /\ output = <<>> /\ failed = FALSE /\ astray = FALSE
    BY DEF Init
<1>2. <<>> \in Sizes /\ <<>> \in Bytes /\ <<>> \in Seq(Bodies) /\ Len(<<>>) = 0 BY EmptySeq DEF Sizes, Bytes
<1>3. MaxChunkBody \in Nat /\ 0 \in 0..MaxChunkBody BY SizeAssumption
<1>4. Shaped BY <1>1, <1>2, <1>3 DEF Shaped
<1>5. Within(sent, 0, 0) BY <1>1, <1>2 DEF Within
<1>6. Places(<<>>) = <<>> BY DEF Places
<1>7. Told(sent, 0) = <<>> BY ToldNothing
<1>8. Span(0 + 1, 1, 0 * MaxChunkBody) = <<>>
    <2>1. 0 * MaxChunkBody = 0 BY <1>3
    <2>2. Span(0 + 1, 1, 0) = <<>> BY DEF Span
    <2> QED BY <2>1, <2>2
<1>9. Left(sent, 0, 0) = <<>> BY <1>1, <1>2 DEF Left
<1>10. Seen \o (input \o stream) = <<>>
    <2>1. Seen = <<>> BY <1>1 DEF Seen
    <2>2. <<>> \o <<>> = <<>> BY <1>2, ConcatEmptySeq DEF Bytes
    <2> QED BY <1>1, <2>1, <2>2
<1>11. Reached(0, 0) BY <1>1, <1>5, <1>6, <1>7, <1>8, <1>9, <1>10 DEF Reached
<1>12. Typed BY <1>1, <1>2 DEF Typed
<1> QED BY <1>4, <1>11, <1>12 DEF IInv, Straight, Somewhere

\* A reader that is astray stays so.
LEMMA OnceAstray ==
    ASSUME Typed, [Next]_vars, astray' = FALSE
    PROVE  astray = FALSE
<1>1. astray \in BOOLEAN BY DEF Typed
<1>2. astray' = astray \/ astray' = (astray \/ ~Whole(First(input, HeaderSize)))
    BY DEF Next, Read, Send, Input, ReadHeader, ReadEmpty, ReadBody, Spoil, Restart, vars, reader
<1> QED BY <1>1, <1>2

\* Every action of the two stages keeps it.
LEMMA IInvStep == IInv /\ [Next]_vars => IInv'
<1> SUFFICES ASSUME IInv, [Next]_vars PROVE IInv' OBVIOUS
<1>9. Typed' BY TypedStep DEF IInv
<1> SUFFICES ASSUME astray' = FALSE PROVE Straight' BY <1>9 DEF IInv
<1>0. Straight BY OnceAstray DEF IInv
<1>1. CASE Send BY <1>0, <1>1, SendStep
<1>2. CASE Input BY <1>0, <1>2, InputStep
<1>3. CASE ReadHeader BY <1>0, <1>3, ReadHeaderStep
<1>4. CASE ReadEmpty BY <1>0, <1>4, NoneEmpty
<1>5. CASE ReadBody BY <1>0, <1>5, ReadBodyStep
<1>6. CASE Spoil BY <1>0, <1>6, SpoilStep
<1>7. CASE Restart BY <1>0, <1>7, RestartStep
<1>8. CASE UNCHANGED vars
    <2>1. UNCHANGED <<sent, stream, input, size, final, message, output, failed>> BY <1>8 DEF vars, reader
    <2>2. Shaped' BY <1>0, <2>1 DEF Straight, Shaped
    <2>3. PICK n, c : Reached(n, c) BY <1>0 DEF Straight, Somewhere
    <2>4. Reached(n, c)' BY <2>1, <2>3 DEF Reached, Seen
    <2> QED BY <2>2, <2>4 DEF Straight, Somewhere
<1> QED BY <1>1, <1>2, <1>3, <1>4, <1>5, <1>6, <1>7, <1>8 DEF Next, Read

\* However the stream is cut up and whatever bytes are spoiled on the way, until
\* a header that was spoiled is read the reader is at some chunk, and has before
\* it all the chunks from there on: the inductive invariant of both stages.
THEOREM IInvAlways == Spec => []IInv
BY IInvInit, IInvStep, PTL DEF Spec

\* The bytes of the first messages.
LEMMA ToldAll ==
    ASSUME sent \in Lengths, NEW n \in 0..Len(sent)
    PROVE  Told(sent, n) = BytesOf(n)
<1>1. ASSUME NEW m \in 1..n PROVE Span(m, 1, sent[m]) = [i \in 1..sent[m] |-> <<"body", <<m, i>>>>]
    <2>1. m \in 1..Len(sent) /\ m \in Int BY LenProperties DEF Lengths
    <2> DEFINE z == sent[m]
    <2>2. z \in Nat BY <2>1, ElementOfSeq DEF Lengths
    <2> HIDE DEF z
    <2>3. 1..(z - 1 + 1) = 1..z /\ \A i \in 1..z : 1 + i - 1 = i BY <2>2
    <2>4. Span(m, 1, z) = [i \in 1..z |-> <<"body", <<m, 1 + i - 1>>>>] BY <2>3 DEF Span
    <2>5. [i \in 1..z |-> <<"body", <<m, 1 + i - 1>>>>] = [i \in 1..z |-> <<"body", <<m, i>>>>] BY <2>3
    <2> QED BY <2>4, <2>5 DEF z
<1>2. [m \in 1..n |-> Span(m, 1, sent[m])] = [m \in 1..n |-> [i \in 1..sent[m] |-> <<"body", <<m, i>>>>]]
    BY <1>1
<1> QED BY <1>2 DEF Told, BytesOf

\* The reader has put out what Got says.
LEMMA GotIs ==
    ASSUME Shaped, NEW n, NEW c, Reached(n, c)
    PROVE  Got = n /\ n \in 0..Len(sent) /\ Places(output) = BytesOf(n)
<1>1. n \in 0..Len(sent) /\ Places(output) = Told(sent, n) BY DEF Reached, Within
<1>2. sent \in Lengths BY SizesAre DEF Shaped
<1>3. output \in Bytes BY BodiesAreBytes DEF Shaped
<1>4. LastOf(output) = n BY <1>1, <1>2, <1>3, LastIs
<1>5. Got = LastOf(output) BY DEF Got, LastOf
<1> QED BY <1>1, <1>2, <1>4, <1>5, ToldAll

\* What the properties say follows from the invariant.
LEMMA IInvType == IInv => TypeOK
<1> SUFFICES ASSUME IInv PROVE TypeOK OBVIOUS
<1>1. Typed BY DEF IInv
<1>2. \A i \in DOMAIN sent : sent[i] \in Size
    <2>1. sent \in Seq(Size) BY <1>1 DEF Typed, Sizes
    <2> QED BY <2>1, LenProperties, ElementOfSeq
<1>3. ASSUME NEW s \in Seq(Bodies), NEW i \in DOMAIN s PROVE s[i].part = "body"
    <2>1. s[i] \in Bodies BY <1>3, LenProperties, ElementOfSeq
    <2> QED BY <2>1 DEF Bodies
<1>4. /\ size \in Nat /\ final \in BOOLEAN /\ failed \in BOOLEAN /\ astray \in BOOLEAN
      /\ size = 0 => final = FALSE
    BY <1>1 DEF Typed
<1>5. ASSUME astray = FALSE
      PROVE  message \in Seq(Bodies) /\ output \in Seq(Bodies) /\ size <= MaxChunkBody
    <2>1. Shaped BY <1>5 DEF IInv, Straight
    <2>2. MaxChunkBody \in Nat BY SizeAssumption
    <2> QED BY <2>1, <2>2 DEF Shaped
<1> QED BY <1>2, <1>3, <1>4, <1>5 DEF TypeOK

LEMMA IInvWhole == IInv => WholeMessages
<1> SUFFICES ASSUME IInv, ~astray PROVE Got \in 0..Len(sent) /\ Places(output) = BytesOf(Got)
    BY DEF WholeMessages
<1>1. Shaped /\ Somewhere BY DEF IInv, Typed, Straight
<1>2. PICK n, c : Reached(n, c) BY <1>1 DEF Somewhere
<1> QED BY <1>1, <1>2, GotIs

\* What the two stages keep has its types at all times.
THEOREM CuttingTypeCorrect == Spec => []TypeOK
BY IInvAlways, IInvType, PTL

\* For messages and chunks of any size, every cutting of the stream and whatever
\* bodies and checksums are spoiled, what came out is a number of whole messages
\* in order, until a header that was spoiled is read: its size and last-mark are
\* covered by no checksum, and nothing is said of what comes out behind it.
THEOREM AlwaysWholeMessages == Spec => []WholeMessages
BY IInvAlways, IInvWhole, PTL

-----------------------------------------------------------------------------
(* What is spoiled. *)

\* A sequence of two is spoiled as either of them is.
LEMMA SpoiledConcat ==
    ASSUME NEW s \in Bytes, NEW b \in Bytes
    PROVE  Spoiled(s \o b) = {} <=> Spoiled(s) = {} /\ Spoiled(b) = {}
<1> DEFINE u == s \o b
<1>1. /\ u \in Bytes /\ Len(u) = Len(s) + Len(b)
      /\ \A i \in 1..Len(s) + Len(b) : u[i] = IF i <= Len(s) THEN s[i] ELSE b[i - Len(s)]
    BY ConcatProperties, LenProperties DEF Bytes
<1>2. DOMAIN s = 1..Len(s) /\ DOMAIN b = 1..Len(b) /\ Len(s) \in Nat /\ Len(b) \in Nat BY PlacesType
<1> HIDE DEF u
<1>3. DOMAIN u = 1..Len(s) + Len(b) BY <1>1, PlacesType
<1>4. ASSUME NEW i \in DOMAIN s PROVE i \in DOMAIN u /\ u[i] = s[i] BY <1>1, <1>2, <1>3
<1>5. ASSUME NEW i \in DOMAIN b PROVE Len(s) + i \in DOMAIN u /\ u[Len(s) + i] = b[i]
    <2> DEFINE k == Len(s) + i
    <2>1. k \in 1..Len(s) + Len(b) /\ ~(k <= Len(s)) /\ k - Len(s) = i BY <1>2
    <2> HIDE DEF k
    <2>2. k \in DOMAIN u /\ u[k] = b[i] BY <1>1, <1>3, <2>1
    <2> QED BY <2>2 DEF k
<1>6. ASSUME NEW i \in DOMAIN u
      PROVE  (i \in DOMAIN s /\ u[i] = s[i]) \/ (i - Len(s) \in DOMAIN b /\ u[i] = b[i - Len(s)])
    BY <1>1, <1>2, <1>3
<1>7. Spoiled(u) = {} => Spoiled(s) = {} /\ Spoiled(b) = {} BY <1>4, <1>5 DEF Spoiled
<1>8. Spoiled(s) = {} /\ Spoiled(b) = {} => Spoiled(u) = {} BY <1>6 DEF Spoiled
<1> QED BY <1>7, <1>8 DEF u

\* Of a body and a checksum at the places of a chunk the checksum is found to be
\* right unless one of their bytes was spoiled.
LEMMA VerdictIs ==
    ASSUME NEW b \in Bytes, NEW k \in Bytes, NEW m \in Int, NEW e \in Nat, NEW d \in Nat \ {0},
           ChecksumSize > 0, Places(b) = Span(m, e + 1, e + d), Places(k) = Sum(m, e)
    PROVE  Verdicts(b, k) = {Spoiled(b \o k) = {}}
<1>1. /\ Len(b) \in Nat /\ Len(Places(b)) = Len(b)
      /\ \A i \in 1..Len(b) : Places(b)[i] = <<b[i].part, b[i].of>>
    BY PlacesType
<1>2. /\ DOMAIN k = 1..Len(k) /\ Len(Places(k)) = Len(k)
      /\ \A i \in 1..Len(k) : Places(k)[i] = <<k[i].part, k[i].of>>
    BY PlacesType
<1>3. /\ ChecksumSize \in Nat /\ Len(Sum(m, e)) = ChecksumSize
      /\ \A i \in 1..ChecksumSize : Sum(m, e)[i] = <<"checksum", <<m, e + 1>>>>
    BY SumType
<1>4. /\ Len(Span(m, e + 1, e + d)) = d
      /\ \A i \in 1..d : Span(m, e + 1, e + d)[i] = <<"body", <<m, (e + 1) + i - 1>>>>
    BY SpanBehind
<1>5. Len(b) = d /\ 1 \in 1..d /\ (e + 1) + 1 - 1 = e + 1 BY <1>1, <1>4
<1>6. b # <<>> /\ b[1].part = "body" /\ b[1].of = <<m, e + 1>>
    <2>1. Places(b)[1] = <<b[1].part, b[1].of>> BY <1>1, <1>5
    <2>2. Places(b)[1] = <<"body", <<m, e + 1>>>> BY <1>4, <1>5
    <2>3. b # <<>> BY <1>5
    <2> QED BY <2>1, <2>2, <2>3
<1>7. Len(k) = ChecksumSize BY <1>2, <1>3
<1>8. ASSUME NEW i \in DOMAIN k PROVE k[i].part = "checksum" /\ k[i].of = b[1].of
    <2>1. i \in 1..ChecksumSize /\ i \in 1..Len(k) BY <1>2, <1>7
    <2>2. Places(k)[i] = <<"checksum", <<m, e + 1>>>> BY <1>3, <2>1
    <2>3. Places(k)[i] = <<k[i].part, k[i].of>> BY <1>2, <2>1
    <2> QED BY <1>6, <2>2, <2>3
<1>9. ChecksumSize # 0 BY <1>3
<1> QED BY <1>6, <1>7, <1>8, <1>9 DEF Verdicts

\* What the turn that takes in a body finds of its checksum.
LEMMA BodyVerdict ==
    ASSUME Straight, ReadBody, ChecksumSize > 0
    PROVE  /\ Taken \in Bytes /\ First(input, size) \in Bytes
           /\ failed' <=> failed \/ Spoiled(Taken) # {}
           /\ Spoiled(Taken) = {} => Spoiled(First(input, size)) = {}
           /\ \E right : Keep(First(input, size), right, final)
<1>1. Shaped BY DEF Straight
<1>2. PICK n, c : Reached(n, c) BY DEF Straight, Somewhere
<1>3. n < Len(sent) BY <1>2, BodyFound
<1>4. PICK d, l, n1, c1 : /\ Turn(sent, n, c, d, l, n1, c1) /\ size = d /\ final = l
                          /\ Found(n, c, d, n1, c1)
    BY <1>2, BodyFound
<1> DEFINE b == First(input, size)
           k == First(Rest(input, size), ChecksumSize)
           e == c * MaxChunkBody
           m == n + 1
<1>5. b \in Bytes /\ k \in Bytes /\ Places(b) = Span(m, e + 1, e + d) /\ Places(k) = Sum(m, e)
    BY <1>4 DEF Found
<1>6. PICK right \in Verdicts(b, k) : Keep(b, right, final) BY DEF ReadBody
<1>7. e \in Nat /\ d \in Nat \ {0}
    <2>1. MaxChunkBody \in Nat BY SizeAssumption
    <2> QED BY <1>4, <2>1 DEF Turn
<1>8. m \in Int
    <2>1. sent \in Lengths /\ Within(sent, n, c) BY <1>1, <1>2, SizesAre DEF Shaped, Reached
    <2> QED BY <1>3, <2>1, LeftType
<1>9. Taken = b \o k
    <2>1. input \in Bytes /\ Len(input) \in Nat /\ size \in Nat /\ ChecksumSize \in Nat
        <3>1. MaxChunkBody \in Nat BY SizeAssumption
        <3> QED BY <1>1, <3>1, BoundsAssumption, PlacesType DEF Shaped
    <2>2. size + ChecksumSize <= Len(input) BY <2>1 DEF ReadBody, Ready
    <2> DEFINE z == size + ChecksumSize
               r == Rest(input, size)
    <2>3. z \in Nat /\ z <= Len(input) /\ size <= Len(input) BY <2>1, <2>2
    <2>4. input' = Rest(input, z) BY DEF ReadBody
    <2>5. Len(input') = Len(input) - z
        <3>1. Len(Rest(input, z)) = IF z < Len(input) THEN Len(input) - z ELSE 0 BY <2>1, <2>3, FirstRest DEF Bytes
        <3> HIDE DEF z
        <3> QED BY <2>1, <2>3, <2>4, <3>1
    <2>6. Taken = First(input, z)
        <3> DEFINE w == Len(input')
        <3>1. w = Len(input) - z BY <2>5
        <3> HIDE DEF w, z
        <3>2. Len(input) - w = z BY <2>1, <2>3, <3>1
        <3> QED BY <3>2 DEF Taken, w
    <2>7. r \in Bytes /\ b \o r = input /\ Len(b) = size BY <2>1, <2>3, PlacesParts
    <2>8. Len(r) = Len(input) - size
        <3>1. Len(r) = IF size < Len(input) THEN Len(input) - size ELSE 0 BY <2>1, FirstRest DEF Bytes
        <3> HIDE DEF r
        <3> QED BY <2>1, <2>3, <3>1
    <2>9. ChecksumSize <= Len(r)
        <3> HIDE DEF r
        <3> QED BY <2>1, <2>2, <2>8
    <2> DEFINE y == Rest(r, ChecksumSize)
    <2> HIDE DEF r
    <2>10. y \in Bytes /\ First(r, ChecksumSize) \o y = r /\ Len(First(r, ChecksumSize)) = ChecksumSize
        BY <2>1, <2>7, <2>9, PlacesParts
    <2>11. k = First(r, ChecksumSize) BY DEF r
    <2> HIDE DEF b, k, y, z
    <2>12. k \in Bytes /\ k \o y = r /\ Len(k) = ChecksumSize BY <1>5, <2>10, <2>11
    <2>13. Regroups(b, k, y) BY <1>5, <2>10, Regrouped DEF Bytes
    <2>14. (b \o k) \o y = input BY <2>7, <2>12, <2>13 DEF Regroups
    <2>15. b \o k \in Bytes /\ Len(b \o k) = z
        <3>1. b \o k \in Bytes /\ Len(b \o k) = Len(b) + Len(k) BY <1>5, ConcatProperties DEF Bytes
        <3> QED BY <2>7, <2>12, <3>1 DEF z
    <2> DEFINE x == b \o k
    <2>16. x \in Bytes /\ Len(x) = z /\ x \o y = input BY <2>14, <2>15
    <2> HIDE DEF x
    <2>17. First(x \o y, Len(x)) = x BY <2>10, <2>16, FirstIs DEF Bytes
    <2> QED BY <2>6, <2>16, <2>17 DEF x
<1> HIDE DEF b, k, e, m
<1>10. Verdicts(b, k) = {Spoiled(b \o k) = {}} BY <1>5, <1>7, <1>8, VerdictIs
<1>11. right = (Spoiled(b \o k) = {}) BY <1>6, <1>10
<1>12. failed' = (failed \/ ~right) BY <1>6 DEF Keep
<1>13. b \o k \in Bytes BY <1>5, ConcatProperties DEF Bytes
<1>14. Spoiled(b \o k) = {} <=> Spoiled(b) = {} /\ Spoiled(k) = {} BY <1>5, SpoiledConcat
<1> QED BY <1>5, <1>6, <1>9, <1>11, <1>12, <1>13, <1>14 DEF b

\* A header as it was put out is not spoiled.
LEMMA HeaderClean ==
    ASSUME Straight, ReadHeader, astray' = FALSE
    PROVE  Spoiled(Taken) = {}
<1>1. size = 0 /\ Ready /\ Whole(First(input, HeaderSize)) /\ input' = Rest(input, HeaderSize) BY DEF ReadHeader
<1> DEFINE f == First(input, HeaderSize)
<1>2. input \in Bytes /\ Len(input) \in Nat /\ ChecksumSize \in Nat /\ HeaderSize = 2
    BY BoundsAssumption, PlacesType DEF Straight, Shaped, HeaderSize
<1>3. Len(input) >= 2 BY <1>1, <1>2 DEF Ready
<1>4. Taken = f
    <2> DEFINE r == Rest(input, 2)
               w == Len(r)
    <2>1. w = IF 2 < Len(input) THEN Len(input) - 2 ELSE 0
        <3>1. 2 \in Nat OBVIOUS
        <3> QED BY <1>2, <3>1, FirstRest DEF Bytes
    <2>2. input' = r BY <1>1, <1>2
    <2> HIDE DEF w
    <2>3. Len(input) - w = 2
        <3> DEFINE l == Len(input)
        <3>1. l \in Nat /\ l >= 2 /\ w = IF 2 < l THEN l - 2 ELSE 0 BY <1>2, <1>3, <2>1
        <3> HIDE DEF l
        <3>2. l - w = 2 BY <3>1
        <3> QED BY <3>2 DEF l
    <2> QED BY <1>2, <2>2, <2>3 DEF Taken, w
<1> DEFINE x == [part |-> "header", of |-> <<f[1].of[1], IF f[1].of[2] = 1 THEN 1 ELSE 0>>, good |-> TRUE]
           y == [part |-> "header", of |-> <<f[1].of[1], 2>>, good |-> TRUE]
<1>5. f = <<x, y>> BY <1>1 DEF Whole, HeaderBytes
<1>6. x.good /\ y.good OBVIOUS
<1> HIDE DEF f, x, y
<1>7. DOMAIN f = 1..2 /\ f[1] = x /\ f[2] = y BY <1>5
<1>8. \A i \in DOMAIN f : f[i].good BY <1>6, <1>7
<1> QED BY <1>4, <1>8 DEF Spoiled

\* What comes in is reported of a body only.
LEMMA StepReports ==
    ASSUME IInv, [Next]_vars, ChecksumSize > 0, ~astray', input' # input
    PROVE  failed' <=> failed \/ Spoiled(Taken) # {}
<1>1. astray' = FALSE
    <2>1. Typed' BY TypedStep DEF IInv
    <2> QED BY <2>1 DEF Typed
<1>2. Straight BY <1>1, OnceAstray DEF IInv
<1>3. CASE Input
    <2>1. PICK k \in 1..Len(stream) : input' = input \o First(stream, k) BY <1>3 DEF Input
    <2>2. input \in Bytes /\ stream \in Bytes /\ Len(input) \in Nat BY <1>2, PlacesType DEF Straight, Shaped
    <2>3. k \in Nat /\ k <= Len(stream) BY <2>2, PlacesType
    <2> DEFINE f == First(stream, k)
    <2>4. f \in Bytes /\ Len(f) \in Nat BY <2>2, <2>3, PlacesParts
    <2>5. Len(input') = Len(input) + Len(f)
        <3>1. input' = input \o f BY <2>1
        <3> HIDE DEF f
        <3> QED BY <2>2, <2>4, <3>1, ConcatProperties DEF Bytes
    <2> DEFINE w == Len(input) - Len(input')
    <2>6. w \in Int /\ w <= 0 /\ w <= Len(input)
        <3> HIDE DEF f
        <3> QED BY <2>2, <2>4, <2>5
    <2>7. Taken = First(input, w) BY DEF Taken
    <2> HIDE DEF w
    <2>8. First(input, w) = <<>>
        <3> DEFINE v == IF w < Len(input) THEN w ELSE Len(input)
        <3>1. v \in Int /\ v <= 0 BY <2>2, <2>6
        <3>2. First(input, w) = SubSeq(input, 1, v) BY DEF First
        <3> HIDE DEF v
        <3>3. 1 \in Int /\ v < 1 BY <3>1
        <3>4. SubSeq(input, 1, v) = <<>> BY <3>1, <3>3, SubSeqEmpty
        <3> QED BY <3>2, <3>4
    <2>9. Spoiled(<<>>) = {} BY DEF Spoiled
    <2>10. failed' = failed BY <1>3 DEF Input
    <2> QED BY <2>7, <2>8, <2>9, <2>10
<1>4. CASE ReadHeader
    <2>1. failed' = failed BY <1>4 DEF ReadHeader
    <2>2. Spoiled(Taken) = {} BY <1>1, <1>2, <1>4, HeaderClean
    <2> QED BY <2>1, <2>2
<1>5. CASE ReadEmpty BY <1>1, <1>2, <1>5, NoneEmpty
<1>6. CASE ReadBody BY <1>2, <1>6, BodyVerdict
<1>7. CASE Send \/ Spoil \/ Restart \/ UNCHANGED vars BY <1>7 DEF Send, Spoil, Restart, vars, reader
<1> QED BY <1>3, <1>4, <1>5, <1>6, <1>7 DEF Next, Read

\* With integrity, wherever the stream is cut, a chunk is reported if and only if
\* one of the bytes taken for it was spoiled, of its body or of its checksum,
\* until a header that was spoiled is read.
THEOREM SpoilAlwaysReported == Spec => SpoilReported
<1>1. IInv /\ [Next]_vars
      => [ChecksumSize > 0 /\ ~astray' => (failed' <=> failed \/ Spoiled(Taken) # {})]_input
    BY StepReports
<1> QED BY <1>1, IInvAlways, PTL DEF Spec, SpoilReported

\* A protocol that works keeps no spoiled byte.
Clean == astray = FALSE /\ ChecksumSize > 0 /\ failed = FALSE => Spoiled(output \o message) = {}

\* What is kept of a body joins what came out and what is put together.
LEMMA KeepJoins ==
    ASSUME Shaped, NEW b \in Bytes, NEW right, Keep(b, right, final)
    PROVE  /\ output \o message \in Bytes
           /\ output' \o message' = (output \o message) \o b
<1>1. output \in Bytes /\ message \in Bytes BY BodiesAreBytes DEF Shaped
<1>2. IF final
      THEN output' = (output \o message) \o b /\ message' = <<>>
      ELSE message' = message \o b /\ output' = output
    BY DEF Keep
<1>3. output \o message \in Bytes BY <1>1, ConcatProperties DEF Bytes
<1>4. (output \o message) \o b \in Bytes BY <1>3, ConcatProperties DEF Bytes
<1>5. ((output \o message) \o b) \o <<>> = (output \o message) \o b
    <2> DEFINE u == (output \o message) \o b
    <2>1. u \in Bytes BY <1>4
    <2> HIDE DEF u
    <2>2. u \o <<>> = u BY <2>1, ConcatEmptySeq DEF Bytes
    <2> QED BY <2>2 DEF u
<1>6. Regroups(output, message, b) BY <1>1, Regrouped DEF Bytes
<1>7. output' \o message' = (output \o message) \o b
    <2>1. CASE final BY <1>2, <1>5, <2>1
    <2>2. CASE ~final BY <1>2, <1>6, <2>2 DEF Regroups
    <2> QED BY <2>1, <2>2
<1> QED BY <1>3, <1>7

\* A failure that is not taken back.
LEMMA CleanStep ==
    ASSUME MayRestart = FALSE, IInv, Clean, [Next]_vars
    PROVE  Clean'
<1> SUFFICES ASSUME astray' = FALSE, ChecksumSize > 0, failed' = FALSE
             PROVE  Spoiled(output' \o message') = {}
    BY DEF Clean, Spoiled
<1>1. astray = FALSE /\ Straight BY OnceAstray DEF IInv
<1>2. Shaped /\ failed \in BOOLEAN BY <1>1 DEF Straight, Shaped
<1>3. CASE ReadBody
    <2> DEFINE b == First(input, size)
               u == output \o message
    <2>1. /\ b \in Bytes
          /\ failed' <=> failed \/ Spoiled(Taken) # {}
          /\ Spoiled(Taken) = {} => Spoiled(b) = {}
          /\ \E right : Keep(b, right, final)
        BY <1>1, <1>3, BodyVerdict
    <2>2. failed = FALSE /\ Spoiled(b) = {} BY <1>2, <2>1
    <2>3. Spoiled(u) = {} BY <1>1, <2>2 DEF Clean
    <2>4. PICK right : Keep(b, right, final) BY <2>1
    <2>5. b \in Bytes BY <2>1
    <2> HIDE DEF b
    <2>6. u \in Bytes /\ output' \o message' = u \o b BY <1>2, <2>4, <2>5, KeepJoins
    <2> HIDE DEF u
    <2>7. Spoiled(u \o b) = {} BY <2>2, <2>3, <2>5, <2>6, SpoiledConcat
    <2> QED BY <2>6, <2>7
<1>4. CASE ReadEmpty BY <1>1, <1>4, NoneEmpty
<1>5. CASE ~ReadBody /\ ~ReadEmpty
    <2>1. ~Restart BY DEF Restart
    <2>2. UNCHANGED <<output, message, failed>>
        BY <1>5, <2>1 DEF Next, Read, Send, Input, ReadHeader, Spoil, vars, reader
    <2>3. Spoiled(output \o message) = {} BY <1>1, <2>2 DEF Clean
    <2> QED BY <2>2, <2>3
<1> QED BY <1>3, <1>4, <1>5

\* What came out is at the beginning of what is kept.
LEMMA CleanSays == IInv /\ Clean => (astray = FALSE => NothingSpoiled)
<1> SUFFICES ASSUME IInv, Clean, astray = FALSE, ChecksumSize > 0, ~failed PROVE \A i \in DOMAIN output : output[i].good
    BY DEF NothingSpoiled
<1>1. Shaped BY DEF IInv, Straight
<1>2. failed = FALSE BY <1>1 DEF Shaped
<1>3. Spoiled(output \o message) = {} BY <1>2 DEF Clean
<1>4. output \in Bytes /\ message \in Bytes BY <1>1, BodiesAreBytes DEF Shaped
<1>5. Spoiled(output) = {} BY <1>3, <1>4, SpoiledConcat
<1> QED BY <1>5 DEF Spoiled

\* What protocol.idl:37 promises of the integrity requirement holds as long as no
\* header that was spoiled is read and nobody starts a protocol that failed again
\* with its stages as they are: each of the two breaks it, the second as the run
\* cutting_restart shows.
THEOREM NothingSpoiledUnlessRestarted ==
    ASSUME MayRestart = FALSE
    PROVE  Spec => [](astray = FALSE => NothingSpoiled)
<1>1. Init => Clean
    <2> SUFFICES ASSUME Init PROVE Clean OBVIOUS
    <2>1. output = <<>> /\ message = <<>> BY DEF Init
    <2>2. <<>> \o <<>> = <<>>
        <3>1. <<>> \in Bytes BY EmptySeq DEF Bytes
        <3> QED BY <3>1, ConcatEmptySeq DEF Bytes
    <2>3. Spoiled(<<>>) = {} BY DEF Spoiled
    <2> QED BY <2>1, <2>2, <2>3 DEF Clean
<1>2. IInv /\ Clean /\ [Next]_vars => Clean' BY CleanStep
<1>3. IInv /\ Clean => (astray = FALSE => NothingSpoiled) BY CleanSays
<1> QED BY <1>1, <1>2, <1>3, IInvAlways, PTL DEF Spec

-----------------------------------------------------------------------------
(* The refinement. *)

\* Until a header that was spoiled is read each step is one of Delivery, or none
\* there.
LEMMA StepDelivers ==
    ASSUME IInv, [Next]_vars
    PROVE  D!Send \/ D!Deliver \/ astray' \/ UNCHANGED <<sent, Got>>
<1> SUFFICES ASSUME ~astray' PROVE D!Send \/ D!Deliver \/ UNCHANGED <<sent, Got>> OBVIOUS
<1>0. Straight
    <2>1. Typed' BY TypedStep DEF IInv
    <2>2. astray' = FALSE BY <2>1 DEF Typed
    <2> QED BY <2>2, OnceAstray DEF IInv
<1>1. Shaped BY <1>0 DEF Straight
<1>2. CASE Send
    <2>1. \E d \in Size : sent' = Append(sent, d) BY <1>2 DEF Send
    <2>2. output' = output BY <1>2 DEF Send, reader
    <2>3. Got' = Got BY <2>2 DEF Got
    <2> QED BY <2>1, <2>3 DEF D!Send
<1>3. CASE ReadBody
    <2>1. PICK n, c : Reached(n, c) BY <1>0 DEF Straight, Somewhere
    <2>2. PICK n1, c1 : Reached(n1, c1)' /\ Advances(n, n1) /\ Shaped' BY <1>0, <1>3, <2>1, BodyStep
    <2>3. Got = n /\ n \in 0..Len(sent) BY <1>1, <2>1, GotIs
    <2>4. sent' = sent /\ sent \in Lengths /\ Len(sent) \in Nat
        <3>1. sent \in Lengths BY <1>1, SizesAre DEF Shaped
        <3> QED BY <1>3, <3>1, LenProperties DEF ReadBody, Lengths
    <2>5. Got' = n1 /\ n1 \in 0..Len(sent)
        <3> DEFINE o == output'
        <3>1. n1 \in 0..Len(sent) /\ Places(o) = Told(sent, n1) BY <2>2, <2>4 DEF Reached, Within, Places
        <3>2. o \in Seq(Bodies) BY <2>2 DEF Shaped
        <3>3. Got' = LastOf(o) BY DEF Got, LastOf
        <3> HIDE DEF o
        <3>4. LastOf(o) = n1 BY <2>4, <3>1, <3>2, BodiesAreBytes, LastIs
        <3> QED BY <3>1, <3>3, <3>4
    <2>6. Got' = Got \/ Got' \in (Got + 1)..Len(sent) BY <2>2, <2>3, <2>4, <2>5 DEF Advances
    <2> QED BY <2>4, <2>6 DEF D!Deliver
<1>4. CASE ReadEmpty
    <2>1. astray' = FALSE
        <3>1. Typed' BY TypedStep DEF IInv
        <3> QED BY <3>1 DEF Typed
    <2> QED BY <1>0, <1>4, <2>1, NoneEmpty
<1>5. CASE ~Send /\ ~ReadBody /\ ~ReadEmpty
    <2>1. UNCHANGED <<sent, output>> BY <1>5 DEF Next, Read, Input, ReadHeader, Spoil, Restart, vars, reader
    <2>2. Got' = Got BY <2>1 DEF Got
    <2> QED BY <2>1, <2>2
<1> QED BY <1>2, <1>3, <1>4, <1>5

\* The pair of cutting stages implements Delivery until a header that was spoiled
\* is read, with the number of messages that came out whole as what has come out.
THEOREM CuttingDelivers == Spec => Delivers
<1>1. Init => D!Init
    <2> SUFFICES ASSUME Init PROVE sent = <<>> /\ Got = 0 BY DEF D!Init
    <2> QED BY DEF Init, Got
<1>2. IInv /\ [Next]_vars => [D!Send \/ D!Deliver \/ astray']_<<sent, Got>> BY StepDelivers
<1> QED BY <1>1, <1>2, IInvAlways, PTL DEF Spec, Delivers

=============================================================================
