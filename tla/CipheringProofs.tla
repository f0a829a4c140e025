-------------------------- MODULE CipheringProofs ---------------------------
(***************************************************************************)
(* That the pair of ciphering stages hands on exactly what was told it, in *)
(* order and each payload whole, for every size of chunks, keys and codes, *)
(* every cutting of the stream and any number of spoiled bytes; that the   *)
(* reader gives up only over a spoiled byte; and that, of payload, it does *)
(* what Delivery says.                                                     *)
(*                                                                         *)
(* What is enciphered is a sequence of messages, and Hears says what a     *)
(* reader that takes in whole messages hands on of one.  The writer keeps  *)
(* Telling: all of the messages say what was told.  The reader is always   *)
(* somewhere in that sequence (Reached): it has handed on what the         *)
(* messages behind it say, and what it has taken of the next one, what it  *)
(* has in its input and what is still in the stream are the bytes of all   *)
(* messages before it, but for the spoiled ones.  That it takes the next   *)
(* message for what it is, holds only if what it took is not spoiled       *)
(* (Reading); the code shows when it is.                                   *)
(***************************************************************************)
EXTENDS Ciphering, StreamLemmas

Byte == [of : Nat, at : Nat, good : BOOLEAN]
Bytes == Seq(Byte)

\* Bytes as they were sent.
Sent == [of : Nat, at : Nat, good : {TRUE}]

Body == Seq(Int)
Msg == {x \in [type : Types, body : Body] :
            x.type \in {"chunk", "last"} => Len(x.body) \in 1..MaxBody}
Said == [type : Types \cup {"payload"}, bytes : Body]

\* What a reader that takes in whole messages has handed on and keeps.
State == [heard : Seq(Said), payload : Body]
Nothing == [heard |-> <<>>, payload |-> <<>>]

\* What becomes of r with one more message.
Handed(r, x) ==
    CASE x.type = "chunk" -> [heard |-> r.heard, payload |-> r.payload \o x.body]
      [] x.type = "last"  -> [heard |-> Append(r.heard, Saying("payload", r.payload \o x.body)), payload |-> <<>>]
      [] OTHER            -> [heard |-> Append(r.heard, Saying(x.type, <<>>)), payload |-> r.payload]

Hears(ms) ==
    LET r[i \in 0..Len(ms)] == IF i = 0 THEN Nothing ELSE Handed(r[i - 1], ms[i])
    IN  r[Len(ms)]

-----------------------------------------------------------------------------
(* Hears. *)

\* f is what is heard of the first n messages of ms.
Listens(f, ms, n) == f = [i \in 0..n |-> IF i = 0 THEN Nothing ELSE Handed(f[i - 1], ms[i])]

\* Such an f, member by member.
LEMMA ListensAt ==
    ASSUME NEW f, NEW ms, NEW n \in Nat, Listens(f, ms, n)
    PROVE  \A i \in 0..n : f[i] = IF i = 0 THEN Nothing ELSE Handed(f[i - 1], ms[i])
BY DEF Listens

\* There is one for each n.
LEMMA ListensExist ==
    ASSUME NEW ms, NEW n \in Nat
    PROVE  \E f : Listens(f, ms, n)
<1> DEFINE S == {k \in Nat : \E f : Listens(f, ms, k)}
<1>1. 0 \in S
    <2>1. Listens([i \in 0..0 |-> Nothing], ms, 0) BY DEF Listens
    <2> QED BY <2>1
<1>2. ASSUME NEW k \in S PROVE k + 1 \in S
    <2>1. PICK f : Listens(f, ms, k) OBVIOUS
    <2> DEFINE g == [i \in 0..(k + 1) |-> IF i = 0 THEN Nothing ELSE Handed(f[i - 1], ms[i])]
    <2>2. ASSUME NEW i \in 0..(k + 1), i # 0 PROVE g[i - 1] = f[i - 1]
        <3>1. i - 1 \in 0..k /\ i - 1 \in 0..(k + 1) BY <2>2
        <3>2. \A j \in 0..k : f[j] = IF j = 0 THEN Nothing ELSE Handed(f[j - 1], ms[j])
            BY <2>1, ListensAt
        <3>3. g[i - 1] = IF i - 1 = 0 THEN Nothing ELSE Handed(f[i - 1 - 1], ms[i - 1]) BY <3>1
        <3> HIDE DEF g
        <3> QED BY <3>1, <3>2, <3>3
    <2> HIDE DEF g
    <2>3. g = [i \in 0..(k + 1) |-> IF i = 0 THEN Nothing ELSE Handed(g[i - 1], ms[i])]
        BY <2>2 DEF g
    <2>4. Listens(g, ms, k + 1) BY <2>3 DEF Listens
    <2> QED BY <2>4
<1> HIDE DEF S
<1>3. S = Nat
    <2>1. S \subseteq Nat BY DEF S
    <2> QED BY <1>1, <1>2, <2>1, NaturalInduction
<1> QED BY <1>3 DEF S

\* Hears is the last member of one.
LEMMA HearsListens ==
    ASSUME NEW ms, Len(ms) \in Nat
    PROVE  \E f : Listens(f, ms, Len(ms)) /\ Hears(ms) = f[Len(ms)]
<1> DEFINE f == CHOOSE f : Listens(f, ms, Len(ms))
<1>1. Listens(f, ms, Len(ms)) BY ListensExist
<1>2. Hears(ms) = f[Len(ms)] BY DEF Hears, Listens
<1> QED BY <1>1, <1>2

\* The same messages up to k say the same up to k.
LEMMA ListensAgree ==
    ASSUME NEW s, NEW t, NEW n \in Nat, NEW m \in Nat, NEW f, NEW g,
           Listens(f, s, n), Listens(g, t, m), NEW k \in Nat, k <= n, k <= m, Same(s, t, k)
    PROVE  SameFrom0(f, g, k)
<1> DEFINE S == {i \in Nat : i \in 0..k => f[i] = g[i]}
<1>1. \A i \in 0..k : f[i] = IF i = 0 THEN Nothing ELSE Handed(f[i - 1], s[i])
    <2>1. \A i \in 0..n : f[i] = IF i = 0 THEN Nothing ELSE Handed(f[i - 1], s[i]) BY ListensAt
    <2> QED BY <2>1
<1>2. \A i \in 0..k : g[i] = IF i = 0 THEN Nothing ELSE Handed(g[i - 1], t[i])
    <2>1. \A i \in 0..m : g[i] = IF i = 0 THEN Nothing ELSE Handed(g[i - 1], t[i]) BY ListensAt
    <2> QED BY <2>1
<1>3. 0 \in S BY <1>1, <1>2
<1>4. ASSUME NEW i \in S PROVE i + 1 \in S
    <2>1. SUFFICES ASSUME i + 1 \in 0..k PROVE f[i + 1] = g[i + 1] OBVIOUS
    <2>2. i \in 0..k /\ f[i] = g[i] BY <2>1
    <2>3. s[i + 1] = t[i + 1] BY <2>1 DEF Same
    <2>4. i + 1 # 0 /\ i + 1 - 1 = i OBVIOUS
    <2>5. f[i + 1] = Handed(f[i], s[i + 1]) BY <2>1, <2>4, <1>1
    <2>6. g[i + 1] = Handed(g[i], t[i + 1]) BY <2>1, <2>4, <1>2
    <2> QED BY <2>2, <2>3, <2>5, <2>6
<1> HIDE DEF S
<1>5. S = Nat
    <2>1. S \subseteq Nat BY DEF S
    <2> QED BY <1>3, <1>4, <2>1, NaturalInduction
<1> QED BY <1>5 DEF S, SameFrom0

\* Of no message nothing is heard.
LEMMA HearsEmpty == Hears(<<>>) = Nothing
<1>1. Len(<<>>) = 0 OBVIOUS
<1>2. PICK f : Listens(f, <<>>, 0) /\ Hears(<<>>) = f[0] BY <1>1, HearsListens
<1> QED BY <1>2, ListensAt

\* The last message is heard last.
LEMMA HearsAppend ==
    ASSUME NEW s \in Seq(Msg), NEW x \in Msg
    PROVE  Hears(Append(s, x)) = Handed(Hears(s), x)
<1> DEFINE t == Append(s, x)
<1>1. /\ Len(s) \in Nat /\ Len(t) = Len(s) + 1
      /\ \A i \in 1..Len(s) : t[i] = s[i]
      /\ t[Len(s) + 1] = x
    BY AppendProperties, LenProperties
<1> HIDE DEF t
<1>2. Len(t) \in Nat BY <1>1
<1>3. PICK f : Listens(f, s, Len(s)) /\ Hears(s) = f[Len(s)] BY <1>1, HearsListens
<1>4. PICK g : Listens(g, t, Len(t)) /\ Hears(t) = g[Len(t)] BY <1>2, HearsListens
<1>5. SameFrom0(f, g, Len(s))
    <2>1. Len(s) \in Nat /\ Len(s) <= Len(s) /\ Len(s) <= Len(t) BY <1>1
    <2>2. Same(s, t, Len(s)) BY <1>1 DEF Same
    <2> QED BY <1>2, <1>3, <1>4, <2>1, <2>2, ListensAgree
<1>6. g[Len(t)] = Handed(g[Len(t) - 1], t[Len(t)])
    <2>1. \A i \in 0..Len(t) : g[i] = IF i = 0 THEN Nothing ELSE Handed(g[i - 1], t[i])
        BY <1>2, <1>4, ListensAt
    <2>2. Len(t) \in 0..Len(t) /\ Len(t) # 0 BY <1>1, <1>2
    <2> QED BY <2>1, <2>2
<1>7. g[Len(t)] = Handed(f[Len(s)], x)
    <2>1. Len(t) - 1 = Len(s) /\ Len(s) \in 0..Len(s) BY <1>1
    <2>2. t[Len(t)] = x BY <1>1
    <2>3. g[Len(s)] = f[Len(s)] BY <1>5, <2>1 DEF SameFrom0
    <2> QED BY <1>6, <2>1, <2>2, <2>3
<1> QED BY <1>3, <1>4, <1>7 DEF t

\* What is handed on, by type; and what there was before is a prefix of it.
LEMMA HandedType ==
    ASSUME NEW r \in State, NEW x \in Msg
    PROVE  Handed(r, x) \in State /\ IsPrefix(r.heard, Handed(r, x).heard)
<1>1. r.heard \in Seq(Said) /\ r.payload \in Body BY DEF State
<1>2. x.type \in Types /\ x.body \in Body BY DEF Msg
<1>3. r.payload \o x.body \in Body BY <1>1, <1>2, ConcatProperties DEF Body
<1>4. <<>> \in Body BY EmptySeq DEF Body
<1>5. Saying("payload", r.payload \o x.body) \in Said BY <1>3 DEF Said, Saying
<1>6. Saying(x.type, <<>>) \in Said BY <1>2, <1>4 DEF Said, Saying
<1>7. IsPrefix(r.heard, r.heard) BY <1>1, PrefixSelf
<1>8. CASE x.type = "chunk"
    <2>1. Handed(r, x) = [heard |-> r.heard, payload |-> r.payload \o x.body] BY <1>8 DEF Handed
    <2> QED BY <1>1, <1>3, <1>7, <2>1 DEF State
<1>9. CASE x.type = "last"
    <2> DEFINE y == Saying("payload", r.payload \o x.body)
    <2>1. Handed(r, x) = [heard |-> Append(r.heard, y), payload |-> <<>>] BY <1>9 DEF Handed
    <2> HIDE DEF y
    <2>2. y \in Said BY <1>5 DEF y
    <2>3. Append(r.heard, y) \in Seq(Said) BY <1>1, <2>2, AppendProperties
    <2>4. IsPrefix(r.heard, Append(r.heard, y)) BY <1>1, <1>7, <2>2, PrefixMore
    <2> QED BY <1>4, <2>1, <2>3, <2>4 DEF State
<1>10. CASE x.type # "chunk" /\ x.type # "last"
    <2> DEFINE y == Saying(x.type, <<>>)
    <2>1. Handed(r, x) = [heard |-> Append(r.heard, y), payload |-> r.payload] BY <1>10 DEF Handed
    <2> HIDE DEF y
    <2>2. y \in Said BY <1>6 DEF y
    <2>3. Append(r.heard, y) \in Seq(Said) BY <1>1, <2>2, AppendProperties
    <2>4. IsPrefix(r.heard, Append(r.heard, y)) BY <1>1, <1>7, <2>2, PrefixMore
    <2> QED BY <1>1, <2>1, <2>3, <2>4 DEF State
<1> QED BY <1>8, <1>9, <1>10

\* What is heard has its type.
LEMMA HearsType ==
    ASSUME NEW ms \in Seq(Msg)
    PROVE  Hears(ms) \in State
<1> DEFINE P == {t \in Seq(Msg) : Hears(t) \in State}
<1>1. <<>> \in P
    <2>1. <<>> \in Seq(Msg) /\ <<>> \in Seq(Said) /\ <<>> \in Seq(Int) BY EmptySeq
    <2>2. Nothing \in State BY <2>1 DEF Nothing, State, Body
    <2> QED BY <2>1, <2>2, HearsEmpty
<1>2. ASSUME NEW t \in P, NEW x \in Msg PROVE Append(t, x) \in P
    <2>1. t \in Seq(Msg) /\ Hears(t) \in State OBVIOUS
    <2>2. Handed(Hears(t), x) \in State BY <2>1, HandedType
    <2> QED BY <2>1, <2>2, HearsAppend, AppendProperties
<1> HIDE DEF P
<1>3. P = Seq(Msg)
    <2>1. P \subseteq Seq(Msg) BY DEF P
    <2> QED BY <1>1, <1>2, <2>1, SequenceInduction
<1> QED BY <1>3 DEF P

\* What was heard is heard whatever more comes.
LEMMA HearsMore ==
    ASSUME NEW ms \in Seq(Msg), NEW xs \in Seq(Msg)
    PROVE  IsPrefix(Hears(ms).heard, Hears(ms \o xs).heard)
<1> DEFINE P == {t \in Seq(Msg) : IsPrefix(Hears(ms).heard, Hears(ms \o t).heard)}
<1>1. <<>> \in P
    <2>1. <<>> \in Seq(Msg) /\ ms \o <<>> = ms BY EmptySeq, ConcatEmptySeq
    <2>2. Hears(ms).heard \in Seq(Said) BY HearsType DEF State
    <2> QED BY <2>1, <2>2, PrefixSelf
<1>2. ASSUME NEW t \in P, NEW x \in Msg PROVE Append(t, x) \in P
    <2>1. t \in Seq(Msg) /\ Append(t, x) \in Seq(Msg) /\ ms \o t \in Seq(Msg)
        BY AppendProperties, ConcatProperties
    <2> DEFINE r == Hears(ms \o t)
    <2>2. r \in State BY <2>1, HearsType
    <2>3. ms \o Append(t, x) = Append(ms \o t, x) BY <2>1, AppendLast
    <2>4. Hears(Append(ms \o t, x)) = Handed(r, x) BY <2>1, HearsAppend
    <2>5. Handed(r, x) \in State /\ IsPrefix(r.heard, Handed(r, x).heard) BY <2>2, HandedType
    <2>6. IsPrefix(Hears(ms).heard, r.heard) OBVIOUS
    <2>7. Hears(ms).heard \in Seq(Said) /\ r.heard \in Seq(Said) /\ Handed(r, x).heard \in Seq(Said)
        BY <2>2, <2>5, HearsType DEF State
    <2> HIDE DEF r
    <2>8. IsPrefix(Hears(ms).heard, Handed(r, x).heard) BY <2>5, <2>6, <2>7, PrefixOf
    <2> QED BY <2>1, <2>3, <2>4, <2>8
<1> HIDE DEF P
<1>3. P = Seq(Msg)
    <2>1. P \subseteq Seq(Msg) BY DEF P
    <2> QED BY <1>1, <1>2, <2>1, SequenceInduction
<1> QED BY <1>3 DEF P

-----------------------------------------------------------------------------
(* Pieces. *)

\* A message of its parts.
LEMMA MsgMade ==
    ASSUME NEW t \in Types, NEW s \in Seq(Int), t \in {"chunk", "last"} => Len(s) \in 1..MaxBody
    PROVE  [type |-> t, body |-> s] \in Msg
<1> DEFINE x == [type |-> t, body |-> s]
<1>1. x.type = t /\ x.body = s /\ x \in [type : Types, body : Body] BY DEF Body
<1> HIDE DEF x
<1>2. x \in Msg BY <1>1 DEF Msg
<1> QED BY <1>2 DEF x

Chunk(b, c) == [type |-> "chunk", body |-> SubSeq(b, (c - 1) * MaxBody + 1, c * MaxBody)]
Chunks(b, k) == [c \in 1..k |-> Chunk(b, c)]

\* One chunk: its size, and that it goes on where those before it ended.
LEMMA ChunkAt ==
    ASSUME NEW b \in Body, NEW i \in Nat, (i + 1) * MaxBody <= Len(b)
    PROVE  /\ Chunk(b, i + 1) \in Msg
           /\ SubSeq(b, 1, i * MaxBody) \in Body
           /\ SubSeq(b, 1, i * MaxBody) \o Chunk(b, i + 1).body = SubSeq(b, 1, (i + 1) * MaxBody)
<1>1. MaxBody \in Nat \ {0} BY SizeAssumption
<1> DEFINE p == i * MaxBody
           q == (i + 1) * MaxBody
<1>2. p \in Nat /\ q = p + MaxBody BY <1>1, Multiples
<1>3. q <= Len(b) OBVIOUS
<1>4. ((i + 1) - 1) * MaxBody + 1 = p + 1
    <2>1. (i + 1) - 1 = i OBVIOUS
    <2> QED BY <2>1
<1>5. Chunk(b, i + 1) = [type |-> "chunk", body |-> SubSeq(b, p + 1, q)]
    BY <1>4 DEF Chunk
<1> HIDE DEF p, q
<1>6. p <= q /\ q \in Nat /\ q - p = MaxBody BY <1>1, <1>2
<1>7. /\ SubSeq(b, p + 1, q) \in Seq(Int) /\ Len(SubSeq(b, p + 1, q)) = q - p
      /\ SubSeq(b, 1, p) \in Seq(Int)
      /\ SubSeq(b, 1, p) \o SubSeq(b, p + 1, q) = SubSeq(b, 1, q)
    BY <1>2, <1>3, <1>6, Slices DEF Body
<1>8. Chunk(b, i + 1) \in Msg
    <2>1. Len(SubSeq(b, p + 1, q)) \in 1..MaxBody BY <1>1, <1>6, <1>7
    <2>2. "chunk" \in Types BY DEF Types, SizedTypes
    <2> QED BY <1>5, <1>7, <2>1, <2>2, MsgMade
<1>9. Chunk(b, i + 1).body = SubSeq(b, p + 1, q) BY <1>5
<1> QED BY <1>7, <1>8, <1>9 DEF p, q, Body

\* What is heard of the first k chunks of b.
LEMMA ChunksHeard ==
    ASSUME NEW ms \in Seq(Msg), NEW b \in Body, NEW h \in Seq(Said),
           Hears(ms) = [heard |-> h, payload |-> <<>>],
           NEW n \in Nat, n * MaxBody <= Len(b)
    PROVE  /\ Chunks(b, n) \in Seq(Msg)
           /\ Hears(ms \o Chunks(b, n)) = [heard |-> h, payload |-> SubSeq(b, 1, n * MaxBody)]
<1> DEFINE S == {k \in Nat : k <= n =>
                    /\ Chunks(b, k) \in Seq(Msg)
                    /\ Hears(ms \o Chunks(b, k)) = [heard |-> h, payload |-> SubSeq(b, 1, k * MaxBody)]}
<1>1. MaxBody \in Nat \ {0} /\ Len(b) \in Nat BY SizeAssumption, LenProperties DEF Body
<1>2. 0 \in S
    <2>1. Chunks(b, 0) = <<>> BY DEF Chunks
    <2>2. <<>> \in Seq(Msg) /\ ms \o <<>> = ms BY EmptySeq, ConcatEmptySeq
    <2>3. 0 * MaxBody = 0 BY <1>1
    <2>4. SubSeq(b, 1, 0) = <<>> BY SubSeqEmpty
    <2>5. SubSeq(b, 1, 0 * MaxBody) = <<>> BY <2>3, <2>4
    <2>6. Chunks(b, 0) \in Seq(Msg) BY <2>1, <2>2
    <2>7. Hears(ms \o Chunks(b, 0)) = [heard |-> h, payload |-> SubSeq(b, 1, 0 * MaxBody)]
        BY <2>1, <2>2, <2>5
    <2> QED BY <2>6, <2>7
<1>3. ASSUME NEW k \in S PROVE k + 1 \in S
    <2>1. SUFFICES ASSUME k + 1 <= n
                   PROVE  /\ Chunks(b, k + 1) \in Seq(Msg)
                          /\ Hears(ms \o Chunks(b, k + 1)) = [heard |-> h, payload |-> SubSeq(b, 1, (k + 1) * MaxBody)]
        OBVIOUS
    <2>2. k \in Nat /\ k <= n /\ k + 1 \in Nat BY <2>1
    <2>3. /\ Chunks(b, k) \in Seq(Msg)
          /\ Hears(ms \o Chunks(b, k)) = [heard |-> h, payload |-> SubSeq(b, 1, k * MaxBody)]
        BY <2>2
    <2> HIDE DEF S
    <2>4. (k + 1) * MaxBody <= Len(b)
        <3>1. (k + 1) * MaxBody \in Nat /\ (k + 1) * MaxBody <= n * MaxBody /\ n * MaxBody \in Nat
            BY <1>1, <2>1, <2>2, Multiples
        <3> QED BY <1>1, <3>1
    <2> DEFINE x == Chunk(b, k + 1)
    <2>5. /\ x \in Msg /\ SubSeq(b, 1, k * MaxBody) \in Body
          /\ SubSeq(b, 1, k * MaxBody) \o x.body = SubSeq(b, 1, (k + 1) * MaxBody)
        BY <2>2, <2>4, ChunkAt
    <2>6. Chunks(b, k + 1) = Append(Chunks(b, k), x)
        BY <2>2 DEF Chunks
    <2>7. x.type = "chunk" BY DEF Chunk
    <2> HIDE DEF x
    <2>8. Append(Chunks(b, k), x) \in Seq(Msg) BY <2>3, <2>5, AppendProperties
    <2>9. ms \o Append(Chunks(b, k), x) = Append(ms \o Chunks(b, k), x) BY <2>3, <2>5, AppendLast
    <2>10. ms \o Chunks(b, k) \in Seq(Msg) BY <2>3, ConcatProperties
    <2>11. Hears(Append(ms \o Chunks(b, k), x)) = Handed(Hears(ms \o Chunks(b, k)), x)
        BY <2>5, <2>10, HearsAppend
    <2>12. Handed(Hears(ms \o Chunks(b, k)), x) = [heard |-> h, payload |-> SubSeq(b, 1, k * MaxBody) \o x.body]
        BY <2>3, <2>7 DEF Handed
    <2> QED BY <2>5, <2>6, <2>8, <2>9, <2>11, <2>12
<1> HIDE DEF S
<1>4. S = Nat
    <2>1. S \subseteq Nat BY DEF S
    <2> QED BY <1>2, <1>3, <2>1, NaturalInduction
<1> QED BY <1>4 DEF S

\* A payload is put out as messages, and heard whole of them.
LEMMA PiecesHeard ==
    ASSUME NEW ms \in Seq(Msg), NEW b \in Body, Len(b) > 0, NEW h \in Seq(Said),
           Hears(ms) = [heard |-> h, payload |-> <<>>]
    PROVE  /\ Pieces(b) \in Seq(Msg)
           /\ Hears(ms \o Pieces(b)) = [heard |-> Append(h, Saying("payload", b)), payload |-> <<>>]
<1> DEFINE full == (Len(b) - 1) \div MaxBody
           x == [type |-> "last", body |-> SubSeq(b, full * MaxBody + 1, Len(b))]
<1>1. MaxBody \in Nat \ {0} /\ Len(b) \in Nat \ {0} BY SizeAssumption, LenProperties DEF Body
<1>2. full \in Nat /\ full * MaxBody <= Len(b) - 1 /\ Len(b) - 1 < full * MaxBody + MaxBody
    BY <1>1, FullPieces
<1>3. Pieces(b) = Chunks(b, full) \o <<x>> BY DEF Pieces, Chunks, Chunk
<1> HIDE DEF full
<1> DEFINE p == full * MaxBody
<1>4. p \in Nat BY <1>1, <1>2, Multiples
<1>5. p <= Len(b) /\ p <= Len(b) - 1 /\ Len(b) - 1 < p + MaxBody BY <1>1, <1>2, <1>4
<1>6. /\ Chunks(b, full) \in Seq(Msg)
      /\ Hears(ms \o Chunks(b, full)) = [heard |-> h, payload |-> SubSeq(b, 1, p)]
    BY <1>2, <1>5, ChunksHeard
<1>7. x = [type |-> "last", body |-> SubSeq(b, p + 1, Len(b))] OBVIOUS
<1> HIDE DEF p, x
<1>8. /\ SubSeq(b, p + 1, Len(b)) \in Seq(Int) /\ Len(SubSeq(b, p + 1, Len(b))) = Len(b) - p
      /\ SubSeq(b, 1, p) \in Seq(Int)
      /\ SubSeq(b, 1, p) \o SubSeq(b, p + 1, Len(b)) = SubSeq(b, 1, Len(b))
    <2>1. Len(b) <= Len(b) /\ Len(b) \in Nat BY <1>1
    <2> QED BY <1>4, <1>5, <2>1, Slices DEF Body
<1>9. SubSeq(b, 1, Len(b)) = b BY SubSeqFull DEF Body
<1>10. x \in Msg /\ x.type = "last" /\ x.body = SubSeq(b, p + 1, Len(b))
    <2>1. Len(b) - p \in 1..MaxBody BY <1>1, <1>4, <1>5
    <2>2. "last" \in Types BY DEF Types, SizedTypes
    <2> QED BY <1>7, <1>8, <2>1, <2>2, MsgMade
<1>11. <<x>> \in Seq(Msg) BY <1>10
<1>12. Pieces(b) = Append(Chunks(b, full), x) BY <1>3, <1>6, <1>10, AppendIsConcat
<1>13. Append(Chunks(b, full), x) \in Seq(Msg) BY <1>6, <1>10, AppendProperties
<1>14. ms \o Append(Chunks(b, full), x) = Append(ms \o Chunks(b, full), x) BY <1>6, <1>10, AppendLast
<1>15. ms \o Chunks(b, full) \in Seq(Msg) BY <1>6, ConcatProperties
<1>16. Hears(Append(ms \o Chunks(b, full), x)) = Handed(Hears(ms \o Chunks(b, full)), x)
    BY <1>10, <1>15, HearsAppend
<1>17. Handed(Hears(ms \o Chunks(b, full)), x)
       = [heard |-> Append(h, Saying("payload", SubSeq(b, 1, p) \o x.body)), payload |-> <<>>]
    BY <1>6, <1>10 DEF Handed
<1> QED BY <1>8, <1>9, <1>10, <1>12, <1>13, <1>14, <1>16, <1>17

-----------------------------------------------------------------------------
(* The bytes of messages. *)

BytesSeq(ms) == [n \in DOMAIN ms |-> BytesOf(ms[n], n)]

\* What Encrypt adds for xs behind n messages.
Added(xs, n) == [k \in DOMAIN xs |-> BytesOf(xs[k], n + k)]

\* The bytes of all messages of ms but the first m.
Ahead(ms, m) == FlattenSeq(Rest(BytesSeq(ms), m))

\* Lengths.
LEMMA MsgLength ==
    ASSUME NEW x \in Msg
    PROVE  /\ x.type \in Types /\ x.body \in Body
           /\ BodySize(x) \in Nat /\ LengthOf(x) \in Nat \ {0}
<1>1. x.type \in Types /\ x.body \in Body BY DEF Msg
<1>2. Len(x.body) \in Nat BY <1>1, LenProperties DEF Body
<1>3. KeySize \in Nat /\ MacSize \in Nat BY SizeAssumption
<1>4. BodySize(x) \in Nat
    BY <1>1, <1>2, <1>3 DEF BodySize, MarkerSize, Types, SizedTypes
<1>5. LengthOf(x) \in Nat \ {0} BY <1>3, <1>4 DEF LengthOf, SizeBytes
<1> QED BY <1>1, <1>4, <1>5

\* One message.
LEMMA BytesOfType ==
    ASSUME NEW x \in Msg, NEW n \in Nat
    PROVE  /\ BytesOf(x, n) \in Seq(Sent) /\ Len(BytesOf(x, n)) = LengthOf(x)
           /\ \A i \in 1..LengthOf(x) : BytesOf(x, n)[i] = [of |-> n, at |-> i, good |-> TRUE]
<1>1. LengthOf(x) \in Nat BY MsgLength
<1>2. \A i \in 1..LengthOf(x) : [of |-> n, at |-> i, good |-> TRUE] \in Sent BY <1>1 DEF Sent
<1> QED BY <1>1, <1>2, IsASeq DEF BytesOf

\* Several messages.
LEMMA AddedType ==
    ASSUME NEW xs \in Seq(Msg), NEW n \in Nat
    PROVE  /\ Added(xs, n) \in Seq(Seq(Sent)) /\ Len(Added(xs, n)) = Len(xs)
           /\ \A k \in 1..Len(xs) : Added(xs, n)[k] = BytesOf(xs[k], n + k)
<1>1. Len(xs) \in Nat /\ DOMAIN xs = 1..Len(xs) BY LenProperties
<1>2. ASSUME NEW k \in 1..Len(xs) PROVE BytesOf(xs[k], n + k) \in Seq(Sent)
    <2>1. xs[k] \in Msg /\ n + k \in Nat BY <1>1, ElementOfSeq
    <2> QED BY <2>1, BytesOfType
<1>3. Added(xs, n) = [k \in 1..Len(xs) |-> BytesOf(xs[k], n + k)] BY <1>1 DEF Added
<1> QED BY <1>1, <1>2, <1>3, IsASeq

\* All messages.
LEMMA BytesSeqType ==
    ASSUME NEW ms \in Seq(Msg)
    PROVE  /\ BytesSeq(ms) \in Seq(Seq(Sent)) /\ Len(BytesSeq(ms)) = Len(ms)
           /\ \A k \in 1..Len(ms) : BytesSeq(ms)[k] = BytesOf(ms[k], k)
<1>1. BytesSeq(ms) = Added(ms, 0)
    <2>1. DOMAIN ms = 1..Len(ms) /\ Len(ms) \in Nat BY LenProperties
    <2>2. \A k \in DOMAIN ms : 0 + k = k BY <2>1
    <2> QED BY <2>2 DEF BytesSeq, Added
<1>2. \A k \in 1..Len(ms) : 0 + k = k BY LenProperties
<1> QED BY <1>1, <1>2, AddedType

\* More messages, more bytes behind those there are.
LEMMA BytesSeqConcat ==
    ASSUME NEW ms \in Seq(Msg), NEW xs \in Seq(Msg)
    PROVE  BytesSeq(ms \o xs) = BytesSeq(ms) \o Added(xs, Len(ms))
<1> DEFINE t == ms \o xs
           a == BytesSeq(ms)
           b == Added(xs, Len(ms))
           u == BytesSeq(t)
<1>1. /\ Len(ms) \in Nat /\ Len(xs) \in Nat /\ t \in Seq(Msg) /\ Len(t) = Len(ms) + Len(xs)
      /\ \A i \in 1..Len(ms) + Len(xs) : t[i] = IF i <= Len(ms) THEN ms[i] ELSE xs[i - Len(ms)]
    BY ConcatProperties, LenProperties
<1>2. a \in Seq(Seq(Sent)) /\ Len(a) = Len(ms) /\ \A k \in 1..Len(ms) : a[k] = BytesOf(ms[k], k)
    BY BytesSeqType
<1>3. b \in Seq(Seq(Sent)) /\ Len(b) = Len(xs) /\ \A k \in 1..Len(xs) : b[k] = BytesOf(xs[k], Len(ms) + k)
    BY <1>1, AddedType
<1> HIDE DEF t
<1>4. u \in Seq(Seq(Sent)) /\ Len(u) = Len(t) /\ \A k \in 1..Len(t) : u[k] = BytesOf(t[k], k)
    BY <1>1, BytesSeqType
<1> HIDE DEF a, b, u
<1>5. /\ a \o b \in Seq(Seq(Sent)) /\ Len(a \o b) = Len(a) + Len(b)
      /\ \A i \in 1..Len(a) + Len(b) : (a \o b)[i] = IF i <= Len(a) THEN a[i] ELSE b[i - Len(a)]
    <2>1. a \in Seq(Seq(Sent)) /\ b \in Seq(Seq(Sent)) BY <1>2, <1>3
    <2> QED BY <2>1, ConcatProperties
<1>6. ASSUME NEW i \in 1..Len(u) PROVE u[i] = (a \o b)[i]
    <2>1. i \in 1..Len(t) /\ i \in 1..Len(ms) + Len(xs) /\ i \in 1..Len(a) + Len(b)
        BY <1>1, <1>2, <1>3, <1>4
    <2>2. CASE i <= Len(ms)
        <3>1. i \in 1..Len(ms) BY <1>1, <2>1, <2>2
        <3> QED BY <1>1, <1>2, <1>4, <1>5, <2>1, <2>2, <3>1
    <2>3. CASE ~(i <= Len(ms))
        <3>1. i - Len(ms) \in 1..Len(xs) /\ Len(ms) + (i - Len(ms)) = i BY <1>1, <2>1, <2>3
        <3> QED BY <1>1, <1>2, <1>3, <1>4, <1>5, <2>1, <2>3, <3>1
    <2> QED BY <2>2, <2>3
<1>7. Len(u) = Len(a \o b) BY <1>1, <1>2, <1>3, <1>4, <1>5
<1>8. u = a \o b BY <1>4, <1>5, <1>6, <1>7, SeqEqual
<1> QED BY <1>8 DEF t, a, b, u

\* What Encrypt puts out, and what is ahead then.
LEMMA AheadGrows ==
    ASSUME NEW ms \in Seq(Msg), NEW xs \in Seq(Msg), NEW m \in 0..Len(ms)
    PROVE  /\ Ahead(ms, m) \in Seq(Sent) /\ FlattenSeq(Added(xs, Len(ms))) \in Seq(Sent)
           /\ Ahead(ms \o xs, m) = Ahead(ms, m) \o FlattenSeq(Added(xs, Len(ms)))
<1> DEFINE a == BytesSeq(ms)
           b == Added(xs, Len(ms))
<1>1. Len(ms) \in Nat /\ m \in Nat /\ m <= Len(ms) BY LenProperties
<1>2. a \in Seq(Seq(Sent)) /\ Len(a) = Len(ms) BY BytesSeqType
<1>3. b \in Seq(Seq(Sent)) BY <1>1, AddedType
<1>4. BytesSeq(ms \o xs) = a \o b BY BytesSeqConcat
<1> HIDE DEF a, b
<1>5. Rest(a \o b, m) = Rest(a, m) \o b BY <1>1, <1>2, <1>3, RestConcat
<1>6. Rest(a, m) \in Seq(Seq(Sent)) BY <1>1, <1>2, FirstRest
<1>7. FlattenSeq(Rest(a, m) \o b) = FlattenSeq(Rest(a, m)) \o FlattenSeq(b)
    BY <1>3, <1>6, FlattenConcat
<1>8. FlattenSeq(Rest(a, m)) \in Seq(Sent) /\ FlattenSeq(b) \in Seq(Sent)
    BY <1>3, <1>6, FlattenType
<1> QED BY <1>4, <1>5, <1>7, <1>8 DEF a, b, Ahead

\* The next message is ahead of those behind it.
LEMMA AheadNext ==
    ASSUME NEW ms \in Seq(Msg), NEW m \in 0..Len(ms), m < Len(ms)
    PROVE  /\ m + 1 \in 1..Len(ms) /\ ms[m + 1] \in Msg
           /\ First(ms, m + 1) = Append(First(ms, m), ms[m + 1])
           /\ Ahead(ms, m + 1) \in Seq(Sent)
           /\ Ahead(ms, m) = BytesOf(ms[m + 1], m + 1) \o Ahead(ms, m + 1)
<1> DEFINE a == BytesSeq(ms)
           x == BytesOf(ms[m + 1], m + 1)
<1>1. m \in Nat /\ m + 1 \in Nat BY LenProperties
<1>2. /\ m + 1 \in 1..Len(ms) /\ ms[m + 1] \in Msg
      /\ First(ms, m + 1) = Append(First(ms, m), ms[m + 1])
    BY <1>1, RestNext
<1>3. a \in Seq(Seq(Sent)) /\ Len(a) = Len(ms) /\ a[m + 1] = x BY <1>2, BytesSeqType
<1>4. x \in Seq(Sent) BY <1>1, <1>2, BytesOfType
<1> HIDE DEF a, x
<1>5. Rest(a, m) = <<a[m + 1]>> \o Rest(a, m + 1) BY <1>1, <1>3, RestNext
<1>6. Rest(a, m + 1) \in Seq(Seq(Sent)) BY <1>1, <1>3, FirstRest
<1>7. <<x>> \in Seq(Seq(Sent)) BY <1>4
<1>8. FlattenSeq(<<x>> \o Rest(a, m + 1)) = FlattenSeq(<<x>>) \o FlattenSeq(Rest(a, m + 1))
    BY <1>6, <1>7, FlattenConcat
<1>9. FlattenSeq(<<x>>) = x BY <1>4, FlattenOne
<1>10. FlattenSeq(Rest(a, m + 1)) \in Seq(Sent) BY <1>6, FlattenType
<1> QED BY <1>2, <1>3, <1>5, <1>8, <1>9, <1>10 DEF a, x, Ahead

\* Nothing is ahead of who took all.
LEMMA AheadEnd ==
    ASSUME NEW ms \in Seq(Msg)
    PROVE  Ahead(ms, Len(ms)) = <<>>
<1>1. Len(BytesSeq(ms)) = Len(ms) /\ Len(ms) \in Nat BY BytesSeqType, LenProperties
<1>2. Rest(BytesSeq(ms), Len(ms)) = <<>> BY <1>1, SubSeqEmpty DEF Rest
<1> QED BY <1>2, FlattenEmpty DEF Ahead

-----------------------------------------------------------------------------
(* Spoiled bytes, and the bytes they were. *)

Clean(s) == [i \in DOMAIN s |-> [of |-> s[i].of, at |-> s[i].at, good |-> TRUE]]

\* Member by member.
LEMMA CleanType ==
    ASSUME NEW s \in Bytes
    PROVE  /\ Len(s) \in Nat /\ DOMAIN s = 1..Len(s) /\ \A i \in 1..Len(s) : s[i] \in Byte
           /\ Clean(s) \in Seq(Sent) /\ Len(Clean(s)) = Len(s)
           /\ \A i \in 1..Len(s) : Clean(s)[i] = [of |-> s[i].of, at |-> s[i].at, good |-> TRUE]
<1>1. Len(s) \in Nat /\ DOMAIN s = 1..Len(s) /\ \A i \in 1..Len(s) : s[i] \in Byte
    BY LenProperties, ElementOfSeq DEF Bytes
<1>2. \A i \in 1..Len(s) : [of |-> s[i].of, at |-> s[i].at, good |-> TRUE] \in Sent
    BY <1>1 DEF Byte, Sent
<1>3. Clean(s) = [i \in 1..Len(s) |-> [of |-> s[i].of, at |-> s[i].at, good |-> TRUE]]
    BY <1>1 DEF Clean
<1> QED BY <1>1, <1>2, <1>3, IsASeq

\* A good byte is what it was.
LEMMA GoodByte ==
    ASSUME NEW b \in Byte, b.good = TRUE
    PROVE  b = [of |-> b.of, at |-> b.at, good |-> TRUE]
BY DEF Byte

\* Sequences of good bytes are what they were.
LEMMA CleanGood ==
    ASSUME NEW s \in Bytes, \A i \in 1..Len(s) : s[i].good
    PROVE  Clean(s) = s
<1>1. /\ Len(s) \in Nat /\ \A i \in 1..Len(s) : s[i] \in Byte
      /\ Clean(s) \in Seq(Sent) /\ Len(Clean(s)) = Len(s)
      /\ \A i \in 1..Len(s) : Clean(s)[i] = [of |-> s[i].of, at |-> s[i].at, good |-> TRUE]
    BY CleanType
<1>2. ASSUME NEW i \in 1..Len(s) PROVE Clean(s)[i] = s[i]
    <2>1. s[i] \in Byte /\ s[i].good = TRUE BY <1>1 DEF Byte
    <2> QED BY <1>1, <2>1, GoodByte
<1>3. Clean(s) \in Bytes
    <2>1. Sent \subseteq Byte BY DEF Sent, Byte
    <2> QED BY <1>1, <2>1, SeqMonotonic DEF Bytes
<1> QED BY <1>1, <1>2, <1>3, SeqEqual DEF Bytes

\* Bytes as they were sent are bytes, and all good.
LEMMA SentIs ==
    ASSUME NEW s \in Seq(Sent)
    PROVE  s \in Bytes /\ Clean(s) = s /\ \A i \in 1..Len(s) : s[i].good = TRUE
<1>1. Sent \subseteq Byte BY DEF Sent, Byte
<1>2. s \in Bytes BY <1>1, SeqMonotonic DEF Bytes
<1>3. ASSUME NEW i \in 1..Len(s) PROVE s[i].good = TRUE
    <2>1. s[i] \in Sent BY ElementOfSeq
    <2> QED BY <2>1 DEF Sent
<1> QED BY <1>2, <1>3, CleanGood

\* One after the other.
LEMMA CleanConcat ==
    ASSUME NEW s \in Bytes, NEW t \in Bytes
    PROVE  s \o t \in Bytes /\ Clean(s \o t) = Clean(s) \o Clean(t)
<1> DEFINE u == s \o t
           cs == Clean(s)
           ct == Clean(t)
           cu == Clean(u)
<1>1. /\ u \in Bytes /\ Len(u) = Len(s) + Len(t) /\ Len(s) \in Nat /\ Len(t) \in Nat
      /\ \A i \in 1..Len(s) + Len(t) : u[i] = IF i <= Len(s) THEN s[i] ELSE t[i - Len(s)]
    BY ConcatProperties, LenProperties DEF Bytes
<1>2. /\ cs \in Seq(Sent) /\ Len(cs) = Len(s)
      /\ \A i \in 1..Len(s) : cs[i] = [of |-> s[i].of, at |-> s[i].at, good |-> TRUE]
    BY CleanType
<1>3. /\ ct \in Seq(Sent) /\ Len(ct) = Len(t)
      /\ \A i \in 1..Len(t) : ct[i] = [of |-> t[i].of, at |-> t[i].at, good |-> TRUE]
    BY CleanType
<1> HIDE DEF u
<1>4. /\ cu \in Seq(Sent) /\ Len(cu) = Len(u)
      /\ \A i \in 1..Len(u) : cu[i] = [of |-> u[i].of, at |-> u[i].at, good |-> TRUE]
    BY <1>1, CleanType
<1> HIDE DEF cs, ct, cu
<1>5. /\ cs \o ct \in Seq(Sent) /\ Len(cs \o ct) = Len(cs) + Len(ct)
      /\ \A i \in 1..Len(cs) + Len(ct) : (cs \o ct)[i] = IF i <= Len(cs) THEN cs[i] ELSE ct[i - Len(cs)]
    <2>1. cs \in Seq(Sent) /\ ct \in Seq(Sent) BY <1>2, <1>3
    <2> QED BY <2>1, ConcatProperties
<1>6. ASSUME NEW i \in 1..Len(cu) PROVE cu[i] = (cs \o ct)[i]
    <2>1. i \in 1..Len(u) /\ i \in 1..Len(s) + Len(t) /\ i \in 1..Len(cs) + Len(ct)
        BY <1>1, <1>2, <1>3, <1>4
    <2>2. CASE i <= Len(s)
        <3>1. i \in 1..Len(s) BY <1>1, <2>1, <2>2
        <3> QED BY <1>1, <1>2, <1>4, <1>5, <2>1, <2>2, <3>1
    <2>3. CASE ~(i <= Len(s))
        <3>1. i - Len(s) \in 1..Len(t) BY <1>1, <2>1, <2>3
        <3> QED BY <1>1, <1>2, <1>3, <1>4, <1>5, <2>1, <2>3, <3>1
    <2> QED BY <2>2, <2>3
<1>7. Len(cu) = Len(cs \o ct) BY <1>1, <1>2, <1>3, <1>4, <1>5
<1>8. cu = cs \o ct BY <1>4, <1>5, <1>6, <1>7, SeqEqual
<1> QED BY <1>1, <1>8 DEF u, cs, ct, cu

\* The two parts of a sequence of bytes.
LEMMA CleanParts ==
    ASSUME NEW s \in Bytes, NEW n \in Nat
    PROVE  /\ First(s, n) \in Bytes /\ Rest(s, n) \in Bytes
           /\ Clean(First(s, n)) = First(Clean(s), n) /\ Clean(Rest(s, n)) = Rest(Clean(s), n)
<1> DEFINE f == First(s, n)
           r == Rest(s, n)
<1>1. /\ f \in Bytes /\ r \in Bytes /\ f \o r = s
      /\ Len(f) = (IF n < Len(s) THEN n ELSE Len(s))
      /\ Len(r) = (IF n < Len(s) THEN Len(s) - n ELSE 0)
    BY FirstRest DEF Bytes
<1> HIDE DEF f, r
<1>2. Clean(s) = Clean(f) \o Clean(r) BY <1>1, CleanConcat
<1>3. /\ Clean(f) \in Seq(Sent) /\ Len(Clean(f)) = Len(f) /\ Clean(r) \in Seq(Sent) /\ Len(Clean(r)) = Len(r)
      /\ Clean(s) \in Seq(Sent) /\ Len(Clean(s)) = Len(s) /\ Len(s) \in Nat /\ Len(f) \in Nat
    BY <1>1, CleanType
<1>4. First(Clean(s), Len(f)) = Clean(f) /\ Rest(Clean(s), Len(f)) = Clean(r)
    BY <1>2, <1>3, FirstIs, RestIs
<1>5. First(Clean(s), Len(f)) = First(Clean(s), n) /\ Rest(Clean(s), Len(f)) = Rest(Clean(s), n)
    <2>1. CASE n < Len(s) BY <1>1, <2>1
    <2>2. CASE ~(n < Len(s))
        <3>1. Len(f) = Len(s) BY <1>1, <2>2
        <3>2. Rest(Clean(s), Len(s)) = <<>> /\ Rest(Clean(s), n) = <<>>
            BY <1>3, <2>2, SubSeqEmpty DEF Rest
        <3>3. First(Clean(s), Len(s)) = First(Clean(s), n) BY <1>3, <2>2 DEF First
        <3> QED BY <3>1, <3>2, <3>3
    <2> QED BY <2>1, <2>2
<1> QED BY <1>1, <1>4, <1>5 DEF f, r

-----------------------------------------------------------------------------
(* The invariant. *)

Good(s) == \A i \in 1..Len(s) : s[i].good = TRUE

Shaped ==
    /\ given \in Seq(Nat) /\ held \in Nat /\ allowed \in BOOLEAN /\ msgs \in Seq(Msg) /\ told \in Seq(Said)
    /\ stream \in Seq(Sent) /\ keyGot \in 0..KeySize /\ keyGood \in BOOLEAN /\ input \in Bytes /\ seen \in Bytes
    /\ mode \in {"type", "size", "payload", "bad"} /\ type \in Types \cup {"none"} /\ size \in Nat
    /\ payload \in Body /\ heard \in Seq(Said) /\ failed \in BOOLEAN /\ spoiled \in 0..MaxSpoiled

\* Who hears all messages hears what was told.
Telling == Hears(msgs) = [heard |-> told, payload |-> <<>>]

Unspoiled == spoiled = 0 => keyGood = TRUE /\ Good(input) /\ Good(seen) /\ mode # "bad"

\* The reader is done with m messages.
Hearing(m) == Hears(First(msgs, m)) = [heard |-> heard, payload |-> payload]

\* What it has taken of the next, what came in and what is in the stream are,
\* but for what was spoiled, the bytes of all further messages.
Line(m) ==
    mode # "bad" =>
        /\ keyGot < KeySize => /\ mode = "type" /\ input = <<>> /\ m = 0
                               /\ stream = Rest(RawKey, keyGot) \o Ahead(msgs, 0)
        /\ keyGot = KeySize => Clean(seen) \o (Clean(input) \o stream) = Ahead(msgs, m)

\* What it takes the next message for, and that it is right if it came whole.
Reading(m) ==
    /\ mode = "type" => seen = <<>>
    /\ mode \in {"size", "payload"} =>
        /\ m < Len(msgs) /\ keyGot = KeySize /\ Len(seen) > 0 /\ seen[1].of = m + 1 /\ type \in Types
        /\ keyGood = TRUE /\ seen[1].good = TRUE => type = msgs[m + 1].type
    /\ mode = "size" => type \in SizedTypes /\ Len(seen) = 1
    /\ mode = "payload" =>
        /\ Len(seen) = 1 + (IF type \in SizedTypes THEN SizeBytes ELSE 0)
        /\ keyGood = TRUE /\ Good(seen) => size = BodySize(msgs[m + 1])

Reached(m) == Hearing(m) /\ Line(m) /\ Reading(m)
Somewhere == \E m \in 0..Len(msgs) : Reached(m)

IInv == Shaped /\ Telling /\ Unspoiled /\ Somewhere

-----------------------------------------------------------------------------
(* The writer. *)

\* What grows at its end grows as the last of its parts.
EndsIn(s, t, u, w, a) == s \o (t \o u) = w => s \o (t \o (u \o a)) = w \o a

\* That is so of all sequences of bytes.
LEMMA GrowsAtEnd ==
    ASSUME NEW s \in Seq(Sent), NEW t \in Seq(Sent), NEW u \in Seq(Sent), NEW w, NEW a \in Seq(Sent)
    PROVE  EndsIn(s, t, u, w, a)
<1>1. t \o u \in Seq(Sent) BY ConcatProperties
<1>2. Regroups(t, u, a) BY Regrouped
<1>3. Regroups(s, t \o u, a) BY <1>1, Regrouped
<1> QED BY <1>2, <1>3 DEF EndsIn, Regroups

\* Enciphering more messages leaves the reader where it is.
LEMMA Writes ==
    ASSUME Shaped, Unspoiled, Somewhere, NEW xs \in Seq(Msg), Encrypt(xs), UNCHANGED <<reader, spoiled>>
    PROVE  /\ msgs' \in Seq(Msg) /\ msgs' = msgs \o xs /\ stream' \in Seq(Sent)
           /\ Unspoiled' /\ Somewhere'
<1>1. msgs' = msgs \o xs /\ stream' = stream \o FlattenSeq(Added(xs, Len(msgs)))
    BY DEF Encrypt, Added
<1>2. /\ keyGot' = keyGot /\ keyGood' = keyGood /\ input' = input /\ mode' = mode /\ type' = type
      /\ size' = size /\ seen' = seen /\ payload' = payload /\ heard' = heard /\ spoiled' = spoiled
    BY DEF reader
<1>3. /\ msgs \in Seq(Msg) /\ stream \in Seq(Sent) /\ input \in Bytes /\ seen \in Bytes /\ keyGot \in 0..KeySize
    BY DEF Shaped
<1>4. PICK m \in 0..Len(msgs) : Reached(m) BY DEF Somewhere
<1>5. /\ msgs \o xs \in Seq(Msg) /\ Len(msgs \o xs) = Len(msgs) + Len(xs) /\ Len(msgs) \in Nat /\ Len(xs) \in Nat
      /\ \A i \in 1..Len(msgs) + Len(xs) : (msgs \o xs)[i] = IF i <= Len(msgs) THEN msgs[i] ELSE xs[i - Len(msgs)]
    BY <1>3, ConcatProperties, LenProperties
<1>6. m \in Nat /\ m <= Len(msgs) /\ m \in 0..Len(msgs') BY <1>1, <1>5
<1> DEFINE a == FlattenSeq(Added(xs, Len(msgs)))
<1>7. /\ Ahead(msgs, m) \in Seq(Sent) /\ a \in Seq(Sent) /\ Ahead(msgs', m) = Ahead(msgs, m) \o a
    BY <1>1, <1>3, AheadGrows
<1> HIDE DEF a
<1>8. stream' = stream \o a BY <1>1 DEF a
<1>9. stream' \in Seq(Sent) BY <1>3, <1>7, <1>8, ConcatProperties
<1>10. Hearing(m)'
    <2>1. First(msgs', m) = First(msgs, m) BY <1>1, <1>3, <1>6, RestConcat
    <2> QED BY <1>2, <1>4, <2>1 DEF Reached, Hearing
<1>11. Line(m)'
    <2>1. SUFFICES ASSUME mode # "bad"
                   PROVE  /\ keyGot < KeySize => /\ mode = "type" /\ input = <<>> /\ m = 0
                                                 /\ stream' = Rest(RawKey, keyGot) \o Ahead(msgs', 0)
                          /\ keyGot = KeySize => Clean(seen) \o (Clean(input) \o stream') = Ahead(msgs', m)
        BY <1>2 DEF Line
    <2>2. CASE keyGot < KeySize
        <3>1. mode = "type" /\ input = <<>> /\ m = 0 /\ stream = Rest(RawKey, keyGot) \o Ahead(msgs, 0)
            BY <1>4, <2>1, <2>2 DEF Reached, Line
        <3>2. Rest(RawKey, keyGot) \in Seq(Sent)
            <4>1. KeySize \in Nat BY SizeAssumption
            <4>2. \A i \in 1..KeySize : [of |-> 0, at |-> i, good |-> TRUE] \in Sent BY <4>1 DEF Sent
            <4>3. RawKey \in Seq(Sent) BY <4>1, <4>2, IsASeq DEF RawKey
            <4>4. keyGot \in Nat BY <1>3, <4>1
            <4> QED BY <4>3, <4>4, FirstRest
        <3>3. (Rest(RawKey, keyGot) \o Ahead(msgs, 0)) \o a = Rest(RawKey, keyGot) \o (Ahead(msgs, 0) \o a)
            <4>1. Ahead(msgs, 0) \in Seq(Sent) /\ a \in Seq(Sent) BY <1>7, <3>1
            <4>2. Regroups(Rest(RawKey, keyGot), Ahead(msgs, 0), a) BY <3>2, <4>1, Regrouped
            <4> QED BY <4>2 DEF Regroups
        <3>4. stream' = Rest(RawKey, keyGot) \o Ahead(msgs', 0) BY <1>7, <1>8, <3>1, <3>3
        <3>5. ~(keyGot = KeySize)
            <4>1. KeySize \in Nat /\ keyGot \in Nat BY <1>3, SizeAssumption
            <4> QED BY <2>2, <4>1
        <3> QED BY <3>1, <3>4, <3>5
    <2>3. CASE ~(keyGot < KeySize)
        <3>1. keyGot = KeySize BY <1>3, <2>3, SizeAssumption
        <3>2. Clean(seen) \o (Clean(input) \o stream) = Ahead(msgs, m)
            BY <1>4, <2>1, <3>1 DEF Reached, Line
        <3>3. Clean(seen) \in Seq(Sent) /\ Clean(input) \in Seq(Sent) BY <1>3, CleanType
        <3>4. EndsIn(Clean(seen), Clean(input), stream, Ahead(msgs, m), a) BY <1>3, <1>7, <3>3, GrowsAtEnd
        <3>5. Clean(seen) \o (Clean(input) \o stream') = Ahead(msgs', m) BY <1>7, <1>8, <3>2, <3>4 DEF EndsIn
        <3> QED BY <2>3, <3>5
    <2> QED BY <2>2, <2>3
<1>12. Reading(m)'
    <2>1. m < Len(msgs) => m < Len(msgs') /\ msgs'[m + 1] = msgs[m + 1]
        <3>1. SUFFICES ASSUME m < Len(msgs) PROVE m < Len(msgs') /\ msgs'[m + 1] = msgs[m + 1] OBVIOUS
        <3>2. m + 1 \in 1..Len(msgs) + Len(xs) /\ m + 1 <= Len(msgs) /\ m < Len(msgs) + Len(xs)
            BY <1>5, <1>6, <3>1
        <3> QED BY <1>1, <1>5, <3>2
    <2>2. Reading(m) BY <1>4 DEF Reached
    <2>3. /\ mode = "type" => seen = <<>>
          /\ mode \in {"size", "payload"} =>
                /\ m < Len(msgs') /\ keyGot = KeySize /\ Len(seen) > 0 /\ seen[1].of = m + 1 /\ type \in Types
                /\ keyGood = TRUE /\ seen[1].good = TRUE => type = msgs'[m + 1].type
          /\ mode = "size" => type \in SizedTypes /\ Len(seen) = 1
          /\ mode = "payload" =>
                /\ Len(seen) = 1 + (IF type \in SizedTypes THEN SizeBytes ELSE 0)
                /\ keyGood = TRUE /\ Good(seen) => size = BodySize(msgs'[m + 1])
        BY <2>1, <2>2 DEF Reading
    <2> QED BY <1>2, <2>3 DEF Reading, Good
<1>13. Somewhere' BY <1>6, <1>10, <1>11, <1>12 DEF Somewhere, Reached
<1>14. Unspoiled' BY <1>2 DEF Unspoiled, Good
<1> QED BY <1>1, <1>5, <1>9, <1>13, <1>14

\* Bytes with their numbers.
LEMMA NumberedType ==
    ASSUME NEW a \in Int, NEW b \in Int, b - a + 1 \in Nat
    PROVE  Numbered(a, b) \in Body /\ Len(Numbered(a, b)) = b - a + 1
<1> DEFINE n == b - a + 1
<1>1. n \in Nat OBVIOUS
<1>2. \A i \in 1..n : a + i - 1 \in Int BY <1>1
<1>3. Numbered(a, b) = [i \in 1..n |-> a + i - 1] BY DEF Numbered
<1> HIDE DEF n
<1>4. [i \in 1..n |-> a + i - 1] \in Seq(Int) /\ Len([i \in 1..n |-> a + i - 1]) = n
    BY <1>1, <1>2, IsASeq
<1> QED BY <1>3, <1>4 DEF Body, n

\* More payload, enciphered or put with what waits.
LEMMA PutStep ==
    ASSUME IInv, Put
    PROVE  IInv'
<1>1. Shaped /\ Telling /\ Unspoiled /\ Somewhere BY DEF IInv
<1> DEFINE B(n) == Numbered(Total(given) - held + 1, Total(given) + n)
<1>2. PICK n \in Size :
        /\ given' = Append(given, n)
        /\ IF allowed
           THEN held' = 0 /\ Encrypt(Pieces(B(n))) /\ told' = Append(told, Saying("payload", B(n)))
           ELSE held' = held + n /\ UNCHANGED <<msgs, told, stream>>
    BY DEF Put
<1>3. UNCHANGED <<allowed, reader, spoiled>> BY DEF Put
<1>4. n \in Nat \ {0} BY SizeAssumption
<1>5. given \in Seq(Nat) /\ held \in Nat /\ allowed \in BOOLEAN /\ msgs \in Seq(Msg) /\ told \in Seq(Said)
    BY <1>1 DEF Shaped
<1>6. given' \in Seq(Nat) BY <1>2, <1>4, <1>5, AppendProperties
<1> DEFINE b == B(n)
<1>7. b \in Body /\ Len(b) > 0
    <2>1. Total(given) \in Nat BY <1>5, TotalType
    <2> DEFINE p == Total(given) - held + 1
               q == Total(given) + n
    <2>2. p \in Int /\ q \in Int /\ q - p + 1 = n + held BY <1>4, <1>5, <2>1
    <2>3. n + held \in Nat /\ n + held > 0 BY <1>4, <1>5
    <2>4. b = Numbered(p, q) OBVIOUS
    <2> HIDE DEF p, q, b
    <2> QED BY <2>2, <2>3, <2>4, NumberedType
<1> HIDE DEF b
<1>8. CASE allowed
    <2>1. held' = 0 /\ Encrypt(Pieces(b)) /\ told' = Append(told, Saying("payload", b)) BY <1>2, <1>8 DEF b
    <2>2. /\ Pieces(b) \in Seq(Msg)
          /\ Hears(msgs \o Pieces(b)) = [heard |-> Append(told, Saying("payload", b)), payload |-> <<>>]
        BY <1>1, <1>5, <1>7, PiecesHeard DEF Telling
    <2>3. /\ msgs' \in Seq(Msg) /\ msgs' = msgs \o Pieces(b) /\ stream' \in Seq(Sent)
          /\ Unspoiled' /\ Somewhere'
        BY <1>1, <1>3, <2>1, <2>2, Writes
    <2>4. Telling' BY <2>1, <2>2, <2>3 DEF Telling
    <2>5. Saying("payload", b) \in Said BY <1>7 DEF Said, Saying
    <2>6. told' \in Seq(Said) BY <1>5, <2>1, <2>5, AppendProperties
    <2>7. Shaped' BY <1>1, <1>3, <1>6, <2>1, <2>3, <2>6 DEF Shaped, reader
    <2> QED BY <2>3, <2>4, <2>7 DEF IInv
<1>9. CASE ~allowed
    <2>1. held' = held + n /\ UNCHANGED <<msgs, told, stream, reader, spoiled>> BY <1>2, <1>3, <1>9
    <2>2. held' \in Nat BY <1>4, <1>5, <2>1
    <2>3. Shaped' BY <1>1, <1>3, <1>6, <2>1, <2>2 DEF Shaped, reader
    <2>4. Telling' BY <1>1, <2>1 DEF Telling
    <2>5. Unspoiled' BY <1>1, <2>1 DEF Unspoiled, reader, Good
    <2>6. Somewhere' BY <1>1, <2>1 DEF Somewhere, Reached, Hearing, Line, Reading, reader, Good
    <2> QED BY <2>3, <2>4, <2>5, <2>6 DEF IInv
<1> QED BY <1>8, <1>9

\* A message of the handshake.
LEMMA ControlHeard ==
    ASSUME NEW ms \in Seq(Msg), NEW h \in Seq(Said), Hears(ms) = [heard |-> h, payload |-> <<>>],
           NEW t \in {"skey", "marker", "ekey", "applied"}
    PROVE  /\ Control(t) \in Msg /\ Saying(t, <<>>) \in Said
           /\ Append(ms, Control(t)) \in Seq(Msg) /\ Append(h, Saying(t, <<>>)) \in Seq(Said)
           /\ Hears(Append(ms, Control(t))) = [heard |-> Append(h, Saying(t, <<>>)), payload |-> <<>>]
<1>1. <<>> \in Seq(Int) /\ <<>> \in Body BY EmptySeq DEF Body
<1>2. t \in Types /\ t \notin {"chunk", "last"} BY DEF Types, SizedTypes
<1>3. Control(t) \in Msg BY <1>1, <1>2, MsgMade DEF Control
<1>4. Saying(t, <<>>) \in Said BY <1>1, <1>2 DEF Said, Saying
<1>5. Control(t).type = t BY DEF Control
<1>6. Hears(Append(ms, Control(t))) = Handed(Hears(ms), Control(t)) BY <1>3, HearsAppend
<1>7. Handed(Hears(ms), Control(t)) = [heard |-> Append(h, Saying(t, <<>>)), payload |-> <<>>]
    BY <1>2, <1>5 DEF Handed
<1> QED BY <1>3, <1>4, <1>6, <1>7, AppendProperties

\* Payload is allowed, and what waited for that is enciphered.
LEMMA OpenStep ==
    ASSUME IInv, Open
    PROVE  IInv'
<1>1. Shaped /\ Telling /\ Unspoiled /\ Somewhere BY DEF IInv
<1> DEFINE b == Numbered(Total(given) - held + 1, Total(given))
           ps == IF held = 0 THEN <<>> ELSE Pieces(b)
           ss == IF held = 0 THEN <<>> ELSE <<Saying("payload", b)>>
           two == <<Control("skey"), Control("marker")>>
           m2 == Append(Append(msgs, Control("skey")), Control("marker"))
           t1 == <<Saying("skey", <<>>), Saying("marker", <<>>)>>
           t2 == Append(Append(told, Saying("skey", <<>>)), Saying("marker", <<>>))
<1>2. allowed' = TRUE /\ held' = 0 /\ Encrypt(two \o ps) /\ told' = (told \o t1) \o ss
    BY DEF Open
<1>3. UNCHANGED <<given, reader, spoiled>> BY DEF Open
<1>4. given \in Seq(Nat) /\ held \in Nat /\ msgs \in Seq(Msg) /\ told \in Seq(Said)
    BY <1>1 DEF Shaped
<1>5. /\ two \in Seq(Msg) /\ msgs \o two = m2 /\ m2 \in Seq(Msg) /\ told \o t1 = t2 /\ t2 \in Seq(Said)
      /\ Hears(m2) = [heard |-> t2, payload |-> <<>>]
    <2> DEFINE m1 == Append(msgs, Control("skey"))
               h1 == Append(told, Saying("skey", <<>>))
    <2>1. /\ Control("skey") \in Msg /\ Saying("skey", <<>>) \in Said
          /\ m1 \in Seq(Msg) /\ h1 \in Seq(Said) /\ Hears(m1) = [heard |-> h1, payload |-> <<>>]
        BY <1>1, <1>4, ControlHeard DEF Telling
    <2>2. m2 = Append(m1, Control("marker")) /\ t2 = Append(h1, Saying("marker", <<>>)) OBVIOUS
    <2> HIDE DEF m1, h1, m2, t2
    <2>3. /\ Control("marker") \in Msg /\ Saying("marker", <<>>) \in Said
          /\ m2 \in Seq(Msg) /\ t2 \in Seq(Said) /\ Hears(m2) = [heard |-> t2, payload |-> <<>>]
        BY <2>1, <2>2, ControlHeard
    <2>4. two \in Seq(Msg) /\ msgs \o two = m2 BY <1>4, <2>1, <2>3, TwoMore DEF m2
    <2>5. told \o t1 = t2 BY <1>4, <2>1, <2>3, TwoMore DEF t2
    <2> QED BY <2>3, <2>4, <2>5
<1> HIDE DEF two, m2, t1, t2
<1>6. /\ ps \in Seq(Msg) /\ t2 \o ss \in Seq(Said)
      /\ Hears(m2 \o ps) = [heard |-> t2 \o ss, payload |-> <<>>]
    <2>1. CASE held = 0
        <3>1. ps = <<>> /\ ss = <<>> BY <2>1
        <3>2. <<>> \in Seq(Msg) /\ m2 \o <<>> = m2 /\ t2 \o <<>> = t2 BY <1>5, EmptySeq, ConcatEmptySeq
        <3> QED BY <1>5, <3>1, <3>2
    <2>2. CASE held # 0
        <3>1. ps = Pieces(b) /\ ss = <<Saying("payload", b)>> BY <2>2
        <3>2. b \in Body /\ Len(b) > 0
            <4>1. Total(given) \in Nat BY <1>4, TotalType
            <4> DEFINE p == Total(given) - held + 1
                       q == Total(given)
            <4>2. p \in Int /\ q \in Int /\ q - p + 1 = held BY <1>4, <4>1
            <4>3. b = Numbered(p, q) OBVIOUS
            <4> HIDE DEF p, q, b
            <4>4. held \in Nat /\ held > 0 BY <1>4, <2>2
            <4>5. q - p + 1 \in Nat /\ q - p + 1 > 0 BY <4>2, <4>4
            <4>6. Numbered(p, q) \in Body /\ Len(Numbered(p, q)) = q - p + 1 BY <4>2, <4>5, NumberedType
            <4> QED BY <4>3, <4>5, <4>6
        <3> HIDE DEF b, ps, ss
        <3>3. /\ Pieces(b) \in Seq(Msg)
              /\ Hears(m2 \o Pieces(b)) = [heard |-> Append(t2, Saying("payload", b)), payload |-> <<>>]
            BY <1>5, <3>2, PiecesHeard
        <3>4. Saying("payload", b) \in Said BY <3>2 DEF Said, Saying
        <3>5. Append(t2, Saying("payload", b)) \in Seq(Said) BY <1>5, <3>4, AppendProperties
        <3>6. Append(t2, Saying("payload", b)) = t2 \o ss BY <1>5, <3>1, <3>4, AppendIsConcat
        <3> QED BY <3>1, <3>3, <3>5, <3>6
    <2> QED BY <2>1, <2>2
<1> HIDE DEF b, ps, ss
<1>7. msgs \o (two \o ps) = m2 \o ps /\ two \o ps \in Seq(Msg)
    <2>1. Regroups(msgs, two, ps) BY <1>4, <1>5, <1>6, Regrouped
    <2>2. two \o ps \in Seq(Msg) BY <1>5, <1>6, ConcatProperties
    <2> QED BY <1>5, <2>1, <2>2 DEF Regroups
<1>8. /\ msgs' \in Seq(Msg) /\ msgs' = msgs \o (two \o ps) /\ stream' \in Seq(Sent)
      /\ Unspoiled' /\ Somewhere'
    BY <1>1, <1>2, <1>3, <1>7, Writes
<1>9. told' = t2 \o ss BY <1>2, <1>5
<1>10. Telling' BY <1>6, <1>7, <1>8, <1>9 DEF Telling
<1>11. Shaped' BY <1>1, <1>2, <1>3, <1>6, <1>8, <1>9 DEF Shaped, reader
<1> QED BY <1>8, <1>10, <1>11 DEF IInv

\* A new key or a confirmation between two payloads.
LEMMA UrgentStep ==
    ASSUME IInv, Urgent
    PROVE  IInv'
<1>1. Shaped /\ Telling /\ Unspoiled /\ Somewhere BY DEF IInv
<1>2. PICK t \in {"ekey", "applied"} : Encrypt(<<Control(t)>>) /\ told' = Append(told, Saying(t, <<>>))
    BY DEF Urgent
<1>3. UNCHANGED <<given, held, allowed, reader, spoiled>> BY DEF Urgent
<1>4. msgs \in Seq(Msg) /\ told \in Seq(Said) BY <1>1 DEF Shaped
<1>5. t \in {"skey", "marker", "ekey", "applied"} OBVIOUS
<1>6. /\ Control(t) \in Msg /\ Append(told, Saying(t, <<>>)) \in Seq(Said)
      /\ Hears(Append(msgs, Control(t))) = [heard |-> Append(told, Saying(t, <<>>)), payload |-> <<>>]
    BY <1>1, <1>4, <1>5, ControlHeard DEF Telling
<1>7. <<Control(t)>> \in Seq(Msg) BY <1>6
<1>8. Append(msgs, Control(t)) = msgs \o <<Control(t)>> BY <1>4, <1>6, AppendIsConcat
<1>9. /\ msgs' \in Seq(Msg) /\ msgs' = msgs \o <<Control(t)>> /\ stream' \in Seq(Sent)
      /\ Unspoiled' /\ Somewhere'
    BY <1>1, <1>2, <1>3, <1>7, Writes
<1>10. Telling' BY <1>2, <1>6, <1>8, <1>9 DEF Telling
<1>11. Shaped' BY <1>1, <1>2, <1>3, <1>6, <1>9 DEF Shaped, reader
<1> QED BY <1>9, <1>10, <1>11 DEF IInv

-----------------------------------------------------------------------------
(* The reader: bytes come in. *)

\* Good bytes in two parts, and in the parts of a whole.
LEMMA GoodConcat ==
    ASSUME NEW s \in Bytes, NEW t \in Bytes
    PROVE  Good(s \o t) <=> Good(s) /\ Good(t)
<1>1. /\ Len(s) \in Nat /\ Len(t) \in Nat /\ Len(s \o t) = Len(s) + Len(t)
      /\ \A i \in 1..Len(s) + Len(t) : (s \o t)[i] = IF i <= Len(s) THEN s[i] ELSE t[i - Len(s)]
    BY ConcatProperties, LenProperties DEF Bytes
<1>2. ASSUME Good(s \o t), NEW i \in 1..Len(s) PROVE s[i].good = TRUE
    <2>1. i \in 1..Len(s) + Len(t) /\ i <= Len(s) BY <1>1
    <2>2. (s \o t)[i] = s[i] BY <1>1, <2>1
    <2>3. (s \o t)[i].good = TRUE BY <1>1, <1>2, <2>1 DEF Good
    <2> QED BY <2>2, <2>3
<1>3. ASSUME Good(s \o t), NEW i \in 1..Len(t) PROVE t[i].good = TRUE
    <2> DEFINE j == Len(s) + i
    <2>1. j \in 1..Len(s) + Len(t) /\ ~(j <= Len(s)) /\ j - Len(s) = i BY <1>1
    <2> HIDE DEF j
    <2>2. (s \o t)[j] = t[i] BY <1>1, <2>1
    <2>3. (s \o t)[j].good = TRUE BY <1>1, <1>3, <2>1 DEF Good
    <2> QED BY <2>2, <2>3
<1>4. ASSUME Good(s), Good(t), NEW i \in 1..Len(s) + Len(t) PROVE (s \o t)[i].good = TRUE
    <2>1. CASE i <= Len(s)
        <3>1. i \in 1..Len(s) BY <1>1, <2>1
        <3> QED BY <1>1, <1>4, <2>1, <3>1 DEF Good
    <2>2. CASE ~(i <= Len(s))
        <3>1. i - Len(s) \in 1..Len(t) BY <1>1, <2>2
        <3> QED BY <1>1, <1>4, <2>2, <3>1 DEF Good
    <2> QED BY <2>1, <2>2
<1>5. Good(s \o t) => Good(s) /\ Good(t) BY <1>2, <1>3 DEF Good
<1>6. Good(s) /\ Good(t) => Good(s \o t)
    <2>1. SUFFICES ASSUME Good(s), Good(t) PROVE Good(s \o t) OBVIOUS
    <2>2. \A i \in 1..Len(s) + Len(t) : (s \o t)[i].good = TRUE BY <1>4, <2>1
    <2> QED BY <1>1, <2>2 DEF Good
<1> QED BY <1>5, <1>6

\* The beginning and the rest of good bytes are good.
LEMMA GoodParts ==
    ASSUME NEW s \in Bytes, NEW n \in Nat, Good(s)
    PROVE  Good(First(s, n)) /\ Good(Rest(s, n))
<1>1. First(s, n) \in Bytes /\ Rest(s, n) \in Bytes BY CleanParts
<1>2. First(s, n) \o Rest(s, n) = s BY FirstRest DEF Bytes
<1> DEFINE f == First(s, n)
           r == Rest(s, n)
<1> HIDE DEF f, r
<1>3. Good(f \o r) <=> Good(f) /\ Good(r) BY <1>1, GoodConcat DEF f, r
<1> QED BY <1>2, <1>3 DEF f, r

\* The next k bytes of s, the j-th spoiled.
Came(s, k, j) == [i \in 1..k |-> [s[i] EXCEPT !.good = i # j]]

\* Bytes that came in: but for the spoiled one they are the next of the stream.
LEMMA CameType ==
    ASSUME NEW s \in Seq(Sent), NEW k \in 1..Len(s), NEW j \in 0..k
    PROVE  /\ Came(s, k, j) \in Bytes /\ Len(Came(s, k, j)) = k
           /\ Clean(Came(s, k, j)) = First(s, k)
           /\ j = 0 => Good(Came(s, k, j))
<1> DEFINE c == Came(s, k, j)
           f == First(s, k)
<1>1. Len(s) \in Nat /\ k \in Nat /\ k <= Len(s) /\ \A i \in 1..k : s[i] \in Sent
    BY LenProperties, ElementOfSeq
<1>2. ASSUME NEW i \in 1..k
      PROVE  /\ [s[i] EXCEPT !.good = i # j] \in Byte
             /\ [s[i] EXCEPT !.good = i # j].of = s[i].of /\ [s[i] EXCEPT !.good = i # j].at = s[i].at
             /\ s[i] = [of |-> s[i].of, at |-> s[i].at, good |-> TRUE]
    <2>1. s[i] \in Sent BY <1>1
    <2>2. (i # j) \in BOOLEAN OBVIOUS
    <2> QED BY <2>1, <2>2 DEF Sent, Byte
<1>3. c = [i \in 1..k |-> [s[i] EXCEPT !.good = i # j]] BY DEF Came
<1>4. c \in Bytes /\ Len(c) = k
    <2>1. c \in [1..k -> Byte] BY <1>2, <1>3
    <2> HIDE DEF c
    <2> QED BY <1>1, <2>1, FunctionIsSeq DEF Bytes
<1>5. \A i \in 1..k : c[i].of = s[i].of /\ c[i].at = s[i].at BY <1>2, <1>3
<1>6. ASSUME j = 0, NEW i \in 1..k PROVE c[i].good = TRUE
    <2>1. s[i] \in Sent BY <1>1
    <2>2. i # j BY <1>6
    <2>3. c[i] = [s[i] EXCEPT !.good = i # j] BY <1>3
    <2> QED BY <2>1, <2>2, <2>3 DEF Sent
<1> HIDE DEF c
<1>7. f \in Seq(Sent) /\ Len(f) = k /\ \A i \in 1..k : f[i] = s[i]
    <2>1. f \in Seq(Sent) /\ Len(f) = (IF k < Len(s) THEN k ELSE Len(s)) /\ \A i \in 1..Len(f) : f[i] = s[i]
        BY <1>1, FirstRest
    <2> HIDE DEF f
    <2> QED BY <1>1, <2>1
<1> HIDE DEF f
<1>8. /\ Clean(c) \in Seq(Sent) /\ Len(Clean(c)) = k
      /\ \A i \in 1..k : Clean(c)[i] = [of |-> c[i].of, at |-> c[i].at, good |-> TRUE]
    BY <1>4, CleanType
<1>9. ASSUME NEW i \in 1..k PROVE Clean(c)[i] = f[i]
    <2>1. Clean(c)[i] = [of |-> s[i].of, at |-> s[i].at, good |-> TRUE] BY <1>5, <1>8
    <2>2. s[i] = [of |-> s[i].of, at |-> s[i].at, good |-> TRUE] BY <1>2
    <2>3. f[i] = s[i] BY <1>7
    <2> QED BY <2>1, <2>2, <2>3
<1>10. Clean(c) = f BY <1>7, <1>8, <1>9, SeqEqual
<1>11. j = 0 => Good(c) BY <1>4, <1>6 DEF Good
<1> QED BY <1>4, <1>10, <1>11 DEF c, f

\* The first key, as it is sent.
LEMMA RawKeyType ==
    ASSUME NEW g \in 0..KeySize
    PROVE  Rest(RawKey, g) \in Seq(Sent) /\ Len(Rest(RawKey, g)) = KeySize - g
<1>1. KeySize \in Nat /\ g \in Nat /\ g <= KeySize BY SizeAssumption
<1>2. \A i \in 1..KeySize : [of |-> 0, at |-> i, good |-> TRUE] \in Sent BY <1>1 DEF Sent
<1>3. RawKey \in Seq(Sent) /\ Len(RawKey) = KeySize BY <1>1, <1>2, IsASeq DEF RawKey
<1>4. Rest(RawKey, g) \in Seq(Sent) /\ Len(Rest(RawKey, g)) = (IF g < Len(RawKey) THEN Len(RawKey) - g ELSE 0)
    BY <1>1, <1>3, FirstRest
<1> QED BY <1>1, <1>3, <1>4

\* After the first key: what came is behind what there is.
StaysLined(p, i, c, s, k) == p \o (Clean(i \o c) \o Rest(s, k)) = p \o (Clean(i) \o s)

\* That is so of what came in.
LEMMA ComesBehind ==
    ASSUME NEW p \in Seq(Sent), NEW i \in Bytes, NEW c \in Bytes, NEW s \in Seq(Sent), NEW k \in Nat,
           Clean(c) = First(s, k)
    PROVE  StaysLined(p, i, c, s, k)
<1>1. Clean(i \o c) = Clean(i) \o First(s, k) BY CleanConcat
<1>2. First(s, k) \in Seq(Sent) /\ Rest(s, k) \in Seq(Sent) /\ First(s, k) \o Rest(s, k) = s BY FirstRest
<1>3. Clean(i) \in Seq(Sent) BY CleanType
<1>4. Regroups(Clean(i), First(s, k), Rest(s, k)) BY <1>2, <1>3, Regrouped
<1> QED BY <1>1, <1>2, <1>4 DEF Regroups, StaysLined

\* With the end of the first key.
LEMMA ComesWithKey ==
    ASSUME NEW r \in Seq(Sent), NEW a \in Seq(Sent), NEW c \in Bytes, NEW k \in Nat,
           Len(r) <= k, k <= Len(r \o a), Clean(c) = First(r \o a, k)
    PROVE  Clean(Rest(c, Len(r))) \o Rest(r \o a, k) = a
<1> DEFINE s == r \o a
           d == Len(r)
           f == First(s, k)
           t == Rest(s, k)
<1>1. s \in Seq(Sent) /\ d \in Nat BY ConcatProperties, LenProperties
<1>2. Rest(s, d) = a BY RestIs
<1>3. k <= Len(s) /\ d <= k /\ Len(s) \in Nat BY <1>1, LenProperties
<1> HIDE DEF s, d
<1>4. f \in Seq(Sent) /\ t \in Seq(Sent) /\ f \o t = s /\ Len(f) = k
    <2>1. f \in Seq(Sent) /\ t \in Seq(Sent) /\ f \o t = s /\ Len(f) = IF k < Len(s) THEN k ELSE Len(s)
        BY <1>1, FirstRest
    <2> HIDE DEF f, t
    <2>2. Len(f) = IF k < Len(s) THEN k ELSE Len(s) BY <2>1
    <2>3. Len(f) = k BY <1>3, <2>2
    <2> QED BY <2>1, <2>3
<1>5. Clean(Rest(c, d)) = Rest(Clean(c), d) BY <1>1, CleanParts
<1>6. Clean(c) = f BY DEF s
<1> HIDE DEF f, t
<1>7. Rest(f \o t, d) = Rest(f, d) \o t BY <1>1, <1>3, <1>4, RestConcat
<1>8. Clean(Rest(c, d)) \o t = a BY <1>2, <1>4, <1>5, <1>6, <1>7
<1> QED BY <1>8 DEF s, d, t

\* Bytes of the stream come in.
LEMMA InputStep ==
    ASSUME IInv, Input
    PROVE  IInv'
<1>1. Shaped /\ Telling /\ Unspoiled /\ Somewhere BY DEF IInv
<1>2. PICK k \in 1..Len(stream) : \E j \in 0..k :
        /\ j # 0 => spoiled < MaxSpoiled
        /\ spoiled' = IF j = 0 THEN spoiled ELSE spoiled + 1
        /\ stream' = Rest(stream, k)
        /\ Take([i \in 1..k |-> [stream[i] EXCEPT !.good = i # j]])
    BY DEF Input
<1>3. PICK j \in 0..k :
        /\ j # 0 => spoiled < MaxSpoiled
        /\ spoiled' = IF j = 0 THEN spoiled ELSE spoiled + 1
        /\ stream' = Rest(stream, k)
        /\ Take([i \in 1..k |-> [stream[i] EXCEPT !.good = i # j]])
    BY <1>2
<1> DEFINE c == Came(stream, k, j)
<1>4. Take(c) BY <1>3 DEF Came
<1>5. /\ given' = given /\ held' = held /\ allowed' = allowed /\ msgs' = msgs /\ told' = told
      /\ mode' = mode /\ type' = type /\ size' = size /\ seen' = seen /\ payload' = payload
      /\ heard' = heard /\ failed' = failed
    BY DEF Input, writer
<1>6. /\ stream \in Seq(Sent) /\ input \in Bytes /\ seen \in Bytes /\ keyGot \in 0..KeySize /\ keyGood \in BOOLEAN
      /\ spoiled \in 0..MaxSpoiled /\ msgs \in Seq(Msg)
    BY <1>1 DEF Shaped
<1>7. /\ c \in Bytes /\ Len(c) = k /\ Clean(c) = First(stream, k)
      /\ j = 0 => Good(c)
    BY <1>6, CameType
<1>8. k \in Nat \ {0} /\ k <= Len(stream) BY <1>6, LenProperties
<1>9. stream' = Rest(stream, k) /\ stream' \in Seq(Sent) BY <1>3, <1>6, <1>8, FirstRest
<1>10. /\ spoiled' \in 0..MaxSpoiled
       /\ spoiled' = 0 => j = 0 /\ spoiled = 0
    <2>1. MaxSpoiled \in Nat BY BoundsAssumption
    <2> QED BY <1>3, <1>6, <2>1
<1>11. KeySize \in Nat \ {0} /\ keyGot \in Nat /\ keyGot <= KeySize BY <1>6, SizeAssumption
<1>12. PICK m \in 0..Len(msgs) : Reached(m) BY <1>1 DEF Somewhere
<1>13. m \in 0..Len(msgs') BY <1>5
<1>14. Hearing(m)' BY <1>5, <1>12 DEF Reached, Hearing
<1> HIDE DEF c
<1>15. CASE mode = "bad"
    <2>1. keyGot' = keyGot /\ keyGood' = keyGood /\ input' = input BY <1>4, <1>15 DEF Take
    <2>2. Shaped' BY <1>1, <1>5, <1>9, <1>10, <2>1 DEF Shaped
    <2>3. Telling' BY <1>1, <1>5 DEF Telling
    <2>4. Unspoiled' BY <1>1, <1>10, <1>15 DEF Unspoiled
    <2>5. Line(m)' BY <1>5, <1>15 DEF Line
    <2>6. Reading(m)' BY <1>5, <1>15 DEF Reading
    <2>7. Somewhere' BY <1>13, <1>14, <2>5, <2>6 DEF Somewhere, Reached
    <2> QED BY <2>2, <2>3, <2>4, <2>7 DEF IInv
<1>16. CASE mode # "bad"
    <2> DEFINE n == IF KeySize - keyGot < Len(c) THEN KeySize - keyGot ELSE Len(c)
    <2>1. /\ keyGot' = keyGot + n
          /\ keyGood' = (keyGood /\ \A i \in 1..n : c[i].good)
          /\ input' = input \o Rest(c, n)
        BY <1>4, <1>16 DEF Take
    <2>2. n = IF KeySize - keyGot < k THEN KeySize - keyGot ELSE k BY <1>7
    <2> HIDE DEF n
    <2>3. n \in Nat /\ n <= k /\ keyGot' \in 0..KeySize BY <1>8, <1>11, <2>1, <2>2
    <2>4. /\ keyGood' \in BOOLEAN /\ (keyGood' = TRUE => keyGood = TRUE)
          /\ keyGood = TRUE /\ Good(c) => keyGood' = TRUE
        <3>1. keyGood' \in BOOLEAN /\ (keyGood' = TRUE => keyGood = TRUE) BY <1>6, <2>1
        <3>2. ASSUME keyGood = TRUE, Good(c) PROVE keyGood' = TRUE
            <4>1. \A i \in 1..n : i \in 1..Len(c) BY <1>7, <1>8, <2>3
            <4>2. \A i \in 1..n : c[i].good = TRUE BY <3>2, <4>1 DEF Good
            <4> QED BY <2>1, <3>2, <4>2
        <3> QED BY <3>1, <3>2
    <2>5. Rest(c, n) \in Bytes /\ input' \in Bytes
        <3>1. Rest(c, n) \in Bytes BY <1>7, <2>3, CleanParts
        <3> QED BY <1>6, <2>1, <3>1, CleanConcat
    <2>6. Shaped' BY <1>1, <1>5, <1>9, <1>10, <2>3, <2>4, <2>5 DEF Shaped
    <2>7. Telling' BY <1>1, <1>5 DEF Telling
    <2>8. Unspoiled'
        <3>1. SUFFICES ASSUME spoiled' = 0 PROVE keyGood' = TRUE /\ Good(input') /\ Good(seen') /\ mode' # "bad"
            BY DEF Unspoiled, Good
        <3>2. Good(c) /\ keyGood = TRUE /\ Good(input) /\ Good(seen)
            BY <1>1, <1>7, <1>10, <3>1 DEF Unspoiled
        <3>3. Good(Rest(c, n)) BY <1>7, <2>3, <3>2, GoodParts
        <3>4. Good(input') BY <1>6, <2>1, <2>5, <3>2, <3>3, GoodConcat
        <3> QED BY <1>5, <1>16, <2>4, <3>2, <3>4
    <2>9. Line(m)'
        <3>1. CASE keyGot = KeySize
            <4>1. n = 0 /\ keyGot' = KeySize BY <1>8, <1>11, <2>1, <2>2, <3>1
            <4>2. Clean(seen) \o (Clean(input) \o stream) = Ahead(msgs, m)
                BY <1>12, <1>16, <3>1 DEF Reached, Line
            <4>3. Rest(c, 0) = c BY <1>7, SubSeqFull DEF Rest, Bytes
            <4>4. input' = input \o c BY <2>1, <4>1, <4>3
            <4>5. Clean(seen) \in Seq(Sent) BY <1>6, CleanType
            <4>6. StaysLined(Clean(seen), input, c, stream, k)
                BY <1>6, <1>7, <1>8, <4>5, ComesBehind
            <4>7. Clean(seen') \o (Clean(input') \o stream') = Ahead(msgs', m)
                BY <1>5, <1>9, <4>2, <4>4, <4>6 DEF StaysLined
            <4> QED BY <1>11, <4>1, <4>7 DEF Line
        <3>2. CASE keyGot # KeySize
            <4>1. keyGot < KeySize BY <1>11, <3>2
            <4>2. /\ mode = "type" /\ input = <<>> /\ m = 0 /\ seen = <<>>
                  /\ stream = Rest(RawKey, keyGot) \o Ahead(msgs, 0)
                BY <1>12, <1>16, <4>1 DEF Reached, Line, Reading
            <4> DEFINE r == Rest(RawKey, keyGot)
                       a == Ahead(msgs, 0)
            <4>3. r \in Seq(Sent) /\ Len(r) = KeySize - keyGot BY <1>6, RawKeyType
            <4>4. a \in Seq(Sent)
                <5>1. <<>> \in Seq(Msg) BY EmptySeq
                <5>2. 0 \in 0..Len(msgs) BY <1>6, LenProperties
                <5> QED BY <1>6, <5>1, <5>2, AheadGrows
            <4>5. stream = r \o a BY <4>2
            <4>6. Rest(r, k) = Rest(RawKey, keyGot + k)
                <5>1. RawKey \in Seq(Sent)
                    <6>1. \A i \in 1..KeySize : [of |-> 0, at |-> i, good |-> TRUE] \in Sent BY <1>11 DEF Sent
                    <6> QED BY <1>11, <6>1, IsASeq DEF RawKey
                <5> QED BY <1>8, <1>11, <5>1, RestRest
            <4> HIDE DEF r, a
            <4>7. <<>> \o Rest(c, n) = Rest(c, n) BY <2>5, ConcatEmptySeq DEF Bytes
            <4>8. input' = Rest(c, n) BY <2>1, <4>2, <4>7
            <4>9. CASE k < KeySize - keyGot
                <5>1. n = k /\ keyGot' = keyGot + k /\ keyGot' < KeySize BY <1>8, <1>11, <2>1, <2>2, <4>9
                <5>2. Rest(c, n) = <<>> BY <1>7, <1>8, <5>1, SubSeqEmpty DEF Rest
                <5>3. k <= Len(r) BY <1>8, <1>11, <4>3, <4>9
                <5>4. Rest(r \o a, k) = Rest(r, k) \o a BY <1>8, <4>3, <4>4, <5>3, RestConcat
                <5>5. stream' = Rest(RawKey, keyGot') \o Ahead(msgs', 0)
                    BY <1>5, <1>9, <4>5, <4>6, <5>1, <5>4 DEF a
                <5>6. ~(keyGot' = KeySize) BY <1>8, <1>11, <5>1
                <5> QED BY <1>5, <4>2, <4>8, <5>2, <5>5, <5>6 DEF Line
            <4>10. CASE ~(k < KeySize - keyGot)
                <5>1. n = KeySize - keyGot /\ keyGot' = KeySize /\ n = Len(r) /\ Len(r) <= k
                    BY <1>8, <1>11, <2>1, <2>2, <4>3, <4>10
                <5>2. Clean(Rest(c, Len(r))) \o Rest(r \o a, k) = a
                    BY <1>7, <1>8, <4>3, <4>4, <4>5, <5>1, ComesWithKey
                <5>3. Clean(input') \o stream' = Ahead(msgs', 0)
                    BY <1>5, <1>9, <4>5, <4>8, <5>1, <5>2 DEF a
                <5>4. Clean(<<>>) = <<>> BY DEF Clean
                <5>5. <<>> \o (Clean(input') \o stream') = Clean(input') \o stream'
                    <6>1. Clean(input') \o stream' \in Seq(Sent) BY <1>5, <4>4, <5>3 DEF a
                    <6> QED BY <6>1, ConcatEmptySeq
                <5>6. Clean(seen') \o (Clean(input') \o stream') = Ahead(msgs', m)
                    BY <1>5, <4>2, <5>3, <5>4, <5>5
                <5> QED BY <1>11, <5>1, <5>6 DEF Line
            <4> QED BY <4>9, <4>10
        <3> QED BY <3>1, <3>2
    <2>10. Reading(m)'
        <3>1. Reading(m) BY <1>12 DEF Reached
        <3>2. mode \in {"size", "payload"} => keyGot' = KeySize
            <4>1. keyGot = KeySize => n = 0 /\ keyGot' = KeySize BY <1>8, <1>11, <2>1, <2>2
            <4> QED BY <3>1, <4>1 DEF Reading
        <3> QED BY <1>5, <2>4, <3>1, <3>2 DEF Reading, Good
    <2>11. Somewhere' BY <1>13, <1>14, <2>9, <2>10 DEF Somewhere, Reached
    <2> QED BY <2>6, <2>7, <2>8, <2>11 DEF IInv
<1> QED BY <1>15, <1>16

\* The user starts the protocol again.
LEMMA RestartStep ==
    ASSUME IInv, Restart
    PROVE  IInv'
<1>1. /\ failed' = FALSE
      /\ UNCHANGED <<given, held, allowed, msgs, told, stream, keyGot, keyGood, input, mode, type, size, seen,
                     payload, heard, spoiled>>
    BY DEF Restart, writer
<1>2. Shaped' BY <1>1 DEF IInv, Shaped
<1>3. Telling' /\ Unspoiled' BY <1>1 DEF IInv, Telling, Unspoiled, Good
<1>4. Somewhere' BY <1>1 DEF IInv, Somewhere, Reached, Hearing, Line, Reading, Good
<1> QED BY <1>2, <1>3, <1>4 DEF IInv

-----------------------------------------------------------------------------
(* The reader: the turns of the loop. *)

\* What is taken over from the input into the message being read is still there.
TakesOver(s, i, n, u) ==
    Clean(s \o First(i, n)) \o (Clean(Rest(i, n)) \o u) = Clean(s) \o (Clean(i) \o u)

\* That is so, and the parts are bytes.
LEMMA TakenOver ==
    ASSUME NEW s \in Bytes, NEW i \in Bytes, NEW n \in Nat, NEW u \in Seq(Sent)
    PROVE  /\ TakesOver(s, i, n, u)
           /\ First(i, n) \in Bytes /\ Rest(i, n) \in Bytes /\ s \o First(i, n) \in Bytes
<1> DEFINE f == First(i, n)
           r == Rest(i, n)
<1>1. f \in Bytes /\ r \in Bytes /\ f \o r = i BY FirstRest DEF Bytes
<1> HIDE DEF f, r
<1>2. Clean(s \o f) = Clean(s) \o Clean(f) /\ s \o f \in Bytes BY <1>1, CleanConcat
<1>3. Clean(i) = Clean(f) \o Clean(r) BY <1>1, CleanConcat
<1>4. Clean(s) \in Seq(Sent) /\ Clean(f) \in Seq(Sent) /\ Clean(r) \in Seq(Sent) BY <1>1, CleanType
<1>5. Clean(r) \o u \in Seq(Sent) BY <1>4, ConcatProperties
<1>6. Regroups(Clean(s), Clean(f), Clean(r) \o u) BY <1>4, <1>5, Regrouped
<1>7. Regroups(Clean(f), Clean(r), u) BY <1>4, Regrouped
<1>8. Clean(s \o f) \o (Clean(r) \o u) = Clean(s) \o (Clean(i) \o u)
    BY <1>2, <1>3, <1>6, <1>7 DEF Regroups
<1> QED BY <1>1, <1>2, <1>8 DEF TakesOver, f, r

\* The first byte ahead is the first of the next message.
LEMMA NextByte ==
    ASSUME NEW ms \in Seq(Msg), NEW m \in 0..Len(ms), NEW s \in Bytes, s # <<>>, NEW u \in Seq(Sent),
           Clean(s) \o u = Ahead(ms, m)
    PROVE  m < Len(ms) /\ 1 \in 1..Len(s) /\ s[1] \in Byte /\ s[1].of = m + 1
<1> DEFINE c == Clean(s)
<1>1. /\ Len(s) \in Nat \ {0} /\ 1 \in 1..Len(s) /\ s[1] \in Byte
      /\ c \in Seq(Sent) /\ Len(c) = Len(s) /\ c[1] = [of |-> s[1].of, at |-> s[1].at, good |-> TRUE]
    <2>1. Len(s) \in Nat \ {0} BY EmptySeq DEF Bytes
    <2>2. 1 \in 1..Len(s) BY <2>1
    <2> QED BY <2>1, <2>2, CleanType
<1> HIDE DEF c
<1>2. c \o u \in Seq(Sent) /\ Len(c \o u) > 0 /\ (c \o u)[1] = c[1]
    <2>1. /\ Len(c \o u) = Len(c) + Len(u) /\ Len(u) \in Nat /\ c \o u \in Seq(Sent)
          /\ \A i \in 1..Len(c) + Len(u) : (c \o u)[i] = IF i <= Len(c) THEN c[i] ELSE u[i - Len(c)]
        BY <1>1, ConcatProperties, LenProperties
    <2>2. 1 \in 1..Len(c) + Len(u) /\ 1 <= Len(c) BY <1>1, <2>1
    <2> QED BY <1>1, <2>1, <2>2
<1>3. c \o u = Ahead(ms, m) BY DEF c
<1>4. m < Len(ms)
    <2>1. SUFFICES ASSUME ~(m < Len(ms)) PROVE FALSE OBVIOUS
    <2>2. m = Len(ms) BY <2>1, LenProperties
    <2>3. Ahead(ms, m) = <<>> BY <2>2, AheadEnd
    <2>4. Len(<<>>) = 0 OBVIOUS
    <2> QED BY <1>2, <1>3, <2>3, <2>4
<1> DEFINE b == BytesOf(ms[m + 1], m + 1)
           a == Ahead(ms, m + 1)
<1>5. a \in Seq(Sent) /\ Ahead(ms, m) = b \o a /\ ms[m + 1] \in Msg BY <1>4, AheadNext
<1>6. /\ b \in Seq(Sent) /\ Len(b) \in Nat \ {0} /\ b[1] = [of |-> m + 1, at |-> 1, good |-> TRUE]
    <2>1. m + 1 \in Nat BY LenProperties
    <2>2. LengthOf(ms[m + 1]) \in Nat \ {0} BY <1>5, MsgLength
    <2>3. 1 \in 1..LengthOf(ms[m + 1]) BY <2>2
    <2> QED BY <1>5, <2>1, <2>2, <2>3, BytesOfType
<1> HIDE DEF b, a
<1>7. (b \o a)[1] = b[1]
    <2>1. /\ Len(a) \in Nat
          /\ \A i \in 1..Len(b) + Len(a) : (b \o a)[i] = IF i <= Len(b) THEN b[i] ELSE a[i - Len(b)]
        BY <1>5, <1>6, ConcatProperties, LenProperties
    <2>2. 1 \in 1..Len(b) + Len(a) /\ 1 <= Len(b) BY <1>6, <2>1
    <2> QED BY <2>1, <2>2
<1>8. c[1] = b[1] BY <1>2, <1>3, <1>5, <1>7
<1>9. s[1].of = c[1].of /\ b[1].of = m + 1 BY <1>1, <1>6
<1> QED BY <1>1, <1>4, <1>8, <1>9

\* The reader gives up: only for a reason.
LEMMA GoesBad ==
    ASSUME Shaped, Telling, NEW m \in 0..Len(msgs), Hearing(m), spoiled # 0, Bad,
           UNCHANGED <<writer, stream, keyGot, keyGood, payload, heard, spoiled>>
    PROVE  IInv'
<1>1. /\ mode' = "bad" /\ type' = "none" /\ size' = 0 /\ failed' = TRUE /\ input' = <<>> /\ seen' = <<>>
    BY DEF Bad, Become
<1>2. /\ given' = given /\ held' = held /\ allowed' = allowed /\ msgs' = msgs /\ told' = told
      /\ stream' = stream /\ keyGot' = keyGot /\ keyGood' = keyGood /\ payload' = payload
      /\ heard' = heard /\ spoiled' = spoiled
    BY DEF writer
<1>3. <<>> \in Bytes BY EmptySeq DEF Bytes
<1>4. Shaped' BY <1>1, <1>2, <1>3 DEF Shaped
<1>5. Telling' BY <1>2 DEF Telling
<1>6. Unspoiled' BY <1>2 DEF Unspoiled
<1>7. Hearing(m)' BY <1>2 DEF Hearing
<1>8. Line(m)' BY <1>1 DEF Line
<1>9. Reading(m)' BY <1>1 DEF Reading
<1>10. m \in 0..Len(msgs') BY <1>2
<1> QED BY <1>4, <1>5, <1>6, <1>7, <1>8, <1>9, <1>10 DEF IInv, Somewhere, Reached

\* The type of the next message.
LEMMA ReadTypeStep ==
    ASSUME IInv, ReadType
    PROVE  IInv'
<1>1. Shaped /\ Telling /\ Unspoiled /\ Somewhere BY DEF IInv
<1>2. mode = "type" /\ input # <<>> BY DEF ReadType, Ready
<1>3. /\ given' = given /\ held' = held /\ allowed' = allowed /\ msgs' = msgs /\ told' = told
      /\ stream' = stream /\ keyGot' = keyGot /\ keyGood' = keyGood /\ payload' = payload
      /\ heard' = heard /\ spoiled' = spoiled
    BY DEF ReadType, writer
<1>4. PICK t \in Types \cup {"other"} :
        /\ Intact(<<Head(input)>>) => t = msgs[Head(input).of].type
        /\ IF t = "other" THEN Bad
           ELSE /\ seen' = <<Head(input)>> /\ input' = Tail(input)
                /\ CASE t \in SizedTypes       -> Become("size", t, 0)
                     [] t \in {"skey", "ekey"} -> Become("payload", t, KeySize)
                     [] t = "applied"          -> Become("payload", t, 0)
                /\ UNCHANGED failed
    BY DEF ReadType
<1>5. /\ stream \in Seq(Sent) /\ input \in Bytes /\ seen \in Bytes /\ keyGot \in 0..KeySize /\ keyGood \in BOOLEAN
      /\ spoiled \in 0..MaxSpoiled /\ msgs \in Seq(Msg)
    BY <1>1 DEF Shaped
<1>6. PICK m \in 0..Len(msgs) : Reached(m) BY <1>1 DEF Somewhere
<1>7. keyGot = KeySize
    <2>1. ~(keyGot < KeySize) BY <1>2, <1>6 DEF Reached, Line
    <2> QED BY <1>5, <2>1, SizeAssumption
<1>8. seen = <<>> /\ Clean(seen) \o (Clean(input) \o stream) = Ahead(msgs, m)
    BY <1>2, <1>6, <1>7 DEF Reached, Line, Reading
<1>9. Clean(input) \o stream = Ahead(msgs, m)
    <2>1. Clean(<<>>) = <<>> BY DEF Clean
    <2>2. Clean(input) \o stream \in Seq(Sent) BY <1>5, CleanType, ConcatProperties
    <2>3. <<>> \o (Clean(input) \o stream) = Clean(input) \o stream BY <2>2, ConcatEmptySeq
    <2> QED BY <1>8, <2>1, <2>3
<1>10. m < Len(msgs) /\ 1 \in 1..Len(input) /\ input[1] \in Byte /\ input[1].of = m + 1
    BY <1>2, <1>5, <1>9, NextByte
<1>11. m + 1 \in 1..Len(msgs) /\ msgs[m + 1] \in Msg BY <1>5, <1>10, AheadNext
<1>12. msgs[m + 1].type \in Types BY <1>11, MsgLength
<1>13. Head(input) = input[1] BY <1>2
<1>14. keyGood = TRUE /\ input[1].good = TRUE => t = msgs[m + 1].type
    <2>1. SUFFICES ASSUME keyGood = TRUE, input[1].good = TRUE PROVE t = msgs[m + 1].type OBVIOUS
    <2>2. Intact(<<Head(input)>>) BY <1>13, <2>1 DEF Intact
    <2> QED BY <1>4, <1>10, <1>13, <2>2
<1>15. CASE t = "other"
    <2>1. Bad BY <1>4, <1>15
    <2>2. t \notin Types BY <1>15 DEF Types, SizedTypes
    <2>3. ~(keyGood = TRUE /\ input[1].good = TRUE) BY <1>12, <1>14, <2>2
    <2>4. spoiled # 0 BY <1>1, <1>10, <2>3 DEF Unspoiled, Good
    <2>5. Hearing(m) BY <1>6 DEF Reached
    <2>6. UNCHANGED <<writer, stream, keyGot, keyGood, payload, heard, spoiled>> BY <1>3 DEF writer
    <2> QED BY <1>1, <2>1, <2>4, <2>5, <2>6, GoesBad
<1>16. CASE t # "other"
    <2>1. seen' = <<input[1]>> /\ input' = Tail(input) /\ failed' = failed BY <1>4, <1>13, <1>16
    <2>2. t \in Types BY <1>16
    <2>3. /\ type' = t
          /\ t \in SizedTypes => mode' = "size" /\ size' = 0
          /\ t \in {"skey", "ekey"} => mode' = "payload" /\ size' = KeySize
          /\ t = "applied" => mode' = "payload" /\ size' = 0
        BY <1>4, <1>16, <2>2 DEF Become, Types, SizedTypes
    <2>4. t \in SizedTypes \/ t \in {"skey", "ekey"} \/ t = "applied" BY <2>2 DEF Types
    <2>5. mode' \in {"size", "payload"} /\ size' \in Nat BY <2>3, <2>4, SizeAssumption
    <2>6. First(input, 1) = <<input[1]>> /\ Rest(input, 1) = Tail(input) BY <1>2, <1>5, FirstOne DEF Bytes
    <2>7. /\ TakesOver(seen, input, 1, stream) /\ First(input, 1) \in Bytes /\ Rest(input, 1) \in Bytes
        BY <1>5, TakenOver
    <2>8. seen' = seen \o First(input, 1) /\ input' = Rest(input, 1)
        <3>1. <<>> \o First(input, 1) = First(input, 1) BY <2>7, ConcatEmptySeq DEF Bytes
        <3> QED BY <1>8, <2>1, <2>6, <3>1
    <2>9. seen' \in Bytes /\ input' \in Bytes BY <2>1, <2>6, <2>7
    <2>10. Shaped' BY <1>1, <1>3, <2>1, <2>2, <2>3, <2>5, <2>9 DEF Shaped
    <2>11. Telling' BY <1>1, <1>3 DEF Telling
    <2>12. Len(seen') = 1 /\ seen'[1] = input[1] BY <2>1
    <2>13. Unspoiled'
        <3>1. SUFFICES ASSUME spoiled = 0 PROVE keyGood' = TRUE /\ Good(input') /\ Good(seen') /\ mode' # "bad"
            BY <1>3 DEF Unspoiled, Good
        <3>2. keyGood = TRUE /\ Good(input) BY <1>1, <3>1 DEF Unspoiled
        <3>3. Good(First(input, 1)) /\ Good(Rest(input, 1)) BY <1>5, <3>2, GoodParts
        <3> QED BY <1>3, <2>1, <2>5, <2>6, <3>2, <3>3
    <2>14. Hearing(m)' BY <1>3, <1>6 DEF Reached, Hearing
    <2>15. Line(m)'
        <3>1. Clean(seen') \o (Clean(input') \o stream') = Ahead(msgs', m)
            BY <1>3, <1>8, <2>7, <2>8 DEF TakesOver
        <3>2. KeySize \in Nat BY SizeAssumption
        <3> QED BY <1>3, <1>7, <3>1, <3>2 DEF Line
    <2>16. Reading(m)'
        <3>1. mode' # "type" BY <2>5
        <3>2. /\ m < Len(msgs') /\ keyGot' = KeySize /\ Len(seen') > 0 /\ seen'[1].of = m + 1 /\ type' \in Types
              /\ keyGood' = TRUE /\ seen'[1].good = TRUE => type' = msgs'[m + 1].type
            BY <1>3, <1>7, <1>10, <1>14, <2>2, <2>3, <2>12
        <3>3. mode' = "size" => type' \in SizedTypes /\ Len(seen') = 1 BY <2>3, <2>4, <2>12
        <3>4. mode' = "payload" => type' \notin SizedTypes BY <2>3
        <3>5. ASSUME mode' = "payload", keyGood' = TRUE, Good(seen') PROVE size' = BodySize(msgs'[m + 1])
            <4>1. seen'[1].good = TRUE BY <2>12, <3>5 DEF Good
            <4>2. t = msgs[m + 1].type BY <1>3, <1>14, <2>12, <3>5, <4>1
            <4>3. CASE t \in {"skey", "ekey"} BY <1>3, <2>3, <4>2, <4>3 DEF BodySize
            <4>4. CASE t = "applied" BY <1>3, <2>3, <4>2, <4>4 DEF BodySize
            <4>5. t \notin SizedTypes BY <2>3, <3>4, <3>5
            <4> QED BY <2>4, <4>3, <4>4, <4>5
        <3>6. mode' = "payload" => Len(seen') = 1 + (IF type' \in SizedTypes THEN SizeBytes ELSE 0)
            BY <2>12, <3>4
        <3>7. mode' = "payload" => (keyGood' = TRUE /\ Good(seen') => size' = BodySize(msgs'[m + 1])) BY <3>5
        <3>8. Good(seen)' <=> Good(seen') BY DEF Good
        <3> QED BY <3>1, <3>2, <3>3, <3>6, <3>7, <3>8 DEF Reading
    <2>17. m \in 0..Len(msgs') BY <1>3
    <2> QED BY <2>10, <2>11, <2>13, <2>14, <2>15, <2>16, <2>17 DEF IInv, Somewhere, Reached
<1> QED BY <1>15, <1>16

\* The size of the next message.
LEMMA ReadSizeStep ==
    ASSUME IInv, ReadSize
    PROVE  IInv'
<1>1. Shaped /\ Telling /\ Unspoiled /\ Somewhere BY DEF IInv
<1>2. mode = "size" /\ Len(input) >= SizeBytes BY DEF ReadSize, Ready
<1>3. /\ given' = given /\ held' = held /\ allowed' = allowed /\ msgs' = msgs /\ told' = told
      /\ stream' = stream /\ keyGot' = keyGot /\ keyGood' = keyGood /\ payload' = payload
      /\ heard' = heard /\ failed' = failed /\ spoiled' = spoiled
      /\ seen' = seen \o First(input, SizeBytes) /\ input' = Rest(input, SizeBytes)
    BY DEF ReadSize, writer
<1>4. PICK n \in WrongSize \cup {BodySize(msgs[seen[1].of])} :
        /\ Intact(seen') => n = BodySize(msgs[seen[1].of])
        /\ Become("payload", type, n)
    BY DEF ReadSize
<1>5. /\ stream \in Seq(Sent) /\ input \in Bytes /\ seen \in Bytes /\ msgs \in Seq(Msg)
    BY <1>1 DEF Shaped
<1>6. PICK m \in 0..Len(msgs) : Reached(m) BY <1>1 DEF Somewhere
<1>7. /\ m < Len(msgs) /\ keyGot = KeySize /\ seen[1].of = m + 1 /\ type \in SizedTypes /\ Len(seen) = 1
      /\ keyGood = TRUE /\ seen[1].good = TRUE => type = msgs[m + 1].type
    BY <1>2, <1>6 DEF Reached, Reading
<1>8. msgs[m + 1] \in Msg BY <1>5, <1>7, AheadNext
<1>9. mode' = "payload" /\ type' = type /\ size' = n BY <1>4 DEF Become
<1>10. type \in Types BY <1>7 DEF Types
<1>11. SizeBytes \in Nat /\ SizeBytes = 2 BY DEF SizeBytes
<1>12. n \in Nat BY <1>7, <1>8, MsgLength, BoundsAssumption
<1>13. /\ TakesOver(seen, input, SizeBytes, stream)
       /\ First(input, SizeBytes) \in Bytes /\ Rest(input, SizeBytes) \in Bytes
       /\ seen' \in Bytes
    BY <1>3, <1>5, <1>11, TakenOver
<1>14. /\ Len(First(input, SizeBytes)) = SizeBytes
       /\ Len(seen') = 1 + SizeBytes /\ seen'[1] = seen[1]
    <2> DEFINE f == First(input, SizeBytes)
    <2>3. Len(f) = SizeBytes BY <1>2, <1>5, <1>11, FirstLength DEF Bytes
    <2> HIDE DEF f
    <2>4. f \in Bytes BY <1>13 DEF f
    <2>5. /\ Len(seen \o f) = Len(seen) + Len(f)
          /\ \A i \in 1..Len(seen) + Len(f) : (seen \o f)[i] = IF i <= Len(seen) THEN seen[i] ELSE f[i - Len(seen)]
        BY <1>5, <2>4, ConcatProperties DEF Bytes
    <2>6. 1 \in 1..Len(seen) + Len(f) /\ 1 <= Len(seen) BY <1>7, <1>11, <2>3
    <2>7. (seen \o f)[1] = seen[1] BY <2>5, <2>6
    <2>8. seen' = seen \o f BY <1>3 DEF f
    <2> QED BY <1>7, <2>3, <2>5, <2>7, <2>8 DEF f
<1>15. Shaped' BY <1>1, <1>3, <1>9, <1>12, <1>13 DEF Shaped
<1>16. Telling' BY <1>1, <1>3 DEF Telling
<1>17. Unspoiled'
    <2>1. SUFFICES ASSUME spoiled = 0 PROVE keyGood' = TRUE /\ Good(input') /\ Good(seen') /\ mode' # "bad"
        BY <1>3 DEF Unspoiled, Good
    <2>2. keyGood = TRUE /\ Good(input) /\ Good(seen) BY <1>1, <2>1 DEF Unspoiled
    <2>3. Good(First(input, SizeBytes)) /\ Good(Rest(input, SizeBytes)) BY <1>5, <1>11, <2>2, GoodParts
    <2>4. Good(seen \o First(input, SizeBytes)) BY <1>5, <1>13, <2>2, <2>3, GoodConcat
    <2> QED BY <1>3, <1>9, <2>2, <2>3, <2>4
<1>18. Hearing(m)' BY <1>3, <1>6 DEF Reached, Hearing
<1>19. Line(m)'
    <2>1. Clean(seen) \o (Clean(input) \o stream) = Ahead(msgs, m) BY <1>2, <1>6, <1>7 DEF Reached, Line
    <2>2. Clean(seen') \o (Clean(input') \o stream') = Ahead(msgs', m) BY <1>3, <1>13, <2>1 DEF TakesOver
    <2>3. KeySize \in Nat BY SizeAssumption
    <2> QED BY <1>3, <1>7, <2>2, <2>3 DEF Line
<1>20. Reading(m)'
    <2>1. mode' = "payload" BY <1>9
    <2>2. /\ m < Len(msgs') /\ keyGot' = KeySize /\ Len(seen') > 0 /\ seen'[1].of = m + 1 /\ type' \in Types
          /\ keyGood' = TRUE /\ seen'[1].good = TRUE => type' = msgs'[m + 1].type
        BY <1>3, <1>7, <1>9, <1>10, <1>11, <1>14
    <2>3. Len(seen') = 1 + (IF type' \in SizedTypes THEN SizeBytes ELSE 0) BY <1>7, <1>9, <1>14
    <2>4. ASSUME keyGood' = TRUE, Good(seen') PROVE size' = BodySize(msgs'[m + 1])
        <3>1. DOMAIN (seen') = 1..Len(seen') BY <1>13, CleanType
        <3>2. Intact(seen') BY <1>3, <2>4, <3>1 DEF Intact, Good
        <3> QED BY <1>3, <1>4, <1>7, <1>9, <3>2
    <2>5. keyGood' = TRUE /\ Good(seen') => size' = BodySize(msgs'[m + 1]) BY <2>4
    <2>6. Good(seen)' <=> Good(seen') BY DEF Good
    <2> QED BY <2>1, <2>2, <2>3, <2>5, <2>6 DEF Reading
<1>21. m \in 0..Len(msgs') BY <1>3
<1> QED BY <1>15, <1>16, <1>17, <1>18, <1>19, <1>20, <1>21 DEF IInv, Somewhere, Reached

\* The bytes read are those of the message as it was enciphered.
LEMMA AuthenticIs ==
    ASSUME NEW s \in Bytes, NEW x \in Msg, NEW n \in Nat
    PROVE  Places(s) = Places(BytesOf(x, n)) <=> Clean(s) = BytesOf(x, n)
<1> DEFINE b == BytesOf(x, n)
           l == LengthOf(x)
           c == Clean(s)
<1>1. /\ l \in Nat /\ b \in Seq(Sent) /\ Len(b) = l /\ DOMAIN b = 1..l
      /\ \A i \in 1..l : b[i] = [of |-> n, at |-> i, good |-> TRUE]
    BY BytesOfType, MsgLength, LenProperties
<1>2. /\ Len(s) \in Nat /\ DOMAIN s = 1..Len(s) /\ \A i \in 1..Len(s) : s[i] \in Byte
      /\ c \in Seq(Sent) /\ Len(c) = Len(s)
      /\ \A i \in 1..Len(s) : c[i] = [of |-> s[i].of, at |-> s[i].at, good |-> TRUE]
    BY CleanType
<1> HIDE DEF b, l, c
<1>3. Places(s) = [i \in 1..Len(s) |-> <<s[i].of, s[i].at>>] BY <1>2 DEF Places
<1>4. Places(b) = [i \in 1..l |-> <<n, i>>] BY <1>1 DEF Places
<1>5. ASSUME Places(s) = Places(b) PROVE c = b
    <2>1. 1..Len(s) = 1..l
        <3>1. DOMAIN Places(s) = 1..Len(s) BY <1>3
        <3>2. DOMAIN Places(b) = 1..l BY <1>4
        <3> QED BY <1>5, <3>1, <3>2
    <2>2. Len(s) = l
        <3>1. ~(Len(s) < l)
            <4>1. Len(s) < l => l \in 1..l /\ l \notin 1..Len(s) BY <1>1, <1>2
            <4> QED BY <2>1, <4>1
        <3>2. ~(l < Len(s))
            <4>1. l < Len(s) => Len(s) \in 1..Len(s) /\ Len(s) \notin 1..l BY <1>1, <1>2
            <4> QED BY <2>1, <4>1
        <3>3. l \in Nat /\ Len(s) \in Nat BY <1>1, <1>2
        <3> QED BY <3>1, <3>2, <3>3, NeitherSmaller
    <2>3. ASSUME NEW i \in 1..l PROVE c[i] = b[i]
        <3>1. i \in 1..Len(s) BY <2>1
        <3>2. Places(s)[i] = <<s[i].of, s[i].at>> BY <1>3, <3>1
        <3>3. Places(b)[i] = <<n, i>> BY <1>4
        <3>4. s[i].of = n /\ s[i].at = i BY <1>5, <3>2, <3>3
        <3> QED BY <1>1, <1>2, <3>1, <3>4
    <2> QED BY <1>1, <1>2, <2>2, <2>3, SeqEqual
<1>6. ASSUME c = b PROVE Places(s) = Places(b)
    <2>1. Len(s) = l BY <1>1, <1>2, <1>6
    <2>2. ASSUME NEW i \in 1..l PROVE s[i].of = n /\ s[i].at = i
        <3>1. c[i] = [of |-> s[i].of, at |-> s[i].at, good |-> TRUE] BY <1>2, <2>1
        <3>2. b[i] = [of |-> n, at |-> i, good |-> TRUE] BY <1>1
        <3>3. c[i].of = s[i].of /\ c[i].at = s[i].at /\ b[i].of = n /\ b[i].at = i BY <3>1, <3>2
        <3> QED BY <1>6, <3>3
    <2> QED BY <1>3, <1>4, <2>1, <2>2
<1>7. Places(s) = Places(b) <=> c = b BY <1>5, <1>6
<1> QED BY <1>7 DEF b, c

\* A whole message is handed on as it was told.
LEMMA HandsOn ==
    ASSUME NEW m \in 0..Len(msgs), msgs \in Seq(Msg), m < Len(msgs), heard \in Seq(Said), payload \in Body,
           Hearing(m), HandOn(msgs[m + 1].type, msgs[m + 1].body), failed \in BOOLEAN
    PROVE  /\ heard' \in Seq(Said) /\ payload' \in Body /\ failed' \in BOOLEAN
           /\ Hears(First(msgs, m + 1)) = [heard |-> heard', payload |-> payload']
<1> DEFINE x == msgs[m + 1]
           r == [heard |-> heard, payload |-> payload]
<1>1. x \in Msg /\ First(msgs, m + 1) = Append(First(msgs, m), x) BY AheadNext
<1>2. First(msgs, m) \in Seq(Msg)
    <2>1. m \in Nat BY LenProperties
    <2> QED BY <2>1, FirstRest
<1>3. Hears(First(msgs, m + 1)) = Handed(r, x) BY <1>1, <1>2, HearsAppend DEF Hearing
<1>4. r \in State BY DEF State
<1>5. HandOn(x.type, x.body) OBVIOUS
<1> HIDE DEF x
<1>6. Handed(r, x) \in State BY <1>1, <1>4, HandedType
<1>7. r.heard = heard /\ r.payload = payload OBVIOUS
<1> HIDE DEF r
<1>8. Handed(r, x) = [heard |-> heard', payload |-> payload'] /\ failed' \in BOOLEAN
    <2>1. CASE x.type = "chunk"
        <3>1. payload' = payload \o x.body /\ heard' = heard /\ failed' = failed BY <1>5, <2>1 DEF HandOn
        <3> QED BY <1>7, <2>1, <3>1 DEF Handed
    <2>2. CASE x.type = "last"
        <3>1. /\ heard' = Append(heard, Saying("payload", payload \o x.body))
              /\ payload' = <<>> /\ failed' = failed
            BY <1>5, <2>2 DEF HandOn
        <3> QED BY <1>7, <2>2, <3>1 DEF Handed
    <2>3. CASE x.type = "marker"
        <3>1. heard' = Append(heard, Saying(x.type, <<>>)) /\ failed' \in {failed, TRUE} /\ payload' = payload
            BY <1>5, <2>3 DEF HandOn
        <3> QED BY <1>7, <2>3, <3>1 DEF Handed
    <2>4. CASE x.type \notin {"chunk", "last", "marker"}
        <3>1. heard' = Append(heard, Saying(x.type, <<>>)) /\ payload' = payload /\ failed' = failed
            BY <1>5, <2>4 DEF HandOn
        <3> QED BY <1>7, <2>4, <3>1 DEF Handed
    <2> QED BY <2>1, <2>2, <2>3, <2>4
<1>9. heard' \in Seq(Said) /\ payload' \in Body BY <1>6, <1>8 DEF State
<1> QED BY <1>3, <1>8, <1>9

\* The rest of the next message, handed on if it is authentic.
LEMMA ReadPayloadStep ==
    ASSUME IInv, ReadPayload
    PROVE  IInv'
<1>1. Shaped /\ Telling /\ Unspoiled /\ Somewhere BY DEF IInv
<1> DEFINE n == size + MacSize
           s == seen \o First(input, n)
           q == Rest(input, n)
<1>2. mode = "payload" /\ Len(input) >= n BY DEF ReadPayload, Ready
<1>3. /\ given' = given /\ held' = held /\ allowed' = allowed /\ msgs' = msgs /\ told' = told
      /\ stream' = stream /\ keyGot' = keyGot /\ keyGood' = keyGood /\ spoiled' = spoiled
    BY DEF ReadPayload, writer
<1>4. IF Authentic(s)
      THEN /\ HandOn(type, msgs[s[1].of].body) /\ Become("type", "none", 0)
           /\ input' = q /\ seen' = <<>>
      ELSE Bad /\ UNCHANGED <<payload, heard>>
    BY DEF ReadPayload
<1>5. /\ stream \in Seq(Sent) /\ input \in Bytes /\ seen \in Bytes /\ msgs \in Seq(Msg) /\ size \in Nat
      /\ keyGood \in BOOLEAN /\ heard \in Seq(Said) /\ payload \in Body /\ failed \in BOOLEAN
    BY <1>1 DEF Shaped
<1>6. PICK m \in 0..Len(msgs) : Reached(m) BY <1>1 DEF Somewhere
<1> DEFINE x == msgs[m + 1]
<1>7. /\ m < Len(msgs) /\ keyGot = KeySize /\ Len(seen) > 0 /\ seen[1].of = m + 1
      /\ keyGood = TRUE /\ seen[1].good = TRUE => type = x.type
    BY <1>2, <1>6 DEF Reached, Reading
<1>8. /\ Len(seen) = 1 + (IF type \in SizedTypes THEN SizeBytes ELSE 0)
      /\ keyGood = TRUE /\ Good(seen) => size = BodySize(x)
    BY <1>2, <1>6 DEF Reached, Reading
<1>9. /\ x \in Msg /\ m + 1 \in 1..Len(msgs) /\ m + 1 \in Nat /\ Ahead(msgs, m + 1) \in Seq(Sent)
      /\ Ahead(msgs, m) = BytesOf(x, m + 1) \o Ahead(msgs, m + 1)
    <2>1. m + 1 \in Nat BY LenProperties
    <2> QED BY <1>5, <1>7, <2>1, AheadNext
<1>10. n \in Nat BY <1>5, SizeAssumption
<1> HIDE DEF n, x
<1>11. TakesOver(seen, input, n, stream) /\ First(input, n) \in Bytes /\ q \in Bytes /\ s \in Bytes
    BY <1>5, <1>10, TakenOver
<1>12. Len(First(input, n)) = n BY <1>2, <1>5, <1>10, FirstLength DEF Bytes
<1>13. Len(s) = Len(seen) + n /\ s[1] = seen[1] /\ 1 \in 1..Len(s) /\ 1 \in 1..Len(seen)
    <2> DEFINE f == First(input, n)
    <2>1. f \in Bytes /\ Len(f) = n BY <1>11, <1>12
    <2> HIDE DEF f
    <2>2. /\ Len(seen \o f) = Len(seen) + Len(f)
          /\ \A i \in 1..Len(seen) + Len(f) : (seen \o f)[i] = IF i <= Len(seen) THEN seen[i] ELSE f[i - Len(seen)]
        BY <1>5, <2>1, ConcatProperties DEF Bytes
    <2>3. Len(seen) \in Nat BY <1>5, CleanType
    <2>4. 1 \in 1..Len(seen) + Len(f) /\ 1 <= Len(seen) BY <1>7, <1>10, <2>1, <2>3
    <2>5. (seen \o f)[1] = seen[1] BY <2>2, <2>4
    <2>6. Len(seen \o f) = Len(seen) + n BY <2>1, <2>2
    <2>7. 1 \in 1..Len(seen) BY <2>3, <2>4
    <2>8. 1 \in 1..Len(seen \o f) BY <2>1, <2>2, <2>4
    <2>9. s = seen \o f BY DEF f
    <2> HIDE DEF s
    <2> QED BY <2>5, <2>6, <2>7, <2>8, <2>9
<1>14. Clean(s) \o (Clean(q) \o stream) = BytesOf(x, m + 1) \o Ahead(msgs, m + 1)
    <2>1. Clean(seen) \o (Clean(input) \o stream) = Ahead(msgs, m) BY <1>2, <1>6, <1>7 DEF Reached, Line
    <2> QED BY <1>9, <1>11, <2>1 DEF TakesOver
<1>15. First(input, n) \o q = input BY <1>5, <1>10, FirstRest DEF Bytes
<1>16. Good(s) <=> Good(seen) /\ Good(First(input, n)) BY <1>5, <1>11, GoodConcat
<1>17. Good(input) => Good(First(input, n)) /\ Good(q) BY <1>5, <1>10, GoodParts
<1> HIDE DEF s, q
<1>18. DOMAIN s = 1..Len(s) /\ Clean(s) \in Seq(Sent) /\ Len(Clean(s)) = Len(s) /\ Len(s) \in Nat
    BY <1>11, CleanType
<1>19. Clean(q) \in Seq(Sent) /\ Clean(q) \o stream \in Seq(Sent)
    <2>1. Clean(q) \in Seq(Sent) BY <1>11, CleanType
    <2> QED BY <1>5, <2>1, ConcatProperties
<1>20. /\ BytesOf(x, m + 1) \in Seq(Sent) /\ Len(BytesOf(x, m + 1)) = LengthOf(x) /\ LengthOf(x) \in Nat
    BY <1>9, BytesOfType, MsgLength
<1>21. Authentic(s) <=> keyGood = TRUE /\ Good(s) /\ Clean(s) = BytesOf(x, m + 1)
    <2>1. Intact(s) <=> keyGood = TRUE /\ Good(s)
        <3>1. \A i \in 1..Len(s) : s[i].good \in BOOLEAN
            <4>1. \A i \in 1..Len(s) : s[i] \in Byte BY <1>11, CleanType
            <4> QED BY <4>1 DEF Byte
        <3> QED BY <1>5, <1>18, <3>1 DEF Intact, Good
    <2>2. s[1].of = m + 1 BY <1>7, <1>13
    <2>3. Places(s) = Places(BytesOf(x, m + 1)) <=> Clean(s) = BytesOf(x, m + 1)
        BY <1>9, <1>11, AuthenticIs
    <2>4. msgs[m + 1] = x BY DEF x
    <2> QED BY <2>1, <2>2, <2>3, <2>4 DEF Authentic
<1>22. CASE Authentic(s)
    <2>1. /\ HandOn(type, msgs[s[1].of].body) /\ mode' = "type" /\ type' = "none" /\ size' = 0
          /\ input' = q /\ seen' = <<>>
        BY <1>4, <1>22 DEF Become
    <2>2. keyGood = TRUE /\ Good(s) /\ Clean(s) = BytesOf(x, m + 1) BY <1>21, <1>22
    <2>3. seen[1].good = TRUE BY <1>13, <1>16, <2>2 DEF Good
    <2>4. type = x.type BY <1>7, <2>2, <2>3
    <2>5. HandOn(x.type, x.body)
        <3>1. s[1].of = m + 1 BY <1>7, <1>13
        <3> QED BY <2>1, <2>4, <3>1 DEF x
    <2>6. /\ heard' \in Seq(Said) /\ payload' \in Body /\ failed' \in BOOLEAN
          /\ Hears(First(msgs, m + 1)) = [heard |-> heard', payload |-> payload']
        <3>1. Hearing(m) BY <1>6 DEF Reached
        <3> QED BY <1>5, <1>7, <2>5, <3>1, HandsOn DEF x
    <2>7. <<>> \in Bytes BY EmptySeq DEF Bytes
    <2>8. Shaped' BY <1>1, <1>3, <1>11, <2>1, <2>6, <2>7 DEF Shaped
    <2>9. Telling' BY <1>1, <1>3 DEF Telling
    <2>10. Unspoiled'
        <3>1. SUFFICES ASSUME spoiled = 0 PROVE keyGood' = TRUE /\ Good(input') /\ Good(seen') /\ mode' # "bad"
            BY <1>3 DEF Unspoiled, Good
        <3>2. Good(input) BY <1>1, <3>1 DEF Unspoiled
        <3>3. Good(<<>>) BY DEF Good
        <3> QED BY <1>3, <1>17, <2>1, <2>2, <3>2, <3>3
    <2>11. Hearing(m + 1)' BY <1>3, <2>6 DEF Hearing
    <2>12. Line(m + 1)'
        <3>1. Clean(q) \o stream = Ahead(msgs, m + 1)
            <4>1. BytesOf(x, m + 1) \o (Clean(q) \o stream) = BytesOf(x, m + 1) \o Ahead(msgs, m + 1)
                BY <1>14, <2>2
            <4> QED BY <1>9, <1>19, <1>20, <4>1, ConcatSimplifications
        <3>2. Clean(<<>>) = <<>> BY DEF Clean
        <3>3. <<>> \o (Clean(q) \o stream) = Clean(q) \o stream BY <1>19, ConcatEmptySeq
        <3>4. Clean(seen') \o (Clean(input') \o stream') = Ahead(msgs', m + 1)
            BY <1>3, <2>1, <3>1, <3>2, <3>3
        <3>5. KeySize \in Nat BY SizeAssumption
        <3> QED BY <1>3, <1>7, <3>4, <3>5 DEF Line
    <2>13. Reading(m + 1)' BY <2>1 DEF Reading
    <2>14. m + 1 \in 0..Len(msgs') BY <1>3, <1>9
    <2> QED BY <2>8, <2>9, <2>10, <2>11, <2>12, <2>13, <2>14 DEF IInv, Somewhere, Reached
<1>23. CASE ~Authentic(s)
    <2>1. Bad /\ payload' = payload /\ heard' = heard BY <1>4, <1>23
    <2>2. spoiled # 0
        <3>1. SUFFICES ASSUME spoiled = 0 PROVE FALSE OBVIOUS
        <3>2. keyGood = TRUE /\ Good(input) /\ Good(seen) BY <1>1, <3>1 DEF Unspoiled
        <3>3. Good(s) BY <1>16, <1>17, <3>2
        <3>4. seen[1].good = TRUE BY <1>13, <3>2 DEF Good
        <3>5. size = BodySize(x) /\ type = x.type BY <1>7, <1>8, <3>2, <3>4
        <3>6. Len(s) = LengthOf(x)
            <4>1. MacSize \in Nat /\ size \in Nat BY <1>5, SizeAssumption
            <4>2. CASE type \in SizedTypes
                <5>1. Len(seen) = 1 + SizeBytes BY <1>8, <4>2
                <5>2. LengthOf(x) = 1 + SizeBytes + size + MacSize BY <3>5, <4>2 DEF LengthOf
                <5>3. SizeBytes \in Nat BY DEF SizeBytes
                <5> QED BY <1>13, <4>1, <5>1, <5>2, <5>3 DEF n
            <4>3. CASE type \notin SizedTypes
                <5>1. Len(seen) = 1 + 0 BY <1>8, <4>3
                <5>2. LengthOf(x) = 1 + 0 + size + MacSize BY <3>5, <4>3 DEF LengthOf
                <5> QED BY <1>13, <4>1, <5>1, <5>2 DEF n
            <4> QED BY <4>2, <4>3
        <3>7. Clean(s) = BytesOf(x, m + 1)
            <4>1. First(Clean(s) \o (Clean(q) \o stream), Len(s)) = Clean(s) BY <1>18, <1>19, FirstIs
            <4>2. First(BytesOf(x, m + 1) \o Ahead(msgs, m + 1), LengthOf(x)) = BytesOf(x, m + 1)
                BY <1>9, <1>20, FirstIs
            <4> QED BY <1>14, <3>6, <4>1, <4>2
        <3> QED BY <1>21, <1>23, <3>2, <3>3, <3>7
    <2>3. Hearing(m) BY <1>6 DEF Reached
    <2>4. UNCHANGED <<writer, stream, keyGot, keyGood, payload, heard, spoiled>> BY <1>3, <2>1 DEF writer
    <2> QED BY <1>1, <2>1, <2>2, <2>3, <2>4, GoesBad
<1> QED BY <1>22, <1>23

-----------------------------------------------------------------------------
(* The invariant holds. *)

\* Nothing is enciphered yet, and the stream holds the first key.
LEMMA IInvInit == Init => IInv
<1> SUFFICES ASSUME Init PROVE IInv OBVIOUS
<1>1. /\ given = <<>> /\ held = 0 /\ allowed = FALSE /\ msgs = <<>> /\ told = <<>>
      /\ stream = RawKey /\ keyGot = 0 /\ keyGood = TRUE
      /\ input = <<>> /\ mode = "type" /\ type = "none" /\ size = 0 /\ seen = <<>>
      /\ payload = <<>> /\ heard = <<>> /\ failed = FALSE /\ spoiled = 0
    BY DEF Init
<1>2. KeySize \in Nat \ {0} /\ MaxSpoiled \in Nat /\ 0 \in 0..KeySize /\ 0 \in 0..MaxSpoiled
    BY SizeAssumption, BoundsAssumption
<1>3. RawKey \in Seq(Sent) /\ Rest(RawKey, 0) = RawKey
    <2>1. \A i \in 1..KeySize : [of |-> 0, at |-> i, good |-> TRUE] \in Sent BY <1>2 DEF Sent
    <2>2. RawKey \in Seq(Sent) BY <1>2, <2>1, IsASeq DEF RawKey
    <2> QED BY <2>2, SubSeqFull DEF Rest
<1>4. /\ <<>> \in Seq(Nat) /\ <<>> \in Seq(Msg) /\ <<>> \in Seq(Said) /\ <<>> \in Bytes /\ <<>> \in Body
      /\ Len(<<>>) = 0
    BY EmptySeq DEF Bytes, Body
<1>5. Shaped BY <1>1, <1>2, <1>3, <1>4 DEF Shaped
<1>6. Telling BY <1>1, HearsEmpty DEF Telling, Nothing
<1>7. Unspoiled BY <1>1, <1>4 DEF Unspoiled, Good
<1>8. Hearing(0)
    <2>1. First(<<>>, 0) = <<>> BY SubSeqEmpty DEF First
    <2> QED BY <1>1, <2>1, HearsEmpty DEF Hearing, Nothing
<1>9. Line(0)
    <2>1. Ahead(<<>>, 0) = <<>> BY <1>4, AheadEnd
    <2>2. RawKey \o <<>> = RawKey BY <1>3, ConcatEmptySeq
    <2> QED BY <1>1, <1>2, <1>3, <2>1, <2>2 DEF Line
<1>10. Reading(0) BY <1>1 DEF Reading
<1>11. 0 \in 0..Len(msgs) BY <1>1, <1>4
<1> QED BY <1>5, <1>6, <1>7, <1>8, <1>9, <1>10, <1>11 DEF IInv, Somewhere, Reached

\* Every action of the two stages keeps it.
LEMMA IInvStep == IInv /\ [Next]_vars => IInv'
<1> SUFFICES ASSUME IInv, [Next]_vars PROVE IInv' OBVIOUS
<1>1. CASE Put BY <1>1, PutStep
<1>2. CASE Open BY <1>2, OpenStep
<1>3. CASE Urgent BY <1>3, UrgentStep
<1>4. CASE Input BY <1>4, InputStep
<1>5. CASE ReadType BY <1>5, ReadTypeStep
<1>6. CASE ReadSize BY <1>6, ReadSizeStep
<1>7. CASE ReadPayload BY <1>7, ReadPayloadStep
<1>8. CASE Restart BY <1>8, RestartStep
<1>9. CASE UNCHANGED vars
    <2>1. /\ UNCHANGED <<given, held, allowed, msgs, told, stream, keyGot, keyGood, input, mode, type, size, seen,
                         payload, heard, failed, spoiled>>
        BY <1>9 DEF vars, writer, reader
    <2>2. Shaped' BY <2>1 DEF IInv, Shaped
    <2>3. Telling' /\ Unspoiled' BY <2>1 DEF IInv, Telling, Unspoiled, Good
    <2>4. Somewhere' BY <2>1 DEF IInv, Somewhere, Reached, Hearing, Line, Reading, Good
    <2> QED BY <2>2, <2>3, <2>4 DEF IInv
<1> QED BY <1>1, <1>2, <1>3, <1>4, <1>5, <1>6, <1>7, <1>8, <1>9 DEF Next

\* Whatever the two ends do and whatever is spoiled on the way, the messages
\* enciphered say what was told, and the reader is somewhere in their sequence:
\* the inductive invariant of both stages.
THEOREM IInvAlways == Spec => []IInv
BY IInvInit, IInvStep, PTL DEF Spec

\* What the properties say follows from it.
LEMMA IInvType == IInv => TypeOK
<1> SUFFICES ASSUME IInv PROVE TypeOK OBVIOUS
<1>1. Shaped BY DEF IInv
<1>2. ASSUME NEW k \in DOMAIN msgs
      PROVE  /\ msgs[k].type \in Types
             /\ msgs[k].type \in {"chunk", "last"} => Len(msgs[k].body) \in 1..MaxBody
    <2>1. msgs[k] \in Msg BY <1>1, LenProperties, ElementOfSeq DEF Shaped
    <2> QED BY <2>1 DEF Msg
<1> QED BY <1>1, <1>2 DEF TypeOK, Shaped

\* What is heard is what some of the messages say, and of more messages more
\* is heard.
LEMMA IInvOrdered == IInv => Ordered
<1> SUFFICES ASSUME IInv PROVE IsPrefix(heard, told) BY DEF Ordered
<1>1. msgs \in Seq(Msg) /\ Hears(msgs) = [heard |-> told, payload |-> <<>>] BY DEF IInv, Shaped, Telling
<1>2. PICK m \in 0..Len(msgs) : Reached(m) BY DEF IInv, Somewhere
<1>3. Hears(First(msgs, m)) = [heard |-> heard, payload |-> payload] BY <1>2 DEF Reached, Hearing
<1>4. m \in Nat BY <1>1, LenProperties
<1> DEFINE f == First(msgs, m)
           r == Rest(msgs, m)
<1>5. f \in Seq(Msg) /\ r \in Seq(Msg) /\ f \o r = msgs BY <1>1, <1>4, FirstRest
<1> HIDE DEF f, r
<1>6. IsPrefix(Hears(f).heard, Hears(f \o r).heard) BY <1>5, HearsMore
<1> QED BY <1>1, <1>3, <1>5, <1>6 DEF f

\* Where nothing is spoiled the reader does not go bad.
LEMMA IInvNoFalseAlarm == IInv => NoFalseAlarm
<1> SUFFICES ASSUME IInv, mode = "bad" PROVE spoiled > 0 BY DEF NoFalseAlarm
<1>1. spoiled # 0 BY DEF IInv, Unspoiled
<1>2. spoiled \in 0..MaxSpoiled BY DEF IInv, Shaped
<1> QED BY <1>1, <1>2, BoundsAssumption

\* The variables have their types, and flushPayload makes no message longer than
\* maxBodySize or empty, for every size of payloads, keys and chunks.
THEOREM CipheringTypeCorrect == Spec => []TypeOK
BY IInvAlways, IInvType, PTL

\* However the stream is cut up and whatever is spoiled in it: what in::Ciphering
\* hands on is a beginning of what out::Ciphering was told, keys, markers and
\* payload in one order and each payload whole, also when the failed protocol is
\* started again with the stages as they are.
THEOREM AlwaysOrdered == Spec => []Ordered
BY IInvAlways, IInvOrdered, PTL

\* in::Ciphering gives up only if a byte was spoiled: no cutting of the stream, and
\* no mixture of keys, chunks and markers in it, is taken for a wrong one.
THEOREM NeverFalseAlarm == Spec => []NoFalseAlarm
BY IInvAlways, IInvNoFalseAlarm, PTL

-----------------------------------------------------------------------------
(* Ciphering delivers. *)

\* All payload of what is said.
Carried(h) == FlattenSeq([i \in DOMAIN h |-> h[i].bytes])

\* The first n members of g make up as many bytes.
Up(g, n) == Total(First(g, n))

\* h carries what the first n payloads of g are.
Counts(h, g, n) == Carried(h) = Numbered(1, Up(g, n))
IsWhole(h, g) == \E n \in 0..Len(g) : Counts(h, g, n)
AllWhole(h, g) == \A k \in 0..Len(h) : IsWhole(First(h, k), g)

Lengths == Seq(Nat \ {0})

Wholes ==
    /\ given \in Lengths /\ held <= Total(given)
    /\ Carried(told) = Numbered(1, Total(given) - held)
    /\ AllWhole(told, given)

\* The bytes of each saying.
LEMMA BytesParts ==
    ASSUME NEW h \in Seq(Said)
    PROVE  /\ [i \in DOMAIN h |-> h[i].bytes] \in Seq(Seq(Int))
           /\ Len([i \in DOMAIN h |-> h[i].bytes]) = Len(h)
<1>1. DOMAIN h = 1..Len(h) /\ Len(h) \in Nat BY LenProperties
<1>2. \A i \in 1..Len(h) : h[i].bytes \in Seq(Int)
    <2>1. \A i \in 1..Len(h) : h[i] \in Said BY ElementOfSeq
    <2> QED BY <2>1 DEF Said, Body
<1> QED BY <1>1, <1>2, IsASeq

\* With one saying more its bytes come last.
LEMMA CarriedAppend ==
    ASSUME NEW h \in Seq(Said), NEW y \in Said
    PROVE  /\ Carried(h) \in Seq(Int) /\ y.bytes \in Seq(Int)
           /\ Carried(Append(h, y)) = Carried(h) \o y.bytes
<1> DEFINE g == [i \in DOMAIN h |-> h[i].bytes]
           t == Append(h, y)
<1>1. g \in Seq(Seq(Int)) /\ Len(g) = Len(h) BY BytesParts
<1>2. y.bytes \in Seq(Int) BY DEF Said, Body
<1>3. FlattenSeq(g) \in Seq(Int) BY <1>1, FlattenType
<1>4. /\ t \in Seq(Said) /\ Len(t) = Len(h) + 1 /\ Len(h) \in Nat /\ DOMAIN h = 1..Len(h)
      /\ \A i \in 1..Len(h) : t[i] = h[i]
      /\ t[Len(h) + 1] = y
    BY AppendProperties, LenProperties
<1> HIDE DEF t
<1>5. DOMAIN t = 1..Len(h) + 1 BY <1>4, LenProperties
<1> DEFINE gt == [i \in DOMAIN t |-> t[i].bytes]
<1>6. \A i \in 1..Len(h) : g[i] = h[i].bytes BY <1>4
<1> HIDE DEF g
<1>7. gt \in Seq(Seq(Int)) /\ Len(gt) = Len(h) + 1 BY <1>4, BytesParts
<1>8. gt = Append(g, y.bytes)
    <2> DEFINE ga == Append(g, y.bytes)
    <2>1. /\ ga \in Seq(Seq(Int)) /\ Len(ga) = Len(h) + 1
          /\ \A i \in 1..Len(h) : ga[i] = g[i]
          /\ ga[Len(h) + 1] = y.bytes
        BY <1>1, <1>2, AppendProperties
    <2> HIDE DEF ga
    <2>2. ASSUME NEW i \in 1..Len(gt) PROVE gt[i] = ga[i]
        <3>1. i \in 1..Len(h) + 1 BY <1>7
        <3>2. gt[i] = t[i].bytes BY <1>5, <3>1
        <3>3. CASE i <= Len(h)
            <4>1. i \in 1..Len(h) BY <1>4, <3>1, <3>3
            <4> QED BY <1>4, <1>6, <2>1, <3>2, <4>1
        <3>4. CASE ~(i <= Len(h))
            <4>1. i = Len(h) + 1 BY <1>4, <3>1, <3>4
            <4> QED BY <1>4, <2>1, <3>2, <4>1
        <3> QED BY <3>3, <3>4
    <2> HIDE DEF gt
    <2>3. gt = ga BY <1>7, <2>1, <2>2, SeqEqual
    <2> QED BY <2>3 DEF ga
<1>9. FlattenSeq(gt) = FlattenSeq(g) \o y.bytes BY <1>1, <1>2, <1>8, FlattenAppend
<1>10. Carried(t) = FlattenSeq(gt) BY DEF Carried
<1>11. Carried(h) = FlattenSeq(g) BY DEF Carried, g
<1> QED BY <1>2, <1>3, <1>9, <1>10, <1>11 DEF t

\* A saying without bytes.
LEMMA CarriedSame ==
    ASSUME NEW h \in Seq(Said), NEW t, Saying(t, <<>>) \in Said
    PROVE  Carried(Append(h, Saying(t, <<>>))) = Carried(h)
<1>1. Saying(t, <<>>).bytes = <<>> BY DEF Saying
<1> QED BY <1>1, CarriedAppend, ConcatEmptySeq

\* The first a bytes.
LEMMA NumberedLength ==
    ASSUME NEW a \in Nat
    PROVE  Numbered(1, a) \in Seq(Int) /\ Len(Numbered(1, a)) = a
<1>1. a - 1 + 1 = a OBVIOUS
<1> QED BY <1>1, NumberedType DEF Body

\* Bytes of neighbouring numbers.
LEMMA NumberedConcat ==
    ASSUME NEW a \in Nat, NEW b \in Nat, a <= b
    PROVE  Numbered(1, a) \o Numbered(a + 1, b) = Numbered(1, b)
<1> DEFINE x == Numbered(1, a)
           y == Numbered(a + 1, b)
           z == Numbered(1, b)
<1>1. x = [i \in 1..a |-> i]
    <2>1. a - 1 + 1 = a /\ \A i \in 1..a : 1 + i - 1 = i OBVIOUS
    <2> QED BY <2>1 DEF Numbered
<1>2. z = [i \in 1..b |-> i]
    <2>1. b - 1 + 1 = b /\ \A i \in 1..b : 1 + i - 1 = i OBVIOUS
    <2> QED BY <2>1 DEF Numbered
<1>3. y = [i \in 1..(b - a) |-> a + i]
    <2>1. b - (a + 1) + 1 = b - a /\ \A i \in 1..(b - a) : (a + 1) + i - 1 = a + i OBVIOUS
    <2> QED BY <2>1 DEF Numbered
<1>4. x \in Seq(Int) /\ Len(x) = a /\ \A i \in 1..a : x[i] = i
    <2>1. [i \in 1..a |-> i] \in [1..a -> Int] OBVIOUS
    <2> HIDE DEF x
    <2>2. x \in Seq(Int) /\ Len(x) = a BY <1>1, <2>1, FunctionIsSeq
    <2> QED BY <1>1, <2>2
<1>5. z \in Seq(Int) /\ Len(z) = b /\ \A i \in 1..b : z[i] = i
    <2>1. [i \in 1..b |-> i] \in [1..b -> Int] OBVIOUS
    <2> HIDE DEF z
    <2>2. z \in Seq(Int) /\ Len(z) = b BY <1>2, <2>1, FunctionIsSeq
    <2> QED BY <1>2, <2>2
<1>6. y \in Seq(Int) /\ Len(y) = b - a /\ \A i \in 1..(b - a) : y[i] = a + i
    <2>1. [i \in 1..(b - a) |-> a + i] \in [1..(b - a) -> Int] /\ b - a \in Nat OBVIOUS
    <2> HIDE DEF y
    <2>2. y \in Seq(Int) /\ Len(y) = b - a BY <1>3, <2>1, FunctionIsSeq
    <2> QED BY <1>3, <2>2
<1> HIDE DEF x, y, z
<1> DEFINE w == x \o y
<1>7. /\ w \in Seq(Int) /\ Len(w) = b
      /\ \A i \in 1..b : w[i] = IF i <= a THEN x[i] ELSE y[i - a]
    <2>1. /\ w \in Seq(Int) /\ Len(w) = Len(x) + Len(y)
          /\ \A i \in 1..Len(x) + Len(y) : w[i] = IF i <= Len(x) THEN x[i] ELSE y[i - Len(x)]
        BY <1>4, <1>6, ConcatProperties
    <2>2. Len(x) + Len(y) = b BY <1>4, <1>6
    <2> HIDE DEF w
    <2> QED BY <1>4, <2>1, <2>2
<1> HIDE DEF w
<1>8. ASSUME NEW i \in 1..Len(w) PROVE w[i] = z[i]
    <2>1. i \in 1..b BY <1>7
    <2>2. CASE i <= a BY <1>4, <1>5, <1>7, <2>1, <2>2
    <2>3. CASE ~(i <= a)
        <3>1. i - a \in 1..(b - a) BY <2>1, <2>3
        <3>2. y[i - a] = i BY <1>6, <3>1
        <3> QED BY <1>5, <1>7, <2>1, <2>3, <3>2
    <2> QED BY <2>2, <2>3
<1> QED BY <1>5, <1>7, <1>8, SeqEqual DEF w, x, y, z

\* More members, more bytes.
LEMMA UpNext ==
    ASSUME NEW g \in Lengths, NEW i \in Nat, i < Len(g)
    PROVE  Up(g, i) \in Nat /\ Up(g, i + 1) \in Nat /\ Up(g, i) < Up(g, i + 1)
<1>1. g[i + 1] \in Nat \ {0} /\ First(g, i + 1) = Append(First(g, i), g[i + 1]) BY RestNext DEF Lengths
<1>2. First(g, i) \in Seq(Nat)
    <2>1. g \in Seq(Nat) BY SeqMonotonic DEF Lengths
    <2> QED BY <2>1, FirstRest
<1>3. Total(Append(First(g, i), g[i + 1])) = Total(First(g, i)) + g[i + 1] BY <1>1, <1>2, TotalAppend
<1>4. Total(First(g, i)) \in Nat BY <1>2, TotalType
<1> DEFINE a == Total(First(g, i))
           d == g[i + 1]
<1>5. Up(g, i) = a /\ Up(g, i + 1) = a + d BY <1>1, <1>3 DEF Up
<1>6. a \in Nat /\ d \in Nat \ {0} BY <1>1, <1>4
<1> HIDE DEF a, d
<1> QED BY <1>5, <1>6

\* With n payloads more, at least n bytes more.
LEMMA UpRises ==
    ASSUME NEW g \in Lengths, NEW i \in Nat, NEW n \in Nat, i + n <= Len(g)
    PROVE  Up(g, i) \in Nat /\ Up(g, i + n) \in Nat /\ Up(g, i + n) >= Up(g, i) + n
<1> DEFINE S == {k \in Nat : i + k <= Len(g) => Up(g, i + k) \in Nat /\ Up(g, i + k) >= Up(g, i) + k}
<1>0. Len(g) \in Nat BY LenProperties DEF Lengths
<1>1. Up(g, i) \in Nat
    <2>1. g \in Seq(Nat) BY SeqMonotonic DEF Lengths
    <2>2. First(g, i) \in Seq(Nat) BY <2>1, FirstRest
    <2> QED BY <2>2, TotalType DEF Up
<1>2. 0 \in S
    <2>1. i + 0 = i OBVIOUS
    <2> QED BY <1>1, <2>1
<1>3. ASSUME NEW k \in S PROVE k + 1 \in S
    <2>1. SUFFICES ASSUME i + (k + 1) <= Len(g)
                   PROVE  Up(g, i + (k + 1)) \in Nat /\ Up(g, i + (k + 1)) >= Up(g, i) + (k + 1)
        OBVIOUS
    <2>2. k \in Nat /\ i + k <= Len(g) BY <1>0, <2>1
    <2>3. Up(g, i + k) \in Nat /\ Up(g, i + k) >= Up(g, i) + k BY <2>2
    <2>4. i + k \in Nat /\ i + k < Len(g) /\ i + (k + 1) = (i + k) + 1 BY <1>0, <2>1, <2>2
    <2> HIDE DEF S
    <2>5. Up(g, (i + k) + 1) \in Nat /\ Up(g, i + k) < Up(g, (i + k) + 1) BY <2>4, UpNext
    <2> DEFINE a == Up(g, i)
               b == Up(g, i + k)
               c == Up(g, (i + k) + 1)
    <2>6. a \in Nat /\ b \in Nat /\ c \in Nat /\ b >= a + k /\ b < c BY <1>1, <2>3, <2>5
    <2>7. Up(g, i + (k + 1)) = c BY <2>4
    <2> HIDE DEF a, b, c
    <2>8. c >= a + (k + 1) BY <2>2, <2>6
    <2> QED BY <2>6, <2>7, <2>8 DEF a
<1> HIDE DEF S
<1>4. S = Nat
    <2>1. S \subseteq Nat BY DEF S
    <2> QED BY <1>2, <1>3, <2>1, NaturalInduction
<1>5. n \in S BY <1>4
<1>6. Up(g, i + n) \in Nat /\ Up(g, i + n) >= Up(g, i) + n BY <1>5 DEF S
<1> QED BY <1>1, <1>6

\* As many bytes are only as many payloads.
LEMMA UpOrdered ==
    ASSUME NEW g \in Lengths, NEW m \in 0..Len(g), NEW n \in 0..Len(g)
    PROVE  /\ Up(g, m) \in Nat /\ Up(g, n) \in Nat
           /\ Up(g, m) <= Up(g, n) => m <= n
<1>0. Len(g) \in Nat /\ m \in Nat /\ n \in Nat BY LenProperties DEF Lengths
<1>1. Up(g, m) \in Nat /\ Up(g, n) \in Nat
    <2>1. m + 0 <= Len(g) /\ n + 0 <= Len(g) BY <1>0
    <2> QED BY <1>0, <2>1, UpRises
<1>2. ASSUME ~(m <= n) PROVE ~(Up(g, m) <= Up(g, n))
    <2> DEFINE d == m - n
    <2>1. d \in Nat \ {0} /\ n + d = m BY <1>0, <1>2
    <2> HIDE DEF d
    <2>2. n + d <= Len(g) BY <1>0, <2>1
    <2>3. Up(g, n + d) >= Up(g, n) + d BY <1>0, <2>1, <2>2, UpRises
    <2>4. Up(g, m) >= Up(g, n) + d BY <2>1, <2>3
    <2> QED BY <1>1, <2>1, <2>4
<1> QED BY <1>1, <1>2

\* Got, of any payloads and what is heard.
Counted(g, h) ==
    IF \E n \in DOMAIN g : Carried(h) = Numbered(1, Total(SubSeq(g, 1, n)))
    THEN CHOOSE n \in DOMAIN g : Carried(h) = Numbered(1, Total(SubSeq(g, 1, n)))
    ELSE 0

\* The number of payloads is the one that was meant.
LEMMA CountedIs ==
    ASSUME NEW g \in Lengths, NEW h, NEW n \in 0..Len(g), Counts(h, g, n)
    PROVE  Counted(g, h) = n
<1>1. Len(g) \in Nat /\ DOMAIN g = 1..Len(g) BY LenProperties DEF Lengths
<1>2. ASSUME NEW k \in 1..Len(g) PROVE Total(SubSeq(g, 1, k)) = Up(g, k)
    <2> DEFINE l == Len(g)
    <2>1. l \in Nat /\ k \in 1..l BY <1>1
    <2> HIDE DEF l
    <2>2. (IF k < l THEN k ELSE l) = k BY <2>1
    <2> QED BY <2>2 DEF Up, First, l
<1>3. ASSUME NEW k \in 0..Len(g), Counts(h, g, k) PROVE k = n
    <2>1. Up(g, k) \in Nat /\ Up(g, n) \in Nat BY UpOrdered
    <2>2. Numbered(1, Up(g, k)) = Numbered(1, Up(g, n)) BY <1>3 DEF Counts
    <2>3. Len(Numbered(1, Up(g, k))) = Up(g, k) /\ Len(Numbered(1, Up(g, n))) = Up(g, n)
        BY <2>1, NumberedLength
    <2>4. Up(g, k) = Up(g, n) BY <2>1, <2>2, <2>3
    <2>5. Up(g, k) <= Up(g, n) /\ Up(g, n) <= Up(g, k) BY <2>1, <2>4
    <2>6. k <= n /\ n <= k BY <2>5, UpOrdered
    <2> QED BY <1>1, <2>6
<1> DEFINE P(k) == Carried(h) = Numbered(1, Total(SubSeq(g, 1, k)))
<1>4. \A k \in DOMAIN g : P(k) <=> Counts(h, g, k) BY <1>1, <1>2 DEF Counts
<1>5. Counted(g, h) = IF \E k \in DOMAIN g : P(k) THEN CHOOSE k \in DOMAIN g : P(k) ELSE 0
    BY DEF Counted
<1> HIDE DEF P
<1>6. CASE n = 0
    <2>1. ASSUME NEW k \in DOMAIN g, P(k) PROVE FALSE
        <3>1. k \in 0..Len(g) /\ k # 0 BY <1>1
        <3> QED BY <1>3, <1>4, <1>6, <2>1, <3>1
    <2> QED BY <1>5, <1>6, <2>1
<1>7. CASE n # 0
    <2>1. n \in DOMAIN g /\ P(n) BY <1>1, <1>4, <1>7
    <2>2. PICK k \in DOMAIN g : P(k) /\ Counted(g, h) = k BY <1>5, <2>1
    <2>3. k \in 0..Len(g) BY <1>1
    <2> QED BY <1>3, <1>4, <2>2, <2>3
<1> QED BY <1>6, <1>7

\* What was whole stays so when more is given.
LEMMA StaysWhole ==
    ASSUME NEW g \in Lengths, NEW x \in Nat \ {0}, NEW h, AllWhole(h, g)
    PROVE  AllWhole(h, Append(g, x)) /\ Append(g, x) \in Lengths
<1> DEFINE t == Append(g, x)
<1>1. /\ t \in Lengths /\ Len(t) = Len(g) + 1 /\ Len(g) \in Nat
      /\ \A i \in 1..Len(g) : t[i] = g[i]
    BY AppendProperties, LenProperties DEF Lengths
<1> HIDE DEF t
<1>2. ASSUME NEW k \in 0..Len(h) PROVE IsWhole(First(h, k), t)
    <2>1. PICK n \in 0..Len(g) : Counts(First(h, k), g, n) BY DEF AllWhole, IsWhole
    <2>2. n \in Nat /\ n <= Len(g) /\ n <= Len(t) /\ n \in 0..Len(t) BY <1>1
    <2>3. Same(g, t, n)
        <3>1. \A i \in 1..n : i \in 1..Len(g) BY <1>1, <2>2
        <3> QED BY <1>1, <3>1 DEF Same
    <2>4. First(g, n) = First(t, n) BY <1>1, <2>2, <2>3, FirstSame DEF Lengths
    <2>5. Counts(First(h, k), t, n) BY <2>1, <2>4 DEF Counts, Up
    <2> QED BY <2>2, <2>5 DEF IsWhole
<1> QED BY <1>1, <1>2 DEF AllWhole, t

\* One saying more with which what is said is whole.
LEMMA WholeWithLast ==
    ASSUME NEW g \in Lengths, NEW h \in Seq(Said), NEW y \in Said, AllWhole(h, g), IsWhole(Append(h, y), g)
    PROVE  AllWhole(Append(h, y), g)
<1> DEFINE t == Append(h, y)
<1>1. /\ t \in Seq(Said) /\ Len(t) = Len(h) + 1 /\ Len(h) \in Nat
      /\ \A i \in 1..Len(h) : t[i] = h[i]
    BY AppendProperties, LenProperties
<1>2. IsWhole(t, g) OBVIOUS
<1> HIDE DEF t
<1>3. ASSUME NEW k \in 0..Len(t) PROVE IsWhole(First(t, k), g)
    <2>1. CASE k = Len(t)
        <3>1. First(t, k) = t BY <1>1, <2>1, FirstAll
        <3> QED BY <1>2, <3>1
    <2>2. CASE k # Len(t)
        <3>1. k \in 0..Len(h) /\ k \in Nat /\ k <= Len(h) /\ k <= Len(t) BY <1>1, <2>2
        <3>2. Same(t, h, k)
            <4>1. \A i \in 1..k : i \in 1..Len(h) BY <1>1, <3>1
            <4> QED BY <1>1, <4>1 DEF Same
        <3>3. First(t, k) = First(h, k) BY <1>1, <3>1, <3>2, FirstSame
        <3> QED BY <3>1, <3>3 DEF AllWhole
    <2> QED BY <2>1, <2>2
<1> QED BY <1>3 DEF AllWhole, t

\* A key or a confirmation changes nothing about the payload.
LEMMA WholeControl ==
    ASSUME NEW g \in Lengths, NEW h \in Seq(Said), NEW t, Saying(t, <<>>) \in Said, AllWhole(h, g)
    PROVE  /\ AllWhole(Append(h, Saying(t, <<>>)), g)
           /\ Carried(Append(h, Saying(t, <<>>))) = Carried(h)
           /\ Append(h, Saying(t, <<>>)) \in Seq(Said)
<1> DEFINE y == Saying(t, <<>>)
<1>1. y \in Said OBVIOUS
<1>2. Carried(Append(h, y)) = Carried(h) BY CarriedSame
<1> HIDE DEF y
<1>3. Len(h) \in 0..Len(h) BY LenProperties
<1>4. IsWhole(h, g) BY <1>3, FirstAll DEF AllWhole
<1>5. IsWhole(Append(h, y), g) BY <1>2, <1>4 DEF IsWhole, Counts
<1>6. AllWhole(Append(h, y), g) BY <1>1, <1>5, WholeWithLast
<1>7. Append(h, y) \in Seq(Said) BY <1>1, AppendProperties
<1> QED BY <1>2, <1>6, <1>7 DEF y

\* With a payload of all that waited, all that was given is said.
LEMMA WholePayload ==
    ASSUME NEW g \in Lengths, NEW h \in Seq(Said), NEW d \in Nat, d <= Total(g),
           AllWhole(h, g), Carried(h) = Numbered(1, Total(g) - d),
           NEW b \in Body, b = Numbered(Total(g) - d + 1, Total(g))
    PROVE  /\ AllWhole(Append(h, Saying("payload", b)), g)
           /\ Carried(Append(h, Saying("payload", b))) = Numbered(1, Total(g))
           /\ Append(h, Saying("payload", b)) \in Seq(Said)
<1> DEFINE y == Saying("payload", b)
           a == Total(g) - d
<1>1. y \in Said /\ y.bytes = b BY DEF Saying, Said
<1> HIDE DEF y
<1>2. Carried(Append(h, y)) = Carried(h) \o b BY <1>1, CarriedAppend
<1>3. Total(g) \in Nat
    <2>1. g \in Seq(Nat) BY SeqMonotonic DEF Lengths
    <2> QED BY <2>1, TotalType
<1>4. a \in Nat /\ a <= Total(g) BY <1>3
<1>5. Carried(h) = Numbered(1, a) /\ b = Numbered(a + 1, Total(g)) OBVIOUS
<1> HIDE DEF a
<1>6. Carried(Append(h, y)) = Numbered(1, Total(g)) BY <1>2, <1>3, <1>4, <1>5, NumberedConcat
<1>7. Up(g, Len(g)) = Total(g) BY FirstAll DEF Up, Lengths
<1>8. Len(g) \in 0..Len(g) BY LenProperties DEF Lengths
<1>9. IsWhole(Append(h, y), g) BY <1>6, <1>7, <1>8 DEF IsWhole, Counts
<1>10. AllWhole(Append(h, y), g) BY <1>1, <1>9, WholeWithLast
<1>11. Append(h, y) \in Seq(Said) BY <1>1, AppendProperties
<1> QED BY <1>6, <1>10, <1>11 DEF y

\* Nothing was said of nothing.
LEMMA WholesInit == Init => Wholes
<1> SUFFICES ASSUME Init PROVE Wholes OBVIOUS
<1>1. given = <<>> /\ held = 0 /\ told = <<>> BY DEF Init
<1>2. <<>> \in Lengths /\ <<>> \in Seq(Said) /\ Len(<<>>) = 0 BY EmptySeq DEF Lengths
<1>3. Carried(<<>>) = <<>>
    <2>1. [i \in DOMAIN <<>> |-> <<>>[i].bytes] = <<>> OBVIOUS
    <2> QED BY <2>1, FlattenEmpty DEF Carried
<1>4. Numbered(1, 0) = <<>>
    <2>1. Numbered(1, 0) \in Seq(Int) /\ Len(Numbered(1, 0)) = 0 BY NumberedLength
    <2> QED BY <2>1, EmptySeq
<1>5. First(<<>>, 0) = <<>> BY SubSeqEmpty DEF First
<1>6. Up(<<>>, 0) = 0 BY <1>5, TotalEmpty DEF Up
<1>7. Counts(<<>>, <<>>, 0) BY <1>3, <1>4, <1>6 DEF Counts
<1>8. AllWhole(<<>>, <<>>)
    <2>1. 0 \in 0..Len(<<>>) /\ \A k \in 0..Len(<<>>) : k = 0 BY <1>2
    <2>2. IsWhole(<<>>, <<>>) BY <1>7, <2>1 DEF IsWhole
    <2> QED BY <1>5, <2>1, <2>2 DEF AllWhole
<1>9. Carried(<<>>) = Numbered(1, 0 - 0) BY <1>3, <1>4
<1> QED BY <1>1, <1>2, <1>8, <1>9, TotalEmpty DEF Wholes

\* What is told is whole payloads in any step.
LEMMA WholesStep ==
    ASSUME IInv, Wholes, [Next]_vars
    PROVE  Wholes'
<1>1. /\ given \in Lengths /\ held <= Total(given) /\ Carried(told) = Numbered(1, Total(given) - held)
      /\ AllWhole(told, given)
    BY DEF Wholes
<1>2. held \in Nat /\ allowed \in BOOLEAN /\ told \in Seq(Said) BY DEF IInv, Shaped
<1>3. given \in Seq(Nat) /\ Total(given) \in Nat
    <2>1. given \in Seq(Nat) BY <1>1, SeqMonotonic DEF Lengths
    <2> QED BY <2>1, TotalType
<1>4. CASE Put
    <2>1. PICK n \in Size :
            /\ given' = Append(given, n)
            /\ LET b == Numbered(Total(given) - held + 1, Total(given) + n)
               IN  IF allowed
                   THEN held' = 0 /\ Encrypt(Pieces(b)) /\ told' = Append(told, Saying("payload", b))
                   ELSE held' = held + n /\ UNCHANGED <<msgs, told, stream>>
        BY <1>4 DEF Put
    <2>2. n \in Nat \ {0} BY SizeAssumption
    <2> DEFINE g == Append(given, n)
    <2>3. AllWhole(told, g) /\ g \in Lengths BY <1>1, <2>2, StaysWhole
    <2>4. Total(g) = Total(given) + n BY <1>3, <2>2, TotalAppend
    <2>5. given' = g BY <2>1
    <2> HIDE DEF g
    <2> DEFINE d == held + n
    <2>6. d \in Nat /\ d <= Total(g) /\ Total(g) - d = Total(given) - held /\ Total(g) \in Nat
        BY <1>1, <1>2, <1>3, <2>2, <2>4
    <2> HIDE DEF d
    <2>7. Carried(told) = Numbered(1, Total(g) - d) BY <1>1, <2>6
    <2>8. CASE allowed
        <3> DEFINE b == Numbered(Total(g) - d + 1, Total(g))
        <3>1. held' = 0 /\ told' = Append(told, Saying("payload", b)) BY <2>1, <2>4, <2>6, <2>8
        <3>2. b \in Body
            <4>1. Total(g) - d + 1 \in Int /\ Total(g) \in Int /\ Total(g) - (Total(g) - d + 1) + 1 = d BY <2>6
            <4> QED BY <2>6, <4>1, NumberedType
        <3> HIDE DEF b
        <3>3. /\ AllWhole(Append(told, Saying("payload", b)), g)
              /\ Carried(Append(told, Saying("payload", b))) = Numbered(1, Total(g))
            BY <1>2, <2>3, <2>6, <2>7, <3>2, WholePayload DEF b
        <3>4. Total(g) - 0 = Total(g) /\ 0 <= Total(g) BY <2>6
        <3> QED BY <2>3, <2>5, <3>1, <3>3, <3>4 DEF Wholes
    <2>9. CASE ~allowed
        <3>1. held' = d /\ told' = told BY <2>1, <2>9 DEF d
        <3> QED BY <2>3, <2>5, <2>6, <2>7, <3>1 DEF Wholes
    <2> QED BY <2>8, <2>9
<1>5. CASE Open
    <2> DEFINE t1 == Append(told, Saying("skey", <<>>))
               t2 == Append(t1, Saying("marker", <<>>))
               b == Numbered(Total(given) - held + 1, Total(given))
               ss == IF held = 0 THEN <<>> ELSE <<Saying("payload", b)>>
    <2>1. /\ held' = 0 /\ given' = given
          /\ told' = (told \o <<Saying("skey", <<>>), Saying("marker", <<>>)>>) \o ss
        BY <1>5 DEF Open
    <2>2. Saying("skey", <<>>) \in Said /\ Saying("marker", <<>>) \in Said
        <3>1. <<>> \in Body BY EmptySeq DEF Body
        <3> QED BY <3>1 DEF Saying, Said, Types, SizedTypes
    <2>3. told \o <<Saying("skey", <<>>), Saying("marker", <<>>)>> = t2 BY <1>2, <2>2, TwoMore
    <2>4. AllWhole(t1, given) /\ Carried(t1) = Carried(told) /\ t1 \in Seq(Said)
        BY <1>1, <1>2, <2>2, WholeControl
    <2> HIDE DEF t1
    <2>5. AllWhole(t2, given) /\ Carried(t2) = Carried(t1) /\ t2 \in Seq(Said)
        BY <1>1, <2>2, <2>4, WholeControl
    <2> HIDE DEF t2
    <2>6. told' = t2 \o ss BY <2>1, <2>3
    <2>7. Carried(t2) = Numbered(1, Total(given) - held) BY <1>1, <2>4, <2>5
    <2>8. CASE held = 0
        <3>1. told' = t2 BY <2>5, <2>6, <2>8, ConcatEmptySeq
        <3> QED BY <1>1, <2>1, <2>5, <2>7, <2>8, <3>1 DEF Wholes
    <2>9. CASE held # 0
        <3>1. ss = <<Saying("payload", b)>> BY <2>9
        <3>2. b \in Body
            <4>1. /\ Total(given) - held + 1 \in Int /\ Total(given) \in Int
                  /\ Total(given) - (Total(given) - held + 1) + 1 = held
                BY <1>2, <1>3
            <4> QED BY <1>2, <4>1, NumberedType
        <3> HIDE DEF ss
        <3>3. b = Numbered(Total(given) - held + 1, Total(given)) OBVIOUS
        <3> HIDE DEF b
        <3>4. /\ AllWhole(Append(t2, Saying("payload", b)), given)
              /\ Carried(Append(t2, Saying("payload", b))) = Numbered(1, Total(given))
            BY <1>1, <1>2, <2>5, <2>7, <3>2, <3>3, WholePayload
        <3>5. Saying("payload", b) \in Said BY <3>2 DEF Saying, Said
        <3>6. told' = Append(t2, Saying("payload", b)) BY <2>5, <2>6, <3>1, <3>5, AppendIsConcat
        <3>7. Total(given) - 0 = Total(given) /\ 0 <= Total(given) BY <1>3
        <3> QED BY <1>1, <2>1, <3>4, <3>6, <3>7 DEF Wholes
    <2> QED BY <2>8, <2>9
<1>6. CASE Urgent
    <2>1. PICK t \in {"ekey", "applied"} : told' = Append(told, Saying(t, <<>>)) BY <1>6 DEF Urgent
    <2>2. given' = given /\ held' = held BY <1>6 DEF Urgent
    <2>3. Saying(t, <<>>) \in Said
        <3>1. <<>> \in Body BY EmptySeq DEF Body
        <3> QED BY <3>1 DEF Saying, Said, Types, SizedTypes
    <2>4. AllWhole(told', given) /\ Carried(told') = Carried(told) BY <1>1, <1>2, <2>1, <2>3, WholeControl
    <2>5. given' \in Lengths /\ held' <= Total(given') /\ AllWhole(told', given') BY <1>1, <2>2, <2>4
    <2>6. Carried(told') = Numbered(1, Total(given') - held') BY <1>1, <2>2, <2>4
    <2> QED BY <2>5, <2>6 DEF Wholes
<1>7. CASE UNCHANGED <<given, held, told>>
    BY <1>1, <1>7 DEF Wholes
<1>8. \/ Input \/ ReadType \/ ReadSize \/ ReadPayload \/ Restart \/ UNCHANGED vars
      => UNCHANGED <<given, held, told>>
    BY DEF Input, ReadType, ReadSize, ReadPayload, Restart, vars, writer
<1> QED BY <1>4, <1>5, <1>6, <1>7, <1>8 DEF Next

\* What is heard is whole payloads, and Got their number.
GotRight == Got \in 0..Len(given) /\ Counts(heard, given, Got)

\* It is so while what is told is whole payloads.
LEMMA GotIs ==
    ASSUME IInv, Wholes
    PROVE  GotRight
<1>1. given \in Lengths /\ AllWhole(told, given) BY DEF Wholes
<1>2. told \in Seq(Said) /\ heard \in Seq(Said) BY DEF IInv, Shaped
<1>3. IsPrefix(heard, told) BY IInvOrdered DEF Ordered
<1> DEFINE k == Len(heard)
<1>4. k <= Len(told) /\ Same(heard, told, k) /\ k \in Nat /\ Len(told) \in Nat /\ k <= k
    BY <1>2, <1>3, PrefixIs, LenProperties
<1>5. First(heard, k) = First(told, k) BY <1>2, <1>4, FirstSame
<1>6. First(heard, k) = heard BY <1>2, FirstAll
<1> HIDE DEF k
<1>7. IsWhole(heard, given)
    <2>1. k \in 0..Len(told) BY <1>4
    <2>2. \A j \in 0..Len(told) : IsWhole(First(told, j), given) BY <1>1 DEF AllWhole
    <2>3. IsWhole(First(told, k), given) BY <2>1, <2>2
    <2> QED BY <1>5, <1>6, <2>3
<1>8. PICK n \in 0..Len(given) : Counts(heard, given, n) BY <1>7 DEF IsWhole
<1>9. Counted(given, heard) = n BY <1>1, <1>8, CountedIs
<1>10. Got = Counted(given, heard) BY DEF Got, Counted, Heard, Carried
<1> QED BY <1>8, <1>9, <1>10 DEF GotRight

\* As long as the same is given and heard, Got is the same.
LEMMA GotStays ==
    ASSUME UNCHANGED <<given, heard>>
    PROVE  Got' = Got
BY DEF Got, Heard

\* With more heard, more payloads or as many.
LEMMA GotMore ==
    ASSUME NEW g \in Lengths, NEW h \in Seq(Said), NEW y \in Said, NEW m \in 0..Len(g), NEW n \in 0..Len(g),
           Counts(h, g, m), Counts(Append(h, y), g, n)
    PROVE  m <= n
<1>1. /\ Carried(h) \in Seq(Int) /\ y.bytes \in Seq(Int)
      /\ Carried(Append(h, y)) = Carried(h) \o y.bytes
    BY CarriedAppend
<1>2. Len(Carried(Append(h, y))) = Len(Carried(h)) + Len(y.bytes) BY <1>1, ConcatProperties
<1>3. Len(y.bytes) \in Nat BY <1>1, LenProperties
<1>4. Up(g, m) \in Nat /\ Up(g, n) \in Nat BY UpOrdered
<1>5. Len(Carried(h)) = Up(g, m) /\ Len(Carried(Append(h, y))) = Up(g, n)
    BY <1>4, NumberedLength DEF Counts
<1>6. Up(g, m) <= Up(g, n) BY <1>2, <1>3, <1>4, <1>5
<1> QED BY <1>6, UpOrdered

\* Each step is one of Delivery, or none there.
LEMMA StepDelivers ==
    ASSUME IInv, IInv', Wholes, Wholes', GotRight, GotRight', [Next]_vars
    PROVE  D!Send \/ D!Deliver \/ UNCHANGED <<given, Got>>
<1>1. /\ given \in Lengths /\ given' \in Lengths /\ heard \in Seq(Said) /\ heard' \in Seq(Said)
      /\ Got \in 0..Len(given) /\ Counts(heard, given, Got)
      /\ Got' \in 0..Len(given') /\ Counts(heard', given', Got')
    BY DEF IInv, Shaped, Wholes, GotRight, Counts, Carried, Up, Numbered, First, Total
<1>2. CASE Put
    <2>1. PICK n \in Size : given' = Append(given, n) BY <1>2 DEF Put
    <2>2. heard' = heard BY <1>2 DEF Put, reader
    <2>3. n \in Nat \ {0} BY SizeAssumption
    <2> DEFINE a == Got
               h == heard
               g == given
               t == Append(g, n)
    <2>4. a \in 0..Len(g) /\ Counts(h, g, a) /\ g \in Lengths BY <1>1
    <2>5. Counted(t, h) = Got'
        <3>1. given' = t /\ heard' = h BY <2>1, <2>2
        <3> QED BY <3>1 DEF Got, Counted, Heard, Carried
    <2> HIDE DEF a, h, g
    <2>6. /\ t \in Lengths /\ Len(t) = Len(g) + 1 /\ Len(g) \in Nat
          /\ \A i \in 1..Len(g) : t[i] = g[i]
        BY <2>3, <2>4, AppendProperties, LenProperties DEF Lengths
    <2> HIDE DEF t
    <2>7. a \in Nat /\ a <= Len(g) /\ a <= Len(t) /\ a \in 0..Len(t) BY <2>4, <2>6
    <2>8. Same(g, t, a)
        <3>1. \A i \in 1..a : i \in 1..Len(g) BY <2>6, <2>7
        <3> QED BY <2>6, <3>1 DEF Same
    <2>9. First(g, a) = First(t, a) BY <2>4, <2>6, <2>7, <2>8, FirstSame DEF Lengths
    <2>10. Counts(h, t, a) BY <2>4, <2>9 DEF Counts, Up
    <2>11. Counted(t, h) = a BY <2>6, <2>7, <2>10, CountedIs
    <2>12. Got' = Got BY <2>5, <2>11 DEF a
    <2> QED BY <2>1, <2>12 DEF D!Send
<1>3. CASE UNCHANGED <<given, heard>> BY <1>3, GotStays
<1>4. CASE ReadPayload /\ heard' # heard
    <2>1. given' = given BY <1>4 DEF ReadPayload, writer
    <2>2. \E y : heard' = Append(heard, y) BY <1>4 DEF ReadPayload, HandOn
    <2>3. PICK y : heard' = Append(heard, y) BY <2>2
    <2> DEFINE h == heard
               ha == heard'
               a == Got
               c == Got'
               g == given
    <2>4. /\ g \in Lengths /\ h \in Seq(Said) /\ ha \in Seq(Said) /\ ha = Append(h, y)
          /\ a \in 0..Len(g) /\ Counts(h, g, a) /\ c \in 0..Len(g) /\ Counts(ha, g, c)
        BY <1>1, <2>1, <2>3
    <2> HIDE DEF h, ha, a, c, g
    <2>5. y \in Said
        <3>1. Len(h) \in Nat /\ Len(h) + 1 \in 1..Len(ha) /\ ha[Len(h) + 1] = y
            <4>1. Len(h) \in Nat BY <2>4, LenProperties
            <4>2. Len(Append(h, y)) = Len(h) + 1 /\ Append(h, y)[Len(h) + 1] = y BY <2>4
            <4> QED BY <2>4, <4>1, <4>2
        <3> QED BY <2>4, <3>1, ElementOfSeq
    <2>6. a <= c BY <2>4, <2>5, GotMore
    <2>7. Len(g) \in Nat BY <2>4, LenProperties DEF Lengths
    <2>8. a = c \/ c \in (a + 1)..Len(g) BY <2>4, <2>6, <2>7
    <2>9. Got = Got' \/ Got' \in (Got + 1)..Len(given) BY <2>8 DEF a, c, g
    <2> QED BY <2>1, <2>9 DEF D!Deliver
<1>5. \/ Open \/ Urgent \/ Input \/ ReadType \/ ReadSize \/ Restart \/ UNCHANGED vars
      => UNCHANGED <<given, heard>>
    BY DEF Open, Urgent, Input, ReadType, ReadSize, Restart, vars, writer, reader
<1>6. ReadPayload /\ heard' = heard => UNCHANGED <<given, heard>> BY DEF ReadPayload, writer
<1> QED BY <1>2, <1>3, <1>4, <1>5, <1>6 DEF Next

\* So it is always.
LEMMA WholesAlways == Spec => [](IInv /\ Wholes /\ GotRight)
<1>1. IInv /\ Wholes /\ [Next]_vars => Wholes' BY WholesStep
<1>2. IInv /\ Wholes => GotRight BY GotIs
<1> QED BY <1>1, <1>2, WholesInit, IInvAlways, PTL DEF Spec

\* The pair of ciphering stages implements Delivery, with the number of payloads
\* heard whole as what has come out: payload that waits for permission, is cut
\* into chunks and is put together again comes out whole and in order.
THEOREM CipheringDelivers == Spec => Delivers
<1>1. Init => D!Init
    <2> SUFFICES ASSUME Init PROVE given = <<>> /\ Got = 0 BY DEF D!Init
    <2>1. given = <<>> BY DEF Init
    <2>2. DOMAIN <<>> = {} OBVIOUS
    <2> QED BY <2>1, <2>2 DEF Got
<1>2. /\ IInv /\ Wholes /\ GotRight
      /\ (IInv /\ Wholes /\ GotRight)'
      /\ [Next]_vars
      => [D!Send \/ D!Deliver]_<<given, Got>>
    BY StepDelivers
<1> QED BY <1>1, <1>2, WholesAlways, PTL DEF Spec, Delivers, D!Spec
=============================================================================
