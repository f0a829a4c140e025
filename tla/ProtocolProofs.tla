--------------------------- MODULE ProtocolProofs ---------------------------
(***************************************************************************)
(* The invariants of Protocol, for every set of interfaces, of             *)
(* requirements and of announcements of the peer, provided that users do   *)
(* not let go of an edge from within start(): the run protocol_drop shows  *)
(* what comes of that.                                                     *)
(*                                                                         *)
(* First the ring: it has no stage twice and at most six of them,          *)
(* buildChain makes it what RingGood says, and a turn of the pump keeps    *)
(* flags and outputs in step.                                              *)
(***************************************************************************)
EXTENDS Protocol, TLAPS

-----------------------------------------------------------------------------
(* The order of the stages in every ring.                                  *)

Rank == [s \in Stage |->
            CASE s = "remoteEdge"     -> 0
              [] s = "inCiphering"    -> 1
              [] s = "inCutting"      -> 2
              [] s = "inCompression"  -> 3
              [] s = "localEdge"      -> 4
              [] s = "outCompression" -> 5
              [] s = "outCutting"     -> 6
              [] s = "outCiphering"   -> 7]

Ordered(c) ==
    /\ c \in Seq(Stage)
    /\ \A i, j \in 1..Len(c) : i < j => Rank[c[i]] < Rank[c[j]]

Before(c, d) == \A s \in Members(c), t \in Members(d) : Rank[s] < Rank[t]

\* One after the other, two parts of a ring are a part of a ring.
LEMMA OrderedConcat ==
    ASSUME NEW c, NEW d, Ordered(c), Ordered(d), Before(c, d)
    PROVE  /\ Ordered(c \o d)
           /\ Members(c \o d) = Members(c) \cup Members(d)
           /\ Len(c \o d) = Len(c) + Len(d)
<1>0. c \in Seq(Stage) /\ d \in Seq(Stage) BY DEF Ordered
<1>1. c \o d \in Seq(Stage) /\ Len(c \o d) = Len(c) + Len(d) /\ Len(c) \in Nat /\ Len(d) \in Nat
    BY <1>0
<1>2. \A i \in 1..Len(c) : (c \o d)[i] = c[i] BY <1>0
<1>3. \A i \in 1..Len(d) : (c \o d)[Len(c) + i] = d[i] BY <1>0
<1>4. \A i \in 1..Len(c \o d) : i \in 1..Len(c) \/ i - Len(c) \in 1..Len(d) BY <1>1
<1>5. Members(c \o d) = Members(c) \cup Members(d)
    <2>1. Members(c) \subseteq Members(c \o d) BY <1>1, <1>2 DEF Members
    <2>2. ASSUME NEW i \in 1..Len(d) PROVE d[i] \in Members(c \o d)
        <3>1. Len(c) + i \in 1..Len(c \o d) BY <1>1
        <3> QED BY <3>1, <1>3 DEF Members
    <2>3. ASSUME NEW i \in 1..Len(c \o d) PROVE (c \o d)[i] \in Members(c) \cup Members(d)
        <3>1. CASE i \in 1..Len(c) BY <3>1, <1>2 DEF Members
        <3>2. CASE i - Len(c) \in 1..Len(d)
            <4>1. Len(c) + (i - Len(c)) = i BY <1>1
            <4> QED BY <3>2, <4>1, <1>3 DEF Members
        <3> QED BY <3>1, <3>2, <1>4
    <2> QED BY <2>1, <2>2, <2>3 DEF Members
<1>6. ASSUME NEW i \in 1..Len(c \o d), NEW j \in 1..Len(c \o d), i < j
      PROVE  Rank[(c \o d)[i]] < Rank[(c \o d)[j]]
    <2>1. CASE j \in 1..Len(c)
        <3>1. i \in 1..Len(c) BY <2>1, <1>6, <1>1
        <3> QED BY <2>1, <3>1, <1>2, <1>6 DEF Ordered
    <2>2. CASE j - Len(c) \in 1..Len(d)
        <3>0. Len(c) + (j - Len(c)) = j /\ Len(c) + (i - Len(c)) = i BY <1>1
        <3>1. (c \o d)[j] = d[j - Len(c)] BY <3>0, <2>2, <1>3
        <3>2. CASE i \in 1..Len(c)
            <4>1. (c \o d)[i] = c[i] BY <3>2, <1>2
            <4> QED BY <3>1, <4>1, <3>2, <2>2 DEF Before, Members
        <3>3. CASE i - Len(c) \in 1..Len(d)
            <4>1. (c \o d)[i] = d[i - Len(c)] BY <3>0, <3>3, <1>3
            <4>2. i - Len(c) < j - Len(c) BY <1>6, <1>1
            <4> QED BY <3>1, <4>1, <4>2, <3>3, <2>2 DEF Ordered
        <3> QED BY <3>2, <3>3, <1>4
    <2> QED BY <2>1, <2>2, <1>4
<1> QED BY <1>1, <1>5, <1>6 DEF Ordered

\* Rings are made of single stages.
LEMMA OrderedSingle ==
    ASSUME NEW s \in Stage
    PROVE  Ordered(<<s>>) /\ Members(<<s>>) = {s} /\ Len(<<s>>) = 1
BY DEF Ordered, Members

LEMMA OrderedEmpty == Ordered(<<>>) /\ Members(<<>>) = {} /\ Len(<<>>) = 0
BY DEF Ordered, Members

\* A stage of an ordered part stands in one place only.
LEMMA PositionUnique ==
    ASSUME NEW c, Ordered(c), NEW i \in 1..Len(c)
    PROVE  IndexIn(c[i], c) = i - 1
<1>1. c \in Seq(Stage) /\ Len(c) \in Nat /\ \A k \in 1..Len(c) : c[k] \in Stage BY DEF Ordered
<1>2. \A s \in Stage : Rank[s] \in Int BY DEF Rank, Stage
<1>3. \A k \in 1..Len(c) : c[k] = c[i] => k = i
    <2>1. ASSUME NEW k \in 1..Len(c), c[k] = c[i], k # i PROVE FALSE
        <3>1. k < i \/ i < k BY <2>1
        <3>2. Rank[c[k]] # Rank[c[i]] BY <3>1, <1>1, <1>2 DEF Ordered
        <3> QED BY <3>2, <2>1
    <2> QED BY <2>1
<1>4. Position(c[i], c) = i BY <1>3 DEF Position
<1> QED BY <1>4 DEF IndexIn

-----------------------------------------------------------------------------
(* What buildChain builds.                                                 *)

\* A part of a ring made of stages of S, no more than n of them.
Part(c, S, n) == Ordered(c) /\ Members(c) \subseteq S /\ Len(c) \in 0..n

LEMMA PartConcat ==
    ASSUME NEW c, NEW d, NEW S, NEW T, NEW m \in Nat, NEW n \in Nat,
           Part(c, S, m), Part(d, T, n), \A s \in S, t \in T : Rank[s] < Rank[t]
    PROVE  Part(c \o d, S \cup T, m + n) /\ Members(c \o d) = Members(c) \cup Members(d)
<1>1. Before(c, d) BY DEF Part, Before
<1>2. /\ Ordered(c \o d) /\ Members(c \o d) = Members(c) \cup Members(d)
      /\ Len(c \o d) = Len(c) + Len(d)
    BY <1>1, OrderedConcat DEF Part
<1> QED BY <1>2 DEF Part

LEMMA InputStagesShape ==
    ASSUME NEW r
    PROVE  /\ Part(InputStages(r), {"inCiphering", "inCutting", "inCompression"}, 2)
           /\ "inCiphering" \in Members(InputStages(r)) <=> ciphering \subseteq r
<1> DEFINE A == IF ciphering \subseteq r THEN <<"inCiphering">>
                ELSE IF cutting \subseteq r THEN <<"inCutting">> ELSE <<>>
           B == IF compression \subseteq r THEN <<"inCompression">> ELSE <<>>
           SA == {"inCiphering", "inCutting"}
           SB == {"inCompression"}
<1>1. /\ Part(A, SA, 1)
      /\ "inCiphering" \in Members(A) <=> ciphering \subseteq r
    <2>1. CASE ciphering \subseteq r BY <2>1, OrderedSingle DEF Part, Stage
    <2>2. CASE ~(ciphering \subseteq r) /\ cutting \subseteq r
        BY <2>2, OrderedSingle DEF Part, Stage
    <2>3. CASE ~(ciphering \subseteq r) /\ ~(cutting \subseteq r)
        BY <2>3, OrderedEmpty DEF Part
    <2> QED BY <2>1, <2>2, <2>3
<1>2. Part(B, SB, 1)
    BY OrderedSingle, OrderedEmpty DEF Part, Stage
<1>3. \A s \in SA, t \in SB : Rank[s] < Rank[t]
    BY DEF Rank, Stage
<1> HIDE DEF A, B
<1>4. Part(A \o B, SA \cup SB, 1 + 1) /\ Members(A \o B) = Members(A) \cup Members(B)
    <2>1. 1 \in Nat OBVIOUS
    <2> HIDE DEF SA, SB
    <2> QED BY <1>1, <1>2, <1>3, <2>1, PartConcat
<1>5. "inCiphering" \notin Members(B) BY <1>2 DEF Part
<1>6. InputStages(r) = A \o B BY DEF InputStages, A, B
<1>7. SA \cup SB = {"inCiphering", "inCutting", "inCompression"}
    OBVIOUS
<1>8. 1 + 1 = 2 OBVIOUS
<1> QED BY <1>1, <1>4, <1>5, <1>6, <1>7, <1>8

LEMMA OutputStagesShape ==
    ASSUME NEW r
    PROVE  /\ Part(OutputStages(r), {"outCompression", "outCutting", "outCiphering"}, 2)
           /\ "outCiphering" \in Members(OutputStages(r)) <=> ciphering \subseteq r
<1> DEFINE A == IF compression \subseteq r THEN <<"outCompression">> ELSE <<>>
           B == IF ciphering \subseteq r THEN <<"outCiphering">>
                ELSE IF cutting \subseteq r THEN <<"outCutting">> ELSE <<>>
           SA == {"outCompression"}
           SB == {"outCutting", "outCiphering"}
<1>1. /\ Part(B, SB, 1)
      /\ "outCiphering" \in Members(B) <=> ciphering \subseteq r
    <2>1. CASE ciphering \subseteq r BY <2>1, OrderedSingle DEF Part, Stage
    <2>2. CASE ~(ciphering \subseteq r) /\ cutting \subseteq r
        BY <2>2, OrderedSingle DEF Part, Stage
    <2>3. CASE ~(ciphering \subseteq r) /\ ~(cutting \subseteq r)
        BY <2>3, OrderedEmpty DEF Part
    <2> QED BY <2>1, <2>2, <2>3
<1>2. Part(A, SA, 1)
    BY OrderedSingle, OrderedEmpty DEF Part, Stage
<1>3. \A s \in SA, t \in SB : Rank[s] < Rank[t]
    BY DEF Rank, Stage
<1> HIDE DEF A, B
<1>4. Part(A \o B, SA \cup SB, 1 + 1) /\ Members(A \o B) = Members(A) \cup Members(B)
    <2>1. 1 \in Nat OBVIOUS
    <2> HIDE DEF SA, SB
    <2> QED BY <1>1, <1>2, <1>3, <2>1, PartConcat
<1>5. "outCiphering" \notin Members(A) BY <1>2 DEF Part
<1>6. OutputStages(r) = A \o B BY DEF OutputStages, A, B
<1>7. SA \cup SB = {"outCompression", "outCutting", "outCiphering"}
    OBVIOUS
<1>8. 1 + 1 = 2 OBVIOUS
<1> QED BY <1>1, <1>4, <1>5, <1>6, <1>7, <1>8

\* The ring of requirements e has both edges and at most six stages, and
\* ciphers where e says so.
LEMMA FullChainShape ==
    ASSUME NEW e
    PROVE  /\ Part(FullChain(e), Stage, 6)
           /\ {"remoteEdge", "localEdge"} \subseteq Members(FullChain(e))
           /\ "inCiphering" \in Members(FullChain(e)) <=> ciphering \subseteq e.in
           /\ "outCiphering" \in Members(FullChain(e)) <=> ciphering \subseteq e.out
<1> DEFINE I == InputStages(e.in)
           O == OutputStages(e.out)
           SI == {"inCiphering", "inCutting", "inCompression"}
           SO == {"outCompression", "outCutting", "outCiphering"}
           SR == {"remoteEdge"}
           SL == {"localEdge"}
           SRI == SR \cup SI
           SRL == SRI \cup SL
           R == <<"remoteEdge">>
           L == <<"localEdge">>
<1>0. 1 \in Nat /\ 2 \in Nat /\ 1 + 2 \in Nat /\ (1 + 2) + 1 \in Nat OBVIOUS
<1>1. Part(<<"remoteEdge">>, {"remoteEdge"}, 1) /\ Members(<<"remoteEdge">>) = {"remoteEdge"}
    BY OrderedSingle DEF Part, Stage
<1>2. Part(<<"localEdge">>, {"localEdge"}, 1) /\ Members(<<"localEdge">>) = {"localEdge"}
    BY OrderedSingle DEF Part, Stage
<1>3. Part(I, SI, 2) /\ ("inCiphering" \in Members(I) <=> ciphering \subseteq e.in)
    BY InputStagesShape
<1>4. Part(O, SO, 2) /\ ("outCiphering" \in Members(O) <=> ciphering \subseteq e.out)
    BY OutputStagesShape
<1> HIDE DEF I, O
<1>5. Part(R \o I, SRI, 1 + 2) /\ Members(R \o I) = Members(R) \cup Members(I)
    <2>1. \A s \in SR, t \in SI : Rank[s] < Rank[t] BY DEF Rank, Stage
    <2>2. Part(R, SR, 1) BY <1>1
    <2> HIDE DEF R, L, SR, SI
    <2> QED BY <1>0, <1>3, <2>1, <2>2, PartConcat
<1>6. /\ Part((R \o I) \o L, SRL, (1 + 2) + 1)
      /\ Members((R \o I) \o L) = Members(R \o I) \cup Members(L)
    <2>1. \A s \in SRI, t \in SL : Rank[s] < Rank[t] BY DEF Rank, Stage
    <2>2. Part(L, SL, 1) BY <1>2
    <2> DEFINE c == R \o I
    <2>3. Part(c, SRI, 1 + 2) BY <1>5
    <2> HIDE DEF R, L, c, SRI, SL
    <2>4. Part(c \o L, SRI \cup SL, (1 + 2) + 1) /\ Members(c \o L) = Members(c) \cup Members(L)
        BY <1>0, <2>1, <2>2, <2>3, PartConcat
    <2> QED BY <2>4 DEF c
<1>7. /\ Part(((R \o I) \o L) \o O, SRL \cup SO, ((1 + 2) + 1) + 2)
      /\ Members(((R \o I) \o L) \o O) = Members((R \o I) \o L) \cup Members(O)
    <2>1. \A s \in SRL, t \in SO : Rank[s] < Rank[t] BY DEF Rank, Stage
    <2> DEFINE c == (R \o I) \o L
    <2>2. Part(c, SRL, (1 + 2) + 1) BY <1>6
    <2> HIDE DEF R, L, c, SRL, SO
    <2>3. Part(c \o O, SRL \cup SO, ((1 + 2) + 1) + 2) /\ Members(c \o O) = Members(c) \cup Members(O)
        BY <1>0, <1>4, <2>1, <2>2, PartConcat
    <2> QED BY <2>3 DEF c
<1>8. FullChain(e) = ((R \o I) \o L) \o O BY DEF FullChain, I, O
<1>9. ((1 + 2) + 1) + 2 = 6 OBVIOUS
<1>10. SRL \cup SO = Stage BY DEF Stage
<1>11. Members(FullChain(e)) = {"remoteEdge"} \cup Members(I) \cup {"localEdge"} \cup Members(O)
    BY <1>1, <1>2, <1>5, <1>6, <1>7, <1>8
<1>12. "inCiphering" \notin Members(O) /\ "outCiphering" \notin Members(I)
    BY <1>3, <1>4 DEF Part
<1> HIDE DEF R, L
<1> QED BY <1>3, <1>4, <1>7, <1>8, <1>9, <1>10, <1>11, <1>12

\* Whatever buildChain gets to, is a ring or the beginning of one, and it gets
\* to an edge only if its interface is set.
LEMMA ReachedShape ==
    ASSUME NEW e
    PROVE  /\ Part(Reached(e), Stage, 6)
           /\ "remoteEdge" \in Members(Reached(e)) => remote # NoIface
           /\ "localEdge" \in Members(Reached(e)) => local # NoIface
<1> DEFINE I == InputStages(e.in)
           SI == {"inCiphering", "inCutting", "inCompression"}
           SR == {"remoteEdge"}
           R == <<"remoteEdge">>
<1>1. CASE BuildError(e) \in {"BadRequirements", "MissingRemoteEdge"}
    <2>1. Reached(e) = <<>> BY <1>1 DEF Reached
    <2> QED BY <2>1, OrderedEmpty DEF Part
<1>2. CASE BuildError(e) = "MissingLocalEdge"
    <2>1. Reached(e) = R \o I BY <1>2 DEF Reached
    <2>2. remote # NoIface BY <1>2 DEF BuildError
    <2>3. Part(R, SR, 1) BY OrderedSingle DEF Part, Stage
    <2>4. Part(I, SI, 2) BY InputStagesShape
    <2>5. \A s \in SR, t \in SI : Rank[s] < Rank[t] BY DEF Rank, Stage
    <2>6. 1 \in Nat /\ 2 \in Nat OBVIOUS
    <2>7. Part(R \o I, SR \cup SI, 1 + 2)
        <3> HIDE DEF R, I, SR, SI
        <3> QED BY <2>3, <2>4, <2>5, <2>6, PartConcat
    <2>8. SR \cup SI \subseteq Stage /\ "localEdge" \notin SR \cup SI BY DEF Stage
    <2> HIDE DEF R, I, SR, SI
    <2> QED BY <2>1, <2>2, <2>7, <2>8 DEF Part
<1>3. CASE BuildError(e) = "none"
    <2>1. Reached(e) = FullChain(e) BY <1>3 DEF Reached
    <2>2. remote # NoIface /\ local # NoIface BY <1>3 DEF BuildError
    <2> QED BY <2>1, <2>2, FullChainShape
<1>4. BuildError(e) \in {"BadRequirements", "MissingRemoteEdge", "MissingLocalEdge", "none"}
    BY DEF BuildError
<1> QED BY <1>1, <1>2, <1>3, <1>4

-----------------------------------------------------------------------------
(* The inductive invariant.                                                *)

\* The ring may carry data: the protocol works or is about to.
Live == state = "work" \/ starting

\* An edge object whose interface has not been set anew speaks to the one set.
EdgesKnown ==
    /\ "remoteEdge" \notin changing => obj["remoteEdge"] \in {"absent", remote}
    /\ "localEdge" \notin changing => obj["localEdge"] \in {"absent", local}

RingGood ==
    /\ eff = Effective(remoteOut) /\ BuildError(eff) = "none"
    /\ chain = FullChain(eff)
    /\ \A i \in 1..Len(chain) : obj[chain[i]] # "absent" /\ idx[chain[i]] = i - 1
    /\ obj["remoteEdge"] = remote /\ obj["localEdge"] = local
    /\ "inCiphering" \in Members(chain) => handshake
    /\ flags = {idx[s] : s \in output \cap Members(chain)}

IInv ==
    /\ TypeOK
    /\ ~(state = "work" /\ starting)
    /\ edge = "work" <=> Live
    /\ EdgesKnown
    /\ Live => changing = {} /\ RingGood

\* What the construction of a ring leaves behind.
LEMMA PushAllTyped ==
    ASSUME TypeOK, NEW rOut, rOut \subseteq ReqBits, NEW out, out \subseteq Stage,
           PushAll(rOut, out)
    PROVE  /\ SetupOf' \in Setup
           /\ chain' \in Seq(Stage) /\ flags' \subseteq 0..5 /\ output' \subseteq Stage
           /\ obj' \in [Stage -> Built] /\ idx' \in [Stage -> 0..5]
           /\ handshake' \in BOOLEAN
<1> DEFINE e == Effective(rOut)
           c == Reached(e)
<1>1. e.in \subseteq ReqBits /\ e.out \subseteq ReqBits BY DEF TypeOK, Effective, Setup
<1>2. eff' = e /\ chain' = c BY DEF PushAll
<1>3. Part(c, Stage, 6) /\ ("remoteEdge" \in Members(c) => remote # NoIface)
                       /\ ("localEdge" \in Members(c) => local # NoIface)
    BY ReachedShape
<1> HIDE DEF e, c
<1>4. SetupOf' \in Setup BY <1>1, <1>2 DEF SetupOf, Setup
<1>5. \A s \in Members(c) : IndexIn(s, c) \in 0..5
    <2> SUFFICES ASSUME NEW i \in 1..Len(c) PROVE IndexIn(c[i], c) \in 0..5
        BY DEF Members
    <2>1. IndexIn(c[i], c) = i - 1 BY <1>3, PositionUnique DEF Part
    <2> QED BY <2>1, <1>3 DEF Part
<1>6. flags' \subseteq 0..5
    <2>1. flags' = FlagsOf(c, out) BY DEF PushAll, c, e
    <2> QED BY <2>1, <1>5 DEF FlagsOf
<1>7. idx' \in [Stage -> 0..5]
    <2>1. idx' = [s \in Stage |-> IF s \in Members(c) THEN IndexIn(s, c) ELSE idx[s]]
        BY DEF PushAll, c, e
    <2> QED BY <2>1, <1>5 DEF TypeOK
<1>8. \A s \in Members(c) : Arguments(s, e) \in Built
    <2>1. ASSUME NEW s \in Members(c) PROVE Arguments(s, e) \in Built
        <3>1. CASE s = "remoteEdge" BY <3>1, <1>3 DEF Arguments, Built, TypeOK
        <3>2. CASE s = "localEdge" BY <3>2, <1>3 DEF Arguments, Built, TypeOK
        <3>3. CASE s = "inCutting" BY <3>3 DEF Arguments, Built
        <3>4. CASE s = "outCutting" BY <3>4 DEF Arguments, Built
        <3>5. CASE s \notin {"remoteEdge", "localEdge", "inCutting", "outCutting"}
            BY <3>5 DEF Arguments, Built
        <3> QED BY <3>1, <3>2, <3>3, <3>4, <3>5
    <2> QED BY <2>1
<1>9. obj' \in [Stage -> Built]
    <2>1. obj' = [s \in Stage |-> IF s \in Members(c) /\ ~Kept(s) THEN Arguments(s, e) ELSE obj[s]]
        BY DEF PushAll, c, e
    <2> QED BY <2>1, <1>8 DEF TypeOK
<1>10. output' \subseteq Stage BY DEF PushAll
<1>11. handshake' \in BOOLEAN BY DEF PushAll, TypeOK
<1> QED BY <1>2, <1>3, <1>4, <1>6, <1>7, <1>9, <1>10, <1>11 DEF Part, Ordered

LEMMA PushAllEdges ==
    ASSUME TypeOK, EdgesKnown, NEW rOut, NEW out, PushAll(rOut, out)
    PROVE  /\ "remoteEdge" \notin changing => obj'["remoteEdge"] \in {"absent", remote}
           /\ "localEdge" \notin changing => obj'["localEdge"] \in {"absent", local}
<1> DEFINE e == Effective(rOut)
           c == Reached(e)
<1>1. obj' = [s \in Stage |-> IF s \in Members(c) /\ ~Kept(s) THEN Arguments(s, e) ELSE obj[s]]
    BY DEF PushAll
<1> HIDE DEF e, c
<1>2. Arguments("remoteEdge", e) = remote /\ Arguments("localEdge", e) = local
    BY DEF Arguments
<1>3. "remoteEdge" \in Stage /\ "localEdge" \in Stage BY DEF Stage
<1> QED BY <1>1, <1>2, <1>3 DEF EdgesKnown

\* A ring built without an error is good.
LEMMA PushAllRing ==
    ASSUME TypeOK, EdgesKnown, NEW rOut, rOut \subseteq ReqBits, NEW out, out \subseteq Stage,
           PushAll(rOut, out), BuildError(Effective(rOut)) = "none",
           remoteOut' = rOut, UNCHANGED params
    PROVE  RingGood'
<1> DEFINE e == Effective(rOut)
           c == FullChain(e)
<1>0. BuildError(e) = "none" OBVIOUS
<1>1. remote # NoIface /\ local # NoIface /\ remote \in Iface /\ local \in Iface
    BY <1>0 DEF BuildError, TypeOK
<1>2. Reached(e) = c BY <1>0 DEF Reached
<1>3. /\ Part(c, Stage, 6) /\ {"remoteEdge", "localEdge"} \subseteq Members(c)
      /\ "inCiphering" \in Members(c) <=> ciphering \subseteq e.in
    BY FullChainShape
<1>4. /\ eff' = e /\ chain' = c
      /\ flags' = FlagsOf(c, out)
      /\ obj' = [s \in Stage |-> IF s \in Members(c) /\ ~Kept(s) THEN Arguments(s, e) ELSE obj[s]]
      /\ idx' = [s \in Stage |-> IF s \in Members(c) THEN IndexIn(s, c) ELSE idx[s]]
      /\ output' = out \ {s \in Members(c) : ~Kept(s)}
      /\ handshake' = (handshake \/ ciphering \subseteq e.in)
    BY <1>0, <1>2 DEF PushAll
<1>5. eff' = Effective(remoteOut)' /\ BuildError(eff)' = "none"
    <2>1. Effective(remoteOut)' = e BY DEF Effective, params
    <2>2. BuildError(eff)' = BuildError(e) BY <1>4 DEF BuildError, params
    <2> QED BY <2>1, <2>2, <1>0, <1>4
<1>6. FullChain(eff)' = c
    <2>1. FullChain(eff)' = FullChain(eff') BY DEF FullChain, InputStages, OutputStages
    <2> QED BY <2>1, <1>4
<1> HIDE DEF e, c
<1>7. \A s \in Members(c) : s \in Stage /\ obj'[s] # "absent"
    <2>1. ASSUME NEW s \in Members(c) PROVE s \in Stage /\ obj'[s] # "absent"
        <3>1. s \in Stage BY <1>3 DEF Part
        <3>2. Arguments(s, e) # "absent"
            <4>1. CASE s = "remoteEdge" BY <4>1, <1>1, IfaceAssumption DEF Arguments
            <4>2. CASE s = "localEdge" BY <4>2, <1>1, IfaceAssumption DEF Arguments
            <4>3. CASE s \in {"inCutting", "outCutting"} BY <4>3 DEF Arguments
            <4>4. CASE s \notin {"remoteEdge", "localEdge", "inCutting", "outCutting"}
                BY <4>4 DEF Arguments
            <4> QED BY <4>1, <4>2, <4>3, <4>4
        <3> QED BY <3>1, <3>2, <1>4 DEF Kept
    <2> QED BY <2>1
<1>8. \A i \in 1..Len(c) : c[i] \in Members(c) BY DEF Members
<1>9. \A i \in 1..Len(c) : idx'[c[i]] = i - 1
    <2>1. \A i \in 1..Len(c) : IndexIn(c[i], c) = i - 1 BY <1>3, PositionUnique DEF Part
    <2> QED BY <2>1, <1>4, <1>7, <1>8
<1>10. obj'["remoteEdge"] = remote /\ obj'["localEdge"] = local
    <2>1. Arguments("remoteEdge", e) = remote /\ Arguments("localEdge", e) = local
        BY DEF Arguments
    <2>2. "remoteEdge" \in Stage /\ "localEdge" \in Stage BY DEF Stage
    <2> QED BY <2>1, <2>2, <1>3, <1>4 DEF EdgesKnown, Kept
<1>11. flags' = {idx'[s] : s \in output' \cap Members(c)}
    <2>1. \A s \in Members(c) : idx'[s] = IndexIn(s, c) BY <1>4, <1>7
    <2>2. {s \in Members(c) : s \in out /\ Kept(s)} = output' \cap Members(c) BY <1>4
    <2>3. flags' = {IndexIn(s, c) : s \in output' \cap Members(c)}
        BY <1>4, <2>2 DEF FlagsOf
    <2> QED BY <2>1, <2>3
<1>12. Members(chain)' = Members(c) BY <1>4 DEF Members
<1> QED BY <1>3, <1>4, <1>5, <1>6, <1>7, <1>8, <1>9, <1>10, <1>11, <1>12 DEF RingGood, params

-----------------------------------------------------------------------------
(* Flags and outputs.                                                      *)

\* A good ring that is left alone stays good as long as its flags do.
LEMMA RingStays ==
    ASSUME RingGood, UNCHANGED <<params, ring, handshake>>,
           flags' = {idx[s] : s \in output' \cap Members(chain)}
    PROVE  RingGood'
<1>1. /\ req' = req /\ remote' = remote /\ local' = local /\ remoteOut' = remoteOut
      /\ eff' = eff /\ obj' = obj /\ idx' = idx /\ chain' = chain /\ handshake' = handshake
    BY DEF params, ring
<1>2. Effective(remoteOut)' = Effective(remoteOut) BY <1>1 DEF Effective
<1>3. BuildError(eff)' = BuildError(eff) BY <1>1 DEF BuildError
<1>4. FullChain(eff)' = FullChain(eff) BY <1>1 DEF FullChain, InputStages, OutputStages
<1>5. Members(chain)' = Members(chain) BY <1>1 DEF Members
<1> QED BY <1>1, <1>2, <1>3, <1>4, <1>5 DEF RingGood

\* In a good ring a stage is found by its index.
LEMMA RingIndex ==
    ASSUME TypeOK, RingGood, NEW s \in Members(chain)
    PROVE  /\ s \in Stage /\ idx[s] \in 0..(Len(chain) - 1) /\ chain[idx[s] + 1] = s
           /\ obj[s] # "absent"
<1>1. PICK i \in 1..Len(chain) : s = chain[i] BY DEF Members
<1>2. idx[s] = i - 1 /\ obj[s] # "absent" BY <1>1 DEF RingGood
<1>3. chain \in Seq(Stage) BY DEF TypeOK
<1>4. Len(chain) \in Nat BY <1>3
<1>5. chain[i] \in Stage BY <1>3
<1>6. i \in Int /\ (i - 1) + 1 = i BY <1>4
<1> QED BY <1>1, <1>2, <1>4, <1>5, <1>6

LEMMA LowestFlag ==
    ASSUME flags \subseteq 0..5, flags # {}
    PROVE  Lowest \in flags
<1>1. \E i \in flags : \A j \in flags : i <= j
    <2>1. CASE 0 \in flags BY <2>1
    <2>2. CASE 0 \notin flags /\ 1 \in flags BY <2>2
    <2>3. CASE 0 \notin flags /\ 1 \notin flags /\ 2 \in flags BY <2>3
    <2>4. CASE 0 \notin flags /\ 1 \notin flags /\ 2 \notin flags /\ 3 \in flags BY <2>4
    <2>5. CASE 0 \notin flags /\ 1 \notin flags /\ 2 \notin flags /\ 3 \notin flags /\ 4 \in flags
        BY <2>5
    <2>6. CASE flags \subseteq {5}
        <3>1. flags = {5} BY <2>6
        <3> QED BY <3>1
    <2> QED BY <2>1, <2>2, <2>3, <2>4, <2>5, <2>6
<1> QED BY <1>1 DEF Lowest

\* A turn of the pump takes the output of a stage of the ring to a stage of the
\* ring, which may put out itself or, deciphering, have the encipherer put out.
LEMMA PumpTurn ==
    ASSUME TypeOK, RingGood, Turn
    PROVE  /\ Giver \in Members(chain) /\ Giver \in output /\ idx[Giver] = Lowest
           /\ Taker \in Members(chain) /\ MayGain(Taker) \subseteq Members(chain)
<1>1. Lowest \in flags BY LowestFlag DEF Turn, TypeOK
<1>2. PICK s \in output \cap Members(chain) : Lowest = idx[s] BY <1>1 DEF RingGood
<1>3. idx[s] \in 0..(Len(chain) - 1) /\ chain[idx[s] + 1] = s BY <1>2, RingIndex
<1>4. Giver = s BY <1>2, <1>3 DEF Giver
<1>5. Len(chain) \in Nat BY DEF TypeOK
<1>6. Taker \in Members(chain)
    <2>1. CASE Lowest + 1 = Len(chain)
        <3>1. 1 \in 1..Len(chain) /\ Taker = chain[1] BY <2>1, <1>2, <1>3, <1>5 DEF Taker
        <3> QED BY <3>1 DEF Members
    <2>2. CASE Lowest + 1 # Len(chain)
        <3>1. Lowest + 2 \in 1..Len(chain) /\ Taker = chain[Lowest + 2]
            BY <2>2, <1>2, <1>3, <1>5 DEF Taker
        <3> QED BY <3>1 DEF Members
    <2> QED BY <2>1, <2>2
<1>7. "inCiphering" \in Members(chain) => "outCiphering" \in Members(chain)
    <2>1. eff.in \cap ciphering = eff.out \cap ciphering BY DEF RingGood, BuildError
    <2>2. ciphering \subseteq eff.in => ciphering \subseteq eff.out BY <2>1
    <2>3. chain = FullChain(eff) BY DEF RingGood
    <2> QED BY <2>2, <2>3, FullChainShape
<1>8. MayGain(Taker) \subseteq Members(chain)
    <2>1. CASE Taker = "remoteEdge" BY <2>1 DEF MayGain
    <2>2. CASE Taker = "localEdge" BY <2>2, <1>6 DEF MayGain
    <2>3. CASE Taker = "inCiphering" BY <2>3, <1>6, <1>7 DEF MayGain
    <2>4. CASE Taker \notin {"remoteEdge", "localEdge", "inCiphering"} BY <2>4, <1>6 DEF MayGain
    <2> QED BY <2>1, <2>2, <2>3, <2>4
<1> QED BY <1>2, <1>4, <1>6, <1>8

\* After such a turn the flags are again those of the stages with output.
LEMMA FlagsPumped ==
    ASSUME TypeOK, RingGood, Turn, NEW g \in SUBSET Members(chain)
    PROVE  Announce(flags \ {Lowest}, g)
               = {idx[s] : s \in ((output \ {Giver}) \cup g) \cap Members(chain)}
<1>1. Giver \in Members(chain) /\ Giver \in output /\ idx[Giver] = Lowest BY PumpTurn
<1>2. \A s, t \in Members(chain) : idx[s] = idx[t] => s = t BY RingIndex
<1>3. flags = {idx[s] : s \in output \cap Members(chain)} BY DEF RingGood
<1>4. flags \ {Lowest} = {idx[s] : s \in (output \ {Giver}) \cap Members(chain)}
    BY <1>1, <1>2, <1>3
<1> QED BY <1>4 DEF Announce

\* A stage of the ring that announces output is flagged.
LEMMA FlagsAnnounced ==
    ASSUME RingGood, NEW t \in Members(chain)
    PROVE  Announce(flags, {t}) = {idx[s] : s \in (output \cup {t}) \cap Members(chain)}
BY DEF RingGood, Announce

LEMMA AnnounceTyped ==
    ASSUME TypeOK, NEW f \in SUBSET (0..5), NEW g \in SUBSET Stage
    PROVE  Announce(f, g) \subseteq 0..5
BY DEF Announce, TypeOK

LEMMA EdgesInRing ==
    ASSUME RingGood
    PROVE  {"remoteEdge", "localEdge"} \subseteq Members(chain)
BY FullChainShape DEF RingGood

-----------------------------------------------------------------------------
(* The invariant of the protocol.                                          *)

LEMMA InitIInv == Init => IInv
<1> SUFFICES ASSUME Init PROVE IInv OBVIOUS
<1>1. TypeOK
    <2>1. state \in State /\ edge \in State BY DEF Init, State
    <2>2. {remote, local} \subseteq Iface \cup {NoIface} BY DEF Init
    <2>3. req \in Setup /\ SetupOf \in Setup BY DEF Init, Setup, SetupOf
    <2>4. /\ remoteOut \subseteq ReqBits /\ flags \subseteq 0..5 /\ output \subseteq Stage
          /\ auto \in {"none", "instantly", "delayed"}
          /\ changing \subseteq {"remoteEdge", "localEdge"}
        BY DEF Init
    <2>5. obj \in [Stage -> Built] BY DEF Init, Built
    <2>6. idx \in [Stage -> 0..5] BY DEF Init
    <2>7. chain \in Seq(Stage) BY DEF Init
    <2>8. {pumping, ticker, handshake, starting} \subseteq BOOLEAN BY DEF Init
    <2> QED BY <2>1, <2>2, <2>3, <2>4, <2>5, <2>6, <2>7, <2>8 DEF TypeOK
<1>2. ~Live /\ edge # "work" /\ EdgesKnown BY DEF Init, Live, EdgesKnown
<1> QED BY <1>1, <1>2 DEF IInv, Live

\* A step that leaves the ring and the parameters alone.
LEMMA RingAlone ==
    ASSUME IInv, TypeOK', UNCHANGED <<params, changing, ring, handshake>>,
           ~(state' = "work" /\ starting'), edge' = "work" <=> Live',
           Live' => Live /\ flags' = {idx[s] : s \in output' \cap Members(chain)}
    PROVE  IInv'
<1>1. EdgesKnown' BY DEF IInv, EdgesKnown, params, ring
<1>2. Live' => changing' = {} /\ RingGood'
    BY RingStays DEF IInv
<1> QED BY <1>1, <1>2 DEF IInv

\* A step after which the protocol neither works nor is about to.
LEMMA NotLive ==
    ASSUME IInv, TypeOK', EdgesKnown', ~Live', edge' # "work"
    PROVE  IInv'
BY DEF IInv, Live

\* What updateAutoPumping and the like leave behind.
LEMMA AutoTyped ==
    ASSUME TypeOK, NEW s, NEW m, UpdateAutoPumping(s, m)
    PROVE  pumping' \in BOOLEAN /\ ticker' \in BOOLEAN
BY DEF UpdateAutoPumping, TypeOK

LEMMA FailTyped ==
    ASSUME TypeOK, NEW e \in State, Fail(e)
    PROVE  /\ state' = "fail" /\ edge' \in State /\ pumping' \in BOOLEAN /\ ticker' \in BOOLEAN
           /\ e # "work" \/ state # "fail" => edge' # "work"
<1>1. CASE state = "fail" BY <1>1 DEF Fail, TypeOK
<1>2. CASE state # "fail"
    <2>1. state' = "fail" /\ Stop("fail", e) BY <1>2 DEF Fail
    <2>2. edge' = IF e = "work" THEN "pause" ELSE e BY <2>1 DEF Stop
    <2>3. pumping' \in BOOLEAN /\ ticker' \in BOOLEAN BY <2>1, AutoTyped DEF Stop
    <2> QED BY <2>1, <2>2, <2>3 DEF State
<1> QED BY <1>1, <1>2

LEMMA PauseTyped ==
    ASSUME TypeOK, NEW e \in State, Pause(e)
    PROVE  /\ state' \in State /\ state' # "work"
           /\ edge' \in State /\ pumping' \in BOOLEAN /\ ticker' \in BOOLEAN
           /\ e # "work" \/ state = "work" => edge' # "work"
<1>1. CASE state # "work" BY <1>1 DEF Pause, TypeOK
<1>2. CASE state = "work"
    <2>1. state' = "pause" /\ Stop("pause", e) BY <1>2 DEF Pause
    <2>2. edge' = IF e = "work" THEN "pause" ELSE e BY <2>1 DEF Stop
    <2>3. pumping' \in BOOLEAN /\ ticker' \in BOOLEAN BY <2>1, AutoTyped DEF Stop
    <2> QED BY <2>1, <2>2, <2>3 DEF State
<1> QED BY <1>1, <1>2

-----------------------------------------------------------------------------
(* The setters.                                                            *)

LEMMA SetterKeeps ==
    ASSUME IInv, MaySet, NEW c \in SUBSET {"remoteEdge", "localEdge"}, ParamsChanged(c),
           remote' \in Iface \cup {NoIface}, local' \in Iface \cup {NoIface}, req' \in Setup,
           remote' # remote => "remoteEdge" \in c, local' # local => "localEdge" \in c
    PROVE  IInv'
<1>0. TypeOK BY DEF IInv
<1>1. TypeOK'
    <2>1. chain' \in Seq(Stage) BY DEF ParamsChanged
    <2>2. ticker' \in BOOLEAN /\ handshake' \in BOOLEAN BY DEF ParamsChanged
    <2>3. changing' \subseteq {"remoteEdge", "localEdge"} BY <1>0 DEF ParamsChanged, TypeOK
    <2>4. UNCHANGED <<state, auto, remoteOut, eff, obj, idx, flags, pumping, output, edge, starting>>
        BY DEF ParamsChanged
    <2> QED BY <1>0, <2>1, <2>2, <2>3, <2>4 DEF TypeOK, SetupOf
<1>2. ~Live' /\ edge' # "work" BY DEF IInv, Live, MaySet, ParamsChanged
<1>3. EdgesKnown' BY DEF IInv, EdgesKnown, ParamsChanged
<1> QED BY <1>1, <1>2, <1>3, NotLive

LEMMA SettersKeep ==
    ASSUME IInv, SetRemoteEdge \/ SetLocalEdge \/ SetRequirements \/ SetAuth
    PROVE  IInv'
<1>0. TypeOK BY DEF IInv
<1>1. CASE SetRemoteEdge
    <2>1. /\ MaySet /\ ParamsChanged({"remoteEdge"})
          /\ remote' \in Iface /\ local' = local /\ req' = req
        BY <1>1 DEF SetRemoteEdge
    <2> QED BY <1>0, <2>1, SetterKeeps DEF TypeOK
<1>2. CASE SetLocalEdge
    <2>1. /\ MaySet /\ ParamsChanged({"localEdge"})
          /\ local' \in Iface /\ remote' = remote /\ req' = req
        BY <1>2 DEF SetLocalEdge
    <2> QED BY <1>0, <2>1, SetterKeeps DEF TypeOK
<1>3. CASE SetRequirements
    <2>1. /\ MaySet /\ ParamsChanged({})
          /\ local' = local /\ remote' = remote /\ req' \in Setups
        BY <1>3 DEF SetRequirements
    <2>2. req' \in Setup BY <2>1, SetupsAssumption
    <2> QED BY <1>0, <2>1, <2>2, SetterKeeps DEF TypeOK
<1>4. CASE SetAuth
    <2>1. /\ MaySet /\ ParamsChanged({})
          /\ local' = local /\ remote' = remote /\ req' = req
        BY <1>4 DEF SetAuth, params
    <2> QED BY <1>0, <2>1, SetterKeeps DEF TypeOK
<1> QED BY <1>1, <1>2, <1>3, <1>4

LEMMA AutoPumpingKeeps ==
    ASSUME IInv, SetAutoPumping
    PROVE  IInv'
<1>0. TypeOK BY DEF IInv
<1>1. PICK m \in AutoModes : auto' = m /\ UpdateAutoPumping(state, m) BY DEF SetAutoPumping
<1>2. pumping' \in BOOLEAN /\ ticker' \in BOOLEAN BY <1>0, <1>1, AutoTyped
<1>3. auto' \in {"none", "instantly", "delayed"} BY <1>1, ModesAssumption
<1>4. UNCHANGED <<state, params, changing, ring, flags, output, edge, handshake, starting>>
    BY DEF SetAutoPumping
<1>5. TypeOK' BY <1>0, <1>2, <1>3, <1>4 DEF TypeOK, SetupOf, params, ring
<1>6. Live' = Live BY <1>4 DEF Live
<1> QED BY <1>4, <1>5, <1>6, RingAlone DEF IInv, RingGood

-----------------------------------------------------------------------------
(* Data from the edges, and the pump.                                      *)

LEMMA PumpRequestTyped ==
    ASSUME TypeOK, InstantPumpRequested
    PROVE  pumping' \in BOOLEAN /\ ticker' \in BOOLEAN
BY DEF InstantPumpRequested, TypeOK

LEMMA RemoteInputKeeps ==
    ASSUME IInv, RemoteInput
    PROVE  IInv'
<1>0. TypeOK BY DEF IInv
<1>1. /\ output' = output \cup {"remoteEdge"} /\ flags' = Announce(flags, {"remoteEdge"})
      /\ UNCHANGED <<state, params, auto, changing, ring, edge, handshake, starting>>
    BY DEF RemoteInput
<1>2. pumping' \in BOOLEAN /\ ticker' \in BOOLEAN BY <1>0, PumpRequestTyped DEF RemoteInput
<1>3. "remoteEdge" \in Stage BY DEF Stage
<1>4. flags' \subseteq 0..5 BY <1>0, <1>1, <1>3, AnnounceTyped DEF TypeOK
<1>5. TypeOK' BY <1>0, <1>1, <1>2, <1>3, <1>4 DEF TypeOK, SetupOf, params, ring
<1>6. Live' = Live BY <1>1 DEF Live
<1>7. Live => flags' = {idx[s] : s \in output' \cap Members(chain)}
    BY <1>1, EdgesInRing, FlagsAnnounced DEF IInv
<1> QED BY <1>1, <1>5, <1>6, <1>7, RingAlone DEF IInv

LEMMA LocalWriteKeeps ==
    ASSUME IInv, LocalWrite
    PROVE  IInv'
<1>0. TypeOK BY DEF IInv
<1>1. /\ output' = output \cup {"localEdge"}
      /\ UNCHANGED <<state, params, auto, changing, ring, edge, handshake, starting>>
    BY DEF LocalWrite
<1>2. "localEdge" \in Stage BY DEF Stage
<1>3. /\ pumping' \in BOOLEAN /\ ticker' \in BOOLEAN /\ flags' \subseteq 0..5
      /\ edge = "work" => flags' = Announce(flags, {"localEdge"})
    <2>1. CASE edge = "work"
        <3>1. flags' = Announce(flags, {"localEdge"}) /\ InstantPumpRequested
            BY <2>1 DEF LocalWrite
        <3> QED BY <1>0, <1>2, <3>1, PumpRequestTyped, AnnounceTyped DEF TypeOK
    <2>2. CASE edge # "work" BY <1>0, <2>2 DEF LocalWrite, TypeOK
    <2> QED BY <2>1, <2>2
<1>5. TypeOK' BY <1>0, <1>1, <1>2, <1>3 DEF TypeOK, SetupOf, params, ring
<1>6. Live' = Live BY <1>1 DEF Live
<1>7. Live => flags' = {idx[s] : s \in output' \cap Members(chain)}
    BY <1>1, <1>3, EdgesInRing, FlagsAnnounced DEF IInv
<1> QED BY <1>1, <1>5, <1>6, <1>7, RingAlone DEF IInv

LEMMA PumpStepsKeep ==
    ASSUME IInv, Pump \/ Tick \/ PumpEnd \/ StartEnd
    PROVE  IInv'
<1>0. TypeOK BY DEF IInv
<1>1. CASE Pump \/ Tick \/ PumpEnd
    <2>1. /\ UNCHANGED <<state, params, auto, changing, ring, flags, output, edge, handshake, starting>>
          /\ pumping' \in BOOLEAN /\ ticker' \in BOOLEAN
        BY <1>0, <1>1 DEF Pump, Tick, PumpEnd, TypeOK
    <2>2. TypeOK' BY <1>0, <2>1 DEF TypeOK, SetupOf, params, ring
    <2>3. Live' = Live BY <2>1 DEF Live
    <2> QED BY <2>1, <2>2, <2>3, RingAlone DEF IInv, RingGood
<1>2. CASE StartEnd
    <2>1. /\ UNCHANGED <<params, auto, changing, ring, flags, output, edge, handshake>>
          /\ starting /\ starting' = FALSE /\ state' = "work" /\ UpdateAutoPumping("work", auto)
        BY <1>2 DEF StartEnd
    <2>2. pumping' \in BOOLEAN /\ ticker' \in BOOLEAN BY <1>0, <2>1, AutoTyped
    <2>3. TypeOK' BY <1>0, <2>1, <2>2 DEF TypeOK, SetupOf, params, ring, State
    <2>4. Live /\ Live' BY <2>1 DEF Live
    <2> QED BY <2>1, <2>3, <2>4, RingAlone DEF IInv, RingGood
<1> QED BY <1>1, <1>2

LEMMA TurnLive ==
    ASSUME IInv, Turn
    PROVE  /\ TypeOK /\ RingGood /\ changing = {} /\ ~starting /\ state = "work" /\ edge = "work"
           /\ Giver \in Members(chain) /\ Taker \in Members(chain) /\ flags \ {Lowest} \subseteq 0..5
           /\ MayGain(Taker) \subseteq Members(chain) /\ Members(chain) \subseteq Stage
<1>1. TypeOK /\ state = "work" /\ ~starting /\ changing = {} /\ RingGood /\ edge = "work"
    BY DEF IInv, Turn, Live
<1>2. Members(chain) \subseteq Stage BY <1>1, RingIndex
<1>3. flags \ {Lowest} \subseteq 0..5 BY <1>1 DEF TypeOK
<1> QED BY <1>1, <1>2, <1>3, PumpTurn

LEMMA PumpOnKeeps ==
    ASSUME IInv, PumpOn
    PROVE  IInv'
<1>0. /\ TypeOK /\ RingGood /\ Turn /\ Members(chain) \subseteq Stage
      /\ MayGain(Taker) \subseteq Members(chain) /\ flags \ {Lowest} \subseteq 0..5
    BY TurnLive DEF PumpOn
<1>1. PICK g \in SUBSET MayGain(Taker) :
        /\ output' = (output \ {Giver}) \cup g
        /\ flags' = Announce(flags \ {Lowest}, g)
        /\ ticker' = (ticker \/ (g # {} /\ auto = "delayed"))
    BY DEF PumpOn
<1>2. UNCHANGED <<state, params, auto, changing, ring, pumping, edge, handshake, starting>>
    BY DEF PumpOn
<1>3. g \in SUBSET Members(chain) /\ g \in SUBSET Stage BY <1>0
<1>4. flags' \subseteq 0..5 BY <1>0, <1>1, <1>3, AnnounceTyped
<1>5. output' \subseteq Stage BY <1>0, <1>1, <1>3 DEF TypeOK
<1>6. ticker' \in BOOLEAN BY <1>0, <1>1 DEF TypeOK
<1>7. TypeOK' BY <1>0, <1>2, <1>4, <1>5, <1>6 DEF TypeOK, SetupOf, params, ring
<1>8. flags' = {idx[s] : s \in output' \cap Members(chain)}
    BY <1>0, <1>1, <1>3, FlagsPumped
<1>9. Live' = Live BY <1>2 DEF Live
<1> QED BY <1>2, <1>7, <1>8, <1>9, RingAlone DEF IInv

LEMMA PumpFailsKeeps ==
    ASSUME IInv, PumpFails \/ MarkerRefused
    PROVE  IInv'
<1>0. /\ TypeOK /\ RingGood /\ Turn /\ Members(chain) \subseteq Stage
      /\ ~starting /\ state = "work" /\ edge = "work"
      /\ MayGain(Taker) \subseteq Members(chain) /\ flags \ {Lowest} \subseteq 0..5
    BY TurnLive DEF PumpFails, MarkerRefused
<1>1. PICK e \in State : Fail(e)
    BY <1>0 DEF PumpFails, MarkerRefused, State
<1>2. /\ state' = "fail" /\ edge' \in State /\ edge' # "work"
      /\ pumping' \in BOOLEAN /\ ticker' \in BOOLEAN
    BY <1>0, <1>1, FailTyped
<1>3. UNCHANGED <<params, auto, changing, ring, handshake, starting>>
    BY DEF PumpFails, MarkerRefused
<1>4. output' \subseteq Stage /\ flags' \subseteq 0..5
    <2>1. CASE PumpFails
        <3>1. PICK g \in SUBSET (MayGain(Taker) \ {"localEdge"}) :
                output' = (output \ {Giver}) \cup g /\ flags' = Announce(flags \ {Lowest}, g)
            BY <2>1 DEF PumpFails
        <3>2. g \in SUBSET Stage BY <1>0
        <3>3. flags' \subseteq 0..5 BY <1>0, <3>1, <3>2, AnnounceTyped
        <3> QED BY <1>0, <3>1, <3>2, <3>3 DEF TypeOK
    <2>2. CASE MarkerRefused BY <1>0, <2>2 DEF MarkerRefused, TypeOK
    <2> QED BY <2>1, <2>2
<1>5. state' \in State BY <1>2 DEF State
<1>6. TypeOK' BY <1>0, <1>2, <1>3, <1>4, <1>5 DEF TypeOK, SetupOf, params, ring
<1>7. ~Live' BY <1>0, <1>2, <1>3 DEF Live
<1>8. EdgesKnown' BY <1>3 DEF IInv, EdgesKnown, params, ring
<1> QED BY <1>2, <1>6, <1>7, <1>8, NotLive

-----------------------------------------------------------------------------
(* Building the ring, and what ends it.                                    *)

LEMMA RebuiltTyped ==
    ASSUME TypeOK, NEW c
    PROVE  RebuiltEdge(c) \in State /\ (RebuiltEdge(c) = "work" => edge = "work")
BY DEF RebuiltEdge, TypeOK, State

LEMMA StartKeeps ==
    ASSUME IInv, Start
    PROVE  IInv'
<1> DEFINE e == Effective(remoteOut)
<1>0. /\ TypeOK /\ EdgesKnown /\ edge # "work" /\ state # "work" /\ ~starting
      /\ remoteOut \subseteq ReqBits /\ output \subseteq Stage
    BY DEF IInv, Start, Live, TypeOK
<1>1. /\ PushAll(remoteOut, output)
      /\ changing' = IF BuildError(e) = "none" THEN {} ELSE changing
      /\ UNCHANGED <<params, auto, remoteOut>>
    BY DEF Start, BuildChain
<1>2. /\ SetupOf' \in Setup /\ handshake' \in BOOLEAN
      /\ chain' \in Seq(Stage) /\ flags' \subseteq 0..5 /\ output' \subseteq Stage
      /\ obj' \in [Stage -> Built] /\ idx' \in [Stage -> 0..5]
    BY <1>0, <1>1, PushAllTyped
<1>3. EdgesKnown'
    <2>1. /\ "remoteEdge" \notin changing => obj'["remoteEdge"] \in {"absent", remote}
          /\ "localEdge" \notin changing => obj'["localEdge"] \in {"absent", local}
        BY <1>0, <1>1, PushAllEdges
    <2>2. CASE BuildError(e) = "none"
        <3>1. RingGood' BY <1>0, <1>1, <2>2, PushAllRing
        <3> QED BY <1>1, <3>1 DEF RingGood, EdgesKnown
    <2>3. CASE BuildError(e) # "none"
        <3>1. changing' = changing BY <1>1, <2>3
        <3> QED BY <1>1, <2>1, <3>1 DEF EdgesKnown, params
    <2> QED BY <2>2, <2>3
<1>4. CASE BuildError(e) = "none"
    <2>1. /\ edge' = "work" /\ starting' = TRUE /\ ticker' = FALSE
          /\ UNCHANGED <<state, pumping>> /\ changing' = {}
        BY <1>1, <1>4 DEF Start
    <2>2. ticker' \in BOOLEAN /\ starting' \in BOOLEAN BY <2>1
    <2>3. edge' \in State BY <2>1 DEF State
    <2>4. TypeOK' BY <1>0, <1>1, <1>2, <2>1, <2>2, <2>3 DEF TypeOK, params
    <2>5. RingGood' BY <1>0, <1>1, <1>4, PushAllRing
    <2>6. Live' /\ edge' = "work" /\ state' # "work" BY <1>0, <2>1 DEF Live
    <2> QED BY <1>3, <2>1, <2>4, <2>5, <2>6 DEF IInv
<1>5. CASE BuildError(e) # "none"
    <2>1. PICK f : f = RebuiltEdge(Reached(e)) OBVIOUS
    <2>2. f \in State /\ f # "work" BY <1>0, <2>1, RebuiltTyped
    <2>3. Fail(f) /\ starting' = starting BY <1>5, <2>1 DEF Start
    <2>4. /\ state' = "fail" /\ edge' \in State /\ edge' # "work"
          /\ pumping' \in BOOLEAN /\ ticker' \in BOOLEAN
        BY <1>0, <2>2, <2>3, FailTyped
    <2>5. state' \in State BY <2>4 DEF State
    <2>6. changing' = changing BY <1>1, <1>5
    <2>7. TypeOK' BY <1>0, <1>1, <1>2, <2>3, <2>4, <2>5, <2>6 DEF TypeOK, params
    <2>8. ~Live' BY <1>0, <2>3, <2>4 DEF Live
    <2> QED BY <1>3, <2>4, <2>7, <2>8, NotLive
<1> QED BY <1>4, <1>5

LEMMA EdgesGoneKeep ==
    ASSUME IInv, ~DropInStart, RemoteEdgeGone \/ LocalEdgeGone
    PROVE  IInv'
<1>0. TypeOK BY DEF IInv
<1>1. PICK s \in {"remoteEdge", "localEdge"}, e \in State :
        /\ obj' = [obj EXCEPT ![s] = "absent"] /\ output' = output \ {s}
        /\ Pause(e) /\ e \in {edge, "null"}
    BY <1>0 DEF RemoteEdgeGone, LocalEdgeGone, TypeOK, State
<1>2. /\ UNCHANGED <<params, auto, changing, remoteOut, eff, idx, chain, flags, handshake, starting>>
      /\ ~starting
    BY DEF RemoteEdgeGone, LocalEdgeGone, MayDrop
<1>3. /\ state' \in State /\ state' # "work"
      /\ edge' \in State /\ pumping' \in BOOLEAN /\ ticker' \in BOOLEAN
      /\ e # "work" \/ state = "work" => edge' # "work"
    BY <1>0, <1>1, PauseTyped
<1>4. edge' # "work" BY <1>1, <1>2, <1>3 DEF IInv, Live
<1>5. "remoteEdge" \in Stage /\ "localEdge" \in Stage BY DEF Stage
<1>6. obj' \in [Stage -> Built] BY <1>0, <1>1, <1>5 DEF TypeOK, Built
<1>7. output' \subseteq Stage BY <1>0, <1>1 DEF TypeOK
<1>8. TypeOK' BY <1>0, <1>2, <1>3, <1>6, <1>7 DEF TypeOK, SetupOf, params
<1>9. EdgesKnown' BY <1>0, <1>1, <1>2, <1>5 DEF IInv, EdgesKnown, TypeOK, params
<1>10. ~Live' BY <1>2, <1>3 DEF Live
<1> QED BY <1>4, <1>8, <1>9, <1>10, NotLive

\* The marker of the peer.  A ring that is not rebuilt is the one that its
\* announcement calls for already.
LEMMA AdoptKeeps ==
    ASSUME IInv, Turn, NEW rOut \in SUBSET ReqBits, NEW g \in SUBSET MayGain(Taker),
           Adopt(rOut, g), UNCHANGED <<params, auto, starting>>
    PROVE  IInv'
<1> DEFINE e == Effective(rOut)
           out == (output \ {Giver}) \cup g
<1>0. /\ TypeOK /\ RingGood /\ EdgesKnown /\ changing = {} /\ Members(chain) \subseteq Stage
      /\ ~starting /\ state = "work" /\ edge = "work"
      /\ MayGain(Taker) \subseteq Members(chain) /\ flags \ {Lowest} \subseteq 0..5
    BY TurnLive DEF IInv
<1>1. remoteOut' = rOut BY DEF Adopt
<1>2. g \in SUBSET Members(chain) /\ g \in SUBSET Stage BY <1>0
<1>3. out \subseteq Stage BY <1>0, <1>2 DEF TypeOK
<1>4. CASE rOut = remoteOut \/ eff.in = rOut
    <2>1. /\ output' = out /\ flags' = Announce(flags \ {Lowest}, g)
          /\ ticker' = (ticker \/ (g # {} /\ auto = "delayed"))
          /\ UNCHANGED <<state, changing, eff, obj, idx, chain, pumping, edge, handshake>>
        BY <1>4 DEF Adopt
    <2>2. flags' \subseteq 0..5 BY <1>0, <1>2, <2>1, AnnounceTyped
    <2>3. ticker' \in BOOLEAN BY <1>0, <2>1 DEF TypeOK
    <2>4. TypeOK' BY <1>0, <1>1, <1>3, <2>1, <2>2, <2>3 DEF TypeOK, SetupOf, params
    <2>5. flags' = {idx[s] : s \in output' \cap Members(chain)}
        BY <1>0, <1>2, <2>1, FlagsPumped
    <2>6. eff = Effective(rOut)
        <3>1. eff = Effective(remoteOut) BY <1>0 DEF RingGood
        <3>2. eff.in = req.in \cup (req.opt \cap remoteOut) /\ eff.out = req.out
            BY <3>1 DEF Effective
        <3>3. req.in \cup (req.opt \cap rOut) = req.in \cup (req.opt \cap remoteOut)
            BY <1>4, <3>2
        <3> QED BY <3>1, <3>3 DEF Effective
    <2>7. RingGood'
        <3>1. Effective(remoteOut)' = Effective(rOut) BY <1>1 DEF Effective, params
        <3>2. BuildError(eff)' = BuildError(eff) BY <2>1 DEF BuildError, params
        <3>3. FullChain(eff)' = FullChain(eff) BY <2>1 DEF FullChain, InputStages, OutputStages
        <3>4. Members(chain)' = Members(chain) BY <2>1 DEF Members
        <3> QED BY <1>0, <2>1, <2>5, <2>6, <3>1, <3>2, <3>3, <3>4 DEF RingGood, params
    <2>8. EdgesKnown' BY <1>0, <2>1 DEF EdgesKnown, params
    <2>9. Live' /\ edge' = "work" BY <1>0, <2>1 DEF Live
    <2> QED BY <1>0, <2>1, <2>4, <2>7, <2>8, <2>9 DEF IInv
<1>5. CASE ~(rOut = remoteOut \/ eff.in = rOut)
    <2>1. /\ PushAll(rOut, out)
          /\ changing' = IF BuildError(e) = "none" THEN {} ELSE changing
        BY <1>5 DEF Adopt, BuildChain
    <2>2. changing' = {} BY <1>0, <2>1
    <2>3. /\ SetupOf' \in Setup /\ handshake' \in BOOLEAN
          /\ chain' \in Seq(Stage) /\ flags' \subseteq 0..5 /\ output' \subseteq Stage
          /\ obj' \in [Stage -> Built] /\ idx' \in [Stage -> 0..5]
        BY <1>0, <1>3, <2>1, PushAllTyped
    <2>4. EdgesKnown'
        <3>1. /\ obj'["remoteEdge"] \in {"absent", remote}
              /\ obj'["localEdge"] \in {"absent", local}
            BY <1>0, <2>1, PushAllEdges
        <3> QED BY <3>1 DEF EdgesKnown, params
    <2>5. CASE BuildError(e) = "none"
        <3>1. RebuiltEdge(Reached(e)) = edge
            BY <1>0, EdgesInRing, RingIndex DEF RebuiltEdge, Kept
        <3>2. /\ edge' = "work" /\ UpdateAutoPumping("work", auto) /\ state' = state
            BY <1>0, <1>5, <2>5, <3>1 DEF Adopt
        <3>3. pumping' \in BOOLEAN /\ ticker' \in BOOLEAN BY <1>0, <3>2, AutoTyped
        <3>4. edge' \in State BY <3>2 DEF State
        <3>5. TypeOK' BY <1>0, <1>1, <2>2, <2>3, <3>2, <3>3, <3>4 DEF TypeOK, params
        <3>6. RingGood' BY <1>0, <1>1, <1>3, <2>1, <2>5, PushAllRing
        <3>7. Live' BY <1>0, <3>2 DEF Live
        <3> QED BY <1>0, <2>2, <2>4, <3>2, <3>5, <3>6, <3>7 DEF IInv
    <2>6. CASE BuildError(e) # "none"
        <3>1. PICK f : f = RebuiltEdge(Reached(e)) OBVIOUS
        <3>2. f \in State BY <1>0, <3>1, RebuiltTyped
        <3>3. Fail(f) BY <1>5, <2>6, <3>1 DEF Adopt
        <3>4. /\ state' = "fail" /\ edge' \in State /\ edge' # "work"
              /\ pumping' \in BOOLEAN /\ ticker' \in BOOLEAN
            BY <1>0, <3>2, <3>3, FailTyped
        <3>5. state' \in State BY <3>4 DEF State
        <3>6. TypeOK' BY <1>0, <1>1, <2>2, <2>3, <3>4, <3>5 DEF TypeOK, params
        <3>7. ~Live' BY <1>0, <3>4 DEF Live
        <3> QED BY <2>4, <3>4, <3>6, <3>7, NotLive
    <2> QED BY <2>5, <2>6
<1> QED BY <1>4, <1>5

LEMMA MarkerKeeps ==
    ASSUME IInv, Marker
    PROVE  IInv'
<1>1. PICK rOut \in RemoteOuts : \E g \in SUBSET MayGain(Taker) : Adopt(rOut, g)
    BY DEF Marker
<1>2. rOut \in SUBSET ReqBits BY SetupsAssumption
<1>3. Turn /\ UNCHANGED <<params, auto, starting>> BY DEF Marker
<1> QED BY <1>1, <1>2, <1>3, AdoptKeeps

LEMMA NextIInv ==
    ASSUME IInv, ~DropInStart, [Next]_vars
    PROVE  IInv'
<1>1. CASE SetRemoteEdge \/ SetLocalEdge \/ SetRequirements \/ SetAuth BY <1>1, SettersKeep
<1>2. CASE SetAutoPumping BY <1>2, AutoPumpingKeeps
<1>3. CASE Start BY <1>3, StartKeeps
<1>4. CASE RemoteEdgeGone \/ LocalEdgeGone BY <1>4, EdgesGoneKeep
<1>5. CASE RemoteInput BY <1>5, RemoteInputKeeps
<1>6. CASE LocalWrite BY <1>6, LocalWriteKeeps
<1>7. CASE Pump \/ Tick \/ PumpEnd \/ StartEnd BY <1>7, PumpStepsKeep
<1>8. CASE PumpOn BY <1>8, PumpOnKeeps
<1>9. CASE PumpFails \/ MarkerRefused BY <1>9, PumpFailsKeeps
<1>10. CASE Marker BY <1>10, MarkerKeeps
<1>11. CASE UNCHANGED vars
    <2>1. UNCHANGED <<state, params, auto, changing, ring, flags, pumping, ticker, output, edge,
                      handshake, starting>>
        BY <1>11 DEF vars
    <2>2. TypeOK' BY <2>1 DEF IInv, TypeOK, SetupOf, params, ring
    <2>3. Live' = Live BY <2>1 DEF Live
    <2> QED BY <2>1, <2>2, <2>3, RingAlone DEF IInv, RingGood
<1> QED BY <1>1, <1>2, <1>3, <1>4, <1>5, <1>6, <1>7, <1>8, <1>9, <1>10, <1>11 DEF Next

-----------------------------------------------------------------------------
(* The theorems.                                                           *)

LEMMA InvariantHolds ==
    ASSUME ~DropInStart
    PROVE  Spec => []IInv
<1>1. Init => IInv BY InitIInv
<1>2. IInv /\ [Next]_vars => IInv' BY NextIInv
<1> QED BY <1>1, <1>2, PTL DEF Spec

\* The variables keep their types, and no index or flag is larger than a full
\* ring has.
THEOREM ProtocolTypeCorrect ==
    ASSUME ~DropInStart
    PROVE  Spec => []TypeOK
<1>1. IInv => TypeOK BY DEF IInv
<1> QED BY <1>1, InvariantHolds, PTL

\* While a protocol works, its ring is the one called for by its parameters and
\* the peer, complete and in order, and speaks to the edges set last: through
\* every order of setters, starts, failures and rebuilds under the pump.
THEOREM RingAlwaysSound ==
    ASSUME ~DropInStart
    PROVE  Spec => []RingSound
<1>1. IInv => RingSound BY DEF IInv, Live, RingGood, RingSound
<1> QED BY <1>1, InvariantHolds, PTL

\* What protocol.hpp:131 says of _chain holds as long as no user lets go of an
\* edge from within start(): the pump calls no stage that is gone.
THEOREM RingAlwaysLiving ==
    ASSUME ~DropInStart
    PROVE  Spec => []RingOfLiving
<1>1. IInv => RingOfLiving BY DEF IInv, Live, RingGood, RingOfLiving, Members
<1> QED BY <1>1, InvariantHolds, PTL

\* The pump is handed a stage exactly when it holds output, so no stage is given
\* an empty message and none is forgotten.
THEOREM FlagsAlwaysExact ==
    ASSUME ~DropInStart
    PROVE  Spec => []FlagsExact
<1>1. IInv => FlagsExact BY DEF IInv, Live, RingGood, FlagsExact
<1> QED BY <1>1, InvariantHolds, PTL

\* The users of the local edge see it work exactly while the protocol does.
THEOREM EdgeAlwaysFollows ==
    ASSUME ~DropInStart
    PROVE  Spec => []EdgeFollows
<1>1. IInv => EdgeFollows BY DEF IInv, Live, EdgeFollows
<1> QED BY <1>1, InvariantHolds, PTL

\* Output is pumped or the ticker runs; this needs no other invariant.
THEOREM NothingEverStranded == Spec => []NothingStranded
<1> DEFINE Served ==
        state = "work" /\ ~starting /\ flags # {} =>
            /\ auto = "instantly" => pumping
            /\ auto = "delayed" => pumping \/ ticker
<1>1. NothingStranded <=> Served
    <2>1. CASE auto = "instantly" BY <2>1 DEF NothingStranded
    <2>2. CASE auto = "delayed" BY <2>2 DEF NothingStranded
    <2>3. CASE auto \notin {"instantly", "delayed"} BY <2>3 DEF NothingStranded
    <2> QED BY <2>1, <2>2, <2>3
<1>2. Init => Served BY DEF Init
<1>3. Served /\ [Next]_vars => Served'
    <2> SUFFICES ASSUME Served, [Next]_vars PROVE Served' OBVIOUS
    <2>1. CASE SetRemoteEdge \/ SetLocalEdge \/ SetRequirements \/ SetAuth
        <3>1. state # "work" /\ state' = state
            BY <2>1 DEF SetRemoteEdge, SetLocalEdge, SetRequirements, SetAuth, MaySet, ParamsChanged
        <3> QED BY <3>1
    <2>2. CASE SetAutoPumping
        <3>1. UpdateAutoPumping(state, auto') /\ state' = state
            BY <2>2 DEF SetAutoPumping
        <3> QED BY <3>1 DEF UpdateAutoPumping
    <2>3. CASE Start
        <3>1. starting' \/ state' # "work"
            BY <2>3 DEF Start, Fail
        <3> QED BY <3>1
    <2>4. CASE StartEnd
        <3>1. UpdateAutoPumping("work", auto) /\ auto' = auto BY <2>4 DEF StartEnd
        <3> QED BY <3>1 DEF UpdateAutoPumping
    <2>5. CASE RemoteEdgeGone \/ LocalEdgeGone
        <3>1. state' # "work" BY <2>5 DEF RemoteEdgeGone, LocalEdgeGone, Pause
        <3> QED BY <3>1
    <2>6. CASE RemoteInput
        <3>1. InstantPumpRequested /\ auto' = auto /\ state' = state BY <2>6 DEF RemoteInput
        <3> QED BY <3>1 DEF InstantPumpRequested
    <2>7. CASE LocalWrite
        <3>1. auto' = auto /\ state' = state /\ starting' = starting BY <2>7 DEF LocalWrite
        <3>2. InstantPumpRequested \/ UNCHANGED <<flags, pumping, ticker>> BY <2>7 DEF LocalWrite
        <3> QED BY <3>1, <3>2 DEF InstantPumpRequested
    <2>8. CASE Pump \/ Tick
        <3>1. pumping' = TRUE BY <2>8 DEF Pump, Tick
        <3> QED BY <3>1
    <2>9. CASE PumpOn
        <3>1. pumping' = pumping /\ pumping BY <2>9 DEF PumpOn, Turn
        <3> QED BY <3>1
    <2>10. CASE PumpFails \/ MarkerRefused
        <3>1. state' = "fail" BY <2>10 DEF PumpFails, MarkerRefused, Fail
        <3> QED BY <3>1
    <2>11. CASE Marker
        <3>1. pumping BY <2>11 DEF Marker, Turn
        <3>2. state' = "fail" \/ (pumping' = (pumping \/ (auto = "instantly" /\ TRUE))) \/ pumping' = pumping
            BY <2>11 DEF Marker, Adopt, Fail, UpdateAutoPumping
        <3> QED BY <3>1, <3>2
    <2>12. CASE PumpEnd
        <3>1. (state # "work" \/ flags = {}) /\ state' = state /\ flags' = flags BY <2>12 DEF PumpEnd
        <3> QED BY <3>1
    <2>13. CASE UNCHANGED vars BY <2>13 DEF vars
    <2> QED BY <2>1, <2>2, <2>3, <2>4, <2>5, <2>6, <2>7, <2>8, <2>9, <2>10, <2>11, <2>12, <2>13
            DEF Next
<1> HIDE DEF Served
<1> QED BY <1>1, <1>2, <1>3, PTL DEF Spec

\* A ring rebuilt under the pump keeps the session keys, the state of the local
\* edge, and every stage that stays.
THEOREM SessionAlwaysKept ==
    ASSUME ~DropInStart
    PROVE  Spec => SessionKept
<1> DEFINE Keeps ==
        state = "work" /\ state' = "work" =>
            /\ handshake' = handshake /\ edge' = edge
            /\ \A s \in Members(chain) \cap Members(chain') : obj'[s] = obj[s]
<1>1. IInv /\ [Next]_vars => [Keeps]_vars
    <2> SUFFICES ASSUME IInv, Next, state = "work", state' = "work" PROVE Keeps
        BY DEF vars
    <2>0. ~starting BY DEF IInv
    <2>1. CASE SetRemoteEdge \/ SetLocalEdge \/ SetRequirements \/ SetAuth
        BY <2>1 DEF SetRemoteEdge, SetLocalEdge, SetRequirements, SetAuth, MaySet
    <2>2. CASE Start \/ StartEnd BY <2>0, <2>2 DEF Start, StartEnd
    <2>3. CASE RemoteEdgeGone \/ LocalEdgeGone
        BY <2>3 DEF RemoteEdgeGone, LocalEdgeGone, Pause
    <2>4. CASE PumpFails \/ MarkerRefused BY <2>4 DEF PumpFails, MarkerRefused, Fail
    <2>5. CASE SetAutoPumping \/ RemoteInput \/ LocalWrite \/ Pump \/ Tick \/ PumpOn \/ PumpEnd
        <3>1. UNCHANGED <<ring, edge, handshake>>
            BY <2>5 DEF SetAutoPumping, RemoteInput, LocalWrite, Pump, Tick, PumpOn, PumpEnd
        <3> QED BY <3>1 DEF ring
    <2>6. CASE Marker
        <3>1. PICK rOut \in RemoteOuts : \E g \in SUBSET MayGain(Taker) : Adopt(rOut, g)
            BY <2>6 DEF Marker
        <3>2. PICK g \in SUBSET MayGain(Taker) : Adopt(rOut, g) BY <3>1
        <3> DEFINE e == Effective(rOut)
                   out == (output \ {Giver}) \cup g
        <3>3. TypeOK /\ RingGood /\ changing = {} /\ handshake = TRUE
            BY <2>6, TurnLive DEF Marker, TypeOK
        <3>4. CASE rOut = remoteOut \/ eff.in = rOut BY <3>2, <3>4 DEF Adopt
        <3>5. CASE ~(rOut = remoteOut \/ eff.in = rOut)
            <4>1. PushAll(rOut, out) BY <3>2, <3>5 DEF Adopt, BuildChain
            <4>2. handshake' = TRUE BY <3>3, <4>1 DEF PushAll
            <4>3. \A s \in Members(chain) : s \in Stage /\ Kept(s) BY <3>3, RingIndex DEF Kept
            <4>4. \A s \in Members(chain) : obj'[s] = obj[s] BY <4>1, <4>3 DEF PushAll
            <4>5. BuildError(e) = "none" BY <2>6, <3>2, <3>5 DEF Adopt, Fail
            <4>6. RebuiltEdge(Reached(e)) = edge
                BY <3>3, <4>3, EdgesInRing DEF RebuiltEdge
            <4>7. edge' = edge BY <3>2, <3>5, <4>5, <4>6 DEF Adopt
            <4> QED BY <3>3, <4>2, <4>4, <4>7
        <3> QED BY <3>4, <3>5
    <2> QED BY <2>1, <2>2, <2>3, <2>4, <2>5, <2>6 DEF Next
<1>2. SessionKept <=> [][Keeps]_vars BY DEF SessionKept
<1> HIDE DEF Keeps
<1> QED BY <1>1, <1>2, InvariantHolds, PTL DEF Spec
=============================================================================
