---------------------------- MODULE StreamLemmas ----------------------------
(***************************************************************************)
(* Lemmas about what the models of stages build and take apart: joined     *)
(* sequences, sums, beginnings and rests.  Both FlattenSeq and Total are   *)
(* recursive functions, so what they do to sequences of any length needs   *)
(* induction.  The induction theorems of the library take an operator as   *)
(* a parameter, which the provers cannot instantiate; NaturalInduction and *)
(* SequenceInduction say the same of sets, and come from a set of          *)
(* intervals having a smallest one.                                        *)
(***************************************************************************)
EXTENDS Streams, SequenceTheorems, FiniteSetTheorems, WellFoundedInduction, TLAPS

\* Induction over the natural numbers.
LEMMA NaturalInduction ==
    ASSUME NEW S \in SUBSET Nat, 0 \in S, \A n \in S : n + 1 \in S
    PROVE  S = Nat
<1>1. SUFFICES ASSUME S # Nat PROVE FALSE OBVIOUS
<1> DEFINE T == {0..n : n \in Nat \ S}
<1>2. T \subseteq FiniteSubsetsOf(Nat) /\ T # {}
    <2>1. \A n \in Nat : 0..n \subseteq Nat /\ IsFiniteSet(0..n)
        BY FS_Interval
    <2>2. T # {} BY <1>1
    <2> QED BY <2>1, <2>2 DEF FiniteSubsetsOf
<1> HIDE DEF T
<1>3. PICK t \in T : \A u \in T : <<u, t>> \notin StrictSubsetOrdering(Nat)
    BY <1>2, FS_StrictSubsetOrderingWellFounded, WFMin
<1>4. PICK n \in Nat \ S : t = 0..n BY DEF T
<1>5. n # 0 /\ n - 1 \in Nat OBVIOUS
<1>6. n - 1 \in Nat \ S BY <1>5
<1>7. 0..(n - 1) \in T BY <1>6 DEF T
<1>8. 0..(n - 1) \subseteq 0..n /\ 0..(n - 1) # 0..n BY <1>5
<1>9. <<0..(n - 1), 0..n>> \in (SUBSET Nat) \X (SUBSET Nat)
    <2>1. 0..(n - 1) \subseteq Nat /\ 0..n \subseteq Nat BY <1>5
    <2> QED BY <2>1
<1>10. <<0..(n - 1), 0..n>> \in StrictSubsetOrdering(Nat)
    BY <1>8, <1>9 DEF StrictSubsetOrdering
<1> QED BY <1>3, <1>4, <1>7, <1>10

-----------------------------------------------------------------------------
(* FlattenSeq. *)

\* f joins the first n members of ss, one after the other.
Joins(f, ss, n) == f = [i \in 1..n |-> IF i = 1 THEN ss[i] ELSE f[i - 1] \o ss[i]]

\* Such an f, member by member.
LEMMA JoinsAt ==
    ASSUME NEW f, NEW ss, NEW n \in Nat, Joins(f, ss, n)
    PROVE  \A i \in 1..n : f[i] = IF i = 1 THEN ss[i] ELSE f[i - 1] \o ss[i]
BY DEF Joins

\* There is one for each n.
LEMMA JoinsExist ==
    ASSUME NEW ss, NEW n \in Nat
    PROVE  \E f : Joins(f, ss, n)
<1> DEFINE S == {k \in Nat : \E f : Joins(f, ss, k)}
<1>1. 0 \in S
    <2>1. Joins([i \in 1..0 |-> 0], ss, 0) BY DEF Joins
    <2> QED BY <2>1
<1>2. ASSUME NEW k \in S PROVE k + 1 \in S
    <2>1. PICK f : Joins(f, ss, k) OBVIOUS
    <2> DEFINE g == [i \in 1..(k + 1) |-> IF i = 1 THEN ss[i] ELSE f[i - 1] \o ss[i]]
    <2>2. ASSUME NEW i \in 1..(k + 1), i # 1 PROVE g[i - 1] = f[i - 1]
        <3>1. i - 1 \in 1..k /\ i - 1 \in 1..(k + 1) BY <2>2
        <3>2. \A j \in 1..k : f[j] = IF j = 1 THEN ss[j] ELSE f[j - 1] \o ss[j]
            BY <2>1 DEF Joins
        <3>3. g[i - 1] = IF i - 1 = 1 THEN ss[i - 1] ELSE f[i - 1 - 1] \o ss[i - 1] BY <3>1
        <3> HIDE DEF g
        <3> QED BY <3>1, <3>2, <3>3
    <2> HIDE DEF g
    <2>3. g = [i \in 1..(k + 1) |-> IF i = 1 THEN ss[i] ELSE g[i - 1] \o ss[i]]
        BY <2>2 DEF g
    <2>4. Joins(g, ss, k + 1) BY <2>3 DEF Joins
    <2> QED BY <2>4
<1> HIDE DEF S
<1>3. S = Nat
    <2>1. S \subseteq Nat BY DEF S
    <2> QED BY <1>1, <1>2, <2>1, NaturalInduction
<1> QED BY <1>3 DEF S

\* FlattenSeq is the last member of one.
LEMMA FlattenJoins ==
    ASSUME NEW ss, Len(ss) \in Nat \ {0}
    PROVE  \E f : Joins(f, ss, Len(ss)) /\ FlattenSeq(ss) = f[Len(ss)]
<1> DEFINE f == CHOOSE f : Joins(f, ss, Len(ss))
<1>1. Joins(f, ss, Len(ss)) BY JoinsExist
<1>2. FlattenSeq(ss) = f[Len(ss)] BY DEF FlattenSeq, Joins
<1> QED BY <1>1, <1>2

\* Nothing joined is nothing.
LEMMA FlattenEmpty == FlattenSeq(<<>>) = <<>>
BY DEF FlattenSeq

\* s and t agree up to k.
Same(s, t, k) == \A i \in 1..k : s[i] = t[i]

\* What joins sequences that agree up to k agrees up to k.
LEMMA JoinsAgree ==
    ASSUME NEW ss, NEW tt, NEW n \in Nat, NEW m \in Nat, NEW f, NEW g,
           Joins(f, ss, n), Joins(g, tt, m), NEW k \in Nat, k <= n, k <= m, Same(ss, tt, k)
    PROVE  Same(f, g, k)
<1> DEFINE S == {i \in Nat : i \in 1..k => f[i] = g[i]}
<1>1. 0 \in S OBVIOUS
<1>2. \A i \in 1..k : f[i] = (IF i = 1 THEN ss[i] ELSE f[i - 1] \o ss[i])
    <2>1. \A i \in 1..n : f[i] = IF i = 1 THEN ss[i] ELSE f[i - 1] \o ss[i] BY JoinsAt
    <2> QED BY <2>1
<1>3. \A i \in 1..k : g[i] = (IF i = 1 THEN tt[i] ELSE g[i - 1] \o tt[i])
    <2>1. \A i \in 1..m : g[i] = IF i = 1 THEN tt[i] ELSE g[i - 1] \o tt[i] BY JoinsAt
    <2> QED BY <2>1
<1>4. ASSUME NEW i \in S PROVE i + 1 \in S
    <2>1. SUFFICES ASSUME i + 1 \in 1..k PROVE f[i + 1] = g[i + 1] OBVIOUS
    <2>2. CASE i = 0 BY <2>1, <2>2, <1>2, <1>3 DEF Same
    <2>3. CASE i # 0
        <3>1. i \in 1..k /\ f[i] = g[i] BY <2>1, <2>3
        <3> QED BY <2>1, <2>3, <3>1, <1>2, <1>3 DEF Same
    <2> QED BY <2>2, <2>3
<1> HIDE DEF S
<1>5. S = Nat
    <2>1. S \subseteq Nat BY DEF S
    <2> QED BY <1>1, <1>4, <2>1, NaturalInduction
<1> QED BY <1>5 DEF S, Same

\* The last member comes last.
LEMMA FlattenAppend ==
    ASSUME NEW A, NEW ss \in Seq(Seq(A)), NEW s \in Seq(A)
    PROVE  FlattenSeq(Append(ss, s)) = FlattenSeq(ss) \o s
<1> DEFINE tt == Append(ss, s)
<1>1. /\ Len(ss) \in Nat /\ Len(tt) = Len(ss) + 1
      /\ \A i \in 1..Len(ss) : tt[i] = ss[i]
      /\ tt[Len(ss) + 1] = s
    BY AppendProperties, LenProperties
<1> HIDE DEF tt
<1>2. PICK g : Joins(g, tt, Len(tt)) /\ FlattenSeq(tt) = g[Len(tt)] BY <1>1, FlattenJoins
<1>3. g[Len(tt)] = IF Len(tt) = 1 THEN tt[1] ELSE g[Len(tt) - 1] \o tt[Len(tt)]
    <2>1. Len(tt) \in Nat BY <1>1
    <2>2. \A i \in 1..Len(tt) : g[i] = IF i = 1 THEN tt[i] ELSE g[i - 1] \o tt[i]
        BY <1>2, <2>1, JoinsAt
    <2> QED BY <1>1, <2>2
<1>4. CASE Len(ss) = 0
    <2>1. ss = <<>> BY <1>4, EmptySeq
    <2>2. <<>> \o s = s BY ConcatEmptySeq
    <2> QED BY <1>1, <1>2, <1>3, <1>4, <2>1, <2>2, FlattenEmpty DEF tt
<1>5. CASE Len(ss) # 0
    <2>1. PICK f : Joins(f, ss, Len(ss)) /\ FlattenSeq(ss) = f[Len(ss)] BY <1>1, <1>5, FlattenJoins
    <2>2. Same(f, g, Len(ss))
        <3>1. Len(tt) \in Nat /\ Len(ss) \in Nat /\ Len(ss) <= Len(ss) /\ Len(ss) <= Len(tt) BY <1>1
        <3>2. Same(ss, tt, Len(ss)) BY <1>1 DEF Same
        <3>3. Joins(f, ss, Len(ss)) /\ Joins(g, tt, Len(tt)) BY <1>2, <2>1
        <3> QED BY <3>1, <3>2, <3>3, JoinsAgree
    <2>3. FlattenSeq(ss) = g[Len(ss)] BY <1>1, <1>5, <2>1, <2>2 DEF Same
    <2>4. FlattenSeq(tt) = g[Len(ss)] \o s
        <3>1. Len(tt) # 1 /\ Len(tt) - 1 = Len(ss) /\ tt[Len(tt)] = s BY <1>1, <1>5
        <3> QED BY <1>2, <1>3, <3>1
    <2> QED BY <2>3, <2>4 DEF tt
<1> QED BY <1>4, <1>5

\* Induction over sequences, by their last members.
LEMMA SequenceInduction ==
    ASSUME NEW A, NEW P \in SUBSET Seq(A), <<>> \in P,
           \A s \in P, a \in A : Append(s, a) \in P
    PROVE  P = Seq(A)
<1> DEFINE S == {n \in Nat : \A s \in Seq(A) : Len(s) = n => s \in P}
<1>1. 0 \in S BY EmptySeq
<1>2. ASSUME NEW n \in S PROVE n + 1 \in S
    <2>1. SUFFICES ASSUME NEW s \in Seq(A), Len(s) = n + 1 PROVE s \in P OBVIOUS
    <2>2. s # <<>> BY <2>1
    <2>3. PICK t \in Seq(A), a \in A : s = Append(t, a) BY <2>2, SequenceEmptyOrAppend
    <2>4. Len(t) = n BY <2>1, <2>3, AppendProperties, LenProperties
    <2> QED BY <2>3, <2>4
<1> HIDE DEF S
<1>3. S = Nat
    <2>1. S \subseteq Nat BY DEF S
    <2> QED BY <1>1, <1>2, <2>1, NaturalInduction
<1>4. ASSUME NEW s \in Seq(A) PROVE s \in P
    BY <1>3, LenProperties DEF S
<1> QED BY <1>4

\* Sequences joined are one of the same members.
LEMMA FlattenType ==
    ASSUME NEW A, NEW ss \in Seq(Seq(A))
    PROVE  FlattenSeq(ss) \in Seq(A)
<1> DEFINE P == {t \in Seq(Seq(A)) : FlattenSeq(t) \in Seq(A)}
<1>1. <<>> \in P BY FlattenEmpty, EmptySeq
<1>2. ASSUME NEW t \in P, NEW a \in Seq(A) PROVE Append(t, a) \in P
    <2>1. FlattenSeq(Append(t, a)) = FlattenSeq(t) \o a BY FlattenAppend
    <2> QED BY <2>1, ConcatProperties, AppendProperties
<1> HIDE DEF P
<1>3. P = Seq(Seq(A))
    <2>1. P \subseteq Seq(Seq(A)) BY DEF P
    <2> QED BY <1>1, <1>2, <2>1, SequenceInduction
<1> QED BY <1>3 DEF P

\* Which of two concatenations comes first does not matter.
Regroups(s, t, u) == (s \o t) \o u = s \o (t \o u)

LEMMA Regrouped ==
    ASSUME NEW A, NEW s \in Seq(A), NEW t \in Seq(A), NEW u \in Seq(A)
    PROVE  Regroups(s, t, u)
<1>1. (s \o t) \o u = s \o (t \o u) BY ConcatAssociative, SMTT(30)
<1> QED BY <1>1, Zenon DEF Regroups

\* Joining parts and then the results joins the whole.
LEMMA FlattenConcat ==
    ASSUME NEW A, NEW ss \in Seq(Seq(A)), NEW tt \in Seq(Seq(A))
    PROVE  FlattenSeq(ss \o tt) = FlattenSeq(ss) \o FlattenSeq(tt)
<1> DEFINE P == {t \in Seq(Seq(A)) : FlattenSeq(ss \o t) = FlattenSeq(ss) \o FlattenSeq(t)}
<1>1. <<>> \in P
    <2>1. ss \o <<>> = ss /\ FlattenSeq(ss) \o <<>> = FlattenSeq(ss) BY ConcatEmptySeq, FlattenType
    <2> QED BY <2>1, FlattenEmpty, EmptySeq
<1>2. ASSUME NEW t \in P, NEW a \in Seq(A) PROVE Append(t, a) \in P
    <2>1. FlattenSeq(Append(t, a)) = FlattenSeq(t) \o a BY FlattenAppend
    <2>2. ss \o Append(t, a) = Append(ss \o t, a)
        <3>1. t \in Seq(Seq(A)) /\ <<a>> \in Seq(Seq(A)) OBVIOUS
        <3>2. ss \o t \in Seq(Seq(A)) BY <3>1, ConcatProperties
        <3>3. Append(t, a) = t \o <<a>> /\ Append(ss \o t, a) = (ss \o t) \o <<a>>
            BY <3>1, <3>2, AppendIsConcat
        <3>4. Regroups(ss, t, <<a>>) BY <3>1, Regrouped
        <3> QED BY <3>3, <3>4 DEF Regroups
    <2>3. FlattenSeq(Append(ss \o t, a)) = FlattenSeq(ss \o t) \o a
        <3>1. ss \o t \in Seq(Seq(A)) BY ConcatProperties
        <3> QED BY <3>1, FlattenAppend
    <2>4. (FlattenSeq(ss) \o FlattenSeq(t)) \o a = FlattenSeq(ss) \o (FlattenSeq(t) \o a)
        <3>1. FlattenSeq(ss) \in Seq(A) /\ FlattenSeq(t) \in Seq(A) BY FlattenType
        <3>2. Regroups(FlattenSeq(ss), FlattenSeq(t), a) BY <3>1, Regrouped
        <3> QED BY <3>2 DEF Regroups
    <2> QED BY <2>1, <2>2, <2>3, <2>4, AppendProperties
<1> HIDE DEF P
<1>3. P = Seq(Seq(A))
    <2>1. P \subseteq Seq(Seq(A)) BY DEF P
    <2> QED BY <1>1, <1>2, <2>1, SequenceInduction
<1> QED BY <1>3 DEF P

\* One sequence joined is that sequence.
LEMMA FlattenOne ==
    ASSUME NEW A, NEW s \in Seq(A)
    PROVE  FlattenSeq(<<s>>) = s
<1>1. <<s>> = Append(<<>>, s) /\ <<>> \in Seq(Seq(A)) BY EmptySeq
<1>2. FlattenSeq(Append(<<>>, s)) = <<>> \o s BY <1>1, FlattenAppend, FlattenEmpty
<1> QED BY <1>1, <1>2, ConcatEmptySeq

-----------------------------------------------------------------------------
(* Total. *)

\* f adds the first n members of s up.
Sums(f, s, n) == f = [i \in 0..n |-> IF i = 0 THEN 0 ELSE f[i - 1] + s[i]]

\* Such an f, member by member.
LEMMA SumsAt ==
    ASSUME NEW f, NEW s, NEW n \in Nat, Sums(f, s, n)
    PROVE  \A i \in 0..n : f[i] = IF i = 0 THEN 0 ELSE f[i - 1] + s[i]
BY DEF Sums

\* There is one for each n.
LEMMA SumsExist ==
    ASSUME NEW s, NEW n \in Nat
    PROVE  \E f : Sums(f, s, n)
<1> DEFINE S == {k \in Nat : \E f : Sums(f, s, k)}
<1>1. 0 \in S
    <2>1. Sums([i \in 0..0 |-> 0], s, 0) BY DEF Sums
    <2> QED BY <2>1
<1>2. ASSUME NEW k \in S PROVE k + 1 \in S
    <2>1. PICK f : Sums(f, s, k) OBVIOUS
    <2> DEFINE g == [i \in 0..(k + 1) |-> IF i = 0 THEN 0 ELSE f[i - 1] + s[i]]
    <2>2. ASSUME NEW i \in 0..(k + 1), i # 0 PROVE g[i - 1] = f[i - 1]
        <3>1. i - 1 \in 0..k /\ i - 1 \in 0..(k + 1) BY <2>2
        <3>2. \A j \in 0..k : f[j] = IF j = 0 THEN 0 ELSE f[j - 1] + s[j]
            BY <2>1, SumsAt
        <3>3. g[i - 1] = IF i - 1 = 0 THEN 0 ELSE f[i - 1 - 1] + s[i - 1] BY <3>1
        <3> HIDE DEF g
        <3> QED BY <3>1, <3>2, <3>3
    <2> HIDE DEF g
    <2>3. g = [i \in 0..(k + 1) |-> IF i = 0 THEN 0 ELSE g[i - 1] + s[i]]
        BY <2>2 DEF g
    <2>4. Sums(g, s, k + 1) BY <2>3 DEF Sums
    <2> QED BY <2>4
<1> HIDE DEF S
<1>3. S = Nat
    <2>1. S \subseteq Nat BY DEF S
    <2> QED BY <1>1, <1>2, <2>1, NaturalInduction
<1> QED BY <1>3 DEF S

\* Total is the last member of one.
LEMMA TotalSums ==
    ASSUME NEW s, Len(s) \in Nat
    PROVE  \E f : Sums(f, s, Len(s)) /\ Total(s) = f[Len(s)]
<1> DEFINE f == CHOOSE f : Sums(f, s, Len(s))
<1>1. Sums(f, s, Len(s)) BY SumsExist
<1>2. Total(s) = f[Len(s)] BY DEF Total, Sums
<1> QED BY <1>1, <1>2

\* The same from 0 on.
SameFrom0(s, t, k) == \A i \in 0..k : s[i] = t[i]

\* Sums of what agrees up to k agree up to k.
LEMMA SumsAgree ==
    ASSUME NEW s, NEW t, NEW n \in Nat, NEW m \in Nat, NEW f, NEW g,
           Sums(f, s, n), Sums(g, t, m), NEW k \in Nat, k <= n, k <= m, Same(s, t, k)
    PROVE  SameFrom0(f, g, k)
<1> DEFINE S == {i \in Nat : i \in 0..k => f[i] = g[i]}
<1>1. \A i \in 0..k : f[i] = IF i = 0 THEN 0 ELSE f[i - 1] + s[i]
    <2>1. \A i \in 0..n : f[i] = IF i = 0 THEN 0 ELSE f[i - 1] + s[i] BY SumsAt
    <2> QED BY <2>1
<1>2. \A i \in 0..k : g[i] = IF i = 0 THEN 0 ELSE g[i - 1] + t[i]
    <2>1. \A i \in 0..m : g[i] = IF i = 0 THEN 0 ELSE g[i - 1] + t[i] BY SumsAt
    <2> QED BY <2>1
<1>3. 0 \in S BY <1>1, <1>2
<1>4. ASSUME NEW i \in S PROVE i + 1 \in S
    <2>1. SUFFICES ASSUME i + 1 \in 0..k PROVE f[i + 1] = g[i + 1] OBVIOUS
    <2>2. i \in 0..k /\ f[i] = g[i] BY <2>1
    <2> QED BY <2>1, <2>2, <1>1, <1>2 DEF Same
<1> HIDE DEF S
<1>5. S = Nat
    <2>1. S \subseteq Nat BY DEF S
    <2> QED BY <1>3, <1>4, <2>1, NaturalInduction
<1> QED BY <1>5 DEF S, SameFrom0

\* Nothing sums up to 0.
LEMMA TotalEmpty == Total(<<>>) = 0
<1>1. Len(<<>>) = 0 OBVIOUS
<1>2. PICK f : Sums(f, <<>>, 0) /\ Total(<<>>) = f[0] BY <1>1, TotalSums
<1> QED BY <1>2, SumsAt

\* The last member is added last.
LEMMA TotalAppend ==
    ASSUME NEW s \in Seq(Nat), NEW n \in Nat
    PROVE  Total(Append(s, n)) = Total(s) + n
<1> DEFINE t == Append(s, n)
<1>1. /\ Len(s) \in Nat /\ Len(t) = Len(s) + 1
      /\ \A i \in 1..Len(s) : t[i] = s[i]
      /\ t[Len(s) + 1] = n
    BY AppendProperties, LenProperties
<1> HIDE DEF t
<1>2. Len(t) \in Nat BY <1>1
<1>3. PICK f : Sums(f, s, Len(s)) /\ Total(s) = f[Len(s)] BY <1>1, TotalSums
<1>4. PICK g : Sums(g, t, Len(t)) /\ Total(t) = g[Len(t)] BY <1>2, TotalSums
<1>5. SameFrom0(f, g, Len(s))
    <2>1. Len(s) \in Nat /\ Len(s) <= Len(s) /\ Len(s) <= Len(t) BY <1>1
    <2>2. Same(s, t, Len(s)) BY <1>1 DEF Same
    <2> QED BY <1>2, <1>3, <1>4, <2>1, <2>2, SumsAgree
<1>6. g[Len(t)] = g[Len(t) - 1] + t[Len(t)]
    <2>1. \A i \in 0..Len(t) : g[i] = IF i = 0 THEN 0 ELSE g[i - 1] + t[i]
        BY <1>2, <1>4, SumsAt
    <2>2. Len(t) \in 0..Len(t) /\ Len(t) # 0 BY <1>1, <1>2
    <2> QED BY <2>1, <2>2
<1>7. g[Len(t)] = f[Len(s)] + n
    <2>1. Len(t) - 1 = Len(s) /\ Len(s) \in 0..Len(s) BY <1>1
    <2> QED BY <1>1, <1>5, <1>6, <2>1 DEF SameFrom0
<1> QED BY <1>3, <1>4, <1>7 DEF t

\* Natural numbers sum up to one.
LEMMA TotalType ==
    ASSUME NEW s \in Seq(Nat)
    PROVE  Total(s) \in Nat
<1> DEFINE P == {t \in Seq(Nat) : Total(t) \in Nat}
<1>1. <<>> \in P BY TotalEmpty, EmptySeq
<1>2. ASSUME NEW t \in P, NEW n \in Nat PROVE Append(t, n) \in P
    BY TotalAppend, AppendProperties
<1> HIDE DEF P
<1>3. P = Seq(Nat)
    <2>1. P \subseteq Seq(Nat) BY DEF P
    <2> QED BY <1>1, <1>2, <2>1, SequenceInduction
<1> QED BY <1>3 DEF P

-----------------------------------------------------------------------------
(* First and Rest. *)

\* The two parts of a sequence, their lengths and members.
LEMMA FirstRest ==
    ASSUME NEW A, NEW s \in Seq(A), NEW n \in Nat
    PROVE  /\ First(s, n) \in Seq(A) /\ Rest(s, n) \in Seq(A)
           /\ First(s, n) \o Rest(s, n) = s
           /\ Len(First(s, n)) = IF n < Len(s) THEN n ELSE Len(s)
           /\ Len(Rest(s, n)) = IF n < Len(s) THEN Len(s) - n ELSE 0
           /\ \A i \in 1..Len(First(s, n)) : First(s, n)[i] = s[i]
           /\ \A i \in 1..Len(Rest(s, n)) : Rest(s, n)[i] = s[n + i]
<1> DEFINE k == IF n < Len(s) THEN n ELSE Len(s)
<1>1. Len(s) \in Nat /\ k \in 0..Len(s) /\ \A i \in 1..Len(s) : s[i] \in A BY LenProperties, ElementOfSeq
<1>2. First(s, n) = SubSeq(s, 1, k) BY DEF First
<1>3. /\ SubSeq(s, 1, k) \in Seq(A) /\ Len(SubSeq(s, 1, k)) = k
      /\ \A i \in 1..k : SubSeq(s, 1, k)[i] = s[i]
    <2>1. 1 \in Int /\ k \in Int /\ \A i \in 1..k : s[i] \in A BY <1>1
    <2> HIDE DEF k
    <2> QED BY <1>1, <2>1, SubSeqProperties
<1>4. CASE n < Len(s)
    <2>1. k = n /\ n + 1 \in Int /\ Len(s) \in Int /\ \A i \in (n + 1)..Len(s) : s[i] \in A BY <1>1, <1>4
    <2>2. /\ Rest(s, n) \in Seq(A) /\ Len(Rest(s, n)) = Len(s) - n
          /\ \A i \in 1..(Len(s) - n) : Rest(s, n)[i] = s[n + i]
        BY <1>1, <1>4, <2>1, SubSeqProperties DEF Rest
    <2>3. SubSeq(s, 1, n) \o SubSeq(s, n + 1, Len(s)) = SubSeq(s, 1, Len(s))
        <3>1. 1 \in 1..Len(s) + 1 /\ n \in 1 - 1..Len(s) /\ Len(s) \in n..Len(s) BY <1>1, <1>4
        <3> QED BY <3>1, ConcatAdjacentSubSeq
    <2> QED BY <1>2, <1>3, <1>4, <2>1, <2>2, <2>3, SubSeqFull DEF Rest
<1>5. CASE ~(n < Len(s))
    <2>1. k = Len(s) /\ Rest(s, n) = <<>>
        BY <1>1, <1>5, SubSeqEmpty DEF Rest
    <2>2. First(s, n) = s BY <1>2, <2>1, SubSeqFull
    <2> QED BY <1>1, <1>5, <2>1, <2>2, ConcatEmptySeq, EmptySeq
<1> QED BY <1>4, <1>5

\* What begins with x begins with x.
LEMMA FirstIs ==
    ASSUME NEW A, NEW x \in Seq(A), NEW y \in Seq(A)
    PROVE  First(x \o y, Len(x)) = x
<1>1. /\ Len(x) \in Nat /\ Len(y) \in Nat /\ x \o y \in Seq(A) /\ Len(x \o y) = Len(x) + Len(y)
      /\ \A i \in 1..Len(x) + Len(y) : (x \o y)[i] = IF i <= Len(x) THEN x[i] ELSE y[i - Len(x)]
    BY ConcatProperties, LenProperties
<1> DEFINE t == x \o y
           f == First(t, Len(x))
<1>2. /\ f \in Seq(A) /\ Len(f) = (IF Len(x) < Len(t) THEN Len(x) ELSE Len(t))
      /\ \A i \in 1..Len(f) : f[i] = t[i]
    <2>1. t \in Seq(A) BY <1>1
    <2> HIDE DEF t
    <2> QED BY <1>1, <2>1, FirstRest
<1>3. Len(f) = Len(x) BY <1>1, <1>2
<1> HIDE DEF f
<1>4. ASSUME NEW i \in 1..Len(x) PROVE f[i] = x[i]
    <2>1. i \in 1..Len(f) /\ i \in 1..Len(x) + Len(y) /\ i <= Len(x) BY <1>1, <1>3
    <2> QED BY <1>1, <1>2, <2>1
<1>5. f = x BY <1>2, <1>3, <1>4, SeqEqual
<1> QED BY <1>5 DEF f, t

\* What is the same up to n begins with the same n.
LEMMA FirstSame ==
    ASSUME NEW A, NEW s \in Seq(A), NEW t \in Seq(A), NEW n \in Nat, n <= Len(s), n <= Len(t), Same(s, t, n)
    PROVE  First(s, n) = First(t, n)
<1> DEFINE f == First(s, n)
           g == First(t, n)
<1>1. /\ f \in Seq(A) /\ Len(f) = (IF n < Len(s) THEN n ELSE Len(s))
      /\ \A i \in 1..Len(f) : f[i] = s[i]
    BY FirstRest
<1>2. /\ g \in Seq(A) /\ Len(g) = (IF n < Len(t) THEN n ELSE Len(t))
      /\ \A i \in 1..Len(g) : g[i] = t[i]
    BY FirstRest
<1>3. Len(f) = n /\ Len(g) = n
    <2>1. Len(s) \in Nat /\ Len(t) \in Nat BY LenProperties
    <2> QED BY <1>1, <1>2, <2>1
<1> HIDE DEF f, g
<1>4. \A i \in 1..Len(f) : f[i] = g[i] BY <1>1, <1>2, <1>3 DEF Same
<1>5. f = g BY <1>1, <1>2, <1>3, <1>4, SeqEqual
<1> QED BY <1>5 DEF f, g

\* What has the members of the beginning of t is a prefix of t.
LEMMA PrefixMembers ==
    ASSUME NEW A, NEW s \in Seq(A), NEW t \in Seq(A), Len(s) <= Len(t), Same(s, t, Len(s))
    PROVE  IsPrefix(s, t)
<1>1. Len(s) \in Nat /\ Len(t) \in Nat /\ Len(s) <= Len(s) BY LenProperties
<1>2. First(s, Len(s)) = First(t, Len(s)) BY <1>1, FirstSame
<1>3. First(s, Len(s)) = SubSeq(s, 1, Len(s)) BY DEF First
<1>4. First(t, Len(s)) = SubSeq(t, 1, Len(s))
    <2>1. (IF Len(s) < Len(t) THEN Len(s) ELSE Len(t)) = Len(s) BY <1>1
    <2> QED BY <2>1 DEF First
<1> QED BY <1>2, <1>3, <1>4 DEF IsPrefix

-----------------------------------------------------------------------------
(* Sequences of numbers that follow one another. *)

\* s counts on from k.
Runs(s, k) == \A i \in 1..Len(s) : s[i] = k + i

\* Counting on through s and t is counting on through both.
LEMMA RunsConcat ==
    ASSUME NEW s \in Seq(Nat), NEW t \in Seq(Nat), NEW k \in Nat
    PROVE  Runs(s \o t, k) <=> Runs(s, k) /\ Runs(t, k + Len(s))
<1>1. /\ Len(s) \in Nat /\ Len(t) \in Nat /\ Len(s \o t) = Len(s) + Len(t)
      /\ \A i \in 1..Len(s) + Len(t) : (s \o t)[i] = IF i <= Len(s) THEN s[i] ELSE t[i - Len(s)]
    BY ConcatProperties, LenProperties
<1>2. ASSUME Runs(s \o t, k) PROVE Runs(s, k) /\ Runs(t, k + Len(s))
    <2>1. ASSUME NEW i \in 1..Len(s) PROVE s[i] = k + i
        <3>1. i \in 1..Len(s) + Len(t) /\ i <= Len(s) BY <1>1
        <3>2. (s \o t)[i] = s[i] BY <1>1, <3>1
        <3>3. (s \o t)[i] = k + i BY <1>1, <1>2, <3>1 DEF Runs
        <3> QED BY <3>2, <3>3
    <2>2. ASSUME NEW i \in 1..Len(t) PROVE t[i] = k + Len(s) + i
        <3>1. Len(s) + i \in 1..Len(s) + Len(t) /\ ~(Len(s) + i <= Len(s)) /\ Len(s) + i - Len(s) = i
            BY <1>1
        <3>2. (s \o t)[Len(s) + i] = t[i] BY <1>1, <3>1
        <3>3. (s \o t)[Len(s) + i] = k + (Len(s) + i) BY <1>1, <1>2, <3>1 DEF Runs
        <3> QED BY <1>1, <3>2, <3>3
    <2> QED BY <2>1, <2>2 DEF Runs
<1>3. ASSUME Runs(s, k), Runs(t, k + Len(s)) PROVE Runs(s \o t, k)
    <2>1. SUFFICES ASSUME NEW i \in 1..Len(s) + Len(t) PROVE (s \o t)[i] = k + i
        BY <1>1 DEF Runs
    <2>2. CASE i <= Len(s)
        <3>1. i \in 1..Len(s) BY <1>1, <2>2
        <3> QED BY <1>1, <1>3, <2>2, <3>1 DEF Runs
    <2>3. CASE ~(i <= Len(s))
        <3>1. i - Len(s) \in 1..Len(t) BY <1>1, <2>3
        <3>2. t[i - Len(s)] = k + Len(s) + (i - Len(s)) BY <1>3, <3>1 DEF Runs
        <3> QED BY <1>1, <2>3, <3>2
    <2> QED BY <2>2, <2>3
<1> QED BY <1>2, <1>3

\* Where t begins in s \o t.
LEMMA ConcatAt ==
    ASSUME NEW A, NEW s \in Seq(A), NEW t \in Seq(A), t # <<>>
    PROVE  Len(s) + 1 \in 1..Len(s \o t) /\ (s \o t)[Len(s) + 1] = t[1]
<1>1. /\ Len(s) \in Nat /\ Len(t) \in Nat /\ Len(s \o t) = Len(s) + Len(t)
      /\ \A i \in 1..Len(s) + Len(t) : (s \o t)[i] = IF i <= Len(s) THEN s[i] ELSE t[i - Len(s)]
    BY ConcatProperties, LenProperties
<1>2. Len(t) # 0 BY EmptySeq
<1>3. Len(s) + 1 \in 1..Len(s) + Len(t) /\ ~(Len(s) + 1 <= Len(s)) /\ Len(s) + 1 - Len(s) = 1
    BY <1>1, <1>2
<1> QED BY <1>1, <1>3

\* A sequence around its i-th member.
LEMMA Around ==
    ASSUME NEW A, NEW s \in Seq(A), NEW i \in 1..Len(s)
    PROVE  /\ First(s, i - 1) \in Seq(A) /\ Rest(s, i) \in Seq(A) /\ <<s[i]>> \in Seq(A)
           /\ s = First(s, i - 1) \o (<<s[i]>> \o Rest(s, i))
<1>1. Len(s) \in Nat /\ i \in Nat /\ i - 1 \in Nat /\ s[i] \in A BY LenProperties, ElementOfSeq
<1> DEFINE a == First(s, i - 1)
           r == Rest(s, i)
<1>2. a \in Seq(A) /\ Len(a) = i - 1 /\ \A j \in 1..Len(a) : a[j] = s[j]
    <2>1. i - 1 < Len(s) BY <1>1
    <2> QED BY <1>1, <2>1, FirstRest
<1>3. /\ r \in Seq(A) /\ Len(r) = Len(s) - i
      /\ \A j \in 1..Len(r) : r[j] = s[i + j]
    <2>1. IF i < Len(s) THEN TRUE ELSE Len(s) - i = 0 BY <1>1
    <2>2. r \in Seq(A) /\ Len(r) = (IF i < Len(s) THEN Len(s) - i ELSE 0) /\ \A j \in 1..Len(r) : r[j] = s[i + j]
        BY <1>1, FirstRest
    <2> HIDE DEF r
    <2> QED BY <2>1, <2>2
<1> HIDE DEF a, r
<1>4. <<s[i]>> \in Seq(A) /\ Len(<<s[i]>>) = 1 /\ <<s[i]>>[1] = s[i] BY <1>1
<1> DEFINE b == <<s[i]>>
           t == b \o r
<1>5. /\ t \in Seq(A) /\ Len(t) = 1 + Len(r)
      /\ \A j \in 1..1 + Len(r) : t[j] = IF j <= 1 THEN b[j] ELSE r[j - 1]
    <2>1. b \in Seq(A) /\ Len(b) = 1 BY <1>4
    <2> HIDE DEF b
    <2>2. /\ t \in Seq(A) /\ Len(t) = Len(b) + Len(r)
          /\ \A j \in 1..Len(b) + Len(r) : t[j] = IF j <= Len(b) THEN b[j] ELSE r[j - Len(b)]
        BY <1>3, <2>1, ConcatProperties
    <2> HIDE DEF t
    <2> QED BY <2>1, <2>2
<1>6. t[1] = s[i] /\ \A j \in 1..Len(r) : t[1 + j] = r[j]
    <2>1. b[1] = s[i] BY <1>4
    <2>2. Len(r) \in Nat BY <1>3, LenProperties
    <2> HIDE DEF b, t
    <2>3. t[1] = b[1] BY <1>5, <2>2
    <2>4. ASSUME NEW j \in 1..Len(r) PROVE t[1 + j] = r[j]
        <3>1. 1 + j \in 1..1 + Len(r) /\ ~(1 + j <= 1) /\ (1 + j) - 1 = j BY <2>2
        <3> QED BY <1>5, <3>1
    <2> QED BY <2>1, <2>3, <2>4
<1> HIDE DEF t
<1>7. /\ a \o t \in Seq(A) /\ Len(a \o t) = Len(a) + Len(t)
      /\ \A j \in 1..Len(a) + Len(t) : (a \o t)[j] = IF j <= Len(a) THEN a[j] ELSE t[j - Len(a)]
    BY <1>2, <1>5, ConcatProperties
<1>8. Len(a \o t) = Len(s) BY <1>1, <1>2, <1>3, <1>5, <1>7
<1>9. ASSUME NEW j \in 1..Len(s) PROVE (a \o t)[j] = s[j]
    <2>1. j \in 1..Len(a) + Len(t) BY <1>7, <1>8
    <2>2. CASE j <= Len(a)
        <3>1. j \in 1..Len(a) BY <1>1, <1>2, <2>2
        <3> QED BY <1>2, <1>7, <2>1, <2>2, <3>1
    <2>3. CASE j = Len(a) + 1
        <3>1. ~(j <= Len(a)) /\ j - Len(a) = 1 /\ j = i BY <1>1, <1>2, <2>3
        <3> QED BY <1>6, <1>7, <2>1, <3>1
    <2>4. CASE j > Len(a) + 1
        <3>1. ~(j <= Len(a)) /\ j - i \in 1..Len(r) /\ j - Len(a) = 1 + (j - i) /\ i + (j - i) = j
            BY <1>1, <1>2, <1>3, <2>4
        <3>2. t[j - Len(a)] = r[j - i] /\ r[j - i] = s[j] BY <1>3, <1>6, <3>1
        <3> QED BY <1>7, <2>1, <3>1, <3>2
    <2>5. Len(a) \in Nat /\ j \in Nat BY <1>1, <1>2
    <2>6. j <= Len(a) \/ j = Len(a) + 1 \/ j > Len(a) + 1 BY <2>5
    <2> HIDE DEF b
    <2> QED BY <2>2, <2>3, <2>4, <2>6
<1>10. a \o t = s BY <1>7, <1>8, <1>9, SeqEqual
<1> QED BY <1>2, <1>3, <1>4, <1>10 DEF a, r, t, b

\* x is a member of s.
Holds(s, x) == \E j \in 1..Len(s) : s[j] = x

\* The members of ss that are of one are there when all are joined.
LEMMA FlattenHas ==
    ASSUME NEW A, NEW ss \in Seq(Seq(A)), NEW i \in 1..Len(ss), NEW x \in A, ss[i] = <<x>>
    PROVE  Holds(FlattenSeq(ss), x)
<1> DEFINE a == First(ss, i - 1)
           c == Rest(ss, i)
           b == <<<<x>>>>
<1>1. /\ a \in Seq(Seq(A)) /\ b \in Seq(Seq(A)) /\ c \in Seq(Seq(A))
      /\ ss = a \o (b \o c)
    BY Around
<1>2. FlattenSeq(b) = <<x>> /\ <<x>> \in Seq(A)
    <2>1. <<x>> \in Seq(A) OBVIOUS
    <2> QED BY <2>1, FlattenOne
<1> HIDE DEF a, b, c
<1>3. b \o c \in Seq(Seq(A)) /\ FlattenSeq(b \o c) = <<x>> \o FlattenSeq(c)
    BY <1>1, <1>2, FlattenConcat, ConcatProperties
<1>4. FlattenSeq(ss) = FlattenSeq(a) \o FlattenSeq(b \o c)
    BY <1>1, <1>3, FlattenConcat
<1> DEFINE fa == FlattenSeq(a)
           fc == FlattenSeq(c)
           t == <<x>> \o fc
<1>5. fa \in Seq(A) /\ fc \in Seq(A) BY <1>1, FlattenType
<1> HIDE DEF fa, fc
<1>6. t \in Seq(A) /\ Len(t) = Len(<<x>>) + Len(fc) /\ t[1] = x /\ t # <<>>
    <2>1. Len(<<x>>) = 1 /\ <<x>>[1] = x /\ Len(fc) \in Nat BY <1>5, LenProperties
    <2>2. /\ t \in Seq(A) /\ Len(t) = Len(<<x>>) + Len(fc)
          /\ \A j \in 1..Len(<<x>>) + Len(fc) : t[j] = IF j <= Len(<<x>>) THEN <<x>>[j] ELSE fc[j - Len(<<x>>)]
        BY <1>2, <1>5, ConcatProperties
    <2>3. t[1] = x BY <2>1, <2>2
    <2>4. Len(t) # 0 BY <2>1, <2>2
    <2> QED BY <2>2, <2>3, <2>4, EmptySeq
<1> HIDE DEF t
<1>7. Len(fa) + 1 \in 1..Len(fa \o t) /\ (fa \o t)[Len(fa) + 1] = x BY <1>5, <1>6, ConcatAt
<1>8. FlattenSeq(ss) = fa \o t BY <1>3, <1>4 DEF fa, fc, t
<1>9. Holds(fa \o t, x) BY <1>7 DEF Holds
<1> QED BY <1>8, <1>9

-----------------------------------------------------------------------------
(* Beginnings and rests of joined sequences, and prefixes. *)

\* A sequence that ends in y.
LEMMA RestConcat ==
    ASSUME NEW A, NEW x \in Seq(A), NEW y \in Seq(A), NEW n \in Nat, n <= Len(x)
    PROVE  Rest(x \o y, n) = Rest(x, n) \o y /\ First(x \o y, n) = First(x, n)
<1> DEFINE t == x \o y
           r == Rest(x, n)
           u == r \o y
           v == Rest(t, n)
<1>1. /\ Len(x) \in Nat /\ Len(y) \in Nat /\ t \in Seq(A) /\ Len(t) = Len(x) + Len(y)
      /\ \A i \in 1..Len(x) + Len(y) : t[i] = IF i <= Len(x) THEN x[i] ELSE y[i - Len(x)]
    BY ConcatProperties, LenProperties
<1>2. /\ r \in Seq(A) /\ Len(r) = (IF n < Len(x) THEN Len(x) - n ELSE 0)
      /\ \A i \in 1..Len(r) : r[i] = x[n + i]
    BY FirstRest
<1>3. Len(r) = Len(x) - n BY <1>1, <1>2
<1> HIDE DEF t, r
<1>4. /\ u \in Seq(A) /\ Len(u) = Len(r) + Len(y)
      /\ \A i \in 1..Len(r) + Len(y) : u[i] = IF i <= Len(r) THEN r[i] ELSE y[i - Len(r)]
    <2>1. r \in Seq(A) /\ y \in Seq(A) BY <1>2
    <2> QED BY <2>1, ConcatProperties
<1>5. /\ v \in Seq(A) /\ Len(v) = (IF n < Len(t) THEN Len(t) - n ELSE 0)
      /\ \A i \in 1..Len(v) : v[i] = t[n + i]
    BY <1>1, FirstRest
<1> HIDE DEF u, v
<1>6. Len(v) = Len(u) BY <1>1, <1>3, <1>4, <1>5
<1>7. ASSUME NEW i \in 1..Len(v) PROVE v[i] = u[i]
    <2>1. /\ n + i \in 1..Len(x) + Len(y) /\ i \in 1..Len(r) + Len(y)
          /\ n + i <= Len(x) <=> i <= Len(r)
          /\ (n + i) - Len(x) = i - Len(r)
        BY <1>1, <1>3, <1>4, <1>6
    <2>2. CASE i <= Len(r)
        <3>1. i \in 1..Len(r) BY <1>3, <2>1, <2>2
        <3> QED BY <1>1, <1>2, <1>4, <1>5, <2>1, <2>2, <3>1
    <2>3. CASE ~(i <= Len(r))
        BY <1>1, <1>4, <1>5, <2>1, <2>3
    <2> QED BY <2>2, <2>3
<1>8. u = v BY <1>4, <1>5, <1>6, <1>7, SeqEqual
<1>9. First(t, n) = First(x, n)
    <2>1. Same(t, x, n)
        <3>1. ASSUME NEW i \in 1..n PROVE t[i] = x[i]
            <4>1. i \in 1..Len(x) + Len(y) /\ i <= Len(x) BY <1>1
            <4> QED BY <1>1, <4>1
        <3> QED BY <3>1 DEF Same
    <2>2. n <= Len(t) BY <1>1
    <2> QED BY <1>1, <2>1, <2>2, FirstSame
<1> QED BY <1>8, <1>9 DEF u, v, t, r

\* What follows x in x \o y is y.
LEMMA RestIs ==
    ASSUME NEW A, NEW x \in Seq(A), NEW y \in Seq(A)
    PROVE  Rest(x \o y, Len(x)) = y
<1>1. Len(x) \in Nat /\ Len(x) <= Len(x) BY LenProperties
<1>2. Rest(x \o y, Len(x)) = Rest(x, Len(x)) \o y BY <1>1, RestConcat
<1>3. Rest(x, Len(x)) = <<>> BY <1>1, SubSeqEmpty DEF Rest
<1> QED BY <1>2, <1>3, ConcatEmptySeq

\* To leave out n and then k is to leave out n + k.
LEMMA RestRest ==
    ASSUME NEW A, NEW s \in Seq(A), NEW n \in Nat, NEW k \in Nat
    PROVE  Rest(Rest(s, n), k) = Rest(s, n + k)
<1> DEFINE r == Rest(s, n)
           u == Rest(r, k)
           v == Rest(s, n + k)
<1>1. Len(s) \in Nat /\ n + k \in Nat BY LenProperties
<1>2. /\ r \in Seq(A) /\ Len(r) = (IF n < Len(s) THEN Len(s) - n ELSE 0)
      /\ \A i \in 1..Len(r) : r[i] = s[n + i]
    BY FirstRest
<1> HIDE DEF r
<1>3. /\ u \in Seq(A) /\ Len(u) = (IF k < Len(r) THEN Len(r) - k ELSE 0)
      /\ \A i \in 1..Len(u) : u[i] = r[k + i]
    BY <1>2, FirstRest
<1>4. /\ v \in Seq(A) /\ Len(v) = (IF n + k < Len(s) THEN Len(s) - (n + k) ELSE 0)
      /\ \A i \in 1..Len(v) : v[i] = s[n + k + i]
    BY <1>1, FirstRest
<1> HIDE DEF u, v
<1>5. Len(u) = Len(v) BY <1>1, <1>2, <1>3, <1>4
<1>6. ASSUME NEW i \in 1..Len(u) PROVE u[i] = v[i]
    <2>1. k + i \in 1..Len(r) /\ n + (k + i) = n + k + i BY <1>1, <1>2, <1>3
    <2> QED BY <1>2, <1>3, <1>4, <1>5, <2>1
<1> QED BY <1>3, <1>4, <1>5, <1>6, SeqEqual DEF u, v, r

\* What is left, and the first of it.
LEMMA RestNext ==
    ASSUME NEW A, NEW s \in Seq(A), NEW n \in Nat, n < Len(s)
    PROVE  /\ n + 1 \in 1..Len(s) /\ s[n + 1] \in A
           /\ Rest(s, n) = <<s[n + 1]>> \o Rest(s, n + 1)
           /\ First(s, n + 1) = Append(First(s, n), s[n + 1])
<1>1. Len(s) \in Nat /\ n + 1 \in 1..Len(s) /\ (n + 1) - 1 = n BY LenProperties
<1>2. s[n + 1] \in A BY <1>1, ElementOfSeq
<1> DEFINE f == First(s, n)
           b == <<s[n + 1]>>
           r == Rest(s, n + 1)
<1>3. /\ f \in Seq(A) /\ r \in Seq(A) /\ b \in Seq(A) /\ s = f \o (b \o r)
    BY <1>1, Around
<1>4. Len(f) = n BY <1>1, FirstRest
<1> HIDE DEF f, b, r
<1>5. b \o r \in Seq(A) BY <1>3, ConcatProperties
<1>6. Rest(f \o (b \o r), Len(f)) = b \o r BY <1>3, <1>5, RestIs
<1>7. f \o (b \o r) = (f \o b) \o r
    <2>1. Regroups(f, b, r) BY <1>3, Regrouped
    <2> QED BY <2>1 DEF Regroups
<1>8. f \o b \in Seq(A) /\ Len(f \o b) = Len(f) + Len(b) BY <1>3, ConcatProperties
<1>9. First((f \o b) \o r, Len(f \o b)) = f \o b BY <1>3, <1>8, FirstIs
<1>10. Len(b) = 1 BY DEF b
<1>11. Append(f, s[n + 1]) = f \o <<s[n + 1]>> BY <1>2, <1>3, AppendIsConcat
<1> QED BY <1>1, <1>2, <1>3, <1>4, <1>6, <1>7, <1>8, <1>9, <1>10, <1>11 DEF f, b, r

\* A prefix is the beginning, and the other way round.
LEMMA PrefixIs ==
    ASSUME NEW A, NEW s \in Seq(A), NEW t \in Seq(A), IsPrefix(s, t)
    PROVE  Len(s) <= Len(t) /\ Same(s, t, Len(s))
<1>1. Len(s) \in Nat /\ Len(t) \in Nat BY LenProperties
<1>2. Len(s) <= Len(t) /\ s = SubSeq(t, 1, Len(s))
    BY <1>1, SubSeqFull DEF IsPrefix
<1>3. \A i \in 1..Len(s) : t[i] \in A
    <2>1. ASSUME NEW i \in 1..Len(s) PROVE i \in 1..Len(t) BY <1>1, <1>2
    <2> QED BY <2>1, ElementOfSeq
<1>4. \A i \in 1..Len(s) - 1 + 1 : SubSeq(t, 1, Len(s))[i] = t[1 + i - 1]
    BY <1>1, <1>3, SubSeqProperties
<1> QED BY <1>1, <1>2, <1>4 DEF Same

\* More after it leaves a prefix one.
LEMMA PrefixMore ==
    ASSUME NEW A, NEW s \in Seq(A), NEW t \in Seq(A), NEW a \in A, IsPrefix(s, t)
    PROVE  IsPrefix(s, Append(t, a))
<1> DEFINE u == Append(t, a)
<1>1. Len(s) <= Len(t) /\ Same(s, t, Len(s)) BY PrefixIs
<1>2. /\ Len(s) \in Nat /\ Len(t) \in Nat /\ u \in Seq(A) /\ Len(u) = Len(t) + 1
      /\ \A i \in 1..Len(t) : u[i] = t[i]
    BY AppendProperties, LenProperties
<1> HIDE DEF u
<1>3. Len(s) <= Len(u) BY <1>1, <1>2
<1>4. Same(s, u, Len(s)) 
    <2>1. \A i \in 1..Len(s) : i \in 1..Len(t) BY <1>1, <1>2
    <2> QED BY <1>1, <1>2, <2>1 DEF Same
<1>5. IsPrefix(s, u) BY <1>2, <1>3, <1>4, PrefixMembers
<1> QED BY <1>5 DEF u

\* A sequence is a prefix of itself.
LEMMA PrefixSelf ==
    ASSUME NEW A, NEW s \in Seq(A)
    PROVE  IsPrefix(s, s)
<1>1. Len(s) \in Nat /\ Len(s) <= Len(s) BY LenProperties
<1> QED BY <1>1, PrefixMembers DEF Same

\* A function on the first n numbers is a sequence.
LEMMA FunctionIsSeq ==
    ASSUME NEW A, NEW n \in Nat, NEW f \in [1..n -> A]
    PROVE  f \in Seq(A) /\ Len(f) = n
OBVIOUS

\* Numbers neither of which is smaller.
LEMMA NeitherSmaller ==
    ASSUME NEW a \in Nat, NEW b \in Nat, ~(a < b), ~(b < a)
    PROVE  a = b
OBVIOUS

\* One message more at the end of two parts.
LEMMA AppendLast ==
    ASSUME NEW A, NEW s \in Seq(A), NEW t \in Seq(A), NEW x \in A
    PROVE  s \o Append(t, x) = Append(s \o t, x)
<1>1. <<x>> \in Seq(A) /\ s \o t \in Seq(A) BY ConcatProperties
<1>2. Append(t, x) = t \o <<x>> BY AppendIsConcat
<1>3. Append(s \o t, x) = (s \o t) \o <<x>> BY <1>1, AppendIsConcat
<1>4. (s \o t) \o <<x>> = s \o (t \o <<x>>)
    <2>1. Regroups(s, t, <<x>>) BY <1>1, Regrouped
    <2> QED BY <2>1 DEF Regroups
<1> QED BY <1>2, <1>3, <1>4

\* Two more.
LEMMA TwoMore ==
    ASSUME NEW A, NEW s \in Seq(A), NEW x \in A, NEW y \in A
    PROVE  <<x, y>> \in Seq(A) /\ s \o <<x, y>> = Append(Append(s, x), y)
<1>1. <<x>> \in Seq(A) /\ <<y>> \in Seq(A) OBVIOUS
<1>2. <<x, y>> = Append(<<x>>, y) OBVIOUS
<1>3. s \o Append(<<x>>, y) = Append(s \o <<x>>, y) BY <1>1, AppendLast
<1>4. s \o <<x>> = Append(s, x) BY AppendIsConcat
<1> QED BY <1>1, <1>2, <1>3, <1>4, AppendProperties

\* All of a sequence.
LEMMA FirstAll ==
    ASSUME NEW A, NEW s \in Seq(A)
    PROVE  First(s, Len(s)) = s
<1>1. First(s, Len(s)) = SubSeq(s, 1, Len(s)) BY DEF First
<1> QED BY <1>1, SubSeqFull

\* The beginning of what is long enough.
LEMMA FirstLength ==
    ASSUME NEW A, NEW s \in Seq(A), NEW n \in Nat, Len(s) >= n
    PROVE  Len(First(s, n)) = n
<1>1. Len(s) \in Nat BY LenProperties
<1>2. Len(First(s, n)) = IF n < Len(s) THEN n ELSE Len(s) BY FirstRest
<1>3. CASE n < Len(s) BY <1>2, <1>3
<1>4. CASE ~(n < Len(s))
    <2>1. ~(Len(s) < n) BY <1>1
    <2>2. Len(s) = n BY <1>1, <1>4, <2>1, NeitherSmaller
    <2> QED BY <1>2, <1>4, <2>2
<1> QED BY <1>3, <1>4

\* The first member by itself.
LEMMA FirstOne ==
    ASSUME NEW A, NEW s \in Seq(A), s # <<>>
    PROVE  First(s, 1) = <<s[1]>> /\ Rest(s, 1) = Tail(s)
<1>1. Rest(s, 1) = Tail(s) BY TailIsSubSeq DEF Rest
<1>2. 0 < Len(s) BY EmptySeq
<1>3. First(s, 0 + 1) = Append(First(s, 0), s[0 + 1]) BY <1>2, RestNext
<1>4. First(s, 0) = <<>>
    <2>1. (IF 0 < Len(s) THEN 0 ELSE Len(s)) = 0 BY <1>2
    <2>2. SubSeq(s, 1, 0) = <<>> BY SubSeqEmpty
    <2> QED BY <2>1, <2>2 DEF First
<1>5. Append(<<>>, s[1]) = <<s[1]>> OBVIOUS
<1>6. 0 + 1 = 1 OBVIOUS
<1> QED BY <1>1, <1>3, <1>4, <1>5, <1>6

\* Prefixes of prefixes.
LEMMA PrefixOf ==
    ASSUME NEW A, NEW s \in Seq(A), NEW t \in Seq(A), NEW u \in Seq(A), IsPrefix(s, t), IsPrefix(t, u)
    PROVE  IsPrefix(s, u)
<1>1. Len(s) \in Nat /\ Len(t) \in Nat /\ Len(u) \in Nat BY LenProperties
<1>2. Len(s) <= Len(t) /\ Same(s, t, Len(s)) BY PrefixIs
<1>3. Len(t) <= Len(u) /\ Same(t, u, Len(t)) BY PrefixIs
<1>4. Same(s, u, Len(s))
    <2>1. \A i \in 1..Len(s) : i \in 1..Len(t) BY <1>1, <1>2
    <2> QED BY <1>2, <1>3, <2>1 DEF Same
<1> QED BY <1>1, <1>2, <1>3, <1>4, PrefixMembers

\* Neighbouring parts of a sequence.
LEMMA Slices ==
    ASSUME NEW A, NEW s \in Seq(A), NEW p \in Nat, NEW q \in Nat, p <= q, q <= Len(s)
    PROVE  /\ SubSeq(s, p + 1, q) \in Seq(A) /\ Len(SubSeq(s, p + 1, q)) = q - p
           /\ SubSeq(s, 1, p) \in Seq(A)
           /\ SubSeq(s, 1, p) \o SubSeq(s, p + 1, q) = SubSeq(s, 1, q)
<1>1. Len(s) \in Nat /\ \A i \in 1..Len(s) : s[i] \in A BY LenProperties, ElementOfSeq
<1>2. 1 \in 1..Len(s) + 1 /\ p \in 1 - 1..Len(s) /\ q \in p..Len(s) BY <1>1
<1>3. SubSeq(s, 1, p) \o SubSeq(s, p + 1, q) = SubSeq(s, 1, q) BY <1>2, ConcatAdjacentSubSeq
<1>4. p + 1 \in Int /\ q \in Int /\ p \in Int /\ 1 \in Int OBVIOUS
<1>5. (\A i \in (p + 1)..q : s[i] \in A) /\ (\A i \in 1..p : s[i] \in A) BY <1>1
<1>6. /\ SubSeq(s, p + 1, q) \in Seq(A)
      /\ Len(SubSeq(s, p + 1, q)) = IF p + 1 <= q THEN q - (p + 1) + 1 ELSE 0
    BY <1>4, <1>5, SubSeqProperties
<1>7. SubSeq(s, 1, p) \in Seq(A) BY <1>4, <1>5, SubSeqProperties
<1> QED BY <1>3, <1>6, <1>7

\* How many chunks are full: n bytes in pieces of k, the last one not empty.
LEMMA FullPieces ==
    ASSUME NEW n \in Nat \ {0}, NEW k \in Nat \ {0}
    PROVE  /\ (n - 1) \div k \in Nat
           /\ ((n - 1) \div k) * k <= n - 1
           /\ n - 1 < ((n - 1) \div k) * k + k
OBVIOUS

\* The multiples of k.
LEMMA Multiples ==
    ASSUME NEW k \in Nat \ {0}, NEW i \in Nat, NEW n \in Nat
    PROVE  /\ i * k \in Nat /\ (i + 1) * k = i * k + k
           /\ i <= n => i * k <= n * k
<1>1. i * k \in Nat OBVIOUS
<1>2. (i + 1) * k = i * k + k OBVIOUS
<1>3. i <= n => i * k <= n * k
    <2>1. SUFFICES ASSUME i <= n PROVE i * k <= n * k OBVIOUS
    <2>2. n * k = i * k + (n - i) * k OBVIOUS
    <2>3. (n - i) * k >= 0 BY <2>1
    <2>4. i * k \in Int /\ (n - i) * k \in Int OBVIOUS
    <2> QED BY <2>2, <2>3, <2>4
<1> QED BY <1>1, <1>2, <1>3
=============================================================================
