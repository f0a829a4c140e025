-------------------------- MODULE LinkPhasesProofs --------------------------
(***************************************************************************)
(* That two edges never fail each other and never mistake a link, for any  *)
(* number of links and any bound on what is under way.                     *)
(*                                                                         *)
(* The argument looks at one number of one local table at a time: at its   *)
(* cell there, at the other side's cell under that number, and at what     *)
(* both channels hold about it, in the order in which it will be read.     *)
(* Whatever both sides do, these are in one of four phases (Phase).        *)
(* At the end, that Links implements LinkLife for every link.              *)
(***************************************************************************)
EXTENDS LinksProofs, LinkLives

-----------------------------------------------------------------------------
(* What a channel says about a number.  The owner of the number names it   *)
(* as j = i, the other side as j = -i.                                     *)

Carries(m, j) == j \in {m.arg.id, m.res.id}
About(m, j) == m.id = j \/ Carries(m, j)

\* m announces link l under the number i, and nothing else about i.
Opens(m, i, l) ==
    [id |-> i, link |-> l] \in {m.arg, m.res} /\ m.arg.id # m.res.id /\ m.id # i

\* m is of one of the types, for link l under the number j.
Says(m, j, l, types) == m.type \in types /\ m.id = j /\ m.link = l /\ ~Carries(m, j)

\* From position a to b nothing is said of j but calls of link l.
Talk(c, a, b, j, l) == \A k \in (a + 1)..b : About(c[k], j) => Says(c[k], j, l, {"call"})

\* From position a to b nothing is said of j but ends.
Ends(c, a, b, j) ==
    \A k \in (a + 1)..b : About(c[k], j) => c[k].type = "end" /\ c[k].id = j /\ ~Carries(c[k], j)

\* From position a on nothing is said of j.
Silent(c, a, j) == \A k \in (a + 1)..Len(c) : ~About(c[k], j)

\* From position a on there are calls of link l, then its one closing message.
Closed(c, a, j, l, types) ==
    \E x \in (a + 1)..Len(c) : Says(c[x], j, l, types) /\ Talk(c, a, x - 1, j, l) /\ Silent(c, x, j)

\* From position a on there is what a side says of a link it uses or closes.
Use(c, a, j, l, zombie, types) ==
    IF zombie THEN Closed(c, a, j, l, types) ELSE Talk(c, a, Len(c), j, l)

\* Up to position b there is what the owner had still to say of a link that it
\* has no more, and of which the other side has a zombie r or nothing.
Past(c, b, i, r, zr) ==
    IF r = NoLink THEN Ends(c, 0, b, i)
    ELSE /\ zr
         /\ \E x \in 1..b : /\ Says(c[x], i, r, {"begin", "end"})
                            /\ Talk(c, 0, x - 1, i, r) /\ Ends(c, x, b, i)

-----------------------------------------------------------------------------
(* The phases.  l and zl are the owner's cell, r and zr the other side's,  *)
(* c is what the owner has under way and d what the other side has.        *)

\* The number is free.
Free(l, r, zr, c, d, i) == l = NoLink /\ Past(c, Len(c), i, r, zr) /\ Silent(d, 0, -i)

\* The link is announced, at position o.
Sent(l, zl, r, zr, c, d, i) ==
    /\ l # NoLink /\ Silent(d, 0, -i)
    /\ \E o \in 1..Len(c) :
        Opens(c[o], i, l) /\ Past(c, o - 1, i, r, zr) /\ Use(c, o, i, l, zl, {"begin"})

\* Both sides have the link.
Joined(l, zl, r, zr, c, d, i) ==
    /\ l # NoLink /\ r = l
    /\ Use(c, 0, i, l, zl, {"begin"}) /\ Use(d, 0, -i, l, zr, {"begin", "result"})

\* The other side is done with the link.
Gone(l, zl, r, c, d, i) ==
    /\ l # NoLink /\ zl /\ r = NoLink
    /\ Silent(c, 0, i) /\ Closed(d, 0, -i, l, {"begin", "result", "end"})

Phase(l, zl, r, zr, c, d, i) ==
    \/ Free(l, r, zr, c, d, i)
    \/ Sent(l, zl, r, zr, c, d, i)
    \/ Joined(l, zl, r, zr, c, d, i)
    \/ Gone(l, zl, r, c, d, i)

\* Every number of e's local table is in one of the phases, seen from the edge
\* e that owns it and the other edge f.
Phases(e, f, c, d) ==
    \A i \in Nat \ {0} :
        Phase(Lookup(e, i), IsZombie(e, i), Lookup(f, -i), IsZombie(f, -i), c, d, i)

AllInPhase == \A p \in Peer : Phases(edge[p], edge[Other(p)], Chan(p), Chan(Other(p)))

-----------------------------------------------------------------------------
(* Channels that grow at the back or lose their first message.             *)

Grown(c, m, g) ==
    /\ Len(c) \in Nat /\ Len(g) = Len(c) + 1
    /\ \A k \in 1..Len(c) : g[k] = c[k]
    /\ g[Len(c) + 1] = m

Shrunk(c, t) ==
    /\ Len(c) \in Nat \ {0} /\ Len(t) = Len(c) - 1
    /\ \A k \in 1..Len(t) : t[k] = c[k + 1]

LEMMA AppendGrows ==
    ASSUME NEW c \in Seq(Message), NEW m \in Message
    PROVE  Grown(c, m, Append(c, m))
BY AppendProperties, LenProperties DEF Grown

LEMMA TailShrinks ==
    ASSUME NEW c \in Seq(Message), c # <<>>
    PROVE  Shrunk(c, Tail(c))
<1>1. Len(c) \in Nat \ {0} BY EmptySeq, LenProperties
<1>2. Len(Tail(c)) = Len(c) - 1 /\ \A k \in 1..Len(Tail(c)) : Tail(c)[k] = c[k + 1]
    BY HeadTailProperties
<1> QED BY <1>1, <1>2 DEF Shrunk

\* What a message may be about.
LEMMA MessageFact ==
    ASSUME NEW m \in Message
    PROVE  /\ m.id \in Int /\ m.arg.id \in Nat /\ m.res.id \in Nat
           /\ m.type \in {"call", "result", "begin", "end"}
           /\ m.type # "call" => m.id # 0 /\ m.link \in Link /\ \A j \in Int \ {0} : ~Carries(m, j)
           /\ \A i \in Nat \ {0} : ~Carries(m, -i)
           /\ \A i \in Nat \ {0} : i = m.arg.id => m.arg = [id |-> i, link |-> m.arg.link] /\ m.arg.link \in Link
           /\ \A i \in Nat \ {0} : i = m.res.id => m.res = [id |-> i, link |-> m.res.link] /\ m.res.link \in Link
<1>1. /\ m.id \in Int /\ m.arg \in Carried /\ m.res \in Carried
      /\ m.type \in {"call", "result", "begin", "end"}
      /\ m.type # "call" => m.id # 0 /\ m.link \in Link /\ m.arg = NoneCarried /\ m.res = NoneCarried
    BY DEF Message, Carried
<1>2. m.arg.id \in Nat /\ m.res.id \in Nat
    BY <1>1 DEF Carried, NoneCarried
<1>3. m.type # "call" => \A j \in Int \ {0} : ~Carries(m, j)
    BY <1>1 DEF Carries, NoneCarried
<1>4. \A i \in Nat \ {0} : ~Carries(m, -i)
    BY <1>2 DEF Carries
<1>5. \A x \in Carried : \A i \in Nat \ {0} : i = x.id => x = [id |-> i, link |-> x.link] /\ x.link \in Link
    BY DEF Carried, NoneCarried
<1> QED BY <1>1, <1>2, <1>3, <1>4, <1>5

-----------------------------------------------------------------------------
(* A channel grows. *)

LEMMA TalkGrows ==
    ASSUME NEW c, NEW m, NEW g, Grown(c, m, g), NEW a \in Nat, NEW b \in Int, b <= Len(c), NEW j, NEW l,
           Talk(c, a, b, j, l)
    PROVE  /\ Talk(g, a, b, j, l)
           /\ b = Len(c) /\ (About(m, j) => Says(m, j, l, {"call"})) => Talk(g, a, b + 1, j, l)
<1>1. \A k \in (a + 1)..b : g[k] = c[k] BY DEF Grown
<1>2. Talk(g, a, b, j, l) BY <1>1 DEF Talk
<1>3. ASSUME b = Len(c), About(m, j) => Says(m, j, l, {"call"}) PROVE Talk(g, a, b + 1, j, l)
    <2> SUFFICES ASSUME NEW k \in (a + 1)..(b + 1), About(g[k], j) PROVE Says(g[k], j, l, {"call"})
        BY DEF Talk
    <2>1. CASE k = b + 1 BY <1>3, <2>1 DEF Grown
    <2>2. CASE k # b + 1
        <3>1. k \in (a + 1)..b BY <2>2
        <3> QED BY <1>2, <3>1 DEF Talk
    <2> QED BY <2>1, <2>2
<1> QED BY <1>2, <1>3

LEMMA EndsGrow ==
    ASSUME NEW c, NEW m, NEW g, Grown(c, m, g), NEW a \in Nat, NEW b \in Int, b <= Len(c), NEW j, Ends(c, a, b, j)
    PROVE  /\ Ends(g, a, b, j)
           /\ b = Len(c) /\ (About(m, j) => m.type = "end" /\ m.id = j /\ ~Carries(m, j)) => Ends(g, a, b + 1, j)
<1>1. \A k \in (a + 1)..b : g[k] = c[k] BY DEF Grown
<1>2. Ends(g, a, b, j) BY <1>1 DEF Ends
<1>3. ASSUME b = Len(c), About(m, j) => m.type = "end" /\ m.id = j /\ ~Carries(m, j) PROVE Ends(g, a, b + 1, j)
    <2> SUFFICES ASSUME NEW k \in (a + 1)..(b + 1), About(g[k], j)
                 PROVE  g[k].type = "end" /\ g[k].id = j /\ ~Carries(g[k], j)
        BY DEF Ends
    <2>1. CASE k = b + 1 BY <1>3, <2>1 DEF Grown
    <2>2. CASE k # b + 1
        <3>1. k \in (a + 1)..b BY <2>2
        <3> QED BY <1>2, <3>1 DEF Ends
    <2> QED BY <2>1, <2>2
<1> QED BY <1>2, <1>3

LEMMA SilentGrows ==
    ASSUME NEW c, NEW m, NEW g, Grown(c, m, g), NEW a \in Nat, NEW j, Silent(c, a, j), ~About(m, j)
    PROVE  Silent(g, a, j)
<1> SUFFICES ASSUME NEW k \in (a + 1)..Len(g) PROVE ~About(g[k], j)
    BY DEF Silent
<1>1. CASE k = Len(c) + 1 BY <1>1 DEF Grown
<1>2. CASE k # Len(c) + 1
    <2>1. k \in (a + 1)..Len(c) /\ k \in 1..Len(c) BY <1>2 DEF Grown
    <2> QED BY <2>1 DEF Grown, Silent
<1> QED BY <1>1, <1>2

LEMMA ClosedGrows ==
    ASSUME NEW c, NEW m, NEW g, Grown(c, m, g), NEW a \in Nat, NEW j, NEW l, NEW types,
           Closed(c, a, j, l, types), ~About(m, j)
    PROVE  Closed(g, a, j, l, types)
<1>1. PICK x \in (a + 1)..Len(c) :
        Says(c[x], j, l, types) /\ Talk(c, a, x - 1, j, l) /\ Silent(c, x, j)
    BY DEF Closed
<1>2. x \in Nat /\ x \in 1..Len(c) /\ x - 1 \in Int /\ x - 1 <= Len(c) /\ x \in (a + 1)..Len(g)
    BY DEF Grown
<1>3. Talk(g, a, x - 1, j, l) BY <1>1, <1>2, TalkGrows
<1>4. Silent(g, x, j) BY <1>1, <1>2, SilentGrows
<1>5. g[x] = c[x] BY <1>2 DEF Grown
<1> QED BY <1>1, <1>2, <1>3, <1>4, <1>5 DEF Closed

\* The message that closes what was in use.
LEMMA ClosedNow ==
    ASSUME NEW c, NEW m, NEW g, Grown(c, m, g), NEW a \in Nat, a <= Len(c), NEW j, NEW l, NEW types,
           Talk(c, a, Len(c), j, l), Says(m, j, l, types)
    PROVE  Closed(g, a, j, l, types)
<1> DEFINE x == Len(c) + 1
<1>1. x \in (a + 1)..Len(g) /\ g[x] = m /\ Len(c) \in Int BY DEF Grown
<1>2. Talk(g, a, x - 1, j, l) BY <1>1, TalkGrows DEF Grown
<1>3. Silent(g, x, j) BY DEF Grown, Silent
<1> HIDE DEF x
<1> QED BY <1>1, <1>2, <1>3 DEF Closed

LEMMA UseGrows ==
    ASSUME NEW c, NEW m, NEW g, Grown(c, m, g), NEW a \in Nat, NEW j, NEW l, NEW z, NEW types,
           Use(c, a, j, l, z, types), ~About(m, j) \/ (~z /\ Says(m, j, l, {"call"}))
    PROVE  Use(g, a, j, l, z, types)
<1>1. CASE z BY <1>1, ClosedGrows DEF Use
<1>2. CASE ~z
    <2>1. Len(c) \in Int /\ Len(g) = Len(c) + 1 BY DEF Grown
    <2>2. Talk(c, a, Len(c), j, l) BY <1>2 DEF Use
    <2>3. Talk(g, a, Len(c) + 1, j, l) BY <2>1, <2>2, TalkGrows
    <2> QED BY <1>2, <2>1, <2>3 DEF Use
<1> QED BY <1>1, <1>2

LEMMA PastGrows ==
    ASSUME NEW c, NEW m, NEW g, Grown(c, m, g), NEW b \in Nat, b <= Len(c), NEW i, NEW r, NEW zr,
           Past(c, b, i, r, zr)
    PROVE  /\ Past(g, b, i, r, zr)
           /\ b = Len(c) /\ (About(m, i) => m.type = "end" /\ m.id = i /\ ~Carries(m, i)) => Past(g, b + 1, i, r, zr)
<1>1. CASE r = NoLink
    BY <1>1, EndsGrow DEF Past
<1>2. CASE r # NoLink
    <2>1. PICK x \in 1..b : /\ Says(c[x], i, r, {"begin", "end"})
                            /\ Talk(c, 0, x - 1, i, r) /\ Ends(c, x, b, i)
        BY <1>2 DEF Past
    <2>2. x \in Nat /\ x - 1 \in Int /\ x - 1 <= Len(c) /\ g[x] = c[x] BY DEF Grown
    <2>3. Talk(g, 0, x - 1, i, r) BY <2>1, <2>2, TalkGrows
    <2>4. /\ Ends(g, x, b, i)
          /\ b = Len(c) /\ (About(m, i) => m.type = "end" /\ m.id = i /\ ~Carries(m, i)) => Ends(g, x, b + 1, i)
        BY <2>1, <2>2, EndsGrow
    <2>5. x \in 1..(b + 1) OBVIOUS
    <2> QED BY <1>2, <2>1, <2>2, <2>3, <2>4, <2>5 DEF Past
<1> QED BY <1>1, <1>2

-----------------------------------------------------------------------------
(* A channel loses its first message.                                      *)

LEMMA TalkShrinks ==
    ASSUME NEW c, NEW t, Shrunk(c, t), NEW a \in Nat, NEW b \in Int, b <= Len(c), NEW j, NEW l, Talk(c, a, b, j, l)
    PROVE  /\ a > 0 => Talk(t, a - 1, b - 1, j, l)
           /\ a = 0 => Talk(t, 0, b - 1, j, l)
<1> SUFFICES ASSUME NEW k \in 1..(b - 1), k > a - 1, About(t[k], j) PROVE Says(t[k], j, l, {"call"})
    BY DEF Talk
<1>1. k \in 1..Len(t) /\ k + 1 \in (a + 1)..b BY DEF Shrunk
<1>2. t[k] = c[k + 1] BY <1>1 DEF Shrunk
<1> QED BY <1>1, <1>2 DEF Talk

LEMMA EndsShrink ==
    ASSUME NEW c, NEW t, Shrunk(c, t), NEW a \in Nat, NEW b \in Int, b <= Len(c), NEW j, Ends(c, a, b, j)
    PROVE  /\ a > 0 => Ends(t, a - 1, b - 1, j)
           /\ a = 0 => Ends(t, 0, b - 1, j)
<1> SUFFICES ASSUME NEW k \in 1..(b - 1), k > a - 1, About(t[k], j)
             PROVE  t[k].type = "end" /\ t[k].id = j /\ ~Carries(t[k], j)
    BY DEF Ends
<1>1. k \in 1..Len(t) /\ k + 1 \in (a + 1)..b BY DEF Shrunk
<1>2. t[k] = c[k + 1] BY <1>1 DEF Shrunk
<1> QED BY <1>1, <1>2 DEF Ends

LEMMA SilentShrinks ==
    ASSUME NEW c, NEW t, Shrunk(c, t), NEW a \in Nat, NEW j, Silent(c, a, j)
    PROVE  /\ a > 0 => Silent(t, a - 1, j)
           /\ a = 0 => Silent(t, 0, j)
<1> SUFFICES ASSUME NEW k \in 1..Len(t), k > a - 1 PROVE ~About(t[k], j)
    BY DEF Silent
<1>1. k + 1 \in (a + 1)..Len(c) /\ t[k] = c[k + 1] BY DEF Shrunk
<1> QED BY <1>1 DEF Silent

\* Either the closing message was not the first one, or all is said.
LEMMA ClosedShrinks ==
    ASSUME NEW c, NEW t, Shrunk(c, t), NEW a \in Nat, NEW j, NEW l, NEW types, Closed(c, a, j, l, types)
    PROVE  /\ a > 0 => Closed(t, a - 1, j, l, types)
           /\ a = 0 => \/ Says(c[1], j, l, {"call"}) /\ Closed(t, 0, j, l, types)
                       \/ Says(c[1], j, l, types) /\ Silent(t, 0, j)
                       \/ ~About(c[1], j) /\ Closed(t, 0, j, l, types)
<1>1. PICK x \in (a + 1)..Len(c) :
        Says(c[x], j, l, types) /\ Talk(c, a, x - 1, j, l) /\ Silent(c, x, j)
    BY DEF Closed
<1>2. x \in Nat /\ x - 1 \in Int /\ x - 1 <= Len(c) /\ x > 0 OBVIOUS
<1>3. Silent(t, x - 1, j) BY <1>1, <1>2, SilentShrinks
<1>4. CASE a > 0
    <2>1. Talk(t, a - 1, (x - 1) - 1, j, l) BY <1>1, <1>2, <1>4, TalkShrinks
    <2>2. x - 1 \in ((a - 1) + 1)..Len(t) /\ t[x - 1] = c[x] BY <1>4 DEF Shrunk
    <2> QED BY <1>1, <1>3, <1>4, <2>1, <2>2 DEF Closed
<1>5. CASE a = 0 /\ x = 1
    BY <1>1, <1>3, <1>5
<1>6. CASE a = 0 /\ x # 1
    <2>1. Talk(t, 0, (x - 1) - 1, j, l) BY <1>1, <1>2, <1>6, TalkShrinks
    <2>2. x - 1 \in (0 + 1)..Len(t) /\ t[x - 1] = c[x] BY <1>6 DEF Shrunk
    <2>3. Closed(t, 0, j, l, types) BY <1>1, <1>3, <2>1, <2>2 DEF Closed
    <2>4. About(c[1], j) => Says(c[1], j, l, {"call"})
        <3>1. 1 \in (a + 1)..(x - 1) BY <1>6
        <3> QED BY <1>1, <3>1 DEF Talk
    <2> QED BY <1>6, <2>3, <2>4
<1> QED BY <1>4, <1>5, <1>6

LEMMA UseShrinks ==
    ASSUME NEW c, NEW t, Shrunk(c, t), NEW a \in Nat, NEW j, NEW l, NEW z, NEW types, Use(c, a, j, l, z, types)
    PROVE  /\ a > 0 => Use(t, a - 1, j, l, z, types)
           /\ a = 0 => \/ Says(c[1], j, l, {"call"}) /\ Use(t, 0, j, l, z, types)
                       \/ z /\ Says(c[1], j, l, types) /\ Silent(t, 0, j)
                       \/ ~About(c[1], j) /\ Use(t, 0, j, l, z, types)
<1>1. CASE z BY <1>1, ClosedShrinks DEF Use
<1>2. CASE ~z
    <2>1. Len(c) \in Int /\ Len(t) = Len(c) - 1 BY DEF Shrunk
    <2>2. Talk(c, a, Len(c), j, l) BY <1>2 DEF Use
    <2>3. /\ a > 0 => Talk(t, a - 1, Len(t), j, l)
          /\ a = 0 => Talk(t, 0, Len(t), j, l)
        BY <2>1, <2>2, TalkShrinks
    <2>4. a = 0 /\ About(c[1], j) => Says(c[1], j, l, {"call"})
        <3>1. a = 0 => 1 \in (a + 1)..Len(c) BY DEF Shrunk
        <3> QED BY <2>2, <3>1 DEF Talk
    <2> QED BY <1>2, <2>3, <2>4 DEF Use
<1> QED BY <1>1, <1>2

\* What is first said of a number about which only the past is left to say.
LEMMA PastShrinks ==
    ASSUME NEW c, NEW t, Shrunk(c, t), NEW b \in Nat, 0 < b, b <= Len(c), NEW i, NEW r, NEW zr,
           Past(c, b, i, r, zr)
    PROVE  \/ ~About(c[1], i) /\ Past(t, b - 1, i, r, zr)
           \/ /\ r # NoLink /\ zr /\ Says(c[1], i, r, {"call"})
              /\ Past(t, b - 1, i, r, zr)
           \/ /\ r # NoLink /\ zr /\ Says(c[1], i, r, {"begin", "end"})
              /\ \A z : Past(t, b - 1, i, NoLink, z)
           \/ /\ r = NoLink /\ c[1].type = "end" /\ c[1].id = i /\ ~Carries(c[1], i)
              /\ Past(t, b - 1, i, r, zr)
<1>1. CASE r = NoLink
    <2>1. Ends(c, 0, b, i) BY <1>1 DEF Past
    <2>2. Ends(t, 0, b - 1, i) BY <2>1, EndsShrink
    <2>3. About(c[1], i) => c[1].type = "end" /\ c[1].id = i /\ ~Carries(c[1], i)
        <3>1. 1 \in (0 + 1)..b OBVIOUS
        <3> QED BY <2>1, <3>1 DEF Ends
    <2> QED BY <1>1, <2>2, <2>3 DEF Past
<1>2. CASE r # NoLink
    <2>1. PICK x \in 1..b : /\ Says(c[x], i, r, {"begin", "end"})
                            /\ Talk(c, 0, x - 1, i, r) /\ Ends(c, x, b, i)
        BY <1>2 DEF Past
    <2>2. zr BY <1>2 DEF Past
    <2>3. x \in Nat /\ x - 1 \in Int /\ x - 1 <= Len(c) /\ x > 0 OBVIOUS
    <2>4. Ends(t, x - 1, b - 1, i) BY <2>1, <2>3, EndsShrink
    <2>5. CASE x = 1
        <3>1. \A z : Past(t, b - 1, i, NoLink, z) BY <2>4, <2>5 DEF Past
        <3> QED BY <1>2, <2>1, <2>2, <2>5, <3>1
    <2>6. CASE x # 1
        <3>1. Talk(t, 0, (x - 1) - 1, i, r) BY <2>1, <2>3, TalkShrinks
        <3>2. x - 1 \in 1..(b - 1) /\ t[x - 1] = c[x] BY <2>6 DEF Shrunk
        <3>3. Past(t, b - 1, i, r, zr) BY <1>2, <2>1, <2>2, <2>4, <3>1, <3>2 DEF Past
        <3>4. About(c[1], i) => Says(c[1], i, r, {"call"})
            <4>1. 1 \in (0 + 1)..(x - 1) BY <2>6
            <4> QED BY <2>1, <4>1 DEF Talk
        <3> QED BY <1>2, <2>2, <3>3, <3>4
    <2> QED BY <2>5, <2>6
<1> QED BY <1>1, <1>2


-----------------------------------------------------------------------------
(* The phases under what the two sides may write.                          *)

\* The owner writes nothing about the number, or calls the link it holds.
LEMMA OwnerWrites ==
    ASSUME NEW c, NEW m, NEW g, Grown(c, m, g), NEW d, NEW l, NEW zl, NEW r, NEW zr, NEW i \in Nat \ {0},
           Phase(l, zl, r, zr, c, d, i),
           ~About(m, i) \/ (l # NoLink /\ ~zl /\ Says(m, i, l, {"call"}))
    PROVE  Phase(l, zl, r, zr, g, d, i)
<1>1. Len(c) \in Nat /\ Len(g) = Len(c) + 1 /\ \A k \in 1..Len(c) : g[k] = c[k] BY DEF Grown
<1>2. CASE Free(l, r, zr, c, d, i)
    <2>1. Past(g, Len(c) + 1, i, r, zr) BY <1>1, <1>2, PastGrows DEF Free
    <2> QED BY <1>1, <1>2, <2>1 DEF Free, Phase
<1>3. CASE Sent(l, zl, r, zr, c, d, i)
    <2>1. PICK o \in 1..Len(c) :
            Opens(c[o], i, l) /\ Past(c, o - 1, i, r, zr) /\ Use(c, o, i, l, zl, {"begin"})
        BY <1>3 DEF Sent
    <2>2. o \in Nat /\ o - 1 \in Nat /\ o - 1 <= Len(c) /\ o \in 1..Len(g) /\ g[o] = c[o] BY <1>1
    <2>3. Past(g, o - 1, i, r, zr) BY <2>1, <2>2, PastGrows
    <2>4. Use(g, o, i, l, zl, {"begin"}) BY <2>1, <2>2, UseGrows
    <2> QED BY <1>3, <2>1, <2>2, <2>3, <2>4 DEF Sent, Phase
<1>4. CASE Joined(l, zl, r, zr, c, d, i)
    <2>1. Use(g, 0, i, l, zl, {"begin"}) BY <1>4, UseGrows DEF Joined
    <2> QED BY <1>4, <2>1 DEF Joined, Phase
<1>5. CASE Gone(l, zl, r, c, d, i)
    <2>1. Silent(g, 0, i) BY <1>5, SilentGrows DEF Gone
    <2> QED BY <1>5, <2>1 DEF Gone, Phase
<1> QED BY <1>2, <1>3, <1>4, <1>5 DEF Phase

\* The owner uses the free number for a link it announces.
LEMMA OwnerOpens ==
    ASSUME NEW c, NEW m, NEW g, Grown(c, m, g), NEW d, NEW l, NEW zl, NEW r, NEW zr, NEW i \in Nat \ {0},
           Phase(NoLink, zl, r, zr, c, d, i), l # NoLink, Opens(m, i, l)
    PROVE  Phase(l, FALSE, r, zr, g, d, i)
<1>1. Free(NoLink, r, zr, c, d, i) BY DEF Phase, Sent, Joined, Gone
<1>2. Len(c) \in Nat /\ Len(g) = Len(c) + 1 /\ g[Len(c) + 1] = m BY DEF Grown
<1> DEFINE o == Len(c) + 1
<1>3. o \in 1..Len(g) /\ o - 1 = Len(c) /\ g[o] = m BY <1>2
<1>4. Past(g, Len(c), i, r, zr) BY <1>1, <1>2, PastGrows DEF Free
<1>5. Use(g, o, i, l, FALSE, {"begin"}) BY <1>2 DEF Use, Talk
<1> HIDE DEF o
<1>6. Sent(l, FALSE, r, zr, g, d, i) BY <1>1, <1>3, <1>4, <1>5 DEF Sent, Free
<1> QED BY <1>6 DEF Phase

\* The owner begins the removal of its link.
LEMMA OwnerCloses ==
    ASSUME NEW c, NEW m, NEW g, Grown(c, m, g), NEW d, NEW l, NEW zl, NEW r, NEW zr, NEW i \in Nat \ {0},
           Phase(l, zl, r, zr, c, d, i), l # NoLink, zl = FALSE, Says(m, i, l, {"begin"}), NEW w, w = TRUE
    PROVE  Phase(l, w, r, zr, g, d, i)
<1>1. Len(c) \in Nat /\ Len(g) = Len(c) + 1 /\ \A k \in 1..Len(c) : g[k] = c[k] BY DEF Grown
<1>2. CASE Sent(l, zl, r, zr, c, d, i)
    <2>1. PICK o \in 1..Len(c) :
            Opens(c[o], i, l) /\ Past(c, o - 1, i, r, zr) /\ Use(c, o, i, l, zl, {"begin"})
        BY <1>2 DEF Sent
    <2>2. o \in Nat /\ o - 1 \in Nat /\ o <= Len(c) /\ o - 1 <= Len(c) /\ o \in 1..Len(g) /\ g[o] = c[o] BY <1>1
    <2>3. Past(g, o - 1, i, r, zr) BY <2>1, <2>2, PastGrows
    <2>4. Talk(c, o, Len(c), i, l) BY <2>1 DEF Use
    <2>5. Closed(g, o, i, l, {"begin"}) BY <2>2, <2>4, ClosedNow
    <2>6. Use(g, o, i, l, w, {"begin"}) BY <2>5 DEF Use
    <2> QED BY <1>2, <2>1, <2>2, <2>3, <2>6 DEF Sent, Phase
<1>3. CASE Joined(l, zl, r, zr, c, d, i)
    <2>1. Talk(c, 0, Len(c), i, l) BY <1>3 DEF Joined, Use
    <2>2. Closed(g, 0, i, l, {"begin"}) BY <1>1, <2>1, ClosedNow
    <2>3. Use(g, 0, i, l, w, {"begin"}) BY <2>2 DEF Use
    <2> QED BY <1>3, <2>3 DEF Joined, Phase
<1> QED BY <1>2, <1>3 DEF Phase, Free, Gone

\* The other side writes nothing about the number, or calls the link it holds.
LEMMA OtherWrites ==
    ASSUME NEW d, NEW m, NEW g, Grown(d, m, g), NEW c, NEW l, NEW zl, NEW r, NEW zr, NEW i \in Nat \ {0},
           Phase(l, zl, r, zr, c, d, i),
           ~About(m, -i) \/ (r # NoLink /\ ~zr /\ Says(m, -i, r, {"call"}))
    PROVE  Phase(l, zl, r, zr, c, g, i)
<1>1. CASE Free(l, r, zr, c, d, i)
    <2>1. Silent(g, 0, -i) BY <1>1, SilentGrows DEF Free, Past
    <2> QED BY <1>1, <2>1 DEF Free, Phase
<1>2. CASE Sent(l, zl, r, zr, c, d, i)
    <2>1. r # NoLink => zr BY <1>2 DEF Sent, Past
    <2>2. Silent(g, 0, -i) BY <1>2, <2>1, SilentGrows DEF Sent
    <2> QED BY <1>2, <2>2 DEF Sent, Phase
<1>3. CASE Joined(l, zl, r, zr, c, d, i)
    <2>1. Use(g, 0, -i, l, zr, {"begin", "result"}) BY <1>3, UseGrows DEF Joined
    <2> QED BY <1>3, <2>1 DEF Joined, Phase
<1>4. CASE Gone(l, zl, r, c, d, i)
    <2>1. Closed(g, 0, -i, l, {"begin", "result", "end"}) BY <1>4, ClosedGrows DEF Gone
    <2> QED BY <1>4, <2>1 DEF Gone, Phase
<1> QED BY <1>1, <1>2, <1>3, <1>4 DEF Phase

\* The other side begins the removal of its link.
LEMMA OtherCloses ==
    ASSUME NEW d, NEW m, NEW g, Grown(d, m, g), NEW c, NEW l, NEW zl, NEW r, NEW zr, NEW i \in Nat \ {0},
           Phase(l, zl, r, zr, c, d, i), r # NoLink, zr = FALSE, Says(m, -i, r, {"begin", "result"}), NEW w, w = TRUE
    PROVE  Phase(l, zl, r, w, c, g, i)
<1>1. Joined(l, zl, r, zr, c, d, i) BY DEF Phase, Free, Sent, Gone, Past
<1>2. Talk(d, 0, Len(d), -i, r) BY <1>1 DEF Joined, Use
<1>3. Closed(g, 0, -i, r, {"begin", "result"}) BY <1>2, ClosedNow DEF Grown
<1> QED BY <1>1, <1>3 DEF Joined, Use, Phase

-----------------------------------------------------------------------------
(* The phases under what the two sides read.                               *)

\* Either side reads what is not about the number.
LEMMA OthersRead ==
    ASSUME NEW c, NEW t, Shrunk(c, t), NEW d, NEW l, NEW zl, NEW r, NEW zr, NEW i \in Nat \ {0}
    PROVE  /\ Phase(l, zl, r, zr, c, d, i) /\ ~About(c[1], i) => Phase(l, zl, r, zr, t, d, i)
           /\ Phase(l, zl, r, zr, d, c, i) /\ ~About(c[1], -i) => Phase(l, zl, r, zr, d, t, i)
<1>1. Len(c) \in Nat \ {0} /\ Len(t) = Len(c) - 1 /\ Len(t) \in Nat /\ \A k \in 1..Len(t) : t[k] = c[k + 1]
    BY DEF Shrunk
<1>2. ASSUME Phase(l, zl, r, zr, c, d, i), ~About(c[1], i) PROVE Phase(l, zl, r, zr, t, d, i)
    <2>1. CASE Free(l, r, zr, c, d, i)
        <3>1. Past(t, Len(c) - 1, i, r, zr) BY <1>1, <1>2, <2>1, PastShrinks DEF Free, Says, About
        <3> QED BY <1>1, <2>1, <3>1 DEF Free, Phase
    <2>2. CASE Sent(l, zl, r, zr, c, d, i)
        <3>1. PICK o \in 1..Len(c) :
                Opens(c[o], i, l) /\ Past(c, o - 1, i, r, zr) /\ Use(c, o, i, l, zl, {"begin"})
            BY <2>2 DEF Sent
        <3>2. o # 1 BY <1>2, <3>1 DEF Opens, About, Carries
        <3>3. o \in Nat /\ o > 0 /\ o - 1 \in Nat /\ 0 < o - 1 /\ o - 1 <= Len(c)
              /\ o - 1 \in 1..Len(t) /\ t[o - 1] = c[o]
            BY <1>1, <3>2
        <3>4. Past(t, (o - 1) - 1, i, r, zr) BY <1>2, <3>1, <3>3, PastShrinks DEF Says, About
        <3>5. Use(t, o - 1, i, l, zl, {"begin"}) BY <3>1, <3>3, UseShrinks
        <3> QED BY <2>2, <3>1, <3>3, <3>4, <3>5 DEF Sent, Phase
    <2>3. CASE Joined(l, zl, r, zr, c, d, i)
        <3>1. Use(t, 0, i, l, zl, {"begin"}) BY <1>2, <2>3, UseShrinks DEF Joined, Says, About
        <3> QED BY <2>3, <3>1 DEF Joined, Phase
    <2>4. CASE Gone(l, zl, r, c, d, i)
        <3>1. Silent(t, 0, i) BY <2>4, SilentShrinks DEF Gone
        <3> QED BY <2>4, <3>1 DEF Gone, Phase
    <2> QED BY <1>2, <2>1, <2>2, <2>3, <2>4 DEF Phase
<1>3. ASSUME Phase(l, zl, r, zr, d, c, i), ~About(c[1], -i) PROVE Phase(l, zl, r, zr, d, t, i)
    <2>1. Silent(c, 0, -i) => Silent(t, 0, -i) BY SilentShrinks
    <2>2. CASE Free(l, r, zr, d, c, i) BY <2>1, <2>2 DEF Free, Phase
    <2>3. CASE Sent(l, zl, r, zr, d, c, i) BY <2>1, <2>3 DEF Sent, Phase
    <2>4. CASE Joined(l, zl, r, zr, d, c, i)
        <3>1. Use(t, 0, -i, l, zr, {"begin", "result"}) BY <1>3, <2>4, UseShrinks DEF Joined, Says, About
        <3> QED BY <2>4, <3>1 DEF Joined, Phase
    <2>5. CASE Gone(l, zl, r, d, c, i)
        <3>1. Closed(t, 0, -i, l, {"begin", "result", "end"})
            BY <1>3, <2>5, ClosedShrinks DEF Gone, Says, About
        <3> QED BY <2>5, <3>1 DEF Gone, Phase
    <2> QED BY <1>3, <2>2, <2>3, <2>4, <2>5 DEF Phase
<1> QED BY <1>2, <1>3

\* A link whose removal the owner has begun is past once its cell is given up.
LEMMA ClosedIsPast ==
    ASSUME NEW c, NEW l, l # NoLink, NEW zr, zr, NEW i \in Nat \ {0}, Closed(c, 0, i, l, {"begin"})
    PROVE  Past(c, Len(c), i, l, zr)
<1>1. PICK x \in 1..Len(c) : Says(c[x], i, l, {"begin"}) /\ Talk(c, 0, x - 1, i, l) /\ Silent(c, x, i)
    BY DEF Closed
<1>2. Says(c[x], i, l, {"begin", "end"}) /\ Ends(c, x, Len(c), i) BY <1>1 DEF Says, Silent, Ends
<1> QED BY <1>1, <1>2 DEF Past

\* What the owner has still to say once it has given up its cell.
LEMMA PastNow ==
    ASSUME NEW c, NEW m, NEW g, Grown(c, m, g), NEW l, l # NoLink, NEW z, NEW zr, zr, NEW i \in Nat \ {0}
    PROVE  /\ Use(c, 0, i, l, z, {"begin"}) /\ Says(m, i, l, {"end"}) => Past(g, Len(g), i, l, zr)
           /\ \A w : Silent(c, 0, i) /\ Says(m, i, l, {"end"}) => Past(g, Len(g), i, NoLink, w)
<1>1. Len(c) \in Nat /\ Len(g) = Len(c) + 1 BY DEF Grown
<1>2. Says(m, i, l, {"end"}) => m.type = "end" /\ m.id = i /\ ~Carries(m, i) BY DEF Says
<1>3. ASSUME Use(c, 0, i, l, z, {"begin"}), Says(m, i, l, {"end"}) PROVE Past(g, Len(g), i, l, zr)
    <2>1. CASE z
        <3>1. Past(c, Len(c), i, l, zr) BY <1>3, <2>1, ClosedIsPast DEF Use
        <3>2. \A w : Past(c, Len(c), i, l, w) => Past(g, Len(c) + 1, i, l, w) BY <1>1, <1>2, <1>3, PastGrows
        <3>3. Past(g, Len(c) + 1, i, l, zr) BY <3>1, <3>2, Zenon
        <3>4. Len(g) = Len(c) + 1 BY <1>1
        <3> QED BY <3>3, <3>4, Zenon
    <2>2. CASE ~z
        <3> DEFINE x == Len(c) + 1
        <3>1. Talk(c, 0, Len(c), i, l) BY <1>3, <2>2 DEF Use
        <3>2. Talk(g, 0, Len(c), i, l) BY <1>1, <3>1, TalkGrows
        <3>3. x \in 1..Len(g) /\ x - 1 = Len(c) /\ g[x] = m BY <1>1 DEF Grown
        <3>4. Ends(g, x, Len(g), i) BY <1>1 DEF Ends
        <3>5. Says(g[x], i, l, {"begin", "end"}) BY <1>3, <3>3 DEF Says
        <3> HIDE DEF x
        <3> QED BY <3>2, <3>3, <3>4, <3>5 DEF Past
    <2> QED BY <2>1, <2>2
<1>4. Silent(c, 0, i) => Ends(c, 0, Len(c), i) BY DEF Silent, Ends
<1>5. Silent(c, 0, i) /\ Says(m, i, l, {"end"}) => Ends(g, 0, Len(g), i)
    BY <1>1, <1>4, EndsGrow DEF Says
<1> QED BY <1>3, <1>4, <1>5 DEF Past

\* The owner reads what the other side says of its number.
LEMMA OwnerReads ==
    ASSUME NEW d, NEW t, Shrunk(d, t), NEW c, NEW l, NEW zl, NEW r, NEW zr, NEW i \in Nat \ {0},
           Phase(l, zl, r, zr, c, d, i), About(d[1], -i), Len(c) \in Nat
    PROVE  /\ l # NoLink /\ d[1].id = -i /\ d[1].link = l
           /\ d[1].type = "call" => Phase(l, zl, r, zr, c, t, i)
           /\ d[1].type = "end" => zl
           /\ d[1].type # "call" /\ zl => \A z : Phase(NoLink, z, r, zr, c, t, i)
           /\ d[1].type \in {"result", "begin"} =>
                \A g, m : Grown(c, m, g) /\ Says(m, i, l, {"end"}) =>
                    \A z : Phase(NoLink, z, r, zr, g, t, i)
<1>1. ~Silent(d, 0, -i)
    <2>1. 1 \in (0 + 1)..Len(d) BY DEF Shrunk
    <2> QED BY <2>1 DEF Silent
<1>2. CASE Joined(l, zl, r, zr, c, d, i)
    <2>1. /\ l # NoLink /\ r = l /\ Use(c, 0, i, l, zl, {"begin"})
          /\ Use(d, 0, -i, l, zr, {"begin", "result"})
        BY <1>2 DEF Joined
    <2>2. \/ Says(d[1], -i, l, {"call"}) /\ Use(t, 0, -i, l, zr, {"begin", "result"})
          \/ zr /\ Says(d[1], -i, l, {"begin", "result"}) /\ Silent(t, 0, -i)
        BY <2>1, UseShrinks
    <2>3. CASE Says(d[1], -i, l, {"call"}) /\ Use(t, 0, -i, l, zr, {"begin", "result"})
        BY <1>2, <2>1, <2>3 DEF Says, Joined, Phase
    <2>4. CASE zr /\ Says(d[1], -i, l, {"begin", "result"}) /\ Silent(t, 0, -i)
        <3>1. ASSUME zl PROVE \A z : Phase(NoLink, z, r, zr, c, t, i)
            <4>1. Closed(c, 0, i, l, {"begin"}) BY <2>1, <3>1 DEF Use
            <4>2. Past(c, Len(c), i, l, zr) BY <2>1, <2>4, <4>1, ClosedIsPast
            <4> QED BY <2>1, <2>4, <4>2 DEF Free, Phase
        <3>2. ASSUME NEW g, NEW m, Grown(c, m, g), Says(m, i, l, {"end"})
              PROVE  \A z : Phase(NoLink, z, r, zr, g, t, i)
            <4>1. Past(g, Len(g), i, l, zr) BY <2>1, <2>4, <3>2, PastNow
            <4> QED BY <2>1, <2>4, <4>1 DEF Free, Phase
        <3> QED BY <2>1, <2>4, <3>1, <3>2 DEF Says
    <2> QED BY <2>2, <2>3, <2>4
<1>3. CASE Gone(l, zl, r, c, d, i)
    <2>1. l # NoLink /\ zl /\ r = NoLink /\ Silent(c, 0, i) /\ Closed(d, 0, -i, l, {"begin", "result", "end"})
        BY <1>3 DEF Gone
    <2>2. \/ Says(d[1], -i, l, {"call"}) /\ Closed(t, 0, -i, l, {"begin", "result", "end"})
          \/ Says(d[1], -i, l, {"begin", "result", "end"}) /\ Silent(t, 0, -i)
        BY <2>1, ClosedShrinks
    <2>3. CASE Says(d[1], -i, l, {"call"}) /\ Closed(t, 0, -i, l, {"begin", "result", "end"})
        BY <2>1, <2>3 DEF Says, Gone, Phase
    <2>4. CASE Says(d[1], -i, l, {"begin", "result", "end"}) /\ Silent(t, 0, -i)
        <3>1. \A z : Phase(NoLink, z, r, zr, c, t, i)
            BY <2>1, <2>4 DEF Silent, Ends, Past, Free, Phase
        <3>2. ASSUME NEW g, NEW m, Grown(c, m, g), Says(m, i, l, {"end"})
              PROVE  \A z : Phase(NoLink, z, r, zr, g, t, i)
            <4>1. \A z : Past(g, Len(g), i, NoLink, z) BY <2>1, <3>2, PastNow
            <4> QED BY <2>1, <2>4, <4>1 DEF Free, Phase
        <3> QED BY <2>1, <2>4, <3>1, <3>2 DEF Says
    <2> QED BY <2>2, <2>3, <2>4
<1> QED BY <1>1, <1>2, <1>3 DEF Phase, Free, Sent

\* The other side reads that the owner announces a link under the number.
LEMMA OtherOpens ==
    ASSUME NEW c, NEW t, Shrunk(c, t), NEW d, NEW l, NEW zl, NEW r, NEW zr, NEW i \in Nat \ {0},
           Phase(l, zl, r, zr, c, d, i), Carries(c[1], i)
    PROVE  l # NoLink /\ r = NoLink /\ Opens(c[1], i, l) /\ Phase(l, zl, l, FALSE, t, d, i)
<1>1. Len(c) \in Nat \ {0} /\ Len(t) = Len(c) - 1 BY DEF Shrunk
<1>2. About(c[1], i) BY DEF About
<1>3. CASE Free(l, r, zr, c, d, i) BY <1>1, <1>2, <1>3, PastShrinks DEF Free, Says
<1>4. CASE Sent(l, zl, r, zr, c, d, i)
    <2>1. PICK o \in 1..Len(c) :
            Opens(c[o], i, l) /\ Past(c, o - 1, i, r, zr) /\ Use(c, o, i, l, zl, {"begin"})
        BY <1>4 DEF Sent
    <2>2. l # NoLink /\ Silent(d, 0, -i) BY <1>4 DEF Sent
    <2>3. CASE o = 1
        <3>1. r = NoLink BY <2>1, <2>3 DEF Past
        <3>2. Use(t, 0, i, l, zl, {"begin"})
            <4>1. 1 \in Nat /\ 1 > 0 /\ Use(c, 1, i, l, zl, {"begin"}) BY <2>1, <2>3
            <4>2. Use(t, 1 - 1, i, l, zl, {"begin"}) BY <4>1, UseShrinks
            <4> QED BY <4>2
        <3>3. Talk(d, 0, Len(d), -i, l) BY <2>2 DEF Silent, Talk
        <3>4. Joined(l, zl, l, FALSE, t, d, i) BY <2>2, <3>2, <3>3 DEF Joined, Use
        <3> QED BY <2>1, <2>2, <2>3, <3>1, <3>4 DEF Phase
    <2>4. CASE o # 1
        <3>1. o - 1 \in Nat /\ 0 < o - 1 /\ o - 1 <= Len(c) BY <1>1, <2>4
        <3> QED BY <1>2, <2>1, <3>1, PastShrinks DEF Says
    <2> QED BY <2>3, <2>4
<1>5. CASE Joined(l, zl, r, zr, c, d, i) BY <1>2, <1>5, UseShrinks DEF Joined, Says
<1>6. CASE Gone(l, zl, r, c, d, i)
    <2>1. 1 \in (0 + 1)..Len(c) BY <1>1
    <2> QED BY <1>2, <1>6, <2>1 DEF Gone, Silent
<1> QED BY <1>3, <1>4, <1>5, <1>6 DEF Phase

\* The other side reads what else the owner says of the number.
LEMMA OtherReads ==
    ASSUME NEW c, NEW t, Shrunk(c, t), NEW d, NEW l, NEW zl, NEW r, NEW zr, NEW i \in Nat \ {0},
           Phase(l, zl, r, zr, c, d, i), About(c[1], i), ~Carries(c[1], i), Len(d) \in Nat
    PROVE  /\ c[1].id = i /\ c[1].type # "result"
           /\ c[1].type = "call" => r # NoLink /\ c[1].link = r /\ Phase(l, zl, r, zr, t, d, i)
           /\ c[1].type = "begin" => r # NoLink /\ c[1].link = r
           /\ c[1].type = "end" /\ r # NoLink => zr /\ c[1].link = r
           /\ c[1].type = "end" /\ r = NoLink => Phase(l, zl, r, zr, t, d, i)
           /\ c[1].type # "call" /\ zr /\ r # NoLink => \A z : Phase(l, zl, NoLink, z, t, d, i)
           /\ c[1].type = "begin" /\ ~zr =>
                \A g, m : Grown(d, m, g) /\ Says(m, -i, r, {"end"}) =>
                    \A z : Phase(l, zl, NoLink, z, t, g, i)
<1>1. Len(c) \in Nat \ {0} /\ Len(t) = Len(c) - 1 /\ Len(t) \in Nat /\ \A k \in 1..Len(t) : t[k] = c[k + 1]
    BY DEF Shrunk
<1>2. CASE Free(l, r, zr, c, d, i)
    <2>1. l = NoLink /\ Past(c, Len(c), i, r, zr) /\ Silent(d, 0, -i) BY <1>2 DEF Free
    <2>2. \/ /\ r # NoLink /\ zr /\ Says(c[1], i, r, {"call"})
             /\ Past(t, Len(t), i, r, zr)
          \/ /\ r # NoLink /\ zr /\ Says(c[1], i, r, {"begin", "end"})
             /\ \A z : Past(t, Len(t), i, NoLink, z)
          \/ /\ r = NoLink /\ c[1].type = "end" /\ c[1].id = i /\ ~Carries(c[1], i)
             /\ Past(t, Len(t), i, r, zr)
        BY <1>1, <2>1, PastShrinks
    <2> QED BY <2>1, <2>2 DEF Says, Free, Phase
<1>3. CASE Sent(l, zl, r, zr, c, d, i)
    <2>1. PICK o \in 1..Len(c) :
            Opens(c[o], i, l) /\ Past(c, o - 1, i, r, zr) /\ Use(c, o, i, l, zl, {"begin"})
        BY <1>3 DEF Sent
    <2>2. l # NoLink /\ Silent(d, 0, -i) BY <1>3 DEF Sent
    <2>3. o # 1 BY <2>1 DEF Opens, Carries
    <2>4. CASE o # 1
        <3>1. o \in Nat /\ o > 0 /\ o - 1 \in Nat /\ 0 < o - 1 /\ o - 1 <= Len(c)
              /\ o - 1 \in 1..Len(t) /\ t[o - 1] = c[o]
            BY <1>1, <2>4
        <3>2. Use(t, o - 1, i, l, zl, {"begin"}) BY <2>1, <3>1, UseShrinks
        <3>3. \/ /\ r # NoLink /\ zr /\ Says(c[1], i, r, {"call"})
                 /\ Past(t, (o - 1) - 1, i, r, zr)
              \/ /\ r # NoLink /\ zr /\ Says(c[1], i, r, {"begin", "end"})
                 /\ \A z : Past(t, (o - 1) - 1, i, NoLink, z)
              \/ /\ r = NoLink /\ c[1].type = "end" /\ c[1].id = i /\ ~Carries(c[1], i)
                 /\ Past(t, (o - 1) - 1, i, r, zr)
            BY <2>1, <3>1, PastShrinks
        <3>4. \A x, z : Past(t, (o - 1) - 1, i, x, z) => Phase(l, zl, x, z, t, d, i)
            BY <2>1, <2>2, <3>1, <3>2 DEF Sent, Phase
        <3> QED BY <3>3, <3>4 DEF Says
    <2> QED BY <2>3, <2>4
<1>4. CASE Joined(l, zl, r, zr, c, d, i)
    <2>1. /\ l # NoLink /\ r = l /\ Use(c, 0, i, l, zl, {"begin"})
          /\ Use(d, 0, -i, l, zr, {"begin", "result"})
        BY <1>4 DEF Joined
    <2>2. \/ Says(c[1], i, l, {"call"}) /\ Use(t, 0, i, l, zl, {"begin"})
          \/ zl /\ Says(c[1], i, l, {"begin"}) /\ Silent(t, 0, i)
        BY <2>1, UseShrinks
    <2>3. CASE Says(c[1], i, l, {"call"}) /\ Use(t, 0, i, l, zl, {"begin"})
        BY <2>1, <2>3 DEF Says, Joined, Phase
    <2>4. CASE zl /\ Says(c[1], i, l, {"begin"}) /\ Silent(t, 0, i)
        <3>1. ASSUME zr PROVE \A z : Phase(l, zl, NoLink, z, t, d, i)
            <4>1. Closed(d, 0, -i, l, {"begin", "result"}) BY <2>1, <3>1 DEF Use
            <4>2. Closed(d, 0, -i, l, {"begin", "result", "end"}) BY <4>1 DEF Closed, Says
            <4> QED BY <2>1, <2>4, <4>2 DEF Gone, Phase
        <3>2. ASSUME ~zr, NEW g, NEW m, Grown(d, m, g), Says(m, -i, r, {"end"})
              PROVE  \A z : Phase(l, zl, NoLink, z, t, g, i)
            <4>1. Talk(d, 0, Len(d), -i, l) BY <2>1, <3>2 DEF Use
            <4>2. Says(m, -i, l, {"begin", "result", "end"}) BY <2>1, <3>2 DEF Says
            <4>3. Closed(g, 0, -i, l, {"begin", "result", "end"}) BY <3>2, <4>1, <4>2, ClosedNow
            <4> QED BY <2>1, <2>4, <4>3 DEF Gone, Phase
        <3> QED BY <2>1, <2>4, <3>1, <3>2 DEF Says
    <2> QED BY <2>2, <2>3, <2>4
<1>5. CASE Gone(l, zl, r, c, d, i)
    <2>1. 1 \in (0 + 1)..Len(c) BY <1>1
    <2> QED BY <1>5, <2>1 DEF Gone, Silent
<1> QED BY <1>2, <1>3, <1>4, <1>5 DEF Phase

-----------------------------------------------------------------------------
(* From the phases of one number to a step of the two edges.               *)

LEMMA OtherTwice ==
    ASSUME NEW p \in Peer
    PROVE  Other(p) \in Peer /\ Other(p) # p /\ Other(Other(p)) = p
BY OtherPeer

LEMMA ChanType ==
    ASSUME TypeOK, NEW p \in Peer
    PROVE  Chan(p) \in Seq(Message) /\ Len(Chan(p)) \in Nat
<1>1. inp[Other(p)] \in Seq(Message) /\ wire[p] \in Seq(Message) /\ out[p] \in Seq(Message)
    BY OtherTwice DEF TypeOK
<1>2. Chan(p) \in Seq(Message) BY <1>1, ConcatProperties DEF Chan
<1> QED BY <1>2, LenProperties

\* p has a new edge e, and c and d are what both sides have under way.
LEMMA PhaseStep ==
    ASSUME TypeOK, NEW p \in Peer, NEW e, NEW c, NEW d,
           edge' = [edge EXCEPT ![p] = e], Chan(p)' = c, Chan(Other(p))' = d,
           Phases(e, edge[Other(p)], c, d), Phases(edge[Other(p)], e, d, c)
    PROVE  AllInPhase'
<1> DEFINE q == Other(p)
<1>1. q \in Peer /\ q # p /\ Other(q) = p /\ \A x \in Peer : x = p \/ x = q BY OtherTwice, OtherPeer
<1>2. edge'[p] = e /\ edge'[q] = edge[q] BY <1>1 DEF TypeOK
<1> QED BY <1>1, <1>2 DEF AllInPhase

\* The same facts before the step.
LEMMA PhaseNow ==
    ASSUME AllInPhase, NEW p \in Peer
    PROVE  /\ Phases(edge[p], edge[Other(p)], Chan(p), Chan(Other(p)))
           /\ Phases(edge[Other(p)], edge[p], Chan(Other(p)), Chan(p))
BY OtherTwice DEF AllInPhase

LEMMA FramePhases ==
    ASSUME AllInPhase, edge' = edge, \A p \in Peer : Chan(p)' = Chan(p)
    PROVE  AllInPhase'
<1> SUFFICES ASSUME NEW p \in Peer
             PROVE  Phases(edge[p], edge[Other(p)], Chan(p), Chan(Other(p)))'
    BY DEF AllInPhase
<1>1. Chan(p)' = Chan(p) /\ Chan(Other(p))' = Chan(Other(p)) BY OtherTwice
<1> QED BY <1>1 DEF AllInPhase

LEMMA AppendLast ==
    ASSUME NEW v \in Seq(Message), NEW w \in Seq(Message), NEW m \in Message
    PROVE  v \o Append(w, m) = Append(v \o w, m)
<1>1. <<m>> \in Seq(Message) /\ v \o w \in Seq(Message) BY ConcatProperties
<1>2. Append(w, m) = w \o <<m>> /\ Append(v \o w, m) = (v \o w) \o <<m>> BY <1>1, AppendIsConcat
<1>3. v \o (w \o <<m>>) = (v \o w) \o <<m>> BY <1>1, MessagesAssociate
<1> QED BY <1>2, <1>3

LEMMA HeadThenTail ==
    ASSUME NEW h \in Seq(Message), h # <<>>, NEW v \in Seq(Message)
    PROVE  /\ h \o v \in Seq(Message) /\ h \o v # <<>>
           /\ Head(h) \in Message /\ (h \o v)[1] = Head(h) /\ Head(h \o v) = Head(h)
           /\ Tail(h) \in Seq(Message) /\ Tail(h \o v) = Tail(h) \o v
<1> DEFINE a == h \o v
           x == Tail(a)
           y == Tail(h) \o v
<1>1. Len(h) \in Nat \ {0} /\ Len(v) \in Nat BY EmptySeq, LenProperties
<1>2. /\ a \in Seq(Message) /\ Len(a) = Len(h) + Len(v)
      /\ \A i \in 1..Len(h) + Len(v) : a[i] = IF i <= Len(h) THEN h[i] ELSE v[i - Len(h)]
    BY ConcatProperties
<1>3. /\ Head(h) \in Message /\ Tail(h) \in Seq(Message) /\ Len(Tail(h)) = Len(h) - 1
      /\ \A i \in 1..Len(Tail(h)) : Tail(h)[i] = h[i + 1]
    BY HeadTailProperties
<1>4. /\ y \in Seq(Message) /\ Len(y) = Len(Tail(h)) + Len(v)
      /\ \A i \in 1..Len(Tail(h)) + Len(v) : y[i] = IF i <= Len(Tail(h)) THEN Tail(h)[i] ELSE v[i - Len(Tail(h))]
    BY <1>3, ConcatProperties
<1>5. Head(h) = h[1] OBVIOUS
<1> HIDE DEF a, y
<1>6. a # <<>> BY <1>1, <1>2
<1>7. /\ x \in Seq(Message) /\ Len(x) = Len(a) - 1 /\ \A i \in 1..Len(x) : x[i] = a[i + 1]
    BY <1>2, <1>6, HeadTailProperties
<1> HIDE DEF x
<1>8. a[1] = h[1] /\ Head(a) = a[1] BY <1>1, <1>2
<1>9. Len(x) = Len(y) BY <1>1, <1>2, <1>3, <1>4, <1>7
<1>10. ASSUME NEW i \in 1..Len(x) PROVE x[i] = y[i]
    <2>1. i \in Nat /\ i + 1 \in 1..Len(h) + Len(v) /\ i \in 1..Len(Tail(h)) + Len(v) BY <1>1, <1>2, <1>3, <1>7
    <2>2. CASE i <= Len(Tail(h))
        <3>1. i \in 1..Len(Tail(h)) /\ i + 1 <= Len(h) BY <1>1, <1>3, <2>1, <2>2
        <3> QED BY <1>2, <1>3, <1>4, <1>7, <2>1, <2>2, <3>1
    <2>3. CASE ~(i <= Len(Tail(h)))
        <3>1. ~(i + 1 <= Len(h)) /\ (i + 1) - Len(h) = i - Len(Tail(h)) BY <1>1, <1>3, <2>1, <2>3
        <3>2. x[i] = v[(i + 1) - Len(h)] BY <1>2, <1>7, <2>1, <3>1
        <3>3. y[i] = v[i - Len(Tail(h))] BY <1>4, <2>1, <2>3
        <3> QED BY <3>1, <3>2, <3>3
    <2> QED BY <2>2, <2>3
<1>11. x = y BY <1>4, <1>7, <1>9, <1>10, SeqEqual
<1> QED BY <1>2, <1>3, <1>5, <1>6, <1>8, <1>11 DEF a, x, y

\* What p writes is the last message of its channel.
LEMMA ChanWrites ==
    ASSUME TypeOK, NEW p \in Peer, NEW m \in Message,
           out' = [out EXCEPT ![p] = Append(@, m)], UNCHANGED <<wire, inp>>
    PROVE  Chan(p)' = Append(Chan(p), m) /\ Chan(Other(p))' = Chan(Other(p))
<1> DEFINE q == Other(p)
<1>1. q \in Peer /\ q # p BY OtherTwice
<1>2. out'[p] = Append(out[p], m) /\ out'[q] = out[q] BY <1>1 DEF TypeOK
<1>3. out[p] \in Seq(Message) /\ wire[p] \in Seq(Message) /\ inp[q] \in Seq(Message) BY <1>1 DEF TypeOK
<1>4. inp[q] \o wire[p] \in Seq(Message) BY <1>3, ConcatProperties
<1>5. (inp[q] \o wire[p]) \o Append(out[p], m) = Append((inp[q] \o wire[p]) \o out[p], m)
    BY <1>3, <1>4, AppendLast
<1>6. Chan(p)' = (inp[q] \o wire[p]) \o Append(out[p], m) BY <1>2 DEF Chan
<1>7. Chan(q)' = Chan(q) BY <1>2 DEF Chan
<1> QED BY <1>5, <1>6, <1>7 DEF Chan

\* What p reads is the first message of the other side's channel.
LEMMA ChanReads ==
    ASSUME TypeOK, NEW p \in Peer, inp[p] # <<>>, Consume(p), UNCHANGED wire
    PROVE  /\ Chan(Other(p)) # <<>> /\ Chan(Other(p))[1] = Head(inp[p]) /\ Head(inp[p]) \in Message
           /\ UNCHANGED out => Chan(Other(p))' = Tail(Chan(Other(p))) /\ Chan(p)' = Chan(p)
           /\ \A m \in Message : out' = [out EXCEPT ![p] = Append(@, m)] =>
                Chan(Other(p))' = Tail(Chan(Other(p))) /\ Chan(p)' = Append(Chan(p), m)
<1> DEFINE q == Other(p)
<1>1. q \in Peer /\ q # p /\ Other(q) = p BY OtherTwice
<1>2. /\ inp[p] \in Seq(Message) /\ wire[q] \in Seq(Message) /\ out[q] \in Seq(Message)
      /\ inp[q] \in Seq(Message) /\ wire[p] \in Seq(Message) /\ out[p] \in Seq(Message)
    BY <1>1 DEF TypeOK
<1>3. inp'[p] = Tail(inp[p]) /\ inp'[q] = inp[q] BY <1>1 DEF Consume, TypeOK
<1>4. /\ inp[p] \o wire[q] \in Seq(Message) /\ inp[p] \o wire[q] # <<>>
      /\ Head(inp[p]) \in Message /\ (inp[p] \o wire[q])[1] = Head(inp[p])
      /\ Tail(inp[p] \o wire[q]) = Tail(inp[p]) \o wire[q]
    BY <1>2, HeadThenTail
<1>5. /\ (inp[p] \o wire[q]) \o out[q] # <<>>
      /\ ((inp[p] \o wire[q]) \o out[q])[1] = Head(inp[p] \o wire[q])
      /\ Tail((inp[p] \o wire[q]) \o out[q]) = Tail(inp[p] \o wire[q]) \o out[q]
    BY <1>2, <1>4, HeadThenTail
<1>6. Chan(q) = (inp[p] \o wire[q]) \o out[q] BY <1>1 DEF Chan
<1>7. Head(inp[p] \o wire[q]) = Head(inp[p]) BY <1>2, HeadThenTail
<1>8. ASSUME out'[q] = out[q] PROVE Chan(q)' = Tail(Chan(q))
    <2>1. Chan(q)' = (inp'[Other(q)] \o wire'[q]) \o out'[q] BY Zenon DEF Chan
    <2>2. Chan(q)' = (Tail(inp[p]) \o wire[q]) \o out[q] BY <1>1, <1>3, <1>8, <2>1
    <2> QED BY <1>4, <1>5, <1>6, <2>2
<1>9. UNCHANGED out => Chan(p)' = Chan(p) BY <1>3 DEF Chan
<1>10. ASSUME NEW m \in Message, out' = [out EXCEPT ![p] = Append(@, m)]
       PROVE  Chan(p)' = Append(Chan(p), m) /\ out'[q] = out[q]
    <2>1. out'[p] = Append(out[p], m) /\ out'[q] = out[q] BY <1>1, <1>10 DEF TypeOK
    <2>2. inp[q] \o wire[p] \in Seq(Message) BY <1>2, ConcatProperties
    <2>3. (inp[q] \o wire[p]) \o Append(out[p], m) = Append((inp[q] \o wire[p]) \o out[p], m)
        BY <1>2, <2>2, AppendLast
    <2> QED BY <1>3, <2>1, <2>3 DEF Chan
<1> QED BY <1>4, <1>5, <1>6, <1>7, <1>8, <1>9, <1>10

-----------------------------------------------------------------------------
(* Steps in which a side writes.                                           *)

\* The two links a call announces get two numbers that were free.
LEMMA TwoEmplaced ==
    ASSUME NEW t \in LocalTable, LocalSound(t), NEW a \in Link \cup {NoLink}, NEW r \in Link \cup {NoLink}
    PROVE  LET ta == Emplaced(t, a)
               x == CarriedFor(t, a)
               y == CarriedFor(ta, r)
           IN  /\ Emplaced(ta, r).zombie = t.zombie
               /\ x \in Carried /\ y \in Carried
               /\ x.id # 0 => x = [id |-> x.id, link |-> a] /\ a # NoLink /\ Get(t, x.id) = NoLink /\ x.id # y.id
               /\ y.id # 0 => y = [id |-> y.id, link |-> r] /\ r # NoLink /\ Get(t, y.id) = NoLink
               /\ \A k \in Nat \ {0} :
                    Get(Emplaced(ta, r), k) = IF k = x.id THEN a ELSE IF k = y.id THEN r ELSE Get(t, k)
<1>1. ASSUME NEW u \in LocalTable, LocalSound(u), NEW l \in Link \cup {NoLink}
      PROVE  /\ Emplaced(u, l) \in LocalTable /\ LocalSound(Emplaced(u, l))
             /\ CarriedFor(u, l) \in Carried
             /\ Emplaced(u, l).zombie = u.zombie
             /\ CarriedFor(u, l).id # 0 =>
                  /\ CarriedFor(u, l) = [id |-> CarriedFor(u, l).id, link |-> l]
                  /\ l # NoLink /\ Get(u, CarriedFor(u, l).id) = NoLink
             /\ \A k \in Nat \ {0} :
                  Get(Emplaced(u, l), k) = IF k = CarriedFor(u, l).id THEN l ELSE Get(u, k)
    <2>1. CASE l = NoLink
        BY <1>1, <2>1 DEF Emplaced, CarriedFor, NoneCarried, Carried
    <2>2. CASE l \in Link
        <3>1. /\ NextLocalId(u) \in Nat \ {0} /\ ~Occupied(u, NextLocalId(u))
              /\ LocalEmplaced(u, l).zombie = u.zombie
              /\ \A k \in Int : Get(LocalEmplaced(u, l), k) = IF k = NextLocalId(u) THEN l ELSE Get(u, k)
            BY <1>1, <2>2, LocalEmplaceFact
        <3>2. Emplaced(u, l) = LocalEmplaced(u, l) /\ CarriedFor(u, l) = [id |-> NextLocalId(u), link |-> l] /\ l # NoLink
            BY <2>2, NoLinkAssumption DEF Emplaced, CarriedFor
        <3>3. Emplaced(u, l) \in LocalTable /\ LocalSound(Emplaced(u, l)) /\ CarriedFor(u, l) \in Carried
            BY <1>1, EmplacedFact
        <3> QED BY <3>1, <3>2, <3>3 DEF Occupied
    <2> QED BY <2>1, <2>2
<1> DEFINE ta == Emplaced(t, a)
           x == CarriedFor(t, a)
           y == CarriedFor(ta, r)
<1>2. /\ ta \in LocalTable /\ LocalSound(ta) /\ x \in Carried /\ ta.zombie = t.zombie
      /\ x.id # 0 => x = [id |-> x.id, link |-> a] /\ a # NoLink /\ Get(t, x.id) = NoLink
      /\ \A k \in Nat \ {0} : Get(ta, k) = IF k = x.id THEN a ELSE Get(t, k)
    BY <1>1
<1>3. /\ y \in Carried /\ Emplaced(ta, r).zombie = ta.zombie
      /\ y.id # 0 => y = [id |-> y.id, link |-> r] /\ r # NoLink /\ Get(ta, y.id) = NoLink
      /\ \A k \in Nat \ {0} : Get(Emplaced(ta, r), k) = IF k = y.id THEN r ELSE Get(ta, k)
    BY <1>1, <1>2
<1> HIDE DEF ta, x, y
<1>4. x.id \in Nat /\ y.id \in Nat BY <1>2, <1>3 DEF Carried, NoneCarried
<1>5. x.id # 0 => x.id # y.id BY <1>2, <1>3, <1>4
<1>6. y.id # 0 => Get(t, y.id) = NoLink BY <1>2, <1>3, <1>4, <1>5
<1> QED BY <1>2, <1>3, <1>4, <1>5, <1>6 DEF ta, x, y

LEMMA ZombieBoolean ==
    ASSUME NEW e, NEW k \in Int
    PROVE  IsZombie(e, k) \in BOOLEAN
<1>1. CASE k > 0 BY <1>1 DEF IsZombie
<1>2. CASE ~(k > 0) BY <1>2 DEF IsZombie
<1> QED BY <1>1, <1>2

\* An empty cell is no zombie.
LEMMA EmptyNoZombie ==
    ASSUME NEW e \in Edge, EdgeSound(e), NEW k \in Int, Lookup(e, k) = NoLink
    PROVE  ~IsZombie(e, k)
<1>1. /\ \A i \in e.local.zombie : Get(e.local, i) # NoLink
      /\ \A i \in e.remote.zombie : Get(e.remote, i) # NoLink
    BY DEF EdgeSound, LocalSound, RemoteSound, ZombiesOccupied, Occupied
<1>2. CASE k > 0 BY <1>1, <1>2 DEF Lookup, IsZombie
<1>3. CASE ~(k > 0) BY <1>1, <1>3 DEF Lookup, IsZombie
<1> QED BY <1>2, <1>3

\* e becomes u when it sends the call m to the duty object or to a link in use:
\* the links that m announces get numbers that were free.
Announces(e, u, m) ==
    /\ m.type = "call"
    /\ m.id # 0 => m.link = Lookup(e, m.id) /\ m.link # NoLink /\ ~IsZombie(e, m.id)
    /\ m.arg.id # 0 => m.arg.link # NoLink /\ Lookup(e, m.arg.id) = NoLink /\ m.arg.id # m.res.id
    /\ m.res.id # 0 => m.res.link # NoLink /\ Lookup(e, m.res.id) = NoLink
    /\ \A k \in Int \ {0} : IsZombie(u, k) <=> IsZombie(e, k)
    /\ \A k \in Int \ {0} : Lookup(u, k) = IF k = m.arg.id THEN m.arg.link
                                           ELSE IF k = m.res.id THEN m.res.link ELSE Lookup(e, k)

LEMMA CallWritten ==
    ASSUME NEW e \in Edge, EdgeSound(e), NEW f, NEW c, NEW d, NEW g, NEW m \in Message, Grown(c, m, g),
           Phases(e, f, c, d), Phases(f, e, d, c), NEW u, Announces(e, u, m)
    PROVE  Phases(u, f, g, d) /\ Phases(f, u, d, g)
<1> USE DEF Announces
<1>1. m.id \in Int /\ m.arg.id \in Nat /\ m.res.id \in Nat
      /\ \A i \in Nat \ {0} : /\ i = m.arg.id => m.arg = [id |-> i, link |-> m.arg.link]
                              /\ i = m.res.id => m.res = [id |-> i, link |-> m.res.link]
    BY MessageFact
<1>2. \A k \in Int \ {0} : IsZombie(u, k) = IsZombie(e, k) BY ZombieBoolean
<1>3. ASSUME NEW i \in Nat \ {0}
      PROVE  Phase(Lookup(u, i), IsZombie(u, i), Lookup(f, -i), IsZombie(f, -i), g, d, i)
    <2>1. Phase(Lookup(e, i), IsZombie(e, i), Lookup(f, -i), IsZombie(f, -i), c, d, i) BY DEF Phases
    <2>2. i \in Int \ {0} /\ IsZombie(u, i) = IsZombie(e, i) BY <1>2
    <2>3. CASE Carries(m, i)
        <3>1. Lookup(e, i) = NoLink /\ Lookup(u, i) # NoLink /\ Opens(m, i, Lookup(u, i))
            <4>1. m.id # i BY <2>2, <2>3 DEF Carries
            <4>2. CASE i = m.arg.id
                <5>1. Lookup(u, i) = m.arg.link BY <2>2, <4>2
                <5>2. m.arg = [id |-> i, link |-> m.arg.link] BY <1>1, <4>2
                <5> QED BY <4>1, <4>2, <5>1, <5>2 DEF Opens
            <4>3. CASE i = m.res.id /\ i # m.arg.id
                <5>1. Lookup(u, i) = m.res.link BY <2>2, <4>3
                <5>2. m.res = [id |-> i, link |-> m.res.link] BY <1>1, <4>3
                <5> QED BY <4>1, <4>3, <5>1, <5>2 DEF Opens
            <4> QED BY <2>3, <4>2, <4>3 DEF Carries
        <3>2. IsZombie(u, i) = FALSE BY <2>2, <3>1, EmptyNoZombie, ZombieBoolean
        <3>3. Phase(NoLink, IsZombie(e, i), Lookup(f, -i), IsZombie(f, -i), c, d, i) BY <2>1, <3>1
        <3>4. Phase(Lookup(u, i), FALSE, Lookup(f, -i), IsZombie(f, -i), g, d, i) BY <3>1, <3>3, OwnerOpens
        <3> QED BY <3>2, <3>4
    <2>4. CASE ~Carries(m, i)
        <3>1. Lookup(u, i) = Lookup(e, i) BY <2>2, <2>4 DEF Carries
        <3>2. \/ ~About(m, i)
              \/ Lookup(e, i) # NoLink /\ ~IsZombie(e, i) /\ Says(m, i, Lookup(e, i), {"call"})
            BY <2>4 DEF About, Says
        <3>3. Phase(Lookup(e, i), IsZombie(e, i), Lookup(f, -i), IsZombie(f, -i), g, d, i)
            BY <2>1, <3>2, OwnerWrites
        <3> QED BY <2>2, <3>1, <3>3
    <2> QED BY <2>3, <2>4
<1>4. ASSUME NEW i \in Nat \ {0}
      PROVE  Phase(Lookup(f, i), IsZombie(f, i), Lookup(u, -i), IsZombie(u, -i), d, g, i)
    <2>1. Phase(Lookup(f, i), IsZombie(f, i), Lookup(e, -i), IsZombie(e, -i), d, c, i) BY DEF Phases
    <2>2. -i \in Int \ {0} /\ IsZombie(u, -i) = IsZombie(e, -i) BY <1>2
    <2>3. Lookup(u, -i) = Lookup(e, -i) BY <1>1, <2>2
    <2>4. \/ ~About(m, -i)
          \/ Lookup(e, -i) # NoLink /\ ~IsZombie(e, -i) /\ Says(m, -i, Lookup(e, -i), {"call"})
        BY <1>1 DEF About, Says, Carries
    <2>5. Phase(Lookup(f, i), IsZombie(f, i), Lookup(e, -i), IsZombie(e, -i), d, g, i)
        BY <2>1, <2>4, OtherWrites
    <2> QED BY <2>2, <2>3, <2>5
<1> QED BY <1>3, <1>4 DEF Phases

\* p has a new edge u and writes m.
Writes(p, u, m) ==
    /\ edge' = [edge EXCEPT ![p] = u]
    /\ Chan(p)' = Append(Chan(p), m) /\ Chan(Other(p))' = Chan(Other(p))
    /\ m \in Message /\ Grown(Chan(p), m, Append(Chan(p), m))

\* What a call does to the sender's edge, and the links it may announce.
LEMMA SendCallWrites ==
    ASSUME TypedAndSound, NEW p \in Peer, NEW id \in Int,
           NEW target \in Link \cup {NoLink},
           NEW a \in Link \cup {NoLink}, NEW r \in Link \cup {NoLink},
           id # 0 => target = Lookup(edge[p], id) /\ target # NoLink /\ ~IsZombie(edge[p], id),
           SendCall(p, id, target, a, r)
    PROVE  \E u, m : /\ Writes(p, u, m) /\ Announces(edge[p], u, m)
                     /\ m.arg.link \in {a, NoLink} /\ m.res.link \in {r, NoLink}
<1> DEFINE q == Other(p)
           t == edge[p].local
           ta == Emplaced(t, a)
           tr == Emplaced(ta, r)
           x == CarriedFor(t, a)
           y == CarriedFor(ta, r)
           m == CallMsg(id, target, x, y)
           e == [edge[p] EXCEPT !.local = tr]
           g == Append(Chan(p), m)
<1>1. TypeOK /\ edge[p] \in Edge /\ EdgeSound(edge[p]) /\ t \in LocalTable /\ LocalSound(t)
    BY DEF TypedAndSound, TypeOK, TablesSound, Edge, EdgeSound
<1>2. /\ tr.zombie = t.zombie /\ x \in Carried /\ y \in Carried
      /\ x.id # 0 => x = [id |-> x.id, link |-> a] /\ a # NoLink /\ Get(t, x.id) = NoLink /\ x.id # y.id
      /\ y.id # 0 => y = [id |-> y.id, link |-> r] /\ r # NoLink /\ Get(t, y.id) = NoLink
      /\ \A k \in Nat \ {0} : Get(tr, k) = IF k = x.id THEN a ELSE IF k = y.id THEN r ELSE Get(t, k)
    BY <1>1, TwoEmplaced
<1>3. /\ edge' = [edge EXCEPT ![p] = e] /\ out' = [out EXCEPT ![p] = Append(@, m)]
      /\ UNCHANGED <<wire, inp>>
    BY DEF SendCall
<1>4. /\ m.type = "call" /\ m.id = id /\ m.link = target /\ m.arg = x /\ m.res = y
    BY DEF CallMsg
<1>5. m \in Message BY <1>2 DEF CallMsg, Message
<1>6. e.local = tr /\ e.remote = edge[p].remote BY <1>1 DEF Edge
<1>7. x.id \in Nat /\ y.id \in Nat BY <1>2 DEF Carried, NoneCarried
<1>8. Lookup(edge[p], x.id) = IF x.id = 0 THEN Lookup(edge[p], 0) ELSE Get(t, x.id) BY <1>7 DEF Lookup
<1>9. Lookup(edge[p], y.id) = IF y.id = 0 THEN Lookup(edge[p], 0) ELSE Get(t, y.id) BY <1>7 DEF Lookup
<1> HIDE DEF t, ta, tr, x, y, m, e, g
<1>10. \A k \in Int \ {0} : IsZombie(e, k) <=> IsZombie(edge[p], k)
    BY <1>2, <1>6 DEF IsZombie, t
<1>11. x.link = a \/ x.id = 0 BY <1>2
<1>12. y.link = r \/ y.id = 0 BY <1>2
<1>13. \A k \in Int \ {0} : Lookup(e, k) = IF k = x.id THEN x.link ELSE IF k = y.id THEN y.link ELSE Lookup(edge[p], k)
    <2> SUFFICES ASSUME NEW k \in Int \ {0}
                 PROVE  Lookup(e, k) = IF k = x.id THEN x.link ELSE IF k = y.id THEN y.link ELSE Lookup(edge[p], k)
        OBVIOUS
    <2>1. CASE k > 0 BY <1>2, <1>6, <1>11, <1>12, <2>1 DEF Lookup, t
    <2>2. CASE ~(k > 0) BY <1>6, <1>7, <2>2 DEF Lookup
    <2> QED BY <2>1, <2>2
<1>14. Chan(p)' = g /\ Chan(q)' = Chan(q) BY <1>1, <1>3, <1>5, ChanWrites DEF g
<1>15. Grown(Chan(p), m, g) BY <1>1, <1>5, ChanType, AppendGrows DEF g
<1>16. Writes(p, e, m) BY <1>3, <1>5, <1>14, <1>15 DEF Writes, g
<1>17. Announces(edge[p], e, m)
    BY <1>2, <1>4, <1>8, <1>9, <1>10, <1>11, <1>12, <1>13 DEF Announces
<1>18. x.link \in {a, NoLink} /\ y.link \in {r, NoLink}
    BY <1>2, <1>11, <1>12 DEF Carried, NoneCarried
<1> QED BY <1>4, <1>16, <1>17, <1>18

\* A call that is put out leaves every number in a phase: the numbers of the
\* links it carries were free, and are sent now.
LEMMA SendCallPhases ==
    ASSUME TypedAndSound, AllInPhase, NEW p \in Peer, NEW u, NEW m, Writes(p, u, m), Announces(edge[p], u, m)
    PROVE  AllInPhase'
<1>1. TypeOK /\ edge[p] \in Edge /\ EdgeSound(edge[p])
    BY DEF TypedAndSound, TypeOK, TablesSound, EdgeSound
<1>2. Phases(edge[p], edge[Other(p)], Chan(p), Chan(Other(p))) /\ Phases(edge[Other(p)], edge[p], Chan(Other(p)), Chan(p))
    BY PhaseNow
<1> DEFINE g == Append(Chan(p), m)
<1>3. m \in Message /\ Grown(Chan(p), m, g) BY DEF Writes
<1> HIDE DEF g
<1>4. Phases(u, edge[Other(p)], g, Chan(Other(p))) /\ Phases(edge[Other(p)], u, Chan(Other(p)), g)
    BY <1>1, <1>2, <1>3, CallWritten
<1> QED BY <1>1, <1>4, PhaseStep DEF Writes, g

\* e becomes u when it begins the removal of a link in use, of which m tells.
Begins(e, u, m) ==
    /\ m.type \in {"begin", "result"}
    /\ m.id > 0 => m.type = "begin"
    /\ m.link = Lookup(e, m.id) /\ m.link # NoLink /\ ~IsZombie(e, m.id)
    /\ \A k \in Int \ {0} : Lookup(u, k) = Lookup(e, k) /\ (IsZombie(u, k) <=> k = m.id \/ IsZombie(e, k))

LEMMA BeginWritten ==
    ASSUME NEW e, NEW f, NEW c, NEW d, NEW g, NEW m \in Message, Grown(c, m, g),
           Phases(e, f, c, d), Phases(f, e, d, c), NEW u, Begins(e, u, m)
    PROVE  Phases(u, f, g, d) /\ Phases(f, u, d, g)
<1> USE DEF Begins
<1>1. m.id \in Int \ {0} /\ \A j \in Int \ {0} : ~Carries(m, j) BY MessageFact
<1>2. \A k \in Int \ {0} : IsZombie(u, k) = IF k = m.id THEN TRUE ELSE IsZombie(e, k) BY ZombieBoolean
<1>3. IsZombie(e, m.id) = FALSE BY <1>1, ZombieBoolean
<1>4. ASSUME NEW i \in Nat \ {0}
      PROVE  Phase(Lookup(u, i), IsZombie(u, i), Lookup(f, -i), IsZombie(f, -i), g, d, i)
    <2>1. Phase(Lookup(e, i), IsZombie(e, i), Lookup(f, -i), IsZombie(f, -i), c, d, i) BY DEF Phases
    <2>2. i \in Int \ {0} /\ Lookup(u, i) = Lookup(e, i) OBVIOUS
    <2>3. CASE i = m.id
        <3>1. Says(m, i, Lookup(e, i), {"begin"}) /\ Lookup(e, i) # NoLink /\ IsZombie(e, i) = FALSE
            BY <1>1, <1>3, <2>3 DEF Says
        <3>2. IsZombie(u, i) = TRUE BY <1>2, <2>2, <2>3
        <3>3. Phase(Lookup(e, i), IsZombie(u, i), Lookup(f, -i), IsZombie(f, -i), g, d, i)
            BY <2>1, <3>1, <3>2, OwnerCloses
        <3> QED BY <2>2, <3>3
    <2>4. CASE i # m.id
        <3>1. ~About(m, i) BY <1>1, <2>2, <2>4 DEF About
        <3>2. Phase(Lookup(e, i), IsZombie(e, i), Lookup(f, -i), IsZombie(f, -i), g, d, i)
            BY <2>1, <3>1, OwnerWrites
        <3>3. IsZombie(u, i) = IsZombie(e, i) BY <1>2, <2>2, <2>4
        <3> QED BY <2>2, <3>2, <3>3
    <2> QED BY <2>3, <2>4
<1>5. ASSUME NEW i \in Nat \ {0}
      PROVE  Phase(Lookup(f, i), IsZombie(f, i), Lookup(u, -i), IsZombie(u, -i), d, g, i)
    <2>1. Phase(Lookup(f, i), IsZombie(f, i), Lookup(e, -i), IsZombie(e, -i), d, c, i) BY DEF Phases
    <2>2. -i \in Int \ {0} /\ Lookup(u, -i) = Lookup(e, -i) OBVIOUS
    <2>3. CASE -i = m.id
        <3>1. Says(m, -i, Lookup(e, -i), {"begin", "result"}) /\ Lookup(e, -i) # NoLink /\ IsZombie(e, -i) = FALSE
            BY <1>1, <1>3, <2>3 DEF Says
        <3>2. IsZombie(u, -i) = TRUE BY <1>2, <2>2, <2>3
        <3>3. Phase(Lookup(f, i), IsZombie(f, i), Lookup(e, -i), IsZombie(u, -i), d, g, i)
            BY <2>1, <3>1, <3>2, OtherCloses
        <3> QED BY <2>2, <3>3
    <2>4. CASE -i # m.id
        <3>1. ~About(m, -i) BY <1>1, <2>2, <2>4 DEF About
        <3>2. Phase(Lookup(f, i), IsZombie(f, i), Lookup(e, -i), IsZombie(e, -i), d, g, i)
            BY <2>1, <3>1, OtherWrites
        <3>3. IsZombie(u, -i) = IsZombie(e, -i) BY <1>2, <2>2, <2>4
        <3> QED BY <2>2, <3>2, <3>3
    <2> QED BY <2>3, <2>4
<1> QED BY <1>4, <1>5 DEF Phases

LEMMA BeginWrites ==
    ASSUME TypedAndSound, NEW p \in Peer, NEW id \in LiveIds(edge[p]),
           NEW type \in {"begin", "result"}, id > 0 => type = "begin",
           edge' = [edge EXCEPT ![p] = EdgeBeginRemoved(@, id)],
           out' = [out EXCEPT ![p] = Append(@, Msg(type, id, Lookup(edge[p], id)))],
           UNCHANGED <<wire, inp>>
    PROVE  \E u, m : Writes(p, u, m) /\ Begins(edge[p], u, m)
<1> DEFINE q == Other(p)
           l == Lookup(edge[p], id)
           m == Msg(type, id, l)
           e == EdgeBeginRemoved(edge[p], id)
           g == Append(Chan(p), m)
<1>1. TypeOK /\ edge[p] \in Edge /\ EdgeSound(edge[p])
    BY DEF TypedAndSound, TypeOK, TablesSound, EdgeSound
<1>2. id \in Int \ {0} /\ l # NoLink /\ l \in Link /\ ~IsZombie(edge[p], id)
    BY <1>1, OccupiedLookup DEF LiveIds
<1>3. \A k \in Int \ {0} : Lookup(e, k) = Lookup(edge[p], k) /\ (IsZombie(e, k) <=> k = id \/ IsZombie(edge[p], k))
    BY <1>1, <1>2, EdgeBeginRemoveFact
<1>4. m \in Message BY <1>2, MsgType
<1>5. m.type = type /\ m.id = id /\ m.link = l BY DEF Msg
<1>6. edge' = [edge EXCEPT ![p] = e] /\ out' = [out EXCEPT ![p] = Append(@, m)]
    OBVIOUS
<1> HIDE DEF m, e, g
<1>7. Chan(p)' = g /\ Chan(q)' = Chan(q) BY <1>1, <1>4, <1>6, ChanWrites DEF g
<1>8. Grown(Chan(p), m, g) BY <1>1, <1>4, ChanType, AppendGrows DEF g
<1>9. Writes(p, e, m) BY <1>4, <1>6, <1>7, <1>8 DEF Writes, g
<1>10. Begins(edge[p], e, m) BY <1>2, <1>3, <1>5 DEF Begins
<1> QED BY <1>9, <1>10

LEMMA BeginPhases ==
    ASSUME TypedAndSound, AllInPhase, NEW p \in Peer, NEW u, NEW m, Writes(p, u, m), Begins(edge[p], u, m)
    PROVE  AllInPhase'
<1>1. TypeOK BY DEF TypedAndSound
<1>2. Phases(edge[p], edge[Other(p)], Chan(p), Chan(Other(p))) /\ Phases(edge[Other(p)], edge[p], Chan(Other(p)), Chan(p))
    BY PhaseNow
<1> DEFINE g == Append(Chan(p), m)
<1>3. m \in Message /\ Grown(Chan(p), m, g) BY DEF Writes
<1> HIDE DEF g
<1>4. Phases(u, edge[Other(p)], g, Chan(Other(p))) /\ Phases(edge[Other(p)], u, Chan(Other(p)), g)
    BY <1>2, <1>3, BeginWritten
<1> QED BY <1>1, <1>4, PhaseStep DEF Writes, g

-----------------------------------------------------------------------------
(* Steps in which a side reads.                                            *)

\* What a side e knows of the message m it is about to read from the other
\* side f: the link it is for, and room for the links it brings.
Met(e, m) ==
    LET cell == Lookup(e, Mirror(m.id))
        zombie == IsZombie(e, Mirror(m.id))
    IN  /\ m.id # 0 /\ m.type # "end" => cell # NoLink /\ cell = m.link
        /\ m.type = "end" /\ cell # NoLink => zombie /\ cell = m.link
        /\ m.type = "result" => m.id < 0
        /\ \A i \in Nat \ {0} : Carries(m, i) => Lookup(e, -i) = NoLink /\ m.arg.id # m.res.id

LEMMA MeetsItsLink ==
    ASSUME NEW e, NEW f, NEW c, NEW d, NEW t, Shrunk(c, t), Len(d) \in Nat,
           Phases(e, f, d, c), Phases(f, e, c, d), NEW m \in Message, c[1] = m
    PROVE  Met(e, m)
<1>1. ASSUME NEW i \in Nat \ {0}, m.id = -i
      PROVE  Lookup(e, i) # NoLink /\ m.link = Lookup(e, i) /\ (m.type = "end" => IsZombie(e, i))
    <2>1. Phase(Lookup(e, i), IsZombie(e, i), Lookup(f, -i), IsZombie(f, -i), d, c, i) BY DEF Phases
    <2>2. About(c[1], -i) BY <1>1 DEF About
    <2> QED BY <2>1, <2>2, OwnerReads
<1>2. ASSUME NEW i \in Nat \ {0}, Carries(m, i)
      PROVE  Lookup(e, -i) = NoLink /\ m.id # i /\ m.arg.id # m.res.id
    <2>1. Phase(Lookup(f, i), IsZombie(f, i), Lookup(e, -i), IsZombie(e, -i), c, d, i) BY DEF Phases
    <2>2. Carries(c[1], i) BY <1>2
    <2>3. Lookup(e, -i) = NoLink /\ Opens(c[1], i, Lookup(f, i)) BY <2>1, <2>2, OtherOpens
    <2> QED BY <2>3 DEF Opens
<1>3. ASSUME NEW i \in Nat \ {0}, m.id = i
      PROVE  /\ m.type # "result"
             /\ m.type # "end" => Lookup(e, -i) # NoLink /\ m.link = Lookup(e, -i)
             /\ m.type = "end" /\ Lookup(e, -i) # NoLink => IsZombie(e, -i) /\ m.link = Lookup(e, -i)
    <2>1. Phase(Lookup(f, i), IsZombie(f, i), Lookup(e, -i), IsZombie(e, -i), c, d, i) BY DEF Phases
    <2>2. About(c[1], i) /\ ~Carries(c[1], i) BY <1>2, <1>3 DEF About
    <2>3. m.type \in {"call", "result", "begin", "end"} BY MessageFact
    <2> QED BY <2>1, <2>2, <2>3, OtherReads
<1>4. m.id \in Int /\ (m.type # "call" => m.id # 0) BY MessageFact
<1>5. \A i \in Nat \ {0} : Carries(m, i) => Lookup(e, -i) = NoLink /\ m.arg.id # m.res.id BY <1>2
<1>6. CASE m.id = 0 BY <1>4, <1>5, <1>6 DEF Met
<1>7. CASE m.id < 0
    <2>1. -m.id \in Nat \ {0} /\ m.id = -(-m.id) BY <1>4, <1>7
    <2> QED BY <1>1, <1>5, <1>7, <2>1 DEF Met, Mirror
<1>8. CASE m.id > 0
    <2>1. m.id \in Nat \ {0} BY <1>4, <1>8
    <2> QED BY <1>3, <1>5, <1>8, <2>1 DEF Met, Mirror
<1> QED BY <1>4, <1>6, <1>7, <1>8

\* The links a call brings find their cells empty.
LEMMA TwoAccepted ==
    ASSUME NEW t \in RemoteTable, RemoteSound(t), NEW x \in Carried, NEW y \in Carried,
           x.id # 0 => x.id # y.id /\ Get(t, x.id) = NoLink,
           y.id # 0 => Get(t, y.id) = NoLink
    PROVE  LET ta == Accepted(t, x)
           IN  /\ Acceptable(t, x) /\ Acceptable(ta, y)
               /\ Accepted(ta, y).zombie = t.zombie
               /\ \A k \in Nat \ {0} :
                    Get(Accepted(ta, y), k) = IF k = x.id THEN x.link ELSE IF k = y.id THEN y.link ELSE Get(t, k)
<1>1. ASSUME NEW u \in RemoteTable, RemoteSound(u), NEW c \in Carried, c.id # 0 => Get(u, c.id) = NoLink
      PROVE  /\ Acceptable(u, c) /\ Accepted(u, c) \in RemoteTable /\ RemoteSound(Accepted(u, c))
             /\ Accepted(u, c).zombie = u.zombie
             /\ \A k \in Nat \ {0} : Get(Accepted(u, c), k) = IF k = c.id THEN c.link ELSE Get(u, k)
    <2>1. CASE c.id = 0 BY <1>1, <2>1 DEF Acceptable, Accepted
    <2>2. CASE c.id # 0
        <3>1. c.id \in Nat \ {0} /\ c.link \in Link BY <2>2 DEF Carried, NoneCarried
        <3>2. CanEmplaceRemote(u, c.id)
            BY <1>1, <2>2 DEF CanEmplaceRemote, Occupied, RemoteSound, ZombiesOccupied
        <3> DEFINE v == RemoteEmplaced(u, c.id, c.link)
        <3>3. /\ v \in RemoteTable /\ RemoteSound(v) /\ v.zombie = u.zombie
              /\ \A k \in Int : Get(v, k) = IF k = c.id THEN c.link ELSE Get(u, k)
            BY <1>1, <3>1, <3>2, RemoteEmplaceFact
        <3>4. Accepted(u, c) = v /\ Acceptable(u, c) BY <2>2, <3>2 DEF Accepted, Acceptable
        <3> HIDE DEF v
        <3> QED BY <3>3, <3>4
    <2> QED BY <2>1, <2>2
<1> DEFINE ta == Accepted(t, x)
<1>2. /\ Acceptable(t, x) /\ ta \in RemoteTable /\ RemoteSound(ta) /\ ta.zombie = t.zombie
      /\ \A k \in Nat \ {0} : Get(ta, k) = IF k = x.id THEN x.link ELSE Get(t, k)
    BY <1>1
<1> HIDE DEF ta
<1>3. x.id \in Nat /\ y.id \in Nat BY DEF Carried, NoneCarried
<1>4. y.id # 0 => Get(ta, y.id) = NoLink BY <1>2, <1>3
<1>5. /\ Acceptable(ta, y) /\ Accepted(ta, y).zombie = ta.zombie
      /\ \A k \in Nat \ {0} : Get(Accepted(ta, y), k) = IF k = y.id THEN y.link ELSE Get(ta, k)
    BY <1>1, <1>2, <1>4
<1> QED BY <1>2, <1>3, <1>5 DEF ta

\* e becomes u when it has read the call m: the links that m brings are entered
\* under the numbers they came with.
Enters(e, u, m) ==
    /\ m.type = "call"
    /\ \A k \in Int \ {0} : IsZombie(u, k) <=> IsZombie(e, k)
    /\ \A k \in Nat \ {0} : Lookup(u, k) = Lookup(e, k)
    /\ \A k \in Nat \ {0} : Lookup(u, -k) = IF k = m.arg.id THEN m.arg.link
                                            ELSE IF k = m.res.id THEN m.res.link ELSE Lookup(e, -k)

LEMMA CallRead ==
    ASSUME NEW e \in Edge, EdgeSound(e), NEW f, NEW c, NEW d, NEW t, Shrunk(c, t), Len(d) \in Nat,
           Phases(e, f, d, c), Phases(f, e, c, d), NEW m \in Message, c[1] = m, NEW u, Enters(e, u, m)
    PROVE  Phases(u, f, d, t) /\ Phases(f, u, t, d)
<1> USE DEF Enters
<1>1. \A k \in Int \ {0} : IsZombie(u, k) = IsZombie(e, k) BY ZombieBoolean
<1>2. ASSUME NEW i \in Nat \ {0}
      PROVE  Phase(Lookup(u, i), IsZombie(u, i), Lookup(f, -i), IsZombie(f, -i), d, t, i)
    <2>1. Phase(Lookup(e, i), IsZombie(e, i), Lookup(f, -i), IsZombie(f, -i), d, c, i) BY DEF Phases
    <2>2. Phase(Lookup(e, i), IsZombie(e, i), Lookup(f, -i), IsZombie(f, -i), d, t, i)
        <3>1. CASE About(c[1], -i) BY <2>1, <3>1, OwnerReads
        <3>2. CASE ~About(c[1], -i) BY <2>1, <3>2, OthersRead
        <3> QED BY <3>1, <3>2
    <2>3. Lookup(u, i) = Lookup(e, i) /\ IsZombie(u, i) = IsZombie(e, i) BY <1>1
    <2> QED BY <2>2, <2>3
<1>3. ASSUME NEW i \in Nat \ {0}
      PROVE  Phase(Lookup(f, i), IsZombie(f, i), Lookup(u, -i), IsZombie(u, -i), t, d, i)
    <2>1. Phase(Lookup(f, i), IsZombie(f, i), Lookup(e, -i), IsZombie(e, -i), c, d, i) BY DEF Phases
    <2>2. -i \in Int \ {0} /\ IsZombie(u, -i) = IsZombie(e, -i) BY <1>1
    <2>3. CASE Carries(m, i)
        <3>1. Carries(c[1], i) BY <2>3
        <3>2. /\ Lookup(e, -i) = NoLink /\ Opens(c[1], i, Lookup(f, i))
              /\ Phase(Lookup(f, i), IsZombie(f, i), Lookup(f, i), FALSE, t, d, i)
            BY <2>1, <3>1, OtherOpens
        <3>3. Lookup(u, -i) = Lookup(f, i) BY <3>2 DEF Opens
        <3>4. IsZombie(u, -i) = FALSE BY <2>2, <3>2, EmptyNoZombie, ZombieBoolean
        <3> QED BY <3>2, <3>3, <3>4
    <2>4. CASE ~Carries(m, i)
        <3>1. Lookup(u, -i) = Lookup(e, -i) BY <2>4 DEF Carries
        <3>2. Phase(Lookup(f, i), IsZombie(f, i), Lookup(e, -i), IsZombie(e, -i), t, d, i)
            <4>1. CASE About(c[1], i)
                <5>1. ~Carries(c[1], i) /\ c[1].type = "call" BY <2>4
                <5> QED BY <2>1, <4>1, <5>1, OtherReads
            <4>2. CASE ~About(c[1], i) BY <2>1, <4>2, OthersRead
            <4> QED BY <4>1, <4>2
        <3> QED BY <2>2, <3>1, <3>2
    <2> QED BY <2>3, <2>4
<1> QED BY <1>2, <1>3 DEF Phases

\* u is e without the cell under id.
Emptied(e, u, id) ==
    \A k \in Int \ {0} : /\ Lookup(u, k) = IF k = id THEN NoLink ELSE Lookup(e, k)
                         /\ k # id => (IsZombie(u, k) <=> IsZombie(e, k))

\* What e has under way becomes g: the answer to m about the cell it gives up,
\* or nothing new if e had begun the removal itself.
Answered(e, m, id, d, g) ==
    \/ IsZombie(e, id) /\ g = d
    \/ /\ m.type = "result" \/ (m.type = "begin" /\ ~IsZombie(e, id))
       /\ \E n \in Message : Grown(d, n, g) /\ Says(n, id, Lookup(e, id), {"end"})

\* A message that makes its reader give up the cell, and the answer to it.
LEMMA RemovalRead ==
    ASSUME NEW e, NEW f, NEW c, NEW d, NEW t, Shrunk(c, t), Len(d) \in Nat,
           Phases(e, f, d, c), Phases(f, e, c, d), NEW m \in Message, c[1] = m, m.type # "call",
           NEW id, id = Mirror(m.id), Lookup(e, id) # NoLink,
           NEW u, Emptied(e, u, id), NEW g, Answered(e, m, id, d, g)
    PROVE  Phases(u, f, g, t) /\ Phases(f, u, t, g)
<1>1. m.id \in Int \ {0} /\ (\A j \in Int \ {0} : ~Carries(m, j)) /\ m.type \in {"result", "begin", "end"}
    BY MessageFact
<1>2. \A k \in Int \ {0} : k # id => IsZombie(u, k) = IsZombie(e, k) BY ZombieBoolean DEF Emptied
<1>3. id = -m.id BY DEF Mirror
<1>4. ASSUME g # d
      PROVE  \E n : /\ Grown(d, n, g) /\ Says(n, id, Lookup(e, id), {"end"})
                    /\ \A j \in Int \ {0} : About(n, j) => j = id
    <2>1. PICK n \in Message : Grown(d, n, g) /\ Says(n, id, Lookup(e, id), {"end"}) BY <1>4 DEF Answered
    <2>2. n.id = id /\ \A j \in Int \ {0} : ~Carries(n, j) BY <2>1, MessageFact DEF Says
    <2> QED BY <2>1, <2>2 DEF About
<1>5. g # d => m.type = "result" \/ (m.type = "begin" /\ ~IsZombie(e, id)) BY DEF Answered
<1>6. g = d => IsZombie(e, id) \/ \E n : Grown(d, n, g) BY DEF Answered
<1>7. ~\E n : Grown(d, n, d) BY DEF Grown
<1>8. g = d => IsZombie(e, id) BY <1>6, <1>7
<1>9. ASSUME NEW i \in Nat \ {0}
      PROVE  Phase(Lookup(u, i), IsZombie(u, i), Lookup(f, -i), IsZombie(f, -i), g, t, i)
    <2>1. Phase(Lookup(e, i), IsZombie(e, i), Lookup(f, -i), IsZombie(f, -i), d, c, i) BY DEF Phases
    <2>2. CASE i = id
        <3>1. About(c[1], -i) /\ Lookup(u, i) = NoLink BY <1>1, <1>3, <2>2 DEF About, Emptied
        <3>2. CASE g = d
            <4>1. IsZombie(e, i) BY <1>8, <2>2, <3>2
            <4>2. \A z : Phase(NoLink, z, Lookup(f, -i), IsZombie(f, -i), d, t, i)
                BY <2>1, <3>1, <4>1, OwnerReads
            <4> QED BY <3>1, <3>2, <4>2
        <3>3. CASE g # d
            <4>1. \E n : Grown(d, n, g) /\ Says(n, i, Lookup(e, i), {"end"}) BY <1>4, <2>2, <3>3
            <4>2. c[1].type \in {"result", "begin"} BY <1>5, <3>3
            <4>3. \A z : Phase(NoLink, z, Lookup(f, -i), IsZombie(f, -i), g, t, i)
                BY <2>1, <3>1, <4>1, <4>2, OwnerReads
            <4> QED BY <3>1, <4>3
        <3> QED BY <3>2, <3>3
    <2>3. CASE i # id
        <3>1. Lookup(u, i) = Lookup(e, i) /\ IsZombie(u, i) = IsZombie(e, i) BY <1>2, <2>3 DEF Emptied
        <3>2. ~About(c[1], -i) BY <1>1, <1>3, <2>3 DEF About
        <3>3. Phase(Lookup(e, i), IsZombie(e, i), Lookup(f, -i), IsZombie(f, -i), d, t, i)
            BY <2>1, <3>2, OthersRead
        <3>4. CASE g = d BY <3>1, <3>3, <3>4
        <3>5. CASE g # d
            <4>1. \E n : Grown(d, n, g) /\ ~About(n, i) BY <1>4, <2>3, <3>5
            <4>2. Phase(Lookup(e, i), IsZombie(e, i), Lookup(f, -i), IsZombie(f, -i), g, t, i)
                BY <3>3, <4>1, OwnerWrites
            <4> QED BY <3>1, <4>2
        <3> QED BY <3>4, <3>5
    <2> QED BY <2>2, <2>3
<1>10. ASSUME NEW i \in Nat \ {0}
       PROVE  Phase(Lookup(f, i), IsZombie(f, i), Lookup(u, -i), IsZombie(u, -i), t, g, i)
    <2>1. Phase(Lookup(f, i), IsZombie(f, i), Lookup(e, -i), IsZombie(e, -i), c, d, i) BY DEF Phases
    <2>2. CASE -i = id
        <3>1. About(c[1], i) /\ ~Carries(c[1], i) /\ Lookup(u, -i) = NoLink BY <1>1, <1>3, <2>2 DEF About, Emptied
        <3>2. CASE g = d
            <4>1. IsZombie(e, -i) /\ Lookup(e, -i) # NoLink /\ c[1].type # "call" BY <1>8, <2>2, <3>2
            <4>2. \A z : Phase(Lookup(f, i), IsZombie(f, i), NoLink, z, t, d, i)
                BY <2>1, <3>1, <4>1, OtherReads
            <4> QED BY <3>1, <3>2, <4>2
        <3>3. CASE g # d
            <4>1. \E n : Grown(d, n, g) /\ Says(n, -i, Lookup(e, -i), {"end"}) BY <1>4, <2>2, <3>3
            <4>2. c[1].type # "result" BY <2>1, <3>1, OtherReads
            <4>3. c[1].type = "begin" /\ ~IsZombie(e, -i) BY <1>5, <2>2, <3>3, <4>2
            <4>4. \A z : Phase(Lookup(f, i), IsZombie(f, i), NoLink, z, t, g, i)
                BY <2>1, <3>1, <4>1, <4>3, OtherReads
            <4> QED BY <3>1, <4>4
        <3> QED BY <3>2, <3>3
    <2>3. CASE -i # id
        <3>1. Lookup(u, -i) = Lookup(e, -i) /\ IsZombie(u, -i) = IsZombie(e, -i) BY <1>2, <2>3 DEF Emptied
        <3>2. ~About(c[1], i) BY <1>1, <1>3, <2>3 DEF About
        <3>3. Phase(Lookup(f, i), IsZombie(f, i), Lookup(e, -i), IsZombie(e, -i), t, d, i)
            BY <2>1, <3>2, OthersRead
        <3>4. CASE g = d BY <3>1, <3>3, <3>4
        <3>5. CASE g # d
            <4>1. \E n : Grown(d, n, g) /\ ~About(n, -i) BY <1>4, <2>3, <3>5
            <4>2. Phase(Lookup(f, i), IsZombie(f, i), Lookup(e, -i), IsZombie(e, -i), t, g, i)
                BY <3>3, <4>1, OtherWrites
            <4> QED BY <3>1, <4>2
        <3> QED BY <3>4, <3>5
    <2> QED BY <2>2, <2>3
<1> QED BY <1>9, <1>10 DEF Phases

\* An end for a cell that is gone changes nothing.
LEMMA EndRead ==
    ASSUME NEW e, NEW f, NEW c, NEW d, NEW t, Shrunk(c, t), Len(d) \in Nat,
           Phases(e, f, d, c), Phases(f, e, c, d), NEW m \in Message, c[1] = m, m.type = "end",
           Lookup(e, Mirror(m.id)) = NoLink
    PROVE  Phases(e, f, d, t) /\ Phases(f, e, t, d)
<1>1. m.id \in Int \ {0} /\ (\A j \in Int \ {0} : ~Carries(m, j)) BY MessageFact
<1>2. ASSUME NEW i \in Nat \ {0}
      PROVE  Phase(Lookup(e, i), IsZombie(e, i), Lookup(f, -i), IsZombie(f, -i), d, t, i)
    <2>1. Phase(Lookup(e, i), IsZombie(e, i), Lookup(f, -i), IsZombie(f, -i), d, c, i) BY DEF Phases
    <2>2. ~About(c[1], -i)
        <3> SUFFICES ASSUME About(c[1], -i) PROVE FALSE OBVIOUS
        <3>1. m.id = -i /\ Lookup(e, i) # NoLink BY <2>1, OwnerReads
        <3>2. Mirror(m.id) = i BY <3>1 DEF Mirror
        <3> QED BY <3>1, <3>2
    <2> QED BY <2>1, <2>2, OthersRead
<1>3. ASSUME NEW i \in Nat \ {0}
      PROVE  Phase(Lookup(f, i), IsZombie(f, i), Lookup(e, -i), IsZombie(e, -i), t, d, i)
    <2>1. Phase(Lookup(f, i), IsZombie(f, i), Lookup(e, -i), IsZombie(e, -i), c, d, i) BY DEF Phases
    <2>2. CASE About(c[1], i)
        <3>1. ~Carries(c[1], i) /\ c[1].id = i /\ c[1].type = "end" BY <1>1, <2>2 DEF About
        <3>2. Lookup(e, -i) = NoLink BY <3>1 DEF Mirror
        <3> QED BY <2>1, <2>2, <3>1, <3>2, OtherReads
    <2>3. CASE ~About(c[1], i) BY <2>1, <2>3, OthersRead
    <2> QED BY <2>2, <2>3
<1> QED BY <1>2, <1>3 DEF Phases

\* e becomes u, and what it has under way becomes g, when it has read m.
Handles(e, u, m, d, g) ==
    \/ Enters(e, u, m) /\ g = d
    \/ /\ m.type # "call" /\ Lookup(e, Mirror(m.id)) # NoLink
       /\ Emptied(e, u, Mirror(m.id)) /\ Answered(e, m, Mirror(m.id), d, g)
    \/ m.type = "end" /\ Lookup(e, Mirror(m.id)) = NoLink /\ u = e /\ g = d

LEMMA HandledPhases ==
    ASSUME NEW e \in Edge, EdgeSound(e), NEW f, NEW c, NEW d, NEW t, Shrunk(c, t), Len(d) \in Nat,
           Phases(e, f, d, c), Phases(f, e, c, d), NEW m \in Message, c[1] = m,
           NEW u, NEW g, Handles(e, u, m, d, g)
    PROVE  Phases(u, f, g, t) /\ Phases(f, u, t, g)
<1>1. CASE Enters(e, u, m) /\ g = d BY <1>1, CallRead
<1>2. CASE /\ m.type # "call" /\ Lookup(e, Mirror(m.id)) # NoLink
           /\ Emptied(e, u, Mirror(m.id)) /\ Answered(e, m, Mirror(m.id), d, g)
    <2> DEFINE id == Mirror(m.id)
    <2>1. id = Mirror(m.id) OBVIOUS
    <2> HIDE DEF id
    <2> QED BY <1>2, <2>1, RemovalRead
<1>3. CASE m.type = "end" /\ Lookup(e, Mirror(m.id)) = NoLink /\ u = e /\ g = d BY <1>3, EndRead
<1> QED BY <1>1, <1>2, <1>3 DEF Handles

-----------------------------------------------------------------------------
(* The handlers.                                                           *)

\* The first message in p's input, as the phases see it.
LEMMA ReadFacts ==
    ASSUME TypedAndSound, AllInPhase, NEW p \in Peer, inp[p] # <<>>
    PROVE  LET q == Other(p)
               m == Head(inp[p])
           IN  /\ m \in Message /\ Chan(q)[1] = m
               /\ Shrunk(Chan(q), Tail(Chan(q))) /\ Len(Chan(p)) \in Nat /\ Chan(p) \in Seq(Message)
               /\ Phases(edge[p], edge[q], Chan(p), Chan(q)) /\ Phases(edge[q], edge[p], Chan(q), Chan(p))
               /\ Met(edge[p], m)
<1> DEFINE q == Other(p)
           m == Head(inp[p])
           h == inp[p] \o wire[q]
<1>1. TypeOK /\ q \in Peer /\ Other(q) = p BY OtherTwice DEF TypedAndSound
<1>2. inp[p] \in Seq(Message) /\ wire[q] \in Seq(Message) /\ out[q] \in Seq(Message)
    BY <1>1 DEF TypeOK
<1>3. h \in Seq(Message) /\ h # <<>> /\ Head(h) = m /\ m \in Message BY <1>2, HeadThenTail
<1>4. h \o out[q] # <<>> /\ (h \o out[q])[1] = Head(h) BY <1>2, <1>3, HeadThenTail
<1>5. Chan(q) = h \o out[q] BY <1>1 DEF Chan
<1>6. Chan(q) \in Seq(Message) /\ Len(Chan(p)) \in Nat /\ Chan(p) \in Seq(Message) BY <1>1, ChanType
<1> HIDE DEF m, h
<1>7. Chan(q)[1] = m BY <1>3, <1>4, <1>5
<1>8. Shrunk(Chan(q), Tail(Chan(q))) BY <1>4, <1>5, <1>6, TailShrinks
<1>9. Phases(edge[p], edge[q], Chan(p), Chan(q)) /\ Phases(edge[q], edge[p], Chan(q), Chan(p)) BY PhaseNow
<1>10. Met(edge[p], m) BY <1>3, <1>6, <1>7, <1>8, <1>9, MeetsItsLink
<1> QED BY <1>3, <1>6, <1>7, <1>8, <1>9, <1>10 DEF m

\* p has a new edge u and g under way after it has read a message.
Reads(p, u, g) ==
    /\ edge' = [edge EXCEPT ![p] = u]
    /\ Chan(p)' = g /\ Chan(Other(p))' = Tail(Chan(Other(p)))

\* p has read a message and answered with n, or with nothing.
LEMMA ReadStep ==
    ASSUME TypedAndSound, NEW p \in Peer, inp[p] # <<>>, Consume(p), UNCHANGED wire,
           NEW e, edge' = [edge EXCEPT ![p] = e], NEW g,
           \/ UNCHANGED out /\ g = Chan(p)
           \/ \E n \in Message : out' = [out EXCEPT ![p] = Append(@, n)] /\ g = Append(Chan(p), n)
    PROVE  Reads(p, e, g)
<1>1. TypeOK BY DEF TypedAndSound
<1>2. Chan(p)' = g /\ Chan(Other(p))' = Tail(Chan(Other(p)))
    <2>1. CASE UNCHANGED out /\ g = Chan(p) BY <1>1, <2>1, ChanReads
    <2>2. ASSUME NEW n \in Message, out' = [out EXCEPT ![p] = Append(@, n)], g = Append(Chan(p), n)
          PROVE  Chan(p)' = g /\ Chan(Other(p))' = Tail(Chan(Other(p)))
        BY <1>1, <2>2, ChanReads
    <2> QED BY <2>1, <2>2
<1> QED BY <1>2 DEF Reads

\* p has handled the first message of its input.
Handled(p) == \E u, g : Reads(p, u, g) /\ Handles(edge[p], u, Head(inp[p]), Chan(p), g)

\* A call finds its target and room for the links it brings.
LEMMA HandleCallReads ==
    ASSUME TypedAndSound, AllInPhase, NEW p \in Peer, inp[p] # <<>>,
           Head(inp[p]).type = "call", HandleCall(p, Head(inp[p]))
    PROVE  Handled(p) /\ UNCHANGED state
<1> DEFINE q == Other(p)
           m == Head(inp[p])
           t == Tail(Chan(q))
           u == edge[p].remote
           ua == Accepted(u, m.arg)
           ur == Accepted(ua, m.res)
           id == Mirror(m.id)
           e == [edge[p] EXCEPT !.remote = ur]
<1>1. /\ edge[p] \in Edge /\ EdgeSound(edge[p]) /\ u \in RemoteTable /\ RemoteSound(u)
    BY DEF TypedAndSound, TypeOK, TablesSound, Edge, EdgeSound
<1>2. /\ m \in Message /\ Chan(q)[1] = m
      /\ Shrunk(Chan(q), t) /\ Len(Chan(p)) \in Nat
      /\ Phases(edge[p], edge[q], Chan(p), Chan(q)) /\ Phases(edge[q], edge[p], Chan(q), Chan(p))
      /\ Met(edge[p], m)
    BY ReadFacts
<1>3. m.arg \in Carried /\ m.res \in Carried BY <1>2 DEF Message
<1>4. m.id \in Int /\ m.arg.id \in Nat /\ m.res.id \in Nat BY <1>2, MessageFact
<1>5. m.type = "call" OBVIOUS
<1> HIDE DEF m
<1>6. /\ m.id # 0 => Lookup(edge[p], id) # NoLink
      /\ \A i \in Nat \ {0} : Carries(m, i) => Lookup(edge[p], -i) = NoLink /\ m.arg.id # m.res.id
    BY <1>2, <1>5 DEF Met
<1>7. \A i \in Nat \ {0} : Lookup(edge[p], -i) = Get(u, i) BY DEF Lookup
<1>8. /\ m.arg.id # 0 => m.arg.id # m.res.id /\ Get(u, m.arg.id) = NoLink
      /\ m.res.id # 0 => Get(u, m.res.id) = NoLink
    BY <1>4, <1>6, <1>7 DEF Carries
<1>9. /\ Acceptable(u, m.arg) /\ Acceptable(ua, m.res) /\ ur.zombie = u.zombie
      /\ \A k \in Nat \ {0} : Get(ur, k) = IF k = m.arg.id THEN m.arg.link
                                           ELSE IF k = m.res.id THEN m.res.link ELSE Get(u, k)
    BY <1>1, <1>3, <1>8, TwoAccepted
<1>10. id = 0 \/ Lookup(edge[p], id) # NoLink BY <1>4, <1>6 DEF Mirror
<1>11. HandleCall(p, m) BY DEF m
<1>12. edge' = [edge EXCEPT ![p] = e] /\ Consume(p) /\ UNCHANGED <<state, out, wire>>
    BY <1>9, <1>10, <1>11 DEF HandleCall
<1>13. e.local = edge[p].local /\ e.remote = ur BY <1>1 DEF Edge
<1> HIDE DEF e, ua, ur, id, t
<1>14. \A k \in Int \ {0} : IsZombie(e, k) <=> IsZombie(edge[p], k)
    BY <1>9, <1>13 DEF IsZombie
<1>15. \A k \in Nat \ {0} : Lookup(e, k) = Lookup(edge[p], k)
    BY <1>13 DEF Lookup
<1>16. \A k \in Nat \ {0} : Lookup(e, -k) = IF k = m.arg.id THEN m.arg.link
                                           ELSE IF k = m.res.id THEN m.res.link ELSE Lookup(edge[p], -k)
    <2>1. \A k \in Nat \ {0} : Lookup(e, -k) = Get(ur, k) BY <1>13 DEF Lookup
    <2> QED BY <1>7, <1>9, <2>1
<1>17. Enters(edge[p], e, m) BY <1>5, <1>14, <1>15, <1>16 DEF Enters
<1>18. Reads(p, e, Chan(p)) BY <1>12, ReadStep
<1>19. Handled(p) BY <1>17, <1>18 DEF Handled, Handles, m
<1> QED BY <1>12, <1>19

\* Appending a single message, as linkUninvolved writes it.
LEMMA SendsOne ==
    ASSUME NEW s \in Seq(Message), NEW m \in Message
    PROVE  /\ s \o (<<m>> \o <<>>) = Append(s, m) /\ s \o (<<>> \o <<m>>) = Append(s, m)
           /\ s \o (<<>> \o <<>>) = s /\ s \o <<>> = s
<1>1. <<m>> \in Seq(Message) /\ <<m>> \o <<>> = <<m>> /\ <<>> \o <<m>> = <<m>> /\ <<>> \o <<>> = <<>>
    OBVIOUS
<1>2. s \o <<m>> = Append(s, m) BY AppendIsConcat
<1>3. s \o <<>> = s BY ConcatEmptySeq
<1> QED BY <1>1, <1>2, <1>3

\* What p writes when it gives up the cell that m is for.
Answering(p, m, id) ==
    \/ IsZombie(edge[p], id) /\ UNCHANGED out
    \/ /\ m.type = "result" \/ (m.type = "begin" /\ ~IsZombie(edge[p], id))
       /\ out' = [out EXCEPT ![p] = Append(@, Msg("end", id, Lookup(edge[p], id)))]

\* p gives up the cell a message is for, and says so unless it had begun.
LEMMA GiveUp ==
    ASSUME TypedAndSound, AllInPhase, NEW p \in Peer, inp[p] # <<>>, NEW m, m = Head(inp[p]), m.type # "call",
           NEW id, id = Mirror(m.id), Lookup(edge[p], id) # NoLink, Consume(p), UNCHANGED wire,
           NEW e, edge' = [edge EXCEPT ![p] = e], Emptied(edge[p], e, id), Answering(p, m, id)
    PROVE  Handled(p)
<1> DEFINE d == Chan(p)
           n == Msg("end", id, Lookup(edge[p], id))
<1>1. m \in Message /\ d \in Seq(Message)
    BY ReadFacts
<1>2. id \in Int /\ edge[p] \in Edge BY <1>1, MessageFact DEF Mirror, TypedAndSound, TypeOK
<1>3. id \in Int \ {0} /\ Lookup(edge[p], id) \in Link BY <1>2, OccupiedLookup
<1>4. n \in Message BY <1>3, MsgType
<1>5. Says(n, id, Lookup(edge[p], id), {"end"})
    <2>1. ~Carries(n, id) BY <1>3 DEF Carries, Msg, NoneCarried
    <2> QED BY <2>1 DEF Says, Msg
<1> HIDE DEF d, n
<1>6. CASE IsZombie(edge[p], id) /\ UNCHANGED out
    <2>1. Answered(edge[p], m, id, d, d) BY <1>6 DEF Answered
    <2>2. Reads(p, e, d) BY <1>6, ReadStep DEF d
    <2>3. Handles(edge[p], e, m, d, d) BY <2>1 DEF Handles
    <2> QED BY <2>2, <2>3 DEF Handled, d
<1>7. CASE /\ m.type = "result" \/ (m.type = "begin" /\ ~IsZombie(edge[p], id))
           /\ out' = [out EXCEPT ![p] = Append(@, n)]
    <2> DEFINE g == Append(d, n)
    <2>1. Grown(d, n, g) BY <1>1, <1>4, AppendGrows
    <2>2. Reads(p, e, g) BY <1>4, <1>7, ReadStep DEF d
    <2> HIDE DEF g
    <2>3. Answered(edge[p], m, id, d, g) BY <1>4, <1>5, <1>7, <2>1 DEF Answered
    <2>4. Handles(edge[p], e, m, d, g) BY <2>3 DEF Handles
    <2> QED BY <2>2, <2>4 DEF Handled, d
<1> QED BY <1>6, <1>7 DEF n, Answering

\* The cell p knows by id after remove or endRemove.
LEMMA GivenUp ==
    ASSUME NEW e \in Edge, EdgeSound(e), NEW id \in Int, Lookup(e, id) # NoLink
    PROVE  LET u == IF EdgeCanRemove(e, id) THEN EdgeRemoved(e, id) ELSE EdgeEndRemoved(e, id)
           IN  Emptied(e, u, id)
<1>1. CASE EdgeCanRemove(e, id) BY <1>1, EdgeRemoveFact DEF Emptied
<1>2. CASE ~EdgeCanRemove(e, id)
    <2>1. EdgeCanEndRemove(e, id) BY <1>2, EdgeCanRemoveOccupied
    <2> QED BY <1>2, <2>1, EdgeEndRemoveFact DEF Emptied
<1> QED BY <1>1, <1>2

\* A result finds the link that awaits it.
LEMMA HandleResultReads ==
    ASSUME TypedAndSound, AllInPhase, NEW p \in Peer, inp[p] # <<>>,
           Head(inp[p]).type = "result", HandleResult(p, Head(inp[p]))
    PROVE  Handled(p) /\ UNCHANGED state
<1> DEFINE m == Head(inp[p])
           id == Mirror(m.id)
           n == Msg("end", id, Lookup(edge[p], id))
           uf == {"remove", "endRemove", "sendEnd"}
           u == IF EdgeCanRemove(edge[p], id) THEN EdgeRemoved(edge[p], id) ELSE EdgeEndRemoved(edge[p], id)
<1>1. TypeOK /\ edge[p] \in Edge /\ EdgeSound(edge[p])
    BY DEF TypedAndSound, TypeOK, TablesSound, EdgeSound
<1>2. m \in Message /\ Met(edge[p], m) BY ReadFacts
<1>3. m.type = "result" OBVIOUS
<1> HIDE DEF m
<1>4. m.id \in Int \ {0} BY <1>2, <1>3, MessageFact
<1>5. id \in Int \ {0} /\ Lookup(edge[p], id) # NoLink BY <1>2, <1>3, <1>4 DEF Met, Mirror
<1>6. HandleResult(p, m) BY DEF m
<1>7. LinkUninvolved(p, id, uf, <<>>) /\ Consume(p) BY <1>5, <1>6 DEF HandleResult
<1>8. n \in Message /\ out[p] \in Seq(Message) BY <1>1, <1>5, OccupiedLookup, MsgType DEF TypeOK
<1>9. UninvolvedSends(edge[p], id, uf) = <<>> \o <<n>> BY DEF UninvolvedSends
<1>10. Uninvolved(edge[p], id, uf) = u
    <2>1. EdgeCanRemove(edge[p], id) \/ EdgeCanEndRemove(edge[p], id) BY <1>5, EdgeCanRemoveOccupied
    <2> QED BY <2>1 DEF Uninvolved
<1> HIDE DEF id, n, uf, u
<1>11. edge' = [edge EXCEPT ![p] = u] /\ UNCHANGED <<state, wire>> BY <1>7, <1>10 DEF LinkUninvolved
<1>12. out' = [out EXCEPT ![p] = Append(@, n)]
    <2>1. out' = [out EXCEPT ![p] = @ \o <<>> \o UninvolvedSends(edge[p], id, uf)] BY <1>7 DEF LinkUninvolved
    <2>2. (out[p] \o <<>>) \o (<<>> \o <<n>>) = Append(out[p], n) BY <1>8, SendsOne
    <2> QED BY <1>9, <2>1, <2>2
<1>13. Emptied(edge[p], u, id)
    BY <1>1, <1>5, GivenUp DEF u
<1>14. m = Head(inp[p]) /\ id = Mirror(m.id) BY DEF m, id
<1>15. m.type = "result" \/ (m.type = "begin" /\ ~IsZombie(edge[p], id)) BY <1>3
<1>16. UNCHANGED wire /\ UNCHANGED state /\ m.type # "call" BY <1>3, <1>11
<1>17. Answering(p, m, id) BY <1>12, <1>15 DEF n, Answering
<1>18. Handled(p) BY <1>5, <1>7, <1>11, <1>13, <1>14, <1>16, <1>17, GiveUp
<1> QED BY <1>16, <1>18

\* A removal the other side has begun finds its link, in use or begun as well.
LEMMA HandleBeginReads ==
    ASSUME TypedAndSound, AllInPhase, NEW p \in Peer, inp[p] # <<>>,
           Head(inp[p]).type = "begin", HandleBegin(p, Head(inp[p]))
    PROVE  Handled(p) /\ UNCHANGED state
<1> DEFINE m == Head(inp[p])
           id == Mirror(m.id)
           n == Msg("end", id, Lookup(edge[p], id))
           u == IF EdgeCanRemove(edge[p], id) THEN EdgeRemoved(edge[p], id) ELSE EdgeEndRemoved(edge[p], id)
<1>1. TypeOK /\ edge[p] \in Edge /\ EdgeSound(edge[p])
    BY DEF TypedAndSound, TypeOK, TablesSound, EdgeSound
<1>2. m \in Message /\ Met(edge[p], m) BY ReadFacts
<1>3. m.type = "begin" OBVIOUS
<1> HIDE DEF m
<1>4. m.id \in Int \ {0} BY <1>2, <1>3, MessageFact
<1>5. id \in Int \ {0} /\ Lookup(edge[p], id) # NoLink BY <1>2, <1>3, <1>4 DEF Met, Mirror
<1>6. HandleBegin(p, m) BY DEF m
<1>7. /\ EdgeCanRemove(edge[p], id) <=> ~IsZombie(edge[p], id)
      /\ EdgeCanEndRemove(edge[p], id) <=> IsZombie(edge[p], id)
    BY <1>5, EdgeCanRemoveOccupied
<1>8. /\ edge' = [edge EXCEPT ![p] = u] /\ Consume(p) /\ UNCHANGED <<state, wire>>
      /\ IF EdgeCanRemove(edge[p], id) THEN out' = [out EXCEPT ![p] = Append(@, n)] ELSE UNCHANGED out
    BY <1>6, <1>7 DEF HandleBegin
<1>9. m = Head(inp[p]) BY DEF m
<1> HIDE DEF id, n, u
<1>10. Emptied(edge[p], u, id)
    BY <1>1, <1>5, GivenUp DEF u
<1>11. Answering(p, m, id) BY <1>3, <1>7, <1>8 DEF n, Answering
<1>12. id = Mirror(m.id) BY DEF id
<1>13. /\ edge' = [edge EXCEPT ![p] = u] /\ Consume(p) /\ UNCHANGED wire /\ UNCHANGED state
       /\ m.type # "call" /\ Lookup(edge[p], id) # NoLink
    BY <1>3, <1>5, <1>8
<1>14. Handled(p) BY <1>9, <1>10, <1>11, <1>12, <1>13, GiveUp
<1> QED BY <1>13, <1>14

\* The end of a removal finds the link whose removal had begun, or nothing.
LEMMA HandleEndReads ==
    ASSUME TypedAndSound, AllInPhase, NEW p \in Peer, inp[p] # <<>>,
           Head(inp[p]).type = "end", HandleEnd(p, Head(inp[p]))
    PROVE  Handled(p) /\ UNCHANGED state
<1> DEFINE q == Other(p)
           m == Head(inp[p])
           id == Mirror(m.id)
           u == IF EdgeCanRemove(edge[p], id) THEN EdgeRemoved(edge[p], id) ELSE EdgeEndRemoved(edge[p], id)
<1>1. TypeOK /\ edge[p] \in Edge /\ EdgeSound(edge[p])
    BY DEF TypedAndSound, TypeOK, TablesSound, EdgeSound
<1>2. /\ m \in Message /\ Chan(q)[1] = m
      /\ Shrunk(Chan(q), Tail(Chan(q))) /\ Len(Chan(p)) \in Nat
      /\ Phases(edge[p], edge[q], Chan(p), Chan(q)) /\ Phases(edge[q], edge[p], Chan(q), Chan(p))
      /\ Met(edge[p], m)
    BY ReadFacts
<1>3. m.type = "end" /\ m = Head(inp[p]) OBVIOUS
<1> HIDE DEF m
<1>4. id \in Int \ {0} BY <1>2, <1>3, MessageFact DEF Mirror
<1>5. HandleEnd(p, m) BY DEF m
<1>6. Consume(p) /\ UNCHANGED <<state, out, wire>> BY <1>5 DEF HandleEnd
<1>7. Lookup(edge[p], id) # NoLink => IsZombie(edge[p], id) BY <1>2, <1>3 DEF Met
<1>8. /\ EdgeCanEndRemove(edge[p], id) <=> Lookup(edge[p], id) # NoLink
      /\ ~EdgeCanRemove(edge[p], id)
    BY <1>7, EdgeCanRemoveOccupied
<1>9. edge' = IF EdgeCanEndRemove(edge[p], id) THEN [edge EXCEPT ![p] = EdgeEndRemoved(@, id)] ELSE edge
    BY <1>5 DEF HandleEnd
<1>10. id = Mirror(m.id) OBVIOUS
<1> HIDE DEF id
<1>11. CASE Lookup(edge[p], id) # NoLink
    <2>1. edge' = [edge EXCEPT ![p] = u] BY <1>8, <1>9, <1>11
    <2> HIDE DEF u
    <2>2. Emptied(edge[p], u, id)
        BY <1>1, <1>4, <1>11, GivenUp DEF u
    <2>3. Answering(p, m, id) BY <1>6, <1>7, <1>11 DEF Answering
    <2> QED BY <1>3, <1>6, <1>10, <1>11, <2>1, <2>2, <2>3, GiveUp
<1>12. CASE Lookup(edge[p], id) = NoLink
    <2>1. edge' = [edge EXCEPT ![p] = edge[p]] BY <1>1, <1>8, <1>9, <1>12 DEF TypeOK
    <2>2. Reads(p, edge[p], Chan(p)) BY <1>6, <2>1, ReadStep
    <2>3. Handles(edge[p], edge[p], m, Chan(p), Chan(p)) BY <1>3, <1>10, <1>12 DEF Handles
    <2> QED BY <1>3, <1>6, <2>2, <2>3 DEF Handled
<1> QED BY <1>6, <1>11, <1>12

LEMMA ProcessReads ==
    ASSUME TypedAndSound, AllInPhase, NEW p \in Peer, Process(p)
    PROVE  Handled(p) /\ UNCHANGED state
<1> DEFINE m == Head(inp[p])
<1>1. inp[p] # <<>> BY DEF Process
<1>2. m \in Message BY <1>1, ReadFacts
<1> HIDE DEF m
<1>3. m.type \in {"call", "result", "begin", "end"} BY <1>2, MessageFact
<1>4. /\ m.type = "call" => HandleCall(p, m)
      /\ m.type = "result" => HandleResult(p, m)
      /\ m.type = "begin" => HandleBegin(p, m)
      /\ m.type = "end" => HandleEnd(p, m)
    BY <1>3 DEF Process, m
<1>5. CASE m.type = "call" BY <1>1, <1>4, <1>5, HandleCallReads DEF m
<1>6. CASE m.type = "result" BY <1>1, <1>4, <1>6, HandleResultReads DEF m
<1>7. CASE m.type = "begin" BY <1>1, <1>4, <1>7, HandleBeginReads DEF m
<1>8. CASE m.type = "end" BY <1>1, <1>4, <1>8, HandleEndReads DEF m
<1> QED BY <1>3, <1>5, <1>6, <1>7, <1>8

LEMMA ProcessPhases ==
    ASSUME TypedAndSound, AllInPhase, NEW p \in Peer, Process(p)
    PROVE  AllInPhase' /\ UNCHANGED state
<1> DEFINE q == Other(p)
           m == Head(inp[p])
           t == Tail(Chan(q))
<1>1. TypeOK /\ edge[p] \in Edge /\ EdgeSound(edge[p]) /\ inp[p] # <<>>
    BY DEF TypedAndSound, TypeOK, TablesSound, EdgeSound, Process
<1>2. /\ m \in Message /\ Chan(q)[1] = m
      /\ Shrunk(Chan(q), t) /\ Len(Chan(p)) \in Nat
      /\ Phases(edge[p], edge[q], Chan(p), Chan(q)) /\ Phases(edge[q], edge[p], Chan(q), Chan(p))
    BY <1>1, ReadFacts
<1>3. Handled(p) /\ UNCHANGED state BY ProcessReads
<1>4. PICK u, g : Reads(p, u, g) /\ Handles(edge[p], u, m, Chan(p), g) BY <1>3 DEF Handled
<1> HIDE DEF m, t
<1>5. Phases(u, edge[q], g, t) /\ Phases(edge[q], u, t, g) BY <1>1, <1>2, <1>4, HandledPhases
<1> QED BY <1>1, <1>3, <1>4, <1>5, PhaseStep DEF Reads, t

-----------------------------------------------------------------------------
(* What the users of the links do.                                         *)

LEMMA DropWrites ==
    ASSUME TypedAndSound, NEW p \in Peer, Drop(p)
    PROVE  \E u, m : Writes(p, u, m) /\ Begins(edge[p], u, m)
<1>1. PICK id \in LiveIds(edge[p]) : LinkUninvolved(p, id, {"beginRemove", "sendBegin"}, <<>>)
    BY DEF Drop
<1>2. UNCHANGED <<wire, inp>> BY <1>1 DEF Drop, LinkUninvolved
<1> DEFINE n == Msg("begin", id, Lookup(edge[p], id))
<1>3. edge[p] \in Edge /\ out[p] \in Seq(Message) BY DEF TypedAndSound, TypeOK
<1>4. id \in Int /\ Lookup(edge[p], id) # NoLink /\ ~IsZombie(edge[p], id)
    BY <1>3 DEF LiveIds
<1>5. n \in Message BY <1>3, <1>4, OccupiedLookup, MsgType
<1>6. EdgeCanRemove(edge[p], id) BY <1>4, EdgeCanRemoveOccupied
<1>7. Uninvolved(edge[p], id, {"beginRemove", "sendBegin"}) = EdgeBeginRemoved(edge[p], id)
    BY <1>6 DEF Uninvolved
<1>8. UninvolvedSends(edge[p], id, {"beginRemove", "sendBegin"}) = <<n>> \o <<>>
    BY DEF UninvolvedSends
<1>9. (out[p] \o <<>>) \o (<<n>> \o <<>>) = Append(out[p], n) BY <1>3, <1>5, SendsOne
<1> HIDE DEF n
<1>10. edge' = [edge EXCEPT ![p] = EdgeBeginRemoved(@, id)] BY <1>1, <1>7 DEF LinkUninvolved
<1>11. out' = [out EXCEPT ![p] = Append(@, n)]
    <2>1. out' = [out EXCEPT ![p] = @ \o <<>> \o UninvolvedSends(edge[p], id, {"beginRemove", "sendBegin"})]
        BY <1>1 DEF LinkUninvolved
    <2> QED BY <1>8, <1>9, <2>1
<1> QED BY <1>2, <1>10, <1>11, BeginWrites DEF n

LEMMA ResolveWrites ==
    ASSUME TypedAndSound, NEW p \in Peer, Resolve(p)
    PROVE  \E u, m : Writes(p, u, m) /\ Begins(edge[p], u, m)
<1>1. PICK id \in LiveIds(edge[p]) :
        id < 0 /\ LinkUninvolved(p, id, {"beginRemove"}, <<Msg("result", id, Lookup(edge[p], id))>>)
    BY DEF Resolve
<1>2. UNCHANGED <<wire, inp>> BY <1>1 DEF Resolve, LinkUninvolved
<1> DEFINE n == Msg("result", id, Lookup(edge[p], id))
<1>3. edge[p] \in Edge /\ out[p] \in Seq(Message) BY DEF TypedAndSound, TypeOK
<1>4. id \in Int /\ Lookup(edge[p], id) # NoLink /\ ~IsZombie(edge[p], id)
    BY <1>3 DEF LiveIds
<1>5. n \in Message BY <1>3, <1>4, OccupiedLookup, MsgType
<1>6. EdgeCanRemove(edge[p], id) BY <1>4, EdgeCanRemoveOccupied
<1>7. Uninvolved(edge[p], id, {"beginRemove"}) = EdgeBeginRemoved(edge[p], id)
    BY <1>6 DEF Uninvolved
<1>8. UninvolvedSends(edge[p], id, {"beginRemove"}) = <<>> \o <<>>
    BY DEF UninvolvedSends
<1>9. (out[p] \o <<n>>) \o (<<>> \o <<>>) = Append(out[p], n)
    <2>1. Append(out[p], n) \in Seq(Message) BY <1>3, <1>5, AppendProperties
    <2>2. out[p] \o <<n>> = Append(out[p], n) BY <1>3, <1>5, AppendIsConcat
    <2> QED BY <1>5, <2>1, <2>2, SendsOne
<1> HIDE DEF n
<1>10. edge' = [edge EXCEPT ![p] = EdgeBeginRemoved(@, id)] BY <1>1, <1>7 DEF LinkUninvolved
<1>11. out' = [out EXCEPT ![p] = Append(@, n)]
    <2>1. out' = [out EXCEPT ![p] = @ \o <<n>> \o UninvolvedSends(edge[p], id, {"beginRemove"})]
        BY <1>1 DEF LinkUninvolved, n
    <2> QED BY <1>8, <1>9, <2>1
<1>12. ~(id > 0) BY <1>1, <1>4
<1> QED BY <1>2, <1>10, <1>11, <1>12, BeginWrites DEF n

\* What Put and Call put out is one call, and the links it carries are ones
\* that nothing referred to before.
LEMMA CallWrites ==
    ASSUME TypedAndSound, NEW p \in Peer, Put(p) \/ Call(p)
    PROVE  \E u, m : /\ Writes(p, u, m) /\ Announces(edge[p], u, m)
                     /\ m.arg.link \in IfaceLink \cup {NoLink} /\ (m.arg.link # NoLink => Fresh(m.arg.link))
                     /\ m.res.link \in ResultLink \cup {NoLink} /\ (m.res.link # NoLink => Fresh(m.res.link))
<1>1. IfaceLink \cup {NoLink} \subseteq Link \cup {NoLink} /\ ResultLink \cup {NoLink} \subseteq Link \cup {NoLink}
    BY LinkAssumption
<1>2. CASE Put(p)
    <2>1. PICK a \in IfaceLink, r \in ResultLink \cup {NoLink} :
            Fresh(a) /\ (r = NoLink \/ Fresh(r)) /\ SendCall(p, 0, NoLink, a, r)
        BY <1>2 DEF Put
    <2>2. a \in Link \cup {NoLink} /\ r \in Link \cup {NoLink} BY <1>1
    <2>3. PICK u, m : /\ Writes(p, u, m) /\ Announces(edge[p], u, m)
                      /\ m.arg.link \in {a, NoLink} /\ m.res.link \in {r, NoLink}
        BY <2>1, <2>2, SendCallWrites
    <2> QED BY <2>1, <2>3
<1>3. CASE Call(p)
    <2>1. PICK id \in LiveIds(edge[p]), a \in IfaceLink \cup {NoLink}, r \in ResultLink \cup {NoLink} :
            (a = NoLink \/ Fresh(a)) /\ (r = NoLink \/ Fresh(r)) /\ SendCall(p, id, Lookup(edge[p], id), a, r)
        BY <1>3 DEF Call
    <2>2. edge[p] \in Edge BY DEF TypedAndSound, TypeOK
    <2>3. id \in Int /\ Lookup(edge[p], id) # NoLink /\ ~IsZombie(edge[p], id)
        BY <2>2 DEF LiveIds
    <2>4. a \in Link \cup {NoLink} /\ r \in Link \cup {NoLink} /\ Lookup(edge[p], id) \in Link \cup {NoLink}
        BY <1>1, <2>2, <2>3, LookupType
    <2>5. PICK u, m : /\ Writes(p, u, m) /\ Announces(edge[p], u, m)
                      /\ m.arg.link \in {a, NoLink} /\ m.res.link \in {r, NoLink}
        BY <2>1, <2>3, <2>4, SendCallWrites
    <2> QED BY <2>1, <2>5
<1> QED BY <1>2, <1>3

LEMMA UserPhases ==
    ASSUME TypedAndSound, AllInPhase, NEW p \in Peer, Put(p) \/ Call(p) \/ Drop(p) \/ Resolve(p)
    PROVE  AllInPhase'
<1>1. CASE Put(p) \/ Call(p)
    <2>1. PICK u, m : Writes(p, u, m) /\ Announces(edge[p], u, m) BY <1>1, CallWrites
    <2> QED BY <2>1, SendCallPhases
<1>2. CASE Drop(p) \/ Resolve(p)
    <2>1. PICK u, m : Writes(p, u, m) /\ Begins(edge[p], u, m) BY <1>2, DropWrites, ResolveWrites
    <2> QED BY <2>1, BeginPhases
<1> QED BY <1>1, <1>2

-----------------------------------------------------------------------------
(* What only moves messages along a channel.                               *)

LEMMA FlushMoves ==
    ASSUME TypedAndSound, NEW p \in Peer, Flush(p)
    PROVE  edge' = edge /\ \A x \in Peer : Chan(x)' = Chan(x)
<1> DEFINE q == Other(p)
<1>1. q \in Peer /\ q # p /\ Other(q) = p /\ \A x \in Peer : x = p \/ x = q BY OtherTwice, OtherPeer
<1>2. inp[q] \in Seq(Message) /\ wire[p] \in Seq(Message) /\ out[p] \in Seq(Message)
    BY <1>1 DEF TypedAndSound, TypeOK
<1>3. /\ wire'[p] = wire[p] \o out[p] /\ out'[p] = <<>> /\ wire'[q] = wire[q] /\ out'[q] = out[q]
      /\ edge' = edge /\ inp' = inp
    BY <1>1 DEF Flush, TypedAndSound, TypeOK
<1>4. Chan(q)' = Chan(q) BY <1>3 DEF Chan
<1>5. Chan(p)' = Chan(p)
    <2>1. wire[p] \o out[p] \in Seq(Message) BY <1>2, ConcatProperties
    <2>2. inp[q] \o (wire[p] \o out[p]) \in Seq(Message) BY <1>2, <2>1, ConcatProperties
    <2>3. (inp[q] \o (wire[p] \o out[p])) \o <<>> = inp[q] \o (wire[p] \o out[p]) BY <2>2, ConcatEmptySeq
    <2>4. inp[q] \o (wire[p] \o out[p]) = (inp[q] \o wire[p]) \o out[p] BY <1>2, MessagesAssociate
    <2> QED BY <1>3, <2>3, <2>4 DEF Chan
<1> QED BY <1>1, <1>3, <1>4, <1>5

LEMMA ReceiveMoves ==
    ASSUME TypedAndSound, NEW p \in Peer, Receive(p)
    PROVE  edge' = edge /\ \A x \in Peer : Chan(x)' = Chan(x)
<1> DEFINE q == Other(p)
<1>1. q \in Peer /\ q # p /\ Other(q) = p /\ \A x \in Peer : x = p \/ x = q BY OtherTwice, OtherPeer
<1>2. inp[p] \in Seq(Message) /\ wire[q] \in Seq(Message) BY <1>1 DEF TypedAndSound, TypeOK
<1>3. /\ inp'[p] = inp[p] \o wire[q] /\ wire'[q] = <<>> /\ inp'[q] = inp[q] /\ wire'[p] = wire[p]
      /\ edge' = edge /\ out' = out
    BY <1>1 DEF Receive, TypedAndSound, TypeOK
<1>4. Chan(p)' = Chan(p) BY <1>3 DEF Chan
<1>5. Chan(q)' = Chan(q)
    <2>1. inp[p] \o wire[q] \in Seq(Message) BY <1>2, ConcatProperties
    <2>2. (inp[p] \o wire[q]) \o <<>> = inp[p] \o wire[q] BY <2>1, ConcatEmptySeq
    <2>3. Chan(q) = (inp[p] \o wire[q]) \o out[q] BY <1>1 DEF Chan
    <2>4. Chan(q)' = (inp'[Other(q)] \o wire'[q]) \o out'[q] BY Zenon DEF Chan
    <2> QED BY <1>1, <1>3, <2>2, <2>3, <2>4
<1> QED BY <1>1, <1>3, <1>4, <1>5

-----------------------------------------------------------------------------
(* The invariant.                                                          *)

\* The tables are sound, every number is in a phase and no side has failed.
LinksInv == TypedAndSound /\ AllInPhase /\ NoFail

LEMMA LinksInvInit == Init => LinksInv
<1> SUFFICES ASSUME Init PROVE LinksInv OBVIOUS
<1>1. TypedAndSound BY TypedAndSoundInit
<1>2. NoFail BY DEF Init, NoFail
<1>3. ASSUME NEW p \in Peer
      PROVE  /\ Chan(p) = <<>>
             /\ \A k \in Int \ {0} : Lookup(edge[p], k) = NoLink
    <2>1. Chan(p) = <<>> BY OtherTwice DEF Init, Chan
    <2>2. edge[p].local.links = <<>> /\ edge[p].remote.links = <<>>
        BY DEF Init, EmptyLocal, EmptyRemote
    <2> QED BY <2>1, <2>2 DEF Lookup, Get
<1>4. AllInPhase
    <2> SUFFICES ASSUME NEW p \in Peer, NEW i \in Nat \ {0}
                 PROVE  Free(Lookup(edge[p], i), Lookup(edge[Other(p)], -i), IsZombie(edge[Other(p)], -i),
                             Chan(p), Chan(Other(p)), i)
        BY DEF AllInPhase, Phases, Phase
    <2>1. Chan(p) = <<>> /\ Chan(Other(p)) = <<>> BY <1>3, OtherTwice
    <2>2. i \in Int \ {0} /\ -i \in Int \ {0} OBVIOUS
    <2>3. Lookup(edge[p], i) = NoLink /\ Lookup(edge[Other(p)], -i) = NoLink BY <1>3, <2>2, OtherTwice
    <2>4. Ends(<<>>, 0, 0, i) /\ Silent(<<>>, 0, -i) BY DEF Ends, Silent
    <2> QED BY <2>1, <2>3, <2>4 DEF Free, Past
<1> QED BY <1>1, <1>2, <1>4 DEF LinksInv

LEMMA LinksInvStep ==
    ASSUME LinksInv, [Next]_vars
    PROVE  LinksInv'
<1>1. TypedAndSound /\ AllInPhase /\ NoFail BY DEF LinksInv
<1>2. TypedAndSound' BY <1>1, TypedAndSoundStep
<1>3. state \in [Peer -> State] BY <1>1 DEF TypedAndSound, TypeOK
<1>4. CASE UNCHANGED vars
    <2>1. edge' = edge /\ (\A p \in Peer : Chan(p)' = Chan(p)) /\ state' = state BY <1>4 DEF vars, Chan
    <2> QED BY <1>1, <1>2, <2>1, FramePhases DEF LinksInv, NoFail
<1>5. ASSUME NEW p \in Peer, Start(p) \/ Pause(p) \/ Leave(p) PROVE LinksInv'
    <2>1. UNCHANGED <<edge, out, wire, inp>> BY <1>5 DEF Start, Pause, Leave
    <2>2. edge' = edge /\ \A x \in Peer : Chan(x)' = Chan(x) BY <2>1 DEF Chan
    <2>3. NoFail' BY <1>1, <1>3, <1>5 DEF NoFail, Start, Pause, Leave
    <2> QED BY <1>1, <1>2, <2>2, <2>3, FramePhases DEF LinksInv
<1>6. ASSUME NEW p \in Peer, Put(p) \/ Call(p) \/ Drop(p) \/ Resolve(p) PROVE LinksInv'
    <2>1. UNCHANGED state BY <1>6 DEF Put, Call, SendCall, Drop, Resolve, LinkUninvolved
    <2> QED BY <1>1, <1>2, <1>6, <2>1, UserPhases DEF LinksInv, NoFail
<1>7. ASSUME NEW p \in Peer, Flush(p) \/ Receive(p) PROVE LinksInv'
    <2>1. UNCHANGED state BY <1>7 DEF Flush, Receive
    <2>2. edge' = edge /\ \A x \in Peer : Chan(x)' = Chan(x) BY <1>1, <1>7, FlushMoves, ReceiveMoves
    <2> QED BY <1>1, <1>2, <2>1, <2>2, FramePhases DEF LinksInv, NoFail
<1>8. ASSUME NEW p \in Peer, Process(p) PROVE LinksInv'
    BY <1>1, <1>2, <1>8, ProcessPhases DEF LinksInv, NoFail
<1> QED BY <1>4, <1>5, <1>6, <1>7, <1>8 DEF Next

LEMMA LinksInvAlways == Spec => []LinksInv
<1>1. Init => LinksInv BY LinksInvInit
<1>2. LinksInv /\ [Next]_vars => LinksInv' BY LinksInvStep
<1> QED BY <1>1, <1>2, PTL DEF Spec

-----------------------------------------------------------------------------
(* What follows.                                                           *)

\* Two edges that follow the code never make each other fail, however both
\* sides send, call, drop, cancel and resolve: no bad link is requested or
\* marked to delete, and no link that is received finds its cell taken.
THEOREM NeverFails == Spec => []NoFail
<1>1. LinksInv => NoFail BY DEF LinksInv
<1> QED BY <1>1, LinksInvAlways, PTL

\* Every message is processed by the link its sender meant, for any number of
\* links and although every number is used again as soon as it is free.
THEOREM MessagesMeetTheirLink == Spec => []RightLink
<1>1. LinksInv => RightLink
    <2> SUFFICES ASSUME LinksInv, NEW p \in Peer, inp[p] # <<>>
                 PROVE  LET m == Head(inp[p])
                            id == Mirror(m.id)
                        IN  /\ m.type # "end" /\ id # 0 => Lookup(edge[p], id) = m.link
                            /\ m.type = "end" /\ IsZombie(edge[p], id) => Lookup(edge[p], id) = m.link
        BY DEF RightLink
    <2> DEFINE m == Head(inp[p])
               id == Mirror(m.id)
    <2>1. TypedAndSound /\ AllInPhase BY DEF LinksInv
    <2>2. m \in Message /\ Met(edge[p], m) BY <2>1, ReadFacts
    <2> HIDE DEF m
    <2>3. m.id \in Int BY <2>2, MessageFact
    <2>4. id \in Int /\ (id # 0 => m.id # 0) BY <2>3 DEF Mirror
    <2>5. IsZombie(edge[p], id) => Lookup(edge[p], id) # NoLink
        <3>1. edge[p] \in Edge /\ EdgeSound(edge[p])
            BY <2>1 DEF TypedAndSound, TypeOK, TablesSound, EdgeSound
        <3> QED BY <2>4, <3>1, EmptyNoZombie
    <2> QED BY <2>2, <2>4, <2>5 DEF Met, m
<1> QED BY <1>1, LinksInvAlways, PTL

\* No message on its way names a number that is on the free list of the table
\* it would be looked up in, or past that table's end: the next link to take
\* the number receives nothing meant for the last one.
THEOREM FreeNumbersAreSilent == Spec => []FreeMeansUnused
<1>1. LinksInv => FreeMeansUnused
    <2> SUFFICES ASSUME LinksInv, NEW p \in Peer, NEW k \in 1..Len(Chan(Other(p))),
                        Mirror(Chan(Other(p))[k].id) > 0,
                        Lookup(edge[p], Mirror(Chan(Other(p))[k].id)) = NoLink
                 PROVE  FALSE
        BY DEF FreeMeansUnused
    <2> DEFINE d == Chan(Other(p))
               i == Mirror(d[k].id)
    <2>1. TypeOK /\ AllInPhase BY DEF LinksInv, TypedAndSound
    <2>2. d \in Seq(Message) BY <2>1, OtherTwice, ChanType
    <2>3. d[k] \in Message BY <2>2, ElementOfSeq
    <2>4. d[k].id \in Int BY <2>3, MessageFact
    <2>5. i \in Nat \ {0} /\ d[k].id = -i BY <2>4 DEF Mirror
    <2>6. Phases(edge[p], edge[Other(p)], Chan(p), d) BY <2>1, PhaseNow
    <2>7. Lookup(edge[p], i) = NoLink OBVIOUS
    <2> HIDE DEF d, i
    <2>8. Silent(d, 0, -i) BY <2>5, <2>6, <2>7 DEF Phases, Phase, Free, Sent, Joined, Gone
    <2>9. k \in (0 + 1)..Len(d) BY DEF d
    <2> QED BY <2>5, <2>8, <2>9 DEF Silent, About
<1> QED BY <1>1, LinksInvAlways, PTL

LEMMA ClosedIsRemoval ==
    ASSUME NEW c, NEW j, NEW l, NEW types, "call" \notin types, Closed(c, 0, j, l, types)
    PROVE  Removal(c, j, l)
<1>1. PICK x \in (0 + 1)..Len(c) : Says(c[x], j, l, types) BY DEF Closed
<1> QED BY <1>1 DEF Says, Removal

LEMMA PastIsRemoval ==
    ASSUME NEW c, NEW b \in Int, b <= Len(c), NEW i, NEW r, r # NoLink, NEW zr, Past(c, b, i, r, zr),
           Len(c) \in Nat
    PROVE  Removal(c, i, r)
<1>1. PICK x \in 1..b : Says(c[x], i, r, {"begin", "end"}) BY DEF Past
<1>2. x \in 1..Len(c) OBVIOUS
<1> QED BY <1>1, <1>2 DEF Says, Removal

\* A cell of one side that the other side does not have under the same number
\* is newly announced or on its way to be removed: however removals cross, no
\* cell stays behind that nobody will ever remove.
THEOREM NothingOrphaned == Spec => []NoOrphan
<1>1. LinksInv => NoOrphan
    <2> SUFFICES ASSUME LinksInv, NEW p \in Peer
                 PROVE  LET q == Other(p)
                        IN  /\ \A i \in 1..Len(edge[p].local.links) :
                                LET l == edge[p].local.links[i]
                                IN  l # NoLink /\ Get(edge[q].remote, i) # l =>
                                        Opening(Chan(p), i, l) \/ Removal(Chan(q), -i, l)
                            /\ \A i \in 1..Len(edge[p].remote.links) :
                                LET l == edge[p].remote.links[i]
                                IN  l # NoLink /\ Get(edge[q].local, i) # l => Removal(Chan(q), i, l)
        BY DEF NoOrphan
    <2> DEFINE q == Other(p)
               c == Chan(p)
               d == Chan(q)
    <2>1. TypeOK /\ AllInPhase /\ q \in Peer BY OtherTwice DEF LinksInv, TypedAndSound
    <2>2. Len(c) \in Nat /\ Len(d) \in Nat BY <2>1, ChanType
    <2>3. Phases(edge[p], edge[q], c, d) /\ Phases(edge[q], edge[p], d, c) BY <2>1, PhaseNow
    <2> HIDE DEF c, d
    <2>4. ASSUME NEW i \in 1..Len(edge[p].local.links), NEW l, l = edge[p].local.links[i],
                 l # NoLink, Get(edge[q].remote, i) # l
          PROVE  Opening(c, i, l) \/ Removal(d, -i, l)
        <3>1. i \in Nat \ {0} /\ Lookup(edge[p], i) = l /\ Lookup(edge[q], -i) # l
            BY <2>4 DEF Lookup, Get
        <3>2. Phase(l, IsZombie(edge[p], i), Lookup(edge[q], -i), IsZombie(edge[q], -i), c, d, i)
            BY <2>3, <3>1 DEF Phases
        <3>3. CASE Sent(l, IsZombie(edge[p], i), Lookup(edge[q], -i), IsZombie(edge[q], -i), c, d, i)
            <4>1. PICK o \in 1..Len(c) : Opens(c[o], i, l) BY <3>3 DEF Sent
            <4> QED BY <4>1 DEF Opens, Opening
        <3>4. CASE Gone(l, IsZombie(edge[p], i), Lookup(edge[q], -i), c, d, i)
            <4>1. Closed(d, 0, -i, l, {"begin", "result", "end"}) BY <3>4 DEF Gone
            <4> QED BY <4>1, ClosedIsRemoval
        <3> QED BY <2>4, <3>1, <3>2, <3>3, <3>4 DEF Phase, Free, Joined
    <2>5. ASSUME NEW i \in 1..Len(edge[p].remote.links), NEW l, l = edge[p].remote.links[i],
                 l # NoLink, Get(edge[q].local, i) # l
          PROVE  Removal(d, i, l)
        <3> DEFINE w == Lookup(edge[q], i)
        <3>1. i \in Nat \ {0} /\ Lookup(edge[p], -i) = l /\ w # l
            BY <2>5 DEF Lookup, Get
        <3> HIDE DEF w
        <3>2. Phase(w, IsZombie(edge[q], i), l, IsZombie(edge[p], -i), d, c, i)
            BY <2>3, <3>1 DEF Phases, w
        <3>3. CASE Free(w, l, IsZombie(edge[p], -i), d, c, i)
            <4>1. Past(d, Len(d), i, l, IsZombie(edge[p], -i)) BY <3>3 DEF Free
            <4> QED BY <2>2, <2>5, <4>1, PastIsRemoval
        <3>4. CASE Sent(w, IsZombie(edge[q], i), l, IsZombie(edge[p], -i), d, c, i)
            <4>1. PICK o \in 1..Len(d) : Past(d, o - 1, i, l, IsZombie(edge[p], -i)) BY <3>4 DEF Sent
            <4>2. o - 1 \in Int /\ o - 1 <= Len(d) BY <2>2
            <4> QED BY <2>2, <2>5, <4>1, <4>2, PastIsRemoval
        <3> QED BY <2>5, <3>1, <3>2, <3>3, <3>4 DEF Phase, Joined, Gone
    <2> QED BY <2>4, <2>5 DEF c, d
<1> QED BY <1>1, LinksInvAlways, PTL

\* When nothing is under way between the edges, no removal is left half done on
\* either side.
THEOREM QuietIsSettled == Spec => []QuietMeansSettled
<1>1. LinksInv => QuietMeansSettled
    <2> SUFFICES ASSUME LinksInv, \A p \in Peer : Chan(p) = <<>>, NEW p \in Peer
                 PROVE  edge[p].local.zombie = {} /\ edge[p].remote.zombie = {}
        BY DEF QuietMeansSettled
    <2> DEFINE q == Other(p)
               c == Chan(p)
               d == Chan(q)
    <2>1. /\ TypeOK /\ AllInPhase /\ q \in Peer
          /\ edge[p].local.zombie \in SUBSET Nat /\ edge[p].remote.zombie \in SUBSET Nat
          /\ ZombiesOccupied(edge[p].local) /\ ZombiesOccupied(edge[p].remote)
        BY OtherTwice DEF LinksInv, TypedAndSound, TypeOK, TablesSound, LocalSound, RemoteSound,
                          Edge, LocalTable, RemoteTable
    <2>2. Len(c) = 0 /\ Len(d) = 0 BY <2>1
    <2>3. Phases(edge[p], edge[q], c, d) /\ Phases(edge[q], edge[p], d, c) BY <2>1, PhaseNow
    <2> HIDE DEF c, d
    <2>4. ASSUME NEW i \in edge[p].local.zombie PROVE FALSE
        <3>1. i \in Nat \ {0} /\ Lookup(edge[p], i) # NoLink /\ IsZombie(edge[p], i)
            BY <2>1 DEF ZombiesOccupied, Occupied, Get, Lookup, IsZombie
        <3>2. Phase(Lookup(edge[p], i), IsZombie(edge[p], i), Lookup(edge[q], -i), IsZombie(edge[q], -i), c, d, i)
            BY <2>3, <3>1 DEF Phases
        <3> QED BY <2>2, <3>1, <3>2 DEF Phase, Free, Sent, Joined, Gone, Use, Closed
    <2>5. ASSUME NEW i \in edge[p].remote.zombie PROVE FALSE
        <3>1. i \in Nat \ {0} /\ Lookup(edge[p], -i) # NoLink /\ IsZombie(edge[p], -i)
            BY <2>1 DEF ZombiesOccupied, Occupied, Get, Lookup, IsZombie
        <3>2. Phase(Lookup(edge[q], i), IsZombie(edge[q], i), Lookup(edge[p], -i), IsZombie(edge[p], -i), d, c, i)
            BY <2>3, <3>1 DEF Phases
        <3> QED BY <2>2, <3>1, <3>2 DEF Phase, Free, Sent, Joined, Gone, Use, Closed, Past
    <2> QED BY <2>4, <2>5
<1> QED BY <1>1, LinksInvAlways, PTL

-----------------------------------------------------------------------------
(* Every link lives the life of LinkLife.  LinkLife knows a link by its    *)
(* identity, the phases by the number of its cells.  The two agree because *)
(* an identity belongs to one number of one side as long as anything       *)
(* refers to it (Unique), so that the two cells of a link are the two      *)
(* cells of that number (CellsAt).                                         *)

(* One number, seen from the edge e that owns it; c is what e's side has   *)
(* under way and f the other edge.                                         *)

OwnerAt(e, i, l) == IF Lookup(e, i) = l THEN CellOf(IsZombie(e, i)) ELSE "none"

OtherAt(f, c, i, l) ==
    IF Lookup(f, -i) = l THEN CellOf(IsZombie(f, -i))
    ELSE IF Opening(c, i, l) THEN "coming" ELSE "none"

\* The number i has to do with link l.
Uses(e, f, c, i, l) == Lookup(e, i) = l \/ Lookup(f, -i) = l \/ Opening(c, i, l)

\* A link announced under i is not the one the other side still has there.
Apart(e, f, c, i) == Lookup(e, i) # NoLink /\ Opening(c, i, Lookup(e, i)) => Lookup(f, -i) # Lookup(e, i)

\* The steps of LinkLife, from the cells a and b to x and y, and none.
LifeStep(a, b, x, y) ==
    \/ a = x /\ b = y
    \/ a = "none" /\ b = "none" /\ x = "open" /\ y = "coming"
    \/ a # "none" /\ b = "coming" /\ y = "open" /\ x = a
    \/ a = "open" /\ x = "closing" /\ y = b
    \/ b = "open" /\ y = "closing" /\ x = a
    \/ a = "open" /\ b = "closing" /\ x = "none" /\ y = b
    \/ b = "open" /\ a = "closing" /\ y = "none" /\ x = a
    \/ a = "closing" /\ b \in {"none", "closing"} /\ x = "none" /\ y = b
    \/ b = "closing" /\ a \in {"none", "closing"} /\ y = "none" /\ x = a

\* From e, f and c to u, v and g every link lives on under every number.
LivesOn(e, f, c, u, v, g) ==
    \A i \in Nat \ {0}, l \in Link :
        LifeStep(OwnerAt(e, i, l), OtherAt(f, c, i, l), OwnerAt(u, i, l), OtherAt(v, g, i, l))

\* Nothing new is referred to, and what was apart stays apart.
NothingNew(e, f, c, u, v, g) ==
    \A i \in Nat \ {0} :
        /\ \A l \in Link : Uses(u, v, g, i, l) => Uses(e, f, c, i, l)
        /\ Apart(e, f, c, i) => Apart(u, v, g, i)

Goes(e, f, c, u, v, g) == LivesOn(e, f, c, u, v, g) /\ NothingNew(e, f, c, u, v, g)

-----------------------------------------------------------------------------
(* The openings of a channel that grows or shrinks.                        *)

Brings(m, i, l) == [id |-> i, link |-> l] \in {m.arg, m.res}

LEMMA OpeningGrows ==
    ASSUME NEW c, NEW m, NEW g, Grown(c, m, g), NEW i, NEW l
    PROVE  Opening(g, i, l) <=> Opening(c, i, l) \/ Brings(m, i, l)
<1>1. Len(c) \in Nat /\ Len(g) = Len(c) + 1 /\ g[Len(c) + 1] = m /\ \A k \in 1..Len(c) : g[k] = c[k]
    BY DEF Grown
<1>2. ASSUME Opening(g, i, l) PROVE Opening(c, i, l) \/ Brings(m, i, l)
    <2>1. PICK k \in 1..Len(g) : [id |-> i, link |-> l] \in {g[k].arg, g[k].res} BY <1>2 DEF Opening
    <2>2. CASE k = Len(c) + 1 BY <1>1, <2>1, <2>2 DEF Brings
    <2>3. CASE k # Len(c) + 1
        <3>1. k \in 1..Len(c) /\ g[k] = c[k] BY <1>1, <2>3
        <3> QED BY <2>1, <3>1 DEF Opening
    <2> QED BY <2>2, <2>3
<1>3. ASSUME Opening(c, i, l) PROVE Opening(g, i, l)
    <2>1. PICK k \in 1..Len(c) : [id |-> i, link |-> l] \in {c[k].arg, c[k].res} BY <1>3 DEF Opening
    <2>2. k \in 1..Len(g) /\ g[k] = c[k] BY <1>1
    <2> QED BY <2>1, <2>2 DEF Opening
<1>4. ASSUME Brings(m, i, l) PROVE Opening(g, i, l)
    <2>1. Len(c) + 1 \in 1..Len(g) BY <1>1
    <2> QED BY <1>1, <1>4, <2>1 DEF Brings, Opening
<1> QED BY <1>2, <1>3, <1>4

LEMMA OpeningShrinks ==
    ASSUME NEW c, NEW t, Shrunk(c, t), NEW i, NEW l
    PROVE  Opening(c, i, l) <=> Opening(t, i, l) \/ Brings(c[1], i, l)
<1>1. Len(c) \in Nat \ {0} /\ Len(t) = Len(c) - 1 /\ \A k \in 1..Len(t) : t[k] = c[k + 1]
    BY DEF Shrunk
<1>2. ASSUME Opening(c, i, l) PROVE Opening(t, i, l) \/ Brings(c[1], i, l)
    <2>1. PICK k \in 1..Len(c) : [id |-> i, link |-> l] \in {c[k].arg, c[k].res} BY <1>2 DEF Opening
    <2>2. CASE k = 1 BY <2>1, <2>2 DEF Brings
    <2>3. CASE k # 1
        <3>1. k - 1 \in 1..Len(t) /\ t[k - 1] = c[k] BY <1>1, <2>3
        <3> QED BY <2>1, <3>1 DEF Opening
    <2> QED BY <2>2, <2>3
<1>3. ASSUME Opening(t, i, l) PROVE Opening(c, i, l)
    <2>1. PICK k \in 1..Len(t) : [id |-> i, link |-> l] \in {t[k].arg, t[k].res} BY <1>3 DEF Opening
    <2>2. k + 1 \in 1..Len(c) /\ t[k] = c[k + 1] BY <1>1
    <2> QED BY <2>1, <2>2 DEF Opening
<1>4. ASSUME Brings(c[1], i, l) PROVE Opening(c, i, l)
    <2>1. 1 \in 1..Len(c) BY <1>1
    <2> QED BY <1>4, <2>1 DEF Brings, Opening
<1> QED BY <1>2, <1>3, <1>4

\* Only calls bring links, and what is brought is carried.
LEMMA BringsFact ==
    ASSUME NEW m \in Message, NEW i \in Nat \ {0}, NEW l
    PROVE  /\ m.type # "call" => ~Brings(m, i, l)
           /\ Brings(m, i, l) => Carries(m, i)
           /\ Brings(m, i, l) <=> (i = m.arg.id /\ l = m.arg.link) \/ (i = m.res.id /\ l = m.res.link)
<1>1. m.type # "call" => m.arg = NoneCarried /\ m.res = NoneCarried BY DEF Message
<1>2. [id |-> i, link |-> l].id = i /\ [id |-> i, link |-> l].link = l OBVIOUS
<1>3. m.type # "call" => ~Brings(m, i, l) BY <1>1 DEF Brings, NoneCarried
<1>4. Brings(m, i, l) => (i = m.arg.id /\ l = m.arg.link) \/ (i = m.res.id /\ l = m.res.link)
    BY <1>2 DEF Brings
<1>5. /\ i = m.arg.id => m.arg = [id |-> i, link |-> m.arg.link]
      /\ i = m.res.id => m.res = [id |-> i, link |-> m.res.link]
    BY MessageFact
<1>6. (i = m.arg.id /\ l = m.arg.link) \/ (i = m.res.id /\ l = m.res.link) => Brings(m, i, l)
    BY <1>5 DEF Brings
<1> QED BY <1>3, <1>4, <1>6 DEF Carries

\* Where a channel says nothing of a number, it opens no link under it.
LEMMA SilentOpensNothing ==
    ASSUME NEW c, NEW i, NEW l,
           \/ Silent(c, 0, i)
           \/ \E w, z, types : Use(c, 0, i, w, z, types)
    PROVE  ~Opening(c, i, l)
<1> SUFFICES ASSUME NEW k \in 1..Len(c), [id |-> i, link |-> l] \in {c[k].arg, c[k].res} PROVE FALSE
    BY DEF Opening
<1>1. Carries(c[k], i)
    <2>1. [id |-> i, link |-> l].id = i OBVIOUS
    <2> QED BY <2>1 DEF Carries
<1>2. About(c[k], i) BY <1>1 DEF About
<1>3. ~Silent(c, 0, i) BY <1>2 DEF Silent
<1>4. PICK w, z, types : Use(c, 0, i, w, z, types) BY <1>3
<1>5. CASE z
    <2>1. PICK x \in (0 + 1)..Len(c) :
            Says(c[x], i, w, types) /\ Talk(c, 0, x - 1, i, w) /\ Silent(c, x, i)
        BY <1>4, <1>5 DEF Use, Closed
    <2>2. CASE k = x BY <1>1, <2>1, <2>2 DEF Says
    <2>3. CASE k < x
        <3>1. k \in (0 + 1)..(x - 1) BY <2>3
        <3> QED BY <1>1, <1>2, <2>1, <3>1 DEF Talk, Says
    <2>4. CASE k > x
        <3>1. k \in (x + 1)..Len(c) BY <2>4
        <3> QED BY <1>2, <2>1, <3>1 DEF Silent
    <2> QED BY <2>2, <2>3, <2>4
<1>6. CASE ~z
    <2>1. Talk(c, 0, Len(c), i, w) /\ k \in (0 + 1)..Len(c) BY <1>4, <1>6 DEF Use
    <2> QED BY <1>1, <1>2, <2>1 DEF Talk, Says
<1> QED BY <1>5, <1>6

-----------------------------------------------------------------------------
(* What each kind of step does to the cells of every number.               *)

LEMMA CellNames ==
    ASSUME NEW e, NEW k
    PROVE  /\ IsZombie(e, k) => CellOf(IsZombie(e, k)) = "closing"
           /\ ~IsZombie(e, k) => CellOf(IsZombie(e, k)) = "open"
           /\ CellOf(IsZombie(e, k)) \in {"open", "closing"}
BY DEF CellOf

LEMMA SameCells ==
    ASSUME NEW e, NEW u, NEW k, Lookup(u, k) = Lookup(e, k), IsZombie(u, k) <=> IsZombie(e, k)
    PROVE  \A l : (IF Lookup(u, k) = l THEN CellOf(IsZombie(u, k)) ELSE "none")
                    = (IF Lookup(e, k) = l THEN CellOf(IsZombie(e, k)) ELSE "none")
<1>1. CellOf(IsZombie(u, k)) = CellOf(IsZombie(e, k))
    <2>1. CASE IsZombie(e, k) BY <2>1, CellNames
    <2>2. CASE ~IsZombie(e, k) BY <2>2, CellNames
    <2> QED BY <2>1, <2>2
<1> QED BY <1>1

\* Neither cell of a number changes, nor what is announced under it.
LEMMA Unmoved ==
    ASSUME NEW e, NEW f, NEW c, NEW u, NEW v, NEW g, NEW i,
           Lookup(u, i) = Lookup(e, i), IsZombie(u, i) <=> IsZombie(e, i),
           Lookup(v, -i) = Lookup(f, -i), IsZombie(v, -i) <=> IsZombie(f, -i),
           NEW l, Opening(g, i, l) <=> Opening(c, i, l)
    PROVE  /\ OwnerAt(u, i, l) = OwnerAt(e, i, l) /\ OtherAt(v, g, i, l) = OtherAt(f, c, i, l)
           /\ Uses(u, v, g, i, l) => Uses(e, f, c, i, l)
<1>1. CellOf(IsZombie(u, i)) = CellOf(IsZombie(e, i))
    <2>1. CASE IsZombie(e, i) BY <2>1, CellNames
    <2>2. CASE ~IsZombie(e, i) BY <2>2, CellNames
    <2> QED BY <2>1, <2>2
<1>2. CellOf(IsZombie(v, -i)) = CellOf(IsZombie(f, -i))
    <2>1. CASE IsZombie(f, -i) BY <2>1, CellNames
    <2>2. CASE ~IsZombie(f, -i) BY <2>2, CellNames
    <2> QED BY <2>1, <2>2
<1> QED BY <1>1, <1>2 DEF OwnerAt, OtherAt, Uses

LEMMA NothingGoes ==
    ASSUME NEW e, NEW f, NEW c, NEW u, NEW v, NEW g,
           \A i \in Nat \ {0} :
                /\ Lookup(u, i) = Lookup(e, i) /\ (IsZombie(u, i) <=> IsZombie(e, i))
                /\ Lookup(v, -i) = Lookup(f, -i) /\ (IsZombie(v, -i) <=> IsZombie(f, -i))
                /\ \A l : Opening(g, i, l) <=> Opening(c, i, l)
    PROVE  Goes(e, f, c, u, v, g)
<1>1. ASSUME NEW i \in Nat \ {0}, NEW l
      PROVE  /\ OwnerAt(u, i, l) = OwnerAt(e, i, l) /\ OtherAt(v, g, i, l) = OtherAt(f, c, i, l)
             /\ Uses(u, v, g, i, l) => Uses(e, f, c, i, l)
    BY Unmoved
<1>2. LivesOn(e, f, c, u, v, g) BY <1>1 DEF LivesOn, LifeStep
<1>3. ASSUME NEW i \in Nat \ {0}, Apart(e, f, c, i) PROVE Apart(u, v, g, i) BY <1>3 DEF Apart
<1> QED BY <1>1, <1>2, <1>3 DEF Goes, NothingNew

\* A call announces links that nothing refers to.
LEMMA CallGoes ==
    ASSUME NEW e \in Edge, EdgeSound(e), NEW f, NEW c, NEW d, NEW g, NEW m \in Message, Grown(c, m, g),
           NEW u, Announces(e, u, m),
           \A i, j \in Nat \ {0}, l \in Link : Brings(m, i, l) => ~Uses(e, f, c, j, l)
    PROVE  /\ LivesOn(e, f, c, u, f, g) /\ Goes(f, e, d, f, u, d)
           /\ \A i \in Nat \ {0}, l \in Link : Uses(u, f, g, i, l) => Uses(e, f, c, i, l) \/ Brings(m, i, l)
           /\ \A i \in Nat \ {0} : Apart(e, f, c, i) => Apart(u, f, g, i)
<1> USE DEF Announces
<1>1. m.arg.id \in Nat /\ m.res.id \in Nat BY MessageFact
<1>2. ASSUME NEW i \in Nat \ {0}, NEW l
      PROVE  /\ Opening(g, i, l) <=> Opening(c, i, l) \/ Brings(m, i, l)
             /\ Brings(m, i, l) <=> (i = m.arg.id /\ l = m.arg.link) \/ (i = m.res.id /\ l = m.res.link)
    BY OpeningGrows, BringsFact
<1>3. ASSUME NEW i \in Nat \ {0}
      PROVE  Lookup(u, -i) = Lookup(e, -i) /\ (IsZombie(u, -i) <=> IsZombie(e, -i))
    <2>1. -i \in Int \ {0} /\ -i # m.arg.id /\ -i # m.res.id BY <1>1
    <2> QED BY <2>1
<1>4. Goes(f, e, d, f, u, d) BY <1>3, NothingGoes
<1>5. ASSUME NEW i \in Nat \ {0}, NEW l \in Link, Brings(m, i, l)
      PROVE  /\ Lookup(u, i) = l /\ Lookup(e, i) = NoLink
             /\ LifeStep(OwnerAt(e, i, l), OtherAt(f, c, i, l), OwnerAt(u, i, l), OtherAt(f, g, i, l))
             /\ Lookup(f, -i) # l
    <2>1. i \in Int \ {0} /\ ((i = m.arg.id /\ l = m.arg.link) \/ (i = m.res.id /\ l = m.res.link)) BY <1>2, <1>5
    <2>2. Lookup(u, i) = l /\ Lookup(e, i) = NoLink BY <2>1
    <2>3. ~Uses(e, f, c, i, l) BY <1>5
    <2>4. ~IsZombie(e, i) BY <2>2, EmptyNoZombie
    <2>5. CellOf(IsZombie(u, i)) = "open"
        <3>1. ~IsZombie(u, i) BY <2>4
        <3> QED BY <3>1, CellNames
    <2>6. OwnerAt(u, i, l) = "open" BY <2>2, <2>5 DEF OwnerAt
    <2>7. OtherAt(f, g, i, l) = "coming" BY <1>2, <1>5, <2>3 DEF OtherAt, Uses
    <2>8. OwnerAt(e, i, l) = "none" /\ OtherAt(f, c, i, l) = "none" BY <2>3 DEF OwnerAt, OtherAt, Uses
    <2> QED BY <2>2, <2>3, <2>6, <2>7, <2>8 DEF LifeStep, Uses
<1>6. ASSUME NEW i \in Nat \ {0}, NEW l \in Link, ~Brings(m, i, l)
      PROVE  /\ LifeStep(OwnerAt(e, i, l), OtherAt(f, c, i, l), OwnerAt(u, i, l), OtherAt(f, g, i, l))
             /\ Uses(u, f, g, i, l) => Uses(e, f, c, i, l)
    <2>1. Opening(g, i, l) <=> Opening(c, i, l) BY <1>2, <1>6
    <2>2. OtherAt(f, g, i, l) = OtherAt(f, c, i, l) BY <2>1 DEF OtherAt
    <2>3. CASE i = m.arg.id \/ i = m.res.id
        <3>1. Lookup(e, i) = NoLink /\ Lookup(u, i) # l BY <1>2, <1>6, <2>3
        <3>2. l # NoLink BY NoLinkAssumption
        <3> QED BY <2>1, <2>2, <3>1, <3>2 DEF OwnerAt, LifeStep, Uses
    <2>4. CASE ~(i = m.arg.id \/ i = m.res.id)
        <3>1. Lookup(u, i) = Lookup(e, i) /\ (IsZombie(u, i) <=> IsZombie(e, i)) BY <2>4
        <3>2. OwnerAt(u, i, l) = OwnerAt(e, i, l) BY <3>1, SameCells DEF OwnerAt
        <3> QED BY <2>1, <2>2, <3>1, <3>2 DEF LifeStep, Uses
    <2> QED BY <2>3, <2>4
<1>7. ASSUME NEW i \in Nat \ {0}, Apart(e, f, c, i) PROVE Apart(u, f, g, i)
    <2> SUFFICES ASSUME Lookup(u, i) # NoLink, Opening(g, i, Lookup(u, i)) PROVE Lookup(f, -i) # Lookup(u, i)
        BY DEF Apart
    <2>1. CASE i = m.arg.id \/ i = m.res.id
        <3>1. Brings(m, i, Lookup(u, i)) BY <1>2, <2>1
        <3>2. m.arg \in Carried /\ m.res \in Carried BY DEF Message, Carried
        <3>3. Lookup(u, i) \in Link BY <2>1, <3>2 DEF Carried, NoneCarried
        <3> QED BY <1>5, <3>1, <3>3
    <2>2. CASE ~(i = m.arg.id \/ i = m.res.id)
        <3>1. Lookup(u, i) = Lookup(e, i) /\ ~Brings(m, i, Lookup(u, i)) BY <1>2, <2>2
        <3> QED BY <1>2, <1>7, <3>1 DEF Apart
    <2> QED BY <2>1, <2>2
<1> QED BY <1>4, <1>5, <1>6, <1>7 DEF LivesOn

\* A removal that begins.
LEMMA BeginGoes ==
    ASSUME NEW e, NEW f, NEW c, NEW d, NEW g, NEW m \in Message, Grown(c, m, g),
           NEW u, Begins(e, u, m)
    PROVE  Goes(e, f, c, u, f, g) /\ Goes(f, e, d, f, u, d)
<1> USE DEF Begins
<1>1. ASSUME NEW i \in Nat \ {0}, NEW l PROVE Opening(g, i, l) <=> Opening(c, i, l)
    BY OpeningGrows, BringsFact
<1>2. ASSUME NEW k \in Int \ {0}, NEW l
      PROVE  LET a == IF Lookup(e, k) = l THEN CellOf(IsZombie(e, k)) ELSE "none"
                 b == IF Lookup(u, k) = l THEN CellOf(IsZombie(u, k)) ELSE "none"
             IN  a = b \/ (a = "open" /\ b = "closing")
    <2>1. Lookup(u, k) = Lookup(e, k) OBVIOUS
    <2>2. CASE k = m.id
        <3>1. CellOf(IsZombie(e, k)) = "open" /\ CellOf(IsZombie(u, k)) = "closing" BY <2>2, CellNames
        <3> QED BY <2>1, <3>1
    <2>3. CASE k # m.id
        <3>1. IsZombie(u, k) <=> IsZombie(e, k) BY <2>3
        <3> QED BY <2>1, <3>1, SameCells
    <2> QED BY <2>2, <2>3
<1>3. Goes(e, f, c, u, f, g)
    <2>1. ASSUME NEW i \in Nat \ {0}, NEW l
          PROVE  LifeStep(OwnerAt(e, i, l), OtherAt(f, c, i, l), OwnerAt(u, i, l), OtherAt(f, g, i, l))
        <3>1. OtherAt(f, g, i, l) = OtherAt(f, c, i, l) BY <1>1 DEF OtherAt
        <3>2. \/ OwnerAt(u, i, l) = OwnerAt(e, i, l)
              \/ OwnerAt(e, i, l) = "open" /\ OwnerAt(u, i, l) = "closing"
            BY <1>2 DEF OwnerAt
        <3> QED BY <3>1, <3>2 DEF LifeStep
    <2>2. ASSUME NEW i \in Nat \ {0}
          PROVE  /\ \A l : Uses(u, f, g, i, l) => Uses(e, f, c, i, l)
                 /\ Apart(e, f, c, i) => Apart(u, f, g, i)
        <3>1. Lookup(u, i) = Lookup(e, i) OBVIOUS
        <3> QED BY <1>1, <3>1 DEF Uses, Apart
    <2> QED BY <2>1, <2>2 DEF Goes, LivesOn, NothingNew
<1>4. Goes(f, e, d, f, u, d)
    <2>1. ASSUME NEW i \in Nat \ {0}
          PROVE  Lookup(u, -i) = Lookup(e, -i)
        <3>1. -i \in Int \ {0} OBVIOUS
        <3> QED BY <3>1
    <2>2. ASSUME NEW i \in Nat \ {0}, NEW l
          PROVE  LifeStep(OwnerAt(f, i, l), OtherAt(e, d, i, l), OwnerAt(f, i, l), OtherAt(u, d, i, l))
        <3>1. \/ OtherAt(u, d, i, l) = OtherAt(e, d, i, l)
              \/ OtherAt(e, d, i, l) = "open" /\ OtherAt(u, d, i, l) = "closing"
            <4>1. -i \in Int \ {0} OBVIOUS
            <4>2. CASE Lookup(e, -i) = l BY <1>2, <2>1, <4>1, <4>2 DEF OtherAt
            <4>3. CASE Lookup(e, -i) # l BY <2>1, <4>3 DEF OtherAt
            <4> QED BY <4>2, <4>3
        <3> QED BY <3>1 DEF LifeStep
    <2>3. ASSUME NEW i \in Nat \ {0}
          PROVE  /\ \A l : Uses(f, u, d, i, l) => Uses(f, e, d, i, l)
                 /\ Apart(f, e, d, i) => Apart(f, u, d, i)
        BY <2>1 DEF Uses, Apart
    <2> QED BY <2>2, <2>3 DEF Goes, LivesOn, NothingNew
<1> QED BY <1>3, <1>4

-----------------------------------------------------------------------------
(* What a side does to the cells when it handles what it reads.            *)

\* What changes nothing about a number.
LEMMA NumberStays ==
    ASSUME NEW e, NEW f, NEW c, NEW u, NEW v, NEW g, NEW i \in Nat \ {0},
           Lookup(u, i) = Lookup(e, i), IsZombie(u, i) <=> IsZombie(e, i),
           Lookup(v, -i) = Lookup(f, -i), IsZombie(v, -i) <=> IsZombie(f, -i),
           \A l : Opening(g, i, l) <=> Opening(c, i, l)
    PROVE  /\ \A l : LifeStep(OwnerAt(e, i, l), OtherAt(f, c, i, l), OwnerAt(u, i, l), OtherAt(v, g, i, l))
           /\ \A l : Uses(u, v, g, i, l) => Uses(e, f, c, i, l)
           /\ Apart(e, f, c, i) => Apart(u, v, g, i)
<1>1. ASSUME NEW l
      PROVE  /\ OwnerAt(u, i, l) = OwnerAt(e, i, l) /\ OtherAt(v, g, i, l) = OtherAt(f, c, i, l)
             /\ Uses(u, v, g, i, l) => Uses(e, f, c, i, l)
    BY Unmoved
<1>2. Apart(e, f, c, i) => Apart(u, v, g, i) BY DEF Apart
<1> QED BY <1>1, <1>2 DEF LifeStep

\* The only link a channel opens under a number is the one its owner has there.
LEMMA OpeningIsOwned ==
    ASSUME NEW c, Len(c) \in Nat, NEW d, NEW l, NEW zl, NEW r, NEW zr, NEW i,
           Phase(l, zl, r, zr, c, d, i), NEW x, Opening(c, i, x)
    PROVE  x = l /\ Sent(l, zl, r, zr, c, d, i)
<1>1. PICK k \in 1..Len(c) : [id |-> i, link |-> x] \in {c[k].arg, c[k].res} BY DEF Opening
<1>2. Carries(c[k], i) /\ About(c[k], i)
    <2>1. [id |-> i, link |-> x].id = i OBVIOUS
    <2> QED BY <1>1, <2>1 DEF Carries, About
<1>3. ASSUME NEW b \in Int, Past(c, b, i, r, zr) PROVE ~(k <= b)
    <2> SUFFICES ASSUME k <= b PROVE FALSE OBVIOUS
    <2>1. CASE r = NoLink
        <3>1. k \in (0 + 1)..b OBVIOUS
        <3> QED BY <1>2, <1>3, <2>1, <3>1 DEF Past, Ends
    <2>2. CASE r # NoLink
        <3>1. PICK y \in 1..b : /\ Says(c[y], i, r, {"begin", "end"})
                                /\ Talk(c, 0, y - 1, i, r) /\ Ends(c, y, b, i)
            BY <1>3, <2>2 DEF Past
        <3>2. CASE k = y BY <1>2, <3>1, <3>2 DEF Says
        <3>3. CASE k < y
            <4>1. k \in (0 + 1)..(y - 1) BY <3>3
            <4> QED BY <1>2, <3>1, <4>1 DEF Talk, Says
        <3>4. CASE k > y
            <4>1. k \in (y + 1)..b BY <3>4
            <4> QED BY <1>2, <3>1, <4>1 DEF Ends
        <3> QED BY <3>2, <3>3, <3>4
    <2> QED BY <2>1, <2>2
<1>4. CASE Free(l, r, zr, c, d, i) BY <1>3, <1>4 DEF Free
<1>5. CASE Sent(l, zl, r, zr, c, d, i)
    <2>1. PICK o \in 1..Len(c) :
            Opens(c[o], i, l) /\ Past(c, o - 1, i, r, zr) /\ Use(c, o, i, l, zl, {"begin"})
        BY <1>5 DEF Sent
    <2>2. ~(k < o)
        <3>1. o - 1 \in Int /\ (k < o => k <= o - 1) OBVIOUS
        <3> QED BY <1>3, <2>1, <3>1
    <2>3. CASE k = o
        <3>1. /\ [id |-> i, link |-> l] \in {c[k].arg, c[k].res} /\ c[k].arg.id # c[k].res.id
            BY <2>1, <2>3 DEF Opens
        <3>2. [id |-> i, link |-> x] = [id |-> i, link |-> l]
            BY <1>1, <3>1
        <3>3. [id |-> i, link |-> x].link = x /\ [id |-> i, link |-> l].link = l OBVIOUS
        <3> QED BY <1>5, <3>2, <3>3
    <2>4. CASE k > o
        <3>1. CASE zl
            <4>1. PICK y \in (o + 1)..Len(c) :
                    Says(c[y], i, l, {"begin"}) /\ Talk(c, o, y - 1, i, l) /\ Silent(c, y, i)
                BY <2>1, <3>1 DEF Use, Closed
            <4>2. CASE k = y BY <1>2, <4>1, <4>2 DEF Says
            <4>3. CASE k < y
                <5>1. k \in (o + 1)..(y - 1) BY <2>4, <4>3
                <5> QED BY <1>2, <4>1, <5>1 DEF Talk, Says
            <4>4. CASE k > y
                <5>1. k \in (y + 1)..Len(c) BY <4>4
                <5> QED BY <1>2, <4>1, <5>1 DEF Silent
            <4> QED BY <4>2, <4>3, <4>4
        <3>2. CASE ~zl
            <4>1. Talk(c, o, Len(c), i, l) /\ k \in (o + 1)..Len(c) BY <2>1, <2>4, <3>2 DEF Use
            <4> QED BY <1>2, <4>1 DEF Talk, Says
        <3> QED BY <3>1, <3>2
    <2> QED BY <2>2, <2>3, <2>4
<1>6. CASE Joined(l, zl, r, zr, c, d, i) \/ Gone(l, zl, r, c, d, i)
    BY <1>6, SilentOpensNothing DEF Joined, Gone
<1> QED BY <1>4, <1>5, <1>6 DEF Phase

\* A call is read: the links it brings arrive.
LEMMA CallReadGoes ==
    ASSUME NEW e \in Edge, EdgeSound(e), NEW f, NEW c, NEW d, NEW t, Shrunk(c, t),
           Phases(f, e, c, d), NEW m \in Message, c[1] = m, NEW u, Enters(e, u, m)
    PROVE  Goes(e, f, d, u, f, d) /\ Goes(f, e, c, f, u, t)
<1> USE DEF Enters
<1>1. Goes(e, f, d, u, f, d) BY NothingGoes
<1>2. Len(c) \in Nat /\ Len(t) \in Nat BY DEF Shrunk
<1>3. ASSUME NEW i \in Nat \ {0}
      PROVE  /\ \A l \in Link : LifeStep(OwnerAt(f, i, l), OtherAt(e, c, i, l), OwnerAt(f, i, l), OtherAt(u, t, i, l))
             /\ \A l \in Link : Uses(f, u, t, i, l) => Uses(f, e, c, i, l)
             /\ Apart(f, e, c, i) => Apart(f, u, t, i)
    <2>1. Phase(Lookup(f, i), IsZombie(f, i), Lookup(e, -i), IsZombie(e, -i), c, d, i) BY DEF Phases
    <2>2. \A l : Opening(c, i, l) <=> Opening(t, i, l) \/ Brings(m, i, l) BY OpeningShrinks
    <2>3. -i \in Int \ {0} /\ (IsZombie(u, -i) <=> IsZombie(e, -i)) OBVIOUS
    <2>4. CASE Carries(m, i)
        <3> DEFINE L == Lookup(f, i)
        <3>1. /\ L # NoLink /\ Lookup(e, -i) = NoLink /\ Opens(c[1], i, L)
              /\ Phase(L, IsZombie(f, i), L, FALSE, t, d, i)
            BY <2>1, <2>4, OtherOpens
        <3>2. Lookup(u, -i) = L BY <3>1 DEF Opens
        <3>3. ~IsZombie(u, -i) BY <2>3, <3>1, EmptyNoZombie
        <3>4. Brings(m, i, L) BY <3>1 DEF Opens, Brings
        <3> HIDE DEF L
        <3>5. ~Opening(t, i, L)
            <4>1. ~Sent(L, IsZombie(f, i), L, FALSE, t, d, i) BY <3>1 DEF Sent, Past
            <4> QED BY <1>2, <3>1, <4>1, OpeningIsOwned
        <3>6. \A l : Opening(c, i, l) => l = L BY <1>2, <2>1, OpeningIsOwned DEF L
        <3>7. CellOf(IsZombie(u, -i)) = "open" BY <3>3, CellNames
        <3>8. CellOf(IsZombie(f, i)) # "none" BY CellNames
        <3>9. OtherAt(e, c, i, L) = "coming" /\ OtherAt(u, t, i, L) = "open" /\ OwnerAt(f, i, L) # "none"
            BY <2>2, <3>1, <3>2, <3>4, <3>7, <3>8 DEF OtherAt, OwnerAt, L
        <3>10. ASSUME NEW l \in Link, l # L PROVE OtherAt(e, c, i, l) = "none" /\ OtherAt(u, t, i, l) = "none"
            BY <2>2, <3>1, <3>2, <3>6, <3>10, NoLinkAssumption DEF OtherAt
        <3>11. \A l \in Link : LifeStep(OwnerAt(f, i, l), OtherAt(e, c, i, l), OwnerAt(f, i, l), OtherAt(u, t, i, l))
            BY <3>9, <3>10 DEF LifeStep
        <3>12. \A l \in Link : Uses(f, u, t, i, l) => Uses(f, e, c, i, l)
            BY <2>2, <3>2 DEF Uses, L
        <3>13. Apart(f, u, t, i) BY <3>5 DEF Apart, L
        <3> QED BY <3>11, <3>12, <3>13
    <2>5. CASE ~Carries(m, i)
        <3>1. Lookup(u, -i) = Lookup(e, -i) BY <2>5 DEF Carries
        <3>2. \A l : Opening(t, i, l) <=> Opening(c, i, l) BY <2>2, <2>5, BringsFact
        <3> QED BY <2>3, <3>1, <3>2, NumberStays
    <2> QED BY <2>4, <2>5
<1>4. Goes(f, e, c, f, u, t) BY <1>3 DEF Goes, LivesOn, NothingNew
<1> QED BY <1>1, <1>4

\* The owner gives up its cell only when the other side closes, or has closed.
LEMMA OwnerGivesUp ==
    ASSUME NEW d, NEW t, Shrunk(d, t), NEW c, NEW l, NEW zl, NEW r, NEW zr, NEW i \in Nat \ {0},
           Phase(l, zl, r, zr, c, d, i), About(d[1], -i), d[1].type # "call"
    PROVE  \/ r = l /\ zr
           \/ zl /\ r = NoLink /\ \A x : ~Opening(c, i, x)
<1>1. ~Silent(d, 0, -i)
    <2>1. 1 \in (0 + 1)..Len(d) BY DEF Shrunk
    <2> QED BY <2>1 DEF Silent
<1>2. CASE Joined(l, zl, r, zr, c, d, i) BY <1>2, UseShrinks DEF Joined, Says
<1>3. CASE Gone(l, zl, r, c, d, i) BY <1>3, SilentOpensNothing DEF Gone
<1> QED BY <1>1, <1>2, <1>3 DEF Phase, Free, Sent

\* The other side gives up its cell only when the owner closes, or has closed.
LEMMA OtherGivesUp ==
    ASSUME NEW c, NEW t, Shrunk(c, t), NEW d, NEW l, NEW zl, NEW r, NEW zr, NEW i \in Nat \ {0},
           Phase(l, zl, r, zr, c, d, i), r # NoLink, Opening(c, i, l) => r # l,
           About(c[1], i), ~Carries(c[1], i), c[1].type # "call"
    PROVE  \/ r = l /\ zl
           \/ r # l /\ zr
<1>1. CASE Free(l, r, zr, c, d, i) BY <1>1 DEF Free, Past
<1>2. CASE Sent(l, zl, r, zr, c, d, i)
    <2>1. zr BY <1>2 DEF Sent, Past
    <2>2. Opening(c, i, l) BY <1>2 DEF Sent, Opens, Opening
    <2> QED BY <2>1, <2>2
<1>3. CASE Joined(l, zl, r, zr, c, d, i) BY <1>3, UseShrinks DEF Joined, Says
<1> QED BY <1>1, <1>2, <1>3 DEF Phase, Gone

\* A side that reads a message other than a call gives up the cell of the link
\* the message is about, or nothing; all other cells go on as they were.
LEMMA RemovalGoes ==
    ASSUME NEW e, NEW f, NEW c, NEW d, NEW t, Shrunk(c, t),
           Phases(e, f, d, c), Phases(f, e, c, d), NEW m \in Message, c[1] = m, m.type # "call",
           \A i \in Nat \ {0} : Apart(f, e, c, i),
           NEW id, id = Mirror(m.id), Lookup(e, id) # NoLink,
           NEW u, Emptied(e, u, id), NEW g, Answered(e, m, id, d, g)
    PROVE  Goes(e, f, d, u, f, g) /\ Goes(f, e, c, f, u, t)
<1>1. m.id \in Int \ {0} /\ \A j \in Int \ {0} : ~Carries(m, j) BY MessageFact
<1>2. id = -m.id /\ id \in Int \ {0} BY <1>1 DEF Mirror
<1>3. ASSUME NEW i \in Nat \ {0}, NEW l
      PROVE  (Opening(t, i, l) <=> Opening(c, i, l)) /\ (Opening(g, i, l) <=> Opening(d, i, l))
    <2>1. Opening(t, i, l) <=> Opening(c, i, l) BY OpeningShrinks, BringsFact
    <2>2. CASE g = d BY <2>1, <2>2
    <2>3. CASE g # d
        <3>1. PICK n \in Message : Grown(d, n, g) /\ Says(n, id, Lookup(e, id), {"end"}) BY <2>3 DEF Answered
        <3>2. n.type # "call" BY <3>1 DEF Says
        <3> QED BY <2>1, <3>1, <3>2, OpeningGrows, BringsFact
    <2> QED BY <2>2, <2>3
<1>4. ASSUME NEW k \in Int \ {0}, k # id
      PROVE  Lookup(u, k) = Lookup(e, k) /\ (IsZombie(u, k) <=> IsZombie(e, k))
    BY <1>4 DEF Emptied
<1>5. Lookup(u, id) = NoLink BY <1>2 DEF Emptied
<1>6. ASSUME NEW i \in Nat \ {0}
      PROVE  /\ \A l \in Link : LifeStep(OwnerAt(e, i, l), OtherAt(f, d, i, l), OwnerAt(u, i, l), OtherAt(f, g, i, l))
             /\ \A l \in Link : Uses(u, f, g, i, l) => Uses(e, f, d, i, l)
             /\ Apart(e, f, d, i) => Apart(u, f, g, i)
    <2>1. CASE i = id
        <3> DEFINE r == Lookup(f, -i)
        <3>1. Phase(Lookup(e, i), IsZombie(e, i), r, IsZombie(f, -i), d, c, i) BY DEF Phases
        <3>2. About(c[1], -i)
            <4>1. m.id = -i BY <1>1, <1>2, <2>1
            <4> QED BY <4>1 DEF About
        <3>3. \/ r = Lookup(e, i) /\ IsZombie(f, -i)
              \/ IsZombie(e, i) /\ r = NoLink /\ \A x : ~Opening(d, i, x)
            BY <3>1, <3>2, OwnerGivesUp
        <3>4. ASSUME NEW l \in Link
              PROVE  LifeStep(OwnerAt(e, i, l), OtherAt(f, d, i, l), OwnerAt(u, i, l), OtherAt(f, g, i, l))
            <4>1. OtherAt(f, g, i, l) = OtherAt(f, d, i, l) BY <1>3 DEF OtherAt
            <4>2. OwnerAt(u, i, l) = "none" BY <1>5, <2>1, NoLinkAssumption DEF OwnerAt
            <4>3. CASE Lookup(e, i) # l
                <5>1. OwnerAt(e, i, l) = "none" BY <4>3 DEF OwnerAt
                <5> QED BY <4>1, <4>2, <5>1 DEF LifeStep
            <4>4. CASE Lookup(e, i) = l /\ r = l /\ IsZombie(f, -i)
                <5>1. OwnerAt(e, i, l) \in {"open", "closing"} BY <4>4, CellNames DEF OwnerAt
                <5>2. OtherAt(f, d, i, l) = "closing" BY <4>4, CellNames DEF OtherAt
                <5> QED BY <4>1, <4>2, <5>1, <5>2 DEF LifeStep
            <4>5. CASE Lookup(e, i) = l /\ IsZombie(e, i) /\ r = NoLink /\ \A x : ~Opening(d, i, x)
                <5>1. OwnerAt(e, i, l) = "closing" BY <4>5, CellNames DEF OwnerAt
                <5>2. OtherAt(f, d, i, l) = "none" BY <4>5, NoLinkAssumption DEF OtherAt
                <5> QED BY <4>1, <4>2, <5>1, <5>2 DEF LifeStep
            <4> QED BY <3>3, <4>3, <4>4, <4>5
        <3>5. \A l \in Link : Uses(u, f, g, i, l) => Uses(e, f, d, i, l)
            BY <1>3, <1>5, <2>1, NoLinkAssumption DEF Uses
        <3>6. Apart(u, f, g, i) BY <1>5, <2>1 DEF Apart
        <3> QED BY <3>4, <3>5, <3>6
    <2>2. CASE i # id
        <3>1. Lookup(u, i) = Lookup(e, i) /\ (IsZombie(u, i) <=> IsZombie(e, i)) BY <1>4, <2>2
        <3>2. \A l : Opening(g, i, l) <=> Opening(d, i, l) BY <1>3
        <3> QED BY <3>1, <3>2, NumberStays
    <2> QED BY <2>1, <2>2
<1>7. ASSUME NEW i \in Nat \ {0}
      PROVE  /\ \A l \in Link : LifeStep(OwnerAt(f, i, l), OtherAt(e, c, i, l), OwnerAt(f, i, l), OtherAt(u, t, i, l))
             /\ \A l \in Link : Uses(f, u, t, i, l) => Uses(f, e, c, i, l)
             /\ Apart(f, e, c, i) => Apart(f, u, t, i)
    <2>1. CASE -i = id
        <3> DEFINE r == Lookup(e, -i)
                   o == Lookup(f, i)
        <3>1. Phase(o, IsZombie(f, i), r, IsZombie(e, -i), c, d, i) BY DEF Phases
        <3>2. About(c[1], i) /\ ~Carries(c[1], i) /\ r # NoLink BY <1>1, <1>2, <2>1 DEF About
        <3>3. Len(c) \in Nat BY DEF Shrunk
        <3>4. \A x : Opening(c, i, x) => x = o /\ o # NoLink
            BY <3>1, <3>3, OpeningIsOwned DEF Sent
        <3>5. Opening(c, i, o) => r # o BY <3>4 DEF Apart
        <3>6. \/ r = o /\ IsZombie(f, i)
              \/ r # o /\ IsZombie(e, -i)
            BY <3>1, <3>2, <3>5, OtherGivesUp
        <3>7. Lookup(u, -i) = NoLink BY <1>5, <2>1
        <3>8. ~Opening(t, i, r)
            BY <1>3, <3>4, <3>5
        <3>9. ASSUME NEW l \in Link
              PROVE  LifeStep(OwnerAt(f, i, l), OtherAt(e, c, i, l), OwnerAt(f, i, l), OtherAt(u, t, i, l))
            <4>1. CASE l # r
                <5>1. OtherAt(u, t, i, l) = OtherAt(e, c, i, l) BY <1>3, <3>7, <4>1, NoLinkAssumption DEF OtherAt
                <5> QED BY <5>1 DEF LifeStep
            <4>2. CASE l = r /\ r = o /\ IsZombie(f, i)
                <5>1. OwnerAt(f, i, l) = "closing" BY <4>2, CellNames DEF OwnerAt
                <5>2. OtherAt(e, c, i, l) \in {"open", "closing"} BY <4>2, CellNames DEF OtherAt
                <5>3. OtherAt(u, t, i, l) = "none" BY <3>2, <3>7, <3>8, <4>2 DEF OtherAt
                <5> QED BY <5>1, <5>2, <5>3 DEF LifeStep
            <4>3. CASE l = r /\ r # o /\ IsZombie(e, -i)
                <5>1. OwnerAt(f, i, l) = "none" BY <4>3 DEF OwnerAt
                <5>2. OtherAt(e, c, i, l) = "closing" BY <4>3, CellNames DEF OtherAt
                <5>3. OtherAt(u, t, i, l) = "none" BY <3>2, <3>7, <3>8, <4>3 DEF OtherAt
                <5> QED BY <5>1, <5>2, <5>3 DEF LifeStep
            <4> QED BY <3>6, <4>1, <4>2, <4>3
        <3>10. \A l \in Link : Uses(f, u, t, i, l) => Uses(f, e, c, i, l)
            BY <1>3, <3>7, NoLinkAssumption DEF Uses
        <3>11. Apart(f, u, t, i) BY <3>7 DEF Apart
        <3> QED BY <3>9, <3>10, <3>11
    <2>2. CASE -i # id
        <3>1. Lookup(u, -i) = Lookup(e, -i) /\ (IsZombie(u, -i) <=> IsZombie(e, -i)) BY <1>4, <2>2
        <3>2. \A l : Opening(t, i, l) <=> Opening(c, i, l) BY <1>3
        <3> QED BY <3>1, <3>2, NumberStays
    <2> QED BY <2>1, <2>2
<1>8. Goes(e, f, d, u, f, g) BY <1>6 DEF Goes, LivesOn, NothingNew
<1>9. Goes(f, e, c, f, u, t) BY <1>7 DEF Goes, LivesOn, NothingNew
<1> QED BY <1>8, <1>9

\* Whatever a side reads, every link lives on and none is new.
LEMMA HandledGoes ==
    ASSUME NEW e \in Edge, EdgeSound(e), NEW f, NEW c, NEW d, NEW t, Shrunk(c, t),
           Phases(e, f, d, c), Phases(f, e, c, d), NEW m \in Message, c[1] = m,
           \A i \in Nat \ {0} : Apart(f, e, c, i),
           NEW u, NEW g, Handles(e, u, m, d, g)
    PROVE  Goes(e, f, d, u, f, g) /\ Goes(f, e, c, f, u, t)
<1>1. CASE Enters(e, u, m) /\ g = d BY <1>1, CallReadGoes
<1>2. CASE /\ m.type # "call" /\ Lookup(e, Mirror(m.id)) # NoLink
           /\ Emptied(e, u, Mirror(m.id)) /\ Answered(e, m, Mirror(m.id), d, g)
    <2> DEFINE id == Mirror(m.id)
    <2>1. id = Mirror(m.id) OBVIOUS
    <2> HIDE DEF id
    <2> QED BY <1>2, <2>1, RemovalGoes
<1>3. CASE m.type = "end" /\ Lookup(e, Mirror(m.id)) = NoLink /\ u = e /\ g = d
    <2>1. \A i \in Nat \ {0} : \A l : Opening(t, i, l) <=> Opening(c, i, l) BY <1>3, OpeningShrinks, BringsFact
    <2> QED BY <1>3, <2>1, NothingGoes
<1> QED BY <1>1, <1>2, <1>3 DEF Handles

-----------------------------------------------------------------------------
(* From numbers to links.                                                  *)

UsedAt(p, i, l) == Uses(edge[p], edge[Other(p)], Chan(p), i, l)

\* The two cells of l are those of p's number i.
CellsAt(p, i, l) ==
    /\ OwnerCell(l) = OwnerAt(edge[p], i, l)
    /\ OtherCell(l) = OtherAt(edge[Other(p)], Chan(p), i, l)

\* A link is used under one number of one side at most.
Unique ==
    \A l \in Link, p \in Peer, q \in Peer, i \in Nat \ {0}, j \in Nat \ {0} :
        UsedAt(p, i, l) /\ UsedAt(q, j, l) => p = q /\ i = j

AllApart == \A p \in Peer, i \in Nat \ {0} : Apart(edge[p], edge[Other(p)], Chan(p), i)

\* Where a link is used, its cells are; a link not used has none.
CellsRight ==
    \A l \in Link, p \in Peer, i \in Nat \ {0} :
        UsedAt(p, i, l) \/ (\A q \in Peer, j \in Nat \ {0} : ~UsedAt(q, j, l)) => CellsAt(p, i, l)

\* Every cell and every message that makes a link count is under a number.
LEMMA UsedSomewhere ==
    ASSUME TypeOK, NEW q \in Peer, NEW l \in Link, NEW j
    PROVE  /\ Get(edge[q].local, j) = l => j \in Nat \ {0} /\ UsedAt(q, j, l) /\ Lookup(edge[q], j) = l
           /\ Get(edge[q].remote, j) = l => j \in Nat \ {0} /\ UsedAt(Other(q), j, l) /\ Lookup(edge[q], -j) = l
           /\ Opening(Chan(q), j, l) => UsedAt(q, j, l)
<1>1. edge[q] \in Edge BY DEF TypeOK
<1>2. /\ edge[q].local.links \in Seq(Link \cup {NoLink}) /\ edge[q].remote.links \in Seq(Link \cup {NoLink})
    BY <1>1 DEF Edge, LocalTable, RemoteTable
<1>3. l # NoLink BY NoLinkAssumption
<1>4. ASSUME Get(edge[q].local, j) = l PROVE j \in Nat \ {0} /\ UsedAt(q, j, l) /\ Lookup(edge[q], j) = l
    <2>1. j \in 1..Len(edge[q].local.links) BY <1>3, <1>4 DEF Get
    <2>2. j \in Nat \ {0} /\ j > 0 BY <2>1
    <2>3. Lookup(edge[q], j) = l BY <1>4, <2>2 DEF Lookup
    <2> QED BY <2>2, <2>3 DEF UsedAt, Uses
<1>5. ASSUME Get(edge[q].remote, j) = l PROVE j \in Nat \ {0} /\ UsedAt(Other(q), j, l) /\ Lookup(edge[q], -j) = l
    <2>1. j \in 1..Len(edge[q].remote.links) BY <1>3, <1>5 DEF Get
    <2>2. j \in Nat \ {0} /\ ~(-j > 0) /\ -(-j) = j BY <2>1
    <2>3. Lookup(edge[q], -j) = l BY <1>5, <2>2 DEF Lookup
    <2>4. Other(Other(q)) = q BY OtherTwice
    <2> QED BY <2>2, <2>3, <2>4 DEF UsedAt, Uses
<1>6. Opening(Chan(q), j, l) => UsedAt(q, j, l) BY DEF UsedAt, Uses
<1> QED BY <1>4, <1>5, <1>6

LEMMA AnnouncedOpens ==
    ASSUME TypeOK, NEW l \in Link, Announced(l)
    PROVE  \E q \in Peer, j \in Nat \ {0} : Opening(Chan(q), j, l)
<1> PICK q \in Peer : \E k \in 1..Len(Chan(q)) : l \in {Chan(q)[k].arg.link, Chan(q)[k].res.link}
    BY DEF Announced
<1>1. PICK k \in 1..Len(Chan(q)) : l \in {Chan(q)[k].arg.link, Chan(q)[k].res.link}
    OBVIOUS
<1> DEFINE m == Chan(q)[k]
<1>2. m \in Message BY ChanType, ElementOfSeq
<1>3. m.arg \in Carried /\ m.res \in Carried BY <1>2 DEF Message, Carried
<1>4. \A x \in Carried : x.link = l => x.id \in Nat \ {0} /\ x = [id |-> x.id, link |-> l]
    BY NoLinkAssumption DEF Carried, NoneCarried
<1>5. CASE m.arg.link = l
    <2>1. m.arg.id \in Nat \ {0} /\ [id |-> m.arg.id, link |-> l] \in {m.arg, m.res} BY <1>3, <1>4, <1>5
    <2> QED BY <2>1 DEF Opening
<1>6. CASE m.res.link = l
    <2>1. m.res.id \in Nat \ {0} /\ [id |-> m.res.id, link |-> l] \in {m.arg, m.res} BY <1>3, <1>4, <1>6
    <2> QED BY <2>1 DEF Opening
<1> QED BY <1>1, <1>5, <1>6

\* A cell by the identity of its link is the cell by its number.
LEMMA CellsAreRight ==
    ASSUME TypeOK, Unique
    PROVE  CellsRight
<1> SUFFICES ASSUME NEW l \in Link, NEW p \in Peer, NEW i \in Nat \ {0},
                    UsedAt(p, i, l) \/ (\A q \in Peer, j \in Nat \ {0} : ~UsedAt(q, j, l))
             PROVE  CellsAt(p, i, l)
    BY DEF CellsRight
<1> DEFINE e == edge[p]
           f == edge[Other(p)]
<1>1. Other(p) \in Peer /\ Other(Other(p)) = p BY OtherTwice
<1>2. ASSUME NEW q \in Peer, NEW j \in Nat \ {0}, UsedAt(q, j, l) PROVE q = p /\ j = i
    BY <1>2 DEF Unique
<1>3. ASSUME NEW q \in Peer, NEW j \in 1..Len(edge[q].local.links), edge[q].local.links[j] = l
      PROVE  Lookup(e, i) = l
    <2>1. Get(edge[q].local, j) = l BY <1>3 DEF Get
    <2>2. j \in Nat \ {0} /\ UsedAt(q, j, l) /\ Lookup(edge[q], j) = l BY <2>1, UsedSomewhere
    <2> QED BY <1>2, <2>2
<1>4. ASSUME NEW q \in Peer, NEW j \in edge[q].local.zombie, Get(edge[q].local, j) = l
      PROVE  IsZombie(e, i)
    <2>1. j \in Nat \ {0} /\ UsedAt(q, j, l) BY <1>4, UsedSomewhere
    <2>2. q = p /\ j = i BY <1>2, <2>1
    <2> QED BY <2>2 DEF IsZombie
<1>5. ASSUME NEW q \in Peer, NEW j \in 1..Len(edge[q].remote.links), edge[q].remote.links[j] = l
      PROVE  Lookup(f, -i) = l
    <2>1. Get(edge[q].remote, j) = l BY <1>5 DEF Get
    <2>2. j \in Nat \ {0} /\ UsedAt(Other(q), j, l) /\ Lookup(edge[q], -j) = l BY <2>1, UsedSomewhere
    <2>3. Other(q) \in Peer /\ Other(Other(q)) = q BY OtherTwice
    <2>4. Other(q) = p /\ j = i BY <1>2, <2>2, <2>3
    <2> QED BY <2>2, <2>3, <2>4
<1>6. ASSUME NEW q \in Peer, NEW j \in edge[q].remote.zombie, Get(edge[q].remote, j) = l
      PROVE  IsZombie(f, -i)
    <2>1. j \in Nat \ {0} /\ UsedAt(Other(q), j, l) BY <1>6, UsedSomewhere
    <2>2. Other(q) \in Peer /\ Other(Other(q)) = q BY OtherTwice
    <2>3. Other(q) = p /\ j = i BY <1>2, <2>1, <2>2
    <2>4. q = Other(p) /\ ~(-i > 0) /\ -(-i) = i BY <2>2, <2>3
    <2> QED BY <2>3, <2>4 DEF IsZombie
<1>7. Announced(l) => Opening(Chan(p), i, l)
    <2> SUFFICES ASSUME Announced(l) PROVE Opening(Chan(p), i, l) OBVIOUS
    <2>1. PICK q \in Peer, j \in Nat \ {0} : Opening(Chan(q), j, l) BY AnnouncedOpens
    <2>2. UsedAt(q, j, l) BY <2>1, UsedSomewhere
    <2> QED BY <1>2, <2>1, <2>2
<1>8. Opening(Chan(p), i, l) => Announced(l)
    <2> SUFFICES ASSUME NEW k \in 1..Len(Chan(p)), [id |-> i, link |-> l] \in {Chan(p)[k].arg, Chan(p)[k].res}
                 PROVE  Announced(l)
        BY DEF Opening
    <2>1. [id |-> i, link |-> l].link = l OBVIOUS
    <2> QED BY <2>1 DEF Announced
<1>9. Lookup(e, i) = Get(e.local, i) /\ Lookup(f, -i) = Get(f.remote, i)
      /\ (IsZombie(e, i) <=> i \in e.local.zombie) /\ (IsZombie(f, -i) <=> i \in f.remote.zombie)
    BY DEF Lookup, IsZombie
<1>10. l # NoLink BY NoLinkAssumption
<1>11. OwnerCell(l) = OwnerAt(e, i, l)
    <2>1. CASE Lookup(e, i) = l
        <3>1. i \in 1..Len(e.local.links) /\ e.local.links[i] = l BY <1>9, <1>10, <2>1 DEF Get
        <3>2. (\E q \in Peer : \E j \in edge[q].local.zombie : Get(edge[q].local, j) = l) <=> IsZombie(e, i)
            BY <1>4, <1>9, <2>1
        <3>3. OwnerCell(l) = CellOf(\E q \in Peer : \E j \in edge[q].local.zombie : Get(edge[q].local, j) = l)
            BY <3>1 DEF OwnerCell
        <3> QED BY <2>1, <3>2, <3>3 DEF CellOf, OwnerAt
    <2>2. CASE Lookup(e, i) # l
        BY <1>3, <2>2 DEF OwnerCell, OwnerAt
    <2> QED BY <2>1, <2>2
<1>12. OtherCell(l) = OtherAt(f, Chan(p), i, l)
    <2>1. CASE Lookup(f, -i) = l
        <3>1. i \in 1..Len(f.remote.links) /\ f.remote.links[i] = l BY <1>9, <1>10, <2>1 DEF Get
        <3>2. (\E q \in Peer : \E j \in edge[q].remote.zombie : Get(edge[q].remote, j) = l) <=> IsZombie(f, -i)
            BY <1>1, <1>6, <1>9, <2>1
        <3>3. OtherCell(l) = CellOf(\E q \in Peer : \E j \in edge[q].remote.zombie : Get(edge[q].remote, j) = l)
            BY <1>1, <3>1 DEF OtherCell
        <3> QED BY <2>1, <3>2, <3>3 DEF CellOf, OtherAt
    <2>2. CASE Lookup(f, -i) # l
        BY <1>5, <1>7, <1>8, <2>2 DEF OtherCell, OtherAt
    <2> QED BY <2>1, <2>2
<1> QED BY <1>11, <1>12 DEF CellsAt

\* A link that nothing refers to is used nowhere.
LEMMA FreshUnused ==
    ASSUME TypeOK, NEW l \in Link, Fresh(l), NEW p \in Peer, NEW i \in Nat \ {0}
    PROVE  ~UsedAt(p, i, l)
<1>1. Other(p) \in Peer BY OtherTwice
<1>2. \A q \in Peer : l \notin CellLinks(edge[q]) /\ l \notin SentLinks(Chan(q)) BY DEF Fresh
<1>3. l # NoLink BY NoLinkAssumption
<1>4. Lookup(edge[p], i) # l
    <2>1. Lookup(edge[p], i) = Get(edge[p].local, i) BY DEF Lookup
    <2> QED BY <1>2, <1>3, <2>1 DEF Get, CellLinks
<1>5. Lookup(edge[Other(p)], -i) # l
    <2>1. Lookup(edge[Other(p)], -i) = Get(edge[Other(p)].remote, i) BY DEF Lookup
    <2> QED BY <1>1, <1>2, <1>3, <2>1 DEF Get, CellLinks
<1>6. ~Opening(Chan(p), i, l)
    <2> SUFFICES ASSUME NEW k \in 1..Len(Chan(p)), [id |-> i, link |-> l] \in {Chan(p)[k].arg, Chan(p)[k].res}
                 PROVE  FALSE
        BY DEF Opening
    <2>1. [id |-> i, link |-> l].link = l OBVIOUS
    <2>2. l \in SentLinks(Chan(p)) BY <2>1 DEF SentLinks
    <2> QED BY <1>2, <2>2
<1> QED BY <1>4, <1>5, <1>6 DEF UsedAt, Uses

-----------------------------------------------------------------------------
(* The steps.                                                              *)

\* Under every number every link lives on.
AllLive ==
    \A p \in Peer, i \in Nat \ {0}, l \in Link :
        LifeStep(OwnerAt(edge[p], i, l), OtherAt(edge[Other(p)], Chan(p), i, l),
                 OwnerAt(edge[p], i, l)', OtherAt(edge[Other(p)], Chan(p), i, l)')

\* A link newly used was used nowhere, and is used under one number only.
NewOnly ==
    \A l \in Link, p \in Peer, i \in Nat \ {0} :
        UsedAt(p, i, l)' /\ ~UsedAt(p, i, l) =>
            \A q \in Peer, j \in Nat \ {0} : ~UsedAt(q, j, l) /\ (UsedAt(q, j, l)' => q = p /\ j = i)

Living == AllLive /\ NewOnly /\ AllApart'

\* p has a new edge u, and g and d are under way.
LEMMA GoesStep ==
    ASSUME TypeOK, AllApart, NEW p \in Peer, NEW u, NEW g, NEW d,
           edge' = [edge EXCEPT ![p] = u], Chan(p)' = g, Chan(Other(p))' = d,
           Goes(edge[p], edge[Other(p)], Chan(p), u, edge[Other(p)], g),
           Goes(edge[Other(p)], edge[p], Chan(Other(p)), edge[Other(p)], u, d)
    PROVE  Living
<1> DEFINE q == Other(p)
<1>1. q \in Peer /\ q # p /\ Other(q) = p /\ \A x \in Peer : x = p \/ x = q BY OtherTwice, OtherPeer
<1>2. edge'[p] = u /\ edge'[q] = edge[q] BY <1>1 DEF TypeOK
<1>3. ASSUME NEW x \in Peer
      PROVE  Goes(edge[x], edge[Other(x)], Chan(x), edge'[x], edge'[Other(x)], Chan(x)')
    BY <1>1, <1>2
<1>4. AllLive BY <1>3 DEF AllLive, Goes, LivesOn
<1>5. ASSUME NEW l \in Link, NEW x \in Peer, NEW i \in Nat \ {0}, UsedAt(x, i, l)' PROVE UsedAt(x, i, l)
    BY <1>3, <1>5 DEF UsedAt, Goes, NothingNew
<1>6. NewOnly BY <1>5 DEF NewOnly
<1>7. AllApart' BY <1>3 DEF AllApart, Goes, NothingNew
<1> QED BY <1>4, <1>6, <1>7 DEF Living

\* p sends a call that announces links nothing refers to.
LEMMA AnnounceStep ==
    ASSUME TypedAndSound, AllApart, NEW p \in Peer, NEW u, NEW m, Writes(p, u, m), Announces(edge[p], u, m),
           m.arg.link \in IfaceLink \cup {NoLink}, m.arg.link # NoLink => Fresh(m.arg.link),
           m.res.link \in ResultLink \cup {NoLink}, m.res.link # NoLink => Fresh(m.res.link)
    PROVE  Living
<1> DEFINE q == Other(p)
           g == Append(Chan(p), m)
<1>1. q \in Peer /\ q # p /\ Other(q) = p /\ \A x \in Peer : x = p \/ x = q BY OtherTwice, OtherPeer
<1>2. TypeOK /\ edge[p] \in Edge /\ EdgeSound(edge[p])
    BY DEF TypedAndSound, TypeOK, TablesSound, EdgeSound
<1>3. /\ edge'[p] = u /\ edge'[q] = edge[q] /\ Chan(p)' = g /\ Chan(q)' = Chan(q)
      /\ m \in Message /\ Grown(Chan(p), m, g)
    BY <1>1, <1>2 DEF Writes, TypeOK
<1> HIDE DEF g
<1>4. \A i \in Nat \ {0} : \A l : Brings(m, i, l) <=> (i = m.arg.id /\ l = m.arg.link) \/ (i = m.res.id /\ l = m.res.link)
    BY <1>3, BringsFact
<1>5. ASSUME NEW i \in Nat \ {0}, NEW l \in Link, Brings(m, i, l), NEW x \in Peer, NEW j \in Nat \ {0}
      PROVE  ~UsedAt(x, j, l)
    <2>1. l # NoLink BY NoLinkAssumption
    <2>2. Fresh(l) BY <1>4, <1>5, <2>1
    <2> QED BY <1>2, <2>2, FreshUnused
<1>6. ASSUME NEW i \in Nat \ {0}, NEW j \in Nat \ {0}, NEW l \in Link, Brings(m, i, l), Brings(m, j, l)
      PROVE  i = j
    <2>1. l # NoLink BY NoLinkAssumption
    <2>2. ~(m.arg.link = l /\ m.res.link = l) BY <2>1, LinkAssumption
    <2> QED BY <1>4, <1>6, <2>2
<1>7. \A i \in Nat \ {0}, j \in Nat \ {0}, l \in Link : Brings(m, i, l) => ~Uses(edge[p], edge[q], Chan(p), j, l)
    BY <1>5 DEF UsedAt
<1>8. /\ LivesOn(edge[p], edge[q], Chan(p), u, edge[q], g)
      /\ Goes(edge[q], edge[p], Chan(q), edge[q], u, Chan(q))
      /\ \A i \in Nat \ {0}, l \in Link :
            Uses(u, edge[q], g, i, l) => Uses(edge[p], edge[q], Chan(p), i, l) \/ Brings(m, i, l)
      /\ \A i \in Nat \ {0} : Apart(edge[p], edge[q], Chan(p), i) => Apart(u, edge[q], g, i)
    BY <1>2, <1>3, <1>7, CallGoes
<1>9. ASSUME NEW x \in Peer
      PROVE  LivesOn(edge[x], edge[Other(x)], Chan(x), edge'[x], edge'[Other(x)], Chan(x)')
    BY <1>1, <1>3, <1>8 DEF Goes
<1>10. AllLive BY <1>9 DEF AllLive, LivesOn
<1>11. ASSUME NEW l \in Link, NEW x \in Peer, NEW i \in Nat \ {0}, UsedAt(x, i, l)', ~UsedAt(x, i, l)
       PROVE  x = p /\ Brings(m, i, l)
    <2>1. CASE x = p BY <1>3, <1>8, <1>11, <2>1 DEF UsedAt
    <2>2. CASE x = q BY <1>1, <1>3, <1>8, <1>11, <2>2 DEF UsedAt, Goes, NothingNew
    <2> QED BY <1>1, <2>1, <2>2
<1>12. NewOnly
    <2> SUFFICES ASSUME NEW l \in Link, NEW x \in Peer, NEW i \in Nat \ {0}, UsedAt(x, i, l)', ~UsedAt(x, i, l),
                        NEW y \in Peer, NEW j \in Nat \ {0}
                 PROVE  ~UsedAt(y, j, l) /\ (UsedAt(y, j, l)' => y = x /\ j = i)
        BY DEF NewOnly
    <2>1. x = p /\ Brings(m, i, l) BY <1>11
    <2>2. ~UsedAt(y, j, l) BY <1>5, <2>1
    <2>3. UsedAt(y, j, l)' => y = p /\ Brings(m, j, l) BY <1>11, <2>2
    <2> QED BY <1>6, <2>1, <2>2, <2>3
<1>13. ASSUME NEW x \in Peer, NEW i \in Nat \ {0}
       PROVE  Apart(edge'[x], edge'[Other(x)], Chan(x)', i)
    <2>1. Apart(edge[x], edge[Other(x)], Chan(x), i) BY DEF AllApart
    <2>2. CASE x = p BY <1>3, <1>8, <2>1, <2>2
    <2>3. CASE x = q BY <1>1, <1>3, <1>8, <2>1, <2>3 DEF Goes, NothingNew
    <2> QED BY <1>1, <2>2, <2>3
<1>14. AllApart' BY <1>13 DEF AllApart
<1> QED BY <1>10, <1>12, <1>14 DEF Living

\* What only moves messages along their channel.
LEMMA MoveStep ==
    ASSUME AllApart, edge' = edge, \A x \in Peer : Chan(x)' = Chan(x)
    PROVE  Living
<1>1. AllLive BY DEF AllLive, LifeStep
<1>2. NewOnly BY DEF NewOnly, UsedAt
<1>3. AllApart' BY DEF AllApart
<1> QED BY <1>1, <1>2, <1>3 DEF Living

LEMMA ProcessLives ==
    ASSUME TypedAndSound, AllInPhase, AllApart, NEW p \in Peer, Process(p)
    PROVE  Living
<1> DEFINE q == Other(p)
           m == Head(inp[p])
           t == Tail(Chan(q))
<1>1. TypeOK /\ edge[p] \in Edge /\ EdgeSound(edge[p]) /\ inp[p] # <<>> /\ q \in Peer /\ Other(q) = p
    BY OtherTwice DEF TypedAndSound, TypeOK, TablesSound, EdgeSound, Process
<1>2. /\ m \in Message /\ Chan(q)[1] = m /\ Shrunk(Chan(q), t)
      /\ Phases(edge[p], edge[q], Chan(p), Chan(q)) /\ Phases(edge[q], edge[p], Chan(q), Chan(p))
    BY <1>1, ReadFacts
<1>3. Handled(p) BY ProcessReads
<1>4. PICK u, g : Reads(p, u, g) /\ Handles(edge[p], u, m, Chan(p), g) BY <1>3 DEF Handled
<1>5. \A i \in Nat \ {0} : Apart(edge[q], edge[p], Chan(q), i) BY <1>1 DEF AllApart
<1> HIDE DEF m, t
<1>6. /\ Goes(edge[p], edge[q], Chan(p), u, edge[q], g)
      /\ Goes(edge[q], edge[p], Chan(q), edge[q], u, t)
    BY <1>1, <1>2, <1>4, <1>5, HandledGoes
<1> QED BY <1>1, <1>4, <1>6, GoesStep DEF Reads, t

LEMMA UserLives ==
    ASSUME TypedAndSound, AllApart, NEW p \in Peer, Put(p) \/ Call(p) \/ Drop(p) \/ Resolve(p)
    PROVE  Living
<1>1. CASE Put(p) \/ Call(p)
    <2>1. PICK u, m : /\ Writes(p, u, m) /\ Announces(edge[p], u, m)
                      /\ m.arg.link \in IfaceLink \cup {NoLink} /\ (m.arg.link # NoLink => Fresh(m.arg.link))
                      /\ m.res.link \in ResultLink \cup {NoLink} /\ (m.res.link # NoLink => Fresh(m.res.link))
        BY <1>1, CallWrites
    <2> QED BY <2>1, AnnounceStep
<1>2. CASE Drop(p) \/ Resolve(p)
    <2>1. PICK u, m : Writes(p, u, m) /\ Begins(edge[p], u, m) BY <1>2, DropWrites, ResolveWrites
    <2> DEFINE g == Append(Chan(p), m)
    <2>2. m \in Message /\ Grown(Chan(p), m, g) BY <2>1 DEF Writes
    <2> HIDE DEF g
    <2>3. /\ Goes(edge[p], edge[Other(p)], Chan(p), u, edge[Other(p)], g)
          /\ Goes(edge[Other(p)], edge[p], Chan(Other(p)), edge[Other(p)], u, Chan(Other(p)))
        BY <2>1, <2>2, BeginGoes
    <2>4. TypeOK BY DEF TypedAndSound
    <2> QED BY <2>1, <2>3, <2>4, GoesStep DEF Writes, g
<1> QED BY <1>1, <1>2

-----------------------------------------------------------------------------
(* The invariant.                                                          *)

\* No link is used under two numbers, nor announced where it still has a cell.
LivesInv == LinksInv /\ Unique /\ AllApart

LEMMA LivesInvInit == Init => LivesInv
<1> SUFFICES ASSUME Init PROVE LivesInv OBVIOUS
<1>1. LinksInv BY LinksInvInit
<1>2. ASSUME NEW p \in Peer, NEW i \in Nat \ {0}
      PROVE  /\ Lookup(edge[p], i) = NoLink
             /\ \A l \in Link : ~UsedAt(p, i, l)
    <2>1. Other(p) \in Peer BY OtherTwice
    <2>2. Chan(p) = <<>> BY <2>1 DEF Init, Chan
    <2>3. \A x \in Peer : edge[x].local.links = <<>> /\ edge[x].remote.links = <<>>
        BY DEF Init, EmptyLocal, EmptyRemote
    <2>4. Lookup(edge[p], i) = NoLink /\ Lookup(edge[Other(p)], -i) = NoLink
        BY <2>1, <2>3 DEF Lookup, Get
    <2>5. \A l : ~Opening(Chan(p), i, l) BY <2>2 DEF Opening
    <2> QED BY <2>4, <2>5, NoLinkAssumption DEF UsedAt, Uses
<1>3. Unique BY <1>2 DEF Unique
<1>4. AllApart BY <1>2 DEF AllApart, Apart
<1> QED BY <1>1, <1>3, <1>4 DEF LivesInv

LEMMA StepLives ==
    ASSUME LivesInv, [Next]_vars
    PROVE  Living
<1>1. TypedAndSound /\ AllInPhase /\ AllApart BY DEF LivesInv, LinksInv
<1>2. CASE UNCHANGED vars
    <2>1. edge' = edge /\ \A x \in Peer : Chan(x)' = Chan(x) BY <1>2 DEF vars, Chan
    <2> QED BY <1>1, <2>1, MoveStep
<1>3. ASSUME NEW p \in Peer, Start(p) \/ Pause(p) \/ Leave(p) PROVE Living
    <2>1. UNCHANGED <<edge, out, wire, inp>> BY <1>3 DEF Start, Pause, Leave
    <2>2. edge' = edge /\ \A x \in Peer : Chan(x)' = Chan(x) BY <2>1 DEF Chan
    <2> QED BY <1>1, <2>2, MoveStep
<1>4. ASSUME NEW p \in Peer, Flush(p) \/ Receive(p) PROVE Living
    <2>1. edge' = edge /\ \A x \in Peer : Chan(x)' = Chan(x) BY <1>1, <1>4, FlushMoves, ReceiveMoves
    <2> QED BY <1>1, <2>1, MoveStep
<1>5. ASSUME NEW p \in Peer, Put(p) \/ Call(p) \/ Drop(p) \/ Resolve(p) PROVE Living
    BY <1>1, <1>5, UserLives
<1>6. ASSUME NEW p \in Peer, Process(p) PROVE Living BY <1>1, <1>6, ProcessLives
<1> QED BY <1>2, <1>3, <1>4, <1>5, <1>6 DEF Next

LEMMA LivesInvStep ==
    ASSUME LivesInv, [Next]_vars
    PROVE  LivesInv'
<1>1. Living BY StepLives
<1>2. LinksInv' BY LinksInvStep DEF LivesInv
<1>3. Unique'
    <2> SUFFICES ASSUME NEW l \in Link, NEW p \in Peer, NEW q \in Peer, NEW i \in Nat \ {0}, NEW j \in Nat \ {0},
                        UsedAt(p, i, l)', UsedAt(q, j, l)'
                 PROVE  p = q /\ i = j
        BY DEF Unique
    <2>1. CASE UsedAt(p, i, l) /\ UsedAt(q, j, l) BY <2>1 DEF LivesInv, Unique
    <2>2. CASE ~UsedAt(p, i, l) BY <1>1, <2>2 DEF Living, NewOnly
    <2>3. CASE ~UsedAt(q, j, l) BY <1>1, <2>3 DEF Living, NewOnly
    <2> QED BY <2>1, <2>2, <2>3
<1> QED BY <1>1, <1>2, <1>3 DEF Living, LivesInv

\* A link's two cells go together from one number to none, or from none to one.
LEMMA CellsLive ==
    ASSUME Unique, Living, CellsRight, CellsRight', NEW l \in Link
    PROVE  LifeStep(OwnerCell(l), OtherCell(l), OwnerCell(l)', OtherCell(l)')
<1>1. ASSUME NEW p \in Peer, NEW i \in Nat \ {0}, CellsAt(p, i, l), CellsAt(p, i, l)'
      PROVE  LifeStep(OwnerCell(l), OtherCell(l), OwnerCell(l)', OtherCell(l)')
    BY <1>1 DEF CellsAt, Living, AllLive
<1>2. ASSUME NEW p \in Peer, NEW i \in Nat \ {0}, UsedAt(p, i, l)
      PROVE  CellsAt(p, i, l) /\ CellsAt(p, i, l)'
    <2>1. CellsAt(p, i, l) BY <1>2 DEF CellsRight
    <2>2. ASSUME NEW q \in Peer, NEW j \in Nat \ {0}, UsedAt(q, j, l)' PROVE q = p /\ j = i
        <3>1. UsedAt(q, j, l) BY <1>2, <2>2 DEF Living, NewOnly
        <3> QED BY <1>2, <3>1 DEF Unique
    <2>3. UsedAt(p, i, l)' \/ \A q \in Peer, j \in Nat \ {0} : ~UsedAt(q, j, l)' BY <2>2
    <2>4. CellsAt(p, i, l)' BY <2>3 DEF CellsRight
    <2> QED BY <2>1, <2>4
<1>3. ASSUME \A q \in Peer, j \in Nat \ {0} : ~UsedAt(q, j, l), NEW p \in Peer, NEW i \in Nat \ {0},
             UsedAt(p, i, l)' \/ \A q \in Peer, j \in Nat \ {0} : ~UsedAt(q, j, l)'
      PROVE  CellsAt(p, i, l) /\ CellsAt(p, i, l)'
    BY <1>3 DEF CellsRight
<1>4. CASE \E p \in Peer, i \in Nat \ {0} : UsedAt(p, i, l) BY <1>1, <1>2, <1>4
<1>5. CASE (\A q \in Peer, j \in Nat \ {0} : ~UsedAt(q, j, l)) /\ \E p \in Peer, i \in Nat \ {0} : UsedAt(p, i, l)'
    BY <1>1, <1>3, <1>5
<1>6. CASE /\ \A q \in Peer, j \in Nat \ {0} : ~UsedAt(q, j, l)
           /\ \A q \in Peer, j \in Nat \ {0} : ~UsedAt(q, j, l)'
    <2>1. PICK p \in Peer : TRUE BY PeerAssumption
    <2>2. 1 \in Nat \ {0} OBVIOUS
    <2> QED BY <1>1, <1>3, <1>6, <2>1, <2>2
<1> QED BY <1>4, <1>5, <1>6

LEMMA LivesInvAlways == Spec => [](LivesInv /\ CellsRight)
<1>1. Init => LivesInv BY LivesInvInit
<1>2. LivesInv /\ [Next]_vars => LivesInv' BY LivesInvStep
<1>3. LivesInv => CellsRight BY CellsAreRight DEF LivesInv, LinksInv, TypedAndSound
<1> QED BY <1>1, <1>2, <1>3, PTL DEF Spec

-----------------------------------------------------------------------------
(* What follows.                                                           *)

LEMMA LivesInitially == Init /\ LivesInv /\ CellsRight => \A l \in Link : Life(l)!Init
<1> SUFFICES ASSUME Init, CellsRight, NEW l \in Link PROVE OwnerCell(l) = "none" /\ OtherCell(l) = "none"
    BY DEF Life!Init
<1>1. \A x \in Peer : edge[x].local.links = <<>> /\ edge[x].remote.links = <<>>
    BY DEF Init, EmptyLocal, EmptyRemote
<1>2. \A x \in Peer : Chan(x) = <<>> BY OtherTwice DEF Init, Chan
<1>3. ~Announced(l)
    <2> SUFFICES ASSUME NEW x \in Peer, NEW k \in 1..Len(Chan(x)) PROVE FALSE BY DEF Announced
    <2> QED BY <1>2
<1>4. OwnerCell(l) = "none"
    <2>1. \A x \in Peer : 1..Len(edge[x].local.links) = {} BY <1>1
    <2> QED BY <2>1 DEF OwnerCell
<1>5. OtherCell(l) = "none"
    <2>1. \A x \in Peer : 1..Len(edge[x].remote.links) = {} BY <1>1
    <2> QED BY <1>3, <2>1 DEF OtherCell
<1> QED BY <1>4, <1>5

LEMMA LifeStepIsLife ==
    ASSUME NEW l \in Link, LifeStep(OwnerCell(l), OtherCell(l), OwnerCell(l)', OtherCell(l)')
    PROVE  Life(l)!Next \/ UNCHANGED <<OwnerCell(l), OtherCell(l)>>
BY DEF LifeStep, Life!Next, Life!Open, Life!Arrive, Life!OwnerClose, Life!OtherClose,
       Life!OwnerTake, Life!OtherTake, Life!OwnerDone, Life!OtherDone

\* Every link of two connected edges lives the life of LinkLife, for any number
\* of links and any bound on what is under way: whatever crosses, no side gives
\* up a cell that the other side still uses or has not got yet, and no link is
\* opened a second time.
THEOREM LinksLive == Spec => LinkLives
<1>1. Init /\ LivesInv /\ CellsRight => \A l \in Link : Life(l)!Init BY LivesInitially
<1>2. (LivesInv /\ CellsRight) /\ (LivesInv /\ CellsRight)' /\ [Next]_vars
        => [\A l \in Link : Life(l)!Next \/ UNCHANGED <<OwnerCell(l), OtherCell(l)>>]_vars
    <2> SUFFICES ASSUME LivesInv, CellsRight, CellsRight', [Next]_vars, NEW l \in Link
                 PROVE  Life(l)!Next \/ UNCHANGED <<OwnerCell(l), OtherCell(l)>>
        OBVIOUS
    <2>1. Living BY StepLives
    <2>2. LifeStep(OwnerCell(l), OtherCell(l), OwnerCell(l)', OtherCell(l)') BY <2>1, CellsLive DEF LivesInv
    <2> QED BY <2>2, LifeStepIsLife
<1> QED BY <1>1, <1>2, LivesInvAlways, PTL DEF Spec, LinkLives

\* At all times a side of Links is without a link only while the other has none
\* either or has begun to close its own.
THEOREM LinksAgree == Spec => [](\A l \in Link : Life(l)!Agreed)
<1> DEFINE Agreed == \A l \in Link : Life(l)!Agreed
<1>1. Init /\ LivesInv /\ CellsRight => Agreed
    BY LivesInitially DEF Life!Init, Life!Agreed, Life!OwnerCells, Life!OtherCells
<1>2. Agreed /\ (LivesInv /\ CellsRight) /\ (LivesInv /\ CellsRight)' /\ [Next]_vars => Agreed'
    <2> SUFFICES ASSUME Agreed, LivesInv, CellsRight, CellsRight', [Next]_vars, NEW l \in Link
                 PROVE  Life(l)!Agreed'
        OBVIOUS
    <2>1. Living BY StepLives
    <2>2. LifeStep(OwnerCell(l), OtherCell(l), OwnerCell(l)', OtherCell(l)') BY <2>1, CellsLive DEF LivesInv
    <2>3. Life(l)!Agreed OBVIOUS
    <2> QED BY <2>2, <2>3 DEF LifeStep, Life!Agreed, Life!OwnerCells, Life!OtherCells
<1> QED BY <1>1, <1>2, LivesInvAlways, PTL DEF Spec
=============================================================================
