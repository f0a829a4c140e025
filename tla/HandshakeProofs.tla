--------------------------- MODULE HandshakeProofs ---------------------------
(***************************************************************************)
(* The types of Handshake, and that users who wait for the key of the peer *)
(* are answered, for every two peers and all bounds, also when transports  *)
(* are replaced in the midst of a session, with output not pumped and a    *)
(* message half read.                                                      *)
(*                                                                         *)
(* A function of Handshake takes the record of a peer to another one: a    *)
(* lemma says of each that the result is typed again (Typed), what it      *)
(* leaves alone, and what is put out.                                      *)
(*                                                                         *)
(* Then in what order the messages come in, and from it that payload is    *)
(* authentic and the peer proven, provided that a transport is only        *)
(* replaced before payload was allowed: the run handshake_reconnect shows  *)
(* what comes of the other case.                                           *)
(*                                                                         *)
(* Last, under the same assumption, that the two ends stay in step however *)
(* both change their keys at once.                                         *)
(***************************************************************************)
EXTENDS Handshake, FiniteSetTheorems, SequenceTheorems, TLAPS

\* What the two ends put out: only the first key is not enciphered, and what
\* is called a key carries one.
Sent == {m \in Message : /\ m.type = "raw" => m.under = NoSecret
                         /\ m.type \in {"raw", "skey", "ekey"} => m.key \in Key}

Fields == {"begun", "waiting", "local", "age", "remote", "in", "out", "markerSent",
           "markerSeen", "allowed", "payload", "initiated", "authentificated",
           "authRemote", "given", "got", "bad", "sent"}

\* The types of a peer, and that it has a key of its own when it knows one of
\* the other.
Plain(h) ==
    /\ DOMAIN h = Fields
    /\ h.local \in Seq(Key) /\ h.age \in 0..MaxAge /\ h.sent \in Seq(Sent)
    /\ h.given \in 0..MaxPayload /\ h.waiting \in Nat
    /\ h.remote \in Key \cup {NoKey} /\ h.authRemote \in Key \cup {NoKey}
    /\ h.in \in Symmetric /\ h.out \in Symmetric
    /\ h.begun \in BOOLEAN /\ h.markerSent \in BOOLEAN /\ h.markerSeen \in BOOLEAN
    /\ h.allowed \in BOOLEAN /\ h.payload \in BOOLEAN /\ h.initiated \in BOOLEAN
    /\ h.authentificated \in BOOLEAN /\ h.got \in BOOLEAN /\ h.bad \in BOOLEAN
    /\ h.age > 0 => h.local # <<>>
    /\ h.remote # NoKey => h.age > 0
    /\ h.authentificated => h.begun /\ h.waiting = 0

\* Between two steps a key of the other is known just when the Symmetrics are set.
Typed(h) == Plain(h) /\ (h.remote # NoKey <=> h.in.log # <<>>)

\* What a function that only puts something out leaves alone.
SameReader(g, h) ==
    /\ g.begun = h.begun /\ g.waiting = h.waiting /\ g.given = h.given
    /\ g.in = h.in /\ g.remote = h.remote /\ g.markerSeen = h.markerSeen
    /\ g.initiated = h.initiated /\ g.authentificated = h.authentificated
    /\ g.authRemote = h.authRemote /\ g.got = h.got /\ g.bad = h.bad

IInv ==
    /\ \A p \in Peer : /\ Typed(hs[p]) /\ hs[p].sent = <<>>
                       /\ wire[p] \in Seq(Sent)
    /\ DOMAIN hs = Peer /\ DOMAIN wire = Peer
    /\ \A p \in Peer : hs[p].waiting + hs[Other(p)].waiting <= MaxWaiting
    /\ session \in 1..Sessions /\ torn \subseteq Peer
    /\ ~Midway => torn = {}

-----------------------------------------------------------------------------
(* Peers, keys and Symmetrics.                                             *)

LEMMA OtherPeer ==
    \A p \in Peer : Other(p) \in Peer /\ Other(p) # p /\ Other(Other(p)) = p
        /\ \A q \in Peer : q = p \/ q = Other(p)
BY PeerAssumption DEF Other

LEMMA KeyIsOne == \A k \in Key : k # NoKey
<1> TAKE k \in Key
<1>1. k = <<k[1], k[2]>> BY DEF Key
<1>2. \A a, n : Len(<<a, n>>) = 2 /\ Len(<<>>) = 0 OBVIOUS
<1>3. Len(k) = 2 BY ONLY <1>1, <1>2, Zenon
<1> HIDE DEF Key
<1> QED BY <1>2, <1>3 DEF NoKey

LEMMA LongTail ==
    ASSUME NEW s \in Seq(Key), Len(s) > 1
    PROVE  Tail(s) \in Seq(Key) /\ Tail(s) # <<>>
<1>1. s # <<>> OBVIOUS
<1>2. Tail(s) \in Seq(Key) /\ Len(Tail(s)) = Len(s) - 1 BY <1>1, HeadTailProperties
<1>3. Len(Tail(s)) # 0 BY <1>2
<1>4. \A t : Len(t) # 0 => t # <<>> OBVIOUS
<1> QED BY <1>2, <1>3, <1>4, Zenon

LEMMA MixSecretTyped ==
    ASSUME NEW s \in Symmetric, NEW k \in Key, NEW l \in Key
    PROVE  /\ MixSecret(s, k, l) \in Symmetric /\ MixSecret(s, k, l).log # <<>>
           /\ MixSecret(s, k, l).nonce = 0
           /\ Len(MixSecret(s, k, l).log) = Len(s.log) + 1
           /\ \A i \in 1..Len(s.log) : MixSecret(s, k, l).log[i] = s.log[i]
           /\ MixSecret(s, k, l).log[Len(s.log) + 1] = [what |-> "secret", of |-> {k, l}]
<1> DEFINE e == [what |-> "secret", of |-> {k, l}]
<1>1. e \in Mixing BY DEF Mixing
<1>2. s.log \in Seq(Mixing) BY DEF Symmetric
<1>3. Append(s.log, e) \in Seq(Mixing) /\ Append(s.log, e) # <<>>
      /\ Len(Append(s.log, e)) = Len(s.log) + 1
      /\ (\A i \in 1..Len(s.log) : Append(s.log, e)[i] = s.log[i])
      /\ Append(s.log, e)[Len(s.log) + 1] = e
    BY <1>1, <1>2
<1> QED BY <1>3 DEF MixSecret, Symmetric

LEMMA PassedTyped ==
    ASSUME NEW s \in Symmetric, NEW k \in Key \cup {NoKey},
           NEW t \in {"skey", "ekey", "marker", "applied", "payload"}
    PROVE  /\ Passed(s, t, k) \in Symmetric /\ Passed(s, t, k).nonce = s.nonce + 1
           /\ s.log # <<>> => Passed(s, t, k).log # <<>>
           /\ s.log = <<>> /\ t = "payload" => Passed(s, t, k).log = <<>>
           /\ Len(Passed(s, t, k).log) >= Len(s.log)
           /\ \A i \in 1..Len(s.log) : Passed(s, t, k).log[i] = s.log[i]
<1> DEFINE e == [what |-> t, of |-> IF k = NoKey THEN {} ELSE {k}]
<1>1. s.log \in Seq(Mixing) /\ s.nonce \in Nat BY DEF Symmetric
<1>2. CASE t = "payload" BY <1>1, <1>2 DEF Passed, Symmetric
<1>3. CASE t # "payload"
    <2>1. e \in Mixing BY <1>3 DEF Mixing
    <2>2. Append(s.log, e) \in Seq(Mixing) /\ Append(s.log, e) # <<>>
          /\ Len(Append(s.log, e)) = Len(s.log) + 1
          /\ (\A i \in 1..Len(s.log) : Append(s.log, e)[i] = s.log[i])
        BY <2>1, <1>1
    <2> QED BY <2>2, <1>1, <1>3 DEF Passed, Symmetric
<1> QED BY <1>2, <1>3

-----------------------------------------------------------------------------
(* What puts something out.                                                *)

LEMMA UrgentTyped ==
    ASSUME NEW h, Typed(h), NEW k \in Key \cup {NoKey},
           NEW t \in {"skey", "ekey", "marker", "applied", "payload"},
           t \in {"skey", "ekey"} => k \in Key
    PROVE  LET g == Urgent(h, t, k)
               m == [type |-> t, key |-> k, under |-> h.out]
           IN  /\ Typed(g) /\ SameReader(g, h)
               /\ g.age = h.age /\ g.local = h.local /\ g.markerSent = h.markerSent
               /\ g.allowed = h.allowed /\ g.payload = h.payload
               /\ g.sent = Append(h.sent, m) /\ m \in Sent
<1> DEFINE g == Urgent(h, t, k)
           m == [type |-> t, key |-> k, under |-> h.out]
<1>1. m \in Sent BY DEF Typed, Plain, Sent, Message
<1>2. Passed(h.out, t, k) \in Symmetric BY PassedTyped DEF Typed, Plain
<1>3. /\ DOMAIN g = Fields /\ SameReader(g, h)
      /\ g.age = h.age /\ g.local = h.local /\ g.markerSent = h.markerSent
      /\ g.allowed = h.allowed /\ g.payload = h.payload
      /\ g.sent = Append(h.sent, m) /\ g.out = Passed(h.out, t, k)
    BY DEF Typed, Plain, Urgent, Fields, SameReader
<1>4. g.sent \in Seq(Sent) BY <1>1, <1>3, AppendProperties DEF Typed, Plain
<1>5. Typed(g) BY <1>2, <1>3, <1>4 DEF Typed, Plain, SameReader
<1> QED BY <1>1, <1>3, <1>5

LEMMA NewKeyTyped ==
    ASSUME NEW h, Typed(h), NEW p \in Peer, h.age < MaxAge
    PROVE  LET g == NewLocalKey(h, p)
           IN  /\ Typed(g) /\ SameReader(g, h) /\ g.age = h.age + 1
               /\ g.markerSent = h.markerSent
               /\ g.allowed = h.allowed /\ g.payload = h.payload
               /\ \E m \in Sent :
                    /\ g.sent = Append(h.sent, m) /\ m.key = <<p, g.age>>
                    /\ m.type = IF g.age = 1 THEN "raw" ELSE IF g.age = 2 THEN "skey" ELSE "ekey"
<1> DEFINE age == h.age + 1
           k == <<p, age>>
           f == [h EXCEPT !.age = age, !.local = Append(@, k)]
           g == NewLocalKey(h, p)
<1>1. age \in 0..MaxAge /\ age > 0 BY BoundsAssumption DEF Typed, Plain
<1>2. k \in Key BY <1>1 DEF Key
<1>3. Append(h.local, k) \in Seq(Key) /\ Append(h.local, k) # <<>>
    BY <1>2, AppendProperties DEF Typed, Plain
<1>4. /\ DOMAIN f = Fields /\ SameReader(f, h) /\ f.age = age /\ f.local = Append(h.local, k)
      /\ f.markerSent = h.markerSent /\ f.allowed = h.allowed /\ f.payload = h.payload
      /\ f.sent = h.sent /\ f.out = h.out
    BY DEF Typed, Plain, Fields, SameReader
<1>5. Typed(f) BY <1>1, <1>3, <1>4 DEF Typed, Plain, SameReader
<1>6. CASE age = 1
    <2> DEFINE m == [type |-> "raw", key |-> k, under |-> NoSecret]
    <2>1. NoSecret \in Symmetric
        <3>1. <<>> \in Seq(Mixing) OBVIOUS
        <3> QED BY <3>1 DEF NoSecret, Symmetric
    <2>2. m \in Sent BY <2>1, <1>2 DEF Sent, Message
    <2>3. g = [f EXCEPT !.sent = Append(@, m)] BY <1>6 DEF NewLocalKey, UrgentRaw
    <2>4. /\ DOMAIN g = Fields /\ SameReader(g, f) /\ g.age = f.age /\ g.local = f.local
          /\ g.markerSent = f.markerSent /\ g.allowed = f.allowed /\ g.payload = f.payload
          /\ g.sent = Append(f.sent, m) /\ g.out = f.out
        BY <2>3, <1>4 DEF Fields, SameReader
    <2>5. g.sent \in Seq(Sent) BY <2>2, <2>4, <1>5, AppendProperties DEF Typed, Plain
    <2>6. Typed(g) BY <2>4, <2>5, <1>5 DEF Typed, Plain, SameReader
    <2> HIDE DEF g
    <2>7. SameReader(g, h) BY <2>4, <1>4 DEF SameReader
    <2>8. m.key = <<p, g.age>> /\ m.type = "raw" /\ g.age = 1 BY <2>4, <1>4, <1>6
    <2> QED BY <2>2, <2>4, <2>6, <2>7, <2>8, <1>4 DEF g
<1>7. CASE age # 1
    <2> DEFINE t == IF age = 2 THEN "skey" ELSE "ekey"
               m == [type |-> t, key |-> k, under |-> f.out]
    <2>1. g = Urgent(f, t, k) BY <1>7 DEF NewLocalKey
    <2>2. /\ Typed(g) /\ SameReader(g, f)
          /\ g.age = f.age /\ g.local = f.local /\ g.markerSent = f.markerSent
          /\ g.allowed = f.allowed /\ g.payload = f.payload
          /\ g.sent = Append(f.sent, m) /\ m \in Sent
        <3> HIDE DEF f, k, g
        <3>1. t \in {"skey", "ekey"} /\ t \in {"skey", "ekey", "marker", "applied", "payload"}
            OBVIOUS
        <3> HIDE DEF t
        <3> QED BY <2>1, <3>1, <1>5, <1>2, UrgentTyped
    <2> HIDE DEF g
    <2>3. SameReader(g, h) BY <2>2, <1>4 DEF SameReader
    <2>4. m.key = <<p, g.age>> /\ m.type = t /\ g.age # 1 /\ g.age = age
        BY <2>2, <1>4, <1>7
    <2> QED BY <2>2, <2>3, <2>4, <1>4 DEF g
<1> QED BY <1>6, <1>7

LEMMA OutputKeyTyped ==
    ASSUME NEW h, Typed(h), h.remote # NoKey
    PROVE  LET g == UpdateOutputKey(h)
           IN  /\ Typed(g) /\ SameReader(g, h)
               /\ g.age = h.age /\ g.local = h.local /\ g.markerSent = h.markerSent
               /\ g.allowed = h.allowed /\ g.payload = h.payload /\ g.sent = h.sent
<1> DEFINE g == UpdateOutputKey(h)
<1>1. h.local \in Seq(Key) /\ h.local # <<>> BY DEF Typed, Plain
<1>2. h.local[Len(h.local)] \in Key BY <1>1, ElementOfSeq, EmptySeq
<1>3. OutputKey(h) \in Symmetric BY <1>2, MixSecretTyped DEF OutputKey, Typed, Plain
<1>4. /\ DOMAIN g = Fields /\ SameReader(g, h)
      /\ g.age = h.age /\ g.local = h.local /\ g.markerSent = h.markerSent
      /\ g.allowed = h.allowed /\ g.payload = h.payload /\ g.sent = h.sent
      /\ g.out = OutputKey(h)
    BY DEF Typed, Plain, UpdateOutputKey, Fields, SameReader
<1>5. Typed(g) BY <1>3, <1>4 DEF Typed, Plain, SameReader
<1> QED BY <1>4, <1>5

\* A new key, and the protocol marker when it comes with the first of the
\* output keys.
LEMMA GrowLocalTyped ==
    ASSUME NEW h, Typed(h), NEW p \in Peer, h.age < MaxAge
    PROVE  LET g == GrowLocalKey(h, p)
               n == NewLocalKey(h, p)
           IN  /\ Typed(g) /\ SameReader(g, h) /\ g.age = h.age + 1
               /\ g.allowed = h.allowed /\ g.payload = h.payload
               /\ h.remote = NoKey \/ h.markerSent =>
                    g.sent = n.sent /\ g.markerSent = h.markerSent
               /\ h.remote # NoKey /\ ~h.markerSent =>
                    /\ g.markerSent
                    /\ \E m \in Sent : g.sent = Append(n.sent, m) /\ m.type = "marker"
<1> DEFINE n == NewLocalKey(h, p)
           f == UpdateOutputKey(n)
           u == Urgent(f, "marker", NoKey)
           g == GrowLocalKey(h, p)
<1>1. /\ Typed(n) /\ SameReader(n, h) /\ n.age = h.age + 1 /\ n.markerSent = h.markerSent
      /\ n.allowed = h.allowed /\ n.payload = h.payload
    BY NewKeyTyped
<1>2. n.remote = h.remote BY <1>1 DEF SameReader
<1>3. CASE h.remote = NoKey
    <2>1. g = n BY <1>3 DEF GrowLocalKey
    <2> QED BY <2>1, <1>1, <1>3
<1>4. CASE h.remote # NoKey
    <2>1. /\ Typed(f) /\ SameReader(f, n) /\ f.age = n.age /\ f.markerSent = n.markerSent
          /\ f.allowed = n.allowed /\ f.payload = n.payload /\ f.sent = n.sent
        <3> HIDE DEF n
        <3> QED BY <1>1, <1>2, <1>4, OutputKeyTyped
    <2>2. SameReader(f, h) BY <2>1, <1>1 DEF SameReader
    <2>3. CASE h.markerSent
        <3>1. g = f BY <1>4, <2>3 DEF GrowLocalKey
        <3> QED BY <3>1, <2>1, <2>2, <1>1, <2>3
    <2>4. CASE ~h.markerSent
        <3> DEFINE m == [type |-> "marker", key |-> NoKey, under |-> f.out]
        <3>1. g = [u EXCEPT !.markerSent = TRUE] BY <1>4, <2>4 DEF GrowLocalKey
        <3>2. /\ Typed(u) /\ SameReader(u, f) /\ u.age = f.age
              /\ u.allowed = f.allowed /\ u.payload = f.payload
              /\ u.sent = Append(f.sent, m) /\ m \in Sent
            <4> HIDE DEF f
            <4> QED BY <2>1, UrgentTyped
        <3> HIDE DEF u
        <3>3. /\ DOMAIN g = Fields /\ SameReader(g, u) /\ g.age = u.age /\ g.local = u.local
              /\ g.allowed = u.allowed /\ g.payload = u.payload
              /\ g.sent = u.sent /\ g.out = u.out /\ g.markerSent = TRUE
            BY <3>1, <3>2 DEF Typed, Plain, Fields, SameReader
        <3> HIDE DEF g
        <3>4. Typed(g) BY <3>2, <3>3 DEF Typed, Plain, SameReader
        <3>5. SameReader(g, h) BY <3>2, <3>3, <2>2 DEF SameReader
        <3>6. g.age = h.age + 1 /\ g.allowed = h.allowed /\ g.payload = h.payload
            BY <3>2, <3>3, <2>1, <1>1
        <3>7. g.sent = Append(n.sent, m) /\ m.type = "marker" BY <3>2, <3>3, <2>1
        <3> QED BY <3>2, <3>3, <3>4, <3>5, <3>6, <3>7, <1>4, <2>4 DEF g
    <2> QED BY <2>3, <2>4
<1> QED BY <1>3, <1>4

\* The payload itself, without the new key that may follow it.
LEMMA PayloadTyped ==
    ASSUME NEW h, Typed(h)
    PROVE  LET g == [Urgent(h, "payload", NoKey) EXCEPT !.payload = FALSE]
           IN  /\ Typed(g) /\ SameReader(g, h) /\ g.age = h.age /\ g.allowed = h.allowed
               /\ g.markerSent = h.markerSent
               /\ \E m \in Sent : g.sent = Append(h.sent, m) /\ m.type = "payload"
<1> DEFINE u == Urgent(h, "payload", NoKey)
           m == [type |-> "payload", key |-> NoKey, under |-> h.out]
           g == [u EXCEPT !.payload = FALSE]
<1>1. /\ Typed(u) /\ SameReader(u, h) /\ u.age = h.age /\ u.allowed = h.allowed
      /\ u.markerSent = h.markerSent /\ u.sent = Append(h.sent, m) /\ m \in Sent
    BY UrgentTyped
<1> HIDE DEF u
<1>2. /\ DOMAIN g = Fields /\ SameReader(g, u) /\ g.age = u.age /\ g.local = u.local
      /\ g.allowed = u.allowed /\ g.payload = FALSE /\ g.markerSent = u.markerSent
      /\ g.sent = u.sent /\ g.out = u.out
    BY <1>1 DEF Typed, Plain, Fields, SameReader
<1> HIDE DEF g
<1>3. Typed(g) BY <1>1, <1>2 DEF Typed, Plain, SameReader
<1>4. SameReader(g, h) BY <1>1, <1>2 DEF SameReader
<1>5. g.sent = Append(h.sent, m) /\ m.type = "payload" BY <1>1, <1>2
<1> QED BY <1>1, <1>2, <1>3, <1>4, <1>5 DEF g, u

LEMMA FlushTyped ==
    ASSUME NEW h, Typed(h), NEW p \in Peer, NEW enough \in BOOLEAN,
           enough => h.age < MaxAge
    PROVE  LET g == FlushPayload(h, p, enough)
           IN  Typed(g) /\ SameReader(g, h) /\ g.allowed = h.allowed
<1> DEFINE f == [Urgent(h, "payload", NoKey) EXCEPT !.payload = FALSE]
           g == FlushPayload(h, p, enough)
<1>1. Typed(f) /\ SameReader(f, h) /\ f.age = h.age /\ f.allowed = h.allowed
    BY PayloadTyped
<1>2. g = IF enough THEN GrowLocalKey(f, p) ELSE f BY DEF FlushPayload
<1> HIDE DEF f
<1>3. CASE enough
    <2>1. Typed(g) /\ SameReader(g, f) /\ g.allowed = f.allowed
        BY <1>1, <1>2, <1>3, GrowLocalTyped
    <2> QED BY <2>1, <1>1 DEF SameReader
<1>4. CASE ~enough BY <1>1, <1>2, <1>4
<1> QED BY <1>3, <1>4

LEMMA AllowTyped ==
    ASSUME NEW h, Typed(h), NEW p \in Peer, NEW enough \in BOOLEAN,
           enough => h.age < MaxAge
    PROVE  LET g == AllowPayload(h, p, enough)
           IN  Typed(g) /\ SameReader(g, h)
<1> DEFINE f == [h EXCEPT !.allowed = TRUE]
           g == AllowPayload(h, p, enough)
<1>1. /\ DOMAIN f = Fields /\ SameReader(f, h) /\ f.age = h.age /\ f.local = h.local
      /\ f.allowed = TRUE /\ f.payload = h.payload /\ f.markerSent = h.markerSent
      /\ f.sent = h.sent /\ f.out = h.out
    BY DEF Typed, Plain, Fields, SameReader
<1>2. g = IF f.payload THEN FlushPayload(f, p, enough) ELSE f BY DEF AllowPayload
<1> HIDE DEF f
<1>3. Typed(f) BY <1>1 DEF Typed, Plain, SameReader
<1>4. CASE f.payload
    <2>1. Typed(g) /\ SameReader(g, f) BY <1>1, <1>2, <1>3, <1>4, FlushTyped
    <2> QED BY <2>1, <1>1 DEF SameReader
<1>5. CASE ~f.payload BY <1>1, <1>2, <1>3, <1>5
<1> QED BY <1>4, <1>5

-----------------------------------------------------------------------------
(* What handles something that came in.                                    *)

\* Both Symmetrics are set from the newest keys known.
LEMMA UpdateKeysTyped ==
    ASSUME NEW h, Plain(h), h.remote \in Key
    PROVE  LET g == UpdateKeys(h)
           IN  /\ Typed(g) /\ g.in = InputKey(h) /\ g.in.log # <<>>
               /\ g.begun = h.begun /\ g.waiting = h.waiting /\ g.given = h.given
               /\ g.remote = h.remote /\ g.markerSeen = h.markerSeen
               /\ g.initiated = h.initiated /\ g.authentificated = h.authentificated
               /\ g.authRemote = h.authRemote /\ g.got = h.got /\ g.bad = h.bad
               /\ g.age = h.age /\ g.local = h.local /\ g.markerSent = h.markerSent
               /\ g.allowed = h.allowed /\ g.payload = h.payload /\ g.sent = h.sent
<1> DEFINE g == UpdateKeys(h)
<1>1. h.local \in Seq(Key) /\ h.local # <<>> BY KeyIsOne DEF Plain
<1>2. h.local[Len(h.local)] \in Key /\ Head(h.local) \in Key
    BY <1>1, ElementOfSeq, EmptySeq, HeadTailProperties
<1>3. OutputKey(h) \in Symmetric /\ InputKey(h) \in Symmetric /\ InputKey(h).log # <<>>
    BY <1>2, MixSecretTyped DEF OutputKey, InputKey, Plain
<1>4. /\ DOMAIN g = Fields /\ g.in = InputKey(h) /\ g.out = OutputKey(h)
      /\ g.begun = h.begun /\ g.waiting = h.waiting /\ g.given = h.given
      /\ g.remote = h.remote /\ g.markerSeen = h.markerSeen
      /\ g.initiated = h.initiated /\ g.authentificated = h.authentificated
      /\ g.authRemote = h.authRemote /\ g.got = h.got /\ g.bad = h.bad
      /\ g.age = h.age /\ g.local = h.local /\ g.markerSent = h.markerSent
      /\ g.allowed = h.allowed /\ g.payload = h.payload /\ g.sent = h.sent
    BY DEF Plain, UpdateKeys, Fields
<1> HIDE DEF g
<1>5. Plain(g) BY <1>3, <1>4 DEF Plain
<1>6. Typed(g) BY <1>3, <1>4, <1>5, KeyIsOne DEF Typed
<1> QED BY <1>3, <1>4, <1>6 DEF g

LEMMA GrowRemote0Typed ==
    ASSUME NEW h, Typed(h), NEW p \in Peer, NEW k \in Key, NEW enough \in BOOLEAN,
           h.age > 0, h.age < MaxAge, enough => h.age + 1 < MaxAge
    PROVE  LET g == GrowRemoteKey0(h, p, k, enough)
           IN  /\ Typed(g) /\ g.begun = h.begun /\ g.waiting = h.waiting
               /\ g.given = h.given /\ g.markerSeen = h.markerSeen
               /\ g.initiated = h.initiated /\ g.authentificated = h.authentificated
               /\ g.authRemote = h.authRemote /\ g.got = h.got /\ g.bad = h.bad
<1> DEFINE f == [h EXCEPT !.remote = k]
           u == UpdateKeys(f)
           n == GrowLocalKey(u, p)
           g == GrowRemoteKey0(h, p, k, enough)
<1>1. Plain(f) /\ f.remote \in Key /\ f.age = h.age
      /\ f.begun = h.begun /\ f.waiting = h.waiting
      /\ f.given = h.given /\ f.markerSeen = h.markerSeen
      /\ f.initiated = h.initiated /\ f.authentificated = h.authentificated
      /\ f.authRemote = h.authRemote /\ f.got = h.got /\ f.bad = h.bad
    BY DEF Typed, Plain, Fields
<1>2. Typed(u) /\ u.age = f.age
      /\ u.begun = f.begun /\ u.waiting = f.waiting
      /\ u.given = f.given /\ u.markerSeen = f.markerSeen
      /\ u.initiated = f.initiated /\ u.authentificated = f.authentificated
      /\ u.authRemote = f.authRemote /\ u.got = f.got /\ u.bad = f.bad
    <2> HIDE DEF f
    <2> QED BY <1>1, UpdateKeysTyped
<1>3. Typed(n) /\ SameReader(n, u) /\ n.age = u.age + 1
    <2> HIDE DEF u
    <2> QED BY <1>1, <1>2, GrowLocalTyped
<1>4. g = IF n.age = 2 THEN AllowPayload(n, p, enough) ELSE n BY DEF GrowRemoteKey0
<1> HIDE DEF f, u, n
<1>5. Typed(g) /\ SameReader(g, n)
    <2>1. CASE n.age = 2 BY <2>1, <1>1, <1>2, <1>3, <1>4, AllowTyped
    <2>2. CASE n.age # 2 BY <2>2, <1>3, <1>4 DEF SameReader
    <2> QED BY <2>1, <2>2
<1> QED BY <1>1, <1>2, <1>3, <1>5 DEF SameReader

LEMMA GrowRemoteTyped ==
    ASSUME NEW h, Typed(h), h.remote # NoKey, NEW k \in Key, NEW s \in BOOLEAN
    PROVE  LET g == GrowRemoteKey(h, k, s)
           IN  /\ Typed(g) /\ g.begun = h.begun /\ g.waiting = h.waiting
               /\ g.given = h.given /\ g.markerSeen = h.markerSeen
               /\ g.authentificated = h.authentificated /\ g.got = h.got /\ g.bad = h.bad
               /\ g.initiated = (s \/ h.initiated)
               /\ g.authRemote = (IF s THEN k ELSE h.authRemote)
               /\ g.age = h.age /\ g.allowed = h.allowed
               /\ g.markerSent = h.markerSent /\ g.remote = k
               /\ \E m \in Sent : g.sent = Append(h.sent, m) /\ m.type = "applied"
               /\ g.in = MixSecret(h.in, Head(h.local), k) /\ g.in.log # <<>>
<1> DEFINE f == [h EXCEPT !.remote = k]
           u == Urgent(f, "applied", NoKey)
           n == UpdateKeys(u)
           m == [type |-> "applied", key |-> NoKey, under |-> f.out]
           g == GrowRemoteKey(h, k, s)
<1>1. /\ Plain(f) /\ f.remote = k /\ f.in = h.in /\ f.local = h.local /\ f.sent = h.sent
      /\ f.age = h.age /\ f.allowed = h.allowed /\ f.markerSent = h.markerSent
      /\ f.begun = h.begun /\ f.waiting = h.waiting
      /\ f.given = h.given /\ f.markerSeen = h.markerSeen
      /\ f.initiated = h.initiated /\ f.authentificated = h.authentificated
      /\ f.authRemote = h.authRemote /\ f.got = h.got /\ f.bad = h.bad
    BY DEF Typed, Plain, Fields
<1>2. Typed(f) BY <1>1, KeyIsOne DEF Typed
<1> HIDE DEF f
<1>3. /\ Typed(u) /\ SameReader(u, f) /\ u.local = f.local /\ u.sent = Append(f.sent, m)
      /\ m \in Sent /\ u.age = f.age /\ u.allowed = f.allowed /\ u.markerSent = f.markerSent
    BY <1>2, UrgentTyped
<1> HIDE DEF u
<1>4. /\ Typed(n) /\ n.in = InputKey(u) /\ n.in.log # <<>>
      /\ n.begun = u.begun /\ n.waiting = u.waiting /\ n.given = u.given
      /\ n.remote = u.remote /\ n.markerSeen = u.markerSeen
      /\ n.initiated = u.initiated /\ n.authentificated = u.authentificated
      /\ n.authRemote = u.authRemote /\ n.got = u.got /\ n.bad = u.bad
      /\ n.age = u.age /\ n.markerSent = u.markerSent
      /\ n.allowed = u.allowed /\ n.sent = u.sent
    BY <1>1, <1>3, UpdateKeysTyped DEF Typed, SameReader
<1>5. InputKey(u) = MixSecret(h.in, Head(h.local), k)
    BY <1>1, <1>3 DEF InputKey, SameReader
<1>6. g = IF s THEN [n EXCEPT !.initiated = TRUE, !.authRemote = k] ELSE n
    BY DEF GrowRemoteKey, f, u
<1> HIDE DEF n
<1>7. /\ DOMAIN g = Fields /\ g.begun = n.begun /\ g.waiting = n.waiting /\ g.given = n.given
      /\ g.local = n.local /\ g.age = n.age /\ g.remote = n.remote
      /\ g.in = n.in /\ g.out = n.out /\ g.markerSent = n.markerSent
      /\ g.markerSeen = n.markerSeen /\ g.allowed = n.allowed /\ g.payload = n.payload
      /\ g.authentificated = n.authentificated /\ g.got = n.got /\ g.bad = n.bad
      /\ g.sent = n.sent
      /\ g.initiated = (s \/ n.initiated)
      /\ g.authRemote = (IF s THEN k ELSE n.authRemote)
    <2>1. CASE s BY <2>1, <1>4, <1>6 DEF Typed, Plain, Fields
    <2>2. CASE ~s BY <2>2, <1>4, <1>6 DEF Typed, Plain
    <2> QED BY <2>1, <2>2
<1> HIDE DEF g
<1>8. g.initiated \in BOOLEAN /\ g.authRemote \in Key \cup {NoKey}
    BY <1>4, <1>7 DEF Typed, Plain
<1>9. Typed(g) BY <1>4, <1>7, <1>8 DEF Typed, Plain
<1>10. g.initiated = (s \/ h.initiated) /\ g.authRemote = (IF s THEN k ELSE h.authRemote)
    BY <1>1, <1>3, <1>4, <1>7 DEF SameReader
<1>11. g.sent = Append(h.sent, m) /\ m.type = "applied" BY <1>1, <1>3, <1>4, <1>7
<1>12. /\ g.begun = h.begun /\ g.waiting = h.waiting
       /\ g.given = h.given /\ g.markerSeen = h.markerSeen
       /\ g.authentificated = h.authentificated /\ g.got = h.got /\ g.bad = h.bad
       /\ g.age = h.age /\ g.allowed = h.allowed
       /\ g.markerSent = h.markerSent /\ g.remote = k
    BY <1>1, <1>3, <1>4, <1>7 DEF SameReader
<1> QED BY <1>3, <1>4, <1>5, <1>7, <1>9, <1>10, <1>11, <1>12 DEF g

LEMMA CropTyped ==
    ASSUME NEW h, Typed(h), h.remote # NoKey
    PROVE  LET g == CropLocalKey(h)
           IN  /\ Typed(g) /\ g.begun = h.begun /\ g.waiting = h.waiting
               /\ g.given = h.given /\ g.markerSeen = h.markerSeen /\ g.remote = h.remote
               /\ g.initiated = h.initiated /\ g.authentificated = h.authentificated
               /\ g.authRemote = h.authRemote /\ g.got = h.got
               /\ g.age = h.age /\ g.allowed = h.allowed /\ g.markerSent = h.markerSent
               /\ g.sent = h.sent
<1> DEFINE g == CropLocalKey(h)
<1>1. CASE Len(h.local) <= 1
    <2>1. g = [h EXCEPT !.bad = TRUE] BY <1>1 DEF CropLocalKey
    <2>2. /\ DOMAIN g = Fields /\ SameReader([g EXCEPT !.bad = h.bad], h) /\ g.bad = TRUE
          /\ g.local = h.local /\ g.age = h.age /\ g.markerSent = h.markerSent
          /\ g.allowed = h.allowed /\ g.payload = h.payload
          /\ g.sent = h.sent /\ g.out = h.out
        BY <2>1 DEF Typed, Plain, Fields, SameReader
    <2>3. /\ g.begun = h.begun /\ g.waiting = h.waiting /\ g.in = h.in
          /\ g.given = h.given /\ g.markerSeen = h.markerSeen /\ g.remote = h.remote
          /\ g.initiated = h.initiated /\ g.authentificated = h.authentificated
          /\ g.authRemote = h.authRemote /\ g.got = h.got
        BY <2>1 DEF Typed, Plain, Fields
    <2> HIDE DEF g
    <2>4. Typed(g) BY <2>2, <2>3 DEF Typed, Plain
    <2> QED BY <2>2, <2>3, <2>4 DEF g
<1>2. CASE ~(Len(h.local) <= 1)
    <2> DEFINE f == [h EXCEPT !.local = Tail(@)]
               k == Head(Tail(h.local))
               i == MixSecret(h.in, k, h.remote)
    <2>1. h.local \in Seq(Key) /\ Tail(h.local) \in Seq(Key) /\ Tail(h.local) # <<>>
        <3>1. h.local \in Seq(Key) /\ Len(h.local) > 1
            BY <1>2, LenProperties DEF Typed, Plain
        <3> QED BY <3>1, LongTail
    <2>2. k \in Key /\ h.remote \in Key
        BY <2>1, HeadTailProperties DEF Typed, Plain
    <2>3. i \in Symmetric /\ i.log # <<>> BY <2>2, MixSecretTyped DEF Typed, Plain
    <2>4. g = [f EXCEPT !.in = i]
        BY <1>2 DEF CropLocalKey, UpdateInputKey, InputKey, Typed, Plain, Fields
    <2> HIDE DEF i
    <2>5. /\ DOMAIN g = Fields /\ g.begun = h.begun /\ g.waiting = h.waiting /\ g.given = h.given
          /\ g.local = Tail(h.local) /\ g.age = h.age /\ g.remote = h.remote
          /\ g.in = i /\ g.out = h.out /\ g.markerSent = h.markerSent
          /\ g.markerSeen = h.markerSeen /\ g.allowed = h.allowed /\ g.payload = h.payload
          /\ g.initiated = h.initiated /\ g.authRemote = h.authRemote
          /\ g.authentificated = h.authentificated /\ g.got = h.got /\ g.bad = h.bad
          /\ g.sent = h.sent
        BY <2>4 DEF Typed, Plain, Fields
    <2> HIDE DEF g
    <2>6. Typed(g) BY <2>1, <2>3, <2>5 DEF Typed, Plain
    <2> QED BY <2>5, <2>6 DEF g
<1> QED BY <1>1, <1>2

\* The input key is made of the next local key, or left alone.
LEMMA CropInput ==
    ASSUME NEW h, Typed(h)
    PROVE  LET g == CropLocalKey(h)
           IN  g.in = h.in \/ \E k \in Key : g.in = MixSecret(h.in, k, h.remote)
<1> DEFINE g == CropLocalKey(h)
<1>1. h.local \in Seq(Key) /\ Len(h.local) \in Nat BY LenProperties DEF Typed, Plain
<1>2. CASE Len(h.local) <= 1
    <2>1. g.in = h.in BY <1>2 DEF CropLocalKey, Typed, Plain, Fields
    <2> QED BY <2>1
<1>3. CASE ~(Len(h.local) <= 1)
    <2> DEFINE k == Head(Tail(h.local))
    <2>1. Tail(h.local) \in Seq(Key) /\ Tail(h.local) # <<>> BY <1>1, <1>3, LongTail
    <2>2. k \in Key BY <2>1, HeadTailProperties
    <2>3. g.in = MixSecret(h.in, k, h.remote)
        BY <1>3 DEF CropLocalKey, UpdateInputKey, InputKey, Typed, Plain, Fields
    <2> HIDE DEF g, k
    <2>4. \E l \in Key : g.in = MixSecret(h.in, l, h.remote) BY <2>2, <2>3
    <2> QED BY <2>4 DEF g
<1> QED BY <1>2, <1>3

LEMMA DecipheredTyped ==
    ASSUME NEW h, Typed(h), h.remote # NoKey, h.begun, NEW m \in Sent, m.type # "raw"
    PROVE  LET g == Deciphered(h, m)
           IN  /\ Typed(g) /\ g.begun = h.begun /\ g.given = h.given
               /\ g.waiting <= h.waiting /\ g.markerSeen = h.markerSeen
               /\ g.remote = h.remote /\ g.authRemote = h.authRemote
               /\ g.got = h.got /\ g.bad = h.bad
               /\ g.age = h.age /\ g.allowed = h.allowed /\ g.markerSent = h.markerSent
               /\ g.sent = h.sent /\ g.in = Passed(h.in, m.type, m.key)
               /\ ~g.initiated /\ g.authentificated = (h.authentificated \/ h.initiated)
<1> DEFINE g == Deciphered(h, m)
           i == Passed(h.in, m.type, m.key)
           a == h.authentificated \/ h.initiated
           w == IF h.initiated THEN 0 ELSE h.waiting
<1>1. m.type \in {"skey", "ekey", "marker", "applied", "payload"} /\ m.key \in Key \cup {NoKey}
    BY DEF Sent, Message
<1>2. i \in Symmetric /\ i.log # <<>> BY <1>1, PassedTyped DEF Typed, Plain
<1>3. a \in BOOLEAN /\ w \in Nat /\ w <= h.waiting /\ (a => w = 0) BY DEF Typed, Plain
<1>4. /\ DOMAIN g = Fields /\ g.begun = h.begun /\ g.waiting = w /\ g.given = h.given
      /\ g.local = h.local /\ g.age = h.age /\ g.remote = h.remote
      /\ g.in = i /\ g.out = h.out /\ g.markerSent = h.markerSent
      /\ g.markerSeen = h.markerSeen /\ g.allowed = h.allowed /\ g.payload = h.payload
      /\ g.initiated = FALSE /\ g.authRemote = h.authRemote
      /\ g.authentificated = a /\ g.got = h.got /\ g.bad = h.bad
      /\ g.sent = h.sent
    BY DEF Deciphered, Typed, Plain, Fields
<1> HIDE DEF g, i, a, w
<1>5. Typed(g) BY <1>2, <1>3, <1>4 DEF Typed, Plain
<1> QED BY <1>3, <1>4, <1>5 DEF g, i, a

\* What the handshake does with a message leaves no user waiting who did not
\* wait before.
LEMMA InputComingTyped ==
    ASSUME NEW h, Typed(h), h.remote # NoKey, NEW m \in Sent, m.type # "raw"
    PROVE  LET g == InputComing(h, m)
           IN  Typed(g) /\ g.begun = h.begun /\ g.waiting = h.waiting
<1> DEFINE g == InputComing(h, m)
<1>1. m.type \in {"skey", "ekey", "marker", "applied", "payload"}
      /\ (m.type \in {"skey", "ekey"} => m.key \in Key)
    BY DEF Sent, Message
<1>2. CASE m.type = "skey"
    <2>1. g = GrowRemoteKey(h, m.key, TRUE) BY <1>2 DEF InputComing
    <2>2. \A s \in BOOLEAN : LET f == GrowRemoteKey(h, m.key, s)
                             IN  Typed(f) /\ f.begun = h.begun /\ f.waiting = h.waiting
        BY <1>1, <1>2, GrowRemoteTyped
    <2> HIDE DEF g
    <2> QED BY <2>1, <2>2, Zenon DEF g
<1>3. CASE m.type = "ekey"
    <2>1. g = GrowRemoteKey(h, m.key, FALSE) BY <1>3 DEF InputComing
    <2>2. \A s \in BOOLEAN : LET f == GrowRemoteKey(h, m.key, s)
                             IN  Typed(f) /\ f.begun = h.begun /\ f.waiting = h.waiting
        BY <1>1, <1>3, GrowRemoteTyped
    <2> HIDE DEF g
    <2> QED BY <2>1, <2>2, Zenon DEF g
<1>4. CASE m.type = "applied"
    <2>1. g = CropLocalKey(h) BY <1>4 DEF InputComing
    <2> QED BY <2>1, CropTyped
<1>5. CASE m.type = "marker"
    <2>1. g = [h EXCEPT !.markerSeen = TRUE] BY <1>5 DEF InputComing
    <2> QED BY <2>1 DEF Typed, Plain, Fields
<1>6. CASE m.type = "payload"
    <2>1. g = [h EXCEPT !.got = TRUE] BY <1>6 DEF InputComing
    <2> QED BY <2>1 DEF Typed, Plain, Fields
<1> QED BY <1>1, <1>2, <1>3, <1>4, <1>5, <1>6

-----------------------------------------------------------------------------
(* The steps.                                                              *)

LEMMA BecomesTyped ==
    ASSUME IInv, NEW p \in Peer, NEW g, Typed(g), NEW w,
           g.waiting + hs[Other(p)].waiting <= MaxWaiting,
           DOMAIN w = Peer, \A q \in Peer : w[q] \in Seq(Sent), Becomes(p, g, w)
    PROVE  IInv'
<1> DEFINE f == [g EXCEPT !.sent = <<>>]
<1>1. hs' = [hs EXCEPT ![p] = f] /\ wire' = [w EXCEPT ![p] = @ \o g.sent] /\ session' = session
      /\ torn' = torn
    BY DEF Becomes
<1>2. Typed(f) /\ f.sent = <<>> /\ f.waiting = g.waiting
    <2>1. <<>> \in Seq(Sent) OBVIOUS
    <2> QED BY <2>1 DEF Typed, Plain, Fields
<1> HIDE DEF f
<1>3. DOMAIN hs' = Peer /\ DOMAIN wire' = Peer BY <1>1 DEF IInv
<1>4. ASSUME NEW q \in Peer
      PROVE  Typed(hs'[q]) /\ hs'[q].sent = <<>> /\ wire'[q] \in Seq(Sent)
    <2>1. CASE q = p
        <3>1. hs'[q] = f /\ wire'[q] = w[p] \o g.sent BY <1>1, <2>1 DEF IInv
        <3>2. w[p] \o g.sent \in Seq(Sent) BY ConcatProperties DEF Typed, Plain
        <3> QED BY <3>1, <3>2, <1>2
    <2>2. CASE q # p
        <3>1. hs'[q] = hs[q] /\ wire'[q] = w[q] BY <1>1, <2>2 DEF IInv
        <3> QED BY <3>1 DEF IInv
    <2> QED BY <2>1, <2>2
<1>5. ASSUME NEW q \in Peer PROVE hs'[q].waiting + hs'[Other(q)].waiting <= MaxWaiting
    <2>1. hs'[p].waiting = g.waiting /\ hs'[Other(p)].waiting = hs[Other(p)].waiting
        BY <1>1, <1>2, OtherPeer DEF IInv
    <2>2. g.waiting \in Nat /\ hs[Other(p)].waiting \in Nat
        BY OtherPeer DEF IInv, Typed, Plain
    <2>3. CASE q = p BY <2>1, <2>3
    <2>4. CASE q = Other(p)
        <3>1. Other(q) = p BY <2>4, OtherPeer
        <3> QED BY <2>1, <2>2, <2>4, <3>1
    <2> QED BY <2>3, <2>4, OtherPeer
<1> QED BY <1>1, <1>3, <1>4, <1>5 DEF IInv

LEMMA WireTyped ==
    ASSUME IInv, NEW q \in Peer, wire[q] # <<>>
    PROVE  /\ Head(wire[q]) \in Sent /\ DOMAIN Taken(q) = Peer
           /\ \A p \in Peer : Taken(q)[p] \in Seq(Sent)
<1>1. Head(wire[q]) \in Sent /\ Tail(wire[q]) \in Seq(Sent)
    BY HeadTailProperties DEF IInv
<1> QED BY <1>1 DEF IInv, Taken

\* A peer before the first step of a session.
Unused(g) ==
    /\ DOMAIN g = Fields /\ g.local = <<>> /\ g.age = 0 /\ g.given = 0 /\ g.sent = <<>>
    /\ g.remote = NoKey /\ g.authRemote = NoKey /\ g.in = NoSecret /\ g.out = NoSecret
    /\ g.begun = FALSE /\ g.markerSent = FALSE /\ g.markerSeen = FALSE
    /\ g.initiated = FALSE /\ g.authentificated = FALSE /\ g.got = FALSE
    /\ g.allowed \in BOOLEAN /\ g.payload \in BOOLEAN /\ g.bad \in BOOLEAN
    /\ g.waiting \in Nat

LEMMA UnusedTyped ==
    ASSUME NEW g, Unused(g)
    PROVE  Typed(g)
<1>1. <<>> \in Seq(Key) /\ <<>> \in Seq(Sent) /\ NoSecret \in Symmetric /\ NoSecret.log = <<>>
    <2>1. <<>> \in Seq(Key) /\ <<>> \in Seq(Sent) /\ <<>> \in Seq(Mixing) OBVIOUS
    <2> QED BY <2>1 DEF NoSecret, Symmetric
<1>2. g.age \in 0..MaxAge /\ g.given \in 0..MaxPayload
    BY BoundsAssumption DEF Unused
<1>3. g.local \in Seq(Key) /\ g.sent \in Seq(Sent) /\ g.in \in Symmetric /\ g.out \in Symmetric
    BY <1>1 DEF Unused
<1>4. g.remote = NoKey /\ g.in.log = <<>> BY <1>1 DEF Unused
<1>5. ~(g.age > 0) BY DEF Unused
<1>6. Plain(g) BY <1>2, <1>3, <1>5 DEF Unused, Plain
<1> QED BY <1>4, <1>6 DEF Typed

LEMMA InitUnused ==
    ASSUME Init, NEW p \in Peer
    PROVE  Unused(hs[p]) /\ hs[p].waiting = 0 /\ ~hs[p].allowed /\ wire[p] = <<>>
<1>1. hs[p] = Fresh /\ wire[p] = <<>> BY DEF Init
<1>2. Unused(Fresh) /\ Fresh.waiting = 0 /\ ~Fresh.allowed BY DEF Fresh, Unused, Fields
<1> QED BY <1>1, <1>2

LEMMA StaleSent ==
    ASSUME NEW p \in Peer, NEW m \in Sent
    PROVE  Stale(p, m) \in Sent
<1> DEFINE k == IF m.key = NoKey THEN NoKey ELSE <<p, 0>>
           s == IF m.under.log = <<>> THEN m.under ELSE Lost
<1>1. /\ m \in Message /\ (m.type = "raw" => m.under = NoSecret)
      /\ (m.type \in {"raw", "skey", "ekey"} => m.key \in Key)
    BY DEF Sent
<1>2. k \in Key \cup {NoKey} /\ (m.key \in Key => k \in Key)
    <2>1. <<p, 0>> \in Key BY BoundsAssumption DEF Key
    <2> QED BY <2>1, KeyIsOne
<1>3. s \in Symmetric /\ (m.under = NoSecret => s = NoSecret)
    <2>1. Lost \in Symmetric
        <3> DEFINE e == [what |-> "secret", of |-> {}]
        <3>1. e \in Mixing BY DEF Mixing
        <3> HIDE DEF e
        <3>2. <<e>> \in Seq(Mixing) BY <3>1
        <3> QED BY <3>2 DEF Lost, Symmetric, e
    <2>2. m.under \in Symmetric BY <1>1 DEF Message
    <2> QED BY <2>1, <2>2 DEF NoSecret
<1>4. Stale(p, m) = [m EXCEPT !.key = k, !.under = s] BY <1>1 DEF Stale, Message
<1> HIDE DEF k, s
<1>5. /\ Stale(p, m) \in Message /\ Stale(p, m).type = m.type
      /\ Stale(p, m).key = k /\ Stale(p, m).under = s
    BY <1>1, <1>2, <1>3, <1>4 DEF Message
<1> QED BY <1>1, <1>2, <1>3, <1>5 DEF Sent

LEMMA UnpumpedSent ==
    ASSUME IInv, NEW p \in Peer, NEW w \in Unpumped(p)
    PROVE  w \in Seq(Sent) /\ (~Midway => w = <<>>)
<1>1. CASE ~Midway
    <2>1. w = <<>> BY <1>1 DEF Unpumped
    <2> QED BY <2>1
<1>2. CASE Midway
    <2>1. wire[p] \in Seq(Sent) BY DEF IInv
    <2>2. Len(wire[p]) \in Nat BY <2>1, LenProperties
    <2>3. PICK n \in 0..Len(wire[p]) :
            w = [i \in 1..n |-> Stale(p, wire[p][Len(wire[p]) - n + i])]
        BY <1>2 DEF Unpumped
    <2>4. n \in Nat BY <2>2
    <2>5. \A i \in 1..n : Stale(p, wire[p][Len(wire[p]) - n + i]) \in Sent
        <3> TAKE i \in 1..n
        <3>1. Len(wire[p]) - n + i \in 1..Len(wire[p]) BY <2>2
        <3>2. wire[p][Len(wire[p]) - n + i] \in Sent BY <2>1, <3>1, ElementOfSeq
        <3> QED BY <3>2, StaleSent
    <2>6. w \in [1..n -> Sent] BY <2>3, <2>5
    <2>7. w \in Seq(Sent) BY <2>4, <2>6, IsASeq
    <2> QED BY <1>2, <2>7
<1> QED BY <1>1, <1>2

LEMMA ReconnectUnused ==
    ASSUME IInv, Reconnect, NEW p \in Peer
    PROVE  /\ Unused(hs'[p]) /\ wire'[p] \in Seq(Sent) /\ (~Midway => wire'[p] = <<>>)
           /\ hs'[p].waiting = hs[p].waiting /\ hs'[p].allowed = hs[p].allowed
           /\ hs'[p].bad = hs[p].bad
<1> DEFINE g == [Fresh EXCEPT !.allowed = hs[p].allowed, !.payload = hs[p].payload,
                              !.bad = hs[p].bad, !.waiting = hs[p].waiting]
<1>1. /\ hs[p].allowed \in BOOLEAN /\ hs[p].payload \in BOOLEAN /\ hs[p].bad \in BOOLEAN
      /\ hs[p].waiting \in Nat
    BY DEF IInv, Typed, Plain
<1>2. Unused(g) /\ g.waiting = hs[p].waiting /\ g.allowed = hs[p].allowed /\ g.bad = hs[p].bad
    BY <1>1 DEF Fresh, Unused, Fields
<1>3. hs'[p] = g BY DEF Reconnect
<1> HIDE DEF g
<1>4. wire'[p] \in Unpumped(p) BY DEF Reconnect
<1>5. wire'[p] \in Seq(Sent) /\ (~Midway => wire'[p] = <<>>) BY <1>4, UnpumpedSent
<1> QED BY <1>2, <1>3, <1>5

LEMMA InitIInv == Init => IInv
<1> SUFFICES ASSUME Init PROVE IInv OBVIOUS
<1>1. <<>> \in Seq(Sent) OBVIOUS
<1>2. \A p \in Peer : Typed(hs[p]) /\ hs[p].sent = <<>> /\ wire[p] \in Seq(Sent)
                        /\ hs[p].waiting = 0
    BY <1>1, InitUnused, UnusedTyped DEF Unused
<1>3. DOMAIN hs = Peer /\ DOMAIN wire = Peer BY DEF Init
<1>4. session \in 1..Sessions /\ torn = {} BY SessionsAssumption DEF Init
<1>5. ASSUME NEW p \in Peer PROVE hs[p].waiting + hs[Other(p)].waiting <= MaxWaiting
    <2>1. hs[p].waiting = 0 /\ hs[Other(p)].waiting = 0 BY <1>2, OtherPeer
    <2> QED BY <2>1, SessionsAssumption
<1> QED BY <1>2, <1>3, <1>4, <1>5 DEF IInv

LEMMA BeginIInv ==
    ASSUME IInv, NEW p \in Peer, Begin(p)
    PROVE  IInv'
<1> DEFINE g == [hs[p] EXCEPT !.begun = TRUE]
<1>1. Typed(g) /\ g.waiting = hs[p].waiting BY DEF IInv, Typed, Plain, Fields
<1>2. Becomes(p, g, wire) BY DEF Begin
<1>3. g.waiting + hs[Other(p)].waiting <= MaxWaiting BY <1>1 DEF IInv
<1> HIDE DEF g
<1> QED BY <1>1, <1>2, <1>3, BecomesTyped DEF IInv

LEMMA AskTyped ==
    ASSUME NEW h, Typed(h), ~h.begun
    PROVE  LET g == [h EXCEPT !.waiting = @ + 1] IN Typed(g) /\ g.waiting = h.waiting + 1
<1> DEFINE g == [h EXCEPT !.waiting = @ + 1]
<1>1. h.waiting \in Nat /\ ~h.authentificated BY DEF Typed, Plain
<1>2. DOMAIN g = Fields /\ g.waiting = h.waiting + 1 /\ \A f \in Fields \ {"waiting"} : g[f] = h[f]
    BY DEF Typed, Plain, Fields
<1> HIDE DEF g
<1>3. Typed(g) BY <1>1, <1>2 DEF Typed, Plain, Fields
<1> QED BY <1>2, <1>3 DEF g

LEMMA AskIInv ==
    ASSUME IInv, NEW p \in Peer, Ask(p)
    PROVE  IInv'
<1> DEFINE g == [hs[p] EXCEPT !.waiting = @ + 1]
<1>1. ~hs[p].begun /\ hs[p].waiting + hs[Other(p)].waiting < MaxWaiting /\ Becomes(p, g, wire)
    BY DEF Ask
<1>2. Typed(g) /\ g.waiting = hs[p].waiting + 1
    <2>1. Typed(hs[p]) BY DEF IInv
    <2> QED BY <1>1, <2>1, AskTyped
<1>3. hs[p].waiting \in Nat /\ hs[Other(p)].waiting \in Nat
    BY OtherPeer DEF IInv, Typed, Plain
<1>4. g.waiting + hs[Other(p)].waiting <= MaxWaiting
    BY <1>1, <1>2, <1>3, SessionsAssumption
<1> HIDE DEF g
<1> QED BY <1>1, <1>2, <1>4, BecomesTyped DEF IInv

LEMMA ReconnectIInv ==
    ASSUME IInv, Reconnect
    PROVE  IInv'
<1>1. <<>> \in Seq(Sent) OBVIOUS
<1>2. \A p \in Peer : Typed(hs'[p]) /\ hs'[p].sent = <<>> /\ wire'[p] \in Seq(Sent)
                        /\ hs'[p].waiting = hs[p].waiting
    BY <1>1, ReconnectUnused, UnusedTyped DEF Unused
<1>3. DOMAIN hs' = Peer /\ DOMAIN wire' = Peer BY DEF Reconnect
<1>4. session' \in 1..Sessions
    <2>1. session \in 1..Sessions BY DEF IInv
    <2>2. session < Sessions /\ session' = session + 1 BY DEF Reconnect
    <2> QED BY <2>1, <2>2, SessionsAssumption
<1>5. \A p \in Peer : hs'[p].waiting + hs'[Other(p)].waiting <= MaxWaiting
    BY <1>2, OtherPeer DEF IInv
<1>6. torn' \subseteq Peer /\ (~Midway => torn' = {})
    <2>1. PICK more \in SUBSET {p \in Peer : Midway /\ hs[p].in.log # <<>>} : torn' = torn \cup more
        BY DEF Reconnect
    <2> QED BY <2>1 DEF IInv
<1> QED BY <1>2, <1>3, <1>4, <1>5, <1>6 DEF IInv

LEMMA PayloadIInv ==
    ASSUME IInv, NEW p \in Peer, Payload(p)
    PROVE  IInv'
<1> DEFINE h == [hs[p] EXCEPT !.given = @ + 1, !.payload = TRUE]
<1>1. hs[p].begun /\ hs[p].given < MaxPayload BY DEF Payload
<1>2. Typed(h) /\ h.waiting = hs[p].waiting /\ h.age = hs[p].age
    BY <1>1, BoundsAssumption DEF IInv, Typed, Plain, Fields
<1>3. h.waiting + hs[Other(p)].waiting <= MaxWaiting BY <1>2 DEF IInv
<1>4. PICK enough \in BOOLEAN :
        \/ h.allowed /\ MayGrow(p, enough) /\ Becomes(p, FlushPayload(h, p, enough), wire)
        \/ ~h.allowed /\ h.age = 0 /\ Becomes(p, NewLocalKey(h, p), wire)
        \/ Becomes(p, h, wire)
    BY DEF Payload
<1> HIDE DEF h
<1>5. DOMAIN wire = Peer /\ \A q \in Peer : wire[q] \in Seq(Sent) BY DEF IInv
<1>6. CASE MayGrow(p, enough) /\ Becomes(p, FlushPayload(h, p, enough), wire)
    <2> DEFINE g == FlushPayload(h, p, enough)
    <2>1. enough => h.age < MaxAge BY <1>6, <1>2 DEF MayGrow
    <2>2. Typed(g) /\ g.waiting = h.waiting BY <1>2, <2>1, FlushTyped DEF SameReader
    <2> HIDE DEF g
    <2> QED BY <2>2, <1>3, <1>5, <1>6, BecomesTyped DEF g
<1>7. CASE h.age = 0 /\ Becomes(p, NewLocalKey(h, p), wire)
    <2> DEFINE g == NewLocalKey(h, p)
    <2>1. h.age < MaxAge BY <1>7, BoundsAssumption
    <2>2. Typed(g) /\ g.waiting = h.waiting BY <1>2, <2>1, NewKeyTyped DEF SameReader
    <2> HIDE DEF g
    <2> QED BY <2>2, <1>3, <1>5, <1>7, BecomesTyped DEF g
<1>8. CASE Becomes(p, h, wire) BY <1>2, <1>3, <1>5, <1>8, BecomesTyped
<1> QED BY <1>4, <1>6, <1>7, <1>8

LEMMA ReceiveRawIInv ==
    ASSUME IInv, NEW p \in Peer, ReceiveRaw(p)
    PROVE  IInv'
<1> DEFINE q == Other(p)
           m == Head(wire[q])
           k == IF m.type = "raw" THEN m.key ELSE <<q, 0>>
           h == IF hs[p].age = 0 THEN NewLocalKey(hs[p], p) ELSE hs[p]
<1>1. q \in Peer /\ wire[q] # <<>> BY OtherPeer DEF ReceiveRaw
<1>2. PICK enough \in BOOLEAN :
        /\ h.age < MaxAge /\ (enough => h.payload /\ h.age + 1 < MaxAge)
        /\ Becomes(p, GrowRemoteKey0(h, p, k, enough), Taken(q))
    BY DEF ReceiveRaw
<1>3. k \in Key
    <2>1. m \in Sent BY <1>1, WireTyped
    <2>2. m.type = "raw" => m.key \in Key BY <2>1 DEF Sent
    <2>3. <<q, 0>> \in Key BY <1>1, BoundsAssumption DEF Key
    <2> QED BY <2>2, <2>3
<1>4. Typed(h) /\ h.waiting = hs[p].waiting /\ h.age > 0
    <2>1. Typed(hs[p]) /\ hs[p].age \in 0..MaxAge BY DEF IInv, Typed, Plain
    <2>2. CASE hs[p].age = 0
        <3>1. hs[p].age < MaxAge BY <2>2, BoundsAssumption
        <3>2. h = NewLocalKey(hs[p], p) BY <2>2
        <3> HIDE DEF h
        <3> QED BY <2>1, <2>2, <3>1, <3>2, NewKeyTyped DEF SameReader
    <2>3. CASE hs[p].age # 0 BY <2>1, <2>3
    <2> QED BY <2>2, <2>3
<1> DEFINE g == GrowRemoteKey0(h, p, k, enough)
<1> HIDE DEF h, k
<1>5. Typed(g) /\ g.waiting = h.waiting BY <1>2, <1>3, <1>4, GrowRemote0Typed
<1>6. g.waiting + hs[Other(p)].waiting <= MaxWaiting BY <1>4, <1>5 DEF IInv
<1> HIDE DEF g
<1>7. DOMAIN Taken(q) = Peer /\ \A r \in Peer : Taken(q)[r] \in Seq(Sent) BY <1>1, WireTyped
<1> HIDE DEF q
<1> QED BY <1>2, <1>5, <1>6, <1>7, BecomesTyped DEF g

LEMMA ReceiveIInv ==
    ASSUME IInv, NEW p \in Peer, Receive(p)
    PROVE  IInv'
<1> DEFINE q == Other(p)
           m == Head(wire[q])
           h == hs[p]
           d == Deciphered(h, m)
<1>1. q \in Peer /\ wire[q] # <<>> BY OtherPeer DEF Receive
<1>2. h.begun /\ (h.bad \/ h.in.log # <<>>) BY DEF Receive
<1>3. PICK g \in Outcomes(p, m) : Becomes(p, g, Taken(q)) BY DEF Receive
<1>4. g = h \/ g = [h EXCEPT !.bad = TRUE] \/ (~h.bad /\ m.under = h.in /\ g = InputComing(d, m))
    BY <1>3 DEF Outcomes, Opened
<1>5. m \in Sent /\ DOMAIN Taken(q) = Peer /\ \A r \in Peer : Taken(q)[r] \in Seq(Sent)
    BY <1>1, WireTyped
<1>6. Typed(h) /\ h.waiting \in Nat /\ h.waiting + hs[q].waiting <= MaxWaiting
      /\ hs[q].waiting \in Nat
    BY <1>1 DEF IInv, Typed, Plain
<1> HIDE DEF h, m
<1>7. Typed(g) /\ g.waiting \in Nat /\ g.waiting <= h.waiting
    <2>1. CASE g = h BY <2>1, <1>6
    <2>2. CASE g = [h EXCEPT !.bad = TRUE] BY <2>2, <1>6 DEF Typed, Plain, Fields
    <2>3. CASE ~h.bad /\ m.under = h.in /\ g = InputComing(d, m)
        <3>1. h.in.log # <<>> /\ h.remote # NoKey BY <1>2, <1>6, <2>3 DEF Typed
        <3>2. m.type # "raw" BY <1>5, <2>3, <3>1 DEF Sent, NoSecret
        <3>3. Typed(d) /\ d.waiting <= h.waiting /\ d.remote # NoKey
            BY <1>2, <1>5, <1>6, <3>1, <3>2, DecipheredTyped
        <3>4. g = InputComing(d, m) BY <2>3
        <3> HIDE DEF d
        <3>5. Typed(g) /\ g.waiting = d.waiting
            BY <3>2, <3>3, <3>4, <1>5, InputComingTyped
        <3> QED BY <3>3, <3>5 DEF Typed, Plain
    <2> QED BY <1>4, <2>1, <2>2, <2>3
<1>8. g.waiting + hs[Other(p)].waiting <= MaxWaiting BY <1>6, <1>7, SessionsAssumption
<1> HIDE DEF q
<1> QED BY <1>3, <1>5, <1>7, <1>8, BecomesTyped

LEMMA NextIInv == IInv /\ [Next]_vars => IInv'
<1> SUFFICES ASSUME IInv, [Next]_vars PROVE IInv' OBVIOUS
<1>1. CASE \E p \in Peer : Begin(p) BY <1>1, BeginIInv
<1>2. CASE \E p \in Peer : Ask(p) BY <1>2, AskIInv
<1>3. CASE \E p \in Peer : Payload(p) BY <1>3, PayloadIInv
<1>4. CASE \E p \in Peer : ReceiveRaw(p) BY <1>4, ReceiveRawIInv
<1>5. CASE \E p \in Peer : Receive(p) BY <1>5, ReceiveIInv
<1>6. CASE Reconnect BY <1>6, ReconnectIInv
<1>7. CASE UNCHANGED vars BY <1>7 DEF vars, IInv
<1> QED BY <1>1, <1>2, <1>3, <1>4, <1>5, <1>6, <1>7 DEF Next

-----------------------------------------------------------------------------
(* The theorems.                                                           *)

LEMMA InvariantHolds == Spec => []IInv
<1> QED BY InitIInv, NextIInv, PTL DEF Spec

\* Without part of a message of an earlier session a message is read as it is.
LEMMA WholeRead ==
    ASSUME ~Midway, IInv, NEW p \in Peer, Receive(p), NEW h, h = hs[p],
           NEW m, m = Head(wire[Other(p)])
    PROVE  Becomes(p, IF h.bad THEN h
                      ELSE IF m.under # h.in THEN [h EXCEPT !.bad = TRUE]
                      ELSE InputComing(Deciphered(h, m), m), Taken(Other(p)))
<1>1. p \notin torn BY DEF IInv
<1>2. PICK g \in Outcomes(p, m) : Becomes(p, g, Taken(Other(p))) BY DEF Receive
<1>3. h.bad \in BOOLEAN BY DEF IInv, Typed, Plain
<1>4. g = IF h.bad THEN h ELSE IF m.under # h.in THEN [h EXCEPT !.bad = TRUE]
                               ELSE InputComing(Deciphered(h, m), m)
    BY <1>1, <1>2, <1>3 DEF Outcomes, Opened
<1> QED BY <1>2, <1>4

\* The state of both ends keeps its types in every session: no message that
\* deciphers leaves a Symmetric without a key that is needed for it
\* (crypto/handshake.cpp).
THEOREM TypeCorrect == Spec => []TypeOK
<1>1. IInv => TypeOK
    <2> SUFFICES ASSUME IInv PROVE TypeOK OBVIOUS
    <2> SUFFICES ASSUME NEW p \in Peer
                 PROVE  /\ \A i \in 1..Len(hs[p].local) : hs[p].local[i] \in Key
                        /\ hs[p].age \in 0..MaxAge /\ hs[p].given \in 0..MaxPayload
                        /\ hs[p].waiting \in 0..MaxWaiting /\ session \in 1..Sessions
                        /\ {hs[p].remote, hs[p].authRemote} \subseteq Key \cup {NoKey}
                        /\ \A s \in {hs[p].in, hs[p].out} :
                              s.nonce \in Nat /\ \A i \in 1..Len(s.log) : s.log[i] \in Mixing
                        /\ {hs[p].begun, hs[p].markerSent, hs[p].markerSeen, hs[p].allowed,
                             hs[p].payload, hs[p].initiated, hs[p].authentificated,
                             hs[p].got, hs[p].bad} \subseteq BOOLEAN
                        /\ hs[p].sent = <<>> /\ torn \subseteq Peer
        BY DEF TypeOK
    <2>1. Typed(hs[p]) /\ hs[p].sent = <<>> /\ torn \subseteq Peer BY DEF IInv
    <2>2. hs[p].local \in Seq(Key) BY <2>1 DEF Typed, Plain
    <2>3. \A s \in {hs[p].in, hs[p].out} : s.nonce \in Nat /\ s.log \in Seq(Mixing)
        BY <2>1 DEF Typed, Plain, Symmetric
    <2>4. hs[p].waiting \in 0..MaxWaiting
        <3>1. hs[p].waiting \in Nat /\ hs[Other(p)].waiting \in Nat
              /\ hs[p].waiting + hs[Other(p)].waiting <= MaxWaiting
            BY OtherPeer DEF IInv, Typed, Plain
        <3> QED BY <3>1, SessionsAssumption
    <2>5. /\ hs[p].age \in 0..MaxAge /\ hs[p].given \in 0..MaxPayload /\ session \in 1..Sessions
          /\ {hs[p].remote, hs[p].authRemote} \subseteq Key \cup {NoKey}
        BY <2>1 DEF IInv, Typed, Plain
    <2>6. {hs[p].begun, hs[p].markerSent, hs[p].markerSeen, hs[p].allowed,
           hs[p].payload, hs[p].initiated, hs[p].authentificated,
           hs[p].got, hs[p].bad} \subseteq BOOLEAN
        BY <2>1 DEF Typed, Plain
    <2>7. \A i \in 1..Len(hs[p].local) : hs[p].local[i] \in Key BY <2>2, ElementOfSeq
    <2>8. \A s \in {hs[p].in, hs[p].out} :
            s.nonce \in Nat /\ \A i \in 1..Len(s.log) : s.log[i] \in Mixing
        BY <2>3, ElementOfSeq
    <2> QED BY <2>1, <2>4, <2>5, <2>6, <2>7, <2>8
<1> QED BY <1>1, InvariantHolds, PTL

\* Whoever asked for the key of the peer before there was a handshake has his
\* answer once the peer is authentificated, however many transports were lost on
\* the way there (Protocol::handshakeAuthentificated).
THEOREM WaitersAlwaysAnswered == Spec => []WaitersAnswered
<1>1. IInv => WaitersAnswered BY DEF IInv, Typed, Plain, WaitersAnswered
<1> QED BY <1>1, InvariantHolds, PTL

-----------------------------------------------------------------------------
(* The order of the messages.                                              *)

\* The static key of the peer came in.
Known(r) == r.initiated \/ r.authentificated

\* Before the place i of l there is a message of the type.
Before(l, i, type) == \E j \in 1..(i - 1) : l[j].type = type

\* r reads l of q, who has put out age keys.  The first key comes first, then
\* the static key, before the marker, before any payload; or r has handled it
\* already, or gave up.
InOrder(r, l, q) ==
    /\ \A i \in 1..Len(l) :
        /\ l[i].type = "raw" => i = 1 /\ r.in.log = <<>>
        /\ l[i].type = "skey" => l[i].key = Static(q) /\ ~Known(r)
        /\ l[i].type = "marker" => r.bad \/ Known(r) \/ Before(l, i, "skey")
        /\ l[i].type = "payload" => r.bad \/ r.markerSeen \/ Before(l, i, "marker")
    /\ \A i, j \in 1..Len(l) : l[i].type = "skey" /\ l[j].type = "skey" => i = j
    /\ l # <<>> /\ r.in.log = <<>> /\ ~r.bad => l[1].type = "raw"

\* What r has handled or will find in l, by what q has put out.
Complete(r, age, allowed, l) ==
    /\ age = 0 => l = <<>> /\ r.in.log = <<>>
    /\ age > 0 /\ r.in.log = <<>> /\ ~r.bad => l # <<>>
    /\ age < 2 => ~Known(r) /\ ~Before(l, Len(l) + 1, "skey")
    /\ age >= 2 => r.bad \/ Known(r) \/ Before(l, Len(l) + 1, "skey")
    /\ allowed => r.bad \/ r.markerSeen \/ Before(l, Len(l) + 1, "marker")

\* The direction from h, which is q, to r, when w was put out before this step.
Ordered(r, h, w, q) ==
    /\ InOrder(r, w \o h.sent, q)
    /\ Complete(r, h.age, h.allowed, w \o h.sent)

\* The secret made with the static key of the peer is in the log, and once the
\* peer is authentificated something was deciphered since.
Proven(h, p) ==
    /\ Known(h) =>
        /\ h.authRemote = Static(Other(p))
        /\ \E i \in 1..Len(h.in.log) :
            /\ h.in.log[i].what = "secret" /\ h.authRemote \in h.in.log[i].of
            /\ h.authentificated => i < Len(h.in.log) \/ h.in.nonce > 0
    /\ h.markerSeen => h.authentificated
    /\ h.got => h.markerSeen

Own(h, p) == Proven(h, p) /\ (h.allowed \/ h.markerSent => h.remote # NoKey)

OInv == \A p \in Peer : Own(hs[p], p) /\ Ordered(hs[Other(p)], hs[p], wire[p], p)

-----------------------------------------------------------------------------
(* Sequences of messages.                                                  *)

LEMMA StaticKey == \A p \in Peer : Static(p) \in Key
BY BoundsAssumption DEF Static, Key

LEMMA ConcatAppend ==
    ASSUME NEW w \in Seq(Sent), NEW s \in Seq(Sent), NEW m \in Sent
    PROVE  w \o s \in Seq(Sent) /\ w \o Append(s, m) = Append(w \o s, m)
<1>1. w \o s \in Seq(Sent) /\ Len(w \o s) = Len(w) + Len(s) BY ConcatProperties
<1>2. Append(s, m) \in Seq(Sent) /\ Len(Append(s, m)) = Len(s) + 1 BY AppendProperties
<1>3. w \o Append(s, m) \in Seq(Sent) /\ Len(w \o Append(s, m)) = Len(w) + Len(s) + 1
    BY <1>2, ConcatProperties
<1>4. Append(w \o s, m) \in Seq(Sent) /\ Len(Append(w \o s, m)) = Len(w) + Len(s) + 1
    BY <1>1, AppendProperties
<1>5. ASSUME NEW i \in 1..Len(w \o Append(s, m))
      PROVE  (w \o Append(s, m))[i] = Append(w \o s, m)[i]
    BY <1>1, <1>2, <1>3
<1> QED BY <1>3, <1>4, <1>5, SeqEqual

LEMMA AppendAt ==
    ASSUME NEW l \in Seq(Sent), NEW m \in Sent
    PROVE  /\ Append(l, m) \in Seq(Sent) /\ Len(Append(l, m)) = Len(l) + 1 /\ Len(l) \in Nat
           /\ \A i \in 1..Len(l) : Append(l, m)[i] = l[i]
           /\ Append(l, m)[Len(l) + 1] = m /\ Append(l, m) # <<>>
           /\ l = <<>> => Len(l) = 0
BY AppendProperties, LenProperties

\* What is before a place stays before it, and the new message is the last.
LEMMA AppendBefore ==
    ASSUME NEW l \in Seq(Sent), NEW m \in Sent, NEW t
    PROVE  /\ \A i \in 1..(Len(l) + 1) : Before(Append(l, m), i, t) <=> Before(l, i, t)
           /\ Before(Append(l, m), Len(l) + 2, t) <=> Before(l, Len(l) + 1, t) \/ m.type = t
<1> DEFINE k == Append(l, m)
<1>1. Len(l) \in Nat /\ (\A i \in 1..Len(l) : k[i] = l[i]) /\ k[Len(l) + 1] = m BY AppendAt
<1> HIDE DEF k
<1>2. ASSUME NEW i \in 1..(Len(l) + 1) PROVE Before(k, i, t) <=> Before(l, i, t)
    BY <1>1 DEF Before
<1>3. Before(k, Len(l) + 2, t) <=> Before(l, Len(l) + 1, t) \/ m.type = t
    BY <1>1 DEF Before
<1> QED BY <1>2, <1>3 DEF k

\* Which message may be put out next.
May(r, l, q, m) ==
    /\ m.type = "raw" => l = <<>> /\ r.in.log = <<>>
    /\ m.type = "skey" => m.key = Static(q) /\ ~Known(r) /\ ~Before(l, Len(l) + 1, "skey")
    /\ m.type = "marker" => r.bad \/ Known(r) \/ Before(l, Len(l) + 1, "skey")
    /\ m.type = "payload" => r.bad \/ r.markerSeen \/ Before(l, Len(l) + 1, "marker")
    /\ m.type # "raw" /\ r.in.log = <<>> /\ ~r.bad => l # <<>>

LEMMA AppendInOrder ==
    ASSUME NEW r, NEW q, NEW l \in Seq(Sent), NEW m \in Sent, InOrder(r, l, q), May(r, l, q, m)
    PROVE  InOrder(r, Append(l, m), q)
<1> DEFINE k == Append(l, m)
           n == Len(l)
<1>1. /\ n \in Nat /\ Len(k) = n + 1 /\ (\A i \in 1..n : k[i] = l[i]) /\ k[n + 1] = m
      /\ (l = <<>> => n = 0)
    BY AppendAt
<1>2. \A i \in 1..(n + 1), t \in {"skey", "marker"} : Before(k, i, t) <=> Before(l, i, t)
    BY AppendBefore
<1> HIDE DEF k
<1>3. ASSUME NEW i \in 1..Len(k)
      PROVE  /\ k[i].type = "raw" => i = 1 /\ r.in.log = <<>>
             /\ k[i].type = "skey" => k[i].key = Static(q) /\ ~Known(r)
             /\ k[i].type = "marker" => r.bad \/ Known(r) \/ Before(k, i, "skey")
             /\ k[i].type = "payload" => r.bad \/ r.markerSeen \/ Before(k, i, "marker")
    <2>1. i \in 1..(n + 1) BY <1>1
    <2>2. CASE i = n + 1
        <3>1. k[i] = m BY <2>2, <1>1
        <3>2. \A t \in {"skey", "marker"} : Before(k, i, t) <=> Before(l, n + 1, t)
            BY <1>1, <1>2, <2>2
        <3> QED BY <3>1, <3>2, <2>2, <1>1 DEF May
    <2>3. CASE i \in 1..n
        <3>1. k[i] = l[i] BY <2>3, <1>1
        <3>2. \A t \in {"skey", "marker"} : Before(k, i, t) <=> Before(l, i, t)
            BY <1>2, <2>1
        <3> QED BY <3>1, <3>2, <2>3 DEF InOrder
    <2> QED BY <2>1, <2>2, <2>3, <1>1
<1>4. ASSUME NEW i \in 1..Len(k), NEW j \in 1..Len(k), k[i].type = "skey", k[j].type = "skey"
      PROVE  i = j
    <2>1. ASSUME m.type = "skey", NEW a \in 1..n PROVE l[a].type # "skey"
        BY <2>1, <1>1 DEF May, Before
    <2>2. CASE i \in 1..n /\ j \in 1..n BY <2>2, <1>1, <1>4 DEF InOrder
    <2>3. CASE i \in 1..n /\ j = n + 1 BY <2>1, <2>3, <1>1, <1>4
    <2>4. CASE i = n + 1 /\ j \in 1..n BY <2>1, <2>4, <1>1, <1>4
    <2>5. CASE i = n + 1 /\ j = n + 1 BY <2>5
    <2> QED BY <2>2, <2>3, <2>4, <2>5, <1>1
<1>5. r.in.log = <<>> /\ ~r.bad => k[1].type = "raw"
    <2>1. CASE l = <<>> BY <2>1, <1>1 DEF May
    <2>2. CASE l # <<>>
        <3>1. 1 \in 1..n BY <2>2, <1>1, EmptySeq
        <3> QED BY <3>1, <2>2, <1>1 DEF InOrder
    <2> QED BY <2>1, <2>2
<1> QED BY <1>3, <1>4, <1>5 DEF InOrder, k

\* What reading the first message may change of the reader.
Reads(r, s, m) ==
    /\ s.in.log = <<>> => s.bad
    /\ r.bad => s.bad
    /\ r.markerSeen => s.markerSeen
    /\ m.type = "marker" => s.bad \/ s.markerSeen
    /\ m.type = "skey" => s.bad \/ Known(s)
    /\ Known(r) => Known(s)
    /\ m.type # "skey" => (Known(s) => Known(r))

LEMMA TailBefore ==
    ASSUME NEW l \in Seq(Sent), l # <<>>, NEW t, NEW i \in 1..Len(l), Before(l, i + 1, t)
    PROVE  Head(l).type = t \/ Before(Tail(l), i, t)
<1>1. Len(l) \in Nat /\ Len(Tail(l)) = Len(l) - 1 /\ \A j \in 1..Len(Tail(l)) : Tail(l)[j] = l[j + 1]
    BY HeadTailProperties, LenProperties
<1>2. PICK j \in 1..i : l[j].type = t BY <1>1 DEF Before
<1>3. CASE j = 1
    <2>1. Head(l) = l[1] OBVIOUS
    <2> QED BY <2>1, <1>2, <1>3
<1>4. CASE j # 1
    <2>1. j - 1 \in 1..(i - 1) /\ j - 1 \in 1..Len(Tail(l)) BY <1>1, <1>4
    <2>2. Tail(l)[j - 1] = l[j] BY <1>1, <2>1
    <2> QED BY <2>1, <2>2, <1>2 DEF Before
<1> QED BY <1>3, <1>4

LEMMA TailInOrder ==
    ASSUME NEW r, NEW s, NEW q, NEW l \in Seq(Sent), l # <<>>, NEW age \in Nat,
           NEW allowed \in BOOLEAN, InOrder(r, l, q), Complete(r, age, allowed, l),
           Reads(r, s, Head(l))
    PROVE  InOrder(s, Tail(l), q) /\ Complete(s, age, allowed, Tail(l))
<1> DEFINE k == Tail(l)
           n == Len(k)
<1>1. /\ n \in Nat /\ Len(l) = n + 1 /\ k \in Seq(Sent)
      /\ (\A i \in 1..n : k[i] = l[i + 1] /\ i + 1 \in 1..Len(l))
    BY HeadTailProperties, LenProperties
<1>2. Head(l) = l[1] /\ 1 \in 1..Len(l) BY <1>1
<1>3. \A i \in 1..(n + 1), t \in {"skey", "marker"} :
        Before(l, i + 1, t) => Head(l).type = t \/ Before(k, i, t)
    BY <1>1, TailBefore
<1> HIDE DEF k
<1>4. \A i \in 1..n : k[i].type = "skey" => Head(l).type # "skey"
    BY <1>1, <1>2 DEF InOrder
<1>5. ASSUME NEW i \in 1..n
      PROVE  /\ k[i].type # "raw"
             /\ k[i].type = "skey" => k[i].key = Static(q) /\ ~Known(s)
             /\ k[i].type = "marker" => s.bad \/ Known(s) \/ Before(k, i, "skey")
             /\ k[i].type = "payload" => s.bad \/ s.markerSeen \/ Before(k, i, "marker")
    <2>1. k[i] = l[i + 1] /\ i + 1 \in 1..Len(l) /\ i + 1 # 1 BY <1>1
    <2>2. k[i].type # "raw" BY <2>1 DEF InOrder
    <2>3. k[i].type = "skey" => k[i].key = Static(q) /\ ~Known(s)
        BY <2>1, <1>4 DEF InOrder, Reads
    <2>4. k[i].type = "marker" => r.bad \/ Known(r) \/ Before(l, i + 1, "skey")
        BY <2>1 DEF InOrder
    <2>5. k[i].type = "payload" => r.bad \/ r.markerSeen \/ Before(l, i + 1, "marker")
        BY <2>1 DEF InOrder
    <2>6. \A t \in {"skey", "marker"} : Before(l, i + 1, t) => Head(l).type = t \/ Before(k, i, t)
        BY <1>1, <1>3
    <2> QED BY <2>2, <2>3, <2>4, <2>5, <2>6 DEF Reads
<1>6. \A i, j \in 1..n : k[i].type = "skey" /\ k[j].type = "skey" => i = j
    <2> TAKE i, j \in 1..n
    <2>1. k[i] = l[i + 1] /\ k[j] = l[j + 1] /\ i + 1 \in 1..Len(l) /\ j + 1 \in 1..Len(l) BY <1>1
    <2>2. k[i].type = "skey" /\ k[j].type = "skey" => i + 1 = j + 1 BY <2>1 DEF InOrder
    <2> QED BY <2>2
<1>7. InOrder(s, k, q) BY <1>5, <1>6 DEF InOrder, Reads
<1>8. age # 0 BY DEF Complete
<1>9. \A t \in {"skey", "marker"} :
        Before(l, Len(l) + 1, t) => Head(l).type = t \/ Before(k, n + 1, t)
    BY <1>1, <1>3
<1>10. allowed => s.bad \/ s.markerSeen \/ Before(k, n + 1, "marker")
    BY <1>9 DEF Complete, Reads
<1>11. age >= 2 => s.bad \/ Known(s) \/ Before(k, n + 1, "skey")
    BY <1>9 DEF Complete, Reads
<1>12. age < 2 => ~Known(s) /\ ~Before(k, n + 1, "skey")
    <2>1. SUFFICES ASSUME age < 2 PROVE ~Known(s) /\ ~Before(k, n + 1, "skey") OBVIOUS
    <2>2. \A i \in 1..Len(l) : l[i].type # "skey" BY <2>1, <1>1 DEF Complete, Before
    <2>3. \A i \in 1..n : k[i].type # "skey" BY <2>2, <1>1
    <2>4. ~Known(s) BY <2>1, <2>2, <1>2 DEF Complete, Reads
    <2> QED BY <2>3, <2>4, <1>1 DEF Before
<1>13. Complete(s, age, allowed, k)
    BY <1>8, <1>10, <1>11, <1>12 DEF Complete, Reads
<1> QED BY <1>7, <1>13 DEF k

-----------------------------------------------------------------------------
(* What puts something out.                                                *)

LEMMA AppendComplete ==
    ASSUME NEW r, NEW l \in Seq(Sent), NEW m \in Sent, NEW allowed \in BOOLEAN,
           NEW a \in Nat, NEW b \in Nat, a <= b, b > 0, Complete(r, a, allowed, l),
           b < 2 => m.type # "skey", a < 2 /\ b >= 2 => m.type = "skey"
    PROVE  Complete(r, b, allowed, Append(l, m))
<1> DEFINE k == Append(l, m)
<1>1. Len(k) = Len(l) + 1 /\ k # <<>> /\ Len(l) \in Nat BY AppendAt
<1>2. \A t \in {"skey", "marker"} :
        Before(k, Len(k) + 1, t) <=> Before(l, Len(l) + 1, t) \/ m.type = t
    <2>1. Len(k) + 1 = Len(l) + 2 BY <1>1
    <2> HIDE DEF k
    <2>2. ASSUME NEW t \in {"skey", "marker"}
          PROVE  Before(k, Len(l) + 2, t) <=> Before(l, Len(l) + 1, t) \/ m.type = t
        BY AppendBefore DEF k
    <2> QED BY <2>1, <2>2
<1> HIDE DEF k
<1>3. b < 2 => ~Known(r) /\ ~Before(k, Len(k) + 1, "skey") BY <1>2 DEF Complete
<1>4. b >= 2 => r.bad \/ Known(r) \/ Before(k, Len(k) + 1, "skey") BY <1>2 DEF Complete
<1>5. allowed => r.bad \/ r.markerSeen \/ Before(k, Len(k) + 1, "marker") BY <1>2 DEF Complete
<1>6. Complete(r, b, allowed, k) BY <1>1, <1>3, <1>4, <1>5 DEF Complete
<1> QED BY <1>6 DEF k

\* h puts out m and is then g.
LEMMA PutOut ==
    ASSUME NEW r, NEW h, Typed(h), NEW g, NEW w \in Seq(Sent), NEW q, Ordered(r, h, w, q),
           NEW m \in Sent, g.sent = Append(h.sent, m), May(r, w \o h.sent, q, m),
           g.allowed = h.allowed, g.age \in Nat, h.age <= g.age, g.age > 0,
           g.age < 2 => m.type # "skey", h.age < 2 /\ g.age >= 2 => m.type = "skey"
    PROVE  Ordered(r, g, w, q)
<1>1. /\ w \o h.sent \in Seq(Sent) /\ w \o g.sent = Append(w \o h.sent, m)
      /\ h.age \in Nat /\ h.allowed \in BOOLEAN
    <2>1. h.sent \in Seq(Sent) /\ h.age \in Nat /\ h.allowed \in BOOLEAN
        BY BoundsAssumption DEF Typed, Plain
    <2>2. w \o h.sent \in Seq(Sent) /\ w \o Append(h.sent, m) = Append(w \o h.sent, m)
        BY ONLY <2>1, ConcatAppend, w \in Seq(Sent), m \in Sent
    <2> QED BY <2>1, <2>2
<1>2. InOrder(r, w \o g.sent, q) BY <1>1, AppendInOrder DEF Ordered
<1>3. Complete(r, g.age, h.allowed, w \o g.sent) BY <1>1, AppendComplete DEF Ordered
<1> QED BY <1>2, <1>3 DEF Ordered

\* The marker is on its way or has come in.
Marked(r, h, w) == r.bad \/ r.markerSeen \/ Before(w \o h.sent, Len(w \o h.sent) + 1, "marker")

LEMMA NewKeyOrdered ==
    ASSUME NEW r, NEW h, Typed(h), NEW w \in Seq(Sent), NEW p \in Peer,
           h.age < MaxAge, Ordered(r, h, w, p)
    PROVE  Ordered(r, NewLocalKey(h, p), w, p)
<1> DEFINE g == NewLocalKey(h, p)
           l == w \o h.sent
<1>1. g.age = h.age + 1 /\ g.allowed = h.allowed /\ h.age \in Nat
    BY NewKeyTyped, BoundsAssumption DEF Typed, Plain
<1>2. PICK m \in Sent :
        /\ g.sent = Append(h.sent, m) /\ m.key = <<p, g.age>>
        /\ m.type = IF g.age = 1 THEN "raw" ELSE IF g.age = 2 THEN "skey" ELSE "ekey"
    BY NewKeyTyped
<1>3. Complete(r, h.age, h.allowed, l) BY DEF Ordered
<1> HIDE DEF g, l
<1>4. May(r, l, p, m)
    <2>1. CASE g.age = 1 BY <2>1, <1>1, <1>2, <1>3 DEF Complete, May
    <2>2. CASE g.age = 2 BY <2>2, <1>1, <1>2, <1>3 DEF Complete, May, Static
    <2>3. CASE g.age > 2 BY <2>3, <1>1, <1>2, <1>3 DEF Complete, May
    <2> QED BY <2>1, <2>2, <2>3, <1>1
<1>5. g.age < 2 => m.type # "skey" BY <1>1, <1>2
<1>6. h.age < 2 /\ g.age >= 2 => m.type = "skey" BY <1>1, <1>2
<1>7. g.age \in Nat /\ h.age <= g.age /\ g.age > 0 BY <1>1
<1>8. May(r, w \o h.sent, p, m) BY <1>4 DEF l
<1>9. Ordered(r, g, w, p) BY <1>1, <1>2, <1>5, <1>6, <1>7, <1>8, PutOut
<1> QED BY <1>9 DEF g

\* A message that is neither a first nor a static key, from who has put out a key.
LEMMA UrgentOrdered ==
    ASSUME NEW r, NEW h, Typed(h), NEW g, NEW w \in Seq(Sent), NEW p \in Peer, h.age > 0,
           Ordered(r, h, w, p), NEW m \in Sent, g.sent = Append(h.sent, m), g.age = h.age,
           g.allowed = h.allowed, m.type \in {"applied", "marker", "payload"},
           m.type = "marker" => h.age >= 2, m.type = "payload" => h.allowed
    PROVE  Ordered(r, g, w, p) /\ (m.type = "marker" => Marked(r, g, w))
<1> DEFINE l == w \o h.sent
<1>1. Complete(r, h.age, h.allowed, l) /\ h.age \in Nat
    BY BoundsAssumption DEF Ordered, Typed, Plain
<1> HIDE DEF l
<1>2. May(r, l, p, m) BY <1>1 DEF Complete, May
<1>3. Ordered(r, g, w, p) BY <1>1, <1>2, PutOut DEF l
<1>4. l \in Seq(Sent) /\ w \o g.sent = Append(l, m) BY ConcatAppend DEF Typed, Plain, l
<1>5. Len(Append(l, m)) + 1 = Len(l) + 2 BY <1>4, AppendAt
<1>6. m.type = "marker" => Before(Append(l, m), Len(l) + 2, "marker") BY <1>4, AppendBefore
<1> QED BY <1>3, <1>4, <1>5, <1>6 DEF Marked

\* Nothing of what Ordered speaks of is changed.
LEMMA OrderedSame ==
    ASSUME NEW r, NEW h, NEW g, NEW w, NEW q, Ordered(r, h, w, q),
           g.sent = h.sent, g.age = h.age, g.allowed = h.allowed
    PROVE  Ordered(r, g, w, q)
BY DEF Ordered

LEMMA GrowLocalOrdered ==
    ASSUME NEW r, NEW h, Typed(h), NEW w \in Seq(Sent), NEW p \in Peer, h.age < MaxAge,
           h.remote # NoKey, Ordered(r, h, w, p)
    PROVE  LET g == GrowLocalKey(h, p)
           IN  Ordered(r, g, w, p) /\ (~h.markerSent => Marked(r, g, w))
<1> DEFINE n == NewLocalKey(h, p)
           g == GrowLocalKey(h, p)
<1>1. /\ Typed(n) /\ n.age = h.age + 1 /\ n.allowed = h.allowed /\ n.age >= 2
      /\ Ordered(r, n, w, p)
    <2>1. Ordered(r, n, w, p) BY NewKeyOrdered
    <2>2. Typed(n) /\ n.age = h.age + 1 /\ n.allowed = h.allowed BY NewKeyTyped
    <2>3. h.age > 0 /\ h.age \in Nat BY BoundsAssumption DEF Typed, Plain
    <2> HIDE DEF n
    <2> QED BY <2>1, <2>2, <2>3
<1>2. g.age = h.age + 1 /\ g.allowed = h.allowed BY GrowLocalTyped
<1>3. CASE h.markerSent
    <2>1. g.sent = n.sent BY <1>3, GrowLocalTyped
    <2> HIDE DEF g, n
    <2> QED BY <2>1, <1>1, <1>2, <1>3, OrderedSame DEF g
<1>4. CASE ~h.markerSent
    <2>1. PICK m \in Sent : g.sent = Append(n.sent, m) /\ m.type = "marker"
        BY <1>4, GrowLocalTyped
    <2> HIDE DEF g, n
    <2>2. n.age > 0 /\ g.age = n.age /\ g.allowed = n.allowed
        BY <1>1, <1>2 DEF Typed, Plain
    <2>3. Ordered(r, g, w, p) /\ Marked(r, g, w)
        BY <2>1, <2>2, <1>1, UrgentOrdered
    <2> QED BY <2>3 DEF g
<1> QED BY <1>3, <1>4

LEMMA FlushOrdered ==
    ASSUME NEW r, NEW h, Typed(h), NEW w \in Seq(Sent), NEW p \in Peer, NEW enough \in BOOLEAN,
           enough => h.age < MaxAge, h.remote # NoKey, h.allowed, Ordered(r, h, w, p)
    PROVE  Ordered(r, FlushPayload(h, p, enough), w, p)
<1> DEFINE f == [Urgent(h, "payload", NoKey) EXCEPT !.payload = FALSE]
           g == FlushPayload(h, p, enough)
<1>1. Typed(f) /\ SameReader(f, h) /\ f.age = h.age /\ f.allowed = h.allowed
    BY PayloadTyped
<1>2. PICK m \in Sent : f.sent = Append(h.sent, m) /\ m.type = "payload" BY PayloadTyped
<1>3. g = IF enough THEN GrowLocalKey(f, p) ELSE f BY DEF FlushPayload
<1> HIDE DEF f, g
<1>4. h.age > 0 BY DEF Typed, Plain
<1>5. Ordered(r, f, w, p) BY <1>1, <1>2, <1>4, UrgentOrdered
<1>6. f.remote # NoKey BY <1>1 DEF SameReader
<1>7. enough => Ordered(r, GrowLocalKey(f, p), w, p) BY <1>1, <1>5, <1>6, GrowLocalOrdered
<1>8. Ordered(r, g, w, p) BY <1>3, <1>5, <1>7
<1> QED BY <1>8 DEF g

LEMMA AllowOrdered ==
    ASSUME NEW r, NEW h, Typed(h), NEW w \in Seq(Sent), NEW p \in Peer, NEW enough \in BOOLEAN,
           enough => h.age < MaxAge, h.remote # NoKey, Marked(r, h, w), Ordered(r, h, w, p)
    PROVE  Ordered(r, AllowPayload(h, p, enough), w, p)
<1> DEFINE f == [h EXCEPT !.allowed = TRUE]
           g == AllowPayload(h, p, enough)
<1>1. /\ DOMAIN f = Fields /\ SameReader(f, h) /\ f.age = h.age /\ f.local = h.local
      /\ f.allowed = TRUE /\ f.payload = h.payload /\ f.markerSent = h.markerSent
      /\ f.sent = h.sent /\ f.out = h.out
    BY DEF Typed, Plain, Fields, SameReader
<1>2. g = IF f.payload THEN FlushPayload(f, p, enough) ELSE f BY DEF AllowPayload
<1> HIDE DEF f, g
<1>3. Typed(f) /\ f.remote # NoKey BY <1>1 DEF Typed, Plain, SameReader
<1>4. Ordered(r, f, w, p) BY <1>1 DEF Ordered, Complete, Marked
<1>5. Ordered(r, FlushPayload(f, p, enough), w, p) BY <1>1, <1>3, <1>4, FlushOrdered
<1>6. Ordered(r, g, w, p) BY <1>2, <1>4, <1>5
<1> QED BY <1>6 DEF g

\* The static key and the marker follow the first key of the peer at once.
LEMMA GrowRemote0Ordered ==
    ASSUME NEW r, NEW h, Typed(h), NEW w \in Seq(Sent), NEW p \in Peer, NEW k \in Key,
           NEW enough \in BOOLEAN, h.age > 0, h.age < MaxAge, enough => h.age + 1 < MaxAge,
           ~h.markerSent, Ordered(r, h, w, p)
    PROVE  LET g == GrowRemoteKey0(h, p, k, enough)
           IN  Ordered(r, g, w, p) /\ g.remote # NoKey
<1> DEFINE f == [h EXCEPT !.remote = k]
           u == UpdateKeys(f)
           n == GrowLocalKey(u, p)
           g == GrowRemoteKey0(h, p, k, enough)
<1>1. /\ Plain(f) /\ f.remote = k /\ f.age = h.age /\ f.sent = h.sent
      /\ f.allowed = h.allowed /\ f.markerSent = h.markerSent
    BY DEF Typed, Plain, Fields
<1> HIDE DEF f
<1>2. /\ Typed(u) /\ u.remote = k /\ u.age = h.age /\ u.sent = h.sent
      /\ u.allowed = h.allowed /\ u.markerSent = h.markerSent
    BY <1>1, UpdateKeysTyped
<1> HIDE DEF u
<1>3. Ordered(r, u, w, p) /\ u.remote # NoKey BY <1>2, OrderedSame, KeyIsOne
<1>4. Typed(n) /\ SameReader(n, u) /\ n.age = u.age + 1 BY <1>2, GrowLocalTyped
<1>5. Ordered(r, n, w, p) /\ Marked(r, n, w) BY <1>2, <1>3, GrowLocalOrdered
<1>6. g = IF n.age = 2 THEN AllowPayload(n, p, enough) ELSE n BY DEF GrowRemoteKey0, f, u
<1> HIDE DEF n, g
<1>7. n.remote # NoKey BY <1>3, <1>4 DEF SameReader
<1>8. enough => n.age < MaxAge BY <1>2, <1>4
<1>9. /\ Ordered(r, AllowPayload(n, p, enough), w, p)
      /\ SameReader(AllowPayload(n, p, enough), n)
    BY <1>4, <1>5, <1>7, <1>8, AllowOrdered, AllowTyped
<1>10. Ordered(r, g, w, p) /\ g.remote # NoKey BY <1>5, <1>6, <1>7, <1>9 DEF SameReader
<1> QED BY <1>10 DEF g

-----------------------------------------------------------------------------
(* What reads something.                                                   *)

\* The first message in order that r may find, having its Symmetrics.
LEMMA FirstInOrder ==
    ASSUME NEW r, NEW q, NEW l \in Seq(Sent), l # <<>>, InOrder(r, l, q), ~r.bad, NEW m, m = Head(l)
    PROVE  /\ m.type = "skey" => m.key = Static(q) /\ ~Known(r)
           /\ m.type = "marker" => Known(r)
           /\ m.type = "payload" => r.markerSeen
<1>1. 1 \in 1..Len(l) /\ m = l[1] BY LenProperties, EmptySeq
<1>2. \A t : ~Before(l, 1, t) BY DEF Before
<1> QED BY <1>1, <1>2 DEF InOrder

\* Who has no Symmetric yet knows nothing.
LEMMA NothingKnown ==
    ASSUME NEW h, NEW p, Proven(h, p), h.in.log = <<>>
    PROVE  ~Known(h) /\ ~h.markerSeen /\ ~h.got
<1>1. Len(h.in.log) = 0 BY EmptySeq
<1> QED BY <1>1 DEF Proven, Known

\* The log has only grown at its end.
Grown(i, j) ==
    /\ Len(j.log) >= Len(i.log) /\ \A k \in 1..Len(i.log) : j.log[k] = i.log[k]
    /\ Len(j.log) > Len(i.log) \/ j.nonce > 0

LEMMA MixSecretGrown ==
    ASSUME NEW s \in Symmetric, NEW k \in Key, NEW l \in Key
    PROVE  Grown(s, MixSecret(s, k, l))
<1>1. Len(s.log) \in Nat BY LenProperties DEF Symmetric
<1>2. Len(MixSecret(s, k, l).log) = Len(s.log) + 1 BY MixSecretTyped
<1>3. \A i \in 1..Len(s.log) : MixSecret(s, k, l).log[i] = s.log[i] BY MixSecretTyped, Zenon
<1> QED BY <1>1, <1>2, <1>3 DEF Grown

LEMMA GrownProven ==
    ASSUME NEW h, NEW g, NEW p, Proven(h, p), g.in = h.in \/ Grown(h.in, g.in),
           Known(g) => Known(h), g.authRemote = h.authRemote,
           h.in.log \in Seq(Mixing), g.in.log \in Seq(Mixing), g.in.nonce \in Nat,
           g.authentificated => h.authentificated \/ Grown(h.in, g.in),
           g.markerSeen => g.authentificated, g.got => g.markerSeen
    PROVE  Proven(g, p)
<1> SUFFICES ASSUME Known(g)
             PROVE  /\ g.authRemote = Static(Other(p))
                    /\ \E i \in 1..Len(g.in.log) :
                        /\ g.in.log[i].what = "secret" /\ g.authRemote \in g.in.log[i].of
                        /\ g.authentificated => i < Len(g.in.log) \/ g.in.nonce > 0
    BY DEF Proven
<1>1. g.authRemote = Static(Other(p)) BY DEF Proven
<1>2. PICK i \in 1..Len(h.in.log) :
        /\ h.in.log[i].what = "secret" /\ h.authRemote \in h.in.log[i].of
        /\ h.authentificated => i < Len(h.in.log) \/ h.in.nonce > 0
    BY DEF Proven
<1>3. Len(h.in.log) \in Nat /\ Len(g.in.log) \in Nat BY LenProperties
<1>4. CASE Grown(h.in, g.in)
    <2>1. /\ i \in 1..Len(g.in.log) /\ g.in.log[i] = h.in.log[i]
          /\ i < Len(g.in.log) \/ g.in.nonce > 0
        BY <1>2, <1>3, <1>4 DEF Grown
    <2> QED BY <1>1, <1>2, <2>1
<1>5. CASE ~Grown(h.in, g.in)
    <2>1. g.in = h.in BY <1>5
    <2>2. g.authentificated => h.authentificated BY <1>5
    <2> QED BY <1>1, <1>2, <2>1, <2>2
<1> QED BY <1>4, <1>5

LEMMA DecipheredProven ==
    ASSUME NEW h, Typed(h), h.remote # NoKey, h.begun, NEW p \in Peer, Own(h, p),
           NEW m \in Sent, m.type # "raw"
    PROVE  LET d == Deciphered(h, m)
           IN  /\ Own(d, p) /\ d.in.nonce > 0 /\ (Known(d) <=> Known(h))
               /\ d.authentificated <=> Known(h)
<1> DEFINE d == Deciphered(h, m)
<1>1. /\ Typed(d) /\ d.markerSeen = h.markerSeen /\ d.remote = h.remote
      /\ d.authRemote = h.authRemote /\ d.got = h.got /\ d.in = Passed(h.in, m.type, m.key)
      /\ ~d.initiated /\ d.authentificated = (h.authentificated \/ h.initiated)
    BY DecipheredTyped
<1>2. m.type \in {"skey", "ekey", "marker", "applied", "payload"} /\ m.key \in Key \cup {NoKey}
    BY DEF Sent, Message
<1>3. h.in \in Symmetric /\ d.in \in Symmetric BY <1>1 DEF Typed, Plain
<1>4. /\ d.in.nonce = h.in.nonce + 1 /\ Len(d.in.log) >= Len(h.in.log)
      /\ \A i \in 1..Len(h.in.log) : d.in.log[i] = h.in.log[i]
    <2> DEFINE f == Passed(h.in, m.type, m.key)
    <2>1. /\ f.nonce = h.in.nonce + 1 /\ Len(f.log) >= Len(h.in.log)
          /\ \A i \in 1..Len(h.in.log) : f.log[i] = h.in.log[i]
        BY ONLY <1>2, <1>3, PassedTyped
    <2> HIDE DEF d, f
    <2>2. d.in = f BY <1>1 DEF f
    <2> QED BY <2>1, <2>2
<1> HIDE DEF d
<1>5. d.in.nonce > 0 /\ Grown(h.in, d.in) BY <1>3, <1>4 DEF Grown, Symmetric
<1>6. Known(d) <=> Known(h) BY <1>1 DEF Known
<1>7. d.authentificated <=> Known(h) BY <1>1 DEF Known
<1>8. /\ h.in.log \in Seq(Mixing) /\ d.in.log \in Seq(Mixing) /\ d.in.nonce \in Nat
    BY <1>3 DEF Symmetric
<1>9. (d.markerSeen => d.authentificated) /\ (d.got => d.markerSeen)
    BY <1>1 DEF Own, Proven
<1>10. Proven(d, p)
    BY <1>1, <1>5, <1>6, <1>8, <1>9, GrownProven DEF Own
<1>11. Own(d, p) BY <1>1, <1>10 DEF Own
<1> QED BY <1>5, <1>6, <1>7, <1>11 DEF d

\* A key of the peer.
LEMMA GrowRemoteOwn ==
    ASSUME NEW h, Typed(h), h.remote # NoKey, NEW k \in Key, NEW s \in BOOLEAN, NEW p \in Peer,
           Own(h, p), s => k = Static(Other(p)) /\ ~Known(h)
    PROVE  LET g == GrowRemoteKey(h, k, s)
           IN  Own(g, p) /\ (Known(g) <=> s \/ Known(h))
<1> DEFINE g == GrowRemoteKey(h, k, s)
<1>1. /\ Typed(g) /\ g.markerSeen = h.markerSeen
      /\ g.authentificated = h.authentificated /\ g.got = h.got
      /\ g.initiated = (s \/ h.initiated)
      /\ g.authRemote = (IF s THEN k ELSE h.authRemote) /\ g.remote = k
      /\ g.in = MixSecret(h.in, Head(h.local), k)
    BY GrowRemoteTyped
<1>2. h.in \in Symmetric /\ g.in \in Symmetric BY <1>1 DEF Typed, Plain
<1>3. Head(h.local) \in Key
    <2>1. h.local \in Seq(Key) /\ h.local # <<>> BY DEF Typed, Plain
    <2> QED BY <2>1, HeadTailProperties
<1>4. /\ Len(g.in.log) = Len(h.in.log) + 1
      /\ \A i \in 1..Len(h.in.log) : g.in.log[i] = h.in.log[i]
      /\ g.in.log[Len(h.in.log) + 1] = [what |-> "secret", of |-> {Head(h.local), k}]
    BY <1>1, <1>2, <1>3, MixSecretTyped
<1> HIDE DEF g
<1>5. /\ h.in.log \in Seq(Mixing) /\ g.in.log \in Seq(Mixing) /\ g.in.nonce \in Nat
      /\ Len(h.in.log) \in Nat
    BY <1>2, LenProperties DEF Symmetric
<1>6. Grown(h.in, g.in) BY <1>4, <1>5 DEF Grown
<1>7. Known(g) <=> s \/ Known(h) BY <1>1 DEF Known
<1>8. (g.markerSeen => g.authentificated) /\ (g.got => g.markerSeen)
    BY <1>1 DEF Own, Proven
<1>9. Proven(g, p)
    <2>1. CASE s
        <3>1. g.authRemote = Static(Other(p)) /\ ~g.authentificated /\ g.authRemote = k
            BY <2>1, <1>1 DEF Known
        <3>2. Len(h.in.log) + 1 \in 1..Len(g.in.log) BY <1>4, <1>5
        <3>3. g.in.log[Len(h.in.log) + 1].what = "secret"
              /\ k \in g.in.log[Len(h.in.log) + 1].of
            BY <1>4
        <3> QED BY <3>1, <3>2, <3>3, <1>8 DEF Proven
    <2>2. CASE ~s
        BY <2>2, <1>1, <1>5, <1>6, <1>7, <1>8, GrownProven DEF Own
    <2> QED BY <2>1, <2>2
<1>10. g.remote # NoKey BY <1>1, KeyIsOne
<1>11. Own(g, p) BY <1>9, <1>10 DEF Own
<1> QED BY <1>7, <1>11 DEF g

LEMMA CropOwn ==
    ASSUME NEW h, Typed(h), h.remote # NoKey, NEW p \in Peer, Own(h, p)
    PROVE  LET g == CropLocalKey(h)
           IN  /\ Own(g, p) /\ (Known(g) <=> Known(h))
               /\ g.markerSeen = h.markerSeen /\ g.age = h.age /\ g.allowed = h.allowed
               /\ g.sent = h.sent /\ g.remote = h.remote
<1> DEFINE g == CropLocalKey(h)
<1>1. /\ Typed(g) /\ g.markerSeen = h.markerSeen /\ g.remote = h.remote
      /\ g.initiated = h.initiated /\ g.authentificated = h.authentificated
      /\ g.authRemote = h.authRemote /\ g.got = h.got
      /\ g.age = h.age /\ g.allowed = h.allowed /\ g.sent = h.sent
    BY CropTyped
<1>2. g.in = h.in \/ \E k \in Key : g.in = MixSecret(h.in, k, h.remote) BY CropInput
<1> HIDE DEF g
<1>3. h.in \in Symmetric /\ g.in \in Symmetric /\ h.remote \in Key BY <1>1 DEF Typed, Plain
<1>4. /\ h.in.log \in Seq(Mixing) /\ g.in.log \in Seq(Mixing) /\ g.in.nonce \in Nat
      /\ Len(h.in.log) \in Nat
    BY <1>3, LenProperties DEF Symmetric
<1>5. g.in = h.in \/ Grown(h.in, g.in)
    <2>1. ASSUME NEW k \in Key, g.in = MixSecret(h.in, k, h.remote) PROVE Grown(h.in, g.in)
        <3>1. \A i \in Symmetric, l \in Key : Grown(i, MixSecret(i, k, l)) BY MixSecretGrown
        <3> QED BY <2>1, <1>3, <3>1, Zenon
    <2> QED BY <2>1, <1>2
<1>6. Known(g) <=> Known(h) BY <1>1 DEF Known
<1>7. (g.markerSeen => g.authentificated) /\ (g.got => g.markerSeen)
    BY <1>1 DEF Own, Proven
<1>8. Proven(g, p) BY <1>1, <1>4, <1>5, <1>6, <1>7, GrownProven DEF Own
<1>9. Own(g, p) BY <1>1, <1>8 DEF Own
<1> QED BY <1>1, <1>6, <1>9 DEF g

\* One message that deciphered, read by h of p and handled.
LEMMA ReadOrdered ==
    ASSUME NEW h, Typed(h), NEW p \in Peer, Own(h, p), h.begun, h.in.log # <<>>, ~h.bad,
           NEW l \in Seq(Sent), l # <<>>, InOrder(h, l, Other(p)), NEW m, m = Head(l),
           m.type # "raw", NEW r, NEW w \in Seq(Sent), Ordered(r, h, w, p)
    PROVE  LET g == InputComing(Deciphered(h, m), m)
           IN  Typed(g) /\ Own(g, p) /\ Reads(h, g, m) /\ Ordered(r, g, w, p)
<1> DEFINE d == Deciphered(h, m)
           g == InputComing(d, m)
<1>1. m \in Sent /\ h.remote # NoKey BY HeadTailProperties DEF Typed
<1>2. /\ m.type = "skey" => m.key = Static(Other(p)) /\ ~Known(h)
      /\ m.type = "marker" => Known(h)
      /\ m.type = "payload" => h.markerSeen
    BY FirstInOrder
<1>3. /\ Typed(d) /\ d.markerSeen = h.markerSeen /\ d.remote = h.remote
      /\ d.got = h.got /\ d.bad = h.bad /\ d.age = h.age /\ d.allowed = h.allowed
      /\ d.markerSent = h.markerSent /\ d.sent = h.sent
    BY <1>1, DecipheredTyped
<1>4. /\ Own(d, p) /\ (Known(d) <=> Known(h)) /\ (d.authentificated <=> Known(h))
    BY <1>1, DecipheredProven
<1>5. m.type \in {"skey", "ekey", "marker", "applied", "payload"}
      /\ (m.type \in {"skey", "ekey"} => m.key \in Key)
    BY <1>1 DEF Sent, Message
<1> HIDE DEF d
<1>6. Ordered(r, d, w, p) BY <1>3, OrderedSame
<1>7. d.remote # NoKey /\ d.age > 0 BY <1>1, <1>3 DEF Typed, Plain
<1>8. Typed(g) BY <1>1, <1>3, <1>7, InputComingTyped
<1>9. \A f : Typed(f) /\ f.remote # NoKey => f.in.log # <<>> BY DEF Typed
<1>10. ASSUME NEW s \in BOOLEAN, m.key \in Key, s => m.key = Static(Other(p)) /\ ~Known(d)
       PROVE  LET f == GrowRemoteKey(d, m.key, s)
              IN  /\ Own(f, p) /\ (Known(f) <=> s \/ Known(d)) /\ Ordered(r, f, w, p)
                  /\ f.in.log # <<>> /\ f.markerSeen = d.markerSeen
    <2> DEFINE f == GrowRemoteKey(d, m.key, s)
    <2>1. Own(f, p) /\ (Known(f) <=> s \/ Known(d))
        BY <1>3, <1>4, <1>7, <1>10, GrowRemoteOwn
    <2>2. f.markerSeen = d.markerSeen /\ f.age = d.age /\ f.allowed = d.allowed /\ f.in.log # <<>>
        BY <1>3, <1>7, <1>10, GrowRemoteTyped
    <2>3. \E a \in Sent : f.sent = Append(d.sent, a) /\ a.type = "applied"
        <3>1. Typed(d) /\ d.remote # NoKey BY <1>3, <1>7
        <3> QED BY <3>1, <1>10, GrowRemoteTyped, SMTT(60)
    <2> HIDE DEF f
    <2>4. PICK a \in Sent : f.sent = Append(d.sent, a) /\ a.type = "applied" BY <2>3
    <2>5. Ordered(r, f, w, p) BY <1>3, <1>6, <1>7, <2>2, <2>4, UrgentOrdered
    <2> QED BY <2>1, <2>2, <2>5 DEF f
<1>11. CASE m.type = "skey"
    <2>1. g = GrowRemoteKey(d, m.key, TRUE) BY <1>11 DEF InputComing
    <2>2. m.key \in Key /\ m.key = Static(Other(p)) /\ ~Known(d) BY <1>2, <1>4, <1>5, <1>11
    <2> DEFINE f == GrowRemoteKey(d, m.key, TRUE)
    <2>3. /\ Own(f, p) /\ Known(f) /\ Ordered(r, f, w, p) /\ f.in.log # <<>>
          /\ f.markerSeen = d.markerSeen
        BY <1>10, <2>2
    <2> HIDE DEF f, g
    <2>4. g = f BY <2>1 DEF f
    <2> QED BY <2>3, <2>4, <1>3, <1>8, <1>11 DEF Reads, g, d
<1>12. CASE m.type = "ekey"
    <2>1. g = GrowRemoteKey(d, m.key, FALSE) BY <1>12 DEF InputComing
    <2>2. m.key \in Key BY <1>5, <1>12
    <2> DEFINE f == GrowRemoteKey(d, m.key, FALSE)
    <2>3. /\ Own(f, p) /\ (Known(f) <=> Known(d)) /\ Ordered(r, f, w, p) /\ f.in.log # <<>>
          /\ f.markerSeen = d.markerSeen
        BY <1>10, <2>2
    <2> HIDE DEF f, g
    <2>4. g = f BY <2>1 DEF f
    <2> QED BY <2>3, <2>4, <1>3, <1>4, <1>8, <1>12 DEF Reads, g, d
<1>13. CASE m.type = "applied"
    <2>1. g = CropLocalKey(d) BY <1>13 DEF InputComing
    <2>2. /\ Own(g, p) /\ (Known(g) <=> Known(d))
          /\ g.markerSeen = d.markerSeen /\ g.age = d.age /\ g.allowed = d.allowed
          /\ g.sent = d.sent /\ g.remote = d.remote
        BY <2>1, <1>3, <1>4, <1>7, CropOwn
    <2> HIDE DEF g
    <2>3. Ordered(r, g, w, p) BY <2>2, <1>6, OrderedSame
    <2>4. g.in.log # <<>> BY <2>2, <1>7, <1>8, <1>9
    <2> QED BY <2>2, <2>3, <2>4, <1>3, <1>4, <1>8, <1>13 DEF Reads, g, d
<1>14. CASE m.type = "marker"
    <2>1. g = [d EXCEPT !.markerSeen = TRUE] BY <1>14 DEF InputComing
    <2>2. /\ g.markerSeen /\ g.age = d.age /\ g.allowed = d.allowed /\ g.sent = d.sent
          /\ g.remote = d.remote /\ g.in = d.in /\ g.initiated = d.initiated
          /\ g.authentificated = d.authentificated /\ g.authRemote = d.authRemote
          /\ g.got = d.got /\ g.markerSent = d.markerSent
        BY <2>1, <1>3 DEF Typed, Plain, Fields
    <2> HIDE DEF g
    <2>3. Ordered(r, g, w, p) BY <2>2, <1>6, OrderedSame
    <2>4. d.authentificated BY <1>2, <1>4, <1>14
    <2>5. Own(g, p) BY <2>2, <2>4, <1>4 DEF Own, Proven, Known
    <2>6. g.in.log # <<>> BY <2>2, <1>3, <1>7, <1>9
    <2>7. Known(g) <=> Known(d) BY <2>2 DEF Known
    <2> QED BY <2>2, <2>3, <2>5, <2>6, <2>7, <1>3, <1>4, <1>8, <1>14 DEF Reads, g, d
<1>15. CASE m.type = "payload"
    <2>1. g = [d EXCEPT !.got = TRUE] BY <1>15 DEF InputComing
    <2>2. /\ g.markerSeen = d.markerSeen /\ g.age = d.age /\ g.allowed = d.allowed
          /\ g.sent = d.sent
          /\ g.remote = d.remote /\ g.in = d.in /\ g.initiated = d.initiated
          /\ g.authentificated = d.authentificated /\ g.authRemote = d.authRemote
          /\ g.markerSent = d.markerSent
        BY <2>1, <1>3 DEF Typed, Plain, Fields
    <2> HIDE DEF g
    <2>3. Ordered(r, g, w, p) BY <2>2, <1>6, OrderedSame
    <2>4. g.markerSeen BY <2>2, <1>2, <1>3, <1>15
    <2>5. Own(g, p) BY <2>2, <2>4, <1>4 DEF Own, Proven, Known
    <2>6. g.in.log # <<>> BY <2>2, <1>3, <1>7, <1>9
    <2>7. Known(g) <=> Known(d) BY <2>2 DEF Known
    <2> QED BY <2>2, <2>3, <2>5, <2>6, <2>7, <1>3, <1>4, <1>8, <1>15 DEF Reads, g, d
<1> QED BY <1>5, <1>11, <1>12, <1>13, <1>14, <1>15

-----------------------------------------------------------------------------
(* The steps.                                                              *)

\* p is left with g, having read s of what the other had put out.
LEMMA BecomesOrdered ==
    ASSUME IInv, OInv, NEW p \in Peer, NEW g, Typed(g), NEW w, DOMAIN w = Peer,
           w[p] = wire[p], w[Other(p)] \in Seq(Sent), Becomes(p, g, w), Own(g, p),
           Ordered(hs[Other(p)], g, wire[p], p),
           InOrder(g, w[Other(p)], Other(p)),
           Complete(g, hs[Other(p)].age, hs[Other(p)].allowed, w[Other(p)])
    PROVE  OInv'
<1> DEFINE q == Other(p)
           f == [g EXCEPT !.sent = <<>>]
<1>1. q \in Peer /\ q # p /\ Other(q) = p /\ \A a \in Peer : a = p \/ a = q BY OtherPeer
<1>2. hs'[p] = f /\ hs'[q] = hs[q] /\ wire'[p] = wire[p] \o g.sent /\ wire'[q] = w[q]
    BY <1>1 DEF Becomes, IInv
<1>3. /\ f.sent = <<>> /\ f.in = g.in /\ f.bad = g.bad /\ f.initiated = g.initiated
      /\ f.authentificated = g.authentificated /\ f.markerSeen = g.markerSeen
      /\ f.age = g.age /\ f.allowed = g.allowed /\ f.authRemote = g.authRemote
      /\ f.got = g.got /\ f.remote = g.remote /\ f.markerSent = g.markerSent
    BY DEF Typed, Plain, Fields
<1> HIDE DEF f
<1>4. Own(f, p) BY <1>3 DEF Own, Proven, Known
<1>5. Own(hs[q], q) /\ hs[q].sent = <<>> BY <1>1 DEF OInv, IInv
<1>6. Ordered(hs[q], f, wire'[p], p)
    <2>1. wire[p] \o g.sent \in Seq(Sent) BY ConcatProperties DEF IInv, Typed, Plain
    <2>2. wire'[p] \o f.sent = wire[p] \o g.sent BY <2>1, <1>2, <1>3, ConcatEmptySeq
    <2> QED BY <2>2, <1>3 DEF Ordered
<1>7. Ordered(f, hs[q], w[q], q)
    <2>1. w[q] \o hs[q].sent = w[q] BY <1>5, ConcatEmptySeq
    <2>2. InOrder(f, w[q], q) BY <1>3 DEF InOrder, Known
    <2>3. Complete(f, hs[q].age, hs[q].allowed, w[q]) BY <1>3 DEF Complete, Known
    <2> QED BY <2>1, <2>2, <2>3 DEF Ordered
<1> HIDE DEF q
<1>8. ASSUME NEW a \in Peer
      PROVE  Own(hs'[a], a) /\ Ordered(hs'[Other(a)], hs'[a], wire'[a], a)
    <2>1. CASE a = p BY <2>1, <1>2, <1>4, <1>6 DEF q
    <2>2. CASE a = q BY <2>2, <1>1, <1>2, <1>5, <1>7
    <2> QED BY <2>1, <2>2, <1>1
<1>9. OInv' BY <1>8 DEF OInv
<1> QED BY <1>9

\* Nothing was read: the reader is as before.
LEMMA WritesOrdered ==
    ASSUME IInv, OInv, NEW p \in Peer, NEW g, Typed(g), Becomes(p, g, wire), Own(g, p),
           Ordered(hs[Other(p)], g, wire[p], p),
           g.in = hs[p].in, g.bad = hs[p].bad, g.initiated = hs[p].initiated,
           g.authentificated = hs[p].authentificated, g.markerSeen = hs[p].markerSeen
    PROVE  OInv'
<1> DEFINE q == Other(p)
<1>1. q \in Peer /\ Other(q) = p BY OtherPeer
<1>2. Ordered(hs[p], hs[q], wire[q], q) /\ hs[q].sent = <<>> /\ wire[q] \in Seq(Sent)
    BY <1>1 DEF OInv, IInv
<1>3. wire[q] \o hs[q].sent = wire[q] BY <1>2, ConcatEmptySeq
<1>4. InOrder(hs[p], wire[q], q) /\ Complete(hs[p], hs[q].age, hs[q].allowed, wire[q])
    BY <1>2, <1>3 DEF Ordered
<1> HIDE DEF q
<1>5. InOrder(g, wire[q], q) BY <1>4 DEF InOrder, Known
<1>6. Complete(g, hs[q].age, hs[q].allowed, wire[q]) BY <1>4 DEF Complete, Known
<1> QED BY <1>2, <1>5, <1>6, BecomesOrdered DEF q, IInv

\* The state of a peer, with what concerns only its users changed.
LEMMA SameOrdered ==
    ASSUME IInv, OInv, NEW p \in Peer, NEW g,
           g.sent = hs[p].sent, g.in = hs[p].in, g.bad = hs[p].bad, g.initiated = hs[p].initiated,
           g.authentificated = hs[p].authentificated, g.markerSeen = hs[p].markerSeen,
           g.age = hs[p].age, g.allowed = hs[p].allowed, g.authRemote = hs[p].authRemote,
           g.got = hs[p].got, g.remote = hs[p].remote, g.markerSent = hs[p].markerSent
    PROVE  Own(g, p) /\ Ordered(hs[Other(p)], g, wire[p], p)
<1>1. Own(g, p) BY DEF OInv, Own, Proven, Known
<1>2. Ordered(hs[Other(p)], g, wire[p], p) BY OrderedSame DEF OInv
<1> QED BY <1>1, <1>2

LEMMA BeginOInv ==
    ASSUME IInv, OInv, NEW p \in Peer, Begin(p)
    PROVE  OInv'
<1> DEFINE g == [hs[p] EXCEPT !.begun = TRUE]
<1>1. /\ Typed(g) /\ g.sent = hs[p].sent /\ g.in = hs[p].in /\ g.bad = hs[p].bad
      /\ g.initiated = hs[p].initiated
      /\ g.authentificated = hs[p].authentificated /\ g.markerSeen = hs[p].markerSeen
      /\ g.age = hs[p].age /\ g.allowed = hs[p].allowed /\ g.authRemote = hs[p].authRemote
      /\ g.got = hs[p].got /\ g.remote = hs[p].remote /\ g.markerSent = hs[p].markerSent
    BY DEF IInv, Typed, Plain, Fields
<1>2. Becomes(p, g, wire) BY DEF Begin
<1> HIDE DEF g
<1> QED BY <1>1, <1>2, SameOrdered, WritesOrdered

LEMMA AskOInv ==
    ASSUME IInv, OInv, NEW p \in Peer, Ask(p)
    PROVE  OInv'
<1> DEFINE g == [hs[p] EXCEPT !.waiting = @ + 1]
<1>1. ~hs[p].begun /\ Becomes(p, g, wire) BY DEF Ask
<1>2. /\ Typed(g) /\ g.sent = hs[p].sent /\ g.in = hs[p].in /\ g.bad = hs[p].bad
      /\ g.initiated = hs[p].initiated
      /\ g.authentificated = hs[p].authentificated /\ g.markerSeen = hs[p].markerSeen
      /\ g.age = hs[p].age /\ g.allowed = hs[p].allowed /\ g.authRemote = hs[p].authRemote
      /\ g.got = hs[p].got /\ g.remote = hs[p].remote /\ g.markerSent = hs[p].markerSent
    BY <1>1 DEF IInv, Typed, Plain, Fields
<1> HIDE DEF g
<1> QED BY <1>1, <1>2, SameOrdered, WritesOrdered

LEMMA UnusedOrdered ==
    ASSUME NEW r, NEW h, NEW p, Unused(r), Unused(h), ~h.allowed
    PROVE  Own(h, p) /\ Ordered(r, h, <<>>, p)
<1>1. <<>> \o h.sent = <<>> /\ Len(<<>>) = 0
    <2>1. <<>> \in Seq(Sent) OBVIOUS
    <2> QED BY <2>1, ConcatEmptySeq, EmptySeq DEF Unused
<1>2. r.in.log = <<>> /\ ~Known(r) /\ ~Known(h) /\ h.age = 0
    BY DEF Unused, NoSecret, Known
<1>3. Own(h, p) BY <1>2 DEF Own, Proven, Unused
<1>4. InOrder(r, <<>>, p) BY <1>1 DEF InOrder
<1>5. Complete(r, h.age, h.allowed, <<>>) BY <1>1, <1>2 DEF Complete, Before
<1> QED BY <1>1, <1>3, <1>4, <1>5 DEF Ordered

LEMMA InitOInv == Init => OInv
<1> SUFFICES ASSUME Init PROVE OInv OBVIOUS
<1> SUFFICES ASSUME NEW p \in Peer PROVE Own(hs[p], p) /\ Ordered(hs[Other(p)], hs[p], wire[p], p)
    BY DEF OInv
<1>1. Unused(hs[p]) /\ ~hs[p].allowed /\ wire[p] = <<>> /\ Unused(hs[Other(p)])
    BY InitUnused, OtherPeer
<1> QED BY <1>1, UnusedOrdered

LEMMA ReconnectOInv ==
    ASSUME IInv, OInv, ~Midway, Reconnect
    PROVE  OInv'
<1>1. ASSUME NEW p \in Peer PROVE Own(hs'[p], p) /\ Ordered(hs'[Other(p)], hs'[p], wire'[p], p)
    <2>1. ~hs[p].allowed BY DEF Reconnect
    <2>2. /\ Unused(hs'[p]) /\ hs'[p].allowed = hs[p].allowed /\ wire'[p] = <<>>
          /\ Unused(hs'[Other(p)])
        BY ReconnectUnused, OtherPeer
    <2>3. ~hs'[p].allowed BY <2>1, <2>2
    <2> QED BY <2>2, <2>3, UnusedOrdered
<1>2. OInv' BY <1>1 DEF OInv
<1> QED BY <1>2

LEMMA PayloadOInv ==
    ASSUME IInv, OInv, NEW p \in Peer, Payload(p)
    PROVE  OInv'
<1> DEFINE h == [hs[p] EXCEPT !.given = @ + 1, !.payload = TRUE]
<1>1. hs[p].begun /\ hs[p].given < MaxPayload BY DEF Payload
<1>2. /\ Typed(h) /\ h.sent = hs[p].sent /\ h.in = hs[p].in /\ h.bad = hs[p].bad
      /\ h.initiated = hs[p].initiated
      /\ h.authentificated = hs[p].authentificated /\ h.markerSeen = hs[p].markerSeen
      /\ h.age = hs[p].age /\ h.allowed = hs[p].allowed /\ h.authRemote = hs[p].authRemote
      /\ h.got = hs[p].got /\ h.remote = hs[p].remote /\ h.markerSent = hs[p].markerSent
    BY <1>1, BoundsAssumption DEF IInv, Typed, Plain, Fields
<1>3. PICK enough \in BOOLEAN :
        \/ h.allowed /\ MayGrow(p, enough) /\ Becomes(p, FlushPayload(h, p, enough), wire)
        \/ ~h.allowed /\ h.age = 0 /\ Becomes(p, NewLocalKey(h, p), wire)
        \/ Becomes(p, h, wire)
    BY DEF Payload
<1> HIDE DEF h
<1>4. Own(h, p) /\ Ordered(hs[Other(p)], h, wire[p], p) BY <1>2, SameOrdered
<1>5. wire[p] \in Seq(Sent) BY DEF IInv
<1>6. ASSUME NEW g, Typed(g), SameReader(g, h), Becomes(p, g, wire), g.remote # NoKey
             \/ (~g.allowed /\ ~g.markerSent), Ordered(hs[Other(p)], g, wire[p], p)
      PROVE  OInv'
    <2>1. /\ g.in = h.in /\ g.bad = h.bad /\ g.initiated = h.initiated
          /\ g.authentificated = h.authentificated /\ g.markerSeen = h.markerSeen
          /\ g.authRemote = h.authRemote /\ g.got = h.got
        BY <1>6 DEF SameReader
    <2>2. Own(g, p) BY <2>1, <1>4, <1>6 DEF Own, Proven, Known
    <2>3. /\ g.in = hs[p].in /\ g.bad = hs[p].bad /\ g.initiated = hs[p].initiated
          /\ g.authentificated = hs[p].authentificated /\ g.markerSeen = hs[p].markerSeen
        BY <2>1, <1>2
    <2> QED BY <2>2, <2>3, <1>6, WritesOrdered
<1>7. CASE h.allowed /\ MayGrow(p, enough) /\ Becomes(p, FlushPayload(h, p, enough), wire)
    <2> DEFINE g == FlushPayload(h, p, enough)
    <2>1. enough => h.age < MaxAge BY <1>7, <1>2 DEF MayGrow
    <2>2. h.remote # NoKey BY <1>4, <1>7 DEF Own
    <2>3. Typed(g) /\ SameReader(g, h) BY <1>2, <2>1, FlushTyped
    <2>4. Ordered(hs[Other(p)], g, wire[p], p)
        BY <1>2, <1>4, <1>5, <1>7, <2>1, <2>2, FlushOrdered
    <2> HIDE DEF g
    <2>5. g.remote # NoKey BY <2>2, <2>3 DEF SameReader
    <2>6. Becomes(p, g, wire) BY <1>7 DEF g
    <2> QED BY <2>3, <2>4, <2>5, <2>6, <1>6
<1>8. CASE ~h.allowed /\ h.age = 0 /\ Becomes(p, NewLocalKey(h, p), wire)
    <2> DEFINE g == NewLocalKey(h, p)
    <2>1. h.age < MaxAge BY <1>8, BoundsAssumption
    <2>2. Typed(g) /\ SameReader(g, h) /\ g.allowed = h.allowed /\ g.markerSent = h.markerSent
        BY <1>2, <2>1, NewKeyTyped
    <2>3. Ordered(hs[Other(p)], g, wire[p], p) BY <1>2, <1>4, <1>5, <2>1, NewKeyOrdered
    <2> HIDE DEF g
    <2>4. h.remote = NoKey BY <1>2, <1>8 DEF Typed, Plain
    <2>5. ~g.allowed /\ ~g.markerSent BY <2>2, <2>4, <1>4, <1>8 DEF Own
    <2>6. Becomes(p, g, wire) BY <1>8 DEF g
    <2> QED BY <2>2, <2>3, <2>5, <2>6, <1>6
<1>9. CASE Becomes(p, h, wire) BY <1>2, <1>4, <1>9, WritesOrdered
<1> QED BY <1>3, <1>7, <1>8, <1>9

LEMMA ReceiveRawOInv ==
    ASSUME IInv, OInv, NEW p \in Peer, ReceiveRaw(p)
    PROVE  OInv'
<1> DEFINE q == Other(p)
           m == Head(wire[q])
           k == IF m.type = "raw" THEN m.key ELSE <<q, 0>>
           h == IF hs[p].age = 0 THEN NewLocalKey(hs[p], p) ELSE hs[p]
           r == hs[q]
           l == wire[q]
<1>1. q \in Peer /\ q # p /\ Other(q) = p /\ l # <<>> /\ hs[p].in.log = <<>> /\ ~hs[p].bad
    BY OtherPeer DEF ReceiveRaw
<1>2. PICK enough \in BOOLEAN :
        /\ h.age < MaxAge /\ (enough => h.payload /\ h.age + 1 < MaxAge)
        /\ Becomes(p, GrowRemoteKey0(h, p, k, enough), Taken(q))
    BY DEF ReceiveRaw
<1>3. /\ l \in Seq(Sent) /\ DOMAIN Taken(q) = Peer /\ Taken(q)[q] = Tail(l) /\ Taken(q)[p] = wire[p]
      /\ Tail(l) \in Seq(Sent) /\ m \in Sent /\ wire[p] \in Seq(Sent)
    BY <1>1, HeadTailProperties DEF IInv, Taken
<1>4. /\ Typed(hs[p]) /\ Own(hs[p], p) /\ Ordered(r, hs[p], wire[p], p)
      /\ hs[p].age \in 0..MaxAge /\ r.age \in Nat /\ r.allowed \in BOOLEAN
    BY <1>1, BoundsAssumption DEF IInv, OInv, Typed, Plain
<1>5. InOrder(hs[p], l, q) /\ Complete(hs[p], r.age, r.allowed, l)
    <2>1. Ordered(hs[p], r, l, q) /\ r.sent = <<>> BY <1>1 DEF OInv, IInv
    <2>2. l \o r.sent = l BY <2>1, <1>3, ConcatEmptySeq
    <2> QED BY <2>1, <2>2 DEF Ordered
<1>6. m.type = "raw" BY <1>1, <1>5 DEF InOrder
<1>7. k \in Key BY <1>3, <1>6 DEF Sent
<1>8. hs[p].remote = NoKey /\ ~hs[p].markerSent
    BY <1>1, <1>4 DEF Typed, Own
<1>9. ~Known(hs[p]) /\ ~hs[p].markerSeen /\ ~hs[p].got
    BY <1>1, <1>4, NothingKnown DEF Own
<1>10. /\ Typed(h) /\ h.age > 0 /\ Ordered(r, h, wire[p], p) /\ ~h.markerSent
       /\ h.initiated = hs[p].initiated /\ h.authentificated = hs[p].authentificated
       /\ h.markerSeen = hs[p].markerSeen /\ h.got = hs[p].got
    <2>1. CASE hs[p].age = 0
        <3>1. hs[p].age < MaxAge BY <2>1, BoundsAssumption
        <3>2. h = NewLocalKey(hs[p], p) BY <2>1
        <3> HIDE DEF h, r
        <3>3. Typed(h) /\ SameReader(h, hs[p]) /\ h.age = 1 /\ h.markerSent = hs[p].markerSent
            BY <2>1, <3>1, <3>2, <1>4, NewKeyTyped
        <3>4. Ordered(r, h, wire[p], p) BY <3>1, <3>2, <1>3, <1>4, NewKeyOrdered
        <3> QED BY <3>3, <3>4, <1>8 DEF SameReader
    <2>2. CASE hs[p].age # 0
        <3>1. h = hs[p] BY <2>2
        <3> QED BY <2>2, <3>1, <1>4, <1>8
    <2> QED BY <2>1, <2>2
<1> DEFINE g == GrowRemoteKey0(h, p, k, enough)
<1> HIDE DEF h, k, r
<1>11. /\ Typed(g) /\ g.markerSeen = h.markerSeen
       /\ g.initiated = h.initiated /\ g.authentificated = h.authentificated
       /\ g.got = h.got
    BY <1>2, <1>7, <1>10, GrowRemote0Typed
<1>12. Ordered(r, g, wire[p], p) /\ g.remote # NoKey
    BY <1>2, <1>3, <1>7, <1>10, GrowRemote0Ordered
<1>13. Becomes(p, g, Taken(q)) BY <1>2
<1> HIDE DEF g, l, m
<1>14. ~Known(g) /\ ~g.markerSeen /\ ~g.got BY <1>9, <1>10, <1>11 DEF Known
<1>15. Own(g, p) BY <1>12, <1>14 DEF Own, Proven
<1>16. g.in.log # <<>> BY <1>11, <1>12 DEF Typed
<1>17. Reads(hs[p], g, m) BY <1>1, <1>6, <1>9, <1>14, <1>16 DEF Reads
<1>18. InOrder(g, Tail(l), q) /\ Complete(g, r.age, r.allowed, Tail(l))
    BY <1>1, <1>3, <1>4, <1>5, <1>17, TailInOrder DEF m, l
<1> QED BY <1>3, <1>11, <1>12, <1>13, <1>15, <1>18, BecomesOrdered DEF r

LEMMA ReceiveOInv ==
    ASSUME ~Midway, IInv, OInv, NEW p \in Peer, Receive(p)
    PROVE  OInv'
<1> DEFINE q == Other(p)
           m == Head(wire[q])
           l == wire[q]
           r == hs[q]
           h == hs[p]
           g == IF h.bad THEN h
                ELSE IF m.under # h.in THEN [h EXCEPT !.bad = TRUE]
                ELSE InputComing(Deciphered(h, m), m)
<1>1. q \in Peer /\ q # p /\ Other(q) = p /\ l # <<>> BY OtherPeer DEF Receive
<1>2. h.begun /\ (h.bad \/ h.in.log # <<>>) /\ Becomes(p, g, Taken(q))
    <2>1. h.begun /\ (h.bad \/ h.in.log # <<>>) BY DEF Receive
    <2> QED BY <2>1, WholeRead
<1>3. /\ l \in Seq(Sent) /\ DOMAIN Taken(q) = Peer /\ Taken(q)[q] = Tail(l) /\ Taken(q)[p] = wire[p]
      /\ Tail(l) \in Seq(Sent) /\ m \in Sent /\ wire[p] \in Seq(Sent)
    BY <1>1, HeadTailProperties DEF IInv, Taken
<1>4. /\ Typed(h) /\ Own(h, p) /\ Ordered(r, h, wire[p], p)
      /\ r.age \in Nat /\ r.allowed \in BOOLEAN
    BY <1>1, BoundsAssumption DEF IInv, OInv, Typed, Plain
<1>5. InOrder(h, l, q) /\ Complete(h, r.age, r.allowed, l)
    <2>1. Ordered(h, r, l, q) /\ r.sent = <<>> BY <1>1 DEF OInv, IInv
    <2>2. l \o r.sent = l BY <2>1, <1>3, ConcatEmptySeq
    <2> QED BY <2>1, <2>2 DEF Ordered
<1> HIDE DEF h, r
<1>6. Typed(g) /\ Own(g, p) /\ Reads(h, g, m) /\ Ordered(r, g, wire[p], p)
    <2>1. CASE h.bad
        <3>1. g = h BY <2>1
        <3> QED BY <2>1, <3>1, <1>4 DEF Reads
    <2>2. CASE ~h.bad /\ m.under # h.in
        <3>1. g = [h EXCEPT !.bad = TRUE] BY <2>2
        <3> HIDE DEF g
        <3>2. /\ Typed(g) /\ g.bad /\ g.sent = h.sent /\ g.in = h.in /\ g.initiated = h.initiated
              /\ g.authentificated = h.authentificated /\ g.markerSeen = h.markerSeen
              /\ g.age = h.age /\ g.allowed = h.allowed /\ g.authRemote = h.authRemote
              /\ g.got = h.got /\ g.remote = h.remote /\ g.markerSent = h.markerSent
            BY <3>1, <1>4 DEF Typed, Plain, Fields
        <3>3. Own(g, p) BY <3>2, <1>4 DEF Own, Proven, Known
        <3>4. Ordered(r, g, wire[p], p) BY <3>2, <1>4, OrderedSame
        <3>5. Reads(h, g, m) BY <3>2 DEF Reads, Known
        <3> QED BY <3>2, <3>3, <3>4, <3>5
    <2>3. CASE ~h.bad /\ m.under = h.in
        <3>1. h.in.log # <<>> BY <1>2, <2>3
        <3>2. m.type # "raw" BY <1>3, <2>3, <3>1 DEF Sent, NoSecret
        <3>3. g = InputComing(Deciphered(h, m), m) BY <2>3
        <3> DEFINE f == InputComing(Deciphered(h, m), m)
        <3>4. Typed(f) /\ Own(f, p) /\ Reads(h, f, m) /\ Ordered(r, f, wire[p], p)
            BY <1>1, <1>2, <1>3, <1>4, <1>5, <2>3, <3>1, <3>2, ReadOrdered
        <3> HIDE DEF f, g
        <3>5. g = f BY <3>3 DEF f
        <3> QED BY <3>4, <3>5
    <2> QED BY <2>1, <2>2, <2>3
<1> HIDE DEF g, l, m
<1>7. InOrder(g, Tail(l), q) /\ Complete(g, r.age, r.allowed, Tail(l))
    BY <1>1, <1>3, <1>4, <1>5, <1>6, TailInOrder DEF m, l
<1> QED BY <1>2, <1>3, <1>6, <1>7, BecomesOrdered DEF r

LEMMA NextOInv ==
    ASSUME ~Midway, IInv, OInv, [Next]_vars
    PROVE  OInv'
<1>1. CASE \E p \in Peer : Begin(p) BY <1>1, BeginOInv
<1>2. CASE \E p \in Peer : Ask(p) BY <1>2, AskOInv
<1>3. CASE \E p \in Peer : Payload(p) BY <1>3, PayloadOInv
<1>4. CASE \E p \in Peer : ReceiveRaw(p) BY <1>4, ReceiveRawOInv
<1>5. CASE \E p \in Peer : Receive(p) BY <1>5, ReceiveOInv
<1>6. CASE Reconnect BY <1>6, ReconnectOInv
<1>7. CASE UNCHANGED vars BY <1>7 DEF vars, OInv
<1> QED BY <1>1, <1>2, <1>3, <1>4, <1>5, <1>6, <1>7 DEF Next

-----------------------------------------------------------------------------
(* The theorems.                                                           *)

LEMMA OrderHolds ==
    ASSUME ~Midway
    PROVE  Spec => []OInv
<1>1. IInv /\ OInv /\ [Next]_vars => OInv' BY NextOInv
<1> QED BY <1>1, InitOInv, InvariantHolds, PTL DEF Spec

\* What is handed on as payload comes from the peer whose static key made the
\* secret, and after its marker, whatever the order of keys and confirmations
\* (Handshake::inputComing, in::Ciphering).
THEOREM PayloadAlwaysAuthentic ==
    ASSUME ~Midway
    PROVE  Spec => []PayloadAuthentic
<1>1. OInv => PayloadAuthentic
    BY DEF OInv, Own, Proven, Known, PayloadAuthentic
<1> QED BY <1>1, OrderHolds, PTL

\* A peer is authentificated only by something deciphered under a secret made
\* with its static key (Handshake::someInputMessageDeciphered).
THEOREM AuthAlwaysProved ==
    ASSUME ~Midway
    PROVE  Spec => []AuthProved
<1>1. OInv => AuthProved
    BY DEF OInv, Own, Proven, Known, AuthProved
<1> QED BY <1>1, OrderHolds, PTL

-----------------------------------------------------------------------------
(* In step.  Every message deciphers, every confirmation finds the key it  *)
(* is for, and when nothing is under way each end reads what the other     *)
(* writes next.  What an end reads with is a view: its decipherer, the age *)
(* of the local key the decipherer is made of, and how many keys of the    *)
(* other it has taken.  Whatever an end has put out leads its reader,      *)
(* message by message, from the view it has now to the view the writer     *)
(* counts on.                                                              *)


View(in, low, top) == [in |-> in, low |-> low, top |-> top]

Low(h) == h.age - Len(h.local) + 1
Top(h) == IF h.remote = NoKey THEN 0 ELSE h.remote[2]
Now(h) == View(h.in, Low(h), Top(h))

\* The view the other end of h, who is p, has when it has read everything.
Goal(h, p) ==
    IF h.remote # NoKey THEN View(h.out, Top(h), h.age)
    ELSE View(IF h.age = 0 THEN NoSecret ELSE MixSecret(NoSecret, <<Other(p), 1>>, <<p, 1>>),
              1, h.age)

\* Whether a reader with the view s can take the message m of p.
Fits(s, m, p) ==
    IF m.type = "raw" THEN s = View(NoSecret, 1, 0) /\ m.key = <<p, 1>>
    ELSE /\ m.under = s.in /\ s.in.log # <<>>
         /\ m.type \in {"skey", "ekey"} => s.top # 0 /\ m.key = <<p, s.top + 1>>

\* The view it has then.
Read(s, m, p) ==
    LET q == Other(p)
        in == Passed(s.in, m.type, m.key)
    IN  CASE m.type = "raw" -> View(MixSecret(s.in, <<q, s.low>>, m.key), s.low, s.top + 1)
          [] m.type \in {"skey", "ekey"} ->
                View(MixSecret(in, <<q, s.low>>, m.key), s.low, s.top + 1)
          [] m.type = "applied" ->
                View(MixSecret(in, <<q, s.low + 1>>, <<p, s.top>>), s.low + 1, s.top)
          [] OTHER -> View(in, s.low, s.top)

AtLeast1(n) == IF n = 0 THEN 1 ELSE n

\* Reading l leads from the view s to the view t.
Path(s, l, t, p) ==
    /\ \E v : /\ v[1] = s /\ v[Len(l) + 1] = t
              /\ \A i \in 1..Len(l) : Fits(v[i], l[i], p) /\ v[i + 1] = Read(v[i], l[i], p)
    /\ AtLeast1(t.top) = AtLeast1(s.top) + CountOf(l, {"skey", "ekey"})
    /\ t.low = s.low + CountOf(l, {"applied"})

\* The keys h, who is p, holds: the local ones without a gap up to the newest.
Held(h, p) ==
    /\ ~h.bad
    /\ Len(h.local) <= h.age
    /\ \A i \in 1..Len(h.local) : h.local[i] = <<p, Low(h) + i - 1>>
    /\ h.remote = NoKey => /\ h.age <= 1 /\ Len(h.local) = h.age
                           /\ h.out = NoSecret /\ h.in = NoSecret
    /\ h.remote # NoKey => /\ Top(h) \in Nat \ {0} /\ h.remote = <<Other(p), Top(h)>>
                           /\ h.out.log # <<>>

\* h, who is p, has put out w before this step; its reader had the view s.
Steady(h, s, w, p) == Held(h, p) /\ Path(s, w \o h.sent, Goal(h, p), p)

SInv == \A p \in Peer : Steady(hs[p], Now(hs[Other(p)]), wire[p], p)

-----------------------------------------------------------------------------
(* Counting messages.                                                      *)

LEMMA CountFinite ==
    ASSUME NEW l \in Seq(Sent), NEW T
    PROVE  /\ IsFiniteSet({i \in 1..Len(l) : l[i].type \in T}) /\ CountOf(l, T) \in Nat
<1>1. IsFiniteSet(1..Len(l)) BY FS_Interval, LenProperties
<1>2. IsFiniteSet({i \in 1..Len(l) : l[i].type \in T}) BY <1>1, FS_Subset
<1> QED BY <1>2, FS_CardinalityType DEF CountOf

LEMMA CountEmpty == \A T : CountOf(<<>>, T) = 0
<1> TAKE T
<1>1. {i \in 1..Len(<<>>) : <<>>[i].type \in T} = {} OBVIOUS
<1> QED BY <1>1, FS_EmptySet DEF CountOf

LEMMA CountAppend ==
    ASSUME NEW l \in Seq(Sent), NEW m \in Sent, NEW T
    PROVE  CountOf(Append(l, m), T) = CountOf(l, T) + IF m.type \in T THEN 1 ELSE 0
<1> DEFINE k == Append(l, m)
           n == Len(l)
           S == {i \in 1..n : l[i].type \in T}
           R == {i \in 1..Len(k) : k[i].type \in T}
<1>1. n \in Nat /\ Len(k) = n + 1 /\ (\A i \in 1..n : k[i] = l[i]) /\ k[n + 1] = m
    BY AppendAt
<1>2. IsFiniteSet(S) /\ Cardinality(S) \in Nat BY CountFinite, FS_CardinalityType
<1> HIDE DEF k
<1>3. CASE m.type \in T
    <2>1. R = S \cup {n + 1} BY <1>1, <1>3
    <2>2. n + 1 \notin S BY <1>1
    <2>3. Cardinality(R) = Cardinality(S) + 1 BY <1>2, <2>1, <2>2, FS_AddElement
    <2> QED BY <2>3, <1>3 DEF CountOf, k
<1>4. CASE m.type \notin T
    <2>1. R = S BY <1>1, <1>4
    <2>2. CountOf(l, T) = Cardinality(S) /\ CountOf(k, T) = Cardinality(R) BY DEF CountOf
    <2> HIDE DEF S, R
    <2> QED BY <2>1, <2>2, <1>2, <1>4 DEF k
<1> QED BY <1>3, <1>4

LEMMA CountTail ==
    ASSUME NEW l \in Seq(Sent), l # <<>>, NEW T
    PROVE  CountOf(l, T) = CountOf(Tail(l), T) + IF Head(l).type \in T THEN 1 ELSE 0
<1> DEFINE k == Tail(l)
           n == Len(k)
           S == {i \in 1..n : k[i].type \in T}
           R == {i \in 1..Len(l) : l[i].type \in T}
           U == {i + 1 : i \in S}
           f == [i \in S |-> i + 1]
<1>1. n \in Nat /\ Len(l) = n + 1 /\ k \in Seq(Sent) /\ (\A i \in 1..n : k[i] = l[i + 1])
      /\ Head(l) = l[1]
    BY HeadTailProperties, LenProperties
<1>2. IsFiniteSet(S) /\ Cardinality(S) \in Nat BY <1>1, CountFinite, FS_CardinalityType
<1> HIDE DEF k, n
<1>3. f \in Bijection(S, U)
    <2>1. f \in [S -> U] OBVIOUS
    <2>2. \A a, b \in S : f[a] = f[b] => a = b BY <1>1
    <2>3. \A t \in U : \E a \in S : f[a] = t OBVIOUS
    <2> QED BY <2>1, <2>2, <2>3 DEF Bijection, Injection, Surjection, IsInjective
<1>4. IsFiniteSet(U) /\ Cardinality(U) = Cardinality(S)
    BY <1>2, <1>3, FS_Bijection DEF ExistsBijection
<1>5. CASE Head(l).type \in T
    <2>1. R = U \cup {1}
        <3>1. ASSUME NEW i \in R, i # 1 PROVE i \in U
            <4>1. i - 1 \in 1..n /\ k[i - 1] = l[i] BY <3>1, <1>1
            <4> QED BY <3>1, <4>1
        <3>2. ASSUME NEW i \in S PROVE i + 1 \in R BY <1>1
        <3>3. 1 \in R BY <1>1, <1>5
        <3> QED BY <3>1, <3>2, <3>3
    <2>2. 1 \notin U BY <1>1
    <2>3. Cardinality(R) = Cardinality(S) + 1 BY <1>4, <2>1, <2>2, FS_AddElement
    <2> QED BY <2>3, <1>5 DEF CountOf, k, n
<1>6. CASE Head(l).type \notin T
    <2>1. R = U
        <3>1. ASSUME NEW i \in R PROVE i \in U
            <4>1. i - 1 \in 1..n /\ k[i - 1] = l[i] BY <3>1, <1>1, <1>6
            <4> QED BY <3>1, <4>1
        <3>2. ASSUME NEW i \in S PROVE i + 1 \in R BY <1>1
        <3> QED BY <3>1, <3>2
    <2>2. CountOf(k, T) = Cardinality(S) /\ CountOf(l, T) = Cardinality(R) BY DEF CountOf, n
    <2> HIDE DEF S, R, U
    <2> QED BY <2>1, <2>2, <1>2, <1>4, <1>6 DEF k
<1> QED BY <1>5, <1>6

-----------------------------------------------------------------------------
(* Paths.                                                                  *)

LEMMA ViewIs ==
    \A i, n, t : View(i, n, t).in = i /\ View(i, n, t).low = n /\ View(i, n, t).top = t
BY DEF View

LEMMA ReadCounts ==
    ASSUME NEW s, s.low \in Nat, s.top \in Nat, NEW m \in Sent, NEW p, Fits(s, m, p)
    PROVE  LET t == Read(s, m, p)
           IN  /\ t.low \in Nat /\ t.top \in Nat
               /\ t.low = s.low + IF m.type \in {"applied"} THEN 1 ELSE 0
               /\ AtLeast1(t.top) = AtLeast1(s.top) + IF m.type \in {"skey", "ekey"} THEN 1 ELSE 0
<1>1. m.type \in {"raw", "skey", "ekey", "marker", "applied", "payload"} BY DEF Sent, Message
<1>2. CASE m.type = "raw"
    <2>1. s.top = 0 /\ s.low = 1 BY <1>2 DEF Fits, View
    <2>2. Read(s, m, p).low = s.low /\ Read(s, m, p).top = s.top + 1
        BY <1>2, ViewIs DEF Read
    <2> QED BY <2>1, <2>2, <1>2 DEF AtLeast1
<1>3. CASE m.type \in {"skey", "ekey"}
    <2>1. s.top # 0 BY <1>3 DEF Fits
    <2>2. Read(s, m, p).low = s.low /\ Read(s, m, p).top = s.top + 1
        BY <1>3, ViewIs DEF Read
    <2> QED BY <2>1, <2>2, <1>3 DEF AtLeast1
<1>4. CASE m.type = "applied"
    <2>1. Read(s, m, p).low = s.low + 1 /\ Read(s, m, p).top = s.top
        BY <1>4, ViewIs DEF Read
    <2> QED BY <2>1, <1>4 DEF AtLeast1
<1>5. CASE m.type \in {"marker", "payload"}
    <2>1. Read(s, m, p).low = s.low /\ Read(s, m, p).top = s.top
        BY <1>5, ViewIs DEF Read
    <2> QED BY <2>1, <1>5 DEF AtLeast1
<1> QED BY <1>1, <1>2, <1>3, <1>4, <1>5

LEMMA PathEmpty ==
    ASSUME NEW s, NEW t, NEW p, s.low \in Nat, s.top \in Nat
    PROVE  Path(s, <<>>, t, p) <=> s = t
<1>1. Len(<<>>) = 0 /\ CountOf(<<>>, {"skey", "ekey"}) = 0 /\ CountOf(<<>>, {"applied"}) = 0
    BY CountEmpty, LenProperties
<1>2. Path(s, <<>>, t, p) => s = t BY <1>1 DEF Path
<1>3. ASSUME s = t PROVE Path(s, <<>>, t, p)
    <2> DEFINE v == [i \in {1} |-> s]
    <2>1. v[1] = s /\ v[Len(<<>>) + 1] = t BY <1>1, <1>3
    <2>2. \A i \in 1..Len(<<>>) : Fits(v[i], <<>>[i], p) /\ v[i + 1] = Read(v[i], <<>>[i], p)
        BY <1>1
    <2>3. \E w : /\ w[1] = s /\ w[Len(<<>>) + 1] = t
                 /\ \A i \in 1..Len(<<>>) : Fits(w[i], <<>>[i], p)
                                             /\ w[i + 1] = Read(w[i], <<>>[i], p)
        BY <2>1, <2>2
    <2>4. AtLeast1(s.top) \in Nat BY DEF AtLeast1
    <2> QED BY <1>1, <1>3, <2>3, <2>4 DEF Path
<1> QED BY <1>2, <1>3

LEMMA PathAppend ==
    ASSUME NEW s, NEW t, NEW p, s.low \in Nat, s.top \in Nat, t.low \in Nat, t.top \in Nat,
           NEW l \in Seq(Sent), NEW m \in Sent, Path(s, l, t, p), Fits(t, m, p)
    PROVE  Path(s, Append(l, m), Read(t, m, p), p)
<1> DEFINE k == Append(l, m)
           n == Len(l)
           u == Read(t, m, p)
<1>1. n \in Nat /\ Len(k) = n + 1 /\ (\A i \in 1..n : k[i] = l[i]) /\ k[n + 1] = m
    BY AppendAt
<1>2. PICK v : /\ v[1] = s /\ v[n + 1] = t
               /\ \A i \in 1..n : Fits(v[i], l[i], p) /\ v[i + 1] = Read(v[i], l[i], p)
    BY DEF Path
<1> DEFINE w == [i \in 1..(n + 2) |-> IF i = n + 2 THEN u ELSE v[i]]
<1> HIDE DEF k, u
<1>3. w[1] = s /\ w[n + 2] = u /\ w[n + 1] = t /\ \A i \in 1..(n + 1) : w[i] = v[i]
    BY <1>1, <1>2
<1> HIDE DEF w
<1>4. ASSUME NEW i \in 1..(n + 1)
      PROVE  Fits(w[i], k[i], p) /\ w[i + 1] = Read(w[i], k[i], p)
    <2>1. CASE i = n + 1
        <3>1. w[i] = t /\ k[i] = m /\ w[i + 1] = u BY <1>1, <1>3, <2>1
        <3> QED BY <3>1 DEF u
    <2>2. CASE i # n + 1
        <3>1. i \in 1..n /\ i + 1 \in 1..(n + 1) BY <1>1, <2>2
        <3>2. w[i] = v[i] /\ k[i] = l[i] /\ w[i + 1] = v[i + 1] BY <1>1, <1>3, <3>1
        <3> QED BY <3>1, <3>2, <1>2
    <2> QED BY <2>1, <2>2
<1>5. \E x : /\ x[1] = s /\ x[Len(k) + 1] = u
             /\ \A i \in 1..Len(k) : Fits(x[i], k[i], p) /\ x[i + 1] = Read(x[i], k[i], p)
    <2>1. w[Len(k) + 1] = u BY <1>1, <1>3
    <2> QED BY <2>1, <1>1, <1>3, <1>4
<1>6. AtLeast1(u.top) = AtLeast1(s.top) + CountOf(k, {"skey", "ekey"})
    <2> DEFINE T == {"skey", "ekey"}
    <2>1. CountOf(k, T) = CountOf(l, T) + IF m.type \in T THEN 1 ELSE 0 BY CountAppend DEF k
    <2>2. AtLeast1(u.top) = AtLeast1(t.top) + IF m.type \in T THEN 1 ELSE 0
        BY ReadCounts DEF u
    <2>3. AtLeast1(t.top) = AtLeast1(s.top) + CountOf(l, T) BY DEF Path
    <2>4. CountOf(l, T) \in Nat /\ AtLeast1(s.top) \in Nat BY CountFinite DEF AtLeast1
    <2> HIDE DEF T, k, u
    <2>5. AtLeast1(u.top) = AtLeast1(s.top) + CountOf(k, T)
        <3>1. CASE m.type \in T BY <2>1, <2>2, <2>3, <2>4, <3>1
        <3>2. CASE m.type \notin T BY <2>1, <2>2, <2>3, <2>4, <3>2
        <3> QED BY <3>1, <3>2
    <2> QED BY <2>5 DEF T
<1>7. u.low = s.low + CountOf(k, {"applied"})
    <2> DEFINE T == {"applied"}
    <2>1. CountOf(k, T) = CountOf(l, T) + IF m.type \in T THEN 1 ELSE 0 BY CountAppend DEF k
    <2>2. u.low = t.low + IF m.type \in T THEN 1 ELSE 0 BY ReadCounts DEF u
    <2>3. t.low = s.low + CountOf(l, T) BY DEF Path
    <2>4. CountOf(l, T) \in Nat BY CountFinite
    <2> HIDE DEF T, k, u
    <2>5. u.low = s.low + CountOf(k, T)
        <3>1. CASE m.type \in T BY <2>1, <2>2, <2>3, <2>4, <3>1
        <3>2. CASE m.type \notin T BY <2>1, <2>2, <2>3, <2>4, <3>2
        <3> QED BY <3>1, <3>2
    <2> QED BY <2>5 DEF T
<1>8. Path(s, k, u, p) BY <1>5, <1>6, <1>7 DEF Path
<1> QED BY <1>8 DEF k, u

LEMMA PathTail ==
    ASSUME NEW s, NEW t, NEW p, s.low \in Nat, s.top \in Nat,
           NEW l \in Seq(Sent), l # <<>>, Path(s, l, t, p)
    PROVE  /\ Fits(s, Head(l), p) /\ Path(Read(s, Head(l), p), Tail(l), t, p)
           /\ Head(l).type = "applied" => t.low >= s.low + 1
<1> DEFINE k == Tail(l)
           n == Len(k)
           m == Head(l)
           u == Read(s, m, p)
<1>1. /\ n \in Nat /\ Len(l) = n + 1 /\ k \in Seq(Sent) /\ (\A i \in 1..n : k[i] = l[i + 1])
      /\ m = l[1] /\ m \in Sent
    BY HeadTailProperties, LenProperties
<1>2. PICK v : /\ v[1] = s /\ v[n + 2] = t
               /\ \A i \in 1..(n + 1) : Fits(v[i], l[i], p) /\ v[i + 1] = Read(v[i], l[i], p)
    <2>1. Len(l) + 1 = n + 2 BY <1>1
    <2> QED BY <2>1, <1>1 DEF Path
<1> DEFINE w == [i \in 1..(n + 1) |-> v[i + 1]]
<1>3. Fits(s, m, p) /\ v[2] = u
    <2>1. 1 \in 1..(n + 1) /\ 1 + 1 = 2 BY <1>1
    <2> QED BY <2>1, <1>1, <1>2
<1> HIDE DEF k, u, m, n
<1>4. w[1] = u /\ w[n + 1] = t /\ \A i \in 1..(n + 1) : w[i] = v[i + 1]
    BY <1>1, <1>2, <1>3
<1> HIDE DEF w
<1>5. ASSUME NEW i \in 1..n
      PROVE  Fits(w[i], k[i], p) /\ w[i + 1] = Read(w[i], k[i], p)
    <2>1. i \in 1..(n + 1) /\ i + 1 \in 1..(n + 1) BY <1>1
    <2>2. w[i] = v[i + 1] /\ k[i] = l[i + 1] /\ w[i + 1] = v[i + 1 + 1] BY <1>1, <1>4, <2>1
    <2> QED BY <2>1, <2>2, <1>2
<1>6. \E x : /\ x[1] = u /\ x[Len(k) + 1] = t
             /\ \A i \in 1..Len(k) : Fits(x[i], k[i], p) /\ x[i + 1] = Read(x[i], k[i], p)
    BY <1>4, <1>5 DEF n
<1>7. AtLeast1(t.top) = AtLeast1(u.top) + CountOf(k, {"skey", "ekey"})
    <2> DEFINE T == {"skey", "ekey"}
    <2>1. CountOf(l, T) = CountOf(k, T) + IF m.type \in T THEN 1 ELSE 0 BY CountTail DEF k, m
    <2>2. AtLeast1(u.top) = AtLeast1(s.top) + IF m.type \in T THEN 1 ELSE 0
        BY <1>1, <1>3, ReadCounts DEF u
    <2>3. AtLeast1(t.top) = AtLeast1(s.top) + CountOf(l, T) BY DEF Path
    <2>4. CountOf(k, T) \in Nat /\ AtLeast1(s.top) \in Nat BY <1>1, CountFinite DEF AtLeast1
    <2> HIDE DEF T
    <2>5. CASE m.type \in T BY <2>1, <2>2, <2>3, <2>4, <2>5 DEF T
    <2>6. CASE m.type \notin T BY <2>1, <2>2, <2>3, <2>4, <2>6 DEF T
    <2> QED BY <2>5, <2>6
<1>8. /\ t.low = u.low + CountOf(k, {"applied"})
      /\ m.type = "applied" => t.low >= s.low + 1
    <2> DEFINE T == {"applied"}
    <2>1. CountOf(l, T) = CountOf(k, T) + IF m.type \in T THEN 1 ELSE 0 BY CountTail DEF k, m
    <2>2. u.low = s.low + IF m.type \in T THEN 1 ELSE 0 BY <1>1, <1>3, ReadCounts DEF u
    <2>3. t.low = s.low + CountOf(l, T) BY DEF Path
    <2>4. CountOf(k, T) \in Nat BY <1>1, CountFinite
    <2>5. m.type = "applied" <=> m.type \in T OBVIOUS
    <2> HIDE DEF T
    <2>6. CASE m.type \in T BY <2>1, <2>2, <2>3, <2>4, <2>5, <2>6 DEF T
    <2>7. CASE m.type \notin T BY <2>1, <2>2, <2>3, <2>4, <2>5, <2>7 DEF T
    <2> QED BY <2>6, <2>7
<1>9. Path(u, k, t, p) BY <1>6, <1>7, <1>8 DEF Path
<1> QED BY <1>3, <1>8, <1>9 DEF k, u, m

-----------------------------------------------------------------------------
(* What puts something out.                                                *)

Viewed(s) == s.low \in Nat /\ s.top \in Nat

\* Nothing of what Steady and Now speak of is changed.
Alike(g, h) ==
    /\ g.sent = h.sent /\ g.age = h.age /\ g.local = h.local /\ g.remote = h.remote
    /\ g.in = h.in /\ g.out = h.out /\ g.bad = h.bad

LEMMA AlikeSteady ==
    ASSUME NEW h, NEW g, Alike(g, h), NEW s, NEW w, NEW p, Steady(h, s, w, p)
    PROVE  Steady(g, s, w, p) /\ Now(g) = Now(h)
<1>1. Low(g) = Low(h) /\ Top(g) = Top(h) BY DEF Alike, Low, Top
<1>2. Goal(g, p) = Goal(h, p) /\ Now(g) = Now(h) BY <1>1 DEF Alike, Goal, Now
<1>3. Held(g, p) BY <1>1 DEF Alike, Steady, Held
<1> QED BY <1>2, <1>3 DEF Steady, Alike

LEMMA SecretOfBoth == \A s, k, l : MixSecret(s, k, l) = MixSecret(s, l, k)
<1> TAKE s, k, l
<1>1. {k, l} = {l, k} OBVIOUS
<1> QED BY <1>1 DEF MixSecret

LEMMA GoalIs ==
    ASSUME NEW h, Typed(h), NEW p, Held(h, p)
    PROVE  /\ Viewed(Goal(h, p)) /\ Goal(h, p).top = h.age
           /\ Viewed(Now(h)) /\ Low(h) \in Nat \ {0} /\ Top(h) \in Nat
           /\ h.remote # NoKey =>
                /\ Goal(h, p) = View(h.out, Top(h), h.age) /\ h.age > 0 /\ Top(h) # 0
                /\ Goal(h, p).in = h.out /\ Goal(h, p).low = Top(h)
<1>1. h.age \in Nat /\ Len(h.local) \in Nat /\ Len(h.local) <= h.age
    BY BoundsAssumption, LenProperties DEF Typed, Plain, Held
<1>2. Low(h) \in Nat \ {0} BY <1>1 DEF Low
<1>3. Top(h) \in Nat BY DEF Held, Top
<1>4. Viewed(Now(h)) BY <1>2, <1>3, ViewIs DEF Viewed, Now
<1>5. CASE h.remote = NoKey
    <2>1. Goal(h, p).low = 1 /\ Goal(h, p).top = h.age BY <1>5, ViewIs DEF Goal
    <2> QED BY <2>1, <1>1, <1>2, <1>3, <1>4, <1>5 DEF Viewed
<1>6. CASE h.remote # NoKey
    <2>1. Goal(h, p) = View(h.out, Top(h), h.age) BY <1>6 DEF Goal
    <2>2. Goal(h, p).low = Top(h) /\ Goal(h, p).top = h.age /\ Goal(h, p).in = h.out
        BY <2>1, ViewIs
    <2>3. h.age > 0 /\ Top(h) # 0 BY <1>6 DEF Typed, Plain, Held
    <2> QED BY <2>1, <2>2, <2>3, <1>1, <1>2, <1>3, <1>4, <1>6 DEF Viewed
<1> QED BY <1>5, <1>6

\* h puts out m and is then g.
LEMMA SendsSteady ==
    ASSUME NEW h, Typed(h), NEW g, NEW s, Viewed(s), NEW w \in Seq(Sent), NEW p,
           Steady(h, s, w, p), Held(g, p), NEW m \in Sent, g.sent = Append(h.sent, m),
           Fits(Goal(h, p), m, p), Goal(g, p) = Read(Goal(h, p), m, p)
    PROVE  Steady(g, s, w, p)
<1>1. h.sent \in Seq(Sent) /\ Held(h, p) BY DEF Typed, Plain, Steady
<1>2. w \o h.sent \in Seq(Sent) /\ w \o g.sent = Append(w \o h.sent, m)
    BY <1>1, ConcatAppend
<1>3. Path(s, w \o h.sent, Goal(h, p), p) BY DEF Steady
<1>4. Viewed(Goal(h, p)) BY <1>1, GoalIs
<1>5. Path(s, Append(w \o h.sent, m), Read(Goal(h, p), m, p), p)
    BY <1>2, <1>3, <1>4, PathAppend DEF Viewed
<1> QED BY <1>2, <1>5 DEF Steady

\* A message without a key that changes none.
LEMMA UrgentSteady ==
    ASSUME NEW h, Typed(h), NEW s, Viewed(s), NEW w \in Seq(Sent), NEW p, Steady(h, s, w, p),
           h.remote # NoKey, NEW t \in {"marker", "payload"}
    PROVE  LET g == Urgent(h, t, NoKey)
           IN  Typed(g) /\ Steady(g, s, w, p) /\ Now(g) = Now(h)
<1> DEFINE g == Urgent(h, t, NoKey)
           m == [type |-> t, key |-> NoKey, under |-> h.out]
<1>1. Typed(g) /\ SameReader(g, h) /\ g.age = h.age /\ g.local = h.local
      /\ g.sent = Append(h.sent, m) /\ m \in Sent
    <2>1. /\ NoKey \in Key \cup {NoKey} /\ t \in {"skey", "ekey", "marker", "applied", "payload"}
          /\ t \notin {"skey", "ekey"}
        OBVIOUS
    <2> QED BY <2>1, UrgentTyped
<1>2. g.out = Passed(h.out, t, NoKey) BY DEF Urgent, Typed, Plain, Fields
<1>3. m.type = t /\ m.key = NoKey /\ m.under = h.out OBVIOUS
<1>4. Held(h, p) /\ h.out \in Symmetric BY DEF Steady, Typed, Plain
<1> HIDE DEF g, m
<1>5. Low(g) = Low(h) /\ Top(g) = Top(h) /\ Now(g) = Now(h) /\ g.remote = h.remote /\ g.in = h.in
      /\ g.bad = h.bad
    BY <1>1 DEF Low, Top, Now, SameReader
<1>6. h.out.log # <<>> BY <1>4 DEF Held
<1>7. g.out.log # <<>> BY <1>2, <1>4, <1>6, PassedTyped
<1>8. Held(g, p) BY <1>1, <1>4, <1>5, <1>7 DEF Held
<1>9. Goal(h, p) = View(h.out, Top(h), h.age) /\ Goal(h, p).in = h.out
      /\ Goal(h, p).low = Top(h) /\ Goal(h, p).top = h.age
    BY <1>4, GoalIs
<1>10. Fits(Goal(h, p), m, p) BY <1>3, <1>6, <1>9 DEF Fits
<1>11. Read(Goal(h, p), m, p) = View(Passed(h.out, t, NoKey), Top(h), h.age)
    BY <1>3, <1>9 DEF Read
<1>12. Goal(g, p) = View(g.out, Top(h), h.age) BY <1>1, <1>5 DEF Goal
<1>13. Steady(g, s, w, p) BY <1>1, <1>2, <1>8, <1>10, <1>11, <1>12, SendsSteady
<1> QED BY <1>1, <1>5, <1>13 DEF g

\* The first key, which goes out as it is.
LEMMA FirstKeySteady ==
    ASSUME NEW h, Typed(h), NEW s, Viewed(s), NEW w \in Seq(Sent), NEW p \in Peer,
           Steady(h, s, w, p), h.age = 0
    PROVE  LET g == NewLocalKey(h, p)
           IN  Typed(g) /\ Steady(g, s, w, p) /\ Now(g) = Now(h) /\ g.age = 1
<1> DEFINE k == <<p, 1>>
           m == [type |-> "raw", key |-> k, under |-> NoSecret]
           f == [h EXCEPT !.age = 1, !.local = Append(@, k)]
           g == NewLocalKey(h, p)
<1>1. h.remote = NoKey /\ h.local = <<>> /\ h.in = NoSecret /\ h.out = NoSecret /\ ~h.bad
    <2>1. h.remote = NoKey /\ Len(h.local) = 0 /\ h.local \in Seq(Key)
        BY DEF Typed, Plain, Steady, Held
    <2>2. h.local = <<>> BY <2>1, EmptySeq
    <2> QED BY <2>1, <2>2 DEF Steady, Held
<1>2. h.age < MaxAge BY BoundsAssumption
<1>3. Typed(g) /\ SameReader(g, h) /\ g.age = 1 BY <1>2, NewKeyTyped
<1>4. g = [f EXCEPT !.sent = Append(@, m)] BY DEF NewLocalKey, UrgentRaw
<1>5. g.sent = Append(h.sent, m) /\ g.local = Append(h.local, k) /\ g.out = h.out
    BY <1>4 DEF Typed, Plain, Fields
<1>6. m \in Sent
    <2>1. \E x \in Sent : g.sent = Append(h.sent, x) BY <1>2, NewKeyTyped
    <2>2. NoSecret \in Symmetric BY <1>1 DEF Typed, Plain
    <2>3. k \in Key BY BoundsAssumption DEF Key
    <2> QED BY <2>2, <2>3 DEF Sent, Message
<1>7. m.type = "raw" /\ m.key = k OBVIOUS
<1> HIDE DEF g, m, f
<1>8. g.local = <<k>> /\ Len(g.local) = 1 /\ g.local[1] = k BY <1>1, <1>5
<1>9. Low(g) = 1 /\ Low(h) = 1 /\ g.remote = NoKey /\ g.in = NoSecret /\ ~g.bad
    BY <1>1, <1>3, <1>8, EmptySeq, LenProperties DEF Low, SameReader
<1>10. Top(g) = 0 /\ Top(h) = 0 /\ Now(g) = Now(h) BY <1>1, <1>9 DEF Top, Now
<1>11. Held(g, p) BY <1>1, <1>3, <1>5, <1>8, <1>9 DEF Held
<1>12. Goal(h, p) = View(NoSecret, 1, 0) BY <1>1 DEF Goal
<1>13. Fits(Goal(h, p), m, p) BY <1>7, <1>12 DEF Fits
<1>14. Read(Goal(h, p), m, p) = View(MixSecret(NoSecret, <<Other(p), 1>>, k), 1, 1)
    BY <1>7, <1>12, ViewIs DEF Read
<1>15. Goal(g, p) = View(MixSecret(NoSecret, <<Other(p), 1>>, k), 1, 1)
    BY <1>3, <1>9 DEF Goal
<1>16. Steady(g, s, w, p)
    BY <1>5, <1>6, <1>11, <1>13, <1>14, <1>15, SendsSteady
<1> QED BY <1>3, <1>10, <1>16 DEF g

\* A further key, and the output key it makes.
LEMMA FurtherKeySteady ==
    ASSUME NEW h, Typed(h), NEW s, Viewed(s), NEW w \in Seq(Sent), NEW p \in Peer,
           Steady(h, s, w, p), h.remote # NoKey, h.age < MaxAge
    PROVE  LET g == UpdateOutputKey(NewLocalKey(h, p))
           IN  Typed(g) /\ Steady(g, s, w, p) /\ Now(g) = Now(h) /\ g.remote # NoKey
<1> DEFINE age == h.age + 1
           k == <<p, age>>
           t == IF age = 2 THEN "skey" ELSE "ekey"
           e == [h EXCEPT !.age = age, !.local = Append(@, k)]
           m == [type |-> t, key |-> k, under |-> h.out]
           n == NewLocalKey(h, p)
           g == UpdateOutputKey(n)
<1>1. Held(h, p) /\ h.age > 0 /\ age # 1 /\ age \in 0..MaxAge /\ h.age \in Nat
    BY BoundsAssumption DEF Steady, Typed, Plain
<1>2. Typed(n) /\ SameReader(n, h) /\ n.age = age BY NewKeyTyped
<1>3. n = Urgent(e, t, k) BY <1>1 DEF NewLocalKey
<1>4. n.sent = Append(h.sent, m) /\ n.local = Append(h.local, k) /\ n.out = Passed(h.out, t, k)
    BY <1>3 DEF Urgent, Typed, Plain, Fields
<1>5. k \in Key BY <1>1 DEF Key
<1>6. m \in Sent
    <2>1. h.out \in Symmetric BY DEF Typed, Plain
    <2> QED BY <2>1, <1>5 DEF Sent, Message
<1>7. n.remote = h.remote BY <1>2 DEF SameReader
<1>8. /\ Typed(g) /\ SameReader(g, n) /\ g.age = age /\ g.local = n.local /\ g.sent = n.sent
    <2> HIDE DEF n
    <2> QED BY <1>2, <1>7, OutputKeyTyped
<1>9. g.out = MixSecret(n.out, n.local[Len(n.local)], n.remote)
    <2> HIDE DEF n
    <2> QED BY <1>2 DEF UpdateOutputKey, OutputKey, Typed, Plain, Fields
<1>10. m.type = t /\ m.key = k /\ m.under = h.out /\ t \in {"skey", "ekey"} OBVIOUS
<1> HIDE DEF g, n, m, e, t
<1>11. /\ Len(g.local) = Len(h.local) + 1 /\ g.local[Len(h.local) + 1] = k
       /\ \A i \in 1..Len(h.local) : g.local[i] = h.local[i]
       /\ Len(h.local) \in Nat /\ h.local \in Seq(Key)
    BY <1>4, <1>5, <1>8, AppendProperties, LenProperties DEF Typed, Plain
<1>12. /\ Low(g) = Low(h) /\ g.remote = h.remote /\ g.in = h.in /\ g.bad = h.bad
       /\ Low(h) \in Nat
    <2>1. g.remote = h.remote /\ g.in = h.in /\ g.bad = h.bad
        BY <1>2, <1>8 DEF SameReader
    <2>2. Low(g) = Low(h) BY <1>1, <1>8, <1>11, SMTT(60) DEF Low
    <2> QED BY <2>1, <2>2, <1>1, GoalIs
<1>13. Top(g) = Top(h) /\ Now(g) = Now(h) BY <1>12 DEF Top, Now
<1>14. g.out = MixSecret(Passed(h.out, t, k), k, h.remote)
    <2>1. n.local[Len(n.local)] = k BY <1>8, <1>11
    <2> QED BY <2>1, <1>4, <1>7, <1>9
<1>15. h.remote = <<Other(p), Top(h)>> /\ h.out.log # <<>> BY <1>1 DEF Held
<1>16. g.out.log # <<>>
    <2>1. Passed(h.out, t, k) \in Symmetric
        <3>1. t \in {"skey", "ekey", "marker", "applied", "payload"} BY <1>10
        <3>2. h.out \in Symmetric BY DEF Typed, Plain
        <3> QED BY <3>1, <3>2, <1>5, PassedTyped
    <2>2. h.remote \in Key BY DEF Typed, Plain
    <2>3. \A x \in Symmetric, a, b \in Key : MixSecret(x, a, b).log # <<>>
        BY MixSecretTyped
    <2> HIDE DEF k
    <2> QED BY <2>1, <2>2, <2>3, <1>5, <1>14
<1>17. Held(g, p)
    <2>1. ASSUME NEW i \in 1..Len(g.local) PROVE g.local[i] = <<p, Low(g) + i - 1>>
        <3>1. CASE i = Len(h.local) + 1
            <4>1. Low(g) + i - 1 = age BY <3>1, <1>1, <1>11, <1>12 DEF Low
            <4> QED BY <3>1, <4>1, <1>11
        <3>2. CASE i \in 1..Len(h.local) BY <3>2, <1>1, <1>11, <1>12 DEF Held
        <3> QED BY <3>1, <3>2, <1>11
    <2>2. Len(g.local) <= g.age BY <1>1, <1>8, <1>11 DEF Held
    <2> QED BY <2>1, <2>2, <1>1, <1>12, <1>13, <1>16 DEF Held
<1>18. /\ Goal(h, p) = View(h.out, Top(h), h.age) /\ Goal(h, p).in = h.out
       /\ Goal(h, p).low = Top(h) /\ Goal(h, p).top = h.age
    BY <1>1, GoalIs
<1>19. Fits(Goal(h, p), m, p) BY <1>1, <1>10, <1>15, <1>18 DEF Fits
<1>20. Read(Goal(h, p), m, p) = View(MixSecret(Passed(h.out, t, k), <<Other(p), Top(h)>>, k), Top(h), age)
    BY <1>10, <1>18 DEF Read
<1>21. Goal(g, p) = View(g.out, Top(h), age) BY <1>8, <1>12, <1>13 DEF Goal
<1>22. Goal(g, p) = Read(Goal(h, p), m, p) BY <1>14, <1>15, <1>20, <1>21, SecretOfBoth, SMTT(60)
<1>23. Steady(g, s, w, p)
    BY <1>4, <1>6, <1>8, <1>17, <1>19, <1>22, SendsSteady
<1> QED BY <1>8, <1>12, <1>13, <1>23 DEF g, n

LEMMA GrowLocalSteady ==
    ASSUME NEW h, Typed(h), NEW s, Viewed(s), NEW w \in Seq(Sent), NEW p \in Peer,
           Steady(h, s, w, p), h.remote # NoKey, h.age < MaxAge
    PROVE  LET g == GrowLocalKey(h, p)
           IN  Typed(g) /\ Steady(g, s, w, p) /\ Now(g) = Now(h) /\ g.remote # NoKey
<1> DEFINE n == NewLocalKey(h, p)
           f == UpdateOutputKey(n)
           u == Urgent(f, "marker", NoKey)
           g == GrowLocalKey(h, p)
<1>1. Typed(f) /\ Steady(f, s, w, p) /\ Now(f) = Now(h) /\ f.remote # NoKey
    BY FurtherKeySteady
<1>2. Typed(g) /\ SameReader(g, h) BY GrowLocalTyped
<1>3. h.markerSent => g = f
    <2>1. Typed(n) /\ SameReader(n, h) /\ n.markerSent = h.markerSent BY NewKeyTyped
    <2>2. n.remote = h.remote BY <2>1 DEF SameReader
    <2> QED BY <2>2 DEF GrowLocalKey
<1>4. ~h.markerSent => g = [u EXCEPT !.markerSent = TRUE]
    <2>1. Typed(n) /\ SameReader(n, h) /\ n.markerSent = h.markerSent BY NewKeyTyped
    <2>2. n.remote = h.remote BY <2>1 DEF SameReader
    <2> QED BY <2>2 DEF GrowLocalKey
<1> HIDE DEF f, g
<1>5. Typed(u) /\ Steady(u, s, w, p) /\ Now(u) = Now(f) BY <1>1, UrgentSteady
<1> HIDE DEF u
<1>6. CASE h.markerSent BY <1>1, <1>2, <1>3, <1>6 DEF g
<1>7. CASE ~h.markerSent
    <2>1. Alike(g, u) BY <1>4, <1>5, <1>7 DEF Typed, Plain, Fields, Alike
    <2>2. Steady(g, s, w, p) /\ Now(g) = Now(u) BY <1>5, <2>1, AlikeSteady
    <2>3. g.remote # NoKey BY <1>2 DEF SameReader
    <2> QED BY <2>2, <2>3, <1>1, <1>2, <1>5 DEF g
<1> QED BY <1>6, <1>7

LEMMA FlushSteady ==
    ASSUME NEW h, Typed(h), NEW s, Viewed(s), NEW w \in Seq(Sent), NEW p \in Peer,
           Steady(h, s, w, p), h.remote # NoKey, NEW enough \in BOOLEAN,
           enough => h.age < MaxAge
    PROVE  LET g == FlushPayload(h, p, enough)
           IN  Steady(g, s, w, p) /\ Now(g) = Now(h)
<1> DEFINE u == Urgent(h, "payload", NoKey)
           f == [u EXCEPT !.payload = FALSE]
           g == FlushPayload(h, p, enough)
<1>1. Typed(f) /\ SameReader(f, h) /\ f.age = h.age BY PayloadTyped
<1>2. Typed(u) /\ Steady(u, s, w, p) /\ Now(u) = Now(h) BY UrgentSteady
<1>3. g = IF enough THEN GrowLocalKey(f, p) ELSE f BY DEF FlushPayload
<1> HIDE DEF u
<1>4. Alike(f, u) BY <1>2 DEF Typed, Plain, Fields, Alike
<1> HIDE DEF f, g
<1>5. Steady(f, s, w, p) /\ Now(f) = Now(h) /\ f.remote # NoKey
    BY <1>1, <1>2, <1>4, AlikeSteady DEF SameReader
<1>6. CASE enough
    <2>1. Steady(GrowLocalKey(f, p), s, w, p) /\ Now(GrowLocalKey(f, p)) = Now(f)
        BY <1>1, <1>5, <1>6, GrowLocalSteady
    <2> QED BY <2>1, <1>3, <1>5, <1>6 DEF g
<1>7. CASE ~enough BY <1>3, <1>5, <1>7 DEF g
<1> QED BY <1>6, <1>7

LEMMA AllowSteady ==
    ASSUME NEW h, Typed(h), NEW s, Viewed(s), NEW w \in Seq(Sent), NEW p \in Peer,
           Steady(h, s, w, p), h.remote # NoKey, NEW enough \in BOOLEAN,
           enough => h.age < MaxAge
    PROVE  LET g == AllowPayload(h, p, enough)
           IN  Steady(g, s, w, p) /\ Now(g) = Now(h)
<1> DEFINE f == [h EXCEPT !.allowed = TRUE]
           g == AllowPayload(h, p, enough)
<1>1. /\ DOMAIN f = Fields /\ SameReader(f, h) /\ f.age = h.age /\ f.local = h.local
      /\ f.allowed = TRUE /\ f.payload = h.payload /\ f.markerSent = h.markerSent
      /\ f.sent = h.sent /\ f.out = h.out
    BY DEF Typed, Plain, Fields, SameReader
<1>2. g = IF f.payload THEN FlushPayload(f, p, enough) ELSE f BY DEF AllowPayload
<1> HIDE DEF f, g
<1>3. Typed(f) /\ f.remote # NoKey /\ Alike(f, h)
    BY <1>1 DEF Typed, Plain, SameReader, Alike
<1>4. Steady(f, s, w, p) /\ Now(f) = Now(h) BY <1>3, AlikeSteady
<1>5. Steady(FlushPayload(f, p, enough), s, w, p) /\ Now(FlushPayload(f, p, enough)) = Now(f)
    BY <1>1, <1>3, <1>4, FlushSteady
<1> QED BY <1>2, <1>4, <1>5 DEF g

-----------------------------------------------------------------------------
(* What handles something that came in.                                    *)

LEMMA GrowRemote0Steady ==
    ASSUME NEW h, Typed(h), NEW s, Viewed(s), NEW w \in Seq(Sent), NEW p \in Peer,
           Steady(h, s, w, p), h.remote = NoKey, h.age > 0, h.age < MaxAge,
           NEW enough \in BOOLEAN, enough => h.age + 1 < MaxAge
    PROVE  LET k == <<Other(p), 1>>
               g == GrowRemoteKey0(h, p, k, enough)
           IN  Steady(g, s, w, p) /\ Now(g) = View(MixSecret(NoSecret, <<p, 1>>, k), 1, 1)
<1> DEFINE k == <<Other(p), 1>>
           f == [h EXCEPT !.remote = k]
           u == UpdateKeys(f)
           n == GrowLocalKey(u, p)
           g == GrowRemoteKey0(h, p, k, enough)
<1>1. Held(h, p) BY DEF Steady
<1>2. h.age = 1 /\ Len(h.local) = 1 /\ h.in = NoSecret /\ h.out = NoSecret /\ ~h.bad
      /\ h.local \in Seq(Key)
    <2>1. h.age \in Nat /\ h.local \in Seq(Key) BY BoundsAssumption DEF Typed, Plain
    <2>2. h.age <= 1 /\ Len(h.local) = h.age /\ h.in = NoSecret /\ h.out = NoSecret /\ ~h.bad
        BY <1>1 DEF Held
    <2>3. h.age = 1 BY <2>1, <2>2
    <2> QED BY <2>1, <2>2, <2>3
<1>3. h.local[1] = <<p, 1>> /\ Low(h) = 1
    <2>1. Low(h) = 1 BY <1>2 DEF Low
    <2>2. h.local[1] = <<p, Low(h) + 1 - 1>> BY <1>1, <1>2 DEF Held
    <2> QED BY <2>1, <2>2
<1>4. Head(h.local) = <<p, 1>> BY <1>3
<1>5. k \in Key /\ k # NoKey /\ k[2] = 1
    <2>1. k \in Key /\ k[2] = 1 BY OtherPeer, BoundsAssumption DEF Key
    <2> QED BY <2>1, KeyIsOne
<1>6. /\ Plain(f) /\ f.remote = k /\ f.age = h.age /\ f.local = h.local /\ f.in = h.in
      /\ f.out = h.out /\ f.sent = h.sent /\ f.bad = h.bad
    BY <1>5 DEF Typed, Plain, Fields
<1> HIDE DEF k, f
<1>7. /\ Typed(u) /\ u.in = InputKey(f) /\ u.remote = k /\ u.age = 1 /\ u.local = h.local
      /\ u.sent = h.sent /\ u.bad = h.bad
    BY <1>2, <1>5, <1>6, UpdateKeysTyped
<1>8. u.out = OutputKey(f) BY <1>6 DEF UpdateKeys, Plain, Fields
<1>9. /\ u.in = MixSecret(NoSecret, <<p, 1>>, k) /\ u.out = MixSecret(NoSecret, <<p, 1>>, k)
    BY <1>2, <1>3, <1>4, <1>6, <1>7, <1>8 DEF InputKey, OutputKey
<1> HIDE DEF u
<1>10. Low(u) = 1 /\ Top(u) = 1 /\ u.remote # NoKey
    <2>1. u.age = 1 /\ Len(u.local) = 1 /\ u.remote # NoKey /\ u.remote[2] = 1
        BY <1>2, <1>5, <1>7
    <2> QED BY <2>1 DEF Low, Top
<1>11. u.out.log # <<>>
    <2>1. u.in.log # <<>> BY <1>7, <1>10 DEF Typed
    <2> QED BY <2>1, <1>9
<1>12. Held(u, p)
    <2>1. \A i \in 1..Len(u.local) : u.local[i] = <<p, Low(u) + i - 1>>
        BY <1>2, <1>3, <1>7, <1>10
    <2>2. u.remote = <<Other(p), Top(u)>> BY <1>7, <1>10 DEF k
    <2> QED BY <2>1, <2>2, <1>2, <1>7, <1>10, <1>11 DEF Held
<1>13. Goal(u, p) = View(MixSecret(NoSecret, <<p, 1>>, k), 1, 1) BY <1>7, <1>9, <1>10 DEF Goal
<1>14. Goal(h, p) = View(MixSecret(NoSecret, k, <<p, 1>>), 1, 1) BY <1>2 DEF Goal, k
<1>15. Goal(u, p) = Goal(h, p) BY <1>13, <1>14, SecretOfBoth
<1>16. Steady(u, s, w, p) BY <1>7, <1>12, <1>15 DEF Steady
<1>17. Now(u) = View(MixSecret(NoSecret, <<p, 1>>, k), 1, 1) BY <1>9, <1>10 DEF Now
<1>18. u.age < MaxAge BY <1>2, <1>7
<1>19. Typed(n) /\ Steady(n, s, w, p) /\ Now(n) = Now(u) /\ n.remote # NoKey
    BY <1>7, <1>10, <1>16, <1>18, GrowLocalSteady
<1>20. n.age = 2 BY <1>7, <1>18, GrowLocalTyped
<1>21. g = AllowPayload(n, p, enough) BY <1>20 DEF GrowRemoteKey0, u, f
<1> HIDE DEF n, g
<1>22. enough => n.age < MaxAge BY <1>2, <1>20
<1>23. Steady(g, s, w, p) /\ Now(g) = Now(n) BY <1>19, <1>21, <1>22, AllowSteady
<1> QED BY <1>17, <1>19, <1>23 DEF g, k

\* A further key of the other end is confirmed and taken.
LEMMA GrowRemoteSteady ==
    ASSUME NEW h, Typed(h), NEW s, Viewed(s), NEW w \in Seq(Sent), NEW p \in Peer,
           Steady(h, s, w, p), h.remote # NoKey, NEW k \in Key,
           k = <<Other(p), Top(h) + 1>>, NEW isStatic \in BOOLEAN
    PROVE  LET g == GrowRemoteKey(h, k, isStatic)
           IN  /\ Steady(g, s, w, p)
               /\ Now(g) = View(MixSecret(h.in, <<p, Low(h)>>, k), Low(h), Top(h) + 1)
<1> DEFINE f == [h EXCEPT !.remote = k]
           u == Urgent(f, "applied", NoKey)
           n == UpdateKeys(u)
           m == [type |-> "applied", key |-> NoKey, under |-> h.out]
           g == GrowRemoteKey(h, k, isStatic)
<1>1. Held(h, p) /\ h.age > 0 /\ h.age \in Nat /\ Low(h) \in Nat \ {0} /\ Top(h) \in Nat \ {0}
    <2>1. Held(h, p) BY DEF Steady
    <2>2. h.age \in Nat BY BoundsAssumption DEF Typed, Plain
    <2> QED BY <2>1, <2>2, GoalIs
<1>2. k # NoKey /\ k[2] = Top(h) + 1 BY KeyIsOne
<1>3. Typed(f) /\ f.remote = k /\ f.age = h.age /\ f.local = h.local /\ f.in = h.in
      /\ f.out = h.out /\ f.sent = h.sent /\ f.bad = h.bad
    BY <1>1, <1>2 DEF Typed, Plain, Fields
<1>4. m.type = "applied" /\ m.key = NoKey /\ m.under = h.out OBVIOUS
<1> HIDE DEF f
<1>5. /\ Typed(u) /\ SameReader(u, f) /\ u.age = f.age /\ u.local = f.local
      /\ u.sent = Append(h.sent, m) /\ m \in Sent
    <2>1. /\ NoKey \in Key \cup {NoKey} /\ "applied" \notin {"skey", "ekey"}
          /\ "applied" \in {"skey", "ekey", "marker", "applied", "payload"}
        OBVIOUS
    <2>2. /\ Typed(u) /\ SameReader(u, f) /\ u.age = f.age /\ u.local = f.local
          /\ u.sent = Append(f.sent, [type |-> "applied", key |-> NoKey, under |-> f.out])
          /\ [type |-> "applied", key |-> NoKey, under |-> f.out] \in Sent
        BY <2>1, <1>3, UrgentTyped
    <2> QED BY <2>2, <1>3
<1>6. u.out = Passed(h.out, "applied", NoKey) BY <1>3 DEF Urgent, Typed, Plain, Fields
<1> HIDE DEF u, m
<1>7. u.remote = k /\ u.in = h.in /\ u.bad = h.bad BY <1>3, <1>5 DEF SameReader
<1>8. /\ Typed(n) /\ n.in = InputKey(u) /\ n.remote = k /\ n.age = h.age /\ n.local = h.local
      /\ n.sent = u.sent /\ n.bad = h.bad
    BY <1>3, <1>5, <1>7, UpdateKeysTyped DEF Typed
<1>9. n.out = OutputKey(u) BY <1>5 DEF UpdateKeys, Typed, Plain, Fields
<1>10. g = IF isStatic THEN [n EXCEPT !.initiated = TRUE, !.authRemote = k] ELSE n
    BY DEF GrowRemoteKey, f, u
<1>11. Head(h.local) = <<p, Low(h)>> /\ h.local[Len(h.local)] = <<p, h.age>>
    <2>1. h.local \in Seq(Key) /\ h.local # <<>> /\ Len(h.local) \in Nat
        BY <1>1, LenProperties DEF Typed, Plain
    <2>2. Len(h.local) >= 1 BY <2>1, EmptySeq
    <2>3. h.local[1] = <<p, Low(h) + 1 - 1>> BY <2>1, <2>2, <1>1 DEF Held
    <2>4. h.local[Len(h.local)] = <<p, Low(h) + Len(h.local) - 1>> BY <2>1, <2>2, <1>1 DEF Held
    <2>5. Low(h) + Len(h.local) - 1 = h.age BY <2>1, <1>1 DEF Low
    <2> QED BY <2>3, <2>4, <2>5, <1>1
<1>12. n.in = MixSecret(h.in, <<p, Low(h)>>, k)
    BY <1>3, <1>5, <1>7, <1>8, <1>11 DEF InputKey
<1>13. n.out = MixSecret(Passed(h.out, "applied", NoKey), <<p, h.age>>, k)
    BY <1>3, <1>5, <1>6, <1>7, <1>9, <1>11 DEF OutputKey
<1> HIDE DEF n
<1>14. Low(n) = Low(h) /\ Top(n) = Top(h) + 1 BY <1>2, <1>8 DEF Low, Top
<1>15. h.out.log # <<>> /\ h.remote # NoKey BY <1>1 DEF Held
<1>16. n.out.log # <<>>
    <2>1. Passed(h.out, "applied", NoKey) \in Symmetric
        <3>1. h.out \in Symmetric BY DEF Typed, Plain
        <3> QED BY <3>1, PassedTyped
    <2>2. <<p, h.age>> \in Key
        <3>1. h.age \in 0..MaxAge BY DEF Typed, Plain
        <3> QED BY <3>1 DEF Key
    <2>3. \A x \in Symmetric, a, b \in Key : MixSecret(x, a, b).log # <<>>
        BY MixSecretTyped
    <2> QED BY <2>1, <2>2, <2>3, <1>13
<1>17. Held(n, p)
    <2>1. n.remote = <<Other(p), Top(n)>> /\ Top(n) \in Nat \ {0} BY <1>1, <1>8, <1>14
    <2> QED BY <2>1, <1>1, <1>2, <1>8, <1>14, <1>16 DEF Held
<1>18. /\ Goal(h, p) = View(h.out, Top(h), h.age) /\ Goal(h, p).in = h.out
       /\ Goal(h, p).low = Top(h) /\ Goal(h, p).top = h.age
    BY <1>1, GoalIs
<1>19. Fits(Goal(h, p), m, p) BY <1>4, <1>15, <1>18 DEF Fits, m
<1>20. Read(Goal(h, p), m, p)
        = View(MixSecret(Passed(h.out, "applied", NoKey), <<Other(p), Top(h) + 1>>, <<p, h.age>>),
               Top(h) + 1, h.age)
    BY <1>18 DEF Read, m
<1>21. Goal(n, p) = View(n.out, Top(h) + 1, h.age) BY <1>2, <1>8, <1>14 DEF Goal
<1>22. Goal(n, p) = Read(Goal(h, p), m, p) BY <1>13, <1>20, <1>21, SecretOfBoth
<1>23. Steady(n, s, w, p)
    BY <1>5, <1>8, <1>17, <1>19, <1>22, SendsSteady
<1>24. Now(n) = View(MixSecret(h.in, <<p, Low(h)>>, k), Low(h), Top(h) + 1)
    BY <1>12, <1>14 DEF Now
<1>25. Alike(g, n) BY <1>8, <1>10 DEF Typed, Plain, Fields, Alike
<1> HIDE DEF g
<1>26. Steady(g, s, w, p) /\ Now(g) = Now(n) BY <1>23, <1>25, AlikeSteady
<1> QED BY <1>24, <1>26 DEF g

LEMMA CropSteady ==
    ASSUME NEW h, Typed(h), NEW s, NEW w, NEW p \in Peer,
           Steady(h, s, w, p), h.remote # NoKey, Low(h) + 1 <= h.age
    PROVE  LET g == CropLocalKey(h)
           IN  /\ Steady(g, s, w, p)
               /\ Now(g) = View(MixSecret(h.in, <<p, Low(h) + 1>>, h.remote), Low(h) + 1, Top(h))
<1> DEFINE g == CropLocalKey(h)
           t == Tail(h.local)
<1>1. Held(h, p) /\ h.age \in Nat /\ h.local \in Seq(Key) /\ Len(h.local) \in Nat
    BY BoundsAssumption, LenProperties DEF Steady, Typed, Plain
<1>2. Len(h.local) > 1 BY <1>1 DEF Low
<1>3. h.local # <<>> /\ Len(t) = Len(h.local) - 1 /\ (\A i \in 1..Len(t) : t[i] = h.local[i + 1])
    <2>1. h.local # <<>> BY <1>2, EmptySeq
    <2> QED BY <2>1, <1>1, HeadTailProperties
<1>4. ~(Len(h.local) <= 1) BY <1>1, <1>2
<1>5. /\ g.local = t /\ g.in = MixSecret(h.in, Head(t), h.remote)
      /\ g.sent = h.sent /\ g.age = h.age /\ g.remote = h.remote /\ g.out = h.out /\ g.bad = h.bad
    BY <1>4 DEF CropLocalKey, UpdateInputKey, InputKey, Typed, Plain, Fields
<1> HIDE DEF g, t
<1>6. Low(g) = Low(h) + 1 /\ Top(g) = Top(h) BY <1>1, <1>3, <1>5 DEF Low, Top
<1>7. ASSUME NEW i \in 1..Len(t) PROVE t[i] = <<p, Low(g) + i - 1>>
    <2>1. i + 1 \in 1..Len(h.local) /\ t[i] = h.local[i + 1] BY <1>1, <1>3
    <2>2. h.local[i + 1] = <<p, Low(h) + (i + 1) - 1>> BY <2>1, <1>1 DEF Held
    <2>3. Low(h) + (i + 1) - 1 = Low(g) + i - 1 BY <1>1, <1>6 DEF Low
    <2> QED BY <2>1, <2>2, <2>3
<1>8. Head(t) = <<p, Low(h) + 1>>
    <2>1. 1 \in 1..Len(t) BY <1>1, <1>2, <1>3
    <2>2. t[1] = <<p, Low(g) + 1 - 1>> BY <2>1, <1>7
    <2>3. Low(g) + 1 - 1 = Low(h) + 1 BY <1>1, <1>6 DEF Low
    <2>4. Head(t) = t[1] OBVIOUS
    <2> QED BY <2>2, <2>3, <2>4
<1>9. Held(g, p)
    <2>1. Len(g.local) <= g.age BY <1>1, <1>3, <1>5 DEF Held
    <2>2. \A i \in 1..Len(g.local) : g.local[i] = <<p, Low(g) + i - 1>> BY <1>5, <1>7
    <2> QED BY <2>1, <2>2, <1>1, <1>5, <1>6 DEF Held
<1>10. Goal(g, p) = Goal(h, p) BY <1>5, <1>6 DEF Goal
<1>11. Steady(g, s, w, p) BY <1>5, <1>9, <1>10 DEF Steady
<1>12. Now(g) = View(MixSecret(h.in, <<p, Low(h) + 1>>, h.remote), Low(h) + 1, Top(h))
    BY <1>5, <1>6, <1>8 DEF Now
<1> QED BY <1>11, <1>12 DEF g

\* A message that fits the view of h is taken as Read says.
LEMMA ReadSteady ==
    ASSUME NEW h, Typed(h), NEW s, Viewed(s), NEW w \in Seq(Sent), NEW p \in Peer,
           Steady(h, s, w, p), h.remote # NoKey, h.begun, NEW m \in Sent, m.type # "raw",
           Fits(Now(h), m, Other(p)), m.type = "applied" => Low(h) + 1 <= h.age
    PROVE  LET g == InputComing(Deciphered(h, m), m)
           IN  Steady(g, s, w, p) /\ Now(g) = Read(Now(h), m, Other(p))
<1> DEFINE d == Deciphered(h, m)
           g == InputComing(d, m)
           i == Passed(h.in, m.type, m.key)
<1>1. Typed(d) BY DecipheredTyped
<1>2. /\ d.in = i /\ d.sent = h.sent /\ d.age = h.age /\ d.local = h.local
      /\ d.remote = h.remote /\ d.out = h.out /\ d.bad = h.bad
    BY DEF Deciphered, Typed, Plain, Fields
<1>3. Now(h).in = h.in /\ Now(h).low = Low(h) /\ Now(h).top = Top(h) BY ViewIs DEF Now
<1>4. Other(Other(p)) = p /\ Other(p) \in Peer BY OtherPeer
<1>5. m.type \in {"skey", "ekey", "marker", "applied", "payload"}
      /\ (m.type \in {"skey", "ekey"} => m.key \in Key)
    BY DEF Sent, Message
<1> HIDE DEF d, i
<1>6. Low(d) = Low(h) /\ Top(d) = Top(h) BY <1>2 DEF Low, Top
<1>7. Steady(d, s, w, p)
    <2>1. Goal(d, p) = Goal(h, p) BY <1>2, <1>6 DEF Goal
    <2>2. Held(h, p) BY DEF Steady
    <2>3. Held(d, p) BY <2>2, <1>2, <1>6 DEF Held
    <2> QED BY <2>1, <2>3, <1>2 DEF Steady
<1>8. CASE m.type \in {"skey", "ekey"}
    <2>1. m.key = <<Other(p), Top(h) + 1>> BY <1>3, <1>8 DEF Fits
    <2>2. \A b \in BOOLEAN :
            /\ Steady(GrowRemoteKey(d, m.key, b), s, w, p)
            /\ Now(GrowRemoteKey(d, m.key, b))
                = View(MixSecret(d.in, <<p, Low(d)>>, m.key), Low(d), Top(d) + 1)
        BY <2>1, <1>1, <1>2, <1>5, <1>6, <1>7, <1>8, GrowRemoteSteady
    <2>3. g = GrowRemoteKey(d, m.key, TRUE) \/ g = GrowRemoteKey(d, m.key, FALSE)
        BY <1>8 DEF InputComing
    <2> HIDE DEF g
    <2>4. /\ Steady(g, s, w, p)
          /\ Now(g) = View(MixSecret(d.in, <<p, Low(d)>>, m.key), Low(d), Top(d) + 1)
        BY <2>2, <2>3
    <2>5. Read(Now(h), m, Other(p)) = View(MixSecret(i, <<p, Low(h)>>, m.key), Low(h), Top(h) + 1)
        BY <1>3, <1>4, <1>8 DEF Read, i
    <2> QED BY <2>4, <2>5, <1>2, <1>6 DEF g, d
<1>9. CASE m.type = "applied"
    <2>1. g = CropLocalKey(d) BY <1>9 DEF InputComing
    <2>2. Low(d) + 1 <= d.age BY <1>2, <1>6, <1>9
    <2> HIDE DEF g
    <2>3. /\ Steady(g, s, w, p)
          /\ Now(g) = View(MixSecret(d.in, <<p, Low(d) + 1>>, d.remote), Low(d) + 1, Top(d))
        BY <2>1, <2>2, <1>1, <1>2, <1>7, CropSteady
    <2>4. h.remote = <<Other(p), Top(h)>> BY DEF Steady, Held
    <2>5. Read(Now(h), m, Other(p))
            = View(MixSecret(i, <<p, Low(h) + 1>>, <<Other(p), Top(h)>>), Low(h) + 1, Top(h))
        BY <1>3, <1>4, <1>9 DEF Read, i
    <2> QED BY <2>3, <2>4, <2>5, <1>2, <1>6 DEF g, d
<1>10. CASE m.type \in {"marker", "payload"}
    <2>1. g = [d EXCEPT !.markerSeen = TRUE] \/ g = [d EXCEPT !.got = TRUE]
        BY <1>10 DEF InputComing
    <2> HIDE DEF g
    <2>2. Alike(g, d) BY <2>1, <1>1 DEF Typed, Plain, Fields, Alike
    <2>3. Steady(g, s, w, p) /\ Now(g) = Now(d) BY <2>2, <1>7, AlikeSteady
    <2>4. Read(Now(h), m, Other(p)) = View(i, Low(h), Top(h)) BY <1>3, <1>10 DEF Read, i
    <2>5. Now(d) = View(i, Low(h), Top(h)) BY <1>2, <1>6 DEF Now
    <2> QED BY <2>3, <2>4, <2>5 DEF g, d
<1> QED BY <1>5, <1>8, <1>9, <1>10

-----------------------------------------------------------------------------
(* The steps.                                                              *)

LEMMA WireSteady ==
    ASSUME IInv, SInv, NEW p \in Peer
    PROVE  /\ Typed(hs[p]) /\ Held(hs[p], p) /\ Viewed(Now(hs[p])) /\ wire[p] \in Seq(Sent)
           /\ Path(Now(hs[Other(p)]), wire[p], Goal(hs[p], p), p)
<1>1. Typed(hs[p]) /\ wire[p] \in Seq(Sent) /\ hs[p].sent = <<>> BY DEF IInv
<1>2. Held(hs[p], p) /\ Path(Now(hs[Other(p)]), wire[p] \o hs[p].sent, Goal(hs[p], p), p)
    BY DEF SInv, Steady
<1>3. wire[p] \o hs[p].sent = wire[p] BY <1>1, ConcatEmptySeq
<1> QED BY <1>1, <1>2, <1>3, GoalIs

LEMMA BecomesSteady ==
    ASSUME IInv, SInv, NEW p \in Peer, NEW g, Typed(g), NEW w, DOMAIN w = Peer,
           Becomes(p, g, w), w[p] = wire[p], w[Other(p)] \in Seq(Sent),
           Steady(g, Now(hs[Other(p)]), wire[p], p),
           Path(Now(g), w[Other(p)], Goal(hs[Other(p)], Other(p)), Other(p))
    PROVE  SInv'
<1> DEFINE f == [g EXCEPT !.sent = <<>>]
           q == Other(p)
<1>1. hs' = [hs EXCEPT ![p] = f] /\ wire' = [w EXCEPT ![p] = @ \o g.sent]
    BY DEF Becomes
<1>2. q \in Peer /\ q # p /\ Other(q) = p /\ \A r \in Peer : r = p \/ r = q BY OtherPeer
<1>3. /\ f.sent = <<>> /\ f.age = g.age /\ f.local = g.local /\ f.remote = g.remote
      /\ f.in = g.in /\ f.out = g.out /\ f.bad = g.bad
    BY DEF Typed, Plain, Fields
<1> HIDE DEF f, q
<1>4. hs'[p] = f /\ hs'[q] = hs[q] /\ wire'[p] = wire[p] \o g.sent /\ wire'[q] = w[q]
    BY <1>1, <1>2 DEF IInv
<1>5. Low(f) = Low(g) /\ Top(f) = Top(g) BY <1>3 DEF Low, Top
<1>6. Now(f) = Now(g) /\ Goal(f, p) = Goal(g, p) BY <1>3, <1>5 DEF Now, Goal
<1>7. Held(f, p) BY <1>3, <1>5 DEF Steady, Held
<1>8. Steady(f, Now(hs[q]), wire'[p], p)
    <2>1. wire[p] \o g.sent \in Seq(Sent) BY ConcatProperties DEF IInv, Typed, Plain
    <2>2. wire'[p] \o f.sent = wire[p] \o g.sent BY <2>1, <1>3, <1>4, ConcatEmptySeq
    <2> QED BY <2>2, <1>6, <1>7 DEF Steady, q
<1>9. Steady(hs[q], Now(f), wire'[q], q)
    <2>1. Held(hs[q], q) /\ hs[q].sent = <<>> BY <1>2 DEF SInv, Steady, IInv
    <2>2. wire'[q] \o hs[q].sent = w[q] BY <2>1, <1>4, ConcatEmptySeq DEF q
    <2> QED BY <2>1, <2>2, <1>6 DEF Steady, q
<1>10. ASSUME NEW r \in Peer PROVE Steady(hs'[r], Now(hs'[Other(r)]), wire'[r], r)
    <2>1. CASE r = p
        <3>1. Other(r) = q BY <2>1 DEF q
        <3> QED BY <3>1, <2>1, <1>4, <1>8
    <2>2. CASE r = q
        <3>1. Other(r) = p BY <2>2, <1>2
        <3> QED BY <3>1, <2>2, <1>4, <1>9
    <2> QED BY <2>1, <2>2, <1>2
<1> QED BY <1>10 DEF SInv

\* p only puts something out.
LEMMA WritesSteady ==
    ASSUME IInv, SInv, NEW p \in Peer, NEW g, Typed(g), Becomes(p, g, wire),
           Steady(g, Now(hs[Other(p)]), wire[p], p), Now(g) = Now(hs[p])
    PROVE  SInv'
<1>1. Other(p) \in Peer /\ Other(Other(p)) = p BY OtherPeer
<1>2. Path(Now(g), wire[Other(p)], Goal(hs[Other(p)], Other(p)), Other(p))
      /\ wire[Other(p)] \in Seq(Sent)
    BY <1>1, WireSteady
<1>3. DOMAIN wire = Peer BY DEF IInv
<1> QED BY <1>2, <1>3, BecomesSteady

LEMMA BeginSInv ==
    ASSUME IInv, SInv, NEW p \in Peer, Begin(p)
    PROVE  SInv'
<1> DEFINE g == [hs[p] EXCEPT !.begun = TRUE]
<1>1. Typed(g) /\ Alike(g, hs[p]) BY DEF IInv, Typed, Plain, Fields, Alike
<1>2. Becomes(p, g, wire) BY DEF Begin
<1> HIDE DEF g
<1>3. Steady(g, Now(hs[Other(p)]), wire[p], p) /\ Now(g) = Now(hs[p])
    BY <1>1, AlikeSteady DEF SInv
<1> QED BY <1>1, <1>2, <1>3, WritesSteady

LEMMA AskSInv ==
    ASSUME IInv, SInv, NEW p \in Peer, Ask(p)
    PROVE  SInv'
<1> DEFINE g == [hs[p] EXCEPT !.waiting = @ + 1]
<1>1. ~hs[p].begun /\ Becomes(p, g, wire) BY DEF Ask
<1>2. Typed(g) /\ Alike(g, hs[p]) BY <1>1 DEF IInv, Typed, Plain, Fields, Alike
<1> HIDE DEF g
<1>3. Steady(g, Now(hs[Other(p)]), wire[p], p) /\ Now(g) = Now(hs[p])
    BY <1>2, AlikeSteady DEF SInv
<1> QED BY <1>1, <1>2, <1>3, WritesSteady

LEMMA PayloadSInv ==
    ASSUME IInv, OInv, SInv, NEW p \in Peer, Payload(p)
    PROVE  SInv'
<1> DEFINE h == [hs[p] EXCEPT !.given = @ + 1, !.payload = TRUE]
           s == Now(hs[Other(p)])
<1>1. hs[p].begun /\ hs[p].given < MaxPayload BY DEF Payload
<1>2. Typed(h) /\ Alike(h, hs[p]) /\ h.allowed = hs[p].allowed
    BY <1>1, BoundsAssumption DEF IInv, Typed, Plain, Fields, Alike
<1>3. PICK enough \in BOOLEAN :
        \/ h.allowed /\ MayGrow(p, enough) /\ Becomes(p, FlushPayload(h, p, enough), wire)
        \/ ~h.allowed /\ h.age = 0 /\ Becomes(p, NewLocalKey(h, p), wire)
        \/ Becomes(p, h, wire)
    BY DEF Payload
<1> HIDE DEF h, s
<1>4. Steady(h, s, wire[p], p) /\ Now(h) = Now(hs[p]) BY <1>2, AlikeSteady DEF SInv, s
<1>5. wire[p] \in Seq(Sent) /\ Viewed(s) BY WireSteady, OtherPeer DEF s
<1>6. CASE h.allowed /\ MayGrow(p, enough) /\ Becomes(p, FlushPayload(h, p, enough), wire)
    <2> DEFINE g == FlushPayload(h, p, enough)
    <2>1. enough => h.age < MaxAge BY <1>6, <1>2 DEF MayGrow, Alike
    <2>2. h.remote # NoKey
        <3>1. hs[p].remote # NoKey BY <1>2, <1>6 DEF OInv, Own
        <3> QED BY <3>1, <1>2 DEF Alike
    <2>3. Typed(g) BY <1>2, <2>1, FlushTyped
    <2>4. Steady(g, s, wire[p], p) /\ Now(g) = Now(h)
        BY <1>2, <1>4, <1>5, <2>1, <2>2, FlushSteady
    <2> HIDE DEF g
    <2>5. Becomes(p, g, wire) BY <1>6 DEF g
    <2> QED BY <2>3, <2>4, <2>5, <1>4, WritesSteady DEF s
<1>7. CASE ~h.allowed /\ h.age = 0 /\ Becomes(p, NewLocalKey(h, p), wire)
    <2> DEFINE g == NewLocalKey(h, p)
    <2>1. Typed(g) /\ Steady(g, s, wire[p], p) /\ Now(g) = Now(h)
        BY <1>2, <1>4, <1>5, <1>7, FirstKeySteady
    <2> HIDE DEF g
    <2>2. Becomes(p, g, wire) BY <1>7 DEF g
    <2> QED BY <2>1, <2>2, <1>4, WritesSteady DEF s
<1>8. CASE Becomes(p, h, wire) BY <1>2, <1>4, <1>8, WritesSteady DEF s
<1> QED BY <1>3, <1>6, <1>7, <1>8

LEMMA ReceiveRawSInv ==
    ASSUME IInv, SInv, NEW p \in Peer, ReceiveRaw(p)
    PROVE  SInv'
<1> DEFINE q == Other(p)
           m == Head(wire[q])
           k == IF m.type = "raw" THEN m.key ELSE <<q, 0>>
           h == IF hs[p].age = 0 THEN NewLocalKey(hs[p], p) ELSE hs[p]
           s == Now(hs[q])
<1>1. q \in Peer /\ q # p /\ Other(q) = p /\ wire[q] # <<>> /\ hs[p].in.log = <<>>
    BY OtherPeer DEF ReceiveRaw
<1>2. PICK enough \in BOOLEAN :
        /\ h.age < MaxAge /\ (enough => h.payload /\ h.age + 1 < MaxAge)
        /\ Becomes(p, GrowRemoteKey0(h, p, k, enough), Taken(q))
    BY DEF ReceiveRaw
<1>3. /\ wire[q] \in Seq(Sent) /\ DOMAIN Taken(q) = Peer /\ Taken(q)[q] = Tail(wire[q])
      /\ Taken(q)[p] = wire[p] /\ Tail(wire[q]) \in Seq(Sent) /\ wire[p] \in Seq(Sent)
      /\ m \in Sent
    BY <1>1, HeadTailProperties DEF IInv, Taken
<1>4. /\ Typed(hs[p]) /\ Held(hs[p], p) /\ Viewed(Now(hs[p])) /\ Viewed(s)
      /\ Steady(hs[p], s, wire[p], p)
    BY <1>1, WireSteady DEF SInv
<1>5. /\ Fits(Now(hs[p]), m, q)
      /\ Path(Read(Now(hs[p]), m, q), Tail(wire[q]), Goal(hs[q], q), q)
    <2>1. Path(Now(hs[p]), wire[q], Goal(hs[q], q), q) BY <1>1, WireSteady
    <2> QED BY <2>1, <1>1, <1>3, <1>4, PathTail DEF Viewed
<1>6. m.type = "raw" /\ Now(hs[p]) = View(NoSecret, 1, 0) /\ m.key = <<q, 1>>
    <2>1. Now(hs[p]).in = hs[p].in BY ViewIs DEF Now
    <2> QED BY <2>1, <1>1, <1>5 DEF Fits
<1>7. k = <<q, 1>> BY <1>6
<1>8. hs[p].remote = NoKey BY <1>1, <1>4 DEF Typed
<1>9. Typed(h) /\ Steady(h, s, wire[p], p) /\ h.remote = NoKey /\ h.age > 0
    <2>1. CASE hs[p].age = 0
        <3>1. h = NewLocalKey(hs[p], p) /\ hs[p].age < MaxAge BY <2>1, BoundsAssumption
        <3> HIDE DEF h, s
        <3>2. SameReader(h, hs[p]) BY <3>1, <1>4, NewKeyTyped
        <3>3. Typed(h) /\ Steady(h, s, wire[p], p) /\ h.age = 1
            BY <2>1, <3>1, <1>3, <1>4, FirstKeySteady
        <3> QED BY <3>2, <3>3, <1>8 DEF SameReader
    <2>2. CASE hs[p].age # 0
        <3>1. h = hs[p] /\ hs[p].age > 0 BY <2>2, <1>4, BoundsAssumption DEF Typed, Plain
        <3> QED BY <3>1, <1>4, <1>8
    <2> QED BY <2>1, <2>2
<1> DEFINE g == GrowRemoteKey0(h, p, k, enough)
<1> HIDE DEF h, s, k
<1>10. Typed(g)
    <2>1. k \in Key BY <1>1, <1>7, BoundsAssumption DEF Key
    <2> QED BY <2>1, <1>2, <1>9, GrowRemote0Typed
<1>11. Steady(g, s, wire[p], p) /\ Now(g) = View(MixSecret(NoSecret, <<p, 1>>, k), 1, 1)
    <2>1. k = <<Other(p), 1>> BY <1>7
    <2> HIDE DEF q
    <2> QED BY <2>1, <1>2, <1>3, <1>4, <1>9, GrowRemote0Steady
<1>12. Read(Now(hs[p]), m, q) = View(MixSecret(NoSecret, <<p, 1>>, k), 1, 1)
    BY <1>1, <1>6, <1>7, ViewIs DEF Read
<1>13. Becomes(p, g, Taken(q)) BY <1>2
<1> HIDE DEF g, m
<1> QED BY <1>1, <1>3, <1>5, <1>10, <1>11, <1>12, <1>13, BecomesSteady DEF s

LEMMA ReceiveSInv ==
    ASSUME ~Midway, IInv, SInv, NEW p \in Peer, Receive(p)
    PROVE  SInv'
<1> DEFINE q == Other(p)
           m == Head(wire[q])
           h == hs[p]
           s == Now(hs[q])
           f == InputComing(Deciphered(h, m), m)
           g == IF h.bad THEN h
                ELSE IF m.under # h.in THEN [h EXCEPT !.bad = TRUE] ELSE f
<1>1. q \in Peer /\ q # p /\ Other(q) = p /\ wire[q] # <<>> BY OtherPeer DEF Receive
<1>2. h.begun /\ (h.bad \/ h.in.log # <<>>) /\ Becomes(p, g, Taken(q))
    <2>1. h.begun /\ (h.bad \/ h.in.log # <<>>) BY DEF Receive
    <2> QED BY <2>1, WholeRead
<1>3. /\ wire[q] \in Seq(Sent) /\ DOMAIN Taken(q) = Peer /\ Taken(q)[q] = Tail(wire[q])
      /\ Taken(q)[p] = wire[p] /\ Tail(wire[q]) \in Seq(Sent) /\ wire[p] \in Seq(Sent)
      /\ m \in Sent
    BY <1>1, HeadTailProperties DEF IInv, Taken
<1>4. /\ Typed(h) /\ Held(h, p) /\ Viewed(Now(h)) /\ Viewed(s) /\ Steady(h, s, wire[p], p)
      /\ Low(h) \in Nat \ {0} /\ h.age \in Nat
    <2>1. /\ Typed(h) /\ Held(h, p) /\ Viewed(Now(h)) /\ Viewed(s)
          /\ Steady(h, s, wire[p], p)
        BY <1>1, WireSteady DEF SInv
    <2>2. h.age \in Nat BY <2>1, BoundsAssumption DEF Typed, Plain
    <2> HIDE DEF h
    <2> QED BY <2>1, <2>2, GoalIs
<1>5. /\ Fits(Now(h), m, q) /\ Path(Read(Now(h), m, q), Tail(wire[q]), Goal(hs[q], q), q)
      /\ m.type = "applied" => Goal(hs[q], q).low >= Now(h).low + 1
    <2>1. Path(Now(h), wire[q], Goal(hs[q], q), q) BY <1>1, WireSteady
    <2> HIDE DEF h
    <2> QED BY <2>1, <1>1, <1>3, <1>4, PathTail DEF Viewed
<1>6. Now(h).in = h.in /\ Now(h).low = Low(h) BY ViewIs DEF Now
<1>7. ~h.bad /\ h.in.log # <<>> /\ h.remote # NoKey BY <1>2, <1>4 DEF Held, Typed
<1>8. m.type # "raw"
    <2>1. SUFFICES ASSUME m.type = "raw" PROVE FALSE OBVIOUS
    <2>2. Now(h).in = NoSecret BY <2>1, <1>5, ViewIs DEF Fits
    <2> QED BY <2>2, <1>6, <1>7 DEF NoSecret
<1>9. m.under = h.in BY <1>5, <1>6, <1>8 DEF Fits
<1>10. g = f BY <1>7, <1>9
<1>11. m.type = "applied" => Low(h) + 1 <= h.age
    <2>1. SUFFICES ASSUME m.type = "applied" PROVE Low(h) + 1 <= h.age OBVIOUS
    <2>2. Typed(hs[q]) /\ Held(hs[q], q) BY <1>1, WireSteady
    <2>3. hs[q].remote # NoKey
        <3>1. SUFFICES ASSUME hs[q].remote = NoKey PROVE FALSE OBVIOUS
        <3>2. Goal(hs[q], q).low = 1 BY <3>1, ViewIs DEF Goal
        <3> QED BY <3>2, <2>1, <1>4, <1>5, <1>6
    <2>4. Goal(hs[q], q).low = Top(hs[q]) /\ Top(hs[q]) \in Nat /\ Top(hs[q]) # 0
        BY <2>2, <2>3, GoalIs
    <2>5. Goal(h, p).top = h.age /\ h.age > 0 BY <1>4, <1>7, GoalIs
    <2>6. s.top = Top(hs[q]) BY ViewIs DEF Now
    <2>7. AtLeast1(h.age) = AtLeast1(Top(hs[q])) + CountOf(wire[p], {"skey", "ekey"})
        BY <2>5, <2>6, WireSteady DEF Path
    <2>8. CountOf(wire[p], {"skey", "ekey"}) \in Nat BY <1>3, CountFinite
    <2>9. Top(hs[q]) <= h.age BY <2>4, <2>5, <2>7, <2>8, <1>4 DEF AtLeast1
    <2> QED BY <2>1, <2>4, <2>9, <1>4, <1>5, <1>6
<1> HIDE DEF h, s, m, q, g
<1>12. Steady(f, s, wire[p], p) /\ Now(f) = Read(Now(h), m, q)
    BY <1>2, <1>3, <1>4, <1>5, <1>7, <1>8, <1>11, ReadSteady DEF q
<1>13. Typed(f)
    <2>1. Typed(Deciphered(h, m)) /\ Deciphered(h, m).remote # NoKey
        BY <1>2, <1>3, <1>4, <1>7, <1>8, DecipheredTyped
    <2> QED BY <2>1, <1>3, <1>8, InputComingTyped
<1> HIDE DEF f
<1>14. Becomes(p, f, Taken(q)) BY <1>2, <1>10
<1> QED BY <1>3, <1>5, <1>12, <1>13, <1>14, BecomesSteady DEF q, s

LEMMA UnusedSteady ==
    ASSUME NEW r, NEW h, NEW p, Unused(r), Unused(h), ~h.bad
    PROVE  Steady(h, Now(r), <<>>, p)
<1>1. Len(<<>>) = 0 /\ <<>> \o <<>> = <<>> BY LenProperties, ConcatEmptySeq
<1>2. Now(r) = View(NoSecret, 1, 0) BY <1>1 DEF Unused, Now, Low, Top
<1>3. Goal(h, p) = View(NoSecret, 1, 0) BY DEF Unused, Goal
<1>4. Viewed(Now(r)) BY <1>2, ViewIs DEF Viewed
<1>5. Path(Now(r), <<>>, Goal(h, p), p) BY <1>2, <1>3, <1>4, PathEmpty DEF Viewed
<1>6. Held(h, p) BY <1>1 DEF Unused, Held
<1> QED BY <1>1, <1>5, <1>6 DEF Steady, Unused

LEMMA InitSInv == Init => SInv
<1> SUFFICES ASSUME Init, NEW p \in Peer PROVE Steady(hs[p], Now(hs[Other(p)]), wire[p], p)
    BY DEF SInv
<1>1. Unused(hs[p]) /\ wire[p] = <<>> /\ Unused(hs[Other(p)]) BY InitUnused, OtherPeer
<1>2. ~hs[p].bad BY DEF Init, Fresh
<1> QED BY <1>1, <1>2, UnusedSteady

LEMMA ReconnectSInv ==
    ASSUME ~Midway, IInv, SInv, Reconnect
    PROVE  SInv'
<1>1. ASSUME NEW p \in Peer PROVE Steady(hs'[p], Now(hs'[Other(p)]), wire'[p], p)
    <2>1. /\ Unused(hs'[p]) /\ wire'[p] = <<>> /\ hs'[p].bad = hs[p].bad
          /\ Unused(hs'[Other(p)])
        BY ReconnectUnused, OtherPeer
    <2>2. ~hs[p].bad BY DEF SInv, Steady, Held
    <2> QED BY <2>1, <2>2, UnusedSteady
<1> QED BY <1>1 DEF SInv

LEMMA NextSInv ==
    ASSUME ~Midway, IInv, OInv, SInv, [Next]_vars
    PROVE  SInv'
<1>1. CASE \E p \in Peer : Begin(p) BY <1>1, BeginSInv
<1>2. CASE \E p \in Peer : Ask(p) BY <1>2, AskSInv
<1>3. CASE \E p \in Peer : Payload(p) BY <1>3, PayloadSInv
<1>4. CASE \E p \in Peer : ReceiveRaw(p) BY <1>4, ReceiveRawSInv
<1>5. CASE \E p \in Peer : Receive(p) BY <1>5, ReceiveSInv
<1>6. CASE Reconnect BY <1>6, ReconnectSInv
<1>7. CASE UNCHANGED vars BY <1>7 DEF vars, SInv
<1> QED BY <1>1, <1>2, <1>3, <1>4, <1>5, <1>6, <1>7 DEF Next

-----------------------------------------------------------------------------
(* The theorems.                                                           *)

LEMMA StepHolds ==
    ASSUME ~Midway
    PROVE  Spec => [](IInv /\ SInv)
<1>1. IInv /\ OInv /\ SInv /\ [Next]_vars => SInv' BY NextSInv
<1> QED BY <1>1, InitSInv, InvariantHolds, OrderHolds, PTL DEF Spec

\* Whatever keys both ends make, announce and confirm at once, no message fails
\* to decipher and no confirmation comes without a key that waits for it
\* (Handshake::growLocalKey, growRemoteKey, cropLocalKey).
THEOREM AlwaysInStep ==
    ASSUME ~Midway
    PROVE  Spec => []InStep
<1>1. SInv => InStep BY DEF SInv, Steady, Held, InStep
<1> QED BY <1>1, StepHolds, PTL

\* Besides its confirmed key an end keeps exactly the keys whose announcement or
\* whose confirmation is under way (the queue _asymLocal of Handshake).
THEOREM KeysAlwaysUnconfirmed ==
    ASSUME ~Midway
    PROVE  Spec => []KeysUnconfirmed
<1>1. IInv /\ SInv => KeysUnconfirmed
    <2> SUFFICES ASSUME IInv, SInv, NEW p \in Peer, hs[p].local # <<>>
                 PROVE  Len(hs[p].local) = 1 + CountOf(wire[p], {"skey", "ekey"})
                                             + CountOf(wire[Other(p)], {"applied"})
        BY DEF KeysUnconfirmed
    <2> DEFINE q == Other(p)
               h == hs[p]
               r == hs[q]
               keys == CountOf(wire[p], {"skey", "ekey"})
               confirmed == CountOf(wire[q], {"applied"})
    <2>1. q \in Peer /\ Other(q) = p BY OtherPeer
    <2>2. /\ Typed(h) /\ Held(h, p) /\ Typed(r) /\ Held(r, q)
          /\ wire[p] \in Seq(Sent) /\ wire[q] \in Seq(Sent)
          /\ Path(Now(r), wire[p], Goal(h, p), p) /\ Path(Now(h), wire[q], Goal(r, q), q)
        BY <2>1, WireSteady
    <2>3. h.age \in Nat /\ Len(h.local) \in Nat /\ h.age > 0
        <3>1. h.local \in Seq(Key) /\ h.age \in Nat BY <2>2, BoundsAssumption DEF Typed, Plain
        <3>2. Len(h.local) \in Nat /\ Len(h.local) # 0 BY <3>1, LenProperties, EmptySeq
        <3> QED BY <3>1, <3>2, <2>2 DEF Held
    <2>4. keys \in Nat /\ confirmed \in Nat BY <2>2, CountFinite
    <2>5. /\ Now(r).top = Top(r) /\ Now(h).low = Low(h) /\ Goal(h, p).top = h.age
          /\ Top(r) \in Nat
        BY <2>2, GoalIs, ViewIs DEF Now
    <2>6. AtLeast1(h.age) = AtLeast1(Top(r)) + keys BY <2>2, <2>5 DEF Path
    <2>7. Goal(r, q).low = Low(h) + confirmed BY <2>2, <2>5 DEF Path
    <2>8. Goal(r, q).low = AtLeast1(Top(r))
        <3>1. CASE r.remote = NoKey BY <3>1, ViewIs DEF Goal, Top, AtLeast1
        <3>2. CASE r.remote # NoKey
            <4>1. Goal(r, q).low = Top(r) /\ Top(r) # 0 BY <2>2, <3>2, GoalIs
            <4> QED BY <4>1 DEF AtLeast1
        <3> QED BY <3>1, <3>2
    <2>9. AtLeast1(h.age) = h.age BY <2>3 DEF AtLeast1
    <2>10. Len(h.local) = h.age - Low(h) + 1 /\ Low(h) \in Nat
        <3>1. Low(h) \in Nat BY <2>2, GoalIs
        <3>2. Low(h) = h.age - Len(h.local) + 1 BY DEF Low
        <3> QED BY <3>1, <3>2, <2>3
    <2> HIDE DEF h, r, keys, confirmed
    <2>11. h.age = Low(h) + confirmed + keys BY <2>6, <2>7, <2>8, <2>9
    <2>12. Len(h.local) = 1 + keys + confirmed BY <2>3, <2>4, <2>10, <2>11
    <2> QED BY <2>12 DEF h, keys, confirmed
<1> QED BY <1>1, StepHolds, PTL

\* When nothing is under way each end reads with what the other writes with, has
\* only its newest key and knows the newest of the other (Handshake::updateKeys).
THEOREM QuietAlwaysAgreed ==
    ASSUME ~Midway
    PROVE  Spec => []QuietAgreed
<1>1. IInv /\ SInv => QuietAgreed
    <2> SUFFICES ASSUME IInv, SInv, \A p \in Peer : wire[p] = <<>>, NEW p \in Peer
                 PROVE  /\ hs[p].in = hs[Other(p)].out
                        /\ hs[p].local # <<>> => hs[p].local = <<<<p, hs[p].age>>>>
                        /\ hs[p].remote # NoKey
                            => hs[p].remote = <<Other(p), hs[Other(p)].age>>
        BY DEF QuietAgreed
    <2> DEFINE q == Other(p)
               h == hs[p]
               r == hs[q]
    <2>1. q \in Peer /\ Other(q) = p BY OtherPeer
    <2>2. Typed(h) /\ Held(h, p) /\ Typed(r) /\ Held(r, q) BY <2>1, WireSteady
    <2>3. Now(r) = Goal(h, p) /\ Now(h) = Goal(r, q)
        <3>1. /\ Path(Now(r), <<>>, Goal(h, p), p) /\ Path(Now(h), <<>>, Goal(r, q), q)
              /\ Viewed(Now(r)) /\ Viewed(Now(h))
            BY <2>1, WireSteady
        <3> HIDE DEF h, r
        <3> QED BY <3>1, PathEmpty DEF Viewed
    <2>4. /\ Top(r) = h.age /\ Top(h) = r.age /\ h.age \in Nat /\ r.age \in Nat
        <3>1. h.age \in Nat /\ r.age \in Nat BY <2>2, BoundsAssumption DEF Typed, Plain
        <3>2. Goal(h, p).top = h.age /\ Goal(r, q).top = r.age BY <2>2, GoalIs
        <3>3. Now(r).top = Top(r) /\ Now(h).top = Top(h) BY ViewIs DEF Now
        <3> QED BY <3>1, <3>2, <3>3, <2>3
    <2> HIDE DEF h, r, q
    <2>5. h.in = Goal(r, q).in /\ Low(h) = Goal(r, q).low BY <2>3, ViewIs DEF Now
    <2>6. CASE r.remote # NoKey
        <3>1. Goal(r, q).in = r.out /\ Goal(r, q).low = Top(r) BY <2>2, <2>6, GoalIs
        <3>2. Low(h) = h.age BY <3>1, <2>4, <2>5
        <3>3. h.local \in Seq(Key) /\ Len(h.local) \in Nat /\ Len(h.local) = 1
            <4>1. h.local \in Seq(Key) /\ Len(h.local) \in Nat
                BY <2>2, LenProperties DEF Typed, Plain
            <4>2. h.age = h.age - Len(h.local) + 1 BY <3>2 DEF Low
            <4>3. \A a, n \in Nat : a = a - n + 1 => n = 1 OBVIOUS
            <4>4. h.age \in Nat BY <2>4
            <4> QED BY <4>1, <4>2, <4>3, <4>4
        <3>4. h.local[1] = <<p, h.age>>
            <4>1. h.local[1] = <<p, Low(h) + 1 - 1>> BY <2>2, <3>3 DEF Held
            <4> QED BY <4>1, <3>2, <2>4
        <3>5. h.local = <<<<p, h.age>>>>
            <4> DEFINE k == <<p, h.age>>
            <4>1. k \in Key
                <5>1. h.age \in 0..MaxAge BY <2>2 DEF Typed, Plain
                <5> QED BY <5>1 DEF Key
            <4> HIDE DEF k
            <4>2. <<k>> \in Seq(Key) /\ Len(<<k>>) = 1 /\ <<k>>[1] = k BY <4>1
            <4>3. \A i \in 1..1 : h.local[i] = <<k>>[i] BY <4>2, <3>4 DEF k
            <4>4. h.local = <<k>> BY <4>2, <4>3, <3>3, SeqEqual
            <4> QED BY <4>4 DEF k
        <3>6. h.remote # NoKey => h.remote = <<q, r.age>> BY <2>2, <2>4 DEF Held, q
        <3> QED BY <3>1, <3>5, <3>6, <2>5 DEF h, r, q
    <2>7. CASE r.remote = NoKey
        <3>1. h.age = 0 BY <2>4, <2>7 DEF Top
        <3>2. h.local = <<>> /\ h.remote = NoKey
            <4>1. h.remote = NoKey /\ h.local \in Seq(Key) BY <2>2, <3>1 DEF Typed, Plain
            <4>2. Len(h.local) = 0 BY <2>2, <3>1, <4>1 DEF Held
            <4> QED BY <4>1, <4>2, EmptySeq
        <3>3. h.in = r.out BY <2>2, <2>7, <3>2 DEF Held
        <3> QED BY <3>2, <3>3 DEF h, r, q
    <2> QED BY <2>6, <2>7
<1> QED BY <1>1, StepHolds, PTL

\* Nothing but a first key leaves an end before a secret is agreed on, as long as
\* no transport is replaced after payload was allowed (out::Ciphering::input).
THEOREM PayloadAlwaysEnciphered ==
    ASSUME ~Midway
    PROVE  Spec => []PayloadEnciphered
<1>1. IInv /\ SInv => PayloadEnciphered
    <2> SUFFICES ASSUME IInv, SInv, NEW p \in Peer, NEW i \in 1..Len(wire[p]),
                        wire[p][i].type # "raw"
                 PROVE  wire[p][i].under.log # <<>>
        BY DEF PayloadEnciphered
    <2>1. PICK v : Fits(v[i], wire[p][i], p) BY WireSteady DEF Path
    <2> QED BY <2>1 DEF Fits
<1> QED BY <1>1, StepHolds, PTL
=============================================================================
