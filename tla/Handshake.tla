----------------------------- MODULE Handshake -----------------------------
(***************************************************************************)
(* The key exchange of two peers (crypto/handshake.cpp) with the           *)
(* encipherer and the decipherer it drives (stages/out/ciphering.cpp,      *)
(* stages/in/ciphering.cpp, crypto/symmetric.cpp).                         *)
(*                                                                         *)
(* Cryptography is symbolic.  A key pair is <<peer, age>>; a shared secret *)
(* is the set of the two pairs it is made of; the state of a Symmetric is  *)
(* the log of what was mixed into it, and its nonce.  A message carries    *)
(* the state it was enciphered in and deciphers in that state only.  The   *)
(* bytes between the peers are neither lost nor altered.                   *)
(*                                                                         *)
(* _authLocal is an array of 32 bytes, empty() of it is FALSE: the second  *)
(* key of a peer is its static one, always.                                *)
(*                                                                         *)
(* Users may set the edges of a new transport on both sides: the handshake *)
(* is given up and made anew by start(), the ciphering stages stay.  Keys  *)
(* count from 1 again in each session.  While payload is not allowed yet   *)
(* only first keys were put out, and pumped; Midway adds transports that   *)
(* are replaced later, with output the stages still hold and a message     *)
(* half read.                                                              *)
(***************************************************************************)
EXTENDS Integers, Sequences, FiniteSets

CONSTANTS
    Peer,           \* the two ends
    MaxAge,         \* bound: keys a peer generates
    MaxPayload,     \* bound: payloads a peer is given to send in a session
    MaxWaiting,     \* bound: users of both who wait for the key of the other
    Sessions,       \* bound: transports, one after the other
    Midway          \* a transport may be replaced after payload was allowed

ASSUME PeerAssumption == \E p \in Peer : \E q \in Peer : p # q /\ Peer = {p, q}
ASSUME BoundsAssumption == MaxAge \in Nat /\ MaxAge >= 2 /\ MaxPayload \in Nat
ASSUME SessionsAssumption ==
    Sessions \in Nat \ {0} /\ MaxWaiting \in Nat /\ Midway \in BOOLEAN

VARIABLES
    hs,         \* the Handshake of each peer with its two Symmetrics
    wire,       \* wire[p]: what p has put out and the other has not taken in
    session,    \* the transport in use
    torn        \* the peers that hold part of a message of an earlier one

vars == <<hs, wire, session, torn>>

Other(p) == CHOOSE q \in Peer : q # p

\* Age 0 is bytes taken for a key that are none of this session.
Key == Peer \X (0..MaxAge)
Static(p) == <<p, 2>>
NoKey == <<>>

\* What is mixed into a Symmetric: a secret, or a message other than payload.
Mixing == [what : {"secret", "skey", "ekey", "marker", "applied"}, of : SUBSET Key]

\* A Symmetric; no key is set while its log is empty.
Symmetric == [log : Seq(Mixing), nonce : Nat]
NoSecret == [log |-> <<>>, nonce |-> 0]

Message == [type : {"raw", "skey", "ekey", "marker", "applied", "payload"},
            key : Key \cup {NoKey}, under : Symmetric]

-----------------------------------------------------------------------------
(* Symmetric. *)

\* mixHash of both public keys, in an order both ends agree on, and mixKey.
MixSecret(s, k, l) == [log |-> Append(s.log, [what |-> "secret", of |-> {k, l}]), nonce |-> 0]

\* messageStart, and mixHash of the ciphertext unless it is payload.
Passed(s, type, key) ==
    [log |-> IF type = "payload" THEN s.log
             ELSE Append(s.log, [what |-> type, of |-> IF key = NoKey THEN {} ELSE {key}]),
     nonce |-> s.nonce + 1]

-----------------------------------------------------------------------------
(* Handshake.  h is the record of a peer; sent is what it puts out in the  *)
(* current step.                                                           *)

\* urgent and encrypt.
Urgent(h, type, key) ==
    [h EXCEPT !.sent = Append(@, [type |-> type, key |-> key, under |-> h.out]),
              !.out = Passed(@, type, key)]

\* The first key goes out as it is.
UrgentRaw(h, key) ==
    [h EXCEPT !.sent = Append(@, [type |-> "raw", key |-> key, under |-> NoSecret])]

\* Mutant: the input key is made of the newest local key, confirmed or not.
InputKeyNewest(h) == MixSecret(h.in, h.local[Len(h.local)], h.remote)

InputKey(h) == MixSecret(h.in, Head(h.local), h.remote)
OutputKey(h) == MixSecret(h.out, h.local[Len(h.local)], h.remote)

UpdateInputKey(h) == [h EXCEPT !.in = InputKey(h)]
UpdateOutputKey(h) == [h EXCEPT !.out = OutputKey(h)]

\* With one local key updateBothKeys does what the two others do.
UpdateKeys(h) == [h EXCEPT !.in = InputKey(h), !.out = OutputKey(h)]

\* growLocalKey, first half: a new key, told to the peer.
NewLocalKey(h, p) ==
    LET age == h.age + 1
        k == <<p, age>>
        g == [h EXCEPT !.age = age, !.local = Append(@, k)]
    IN  IF age = 1 THEN UrgentRaw(g, k)
        ELSE Urgent(g, IF age = 2 THEN "skey" ELSE "ekey", k)

\* growLocalKey without allowPayload.
GrowLocalKey(h, p) ==
    LET n == NewLocalKey(h, p)
        g == UpdateOutputKey(n)
    IN  CASE h.remote = NoKey -> n
          [] h.remote # NoKey /\ h.markerSent -> g
          [] OTHER -> [Urgent(g, "marker", NoKey) EXCEPT !.markerSent = TRUE]

\* flushPayload and outputTraffic; whether enough has been sent to take a new
\* key is left open.
FlushPayload(h, p, enough) ==
    LET g == [Urgent(h, "payload", NoKey) EXCEPT !.payload = FALSE]
    IN  IF enough THEN GrowLocalKey(g, p) ELSE g

\* Mutant: what waited is left for the next payload to push.
AllowPayloadLazily(h, p, enough) == [h EXCEPT !.allowed = TRUE]

\* allowPayload.
AllowPayload(h, p, enough) ==
    LET g == [h EXCEPT !.allowed = TRUE]
    IN  IF g.payload THEN FlushPayload(g, p, enough) ELSE g

\* Mutant: payload goes out as soon as there is a secret.
GrowRemoteKey0Early(h, p, key, enough) ==
    GrowLocalKey(AllowPayload(UpdateKeys([h EXCEPT !.remote = key]), p, FALSE), p)

\* Mutant: what waited goes out before the first secret is mixed in.
GrowRemoteKey0Flushes(h, p, key, enough) ==
    GrowLocalKey(UpdateKeys(AllowPayload([h EXCEPT !.remote = key], p, FALSE)), p)

\* growRemoteKey0: the first key of the peer; the static key follows at once.
GrowRemoteKey0(h, p, key, enough) ==
    LET g == GrowLocalKey(UpdateKeys([h EXCEPT !.remote = key]), p)
    IN  IF g.age = 2 THEN AllowPayload(g, p, enough) ELSE g

\* Mutant: the key is taken without a confirmation.
GrowRemoteKeySilent(h, key, isStatic) ==
    LET g == UpdateKeys([h EXCEPT !.remote = key])
    IN  IF isStatic THEN [g EXCEPT !.initiated = TRUE, !.authRemote = key] ELSE g

\* Mutant: the static key alone makes the peer authentificated.
GrowRemoteKeyTrusts(h, key, isStatic) ==
    LET g == UpdateKeys(Urgent([h EXCEPT !.remote = key], "applied", NoKey))
    IN  IF isStatic THEN [g EXCEPT !.authentificated = TRUE, !.authRemote = key] ELSE g

\* Mutant: a new key of the peer is answered with a new key.
GrowRemoteKeyAnswers(h, key, isStatic) ==
    LET g == UpdateKeys(Urgent([h EXCEPT !.remote = key], "applied", NoKey))
    IN  GrowLocalKey(IF isStatic THEN [g EXCEPT !.initiated = TRUE, !.authRemote = key] ELSE g,
                     Other(key[1]))

\* growRemoteKey.
GrowRemoteKey(h, key, isStatic) ==
    LET g == UpdateKeys(Urgent([h EXCEPT !.remote = key], "applied", NoKey))
    IN  IF isStatic THEN [g EXCEPT !.initiated = TRUE, !.authRemote = key] ELSE g

\* Mutant: the input key stays as it was.
CropLocalKeyOnly(h) ==
    IF Len(h.local) <= 1 THEN [h EXCEPT !.bad = TRUE] ELSE [h EXCEPT !.local = Tail(@)]

\* cropLocalKey.
CropLocalKey(h) ==
    IF Len(h.local) <= 1 THEN [h EXCEPT !.bad = TRUE]
    ELSE UpdateInputKey([h EXCEPT !.local = Tail(@)])

\* Mutant: one waiter is answered, the others are forgotten.
DecipheredAnswersOne(h, m) ==
    [h EXCEPT !.in = Passed(@, m.type, m.key),
              !.initiated = FALSE,
              !.authentificated = @ \/ h.initiated,
              !.waiting = IF h.initiated /\ @ > 0 THEN @ - 1 ELSE @]

\* Deciphering m, someInputMessageDeciphered and handshakeAuthentificated.
Deciphered(h, m) ==
    [h EXCEPT !.in = Passed(@, m.type, m.key),
              !.initiated = FALSE,
              !.authentificated = @ \/ h.initiated,
              !.waiting = IF h.initiated THEN 0 ELSE @]

-----------------------------------------------------------------------------
\* A handshake not begun yet, and stages never used.
Fresh == [begun |-> FALSE, waiting |-> 0, local |-> <<>>, age |-> 0, remote |-> NoKey, in |-> NoSecret, out |-> NoSecret,
          markerSent |-> FALSE, markerSeen |-> FALSE, allowed |-> FALSE, payload |-> FALSE,
          initiated |-> FALSE, authentificated |-> FALSE, authRemote |-> NoKey,
          given |-> 0, got |-> FALSE, bad |-> FALSE, sent |-> <<>>]

Init ==
    /\ hs = [p \in Peer |-> Fresh]
    /\ wire = [p \in Peer |-> <<>>]
    /\ session = 1
    /\ torn = {}

\* p is left with g, and what g has sent goes on the wire.
Becomes(p, g, w) ==
    /\ \E h \in {g} :
        /\ hs' = [hs EXCEPT ![p] = [h EXCEPT !.sent = <<>>]]
        /\ wire' = [w EXCEPT ![p] = @ \o h.sent]
    /\ UNCHANGED <<session, torn>>

\* start(): the ring is built, and with it the handshake.
Begin(p) ==
    /\ ~hs[p].begun
    /\ Becomes(p, [hs[p] EXCEPT !.begun = TRUE], wire)

\* remoteAuth() while there is no handshake; with one it answers at once.
Ask(p) ==
    /\ ~hs[p].begun /\ hs[p].waiting + hs[Other(p)].waiting < MaxWaiting
    /\ Becomes(p, [hs[p] EXCEPT !.waiting = @ + 1], wire)

\* What a stage of p put out in an earlier session: it names no key of this one
\* and deciphers in no state of it.
Lost == [log |-> <<[what |-> "secret", of |-> {}]>>, nonce |-> 0]
Stale(p, m) == [m EXCEPT !.key   = IF @ = NoKey THEN NoKey ELSE <<p, 0>>,
                         !.under = IF @.log = <<>> THEN @ ELSE Lost]

\* What of the output of p was not pumped yet; it goes ahead of what is put out
\* next, here at once.
Unpumped(p) ==
    IF Midway THEN {[i \in 1..n |-> Stale(p, wire[p][Len(wire[p]) - n + i])] : n \in 0..Len(wire[p])}
    ELSE {<<>>}

\* Both users set the edge of a new transport.  The symmetric states are reset,
\* the stages stay as they are: payload that waits and the permission for it,
\* output not pumped, a message half read, a reader that has given up.  (The
\* chunks of a payload not complete yet stay as well; they are data only.)
Reconnect ==
    /\ session < Sessions
    /\ Midway \/ \A p \in Peer : ~hs[p].allowed
    /\ hs' = [p \in Peer |-> [Fresh EXCEPT !.allowed = hs[p].allowed,
                                           !.payload = hs[p].payload,
                                           !.bad     = hs[p].bad,
                                           !.waiting = hs[p].waiting]]
    /\ \E w \in [Peer -> UNION {Unpumped(p) : p \in Peer}] :
        (\A p \in Peer : w[p] \in Unpumped(p)) /\ wire' = w
    /\ \E more \in SUBSET {p \in Peer : Midway /\ hs[p].in.log # <<>>} : torn' = torn \cup more
    /\ session' = session + 1

\* The bound on keys allows another one.
MayGrow(p, enough) == enough => hs[p].age < MaxAge

\* out::Ciphering::input: the stage before puts out a payload.
Payload(p) ==
    /\ hs[p].begun /\ hs[p].given < MaxPayload
    /\ \E enough \in BOOLEAN :
        LET h == [hs[p] EXCEPT !.given = @ + 1, !.payload = TRUE]
        IN  CASE h.allowed -> MayGrow(p, enough) /\ Becomes(p, FlushPayload(h, p, enough), wire)
              [] ~h.allowed /\ h.age = 0 -> ~enough /\ Becomes(p, NewLocalKey(h, p), wire)
              [] OTHER -> ~enough /\ Becomes(p, h, wire)

Taken(p) == [wire EXCEPT ![p] = Tail(@)]

\* in::Ciphering::input while no key is set: what comes is taken for the first
\* key of the peer, whatever it is.  What the stage holds of an earlier session
\* waits until a key is set.
ReceiveRaw(p) ==
    LET q == Other(p)
        m == Head(wire[q])
        key == IF m.type = "raw" THEN m.key ELSE <<q, 0>>
    IN
    /\ hs[p].begun /\ ~hs[p].bad /\ wire[q] # <<>> /\ hs[p].in.log = <<>>
    /\ \E h \in {IF hs[p].age = 0 THEN NewLocalKey(hs[p], p) ELSE hs[p]} :
       \E enough \in BOOLEAN :
        /\ h.age < MaxAge /\ (enough => h.payload /\ h.age + 1 < MaxAge)
        /\ Becomes(p, GrowRemoteKey0(h, p, key, enough), Taken(q))

\* What the handshake does with a message that deciphered (inputComing).
InputComing(h, m) ==
    CASE m.type = "skey"    -> GrowRemoteKey(h, m.key, TRUE)
      [] m.type = "ekey"    -> GrowRemoteKey(h, m.key, FALSE)
      [] m.type = "applied" -> CropLocalKey(h)
      [] m.type = "marker"  -> [h EXCEPT !.markerSeen = TRUE]
      [] m.type = "payload" -> [h EXCEPT !.got = TRUE]

\* readType, readSize and readPayload on one message.
Opened(h, m) ==
    IF m.under # h.in THEN [h EXCEPT !.bad = TRUE] ELSE InputComing(Deciphered(h, m), m)

\* What h may become by m.  To one that holds part of another message m is the
\* rest of it: never deciphered, and waited on if there is not enough yet.
Outcomes(p, m) ==
    LET h == hs[p]
    IN  CASE h.bad -> {h}
          [] ~h.bad /\ p \in torn -> {h, [h EXCEPT !.bad = TRUE]}
          [] OTHER -> {Opened(h, m)}

\* in::Ciphering::input on one message.
Receive(p) ==
    LET q == Other(p)
    IN  /\ hs[p].begun /\ wire[q] # <<>> /\ (hs[p].bad \/ hs[p].in.log # <<>>)
        /\ \E h \in Outcomes(p, Head(wire[q])) : Becomes(p, h, Taken(q))

Next ==
    \/ \E p \in Peer : Begin(p) \/ Ask(p) \/ Payload(p) \/ ReceiveRaw(p) \/ Receive(p)
    \/ Reconnect

Spec == Init /\ [][Next]_vars

\* Users start what they have set up, and the pump moves what is put out to the
\* other end.
FairSpec ==
    /\ Spec
    /\ \A p \in Peer : WF_vars(Begin(p) \/ ReceiveRaw(p) \/ Receive(p))

-----------------------------------------------------------------------------
(* Properties. *)

\* The types of the variables.
TypeOK ==
    \A p \in Peer :
        /\ \A i \in 1..Len(hs[p].local) : hs[p].local[i] \in Key
        /\ hs[p].age \in 0..MaxAge /\ hs[p].given \in 0..MaxPayload
        /\ hs[p].waiting \in 0..MaxWaiting /\ session \in 1..Sessions
        /\ {hs[p].remote, hs[p].authRemote} \subseteq Key \cup {NoKey}
        /\ \A s \in {hs[p].in, hs[p].out} :
              s.nonce \in Nat /\ \A i \in 1..Len(s.log) : s.log[i] \in Mixing
        /\ {hs[p].begun, hs[p].markerSent, hs[p].markerSeen, hs[p].allowed, hs[p].payload, hs[p].initiated,
             hs[p].authentificated, hs[p].got, hs[p].bad} \subseteq BOOLEAN
        /\ hs[p].sent = <<>> /\ torn \subseteq Peer

\* However the two ends change their keys, at once or while the other does,
\* every message deciphers, and every confirmation is one of a key that waits
\* for it (cropLocalKey).
InStep == \A p \in Peer : ~hs[p].bad

\* A peer holds, besides its confirmed key, exactly the keys whose announcement
\* or whose confirmation is under way: the queue _asymLocal neither grows for
\* ever nor loses a key that is needed to read what the peer still sends.
CountOf(w, types) == Cardinality({i \in 1..Len(w) : w[i].type \in types})
KeysUnconfirmed ==
    \A p \in Peer : hs[p].local # <<>> =>
        Len(hs[p].local) = 1 + CountOf(wire[p], {"skey", "ekey"}) + CountOf(wire[Other(p)], {"applied"})

\* With nothing under way, each end reads what the other end writes next, and
\* knows the other's newest key.
QuietAgreed ==
    (\A p \in Peer : wire[p] = <<>>) =>
        \A p \in Peer :
            /\ hs[p].in = hs[Other(p)].out
            /\ hs[p].local # <<>> => hs[p].local = <<<<p, hs[p].age>>>>
            /\ hs[p].remote # NoKey => hs[p].remote = <<Other(p), hs[Other(p)].age>>

\* No payload is handed on before the peer is authentificated by its static key
\* and its protocol marker was handled.
PayloadAuthentic ==
    \A p \in Peer : hs[p].got =>
        hs[p].authentificated /\ hs[p].authRemote = Static(Other(p)) /\ hs[p].markerSeen

\* A peer counts as authentificated only after a message deciphered that could
\* not be written without its static private key.
AuthProved ==
    \A p \in Peer : hs[p].authentificated =>
        LET log == hs[p].in.log
        IN  \E i \in 1..Len(log) :
                /\ log[i].what = "secret" /\ hs[p].authRemote \in log[i].of
                /\ i < Len(log) \/ hs[p].in.nonce > 0

\* Users who asked for the key of the peer before there was a handshake, in this
\* session or in one that was lost before it was done, all get it as soon as the
\* peer is authentificated.
WaitersAnswered == \A p \in Peer : hs[p].authentificated => hs[p].waiting = 0

\* With ciphering required nothing but the first keys leaves an end before a
\* secret is agreed on, in whichever session.
PayloadEnciphered ==
    \A p \in Peer : \A i \in 1..Len(wire[p]) :
        wire[p][i].type # "raw" => wire[p][i].under.log # <<>>

\* What is given to one end to send in a session that lasts is handed on at the
\* other: neither end waits for the other to begin, or to allow payload, also
\* when an earlier handshake was broken off before either end had taken the
\* other's first key.  (Broken off later, the permission for payload stays, and
\* payload goes out before there is a secret: PayloadEnciphered.)
PayloadArrives ==
    \A p \in Peer : hs[p].given > 0 ~> hs[Other(p)].got \/ hs[p].given = 0

=============================================================================
