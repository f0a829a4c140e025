----------------------------- MODULE Ciphering ------------------------------
(***************************************************************************)
(* The two ciphering stages of one direction (stages/out/ciphering.cpp,    *)
(* stages/in/ciphering.cpp) as far as they frame what they encipher: the   *)
(* first key as it is, then messages of a type, a size where the type has  *)
(* none of its own, a body and an authentication code.  The stream arrives *)
(* in pieces of any size.  Which key a message is under is the subject of  *)
(* Handshake; here both ends are always under the same.                    *)
(*                                                                         *)
(* A byte is a record that knows its message, its place there and whether  *)
(* it was spoiled on its way.  A spoiled type or size deciphers to any     *)
(* other; the code of a message is right if what was read as the message   *)
(* is exactly what was enciphered as one.                                  *)
(***************************************************************************)
EXTENDS Streams

CONSTANTS
    Size,           \* sizes of payloads the stage before puts out
    MaxBody,        \* maxBodySize of flushPayload
    KeySize,        \* bytes of a key
    MacSize,        \* bytes of an authentication code
    WrongSize,      \* what a size may be taken for when it is not deciphered right
    MaxGiven,       \* bound: payloads given
    MaxUrgent,      \* bound: keys and confirmations after the static key
    MaxSpoiled      \* bound: bytes spoiled

ASSUME SizeAssumption == Size \subseteq Nat \ {0} /\ {MaxBody, KeySize, MacSize} \subseteq Nat \ {0}
ASSUME BoundsAssumption == WrongSize \cup {MaxGiven, MaxUrgent, MaxSpoiled} \subseteq Nat

MarkerSize == 3
SizeBytes == 2

VARIABLES
    given,      \* the sizes of the payloads put in
    held,       \* how many bytes out::Ciphering::_payload holds
    allowed,    \* out::Ciphering::_payloadAllowed
    msgs,       \* the messages enciphered
    told,       \* what they say to the other end, payload as it was put out
    stream,     \* what was put out and in::Ciphering has not taken in
    keyGot,     \* how many bytes of the first key came in
    keyGood,    \* none of them was spoiled
    input,      \* in::Ciphering::_input
    mode,       \* in::Ciphering::_state
    type,       \* in::Ciphering::_messageType
    size,       \* in::Ciphering::_messageSize
    seen,       \* the bytes of the message being read that were taken from input
    payload,    \* in::Ciphering::_payload
    heard,      \* what in::Ciphering has handed on
    failed,     \* the protocol has failed
    spoiled     \* how many bytes were spoiled

writer == <<given, held, allowed, msgs, told>>
reader == <<keyGot, keyGood, input, mode, type, size, seen, payload, heard, failed>>
vars == <<writer, stream, reader, spoiled>>

SizedTypes == {"chunk", "last", "marker"}
Types == SizedTypes \cup {"skey", "ekey", "applied"}

-----------------------------------------------------------------------------
(* Messages and their bytes. *)

BodySize(m) ==
    CASE m.type \in {"chunk", "last"} -> Len(m.body)
      [] m.type = "marker"            -> MarkerSize
      [] m.type \in {"skey", "ekey"}  -> KeySize
      [] m.type = "applied"           -> 0

LengthOf(m) == 1 + (IF m.type \in SizedTypes THEN SizeBytes ELSE 0) + BodySize(m) + MacSize

BytesOf(m, n) == [i \in 1..LengthOf(m) |-> [of |-> n, at |-> i, good |-> TRUE]]

RawKey == [i \in 1..KeySize |-> [of |-> 0, at |-> i, good |-> TRUE]]

Control(t) == [type |-> t, body |-> <<>>]

-----------------------------------------------------------------------------
(* out::Ciphering. *)

\* encrypt for each message of ms, and linkHasOutput.
Encrypt(ms) ==
    /\ msgs' = msgs \o ms
    /\ stream' = stream \o FlattenSeq([k \in DOMAIN ms |-> BytesOf(ms[k], Len(msgs) + k)])

\* Mutant: all of the payload goes into one message.
PiecesWhole(b) == <<[type |-> "last", body |-> b]>>

\* flushPayload: full chunks while more than a full one is left.
Pieces(b) ==
    LET full == (Len(b) - 1) \div MaxBody
    IN  [c \in 1..full |-> [type |-> "chunk", body |-> SubSeq(b, (c - 1) * MaxBody + 1, c * MaxBody)]]
        \o <<[type |-> "last", body |-> SubSeq(b, full * MaxBody + 1, Len(b))]>>

\* The bytes of payload numbered from a to b.
Numbered(a, b) == [i \in 1..(b - a + 1) |-> a + i - 1]

Saying(t, b) == [type |-> t, bytes |-> b]

\* input: payload that is not yet allowed waits.
Put ==
    /\ Len(given) < MaxGiven
    /\ \E n \in Size :
        LET b == Numbered(Total(given) - held + 1, Total(given) + n)
        IN  /\ given' = Append(given, n)
            /\ IF allowed
               THEN held' = 0 /\ Encrypt(Pieces(b)) /\ told' = Append(told, Saying("payload", b))
               ELSE held' = held + n /\ UNCHANGED <<msgs, told, stream>>
    /\ UNCHANGED <<allowed, reader, spoiled>>

\* Mutant: what waited is kept and goes out again with the next payload.
OpenKeepsHeld ==
    /\ ~allowed /\ allowed' = TRUE
    /\ LET b == Numbered(Total(given) - held + 1, Total(given))
       IN  /\ Encrypt(<<Control("skey"), Control("marker")>> \o (IF held = 0 THEN <<>> ELSE Pieces(b)))
           /\ told' = told \o <<Saying("skey", <<>>), Saying("marker", <<>>)>> \o
                      (IF held = 0 THEN <<>> ELSE <<Saying("payload", b)>>)
    /\ UNCHANGED <<given, held, reader, spoiled>>

\* urgent with the static key and the marker, then allowPayload, as the
\* handshake calls them once it knows the first key of the other end.
Open ==
    /\ ~allowed /\ allowed' = TRUE /\ held' = 0
    /\ LET b == Numbered(Total(given) - held + 1, Total(given))
       IN  /\ Encrypt(<<Control("skey"), Control("marker")>> \o (IF held = 0 THEN <<>> ELSE Pieces(b)))
           /\ told' = told \o <<Saying("skey", <<>>), Saying("marker", <<>>)>> \o
                      (IF held = 0 THEN <<>> ELSE <<Saying("payload", b)>>)
    /\ UNCHANGED <<given, reader, spoiled>>

UrgentTold == SelectSeq(told, LAMBDA s : s.type \in {"ekey", "applied"})

\* urgent with a new key, or with the confirmation of one.
Urgent ==
    /\ allowed /\ Len(UrgentTold) < MaxUrgent
    /\ \E t \in {"ekey", "applied"} : Encrypt(<<Control(t)>>) /\ told' = Append(told, Saying(t, <<>>))
    /\ UNCHANGED <<given, held, allowed, reader, spoiled>>

-----------------------------------------------------------------------------
(* in::Ciphering: the turns of the loop of input. *)

\* Bytes taken in as they were sent, from a stream under the right key.
Intact(s) == keyGood /\ \A i \in DOMAIN s : s[i].good

\* Mutant: the code is not waited for.
ReadyHasty ==
    \/ mode = "type" /\ input # <<>>
    \/ mode = "size" /\ Len(input) >= SizeBytes
    \/ mode = "payload" /\ Len(input) >= size

\* The next turn finds the bytes it needs.
Ready ==
    \/ mode = "type" /\ input # <<>>
    \/ mode = "size" /\ Len(input) >= SizeBytes
    \/ mode = "payload" /\ Len(input) >= size + MacSize

Become(m, t, n) == mode' = m /\ type' = t /\ size' = n

\* What came in is bad: nothing more is read, and what is left is forgotten.
Bad == Become("bad", "none", 0) /\ failed' = TRUE /\ input' = <<>> /\ seen' = <<>>

ReadType ==
    /\ mode = "type" /\ Ready
    /\ \E t \in Types \cup {"other"} :
        /\ Intact(<<Head(input)>>) => t = msgs[Head(input).of].type
        /\ IF t = "other" THEN Bad
           ELSE /\ seen' = <<Head(input)>> /\ input' = Tail(input)
                /\ CASE t \in SizedTypes       -> Become("size", t, 0)
                     [] t \in {"skey", "ekey"} -> Become("payload", t, KeySize)
                     [] t = "applied"          -> Become("payload", t, 0)
                /\ UNCHANGED failed
    /\ UNCHANGED <<writer, stream, keyGot, keyGood, payload, heard, spoiled>>

ReadSize ==
    /\ mode = "size" /\ Ready
    /\ seen' = seen \o First(input, SizeBytes)
    /\ input' = Rest(input, SizeBytes)
    /\ \E n \in WrongSize \cup {BodySize(msgs[seen[1].of])} :
        /\ Intact(seen') => n = BodySize(msgs[seen[1].of])
        /\ Become("payload", type, n)
    /\ UNCHANGED <<writer, stream, keyGot, keyGood, payload, heard, failed, spoiled>>

Places(s) == [i \in DOMAIN s |-> <<s[i].of, s[i].at>>]

\* messageDecipherFinish: s is one message, as it was enciphered.
Authentic(s) == Intact(s) /\ Places(s) = Places(BytesOf(msgs[s[1].of], s[1].of))

\* Mutant: every chunk is handed on at once.
HandOnHasty(t, b) ==
    IF t \in {"chunk", "last"}
    THEN heard' = Append(heard, Saying("payload", b)) /\ UNCHANGED <<payload, failed>>
    ELSE heard' = Append(heard, Saying(t, <<>>)) /\ UNCHANGED <<payload, failed>>

\* What becomes of a message of type t with the payload b: chunks wait for the
\* last one; the handshake may refuse the marker, and the loop goes on.
HandOn(t, b) ==
    CASE t = "chunk"  -> payload' = payload \o b /\ UNCHANGED <<heard, failed>>
      [] t = "last"   -> /\ heard' = Append(heard, Saying("payload", payload \o b))
                         /\ payload' = <<>> /\ UNCHANGED failed
      [] t = "marker" -> /\ heard' = Append(heard, Saying(t, <<>>))
                         /\ failed' \in {failed, TRUE} /\ UNCHANGED payload
      [] OTHER        -> heard' = Append(heard, Saying(t, <<>>)) /\ UNCHANGED <<payload, failed>>

ReadPayload ==
    /\ mode = "payload" /\ Ready
    /\ LET s == seen \o First(input, size + MacSize)
       IN  IF Authentic(s)
           THEN /\ HandOn(type, msgs[s[1].of].body) /\ Become("type", "none", 0)
                /\ input' = Rest(input, size + MacSize) /\ seen' = <<>>
           ELSE Bad /\ UNCHANGED <<payload, heard>>
    /\ UNCHANGED <<writer, stream, keyGot, keyGood, spoiled>>

-----------------------------------------------------------------------------
Init ==
    /\ given = <<>> /\ held = 0 /\ allowed = FALSE /\ msgs = <<>> /\ told = <<>>
    /\ stream = RawKey /\ keyGot = 0 /\ keyGood = TRUE
    /\ input = <<>> /\ mode = "type" /\ type = "none" /\ size = 0 /\ seen = <<>>
    /\ payload = <<>> /\ heard = <<>> /\ failed = FALSE /\ spoiled = 0

\* Mutant: what comes in one piece with the end of the first key is lost.
TakeKeyAlone(came) ==
    IF mode = "bad" THEN UNCHANGED <<keyGot, keyGood, input>>
    ELSE LET n == IF KeySize - keyGot < Len(came) THEN KeySize - keyGot ELSE Len(came)
         IN  /\ keyGot' = keyGot + n
             /\ keyGood' = (keyGood /\ \A i \in 1..n : came[i].good)
             /\ input' = IF n > 0 THEN input ELSE input \o came

\* input up to its loop: the first key is taken first (growRemoteKey0).
Take(came) ==
    IF mode = "bad" THEN UNCHANGED <<keyGot, keyGood, input>>
    ELSE LET n == IF KeySize - keyGot < Len(came) THEN KeySize - keyGot ELSE Len(came)
         IN  /\ keyGot' = keyGot + n
             /\ keyGood' = (keyGood /\ \A i \in 1..n : came[i].good)
             /\ input' = input \o Rest(came, n)

\* The next k bytes, of which the j-th may be spoiled, reach in::Ciphering of a
\* working protocol; the loop has stopped for want of bytes, or for good.
Input ==
    /\ ~failed /\ ~Ready
    /\ \E k \in 1..Len(stream) : \E j \in 0..k :
        /\ j # 0 => spoiled < MaxSpoiled
        /\ spoiled' = IF j = 0 THEN spoiled ELSE spoiled + 1
        /\ stream' = Rest(stream, k)
        /\ Take([i \in 1..k |-> [stream[i] EXCEPT !.good = i # j]])
    /\ UNCHANGED <<writer, mode, type, size, seen, payload, heard, failed>>

\* The user starts the failed protocol again, with the stages as they are.
Restart ==
    /\ failed /\ ~Ready
    /\ failed' = FALSE
    /\ UNCHANGED <<writer, stream, keyGot, keyGood, input, mode, type, size, seen, payload, heard, spoiled>>

Next == Put \/ Open \/ Urgent \/ Input \/ ReadType \/ ReadSize \/ ReadPayload \/ Restart

Spec == Init /\ [][Next]_vars

\* The pump moves the stream on while the protocol works, and the loop runs.
FairSpec == Spec /\ WF_vars(Input) /\ WF_vars(ReadType \/ ReadSize \/ ReadPayload)

-----------------------------------------------------------------------------
(* Properties. *)

\* The types of the variables; no message carries more than MaxBody, so that
\* its size fits the header (out/ciphering.cpp:155), or nothing.
TypeOK ==
    /\ held \in Nat /\ {allowed, keyGood, failed} \subseteq BOOLEAN /\ keyGot \in 0..KeySize
    /\ \A n \in DOMAIN msgs :
        /\ msgs[n].type \in Types
        /\ msgs[n].type \in {"chunk", "last"} => Len(msgs[n].body) \in 1..MaxBody
    /\ mode \in {"type", "size", "payload", "bad"} /\ type \in Types \cup {"none"}
    /\ size \in Nat /\ spoiled \in 0..MaxSpoiled

\* However the stream is cut up and whatever is spoiled in it, also when the
\* failed protocol is started again: what the other end hears is what was told
\* it, keys, markers and payload in one order and each payload whole.
Ordered == IsPrefix(heard, told)

\* A reader gives up only if something was spoiled: never because a message
\* came in pieces, or together with others.
NoFalseAlarm == mode = "bad" => spoiled > 0

\* How many of the given payloads have come out; 0 if it is not whole ones.
Heard == FlattenSeq([i \in DOMAIN heard |-> heard[i].bytes])
Got == IF \E n \in DOMAIN given : Heard = Numbered(1, Total(SubSeq(given, 1, n)))
       THEN CHOOSE n \in DOMAIN given : Heard = Numbered(1, Total(SubSeq(given, 1, n)))
       ELSE 0

\* The pair of stages does what Delivery says of payload, though it waits for
\* permission, is cut into chunks and is put together again.
D == INSTANCE Delivery WITH sent <- given, got <- Got
Delivers == D!Spec

\* Unless something is spoiled or refused, the reader catches up with all that
\* was told, once the users pause for long enough.
AllArrives == heard # told ~> (heard = told \/ spoiled > 0 \/ failed)

=============================================================================
