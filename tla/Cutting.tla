------------------------------ MODULE Cutting ------------------------------
(***************************************************************************)
(* The two cutting stages (stages/out/cutting.cpp, stages/in/cutting.cpp)  *)
(* and the byte stream between them.  The sender cuts a message into       *)
(* chunks of a header, a body and, with integrity, a checksum.  The stream *)
(* arrives in pieces of any size.                                          *)
(*                                                                         *)
(* A byte is a record: a body byte knows its message and place, the bytes  *)
(* of a header know the header, and those of a checksum where the body     *)
(* begins that it is of.  Any byte may be spoiled.  The checksum does not  *)
(* cover the header, which is used as it comes: from one that was spoiled  *)
(* on, in::Cutting may take any bytes for headers, and find any size and   *)
(* any last-mark there.                                                    *)
(***************************************************************************)
EXTENDS Streams

CONSTANTS
    Size,               \* sizes of messages the stage before puts out
    MaxChunkBody,       \* maxChunkBodySize of out::Cutting
    ChecksumSize,       \* bytes of a checksum, 0 without integrity
    WrongSize,          \* what sizes may be found where there is no header as put out
    MaxSent,            \* bound: messages sent
    MaxSpoiled,         \* bound: bytes spoiled
    MayRestart          \* whether the protocol is started again after a failure

ASSUME SizeAssumption == Size \subseteq Nat \ {0} /\ MaxChunkBody \in Nat \ {0}
ASSUME BoundsAssumption ==
    WrongSize \cup {ChecksumSize, MaxSent, MaxSpoiled} \subseteq Nat /\ MayRestart \in BOOLEAN

HeaderSize == 2

VARIABLES
    sent,       \* the sizes of the messages put in
    stream,     \* what out::Cutting has put out and in::Cutting not taken in
    input,      \* in::Cutting::_input
    size,       \* in::Cutting::_chunkSize, 0 while there is none
    final,      \* in::Cutting::_chunkFinal
    message,    \* in::Cutting::_message
    output,     \* what in::Cutting has put out
    failed,     \* the protocol has failed
    astray,     \* in::Cutting has taken for a header what was none, or not as put out
    spoiled     \* how many bytes were spoiled

reader == <<input, size, final, message, output, failed, astray>>
vars == <<sent, stream, reader, spoiled>>

BodyByte(m, i) == [part |-> "body", of |-> <<m, i>>, good |-> TRUE]
HeaderBytes(n, last) == <<[part |-> "header", of |-> <<n, IF last THEN 1 ELSE 0>>, good |-> TRUE],
                          [part |-> "header", of |-> <<n, 2>>, good |-> TRUE]>>
ChecksumBytes(m, a) == [i \in 1..ChecksumSize |-> [part |-> "checksum", of |-> <<m, a>>, good |-> TRUE]]

-----------------------------------------------------------------------------
(* out::Cutting. *)

\* pushChunk with the bytes from a to b of message m.
Chunk(m, a, b, last) ==
    HeaderBytes(b - a + 1, last) \o [i \in 1..(b - a + 1) |-> BodyByte(m, a + i - 1)] \o ChecksumBytes(m, a)

\* Mutant: a message is never cut.
ChunksUncut(m, n) == Chunk(m, 1, n, TRUE)

\* input: all of n bytes, in full chunks while more than a full one is left.
Chunks(m, n) ==
    LET full == (n - 1) \div MaxChunkBody
        before == [c \in 1..full |-> Chunk(m, (c - 1) * MaxChunkBody + 1, c * MaxChunkBody, FALSE)]
    IN  FlattenSeq(before) \o Chunk(m, full * MaxChunkBody + 1, n, TRUE)

-----------------------------------------------------------------------------
(* in::Cutting: the turns of the loop of input. *)

\* Mutant: one byte more than what is needed is waited for.
ReadyLate ==
    \/ size = 0 /\ Len(input) >= HeaderSize + ChecksumSize
    \/ size > 0 /\ Len(input) > size + ChecksumSize

\* Mutant: the checksum behind a body is not waited for.
ReadyEarly ==
    \/ size = 0 /\ Len(input) >= HeaderSize + ChecksumSize
    \/ size > 0 /\ Len(input) >= size

\* The next turn finds a header, or a body with its checksum.
Ready ==
    \/ size = 0 /\ Len(input) >= HeaderSize + ChecksumSize
    \/ size > 0 /\ Len(input) >= size + ChecksumSize

\* A header as it was put out, and what h is read as: nothing verifies it.
Whole(h) == h = HeaderBytes(h[1].of[1], h[1].of[2] = 1)
Headers(h) == IF Whole(h) THEN {<<h[1].of[1], h[1].of[2] = 1>>} ELSE WrongSize \X BOOLEAN

Spoiled(s) == {i \in DOMAIN s : ~s[i].good}

\* Whether sum is found to be the checksum of body: so it is if both are of one
\* chunk and none of their bytes was spoiled, and not if any was; of other bytes
\* it may be either, for the checksum of zeros, and of nothing, is zero.
Verdicts(body, sum) ==
    CASE ChecksumSize = 0 -> {TRUE}
      [] body # <<>> /\ body[1].part = "body" /\ Len(sum) = ChecksumSize
         /\ (\A i \in DOMAIN sum : sum[i].part = "checksum" /\ sum[i].of = body[1].of) ->
            {Spoiled(body \o sum) = {}}
      [] OTHER -> BOOLEAN

\* Mutant: the chunk is handed on whether the last or not.
KeepHasty(body, right, last) ==
    /\ failed' = (failed \/ ~right)
    /\ output' = output \o body /\ UNCHANGED message

\* A chunk whose checksum is wrong is reported, and kept all the same.
Keep(body, right, last) ==
    /\ failed' = (failed \/ ~right)
    /\ IF last
       THEN output' = (output \o message) \o body /\ message' = <<>>
       ELSE message' = message \o body /\ UNCHANGED output

ReadHeader ==
    /\ size = 0 /\ Ready
    /\ \E h \in Headers(First(input, HeaderSize)) : h[1] > 0 /\ size' = h[1] /\ final' = h[2]
    /\ astray' = (astray \/ ~Whole(First(input, HeaderSize)))
    /\ input' = Rest(input, HeaderSize)
    /\ UNCHANGED <<sent, stream, message, output, failed, spoiled>>

\* The body that follows a header of size 0 is there already, and so is the
\* checksum: the same turn takes them.
ReadEmpty ==
    /\ size = 0 /\ Ready
    /\ \E h \in Headers(First(input, HeaderSize)) :
        /\ h[1] = 0
        /\ \E right \in Verdicts(<<>>, First(Rest(input, HeaderSize), ChecksumSize)) : Keep(<<>>, right, h[2])
    /\ astray' = (astray \/ ~Whole(First(input, HeaderSize)))
    /\ input' = Rest(input, HeaderSize + ChecksumSize)
    /\ UNCHANGED <<sent, stream, size, final, spoiled>>

ReadBody ==
    /\ size > 0 /\ Ready
    /\ \E right \in Verdicts(First(input, size), First(Rest(input, size), ChecksumSize)) :
          Keep(First(input, size), right, final)
    /\ input' = Rest(input, size + ChecksumSize) /\ size' = 0 /\ final' = FALSE
    /\ UNCHANGED <<sent, stream, astray, spoiled>>

-----------------------------------------------------------------------------
Init ==
    /\ sent = <<>> /\ stream = <<>>
    /\ input = <<>> /\ size = 0 /\ final = FALSE
    /\ message = <<>> /\ output = <<>> /\ failed = FALSE
    /\ astray = FALSE /\ spoiled = 0

\* Mutant: what is new goes before what waits.
SendAhead ==
    /\ Len(sent) < MaxSent
    /\ \E n \in Size :
        /\ sent' = Append(sent, n)
        /\ stream' = Chunks(Len(sent) + 1, n) \o stream
    /\ UNCHANGED <<reader, spoiled>>

Send ==
    /\ Len(sent) < MaxSent
    /\ \E n \in Size :
        /\ sent' = Append(sent, n)
        /\ stream' = stream \o Chunks(Len(sent) + 1, n)
    /\ UNCHANGED <<reader, spoiled>>

\* The next k bytes of the stream reach in::Cutting of a working protocol; the
\* loop has stopped for want of bytes.
Input ==
    /\ ~failed /\ ~Ready
    /\ \E k \in 1..Len(stream) :
        /\ input' = input \o First(stream, k)
        /\ stream' = Rest(stream, k)
    /\ UNCHANGED <<sent, size, final, message, output, failed, astray, spoiled>>

\* A byte of the stream, whatever it is of, is spoiled on its way.
Spoil ==
    /\ spoiled < MaxSpoiled
    /\ \E i \in 1..Len(stream) :
        /\ stream[i].good
        /\ stream' = [stream EXCEPT ![i].good = FALSE]
    /\ spoiled' = spoiled + 1
    /\ UNCHANGED <<sent, reader>>

\* The user starts the failed protocol again, with the stages as they are.
Restart ==
    /\ MayRestart /\ failed /\ ~Ready
    /\ failed' = FALSE
    /\ UNCHANGED <<sent, stream, input, size, final, message, output, astray, spoiled>>

Read == ReadHeader \/ ReadEmpty \/ ReadBody

Next == Send \/ Input \/ Read \/ Spoil \/ Restart

Spec == Init /\ [][Next]_vars

\* The pump moves the stream on while the protocol works, and the loop runs.
FairSpec == Spec /\ WF_vars(Input) /\ WF_vars(Read)

-----------------------------------------------------------------------------
(* Properties. *)

\* The types of the variables: no chunk is longer than out::Cutting makes them,
\* and nothing but body bytes is kept, as long as every header is one.
TypeOK ==
    /\ \A i \in DOMAIN sent : sent[i] \in Size
    /\ size \in Nat
    /\ {final, failed, astray} \subseteq BOOLEAN
    /\ size = 0 => ~final
    /\ ~astray => size <= MaxChunkBody
    /\ ~astray => \A s \in {message, output} : \A i \in DOMAIN s : s[i].part = "body"

\* The bytes of the first n messages.
BytesOf(n) == FlattenSeq([m \in 1..n |-> [i \in 1..sent[m] |-> <<"body", <<m, i>>>>]])
Places(s) == [i \in DOMAIN s |-> <<s[i].part, s[i].of>>]

\* How many messages have come out.
Got == IF output = <<>> THEN 0 ELSE output[Len(output)].of[1]

\* However the stream is cut up, and whatever bodies and checksums are spoiled,
\* what came out is a number of whole messages in order: no piece of one, no
\* header and no checksum (in/cutting.cpp:27-94).  It holds until a header that
\* was spoiled is read: its size or its last-mark may be any then.
WholeMessages == ~astray => Got \in 0..Len(sent) /\ Places(output) = BytesOf(Got)

\* With integrity a chunk is reported if one of its bytes was spoiled, of the
\* checksum or of the body, and only then, wherever the stream was cut and also
\* after a restart, until a header that was spoiled is read.
Taken == First(input, Len(input) - Len(input'))
SpoilReported ==
    [][ChecksumSize > 0 /\ ~astray' => (failed' <=> failed \/ Spoiled(Taken) # {})]_input

\* What protocol.idl:37 promises of the integrity requirement: a protocol that
\* works has handed on no spoiled byte, though it was started again.
NothingSpoiled == ChecksumSize > 0 /\ ~failed => \A i \in DOMAIN output : output[i].good

\* The pair of stages does what Delivery says, until a header that was spoiled is
\* read.
D == INSTANCE Delivery WITH got <- Got
Delivers == D!Init /\ [][D!Send \/ D!Deliver \/ astray']_<<sent, Got>>

\* Unless something is spoiled, what is sent comes out, down to the last byte.
AllArrives == \A n \in 1..MaxSent : Len(sent) >= n ~> (Got >= n \/ spoiled > 0)

=============================================================================
