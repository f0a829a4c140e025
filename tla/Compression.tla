---------------------------- MODULE Compression -----------------------------
(***************************************************************************)
(* The two compression stages of one direction (stages/out/compression.cpp *)
(* and stages/in/compression.cpp) and the loops in which their flushOutput *)
(* calls zstd.  Each call of zstd is a turn of a loop.                     *)
(*                                                                         *)
(* zstd is external and modelled by its documented contract: the           *)
(* compressor takes some of its input, at its leisure closes a block of    *)
(* what it took, and fills the buffer it is given with what it has; the    *)
(* decompressor knows nothing of a block before its end, and leaves input  *)
(* or plain bytes behind only if the buffer is full.  A block is two       *)
(* units of the stream: a first one, and one that stands for its bytes.    *)
(*                                                                         *)
(* The contract says nothing of two cases, and the model lets anything     *)
(* come of them.  The stages ask for no checksum and never end a frame, so *)
(* a decompressor that takes a spoiled unit may or may not notice.  And no *)
(* stage resets the zstd stream that reported an error, so a protocol that *)
(* is started again goes on with a stream in whatever state it is.         *)
(***************************************************************************)
EXTENDS Streams

CONSTANTS
    Size,           \* sizes of payloads the stage before puts out
    CodedRoom,      \* size of the buffer a call of the compressor may fill
    PlainRoom,      \* size of the buffer a call of the decompressor may fill
    MaxGiven,       \* bound: payloads given
    MaxSpoiled,     \* bound: units spoiled
    MaxErrors       \* bound: errors of the compressor

ASSUME SizeAssumption == Size \cup {CodedRoom, PlainRoom} \subseteq Nat \ {0}
ASSUME BoundsAssumption == {MaxGiven, MaxSpoiled, MaxErrors} \subseteq Nat

VARIABLES
    given,      \* the sizes of the payloads put in
    source,     \* out::Compression::_output, not yet compressed
    held,       \* bytes the compressor has taken and not yet closed a block of
    coded,      \* units the compressor has and did not find room for
    made,       \* what the current flushOutput of out::Compression will return
    writing,    \* its loop: "idle", "compress", "flush", or "failed"
    errors,     \* how many errors the compressor has reported
    stream,     \* what was returned and has not come in at the other end
    raw,        \* in::Compression::_output, not yet decompressed
    plain,      \* bytes the decompressor has and did not find room for
    output,     \* what in::Compression has put out
    reading,    \* its loop: "idle", "decompress" or "drain"
    failed,     \* the protocol of the reading end has failed
    lost,       \* the decompressor has taken a spoiled unit or reported an error
    spoiled     \* how many units were spoiled

writer == <<given, source, held, coded, made, writing, errors>>
reader == <<raw, plain, output, reading, failed, lost>>
vars == <<writer, stream, reader, spoiled>>

\* Byte 0 stands for bytes that were not sent: any number of them, any values.
BadByte == 0
BadUnit == <<BadByte>>
Block(b) == <<<<>>, b>>

-----------------------------------------------------------------------------
(* out::Compression. *)

\* Base::input.
Put ==
    /\ writing = "idle" /\ Len(given) < MaxGiven
    /\ \E n \in Size :
        /\ given' = Append(given, n)
        /\ source' = source \o [i \in 1..n |-> Total(given) + i]
    /\ UNCHANGED <<held, coded, made, writing, errors, stream, reader, spoiled>>

\* The pump calls flushOutput.
Compress ==
    /\ writing = "idle" /\ source # <<>>
    /\ writing' = "compress"
    /\ UNCHANGED <<given, source, held, coded, made, errors, stream, reader, spoiled>>

\* Some of c goes out as far as there is room, the rest stays with zstd.
PutOut(c) == made' = made \o First(c, CodedRoom) /\ coded' = Rest(c, CodedRoom)

\* ZSTD_compressStream.
CompressTurn ==
    /\ writing = "compress" /\ source # <<>> /\ errors = 0
    /\ \E n \in 0..Len(source), close \in BOOLEAN :
        LET b == held \o First(source, n)
            c == IF close /\ b # <<>> THEN coded \o Block(b) ELSE coded
        IN  /\ n > 0 \/ coded # <<>>
            /\ source' = Rest(source, n)
            /\ held' = IF close THEN <<>> ELSE b
            /\ PutOut(c)
    /\ UNCHANGED <<given, writing, errors, stream, reader, spoiled>>

\* Mutant: the loop with ZSTD_flushStream is left out.
CompressEndReturns ==
    /\ writing = "compress" /\ source = <<>>
    /\ writing' = "idle" /\ stream' = stream \o made /\ made' = <<>>
    /\ UNCHANGED <<given, source, held, coded, errors, reader, spoiled>>

CompressEnd ==
    /\ writing = "compress" /\ source = <<>>
    /\ writing' = "flush"
    /\ UNCHANGED <<given, source, held, coded, made, errors, stream, reader, spoiled>>

\* Mutant: ZSTD_flushStream is called once.
FlushTurnOnce ==
    /\ writing = "flush" /\ errors = 0 /\ held' = <<>> /\ writing' = "idle"
    /\ LET c == IF held = <<>> THEN coded ELSE coded \o Block(held)
       IN  stream' = stream \o made \o First(c, CodedRoom) /\ coded' = Rest(c, CodedRoom) /\ made' = <<>>
    /\ UNCHANGED <<given, source, errors, reader, spoiled>>

\* Mutant: what was made is kept for the next call as well.
FlushTurnKeeps ==
    /\ writing = "flush" /\ errors = 0 /\ held' = <<>>
    /\ LET c == IF held = <<>> THEN coded ELSE coded \o Block(held)
       IN  /\ coded' = Rest(c, CodedRoom) /\ made' = made \o First(c, CodedRoom)
           /\ writing' = IF coded' = <<>> THEN "idle" ELSE "flush"
           /\ stream' = IF coded' = <<>> THEN stream \o made' ELSE stream
    /\ UNCHANGED <<given, source, errors, reader, spoiled>>

\* ZSTD_flushStream, until it has nothing left.
FlushTurn ==
    /\ writing = "flush" /\ errors = 0 /\ held' = <<>>
    /\ LET c == IF held = <<>> THEN coded ELSE coded \o Block(held)
       IN  /\ coded' = Rest(c, CodedRoom)
           /\ IF coded' = <<>>
              THEN writing' = "idle" /\ stream' = stream \o made \o c /\ made' = <<>>
              ELSE made' = made \o First(c, CodedRoom) /\ UNCHANGED <<writing, stream>>
    /\ UNCHANGED <<given, source, errors, reader, spoiled>>

\* What a call of zstd that its contract says nothing of may put out.
Anything == {<<>>, <<BadUnit>>}

\* zstd reports an error.  What was made until then is handed on, and what the
\* call was offered stays; what zstd had taken is as good as gone.
CompressFails ==
    /\ writing \in {"compress", "flush"} /\ errors < MaxErrors
    /\ errors' = errors + 1 /\ writing' = "failed"
    /\ \E m \in Anything : stream' = stream \o (made \o m)
    /\ made' = <<>> /\ held' = <<>> /\ coded' = <<>>
    /\ UNCHANGED <<given, source, reader, spoiled>>

\* The user starts the failed protocol again; the stage keeps its zstd stream.
RestartWriter ==
    /\ writing = "failed" /\ writing' = "idle"
    /\ UNCHANGED <<given, source, held, coded, made, errors, stream, reader, spoiled>>

\* Either loop, over a zstd stream that has reported an error.
CompressAnyhow ==
    /\ writing \in {"compress", "flush"} /\ errors > 0
    /\ \E n \in 0..Len(source), m \in Anything :
        /\ source' = Rest(source, n)
        /\ IF source' = <<>>
           THEN writing' = "idle" /\ stream' = stream \o (made \o m) /\ made' = <<>>
           ELSE n > 0 /\ made' = made \o m /\ UNCHANGED <<writing, stream>>
    /\ UNCHANGED <<given, held, coded, errors, reader, spoiled>>

-----------------------------------------------------------------------------
(* in::Compression. *)

\* The next k units, of which the j-th may be spoiled, come in from the stage
\* before (Base::input).
Input ==
    /\ reading = "idle" /\ ~failed
    /\ \E k \in 1..Len(stream) : \E j \in 0..k :
        /\ j # 0 => spoiled < MaxSpoiled
        /\ spoiled' = IF j = 0 THEN spoiled ELSE spoiled + 1
        /\ raw' = raw \o [i \in 1..k |-> IF i = j THEN BadUnit ELSE stream[i]]
        /\ stream' = Rest(stream, k)
    /\ UNCHANGED <<writer, plain, output, reading, failed, lost>>

\* The pump calls flushOutput.
Decompress ==
    /\ reading = "idle" /\ ~failed /\ raw # <<>>
    /\ reading' = "decompress"
    /\ UNCHANGED <<writer, stream, raw, plain, output, failed, lost, spoiled>>

\* The loops are left when the buffer was not filled: nothing was held back.
NotFilled(p) == Len(p) < PlainRoom

\* Mutant: the loop is left with the last unit taken.
AfterTurnAtEnd(p, left) == IF left = <<>> THEN "idle" ELSE "decompress"

\* Where a turn that had the plain bytes p goes on, given what is left to take.
AfterTurn(p, left) ==
    IF left # <<>> THEN "decompress" ELSE IF NotFilled(p) THEN "idle" ELSE "drain"

\* A call takes all of the piece it is offered, which may end before raw does,
\* unless its buffer is full; Sound units leave the contract in force.
Sound(n) == ~lost /\ \A i \in 1..n : raw[i] # BadUnit
Offered == (IF NotFilled(plain) THEN 1 ELSE 0)..Len(raw)

\* Mutant: all that was offered to zstd is removed, taken or not.
DecompressTurnAll ==
    /\ reading = "decompress"
    /\ \E n \in Offered :
        LET p == plain \o FlattenSeq(First(raw, n))
        IN  /\ Sound(n)
            /\ raw' = <<>> /\ plain' = Rest(p, PlainRoom)
            /\ output' = output \o First(p, PlainRoom)
            /\ reading' = AfterTurn(p, raw')
    /\ UNCHANGED <<writer, stream, failed, lost, spoiled>>

\* ZSTD_decompressStream with n of the units that wait.
DecompressTurn ==
    /\ reading = "decompress"
    /\ \E n \in Offered :
        LET p == plain \o FlattenSeq(First(raw, n))
        IN  /\ Sound(n)
            /\ raw' = Rest(raw, n) /\ plain' = Rest(p, PlainRoom)
            /\ output' = output \o First(p, PlainRoom)
            /\ reading' = AfterTurn(p, raw')
    /\ UNCHANGED <<writer, stream, failed, lost, spoiled>>

\* ZSTD_decompressStream without input.
DrainTurn ==
    /\ reading = "drain" /\ ~lost
    /\ plain' = Rest(plain, PlainRoom) /\ output' = output \o First(plain, PlainRoom)
    /\ reading' = IF NotFilled(plain) THEN "idle" ELSE "drain"
    /\ UNCHANGED <<writer, stream, raw, failed, lost, spoiled>>

\* From here on anything may come out, or nothing.
PutOutAnything ==
    /\ lost' = TRUE /\ plain' = <<>>
    /\ output' \in {output} \cup (IF BadByte \in ToSet(output) THEN {} ELSE {Append(output, BadByte)})

\* Either loop, with a spoiled unit among those that are taken or after one, or
\* after an error.
LostTurn ==
    /\ reading \in {"decompress", "drain"} /\ PutOutAnything
    /\ \E n \in 0..Len(raw) :
        /\ ~Sound(n) /\ raw' = Rest(raw, n)
        /\ reading' \in IF raw' = <<>> THEN {"idle", "drain"} ELSE {"decompress"}
    /\ UNCHANGED <<writer, stream, failed, spoiled>>

\* ZSTD_decompressStream reports an error: what was put out until then is handed
\* on, and what the call was offered stays.
DecompressFails ==
    /\ reading \in {"decompress", "drain"} /\ PutOutAnything
    /\ failed' = TRUE /\ reading' = "idle"
    /\ UNCHANGED <<writer, stream, raw, spoiled>>

\* The user starts the failed protocol again; the stage keeps its zstd stream.
RestartReader ==
    /\ failed /\ failed' = FALSE
    /\ UNCHANGED <<writer, stream, raw, plain, output, reading, lost, spoiled>>

-----------------------------------------------------------------------------
Init ==
    /\ given = <<>> /\ source = <<>> /\ held = <<>> /\ coded = <<>> /\ made = <<>>
    /\ writing = "idle" /\ errors = 0 /\ stream = <<>>
    /\ raw = <<>> /\ plain = <<>> /\ output = <<>>
    /\ reading = "idle" /\ failed = FALSE /\ lost = FALSE /\ spoiled = 0

Next ==
    \/ Put \/ Compress \/ CompressTurn \/ CompressEnd \/ FlushTurn
    \/ CompressFails \/ RestartWriter \/ CompressAnyhow
    \/ Input \/ Decompress \/ DecompressTurn \/ DrainTurn \/ LostTurn
    \/ DecompressFails \/ RestartReader

Spec == Init /\ [][Next]_vars

\* The pump runs, and so do the loops.
FairSpec ==
    /\ Spec
    /\ WF_vars(Compress \/ CompressTurn \/ CompressEnd \/ FlushTurn)
    /\ WF_vars(Input \/ Decompress \/ DecompressTurn \/ DrainTurn \/ LostTurn)

-----------------------------------------------------------------------------
(* Properties. *)

\* The types of the variables; between the calls of flushOutput its locals are
\* gone.
TypeOK ==
    /\ given \in Seq(Nat) /\ source \in Seq(Nat) /\ held \in Seq(Nat)
    /\ coded \in Seq(Seq(Nat)) /\ made \in Seq(Seq(Nat)) /\ stream \in Seq(Seq(Nat))
    /\ raw \in Seq(Seq(Nat)) /\ plain \in Seq(Nat) /\ output \in Seq(Nat)
    /\ writing \in {"idle", "compress", "flush", "failed"} /\ errors \in 0..MaxErrors
    /\ writing \in {"idle", "failed"} => made = <<>>
    /\ reading \in {"idle", "decompress", "drain"} /\ failed \in BOOLEAN /\ lost \in BOOLEAN
    /\ spoiled \in 0..MaxSpoiled

\* After flushOutput a compressor that has not failed holds nothing back: what
\* was put in can be read at the other end without anything being put in after
\* it.
NothingHeldBack == writing = "idle" /\ errors = 0 => held = <<>> /\ coded = <<>>

\* After flushOutput a decompressor that has neither failed nor taken a spoiled
\* unit holds nothing back: every block that came in whole is out.
NothingLeftInside == reading = "idle" /\ ~lost => plain = <<>>

\* Until the decompressor takes a spoiled unit or reports an error, what comes out
\* is what was put in from the first byte on, however the stream is cut up and
\* whatever comes of the compressor after an error.  Nothing is said of later.
Faithful == ~lost => IsPrefix(output, [i \in 1..Total(given) |-> i])

\* What is put in comes out, down to the last byte, unless either zstd stream
\* reports an error or the decompressor takes a spoiled unit.
AllArrives ==
    Len(output) < Total(given) ~> (Len(output) = Total(given) \/ lost \/ errors > 0)

=============================================================================
