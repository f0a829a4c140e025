# Formal models of dci-module-stiac

`stiac` connects the object links of two processes over a stream of bytes. The
user hands a `Protocol` two edges: a *remote edge*, which is the transport, and a
*local edge*, through which interfaces are put and got. Between them the protocol
builds a ring of stages (ciphering or cutting, compression) according to the
requirements of both ends, and a pump carries bytes from stage to stage.

This directory holds TLA+ models of that code, the TLC configurations that check
them on small instances, and TLAPS proofs about the core of it.

## Inventory

| Component | State | Operations | What must hold |
|---|---|---|---|
| `LocalLinks`, `RemoteLinks` (`localEdge/*Links.*`) | deque of cells, free list (local), zombie marks | `emplace`, `get`, `remove`, `beginRemove`, `endRemove` | the free list names exactly the empty cells; a zombie cell is never free; no empty cell at the end |
| `LocalEdge`, `Duty`, `Input`, `Output` (`localEdge.*`, `localEdge/*`) | `_state`, both tables, buffers, maps of type identifiers | `start`, `pause`, `put`, calls, `linkUninvolved`, `input` and the handlers of the duty object | both ends always agree which link a number means; no end fails the other's input; numbers come back |
| `Protocol` (`protocol.*`) | parameters, `_state`, stage objects, `_chain`, `_hasOutputFlags`, pump, ticker, `_handshake` | setters, `start`, `pump`, `pause`, `fail`, `buildChain`, marker of the peer, removal of edges | the ring is the one called for; flags equal outputs; no output waits for ever; sessions survive a rebuild |
| `RemoteEdge`, `Base` (`remoteEdge.*`, `stages/base.*`) | index in the ring, output buffer | `input`, `accumulateOutput`, `flushOutput`, removal | as above |
| Cutting stages (`stages/{in,out}/cutting.*`) | buffered input, size and last-mark of the chunk being read, message so far | `input`, `pushChunk` | messages come out whole and in order; a chunk whose body or checksum was spoiled is reported |
| Ciphering stages (`stages/{in,out}/ciphering.*`) | reader state, withheld payload, permission for payload | `input`, `urgent`, `allowPayload`, `flushPayload`, `encrypt`, `readType/Size/Payload` | everything deciphers; payload only after the static key |
| `Handshake`, `Symmetric` (`crypto/*`) | queue of local keys, key of the peer, two symmetric states, authentification | `growLocalKey`, `growRemoteKey0`, `growRemoteKey`, `cropLocalKey`, `inputComing`, traffic counters | both ends are in the same symmetric state for each message; the peer has proved its key |
| Compression stages (`stages/{in,out}/compression.*`) | zstd streams, what was put in and not yet taken | `flushOutput` with its loops over zstd | a flush leaves nothing behind; what comes out is what was put in |
| `entry.cpp`, `pch.hpp`, tests | none | | (not modelled) |

**How they interact.** Everything runs in one thread per process. A stage gives
its output to the next one only through `Protocol::doPump`, and announces output
with `linkHasOutput`. Stages call the user back (`got`, `output`, `failed`,
`stateChanged`), and user code may call any setter, drop any edge or use any link
from there; so what looks like one loop in `doPump` or `LocalEdge::input` is cut
up by other operations. `in::Ciphering` drives the handshake, which writes
through `out::Ciphering` and calls `Protocol::handshakeProtocolMarker`, which may
rebuild the ring in which `in::Ciphering` is running. The two ends exchange
messages in order and at any delay.

**What is hard here.** Two removals of a link that cross each other on the wire;
numbers used again while messages about their last link are under way; rings
rebuilt under a running pump; flags, indices and outputs kept in step through
setters, failures and restarts; two ends that take new keys at once; messages cut
at any byte, several at once, or spoiled where their size is read; loops that must
know when a library has nothing more; stages kept from an earlier session. `hazards` in `PROJECT.json`
lists each at its line with the properties aimed at it.

## Modules

| Module | Models | Proofs |
|---|---|---|
| `LinkTables` | the two tables as pure operators | `LinksProofs`, first part |
| `Links` (`MCLinks`) | two connected `LocalEdge`s, their buffers, tables and all messages that open, use and remove links | `LinksProofs`, `LinkPhasesProofs` |
| `LinkLife`, `LinkLives` | the life of one link as its two sides may rely on it; how each link of `Links` lives it | `LinkPhasesProofs`, last part |
| `Protocol` (`MCProtocol`) | one `Protocol` with its ring, pump, ticker and edges | `ProtocolProofs` |
| `Handshake` | two `Handshake`s with their ciphering stages, the transports between them one after the other, and who waits for the key of the peer | `HandshakeProofs` |
| `Delivery` | what a pair of stages promises: messages come out whole, in order | |
| `Cutting` | `out::Cutting`, the stream and `in::Cutting`; implements `Delivery` | `CuttingProofs` |
| `Ciphering` | `out::Ciphering`, the stream and the reader of `in::Ciphering`; implements `Delivery` | `CipheringProofs` |
| `Compression` | both `flushOutput` and their loops over zstd | `CompressionProofs` |
| `Streams` | the beginning, the rest and the sum of a sequence, for the three modules above | `StreamLemmas` |

Definitions carry the names of the code. A definition marked `Mutant:` is a
broken variant of the one below it and takes no part in a specification; each
property is seen to fail when such a variant takes the place of the original.

### LinkTables and Links

A link is a cell in the local table of one side and a cell under the same number
in the remote table of the other. `Links` gives each link an identity that the
code does not have: cells and messages carry the identity the sender meant, no
guard of the code reads it, and so a message that reaches the wrong link can be
recognised. `Start`/`Pause`, `Put`, `Call`, `Drop` and `Resolve` are what
users do, at any time, also while a message is being processed; `Flush`,
`Receive`, `Process` and `Leave` are the output, the input and the turns of
its loop. `Process` is the duty object and the links: a call emplaces the links it
carries, a result ends its link, `begin`/`end` are `beginRemove` and
`endRemove` of the other side.

Taken from outside `src/`: the link library removes a link's cell through
`linkUninvolved` with the flags its role implies (an interface or a cancelled
result begins a removal and sends `begin`; a resolved result begins it silently;
an awaited result, when it comes, ends it and sends `end`), and a call to a link
whose removal has begun still emplaces the links it carries.

Left out: destruction (`deinitialize`), user code that runs inside the reset of a
cell, the maps of type identifiers, and a second session over kept tables.

`LinkLife` is the abstract specification: a link has a cell on the owner's side and
one on the other, each none, open or closing, the other's first only announced.
`LinkLives` maps both tables and the calls under way to it, for each link, and the
action property `LinkLives` says that every step of `Links` is a step of each link's
life or none of its business. One call may open two links, so the property asks for
`LinkLife!Next` of each link, not of one alone.

### Protocol

One object, its parameters and its ring. Data are abstracted to the set of stages
that hold output (`output`); what a stage makes of its input is a choice
(`MayGain`, `MayFail`), and so is what the peer announces (`Marker`). `doPump`
is a loop whose turns are `PumpOn`, `PumpFails`, `Marker` and `MarkerRefused`
and whose end is `PumpEnd`: stages call the user back in each turn, so every
other action may come between two of them. `Start` ends where
`LocalEdge::start` calls the user, `StartEnd` is the rest.

Users set parameters only while the protocol does not work (`MaySet`), and do not
set any or call `start()` from the callback inside `start()`. The code does not
refuse either; what it then does is undefined (an empty `_chain` is indexed at
protocol.cpp:689 while `_state` is still `work`), which is noted below.
`DropInStart` allows users to let go of an edge from that callback; it is on only
in the run that shows what comes of it.

### Handshake

Symbolic cryptography: a key pair is its owner and its age, a shared secret the
set of two pairs, a `Symmetric` the log of what was mixed into it and a nonce. A
message carries the state it was enciphered in and deciphers only in the same.
Whether enough has been sent for a new key is a choice at each flush. A transport
neither loses nor alters: what happens otherwise is a failed message code, after
which the protocol stops; `Ciphering` has that.

`Reconnect` is a new transport set by both users: `paramsChanged` drops the
handshake and the keys of both Symmetrics, `Begin` (`start()`) makes a new
handshake, and the stages stay. They keep withheld payload, the permission for
payload, a reader that has given up, output that was not pumped yet (`Unpumped`: any
last part of what was put out, which goes out first on the new transport and is of
no key of the new session) and part of a message that was being read (`torn`: what
comes next is taken for the rest of it, and never deciphers). Chunks of a payload
of which the last has not come are kept as well; they are data, and `Handshake` does
not tell payloads apart. What the old transport carried is gone. `Ask` is
`remoteAuth()` while there is no handshake.

`Midway` says whether the transport may be replaced once payload was allowed, which
it is as soon as an end takes the first key of the other. It is off in `handshake`:
there a handshake is broken off before either end took a key, and all that was put
out by then are first keys, which are pumped when they are put out, as in the default
mode `instantly`. It is on in `handshake_reconnect`, the run that shows what
comes of a later one.

`_authLocal` is an array of 32 bytes whose `empty()` is always false, so the
second key of a peer is always its static one, zeros if none was set; the branch
for peers without one is dead and not modelled.

### Cutting and Delivery

Bytes are records that know the message and place they come from. `Input` gives
the reader any number of the bytes that wait, and the turns of the loop of
`in::Cutting::input`, `ReadHeader` and `ReadBody`, are actions: from one to the next
only the stage's own state is carried, and neither more input nor a restart comes
before the loop stops for want of bytes (`Ready`). `Spoil` spoils any byte,
`Restart` is `start()` after the failure this may lead to, with the stages kept.

The checksum is that of the body alone (out/cutting.cpp:53-73), and size and
last-mark are used as they come (in/cutting.cpp:41-47, 87). So from a spoiled header
any size and either mark is read (`Headers`, `WrongSize`), with a size of 0 the
same turn takes a checksum of nothing (`ReadEmpty`), and from then on the reader may
take any bytes for a header and any for a checksum, which may be right by accident
(`Verdicts`). `astray` remembers that such a header was read. The code has no way to
know, and no way back; the promises of `Cutting` hold until then. That a checksum
is right by chance for the body it belongs to, though something of either was
spoiled, is left out.

`Delivery` is the abstract specification; `Delivers` says that `Cutting`
implements it, `got` being the number of the message the last byte put out
belongs to.

### Ciphering

Bytes are records as in `Cutting`. `Put`, `Open` and `Urgent` are the writer:
payload that waits, the static key with the marker that lets it go, later keys and
confirmations. `Input` hands the reader any number of bytes that wait, one of them
perhaps spoiled, and the turns of its loop, `ReadType`, `ReadSize` and
`ReadPayload`, are actions: from one to the next only the stage's own state is
carried. A spoiled type or size deciphers to any other and is used before the code
of its message is verified, as in the code; the code is right only for exactly the
bytes that were enciphered as one message. The marker may make the protocol fail
while the loop goes on. `told` and `heard` are what the two ends say and hear, for
the properties only.

### Compression

Each call of zstd is a turn of a loop of `flushOutput`. zstd is taken by its
documented contract: the compressor takes some of its input and closes blocks when
it likes, the decompressor knows nothing of a block before its end, and both leave
something behind only if the buffer they were given is full. A call is given one
contiguous piece of what waits, so it may take any number of the units that wait
(`Offered`). A block is two units of the stream, so that a stream can be
cut within one.

The contract is silent on two cases, and in both the model lets anything come out,
or nothing. The stages ask for no checksum and never end a frame: a decompressor that
takes a spoiled unit may report it or not (`LostTurn`, `DecompressFails`). And after
an error no stage resets its zstd stream, which `start()` uses again
(`RestartReader`, `RestartWriter`, `CompressAnyhow`); what the failed call was
offered is still there. `lost` and `errors` remember this for the reader and for the
writer. What comes of an errored compressor is taken to be nothing or spoiled units.

## Runs

| Run | Instance | What it shows |
|---|---|---|
| `links_crossing` | one interface link, one result link, two messages per direction before a user waits, pauses | `NoFail`: neither end refuses the other's input in any crossing of sends, drops, cancels, results. `NoOrphan`, `QuietMeansSettled`: no half of a link is left behind. `TablesSound`; `RightLink`, `FreeMeansUnused`: numbers are used again only when nothing names them. `LinkLives`: each link lives as `LinkLife` has it |
| `links_reclaim` | one link of each kind, one message per direction, no pauses, fairness | `Reclaimed`: a removal that has begun is completed |
| `protocol` | two interfaces per edge, requirements with cutting, ciphering and optional compression, a peer whose announcement is refused or adds a stage, both modes of automatic pumping | `RingSound`, `FlagsExact`, `NothingStranded`, `EdgeFollows` through setters, drops, failures, restarts and rebuilds under the pump; `SessionKept`: no running stage is replaced |
| `handshake` | keys up to age 4, two payloads per peer and session, two transports, two users who wait, fairness | `InStep`, `KeysUnconfirmed`, `QuietAgreed`: keys stay agreed; `PayloadAuthentic`, `PayloadEnciphered`, `AuthProved`; `WaitersAnswered`; `PayloadArrives` |
| `cutting` | messages of 1 to 4 bytes, chunks of 2, checksums, one byte of any kind spoiled, restarts, fairness | until a spoiled header is read: `WholeMessages`, `SpoilReported`, `Delivers`; `AllArrives` |
| `ciphering` | payloads of 1 and 3 bytes, chunks of 2, one later key or confirmation, one spoiled byte, restarts, fairness | `Ordered`: what is heard is what was told; `NoFalseAlarm`; `Delivers`, `AllArrives` |
| `compression` | payloads of 1 and 3 bytes, buffers of 1 unit and 2 bytes, one spoiled unit, one error of the compressor, restarts of both ends, fairness | `NothingHeldBack`, `NothingLeftInside`: a flush of a stream without error is complete; `Faithful` until the decompressor fails or takes a spoiled unit; `AllArrives` |
| `protocol_drop`, `protocol_strict`, `protocol_integrity`, `cutting_restart`, `handshake_reconnect` | smallest that shows it | disagreements between the code and what it says of itself, below |

**Why the bounds are enough.** Two messages per direction let two removals of a
link cross and a later message follow each; calls that carry an interface and a
result put two links into one table, so that a number is freed in the middle and
at the end and taken again by the other link; the users' bound (`MaxInFlight`)
does not hold back answers of the handlers, so the wire grows beyond it. Age 4 is
the first key, the static one and two more, so two keys can wait for confirmation
at both ends at once; a second transport is one more than the stages were made
for, and it may come at any step before either end has taken the other's first key
(in `handshake_reconnect` at any step). Sizes 1 to 4 with chunks
of 2 are below, at, above and twice a full chunk (1, 3 and, withheld together, 2, 4
and 6 in `ciphering`), and the messages and all ways to cut the stream cover every
place where a piece can end; `WrongSize` takes a size for less and for more than
there is. A buffer of one unit makes each loop over zstd go round several times,
one of two bytes is both filled and left unfilled by the payloads. The requirement
sets of `MCProtocol` put each stage in some rings and not in others; in the
mixed instance a peer that compresses what the local side only allows adds the
stage, and one that does not accept what is put out is refused.

**Symmetry** is used for invariants only: peers and interface links are not told
apart by any definition.

**Fairness.** `Links!Fairness`: started edges stay so and the pump and the loop
run; users owe nothing. In the code the pump runs within the call that announces
output (`instantly`) or by the ticker (`delayed`), and the input loop runs until
its buffer is empty; pausing for good is excluded by `MayPause = FALSE`. In
`Handshake`, `Cutting`, `Ciphering` and `Compression` the reader at each end goes on
while there is something to read, for the same reason, and so do the loops over
zstd, each turn of which takes or makes something. `Handshake` also has users start
a protocol they have set up (`Begin`). No fairness is asked of users who send, who
replace a transport or who start a failed protocol again.

**Deadlock** is allowed only where users who want nothing more let the system
stop (`links_reclaim`, `handshake`, `handshake_reconnect`, `cutting`, `cutting_restart`,
`ciphering`, `compression`).

## Disagreements found

Each has a run whose counterexample shows it, and an entry under `findings`.

- `protocol_drop`: an edge let go of from the callback inside `start()` leaves a
  working protocol with a destroyed stage in `_chain`.
- `protocol_strict`: a peer that puts out less than we require is accepted, and
  the assertion at protocol.cpp:321 fails.
- `protocol_integrity`: a cutting stage constructed without checking is kept when
  the requirement becomes integrity.
- `cutting_restart`: after a restart, the chunk whose checksum was wrong is handed
  on with its message.
- `handshake_reconnect`: a new handshake over kept stages finds payload already
  allowed: it is put out before a key is agreed on, does not start the handshake,
  and the other end takes it for the first key.

Seen and not given a run: checked cutting in one direction is refused as unequal
*ciphering*, because the mask of ciphering contains cutting and integrity
(protocol.cpp:399-405; `BuildChain` has the test as it is); `decompressionFail`
(protocol.cpp:232) is never called, bad data of the compressor ends as an
`InternalError`, though protocol.idl:71 declares `DecompressionFail`; payload
withheld from a lost session does not begin the next handshake by itself, because
`_handshake->start()` is commented out in `start()` (protocol.cpp:132-135), and
`PayloadArrives` promises only what is given in the session that lasts; a waiter of
`remoteAuth` may wait for ever for the same reason; half a chunk kept by
`in::Cutting` is read on with the bytes of a new transport, and so is half a message,
or a payload without its last chunk, by `in::Ciphering`, while `out::Ciphering` begins
the new transport with the output, perhaps the first key, it had not got rid of on
the old (`Handshake` has this with `Midway`); a spoiled size or last-mark, which no
checksum covers, may split or merge messages with neither failure nor restart
(out/cutting.cpp:53-73, in/cutting.cpp:41-47, 87), though protocol.idl:37 requires
integrity: the run `cutting_restart` refutes the same promise, and
test/integrity.cpp:43-46 spoils the first byte of what it is given, one of a size,
but for the failure it expects of the chunks that follow; a zstd stream is used again
after an error without being reset (in/compression.cpp:68-75,
out/compression.cpp:90-98), and spoiled data may decompress without one; bytes that come in after a setter fail the assertion at
protocol.cpp:365 (without assertions only a stale bit is set, which
`buildChain` clears: this is modelled); `start()` after a pause or failure fails
the one at protocol.cpp:388 (without assertions the ring is cleared: modelled); a
setter called at work leaves an empty ring under standing flags
(protocol.cpp:380, 685); `start()` called again from within `start()` can leave
the protocol at work with a failed local edge, against test/localEdge/connect.cpp:38-42;
a removal by user code inside the reset of a cell would trim the table below the
cell, whose number then goes on the free list past the end (localLinks.cpp:89-96):
the flags that links pass to `linkUninvolved` let such code begin a removal, not
do one, so `Links` does not reach it.

## Proofs

`LinksProofs` first proves what each operation of a table returns and preserves:
the length left by trimming, that `emplace`, `remove`, `beginRemove` and
`endRemove` keep `LocalSound` and `RemoteSound`, and their types. It then proves for any sets of links and any bound on what is under way

- `TypeCorrect`: `Spec => []TypeOK`,
- `TablesAlwaysSound`: `Spec => []TablesSound`.

The inductive invariant is `TypeOK /\ TablesSound`. Neither part is inductive
alone: that a message decoded from the wire names a number a table can hold needs
the types of what is under way, and that `NextLocalId` is a cell to write to
needs the free list to be exact. Assumptions: `Peer` has two members, interfaces
and results partition `Link`, `NoLink` is none of them. The proof has one step per
action, `Process` one per message type; each falls back on the lemma of the
table operation.

`LinkPhasesProofs` proves, under the same assumptions,

- `NeverFails`: `Spec => []NoFail`,
- `MessagesMeetTheirLink`, `FreeNumbersAreSilent`, `NothingOrphaned` and
  `QuietIsSettled`: `RightLink`, `FreeMeansUnused`, `NoOrphan` and
  `QuietMeansSettled` are invariants.

None is inductive: whether the next message finds its cell depends on all the
messages before it, and on what the other end will say next. The invariant
`LinksInv` is `TypedAndSound /\ AllInPhase /\ NoFail`, and `AllInPhase` looks at one
number of one local table at a time: at the owner's cell `l`, at the other side's
cell `r`, and at what both channels hold about the number, in the order in which it
will be read. Whatever both sides do, these are in one of four phases:

- `Free`: the owner has no cell; the other side says nothing of the number, and what
  the owner had still to say closes the cell the other may keep as a zombie;
- `Sent`: the owner has a link whose announcement is under way, perhaps behind the
  rest of what it said of the last link of that number;
- `Joined`: both have the link; each side that has begun to close it has its one
  closing message under way, after all calls of it;
- `Gone`: the owner has begun to close the link, the other side has given its cell
  up, and the message that lets the owner do the same is under way.

A step changes what a side says (`Grown`, at the end of its channel) or reads one
message (`Shrunk`, at its beginning), and at most one cell of a number. For each
kind of step there is one lemma that takes every phase to a phase (`CallWritten`,
`BeginWritten`, `CallRead`, `RemovalRead`, `EndRead`), stated over two edges and two
channels without the rest of the state; the shapes `Writes`, `Begins`, `Reads` and
`Handles` say of an action which kind it is. That the message read can be handled is read off the
phase of its number: this is `NoFail`, and the four other invariants are as well.

The last part of `LinkPhasesProofs` proves the refinement:

- `LinksLive`: `Spec => LinkLives`, every step of `Links` is for every link a step of
  `LinkLife` or leaves both its cells alone,
- `LinksAgree`: `Spec => []Life(l)!Agreed` for every link, a side is without it only
  while the other has none either or has begun to close its own.

`LinkLife` knows a link by its identity, the phases by its number. `Unique` joins
them: as long as anything refers to a link, everything does under one number of one
side; `AllApart` adds that a link announced is not yet in the other table. From both
follows `CellsRight`, that `OwnerCell(l)` and `OtherCell(l)` of the refinement
mapping are the two cells of that number, and `Goes` says for each kind of step what
becomes of them, number by number. A link that nothing referred to before is opened
by the call that announces it, and only then.

`ProtocolProofs` proves for any interfaces, sets of requirements, announcements of
the peer and pump modes

- `ProtocolTypeCorrect`: `Spec => []TypeOK`,
- `RingAlwaysSound`, `FlagsAlwaysExact`, `EdgeAlwaysFollows`: `RingSound`,
  `FlagsExact` and `EdgeFollows` are invariants,
- `RingAlwaysLiving`: `RingOfLiving`, the claim that `protocol_drop` refutes,
- `SessionAlwaysKept`: the action property `SessionKept`,
- `NothingEverStranded`: `NothingStranded` is an invariant.

All but the last assume `~DropInStart`, that is, users let go of no edge from the
callback inside `start()`: `protocol_drop` shows that `RingSound` fails if they do.
The other assumptions are those of `Protocol` on its constants: an absent edge is
no interface, requirements are sets of the four bits, and the modes are the code's.

`RingSound` is not inductive. The ring is built in `Start`, one callback before the
protocol works, so the invariant has to speak of both: `Live` is "works or is in
the middle of `start()`", and `IInv` says that the two exclude each other, that the
local edge works exactly if `Live`, that an edge object whose parameter has not
changed is the one set (`EdgesKnown`), and that in `Live` no parameter is changing
and the ring is good (`RingGood`: the right stages, each once, each with its index,
and flags equal to outputs). `FlagsExact` needs the indices to be distinct, which
comes from the lemmas on rings: a ring is ordered by `Rank`, so no stage is in it
twice; a stage's index is its place; what `PushAll` makes of stages, indices and
flags, and what one turn of the pump keeps. `NothingStranded` needs none of this:
it is proved from its own strengthening, with each mode of the pump on its own.

`HandshakeProofs` proves for any two peers and all bounds

- `TypeCorrect` and `WaitersAlwaysAnswered`: `TypeOK` and `WaitersAnswered` are
  invariants, whenever transports are replaced, also with output not pumped and a
  message half read,
- `PayloadAlwaysAuthentic` and `AuthAlwaysProved`: `PayloadAuthentic` and `AuthProved`
  are invariants if `~Midway`, that is, transports are replaced only before
  payload is allowed (`handshake_reconnect` shows the other case).

Each function of the handshake takes the record of a peer to another one, so the
lemmas are about functions and the steps only compose them. `HandshakeProofs` says
of each that the record is typed again. Its invariant `IInv` adds to the types that
the Symmetrics are set just when a key of the peer is known, that a peer has a key
of its own by then, and that what is on the wire as a key carries one: without this
a Symmetric could be made of a key that is not there, or a message come that no
case of `inputComing` is for. It also says that without `Midway` nobody is `torn`.

`PayloadAuthentic` is not inductive: that a payload which deciphers comes from an
authentificated peer depends on what was put out before it. `OInv` relates, for
each direction, the reader, the messages under way and what the writer has done.
`InOrder` says that of these a first key comes first, the static key, which is there
once at most and is the peer's, before the marker, and the marker before any payload,
unless the reader has handled what is missing or has given up; `Complete` says that
what the writer has put out is either still under way or was handled. A message
appended keeps both by `AppendInOrder` and `AppendComplete`, the first one read by
`TailInOrder`, whatever its type. With it goes `Proven`: once the static key came
in, the log of the reader holds the secret made with it, and something after it, or
a nonce above zero, when the peer counts as authentificated.

The last part of `HandshakeProofs` proves, under the same assumption, that the two
ends stay in step:

- `AlwaysInStep`: `InStep`, every message deciphers and every confirmation finds its key,
- `KeysAlwaysUnconfirmed`: `KeysUnconfirmed`, what the queue of local keys holds,
- `QuietAlwaysAgreed`: `QuietAgreed`, what both ends know when nothing is under way,
- `PayloadAlwaysEnciphered`: `PayloadEnciphered`, of which `handshake_reconnect` shows
  that it needs the assumption.

None is inductive: whether a message deciphers was decided when it was put out, by
what the writer then believed its reader would have become. The invariant `SInv`
says this belief is right. A `View` is what a peer reads with: its decipherer, the
age of the local key that is made of, and how many keys of the other it has taken.
`Read` is what one message does to a view, `Goal` the view the writer counts on at
the end, and `Path` says that reading what is under way, message by message, leads
from the view the reader has now to that goal. Putting a message out extends the
path at its end (`PathAppend`), reading one shortens it at its beginning
(`PathTail`), and a key the reader makes meanwhile leaves its view alone, since the
decipherer is made of the oldest local key. That a confirmation finds two local keys
needs both directions: the path to a peer counts the confirmations, the path from it
the announcements they answer. The same counts give `KeysUnconfirmed`, and a path
over nothing gives `QuietAgreed`.

`CompressionProofs` proves for any payloads, any buffers, whatever zstd does within
its contract, and whatever comes of it where the contract is silent

- `CompressionTypeCorrect`: `TypeOK`,
- `NothingEverHeldBack` and `NothingEverLeftInside`: `NothingHeldBack` and
  `NothingLeftInside`, a flush of either stage is complete, as long as its zstd stream
  has reported no error and taken no spoiled unit,
- `AlwaysFaithful`: `Faithful`, what comes out is what was put in, until the
  decompressor reports an error or takes a spoiled unit.

The first three speak of control: `Turns` says in which turn of the loops something
may be left inside. `Faithful` needs to know where every byte is, and what a
compressor that failed and goes on puts behind those that were good. All the units
the reader has not taken stand in one `Line`: those that wait in its input, those in
the stream, those being made and those kept by the compressor. What is `Done`, put
out or kept by the decompressor, and the units of the line up to the first bad one
are, one after the other, the first of the bytes given (`Good`); if there is no bad
unit and the compressor never failed they are, with the bytes of no unit yet
(`Waiting`), all of them (`Complete`). This is `Placed`, and it holds until the reader
is `lost`; the invariant is `Shaped /\ Turns /\ (lost = FALSE => Placed)`. A turn of
the writer moves bytes along the line or adds to its end (`LinePut`, `LineGrows`),
an error breaks it off, with bad units behind what is good (`LineBreaks`), a spoiled
unit makes the first bad one come earlier (`LineSpoils`), and a turn of the reader
that takes sound units only takes them from the beginning (`LineTaken`).

These lines of bytes are built with `FlattenSeq` and `Total`, recursive functions
over sequences of any length. The induction theorems of the library take an operator
as a parameter and cannot be used, but well-foundedness can be: `StreamLemmas`
proves induction over numbers and over sequences, stated for sets, from the
ordering of finite sets by inclusion, and from it what the two functions do to a
member appended and to two sequences joined.

`CipheringProofs` proves for any sizes of payloads, keys, codes and chunks, any
cutting of the stream and any bound on spoiled bytes

- `CipheringTypeCorrect`: `TypeOK`, with it that no message is longer than `maxBodySize`,
- `AlwaysOrdered`: `Ordered`, what is heard is a beginning of what was told,
- `NeverFalseAlarm`: `NoFalseAlarm`, the reader gives up only over a spoiled byte,
- `CipheringDelivers`: `Delivers`, the refinement of `Delivery`.

`Ordered` says nothing of the bytes between the two stages, and all depends on them.
`Hears` is what a reader that takes in whole messages makes of a sequence of them,
and the invariant `IInv` ties both ends to it. On the writer's side it says that all
the messages enciphered say exactly what was told (`Telling`): a payload comes whole
out of its chunks (`PiecesHeard`). On the reader's side there is a number `m` such
that the reader has handed on what the first `m` messages say (`Hearing`); the
bytes it took of the next one, those in its input and those in the stream are, put
together, the bytes of all the messages after the first `m`, apart from the marks of
what was spoiled (`Line`, with a clause of its own while the first key is coming
in); and type and size of the message being read are the true ones unless what was
read of them is spoiled (`Reading`). A reader that took a spoiled size for another
is still on the line: it takes the wrong number of bytes, and then the code, which
is right only for exactly one message as it was enciphered, refuses them. So the
reader that hands something on has the whole of message `m + 1`, and the one that
gives up has read something spoiled. `Delivers` needs more than `IInv`: that what
was told carries the given payloads but for those that wait, and that after each
saying of it a whole number of payloads was told (`Wholes`); as payloads are not
empty that number is the only one, and is `Got`.

`CuttingProofs` proves for any sizes of messages, chunks and checksums, any cutting
of the stream and any bound on spoiled bytes

- `CuttingTypeCorrect`: `TypeOK`, with it that no chunk is longer than `maxChunkBodySize`
  as long as no spoiled header was read,
- `AlwaysWholeMessages`: `WholeMessages`, what came out is whole messages in order until a
  spoiled header is read,
- `SpoilAlwaysReported`: the action property `SpoilReported`, a chunk is reported if
  something of its body or checksum was spoiled, and only then, until a spoiled header is
  read,
- `CuttingDelivers`: `Delivers`, the refinement of `Delivery`, until a spoiled header is read,
- `NothingSpoiledUnlessRestarted`: `~astray => NothingSpoiled` if `~MayRestart`.
  `NothingSpoiled` is the promise that the run `cutting_restart` refutes: a restart of
  the failed protocol breaks it, a spoiled header breaks it, and the theorem says that
  nothing else does.

`WholeMessages` speaks of what came out only. The invariant `IInv` gives types at all
times (`Typed`) and says, while the reader is not `astray`, where it is in all that
was put in (`Somewhere`): it has put out `n` messages and keeps the first `c`
chunks of the next (`Reached`), and the header it has read, its input and the stream
are, one after the other, the chunks from there to the end of what was sent
(`Left`). Since a spoiled byte stays where it is, sequences of bytes are compared by
their `Places`. `LeftNext` says of every such point what chunk comes next and where
the reader is behind it: a full chunk and the same message, or the rest of it and
the next message. Header and body are each taken off the beginning of `Left`
(`HeaderTaken`, `BodyTaken`); that the header kept is the one of the chunk whose body
comes in is read off its first byte (`HeaderSame`). The pieces `out::Cutting` makes
follow from the arithmetic of `Full`: what is left behind the last full chunk is
neither nothing nor more than a chunk (`ChunkSizes`). `SpoilReported` needs that a
turn that takes a body takes that of one chunk, and its own checksum behind it
(`BodyVerdict`): only then does the comparison say what was spoiled (`VerdictIs`).
A turn that takes a header and does not go astray takes one that was not spoiled
(`HeaderClean`). `Got` is `n` because messages
are not empty (`LastIs`), and so goes up by one or stays with each body.

Only model-checked: liveness (`Reclaimed`, `PayloadArrives`, `AllArrives`), which
the prover does not reach. Every other property that a passing run checks is a
theorem. Of the runs that refute something, `protocol_drop`, `cutting_restart` and
`handshake_reconnect` have a theorem that says when the promise holds,
`protocol_strict` and `protocol_integrity` have none.

## Not modelled

- Destruction of edges, links and protocols (`deinitialize`, destructors), and user
  code inside the reset of a cell: the models have no call stack.
- A second session of a `LocalEdge` over kept tables, or with new tables on one
  side only: no document says what the two ends may expect of each other then.
- The maps of type identifiers of `Input` and `Output`: the link library that
  decides when an identifier is written is not in the repository.
- `initialize()` returning false (protocol.cpp:494-503): only the compression stages
  can, when zstd is out of memory.
- Random numbers that fail and degenerate keys (handshake.cpp:212-229, 389); the
  arithmetic of curve25519, the cipher and the hash.
- Empty prefixes that save copying; `entry.cpp`, `pch.hpp`, the build and the tests.

What a next step would be: theorems for the promises of `protocol_strict` and
`protocol_integrity` under the conditions that make them true, and the composition of
`Cutting` or `Ciphering` with `Compression` to one `Delivery`.
