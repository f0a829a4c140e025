------------------------------ MODULE Protocol ------------------------------
(***************************************************************************)
(* One Protocol object (protocol.cpp): its parameters, its life cycle, the *)
(* ring of stages built from the requirements, and the pump that carries   *)
(* output from a stage to the next one.                                    *)
(*                                                                         *)
(* The ring is  remoteEdge -> in... -> localEdge -> out... -> remoteEdge.  *)
(* Data are abstracted to which stages hold output.  What a stage makes of *)
(* its input, and what the peer sends, are choices; the stages have their  *)
(* own modules.                                                            *)
(*                                                                         *)
(* User code runs between any two steps of the pump, because stages call   *)
(* it back (output, got, failed, stateChanged); so the steps of doPump are *)
(* actions, and every user action may come between them.  The one place    *)
(* inside start() that calls back is LocalEdge::start, hence Start and     *)
(* StartEnd.                                                               *)
(***************************************************************************)
EXTENDS Integers, Sequences

CONSTANTS
    Iface,          \* edge interfaces a user may set
    NoIface,        \* an edge that is not set
    Setups,         \* [in, opt, out]: the requirements a user may set
    RemoteOuts,     \* the output requirements a peer may announce
    RemoteIns,      \* the input requirements a peer may announce
    AutoModes,      \* the modes of auto pumping a user may set
    DropInStart     \* whether a user drops an edge inside LocalEdge::start

ASSUME IfaceAssumption == NoIface \notin Iface /\ "absent" \notin Iface
ASSUME DropAssumption == DropInStart \in BOOLEAN

\* Requirements are bit sets; integrity includes cutting, ciphering both.
ReqBits == {"cutBit", "intBit", "ciphBit", "comprBit"}
cutting == {"cutBit"}
integrity == {"cutBit", "intBit"}
ciphering == {"cutBit", "intBit", "ciphBit"}
compression == {"comprBit"}

Setup == [in : SUBSET ReqBits, opt : SUBSET ReqBits, out : SUBSET ReqBits]

ASSUME SetupsAssumption == Setups \subseteq Setup /\ RemoteOuts \subseteq SUBSET ReqBits
ASSUME ModesAssumption == AutoModes \subseteq {"none", "instantly", "delayed"}

VARIABLES
    state,      \* Protocol::_state
    remote,     \* _paramRemoteEdge
    local,      \* _paramLocalEdge
    req,        \* _param{Input,InputOptional,Output}Requirements
    auto,       \* _paramAutoPumping
    changing,   \* _paramsChanging, the bits that matter: the two edges
    remoteOut,  \* _remoteOutputRequirements
    eff,        \* _effective{Input,Output}Requirements
    obj,        \* the stage objects: what each was constructed with
    idx,        \* Base::_indexInChain
    chain,      \* _chain
    flags,      \* _hasOutputFlags
    pumping,    \* _pumpingInProgress
    ticker,     \* _delayedAutoPumpTicker is running
    output,     \* the stages whose output buffer is not empty
    edge,       \* LocalEdge::_state
    handshake,  \* whether there is a _handshake
    starting    \* start() is inside LocalEdge::start

params == <<remote, local, req>>
ring == <<remoteOut, eff, obj, idx, chain>>
vars == <<state, params, auto, changing, ring, flags, pumping, ticker, output,
          edge, handshake, starting>>

Stage == {"remoteEdge", "inCiphering", "inCutting", "inCompression", "localEdge",
          "outCompression", "outCutting", "outCiphering"}

\* What an object was built with; "absent" when there is none.
Built == {"absent", "plain", "checking", "careless"} \cup Iface

State == {"null", "work", "pause", "fail"}

-----------------------------------------------------------------------------
(* buildChain. *)

InputStages(r) ==
    (IF ciphering \subseteq r THEN <<"inCiphering">>
     ELSE IF cutting \subseteq r THEN <<"inCutting">> ELSE <<>>)
    \o (IF compression \subseteq r THEN <<"inCompression">> ELSE <<>>)

OutputStages(r) ==
    (IF compression \subseteq r THEN <<"outCompression">> ELSE <<>>)
    \o (IF ciphering \subseteq r THEN <<"outCiphering">>
        ELSE IF cutting \subseteq r THEN <<"outCutting">> ELSE <<>>)

FullChain(e) == <<"remoteEdge">> \o InputStages(e.in) \o <<"localEdge">> \o OutputStages(e.out)

Effective(rOut) == [in |-> req.in \cup (req.opt \cap rOut), out |-> req.out]

\* The constructor arguments of stage s.
Arguments(s, e) ==
    CASE s = "remoteEdge" -> remote
      [] s = "localEdge"  -> local
      [] s = "inCutting"  -> IF integrity \subseteq e.in THEN "checking" ELSE "careless"
      [] s = "outCutting" -> IF integrity \subseteq e.out THEN "checking" ELSE "careless"
      [] OTHER            -> "plain"

\* Mutant: the edges are kept when their interface has been set anew.
KeptEdges(s) == obj[s] # "absent"

\* push2Chain constructs only what is missing; an edge is missing when its
\* interface has been set anew.
Kept(s) == obj[s] # "absent" /\ s \notin changing

Members(c) == {c[i] : i \in 1..Len(c)}

Position(s, c) == CHOOSE i \in 1..Len(c) : c[i] = s

\* Mutant: the index is taken after the stage has joined the chain.
IndexAfterPush(s, c) == Position(s, c)

IndexIn(s, c) == Position(s, c) - 1

\* The bits of the stages of c that push2Chain finds with output.
FlagsOf(c, out) == {IndexIn(s, c) : s \in {t \in Members(c) : t \in out /\ Kept(t)}}

\* Which exception buildChain reports, if any, and how far it gets.
BuildError(e) ==
    IF e.in \cap ciphering # e.out \cap ciphering THEN "BadRequirements"
    ELSE IF remote = NoIface THEN "MissingRemoteEdge"
    ELSE IF local = NoIface THEN "MissingLocalEdge"
    ELSE "none"

Reached(e) ==
    CASE BuildError(e) \in {"BadRequirements", "MissingRemoteEdge"} -> <<>>
      [] BuildError(e) = "MissingLocalEdge" -> <<"remoteEdge">> \o InputStages(e.in)
      [] OTHER -> FullChain(e)

\* The part of buildChain common to its exits, when the peer is known to put
\* out rOut and the stages in out hold output.
PushAll(rOut, out) ==
    LET e == Effective(rOut)
        c == Reached(e)
    IN  /\ eff' = e
        /\ chain' = c
        /\ flags' = FlagsOf(c, out)
        /\ obj' = [s \in Stage |-> IF s \in Members(c) /\ ~Kept(s) THEN Arguments(s, e) ELSE obj[s]]
        /\ idx' = [s \in Stage |-> IF s \in Members(c) THEN IndexIn(s, c) ELSE idx[s]]
        /\ output' = out \ {s \in Members(c) : ~Kept(s)}
        /\ handshake' = (handshake \/ (BuildError(e) = "none" /\ ciphering \subseteq e.in))

\* Mutant: _paramsChanging is not cleared at the end.
BuildChainKeepsChanges(rOut, out) == PushAll(rOut, out) /\ UNCHANGED changing

BuildChain(rOut, out) ==
    /\ PushAll(rOut, out)
    /\ changing' = IF BuildError(Effective(rOut)) = "none" THEN {} ELSE changing

\* The state of the local edge once buildChain is done with it.
RebuiltEdge(c) == IF "localEdge" \in Members(c) /\ ~Kept("localEdge") THEN "null" ELSE edge

-----------------------------------------------------------------------------
(* Pumping, as updateAutoPumping and instantPumpRequested ask for it.      *)

\* updateAutoPumping in state s with mode m.
UpdateAutoPumping(s, m) ==
    /\ ticker' = (m = "delayed" /\ s = "work")
    /\ pumping' = (pumping \/ (m = "instantly" /\ s = "work"))

\* The new output of the stages g is announced: linkHasOutput for each.
Announce(f, g) == f \cup {idx[s] : s \in g}

InstantPumpRequested ==
    /\ ticker' = (ticker \/ (state = "work" /\ auto = "delayed"))
    /\ pumping' = (pumping \/ (state = "work" /\ auto = "instantly"))

\* Mutant: the local edge is not told.
StopForgetsEdge(s, e) == edge' = e /\ UpdateAutoPumping(s, auto)

\* What fail() and pause() have in common, s being the new state.
Stop(s, e) ==
    /\ edge' = IF e = "work" THEN "pause" ELSE e
    /\ UpdateAutoPumping(s, auto)

\* fail(), the local edge being in state e; a second failure is only reported.
Fail(e) ==
    /\ state' = "fail"
    /\ IF state = "fail" THEN edge' = e /\ UNCHANGED <<ticker, pumping>> ELSE Stop("fail", e)

\* pause(): only a working protocol pauses.
Pause(e) ==
    IF state = "work" THEN state' = "pause" /\ Stop("pause", e)
    ELSE edge' = e /\ UNCHANGED <<state, ticker, pumping>>

-----------------------------------------------------------------------------
Init ==
    /\ state = "null"
    /\ remote = NoIface /\ local = NoIface
    /\ req = [in |-> {}, opt |-> {}, out |-> {}]
    /\ auto = "instantly"
    /\ changing = {"remoteEdge", "localEdge"}
    /\ remoteOut = {}
    /\ eff = [in |-> {}, out |-> {}]
    /\ obj = [s \in Stage |-> "absent"]
    /\ idx = [s \in Stage |-> 0]
    /\ chain = <<>>
    /\ flags = {}
    /\ pumping = FALSE
    /\ ticker = FALSE
    /\ output = {}
    /\ edge = "null"
    /\ handshake = FALSE
    /\ starting = FALSE

\* Users set parameters only while the protocol does not work, and from
\* within LocalEdge::start neither set any nor call start() again.
MaySet == state # "work" /\ ~starting
MayDrop == DropInStart \/ ~starting

-----------------------------------------------------------------------------
(* The setters. *)

\* paramsChanged.
ParamsChanged(c) ==
    /\ changing' = changing \cup c
    /\ ticker' = FALSE
    /\ chain' = <<>>
    /\ handshake' = FALSE
    /\ UNCHANGED <<state, auto, remoteOut, eff, obj, idx, flags, pumping, output,
                   edge, starting>>

SetRemoteEdge ==
    /\ MaySet
    /\ \E r \in Iface \ {remote} : remote' = r
    /\ ParamsChanged({"remoteEdge"})
    /\ UNCHANGED <<local, req>>

SetLocalEdge ==
    /\ MaySet
    /\ \E l \in Iface \ {local} : local' = l
    /\ ParamsChanged({"localEdge"})
    /\ UNCHANGED <<remote, req>>

SetRequirements ==
    /\ MaySet
    /\ \E r \in Setups \ {req} : req' = r
    /\ ParamsChanged({})
    /\ UNCHANGED <<remote, local>>

\* setAuthPrologue and setAuthLocal with a value not set before.
SetAuth ==
    /\ MaySet
    /\ ParamsChanged({})
    /\ UNCHANGED params

SetAutoPumping ==
    /\ \E m \in AutoModes \ {auto} : auto' = m /\ UpdateAutoPumping(state, m)
    /\ UNCHANGED <<state, params, changing, ring, flags, output, edge, handshake, starting>>

-----------------------------------------------------------------------------
(* start() and what ends it. *)

Start ==
    /\ state # "work" /\ ~starting
    /\ BuildChain(remoteOut, output)
    /\ IF BuildError(Effective(remoteOut)) = "none"
       THEN /\ edge' = "work" /\ starting' = TRUE /\ ticker' = FALSE
            /\ UNCHANGED <<state, pumping>>
       ELSE Fail(RebuiltEdge(Reached(Effective(remoteOut)))) /\ UNCHANGED starting
    /\ UNCHANGED <<params, auto, remoteOut>>

\* Mutant: the pump is not asked for what the stages held before the start.
StartEndSilent ==
    /\ starting
    /\ starting' = FALSE
    /\ state' = "work"
    /\ UNCHANGED <<params, auto, changing, ring, flags, pumping, ticker, output, edge, handshake>>

StartEnd ==
    /\ starting
    /\ starting' = FALSE
    /\ state' = "work"
    /\ UpdateAutoPumping("work", auto)
    /\ UNCHANGED <<params, auto, changing, ring, flags, output, edge, handshake>>

\* The user lets go of the remote edge: remoteEdgeWantRemove.
RemoteEdgeGone ==
    /\ MayDrop
    /\ obj["remoteEdge"] # "absent"
    /\ obj' = [obj EXCEPT !["remoteEdge"] = "absent"]
    /\ output' = output \ {"remoteEdge"}
    /\ Pause(edge)
    /\ UNCHANGED <<params, auto, changing, remoteOut, eff, idx, chain, flags, handshake, starting>>

\* The user lets go of the local edge: localEdgeWantRemove.
LocalEdgeGone ==
    /\ MayDrop
    /\ obj["localEdge"] # "absent"
    /\ obj' = [obj EXCEPT !["localEdge"] = "absent"]
    /\ output' = output \ {"localEdge"}
    /\ Pause("null")
    /\ UNCHANGED <<params, auto, changing, remoteOut, eff, idx, chain, flags, handshake, starting>>

-----------------------------------------------------------------------------
(* Data from the two edges. *)

\* Bytes come in at the remote edge.
RemoteInput ==
    /\ obj["remoteEdge"] # "absent"
    /\ output' = output \cup {"remoteEdge"}
    /\ flags' = Announce(flags, {"remoteEdge"})
    /\ InstantPumpRequested
    /\ UNCHANGED <<state, params, auto, changing, ring, edge, handshake, starting>>

\* A user of the local edge writes; it announces that only in state work.
LocalWrite ==
    /\ obj["localEdge"] # "absent"
    /\ output' = output \cup {"localEdge"}
    /\ IF edge = "work"
       THEN flags' = Announce(flags, {"localEdge"}) /\ InstantPumpRequested
       ELSE UNCHANGED <<flags, pumping, ticker>>
    /\ UNCHANGED <<state, params, auto, changing, ring, edge, handshake, starting>>

-----------------------------------------------------------------------------
(* doPump. *)

\* pump() of the user.
Pump ==
    /\ ~pumping
    /\ pumping' = TRUE
    /\ UNCHANGED <<state, params, auto, changing, ring, flags, ticker, output, edge, handshake,
                   starting>>

\* The single-shot ticker of the delayed mode.
Tick ==
    /\ ticker
    /\ ticker' = FALSE
    /\ pumping' = TRUE
    /\ UNCHANGED <<state, params, auto, changing, ring, flags, output, edge, handshake,
                   starting>>

Lowest == CHOOSE i \in flags : \A j \in flags : i <= j

\* The stage that the lowest flag names, and the one after it in the ring.
Giver == chain[Lowest + 1]
Taker == IF Lowest + 1 = Len(chain) THEN chain[1] ELSE chain[Lowest + 2]

\* One turn of the loop may go on.
Turn == pumping /\ state = "work" /\ flags # {} /\ Lowest < Len(chain)

\* Which stages may have new output after stage s took some input.
MayGain(s) ==
    CASE s = "remoteEdge"  -> {}
      [] s = "localEdge"   -> IF edge = "work" THEN {"localEdge"} ELSE {}
      [] s = "inCiphering" -> {"inCiphering", "outCiphering"}
      [] OTHER             -> {s}

\* Which stages may report that their input is bad.
MayFail(s) ==
    s \in {"localEdge", "inCiphering", "inCompression"} \/ (s = "inCutting" /\ obj[s] = "checking")

\* Mutant: the flag is taken down only after the next stage took the data.
PumpOnKeepsFlag ==
    /\ Turn
    /\ \E g \in SUBSET MayGain(Taker) :
        /\ output' = (output \ {Giver}) \cup g
        /\ flags' = Announce(flags, g)
        /\ ticker' = (ticker \/ (g # {} /\ auto = "delayed"))
    /\ UNCHANGED <<state, params, auto, changing, ring, pumping, edge, handshake, starting>>

PumpOn ==
    /\ Turn
    /\ \E g \in SUBSET MayGain(Taker) :
        /\ output' = (output \ {Giver}) \cup g
        /\ flags' = Announce(flags \ {Lowest}, g)
        /\ ticker' = (ticker \/ (g # {} /\ auto = "delayed"))
    /\ UNCHANGED <<state, params, auto, changing, ring, pumping, edge, handshake, starting>>

\* The next stage finds its input bad; what it put out before, and in::Cutting
\* also after that, stays.
PumpFails ==
    /\ Turn
    /\ MayFail(Taker)
    /\ \E g \in SUBSET (MayGain(Taker) \ {"localEdge"}) :
        /\ output' = (output \ {Giver}) \cup g
        /\ flags' = Announce(flags \ {Lowest}, g)
    /\ Fail(IF Taker = "localEdge" THEN "fail" ELSE edge)
    /\ UNCHANGED <<params, auto, changing, ring, handshake, starting>>

\* handshakeProtocolMarker accepts rOut, with g put out around the marker.
Adopt(rOut, g) ==
    LET out == (output \ {Giver}) \cup g
        e == Effective(rOut)
    IN  /\ remoteOut' = rOut
        /\ IF rOut = remoteOut \/ eff.in = rOut
           THEN /\ output' = out
                /\ flags' = Announce(flags \ {Lowest}, g)
                /\ ticker' = (ticker \/ (g # {} /\ auto = "delayed"))
                /\ UNCHANGED <<state, changing, eff, obj, idx, chain, pumping, edge, handshake>>
           ELSE /\ BuildChain(rOut, out)
                /\ IF BuildError(e) = "none"
                   THEN edge' = RebuiltEdge(Reached(e)) /\ UpdateAutoPumping("work", auto) /\ UNCHANGED state
                   ELSE Fail(RebuiltEdge(Reached(e)))

\* Ours suit the peer's: it puts out what we take, and takes what we put out.
Suits(rOut, rIn) == rOut \subseteq req.in \cup req.opt /\ rIn \subseteq req.out

\* The decipherer hands over the marker of the peer.
Marker ==
    /\ Turn /\ Taker = "inCiphering" /\ handshake
    /\ \E rOut \in RemoteOuts, rIn \in RemoteIns : Suits(rOut, rIn) /\ \E g \in SUBSET MayGain(Taker) : Adopt(rOut, g)
    /\ UNCHANGED <<params, auto, starting>>

MarkerRefused ==
    /\ Turn /\ Taker = "inCiphering" /\ handshake
    /\ \E rOut \in RemoteOuts, rIn \in RemoteIns : ~Suits(rOut, rIn)
    /\ flags' = flags \ {Lowest}
    /\ output' = output \ {Giver}
    /\ Fail(edge)
    /\ UNCHANGED <<params, auto, changing, ring, handshake, starting>>

\* The loop is left.
PumpEnd ==
    /\ pumping
    /\ state # "work" \/ flags = {}
    /\ pumping' = FALSE
    /\ UNCHANGED <<state, params, auto, changing, ring, flags, ticker, output, edge,
                   handshake, starting>>

Next ==
    \/ SetRemoteEdge \/ SetLocalEdge \/ SetRequirements \/ SetAuth \/ SetAutoPumping
    \/ Start \/ StartEnd \/ RemoteEdgeGone \/ LocalEdgeGone
    \/ RemoteInput \/ LocalWrite
    \/ Pump \/ Tick \/ PumpOn \/ PumpFails \/ Marker \/ MarkerRefused \/ PumpEnd

Spec == Init /\ [][Next]_vars

-----------------------------------------------------------------------------
(* Properties. *)

SetupOf == [in |-> eff.in, opt |-> {}, out |-> eff.out]

\* The types of the variables; no index is larger than a full ring has.
TypeOK ==
    /\ state \in State /\ edge \in State
    /\ {remote, local} \subseteq Iface \cup {NoIface}
    /\ req \in Setup /\ SetupOf \in Setup /\ remoteOut \subseteq ReqBits
    /\ auto \in {"none", "instantly", "delayed"}
    /\ changing \subseteq {"remoteEdge", "localEdge"}
    /\ obj \in [Stage -> Built] /\ idx \in [Stage -> 0..5]
    /\ chain \in Seq(Stage) /\ flags \subseteq 0..5 /\ output \subseteq Stage
    /\ {pumping, ticker, handshake, starting} \subseteq BOOLEAN

\* While the protocol works, the ring is the one the parameters and the peer's
\* announcement call for, each stage of it exists and knows its place, and the
\* edges speak to the interfaces set last (buildChain, push2Chain and the
\* rebuild in handshakeProtocolMarker).
RingSound ==
    state = "work" =>
        /\ eff = Effective(remoteOut)
        /\ chain = FullChain(eff)
        /\ \A i \in 1..Len(chain) : obj[chain[i]] # "absent" /\ idx[chain[i]] = i - 1
        /\ obj["remoteEdge"] = remote /\ obj["localEdge"] = local
        /\ "inCiphering" \in Members(chain) => handshake

\* While the protocol works, a bit of _hasOutputFlags is up exactly for the
\* stages of the ring that hold output: doPump hands no stage an empty message
\* (out/cutting.cpp:30, out/ciphering.cpp:93) and forgets none.
FlagsExact ==
    state = "work" => flags = {idx[s] : s \in output \cap Members(chain)}

\* Output a working protocol holds is never left to the next event: it is being
\* pumped, or the ticker that will pump it runs, unless the user pumps by hand.
NothingStranded ==
    state = "work" /\ ~starting /\ flags # {} =>
        CASE auto = "instantly" -> pumping
          [] auto = "delayed"   -> pumping \/ ticker
          [] OTHER              -> TRUE

\* Outside start(), the local edge works exactly while the protocol does: its
\* users are not told of a connection that is not there (start, pause, fail).
EdgeFollows == ~starting => (edge = "work" <=> state = "work")

\* When the ring is rebuilt under the pump, no stage that stays in it is
\* replaced, for one of them is running, and the session keys and the links of
\* the local edge are kept.
SessionKept ==
    [][state = "work" /\ state' = "work" =>
        /\ handshake' = handshake /\ edge' = edge
        /\ \A s \in Members(chain) \cap Members(chain') : obj'[s] = obj[s]]_vars

\* What protocol.cpp:321 asserts: once the marker of the peer is accepted, our
\* effective input requirements are what it puts out.
MarkerMatches == [][Marker => eff'.in = remoteOut' \/ state' = "fail"]_vars

\* What protocol.idl:37-38 promises of the integrity requirement: the stage that
\* takes such input verifies it.
IntegrityVerified ==
    state = "work" /\ integrity \subseteq eff.in /\ ~(ciphering \subseteq eff.in)
        => obj["inCutting"] = "checking"

\* What protocol.hpp:131 says of _chain: its stages are there.
RingOfLiving == state = "work" => \A s \in Members(chain) : obj[s] # "absent"

=============================================================================
