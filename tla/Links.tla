------------------------------- MODULE Links --------------------------------
(***************************************************************************)
(* Two connected local edges (localEdge.cpp) that keep the same set of     *)
(* links in their tables while both sides open, use and drop them.         *)
(*                                                                         *)
(* A link is the pair of a cell in the local table of the side that sent   *)
(* an interface or waits for a result and a cell, under the same number,   *)
(* in the remote table of the other side.  An Id is an integer: positive   *)
(* for a cell of the local table, negative for one of the remote table,    *)
(* zero for the duty object, and an id read from the wire is negated.      *)
(*                                                                         *)
(* The members of IfaceLink and ResultLink are identities the code does    *)
(* not have: both cells of a link, and every message about it, carry the   *)
(* identity of the link the sender meant, so that a message which reaches  *)
(* the wrong link can be recognised.  No guard of the code's actions reads *)
(* an identity; an identity nothing refers to any more is used again.      *)
(***************************************************************************)
EXTENDS LinkTables

CONSTANTS
    Peer,           \* the two edges
    IfaceLink,      \* links of interfaces handed to the other side
    ResultLink,     \* links of results awaited from the other side
    MaxInFlight,    \* a user does not send while so many messages are under way
    MayPause        \* whether the edges may be paused after they were started

ASSUME PeerAssumption == \E p, q \in Peer : p # q /\ Peer = {p, q}
ASSUME LinkAssumption == Link = IfaceLink \cup ResultLink /\ IfaceLink \cap ResultLink = {}
ASSUME BoundAssumption == MaxInFlight \in Nat /\ MayPause \in BOOLEAN

VARIABLES
    state,  \* LocalEdge::_state
    edge,   \* LocalEdge::_localLinks and _remoteLinks
    out,    \* LocalEdge's Output: messages not yet pumped away
    wire,   \* messages pumped away by a peer and not yet at the other one
    inp,    \* LocalEdge's Input: messages received and not yet processed
    busy    \* LocalEdge::_inputProcessingActive

vars == <<state, edge, out, wire, inp, busy>>

Other(p) == CHOOSE q \in Peer : q # p

State == {"null", "work", "pause", "fail"}

-----------------------------------------------------------------------------
(* Identifiers and messages. *)

\* linkIdCast<Id>(MirroredId): what is local to the sender is remote here.
Mirror(id) == -id

NoneCarried == [id |-> 0, link |-> NoLink]

\* A link newly emplaced by the sender and carried by a call, or none.
Carried == {NoneCarried} \cup [id : Nat \ {0}, link : Link]

\* Every message names an id as the sender knows it: a call and a result as
\* their target, begin and end (methods 5 to 8 of the duty object, the sign
\* telling the local from the remote variant) as their argument.
Message ==
    [type : {"call"}, id : Int, link : Link \cup {NoLink}, arg : Carried, res : Carried] \cup
    [type : {"result", "begin", "end"}, id : Int \ {0}, link : Link,
     arg : {NoneCarried}, res : {NoneCarried}]

CallMsg(id, link, arg, res) ==
    [type |-> "call", id |-> id, link |-> link, arg |-> arg, res |-> res]

Msg(type, id, link) ==
    [type |-> type, id |-> id, link |-> link, arg |-> NoneCarried, res |-> NoneCarried]

\* Everything on its way from p to the other side, oldest message first.
Chan(p) == inp[Other(p)] \o wire[p] \o out[p]

-----------------------------------------------------------------------------
(* The tables of an edge seen through Ids. *)

Edge == [local : LocalTable, remote : RemoteTable]

Lookup(e, id) == IF id > 0 THEN Get(e.local, id) ELSE Get(e.remote, -id)

IsZombie(e, id) == IF id > 0 THEN id \in e.local.zombie ELSE -id \in e.remote.zombie

EdgeCanRemove(e, id) ==
    IF id > 0 THEN CanRemove(e.local, id) ELSE CanRemove(e.remote, -id)

EdgeCanEndRemove(e, id) ==
    IF id > 0 THEN CanEndRemove(e.local, id) ELSE CanEndRemove(e.remote, -id)

EdgeRemoved(e, id) ==
    IF id > 0 THEN [e EXCEPT !.local = LocalRemoved(@, id)]
              ELSE [e EXCEPT !.remote = RemoteRemoved(@, -id)]

EdgeEndRemoved(e, id) ==
    IF id > 0 THEN [e EXCEPT !.local = LocalEndRemoved(@, id)]
              ELSE [e EXCEPT !.remote = RemoteEndRemoved(@, -id)]

\* Mutant: the cell is given up when its removal only begins.
EdgeBeginRemovedAtOnce(e, id) == EdgeRemoved(e, id)

EdgeBeginRemoved(e, id) ==
    IF id > 0 THEN [e EXCEPT !.local = BeginRemoved(@, id)]
              ELSE [e EXCEPT !.remote = BeginRemoved(@, -id)]

\* The ids of the cells a user of edge e still holds on to.
LiveIds(e) ==
    {id \in -Len(e.remote.links)..Len(e.local.links) :
        id # 0 /\ Lookup(e, id) # NoLink /\ ~IsZombie(e, id)}

\* Mutant: a cell still in use is removed outright without being asked to.
UninvolvedOutright(e, id, uf) ==
    IF EdgeCanRemove(e, id) THEN EdgeRemoved(e, id)
    ELSE IF "endRemove" \in uf /\ EdgeCanEndRemove(e, id) THEN EdgeEndRemoved(e, id)
    ELSE e

\* LocalEdge::linkUninvolved up to what it sends: the first of remove,
\* endRemove and beginRemove that the flags uf allow and that succeeds.
Uninvolved(e, id, uf) ==
    IF "remove" \in uf /\ EdgeCanRemove(e, id) THEN EdgeRemoved(e, id)
    ELSE IF "endRemove" \in uf /\ EdgeCanEndRemove(e, id) THEN EdgeEndRemoved(e, id)
    ELSE IF "beginRemove" \in uf /\ EdgeCanRemove(e, id) THEN EdgeBeginRemoved(e, id)
    ELSE e

UninvolvedSends(e, id, uf) ==
    (IF "sendBegin" \in uf THEN <<Msg("begin", id, Lookup(e, id))>> ELSE <<>>) \o
    (IF "sendEnd" \in uf THEN <<Msg("end", id, Lookup(e, id))>> ELSE <<>>)

\* LocalEdge::emplaceLink for a link to send, if there is one.
Emplaced(t, l) == IF l = NoLink THEN t ELSE LocalEmplaced(t, l)
CarriedFor(t, l) == IF l = NoLink THEN NoneCarried ELSE [id |-> NextLocalId(t), link |-> l]

\* LocalEdge::emplaceLink for a link received, if there is one.
Acceptable(t, c) == c.id = 0 \/ CanEmplaceRemote(t, c.id)
Accepted(t, c) == IF c.id = 0 THEN t ELSE RemoteEmplaced(t, c.id, c.link)

-----------------------------------------------------------------------------
(* Identities nothing refers to: neither a cell nor a message. *)

CellLinks(e) ==
    {e.local.links[i] : i \in 1..Len(e.local.links)} \cup
    {e.remote.links[i] : i \in 1..Len(e.remote.links)}

SentLinks(s) == UNION {{s[k].link, s[k].arg.link, s[k].res.link} : k \in 1..Len(s)}

Fresh(l) == \A p \in Peer : l \notin CellLinks(edge[p]) \cup SentLinks(Chan(p))

-----------------------------------------------------------------------------
Init ==
    /\ state = [p \in Peer |-> "null"]
    /\ edge = [p \in Peer |-> [local |-> EmptyLocal, remote |-> EmptyRemote]]
    /\ out = [p \in Peer |-> <<>>]
    /\ wire = [p \in Peer |-> <<>>]
    /\ inp = [p \in Peer |-> <<>>]
    /\ busy = [p \in Peer |-> FALSE]

Start(p) ==
    /\ state[p] # "work"
    /\ state' = [state EXCEPT ![p] = "work"]
    /\ UNCHANGED <<edge, out, wire, inp, busy>>

Pause(p) ==
    /\ MayPause
    /\ state[p] = "work"
    /\ state' = [state EXCEPT ![p] = "pause"]
    /\ UNCHANGED <<edge, out, wire, inp, busy>>

-----------------------------------------------------------------------------
(* What the users of the links do, in any state and also from within the   *)
(* processing of a message.                                                *)

HasRoom(p) == Len(Chan(p)) < MaxInFlight

\* A call to the object id: the links of the interface a and of the result r
\* it carries (NoLink for none) are emplaced one after the other.
SendCall(p, id, target, a, r) ==
    LET t == edge[p].local
        ta == Emplaced(t, a)
        m == CallMsg(id, target, CarriedFor(t, a), CarriedFor(ta, r))
    IN  /\ edge' = [edge EXCEPT ![p].local = Emplaced(ta, r)]
        /\ out' = [out EXCEPT ![p] = Append(@, m)]
        /\ UNCHANGED <<state, wire, inp, busy>>

\* put and optimisticPut (without a result) of an interface that is not null.
Put(p) ==
    /\ HasRoom(p)
    /\ state[p] \in {"work", "pause"}
    /\ \E a \in IfaceLink, r \in ResultLink \cup {NoLink} :
        /\ Fresh(a)
        /\ r = NoLink \/ Fresh(r)
        /\ SendCall(p, 0, NoLink, a, r)

\* A method of the interface behind a live link, with an interface among its
\* arguments or without, with a result or without.
Call(p) ==
    /\ HasRoom(p)
    /\ \E id \in LiveIds(edge[p]) :
        /\ Lookup(edge[p], id) \in IfaceLink
        /\ \E a \in IfaceLink \cup {NoLink}, r \in ResultLink \cup {NoLink} :
            /\ a = NoLink \/ Fresh(a)
            /\ r = NoLink \/ Fresh(r)
            /\ SendCall(p, id, Lookup(edge[p], id), a, r)

\* The link object behind id tells the edge that it is not used any more.
LinkUninvolved(p, id, uf, sent) ==
    /\ edge' = [edge EXCEPT ![p] = Uninvolved(@, id, uf)]
    /\ out' = [out EXCEPT ![p] = @ \o sent \o UninvolvedSends(edge[p], id, uf)]
    /\ UNCHANGED <<state, wire>>

\* An interface is dropped, by the side that sent it or by the one that got
\* it, or the caller cancels a call whose result it waits for.
Drop(p) ==
    /\ HasRoom(p)
    /\ \E id \in LiveIds(edge[p]) :
        /\ id > 0 \/ Lookup(edge[p], id) \in IfaceLink
        /\ LinkUninvolved(p, id, {"beginRemove", "sendBegin"}, <<>>)
    /\ UNCHANGED <<inp, busy>>

\* The called side has the result (or the failure) of a call and sends it.
Resolve(p) ==
    /\ HasRoom(p)
    /\ \E id \in LiveIds(edge[p]) :
        /\ id < 0 /\ Lookup(edge[p], id) \in ResultLink
        /\ LinkUninvolved(p, id, {"beginRemove"}, <<Msg("result", id, Lookup(edge[p], id))>>)
    /\ UNCHANGED <<inp, busy>>

-----------------------------------------------------------------------------
(* What is pumped from the Output of p to the Input of the other side.     *)

Flush(p) ==
    /\ state[p] = "work"
    /\ out[p] # <<>>
    /\ wire' = [wire EXCEPT ![p] = @ \o out[p]]
    /\ out' = [out EXCEPT ![p] = <<>>]
    /\ UNCHANGED <<state, edge, inp, busy>>

\* LocalEdge::input up to its loop; from within the loop it only appends.
Receive(p) ==
    /\ state[p] = "work"
    /\ wire[Other(p)] # <<>>
    /\ inp' = [inp EXCEPT ![p] = @ \o wire[Other(p)]]
    /\ wire' = [wire EXCEPT ![Other(p)] = <<>>]
    /\ busy' = [busy EXCEPT ![p] = TRUE]
    /\ UNCHANGED <<state, edge, out>>

-----------------------------------------------------------------------------
(* One turn of the loop of LocalEdge::input: the first message of inp[p].  *)

Consume(p) ==
    /\ inp' = [inp EXCEPT ![p] = Tail(@)]
    /\ UNCHANGED busy

\* link::source::Fail thrown while a message is processed.
Fail(p) ==
    /\ state' = [state EXCEPT ![p] = "fail"]
    /\ busy' = [busy EXCEPT ![p] = FALSE]
    /\ UNCHANGED <<edge, out, wire, inp>>

\* The target is the duty object or a link that must exist; the links the
\* call carries must find an empty cell each.
HandleCall(p, m) ==
    LET id == Mirror(m.id)
        t == edge[p].remote
        ta == Accepted(t, m.arg)
    IN  IF /\ id = 0 \/ Lookup(edge[p], id) # NoLink
           /\ Acceptable(t, m.arg)
           /\ Acceptable(ta, m.res)
        THEN /\ edge' = [edge EXCEPT ![p].remote = Accepted(ta, m.res)]
             /\ Consume(p)
             /\ UNCHANGED <<state, out, wire>>
        ELSE Fail(p)

\* Mutant: the awaiting link removes itself without telling the called side.
HandleResultSilent(p, m) ==
    LET id == Mirror(m.id)
    IN  IF Lookup(edge[p], id) # NoLink
        THEN /\ LinkUninvolved(p, id, {"remove", "endRemove"}, <<>>)
             /\ Consume(p)
        ELSE Fail(p)

\* The awaiting link takes the result and is done, cancelled or not.
HandleResult(p, m) ==
    LET id == Mirror(m.id)
    IN  IF Lookup(edge[p], id) # NoLink
        THEN /\ LinkUninvolved(p, id, {"remove", "endRemove", "sendEnd"}, <<>>)
             /\ Consume(p)
        ELSE Fail(p)

\* Mutant: two removals of one link that cross each other are an error.
HandleBeginNoCrossing(p, m) ==
    LET id == Mirror(m.id)
    IN  IF EdgeCanRemove(edge[p], id)
        THEN /\ edge' = [edge EXCEPT ![p] = EdgeRemoved(@, id)]
             /\ out' = [out EXCEPT ![p] = Append(@, Msg("end", id, Lookup(edge[p], id)))]
             /\ Consume(p)
             /\ UNCHANGED <<state, wire>>
        ELSE Fail(p)

\* Mutant: a removal begun by the other side is done and not confirmed.
HandleBeginUnconfirmed(p, m) ==
    LET id == Mirror(m.id)
    IN  /\ edge' = [edge EXCEPT ![p] = IF EdgeCanRemove(@, id) THEN EdgeRemoved(@, id)
                                       ELSE EdgeEndRemoved(@, id)]
        /\ Consume(p)
        /\ UNCHANGED <<state, out, wire>>

\* LocalEdge::oppositeLinkBeginRemove, for a local and for a remote id.
HandleBegin(p, m) ==
    LET id == Mirror(m.id)
    IN  IF EdgeCanRemove(edge[p], id)
        THEN /\ edge' = [edge EXCEPT ![p] = EdgeRemoved(@, id)]
             /\ out' = [out EXCEPT ![p] = Append(@, Msg("end", id, Lookup(edge[p], id)))]
             /\ Consume(p)
             /\ UNCHANGED <<state, wire>>
        ELSE IF EdgeCanEndRemove(edge[p], id)
        THEN /\ edge' = [edge EXCEPT ![p] = EdgeEndRemoved(@, id)]
             /\ Consume(p)
             /\ UNCHANGED <<state, out, wire>>
        ELSE Fail(p)

\* LocalEdge::oppositeLinkEndRemove: whether endRemove succeeds is ignored.
HandleEnd(p, m) ==
    LET id == Mirror(m.id)
    IN  /\ edge' = IF EdgeCanEndRemove(edge[p], id)
                   THEN [edge EXCEPT ![p] = EdgeEndRemoved(@, id)]
                   ELSE edge
        /\ Consume(p)
        /\ UNCHANGED <<state, out, wire>>

Process(p) ==
    /\ busy[p] /\ state[p] = "work" /\ inp[p] # <<>>
    /\ LET m == Head(inp[p])
       IN  CASE m.type = "call"   -> HandleCall(p, m)
             [] m.type = "result" -> HandleResult(p, m)
             [] m.type = "begin"  -> HandleBegin(p, m)
             [] m.type = "end"    -> HandleEnd(p, m)

\* The loop is left: nothing to process, or paused by a handler's callbacks.
Leave(p) ==
    /\ busy[p] /\ (state[p] # "work" \/ inp[p] = <<>>)
    /\ busy' = [busy EXCEPT ![p] = FALSE]
    /\ UNCHANGED <<state, edge, out, wire, inp>>

Next ==
    \E p \in Peer :
        \/ Start(p) \/ Pause(p)
        \/ Put(p) \/ Call(p) \/ Drop(p) \/ Resolve(p)
        \/ Flush(p) \/ Receive(p) \/ Process(p) \/ Leave(p)

Spec == Init /\ [][Next]_vars

\* The edges are started, and what was written is pumped, delivered and
\* processed: by the protocol's pump and the loop of LocalEdge::input.  The
\* users of the links owe nothing.
Fairness ==
    \A p \in Peer : /\ WF_vars(Start(p)) /\ WF_vars(Flush(p)) /\ WF_vars(Receive(p))
                    /\ WF_vars(Process(p)) /\ WF_vars(Leave(p))

FairSpec == Spec /\ Fairness

-----------------------------------------------------------------------------
(* Properties.                                                             *)

\* Every variable has its type; a message about a link never names id 0.
TypeOK ==
    /\ state \in [Peer -> State]
    /\ edge \in [Peer -> Edge]
    /\ out \in [Peer -> Seq(Message)]
    /\ wire \in [Peer -> Seq(Message)]
    /\ inp \in [Peer -> Seq(Message)]
    /\ busy \in [Peer -> BOOLEAN]

\* Whatever the order of emplacing, beginning, ending and outright removing,
\* the free list names exactly the empty cells, no table ends with an empty
\* cell and every begun removal is of a cell still in use: the assertions of
\* LocalLinks::emplace.
TablesSound ==
    \A p \in Peer : LocalSound(edge[p].local) /\ RemoteSound(edge[p].remote)

\* Two edges that follow the code never fail each other's input: no "bad link
\* requested", no "bad local/remote link id marked to delete", no carried link
\* whose remote cell is taken, in whatever order both sides send, drop, cancel
\* and resolve.
NoFail == \A p \in Peer : state[p] # "fail"

\* A message is processed by the link its sender meant, although numbers are
\* used again as soon as a cell is free; an end that completes a removal
\* completes the one of the link it was sent for.
RightLink ==
    \A p \in Peer : inp[p] # <<>> =>
        LET m == Head(inp[p])
            id == Mirror(m.id)
        IN  /\ m.type # "end" /\ id # 0 => Lookup(edge[p], id) = m.link
            /\ m.type = "end" /\ IsZombie(edge[p], id) => Lookup(edge[p], id) = m.link

Names(s, id) == \E k \in 1..Len(s) : s[k].id = id

\* A number on the free list (or past the end) of a local table is not named
\* by any message still on its way: the next link that takes the number
\* cannot receive what was meant for the last one.
FreeMeansUnused ==
    \A p \in Peer : \A k \in 1..Len(Chan(Other(p))) :
        LET id == Mirror(Chan(Other(p))[k].id)
        IN  id > 0 => Lookup(edge[p], id) # NoLink

\* A message of s that makes its receiver remove the cell it knows under id.
Removal(s, id, l) ==
    \E k \in 1..Len(s) : s[k].type # "call" /\ s[k].id = id /\ s[k].link = l

Opening(s, id, l) == \E k \in 1..Len(s) : [id |-> id, link |-> l] \in {s[k].arg, s[k].res}

\* A cell of one side without its partner on the other side is either newly
\* announced or on its way to be removed: no cell is orphaned.
NoOrphan ==
    \A p \in Peer :
        LET q == Other(p)
        IN  /\ \A i \in 1..Len(edge[p].local.links) :
                LET l == edge[p].local.links[i]
                IN  l # NoLink /\ Get(edge[q].remote, i) # l =>
                        Opening(Chan(p), i, l) \/ Removal(Chan(q), -i, l)
            /\ \A i \in 1..Len(edge[p].remote.links) :
                LET l == edge[p].remote.links[i]
                IN  l # NoLink /\ Get(edge[q].local, i) # l => Removal(Chan(q), i, l)

\* Once nothing is under way no removal is left half done.
QuietMeansSettled ==
    (\A p \in Peer : Chan(p) = <<>>) =>
        \A p \in Peer : edge[p].local.zombie = {} /\ edge[p].remote.zombie = {}

HasZombie(p, l) ==
    \/ \E i \in edge[p].local.zombie : Get(edge[p].local, i) = l
    \/ \E i \in edge[p].remote.zombie : Get(edge[p].remote, i) = l

\* A removal that has begun is eventually completed and its number given back,
\* whatever the users do, as long as the edges are not paused for good.
Reclaimed == \A p \in Peer, l \in Link : HasZombie(p, l) ~> ~HasZombie(p, l)
=============================================================================
