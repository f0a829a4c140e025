----------------------------- MODULE MCProtocol -----------------------------
(* Protocol on small sets of interfaces and requirements. *)
EXTENDS Protocol, TLC

IfaceSymmetry == Permutations(Iface)

Setting(i, o, w) == [in |-> i, opt |-> o, out |-> w]

\* Without ciphering, checked cutting or cutting alone.
PlainSetups == {Setting(integrity, {}, integrity), Setting(cutting, compression, cutting)}

\* Checked cutting with compression, and ciphering that leaves the compression
\* of what comes in to the peer; a peer that compresses, and takes what is put
\* out here or asks for more.
MixedSetups == {Setting(integrity \cup compression, {}, integrity \cup compression),
                Setting(ciphering, compression, ciphering)}
MixedOuts == {ciphering \cup compression}
MixedIns == {ciphering, ciphering \cup compression}

\* One set of requirements that a peer may or may not meet.
StrictSetups == {Setting(ciphering \cup compression, {}, ciphering)}
StrictPeers == {ciphering, ciphering \cup compression}

NoPeers == {{}}
=============================================================================
