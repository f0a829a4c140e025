------------------------------ MODULE MCLinks -------------------------------
(* Small instances of Links for TLC. *)
EXTENDS LinkLives, TLC

\* The peers behave alike.  Used by the run that checks no liveness.
PeerSymmetry == Permutations(Peer)
=============================================================================
