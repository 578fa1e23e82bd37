-------------------------- MODULE MCBackupGateway --------------------------
(* Instances of BackupGateway for TLC: one device and class whose two        *)
(* ciphertexts compete for the newest place.                                 *)
EXTENDS GatewayRefinement, TLC

MCLaneOf == [a \in Artifact |-> CHOOSE l \in Lane : TRUE]
MCKeep == [l \in Lane |-> 1]

Symmetries == Permutations(Request) \union Permutations(Artifact)
=============================================================================
