------------------------ MODULE MCIrohNetworkAdapter ------------------------
(* Instances of IrohNetworkAdapter for TLC. *)
EXTENDS IrohNetworkAdapter

\* Every stream leads to the only peer.
OnePeer == [s \in Streams |-> CHOOSE p \in Peers : TRUE]
=============================================================================
