-------------------------- MODULE MCMasterRegistry --------------------------
(* Instances of MasterRegistry for TLC. *)
EXTENDS MasterRegistry

CONSTANTS a, player, n1

NotConnected == {-1}

\* The client's own packets, and a player that asks for the server.
Packets ==
  ClientPackets \cup
    {[type |-> "RELAYED", from |-> [ip |-> player, port |-> 9], port |-> 1,
      target |-> GameServer(a)]}
=============================================================================
