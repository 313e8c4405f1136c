---------------------------- MODULE MCConnection ----------------------------
(* A client of the master server, and the master server. *)
EXTENDS Connection
CONSTANTS client, server

ToTheServer == [p \in Peers |-> Peers \ {p, client}]
=============================================================================
