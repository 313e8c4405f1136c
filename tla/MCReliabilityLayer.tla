------------------------- MODULE MCReliabilityLayer -------------------------
(***************************************************************************)
(* A master client that uploads, delists and notifies over one connection.  *)
(***************************************************************************)
EXTENDS ReliabilityLayer

CONSTANTS client, server

Upload == [reliability |-> RELIABLE_ORDERED, priority |-> MEDIUM_PRIORITY]
Request == [reliability |-> RELIABLE_ORDERED, priority |-> HIGH_PRIORITY]
Notification == [reliability |-> RELIABLE, priority |-> HIGH_PRIORITY]

Requests == client :> <<Upload, Request, Notification>> @@ server :> <<>>
=============================================================================
