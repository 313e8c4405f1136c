-------------------------- MODULE MCServerListSort --------------------------
(* Instances of ServerListSort for TLC. *)
EXTENDS ServerListSort

CONSTANTS s1, s2, s3, s4
=============================================================================
