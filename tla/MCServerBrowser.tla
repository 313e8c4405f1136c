--------------------------- MODULE MCServerBrowser ---------------------------
(* Instances of ServerBrowser for TLC. *)
EXTENDS ServerBrowser

CONSTANTS s1, s2, s3, k1, v1

\* Neither the model nor its properties tell servers apart.
Symmetry == Permutations(ServerID)
=============================================================================
