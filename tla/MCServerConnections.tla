------------------------ MODULE MCServerConnections ------------------------
(* Finite instances of ServerConnections.  The connections are one-shot: a *)
(* client that comes back is another member of Conns.                      *)
EXTENDS ServerConnections, TLC

Symmetric == Permutations(Conns)
=============================================================================
