-------------------------- MODULE MCServerDevices --------------------------
(* Finite instances of ServerDevices.                                      *)
EXTENDS ServerDevices, TLC

\* Handles and brightness values are only compared with each other.
Symmetric == Permutations(Handles) \cup Permutations(Levels)
=============================================================================
