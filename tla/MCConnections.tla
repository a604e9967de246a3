--------------------------- MODULE MCConnections ---------------------------
(***************************************************************************)
(* Instances of Connections for TLC.                                       *)
(***************************************************************************)
EXTENDS Connections, TLC

ConnectionsSymmetry == Permutations(Peers) \cup Permutations(Fds) \cup Permutations(Workers)

=============================================================================
