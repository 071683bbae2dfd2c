--------------------------- MODULE MCConnections ---------------------------
(* Small instances of Connections for TLC.                                  *)
EXTENDS Connections, TLC

Symmetry == Permutations(Tasks) \cup Permutations(Names) \cup Permutations(Procs)
=============================================================================
