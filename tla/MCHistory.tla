----------------------------- MODULE MCHistory -----------------------------
(* Small instances of History for TLC.                                      *)
EXTENDS History, TLC

Symmetry == Permutations(Procs)
AllAndRecent == {[since |-> 0, until |-> MaxClock], [since |-> 2, until |-> 4]}
=============================================================================
