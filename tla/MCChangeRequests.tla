-------------------------- MODULE MCChangeRequests --------------------------
(* Small instances of ChangeRequests: contents are numbers, 0 is the blank   *)
(* content and 9 is content 1 with white space around it.                    *)
EXTENDS ChangeRequests, TLC

MCTrim == [c \in Contents |-> IF c = 9 THEN 1 ELSE c]

Symmetry == Permutations(Handlers) \cup Permutations(Ids)
=============================================================================
