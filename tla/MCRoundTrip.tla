---------------------------- MODULE MCRoundTrip ----------------------------
(* Small instances of RoundTrip for TLC.                                    *)
EXTENDS RoundTrip

Draft(S) == [f \in Fields |-> IF f \in S THEN Other ELSE Absent]

(* A plain object; one that spells out what has a default; and one whose    *)
(* strategy lacks its type.                                                 *)
Drafts_ ==
  {Draft(Kept),
   [Draft(Kept \cup Known \cup Unknown \cup Ignored) EXCEPT ![Type] = Default],
   Draft(Kept \cup {Rolling})}
=============================================================================
