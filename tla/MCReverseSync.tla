--------------------------- MODULE MCReverseSync ---------------------------
(* Small instances of ReverseSync for TLC.                                  *)
EXTENDS ReverseSync

CONSTANTS c1, c2, n1, n2, v, w

\* Two ConfigMaps in a namespace each.
MCNamespaceOf == [o \in Objects |-> IF o = c1 THEN n1 ELSE n2]
=============================================================================
