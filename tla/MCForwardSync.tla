--------------------------- MODULE MCForwardSync ---------------------------
(* Small instances of ForwardSync for TLC.                                  *)
EXTENDS ForwardSync

CONSTANTS f1, f2
=============================================================================
