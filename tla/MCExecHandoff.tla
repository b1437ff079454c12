--------------------------- MODULE MCExecHandoff ---------------------------
(* ExecHandoff with one shell at a time, as the main thread forks them, and *)
(* two concurrent sync sessions, one of them with a socket that the other's *)
(* child does not close.  Every name is used again without end.             *)
EXTENDS ExecHandoff
=============================================================================
