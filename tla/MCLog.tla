------------------------------- MODULE MCLog -------------------------------
(* Three threads that log up to two lines each, to a console or to a file. *)
EXTENDS ThreadStream

MCThreads == 1..3
MCConsoles == {"cerr"}
MCPaths == {"log"}
MCMaxLines == 2
============================================================================
