-------------------------- MODULE MCServerThreads --------------------------
(* ServerThreads for TLC.                                                  *)
EXTENDS ServerThreads
CONSTANTS c1, c2
=============================================================================
