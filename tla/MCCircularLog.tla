---------------------------- MODULE MCCircularLog ---------------------------
(* CircularLog for TLC: two pages, and lines of which one is as long as    *)
(* the cache allows and one is longer.                                     *)
EXTENDS CircularLog
CONSTANTS r1, r2
=============================================================================
