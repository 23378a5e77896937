--------------------------- MODULE MCHybridLock ---------------------------
(* HybridLock for TLC: three named processes, so that a holder, a waiter   *)
(* and a third process that starts or destroys can meet.                   *)
EXTENDS HybridLock
CONSTANTS p1, p2, p3
=============================================================================
