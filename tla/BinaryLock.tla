---------------------------- MODULE BinaryLock ----------------------------
(* What speedysvc's HybridLock promises the code that uses it: a lock that *)
(* at most one client takes at a time, that is given back by whoever took  *)
(* it, and that may be lost together with a client that never gives it     *)
(* back.  HybridLock.tla is shown to implement this module.                *)

CONSTANTS Proc,     \* the processes (or threads) that use the lock
          Nobody    \* not a process

VARIABLE owner      \* who took the lock last without having given it back

Init == owner = Nobody

Acquire(p) == owner = Nobody /\ owner' = p

Release(p) == owner = p /\ owner' = Nobody

Next == \E p \in Proc : Acquire(p) \/ Release(p)

Spec == Init /\ [][Next]_owner
=============================================================================
