------------------------- MODULE MCResourceRegistry -------------------------
(* ResourceRegistry for TLC: a server process with its main thread s1 and  *)
(* a second thread s2, its monitor or a connection it makes; and a process *)
(* that starts and stops the service and has a connection of its own.      *)
EXTENDS ResourceRegistry, TLC
CONSTANTS srv, mgr, s1, s2, m1
Homes == s1 :> srv @@ s2 :> srv @@ m1 :> mgr
Tasks == s1 :> {"addServer", "delServer"} @@ s2 :> {"look", "addClient"}
         @@ m1 :> {"addClient", "check", "reset"}
\* Nothing is promised once the lock was freed under somebody alive.
Followed == ~robbed
=============================================================================
