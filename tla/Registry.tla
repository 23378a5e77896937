------------------------------ MODULE Registry ------------------------------
(* What the processes of a service are promised of the list of its servers *)
(* and clients: every operation takes effect at once, on the list as it is *)
(* then, and nothing but an operation changes it.  A process that dies     *)
(* while it writes may leave the list unreadable; the next one that starts *)
(* begins it anew.  Nothing is promised once the lock of the list is       *)
(* broken, by a process that starts while others use it.                   *)

CONSTANTS Server, Connection,
          Home      \* the process of each connection

VARIABLES servers, clients, unreadable, alive, broken

vars == <<servers, clients, unreadable, alive, broken>>

Init ==
    /\ servers = {} /\ clients = {} /\ unreadable = TRUE /\ alive = Server
    /\ broken = FALSE

\* An operation that replaces the lists by S and C.
Replace(S, C) ==
    /\ ~unreadable
    /\ servers' = S
    /\ clients' = C
    /\ UNCHANGED <<unreadable, alive, broken>>

\* Everything found alive stays; a process may die after it was looked at.
CheckForMissingPids(found) ==
    /\ alive \subseteq found
    /\ Replace(servers \cap found, {c \in clients : Home[c] \in found})

Reset ==
    /\ unreadable
    /\ unreadable' = FALSE
    /\ servers' = {}
    /\ clients' = {}
    /\ UNCHANGED <<alive, broken>>

Die(p) ==
    /\ alive' = alive \ {p}
    /\ unreadable' \in {unreadable, TRUE}
    /\ UNCHANGED <<servers, clients, broken>>

Break == broken' = TRUE

Next ==
    \/ \E p \in Server :
        \/ Replace(servers \cup {p}, clients)
        \/ Replace(servers \ {p}, clients)
        \/ Die(p)
    \/ \E c \in Connection : Replace(servers, clients \cup {c})
    \/ \E found \in SUBSET Server : CheckForMissingPids(found)
    \/ Replace({}, clients)
    \/ Reset
    \/ Break

Spec == Init /\ [][Next]_vars
=============================================================================
