---------------------------- MODULE ServerThreads ----------------------------
(* The threads of one server process (shared_memory/SHMServer.py): the     *)
(* monitor thread that compares the registered connections with            *)
(* SPIDThreads, a worker thread for each connection, and the main thread,  *)
(* which shuts the server down when it is signalled.  They share           *)
(* SPIDThreads, shut_me_down and shutdown_ok without a lock; connections   *)
(* come, are closed, and die at any moment.                                *)
(*                                                                         *)
(* What a worker does with a request is SHMChannel: "command" stands for   *)
(* the whole of handle_command().                                          *)
EXTENDS Naturals

CONSTANTS
    Conn,      \* the (pid, qid) of the connections that are ever made
    Leaving,   \* those that may be closed, or whose client may die
    Resizing   \* those whose map may be replaced by a larger one

ASSUME ConnAssumption == Leaving \subseteq Conn /\ Resizing \subseteq Conn

VARIABLES
    registered, \* LClientPIDs
    live,       \* connections whose client process exists
    linked,     \* those whose lock has not been destroyed
    mapped,     \* those whose name leads to a memory map
    phase,      \* where the main thread is
    shutMeDown, shutdownOk, SPIDThreads,
    monitor,    \* where the monitor thread is
    created, exited,    \* local to monitor_pids()
    worker,     \* where each worker thread is
    counted     \* local to a worker: what it will store in shutdown_ok

(* A worker thread is a pair: its connection, and 2 for a thread that was  *)
(* started while another one of the same connection had not ended.         *)
Thread == Conn \X {1, 2}

clients == <<registered, live, linked, mapped>>
server  == <<phase, shutMeDown, shutdownOk, SPIDThreads>>
looking == <<monitor, created, exited>>
working == <<worker, counted>>
vars == <<clients, server, looking, working>>

TypeOK ==
    /\ registered \in SUBSET Conn
    /\ live \in SUBSET Conn
    /\ linked \in SUBSET Conn
    /\ mapped \in SUBSET Conn
    /\ phase \in {"new", "up", "stopping", "down"}
    /\ shutMeDown \in BOOLEAN
    /\ shutdownOk \in BOOLEAN
    /\ SPIDThreads \in SUBSET Conn
    /\ monitor \in {"none", "top", "looking", "adding", "ended"}
    /\ created \in SUBSET Conn
    /\ exited \in SUBSET Conn
    /\ worker \in [Thread -> {"none", "opening", "loop", "listed", "command",
                            "counting", "telling", "gone", "done"}]
    /\ counted \in [Thread -> BOOLEAN]

Init ==
    /\ registered = {} /\ live = {} /\ linked = {} /\ mapped = {}
    /\ phase = "new"
    /\ shutMeDown = FALSE
    /\ shutdownOk = FALSE
    /\ SPIDThreads = {}
    /\ monitor = "none"
    /\ created = {} /\ exited = {}
    /\ worker = [t \in Thread |-> "none"]
    /\ counted = [t \in Thread |-> FALSE]

-----------------------------------------------------------------------------
(* The clients.  create_resources() makes the map and the lock, then       *)
(* registers the connection.                                               *)
Connect(c) ==
    /\ c \notin registered \cup live \cup linked
    /\ worker[<<c, 1>>] = "none"
    /\ registered' = registered \cup {c}
    /\ live' = live \cup {c}
    /\ linked' = linked \cup {c}
    /\ mapped' = mapped \cup {c}
    /\ UNCHANGED <<server, looking, working>>

(* SHMClient.__del__ destroys the lock and unlinks the map, but leaves the *)
(* connection registered.                                                  *)
Close(c) ==
    /\ c \in live \cap linked \cap Leaving
    /\ linked' = linked \ {c}
    /\ mapped' = mapped \ {c}
    /\ UNCHANGED <<registered, live, server, looking, working>>

Die(c) ==
    /\ c \in live \cap Leaving
    /\ live' = live \ {c}
    /\ UNCHANGED <<registered, linked, mapped, server, looking, working>>

\* A larger map replaces the one of c: for a moment its name leads nowhere.
UnlinkMap(c) ==
    /\ c \in live \cap linked \cap mapped \cap Resizing
    /\ mapped' = mapped \ {c}
    /\ UNCHANGED <<registered, live, linked, server, looking, working>>

RemakeMap(c) ==
    /\ c \in (live \cap linked) \ mapped
    /\ mapped' = mapped \cup {c}
    /\ UNCHANGED <<registered, live, linked, server, looking, working>>

\* The dead are removed from the registry, their locks and maps destroyed.
ForgetTheDead ==
    /\ registered' = registered \cap live
    /\ linked' = linked \ (registered \ live)
    /\ mapped' = mapped \ (registered \ live)

\* check_for_missing_pids() in another process that starts.
CheckForMissingPids ==
    /\ ForgetTheDead
    /\ UNCHANGED <<live, server, looking, working>>

-----------------------------------------------------------------------------
\* SHMServer.__init__
Start ==
    /\ phase = "new"
    /\ phase' = "up"
    /\ monitor' = "top"
    /\ ForgetTheDead
    /\ UNCHANGED <<live, shutMeDown, shutdownOk, SPIDThreads, created, exited,
                   working>>

\* shutdown(), called by the handler of SIGINT.
Shutdown ==
    /\ phase = "up"
    /\ phase' = "stopping"
    /\ shutMeDown' = TRUE
    /\ UNCHANGED <<clients, shutdownOk, SPIDThreads, looking, working>>

\* shutdown() polls shutdown_ok, deletes its pid and returns.
ShutdownReturns ==
    /\ phase = "stopping"
    /\ shutdownOk
    /\ phase' = "down"
    /\ UNCHANGED <<clients, shutMeDown, shutdownOk, SPIDThreads, looking,
                   working>>

-----------------------------------------------------------------------------
\* _monitor_pids: a server that shuts down is not looked at again.
MonitorTop ==
    /\ monitor = "top"
    /\ monitor' = IF shutMeDown THEN "ended" ELSE "looking"
    /\ UNCHANGED <<clients, server, created, exited, working>>

\* Variant: the two results are swapped.
MonitorLookSwapped ==
    /\ monitor = "looking"
    /\ exited' = (registered \cap live) \ SPIDThreads
    /\ created' = SPIDThreads \ (registered \cap live)
    /\ monitor' = "adding"
    /\ UNCHANGED <<clients, server, working>>

\* Variant: every registered client counts as new.
MonitorLookAll ==
    /\ monitor = "looking"
    /\ created' = registered \cap live
    /\ exited' = SPIDThreads \ (registered \cap live)
    /\ monitor' = "adding"
    /\ UNCHANGED <<clients, server, working>>

\* get_created_exited_client_pids(SPIDThreads)
MonitorLook ==
    /\ monitor = "looking"
    /\ created' = (registered \cap live) \ SPIDThreads
    /\ exited' = SPIDThreads \ (registered \cap live)
    /\ monitor' = "adding"
    /\ UNCHANGED <<clients, server, working>>

Ended(t) == worker[t] \in {"none", "gone", "done"}

\* Variant: the connection is wrapped in a tuple once more.
MonitorAddTuple(c) ==
    /\ monitor = "adding"
    /\ c \in created
    /\ created' = created \ {c}
    /\ SPIDThreads' = SPIDThreads \cup {<<c>>}
    /\ LET t == IF Ended(<<c, 1>>) THEN <<c, 1>> ELSE <<c, 2>> IN
         /\ Ended(t)
         /\ worker' = [worker EXCEPT ![t] = "opening"]
    /\ UNCHANGED <<clients, phase, shutMeDown, shutdownOk, monitor, exited,
                   counted>>

MonitorAdd(c) ==
    /\ monitor = "adding"
    /\ c \in created
    /\ created' = created \ {c}
    /\ SPIDThreads' = SPIDThreads \cup {c}
    /\ LET t == IF Ended(<<c, 1>>) THEN <<c, 1>> ELSE <<c, 2>> IN
         /\ Ended(t)
         /\ worker' = [worker EXCEPT ![t] = "opening"]
    /\ UNCHANGED <<clients, phase, shutMeDown, shutdownOk, monitor, exited,
                   counted>>

\* Variant: connections that have exited stay in SPIDThreads.
MonitorRemoveNot(c) ==
    /\ monitor = "adding"
    /\ created = {}
    /\ c \in exited
    /\ exited' = exited \ {c}
    /\ UNCHANGED <<clients, server, monitor, created, working>>

MonitorRemove(c) ==
    /\ monitor = "adding"
    /\ created = {}
    /\ c \in exited
    /\ exited' = exited \ {c}
    /\ SPIDThreads' = SPIDThreads \ {c}
    /\ UNCHANGED <<clients, phase, shutMeDown, shutdownOk, monitor, created,
                   working>>

MonitorSleep ==
    /\ monitor = "adding"
    /\ created = {} /\ exited = {}
    /\ monitor' = "top"
    /\ UNCHANGED <<clients, server, created, exited, working>>

-----------------------------------------------------------------------------
Goto(t, l) == worker' = [worker EXCEPT ![t] = l]

(* worker_thread_fn.  When the map or the lock is not there the thread     *)
(* returns, and its connection stays in SPIDThreads.                       *)
WorkerOpen(t) ==
    /\ worker[t] = "opening"
    /\ Goto(t, IF t[1] \in linked \cap mapped THEN "loop" ELSE "gone")
    /\ UNCHANGED <<clients, server, looking, counted>>

WorkerForgotten(t) ==
    /\ worker[t] = "loop"
    /\ t[1] \notin SPIDThreads
    /\ Goto(t, "done")
    /\ UNCHANGED <<clients, server, looking, counted>>

\* It is in SPIDThreads: next it sees whether the server is shut down.
WorkerListed(t) ==
    /\ worker[t] = "loop"
    /\ t[1] \in SPIDThreads
    /\ Goto(t, "listed")
    /\ UNCHANGED <<clients, server, looking, counted>>

WorkerEnter(t) ==
    /\ worker[t] = "listed"
    /\ ~shutMeDown
    /\ Goto(t, "command")
    /\ UNCHANGED <<clients, server, looking, counted>>

(* handle_command() returns, having served a request or not got the lock   *)
(* in time; or finds the lock destroyed; or raises another exception, of   *)
(* an assertion or a system call, that ends the thread.  Only the monitor  *)
(* takes the connection out of SPIDThreads then.                           *)
WorkerLeave(t) ==
    /\ worker[t] = "command"
    /\ \/ Goto(t, "loop")
       \/ t[1] \notin linked /\ Goto(t, "done")
       \/ Goto(t, "gone")
    /\ UNCHANGED <<clients, server, looking, counted>>

\* Variant: the connection is not removed before the count.
WorkerStopLate(t) ==
    /\ worker[t] = "listed"
    /\ shutMeDown
    /\ Goto(t, "counting")
    /\ UNCHANGED <<clients, server, looking, counted>>

\* Shutting down: the connection is removed, the others are counted, and only
\* then is the result stored in shutdown_ok.
WorkerStop(t) ==
    /\ worker[t] = "listed"
    /\ shutMeDown
    /\ SPIDThreads' = SPIDThreads \ {t[1]}
    /\ Goto(t, "counting")
    /\ UNCHANGED <<clients, phase, shutMeDown, shutdownOk, looking, counted>>

\* Variant: the first worker that stops reports success.
WorkerCountNot(t) ==
    /\ worker[t] = "counting"
    /\ counted' = [counted EXCEPT ![t] = TRUE]
    /\ Goto(t, "telling")
    /\ UNCHANGED <<clients, server, looking>>

WorkerCount(t) ==
    /\ worker[t] = "counting"
    /\ counted' = [counted EXCEPT ![t] = SPIDThreads = {}]
    /\ Goto(t, "telling")
    /\ UNCHANGED <<clients, server, looking>>

WorkerTell(t) ==
    /\ worker[t] = "telling"
    /\ shutdownOk' = counted[t]
    /\ counted' = [counted EXCEPT ![t] = FALSE]
    /\ Goto(t, "done")
    /\ UNCHANGED <<clients, phase, shutMeDown, SPIDThreads, looking>>

-----------------------------------------------------------------------------
ClientStep(c) ==
    Connect(c) \/ Close(c) \/ Die(c) \/ UnlinkMap(c) \/ RemakeMap(c)

Monitor ==
    \/ MonitorTop \/ MonitorLook \/ MonitorSleep
    \/ \E c \in Conn : MonitorAdd(c) \/ MonitorRemove(c)

WorkerStep(t) ==
    \/ WorkerOpen(t) \/ WorkerForgotten(t) \/ WorkerListed(t) \/ WorkerEnter(t)
    \/ WorkerLeave(t) \/ WorkerStop(t) \/ WorkerCount(t) \/ WorkerTell(t)

Next ==
    \/ \E c \in Conn : ClientStep(c)
    \/ CheckForMissingPids
    \/ Start \/ Shutdown \/ ShutdownReturns
    \/ Monitor
    \/ \E t \in Thread : WorkerStep(t)

Spec == Init /\ [][Next]_vars

(* Threads go on running, and a map that is being replaced is replaced.    *)
(* Clients connect, close and die, and the signal comes, or they do not.   *)
FairSpec ==
    /\ Spec
    /\ WF_vars(Start) /\ WF_vars(ShutdownReturns) /\ WF_vars(Monitor)
    /\ \A t \in Thread : WF_vars(WorkerStep(t))
    /\ \A c \in Conn : WF_vars(RemakeMap(c))

-----------------------------------------------------------------------------
(* Two threads never serve the same connection, although SPIDThreads is    *)
(* read by the monitor while workers leave it.                             *)
OneWorkerPerConnection ==
    \A c \in Conn :
        \E i \in {1, 2} :
            worker[<<c, i>>] \notin {"opening", "loop", "listed", "command"}

(* When shutdown() has returned, and the process may exit, no worker is in *)
(* the middle of a call of a client that exists, although the workers      *)
(* count each other without a lock and the monitor may add one meanwhile.  *)
NoCallIsCutShort ==
    phase = "down" =>
        \A t \in Thread : t[1] \in live => worker[t] # "command"

(* Every connection of a client that exists gets a worker that serves it,  *)
(* except one whose map was just being replaced when the worker opened it, *)
(* or whose worker met an exception: its thread is gone and, as it stays   *)
(* in SPIDThreads, no other follows.                                       *)
ConnectionServed ==
    \A c \in Conn :
        c \in registered \cap live \cap linked /\ phase = "up" ~>
            \/ worker[<<c, 1>>] \in {"loop", "gone"}
            \/ c \notin live \cap linked
            \/ phase # "up"

(* A connection whose client has died leaves SPIDThreads and its thread    *)
(* ends, unless the server is told to shut down first.                     *)
DeadConnectionLetGo ==
    \A c \in Conn :
        c \in SPIDThreads \ live ~>
            \/ c \notin SPIDThreads /\ \A i \in {1, 2} : Ended(<<c, i>>)
            \/ shutMeDown

\* The threads of all other connections have ended, and so has the monitor.
OnlyWorker(t) ==
    /\ phase = "stopping" /\ monitor = "ended"
    /\ SPIDThreads = {t[1]} /\ worker[t] = "loop"
    /\ \A u \in Thread \ {t} : Ended(u)

(* The last worker that sees the request to shut down lets shutdown()      *)
(* return.                                                                 *)
LastWorkerEndsShutdown ==
    \A t \in Thread : OnlyWorker(t) ~> phase = "down"

-----------------------------------------------------------------------------
(* The handler of SIGINT "tells the handler 'shut down after this next     *)
(* call is finished'" (MultiProcessManager.py:320-325), with shutdown():   *)
(* once the calls in progress are finished the server is shut down.        *)
ShutdownFinishes == phase = "stopping" ~> phase = "down"
=============================================================================
