--------------------------- MODULE ServiceManager ---------------------------
(* The manager of a service (shared_memory/MultiProcessManager.py), its    *)
(* worker processes (_service_worker.py), the status of the service in     *)
(* LoggerServer.py, and the clients as far as the manager meets them: each *)
(* has a connection with a lock.                                           *)
(*                                                                         *)
(* Two threads work on the list of children: the main thread starts the    *)
(* service and, in the handler of SIGINT, stops it; the monitor thread     *)
(* replaces children that have crashed and adapts their number.  To remove *)
(* a child either one takes the locks of all clients.                      *)
(*                                                                         *)
(* lock() is sem_wait and the write of the pid word.  unlock() does not    *)
(* ask who calls it, and does nothing when the lock is free; a forced one  *)
(* is two steps, as what it has tested may change before it posts.  A lock *)
(* that was posted for somebody alive, or twice, is torn: it is followed   *)
(* no further, and anybody may go on as if it were his.                    *)
(*                                                                         *)
(* Pids are numbers in the order of the forks.                             *)
EXTENDS Naturals, FiniteSets

CONSTANTS
    MinProcs,   \* min_proc_num
    MaxProcs,   \* max_proc_num
    MemLimited, \* max_proc_mem_bytes is set
    Wait,       \* wait_until_completed
    Clients,    \* the number of registered connections
    Crashing,   \* children that may crash at any moment
    MaxForks,   \* bound on the number of forks
    Main, Monitor,  \* the threads of the manager
    Owner, Nobody, Torn  \* who has a lock: its client, nobody, anybody

ASSUME ManagerAssumption ==
    /\ MinProcs \in Nat \ {0}
    /\ MaxProcs \in Nat /\ MinProcs <= MaxProcs
    /\ Clients \in Nat
    /\ MaxForks \in Nat /\ MinProcs <= MaxForks
    /\ Crashing \subseteq 1..MaxForks
    /\ Main # Monitor /\ Owner # Nobody /\ Torn \notin {Owner, Nobody}
    /\ {Main, Monitor} \cap {Owner, Nobody, Torn} = {}
    /\ {Main, Monitor, Owner, Nobody, Torn} \cap Nat = {}
    /\ {MemLimited, Wait} \subseteq BOOLEAN

Pid == 1..MaxForks
Thread == {Main, Monitor}
Client == 1..Clients

VARIABLES
    status,         \* the status of the service in LoggerServer
    LPIDs,          \* the children the manager knows
    shuttingDown,   \* shutting_down
    pc,             \* where each thread is
    target,         \* the child it creates or removes, 0: any
    at,             \* the lock it is about to take or release
    todo,           \* children the monitor has still to look at
    seen,           \* which process it was told has that lock; then the
                    \* dead holder it is about to free it from
    child,          \* what has become of each process
    doomed,         \* children sent SIGINT, to be killed if that fails
    lock,           \* who has the lock of each client
    word,           \* the pid word of that lock, Main for both threads
    pending         \* clients whose call is not answered yet

manager == <<LPIDs, shuttingDown, pc, target, at, todo, seen>>
locks == <<lock, word>>
vars == <<status, manager, child, doomed, locks, pending>>

PC == {"start", "fork", "list", "await", "idle", "stop", "drain", "dead",
       "off", "top", "scan", "inspect", "judge", "post", "lock", "sign",
       "pick", "drop", "signal", "reap", "unlock", "abort"}

TypeOK ==
    /\ status \in {"forking", "starting", "started", "stopping", "stopped"}
    /\ LPIDs \in SUBSET Pid
    /\ shuttingDown \in BOOLEAN
    /\ pc \in [Thread -> PC]
    /\ target \in [Thread -> Pid \cup {0}]
    /\ at \in [Thread -> 1..(Clients + 1)]
    /\ todo \in SUBSET Pid
    /\ seen \in [Thread -> Pid \cup {Main, Owner, Nobody}]
    /\ child \in [Pid -> {"unborn", "starting", "serving", "zombie", "gone"}]
    /\ doomed \in SUBSET Pid
    /\ lock \in [Client -> Pid \cup Thread \cup {Owner, Nobody, Torn}]
    /\ word \in [Client -> Pid \cup {Main, Owner}]
    /\ pending \in SUBSET Client

\* service.py has set the status; clients of an earlier run are registered.
Init ==
    /\ status = "forking"
    /\ LPIDs = {}
    /\ shuttingDown = FALSE
    /\ pc = [t \in Thread |-> IF t = Main THEN "start" ELSE "off"]
    /\ target = [t \in Thread |-> 0]
    /\ at = [t \in Thread |-> 1]
    /\ todo = {}
    /\ seen = [t \in Thread |-> Nobody]
    /\ child = [p \in Pid |-> "unborn"]
    /\ doomed = {}
    /\ lock = [c \in Client |-> Owner]
    /\ word = [c \in Client |-> Owner]
    /\ pending = {}

-----------------------------------------------------------------------------
Alive(p) == child[p] \in {"starting", "serving"}

\* A thread runs as long as the main thread has not ended the process.
At(t, l) == pc[t] = l /\ pc[Main] # "dead"

Goto(t, l) == pc' = [pc EXCEPT ![t] = l]

\* Lock c is free, or h has it; h gets it, or h = Nobody and it is released.
Available(c) == lock[c] \in {Nobody, Torn}

Has(h, c) == lock[c] \in {h, Torn}

Give(c, h) == lock' = IF lock[c] = Torn THEN lock ELSE [lock EXCEPT ![c] = h]

\* The holder of the lock is dead.
LeftBehind(c) == lock[c] \in Pid /\ ~Alive(lock[c])

-----------------------------------------------------------------------------
\* The clients and the children.
Call(c) ==
    /\ Has(Owner, c) /\ word[c] = Owner
    /\ c \notin pending
    /\ pending' = pending \cup {c}
    /\ Give(c, Nobody)
    /\ UNCHANGED <<status, manager, child, doomed, word>>

\* A worker thread of p finds a request.
Take(p, c) ==
    /\ child[p] = "serving"
    /\ Available(c) /\ c \in pending
    /\ Give(c, p)
    /\ UNCHANGED <<status, manager, child, doomed, word, pending>>

Answer(p, c) ==
    /\ child[p] = "serving"
    /\ Has(p, c) /\ word[c] = p
    /\ pending' = pending \ {c}
    /\ Give(c, Nobody)
    /\ UNCHANGED <<status, manager, child, doomed, word>>

Return(c) ==
    /\ Available(c) /\ c \notin pending
    /\ Give(c, Owner)
    /\ UNCHANGED <<status, manager, child, doomed, word, pending>>

\* h, a client or a child, is at the end of lock(): the pid word.
SignFor(h, c) ==
    /\ Has(h, c)
    /\ h \in Pid => child[h] = "serving"
    /\ word[c] # h
    /\ word' = [word EXCEPT ![c] = h]
    /\ UNCHANGED <<status, manager, child, doomed, lock, pending>>

\* _service_worker(): the server is constructed, the status is set.
Boot(p) ==
    /\ child[p] = "starting"
    /\ child' = [child EXCEPT ![p] = "serving"]
    /\ status' = "started"
    /\ UNCHANGED <<manager, doomed, locks, pending>>

\* A child crashes, obeys SIGINT, or is killed since it did not.
Die(p) ==
    /\ Alive(p)
    /\ p \in Crashing \cup doomed
    /\ child' = [child EXCEPT ![p] = "zombie"]
    /\ doomed' = doomed \ {p}
    /\ UNCHANGED <<status, manager, locks, pending>>

-----------------------------------------------------------------------------
\* start_service() and new_child_process()
StartService ==
    /\ At(Main, "start")
    /\ status' = "starting"
    /\ Goto(Main, "fork")
    /\ UNCHANGED <<LPIDs, shuttingDown, target, at, todo, seen, child,
                   doomed, locks, pending>>

Fork(t) ==
    /\ At(t, "fork")
    /\ \E p \in Pid :
        /\ \A q \in Pid : child[q] = "unborn" <=> q >= p
        /\ child' = [child EXCEPT ![p] = "starting"]
        /\ target' = [target EXCEPT ![t] = p]
    /\ Goto(t, "list")
    /\ UNCHANGED <<status, LPIDs, shuttingDown, at, todo, seen, doomed,
                   locks, pending>>

List(t) ==
    /\ At(t, "list")
    /\ LPIDs' = LPIDs \cup {target[t]}
    /\ Goto(t, "await")
    /\ UNCHANGED <<status, shuttingDown, target, at, todo, seen, child,
                   doomed, locks, pending>>

(* The status is "started" as soon as any child has been; the last of the  *)
(* initial children is followed by the start of the monitor thread.        *)
Await(t) ==
    /\ At(t, "await")
    /\ Wait => status = "started"
    /\ target' = [target EXCEPT ![t] = 0]
    /\ pc' = IF t = Monitor THEN [pc EXCEPT ![t] = "top"]
             ELSE IF Cardinality(LPIDs) < MinProcs THEN [pc EXCEPT ![t] = "fork"]
             ELSE [pc EXCEPT ![Main] = "idle", ![Monitor] = "top"]
    /\ UNCHANGED <<status, LPIDs, shuttingDown, at, todo, seen, child,
                   doomed, locks, pending>>

-----------------------------------------------------------------------------
(* SIGINT for the manager and its children: a stop from the web monitor    *)
(* sets the status before, ctrl-c does not.                                *)
Interrupt ==
    /\ At(Main, "idle")
    /\ status' \in {status, "stopping"}
    /\ doomed' = doomed \cup {p \in Pid : Alive(p)}
    /\ Goto(Main, "stop")
    /\ UNCHANGED <<LPIDs, shuttingDown, target, at, todo, seen, child, locks,
                   pending>>

\* stop_service(); the handler ignores the AssertionError and exits.
StopService ==
    /\ At(Main, "stop")
    /\ IF status = "started"
       THEN /\ shuttingDown' = TRUE
            /\ status' = "stopping"
            /\ Goto(Main, "drain")
       ELSE /\ Goto(Main, "dead")
            /\ UNCHANGED <<status, shuttingDown>>
    /\ UNCHANGED <<LPIDs, target, at, todo, seen, child, doomed, locks,
                   pending>>

Drain ==
    /\ At(Main, "drain")
    /\ target' = [target EXCEPT ![Main] = 0]
    /\ status' = IF LPIDs = {} THEN "stopped" ELSE status
    /\ Goto(Main, IF LPIDs = {} THEN "dead" ELSE "inspect")
    /\ UNCHANGED <<LPIDs, shuttingDown, at, todo, seen, child, doomed, locks,
                   pending>>

\* The manager does not end in time and is killed.
Escalate ==
    /\ pc[Main] \notin {"start", "fork", "list", "await", "idle", "dead"}
    /\ Goto(Main, "dead")
    /\ UNCHANGED <<status, LPIDs, shuttingDown, target, at, todo, seen,
                   child, doomed, locks, pending>>

-----------------------------------------------------------------------------
\* __monitor_process_loop() and __monitor_process()
MonitorTop ==
    /\ At(Monitor, "top")
    /\ IF shuttingDown \/ status \in {"stopping", "stopped"}
       THEN Goto(Monitor, "off") /\ UNCHANGED todo
       ELSE Goto(Monitor, "scan") /\ todo' = LPIDs
    /\ UNCHANGED <<status, LPIDs, shuttingDown, target, at, seen, child,
                   doomed, locks, pending>>

\* A dead child is waited for and removed, a live one is passed over.
Scan(p) ==
    /\ At(Monitor, "scan")
    /\ p \in todo
    /\ IF Alive(p)
       THEN /\ todo' = todo \ {p}
            /\ UNCHANGED <<pc, target, child>>
       ELSE /\ child' = [child EXCEPT ![p] = "gone"]
            /\ target' = [target EXCEPT ![Monitor] = p]
            /\ Goto(Monitor, "inspect")
            /\ UNCHANGED todo
    /\ UNCHANGED <<status, LPIDs, shuttingDown, at, seen, doomed, locks,
                   pending>>

\* Variant: no child is replaced at once, only when the load calls for it.
AdaptByLoad ==
    /\ At(Monitor, "scan")
    /\ todo = {}
    /\ \/ Goto(Monitor, "top")
       \/ Cardinality(LPIDs) < MaxProcs /\ Goto(Monitor, "fork")
       \/ Cardinality(LPIDs) > MinProcs /\ Goto(Monitor, "inspect")
    /\ target' = [target EXCEPT ![Monitor] = 0]
    /\ UNCHANGED <<status, LPIDs, shuttingDown, at, todo, seen, child,
                   doomed, locks, pending>>

\* Too few children: one more.  Otherwise what load and memory call for.
Adapt ==
    /\ At(Monitor, "scan")
    /\ todo = {}
    /\ \/ Cardinality(LPIDs) < MinProcs /\ Goto(Monitor, "fork")
       \/ /\ Cardinality(LPIDs) >= MinProcs
          /\ \/ Goto(Monitor, "top")
             \/ Cardinality(LPIDs) < MaxProcs /\ Goto(Monitor, "fork")
             \/ /\ MemLimited \/ Cardinality(LPIDs) > MinProcs
                /\ Goto(Monitor, "inspect")
    /\ target' = [target EXCEPT ![Monitor] = 0]
    /\ UNCHANGED <<status, LPIDs, shuttingDown, at, todo, seen, child,
                   doomed, locks, pending>>

-----------------------------------------------------------------------------
(* remove_child_process().  __lock_locks(): for each lock it asks who has  *)
(* it: nobody, or the process whose pid is in the word.                    *)
Inspect(t) ==
    /\ At(t, "inspect")
    /\ IF at[t] > Clients
       THEN Goto(t, "pick") /\ UNCHANGED seen
       ELSE /\ Goto(t, "judge")
            /\ seen' = [seen EXCEPT ![t] = IF lock[at[t]] = Nobody THEN Nobody
                                                               ELSE word[at[t]]]
    /\ UNCHANGED <<status, LPIDs, shuttingDown, target, at, todo, child, doomed,
                   locks, pending>>

(* If the answer is nobody, or a process that does not exist or is a       *)
(* zombie, it calls unlock(), which first sees whether the lock is taken   *)
(* by now ...                                                              *)
Judge(t) ==
    /\ At(t, "judge")
    /\ LET c    == at[t]
           dead == seen[t] = Nobody \/ (seen[t] \in Pid /\ ~Alive(seen[t]))
       IN  IF dead /\ lock[c] # Nobody
           THEN /\ Goto(t, "post")
                /\ seen' = [seen EXCEPT ![t] = IF LeftBehind(c) THEN lock[c]
                                                               ELSE Nobody]
           ELSE /\ Goto(t, "lock")
                /\ seen' = [seen EXCEPT ![t] = Nobody]
    /\ UNCHANGED <<status, LPIDs, shuttingDown, target, at, todo, child, doomed,
                   locks, pending>>

\* Variant: what a dead process has is left alone.
PostNot(t) ==
    /\ At(t, "post")
    /\ Goto(t, "lock")
    /\ UNCHANGED <<status, LPIDs, shuttingDown, target, at, todo, seen, child,
                   doomed, locks, pending>>

\* ... and then posts, whoever has it now.
Post(t) ==
    /\ At(t, "post")
    /\ Give(at[t], IF LeftBehind(at[t]) THEN Nobody ELSE Torn)
    /\ Goto(t, "lock")
    /\ UNCHANGED <<status, LPIDs, shuttingDown, target, at, todo, seen, child,
                   doomed, word, pending>>

\* Variant: the lock is tried, and left alone when somebody has it.
TryLock(t) ==
    /\ At(t, "lock")
    /\ IF Available(at[t]) THEN Give(at[t], t) ELSE UNCHANGED lock
    /\ seen' = [seen EXCEPT ![t] = Nobody]
    /\ Goto(t, "sign")
    /\ UNCHANGED <<status, LPIDs, shuttingDown, target, at, todo, child, doomed,
                   word, pending>>

\* sem_wait
Lock(t) ==
    /\ At(t, "lock")
    /\ Available(at[t])
    /\ Give(at[t], t)
    /\ seen' = [seen EXCEPT ![t] = Nobody]
    /\ Goto(t, "sign")
    /\ UNCHANGED <<status, LPIDs, shuttingDown, target, at, todo, child, doomed,
                   word, pending>>

\* The end of lock(): the pid word, which is the same for both threads.
Sign(t) ==
    /\ At(t, "sign")
    /\ word' = [word EXCEPT ![at[t]] = Main]
    /\ at' = [at EXCEPT ![t] = @ + 1]
    /\ Goto(t, "inspect")
    /\ UNCHANGED <<status, LPIDs, shuttingDown, target, todo, seen, child, doomed,
                   lock, pending>>

(* lock() raises, as a signal interrupts it or the client has destroyed    *)
(* it: the exception is swallowed, and the thread goes on without it.      *)
LockFails(t) ==
    /\ At(t, "lock")
    /\ Give(at[t], Torn)
    /\ seen' = [seen EXCEPT ![t] = Nobody]
    /\ at' = [at EXCEPT ![t] = @ + 1]
    /\ Goto(t, "inspect")
    /\ UNCHANGED <<status, LPIDs, shuttingDown, target, todo, child, doomed,
                   word, pending>>

\* random.choice() raises IndexError when there is no child left.
Pick(t) ==
    /\ At(t, "pick")
    /\ at' = [at EXCEPT ![t] = 1]
    /\ \/ /\ target[t] # 0 /\ Goto(t, "drop") /\ UNCHANGED target
       \/ /\ target[t] = 0 /\ LPIDs = {} /\ Goto(t, "abort") /\ UNCHANGED target
       \/ /\ target[t] = 0
          /\ \E p \in LPIDs : target' = [target EXCEPT ![t] = p]
          /\ Goto(t, "drop")
    /\ UNCHANGED <<status, LPIDs, shuttingDown, todo, seen, child, doomed,
                   locks, pending>>

\* LPIDs.remove() raises ValueError when the other thread was faster.
Drop(t) ==
    /\ At(t, "drop")
    /\ LPIDs' = LPIDs \ {target[t]}
    /\ Goto(t, IF target[t] \in LPIDs THEN "signal" ELSE "abort")
    /\ UNCHANGED <<status, shuttingDown, target, at, todo, seen, child,
                   doomed, locks, pending>>

\* Variant: a child that is still starting is not killed.
SignalServing(t) ==
    /\ At(t, "signal")
    /\ IF child[target[t]] # "serving"
       THEN Goto(t, "unlock") /\ UNCHANGED doomed
       ELSE Goto(t, "reap") /\ doomed' = doomed \cup {target[t]}
    /\ UNCHANGED <<status, LPIDs, shuttingDown, target, at, todo, seen,
                   child, locks, pending>>

\* kill_pid_and_children(): SIGINT, and what follows if that does not help.
Signal(t) ==
    /\ At(t, "signal")
    /\ IF child[target[t]] = "gone"
       THEN Goto(t, "unlock") /\ UNCHANGED doomed
       ELSE Goto(t, "reap") /\ doomed' = doomed \cup {target[t]}
    /\ UNCHANGED <<status, LPIDs, shuttingDown, target, at, todo, seen,
                   child, locks, pending>>

Reap(t) ==
    /\ At(t, "reap")
    /\ ~Alive(target[t])
    /\ child' = [child EXCEPT ![target[t]] = "gone"]
    /\ doomed' = doomed \ {target[t]}
    /\ Goto(t, "unlock")
    /\ UNCHANGED <<status, LPIDs, shuttingDown, target, at, todo, seen,
                   locks, pending>>

\* Variant: one lock too many.
UnlockPast(t) ==
    /\ At(t, "unlock") \/ At(t, "abort")
    /\ at[t] <= Clients + 1
    /\ lock' = [c \in Client |-> IF c = at[t] THEN Nobody ELSE lock[c]]
    /\ at' = [at EXCEPT ![t] = @ + 1]
    /\ UNCHANGED <<status, LPIDs, shuttingDown, pc, target, todo, seen,
                   child, doomed, word, pending>>

\* finally: each lock is unlocked, whoever has it.
Unlock(t) ==
    /\ At(t, "unlock") \/ At(t, "abort")
    /\ at[t] <= Clients
    /\ Give(at[t], Nobody)
    /\ at' = [at EXCEPT ![t] = @ + 1]
    /\ UNCHANGED <<status, LPIDs, shuttingDown, pc, target, todo, seen,
                   child, doomed, word, pending>>

(* An exception ends the main thread, and with it the process; the monitor *)
(* goes on with the next child, or with its next round.                    *)
Removed(t) ==
    /\ At(t, "unlock") \/ At(t, "abort")
    /\ at[t] > Clients
    /\ at' = [at EXCEPT ![t] = 1]
    /\ Goto(t, IF t = Main THEN IF pc[t] = "abort" THEN "dead" ELSE "drain"
               ELSE IF todo # {} THEN "scan" ELSE "top")
    /\ todo' = IF t = Monitor THEN todo \ {target[t]} ELSE todo
    /\ target' = [target EXCEPT ![t] = 0]
    /\ UNCHANGED <<status, LPIDs, shuttingDown, seen, child, doomed, locks,
                   pending>>

-----------------------------------------------------------------------------
Create(t) == Fork(t) \/ List(t) \/ Await(t)

Remove(t) ==
    \/ Inspect(t) \/ Judge(t) \/ Post(t) \/ Lock(t) \/ Sign(t) \/ Pick(t)
    \/ Drop(t) \/ Signal(t) \/ Reap(t) \/ Unlock(t) \/ Removed(t)

ClientStep(c) ==
    \/ Call(c) \/ Return(c)
    \/ \E h \in Pid \cup {Owner} : SignFor(h, c)
    \/ \E p \in Pid : Take(p, c) \/ Answer(p, c)

Next ==
    \/ \E c \in Client : ClientStep(c)
    \/ \E p \in Pid : Boot(p) \/ Die(p) \/ Scan(p)
    \/ StartService \/ Interrupt \/ StopService \/ Drain \/ Escalate
    \/ MonitorTop \/ Adapt
    \/ \E t \in Thread : Create(t) \/ Remove(t) \/ LockFails(t)

Spec == Init /\ [][Next]_vars

(* Threads and processes go on, methods return, and a lock that is free    *)
(* again and again is had by whoever waits for it.  Nobody has to call,    *)
(* to crash or to stop the service.                                        *)
FairSpec ==
    /\ Spec
    /\ \A t \in Thread : SF_vars(Lock(t)) /\ WF_vars(Create(t) \/ Remove(t))
    /\ WF_vars(StartService) /\ WF_vars(StopService) /\ WF_vars(Drain)
    /\ WF_vars(MonitorTop \/ Adapt \/ \E p \in Pid : Scan(p))
    /\ \A p \in Pid : WF_vars(Boot(p)) /\ WF_vars(p \in doomed /\ Die(p))
    /\ \A c \in Client :
        /\ SF_vars(\E p \in Pid : Take(p, c))
        /\ SF_vars(Return(c))
        /\ \A h \in Pid \cup {Owner} : WF_vars(SignFor(h, c))
        /\ \A p \in Pid : WF_vars(Answer(p, c))

-----------------------------------------------------------------------------
(* "Lock the service, to make sure we don't terminate it halfway through a *)
(* call!" (MultiProcessManager.py:275): from the choice of a child until   *)
(* it is dead, the thread that removes it has the lock of every client,    *)
(* whatever the other thread, the children and the clients do.  This does  *)
(* not cover a client whose lock was torn, by a forced unlock that came    *)
(* too late or by a lock() that failed (442-452).                          *)
NotHalfwayThroughACall ==
    \A t \in Thread :
        At(t, "drop") \/ At(t, "signal") \/ At(t, "reap") =>
            \A c \in Client : Has(t, c)

(* The threads that append to, remove from and copy LPIDs never lose track *)
(* of a live child: it is listed, about to be, or condemned.               *)
EveryChildTracked ==
    pc[Main] # "dead" =>
        \A p \in Pid :
            Alive(p) =>
                \/ p \in LPIDs \cup doomed
                \/ \E t \in Thread :
                    target[t] = p /\ pc[t] \in {"list", "signal"}

-----------------------------------------------------------------------------
\* Clients make calls again and again.
ClientsCall == \A c \in Client : []<>(lock[c] # Owner)

(* A thread waits for a lock whose holder it takes to be alive: the holder *)
(* died after the thread had looked, or before it had written its pid.     *)
(* That is not looked at again, and the manager hangs.                     *)
WaitsForTheDead ==
    \E t \in Thread :
        /\ At(t, "lock")
        /\ LeftBehind(at[t])
        /\ lock[at[t]] # seen[t]

\* A lock is not followed any more.
SomeTorn == \E c \in Client : lock[c] = Torn

\* The bound on forks is reached.
Exhausted == \A p \in Pid : child[p] # "unborn"

Stopping == pc[Main] \notin {"start", "fork", "list", "await", "idle"}

(* "This monitors children, restarting them if they crash" (line 64): once *)
(* the service runs, there are enough live children again and again, until *)
(* it is stopped.                                                          *)
CrashedChildReplaced ==
    ClientsCall =>
        (pc[Main] = "idle" ~>
            \/ Cardinality({p \in LPIDs : Alive(p)}) >= MinProcs
            \/ Stopping \/ Exhausted \/ WaitsForTheDead \/ SomeTorn)

(* A call is answered although children crash while they run it, and       *)
(* although the manager removes children and takes the locks to do so.     *)
CallsGoOn ==
    ClientsCall =>
        \A c \in Client :
            (c \in pending /\ pc[Main] = "idle") ~>
                \/ c \notin pending \/ Stopping \/ Exhausted
                \/ WaitsForTheDead \/ SomeTorn
=============================================================================
