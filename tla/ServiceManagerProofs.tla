------------------------ MODULE ServiceManagerProofs ------------------------
(* ServiceManager for any number of clients, children and crashes: the two *)
(* threads of the manager remove children without excluding each other     *)
(* except by the locks of the clients.                                     *)
EXTENDS ServiceManager, TLAPS

(* at[t] is the first lock that t has not taken yet, or not released yet;  *)
(* a child that is listed or removed has been chosen.                      *)
Counting ==
    \A t \in Thread :
        /\ pc[t] \in {"judge", "post", "lock", "sign"} => at[t] <= Clients
        /\ pc[t] = "pick" => at[t] = Clients + 1
        /\ pc[t] \notin {"inspect", "judge", "post", "lock", "sign", "pick",
                         "unlock", "abort", "dead"} => at[t] = 1
        /\ pc[t] \in {"list", "drop", "signal", "reap"} => target[t] # 0

\* The locks that t has by its place in remove_child_process().
Held(t) ==
    {c \in Client :
        \/ pc[t] \in {"inspect", "judge", "post", "lock", "pick"} /\ c < at[t]
        \/ pc[t] = "sign" /\ c <= at[t]
        \/ pc[t] \in {"drop", "signal", "reap"}
        \/ pc[t] \in {"unlock", "abort"} /\ c >= at[t]}

(* What a thread has taken stays its own until it is torn: the other one   *)
(* unlocks what it holds itself, and a forced unlock tears the lock of a   *)
(* live holder.                                                            *)
Holding == \A t \in Thread : \A c \in Held(t) : Has(t, c)

\* The monitor is not started before the initial children have been.
MonitorLater ==
    pc[Main] \in {"start", "fork", "list", "await"} => pc[Monitor] = "off"

SafeInv == TypeOK /\ Counting /\ MonitorLater /\ EveryChildTracked

\* Every step keeps the variables in their types.
LEMMA StepTypeOK == TypeOK /\ Counting /\ [Next]_vars => TypeOK'
<1> SUFFICES ASSUME TypeOK, Counting, [Next]_vars PROVE TypeOK'
  OBVIOUS
<1> USE DEF TypeOK, Counting, PC, At, Goto, manager, locks, Client, Give, Available, Has, LeftBehind
<1>0. Monitor \in Thread /\ Main # Monitor /\ Clients \in Nat
  BY ManagerAssumption DEF Thread
<1> USE <1>0
<1>1. ASSUME NEW c \in Client, Call(c)
      PROVE  TypeOK'
  BY <1>1 DEF Call
<1>2. ASSUME NEW p \in Pid, NEW c \in Client, Take(p, c)
      PROVE  TypeOK'
  BY <1>2 DEF Take
<1>3. ASSUME NEW p \in Pid, NEW c \in Client, Answer(p, c)
      PROVE  TypeOK'
  BY <1>3 DEF Answer
<1>4. ASSUME NEW c \in Client, Return(c)
      PROVE  TypeOK'
  BY <1>4 DEF Return
<1>5. ASSUME NEW p \in Pid, Boot(p)
      PROVE  TypeOK'
  BY <1>5 DEF Boot
<1>6. ASSUME NEW p \in Pid, Die(p)
      PROVE  TypeOK'
  BY <1>6 DEF Die
<1>7. CASE StartService
  BY <1>7 DEF StartService
<1>8. ASSUME NEW t \in Thread, Fork(t)
      PROVE  TypeOK'
  BY <1>8 DEF Fork
<1>9. ASSUME NEW t \in Thread, List(t)
      PROVE  TypeOK'
  BY <1>9 DEF List
<1>10. ASSUME NEW t \in Thread, Await(t)
       PROVE  TypeOK'
  BY <1>10 DEF Await
<1>11. CASE Interrupt
  BY <1>11 DEF Interrupt
<1>12. CASE StopService
  BY <1>12 DEF StopService
<1>13. CASE Drain
  BY <1>13 DEF Drain
<1>14. CASE Escalate
  BY <1>14 DEF Escalate
<1>15. CASE MonitorTop
  BY <1>15 DEF MonitorTop
<1>16. ASSUME NEW p \in Pid, Scan(p)
       PROVE  TypeOK'
  <2>1. CASE Alive(p)
    BY <1>16, <2>1 DEF Scan
  <2>2. CASE ~Alive(p)
    <3>1. /\ target' = [target EXCEPT ![Monitor] = p] /\ Goto(Monitor, "inspect")
          /\ child' = [child EXCEPT ![p] = "gone"]
          /\ UNCHANGED <<status, LPIDs, shuttingDown, at, todo, seen, doomed, locks, pending>>
      BY <1>16, <2>2 DEF Scan
    <3> QED
      BY <3>1
  <2> QED
    BY <2>1, <2>2
<1>17. CASE Adapt
  BY <1>17 DEF Adapt
<1>18. ASSUME NEW t \in Thread, Inspect(t)
       PROVE  TypeOK'
  <2>1. \E l \in {"pick", "judge"} : pc' = [pc EXCEPT ![t] = l]
    BY <1>18 DEF Inspect
  <2>2. pc' \in [Thread -> PC]
    BY <2>1
  <2>3. CASE at[t] > Clients
    BY <1>18, <2>2, <2>3 DEF Inspect
  <2>4. CASE ~(at[t] > Clients)
    <3>1. at[t] \in Client
      BY <2>4
    <3>2. word[at[t]] \in Pid \cup {Main, Owner}
      BY <3>1
    <3>3. seen' \in [Thread -> Pid \cup {Main, Owner, Nobody}]
      BY <1>18, <2>4, <3>2 DEF Inspect
    <3> QED
      BY <1>18, <2>2, <3>3 DEF Inspect
  <2> QED
    BY <2>3, <2>4
<1>19. ASSUME NEW t \in Thread, Judge(t)
       PROVE  TypeOK'
  BY <1>19 DEF Judge
<1>20. ASSUME NEW t \in Thread, Lock(t)
       PROVE  TypeOK'
  BY <1>20 DEF Lock
<1>21. ASSUME NEW t \in Thread, Pick(t)
       PROVE  TypeOK'
  <2>1. at' = [at EXCEPT ![t] = 1] /\ 1 \in 1..(Clients + 1)
    BY <1>21 DEF Pick
  <2>2. \E l \in PC : pc' = [pc EXCEPT ![t] = l]
    BY <1>21 DEF Pick
  <2>3. target' = target \/ \E p \in LPIDs : target' = [target EXCEPT ![t] = p]
    BY <1>21 DEF Pick
  <2>4. target' \in [Thread -> Pid \cup {0}]
    BY <2>3
  <2>5. at' \in [Thread -> 1..(Clients + 1)] /\ pc' \in [Thread -> PC]
    BY <2>1, <2>2
  <2>6. UNCHANGED <<status, LPIDs, shuttingDown, todo, seen, child, doomed,
                   locks, pending>>
    BY <1>21 DEF Pick
  <2> QED
    BY <2>4, <2>5, <2>6
<1>22. ASSUME NEW t \in Thread, Drop(t)
       PROVE  TypeOK'
  BY <1>22 DEF Drop
<1>23. ASSUME NEW t \in Thread, Signal(t)
       PROVE  TypeOK'
  <2>1. target[t] \in Pid
    BY <1>23 DEF Signal
  <2>2. doomed' \in SUBSET Pid
    BY <1>23, <2>1 DEF Signal
  <2>3. \E l \in PC : pc' = [pc EXCEPT ![t] = l]
    BY <1>23 DEF Signal
  <2>4. pc' \in [Thread -> PC]
    BY <2>3
  <2>5. UNCHANGED <<status, LPIDs, shuttingDown, target, at, todo, seen,
                   child, locks, pending>>
    BY <1>23 DEF Signal
  <2> QED
    BY <2>2, <2>4, <2>5
<1>24. ASSUME NEW t \in Thread, Reap(t)
       PROVE  TypeOK'
  BY <1>24 DEF Reap
<1>25. ASSUME NEW t \in Thread, Unlock(t)
       PROVE  TypeOK'
  BY <1>25 DEF Unlock
<1>26. ASSUME NEW t \in Thread, Removed(t)
       PROVE  TypeOK'
  BY <1>26 DEF Removed
<1>27. CASE UNCHANGED vars
  BY <1>27 DEF vars
<1>28. ASSUME NEW t \in Thread, Post(t)
       PROVE  TypeOK'
  BY <1>28 DEF Post
<1>29. ASSUME NEW t \in Thread, Sign(t)
       PROVE  TypeOK'
  BY <1>29 DEF Sign
<1>30. ASSUME NEW t \in Thread, LockFails(t)
       PROVE  TypeOK'
  BY <1>30 DEF LockFails
<1>31. ASSUME NEW h \in Pid \cup {Owner}, NEW c \in Client, SignFor(h, c)
       PROVE  TypeOK'
  BY <1>31 DEF SignFor
<1> QED
  BY <1>1, <1>2, <1>3, <1>4, <1>5, <1>6, <1>7, <1>8, <1>9, <1>10,
     <1>11, <1>12, <1>13, <1>14, <1>15, <1>16, <1>17, <1>18, <1>19, <1>20,
     <1>21, <1>22, <1>23, <1>24, <1>25, <1>26, <1>27, <1>28, <1>29, <1>30,
     <1>31
     DEF Next, ClientStep, Create, Remove

\* Taking and releasing the locks goes through them one by one.
LEMMA StepCounting == TypeOK /\ MonitorLater /\ Counting /\ [Next]_vars => Counting'
<1> SUFFICES ASSUME TypeOK, MonitorLater, Counting, [Next]_vars PROVE Counting'
  OBVIOUS
<1> USE DEF Counting, At, Goto, manager, locks
<1>0. Thread = {Main, Monitor} /\ Main # Monitor /\ Clients \in Nat
  BY ManagerAssumption DEF Thread
<1> USE <1>0
<1>00. /\ pc \in [Thread -> PC] /\ at \in [Thread -> 1..(Clients + 1)]
       /\ target \in [Thread -> Pid \cup {0}] /\ LPIDs \subseteq Pid /\ 0 \notin Pid
  BY DEF TypeOK, Pid
<1> USE <1>00
<1>1. ASSUME NEW c \in Client, Call(c)
      PROVE  Counting'
  BY <1>1 DEF Call
<1>2. ASSUME NEW p \in Pid, NEW c \in Client, Take(p, c)
      PROVE  Counting'
  BY <1>2 DEF Take
<1>3. ASSUME NEW p \in Pid, NEW c \in Client, Answer(p, c)
      PROVE  Counting'
  BY <1>3 DEF Answer
<1>4. ASSUME NEW c \in Client, Return(c)
      PROVE  Counting'
  BY <1>4 DEF Return
<1>5. ASSUME NEW p \in Pid, Boot(p)
      PROVE  Counting'
  BY <1>5 DEF Boot
<1>6. ASSUME NEW p \in Pid, Die(p)
      PROVE  Counting'
  BY <1>6 DEF Die
<1>7. CASE StartService
  BY <1>7 DEF StartService
<1>8. ASSUME NEW t \in Thread, Fork(t)
      PROVE  Counting'
  BY <1>8 DEF Fork
<1>9. ASSUME NEW t \in Thread, List(t)
      PROVE  Counting'
  BY <1>9 DEF List
<1>10. ASSUME NEW t \in Thread, Await(t)
       PROVE  Counting'
  <2>1. at' = at /\ target' = [target EXCEPT ![t] = 0] /\ pc[t] = "await"
    BY <1>10 DEF Await
  <2>2. CASE t = Monitor
    <3>1. pc' = [pc EXCEPT ![t] = "top"]
      BY <1>10, <2>2 DEF Await
    <3> QED
      BY <2>1, <3>1
  <2>3. CASE t = Main
    <3>1. at[Main] = 1 /\ at[Monitor] = 1 /\ pc[Monitor] = "off"
      BY <2>1, <2>3 DEF MonitorLater
    <3>2. \/ pc' = [pc EXCEPT ![t] = "fork"]
          \/ pc' = [pc EXCEPT ![Main] = "idle", ![Monitor] = "top"]
      BY <1>10, <2>3 DEF Await
    <3>3. /\ pc'[Main] \in {"fork", "idle"}
          /\ pc'[Monitor] \in {"off", "top"}
      BY <2>3, <3>1, <3>2
    <3> QED
      BY <2>1, <2>3, <3>1, <3>3
  <2> QED
    BY <2>2, <2>3
<1>11. CASE Interrupt
  BY <1>11 DEF Interrupt
<1>12. CASE StopService
  BY <1>12 DEF StopService
<1>13. CASE Drain
  BY <1>13 DEF Drain
<1>14. CASE Escalate
  BY <1>14 DEF Escalate
<1>15. CASE MonitorTop
  BY <1>15 DEF MonitorTop
<1>16. ASSUME NEW p \in Pid, Scan(p)
       PROVE  Counting'
  BY <1>16 DEF Scan
<1>17. CASE Adapt
  BY <1>17 DEF Adapt
<1>18. ASSUME NEW t \in Thread, Inspect(t)
       PROVE  Counting'
  BY <1>18 DEF Inspect
<1>19. ASSUME NEW t \in Thread, Judge(t)
       PROVE  Counting'
  BY <1>19 DEF Judge
<1>20. ASSUME NEW t \in Thread, Lock(t)
       PROVE  Counting'
  BY <1>20 DEF Lock
<1>21. ASSUME NEW t \in Thread, Pick(t)
       PROVE  Counting'
  BY <1>21 DEF Pick
<1>22. ASSUME NEW t \in Thread, Drop(t)
       PROVE  Counting'
  BY <1>22 DEF Drop
<1>23. ASSUME NEW t \in Thread, Signal(t)
       PROVE  Counting'
  BY <1>23 DEF Signal
<1>24. ASSUME NEW t \in Thread, Reap(t)
       PROVE  Counting'
  BY <1>24 DEF Reap
<1>25. ASSUME NEW t \in Thread, Unlock(t)
       PROVE  Counting'
  BY <1>25 DEF Unlock
<1>26. ASSUME NEW t \in Thread, Removed(t)
       PROVE  Counting'
  BY <1>26 DEF Removed
<1>27. CASE UNCHANGED vars
  BY <1>27 DEF vars
<1>28. ASSUME NEW t \in Thread, Post(t)
       PROVE  Counting'
  BY <1>28 DEF Post
<1>29. ASSUME NEW t \in Thread, Sign(t)
       PROVE  Counting'
  BY <1>29 DEF Sign
<1>30. ASSUME NEW t \in Thread, LockFails(t)
       PROVE  Counting'
  BY <1>30 DEF LockFails
<1>31. ASSUME NEW h \in Pid \cup {Owner}, NEW c \in Client, SignFor(h, c)
       PROVE  Counting'
  BY <1>31 DEF SignFor
<1> QED
  BY <1>1, <1>2, <1>3, <1>4, <1>5, <1>6, <1>7, <1>8, <1>9, <1>10,
     <1>11, <1>12, <1>13, <1>14, <1>15, <1>16, <1>17, <1>18, <1>19, <1>20,
     <1>21, <1>22, <1>23, <1>24, <1>25, <1>26, <1>27, <1>28, <1>29, <1>30,
     <1>31
     DEF Next, ClientStep, Create, Remove

\* Only the last of the initial children starts the monitor.
LEMMA StepMonitorLater == TypeOK /\ MonitorLater /\ [Next]_vars => MonitorLater'
<1> SUFFICES ASSUME TypeOK, MonitorLater, [Next]_vars PROVE MonitorLater'
  OBVIOUS
<1> USE DEF MonitorLater, At, Goto, manager, locks
<1>0. Thread = {Main, Monitor} /\ Main # Monitor /\ Clients \in Nat
  BY ManagerAssumption DEF Thread
<1> USE <1>0
<1>00. pc \in [Thread -> PC]
  BY DEF TypeOK
<1> USE <1>00
<1>1. ASSUME NEW c \in Client, Call(c)
      PROVE  MonitorLater'
  BY <1>1 DEF Call
<1>2. ASSUME NEW p \in Pid, NEW c \in Client, Take(p, c)
      PROVE  MonitorLater'
  BY <1>2 DEF Take
<1>3. ASSUME NEW p \in Pid, NEW c \in Client, Answer(p, c)
      PROVE  MonitorLater'
  BY <1>3 DEF Answer
<1>4. ASSUME NEW c \in Client, Return(c)
      PROVE  MonitorLater'
  BY <1>4 DEF Return
<1>5. ASSUME NEW p \in Pid, Boot(p)
      PROVE  MonitorLater'
  BY <1>5 DEF Boot
<1>6. ASSUME NEW p \in Pid, Die(p)
      PROVE  MonitorLater'
  BY <1>6 DEF Die
<1>7. CASE StartService
  BY <1>7 DEF StartService
<1>8. ASSUME NEW t \in Thread, Fork(t)
      PROVE  MonitorLater'
  BY <1>8 DEF Fork
<1>9. ASSUME NEW t \in Thread, List(t)
      PROVE  MonitorLater'
  BY <1>9 DEF List
<1>10. ASSUME NEW t \in Thread, Await(t)
       PROVE  MonitorLater'
  BY <1>10 DEF Await
<1>11. CASE Interrupt
  BY <1>11 DEF Interrupt
<1>12. CASE StopService
  BY <1>12 DEF StopService
<1>13. CASE Drain
  BY <1>13 DEF Drain
<1>14. CASE Escalate
  BY <1>14 DEF Escalate
<1>15. CASE MonitorTop
  BY <1>15 DEF MonitorTop
<1>16. ASSUME NEW p \in Pid, Scan(p)
       PROVE  MonitorLater'
  BY <1>16 DEF Scan
<1>17. CASE Adapt
  BY <1>17 DEF Adapt
<1>18. ASSUME NEW t \in Thread, Inspect(t)
       PROVE  MonitorLater'
  BY <1>18 DEF Inspect
<1>19. ASSUME NEW t \in Thread, Judge(t)
       PROVE  MonitorLater'
  BY <1>19 DEF Judge
<1>20. ASSUME NEW t \in Thread, Lock(t)
       PROVE  MonitorLater'
  BY <1>20 DEF Lock
<1>21. ASSUME NEW t \in Thread, Pick(t)
       PROVE  MonitorLater'
  BY <1>21 DEF Pick
<1>22. ASSUME NEW t \in Thread, Drop(t)
       PROVE  MonitorLater'
  BY <1>22 DEF Drop
<1>23. ASSUME NEW t \in Thread, Signal(t)
       PROVE  MonitorLater'
  BY <1>23 DEF Signal
<1>24. ASSUME NEW t \in Thread, Reap(t)
       PROVE  MonitorLater'
  BY <1>24 DEF Reap
<1>25. ASSUME NEW t \in Thread, Unlock(t)
       PROVE  MonitorLater'
  BY <1>25 DEF Unlock
<1>26. ASSUME NEW t \in Thread, Removed(t)
       PROVE  MonitorLater'
  BY <1>26 DEF Removed
<1>27. CASE UNCHANGED vars
  BY <1>27 DEF vars
<1>28. ASSUME NEW t \in Thread, Post(t)
       PROVE  MonitorLater'
  BY <1>28 DEF Post
<1>29. ASSUME NEW t \in Thread, Sign(t)
       PROVE  MonitorLater'
  BY <1>29 DEF Sign
<1>30. ASSUME NEW t \in Thread, LockFails(t)
       PROVE  MonitorLater'
  BY <1>30 DEF LockFails
<1>31. ASSUME NEW h \in Pid \cup {Owner}, NEW c \in Client, SignFor(h, c)
       PROVE  MonitorLater'
  BY <1>31 DEF SignFor
<1> QED
  BY <1>1, <1>2, <1>3, <1>4, <1>5, <1>6, <1>7, <1>8, <1>9, <1>10,
     <1>11, <1>12, <1>13, <1>14, <1>15, <1>16, <1>17, <1>18, <1>19, <1>20,
     <1>21, <1>22, <1>23, <1>24, <1>25, <1>26, <1>27, <1>28, <1>29, <1>30,
     <1>31
     DEF Next, ClientStep, Create, Remove

\* A child that leaves LPIDs is condemned by the thread that took it out.
LEMMA StepTracked == TypeOK /\ MonitorLater /\ EveryChildTracked /\ [Next]_vars => EveryChildTracked'
<1> SUFFICES ASSUME TypeOK, MonitorLater, EveryChildTracked, [Next]_vars PROVE EveryChildTracked'
  OBVIOUS
<1> USE DEF EveryChildTracked, MonitorLater, Alive, At, Goto, manager, locks
<1>0. Thread = {Main, Monitor} /\ Main # Monitor /\ Clients \in Nat
  BY ManagerAssumption DEF Thread
<1> USE <1>0
<1>00. /\ pc \in [Thread -> PC] /\ target \in [Thread -> Pid \cup {0}]
       /\ child \in [Pid -> {"unborn", "starting", "serving", "zombie", "gone"}]
  BY DEF TypeOK
<1> USE <1>00
<1>1. ASSUME NEW c \in Client, Call(c)
      PROVE  EveryChildTracked'
  BY <1>1 DEF Call
<1>2. ASSUME NEW p \in Pid, NEW c \in Client, Take(p, c)
      PROVE  EveryChildTracked'
  BY <1>2 DEF Take
<1>3. ASSUME NEW p \in Pid, NEW c \in Client, Answer(p, c)
      PROVE  EveryChildTracked'
  BY <1>3 DEF Answer
<1>4. ASSUME NEW c \in Client, Return(c)
      PROVE  EveryChildTracked'
  BY <1>4 DEF Return
<1>5. ASSUME NEW p \in Pid, Boot(p)
      PROVE  EveryChildTracked'
  BY <1>5 DEF Boot
<1>6. ASSUME NEW p \in Pid, Die(p)
      PROVE  EveryChildTracked'
  BY <1>6 DEF Die
<1>7. CASE StartService
  BY <1>7 DEF StartService
<1>8. ASSUME NEW t \in Thread, Fork(t)
      PROVE  EveryChildTracked'
  BY <1>8 DEF Fork
<1>9. ASSUME NEW t \in Thread, List(t)
      PROVE  EveryChildTracked'
  BY <1>9 DEF List
<1>10. ASSUME NEW t \in Thread, Await(t)
       PROVE  EveryChildTracked'
  BY <1>10 DEF Await
<1>11. CASE Interrupt
  BY <1>11 DEF Interrupt
<1>12. CASE StopService
  BY <1>12 DEF StopService
<1>13. CASE Drain
  BY <1>13 DEF Drain
<1>14. CASE Escalate
  BY <1>14 DEF Escalate
<1>15. CASE MonitorTop
  BY <1>15 DEF MonitorTop
<1>16. ASSUME NEW p \in Pid, Scan(p)
       PROVE  EveryChildTracked'
  BY <1>16 DEF Scan
<1>17. CASE Adapt
  BY <1>17 DEF Adapt
<1>18. ASSUME NEW t \in Thread, Inspect(t)
       PROVE  EveryChildTracked'
  BY <1>18 DEF Inspect
<1>19. ASSUME NEW t \in Thread, Judge(t)
       PROVE  EveryChildTracked'
  BY <1>19 DEF Judge
<1>20. ASSUME NEW t \in Thread, Lock(t)
       PROVE  EveryChildTracked'
  BY <1>20 DEF Lock
<1>21. ASSUME NEW t \in Thread, Pick(t)
       PROVE  EveryChildTracked'
  BY <1>21 DEF Pick
<1>22. ASSUME NEW t \in Thread, Drop(t)
       PROVE  EveryChildTracked'
  BY <1>22 DEF Drop
<1>23. ASSUME NEW t \in Thread, Signal(t)
       PROVE  EveryChildTracked'
  BY <1>23 DEF Signal
<1>24. ASSUME NEW t \in Thread, Reap(t)
       PROVE  EveryChildTracked'
  BY <1>24 DEF Reap
<1>25. ASSUME NEW t \in Thread, Unlock(t)
       PROVE  EveryChildTracked'
  BY <1>25 DEF Unlock
<1>26. ASSUME NEW t \in Thread, Removed(t)
       PROVE  EveryChildTracked'
  BY <1>26 DEF Removed
<1>27. CASE UNCHANGED vars
  BY <1>27 DEF vars
<1>28. ASSUME NEW t \in Thread, Post(t)
       PROVE  EveryChildTracked'
  BY <1>28 DEF Post
<1>29. ASSUME NEW t \in Thread, Sign(t)
       PROVE  EveryChildTracked'
  BY <1>29 DEF Sign
<1>30. ASSUME NEW t \in Thread, LockFails(t)
       PROVE  EveryChildTracked'
  BY <1>30 DEF LockFails
<1>31. ASSUME NEW h \in Pid \cup {Owner}, NEW c \in Client, SignFor(h, c)
       PROVE  EveryChildTracked'
  BY <1>31 DEF SignFor
<1> QED
  BY <1>1, <1>2, <1>3, <1>4, <1>5, <1>6, <1>7, <1>8, <1>9, <1>10,
     <1>11, <1>12, <1>13, <1>14, <1>15, <1>16, <1>17, <1>18, <1>19, <1>20,
     <1>21, <1>22, <1>23, <1>24, <1>25, <1>26, <1>27, <1>28, <1>29, <1>30,
     <1>31
     DEF Next, ClientStep, Create, Remove

\* Nobody takes from a thread what it holds but by tearing it.
LEMMA StepHolding == TypeOK /\ MonitorLater /\ Counting /\ Holding /\ [Next]_vars => Holding'
<1> SUFFICES ASSUME TypeOK, MonitorLater, Counting, Holding, [Next]_vars PROVE Holding'
  OBVIOUS
<1> USE DEF Holding, Held, At, Goto, manager, locks, Give, Has, Available
<1>0. /\ Thread = {Main, Monitor} /\ Main # Monitor /\ Clients \in Nat
      /\ Pid \cap Thread = {} /\ {Owner, Nobody, Torn} \cap Thread = {}
      /\ Torn \notin Pid
  <2>1. Pid \subseteq Nat
    BY DEF Pid
  <2> QED
    BY <2>1, ManagerAssumption DEF Thread
<1>00. /\ pc \in [Thread -> PC] /\ at \in [Thread -> Nat]
       /\ lock \in [Client -> Pid \cup Thread \cup {Owner, Nobody, Torn}]
       /\ Client = 1..Clients
  BY <1>0 DEF TypeOK, Client
<1> USE <1>0, <1>00
<1>1. ASSUME NEW c \in Client, Call(c)
      PROVE  Holding'
  <2>1. UNCHANGED <<pc, at>>
    BY <1>1 DEF Call
  <2>2. lock[c] \notin Thread
    BY <1>1 DEF Call
  <2>3. \A d \in Client : lock[d] \in Thread \cup {Torn} => lock'[d] = lock[d]
    BY <1>1, <2>2 DEF Call
  <2> QED
    BY <2>1, <2>3
<1>2. ASSUME NEW p \in Pid, NEW c \in Client, Take(p, c)
      PROVE  Holding'
  <2>1. UNCHANGED <<pc, at>>
    BY <1>2 DEF Take
  <2>2. lock[c] \notin Thread
    BY <1>2 DEF Take
  <2>3. \A d \in Client : lock[d] \in Thread \cup {Torn} => lock'[d] = lock[d]
    BY <1>2, <2>2 DEF Take
  <2> QED
    BY <2>1, <2>3
<1>3. ASSUME NEW p \in Pid, NEW c \in Client, Answer(p, c)
      PROVE  Holding'
  <2>1. UNCHANGED <<pc, at>>
    BY <1>3 DEF Answer
  <2>2. lock[c] \notin Thread
    BY <1>3 DEF Answer
  <2>3. \A d \in Client : lock[d] \in Thread \cup {Torn} => lock'[d] = lock[d]
    BY <1>3, <2>2 DEF Answer
  <2> QED
    BY <2>1, <2>3
<1>4. ASSUME NEW c \in Client, Return(c)
      PROVE  Holding'
  <2>1. UNCHANGED <<pc, at>>
    BY <1>4 DEF Return
  <2>2. lock[c] \notin Thread
    BY <1>4 DEF Return
  <2>3. \A d \in Client : lock[d] \in Thread \cup {Torn} => lock'[d] = lock[d]
    BY <1>4, <2>2 DEF Return
  <2> QED
    BY <2>1, <2>3
<1>5. ASSUME NEW p \in Pid, Boot(p)
      PROVE  Holding'
  BY <1>5 DEF Boot
<1>6. ASSUME NEW p \in Pid, Die(p)
      PROVE  Holding'
  BY <1>6 DEF Die
<1>7. CASE StartService
  BY <1>7 DEF StartService
<1>8. ASSUME NEW t \in Thread, Fork(t)
      PROVE  Holding'
  BY <1>8 DEF Fork
<1>9. ASSUME NEW t \in Thread, List(t)
      PROVE  Holding'
  BY <1>9 DEF List
<1>10. ASSUME NEW t \in Thread, Await(t)
       PROVE  Holding'
  BY <1>10 DEF Await
<1>11. CASE Interrupt
  BY <1>11 DEF Interrupt
<1>12. CASE StopService
  BY <1>12 DEF StopService
<1>13. CASE Drain
  <2>1. pc[Main] = "drain" /\ at[Main] = 1
    BY <1>13 DEF Drain, Counting
  <2>2. at' = at /\ lock' = lock
    BY <1>13 DEF Drain
  <2>3. \E l \in {"dead", "inspect"} : pc' = [pc EXCEPT ![Main] = l]
    BY <1>13 DEF Drain
  <2>4. ~ \E c \in Client : c < at[Main]
    BY <2>1
  <2> QED
    BY <2>1, <2>2, <2>3, <2>4
<1>14. CASE Escalate
  BY <1>14 DEF Escalate
<1>15. CASE MonitorTop
  BY <1>15 DEF MonitorTop
<1>16. ASSUME NEW p \in Pid, Scan(p)
       PROVE  Holding'
  <2>1. pc[Monitor] = "scan" /\ at[Monitor] = 1
    BY <1>16 DEF Scan, Counting
  <2>2. at' = at /\ lock' = lock
    BY <1>16 DEF Scan
  <2>3. pc' = pc \/ \E l \in {"top", "fork", "inspect"} : pc' = [pc EXCEPT ![Monitor] = l]
    BY <1>16 DEF Scan
  <2>4. ~ \E c \in Client : c < at[Monitor]
    BY <2>1
  <2> QED
    BY <2>1, <2>2, <2>3, <2>4
<1>17. CASE Adapt
  <2>1. pc[Monitor] = "scan" /\ at[Monitor] = 1
    BY <1>17 DEF Adapt, Counting
  <2>2. at' = at /\ lock' = lock
    BY <1>17 DEF Adapt
  <2>3. pc' = pc \/ \E l \in {"top", "fork", "inspect"} : pc' = [pc EXCEPT ![Monitor] = l]
    BY <1>17 DEF Adapt
  <2>4. ~ \E c \in Client : c < at[Monitor]
    BY <2>1
  <2> QED
    BY <2>1, <2>2, <2>3, <2>4
<1>18. ASSUME NEW t \in Thread, Inspect(t)
       PROVE  Holding'
  BY <1>18 DEF Inspect
<1>19. ASSUME NEW t \in Thread, Judge(t)
       PROVE  Holding'
  BY <1>19 DEF Judge
<1>20. ASSUME NEW t \in Thread, Lock(t)
       PROVE  Holding'
  <2>1. pc[t] = "lock" /\ at[t] \in Client /\ lock[at[t]] \in {Nobody, Torn}
    BY <1>20 DEF Lock, Counting, TypeOK
  <2>2. at' = at /\ pc' = [pc EXCEPT ![t] = "sign"]
    BY <1>20 DEF Lock
  <2>3. /\ lock'[at[t]] \in {t, Torn}
        /\ \A d \in Client : lock[d] \in Thread \cup {Torn} => lock'[d] = lock[d]
    BY <1>20, <2>1 DEF Lock
  <2>4. \A u \in Thread : \A d \in Held(u)' : d \in Held(u) \/ (u = t /\ d = at[t])
    BY <2>1, <2>2
  <2> QED
    BY <2>3, <2>4
<1>21. ASSUME NEW t \in Thread, Pick(t)
       PROVE  Holding'
  <2>1. pc[t] = "pick" /\ at[t] = Clients + 1 /\ lock' = lock
    BY <1>21 DEF Pick, Counting
  <2>2. /\ at' = [at EXCEPT ![t] = 1]
        /\ \E l \in {"drop", "abort"} : pc' = [pc EXCEPT ![t] = l]
    BY <1>21 DEF Pick
  <2>3. \A c \in Client : Has(t, c)
    BY <2>1
  <2> QED
    BY <2>1, <2>2, <2>3
<1>22. ASSUME NEW t \in Thread, Drop(t)
       PROVE  Holding'
  BY <1>22 DEF Drop
<1>23. ASSUME NEW t \in Thread, Signal(t)
       PROVE  Holding'
  BY <1>23 DEF Signal
<1>24. ASSUME NEW t \in Thread, Reap(t)
       PROVE  Holding'
  BY <1>24 DEF Reap
<1>25. ASSUME NEW t \in Thread, Unlock(t)
       PROVE  Holding'
  BY <1>25 DEF Unlock
<1>26. ASSUME NEW t \in Thread, Removed(t)
       PROVE  Holding'
  BY <1>26 DEF Removed
<1>27. CASE UNCHANGED vars
  BY <1>27 DEF vars
<1>28. ASSUME NEW t \in Thread, Post(t)
       PROVE  Holding'
  <2>1. pc[t] = "post" /\ at[t] \in Client
    BY <1>28 DEF Post, Counting, TypeOK
  <2>2. at' = at /\ pc' = [pc EXCEPT ![t] = "lock"]
    BY <1>28 DEF Post
  <2>3. \A u \in Thread, d \in Client : lock[d] \in {u, Torn} => lock'[d] \in {u, Torn}
    BY <1>28, <2>1 DEF Post, LeftBehind
  <2>4. \A u \in Thread : \A d \in Held(u)' : d \in Held(u)
    BY <2>1, <2>2
  <2> QED
    BY <2>3, <2>4
<1>29. ASSUME NEW t \in Thread, Sign(t)
       PROVE  Holding'
  BY <1>29 DEF Sign
<1>30. ASSUME NEW t \in Thread, LockFails(t)
       PROVE  Holding'
  BY <1>30 DEF LockFails
<1>31. ASSUME NEW h \in Pid \cup {Owner}, NEW c \in Client, SignFor(h, c)
       PROVE  Holding'
  BY <1>31 DEF SignFor
<1> QED
  BY <1>1, <1>2, <1>3, <1>4, <1>5, <1>6, <1>7, <1>8, <1>9, <1>10,
     <1>11, <1>12, <1>13, <1>14, <1>15, <1>16, <1>17, <1>18, <1>19, <1>20,
     <1>21, <1>22, <1>23, <1>24, <1>25, <1>26, <1>27, <1>28, <1>29, <1>30,
     <1>31
     DEF Next, ClientStep, Create, Remove

-----------------------------------------------------------------------------
\* The manager has not begun; the locks are with the clients.
LEMMA InitSafe == Init => SafeInv /\ Holding
<1> SUFFICES ASSUME Init PROVE SafeInv /\ Holding
  OBVIOUS
<1>0. /\ Main \in Thread /\ Monitor \in Thread /\ Main # Monitor
      /\ Owner \notin Thread
  BY ManagerAssumption DEF Thread
<1>00. 1 \in 1..(Clients + 1)
  BY ManagerAssumption
<1>1. TypeOK
  BY <1>0, <1>00 DEF Init, TypeOK, PC
<1>2. Counting /\ MonitorLater
  BY <1>0 DEF Init, Counting, MonitorLater
<1>3. EveryChildTracked
  BY DEF Init, EveryChildTracked, Alive
<1>4. Holding
  BY DEF Init, Holding, Held
<1> QED
  BY <1>1, <1>2, <1>3, <1>4 DEF SafeInv

\* What does not depend on the locks.
LEMMA SafeInvariant == Spec => []SafeInv
<1>1. SafeInv /\ [Next]_vars => SafeInv'
  BY StepTypeOK, StepCounting, StepMonitorLater, StepTracked DEF SafeInv
<1>2. Init => SafeInv
  BY InitSafe
<1> QED
  BY <1>1, <1>2, PTL DEF Spec

\* ... and what does.
LEMMA HoldingInvariant ==
    Spec => [](SafeInv /\ Holding)
<1>1. SafeInv /\ [Next]_vars => SafeInv'
  BY StepTypeOK, StepCounting, StepMonitorLater, StepTracked DEF SafeInv
<1>2. SafeInv /\ Holding /\ [Next]_vars => Holding'
  BY StepHolding DEF SafeInv
<1>3. Init => SafeInv /\ Holding
  BY InitSafe
<1> QED
  BY <1>1, <1>2, <1>3, PTL DEF Spec

(* Every reachable state of the manager, its children and its clients is   *)
(* well typed: in particular the locks are gone through within their list, *)
(* by two threads that share LPIDs, whatever the other one does.           *)
THEOREM TypeCorrect == Spec => []TypeOK
<1>1. SafeInv => TypeOK
  BY DEF SafeInv
<1> QED
  BY SafeInvariant, <1>1, PTL

(* No live child is ever lost track of: fork, append, choice, removal and  *)
(* kill of the two threads may interleave in any way.                      *)
THEOREM ChildrenAreTracked == Spec => []EveryChildTracked
<1>1. SafeInv => EveryChildTracked
  BY DEF SafeInv
<1> QED
  BY SafeInvariant, <1>1, PTL

(* A thread that kills a child has the lock of every client, as            *)
(* remove_child_process() (MultiProcessManager.py:275) wants it, and the   *)
(* child is in no call: except for the locks that a forced unlock after a  *)
(* stale look, or a lock() that failed, has torn.                          *)
THEOREM NoCallIsCut ==
    /\ Spec => []NotHalfwayThroughACall
    /\ Spec => [](\A t \in Thread : \A c \in Client :
                     /\ pc[t] \in {"drop", "signal", "reap"}
                     /\ lock[c] # Torn
                     => lock[c] # target[t])
<1>1. SafeInv /\ Holding => NotHalfwayThroughACall
  BY DEF NotHalfwayThroughACall, At, Holding, Held
<1>2. SafeInv /\ Holding =>
        \A t \in Thread : \A c \in Client :
            /\ pc[t] \in {"drop", "signal", "reap"}
            /\ lock[c] # Torn
            => lock[c] # target[t]
  <2> SUFFICES ASSUME SafeInv, Holding, NEW t \in Thread, NEW c \in Client,
                      pc[t] \in {"drop", "signal", "reap"}, lock[c] # Torn
               PROVE  lock[c] # target[t]
    OBVIOUS
  <2>1. lock[c] = t
    BY DEF Holding, Held, Has
  <2>2. target[t] \in Nat
    BY DEF SafeInv, TypeOK, Pid
  <2>3. t \notin Nat
    BY ManagerAssumption DEF Thread
  <2> QED
    BY <2>1, <2>2, <2>3
<1> QED
  BY HoldingInvariant, <1>1, <1>2, PTL

(* The locks of the clients also keep the two threads apart, as soon as    *)
(* one of them is not torn: they never both choose and kill a child.       *)
OneRemovalAtATime ==
    (\E c \in Client : lock[c] # Torn) =>
        \A t, u \in Thread :
            /\ pc[t] \in {"drop", "signal", "reap"}
            /\ pc[u] \in {"drop", "signal", "reap"}
            => t = u

\* The main thread and the monitor do not remove children at the same time.
THEOREM RemovalsExclude == Spec => []OneRemovalAtATime
<1>1. SafeInv /\ Holding => OneRemovalAtATime
  BY DEF OneRemovalAtATime, Holding, Held, Has
<1> QED
  BY HoldingInvariant, <1>1, PTL

=============================================================================
