------------------------ MODULE ServerThreadsProofs ------------------------
(* ServerThreads for any set of connections, whichever of them leave or    *)
(* have their map replaced: the threads share SPIDThreads and two flags    *)
(* without a lock, and still a connection has one worker and a shutdown    *)
(* cuts no call short.                                                     *)
EXTENDS ServerThreads, TLAPS

Serving == {"opening", "loop", "listed", "command"}
Leaves == {"counting", "telling"}

(* Connections are forgotten when they are dead, and do not come back.     *)
Lifetimes ==
    /\ live \subseteq registered
    /\ exited \cap live = {}
    /\ \A c \in Conn :
          worker[<<c, 1>>] = "none"
              => /\ worker[<<c, 2>>] = "none"
                 /\ c \notin SPIDThreads /\ c \notin exited

(* A worker of a living client stands in SPIDThreads; one that is about to *)
(* be started does not, and has no predecessor that still serves.          *)
Bookkeeping ==
    /\ \A t \in Thread : worker[t] \in Serving /\ t[1] \in live
                             => t[1] \in SPIDThreads
    /\ \A c \in created :
          /\ c \notin SPIDThreads
          /\ \A i \in {1, 2} : worker[<<c, i>>] \notin Serving

(* Only a worker that leaves because of the shutdown may have a successor, *)
(* and the monitor does not look again after that.                         *)
Successors ==
    /\ \A t \in Thread : worker[t] \in Leaves => shutMeDown
    /\ \A c \in Conn :
          worker[<<c, 2>>] # "none"
              => shutMeDown /\ monitor # "looking" /\ c \notin created

(* Once a worker has counted no others, the living have none in a call,    *)
(* and none begins one.                                                    *)
Quiet ==
    phase = "down" \/ shutdownOk \/ (\E t \in Thread : counted[t]) =>
        /\ shutMeDown
        /\ \A t \in Thread : t[1] \in live => worker[t] # "command"

\* The thread that start_new_thread() makes for c is one of the two.
TwoThreadsAreEnough ==
    \A c \in created : Ended(<<c, 1>>) \/ Ended(<<c, 2>>)

IInv ==
    /\ TypeOK
    /\ OneWorkerPerConnection
    /\ Lifetimes
    /\ Bookkeeping
    /\ Successors
    /\ Quiet

(* In the initial state nobody is connected and nothing runs.              *)
LEMMA InitIInv == Init => IInv
<1> SUFFICES ASSUME Init PROVE IInv
  OBVIOUS
<1> USE DEF Init, Thread
<1>1. TypeOK
  BY DEF TypeOK
<1>2. OneWorkerPerConnection
  BY DEF OneWorkerPerConnection
<1>3. Lifetimes
  BY DEF Lifetimes
<1>4. Bookkeeping
  BY DEF Bookkeeping
<1>5. Successors
  BY DEF Successors, Leaves
<1>6. Quiet
  BY DEF Quiet
<1> QED
  BY <1>1, <1>2, <1>3, <1>4, <1>5, <1>6 DEF IInv

\* Every step keeps the variables in their types.
LEMMA StepTypeOK == TypeOK /\ [Next]_vars => TypeOK'
<1> SUFFICES ASSUME TypeOK, [Next]_vars PROVE TypeOK'
  OBVIOUS
<1> USE DEF TypeOK, Thread, clients, server, looking, working
<1>1. ASSUME NEW c \in Conn, Connect(c)
      PROVE  TypeOK'
  BY <1>1 DEF Connect
<1>2. ASSUME NEW c \in Conn, Close(c)
      PROVE  TypeOK'
  BY <1>2 DEF Close
<1>3. ASSUME NEW c \in Conn, Die(c)
      PROVE  TypeOK'
  BY <1>3 DEF Die
<1>4. ASSUME NEW c \in Conn, UnlinkMap(c) \/ RemakeMap(c)
      PROVE  TypeOK'
  BY <1>4 DEF UnlinkMap, RemakeMap
<1>5. CASE CheckForMissingPids
  BY <1>5 DEF CheckForMissingPids, ForgetTheDead
<1>6. CASE Start
  BY <1>6 DEF Start, ForgetTheDead
<1>7. CASE Shutdown
  BY <1>7 DEF Shutdown
<1>8. CASE ShutdownReturns
  BY <1>8 DEF ShutdownReturns
<1>9. CASE MonitorTop
  BY <1>9 DEF MonitorTop
<1>10. CASE MonitorLook
  BY <1>10 DEF MonitorLook
<1>11. ASSUME NEW c \in Conn, MonitorAdd(c)
       PROVE  TypeOK'
  BY <1>11 DEF MonitorAdd
<1>12. ASSUME NEW c \in Conn, MonitorRemove(c)
       PROVE  TypeOK'
  BY <1>12 DEF MonitorRemove
<1>13. CASE MonitorSleep
  BY <1>13 DEF MonitorSleep
<1>14. ASSUME NEW t \in Thread, WorkerOpen(t)
       PROVE  TypeOK'
  BY <1>14 DEF WorkerOpen, Goto
<1>15. ASSUME NEW t \in Thread, WorkerForgotten(t)
       PROVE  TypeOK'
  BY <1>15 DEF WorkerForgotten, Goto
<1>16. ASSUME NEW t \in Thread, WorkerEnter(t)
       PROVE  TypeOK'
  BY <1>16 DEF WorkerEnter, Goto
<1>17. ASSUME NEW t \in Thread, WorkerLeave(t)
       PROVE  TypeOK'
  BY <1>17 DEF WorkerLeave, Goto
<1>18. ASSUME NEW t \in Thread, WorkerStop(t)
       PROVE  TypeOK'
  BY <1>18 DEF WorkerStop, Goto
<1>19. ASSUME NEW t \in Thread, WorkerCount(t)
       PROVE  TypeOK'
  BY <1>19 DEF WorkerCount, Goto
<1>20. ASSUME NEW t \in Thread, WorkerTell(t)
       PROVE  TypeOK'
  BY <1>20 DEF WorkerTell, Goto
<1>22. ASSUME NEW t \in Thread, WorkerListed(t)
       PROVE  TypeOK'
  BY <1>22 DEF WorkerListed, Goto
<1>21. CASE UNCHANGED vars
  BY <1>21 DEF vars
<1> QED
  BY <1>1, <1>2, <1>3, <1>4, <1>5, <1>6, <1>7, <1>8, <1>9, <1>10,
     <1>11, <1>12, <1>13, <1>14, <1>15, <1>16, <1>17, <1>18, <1>19, <1>20,
     <1>21, <1>22
     DEF Next, ClientStep, Monitor, WorkerStep

\* A second worker is only started when the first one no longer serves.
LEMMA StepOneWorker == IInv /\ [Next]_vars => OneWorkerPerConnection'
<1> SUFFICES ASSUME IInv, [Next]_vars PROVE OneWorkerPerConnection'
  OBVIOUS
<1> USE DEF OneWorkerPerConnection, clients, server, looking, working
<1> USE DEF Serving, Bookkeeping, Thread
<1>0. TypeOK /\ OneWorkerPerConnection /\ Bookkeeping
  BY DEF IInv
<1>00. worker \in [Thread -> {"none", "opening", "loop", "listed", "command", "counting",
                          "telling", "gone", "done"}] /\ created \subseteq Conn
  BY <1>0 DEF TypeOK
<1> USE <1>0, <1>00
<1>1. ASSUME NEW c \in Conn, Connect(c)
      PROVE  OneWorkerPerConnection'
  BY <1>1 DEF Connect
<1>2. ASSUME NEW c \in Conn, Close(c)
      PROVE  OneWorkerPerConnection'
  BY <1>2 DEF Close
<1>3. ASSUME NEW c \in Conn, Die(c)
      PROVE  OneWorkerPerConnection'
  BY <1>3 DEF Die
<1>4. ASSUME NEW c \in Conn, UnlinkMap(c) \/ RemakeMap(c)
      PROVE  OneWorkerPerConnection'
  BY <1>4 DEF UnlinkMap, RemakeMap
<1>5. CASE CheckForMissingPids
  BY <1>5 DEF CheckForMissingPids, ForgetTheDead
<1>6. CASE Start
  BY <1>6 DEF Start, ForgetTheDead
<1>7. CASE Shutdown
  BY <1>7 DEF Shutdown
<1>8. CASE ShutdownReturns
  BY <1>8 DEF ShutdownReturns
<1>9. CASE MonitorTop
  BY <1>9 DEF MonitorTop
<1>10. CASE MonitorLook
  BY <1>10 DEF MonitorLook
<1>11. ASSUME NEW c \in Conn, MonitorAdd(c)
       PROVE  OneWorkerPerConnection'
  <2>1. PICK i \in {1, 2} :
           /\ worker' = [worker EXCEPT ![<<c, i>>] = "opening"]
           /\ i = 2 => ~Ended(<<c, 1>>)
    <3>1. CASE Ended(<<c, 1>>)
      <4>1. worker' = [worker EXCEPT ![<<c, 1>>] = "opening"]
        BY <1>11, <3>1 DEF MonitorAdd
      <4> QED
        BY <4>1
    <3>2. CASE ~Ended(<<c, 1>>)
      <4>1. worker' = [worker EXCEPT ![<<c, 2>>] = "opening"]
        BY <1>11, <3>2 DEF MonitorAdd
      <4> QED
        BY <3>2, <4>1
    <3> QED
      BY <3>1, <3>2
  <2>2. \A j \in {1, 2} : worker[<<c, j>>] \notin Serving
    BY <1>11 DEF MonitorAdd
  <2>3. ASSUME NEW d \in Conn
        PROVE  \E j \in {1, 2} : worker'[<<d, j>>] \notin Serving
    <3>1. CASE d = c
      <4>1. PICK j \in {1, 2} : j # i
        OBVIOUS
      <4>2. worker'[<<c, j>>] = worker[<<c, j>>]
        BY <2>1, <4>1
      <4> QED
        BY <2>2, <3>1, <4>2
    <3>2. CASE d # c
      <4>1. \A j \in {1, 2} : worker'[<<d, j>>] = worker[<<d, j>>]
        BY <2>1, <3>2
      <4> QED
        BY <4>1
    <3> QED
      BY <3>1, <3>2
  <2> QED
    BY <2>3
<1>12. ASSUME NEW c \in Conn, MonitorRemove(c)
       PROVE  OneWorkerPerConnection'
  BY <1>12 DEF MonitorRemove
<1>13. CASE MonitorSleep
  BY <1>13 DEF MonitorSleep
<1>14. ASSUME NEW t \in Thread, WorkerOpen(t)
       PROVE  OneWorkerPerConnection'
  BY <1>14 DEF WorkerOpen, Goto
<1>15. ASSUME NEW t \in Thread, WorkerForgotten(t)
       PROVE  OneWorkerPerConnection'
  BY <1>15 DEF WorkerForgotten, Goto
<1>16. ASSUME NEW t \in Thread, WorkerEnter(t)
       PROVE  OneWorkerPerConnection'
  BY <1>16 DEF WorkerEnter, Goto
<1>17. ASSUME NEW t \in Thread, WorkerLeave(t)
       PROVE  OneWorkerPerConnection'
  BY <1>17 DEF WorkerLeave, Goto
<1>18. ASSUME NEW t \in Thread, WorkerStop(t)
       PROVE  OneWorkerPerConnection'
  BY <1>18 DEF WorkerStop, Goto
<1>19. ASSUME NEW t \in Thread, WorkerCount(t)
       PROVE  OneWorkerPerConnection'
  BY <1>19 DEF WorkerCount, Goto
<1>20. ASSUME NEW t \in Thread, WorkerTell(t)
       PROVE  OneWorkerPerConnection'
  BY <1>20 DEF WorkerTell, Goto
<1>22. ASSUME NEW t \in Thread, WorkerListed(t)
       PROVE  OneWorkerPerConnection'
  BY <1>22 DEF WorkerListed, Goto
<1>21. CASE UNCHANGED vars
  BY <1>21 DEF vars
<1> QED
  BY <1>1, <1>2, <1>3, <1>4, <1>5, <1>6, <1>7, <1>8, <1>9, <1>10,
     <1>11, <1>12, <1>13, <1>14, <1>15, <1>16, <1>17, <1>18, <1>19, <1>20,
     <1>21, <1>22
     DEF Next, ClientStep, Monitor, WorkerStep

\* The dead stay dead, and who never had a worker is in nobody's books.
LEMMA StepLifetimes == TypeOK /\ Lifetimes /\ [Next]_vars => Lifetimes'
<1> SUFFICES ASSUME TypeOK, Lifetimes, [Next]_vars PROVE Lifetimes'
  OBVIOUS
<1> USE DEF TypeOK, Lifetimes, Thread, clients, server, looking, working
<1>1. ASSUME NEW c \in Conn, Connect(c)
      PROVE  Lifetimes'
  BY <1>1 DEF Connect
<1>2. ASSUME NEW c \in Conn, Close(c)
      PROVE  Lifetimes'
  BY <1>2 DEF Close
<1>3. ASSUME NEW c \in Conn, Die(c)
      PROVE  Lifetimes'
  BY <1>3 DEF Die
<1>4. ASSUME NEW c \in Conn, UnlinkMap(c) \/ RemakeMap(c)
      PROVE  Lifetimes'
  BY <1>4 DEF UnlinkMap, RemakeMap
<1>5. CASE CheckForMissingPids
  BY <1>5 DEF CheckForMissingPids, ForgetTheDead
<1>6. CASE Start
  BY <1>6 DEF Start, ForgetTheDead
<1>7. CASE Shutdown
  BY <1>7 DEF Shutdown
<1>8. CASE ShutdownReturns
  BY <1>8 DEF ShutdownReturns
<1>9. CASE MonitorTop
  BY <1>9 DEF MonitorTop
<1>10. CASE MonitorLook
  BY <1>10 DEF MonitorLook
<1>11. ASSUME NEW c \in Conn, MonitorAdd(c)
       PROVE  Lifetimes'
  <2>1. PICK i \in {1, 2} :
           /\ worker' = [worker EXCEPT ![<<c, i>>] = "opening"]
           /\ i = 2 => ~Ended(<<c, 1>>)
    <3>1. CASE Ended(<<c, 1>>)
      <4>1. worker' = [worker EXCEPT ![<<c, 1>>] = "opening"]
        BY <1>11, <3>1 DEF MonitorAdd
      <4> QED
        BY <4>1
    <3>2. CASE ~Ended(<<c, 1>>)
      <4>1. worker' = [worker EXCEPT ![<<c, 2>>] = "opening"]
        BY <1>11, <3>2 DEF MonitorAdd
      <4> QED
        BY <3>2, <4>1
    <3> QED
      BY <3>1, <3>2
  <2>2. \A d \in Conn : worker'[<<d, 1>>] = "none" =>
           /\ d # c
           /\ worker[<<d, 1>>] = "none"
           /\ worker'[<<d, 2>>] = worker[<<d, 2>>]
    BY <2>1 DEF Ended
  <2> QED
    BY <1>11, <2>2 DEF MonitorAdd
<1>12. ASSUME NEW c \in Conn, MonitorRemove(c)
       PROVE  Lifetimes'
  BY <1>12 DEF MonitorRemove
<1>13. CASE MonitorSleep
  BY <1>13 DEF MonitorSleep
<1>14. ASSUME NEW t \in Thread, WorkerOpen(t)
       PROVE  Lifetimes'
  BY <1>14 DEF WorkerOpen, Goto
<1>15. ASSUME NEW t \in Thread, WorkerForgotten(t)
       PROVE  Lifetimes'
  BY <1>15 DEF WorkerForgotten, Goto
<1>16. ASSUME NEW t \in Thread, WorkerEnter(t)
       PROVE  Lifetimes'
  BY <1>16 DEF WorkerEnter, Goto
<1>17. ASSUME NEW t \in Thread, WorkerLeave(t)
       PROVE  Lifetimes'
  BY <1>17 DEF WorkerLeave, Goto
<1>18. ASSUME NEW t \in Thread, WorkerStop(t)
       PROVE  Lifetimes'
  BY <1>18 DEF WorkerStop, Goto
<1>19. ASSUME NEW t \in Thread, WorkerCount(t)
       PROVE  Lifetimes'
  BY <1>19 DEF WorkerCount, Goto
<1>20. ASSUME NEW t \in Thread, WorkerTell(t)
       PROVE  Lifetimes'
  BY <1>20 DEF WorkerTell, Goto
<1>22. ASSUME NEW t \in Thread, WorkerListed(t)
       PROVE  Lifetimes'
  BY <1>22 DEF WorkerListed, Goto
<1>21. CASE UNCHANGED vars
  BY <1>21 DEF vars
<1> QED
  BY <1>1, <1>2, <1>3, <1>4, <1>5, <1>6, <1>7, <1>8, <1>9, <1>10,
     <1>11, <1>12, <1>13, <1>14, <1>15, <1>16, <1>17, <1>18, <1>19, <1>20,
     <1>21, <1>22
     DEF Next, ClientStep, Monitor, WorkerStep

\* What the monitor and the workers do to SPIDThreads agrees with who serves.
LEMMA StepBookkeeping == IInv /\ [Next]_vars => Bookkeeping'
<1> SUFFICES ASSUME IInv, [Next]_vars PROVE Bookkeeping'
  OBVIOUS
<1> USE DEF Bookkeeping, Serving, Thread, clients, server, looking, working
<1>0. TypeOK /\ OneWorkerPerConnection /\ Bookkeeping /\ Lifetimes
  BY DEF IInv
<1> USE <1>0 DEF TypeOK
<1>1. ASSUME NEW c \in Conn, Connect(c)
      PROVE  Bookkeeping'
  <2>1. \A i \in {1, 2} : worker[<<c, i>>] = "none"
    BY <1>1 DEF Connect, Lifetimes
  <2>2. \A t \in Thread : t[1] = c => worker[t] = "none"
    BY <2>1
  <2> QED
    BY <1>1, <2>2 DEF Connect
<1>2. ASSUME NEW c \in Conn, Close(c)
      PROVE  Bookkeeping'
  BY <1>2 DEF Close
<1>3. ASSUME NEW c \in Conn, Die(c)
      PROVE  Bookkeeping'
  BY <1>3 DEF Die
<1>4. ASSUME NEW c \in Conn, UnlinkMap(c) \/ RemakeMap(c)
      PROVE  Bookkeeping'
  BY <1>4 DEF UnlinkMap, RemakeMap
<1>5. CASE CheckForMissingPids
  BY <1>5 DEF CheckForMissingPids, ForgetTheDead
<1>6. CASE Start
  BY <1>6 DEF Start, ForgetTheDead
<1>7. CASE Shutdown
  BY <1>7 DEF Shutdown
<1>8. CASE ShutdownReturns
  BY <1>8 DEF ShutdownReturns
<1>9. CASE MonitorTop
  BY <1>9 DEF MonitorTop
<1>10. CASE MonitorLook
  BY <1>10 DEF MonitorLook
<1>11. ASSUME NEW c \in Conn, MonitorAdd(c)
       PROVE  Bookkeeping'
  BY <1>11 DEF MonitorAdd
<1>12. ASSUME NEW c \in Conn, MonitorRemove(c)
       PROVE  Bookkeeping'
  <2>1. c \notin live
    BY <1>12 DEF MonitorRemove, Lifetimes
  <2> QED
    BY <1>12, <2>1 DEF MonitorRemove
<1>13. CASE MonitorSleep
  BY <1>13 DEF MonitorSleep
<1>14. ASSUME NEW t \in Thread, WorkerOpen(t)
       PROVE  Bookkeeping'
  BY <1>14 DEF WorkerOpen, Goto
<1>15. ASSUME NEW t \in Thread, WorkerForgotten(t)
       PROVE  Bookkeeping'
  BY <1>15 DEF WorkerForgotten, Goto
<1>16. ASSUME NEW t \in Thread, WorkerEnter(t)
       PROVE  Bookkeeping'
  BY <1>16 DEF WorkerEnter, Goto
<1>17. ASSUME NEW t \in Thread, WorkerLeave(t)
       PROVE  Bookkeeping'
  BY <1>17 DEF WorkerLeave, Goto
<1>18. ASSUME NEW t \in Thread, WorkerStop(t)
       PROVE  Bookkeeping'
  <2>1. ASSUME NEW u \in Thread, u # t, worker[u] \in Serving
        PROVE  u[1] # t[1]
    <3>1. worker[t] \in Serving
      BY <1>18 DEF WorkerStop
    <3>2. /\ u = <<u[1], u[2]>> /\ u[1] \in Conn /\ u[2] \in {1, 2}
          /\ t = <<t[1], t[2]>> /\ t[1] \in Conn /\ t[2] \in {1, 2}
      OBVIOUS
    <3> QED
      BY <2>1, <3>1, <3>2 DEF OneWorkerPerConnection
  <2> QED
    BY <1>18, <2>1 DEF WorkerStop, Goto
<1>19. ASSUME NEW t \in Thread, WorkerCount(t)
       PROVE  Bookkeeping'
  BY <1>19 DEF WorkerCount, Goto
<1>20. ASSUME NEW t \in Thread, WorkerTell(t)
       PROVE  Bookkeeping'
  BY <1>20 DEF WorkerTell, Goto
<1>22. ASSUME NEW t \in Thread, WorkerListed(t)
       PROVE  Bookkeeping'
  BY <1>22 DEF WorkerListed, Goto
<1>21. CASE UNCHANGED vars
  BY <1>21 DEF vars
<1> QED
  BY <1>1, <1>2, <1>3, <1>4, <1>5, <1>6, <1>7, <1>8, <1>9, <1>10,
     <1>11, <1>12, <1>13, <1>14, <1>15, <1>16, <1>17, <1>18, <1>19, <1>20,
     <1>21, <1>22
     DEF Next, ClientStep, Monitor, WorkerStep

\* A successor is only started for a worker that leaves.
LEMMA StepSuccessors == IInv /\ [Next]_vars => Successors'
<1> SUFFICES ASSUME IInv, [Next]_vars PROVE Successors'
  OBVIOUS
<1> USE DEF Successors, Leaves, Thread, clients, server, looking, working
<1>0. TypeOK /\ Successors /\ Bookkeeping
  BY DEF IInv
<1> USE <1>0 DEF TypeOK, Bookkeeping, Serving, Ended
<1>1. ASSUME NEW c \in Conn, Connect(c)
      PROVE  Successors'
  BY <1>1 DEF Connect
<1>2. ASSUME NEW c \in Conn, Close(c)
      PROVE  Successors'
  BY <1>2 DEF Close
<1>3. ASSUME NEW c \in Conn, Die(c)
      PROVE  Successors'
  BY <1>3 DEF Die
<1>4. ASSUME NEW c \in Conn, UnlinkMap(c) \/ RemakeMap(c)
      PROVE  Successors'
  BY <1>4 DEF UnlinkMap, RemakeMap
<1>5. CASE CheckForMissingPids
  BY <1>5 DEF CheckForMissingPids, ForgetTheDead
<1>6. CASE Start
  BY <1>6 DEF Start, ForgetTheDead
<1>7. CASE Shutdown
  BY <1>7 DEF Shutdown
<1>8. CASE ShutdownReturns
  BY <1>8 DEF ShutdownReturns
<1>9. CASE MonitorTop
  BY <1>9 DEF MonitorTop
<1>10. CASE MonitorLook
  BY <1>10 DEF MonitorLook
<1>11. ASSUME NEW c \in Conn, MonitorAdd(c)
       PROVE  Successors'
  BY <1>11 DEF MonitorAdd
<1>12. ASSUME NEW c \in Conn, MonitorRemove(c)
       PROVE  Successors'
  BY <1>12 DEF MonitorRemove
<1>13. CASE MonitorSleep
  BY <1>13 DEF MonitorSleep
<1>14. ASSUME NEW t \in Thread, WorkerOpen(t)
       PROVE  Successors'
  BY <1>14 DEF WorkerOpen, Goto
<1>15. ASSUME NEW t \in Thread, WorkerForgotten(t)
       PROVE  Successors'
  BY <1>15 DEF WorkerForgotten, Goto
<1>16. ASSUME NEW t \in Thread, WorkerEnter(t)
       PROVE  Successors'
  BY <1>16 DEF WorkerEnter, Goto
<1>17. ASSUME NEW t \in Thread, WorkerLeave(t)
       PROVE  Successors'
  BY <1>17 DEF WorkerLeave, Goto
<1>18. ASSUME NEW t \in Thread, WorkerStop(t)
       PROVE  Successors'
  BY <1>18 DEF WorkerStop, Goto
<1>19. ASSUME NEW t \in Thread, WorkerCount(t)
       PROVE  Successors'
  BY <1>19 DEF WorkerCount, Goto
<1>20. ASSUME NEW t \in Thread, WorkerTell(t)
       PROVE  Successors'
  BY <1>20 DEF WorkerTell, Goto
<1>22. ASSUME NEW t \in Thread, WorkerListed(t)
       PROVE  Successors'
  BY <1>22 DEF WorkerListed, Goto
<1>21. CASE UNCHANGED vars
  BY <1>21 DEF vars
<1> QED
  BY <1>1, <1>2, <1>3, <1>4, <1>5, <1>6, <1>7, <1>8, <1>9, <1>10,
     <1>11, <1>12, <1>13, <1>14, <1>15, <1>16, <1>17, <1>18, <1>19, <1>20,
     <1>21, <1>22
     DEF Next, ClientStep, Monitor, WorkerStep

\* The first TRUE in shutdown_ok comes when nobody who lives is in a call.
LEMMA StepQuiet == IInv /\ [Next]_vars => Quiet'
<1> SUFFICES ASSUME IInv, [Next]_vars PROVE Quiet'
  OBVIOUS
<1> USE DEF Quiet, Thread, clients, server, looking, working
<1>0. TypeOK /\ Quiet /\ Lifetimes /\ Bookkeeping /\ Successors
  BY DEF IInv
<1> USE <1>0 DEF TypeOK
<1>1. ASSUME NEW c \in Conn, Connect(c)
      PROVE  Quiet'
  <2>1. \A i \in {1, 2} : worker[<<c, i>>] = "none"
    BY <1>1 DEF Connect, Lifetimes
  <2>2. \A t \in Thread : t[1] = c => worker[t] = "none"
    BY <2>1
  <2> QED
    BY <1>1, <2>2 DEF Connect
<1>2. ASSUME NEW c \in Conn, Close(c)
      PROVE  Quiet'
  BY <1>2 DEF Close
<1>3. ASSUME NEW c \in Conn, Die(c)
      PROVE  Quiet'
  BY <1>3 DEF Die
<1>4. ASSUME NEW c \in Conn, UnlinkMap(c) \/ RemakeMap(c)
      PROVE  Quiet'
  BY <1>4 DEF UnlinkMap, RemakeMap
<1>5. CASE CheckForMissingPids
  BY <1>5 DEF CheckForMissingPids, ForgetTheDead
<1>6. CASE Start
  BY <1>6 DEF Start, ForgetTheDead
<1>7. CASE Shutdown
  BY <1>7 DEF Shutdown
<1>8. CASE ShutdownReturns
  BY <1>8 DEF ShutdownReturns
<1>9. CASE MonitorTop
  BY <1>9 DEF MonitorTop
<1>10. CASE MonitorLook
  BY <1>10 DEF MonitorLook
<1>11. ASSUME NEW c \in Conn, MonitorAdd(c)
       PROVE  Quiet'
  BY <1>11 DEF MonitorAdd
<1>12. ASSUME NEW c \in Conn, MonitorRemove(c)
       PROVE  Quiet'
  BY <1>12 DEF MonitorRemove
<1>13. CASE MonitorSleep
  BY <1>13 DEF MonitorSleep
<1>14. ASSUME NEW t \in Thread, WorkerOpen(t)
       PROVE  Quiet'
  BY <1>14 DEF WorkerOpen, Goto
<1>15. ASSUME NEW t \in Thread, WorkerForgotten(t)
       PROVE  Quiet'
  BY <1>15 DEF WorkerForgotten, Goto
<1>16. ASSUME NEW t \in Thread, WorkerEnter(t)
       PROVE  Quiet'
  BY <1>16 DEF WorkerEnter, Goto
<1>17. ASSUME NEW t \in Thread, WorkerLeave(t)
       PROVE  Quiet'
  BY <1>17 DEF WorkerLeave, Goto
<1>18. ASSUME NEW t \in Thread, WorkerStop(t)
       PROVE  Quiet'
  BY <1>18 DEF WorkerStop, Goto
<1>19. ASSUME NEW t \in Thread, WorkerCount(t)
       PROVE  Quiet'
  <2>1. shutMeDown
    BY <1>19 DEF WorkerCount, Successors, Leaves
  <2>2. ASSUME SPIDThreads = {}, NEW u \in Thread, u[1] \in live
        PROVE  worker[u] # "command"
    BY <2>2 DEF Bookkeeping, Serving
  <2>3. \A u \in Thread : worker'[u] = "command" => worker[u] = "command"
    BY <1>19 DEF WorkerCount, Goto
  <2>4. (\E u \in Thread : counted'[u])
           => (\E u \in Thread : counted[u]) \/ SPIDThreads = {}
    BY <1>19 DEF WorkerCount
  <2> QED
    BY <1>19, <2>1, <2>2, <2>3, <2>4 DEF WorkerCount
<1>20. ASSUME NEW t \in Thread, WorkerTell(t)
       PROVE  Quiet'
  BY <1>20 DEF WorkerTell, Goto
<1>22. ASSUME NEW t \in Thread, WorkerListed(t)
       PROVE  Quiet'
  BY <1>22 DEF WorkerListed, Goto
<1>21. CASE UNCHANGED vars
  BY <1>21 DEF vars
<1> QED
  BY <1>1, <1>2, <1>3, <1>4, <1>5, <1>6, <1>7, <1>8, <1>9, <1>10,
     <1>11, <1>12, <1>13, <1>14, <1>15, <1>16, <1>17, <1>18, <1>19, <1>20,
     <1>21, <1>22
     DEF Next, ClientStep, Monitor, WorkerStep

\* All of it together is inductive.
LEMMA Invariant == Spec => []IInv
<1>1. IInv /\ [Next]_vars => IInv'
  BY StepTypeOK, StepOneWorker, StepLifetimes, StepBookkeeping,
     StepSuccessors, StepQuiet DEF IInv
<1> QED
  BY InitIInv, <1>1, PTL DEF Spec

\* Every reachable state of the threads is well typed.
THEOREM TypeCorrect == Spec => []TypeOK
<1>1. IInv => TypeOK
  BY DEF IInv
<1> QED
  BY Invariant, <1>1, PTL

(* No connection is ever served by two threads: the monitor, which reads   *)
(* SPIDThreads (SHMServer.py:98) and acts on it later (106), only starts a *)
(* worker when the one before it has left or is past its last command.     *)
THEOREM OneWorker == Spec => []OneWorkerPerConnection
<1>1. IInv => OneWorkerPerConnection
  BY DEF IInv
<1> QED
  BY Invariant, <1>1, PTL

(* shutdown_ok is only ever set when no worker of a living client is in    *)
(* handle_command(), and none enters it again: the return of shutdown()    *)
(* cuts no call short.                                                     *)
THEOREM ShutdownCutsNoCall == Spec => []NoCallIsCutShort
<1>1. IInv => NoCallIsCutShort
  BY DEF IInv, Quiet, NoCallIsCutShort
<1> QED
  BY Invariant, <1>1, PTL

(* The model's two threads for a connection are enough: when the monitor   *)
(* starts a worker, an earlier one has ended, so that the model leaves out *)
(* no third thread of the code.                                            *)
THEOREM NoThirdThread == Spec => []TwoThreadsAreEnough
<1>1. IInv => TwoThreadsAreEnough
  BY DEF IInv, TypeOK, Successors, TwoThreadsAreEnough, Ended
<1> QED
  BY Invariant, <1>1, PTL

=============================================================================
