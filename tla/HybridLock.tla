---------------------------- MODULE HybridLock ----------------------------
(* hybrid_lock/linux/HybridLock.c (compiled from HybridLock.pyx): one      *)
(* incarnation of a named lock, i.e. the POSIX semaphore, the "spin lock"  *)
(* byte and the pid word that every process connected to it shares; how    *)
(* they come by it is in NamedLock.  Each access to one of the three is a  *)
(* step of its own, so all interleavings of lock(), unlock(), destroy(),   *)
(* get_pid_holding_lock() and of the forced unlock of                      *)
(* SHMResourceManager.__init__ are explored, as is the death of a process  *)
(* between any two steps.                                                  *)
(*                                                                         *)
(* A process that has the lock is live code: pc = "held" stands for        *)
(* everything the caller does between lock() and unlock().                 *)
EXTENDS Naturals, FiniteSets

CONSTANTS
    Proc,      \* the connected processes
    Nobody,    \* pid word 0, and the owner of a free lock
    Timed,     \* those that call lock(timeout=...) instead of lock()
    Signalled, \* those that handle signals, which interrupt sem_wait
    Unlinkers, \* those that may call unlink_resources() on the lock
    Starters,  \* those that run SHMResourceManager.__init__
    Mortal     \* those that may be killed at any moment

ASSUME ProcAssumption ==
    /\ Nobody \notin Proc
    /\ Timed \subseteq Proc
    /\ Signalled \subseteq Proc
    /\ Unlinkers \subseteq Proc
    /\ Starters \subseteq Proc
    /\ Mortal \subseteq Proc

VARIABLES
    char,      \* _spin_lock_char[0]
    sem,       \* the value of _semaphore
    pid,       \* _spin_lock_pid[0]
    linked,    \* the name still leads to this incarnation
    destroyers,\* the processes with a thread inside unlink_resources()
    alive,     \* the processes that exist
    pc,        \* where each process is in the code
    seen,      \* local to get_pid_holding_lock(): the pid it returns
    taken      \* history: whose sem_wait returned and who has not posted since

vars == <<char, sem, pid, linked, destroyers, alive, pc, seen, taken>>
naming == <<linked, destroyers>>

LockPC    == {"spin", "wait", "got", "marked"}
UnlockPC  == {"freeing", "testing", "posting"}
RecoverPC == {"looking", "reading", "judging"}
PC == {"idle", "held"} \cup LockPC \cup UnlockPC \cup RecoverPC

TypeOK ==
    /\ char \in {"LOCKED", "UNLOCKED", "DESTROYED"}
    /\ sem \in Nat
    /\ pid \in Proc \cup {Nobody}
    /\ linked \in BOOLEAN
    /\ destroyers \in SUBSET Proc
    /\ alive \in SUBSET Proc
    /\ pc \in [Proc -> PC]
    /\ seen \in [Proc -> Proc \cup {Nobody}]
    /\ taken \in SUBSET Proc

(* A new lock: the semaphore and the byte are set to initial_value=1, the  *)
(* fresh shared memory leaves the pid word at 0.                           *)
Init ==
    /\ char = "UNLOCKED"
    /\ sem = 1
    /\ pid = Nobody
    /\ linked = TRUE
    /\ destroyers = {}
    /\ alive = Proc
    /\ pc = [p \in Proc |-> "idle"]
    /\ seen = [p \in Proc |-> Nobody]
    /\ taken = {}

-----------------------------------------------------------------------------
\* p exists and is about to execute the step labelled l.
At(p, l) == p \in alive /\ pc[p] = l

Goto(p, l) == pc' = [pc EXCEPT ![p] = l]

\* lock(), up to the spin loop: a destroyed lock raises at once.
LockEnter(p) ==
    /\ At(p, "idle")
    /\ char # "DESTROYED"
    /\ Goto(p, "spin")
    /\ UNCHANGED <<char, sem, pid, naming, alive, seen, taken>>

(* The spin loop ends when its time slice is over (always possible), when  *)
(* the byte is UNLOCKED, or by raising when the byte is DESTROYED.         *)
SpinEnd(p) ==
    /\ At(p, "spin")
    /\ \/ Goto(p, "wait")
       \/ char = "DESTROYED" /\ Goto(p, "idle")
    /\ UNCHANGED <<char, sem, pid, naming, alive, seen, taken>>

\* Variant: sem_trywait, its result not looked at.
SemWaitUnguarded(p) ==
    /\ At(p, "wait")
    /\ sem' = sem - 1
    /\ taken' = taken \cup {p}
    /\ Goto(p, "got")
    /\ UNCHANGED <<char, pid, naming, alive, seen>>

\* sem_wait / sem_timedwait return 0.
SemWait(p) ==
    /\ At(p, "wait")
    /\ sem > 0
    /\ sem' = sem - 1
    /\ taken' = taken \cup {p}
    /\ Goto(p, "got")
    /\ UNCHANGED <<char, pid, naming, alive, seen>>

\* Variant: the result of sem_timedwait is not looked at.
TimeOutIgnored(p) ==
    /\ At(p, "wait")
    /\ p \in Timed
    /\ sem = 0
    /\ taken' = taken \cup {p}
    /\ Goto(p, "got")
    /\ UNCHANGED <<char, sem, pid, naming, alive, seen>>

\* sem_timedwait returns ETIMEDOUT: TimeoutError.
TimeOut(p) ==
    /\ At(p, "wait")
    /\ p \in Timed
    /\ sem = 0
    /\ Goto(p, "idle")
    /\ UNCHANGED <<char, sem, pid, naming, alive, seen, taken>>

\* sem_wait or sem_timedwait returns -1 with EINTR: a plain Exception.
Interrupted(p) ==
    /\ At(p, "wait")
    /\ p \in Signalled
    /\ Goto(p, "idle")
    /\ UNCHANGED <<char, sem, pid, naming, alive, seen, taken>>

\* The byte is written after the semaphore is taken, whatever it holds.
MarkLocked(p) ==
    /\ At(p, "got")
    /\ char' = "LOCKED"
    /\ Goto(p, "marked")
    /\ UNCHANGED <<sem, pid, naming, alive, seen, taken>>

\* Variant: the pid word is only written when it is 0, and never cleared.
RecordPidOnce(p) ==
    /\ At(p, "marked")
    /\ pid' = IF pid = Nobody THEN p ELSE pid
    /\ Goto(p, "held")
    /\ UNCHANGED <<char, sem, naming, alive, seen, taken>>

\* Last step of lock(): the pid word.
RecordPid(p) ==
    /\ At(p, "marked")
    /\ pid' = p
    /\ Goto(p, "held")
    /\ UNCHANGED <<char, sem, naming, alive, seen, taken>>

-----------------------------------------------------------------------------
\* Variant: callers unlock without having the lock.
UnlockByAnyone(p) ==
    /\ p \in alive
    /\ pc[p] \in {"idle", "held"}
    /\ Goto(p, IF char = "DESTROYED" THEN "idle" ELSE "freeing")
    /\ UNCHANGED <<char, sem, pid, naming, alive, seen, taken>>

(* unlock() by the holder: raises on a destroyed lock without posting, and *)
(* the permit is gone for good.                                            *)
UnlockEnter(p) ==
    /\ At(p, "held")
    /\ Goto(p, IF char = "DESTROYED" THEN "idle" ELSE "freeing")
    /\ UNCHANGED <<char, sem, pid, naming, alive, seen, taken>>

MarkUnlocked(p) ==
    /\ At(p, "freeing")
    /\ char' = "UNLOCKED"
    /\ Goto(p, "testing")
    /\ UNCHANGED <<sem, pid, naming, alive, seen, taken>>

\* Variant: unlock() takes the value 1 for a taken lock.
TestValueInverted(p) ==
    /\ At(p, "testing")
    /\ Goto(p, IF char # "DESTROYED" /\ sem = 1 THEN "posting" ELSE "idle")
    /\ UNCHANGED <<char, sem, pid, naming, alive, seen, taken>>

(* get_value() inside unlock(): raises on a destroyed lock; only a         *)
(* semaphore read as 0 is posted, at any other value somebody else has     *)
(* posted for p already.                                                   *)
TestValue(p) ==
    /\ At(p, "testing")
    /\ Goto(p, IF char # "DESTROYED" /\ sem = 0 THEN "posting" ELSE "idle")
    /\ taken' = IF char # "DESTROYED" /\ sem > 0 THEN taken \ {p} ELSE taken
    /\ UNCHANGED <<char, sem, pid, naming, alive, seen>>

SemPost(p) ==
    /\ At(p, "posting")
    /\ sem' = sem + 1
    /\ taken' = taken \ {p}
    /\ Goto(p, "idle")
    /\ UNCHANGED <<char, pid, naming, alive, seen>>

-----------------------------------------------------------------------------
(* unlink_resources(): a thread of p connects a handle of its own to the   *)
(* name, then destroy() removes the name and writes the byte.  It may run  *)
(* while another thread of p is anywhere in lock() or unlock().  Nothing   *)
(* wakes the processes that are inside sem_wait.                           *)
ConnectToDestroy(p) ==
    /\ p \in (alive \cap Unlinkers) \ destroyers
    /\ linked
    /\ char # "DESTROYED"
    /\ destroyers' = destroyers \cup {p}
    /\ UNCHANGED <<char, sem, pid, linked, alive, pc, seen, taken>>

Destroy(p) ==
    /\ p \in alive \cap destroyers
    /\ linked' = FALSE
    /\ char' = "DESTROYED"
    /\ destroyers' = destroyers \ {p}
    /\ UNCHANGED <<sem, pid, alive, pc, seen, taken>>

-----------------------------------------------------------------------------
(* SHMResourceManager.__init__, run by a process that starts: it asks who  *)
(* holds the lock and calls unlock() when that process is dead or the      *)
(* answer is 0.  get_value() and the pid word are read one after the       *)
(* other.  An exception of unlock() is swallowed.                          *)
RecoverEnter(p) ==
    /\ At(p, "idle")
    /\ p \in Starters
    /\ linked
    /\ char # "DESTROYED"
    /\ Goto(p, "looking")
    /\ UNCHANGED <<char, sem, pid, naming, alive, seen, taken>>

ReadValue(p) ==
    /\ At(p, "looking")
    /\ \/ /\ char = "DESTROYED"
          /\ Goto(p, "idle")
          /\ UNCHANGED seen
       \/ /\ char # "DESTROYED"
          /\ sem > 0
          /\ seen' = [seen EXCEPT ![p] = Nobody]
          /\ Goto(p, "judging")
       \/ /\ char # "DESTROYED"
          /\ sem = 0
          /\ Goto(p, "reading")
          /\ UNCHANGED seen
    /\ UNCHANGED <<char, sem, pid, naming, alive, taken>>

ReadPid(p) ==
    /\ At(p, "reading")
    /\ seen' = [seen EXCEPT ![p] = pid]
    /\ Goto(p, "judging")
    /\ UNCHANGED <<char, sem, pid, naming, alive, taken>>

\* is_pid_still_alive(), then the first check of unlock().
Judge(p) ==
    /\ At(p, "judging")
    /\ Goto(p, IF seen[p] \notin alive /\ char # "DESTROYED"
               THEN "freeing" ELSE "idle")
    /\ UNCHANGED <<char, sem, pid, naming, alive, seen, taken>>

\* A process is killed; whatever it was doing is left as it is.
Crash(p) ==
    /\ p \in alive \cap Mortal
    /\ alive' = alive \ {p}
    /\ UNCHANGED <<char, sem, pid, naming, pc, seen, taken>>

-----------------------------------------------------------------------------
\* lock(timeout=-1), from any caller.
Lock(p) ==
    LockEnter(p) \/ SpinEnd(p) \/ SemWait(p) \/ TimeOut(p) \/ Interrupted(p)
    \/ MarkLocked(p) \/ RecordPid(p)

Unlock(p) == UnlockEnter(p) \/ MarkUnlocked(p) \/ TestValue(p) \/ SemPost(p)

Unlinking(p) == ConnectToDestroy(p) \/ Destroy(p)

Recover(p) ==
    RecoverEnter(p) \/ ReadValue(p) \/ ReadPid(p) \/ Judge(p)

\* The lock used as a lock: unlock() is called by the holder only.
Next == \E p \in Proc : Lock(p) \/ Unlock(p) \/ Unlinking(p) \/ Crash(p)

Spec == Init /\ [][Next]_vars

\* ... and with the forced unlock of starting processes.
NextRecover == Next \/ \E p \in Starters : Recover(p)

SpecRecover == Init /\ [][NextRecover]_vars

(* The kernel runs every process that can go on, and whoever has the lock  *)
(* gives it back.  A post wakes a waiter or lets somebody barge in:        *)
(* sem_wait is granted infinitely often to nobody only if it is enabled    *)
(* finitely often (strong fairness).  Nobody is obliged to call lock().    *)
FairSpec ==
    /\ Spec
    /\ \A p \in Proc :
        /\ WF_vars(SpinEnd(p))
        /\ SF_vars(SemWait(p))
        /\ WF_vars(MarkLocked(p) \/ RecordPid(p) \/ Unlock(p))

-----------------------------------------------------------------------------
\* p is between the return of lock() and the call of unlock().
InCriticalSection(p) == p \in alive /\ pc[p] = "held"

(* Two processes are never both between lock() and unlock(), though the    *)
(* byte, the semaphore and the pid word are updated one after the other.   *)
MutualExclusion ==
    \A p, q \in Proc :
        InCriticalSection(p) /\ InCriticalSection(q) => p = q

(* The semaphore is never incremented beyond 1 (HybridLock.pyx:36-37) and  *)
(* no permit is lost: it is in the semaphore, or with the one process that *)
(* took it, or was left behind by a process that died or found the lock    *)
(* destroyed.                                                              *)
PermitConserved == sem + Cardinality(taken) = 1

(* While a process has the lock, get_pid_holding_lock() answers with its   *)
(* pid and spinning processes do not see UNLOCKED.                         *)
HolderIsPublished ==
    \A p \in Proc :
        pc[p] = "held" => pid = p /\ sem = 0 /\ char # "UNLOCKED"

(* unlock() clears the byte before it posts: a lock that can be taken      *)
(* never looks LOCKED to a process in the spin loop.                       *)
FreeLooksFree == sem > 0 => char # "LOCKED"

\* The permit is with processes that are dead.
Orphaned == taken # {} /\ taken \cap alive = {}

(* Every process inside lock() without a timeout or a signal gets the      *)
(* lock, unless the lock is destroyed (nothing wakes a waiter then) or its *)
(* holder died.                                                            *)
WaiterServed ==
    \A p \in Proc \ (Timed \cup Signalled) :
        pc[p] = "wait" ~> pc[p] = "got" \/ ~linked \/ Orphaned
                          \/ p \notin alive

(* The processes that took the permit and have not given it back are the   *)
(* owners of the abstract lock.                                            *)
Owner == IF taken = {} THEN Nobody ELSE CHOOSE p \in Proc : p \in taken

Abstract == INSTANCE BinaryLock WITH owner <- Owner

\* A lock used as a lock implements the abstract lock.
ImplementsBinaryLock == Abstract!Spec

-----------------------------------------------------------------------------
(* "If the process which is holding the lock no longer exists, force       *)
(* unlock" (SHMResourceManager.py:103-104): the semaphore is never posted  *)
(* from under a live process that is between lock() and unlock().          *)
ForcedUnlockSparesTheLiving ==
    [][\A p \in Proc : InCriticalSection(p) => sem' <= sem]_vars

(* However many processes force the unlock, and however they interleave    *)
(* with the holder, the permit is never lost: it is in the semaphore or    *)
(* with somebody who took it.                                              *)
ForcedUnlockLosesNoPermit == sem > 0 \/ taken # {}

=============================================================================
