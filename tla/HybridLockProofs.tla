------------------------- MODULE HybridLockProofs -------------------------
(* HybridLock used as a lock (Spec, no forced unlock) and, at the end, with *)
(* the forced unlock of starting processes (SpecRecover): for any number of *)
(* processes, of destroyers and of deaths.                                  *)
EXTENDS HybridLock, FiniteSetTheorems, TLAPS

\* p is between the return of sem_wait and the end of unlock().
Holding(p) ==
    pc[p] \in {"got", "marked", "held", "freeing", "testing", "posting"}

\* The permit is in the semaphore or with exactly one process.
OnePermit == \/ sem = 1 /\ taken = {}
             \/ sem = 0 /\ \E p \in Proc : taken = {p}

HolderTook == \A p \in Proc : Holding(p) => p \in taken

\* What the holder has written into the byte and the pid word so far.
HolderWrote ==
    \A p \in Proc :
        /\ pc[p] \in {"marked", "held"} => char # "UNLOCKED"
        /\ pc[p] = "held" => pid = p
        /\ pc[p] \in {"testing", "posting"} => char # "LOCKED"

NobodyRecovers == \A p \in Proc : pc[p] \notin RecoverPC

IInv ==
    /\ TypeOK
    /\ OnePermit
    /\ HolderTook
    /\ HolderWrote
    /\ FreeLooksFree
    /\ NobodyRecovers

-----------------------------------------------------------------------------
(* Two processes that both took the permit are one: the fact every step of *)
(* the invariance proof rests on.                                          *)
LEMMA OneHolder ==
    ASSUME IInv, NEW p \in Proc, NEW q \in Proc, Holding(p), Holding(q)
    PROVE  p = q /\ sem = 0 /\ taken = {p}
  BY DEF IInv, OnePermit, HolderTook

LEMMA InitIInv == Init => IInv
  BY DEF Init, IInv, TypeOK, PC, LockPC, UnlockPC, RecoverPC, OnePermit,
         HolderTook, HolderWrote, Holding, FreeLooksFree, NobodyRecovers

LEMMA StepIInv == IInv /\ [Next]_vars => IInv'
<1> SUFFICES ASSUME IInv, [Next]_vars PROVE IInv'
  OBVIOUS
<1> USE DEF IInv, At, Goto, naming, PC, LockPC, UnlockPC, RecoverPC
<1>1. ASSUME NEW p \in Proc, LockEnter(p) \/ SpinEnd(p) \/ TimeOut(p)
                            \/ Interrupted(p)
      PROVE  IInv'
  BY <1>1 DEF LockEnter, SpinEnd, TimeOut, Interrupted, TypeOK, OnePermit,
              HolderTook, HolderWrote, Holding, FreeLooksFree, NobodyRecovers
<1>2. ASSUME NEW p \in Proc, SemWait(p)
      PROVE  IInv'
  <2>1. sem = 1 /\ taken = {} /\ sem' = 0 /\ taken' = {p}
    BY <1>2 DEF SemWait, OnePermit, TypeOK
  <2>2. \A q \in Proc : ~Holding(q)
    BY <2>1 DEF HolderTook
  <2>3. TypeOK' /\ OnePermit'
    BY <1>2, <2>1 DEF SemWait, TypeOK, OnePermit
  <2> QED
    BY <1>2, <2>1, <2>2, <2>3
       DEF SemWait, TypeOK, HolderTook, HolderWrote, Holding, FreeLooksFree,
           NobodyRecovers
<1>3. ASSUME NEW p \in Proc, MarkLocked(p)
      PROVE  IInv'
  <2>1. \A q \in Proc : Holding(q) => q = p
    BY <1>3, OneHolder DEF MarkLocked, Holding
  <2>2. sem = 0
    BY <1>3, OneHolder DEF MarkLocked, Holding
  <2> QED
    BY <1>3, <2>1, <2>2
       DEF MarkLocked, TypeOK, OnePermit, HolderTook, HolderWrote, Holding,
           FreeLooksFree, NobodyRecovers
<1>4. ASSUME NEW p \in Proc, RecordPid(p)
      PROVE  IInv'
  <2>1. \A q \in Proc : Holding(q) => q = p
    BY <1>4, OneHolder DEF RecordPid, Holding
  <2> QED
    BY <1>4, <2>1
       DEF RecordPid, TypeOK, OnePermit, HolderTook, HolderWrote, Holding,
           FreeLooksFree, NobodyRecovers
<1>5. ASSUME NEW p \in Proc, UnlockEnter(p)
      PROVE  IInv'
  BY <1>5 DEF UnlockEnter, TypeOK, OnePermit, HolderTook, HolderWrote,
              Holding, FreeLooksFree, NobodyRecovers
<1>6. ASSUME NEW p \in Proc, MarkUnlocked(p)
      PROVE  IInv'
  <2>1. \A q \in Proc : Holding(q) => q = p
    BY <1>6, OneHolder DEF MarkUnlocked, Holding
  <2> QED
    BY <1>6, <2>1
       DEF MarkUnlocked, TypeOK, OnePermit, HolderTook, HolderWrote, Holding,
           FreeLooksFree, NobodyRecovers
<1>7. ASSUME NEW p \in Proc, TestValue(p)
      PROVE  IInv'
  <2>1. sem = 0
    BY <1>7, OneHolder DEF TestValue, Holding
  <2> QED
    BY <1>7, <2>1
       DEF TestValue, TypeOK, OnePermit, HolderTook, HolderWrote, Holding,
           FreeLooksFree, NobodyRecovers
<1>8. ASSUME NEW p \in Proc, SemPost(p)
      PROVE  IInv'
  <2>1. \A q \in Proc : Holding(q) => q = p
    BY <1>8, OneHolder DEF SemPost, Holding
  <2>2. sem' = 1 /\ taken' = {}
    BY <1>8, OneHolder DEF SemPost, Holding
  <2>3. char' # "LOCKED"
    BY <1>8 DEF SemPost, HolderWrote
  <2> QED
    BY <1>8, <2>1, <2>2, <2>3
       DEF SemPost, TypeOK, OnePermit, HolderTook, HolderWrote, Holding,
           FreeLooksFree, NobodyRecovers
<1>9. ASSUME NEW p \in Proc, Unlinking(p) \/ Crash(p)
      PROVE  IInv'
  BY <1>9 DEF Unlinking, ConnectToDestroy, Destroy, Crash, TypeOK, OnePermit,
              HolderTook, HolderWrote, Holding, FreeLooksFree, NobodyRecovers
<1>10. CASE UNCHANGED vars
  BY <1>10 DEF vars, TypeOK, OnePermit, HolderTook, HolderWrote, Holding,
               FreeLooksFree, NobodyRecovers
<1> QED
  BY <1>1, <1>2, <1>3, <1>4, <1>5, <1>6, <1>7, <1>8, <1>9, <1>10
     DEF Next, Lock, Unlock

LEMMA Invariance == Spec => []IInv
  BY InitIInv, StepIInv, PTL DEF Spec

-----------------------------------------------------------------------------
(* The byte, the semaphore, the pid word and every program counter keep    *)
(* their types, for any number of processes.                               *)
THEOREM TypeCorrect == Spec => []TypeOK
<1>1. IInv => TypeOK
  BY DEF IInv
<1> QED
  BY <1>1, Invariance, PTL

(* At most one process is between lock() and unlock(), however the four    *)
(* writes of lock() and unlock() interleave with destroy() and with deaths.*)
THEOREM MutualExclusionHolds == Spec => []MutualExclusion
<1>1. IInv => MutualExclusion
  BY OneHolder DEF MutualExclusion, InCriticalSection, Holding
<1> QED
  BY <1>1, Invariance, PTL

(* The semaphore never exceeds 1 and the permit is never lost.             *)
THEOREM PermitIsConserved == Spec => []PermitConserved
<1>1. IInv => PermitConserved
  <2> SUFFICES ASSUME IInv PROVE sem + Cardinality(taken) = 1
    BY DEF PermitConserved
  <2>1. CASE sem = 1 /\ taken = {}
    BY <2>1, FS_EmptySet
  <2>2. ASSUME NEW p \in Proc, sem = 0, taken = {p}
        PROVE  sem + Cardinality(taken) = 1
    BY <2>2, FS_Singleton
  <2> QED
    BY <2>1, <2>2 DEF IInv, OnePermit
<1> QED
  BY <1>1, Invariance, PTL

(* get_pid_holding_lock() names the holder for as long as it holds, and    *)
(* nobody spinning sees UNLOCKED then.                                     *)
THEOREM HolderPublished == Spec => []HolderIsPublished
<1>1. IInv => HolderIsPublished
  BY OneHolder DEF IInv, HolderIsPublished, HolderWrote, Holding
<1> QED
  BY <1>1, Invariance, PTL

(* A lock that can be taken never looks LOCKED to the spin loop.           *)
THEOREM FreeLock == Spec => []FreeLooksFree
<1>1. IInv => FreeLooksFree
  BY DEF IInv
<1> QED
  BY <1>1, Invariance, PTL

-----------------------------------------------------------------------------
(* The four-step lock() and unlock() implement the abstract lock: the      *)
(* return of sem_wait is Acquire, sem_post is Release, every other step is *)
(* invisible.                                                              *)
THEOREM Refinement == Spec => ImplementsBinaryLock
<1>1. Init => Abstract!Init
  BY DEF Init, Abstract!Init, Owner
<1>2. IInv /\ [Next]_vars => [Abstract!Next]_Owner
  <2> SUFFICES ASSUME IInv, [Next]_vars PROVE [Abstract!Next]_Owner
    OBVIOUS
  <2>1. ASSUME NEW p \in Proc, SemWait(p)
        PROVE  Abstract!Next
    <3>1. taken = {} /\ taken' = {p}
      BY <2>1 DEF SemWait, IInv, OnePermit, TypeOK
    <3>2. Owner = Nobody /\ Owner' = p
      BY <3>1 DEF Owner
    <3> QED
      BY <3>2 DEF Abstract!Next, Abstract!Acquire
  <2>2. ASSUME NEW p \in Proc, SemPost(p)
        PROVE  Abstract!Next
    <3>1. taken = {p} /\ taken' = {}
      BY <2>2, OneHolder DEF SemPost, At, Holding
    <3>2. Owner = p /\ Owner' = Nobody
      BY <3>1 DEF Owner
    <3> QED
      BY <3>2 DEF Abstract!Next, Abstract!Release
  <2>3. ASSUME NEW p \in Proc, TestValue(p)
        PROVE  taken' = taken
    BY <2>3, OneHolder DEF TestValue, At, Holding
  <2>4. ASSUME taken' = taken
        PROVE  Owner' = Owner
    BY <2>4 DEF Owner
  <2>5. ASSUME NEW p \in Proc,
               LockEnter(p) \/ SpinEnd(p) \/ TimeOut(p) \/ Interrupted(p)
               \/ MarkLocked(p) \/ RecordPid(p) \/ UnlockEnter(p) \/ MarkUnlocked(p)
               \/ Unlinking(p) \/ Crash(p)
        PROVE  taken' = taken
    BY <2>5 DEF LockEnter, SpinEnd, TimeOut, Interrupted, MarkLocked,
                RecordPid, UnlockEnter, MarkUnlocked, Unlinking, ConnectToDestroy,
                Destroy, Crash
  <2>6. ASSUME UNCHANGED vars PROVE taken' = taken
    BY <2>6 DEF vars
  <2> QED
    BY <2>1, <2>2, <2>3, <2>4, <2>5, <2>6 DEF Next, Lock, Unlock
<1> QED
  BY <1>1, <1>2, Invariance, PTL DEF Spec, ImplementsBinaryLock, Abstract!Spec

-----------------------------------------------------------------------------
\* What survives when starting processes unlock for others.
Kept == sem \in Nat /\ ForcedUnlockLosesNoPermit

LEMMA StepKept == Kept /\ [NextRecover]_vars => Kept'
<1> SUFFICES ASSUME Kept, [NextRecover]_vars PROVE Kept'
  OBVIOUS
<1> USE DEF Kept, ForcedUnlockLosesNoPermit
<1>1. ASSUME NEW p \in Proc, SemWait(p)
      PROVE  Kept'
  BY <1>1 DEF SemWait
<1>2. ASSUME NEW p \in Proc, TestValue(p)
      PROVE  Kept'
  BY <1>2 DEF TestValue
<1>3. ASSUME NEW p \in Proc, SemPost(p)
      PROVE  Kept'
  BY <1>3 DEF SemPost
<1>4. ASSUME NEW p \in Proc,
             \/ LockEnter(p) \/ SpinEnd(p) \/ TimeOut(p) \/ Interrupted(p)
             \/ MarkLocked(p) \/ RecordPid(p) \/ UnlockEnter(p)
             \/ MarkUnlocked(p) \/ Unlinking(p) \/ Crash(p) \/ Recover(p)
      PROVE  Kept'
  BY <1>4 DEF LockEnter, SpinEnd, TimeOut, Interrupted, MarkLocked, RecordPid,
              UnlockEnter, MarkUnlocked, Unlinking, ConnectToDestroy, Destroy,
              Crash, Recover, RecoverEnter, ReadValue, ReadPid, Judge
<1>5. CASE UNCHANGED vars
  BY <1>5 DEF vars
<1>6. ASSUME NEW p \in Starters, Recover(p)
      PROVE  Kept'
  BY <1>4, <1>6, ProcAssumption
<1> QED
  BY <1>1, <1>2, <1>3, <1>4, <1>5, <1>6 DEF NextRecover, Next, Lock, Unlock

(* However many starting processes unlock a lock they take for abandoned,  *)
(* whether or not they are right, the permit is never lost: it can be in   *)
(* the semaphore twice, and the lock no longer exclude, but it never gets  *)
(* stuck for want of a permit that nobody has.                             *)
THEOREM ForcedUnlockKeepsPermit == SpecRecover => []ForcedUnlockLosesNoPermit
<1>1. Init => Kept
  BY DEF Init, Kept, ForcedUnlockLosesNoPermit
<1>2. Kept => ForcedUnlockLosesNoPermit
  BY DEF Kept
<1> QED
  BY <1>1, <1>2, StepKept, PTL DEF SpecRecover
=============================================================================
