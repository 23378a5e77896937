----------------------------- MODULE NamedLock -----------------------------
(* How processes come by a HybridLock (hybrid_lock/linux/HybridLock.c, the *)
(* C that is compiled from HybridLock.pyx): a name leads to a semaphore    *)
(* and, separately, to a page of shared memory with the "spin lock" byte.  *)
(* A constructor opens or creates first the one, then the other;           *)
(* destroy() takes away first the name of the page, then that of the       *)
(* semaphore, then writes the byte.  The objects live on for whoever has   *)
(* them open.  What lock() and unlock() do with them is in HybridLock.     *)
EXTENDS Naturals

CONSTANTS
    Proc,     \* processes, each with at most one HybridLock at a time
    Modes,    \* the modes in which each of them constructs one
    Faulty,   \* those whose system calls may fail (no descriptors, no memory)
    Mortal,   \* those that may be killed at any moment
    MaxSems,  \* bound on the semaphores ever created
    MaxPages  \* bound on the pages ever created

Mode == {"CONNECT_OR_CREATE", "CONNECT_TO_EXISTING",
         "CREATE_NEW_OVERWRITE", "CREATE_NEW_EXCLUSIVE"}

ASSUME NamedLockAssumption ==
    /\ Modes \in [Proc -> SUBSET Mode]
    /\ Faulty \subseteq Proc
    /\ Mortal \subseteq Proc
    /\ MaxSems \in Nat
    /\ MaxPages \in Nat

None == 0   \* no object: a free name, and the NULL of sem_open()

VARIABLES
    semName,  \* the semaphore the name leads to
    pageName, \* the page the name leads to
    sems,     \* the number of semaphores created so far
    pages,    \* the number of pages created so far
    byte,     \* _spin_lock_char[0] of each page
    alive,    \* the processes that exist
    pc, mode, \* where each is, and in a constructor of which mode
    sets,     \* it gives init_mmap() a set_value
    sem,      \* _semaphore of the lock it constructs or has
    page,     \* the page of that lock
    error,    \* the exception its last constructor raised
    disturbed,\* history: a call of its constructor failed, or somebody else
              \* created a semaphore since it began
    torn      \* history: somebody came in between the two halves of an
              \* opening or of a destruction

names == <<semName, pageName>>
objects == <<sems, pages>>
handle == <<sets, sem, page>>
history == <<disturbed, torn>>
vars == <<names, objects, byte, alive, pc, mode, handle, error, history>>

FindPC == {"orCreate", "create", "connect", "make", "shmOpen", "shmCreate"}
MapPC == {"map", "value", "check"}
DestroyPC == {"unlinkShm", "unlinkSem", "mark"}
PC == {"idle", "open"} \cup FindPC \cup MapPC \cup DestroyPC
Raised == {"NoSuchSemaphore", "SemaphoreExists", "SemaphoreDestroyed",
           "SystemError"}

TypeOK ==
    /\ semName \in Nat /\ semName <= sems
    /\ pageName \in Nat /\ pageName <= pages
    /\ sems \in Nat
    /\ pages \in 0..MaxPages
    /\ byte \in [1..MaxPages -> {"LOCKED", "UNLOCKED", "DESTROYED"}]
    /\ alive \in SUBSET Proc
    /\ pc \in [Proc -> PC]
    /\ mode \in [Proc -> Mode \cup {"none"}]
    /\ sets \in [Proc -> BOOLEAN]
    /\ sem \in [Proc -> Nat]
    /\ page \in [Proc -> Nat]
    /\ error \in [Proc -> Raised \cup {"none"}]
    /\ disturbed \in [Proc -> BOOLEAN]
    /\ torn \in BOOLEAN
    /\ \A p \in Proc :
          /\ page[p] <= pages
          /\ page[p] = None <=> pc[p] \in FindPC \cup {"idle"}

\* Nothing has the name.  A new page is all zeros, and LOCKED is 0.
Init ==
    /\ semName = None /\ pageName = None
    /\ sems = 0 /\ pages = 0
    /\ byte = [g \in 1..MaxPages |-> "LOCKED"]
    /\ alive = Proc
    /\ pc = [p \in Proc |-> "idle"]
    /\ mode = [p \in Proc |-> "none"]
    /\ sets = [p \in Proc |-> FALSE]
    /\ sem = [p \in Proc |-> None]
    /\ page = [p \in Proc |-> None]
    /\ error = [p \in Proc |-> "none"]
    /\ disturbed = [p \in Proc |-> FALSE]
    /\ torn = FALSE

-----------------------------------------------------------------------------
At(p, l) == p \in alive /\ pc[p] = l

Goto(p, l) == pc' = [pc EXCEPT ![p] = l]

\* The lock in p's hands is the existing one that it is about to overwrite.
Overwriting(p) == mode[p] = "CREATE_NEW_OVERWRITE" /\ ~sets[p]

\* Variant: the exception is raised, and the constructor goes on.
RaiseAndGoOn(p, e) ==
    /\ error' = [error EXCEPT ![p] = e]
    /\ Goto(p, "map")
    /\ UNCHANGED <<sets, sem, page>>

\* The HybridLock in p's hands is gone (see Drop for what that leaves behind).
Forget(p) ==
    /\ sets' = [sets EXCEPT ![p] = FALSE]
    /\ sem' = [sem EXCEPT ![p] = None]
    /\ page' = [page EXCEPT ![p] = None]

\* The exception e leaves the constructor of p.
Raise(p, e) ==
    /\ error' = [error EXCEPT ![p] = e]
    /\ Goto(p, "idle")
    /\ Forget(p)

\* A call of p fails: errno is EMFILE, ENFILE, ENOMEM, ...
Fail(p) ==
    /\ p \in Faulty
    /\ disturbed' = [disturbed EXCEPT ![p] = TRUE]

\* __cinit__, up to the first look at the mode.
Construct(p, m) ==
    /\ At(p, "idle")
    /\ m \in Modes[p]
    /\ mode' = [mode EXCEPT ![p] = m]
    /\ \/ m = "CONNECT_OR_CREATE" /\ Goto(p, "orCreate")
       \/ m = "CREATE_NEW_EXCLUSIVE" /\ Goto(p, "make")
       \/ m \in {"CONNECT_TO_EXISTING", "CREATE_NEW_OVERWRITE"}
             /\ Goto(p, "connect")
    /\ error' = [error EXCEPT ![p] = "none"]
    /\ disturbed' = [disturbed EXCEPT ![p] = FALSE]
    /\ UNCHANGED <<names, objects, byte, alive, handle, torn>>

\* init_mmap() is called, with a set_value or with its default of -1.
InitMmap(p, given) ==
    /\ Goto(p, "shmOpen")
    /\ sets' = [sets EXCEPT ![p] = given]
    /\ UNCHANGED page

\* sem_open(O_RDWR) succeeds.
OpenSemaphore(p) ==
    /\ semName # None
    /\ sem' = [sem EXCEPT ![p] = semName]
    /\ InitMmap(p, FALSE)
    /\ UNCHANGED disturbed

(* sem_open(O_CREAT | O_EXCL) succeeds, and init_mmap() is called with     *)
(* set_value=initial_value.                                                *)
CreateSemaphore(p) ==
    /\ semName = None
    /\ sems < MaxSems
    /\ sems' = sems + 1
    /\ semName' = sems + 1
    /\ sem' = [sem EXCEPT ![p] = sems + 1]
    /\ InitMmap(p, TRUE)
    /\ disturbed' = [q \in Proc |-> disturbed[q] \/ q # p]

(* CONNECT_OR_CREATE: any error of sem_open() is taken for a name that     *)
(* does not exist.                                                         *)
ConnectOrCreate(p) ==
    /\ At(p, "orCreate")
    /\ \/ OpenSemaphore(p)
       \/ /\ \/ semName = None /\ UNCHANGED disturbed
             \/ Fail(p)
          /\ Goto(p, "create")
          /\ UNCHANGED handle
    /\ UNCHANGED <<names, objects, byte, alive, mode, error, torn>>

\* ... and the result of the second sem_open() is not looked at.
CreateUnchecked(p) ==
    /\ At(p, "create")
    /\ \/ CreateSemaphore(p)
       \/ /\ \/ semName # None /\ UNCHANGED disturbed
             \/ Fail(p)
          /\ sem' = [sem EXCEPT ![p] = None]
          /\ InitMmap(p, TRUE)
          /\ UNCHANGED <<semName, sems>>
    /\ UNCHANGED <<pageName, pages, byte, alive, mode, error, torn>>

(* CONNECT_TO_EXISTING: NoSuchSemaphoreException, whatever the error of    *)
(* sem_open() was; a constructor that overwrites ignores it.               *)
ConnectToExisting(p) ==
    /\ At(p, "connect")
    /\ \/ OpenSemaphore(p) /\ UNCHANGED error
       \/ /\ \/ semName = None /\ UNCHANGED disturbed
             \/ Fail(p)
          /\ IF Overwriting(p)
             THEN Goto(p, "make") /\ UNCHANGED <<handle, error>>
             ELSE Raise(p, "NoSuchSemaphore")
    /\ UNCHANGED <<names, objects, byte, alive, mode, torn>>

\* sem_open(O_CREAT | O_EXCL) == NULL: SemaphoreExistsException.
CreationRefused(p) ==
    /\ \/ semName # None /\ UNCHANGED disturbed
       \/ Fail(p)
    /\ Raise(p, "SemaphoreExists")
    /\ UNCHANGED <<semName, sems>>

CreateExclusive(p) ==
    /\ At(p, "make")
    /\ mode[p] = "CREATE_NEW_EXCLUSIVE"
    /\ \/ CreateSemaphore(p) /\ UNCHANGED error
       \/ CreationRefused(p)
    /\ UNCHANGED <<pageName, pages, byte, alive, mode, torn>>

\* CREATE_NEW_OVERWRITE, once the existing lock is out of the way.
CreateAnew(p) ==
    /\ At(p, "make")
    /\ mode[p] = "CREATE_NEW_OVERWRITE"
    /\ \/ CreateSemaphore(p) /\ UNCHANGED error
       \/ CreationRefused(p)
    /\ UNCHANGED <<pageName, pages, byte, alive, mode, torn>>

-----------------------------------------------------------------------------
\* p gets hold of page g; torn if its semaphore has lost the name meanwhile.
Attach(p, g) ==
    /\ page' = [page EXCEPT ![p] = g]
    /\ UNCHANGED <<sets, sem, error, disturbed>>
    /\ torn' = (torn \/ semName # sem[p])
    /\ Goto(p, "map")

(* init_mmap(): errno decides whether the page has to be created.  It is   *)
(* not reset by a call that succeeds: an ENOENT left from an earlier call  *)
(* has the page opened a second time.                                      *)
ShmOpen(p) ==
    /\ At(p, "shmOpen")
    /\ \/ pageName # None /\ Attach(p, pageName)
       \/ Goto(p, "shmCreate") /\ UNCHANGED <<handle, error, history>>
       \/ Fail(p) /\ Raise(p, "SystemError") /\ UNCHANGED torn
    /\ UNCHANGED <<names, objects, byte, alive, mode>>

(* shm_open(O_CREAT), without O_EXCL; when it fails fchmod() does, and the *)
(* exception is a plain one.                                               *)
ShmCreate(p) ==
    /\ At(p, "shmCreate")
    /\ \/ /\ pageName # None
          /\ Attach(p, pageName)
          /\ UNCHANGED <<pageName, pages>>
       \/ /\ pageName = None
          /\ pages < MaxPages
          /\ pages' = pages + 1
          /\ pageName' = pages + 1
          /\ Attach(p, pages + 1)
       \/ /\ Fail(p) /\ Raise(p, "SystemError")
          /\ UNCHANGED <<pageName, pages, torn>>
    /\ UNCHANGED <<semName, sems, byte, alive, mode>>

\* ftruncate() and mmap().
Map(p) ==
    /\ At(p, "map")
    /\ \/ Goto(p, "value") /\ UNCHANGED <<handle, error, disturbed>>
       \/ Fail(p) /\ Raise(p, "SystemError")
    /\ UNCHANGED <<names, objects, byte, alive, mode, torn>>

\* get_destroyed()
Destroyed(p) == byte[page[p]] = "DESTROYED"

(* The byte is set by whoever created the semaphore (or thinks so), also   *)
(* over the DESTROYED of somebody who found the lock half made.            *)
SetValue(p) ==
    /\ At(p, "value")
    /\ byte' = IF sets[p] THEN [byte EXCEPT ![page[p]] = "UNLOCKED"] ELSE byte
    /\ torn' = (torn \/ (sets[p] /\ Destroyed(p)))
    /\ Goto(p, "check")
    /\ UNCHANGED <<names, objects, alive, mode, handle, error, disturbed>>

\* Variant: a constructor that overwrites removes the name of the semaphore
\* and leaves the page.
CheckDestroyedSemOnly(p) ==
    /\ At(p, "check")
    /\ IF Overwriting(p)
       THEN semName' = None /\ Goto(p, "make") /\ Forget(p) /\ UNCHANGED error
       ELSE /\ IF Destroyed(p) THEN Raise(p, "SemaphoreDestroyed")
                              ELSE Goto(p, "open") /\ UNCHANGED <<handle, error>>
            /\ UNCHANGED semName
    /\ UNCHANGED <<pageName, objects, byte, alive, mode, history>>

(* The lock is usable, or SemaphoreDestroyedException is raised; the       *)
(* constructor that overwrites goes on in either case.                     *)
CheckDestroyed(p) ==
    /\ At(p, "check")
    /\ \/ /\ Destroyed(p) /\ ~Overwriting(p)
          /\ Raise(p, "SemaphoreDestroyed")
       \/ /\ Destroyed(p) /\ Overwriting(p)
          /\ Goto(p, "make")
          /\ Forget(p)
          /\ UNCHANGED error
       \/ /\ ~Destroyed(p)
          /\ Goto(p, IF Overwriting(p) THEN "unlinkShm" ELSE "open")
          /\ UNCHANGED <<handle, error>>
    /\ UNCHANGED <<names, objects, byte, alive, mode, history>>

-----------------------------------------------------------------------------
\* destroy(), which is possible once for each HybridLock.
Destroy(p) ==
    /\ At(p, "open")
    /\ Goto(p, "unlinkShm")
    /\ UNCHANGED <<names, objects, byte, alive, mode, handle, error, history>>

\* Variant: destroy() leaves the page under its name.
UnlinkShmNot(p) ==
    /\ At(p, "unlinkShm")
    /\ Goto(p, "unlinkSem")
    /\ UNCHANGED <<names, objects, byte, alive, mode, handle, error, history>>

\* shm_unlink() takes away the name, whatever page it leads to by now.
UnlinkShm(p) ==
    /\ At(p, "unlinkShm")
    /\ pageName' = None
    /\ torn' = (torn \/ pageName \notin {page[p], None})
    /\ Goto(p, "unlinkSem")
    /\ UNCHANGED <<semName, objects, byte, alive, mode, handle, error,
                   disturbed>>

\* Variant: destroy() leaves the semaphore under its name.
UnlinkSemNot(p) ==
    /\ At(p, "unlinkSem")
    /\ Goto(p, "mark")
    /\ UNCHANGED <<names, objects, byte, alive, mode, handle, error, history>>

\* The same for sem_unlink().
UnlinkSem(p) ==
    /\ At(p, "unlinkSem")
    /\ semName' = None
    /\ torn' = (torn \/ semName \notin {sem[p], None} \/ pageName # None)
    /\ Goto(p, "mark")
    /\ UNCHANGED <<pageName, objects, byte, alive, mode, handle, error,
                   disturbed>>

\* Variant: destroy() does not tell the others.
MarkDestroyedNot(p) ==
    /\ At(p, "mark")
    /\ Goto(p, IF Overwriting(p) THEN "make" ELSE "idle")
    /\ Forget(p)
    /\ UNCHANGED <<names, objects, byte, alive, mode, error, history>>

\* ... and only then is the byte written.
MarkDestroyed(p) ==
    /\ At(p, "mark")
    /\ byte' = [byte EXCEPT ![page[p]] = "DESTROYED"]
    /\ Goto(p, IF Overwriting(p) THEN "make" ELSE "idle")
    /\ Forget(p)
    /\ UNCHANGED <<names, objects, alive, mode, error, history>>

(* The last reference to a HybridLock goes: __del__ of a cdef class is a   *)
(* method like any other, which nothing calls, and the type's tp_dealloc   *)
(* closes neither the descriptor nor the semaphore.                        *)
Drop(p) ==
    /\ At(p, "open")
    /\ Goto(p, "idle")
    /\ Forget(p)
    /\ UNCHANGED <<names, objects, byte, alive, mode, error, history>>

\* The names and the objects outlive the process.
Kill(p) ==
    /\ p \in alive \cap Mortal
    /\ alive' = alive \ {p}
    /\ UNCHANGED <<names, objects, byte, pc, mode, handle, error, history>>

-----------------------------------------------------------------------------
Opening(p) ==
    \/ ConnectOrCreate(p) \/ CreateUnchecked(p) \/ ConnectToExisting(p)
    \/ CreateExclusive(p) \/ CreateAnew(p) \/ ShmOpen(p) \/ ShmCreate(p)
    \/ Map(p) \/ SetValue(p) \/ CheckDestroyed(p)

Destroying(p) ==
    \/ Destroy(p) \/ UnlinkShm(p) \/ UnlinkSem(p) \/ MarkDestroyed(p)

Next ==
    \E p \in Proc :
        \/ \E m \in Mode : Construct(p, m)
        \/ Opening(p) \/ Destroying(p) \/ Drop(p) \/ Kill(p)

Spec == Init /\ [][Next]_vars

-----------------------------------------------------------------------------
(* Whatever happens to the processes that create and destroy, the name     *)
(* never leads to a page marked DESTROYED: a newcomer that is told the     *)
(* lock is destroyed met a destruction under way, and can come back.       *)
NameIsNeverDestroyed == pageName # None => byte[pageName] # "DESTROYED"

(* "Shouldn't get here! (in normal circumstances)" (HybridLock.pyx:158):   *)
(* a constructor that overwrites fails with SemaphoreExistsException only  *)
(* if somebody else created the semaphore since it began, or a call        *)
(* failed; what earlier processes left behind, whole or in halves, is not  *)
(* in its way.                                                             *)
OverwriteMakesWay ==
    \A p \in Proc :
        mode[p] = "CREATE_NEW_OVERWRITE" /\ error[p] = "SemaphoreExists"
            => disturbed[p]

\* p has a lock and may call lock() and unlock() on it.
Has(p) == pc[p] = "open" /\ sem[p] # None

(* The processes that share a page, the byte and the pid word in it, share *)
(* the semaphore, so they exclude each other: unless somebody came in      *)
(* between the two halves of an opening or a destruction.                  *)
PageMeansSemaphore ==
    torn \/ \A p, q \in Proc :
                Has(p) /\ Has(q) /\ page[p] = page[q] => sem[p] = sem[q]

(* The same of those that destroyed it: once destroy() is over, nobody who *)
(* has the semaphore can go on using it unawares.                          *)
DestructionReachesAll ==
    torn \/ \A p \in Proc :
                Has(p) /\ sem[p] # semName
                    => \/ Destroyed(p)
                       \/ \E q \in Proc : pc[q] \in DestroyPC /\ page[q] = page[p]
=============================================================================
