-------------------------- MODULE NamedLockProofs --------------------------
(* NamedLock for any number of processes, whatever modes they construct    *)
(* their locks in, whichever of them fail or die, and however many         *)
(* semaphores and pages they create.                                       *)
EXTENDS NamedLock, TLAPS

\* A page that is marked, or whose destroy() is past shm_unlink, has no name.
NamelessPages ==
    /\ NameIsNeverDestroyed
    /\ \A g \in 1..MaxPages : g > pages => byte[g] # "DESTROYED"
    /\ \A q \in Proc :
          pc[q] \in {"unlinkSem", "mark"} => page[q] # pageName

\* TypeOK in four parts.
CountersOK ==
    /\ semName \in Nat /\ semName <= sems
    /\ pageName \in Nat /\ pageName <= pages
    /\ sems \in Nat
    /\ pages \in 0..MaxPages
    /\ byte \in [1..MaxPages -> {"LOCKED", "UNLOCKED", "DESTROYED"}]

ControlOK ==
    /\ alive \in SUBSET Proc
    /\ pc \in [Proc -> PC]
    /\ mode \in [Proc -> Mode \cup {"none"}]
    /\ sets \in [Proc -> BOOLEAN]
    /\ error \in [Proc -> Raised \cup {"none"}]
    /\ disturbed \in [Proc -> BOOLEAN]
    /\ torn \in BOOLEAN

HandlesOK ==
    /\ sem \in [Proc -> Nat]
    /\ page \in [Proc -> Nat]

PagesOK ==
    \A p \in Proc :
        /\ page[p] <= pages
        /\ page[p] = None <=> pc[p] \in FindPC \cup {"idle"}

LEMMA TypeParts == TypeOK <=> CountersOK /\ ControlOK /\ HandlesOK /\ PagesOK
  BY DEF TypeOK, CountersOK, ControlOK, HandlesOK, PagesOK

\* The page that shm_open() is about to create: nobody has it, nobody marked it.
LEMMA NewPage ==
    ASSUME TypeOK, NamelessPages, pages < MaxPages
    PROVE  byte[pages + 1] # "DESTROYED" /\ \A q \in Proc : page[q] # pages + 1
<1>1. pages \in Nat /\ MaxPages \in Nat
  BY NamedLockAssumption DEF TypeOK
<1>2. pages + 1 \in 1..MaxPages /\ pages + 1 > pages
  BY <1>1
<1>3. \A q \in Proc : page[q] \in Nat /\ page[q] <= pages
  BY DEF TypeOK
<1> QED
  BY <1>1, <1>2, <1>3 DEF NamelessPages

(* p has met a destruction that is past sem_unlink: if the semaphore has   *)
(* its name again, somebody else has created it since p began.             *)
Met(p) == \/ Destroyed(p)
          \/ \E q \in Proc : pc[q] = "mark" /\ page[q] = page[p]

(* A constructor that overwrites, when it is about to create and when it   *)
(* is about to be, finds the name free, or was disturbed.                  *)
WayIsFree ==
    /\ OverwriteMakesWay
    /\ \A p \in Proc :
          /\ pc[p] \in MapPC /\ Met(p) /\ semName # None => disturbed[p]
          /\ pc[p] = "mark" /\ semName # None => disturbed[p]
          /\ /\ pc[p] = "make"
             /\ mode[p] = "CREATE_NEW_OVERWRITE"
             /\ semName # None
             => disturbed[p]

(* Unless somebody came in between: the processes on a page have the same  *)
(* semaphore, the one with the name if the page has the name, and whoever  *)
(* does not have the names is told, or about to be.                        *)
NameAgrees ==
    \A p \in Proc :
        page[p] # None /\ page[p] = pageName /\ sem[p] # None
            => sem[p] = semName

PageAgrees ==
    \A p, q \in Proc :
        /\ page[p] # None /\ page[p] = page[q]
        /\ sem[p] # None /\ sem[q] # None
        => sem[p] = sem[q]

BeingTold(p) ==
    Destroyed(p) \/ \E q \in Proc : pc[q] \in DestroyPC /\ page[q] = page[p]

AllTold ==
    \A p \in Proc :
        pc[p] \in MapPC \cup {"open"} /\ sem[p] # None
            => (page[p] = pageName /\ sem[p] = semName) \/ BeingTold(p)

Paired == torn \/ (NameAgrees /\ PageAgrees /\ AllTold)

LEMMA InitTypeOK == Init => TypeOK
<1> SUFFICES ASSUME Init PROVE CountersOK /\ ControlOK /\ HandlesOK /\ PagesOK
  BY TypeParts
<1>1. CountersOK
  BY NamedLockAssumption DEF Init, CountersOK, None
<1>2. ControlOK
  BY DEF Init, ControlOK, PC
<1>3. HandlesOK
  BY DEF Init, HandlesOK, None
<1>4. PagesOK
  <2>1. pages = 0 /\ \A p \in Proc : page[p] = 0 /\ pc[p] = "idle"
    BY DEF Init, None
  <2>2. \A p \in Proc : page[p] <= pages
    <3>1. 0 <= 0
      OBVIOUS
    <3> QED
      BY <2>1, <3>1, Zenon
  <2>3. \A p \in Proc : pc[p] \in FindPC \cup {"idle"}
    BY <2>1
  <2> QED
    BY <2>1, <2>2, <2>3, Zenon DEF PagesOK, None
<1> QED
  BY <1>1, <1>2, <1>3, <1>4

LEMMA StepCounters == CountersOK /\ ControlOK /\ HandlesOK /\ [Next]_vars => CountersOK'
<1> SUFFICES ASSUME CountersOK, ControlOK, HandlesOK, [Next]_vars PROVE CountersOK'
  OBVIOUS
<1> USE DEF CountersOK, ControlOK, HandlesOK, PC, FindPC, MapPC, DestroyPC,
            Destroyed, At, Goto, names, objects, handle, history, None
<1>0. MaxSems \in Nat /\ MaxPages \in Nat
  BY NamedLockAssumption
<1> USE <1>0
<1>1. ASSUME NEW p \in Proc, NEW m \in Mode, Construct(p, m)
      PROVE  CountersOK'
  BY <1>1 DEF Construct
<1>2. ASSUME NEW p \in Proc, ConnectOrCreate(p)
      PROVE  CountersOK'
  BY <1>2 DEF ConnectOrCreate, OpenSemaphore, InitMmap, Fail
<1>3. ASSUME NEW p \in Proc, CreateUnchecked(p)
      PROVE  CountersOK'
  BY <1>3 DEF CreateUnchecked, CreateSemaphore, InitMmap, Fail
<1>4. ASSUME NEW p \in Proc, ConnectToExisting(p)
      PROVE  CountersOK'
  BY <1>4 DEF ConnectToExisting, OpenSemaphore, InitMmap, Fail, Raise,
              Forget
<1>5. ASSUME NEW p \in Proc, CreateExclusive(p) \/ CreateAnew(p)
      PROVE  CountersOK'
  BY <1>5 DEF CreateExclusive, CreateAnew, CreateSemaphore, CreationRefused,
              InitMmap, Fail, Raise, Forget
<1>6. ASSUME NEW p \in Proc, ShmOpen(p)
      PROVE  CountersOK'
  BY <1>6 DEF ShmOpen, Attach, Fail, Raise, Forget
<1>7. ASSUME NEW p \in Proc, ShmCreate(p)
      PROVE  CountersOK'
  BY <1>7 DEF ShmCreate, Attach, Fail, Raise, Forget
<1>8. ASSUME NEW p \in Proc, Map(p)
      PROVE  CountersOK'
  BY <1>8 DEF Map, Fail, Raise, Forget
<1>9. ASSUME NEW p \in Proc, SetValue(p)
      PROVE  CountersOK'
  BY <1>9 DEF SetValue
<1>10. ASSUME NEW p \in Proc, CheckDestroyed(p)
      PROVE  CountersOK'
  BY <1>10 DEF CheckDestroyed, Raise, Forget
<1>11. ASSUME NEW p \in Proc, Destroy(p)
      PROVE  CountersOK'
  BY <1>11 DEF Destroy
<1>12. ASSUME NEW p \in Proc, UnlinkShm(p)
      PROVE  CountersOK'
  BY <1>12 DEF UnlinkShm
<1>13. ASSUME NEW p \in Proc, UnlinkSem(p)
      PROVE  CountersOK'
  BY <1>13 DEF UnlinkSem
<1>14. ASSUME NEW p \in Proc, MarkDestroyed(p)
      PROVE  CountersOK'
  BY <1>14 DEF MarkDestroyed, Forget
<1>15. ASSUME NEW p \in Proc, Drop(p)
      PROVE  CountersOK'
  BY <1>15 DEF Drop, Forget
<1>16. ASSUME NEW p \in Proc, Kill(p)
      PROVE  CountersOK'
  BY <1>16 DEF Kill
<1>17. CASE UNCHANGED vars
  BY <1>17 DEF vars
<1> QED
  BY <1>1, <1>2, <1>3, <1>4, <1>5, <1>6, <1>7, <1>8, <1>9, <1>10,
     <1>11, <1>12, <1>13, <1>14, <1>15, <1>16, <1>17 DEF Next, Opening,
     Destroying

LEMMA StepControl == ControlOK /\ [Next]_vars => ControlOK'
<1> SUFFICES ASSUME ControlOK, [Next]_vars PROVE ControlOK'
  OBVIOUS
<1> USE DEF ControlOK, Mode, Raised, PC, FindPC, MapPC, DestroyPC,
            Overwriting, Destroyed, At, Goto, names, objects, handle,
            history, None
<1>1. ASSUME NEW p \in Proc, NEW m \in Mode, Construct(p, m)
      PROVE  ControlOK'
  BY <1>1 DEF Construct
<1>2. ASSUME NEW p \in Proc, ConnectOrCreate(p)
      PROVE  ControlOK'
  BY <1>2 DEF ConnectOrCreate, OpenSemaphore, InitMmap, Fail
<1>3. ASSUME NEW p \in Proc, CreateUnchecked(p)
      PROVE  ControlOK'
  BY <1>3 DEF CreateUnchecked, CreateSemaphore, InitMmap, Fail
<1>4. ASSUME NEW p \in Proc, ConnectToExisting(p)
      PROVE  ControlOK'
  BY <1>4 DEF ConnectToExisting, OpenSemaphore, InitMmap, Fail, Raise,
              Forget
<1>5. ASSUME NEW p \in Proc, CreateExclusive(p) \/ CreateAnew(p)
      PROVE  ControlOK'
  BY <1>5 DEF CreateExclusive, CreateAnew, CreateSemaphore, CreationRefused,
              InitMmap, Fail, Raise, Forget
<1>6. ASSUME NEW p \in Proc, ShmOpen(p)
      PROVE  ControlOK'
  BY <1>6 DEF ShmOpen, Attach, Fail, Raise, Forget
<1>7. ASSUME NEW p \in Proc, ShmCreate(p)
      PROVE  ControlOK'
  BY <1>7 DEF ShmCreate, Attach, Fail, Raise, Forget
<1>8. ASSUME NEW p \in Proc, Map(p)
      PROVE  ControlOK'
  BY <1>8 DEF Map, Fail, Raise, Forget
<1>9. ASSUME NEW p \in Proc, SetValue(p)
      PROVE  ControlOK'
  BY <1>9 DEF SetValue
<1>10. ASSUME NEW p \in Proc, CheckDestroyed(p)
      PROVE  ControlOK'
  BY <1>10 DEF CheckDestroyed, Raise, Forget
<1>11. ASSUME NEW p \in Proc, Destroy(p)
      PROVE  ControlOK'
  BY <1>11 DEF Destroy
<1>12. ASSUME NEW p \in Proc, UnlinkShm(p)
      PROVE  ControlOK'
  BY <1>12 DEF UnlinkShm
<1>13. ASSUME NEW p \in Proc, UnlinkSem(p)
      PROVE  ControlOK'
  BY <1>13 DEF UnlinkSem
<1>14. ASSUME NEW p \in Proc, MarkDestroyed(p)
      PROVE  ControlOK'
  BY <1>14 DEF MarkDestroyed, Forget
<1>15. ASSUME NEW p \in Proc, Drop(p)
      PROVE  ControlOK'
  BY <1>15 DEF Drop, Forget
<1>16. ASSUME NEW p \in Proc, Kill(p)
      PROVE  ControlOK'
  BY <1>16 DEF Kill
<1>17. CASE UNCHANGED vars
  BY <1>17 DEF vars
<1> QED
  BY <1>1, <1>2, <1>3, <1>4, <1>5, <1>6, <1>7, <1>8, <1>9, <1>10,
     <1>11, <1>12, <1>13, <1>14, <1>15, <1>16, <1>17 DEF Next, Opening,
     Destroying

LEMMA StepHandles == CountersOK /\ HandlesOK /\ [Next]_vars => HandlesOK'
<1> SUFFICES ASSUME CountersOK, HandlesOK, [Next]_vars PROVE HandlesOK'
  OBVIOUS
<1> USE DEF CountersOK, HandlesOK, At, Goto, names, objects, handle,
            history, None
<1>1. ASSUME NEW p \in Proc, NEW m \in Mode, Construct(p, m)
      PROVE  HandlesOK'
  BY <1>1 DEF Construct
<1>2. ASSUME NEW p \in Proc, ConnectOrCreate(p)
      PROVE  HandlesOK'
  BY <1>2 DEF ConnectOrCreate, OpenSemaphore, InitMmap, Fail
<1>3. ASSUME NEW p \in Proc, CreateUnchecked(p)
      PROVE  HandlesOK'
  <2>1. page' = page /\ \E s \in Nat : sem' = [sem EXCEPT ![p] = s]
    BY <1>3 DEF CreateUnchecked, CreateSemaphore, InitMmap
  <2> QED
    BY <2>1
<1>4. ASSUME NEW p \in Proc, ConnectToExisting(p)
      PROVE  HandlesOK'
  BY <1>4 DEF ConnectToExisting, OpenSemaphore, InitMmap, Fail, Raise,
              Forget
<1>5. ASSUME NEW p \in Proc, CreateExclusive(p) \/ CreateAnew(p)
      PROVE  HandlesOK'
  BY <1>5 DEF CreateExclusive, CreateAnew, CreateSemaphore, CreationRefused,
              InitMmap, Fail, Raise, Forget
<1>6. ASSUME NEW p \in Proc, ShmOpen(p)
      PROVE  HandlesOK'
  BY <1>6 DEF ShmOpen, Attach, Fail, Raise, Forget
<1>7. ASSUME NEW p \in Proc, ShmCreate(p)
      PROVE  HandlesOK'
  BY <1>7 DEF ShmCreate, Attach, Fail, Raise, Forget
<1>8. ASSUME NEW p \in Proc, Map(p)
      PROVE  HandlesOK'
  BY <1>8 DEF Map, Fail, Raise, Forget
<1>9. ASSUME NEW p \in Proc, SetValue(p)
      PROVE  HandlesOK'
  BY <1>9 DEF SetValue
<1>10. ASSUME NEW p \in Proc, CheckDestroyed(p)
      PROVE  HandlesOK'
  <2>1. UNCHANGED <<sem, page>> \/ Forget(p)
    BY <1>10 DEF CheckDestroyed, Raise
  <2> QED
    BY <2>1 DEF Forget
<1>11. ASSUME NEW p \in Proc, Destroy(p)
      PROVE  HandlesOK'
  BY <1>11 DEF Destroy
<1>12. ASSUME NEW p \in Proc, UnlinkShm(p)
      PROVE  HandlesOK'
  BY <1>12 DEF UnlinkShm
<1>13. ASSUME NEW p \in Proc, UnlinkSem(p)
      PROVE  HandlesOK'
  BY <1>13 DEF UnlinkSem
<1>14. ASSUME NEW p \in Proc, MarkDestroyed(p)
      PROVE  HandlesOK'
  BY <1>14 DEF MarkDestroyed, Forget
<1>15. ASSUME NEW p \in Proc, Drop(p)
      PROVE  HandlesOK'
  BY <1>15 DEF Drop, Forget
<1>16. ASSUME NEW p \in Proc, Kill(p)
      PROVE  HandlesOK'
  BY <1>16 DEF Kill
<1>17. CASE UNCHANGED vars
  BY <1>17 DEF vars
<1> QED
  BY <1>1, <1>2, <1>3, <1>4, <1>5, <1>6, <1>7, <1>8, <1>9, <1>10,
     <1>11, <1>12, <1>13, <1>14, <1>15, <1>16, <1>17 DEF Next, Opening,
     Destroying

LEMMA StepPages == CountersOK /\ ControlOK /\ HandlesOK /\ PagesOK /\ [Next]_vars => PagesOK'
<1> SUFFICES ASSUME CountersOK, ControlOK, HandlesOK, PagesOK, [Next]_vars PROVE PagesOK'
  OBVIOUS
<1> USE DEF CountersOK, HandlesOK, PagesOK, PC, FindPC, MapPC, DestroyPC,
            At, Goto, names, objects, handle, history, None
<1>0. pc \in [Proc -> PC]
  BY DEF ControlOK
<1> USE <1>0
<1>1. ASSUME NEW p \in Proc, NEW m \in Mode, Construct(p, m)
      PROVE  PagesOK'
  BY <1>1 DEF Construct
<1>2. ASSUME NEW p \in Proc, ConnectOrCreate(p)
      PROVE  PagesOK'
  BY <1>2 DEF ConnectOrCreate, OpenSemaphore, InitMmap, Fail
<1>3. ASSUME NEW p \in Proc, CreateUnchecked(p)
      PROVE  PagesOK'
  BY <1>3 DEF CreateUnchecked, CreateSemaphore, InitMmap, Fail
<1>4. ASSUME NEW p \in Proc, ConnectToExisting(p)
      PROVE  PagesOK'
  BY <1>4 DEF ConnectToExisting, OpenSemaphore, InitMmap, Fail, Raise,
              Forget
<1>5. ASSUME NEW p \in Proc, CreateExclusive(p) \/ CreateAnew(p)
      PROVE  PagesOK'
  <2>1. ASSUME CreateSemaphore(p)
        PROVE  PagesOK'
    BY <1>5, <2>1 DEF CreateExclusive, CreateAnew, CreateSemaphore, InitMmap
  <2>2. ASSUME CreationRefused(p)
        PROVE  PagesOK'
    BY <1>5, <2>2 DEF CreateExclusive, CreateAnew, CreationRefused, Raise,
                Forget
  <2> QED
    BY <1>5, <2>1, <2>2 DEF CreateExclusive, CreateAnew
<1>6. ASSUME NEW p \in Proc, ShmOpen(p)
      PROVE  PagesOK'
  BY <1>6 DEF ShmOpen, Attach, Fail, Raise, Forget
<1>7. ASSUME NEW p \in Proc, ShmCreate(p)
      PROVE  PagesOK'
  <2>1. ASSUME Attach(p, pageName), pageName # None, UNCHANGED <<pageName, pages>>
        PROVE  PagesOK'
    BY <1>7, <2>1 DEF ShmCreate, Attach
  <2>2. ASSUME Attach(p, pages + 1), pageName = None,
               pages' = pages + 1, pageName' = pages + 1, pages < MaxPages
        PROVE  PagesOK'
    BY <1>7, <2>2 DEF ShmCreate, Attach
  <2>3. ASSUME \E e : Raise(p, e), UNCHANGED <<pageName, pages>>
        PROVE  PagesOK'
    BY <1>7, <2>3 DEF ShmCreate, Raise, Forget
  <2> QED
    BY <1>7, <2>1, <2>2, <2>3 DEF ShmCreate
<1>8. ASSUME NEW p \in Proc, Map(p)
      PROVE  PagesOK'
  <2>1. ASSUME Goto(p, "value"), UNCHANGED handle
        PROVE  PagesOK'
    BY <1>8, <2>1 DEF Map
  <2>2. ASSUME \E e : Raise(p, e)
        PROVE  PagesOK'
    BY <1>8, <2>2 DEF Map, Raise, Forget
  <2> QED
    BY <1>8, <2>1, <2>2 DEF Map
<1>9. ASSUME NEW p \in Proc, SetValue(p)
      PROVE  PagesOK'
  BY <1>9 DEF SetValue
<1>10. ASSUME NEW p \in Proc, CheckDestroyed(p)
      PROVE  PagesOK'
  BY <1>10 DEF CheckDestroyed, Raise, Forget
<1>11. ASSUME NEW p \in Proc, Destroy(p)
      PROVE  PagesOK'
  BY <1>11 DEF Destroy
<1>12. ASSUME NEW p \in Proc, UnlinkShm(p)
      PROVE  PagesOK'
  BY <1>12 DEF UnlinkShm
<1>13. ASSUME NEW p \in Proc, UnlinkSem(p)
      PROVE  PagesOK'
  BY <1>13 DEF UnlinkSem
<1>14. ASSUME NEW p \in Proc, MarkDestroyed(p)
      PROVE  PagesOK'
  BY <1>14 DEF MarkDestroyed, Forget
<1>15. ASSUME NEW p \in Proc, Drop(p)
      PROVE  PagesOK'
  BY <1>15 DEF Drop, Forget
<1>16. ASSUME NEW p \in Proc, Kill(p)
      PROVE  PagesOK'
  BY <1>16 DEF Kill
<1>17. CASE UNCHANGED vars
  BY <1>17 DEF vars
<1> QED
  BY <1>1, <1>2, <1>3, <1>4, <1>5, <1>6, <1>7, <1>8, <1>9, <1>10,
     <1>11, <1>12, <1>13, <1>14, <1>15, <1>16, <1>17 DEF Next, Opening,
     Destroying

LEMMA StepNameless == TypeOK /\ NamelessPages /\ [Next]_vars => NamelessPages'
<1> SUFFICES ASSUME TypeOK, NamelessPages, [Next]_vars PROVE NamelessPages'
  OBVIOUS
<1> USE DEF TypeOK, NamelessPages, NameIsNeverDestroyed, PC, FindPC, MapPC,
            DestroyPC, Destroyed, At, Goto, names, objects, handle, history,
            None
<1>0. MaxSems \in Nat /\ MaxPages \in Nat
  BY NamedLockAssumption
<1> USE <1>0
<1>1. ASSUME NEW p \in Proc, NEW m \in Mode, Construct(p, m)
      PROVE  NamelessPages'
  BY <1>1 DEF Construct
<1>2. ASSUME NEW p \in Proc, ConnectOrCreate(p)
      PROVE  NamelessPages'
  BY <1>2 DEF ConnectOrCreate, OpenSemaphore, InitMmap, Fail
<1>3. ASSUME NEW p \in Proc, CreateUnchecked(p)
      PROVE  NamelessPages'
  BY <1>3 DEF CreateUnchecked, CreateSemaphore, InitMmap, Fail
<1>4. ASSUME NEW p \in Proc, ConnectToExisting(p)
      PROVE  NamelessPages'
  BY <1>4 DEF ConnectToExisting, OpenSemaphore, InitMmap, Fail, Raise,
              Forget
<1>5. ASSUME NEW p \in Proc, CreateExclusive(p) \/ CreateAnew(p)
      PROVE  NamelessPages'
  BY <1>5 DEF CreateExclusive, CreateAnew, CreateSemaphore, CreationRefused,
              InitMmap, Fail, Raise, Forget
<1>6. ASSUME NEW p \in Proc, ShmOpen(p)
      PROVE  NamelessPages'
  BY <1>6 DEF ShmOpen, Attach, Fail, Raise, Forget
<1>7. ASSUME NEW p \in Proc, ShmCreate(p)
      PROVE  NamelessPages'
  <2>1. ASSUME Attach(p, pageName), pageName # None, UNCHANGED <<pageName, pages>>
        PROVE  NamelessPages'
    BY <1>7, <2>1 DEF ShmCreate, Attach
  <2>2. ASSUME Attach(p, pages + 1), pageName = None,
               pages' = pages + 1, pageName' = pages + 1, pages < MaxPages
        PROVE  NamelessPages'
    BY <1>7, <2>2 DEF ShmCreate, Attach
  <2>3. ASSUME \E e : Raise(p, e), UNCHANGED <<pageName, pages>>
        PROVE  NamelessPages'
    BY <1>7, <2>3 DEF ShmCreate, Raise, Forget
  <2> QED
    BY <1>7, <2>1, <2>2, <2>3 DEF ShmCreate
<1>8. ASSUME NEW p \in Proc, Map(p)
      PROVE  NamelessPages'
  BY <1>8 DEF Map, Fail, Raise, Forget
<1>9. ASSUME NEW p \in Proc, SetValue(p)
      PROVE  NamelessPages'
  BY <1>9 DEF SetValue
<1>10. ASSUME NEW p \in Proc, CheckDestroyed(p)
      PROVE  NamelessPages'
  BY <1>10 DEF CheckDestroyed, Raise, Forget
<1>11. ASSUME NEW p \in Proc, Destroy(p)
      PROVE  NamelessPages'
  BY <1>11 DEF Destroy
<1>12. ASSUME NEW p \in Proc, UnlinkShm(p)
      PROVE  NamelessPages'
  BY <1>12 DEF UnlinkShm
<1>13. ASSUME NEW p \in Proc, UnlinkSem(p)
      PROVE  NamelessPages'
  BY <1>13 DEF UnlinkSem
<1>14. ASSUME NEW p \in Proc, MarkDestroyed(p)
      PROVE  NamelessPages'
  BY <1>14 DEF MarkDestroyed, Forget
<1>15. ASSUME NEW p \in Proc, Drop(p)
      PROVE  NamelessPages'
  BY <1>15 DEF Drop, Forget
<1>16. ASSUME NEW p \in Proc, Kill(p)
      PROVE  NamelessPages'
  BY <1>16 DEF Kill
<1>17. CASE UNCHANGED vars
  BY <1>17 DEF vars
<1> QED
  BY <1>1, <1>2, <1>3, <1>4, <1>5, <1>6, <1>7, <1>8, <1>9, <1>10,
     <1>11, <1>12, <1>13, <1>14, <1>15, <1>16, <1>17 DEF Next, Opening,
     Destroying

LEMMA StepWay == TypeOK /\ NamelessPages /\ WayIsFree /\ [Next]_vars => WayIsFree'
<1> SUFFICES ASSUME TypeOK, NamelessPages, WayIsFree, [Next]_vars PROVE WayIsFree'
  OBVIOUS
<1> USE DEF NamelessPages, NameIsNeverDestroyed, WayIsFree, Met,
            OverwriteMakesWay, Raised, PC, FindPC, MapPC, DestroyPC,
            Destroyed, Overwriting, At, Goto, names, objects, handle,
            history, None
<1>0. /\ pc \in [Proc -> PC]
      /\ page \in [Proc -> Nat]
      /\ disturbed \in [Proc -> BOOLEAN]
      /\ error \in [Proc -> Raised \cup {"none"}]
      /\ mode \in [Proc -> Mode \cup {"none"}]
      /\ byte \in [1..MaxPages -> {"LOCKED", "UNLOCKED", "DESTROYED"}]
      /\ \A p \in Proc : page[p] = None <=> pc[p] \in FindPC \cup {"idle"}
      /\ pages \in Nat /\ \A p \in Proc : page[p] <= pages
  BY DEF TypeOK
<1> USE <1>0
<1>1. ASSUME NEW p \in Proc, NEW m \in Mode, Construct(p, m)
      PROVE  WayIsFree'
  BY <1>1 DEF Construct
<1>2. ASSUME NEW p \in Proc, ConnectOrCreate(p)
      PROVE  WayIsFree'
  <2>1. ASSUME OpenSemaphore(p)
        PROVE  WayIsFree'
    BY <1>2, <2>1 DEF ConnectOrCreate, OpenSemaphore, InitMmap
  <2>2. ASSUME UNCHANGED disturbed, Goto(p, "create"), UNCHANGED handle
        PROVE  WayIsFree'
    BY <1>2, <2>2 DEF ConnectOrCreate
  <2>3. ASSUME Fail(p), Goto(p, "create"), UNCHANGED handle
        PROVE  WayIsFree'
    BY <1>2, <2>3 DEF ConnectOrCreate, Fail
  <2> QED
    BY <1>2, <2>1, <2>2, <2>3 DEF ConnectOrCreate
<1>3. ASSUME NEW p \in Proc, CreateUnchecked(p)
      PROVE  WayIsFree'
  <2>1. ASSUME CreateSemaphore(p)
        PROVE  WayIsFree'
    BY <1>3, <2>1 DEF CreateUnchecked, CreateSemaphore, InitMmap
  <2>2. ASSUME UNCHANGED disturbed, InitMmap(p, TRUE),
               sem' = [sem EXCEPT ![p] = None], UNCHANGED <<semName, sems>>
        PROVE  WayIsFree'
    BY <1>3, <2>2 DEF CreateUnchecked, InitMmap
  <2>3. ASSUME Fail(p), InitMmap(p, TRUE),
               sem' = [sem EXCEPT ![p] = None], UNCHANGED <<semName, sems>>
        PROVE  WayIsFree'
    BY <1>3, <2>3 DEF CreateUnchecked, InitMmap, Fail
  <2> QED
    BY <1>3, <2>1, <2>2, <2>3 DEF CreateUnchecked
<1>4. ASSUME NEW p \in Proc, ConnectToExisting(p)
      PROVE  WayIsFree'
  <2>1. ASSUME OpenSemaphore(p), UNCHANGED error
        PROVE  WayIsFree'
    BY <1>4, <2>1 DEF ConnectToExisting, OpenSemaphore, InitMmap
  <2>2. ASSUME semName = None, UNCHANGED disturbed, Goto(p, "make"),
               UNCHANGED <<handle, error>>
        PROVE  WayIsFree'
    BY <1>4, <2>2 DEF ConnectToExisting
  <2>3. ASSUME Fail(p), Goto(p, "make"), UNCHANGED <<handle, error>>
        PROVE  WayIsFree'
    BY <1>4, <2>3 DEF ConnectToExisting, Fail
  <2>4. ASSUME UNCHANGED disturbed \/ Fail(p), Raise(p, "NoSuchSemaphore")
        PROVE  WayIsFree'
    BY <1>4, <2>4 DEF ConnectToExisting, Fail, Raise, Forget
  <2> QED
    BY <1>4, <2>1, <2>2, <2>3, <2>4 DEF ConnectToExisting
<1>5. ASSUME NEW p \in Proc, CreateExclusive(p) \/ CreateAnew(p)
      PROVE  WayIsFree'
  <2>1. ASSUME CreateSemaphore(p), UNCHANGED error
        PROVE  WayIsFree'
    BY <1>5, <2>1 DEF CreateExclusive, CreateAnew, CreateSemaphore, InitMmap
  <2>2. ASSUME CreationRefused(p)
        PROVE  WayIsFree'
    <3>1. pc[p] = "make" /\ UNCHANGED <<mode, byte>>
      BY <1>5 DEF CreateExclusive, CreateAnew
    <3>2. /\ mode[p] = "CREATE_NEW_OVERWRITE" => disturbed'[p]
          /\ \A q \in Proc : disturbed[q] => disturbed'[q]
          /\ semName' = semName
      BY <2>2, <3>1 DEF CreationRefused, Fail
    <3>3. \A q \in Proc : q # p => error'[q] = error[q] /\ pc'[q] = pc[q]
      BY <2>2 DEF CreationRefused, Raise
    <3>4. pc'[p] = "idle" /\ page' = [page EXCEPT ![p] = None]
      BY <2>2 DEF CreationRefused, Raise, Forget
    <3>5. \A q \in Proc : q # p => page'[q] = page[q]
      BY <3>4
    <3>6. OverwriteMakesWay'
      BY <3>1, <3>2, <3>3
    <3>7. ASSUME NEW q \in Proc, pc'[q] \in MapPC, Met(q)' PROVE Met(q)
      <4>1. q # p /\ byte' = byte
        BY <3>1, <3>4, <3>7
      <4>2. ASSUME NEW r \in Proc, pc'[r] = "mark", page'[r] = page'[q]
            PROVE  pc[r] = "mark" /\ page[r] = page[q]
        BY <3>3, <3>4, <3>5, <4>1, <4>2
      <4> QED
        BY <3>5, <3>7, <4>1, <4>2
    <3>8. \A q \in Proc :
            pc'[q] \in MapPC \cup {"mark", "make"} => q # p /\ pc[q] = pc'[q]
      BY <3>3, <3>4
    <3>9. ASSUME NEW q \in Proc, pc'[q] \in MapPC, Met(q)', semName' # None
          PROVE  disturbed'[q]
      <4>1. Met(q) /\ pc[q] \in MapPC
        BY <3>7, <3>8, <3>9
      <4> QED
        BY <3>2, <3>9, <4>1
    <3>10. ASSUME NEW q \in Proc, semName' # None,
                  \/ pc'[q] = "mark"
                  \/ pc'[q] = "make" /\ mode'[q] = "CREATE_NEW_OVERWRITE"
           PROVE  disturbed'[q]
      BY <3>1, <3>2, <3>8, <3>10
    <3> QED
      BY <3>6, <3>9, <3>10
  <2> QED
    BY <1>5, <2>1, <2>2 DEF CreateExclusive, CreateAnew
<1>6. ASSUME NEW p \in Proc, ShmOpen(p)
      PROVE  WayIsFree'
  <2>1. ASSUME pageName # None, Attach(p, pageName)
        PROVE  WayIsFree'
    BY <1>6, <2>1 DEF ShmOpen, Attach
  <2>2. ASSUME Goto(p, "shmCreate"), UNCHANGED <<handle, error, history>>
        PROVE  WayIsFree'
    BY <1>6, <2>2 DEF ShmOpen
  <2>3. ASSUME Fail(p), Raise(p, "SystemError"), UNCHANGED torn
        PROVE  WayIsFree'
    BY <1>6, <2>3 DEF ShmOpen, Fail, Raise, Forget
  <2> QED
    BY <1>6, <2>1, <2>2, <2>3 DEF ShmOpen
<1>7. ASSUME NEW p \in Proc, ShmCreate(p)
      PROVE  WayIsFree'
  <2>1. ASSUME Attach(p, pageName), pageName # None, UNCHANGED <<pageName, pages>>
        PROVE  WayIsFree'
    BY <1>7, <2>1 DEF ShmCreate, Attach
  <2>2. ASSUME Attach(p, pages + 1), pageName = None,
               pages' = pages + 1, pageName' = pages + 1, pages < MaxPages
        PROVE  WayIsFree'
    <3>1. byte[pages + 1] # "DESTROYED" /\ \A q \in Proc : page[q] # pages + 1
      BY <2>2, NewPage DEF NamelessPages, NameIsNeverDestroyed
    <3> QED
      BY <1>7, <2>2, <3>1 DEF ShmCreate, Attach
  <2>3. ASSUME Fail(p), Raise(p, "SystemError"), UNCHANGED <<pageName, pages>>
        PROVE  WayIsFree'
    BY <1>7, <2>3 DEF ShmCreate, Fail, Raise, Forget
  <2> QED
    BY <1>7, <2>1, <2>2, <2>3 DEF ShmCreate
<1>8. ASSUME NEW p \in Proc, Map(p)
      PROVE  WayIsFree'
  <2>1. ASSUME Goto(p, "value"), UNCHANGED <<handle, error, disturbed>>
        PROVE  WayIsFree'
    BY <1>8, <2>1 DEF Map
  <2>2. ASSUME Fail(p), Raise(p, "SystemError")
        PROVE  WayIsFree'
    BY <1>8, <2>2 DEF Map, Fail, Raise, Forget
  <2> QED
    BY <1>8, <2>1, <2>2 DEF Map
<1>9. ASSUME NEW p \in Proc, SetValue(p)
      PROVE  WayIsFree'
  BY <1>9 DEF SetValue
<1>10. ASSUME NEW p \in Proc, CheckDestroyed(p)
      PROVE  WayIsFree'
  BY <1>10 DEF CheckDestroyed, Raise, Forget
<1>11. ASSUME NEW p \in Proc, Destroy(p)
      PROVE  WayIsFree'
  BY <1>11 DEF Destroy
<1>12. ASSUME NEW p \in Proc, UnlinkShm(p)
      PROVE  WayIsFree'
  BY <1>12 DEF UnlinkShm
<1>13. ASSUME NEW p \in Proc, UnlinkSem(p)
      PROVE  WayIsFree'
  BY <1>13 DEF UnlinkSem
<1>14. ASSUME NEW p \in Proc, MarkDestroyed(p)
      PROVE  WayIsFree'
  BY <1>14 DEF MarkDestroyed, Forget
<1>15. ASSUME NEW p \in Proc, Drop(p)
      PROVE  WayIsFree'
  BY <1>15 DEF Drop, Forget
<1>16. ASSUME NEW p \in Proc, Kill(p)
      PROVE  WayIsFree'
  BY <1>16 DEF Kill
<1>17. CASE UNCHANGED vars
  BY <1>17 DEF vars
<1> QED
  BY <1>1, <1>2, <1>3, <1>4, <1>5, <1>6, <1>7, <1>8, <1>9, <1>10,
     <1>11, <1>12, <1>13, <1>14, <1>15, <1>16, <1>17 DEF Next, Opening,
     Destroying

-----------------------------------------------------------------------------
(* A step of p on its own handle, which has no page afterwards.            *)
LEMMA Aside ==
    ASSUME TypeOK, Paired, NEW p \in Proc, pc[p] \notin DestroyPC,
           torn' = torn, UNCHANGED <<semName, pageName, byte>>,
           page'[p] = None, pc'[p] \notin MapPC \cup {"open"},
           \A q \in Proc : q # p => /\ pc'[q] = pc[q]
                                    /\ sem'[q] = sem[q]
                                    /\ page'[q] = page[q]
    PROVE  Paired'
<1> SUFFICES ASSUME ~torn PROVE NameAgrees' /\ PageAgrees' /\ AllTold'
  BY DEF Paired
<1>1. NameAgrees /\ PageAgrees /\ AllTold
  BY DEF Paired
<1>2. NameAgrees'
  BY <1>1 DEF NameAgrees
<1>3. PageAgrees'
  BY <1>1 DEF PageAgrees
<1>4. ASSUME NEW r \in Proc, r # p, BeingTold(r)
      PROVE  BeingTold(r)'
  BY <1>4 DEF BeingTold, Destroyed
<1>5. AllTold'
  BY <1>1, <1>4 DEF AllTold
<1> QED
  BY <1>2, <1>3, <1>5

(* A step of p that leaves every handle alone.                             *)
LEMMA Onward ==
    ASSUME TypeOK, Paired, NEW p \in Proc, pc[p] \in MapPC \cup {"open"},
           torn' = torn, UNCHANGED <<semName, pageName, byte, sem, page>>,
           pc'[p] \in MapPC \cup {"open", "unlinkShm"},
           \A q \in Proc : q # p => pc'[q] = pc[q]
    PROVE  Paired'
<1> SUFFICES ASSUME ~torn PROVE NameAgrees' /\ PageAgrees' /\ AllTold'
  BY DEF Paired
<1>1. NameAgrees /\ PageAgrees /\ AllTold
  BY DEF Paired
<1>2. NameAgrees' /\ PageAgrees'
  BY <1>1 DEF NameAgrees, PageAgrees
<1>3. ASSUME NEW r \in Proc, BeingTold(r)
      PROVE  BeingTold(r)'
  BY <1>3 DEF BeingTold, Destroyed, MapPC, DestroyPC
<1>4. AllTold'
  BY <1>1, <1>3 DEF AllTold, MapPC
<1> QED
  BY <1>2, <1>4

(* p gets hold of the page that has the name, old or new.                  *)
LEMMA Attached ==
    ASSUME TypeOK, Paired, NEW p \in Proc, pc[p] \in {"shmOpen", "shmCreate"},
           NEW g, Attach(p, g), g # None, pageName' = g,
           UNCHANGED <<semName, byte>>,
           pageName = g \/ (pageName = None /\ \A q \in Proc : page[q] # g)
    PROVE  Paired'
<1> SUFFICES ASSUME ~torn' PROVE NameAgrees' /\ PageAgrees' /\ AllTold'
  BY DEF Paired
<1>1. ~torn /\ semName = sem[p]
  BY DEF Attach
<1>2. NameAgrees /\ PageAgrees /\ AllTold
  BY <1>1 DEF Paired
<1>3. /\ page'[p] = g /\ sem' = sem /\ pc'[p] = "map"
      /\ \A q \in Proc : q # p => page'[q] = page[q] /\ pc'[q] = pc[q]
  BY DEF Attach, TypeOK, Goto
<1>4. NameAgrees'
  BY <1>1, <1>2, <1>3 DEF NameAgrees
<1>5. ASSUME NEW q \in Proc, page'[q] = g, sem[q] # None
      PROVE  sem[q] = semName
  BY <1>1, <1>2, <1>3, <1>5 DEF NameAgrees
<1>6. PageAgrees'
  BY <1>1, <1>2, <1>3, <1>5 DEF PageAgrees
<1>7. ASSUME NEW r \in Proc, r # p, BeingTold(r)
      PROVE  BeingTold(r)'
  BY <1>3, <1>7 DEF BeingTold, Destroyed, DestroyPC
<1>8. ASSUME NEW r \in Proc, r # p, page[r] = pageName, sem[r] = semName,
             pc[r] \in MapPC \cup {"open"}, sem[r] # None
      PROVE  page[r] = g
  <2>1. page[r] = None => pc[r] \in FindPC \cup {"idle"}
    BY DEF TypeOK
  <2>2. page[r] # None
    BY <1>8, <2>1 DEF MapPC, FindPC
  <2> QED
    BY <1>8, <2>2
<1>9. AllTold'
  BY <1>1, <1>2, <1>3, <1>7, <1>8 DEF AllTold
<1> QED
  BY <1>4, <1>6, <1>9

(* p creates a semaphore: the name was free, so the page that has the name *)
(* has no semaphore to disagree with, and everybody else is told.          *)
LEMMA Created ==
    ASSUME TypeOK, Paired, NEW p \in Proc, pc[p] \in FindPC,
           CreateSemaphore(p), UNCHANGED <<pageName, byte, torn>>
    PROVE  Paired'
<1> SUFFICES ASSUME ~torn PROVE NameAgrees' /\ PageAgrees' /\ AllTold'
  BY DEF Paired
<1>1. NameAgrees /\ PageAgrees /\ AllTold
  BY DEF Paired
<1>2. semName = None
  BY DEF CreateSemaphore
<1>3. /\ page' = page /\ page[p] = None /\ pc'[p] = "shmOpen"
      /\ \A q \in Proc : q # p => pc'[q] = pc[q] /\ sem'[q] = sem[q]
  BY DEF CreateSemaphore, InitMmap, Goto, TypeOK
<1>4. NameAgrees'
  BY <1>1, <1>2, <1>3 DEF NameAgrees
<1>5. PageAgrees'
  BY <1>1, <1>3 DEF PageAgrees
<1>6. ASSUME NEW r \in Proc, r # p, BeingTold(r)
      PROVE  BeingTold(r)'
  BY <1>3, <1>6 DEF BeingTold, Destroyed, DestroyPC, FindPC
<1>7. AllTold'
  BY <1>1, <1>2, <1>3, <1>6 DEF AllTold, MapPC
<1> QED
  BY <1>4, <1>5, <1>7

(* p writes "UNLOCKED": never over a "DESTROYED", or somebody came in.     *)
LEMMA Written ==
    ASSUME TypeOK, Paired, NEW p \in Proc, SetValue(p)
    PROVE  Paired'
<1> SUFFICES ASSUME ~torn' PROVE NameAgrees' /\ PageAgrees' /\ AllTold'
  BY DEF Paired
<1>1. ~torn /\ ~(sets[p] /\ Destroyed(p))
  BY DEF SetValue
<1>2. NameAgrees /\ PageAgrees /\ AllTold
  BY <1>1 DEF Paired
<1>3. /\ UNCHANGED <<semName, pageName, sem, page>>
      /\ pc[p] = "value" /\ pc'[p] = "check"
      /\ \A q \in Proc : q # p => pc'[q] = pc[q]
      /\ byte' = IF sets[p] THEN [byte EXCEPT ![page[p]] = "UNLOCKED"] ELSE byte
  BY DEF SetValue, At, Goto, TypeOK, names, handle
<1>4. NameAgrees' /\ PageAgrees'
  BY <1>2, <1>3 DEF NameAgrees, PageAgrees
<1>5. ASSUME NEW r \in Proc, Destroyed(r)
      PROVE  Destroyed(r)'
  <2>1. CASE sets[p]
    <3>1. page[r] # page[p]
      BY <1>1, <1>5, <2>1 DEF Destroyed
    <3>2. byte'[page[r]] = byte[page[r]]
      BY <1>3, <2>1, <3>1 DEF TypeOK
    <3> QED
      BY <1>3, <1>5, <3>2 DEF Destroyed
  <2>2. CASE ~sets[p]
    BY <1>3, <1>5, <2>2 DEF Destroyed
  <2> QED
    BY <2>1, <2>2
<1>6. ASSUME NEW r \in Proc, BeingTold(r)
      PROVE  BeingTold(r)'
  BY <1>3, <1>5, <1>6 DEF BeingTold, DestroyPC
<1>7. AllTold'
  BY <1>2, <1>3, <1>6 DEF AllTold, MapPC
<1> QED
  BY <1>4, <1>7

(* The three steps of destroy(): everybody on the page is being told.      *)
LEMMA Destruction ==
    ASSUME TypeOK, Paired, NEW p \in Proc,
           UnlinkShm(p) \/ UnlinkSem(p) \/ MarkDestroyed(p)
    PROVE  Paired'
<1> SUFFICES ASSUME ~torn' PROVE NameAgrees' /\ PageAgrees' /\ AllTold'
  BY DEF Paired
<1>0. ~torn
  BY Zenon DEF UnlinkShm, UnlinkSem, MarkDestroyed, history
<1>1. NameAgrees /\ PageAgrees /\ AllTold
  BY <1>0 DEF Paired
<1>2. \A q \in Proc : page[q] = None <=> pc[q] \in FindPC \cup {"idle"}
  BY DEF TypeOK
<1>3. CASE UnlinkShm(p)
  <2>1. /\ pageName' = None /\ pageName \in {page[p], None}
        /\ UNCHANGED <<sem, page, byte>>
        /\ pc'[p] = "unlinkSem"
        /\ \A q \in Proc : q # p => pc'[q] = pc[q]
    BY <1>3 DEF UnlinkShm, Goto, handle, TypeOK
  <2>2. NameAgrees' /\ PageAgrees'
    BY <1>1, <2>1 DEF NameAgrees, PageAgrees
  <2>3. ASSUME NEW r \in Proc, BeingTold(r) \/ page[r] = page[p]
        PROVE  BeingTold(r)'
    BY <2>1, <2>3 DEF BeingTold, Destroyed, DestroyPC
  <2>4. ASSUME NEW r \in Proc, pc[r] \in MapPC \cup {"open"}, page[r] = pageName
        PROVE  page[r] = page[p]
    BY <1>2, <2>1, <2>4 DEF MapPC, FindPC
  <2>5. AllTold'
    BY <1>1, <2>1, <2>3, <2>4 DEF AllTold, MapPC
  <2> QED
    BY <2>2, <2>5
<1>4. CASE UnlinkSem(p)
  <2>1. /\ pageName' = None /\ pageName = None
        /\ UNCHANGED <<sem, page, byte>>
        /\ pc'[p] = "mark"
        /\ \A q \in Proc : q # p => pc'[q] = pc[q]
    BY <1>4 DEF UnlinkSem, Goto, handle, TypeOK
  <2>2. NameAgrees' /\ PageAgrees'
    BY <1>1, <2>1 DEF NameAgrees, PageAgrees
  <2>3. ASSUME NEW r \in Proc, BeingTold(r)
        PROVE  BeingTold(r)'
    BY <2>1, <2>3 DEF BeingTold, Destroyed, DestroyPC
  <2>4. ASSUME NEW r \in Proc, pc[r] \in MapPC \cup {"open"}
        PROVE  page[r] # pageName
    BY <1>2, <2>1, <2>4 DEF MapPC, FindPC
  <2>5. AllTold'
    BY <1>1, <2>1, <2>3, <2>4 DEF AllTold, MapPC
  <2> QED
    BY <2>2, <2>5
<1>5. CASE MarkDestroyed(p)
  <2>1. /\ UNCHANGED <<semName, pageName>>
        /\ pc[p] = "mark" /\ pc'[p] \in {"make", "idle"}
        /\ sem'[p] = None
        /\ byte' = [byte EXCEPT ![page[p]] = "DESTROYED"]
        /\ \A q \in Proc : q # p => /\ pc'[q] = pc[q]
                                    /\ sem'[q] = sem[q]
                                    /\ page'[q] = page[q]
    BY <1>5 DEF MarkDestroyed, At, Forget, Goto, names, TypeOK
  <2>2. NameAgrees' /\ PageAgrees'
    BY <1>1, <2>1 DEF NameAgrees, PageAgrees
  <2>3. page[p] \in 1..MaxPages
    <3>1. page[p] # 0
      BY <1>2, <2>1 DEF FindPC, None
    <3>2. page[p] \in Nat /\ page[p] <= pages /\ pages \in 0..MaxPages
      BY DEF TypeOK
    <3> QED
      BY <3>1, <3>2, NamedLockAssumption
  <2>4. ASSUME NEW r \in Proc, r # p, Destroyed(r) \/ page[r] = page[p]
        PROVE  Destroyed(r)'
    BY <2>1, <2>3, <2>4 DEF Destroyed, TypeOK
  <2>5. ASSUME NEW r \in Proc, r # p, BeingTold(r)
        PROVE  BeingTold(r)'
    BY <2>1, <2>4, <2>5 DEF BeingTold
  <2>6. AllTold'
    BY <1>1, <2>1, <2>5 DEF AllTold, MapPC
  <2> QED
    BY <2>2, <2>6
<1> QED
  BY <1>3, <1>4, <1>5

LEMMA StepPaired == TypeOK /\ NamelessPages /\ Paired /\ [Next]_vars => Paired'
<1> SUFFICES ASSUME TypeOK, NamelessPages, Paired, [Next]_vars PROVE Paired'
  OBVIOUS
<1> USE DEF At, Goto, PC, FindPC, MapPC, DestroyPC, names, objects, handle,
            history
<1>0. /\ pc \in [Proc -> PC] /\ sem \in [Proc -> Nat] /\ page \in [Proc -> Nat]
      /\ \A p \in Proc : page[p] = None <=> pc[p] \in FindPC \cup {"idle"}
  BY DEF TypeOK
<1> USE <1>0
<1>1. ASSUME NEW p \in Proc, NEW m \in Mode, Construct(p, m)
      PROVE  Paired'
  BY <1>1, Aside DEF Construct
<1>2. ASSUME NEW p \in Proc, ConnectOrCreate(p)
      PROVE  Paired'
  <2>1. CASE OpenSemaphore(p)
    BY <1>2, <2>1, Aside DEF ConnectOrCreate, OpenSemaphore, InitMmap
  <2>2. CASE Goto(p, "create") /\ UNCHANGED handle
    BY <1>2, <2>2, Aside DEF ConnectOrCreate
  <2> QED
    BY <1>2, <2>1, <2>2 DEF ConnectOrCreate
<1>3. ASSUME NEW p \in Proc, CreateUnchecked(p)
      PROVE  Paired'
  <2>1. CASE CreateSemaphore(p)
    BY <1>3, <2>1, Created DEF CreateUnchecked
  <2>2. CASE /\ sem' = [sem EXCEPT ![p] = None] /\ InitMmap(p, TRUE)
             /\ UNCHANGED semName
    BY <1>3, <2>2, Aside DEF CreateUnchecked, InitMmap
  <2> QED
    BY <1>3, <2>1, <2>2 DEF CreateUnchecked
<1>4. ASSUME NEW p \in Proc, ConnectToExisting(p)
      PROVE  Paired'
  <2>1. CASE OpenSemaphore(p)
    BY <1>4, <2>1, Aside DEF ConnectToExisting, OpenSemaphore, InitMmap
  <2>2. CASE Goto(p, "make") /\ UNCHANGED handle
    BY <1>4, <2>2, Aside DEF ConnectToExisting
  <2>3. CASE Raise(p, "NoSuchSemaphore")
    BY <1>4, <2>3, Aside DEF ConnectToExisting, Raise, Forget
  <2> QED
    BY <1>4, <2>1, <2>2, <2>3 DEF ConnectToExisting
<1>5. ASSUME NEW p \in Proc, CreateExclusive(p) \/ CreateAnew(p)
      PROVE  Paired'
  <2>1. CASE CreateSemaphore(p)
    BY <1>5, <2>1, Created DEF CreateExclusive, CreateAnew
  <2>2. CASE CreationRefused(p)
    BY <1>5, <2>2, Aside DEF CreateExclusive, CreateAnew, CreationRefused,
       Raise, Forget
  <2> QED
    BY <1>5, <2>1, <2>2 DEF CreateExclusive, CreateAnew
<1>6. ASSUME NEW p \in Proc, ShmOpen(p)
      PROVE  Paired'
  <2>1. CASE pageName # None /\ Attach(p, pageName)
    BY <1>6, <2>1, Attached DEF ShmOpen
  <2>2. CASE Goto(p, "shmCreate") /\ UNCHANGED <<handle, torn>>
    BY <1>6, <2>2, Aside DEF ShmOpen
  <2>3. CASE Raise(p, "SystemError") /\ UNCHANGED torn
    BY <1>6, <2>3, Aside DEF ShmOpen, Raise, Forget
  <2> QED
    BY <1>6, <2>1, <2>2, <2>3 DEF ShmOpen
<1>7. ASSUME NEW p \in Proc, ShmCreate(p)
      PROVE  Paired'
  <2>1. CASE pageName # None /\ Attach(p, pageName) /\ UNCHANGED pageName
    BY <1>7, <2>1, Attached DEF ShmCreate
  <2>2. CASE /\ pageName = None /\ pages < MaxPages
             /\ pageName' = pages + 1 /\ Attach(p, pages + 1)
    <3>1. \A q \in Proc : page[q] # pages + 1
      BY <2>2, NewPage
    <3>2. pages + 1 # None
      BY DEF TypeOK, None
    <3>3. pc[p] = "shmCreate" /\ UNCHANGED <<semName, byte>>
      BY <1>7 DEF ShmCreate
    <3> HIDE DEF FindPC, MapPC, DestroyPC, PC
    <3> QED
      BY <2>2, <3>1, <3>2, <3>3, Attached
  <2>3. CASE Raise(p, "SystemError") /\ UNCHANGED <<pageName, torn>>
    BY <1>7, <2>3, Aside DEF ShmCreate, Raise, Forget
  <2> QED
    BY <1>7, <2>1, <2>2, <2>3 DEF ShmCreate
<1>8. ASSUME NEW p \in Proc, Map(p)
      PROVE  Paired'
  <2>1. CASE Goto(p, "value") /\ UNCHANGED handle
    BY <1>8, <2>1, Onward DEF Map
  <2>2. CASE Raise(p, "SystemError")
    BY <1>8, <2>2, Aside DEF Map, Raise, Forget
  <2> QED
    BY <1>8, <2>1, <2>2 DEF Map
<1>9. ASSUME NEW p \in Proc, SetValue(p)
      PROVE  Paired'
  BY <1>9, Written
<1>10. ASSUME NEW p \in Proc, CheckDestroyed(p)
       PROVE  Paired'
  <2>1. CASE Raise(p, "SemaphoreDestroyed")
    BY <1>10, <2>1, Aside DEF CheckDestroyed, Raise, Forget
  <2>2. CASE Goto(p, "make") /\ Forget(p)
    BY <1>10, <2>2, Aside DEF CheckDestroyed, Forget
  <2>3. CASE /\ Goto(p, IF Overwriting(p) THEN "unlinkShm" ELSE "open")
             /\ UNCHANGED handle
    <3>1. pc'[p] \in {"unlinkShm", "open"}
      BY <2>3
    <3> QED
      BY <1>10, <2>3, <3>1, Onward DEF CheckDestroyed
  <2> QED
    BY <1>10, <2>1, <2>2, <2>3 DEF CheckDestroyed
<1>11. ASSUME NEW p \in Proc, Destroy(p)
       PROVE  Paired'
  BY <1>11, Onward DEF Destroy
<1>12. ASSUME NEW p \in Proc, UnlinkShm(p) \/ UnlinkSem(p) \/ MarkDestroyed(p)
       PROVE  Paired'
  BY <1>12, Destruction
<1>13. ASSUME NEW p \in Proc, Drop(p)
       PROVE  Paired'
  BY <1>13, Aside DEF Drop, Forget
<1>14. CASE UNCHANGED <<semName, pageName, byte, pc, sem, page, torn>>
  BY <1>14 DEF Paired, NameAgrees, PageAgrees, AllTold, BeingTold, Destroyed
<1>15. ASSUME NEW p \in Proc, Kill(p)
       PROVE  Paired'
  BY <1>14, <1>15 DEF Kill
<1> QED
  BY <1>1, <1>2, <1>3, <1>4, <1>5, <1>6, <1>7, <1>8, <1>9, <1>10,
     <1>11, <1>12, <1>13, <1>14, <1>15 DEF Next, Opening, Destroying, vars

-----------------------------------------------------------------------------
\* The inductive invariant.
IInv == TypeOK /\ NamelessPages /\ WayIsFree /\ Paired

LEMMA InitIInv == Init => IInv
<1> SUFFICES ASSUME Init PROVE IInv
  OBVIOUS
<1>1. TypeOK
  BY InitTypeOK
<1>2. /\ pageName = None /\ semName = None
      /\ \A g \in 1..MaxPages : byte[g] = "LOCKED"
      /\ \A p \in Proc : /\ pc[p] = "idle" /\ error[p] = "none"
                         /\ page[p] = None
  BY DEF Init
<1>3. NamelessPages
  BY <1>2 DEF NamelessPages, NameIsNeverDestroyed
<1>4. WayIsFree
  BY <1>2 DEF WayIsFree, OverwriteMakesWay, MapPC
<1>5. Paired
  BY <1>2 DEF Paired, NameAgrees, PageAgrees, AllTold, MapPC
<1> QED
  BY <1>1, <1>3, <1>4, <1>5 DEF IInv

LEMMA Invariant == Spec => []IInv
<1>1. IInv /\ [Next]_vars => IInv'
  <2> SUFFICES ASSUME IInv, [Next]_vars PROVE IInv'
    OBVIOUS
  <2>1. TypeOK'
    <3>1. CountersOK /\ ControlOK /\ HandlesOK /\ PagesOK
      BY TypeParts DEF IInv
    <3>2. CountersOK' /\ ControlOK' /\ HandlesOK' /\ PagesOK'
      BY <3>1, StepCounters, StepControl, StepHandles, StepPages
    <3> QED
      BY <3>2 DEF TypeOK, CountersOK, ControlOK, HandlesOK, PagesOK
  <2>2. NamelessPages' /\ WayIsFree' /\ Paired'
    BY StepNameless, StepWay, StepPaired DEF IInv
  <2> QED
    BY <2>1, <2>2 DEF IInv
<1> QED
  BY InitIInv, <1>1, PTL DEF Spec

(* Every step of opening and destroying keeps to the declared states: in   *)
(* particular a process has a page of its own exactly between its          *)
(* shm_open() and its loss of the HybridLock.                              *)
THEOREM TypeCorrect == Spec => []TypeOK
<1>1. IInv => TypeOK
  BY DEF IInv
<1> QED
  BY Invariant, <1>1, PTL

(* shm_unlink() before the byte is written is enough, whoever dies and     *)
(* however the constructors and destructions interleave: a page that has   *)
(* the name is not marked DESTROYED.                                       *)
THEOREM NeverDestroyed == Spec => []NameIsNeverDestroyed
<1>1. IInv => NameIsNeverDestroyed
  BY DEF IInv, NamelessPages
<1> QED
  BY Invariant, <1>1, PTL

(* The "Shouldn't get here!" of CREATE_NEW_OVERWRITE is reached only after *)
(* a failed call or another process's creation.                            *)
THEOREM MakesWay == Spec => []OverwriteMakesWay
<1>1. IInv => OverwriteMakesWay
  BY DEF IInv, WayIsFree
<1> QED
  BY Invariant, <1>1, PTL

(* Without interference between the two halves of an opening or a          *)
(* destruction, the locks that share a page share the semaphore.           *)
THEOREM PagePaired == Spec => []PageMeansSemaphore
<1>1. IInv => PageMeansSemaphore
  <2> SUFFICES ASSUME IInv, ~torn, NEW p \in Proc, NEW q \in Proc,
                      Has(p), Has(q), page[p] = page[q]
               PROVE  sem[p] = sem[q]
    BY DEF PageMeansSemaphore
  <2>1. page[p] = None <=> pc[p] \in FindPC \cup {"idle"}
    BY DEF IInv, TypeOK
  <2>2. page[p] # None
    BY <2>1 DEF Has, FindPC
  <2> QED
    BY <2>2 DEF IInv, Paired, PageAgrees, Has
<1> QED
  BY Invariant, <1>1, PTL

(* Without that interference, whoever still has a semaphore that lost its  *)
(* name finds the byte DESTROYED, or destroy() is about to write it.       *)
THEOREM ReachesAll == Spec => []DestructionReachesAll
<1>1. IInv => DestructionReachesAll
  BY DEF IInv, DestructionReachesAll, Paired, AllTold, BeingTold, Has
<1> QED
  BY Invariant, <1>1, PTL

=============================================================================
