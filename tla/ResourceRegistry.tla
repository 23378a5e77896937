-------------------------- MODULE ResourceRegistry --------------------------
(* The list of the servers and clients of a service that all its processes *)
(* share (shared_memory/SHMResourceManager.py, ipc/JSONMMapBase.py): a     *)
(* lock and a memory map that holds a length and that many bytes of JSON.  *)
(* A process has one manager, with one lock_acquired flag, for all of its  *)
(* threads.                                                                *)
(*                                                                         *)
(* lock() is sem_wait and the write of the pid word.  unlock() does not    *)
(* ask who calls it, and does nothing when the lock is free; that of a     *)
(* process that starts is two steps, as what it has tested may change      *)
(* before it posts.                                                        *)
EXTENDS Naturals, FiniteSets

CONSTANTS
    Proc,       \* processes
    Thread,     \* their threads
    Home,       \* the process of each thread
    Main,       \* the threads that construct the manager
    Task,       \* the operations each thread performs, in any order
    Nobody,     \* the owner of the free lock
    Zeros,      \* what a new map contains
    Mortal      \* processes that may be killed at any moment

Op == {"addServer", "delServer", "addClient", "check", "reset", "look"}

Lists == [servers : SUBSET Proc, clients : SUBSET Thread]

ASSUME RegistryAssumption ==
    /\ IsFiniteSet(Proc) /\ IsFiniteSet(Thread)
    /\ Home \in [Thread -> Proc]
    /\ Main \subseteq Thread
    /\ \A t, u \in Main : Home[t] = Home[u] => t = u
    /\ Task \in [Thread -> SUBSET Op]
    /\ Nobody \notin Thread \cup Proc /\ Zeros \notin Lists
    /\ Mortal \subseteq Proc

VARIABLES
    owner,      \* the thread that has the lock
    word,       \* the pid word of the lock, Nobody for 0
    spare,      \* by how much the semaphore is over 1
    robbed,     \* history: the lock of a live thread, or a free one, was
                \* unlocked by a process that started
    length,     \* the length in the map
    data,       \* the JSON in the map
    flag,       \* lock_acquired of each process
    up,         \* processes whose manager is constructed
    alive,      \* processes that exist
    doomed,     \* servers that reset_all_server_pids() is killing
    pc, op,     \* where each thread is, and in which operation
    buf,        \* the lists it has decoded, and is about to encode
    seen        \* which process had the lock when it looked

sem == <<owner, spare>>
lock == <<sem, word, robbed>>
local == <<pc, op, buf, seen>>
vars == <<lock, length, data, flag, up, alive, doomed, local>>

EmptyLists == [servers |-> {}, clients |-> {}]

\* The length of encoded lists; that of an empty string is 0.
Size(l) == 1 + Cardinality(l.servers) + Cardinality(l.clients)

\* json.loads() fails on the zeros, and on lists cut short or followed by
\* the rest of longer ones.
Readable == IF data = Zeros THEN FALSE ELSE length = Size(data)

PC == {"unborn", "judge", "post", "failed", "idle", "lock", "sign", "flag",
       "decode", "encode", "data", "unlock", "clear"}

TypeOK ==
    /\ owner \in Thread \cup {Nobody}
    /\ word \in Proc \cup {Nobody}
    /\ spare \in Nat
    /\ robbed \in BOOLEAN
    /\ length \in 0..(1 + Cardinality(Proc) + Cardinality(Thread))
    /\ data = Zeros \/ data \in Lists
    /\ flag \in [Proc -> BOOLEAN]
    /\ up \in SUBSET Proc
    /\ alive \in SUBSET Proc
    /\ doomed \in SUBSET Proc
    /\ pc \in [Thread -> PC]
    /\ op \in [Thread -> Op \cup {"init"}]
    /\ buf \in [Thread -> Lists]
    /\ seen \in [Thread -> Proc \cup {Nobody}]

\* The lock and the map were just created.
Init ==
    /\ owner = Nobody
    /\ word = Nobody
    /\ spare = 0
    /\ robbed = FALSE
    /\ length = 0
    /\ data = Zeros
    /\ flag = [p \in Proc |-> FALSE]
    /\ up = {}
    /\ alive = Proc
    /\ doomed = {}
    /\ pc = [t \in Thread |-> IF t \in Main THEN "unborn" ELSE "idle"]
    /\ op = [t \in Thread |-> "look"]
    /\ buf = [t \in Thread |-> EmptyLists]
    /\ seen = [t \in Thread |-> Nobody]

-----------------------------------------------------------------------------
\* t exists and is about to execute the step labelled l.
At(t, l) == Home[t] \in alive /\ pc[t] = l

Goto(t, l) == pc' = [pc EXCEPT ![t] = l]

\* The thread that has the lock is dead.
LeftBehind == owner # Nobody /\ Home[owner] \notin alive

(* The constructor asks who has the lock: nobody, or the process whose pid *)
(* is in the word (0 if none ever was).                                    *)
Look(t) ==
    /\ At(t, "unborn")
    /\ seen' = [seen EXCEPT ![t] = IF owner = Nobody THEN Nobody ELSE word]
    /\ Goto(t, "judge")
    /\ UNCHANGED <<lock, length, data, flag, up, alive, doomed, op, buf>>

(* If the answer is a process that does not exist, or 0, it calls          *)
(* unlock(), which first sees whether the semaphore is taken by now ...    *)
Judge(t) ==
    /\ At(t, "judge")
    /\ Goto(t, IF seen[t] \notin alive /\ owner # Nobody THEN "post" ELSE "lock")
    /\ seen' = [seen EXCEPT ![t] = Nobody]
    /\ op' = [op EXCEPT ![t] = "init"]
    /\ UNCHANGED <<lock, length, data, flag, up, alive, doomed, buf>>

\* ... and then posts, whoever has it now.
Post(t) ==
    /\ At(t, "post")
    /\ IF owner = Nobody THEN spare' = spare + 1 /\ UNCHANGED owner
                         ELSE owner' = Nobody /\ UNCHANGED spare
    /\ robbed' = (robbed \/ ~LeftBehind)
    /\ Goto(t, "lock")
    /\ UNCHANGED <<word, length, data, flag, up, alive, doomed, op, buf, seen>>

\* Variant: the result of lock(timeout=5) is not looked at.
TimeOutIgnored(t) ==
    /\ At(t, "lock")
    /\ op[t] = "init"
    /\ owner # Nobody
    /\ Goto(t, "flag")
    /\ UNCHANGED <<lock, length, data, flag, up, alive, doomed, op, buf, seen>>

\* __init_value() waits for five seconds.
TimeOut(t) ==
    /\ At(t, "lock")
    /\ op[t] = "init"
    /\ owner # Nobody
    /\ Goto(t, "failed")
    /\ UNCHANGED <<lock, length, data, flag, up, alive, doomed, op, buf, seen>>

-----------------------------------------------------------------------------
\* lock_fn
Begin(t, o) ==
    /\ At(t, "idle")
    /\ Home[t] \in up
    /\ o \in Task[t]
    /\ op' = [op EXCEPT ![t] = o]
    /\ Goto(t, "lock")
    /\ UNCHANGED <<lock, length, data, flag, up, alive, doomed, buf, seen>>

\* sem_wait, which leaves a second permit to others if there is one.
Lock(t) ==
    /\ At(t, "lock")
    /\ owner = Nobody
    /\ IF spare = 0 THEN owner' = t /\ UNCHANGED spare
                    ELSE spare' = spare - 1 /\ UNCHANGED owner
    /\ Goto(t, "sign")
    /\ UNCHANGED <<word, robbed, length, data, flag, up, alive, doomed, op, buf,
                   seen>>

\* The end of lock(): the pid word.
Sign(t) ==
    /\ At(t, "sign")
    /\ word' = Home[t]
    /\ Goto(t, "flag")
    /\ UNCHANGED <<sem, robbed, length, data, flag, up, alive, doomed, op, buf,
                   seen>>

SetFlag(t) ==
    /\ At(t, "flag")
    /\ flag' = [flag EXCEPT ![Home[t]] = TRUE]
    /\ Goto(t, "decode")
    /\ UNCHANGED <<lock, length, data, up, alive, doomed, op, buf, seen>>

-----------------------------------------------------------------------------
\* Variant: a client is registered by its pid alone.
ChangedPid(t, l) ==
    CASE op[t] = "addServer" -> [l EXCEPT !.servers = @ \cup {Home[t]}]
      [] op[t] = "delServer" -> [l EXCEPT !.servers = @ \ {Home[t]}]
      [] op[t] = "addClient" -> [l EXCEPT !.clients = @ \cup {Home[t]}]
      [] op[t] \in {"check", "reset"} -> EmptyLists

(* What an operation makes of the lists.  reset_all_server_pids() starts a *)
(* thread to kill each server, and waits until they have started, not      *)
(* until they are done.                                                    *)
Changed(t, l) ==
    CASE op[t] = "addServer" -> [l EXCEPT !.servers = @ \cup {Home[t]}]
      [] op[t] = "delServer" -> [l EXCEPT !.servers = @ \ {Home[t]}]
      [] op[t] = "addClient" -> [l EXCEPT !.clients = @ \cup {t}]
      [] op[t] = "check"     -> [servers |-> l.servers \cap alive,
                                 clients |-> {c \in l.clients :
                                                 Home[c] \in alive}]
      [] op[t] = "reset"     -> [l EXCEPT !.servers = {}]

\* Variant: __init_value lets JSONDecodeError through.
DecodeStrict(t) ==
    /\ At(t, "decode")
    /\ IF flag[Home[t]] /\ Readable /\ op[t] \notin {"look", "init"}
       THEN /\ buf' = [buf EXCEPT ![t] = Changed(t, data)]
            /\ doomed' = IF op[t] = "reset" THEN doomed \cup data.servers
                                            ELSE doomed
            /\ Goto(t, "encode")
       ELSE /\ Goto(t, "unlock")
            /\ UNCHANGED <<buf, doomed>>
    /\ UNCHANGED <<lock, length, data, flag, up, alive, op, seen>>

(* _decode() raises AssertionError when the flag is not set, and           *)
(* JSONDecodeError when the lists cannot be read; __init_value() then      *)
(* writes empty lists.                                                     *)
Decode(t) ==
    /\ At(t, "decode")
    /\ \/ /\ flag[Home[t]] /\ Readable /\ op[t] \notin {"look", "init"}
          /\ buf' = [buf EXCEPT ![t] = Changed(t, data)]
          /\ doomed' = IF op[t] = "reset" THEN doomed \cup data.servers
                                          ELSE doomed
          /\ Goto(t, "encode")
       \/ /\ flag[Home[t]] /\ ~Readable /\ op[t] = "init"
          /\ buf' = [buf EXCEPT ![t] = EmptyLists]
          /\ Goto(t, "encode")
          /\ UNCHANGED doomed
       \/ /\ \/ ~flag[Home[t]]
             \/ Readable /\ op[t] \in {"look", "init"}
             \/ ~Readable /\ op[t] # "init"
          /\ Goto(t, "unlock")
          /\ UNCHANGED <<buf, doomed>>
    /\ UNCHANGED <<lock, length, data, flag, up, alive, op, seen>>

\* _encode() raises AssertionError or writes the length, then the data.
Encode(t) ==
    /\ At(t, "encode")
    /\ length' = IF flag[Home[t]] THEN Size(buf[t]) ELSE length
    /\ Goto(t, IF flag[Home[t]] THEN "data" ELSE "unlock")
    /\ UNCHANGED <<lock, data, flag, up, alive, doomed, op, buf, seen>>

WriteData(t) ==
    /\ At(t, "data")
    /\ data' = buf[t]
    /\ buf' = [buf EXCEPT ![t] = EmptyLists]
    /\ Goto(t, "unlock")
    /\ UNCHANGED <<lock, length, flag, up, alive, doomed, op, seen>>

-----------------------------------------------------------------------------
\* Variant: the lock is only released when lock_acquired is set.
UnlockIfFlag(t) ==
    /\ At(t, "unlock")
    /\ owner' = IF flag[Home[t]] THEN Nobody ELSE owner
    /\ buf' = [buf EXCEPT ![t] = EmptyLists]
    /\ Goto(t, "clear")
    /\ UNCHANGED <<spare, word, robbed, length, data, flag, up, alive, doomed, op,
                   seen>>

\* finally: the lock is released, and after that the flag is cleared.
Unlock(t) ==
    /\ At(t, "unlock")
    /\ owner' = Nobody
    /\ buf' = [buf EXCEPT ![t] = EmptyLists]
    /\ Goto(t, "clear")
    /\ UNCHANGED <<spare, word, robbed, length, data, flag, up, alive, doomed, op,
                   seen>>

Clear(t) ==
    /\ At(t, "clear")
    /\ flag' = [flag EXCEPT ![Home[t]] = FALSE]
    /\ up' = IF op[t] = "init" THEN up \cup {Home[t]} ELSE up
    /\ op' = [op EXCEPT ![t] = "look"]
    /\ Goto(t, "idle")
    /\ UNCHANGED <<lock, length, data, alive, doomed, buf, seen>>

-----------------------------------------------------------------------------
Kill(p) ==
    /\ p \in alive \cap (Mortal \cup doomed)
    /\ alive' = alive \ {p}
    /\ doomed' = doomed \ {p}
    /\ UNCHANGED <<lock, length, data, flag, up, local>>

Step(t) ==
    \/ Look(t) \/ Judge(t) \/ Post(t) \/ TimeOut(t) \/ Lock(t) \/ Sign(t)
    \/ SetFlag(t) \/ Decode(t) \/ Encode(t) \/ WriteData(t) \/ Unlock(t) \/ Clear(t)

Next ==
    \/ \E t \in Thread, o \in Op : Begin(t, o)
    \/ \E t \in Thread : Step(t)
    \/ \E p \in Proc : Kill(p)

Spec == Init /\ [][Next]_vars

(* Threads go on running, and one that waits for the lock gets it if it is *)
(* released again and again.  Nobody has to start or to begin anything.    *)
FairSpec ==
    /\ Spec
    /\ \A t \in Thread :
        /\ SF_vars(Lock(t))
        /\ WF_vars(Judge(t) \/ Post(t) \/ Sign(t) \/ SetFlag(t) \/ Decode(t)
                   \/ Encode(t) \/ WriteData(t) \/ Unlock(t) \/ Clear(t))

-----------------------------------------------------------------------------
(* The lists as operations see them.  A live writer that is about to write *)
(* the data has not changed them yet.                                      *)
Unreadable ==
    /\ ~Readable
    /\ ~\E t \in Thread : At(t, "data") /\ op[t] # "init"

Abstract == INSTANCE Registry WITH
    Server <- Proc,
    Connection <- Thread,
    servers <- IF data = Zeros THEN {} ELSE data.servers,
    clients <- IF data = Zeros THEN {} ELSE data.clients,
    unreadable <- Unreadable,
    broken <- robbed

(* No update is lost and none is half done, whichever threads of whichever *)
(* processes run into each other, die, start, and free the locks of dead   *)
(* ones, and whatever exceptions that causes: the two writes under the     *)
(* lock are one operation of the abstract list.  This ends when a process  *)
(* that starts unlocks for somebody who is alive, or a second time, since  *)
(* its look was stale or the pid not yet written (SHMResourceManager.py:   *)
(* 101-109).                                                               *)
ImplementsRegistry == Abstract!Spec

(* An operation that waits for the lock ends, unless its process dies, a   *)
(* dead process has the lock, or the lock was broken.                      *)
OperationEnds ==
    \A t \in Thread :
        pc[t] = "lock" ~>
            \/ pc[t] \in {"idle", "failed"} \/ Home[t] \notin alive
            \/ LeftBehind \/ robbed

(* What a process that died left behind, a taken lock or half of a write,  *)
(* is repaired: a process that starts frees the lock if it was told that   *)
(* the holder is dead (it is told otherwise if the holder died before it   *)
(* had written its pid over that of a live process); and once its manager  *)
(* is constructed the lists can be read (a live writer may be between its  *)
(* two writes, or another one may have died over them).                    *)
StartRepairs ==
    \A t \in Main :
        /\ pc[t] = "judge" /\ LeftBehind /\ seen[t] \notin alive ~>
             ~LeftBehind \/ Home[t] \notin alive \/ robbed
        /\ pc[t] = "judge" ~>
             \/ /\ Home[t] \in up
                /\ Readable \/ LeftBehind \/ \E u \in Thread : At(u, "data")
             \/ Home[t] \notin alive
             \/ pc[t] = "failed"
             \/ LeftBehind
             \/ robbed

-----------------------------------------------------------------------------
(* "assert self.lock_acquired" (JSONMMapBase.py:30, 37): the flag is set   *)
(* for whoever is about to decode or encode.                               *)
LockAcquired ==
    \A t \in Thread : At(t, "decode") \/ At(t, "encode") => flag[Home[t]]
=============================================================================
