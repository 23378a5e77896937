---------------------------- MODULE SHMChannel ----------------------------
(* The connection of one client to the servers of a service                *)
(* (shared_memory/SHMClient.py, SHMServer.py, SHMResourceManager.py): a    *)
(* memory map that carries one request or reply at a time behind a status  *)
(* byte, and one lock.  The client keeps the lock while it is idle; giving *)
(* it up lets one of the workers, a thread per server process, in.  Either *)
(* side replaces the map by a larger one when a message does not fit, and  *)
(* the others find that out from the INVALID they see in the old one.      *)
(*                                                                         *)
(* lock() is sem_wait and the write of the pid word, unlock() one step     *)
(* (that of HybridLock has more); unlock() does not ask who calls it, and  *)
(* raises SystemError when nobody has the lock, as it returns the -1 it    *)
(* declares for exceptions.  The manager of the service takes the lock     *)
(* before it kills a server, and first frees it by force if it was told    *)
(* that nobody, or a dead process, has it.                                 *)
EXTENDS Naturals, Sequences

CONSTANTS
    Client, Worker,         \* the client's thread; one thread per server
    Manager,                \* a thread of the MultiProcessManager
    Nobody,                 \* the owner of the free lock
    Late,                   \* workers that connect while the client is active
    Mortal,                 \* workers whose process may be killed
    MaxKills,               \* bound: how often that happens
    Request, NoRequest,     \* what the client asks for
    NoReply,
    RequestSize, ReplySize, \* the lengths of encoded requests and replies
    MapSize, PageSize       \* the lengths of maps: PageSize, twice that, ...

ASSUME ChannelAssumption ==
    /\ Client \notin Worker /\ Manager \notin Worker \cup {Client}
    /\ Nobody \notin Worker \cup {Client, Manager}
    /\ Late \subseteq Worker
    /\ Mortal \subseteq Worker
    /\ MaxKills \in Nat
    /\ NoRequest \notin Request
    /\ NoReply \notin [to : Request, kind : {"+", "-"}]
    /\ RequestSize \subseteq Nat /\ ReplySize \subseteq Nat
    /\ MapSize \subseteq Nat
    /\ PageSize \in MapSize /\ PageSize > 2
    \* There is memory for a map for every message.
    /\ \A n \in RequestSize \cup ReplySize :
         \E s \in MapSize : s >= 2 * n /\ (s = PageSize \/ s < 4 * n)

Party == Worker \cup {Client}
Holder == Party \cup {Manager}

VARIABLES
    owner,    \* who has the lock
    maps,     \* every memory map made for this connection, oldest first
    name,     \* the map its name leads to, 0 when it leads to none
    handle,   \* the map each party has open, 0 when it has none
    pc,       \* where each party is in the code
    saved,    \* status and length of the map a party is replacing
    out,      \* the message a party is about to write
    retried,  \* num_times > 0 in SHMClient._send
    call,     \* the request of the client's call in progress
    outcome,  \* history: what the last run of the method for it produced
    answer,   \* what the client's last finished call returned
    astray,   \* history: the client has ever gone on without the lock
    pid,      \* the pid word of the lock, Nobody for 0
    locking,  \* who is in lock(), past sem_wait, and has yet to write it
    spare,    \* by how much the semaphore is over 1
    mgr,      \* where the manager is in remove_child_process()
    seen,     \* who has the lock, as get_pid_holding_lock() told it; then
              \* only who was found to be dead
    robbed,   \* history: it has freed the lock of somebody alive, or twice
    kills     \* number of workers killed so far

callVars == <<call, outcome, answer, astray>>
manager == <<mgr, seen, robbed>>
faults == <<pid, locking, spare, manager, kills>>
vars == <<owner, maps, name, handle, pc, saved, out, retried, call, outcome,
          answer, astray, faults>>

Reply == [to : Request, kind : {"+", "-"}]

\* What a map contains, or a party writes: nothing, a request or a reply.
Empty == [is |-> "empty"]
RequestMsg(r, n) == [is |-> "request", what |-> r, size |-> n]
ReplyMsg(r, n) == [is |-> "reply", what |-> r, size |-> n]

Status == {"CLIENT", "SERVER", "INVALID"}

ClientPC == {"connect", "idle", "release", "lock", "read", "broken"}
WorkerPC == {"start", "poll", "load", "leave", "fail", "gone", "killed"}
BothPC   == {"invalidate", "unlink", "create", "stamp", "restore", "write",
             "flag", "check", "reconnect"}

Message ==
    {Empty}
    \cup {RequestMsg(r, n) : r \in Request, n \in RequestSize}
    \cup {ReplyMsg(r, n) : r \in Reply \cup {NoReply}, n \in ReplySize}

TypeOK ==
    /\ owner \in Holder \cup {Nobody}
    /\ maps \in Seq([status : Status, body : Message, size : MapSize])
    /\ name \in 0..Len(maps)
    /\ handle \in [Party -> 0..Len(maps)]
    /\ pc \in [Party -> ClientPC \cup WorkerPC \cup BothPC]
    /\ saved \in [Party -> [status : Status, size : MapSize]]
    /\ out \in [Party -> Message]
    /\ retried \in BOOLEAN
    /\ call \in Request \cup {NoRequest}
    /\ outcome \in Reply \cup {NoReply}
    /\ answer \in Reply \cup {NoReply}
    /\ astray \in BOOLEAN
    /\ pid \in Holder \cup {Nobody}
    /\ locking \in SUBSET Holder
    /\ spare \in Nat
    /\ mgr \in {"rest", "judge", "post", "lock", "hold", "back"}
    /\ seen \in Holder \cup {Nobody}
    /\ robbed \in BOOLEAN
    /\ kills \in 0..MaxKills

(* create_resources() has run: a first map, a new lock, and the connection *)
(* is registered, so that servers may connect to it.  The client has yet   *)
(* to take the lock.                                                       *)
Init ==
    /\ owner = Nobody
    /\ maps = <<[status |-> "CLIENT", body |-> Empty, size |-> PageSize]>>
    /\ name = 1
    /\ handle = [p \in Party |-> IF p \in Late THEN 0 ELSE 1]
    /\ pc = [p \in Party |-> IF p = Client THEN "connect"
                             ELSE IF p \in Late THEN "start" ELSE "poll"]
    /\ saved = [p \in Party |-> [status |-> "CLIENT", size |-> PageSize]]
    /\ out = [p \in Party |-> Empty]
    /\ retried = FALSE
    /\ call = NoRequest
    /\ outcome = NoReply
    /\ answer = NoReply
    /\ astray = FALSE
    /\ pid = Nobody
    /\ locking = {}
    /\ spare = 0
    /\ mgr = "rest"
    /\ seen = Nobody
    /\ robbed = FALSE
    /\ kills = 0

-----------------------------------------------------------------------------
Goto(p, l) == pc' = [pc EXCEPT ![p] = l]

\* The map p has open, and a write of its status byte or of its contents.
Open(p) == maps[handle[p]]
SetStatus(p, s) == maps' = [maps EXCEPT ![handle[p]].status = s]
SetBody(p, m) == maps' = [maps EXCEPT ![handle[p]].body = m]

\* sem_wait, which leaves a second permit to others if there is one.
Lock(p) ==
    /\ owner = Nobody
    /\ IF spare = 0 THEN owner' = p /\ UNCHANGED spare
                    ELSE spare' = spare - 1 /\ UNCHANGED owner
    /\ locking' = locking \cup {p}

\* lock() has returned to p.
Locked(p) == p \notin locking

\* unlock() posts, or raises.
Unlock == owner # Nobody /\ owner' = Nobody
UnlockRaises == owner = Nobody /\ UNCHANGED owner

\* len(encoded) < len(mmap) - 1, or else the map is replaced.
Fits(n, p) == n < Open(p).size - 1

\* Where an exception leaves the client (self.mmap is closed) and a worker.
Failed(p) == IF p = Client THEN "broken" ELSE "fail"

-----------------------------------------------------------------------------
\* Variant: the old map keeps its status.
InvalidateNot(p) ==
    /\ pc[p] = "invalidate"
    /\ saved' = [saved EXCEPT ![p] = [status |-> Open(p).status,
                                      size |-> Open(p).size]]
    /\ handle' = [handle EXCEPT ![p] = 0]
    /\ Goto(p, "unlink")
    /\ UNCHANGED <<owner, maps, name, out, retried, callVars, faults>>

(* __resize_mmap, the same code on both sides: mark the old map INVALID    *)
(* and close it, then get_mmap(create=True): unlink the name, allocate a   *)
(* map of zeros (status INVALID) of the first size that is large enough;   *)
(* create_pid_mmap stamps it CLIENT; then the old status is put back.      *)
Invalidate(p) ==
    /\ pc[p] = "invalidate"
    /\ saved' = [saved EXCEPT ![p] = [status |-> Open(p).status,
                                      size |-> Open(p).size]]
    /\ SetStatus(p, "INVALID")
    /\ handle' = [handle EXCEPT ![p] = 0]
    /\ Goto(p, "unlink")
    /\ UNCHANGED <<owner, name, out, retried, callVars, faults>>

UnlinkOld(p) ==
    /\ pc[p] = "unlink"
    /\ name' = 0
    /\ Goto(p, "create")
    /\ UNCHANGED <<owner, maps, handle, saved, out, retried, callVars, faults>>

\* Variant: min_size = n.
SizeForOnce(s, n) == s >= n /\ (s = PageSize \/ s < 2 * n)

\* chk_size: doubled from the page size until it holds min_size = 2 * n.
SizeFor(s, n) == s >= 2 * n /\ (s = PageSize \/ s < 4 * n)

Create(p) ==
    /\ pc[p] = "create"
    /\ IF name = 0
       THEN /\ \E s \in MapSize :
                 /\ SizeFor(s, out[p].size)
                 /\ maps' = Append(maps, [status |-> "INVALID",
                                          body |-> Empty, size |-> s])
            /\ name' = Len(maps) + 1
            /\ handle' = [handle EXCEPT ![p] = Len(maps) + 1]
            /\ Goto(p, "stamp")
       ELSE /\ Goto(p, Failed(p))     \* O_CREX: FileExistsError
            /\ UNCHANGED <<maps, name, handle>>
    /\ UNCHANGED <<owner, saved, out, retried, callVars, faults>>

\* create_pid_mmap, then assert len(mmap) > old_mmap_len.
Stamp(p) ==
    /\ pc[p] = "stamp"
    /\ SetStatus(p, "CLIENT")
    /\ Goto(p, IF Open(p).size > saved[p].size THEN "restore" ELSE Failed(p))
    /\ UNCHANGED <<owner, name, handle, saved, out, retried, callVars, faults>>

\* assert mmap[0] != INVALID
Restore(p) ==
    /\ pc[p] = "restore"
    /\ SetStatus(p, saved[p].status)
    /\ Goto(p, IF saved[p].status # "INVALID" THEN "write" ELSE Failed(p))
    /\ UNCHANGED <<owner, name, handle, saved, out, retried, callVars, faults>>

Resize(p) ==
    Invalidate(p) \/ UnlinkOld(p) \/ Create(p) \/ Stamp(p) \/ Restore(p)

\* Variant: maps are numbered from 0 on one side and from 1 on the other.
ReconnectOff(p) ==
    /\ pc[p] = "reconnect"
    /\ handle' = [handle EXCEPT ![p] = Len(maps) + 1]
    /\ Goto(p, "check")
    /\ retried' = IF p = Client THEN TRUE ELSE retried
    /\ UNCHANGED <<owner, maps, name, saved, out, callVars, faults>>

(* __reconnect_to_mmap: FileNotFoundError when the name leads nowhere, an  *)
(* AssertionError when the map it leads to is not larger than the old one. *)
Reconnect(p) ==
    /\ pc[p] = "reconnect"
    /\ IF name # 0 /\ maps[name].size > Open(p).size
       THEN /\ handle' = [handle EXCEPT ![p] = name]
            /\ Goto(p, "check")
            /\ retried' = IF p = Client THEN TRUE ELSE retried
       ELSE /\ handle' = [handle EXCEPT ![p] = 0]
            /\ Goto(p, Failed(p))
            /\ UNCHANGED retried
    /\ UNCHANGED <<owner, maps, name, saved, out, callVars, faults>>

\* Variant: handle_command keeps using the map that __resize_mmap closed.
WriteToOldMap(p) ==
    /\ pc[p] = "write"
    /\ IF p \in Worker /\ saved[p].size < Open(p).size
       THEN maps' = [maps EXCEPT ![handle[p] - 1].body = out[p]]
       ELSE SetBody(p, out[p])
    /\ Goto(p, "flag")
    /\ UNCHANGED <<owner, name, handle, saved, out, retried, callVars, faults>>

\* mmap[1:1+len] = encoded, then mmap[0] = SERVER / CLIENT.
Write(p) ==
    /\ pc[p] = "write"
    /\ SetBody(p, out[p])
    /\ Goto(p, "flag")
    /\ UNCHANGED <<owner, name, handle, saved, out, retried, callVars, faults>>

\* Variant: the lock is released before the status byte is written.
FlagNever(p) ==
    /\ pc[p] = "flag"
    /\ Goto(p, IF p = Client THEN "release" ELSE "leave")
    /\ UNCHANGED <<owner, maps, name, handle, saved, out, retried, callVars,
                   faults>>

\* Variant: the worker leaves SERVER in the map.
FlagClientOnly(p) ==
    /\ pc[p] = "flag"
    /\ SetStatus(p, "SERVER")
    /\ Goto(p, IF p = Client THEN "release" ELSE "leave")
    /\ UNCHANGED <<owner, name, handle, saved, out, retried, callVars, faults>>

Flag(p) ==
    /\ pc[p] = "flag"
    /\ SetStatus(p, IF p = Client THEN "SERVER" ELSE "CLIENT")
    /\ Goto(p, IF p = Client THEN "release" ELSE "leave")
    /\ UNCHANGED <<owner, name, handle, saved, out, retried, callVars, faults>>

-----------------------------------------------------------------------------
\* The end of lock(): the pid word.
Record(p) ==
    /\ p \in locking
    /\ pid' = p
    /\ locking' = locking \ {p}
    /\ UNCHANGED <<owner, maps, name, handle, pc, saved, out, retried,
                   callVars, spare, manager, kills>>

(* SHMClient.  The last line of __init__ takes the lock.                   *)
ClientConnect ==
    /\ pc[Client] = "connect"
    /\ Lock(Client)
    /\ Goto(Client, "idle")
    /\ UNCHANGED <<maps, name, handle, saved, out, retried, callVars, pid,
                   manager, kills>>

(* _send, up to the choice of the map.  It raises, and changes nothing,    *)
(* when the status is SERVER.                                              *)
Call(r, n) ==
    /\ pc[Client] = "idle" /\ Locked(Client)
    /\ Open(Client).status # "SERVER"
    /\ call' = r
    /\ outcome' = NoReply
    /\ answer' = NoReply
    /\ retried' = FALSE
    /\ out' = [out EXCEPT ![Client] = RequestMsg(r, n)]
    /\ Goto(Client, IF Fits(n, Client) THEN "write" ELSE "invalidate")
    /\ UNCHANGED <<owner, maps, name, handle, saved, astray, faults>>

\* Let the workers in, or raise.
ClientRelease ==
    /\ pc[Client] = "release"
    /\ \/ /\ Unlock
          /\ Goto(Client, "lock")
          /\ UNCHANGED call
       \/ /\ UnlockRaises
          /\ Goto(Client, "idle")
          /\ call' = NoRequest
    /\ UNCHANGED <<maps, name, handle, saved, out, retried, outcome, answer,
                   astray, faults>>

ClientLock ==
    /\ pc[Client] = "lock"
    /\ Lock(Client)
    /\ Goto(Client, "check")
    /\ UNCHANGED <<maps, name, handle, saved, out, retried, callVars, pid,
                   manager, kills>>

\* Variant: num_times is incremented by every turn of the loop.
ClientCheckNoRelock ==
    /\ pc[Client] = "check" /\ Locked(Client)
    /\ \/ /\ Open(Client).status = "CLIENT"
          /\ Goto(Client, "read")
          /\ UNCHANGED owner
       \/ /\ Open(Client).status = "INVALID"
          /\ Goto(Client, "reconnect")
          /\ UNCHANGED owner
       \/ /\ Open(Client).status = "SERVER"
          /\ owner' = Nobody
          /\ Goto(Client, "check")
    /\ UNCHANGED <<maps, name, handle, saved, out, retried, callVars, faults>>

(* The lock is only taken again while num_times is 0: after a reconnection *)
(* the loop goes on with whatever lock it has.                             *)
ClientCheck ==
    /\ pc[Client] = "check" /\ Locked(Client)
    /\ \/ /\ Open(Client).status = "CLIENT"
          /\ Goto(Client, "read")
          /\ UNCHANGED <<owner, astray, call>>
       \/ /\ Open(Client).status = "INVALID"
          /\ Goto(Client, "reconnect")
          /\ UNCHANGED <<owner, astray, call>>
       \/ /\ Open(Client).status = "SERVER"
          /\ Unlock
          /\ Goto(Client, IF retried THEN "check" ELSE "lock")
          /\ astray' = (astray \/ retried)
          /\ UNCHANGED call
       \/ /\ Open(Client).status = "SERVER"
          /\ UnlockRaises
          /\ Goto(Client, "idle")
          /\ call' = NoRequest
          /\ UNCHANGED astray
    /\ UNCHANGED <<maps, name, handle, saved, out, retried, outcome, answer,
                   faults>>

(* The reply is decoded and returned or raised; anything that is not a     *)
(* reply raises "Unknown status response".                                 *)
ClientRead ==
    /\ pc[Client] = "read"
    /\ LET m == Open(Client).body IN
         answer' = IF m.is = "reply" THEN m.what ELSE NoReply
    /\ call' = NoRequest
    /\ Goto(Client, "idle")
    /\ UNCHANGED <<owner, maps, name, handle, saved, out, retried, outcome,
                   astray, faults>>

-----------------------------------------------------------------------------
(* SHMServer.  worker_thread_fn opens the map and the lock by name without *)
(* holding the lock, and returns for good when there is no map.            *)
WorkerOpen(w) ==
    /\ pc[w] = "start"
    /\ IF name # 0
       THEN /\ handle' = [handle EXCEPT ![w] = name]
            /\ Goto(w, "poll")
       ELSE /\ Goto(w, "gone")
            /\ UNCHANGED handle
    /\ UNCHANGED <<owner, maps, name, saved, out, retried, callVars, faults>>

\* Variant: the time-out of lock() is not noticed.
WorkerLockTimedOut(w) ==
    /\ pc[w] = "poll"
    /\ Goto(w, "check")
    /\ IF owner = Nobody THEN Lock(w) ELSE UNCHANGED <<owner, spare, locking>>
    /\ UNCHANGED <<maps, name, handle, saved, out, retried, callVars, pid,
                   manager, kills>>

\* handle_command; lock(timeout=4) that times out is tried again.
WorkerLock(w) ==
    /\ pc[w] = "poll"
    /\ Lock(w)
    /\ Goto(w, "check")
    /\ UNCHANGED <<maps, name, handle, saved, out, retried, callVars, pid,
                   manager, kills>>

WorkerCheck(w) ==
    /\ pc[w] = "check" /\ Locked(w)
    /\ Goto(w, CASE Open(w).status = "CLIENT"  -> "leave"
                 [] Open(w).status = "SERVER"  -> "load"
                 [] Open(w).status = "INVALID" -> "reconnect")
    /\ UNCHANGED <<owner, maps, name, handle, saved, out, retried, callVars,
                   faults>>

(* Decode the request, run the method and encode what it returned or       *)
(* raised.  What is not a request names no method (an exception for the    *)
(* client) or cannot be decoded (the end of the thread).                   *)
RunMethod(w) ==
    /\ pc[w] = "load"
    /\ LET m == Open(w).body IN
         \/ /\ m.is = "request"
            /\ \E k \in {"+", "-"}, n \in ReplySize :
                 /\ out' = [out EXCEPT
                              ![w] = ReplyMsg([to |-> m.what, kind |-> k], n)]
                 /\ outcome' = [to |-> m.what, kind |-> k]
                 /\ Goto(w, IF Fits(n, w) THEN "write" ELSE "invalidate")
         \/ /\ m.is # "request"
            /\ \E n \in ReplySize :
                 /\ out' = [out EXCEPT ![w] = ReplyMsg(NoReply, n)]
                 /\ Goto(w, IF Fits(n, w) THEN "write" ELSE "invalidate")
            /\ UNCHANGED outcome
         \/ /\ m.is = "reply"
            /\ Goto(w, "fail")
            /\ UNCHANGED <<out, outcome>>
    /\ UNCHANGED <<owner, maps, name, handle, saved, retried, call, answer,
                   astray, faults>>

(* finally: lock.unlock(), after a reply or nothing to do, or an           *)
(* exception.  If that raises, it is the end of the thread as well.        *)
WorkerLeave(w) ==
    /\ pc[w] \in {"leave", "fail"}
    /\ \/ Unlock /\ Goto(w, IF pc[w] = "leave" THEN "poll" ELSE "gone")
       \/ UnlockRaises /\ Goto(w, "gone")
    /\ UNCHANGED <<maps, name, handle, saved, out, retried, callVars, faults>>

-----------------------------------------------------------------------------
(* A server process is killed (kill_pid_and_children), whatever its worker *)
(* is doing; the lock stays as it is.                                      *)
Kill(w) ==
    /\ w \in Mortal
    /\ kills < MaxKills
    /\ pc[w] # "killed"
    /\ kills' = kills + 1
    /\ Goto(w, "killed")
    /\ locking' = locking \ {w}
    /\ UNCHANGED <<owner, maps, name, handle, saved, out, retried, callVars,
                   pid, spare, manager>>

(* The manager forks a new server, which connects.  (It goes by the name   *)
(* of the dead one, so the model waits until the lock is freed.)           *)
Respawn(w) ==
    /\ pc[w] = "killed"
    /\ owner # w
    /\ mgr = "rest"
    /\ Goto(w, "start")
    /\ handle' = [handle EXCEPT ![w] = 0]
    /\ pid' = IF pid = w THEN Nobody ELSE pid
    /\ UNCHANGED <<owner, maps, name, saved, out, retried, callVars, locking,
                   spare, manager, kills>>

-----------------------------------------------------------------------------
Dead(p) == p \in Worker /\ pc[p] = "killed"

\* The lock is taken, and whoever took it is dead.
LeftBehind == Dead(owner)

connection == <<maps, name, handle, pc, saved, out, retried, callVars, kills>>

(* MultiProcessManager.remove_child_process, run for a server that is dead *)
(* or not needed: __lock_locks asks who has the lock (the word is read     *)
(* when the semaphore is taken; it may be that of an earlier holder) ...   *)
ManagerLook ==
    /\ mgr = "rest"
    /\ \E w \in Mortal : pc[w] = "killed" \/ kills < MaxKills
    /\ seen' = IF owner = Nobody THEN Nobody ELSE pid
    /\ mgr' = "judge"
    /\ UNCHANGED <<connection, owner, pid, locking, spare, robbed>>

\* Variant: the lock is never freed by force.
ManagerTrusts ==
    /\ mgr = "judge"
    /\ mgr' = "lock"
    /\ seen' = IF Dead(seen) THEN seen ELSE Nobody
    /\ UNCHANGED <<connection, owner, pid, locking, spare, robbed>>

(* ... and if that process does not exist (there is no process 0) calls    *)
(* unlock(), whose exceptions it ignores: the value is looked at ...       *)
ManagerJudge ==
    /\ mgr = "judge"
    /\ mgr' = IF (seen = Nobody \/ Dead(seen)) /\ owner # Nobody
              THEN "post" ELSE "lock"
    /\ seen' = IF Dead(seen) THEN seen ELSE Nobody
    /\ UNCHANGED <<connection, owner, pid, locking, spare, robbed>>

\* ... and then posted to.
ManagerPost ==
    /\ mgr \in {"post", "back"}
    /\ IF owner = Nobody THEN spare' = spare + 1 /\ UNCHANGED owner
                         ELSE owner' = Nobody /\ UNCHANGED spare
    /\ robbed' = (robbed \/ ~(owner = Manager \/ LeftBehind))
    /\ mgr' = IF mgr = "post" THEN "lock" ELSE "rest"
    /\ UNCHANGED <<connection, pid, locking, seen>>

ManagerLock ==
    /\ mgr = "lock"
    /\ Lock(Manager)
    /\ mgr' = "hold"
    /\ seen' = Nobody
    /\ UNCHANGED <<connection, pid, robbed>>

\* Exceptions of lock() are ignored too.
ManagerLockFails ==
    /\ mgr = "lock"
    /\ mgr' = "hold"
    /\ seen' = Nobody
    /\ UNCHANGED <<connection, owner, pid, locking, spare, robbed>>

\* Whatever __lock_locks has got, __unlock_locks calls unlock().
ManagerUnlock ==
    /\ mgr = "hold" /\ Locked(Manager)
    /\ mgr' = IF owner # Nobody THEN "back" ELSE "rest"
    /\ UNCHANGED <<connection, owner, pid, locking, spare, seen, robbed>>

-----------------------------------------------------------------------------
ClientStep ==
    \/ ClientConnect \/ ClientRelease \/ ClientLock \/ ClientCheck
    \/ ClientRead \/ Resize(Client) \/ Reconnect(Client) \/ Write(Client)
    \/ Flag(Client) \/ Record(Client)

WorkerStep(w) ==
    \/ WorkerOpen(w) \/ WorkerLock(w) \/ WorkerCheck(w) \/ RunMethod(w)
    \/ WorkerLeave(w) \/ Resize(w) \/ Reconnect(w) \/ Write(w) \/ Flag(w)
    \/ Record(w)

ManagerStep ==
    \/ ManagerLook \/ ManagerJudge \/ ManagerPost \/ ManagerLock
    \/ ManagerLockFails \/ ManagerUnlock \/ Record(Manager)

Next ==
    \/ \E r \in Request, n \in RequestSize : Call(r, n)
    \/ ClientStep
    \/ \E w \in Worker : WorkerStep(w)
    \/ \E w \in Worker : Kill(w) \/ Respawn(w)
    \/ ManagerStep

Spec == Init /\ [][Next]_vars

(* Processes go on running.  A worker blocked in sem_timedwait, and the    *)
(* client in sem_wait, get the lock if it is released again and again      *)
(* while they wait; the client makes calls when it likes.                  *)
FairSpec ==
    /\ Spec
    /\ WF_vars(ClientStep) /\ SF_vars(ClientLock)
    /\ \A w \in Worker : WF_vars(WorkerStep(w)) /\ SF_vars(WorkerLock(w))

(* The manager's monitor removes servers that are dead, forks others, and  *)
(* gets the lock like a client.                                            *)
FairManagedSpec ==
    /\ FairSpec
    /\ \A w \in Mortal : SF_vars(Respawn(w))
    /\ WF_vars(LeftBehind /\ ManagerLook)
    /\ WF_vars(ManagerJudge \/ ManagerPost \/ ManagerUnlock \/ Record(Manager))
    /\ SF_vars(ManagerLock)

-----------------------------------------------------------------------------
\* Everything a party does between lock() and unlock().
Critical ==
    BothPC \cup {"idle", "release", "read", "load", "leave", "fail"}

(* The request is written, the reply read and the map replaced "in the     *)
(* critical area" (SHMClient.py:118, 161): by the owner of the lock only.  *)
CriticalArea == \A p \in Party : pc[p] \in Critical => owner = p

(* No message is written to, or read from, a map that the others can no    *)
(* longer find: whoever exchanges a message has the newest map open.       *)
MessagesUseTheNewestMap ==
    \A p \in Party :
        pc[p] \in {"write", "flag", "load", "read"} =>
            handle[p] = name /\ name = Len(maps)

(* Every map but the newest says INVALID and is smaller than its           *)
(* successor, so a party that has missed replacements finds that out, and  *)
(* no assertion about lengths fails when it reconnects.                    *)
OldMapsAreInvalid ==
    \A g \in 1..Len(maps) - 1 :
        maps[g].status = "INVALID" /\ maps[g].size < maps[g + 1].size

(* From the time the client lets the workers in until the method has run,  *)
(* its request is in the map its name leads to, marked SERVER: a larger    *)
(* map never swallows it.                                                  *)
RequestStaysPosted ==
    pc[Client] = "lock" /\ outcome = NoReply =>
        /\ name # 0
        /\ maps[name].status = "SERVER"
        /\ maps[name].body.is = "request"
        /\ maps[name].body.what = call

(* No FileNotFoundError, FileExistsError or AssertionError: a connection   *)
(* that is up stays up, on both sides.                                     *)
ConnectionSurvives ==
    /\ pc[Client] # "broken"
    /\ \A w \in Worker : pc[w] # "fail"

\* The method runs once per call, and its result is the one returned.
Abstract == INSTANCE RpcCall

ImplementsRpcCall == Abstract!Spec

(* Every call returns, however the client and the workers race for the     *)
(* lock.                                                                   *)
CallReturns == call # NoRequest ~> call = NoRequest

-----------------------------------------------------------------------------
(* With servers killed at any moment and the lock freed by force: a result *)
(* that is returned is that of the last run of the method for this very    *)
(* call, never of another call or of a run that was cut short.  This ends  *)
(* when the lock is lost in one of two ways.  The client goes on without   *)
(* it (astray), as SHMClient._send does when a server is killed between    *)
(* the creation of a larger map and the reply's status byte; or the        *)
(* manager frees it although its holder is alive, or a second time         *)
(* (robbed), since its look was stale or the pid word not yet written.     *)
AnswerIsLastOutcome ==
    ~astray /\ ~robbed /\ answer # NoReply => answer = outcome

(* The manager waits for a lock whose holder it was not told to be dead:   *)
(* it died after the look, or before it had written its pid over that of   *)
(* somebody alive.                                                         *)
ManagerHangs == mgr = "lock" /\ LeftBehind /\ owner # seen

(* With servers killed at any moment and replaced: a call still ends, with *)
(* a result or an exception, unless the thread of every server has ended   *)
(* in an exception of its own (a half-written reply taken for a request),  *)
(* the lock is lost, or nobody can recover it.                             *)
CallEnds ==
    call # NoRequest ~>
        \/ call = NoRequest
        \/ pc[Client] = "broken"
        \/ \A w \in Worker : pc[w] = "gone"
        \/ astray \/ robbed \/ ManagerHangs

(* "While the clients still exist, their locks/shm resources will still be *)
(* there, so as to allow restarting servers and continuing from where they *)
(* left off" (SHMResourceManager.py:310-312): also after a server was      *)
(* killed, and no lock freed but that of a dead process, a call returns    *)
(* the answer to that call, not to an earlier one.                         *)
AnswerIsForThisCall ==
    ~robbed /\ answer # NoReply => answer.to = out[Client].what
=============================================================================
