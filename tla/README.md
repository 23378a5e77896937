# A TLA+ development of shmrpc (speedysvc)

speedysvc lets Python processes call the methods of a *service*. A service is a
set of server processes kept alive by a manager; clients talk to them through
shared memory, one memory map and one named lock for each connection. This
directory holds a model of that program in TLA+, the TLC configurations that
check it, and TLAPS proofs about each of its parts. Paths below are relative to
`src/speedysvc/`.

## The system

| Component | State | Operations | Talks to |
|---|---|---|---|
| HybridLock (`hybrid_lock/linux/HybridLock.pyx`, and the `HybridLock.c` that is compiled) | a POSIX semaphore and its name; a page of shared memory and its name, with a "spin lock" byte (LOCKED, UNLOCKED, DESTROYED) and the pid of the holder | create, connect, lock, unlock, destroy, get_value, get_pid_holding_lock | all processes that know its name |
| Memory maps (`shared_memory/shared_params.py`) | files of a power-of-two size | get_mmap, unlink | by name |
| SHMResourceManager (`SHMResourceManager.py`, `ipc/JSONMMapBase.py`) | the *registry* of a service: lists of server pids and of (client pid, qid), as JSON behind a length in a map; a lock; a flag `lock_acquired` per process | add, delete, check for missing pids, reset, create, open and unlink the lock and map of a connection | servers, clients, managers |
| SHMClient | the map and the lock of its connection; whether a call has been reconnected | construct, send, resize, reconnect, `__del__` | servers, by status byte and lock |
| SHMServer | SPIDThreads, shut_me_down, shutdown_ok; a monitor thread for the process, a worker thread for each connection | monitor_pids, worker_thread_fn, handle_command, resize, reconnect, shutdown | clients, registry |
| MultiProcessManager, `_service_worker` | LPIDs, shutting_down; a monitor thread | start, stop, new and remove child process, lock all clients | registry, connection locks, logger |
| service.py, web monitor | a manager process for each service | start and stop by port or name | manager (signals), logger (status) |
| LoggerServer, LoggerClient, FIFOJSONLog, MemoryCachedLog | service status, pids, a log with a circular cache | write, flush, read from an offset | every process of a service |
| Time series data | fixed-size records in a file | append, average over | LoggerServer |
| NetworkServer, NetworkClient | a TCP stream and an SHMClient per connection | framing, reconnection | SHMClient |
| kill_pid_and_children | - | SIGINT, then SIGTERM, then SIGKILL | any process |

### What is hard, and what makes each part correct

* **Lock.** `lock()` and `unlock()` are each several separate accesses to shared
  state that may interleave with each other, with `destroy()`, with the forced
  unlock of a process that starts, and with the death of any process. Correct
  means: mutual exclusion; one permit, never two and never none; the published
  holder is the holder; waiters are served; what a dead process leaves is
  recovered.
* **The names of a lock.** A name leads to a semaphore and to a page, and is given
  and taken away in two halves, by processes that may fail or die in between.
  Correct means: who shares the page shares the semaphore; after a destruction
  nobody goes on unawares; what is left in halves can be overwritten.
* **Connection.** The client owns the lock while it is *idle*, and lets the
  workers in by releasing it; either side may replace the map while others wait
  for the lock with the old one open. Correct means: messages are read and
  written by the owner of the lock, in the newest map; the method runs once for
  a call and its result is what the call returns; every call returns; and when
  servers are killed, a call still ends.
* **Server threads.** Monitor, workers and main thread share SPIDThreads and two
  flags without a lock. Correct means: one worker for each connection, every
  connection served, the dead let go, and a shutdown that finishes and cuts no
  call short.
* **Registry.** An operation is decode, change, write length, write data; any of
  these may be the last thing a process does. Correct means: operations are
  atomic, always end, and the next process that starts repairs what a dead one
  left.
* **Manager.** Two threads remove and create children; they take the locks of
  all clients first, so that no call is cut. Correct means: crashed children are
  replaced, no child survives a stop, no call is cut.
* **Log.** A circular cache in bytes, read from an old offset. Correct means: the
  reader gets whole lines, the newest ones, none twice.

## Modules

```
BinaryLock <--refines-- HybridLock
NamedLock                                (how processes come by a HybridLock)
RpcCall    <--refines-- SHMChannel       (its lock is BinaryLock's)
Registry   <--refines-- ResourceRegistry (its lock is BinaryLock's)
ServerThreads                            (the threads around SHMChannel's workers)
ServiceManager                           (the threads above them; its clients are RpcCall's)
CircularLog                              (the log in the manager's process)
```

The theorems about a module `M` are in `MProofs`, which extends it; those about the
lines of CircularLog are in CircularLogLineProofs, which extends CircularLogProofs.

The `MC*` modules give constants their values for TLC and define nothing else.
Definitions that a comment introduces as "Variant" are not part of the
specifications: each is an action as a plausible mistake would have it, and is
used to confirm that the property it is paired with notices.

**BinaryLock** is what everything above the lock relies on: an owner, acquired
when there is none, released by the owner.

The lock is modelled from `HybridLock.c`, the translation of `HybridLock.pyx` that
is compiled; the two agree, and comments cite the `.pyx`, which is what one reads.

**HybridLock** has one action for each access of `lock()` (`LockEnter`,
`SpinEnd`, `SemWait`/`TimeOut`/`Interrupted`, `MarkLocked`, `RecordPid`), of `unlock()`
(`UnlockEnter`, `MarkUnlocked`, `TestValue`, `SemPost`), of
`unlink_resources()` (`ConnectToDestroy`, `Destroy`) and of the recovery in
`SHMResourceManager.__init__` (`RecoverEnter`, `ReadValue`, `ReadPid`, `Judge`).
`Crash` may come between any two. `taken` is a history variable: who took the
permit and has not given it back. `Spec` is the lock used as a lock;
`SpecRecover` adds the forced unlock. One incarnation of the name is modelled;
`unlock()` of a free lock, which returns -1 (a `SystemError` of the Python wrapper,
swallowed by `SHMResourceManager.py:101-110`), changes nothing.

**NamedLock** has what is between them: `semName` and `pageName` are what the two
names lead to, `sem` and `page` what each process has open. The four modes of the
constructor begin in `Construct`; `ConnectOrCreate`/`CreateUnchecked`,
`ConnectToExisting`, `CreateExclusive` and `CreateAnew` are the calls of
`sem_open()`, `ShmOpen` ... `CheckDestroyed` are `init_mmap()` and the look at the
byte, `Destroy` ... `MarkDestroyed` are `destroy()`, which a constructor that
overwrites also goes through. Any call of a process in `Faulty` may fail, and a
process in `Mortal` may die between any two. `torn` is a history variable: somebody
came in between the two halves of an opening or a destruction; `disturbed` says that
a constructor's call failed or somebody else created the semaphore meanwhile. The
properties say what holds without that interference; what happens with it is under
"Disagreements found".

**RpcCall** is the promise to a client: the service runs the method once for each
call, and the call returns what that run produced.

**SHMChannel** is one connection: `maps` is every map ever made for it (a map
that was unlinked stays open in whoever has not noticed), `name` the one its name
leads to, `handle` the one each party has open, `pc` where each party is in
`_send()` or `handle_command()`. The code that replaces a map is the same on both
sides and is modelled once for any party: `Invalidate`, `UnlinkOld`, `Create`,
`Stamp`, `Restore`. A body and a status byte are written by separate actions
(`Write`, `Flag`), as are an unlock and the lock that follows. `Kill` stops a
server anywhere and `Respawn` replaces it. `ManagerLook` ... `ManagerUnlock` are the
manager in `remove_child_process()`: it asks who has the lock, unlocks if the answer was
nobody or a dead process, takes the lock and gives it back, each a step of its own (the
unlock two: its test of the value, and `ManagerPost`). `lock()` is `Lock` and `Record`,
the write of the pid word, so that a server may be killed, or the manager may look,
between the two. `unlock()` of a free lock raises (`UnlockRaises`), which ends the call
of the client and the thread of a worker. Lengths are kept, contents are the request or
the outcome. An exception of the method is an outcome ("-") like a result ("+"). Two
history variables say that the lock does not protect the connection any more:
`astray`, the client has gone on without it (disagreement 2); `robbed`, the manager has
posted for somebody alive, or a second time (disagreement 1). The model goes on after
either.

**ServerThreads** is one server process: `MonitorTop` ... `MonitorSleep` are the
monitor thread, `WorkerOpen` ... `WorkerTell` the workers (a pair of a connection
and 1 or 2, since a connection may get a second thread while its first one is
leaving), `Shutdown` and `ShutdownReturns` the main thread. Counting SPIDThreads
and storing the result are two actions, as line 143 of `SHMServer.py` lets other
threads in between, and so are the two tests of the connection at lines 134 and 137. A
worker whose command raises ends there and leaves its connection in SPIDThreads.

**Registry** is a pair of sets changed by atomic operations, that a death may make
unreadable until a start resets it, and `Break`, after which nothing is promised.
**ResourceRegistry** has the steps of `lock_fn` (`Lock` and `Sign`, `SetFlag`, the
operation, `Unlock`, `Clear`), with the flag shared by the threads of a process,
`_encode()` as two writes, and the constructor: `Look` asks who has the lock, `Judge`
decides and tests the value, `Post` posts, whoever has the lock by then. A process may
look at any time, and may die between `Lock` and `Sign`, with the pid of an earlier
holder in the word. `robbed` is the history variable for a post that took the lock
from somebody alive, or was the second one; it is the `broken` of Registry, and no
other step breaks it.

**ServiceManager** has the two threads of a manager: the main thread
(`StartService`, `Fork`, `List`, `Await`, and after `Interrupt` `StopService` and
`Drain`) and the monitor (`MonitorTop`, `Scan`, `Adapt`). Both remove children by
the same steps, `Inspect`/`Judge`/`Post`/`Lock`/`Sign` for each client's lock, `Pick`,
`Drop`, `Signal`, `Reap`, `Unlock`, `Removed`; a step that raises leads to "abort", which
unlocks and ends the main thread but not the monitor. What load and memory make
`Adapt` do is any of the choices the code has. Children are `Boot`ed, `Take` and
`Answer` calls and `Die`; a worker that takes a lock, finds no request and gives it back
is left out. A lock that was posted for somebody alive or twice, or that a `lock()`
whose exception is swallowed (`LockFails`) did not take, gets the owner `Torn`: the
model does not follow who has it, and lets everybody who wants it, or wants to release
it, go on. That allows more than the code does; the manager has as many locks as
clients, and the same faults are followed to their end, for one lock, in SHMChannel.

**CircularLog** keeps the cache as a sequence of bytes, each a pair of a line's number
and an index, so that a byte of the wrong line or in the wrong place is seen;
`WriteLine` and `Answer` follow the arithmetic of `_write_line()` and
`_iter_from_cache()`. `logged` and `since` (bytes), `read` and `booted` (lines) and
`current` are history variables that say what the cache should hold and what a reader
should get.

## Runs

All finish in less than three minutes with two workers.

| Run | Question | Bounds |
|---|---|---|
| `HybridLock_mutex` | mutual exclusion, permit, published holder, refinement of BinaryLock, no starvation | three processes: p3 with a timeout and signals, p1 and p2 that unlink, p2 that may die |
| `HybridLock_spares` | does a forced unlock spare the living: **no** | three processes: p2 starts, p3 with a timeout, nobody unlinks or dies |
| `NamedLock_open` | does the name lead to a lock, one for all, with nobody left behind by a destruction, and can what is left in halves be overwritten | p1 connects or overwrites, as SHMResourceManager does, and its calls may fail; p2 creates or overwrites and may die; p3 connects or creates; two semaphores and two pages in all |
| `SHMChannel_calls` | ownership, newest map, refinement of RpcCall, every call returns | a client, a server that is there and one that comes late; two requests; lengths 2, 3, 6 over maps of 4, 8, 16: a message that fits, just does not, and needs four times the size |
| `SHMChannel_kill` | does every call end, with its own answer, when servers are killed and locks freed by force | two servers, one of them killed anywhere and replaced; the manager at any step; replies of 6, so that the map is replaced |
| `SHMChannel_stale` | is the answer that of this call after a kill: **no** | two servers, one of them killed; two requests, replies of 2 and 6 |
| `ServerThreads_serve` | one worker per connection, all served, dead let go, shutdown cuts no call, the last worker ends it | two connections, one leaves, one has its map replaced |
| `ServerThreads_shutdown` | does shutdown() finish: **no** | as above |
| `ResourceRegistry_update` | are updates atomic, do operations end, does a start repair | a server process with two threads, killed anywhere; a process that stops the service; both start, at any time |
| `ResourceRegistry_flag` | `assert self.lock_acquired`: **no** | as above |
| `ServiceManager_manage` | is no child removed in a call, none lost track of, every crashed one replaced, every call answered | one child needed, two allowed, three forks, two of which may crash; memory is limited; one client; a stop at any time |
| `CircularLog_read` | is what a page gets whole, new, and complete if it can be | two pages; five lines of 1, 3, 5 and 7 bytes in a cache of 7: it is filled exactly, wrapped within a line, lapped within one poll, and 7 is refused |

**Why the bounds are enough.** Mutual exclusion and the permit are proved for
every number of processes; three have all the roles (holder, waiter, destroyer or
starter). For the names, what matters is an object that has the name and one that
lost it: two of each kind, in any pairing, and the invariants are proved for any
number. Sizes of maps only matter by comparison, and the three lengths reach
every branch, including two replacements in one call. A second server matters
because it waits with an old map; a third would wait in the same way. Two
connections are what the race over the last count needs. In the registry, two
threads of one process are what the flag needs, two processes what a lost update
needs. One client with two crashes is what the manager's wait for a lock needs, and a
third fork what replacing both needs; the same properties also hold with two clients
and two forks (and the safety ones with two clients and three forks), which takes too
long to be a run. In the log, only the lengths relative to the cache matter. What the
bounds exclude is listed at the end.

**CONSTRAINT Followed**, in the runs with a forced unlock, ends the exploration at the
step that takes the lock from somebody alive (`robbed`; a lock that is `Torn`) and, in
ServiceManager, at the end of the manager. That state is for ever, and the passing
runs' properties promise nothing from it on, so that the constraint hides no violation of
them; the two violated properties are violated without such a step. The models
themselves go on, and the proofs know nothing of the constraint.

**CHECK_DEADLOCK FALSE** is set where the system may really stop: every process is
dead, a lock is destroyed, a server is shut down.

### Fairness

* A process or thread that can go on does (`WF`): the kernel's scheduler.
* `sem_wait` is granted to a waiter if it is possible again and again (`SF`): the
  kernel keeps waiters in a queue, but `sem_post` lets others barge in, so
  that no more than this is assumed.
* A method returns; a map that is being replaced is replaced (`WF` of its step).
* In SHMChannel, dead servers are replaced (`SF` of `Respawn`), and the manager looks at
  the lock of one and goes on from there (`WF`; `SF` of its `lock()`); when it gets that
  far is the subject of ServiceManager. That its `lock()` fails is possible, never due.
* In ServiceManager, a process sent SIGINT ends, if need be by SIGKILL (`WF` of `Die`
  for the doomed). That clients call again and again is no fairness but a premise of
  its two liveness properties (`ClientsCall`): the manager waits for idle ones.
* Nothing obliges a client to call, a process to start, die or be signalled.

### Disagreements found

Each is a run that TLC must find violated (see "findings" in `PROJECT.json`).

1. `ForcedUnlockSparesTheLiving`. A starting process unlocks also when the lock was
   free a moment ago, and takes it from whoever has got it since. The same look and
   unlock are made by the manager for the locks of clients
   (`MultiProcessManager.py:430-446`); what both do to the rest of the program is what
   `robbed` and `Torn` leave out of the promises of ResourceRegistry, SHMChannel and
   ServiceManager.
2. `AnswerIsForThisCall`. `num_times` also controls whether the client takes the lock
   again; after a reconnection it does not, and goes on without the lock. From then on
   (`astray`) nothing is promised about the connection any more.
3. `ShutdownFinishes`. Only a worker can report that all workers are gone.
4. `LockAcquired`. The flag is cleared after the unlock, while another thread of
   the process may already rely on it.

Met in ServiceManager, and not the subject of a run of its own:

* A manager that has found the holder of a client's lock alive waits for the lock
  without a timeout and never looks again: if the holder dies, the manager hangs,
  and holds the locks it has so far. The same happens when the holder died before it
  had written its pid over that of a live process. `WaitsForTheDead` is the exception that
  `CrashedChildReplaced` and `CallsGoOn` need; without it TLC violates them in some 20
  steps, although `MultiProcessManager.py:64` says "This monitors children,
  restarting them if they crash".
* The monitor may fork a child after stop_service() has emptied LPIDs; it survives the
  manager, and reports "started" after "stopped".
* A forced unlock of a lock that was free when the manager looked
  (`MultiProcessManager.py:445`) takes it from a child that has just begun a call, and
  that child is killed, although line 275 says "Lock the service, to make sure we don't
  terminate it halfway through a call!" (the race of disagreement 1).
* An exception of the manager's `lock()` is swallowed (lines 449-452); it goes on
  without the lock, and `__unlock_locks()` later releases it for whoever has it.
* A child that dies before it reports leaves the starting manager in the loop at
  line 261, before its monitor exists.

Met in NamedLock, which excludes them by `torn`, `disturbed` and `Has`:

* Two first processes may end with one page and two semaphores, and neither is told,
  although destroy() writes the byte "to indicate to other processes that this
  semaphore should not be used any more" (`HybridLock.pyx:280-281`): one takes away
  the name of the other's semaphore before the other gets to its `shm_open()`. Both
  then have "the" lock of the registry, at the same time.
* A process that connects between the `shm_unlink()` and the `sem_unlink()` of
  destroy() makes a new page for the old semaphore, and nobody marks that page.
* destroy() of a lock whose name was given to a new one takes the new one's names.
* A failed `sem_open()` of whatever reason counts as "no such semaphore"; with no
  descriptors left (dropped locks keep theirs, as `__del__` is never called), a
  process that starts overwrites the registry of a service that runs.
* The "Shouldn't get here!" (`HybridLock.pyx:158`) is reached when two overwrite.
* CONNECT_OR_CREATE does not look at the result of its second `sem_open()` and may
  return a lock whose semaphore is NULL.

A page that stays open while the service is restarted polls the new log with an
offset of the old one, and misses the lines in front of it (CircularLog: `current`).

Others met while modelling, and not (yet) the subject of a run: DESTROYED is
overwritten by a `lock()` or `unlock()` in progress (`HybridLock.pyx:363, 396`); a
forced unlock may raise the semaphore to 2; a process that dies between `sem_wait`
and the write of its pid leaves the pid of an earlier holder and, if that is
alive, a lock nobody recovers; an interrupted `sem_wait` leaves a client that
writes without the lock; a worker that opens the map in the moment it is replaced
is gone for good; monitor_pids() says it cleans up after dead clients
(`SHMServer.py:95`) but only a process that starts does.

## Proofs

Every theorem has the form `Spec => []P` or `Spec => Abstract!Spec`, and holds for
every value of the constants that the module's named assumption allows. Each follows
from an inductive invariant `IInv` by three lemmas: `Init => IInv`,
`IInv /\ [Next]_vars => IInv'`, `IInv => P`. ServiceManagerProofs and
SHMChannelProofs need two such invariants, the second kept only under more
assumptions or on top of the first; CircularLogLineProofs adds `LInv` to the `IInv` of
CircularLogProofs. Below is what
`IInv` says besides the types, as that is where the argument is.

**HybridLockProofs** (any processes, and any choice of those that time out, are
interrupted, unlink or die). Mutual exclusion is not inductive: a process after
`sem_wait` is not yet between `lock()` and `unlock()`, and what keeps a second one
out is the value of the semaphore. So `IInv` says where the permit is (`OnePermit`:
the semaphore is 1 and nobody took it, or 0 and exactly one process did), that every
process between `sem_wait` and `sem_post` took it (`HolderTook`), and what the holder
has written into the byte and the pid word so far (`HolderWrote`). The refinement maps
the owner of BinaryLock to the process in `taken`: `SemWait` is Acquire, `SemPost` is
Release, all other steps leave it unchanged. The invariant is only kept by `Spec`;
under the forced unlock it is false (disagreement 1), and `ForcedUnlockKeepsPermit`
says what remains of it there: the permit may be given twice, but is never lost.

**NamedLockProofs** (any processes, modes, failures and deaths). `NamelessPages`: a
page that is marked, or past `shm_unlink`, does not have the name; this is why the
order of `destroy()` matters. `WayIsFree`: a constructor that overwrites finds the
semaphore's name free when it comes to create it, or was disturbed. `Paired`: unless
something is torn, the processes on a page have one semaphore, which has its name as
long as the page does, and whoever has lost the names is told or about to be.

**SHMChannelProofs** (any number of workers, requests, lengths and sizes). Two
invariants, one on top of the other.

*Whoever is killed, at any step, any number of times, and whatever the manager unlocks
meanwhile* (`SInv`). Types hold without condition, with where a party has a map open at
all (`Opened`). The rest (`Safe`) holds until the client goes astray or the manager robs
somebody, with a semaphore that is never over 1 until then. Who is in a critical place is the owner
(`CriticalArea`); maps grow (`Growing`: twice a message that did not fit is more than
the map it did not fit into) and all but the newest are INVALID. A server killed inside
get_mmap leaves no name and a newest map that says INVALID (`Found`), for ever, so that
whoever sees anything else has the newest map (`ValidIsNewest`). `Replies`: what a
worker is about to write, and what stands in the map from the client's flag to its read,
is the outcome of the last run or nobody's; a server killed after the run leaves the
request, an empty map or that reply behind, and the next one runs the method again or
sends an exception. From this follow `AnswersSurviveKills` and `KillsSpareTheMaps`.
Each is about every step up to the very one that loses the lock, so they
locate disagreement 2: apart from a forced unlock for somebody alive, no other place
where a server dies does this harm.

*As long as no server is killed* (`ASSUME Mortal = {}`, `IInv`). The client never goes
astray (`NeverAstray`), and nothing fails: the name leads to the newest map except
between unlink and create (`Named`), and how far a replacement has got determines its
status and what will be put back (`Replacement`). `ClientSide` and `WorkerSide` relate
the phase of the call to the status byte and the body. The refinement maps the worker's
run of the method to `Run` and the client's read of the reply to `Return`; all else,
replacing the map included, stutters. With kills it is false: a method is run again.

**ServerThreadsProofs** (any connections). `Lifetimes`: the dead do not come back.
`Bookkeeping`: a worker of a live client stands in SPIDThreads, one about to be
started does not. `Successors`: only a worker that leaves because of the shutdown may
have a successor, and the monitor, which decided before, does not look again. `Quiet`:
once a worker has counted no others, no live client's worker is in a command and none
will be. `NoThirdThread` justifies the model: a connection never needs a third thread.

**ResourceRegistryProofs** (any finite sets of processes and threads, deaths at any
step, starts at any step). `Sound` holds until a start has robbed somebody of the lock:
there is no second permit, who uses the lists owns the lock (`HolderOwns`), and the lists
about to be written are an operation applied to the data still in the map (`Encoding`,
`Writing`). Nothing need be said of what a starting process has seen: whatever it was,
its post either frees the lock of a dead thread or is the robbery. `OneHolder` follows
up to that step. The refinement needs no premise: it maps `WriteData` to the Replace,
Check or Reset of Registry (a start whose length alone makes the lists readable is a
Reset already at `Encode`), a kill to Die, which may leave the lists unreadable, and the
robbery to Break, after which Registry allows anything.

**ServiceManagerProofs** (any clients, children and crashes). `Counting`: where each of
the two threads is in its list of locks. `EveryChildTracked` is inductive with it, in
any interleaving. `Holding` says which locks a thread has, and that a lock that is not
torn stays its own, whatever the other thread looks at, unlocks or fails to get: it
gives `NoCallIsCut` and, as soon as there is one client whose lock is not torn,
`RemovalsExclude`: the two threads, which share LPIDs without a lock, are kept apart by
the clients' locks alone.

**CircularLogProofs** (any size of the cache, any lengths, any readers). `Ring`: byte by
byte, what stands before and after the spindle in the cache, full or not;
`AtSpindle`: the file position is the spindle whenever a line is written; `Offsets`:
where an offset lies in the ring, from how much was logged since. Lemmas `Reading` and
`Writing` say what `read(n)` and `write()` do, `Wrapping` and `NoWrapping` what a line
leaves behind when it is cut by the end of the cache and when it is not. Whatever
an offset is, what is read from it is the end of what was logged (`DataIsEnd`), no
longer than the cache and reaching as far back as `Skipped` says. `TailIsKept` and
`PollGetsTheNews` say that the cache and each poll are the right *bytes*.

**CircularLogLineProofs** has the same for *lines*. `LInv` adds to `IInv` that there is
a function `at`, the places in `logged` at which the lines of this process end
(`LinesAt`: they increase, by the length of each line, the bytes between two are that
line's, and a newline stands at these places and no others), and that each reader's
`read` and `since` are what it was at when it last polled (`ReadersAt`). The function
need not be a variable: `LInv` says that there is one, and a written line extends it.
What a poll is given ends where `logged` ends, so it is cut at one place only, its
beginning; `Split` finds the newlines in it, in order (`NewlinesAre`: the enumeration
exists and is unique, by induction over finite sets of numbers), hence the lines from
the first whole one on (`AnswerIs`). From there `LinesAreWhole` and `NothingIsMissed`
are about which line that is.

**Only model-checked**: all liveness, that of SHMChannel with kills (`CallEnds`)
included, and `StartRepairs` (out of the prover's reach). Every safety invariant of the
runs is the subject of a theorem.

## Plan

1. *(done)* HybridLock, SHMChannel, ServerThreads, ResourceRegistry, ServiceManager,
   CircularLog.
2. *(done)* NamedLock: creation and destruction by name, with failures and deaths.
3. *(done)* Proofs about all seven, with the refinements of BinaryLock, RpcCall and
   Registry.
4. The network: a stream that cuts messages anywhere. `recv(amount)` asks for the full
   amount again after a short read (`NetworkServer.py:85`, `NetworkClient.py:74`), so a
   header that arrives in two parts takes bytes of the message with it, is longer than
   `amount`, and the loop never ends; a request is sent again after a connection error,
   also when it has been run.
5. What an interrupted `sem_wait` leaves of a client; two kill threads in
   `reset_all_server_pids()`; an abstract call that may run more than once, which
   SHMChannel implements also with kills.
6. Time series data.

## Not modelled

The Windows lock and its emulation of shared memory; in `HybridLock.c`, what Cython
generates around the methods (arguments, exceptions, pickling) and `__del__`, which
is never called; the creation of the registry's map by two first processes at once
(that of its lock is in NamedLock); what a client does after an interrupted
`sem_wait` (the lock's side of it is in HybridLock); the reuse of pids; the
escalation of kills; the network (see the plan); JSONMMapList, `del_client_pid_qid` and
`reset_all_client_pids`, which nothing calls; serialisation, compression,
decorators, the web monitor, time series data and the toolkit, which have no
concurrent state of their own or are outside the program's core.
