--------------------------- MODULE SHMChannelProofs -------------------------
(* SHMChannel for any number of workers, requests and lengths: first what  *)
(* holds whoever is killed wherever (SInv), then what else holds as long   *)
(* as no server is killed (IInv, with Mortal = {}).                        *)
EXTENDS SHMChannel, SequenceTheorems, TLAPS

\* What no step but a few changes.
USE DEF faults, manager

Map == [status : Status, body : Message, size : MapSize]

Newest == maps[Len(maps)]

\* From the choice of a map for a message to the status byte.
Replacing == {"unlink", "create", "stamp"}
Sending == Replacing \cup {"invalidate", "restore", "write", "flag"}

\* Where a party has no map open.
Closed == {"unlink", "create", "start", "broken", "fail", "gone", "killed"}

Opened == \A p \in Party : pc[p] \notin Closed => handle[p] # 0

Types == TypeOK /\ Opened

\* Maps grow, which is how an old one is told from a new one.
Growing ==
    /\ Len(maps) \in Nat \ {0}
    /\ \A g, h \in 1..Len(maps) : g < h => maps[g].size < maps[h].size
    /\ \A g \in 1..Len(maps) : maps[g].size >= PageSize

OldInvalid == \A g \in 1..Len(maps) : g # Len(maps) => maps[g].status = "INVALID"

\* Only between the two halves of get_mmap does the name not lead to the newest
\* map; if its process is killed there, it stays so, and that map stays INVALID.
Found == name # Len(maps) => name = 0 /\ Newest.status = "INVALID"

\* Whoever has a map to itself has the newest.
Newcomers ==
    \A p \in Party :
        pc[p] \in (Sending \ {"unlink", "create"})
                  \cup {"idle", "release", "read", "load"} =>
            handle[p] = Len(maps) /\ name = Len(maps)

\* What holds while a map is replaced.
Replaced ==
    \A p \in Party :
        /\ pc[p] \in Replacing => Newest.status = "INVALID"
        /\ pc[p] = "create" => name = 0
        /\ pc[p] \in {"invalidate", "unlink", "create"} =>
             out[p].is # "empty" /\ out[p].size >= Newest.size - 1

\* Nothing happens before the client is there.
Quiet ==
    pc[Client] = "connect" =>
        /\ handle[Client] = Len(maps) /\ name = Len(maps)
        /\ Newest.status = "CLIENT"
        /\ \A w \in Worker : pc[w] \notin Sending \cup {"load"}

\* A message that answers the call in progress, if it answers any.
Current(m) == m.is = "reply" => m.what \in {NoReply, outcome}

\* Where replies are, and whose they are.
Replies ==
    /\ pc[Client] \in {"connect", "flag", "release", "lock", "check",
                       "reconnect", "read"} => Current(Newest.body)
    /\ \A w \in Worker : pc[w] \in Sending => out[w].is = "reply" /\ Current(out[w])
    /\ pc[Client] \in Sending => out[Client].is = "request"
    /\ answer # NoReply => pc[Client] = "idle" /\ answer = outcome

Safe ==
    /\ CriticalArea /\ Growing /\ OldInvalid /\ Found /\ Newcomers /\ Replaced
    /\ Quiet /\ Replies

-----------------------------------------------------------------------------
\* Types of the messages.
LEMMA MessageParts ==
    /\ Empty \in Message
    /\ \A r \in Request, n \in RequestSize :
         /\ RequestMsg(r, n) \in Message /\ RequestMsg(r, n).is = "request"
         /\ RequestMsg(r, n).what = r /\ RequestMsg(r, n).size = n
    /\ \A r \in Reply \cup {NoReply}, n \in ReplySize :
         /\ ReplyMsg(r, n) \in Message /\ ReplyMsg(r, n).is = "reply"
         /\ ReplyMsg(r, n).what = r /\ ReplyMsg(r, n).size = n
    /\ \A m \in Message : m.is # "empty" =>
         m.size \in Nat /\ m.size \in RequestSize \cup ReplySize
<1> USE DEF Empty, RequestMsg, ReplyMsg
<1>1. Empty \in Message
  BY DEF Message
<1>2. ASSUME NEW r \in Request, NEW n \in RequestSize
      PROVE  RequestMsg(r, n) \in Message
  BY DEF Message
<1>3. ASSUME NEW r \in Reply \cup {NoReply}, NEW n \in ReplySize
      PROVE  ReplyMsg(r, n) \in Message
  BY DEF Message
<1>4. ASSUME NEW m \in Message, m.is # "empty"
      PROVE  m.size \in Nat /\ m.size \in RequestSize \cup ReplySize
  <2>1. CASE \E r \in Request, n \in RequestSize : m = RequestMsg(r, n)
    BY <2>1, ChannelAssumption
  <2>2. CASE \E r \in Reply \cup {NoReply}, n \in ReplySize : m = ReplyMsg(r, n)
    BY <2>2, ChannelAssumption
  <2> QED
    BY <1>4, <2>1, <2>2 DEF Message
<1> QED
  BY <1>1, <1>2, <1>3, <1>4

\* What a write of a status byte changes.
LEMMA StatusWritten ==
    ASSUME TypeOK, NEW p \in Party, handle[p] \in 1..Len(maps),
           NEW s \in Status, SetStatus(p, s)
    PROVE  /\ maps' \in Seq(Map) /\ Len(maps') = Len(maps)
           /\ \A g \in 1..Len(maps) :
                /\ maps'[g].size = maps[g].size
                /\ maps'[g].body = maps[g].body
                /\ maps'[g].status = IF g = handle[p] THEN s ELSE maps[g].status
<1> DEFINE e == [maps[handle[p]] EXCEPT !.status = s]
<1>0. maps \in Seq(Map)
  BY DEF TypeOK, Map
<1>1. maps \in Seq(Map) /\ maps[handle[p]] \in Map
  BY <1>0, ElementOfSeq
<1>2. e \in Map
  BY <1>1 DEF Map
<1>3. maps' = [maps EXCEPT ![handle[p]] = e]
  BY DEF SetStatus
<1>4. /\ maps' \in Seq(Map) /\ Len(maps') = Len(maps)
      /\ \A g \in 1..Len(maps) : maps'[g] = IF g = handle[p] THEN e ELSE maps[g]
  BY <1>1, <1>2, <1>3
<1>5. \A g \in 1..Len(maps) : maps[g] \in Map
  BY <1>1
<1> QED
  BY <1>4, <1>5 DEF Map

\* What a write of a message changes.
LEMMA BodyWritten ==
    ASSUME TypeOK, NEW p \in Party, handle[p] \in 1..Len(maps),
           NEW m \in Message, SetBody(p, m)
    PROVE  /\ maps' \in Seq(Map) /\ Len(maps') = Len(maps)
           /\ \A g \in 1..Len(maps) :
                /\ maps'[g].size = maps[g].size
                /\ maps'[g].status = maps[g].status
                /\ maps'[g].body = IF g = handle[p] THEN m ELSE maps[g].body
<1> DEFINE e == [maps[handle[p]] EXCEPT !.body = m]
<1>0. maps \in Seq(Map)
  BY DEF TypeOK, Map
<1>1. maps \in Seq(Map) /\ maps[handle[p]] \in Map
  BY <1>0, ElementOfSeq
<1>2. e \in Map
  BY <1>1 DEF Map
<1>3. maps' = [maps EXCEPT ![handle[p]] = e]
  BY DEF SetBody
<1>4. /\ maps' \in Seq(Map) /\ Len(maps') = Len(maps)
      /\ \A g \in 1..Len(maps) : maps'[g] = IF g = handle[p] THEN e ELSE maps[g]
  BY <1>1, <1>2, <1>3
<1>5. \A g \in 1..Len(maps) : maps[g] \in Map
  BY <1>1
<1> QED
  BY <1>4, <1>5 DEF Map

\* What a new map adds.
LEMMA MapAdded ==
    ASSUME TypeOK, NEW m \in Map, maps' = Append(maps, m)
    PROVE  /\ maps' \in Seq(Map) /\ Len(maps') = Len(maps) + 1
           /\ \A g \in 1..Len(maps) : maps'[g] = maps[g]
           /\ maps'[Len(maps) + 1] = m
  BY DEF TypeOK, Map

\* What a party that has a map open finds in it.
LEMMA OpenIs ==
    ASSUME Types, NEW p \in Party, pc[p] \notin Closed
    PROVE  /\ handle[p] \in 1..Len(maps) /\ Len(maps) \in Nat /\ maps \in Seq(Map)
           /\ Open(p) \in Map
           /\ Open(p).status \in Status /\ Open(p).body \in Message
           /\ Open(p).size \in MapSize /\ Open(p).size \in Nat
<1>1. handle[p] \in 1..Len(maps) /\ maps \in Seq(Map) /\ Len(maps) \in Nat
  BY DEF Types, TypeOK, Opened, Map
<1>2. Open(p) \in Map
  BY <1>1, ElementOfSeq DEF Open
<1> QED
  BY <1>1, <1>2, ChannelAssumption DEF Map

\* The steps of a replacement.
LEMMA ResizeTypes ==
    ASSUME Types, NEW p \in Party, Resize(p)
    PROVE  Types'
<1> USE DEF Closed, BothPC
<1>0. TypeOK /\ Opened
  BY DEF Types
<1>1. CASE Invalidate(p)
  <2>1. /\ pc[p] = "invalidate" /\ pc' = [pc EXCEPT ![p] = "unlink"]
        /\ handle' = [handle EXCEPT ![p] = 0]
        /\ saved' = [saved EXCEPT ![p] = [status |-> Open(p).status,
                                          size |-> Open(p).size]]
        /\ SetStatus(p, "INVALID")
        /\ UNCHANGED <<owner, name, out, retried, call, outcome, answer,
                       astray, faults>>
    BY <1>1 DEF Invalidate, Goto, callVars
  <2>2. /\ handle[p] \in 1..Len(maps)
        /\ [status |-> Open(p).status, size |-> Open(p).size]
              \in [status : Status, size : MapSize]
    BY <2>1, OpenIs
  <2>3. maps' \in Seq(Map) /\ Len(maps') = Len(maps)
    BY <1>0, <2>1, <2>2, StatusWritten DEF Status
  <2>4. TypeOK'
    BY <1>0, <2>1, <2>2, <2>3 DEF TypeOK, Map
  <2>5. Opened'
    BY <1>0, <2>1 DEF Opened, TypeOK
  <2> QED
    BY <2>4, <2>5 DEF Types
<1>2. CASE UnlinkOld(p)
  <2>1. /\ pc[p] = "unlink" /\ pc' = [pc EXCEPT ![p] = "create"] /\ name' = 0
        /\ UNCHANGED <<owner, maps, handle, saved, out, retried, call, outcome,
                       answer, astray, faults>>
    BY <1>2 DEF UnlinkOld, Goto, callVars
  <2>2. TypeOK'
    BY <1>0, <2>1 DEF TypeOK
  <2>3. Opened'
    BY <1>0, <2>1 DEF Opened, TypeOK
  <2> QED
    BY <2>2, <2>3 DEF Types
<1>3. CASE Create(p) /\ name = 0
  <2>1. PICK s \in MapSize :
          maps' = Append(maps, [status |-> "INVALID", body |-> Empty, size |-> s])
    BY <1>3 DEF Create
  <2>2. /\ pc' = [pc EXCEPT ![p] = "stamp"] /\ name' = Len(maps) + 1
        /\ handle' = [handle EXCEPT ![p] = Len(maps) + 1]
        /\ UNCHANGED <<owner, saved, out, retried, call, outcome, answer,
                       astray, faults>>
    BY <1>3 DEF Create, Goto, callVars
  <2>3. maps' \in Seq(Map) /\ Len(maps') = Len(maps) + 1 /\ Len(maps) \in Nat
    <3>1. [status |-> "INVALID", body |-> Empty, size |-> s] \in Map
      BY MessageParts DEF Map, Status
    <3> QED
      BY <1>0, <2>1, <3>1, MapAdded DEF TypeOK
  <2>4. TypeOK'
    BY <1>0, <2>2, <2>3 DEF TypeOK, Map
  <2>5. Opened'
    BY <1>0, <2>2, <2>3 DEF Opened, TypeOK
  <2> QED
    BY <2>4, <2>5 DEF Types
<1>4. CASE Create(p) /\ name # 0
  <2>1. /\ pc' = [pc EXCEPT ![p] = Failed(p)]
        /\ UNCHANGED <<owner, maps, name, handle, saved, out, retried, call,
                       outcome, answer, astray, faults>>
    BY <1>4 DEF Create, Goto, callVars
  <2>2. TypeOK'
    BY <1>0, <2>1 DEF TypeOK, Failed, ClientPC, WorkerPC
  <2>3. Opened'
    BY <1>0, <2>1 DEF Opened, TypeOK, Failed
  <2> QED
    BY <2>2, <2>3 DEF Types
<1>5. CASE Stamp(p)
  <2>1. /\ pc[p] = "stamp" /\ SetStatus(p, "CLIENT")
        /\ \E l \in {"restore", "broken", "fail"} : pc' = [pc EXCEPT ![p] = l]
        /\ UNCHANGED <<owner, name, handle, saved, out, retried, call, outcome,
                       answer, astray, faults>>
    BY <1>5 DEF Stamp, Goto, Failed, callVars
  <2>2. handle[p] \in 1..Len(maps)
    BY <2>1, OpenIs
  <2>3. maps' \in Seq(Map) /\ Len(maps') = Len(maps)
    BY <1>0, <2>1, <2>2, StatusWritten DEF Status
  <2>4. TypeOK'
    BY <1>0, <2>1, <2>3 DEF TypeOK, Map, ClientPC, WorkerPC
  <2>5. Opened'
    BY <1>0, <2>1 DEF Opened, TypeOK
  <2> QED
    BY <2>4, <2>5 DEF Types
<1>6. CASE Restore(p)
  <2>1. /\ pc[p] = "restore" /\ SetStatus(p, saved[p].status)
        /\ \E l \in {"write", "broken", "fail"} : pc' = [pc EXCEPT ![p] = l]
        /\ UNCHANGED <<owner, name, handle, saved, out, retried, call, outcome,
                       answer, astray, faults>>
    BY <1>6 DEF Restore, Goto, Failed, callVars
  <2>2. handle[p] \in 1..Len(maps) /\ saved[p].status \in Status
    BY <1>0, <2>1, OpenIs DEF TypeOK
  <2>3. maps' \in Seq(Map) /\ Len(maps') = Len(maps)
    BY <1>0, <2>1, <2>2, StatusWritten
  <2>4. TypeOK'
    BY <1>0, <2>1, <2>3 DEF TypeOK, Map, ClientPC, WorkerPC
  <2>5. Opened'
    BY <1>0, <2>1 DEF Opened, TypeOK
  <2> QED
    BY <2>4, <2>5 DEF Types
<1> QED
  BY <1>1, <1>2, <1>3, <1>4, <1>5, <1>6 DEF Resize

\* The other steps that both sides take.
LEMMA MessageTypes ==
    ASSUME Types, NEW p \in Party, Reconnect(p) \/ Write(p) \/ Flag(p)
    PROVE  Types'
<1> USE DEF Closed, BothPC
<1>0. TypeOK /\ Opened
  BY DEF Types
<1>1. CASE Reconnect(p)
  <2>1. /\ pc[p] = "reconnect" /\ retried' \in BOOLEAN
        /\ \/ /\ name # 0 /\ handle' = [handle EXCEPT ![p] = name]
              /\ pc' = [pc EXCEPT ![p] = "check"]
           \/ /\ handle' = [handle EXCEPT ![p] = 0]
              /\ pc' = [pc EXCEPT ![p] = Failed(p)]
        /\ UNCHANGED <<owner, maps, name, saved, out, call, outcome, answer,
                       astray, faults>>
    BY <1>0, <1>1 DEF Reconnect, Goto, callVars, TypeOK
  <2>2. TypeOK'
    <3>1. handle' \in [Party -> 0..Len(maps)]
      <4>1. 0 \in 0..Len(maps) /\ name \in 0..Len(maps)
        BY <1>0, <2>1, OpenIs DEF TypeOK
      <4> QED
        BY <1>0, <2>1, <4>1 DEF TypeOK
    <3>2. pc' \in [Party -> ClientPC \cup WorkerPC \cup BothPC]
      BY <1>0, <2>1 DEF TypeOK, Failed, ClientPC, WorkerPC
    <3> QED
      BY <1>0, <2>1, <3>1, <3>2 DEF TypeOK
  <2>3. Opened'
    BY <1>0, <2>1 DEF Opened, TypeOK, Failed
  <2> QED
    BY <2>2, <2>3 DEF Types
<1>2. CASE Write(p)
  <2>1. /\ pc[p] = "write" /\ pc' = [pc EXCEPT ![p] = "flag"]
        /\ SetBody(p, out[p]) /\ out[p] \in Message
        /\ UNCHANGED <<owner, name, handle, saved, out, retried, call, outcome,
                       answer, astray, faults>>
    BY <1>0, <1>2 DEF Write, Goto, callVars, TypeOK
  <2>2. handle[p] \in 1..Len(maps)
    BY <2>1, OpenIs
  <2>3. maps' \in Seq(Map) /\ Len(maps') = Len(maps)
    BY <1>0, <2>1, <2>2, BodyWritten
  <2>4. TypeOK'
    BY <1>0, <2>1, <2>3 DEF TypeOK, Map
  <2>5. Opened'
    BY <1>0, <2>1 DEF Opened, TypeOK
  <2> QED
    BY <2>4, <2>5 DEF Types
<1>3. CASE Flag(p)
  <2>1. /\ pc[p] = "flag"
        /\ \E s \in Status : SetStatus(p, s)
        /\ \E l \in {"release", "leave"} : pc' = [pc EXCEPT ![p] = l]
        /\ UNCHANGED <<owner, name, handle, saved, out, retried, call, outcome,
                       answer, astray, faults>>
    BY <1>3 DEF Flag, Goto, callVars, Status
  <2>2. handle[p] \in 1..Len(maps)
    BY <2>1, OpenIs
  <2>3. maps' \in Seq(Map) /\ Len(maps') = Len(maps)
    BY <1>0, <2>1, <2>2, StatusWritten
  <2>4. TypeOK'
    BY <1>0, <2>1, <2>3 DEF TypeOK, Map, ClientPC, WorkerPC
  <2>5. Opened'
    BY <1>0, <2>1 DEF Opened, TypeOK
  <2> QED
    BY <2>4, <2>5 DEF Types
<1> QED
  BY <1>1, <1>2, <1>3

\* What sem_wait takes.
LEMMA LockTypes ==
    ASSUME TypeOK, NEW p \in Holder, Lock(p)
    PROVE  locking' \in SUBSET Holder /\ spare' \in Nat
  BY DEF TypeOK, Lock

\* The client's own steps.
LEMMA ClientTypes ==
    ASSUME Types,
           \/ \E r \in Request, n \in RequestSize : Call(r, n)
           \/ ClientConnect \/ ClientRelease \/ ClientLock \/ ClientCheck
           \/ ClientRead
    PROVE  Types'
<1> USE DEF Closed, BothPC, ClientPC
<1>0. TypeOK /\ Opened /\ Client \in Party /\ Client \in Holder
  BY DEF Types, Party, Holder
<1>1. CASE \E r \in Request, n \in RequestSize : Call(r, n)
  <2>1. PICK r \in Request, n \in RequestSize : Call(r, n)
    BY <1>1
  <2>2. /\ pc[Client] = "idle" /\ call' = r
        /\ \E l \in {"write", "invalidate"} : pc' = [pc EXCEPT ![Client] = l]
        /\ out' = [out EXCEPT ![Client] = RequestMsg(r, n)]
        /\ outcome' = NoReply /\ answer' = NoReply /\ retried' = FALSE
        /\ UNCHANGED <<owner, maps, name, handle, saved, astray, faults>>
    BY <2>1 DEF Call, Goto
  <2>3. TypeOK'
    <3>1. RequestMsg(r, n) \in Message
      BY MessageParts
    <3>2. out' \in [Party -> Message]
      BY <1>0, <2>2, <3>1 DEF TypeOK
    <3>3. pc' \in [Party -> ClientPC \cup WorkerPC \cup BothPC]
      BY <1>0, <2>2 DEF TypeOK
    <3> QED
      BY <1>0, <2>2, <3>2, <3>3 DEF TypeOK
  <2>4. Opened'
    BY <1>0, <2>2 DEF Opened, TypeOK
  <2> QED
    BY <2>3, <2>4 DEF Types
<1>2. CASE ClientConnect \/ ClientRelease \/ ClientLock \/ ClientCheck
  <2>1. /\ pc[Client] \in {"connect", "release", "lock", "check"}
        /\ \E l \in {"idle", "lock", "check", "read", "reconnect"} :
             pc' = [pc EXCEPT ![Client] = l]
        /\ owner' \in {owner, Client, Nobody} /\ astray' \in BOOLEAN
        /\ call' \in {call, NoRequest}
        /\ UNCHANGED <<maps, name, handle, saved, out, retried, outcome,
                       answer, pid, manager, kills>>
    BY <1>0, <1>2 DEF ClientConnect, ClientRelease, ClientLock, ClientCheck,
                      Goto, Lock, Unlock, UnlockRaises, callVars, TypeOK
  <2>4. UNCHANGED <<locking, spare>> \/ Lock(Client)
    BY <1>2 DEF ClientConnect, ClientRelease, ClientLock, ClientCheck
  <2>5. locking' \in SUBSET Holder /\ spare' \in Nat
    BY <1>0, <2>4, LockTypes DEF TypeOK
  <2>2. TypeOK'
    BY <1>0, <2>1, <2>5 DEF TypeOK, Holder
  <2>3. Opened'
    BY <1>0, <2>1 DEF Opened, TypeOK
  <2> QED
    BY <2>2, <2>3 DEF Types
<1>3. CASE ClientRead
  <2>1. /\ pc[Client] = "read" /\ pc' = [pc EXCEPT ![Client] = "idle"]
        /\ call' = NoRequest
        /\ answer' = IF Open(Client).body.is = "reply"
                     THEN Open(Client).body.what ELSE NoReply
        /\ UNCHANGED <<owner, maps, name, handle, saved, out, retried, outcome,
                       astray, faults>>
    BY <1>3 DEF ClientRead, Goto
  <2>2. answer' \in Reply \cup {NoReply}
    BY <1>0, <2>1, OpenIs DEF Message, Empty, RequestMsg, ReplyMsg
  <2>3. TypeOK'
    BY <1>0, <2>1, <2>2 DEF TypeOK
  <2>4. Opened'
    BY <1>0, <2>1 DEF Opened, TypeOK
  <2> QED
    BY <2>3, <2>4 DEF Types
<1> QED
  BY <1>1, <1>2, <1>3

\* A worker's own steps.
LEMMA WorkerTypes ==
    ASSUME Types, NEW w \in Worker,
           WorkerOpen(w) \/ WorkerLock(w) \/ WorkerCheck(w) \/ RunMethod(w)
           \/ WorkerLeave(w)
    PROVE  Types'
<1> USE DEF Closed, BothPC, WorkerPC
<1>0. TypeOK /\ Opened /\ w \in Party /\ w \in Holder
  BY DEF Types, Party, Holder
<1>1. CASE WorkerOpen(w)
  <2>1. /\ pc[w] = "start"
        /\ \/ /\ name # 0 /\ handle' = [handle EXCEPT ![w] = name]
              /\ pc' = [pc EXCEPT ![w] = "poll"]
           \/ handle' = handle /\ pc' = [pc EXCEPT ![w] = "gone"]
        /\ UNCHANGED <<owner, maps, name, saved, out, retried, call, outcome,
                       answer, astray, faults>>
    BY <1>1 DEF WorkerOpen, Goto, callVars
  <2>4. /\ handle' \in [Party -> 0..Len(maps)]
        /\ pc' \in [Party -> ClientPC \cup WorkerPC \cup BothPC]
    BY <1>0, <2>1 DEF TypeOK
  <2>2. TypeOK'
    BY <1>0, <2>1, <2>4 DEF TypeOK
  <2>3. Opened'
    BY <1>0, <2>1 DEF Opened, TypeOK
  <2> QED
    BY <2>2, <2>3 DEF Types
<1>2. CASE WorkerLock(w) \/ WorkerCheck(w) \/ WorkerLeave(w)
  <2>1. /\ \/ /\ pc[w] \in {"poll", "check", "leave"}
              /\ \E l \in {"poll", "check", "leave", "load", "reconnect"} :
                   pc' = [pc EXCEPT ![w] = l]
           \/ pc' = [pc EXCEPT ![w] = "gone"]
        /\ owner' \in {owner, w, Nobody}
        /\ UNCHANGED <<maps, name, handle, saved, out, retried, call, outcome,
                       answer, astray, pid, manager, kills>>
    <3>1. CASE WorkerLock(w)
      BY <3>1 DEF WorkerLock, Goto, Lock, callVars
    <3>2. CASE WorkerLeave(w)
      BY <3>2 DEF WorkerLeave, Goto, Unlock, UnlockRaises, callVars
    <3>3. CASE WorkerCheck(w)
      <4>1. pc[w] = "check" /\ Open(w).status \in Status
        BY <1>0, <3>3, OpenIs DEF WorkerCheck
      <4> QED
        BY <3>3, <4>1 DEF WorkerCheck, Goto, callVars, Status
    <3> QED
      BY <1>2, <3>1, <3>2, <3>3
  <2>4. UNCHANGED <<locking, spare>> \/ Lock(w)
    BY <1>2 DEF WorkerLock, WorkerCheck, WorkerLeave
  <2>5. locking' \in SUBSET Holder /\ spare' \in Nat
    BY <1>0, <2>4, LockTypes DEF TypeOK
  <2>6. pc' \in [Party -> ClientPC \cup WorkerPC \cup BothPC]
    BY <1>0, <2>1 DEF TypeOK
  <2>2. TypeOK'
    BY <1>0, <2>1, <2>5, <2>6 DEF TypeOK, Holder
  <2>3. Opened'
    BY <1>0, <2>1 DEF Opened, TypeOK
  <2> QED
    BY <2>2, <2>3 DEF Types
<1>3. CASE RunMethod(w)
  <2>1. pc[w] = "load" /\ Open(w).body \in Message
    BY <1>0, <1>3, OpenIs DEF RunMethod
  <2>2. Open(w).body.is = "request" => Open(w).body.what \in Request
    BY <2>1 DEF Message, Empty, RequestMsg, ReplyMsg
  <2>3. /\ \E l \in {"write", "invalidate", "fail"} : pc' = [pc EXCEPT ![w] = l]
        /\ \/ out' = out
           \/ \E r \in Reply \cup {NoReply}, n \in ReplySize :
                out' = [out EXCEPT ![w] = ReplyMsg(r, n)]
        /\ outcome' \in Reply \cup {NoReply}
        /\ UNCHANGED <<owner, maps, name, handle, saved, retried, call, answer,
                       astray, faults>>
    <3>0. UNCHANGED <<owner, maps, name, handle, saved, retried, call, answer,
                      astray, faults>>
      BY <1>3 DEF RunMethod
    <3>1. CASE Open(w).body.is = "request"
      <4>1. PICK k \in {"+", "-"}, n \in ReplySize :
              /\ out' = [out EXCEPT
                           ![w] = ReplyMsg([to |-> Open(w).body.what, kind |-> k], n)]
              /\ outcome' = [to |-> Open(w).body.what, kind |-> k]
              /\ Goto(w, IF Fits(n, w) THEN "write" ELSE "invalidate")
        BY <1>3, <3>1 DEF RunMethod
      <4>2. [to |-> Open(w).body.what, kind |-> k] \in Reply
        BY <2>2, <3>1 DEF Reply
      <4> QED
        BY <3>0, <4>1, <4>2 DEF Goto
    <3>2. CASE Open(w).body.is # "request"
      <4>1. outcome' \in Reply \cup {NoReply}
        BY <1>0, <1>3, <3>2 DEF RunMethod, TypeOK
      <4> QED
        BY <1>3, <3>0, <3>2, <4>1 DEF RunMethod, Goto
    <3> QED
      BY <3>1, <3>2
  <2>4. TypeOK'
    <3>1. \A r \in Reply \cup {NoReply}, n \in ReplySize : ReplyMsg(r, n) \in Message
      BY MessageParts
    <3>0. out \in [Party -> Message]
      BY <1>0 DEF TypeOK
    <3>2. out' \in [Party -> Message]
      BY <1>0, <2>3, <3>0, <3>1
    <3>3. pc' \in [Party -> ClientPC \cup WorkerPC \cup BothPC]
      BY <1>0, <2>3 DEF TypeOK
    <3> QED
      BY <1>0, <2>3, <3>2, <3>3 DEF TypeOK
  <2>5. Opened'
    BY <1>0, <2>1, <2>3 DEF Opened, TypeOK
  <2> QED
    BY <2>4, <2>5 DEF Types
<1> QED
  BY <1>1, <1>2, <1>3

\* Servers that are killed and come back.
LEMMA KillTypes ==
    ASSUME Types, NEW w \in Worker, Kill(w) \/ Respawn(w)
    PROVE  Types'
<1> USE DEF Closed, BothPC, WorkerPC
<1>0. TypeOK /\ Opened /\ w \in Party
  BY DEF Types, Party
<1>1. CASE Kill(w)
  <2>1. /\ pc' = [pc EXCEPT ![w] = "killed"] /\ locking' \subseteq locking
        /\ kills < MaxKills /\ kills' = kills + 1
        /\ UNCHANGED <<owner, maps, name, handle, saved, out, retried, call,
                       outcome, answer, astray, pid, spare, manager>>
    BY <1>1 DEF Kill, Goto, callVars
  <2>2. kills' \in 0..MaxKills
    BY <1>0, <2>1, ChannelAssumption DEF TypeOK
  <2>3. TypeOK'
    BY <1>0, <2>1, <2>2 DEF TypeOK
  <2>4. Opened'
    BY <1>0, <2>1 DEF Opened, TypeOK
  <2> QED
    BY <2>3, <2>4 DEF Types
<1>2. CASE Respawn(w)
  <2>1. /\ pc' = [pc EXCEPT ![w] = "start"]
        /\ handle' = [handle EXCEPT ![w] = 0] /\ pid' \in {pid, Nobody}
        /\ UNCHANGED <<owner, maps, name, saved, out, retried, call,
                       outcome, answer, astray, locking, spare, manager, kills>>
    BY <1>2 DEF Respawn, Goto, callVars
  <2>2. TypeOK'
    BY <1>0, <2>1 DEF TypeOK
  <2>3. Opened'
    BY <1>0, <2>1 DEF Opened, TypeOK
  <2> QED
    BY <2>2, <2>3 DEF Types
<1> QED
  BY <1>1, <1>2

\* The pid word, and the manager, which touch nothing but the lock.
LEMMA ManagerTypes ==
    ASSUME Types, ManagerStep \/ \E p \in Party : Record(p)
    PROVE  Types'
<1>0. TypeOK /\ Opened /\ Manager \in Holder
  BY DEF Types, Holder
<1>1. ASSUME NEW p \in Holder, Record(p)
      PROVE  Types'
  <2>1. /\ pid' = p /\ locking' \subseteq locking
        /\ UNCHANGED <<owner, maps, name, handle, pc, saved, out, retried, call,
                       outcome, answer, astray, spare, manager, kills>>
    BY <1>1 DEF Record, callVars
  <2> QED
    BY <1>0, <2>1 DEF Types, TypeOK, Opened
<1>2. CASE ManagerStep /\ ~Record(Manager)
  <2>1. UNCHANGED connection
    BY <1>2 DEF ManagerStep, ManagerLook, ManagerJudge, ManagerPost,
       ManagerLock, ManagerLockFails, ManagerUnlock
  <2>2. UNCHANGED <<locking, spare>> \/ Lock(Manager)
        \/ (UNCHANGED locking /\ spare' \in {spare, spare + 1})
    BY <1>2 DEF ManagerStep, ManagerLook, ManagerJudge, ManagerPost,
       ManagerLock, ManagerLockFails, ManagerUnlock
  <2>3. locking' \in SUBSET Holder /\ spare' \in Nat
    BY <1>0, <2>2, LockTypes DEF TypeOK
  <2>4. /\ pid' = pid /\ owner' \in {owner, Nobody, Manager}
        /\ seen' \in {seen, Nobody, pid} /\ robbed' \in BOOLEAN
        /\ mgr' \in {"rest", "judge", "post", "lock", "hold", "back"}
    BY <1>0, <1>2 DEF ManagerStep, ManagerLook, ManagerJudge, ManagerPost,
       ManagerLock, ManagerLockFails, ManagerUnlock, Lock, TypeOK
  <2>5. TypeOK'
    BY <1>0, <2>1, <2>3, <2>4 DEF TypeOK, connection, callVars
  <2> QED
    BY <1>0, <2>1, <2>5 DEF Types, Opened, connection
<1> QED
  BY <1>0, <1>1, <1>2 DEF Holder

\* The first map, and everybody who is there has it open.
LEMMA InitTypes == Init => Types
<1> SUFFICES ASSUME Init PROVE Types
  OBVIOUS
<1> DEFINE m == [status |-> "CLIENT", body |-> Empty, size |-> PageSize]
<1>1. m \in Map
  BY MessageParts, ChannelAssumption DEF Map, Status
<1>2. maps = <<m>> /\ Len(maps) = 1 /\ maps \in Seq(Map)
  BY <1>1 DEF Init
<1>3. /\ handle \in [Party -> 0..1]
      /\ pc \in [Party -> {"connect", "start", "poll"}]
      /\ \A p \in Party : pc[p] # "start" => handle[p] = 1
  <2>1. /\ handle = [p \in Party |-> IF p \in Late THEN 0 ELSE 1]
        /\ pc = [p \in Party |-> IF p = Client THEN "connect"
                                 ELSE IF p \in Late THEN "start" ELSE "poll"]
    BY DEF Init
  <2>2. Client \notin Late
    BY ChannelAssumption
  <2> QED
    BY <2>1, <2>2
<1>4. TypeOK
  <2>1. /\ saved \in [Party -> [status : Status, size : MapSize]]
        /\ out \in [Party -> Message] /\ kills \in 0..MaxKills
    BY MessageParts, ChannelAssumption DEF Init, Status
  <2>2. name \in 0..Len(maps) /\ handle \in [Party -> 0..Len(maps)]
    BY <1>2, <1>3 DEF Init
  <2>3. pc \in [Party -> ClientPC \cup WorkerPC \cup BothPC]
    BY <1>3 DEF ClientPC, WorkerPC
  <2> QED
    BY <1>2, <2>1, <2>2, <2>3 DEF Init, TypeOK, Map
<1>5. Opened
  BY <1>3 DEF Opened, Closed
<1> QED
  BY <1>4, <1>5 DEF Types

\* Whoever is killed wherever, every step leads to a well-typed state.
LEMMA StepTypes == Types /\ [Next]_vars => Types'
<1> SUFFICES ASSUME Types, [Next]_vars PROVE Types'
  OBVIOUS
<1>0. Client \in Party /\ Worker \subseteq Party
  BY DEF Party
<1>1. ASSUME NEW p \in Party, Resize(p) \/ Reconnect(p) \/ Write(p) \/ Flag(p)
      PROVE  Types'
  BY <1>1, ResizeTypes, MessageTypes
<1>2. CASE \E r \in Request, n \in RequestSize : Call(r, n)
  BY <1>2, ClientTypes
<1>3. CASE ClientStep
  BY <1>0, <1>1, <1>3, ClientTypes, ManagerTypes DEF ClientStep
<1>4. ASSUME NEW w \in Worker, WorkerStep(w)
      PROVE  Types'
  BY <1>0, <1>1, <1>4, WorkerTypes, ManagerTypes DEF WorkerStep
<1>5. CASE UNCHANGED vars
  BY <1>5 DEF vars, callVars, Types, TypeOK, Opened
<1> QED
  BY <1>2, <1>3, <1>4, <1>5, KillTypes, ManagerTypes DEF Next

-----------------------------------------------------------------------------
\* The critical area holds one party.
LEMMA Alone ==
    ASSUME CriticalArea, NEW p \in Party, pc[p] \in Critical
    PROVE  owner = p /\ \A q \in Party : q # p => pc[q] \notin Critical
  BY DEF CriticalArea

\* Nobody is in it when the lock is free.
LEMMA Vacant ==
    ASSUME CriticalArea, owner = Nobody
    PROVE  \A q \in Party : pc[q] \notin Critical
  BY ChannelAssumption DEF CriticalArea, Party

\* The newest map exists.
LEMMA NewestIs ==
    ASSUME TypeOK, Growing
    PROVE  /\ Newest \in Map /\ Newest.size \in Nat /\ Newest.size >= PageSize
           /\ Len(maps) \in 1..Len(maps)
<1>1. maps \in Seq(Map) /\ Len(maps) \in 1..Len(maps)
  BY DEF TypeOK, Map, Growing
<1>2. Newest \in Map
  BY <1>1, ElementOfSeq DEF Newest
<1> QED
  BY <1>1, <1>2, ChannelAssumption DEF Growing, Newest, Map

\* A map that is not INVALID is the newest, and can be found.
LEMMA ValidIsNewest ==
    ASSUME Types, Safe, NEW p \in Party, pc[p] \notin Closed,
           Open(p).status # "INVALID"
    PROVE  handle[p] = Len(maps) /\ name = Len(maps) /\ Open(p) = Newest
<1>1. handle[p] \in 1..Len(maps)
  BY OpenIs
<1>2. handle[p] = Len(maps)
  BY <1>1 DEF Safe, OldInvalid, Open
<1> QED
  BY <1>2 DEF Safe, Found, Open, Newest

\* Steps that leave the maps alone.
LEMMA MapsKept ==
    ASSUME Safe, UNCHANGED <<maps, name>>
    PROVE  Newest' = Newest /\ Growing' /\ OldInvalid' /\ Found'
  BY DEF Safe, Newest, Growing, OldInvalid, Found

\* The old map is marked and closed.
LEMMA InvalidateSafe ==
    ASSUME Types, Safe, NEW p \in Party, Invalidate(p)
    PROVE  Safe'
<1> USE DEF Critical, BothPC, Sending, Replacing
<1>0. /\ TypeOK /\ CriticalArea /\ Growing /\ OldInvalid /\ Found
      /\ Newcomers /\ Replaced /\ Quiet /\ Replies
  BY DEF Safe, Types
<1>1. /\ pc[p] = "invalidate" /\ pc' = [pc EXCEPT ![p] = "unlink"]
      /\ handle' = [handle EXCEPT ![p] = 0] /\ SetStatus(p, "INVALID")
      /\ UNCHANGED <<owner, name, out, outcome, answer>>
  BY DEF Invalidate, Goto, callVars
<1>2. owner = p /\ \A q \in Party : q # p => pc[q] \notin Critical
  BY <1>0, <1>1, Alone
<1>3. handle[p] = Len(maps) /\ handle[p] \in 1..Len(maps) /\ name = Len(maps)
  BY <1>0, <1>1, NewestIs DEF Newcomers
<1>4. /\ Len(maps') = Len(maps)
      /\ \A g \in 1..Len(maps) :
            /\ maps'[g].size = maps[g].size
            /\ maps'[g].status = IF g = Len(maps) THEN "INVALID"
                                                  ELSE maps[g].status
  BY <1>0, <1>1, <1>3, StatusWritten DEF Status
<1>5. /\ Newest'.size = Newest.size /\ Newest'.body = Newest.body
      /\ Newest'.status = "INVALID"
  BY <1>0, <1>1, <1>3, <1>4, StatusWritten DEF Newest, Status
<1>6. /\ pc'[p] = "unlink"
      /\ \A q \in Party : q # p => pc'[q] = pc[q] /\ handle'[q] = handle[q]
  BY <1>0, <1>1 DEF TypeOK
<1>20. CriticalArea'
  BY <1>1, <1>2, <1>6 DEF CriticalArea
<1>21. Growing' /\ OldInvalid'
  BY <1>0, <1>4 DEF Growing, OldInvalid
<1>22. Found' /\ Newcomers'
  BY <1>0, <1>1, <1>2, <1>3, <1>4, <1>5, <1>6 DEF Found, Newcomers
<1>23. Replaced'
  BY <1>0, <1>1, <1>2, <1>5, <1>6 DEF Replaced
<1>24. Quiet' /\ Replies'
  BY <1>0, <1>1, <1>4, <1>5, <1>6 DEF Quiet, Replies, Current, Party
<1> QED
  BY <1>20, <1>21, <1>22, <1>23, <1>24 DEF Safe

\* Its name is removed.
LEMMA UnlinkOldSafe ==
    ASSUME Types, Safe, NEW p \in Party, UnlinkOld(p)
    PROVE  Safe'
<1> USE DEF Critical, BothPC, Sending, Replacing
<1>0. /\ TypeOK /\ CriticalArea /\ Growing /\ OldInvalid /\ Found
      /\ Newcomers /\ Replaced /\ Quiet /\ Replies
  BY DEF Safe, Types
<1>1. /\ pc[p] = "unlink" /\ pc' = [pc EXCEPT ![p] = "create"] /\ name' = 0
      /\ UNCHANGED <<owner, maps, handle, out, outcome, answer>>
  BY DEF UnlinkOld, Goto, callVars
<1>2. owner = p /\ \A q \in Party : q # p => pc[q] \notin Critical
  BY <1>0, <1>1, Alone
<1>3. Newest' = Newest /\ Newest.status = "INVALID"
  BY <1>0, <1>1 DEF Newest, Replaced
<1>6. pc'[p] = "create" /\ \A q \in Party : q # p => pc'[q] = pc[q]
  BY <1>0, <1>1 DEF TypeOK
<1>20. CriticalArea'
  BY <1>1, <1>2, <1>6 DEF CriticalArea
<1>21. Growing' /\ OldInvalid'
  BY <1>0, <1>1 DEF Growing, OldInvalid
<1>22. Found' /\ Newcomers'
  BY <1>0, <1>1, <1>2, <1>3, <1>6 DEF Found, Newcomers
<1>23. Replaced'
  BY <1>0, <1>1, <1>2, <1>3, <1>6 DEF Replaced
<1>24. Quiet' /\ Replies'
  BY <1>0, <1>1, <1>3, <1>6 DEF Quiet, Replies, Current, Party
<1> QED
  BY <1>20, <1>21, <1>22, <1>23, <1>24 DEF Safe

\* The new map has the name, and is larger.
LEMMA CreateSafe ==
    ASSUME Types, Safe, NEW p \in Party, Create(p)
    PROVE  Safe'
<1> USE DEF Critical, BothPC, Sending, Replacing
<1>0. /\ TypeOK /\ CriticalArea /\ Growing /\ OldInvalid /\ Found
      /\ Newcomers /\ Replaced /\ Quiet /\ Replies
  BY DEF Safe, Types
<1>1. pc[p] = "create" /\ name = 0
  BY <1>0 DEF Create, Replaced
<1>2. owner = p /\ \A q \in Party : q # p => pc[q] \notin Critical
  BY <1>0, <1>1, Alone
<1>3. PICK s \in MapSize :
         /\ SizeFor(s, out[p].size)
         /\ maps' = Append(maps, [status |-> "INVALID", body |-> Empty, size |-> s])
  BY <1>1 DEF Create
<1>4. /\ pc' = [pc EXCEPT ![p] = "stamp"] /\ name' = Len(maps) + 1
      /\ handle' = [handle EXCEPT ![p] = Len(maps) + 1]
      /\ UNCHANGED <<owner, out, outcome, answer>>
  BY <1>1 DEF Create, Goto, callVars
<1>5. /\ maps' \in Seq(Map) /\ Len(maps') = Len(maps) + 1
      /\ \A g \in 1..Len(maps) : maps'[g] = maps[g]
      /\ Newest'.status = "INVALID" /\ Newest'.size = s /\ Newest'.body = Empty
  <2> DEFINE m == [status |-> "INVALID", body |-> Empty, size |-> s]
  <2>1. m \in Map
    BY MessageParts DEF Map, Status
  <2>2. /\ maps' \in Seq(Map) /\ Len(maps') = Len(maps) + 1
        /\ \A g \in 1..Len(maps) : maps'[g] = maps[g]
        /\ maps'[Len(maps) + 1] = m
    BY <1>0, <1>3, <2>1, MapAdded
  <2> QED
    BY <2>2 DEF Newest
<1>6. /\ pc'[p] = "stamp" /\ handle'[p] = Len(maps) + 1
      /\ \A q \in Party : q # p => pc'[q] = pc[q] /\ handle'[q] = handle[q]
  BY <1>0, <1>4 DEF TypeOK
<1>7. /\ s > Newest.size /\ s \in Nat /\ Newest.size >= PageSize
      /\ Newest.size \in Nat /\ Newest.status = "INVALID"
  <2>1. out[p].size \in Nat /\ out[p].size >= Newest.size - 1
    BY <1>0, <1>1, MessageParts DEF Replaced, TypeOK
  <2>2. s >= 2 * out[p].size /\ s \in Nat
    BY <1>3, ChannelAssumption DEF SizeFor
  <2>3. Newest.size >= PageSize /\ PageSize > 2 /\ Newest.size \in Nat
    BY <1>0, NewestIs, ChannelAssumption
  <2> QED
    BY <1>0, <1>1, <2>1, <2>2, <2>3, ChannelAssumption DEF Replaced
<1>20. CriticalArea'
  BY <1>2, <1>4, <1>6 DEF CriticalArea
<1>21. Growing'
  <2> DEFINE n == Len(maps)
  <2>1. n \in Nat \ {0} /\ n + 1 \in Nat \ {0}
    BY <1>0 DEF Growing
  <2>2. \A g \in 1..n : maps'[g].size = maps[g].size /\ maps[g].size \in Nat
    <3>1. maps \in Seq(Map)
      BY <1>0 DEF TypeOK, Map
    <3>2. \A g \in 1..n : maps[g] \in Map
      BY <3>1, ElementOfSeq
    <3> QED
      BY <1>5, <3>2, ChannelAssumption DEF Map
  <2>3. \A g \in 1..n : maps[g].size <= Newest.size
    BY <1>0, <2>2 DEF Growing, Newest
  <2>4. maps'[n + 1].size = s
    BY <1>5 DEF Newest
  <2>5. \A g \in 1..(n + 1) : g # n + 1 => g \in 1..n
    BY <2>1
  <2>6. ASSUME NEW g \in 1..(n + 1), NEW h \in 1..(n + 1), g < h
        PROVE  maps'[g].size < maps'[h].size
    <3>1. g \in 1..n
      BY <2>1, <2>6
    <3>2. CASE h = n + 1
      BY <1>7, <2>2, <2>3, <2>4, <3>1, <3>2
    <3>3. CASE h \in 1..n
      BY <1>0, <2>2, <2>6, <3>3 DEF Growing
    <3> QED
      BY <2>5, <3>2, <3>3
  <2>7. \A g \in 1..(n + 1) : maps'[g].size >= PageSize
    BY <1>0, <1>7, <2>2, <2>4, <2>5, ChannelAssumption DEF Growing
  <2> QED
    BY <1>5, <2>6, <2>7 DEF Growing
<1>22. OldInvalid'
  BY <1>0, <1>5, <1>7 DEF OldInvalid, Newest
<1>23. Found' /\ Newcomers'
  BY <1>0, <1>2, <1>4, <1>5, <1>6 DEF Found, Newcomers
<1>24. Replaced'
  BY <1>2, <1>4, <1>5, <1>6 DEF Replaced
<1>25. Quiet'
  BY <1>0, <1>1, <1>6 DEF Quiet, Party
<1>26. Replies'
  BY <1>0, <1>1, <1>4, <1>5, <1>6 DEF Replies, Current, Party, Empty
<1> QED
  BY <1>20, <1>21, <1>22, <1>23, <1>24, <1>25, <1>26 DEF Safe

\* Steps that write into the map a party has to itself.
LEMMA StampSafe ==
    ASSUME Types, Safe, NEW p \in Party, Stamp(p) \/ Restore(p) \/ Flag(p)
    PROVE  Safe'
<1> USE DEF Critical, BothPC, Sending, Replacing
<1>0. /\ TypeOK /\ CriticalArea /\ Growing /\ OldInvalid /\ Found
      /\ Newcomers /\ Replaced /\ Quiet /\ Replies
  BY DEF Safe, Types
<1>1. /\ pc[p] \in {"stamp", "restore", "flag"}
      /\ \E l \in {"restore", "write", "broken", "fail", "release", "leave"} :
           /\ pc' = [pc EXCEPT ![p] = l]
           /\ l \in {"restore", "write"} => pc[p] \in {"stamp", "restore"}
           /\ l = "release" => pc[p] = "flag"
      /\ \E s \in Status : SetStatus(p, s)
      /\ UNCHANGED <<owner, name, handle, out, outcome, answer>>
  BY <1>0 DEF Stamp, Restore, Flag, Goto, callVars, Failed, Status, TypeOK
<1>2. owner = p /\ \A q \in Party : q # p => pc[q] \notin Critical
  BY <1>0, <1>1, Alone
<1>3. handle[p] = Len(maps) /\ handle[p] \in 1..Len(maps) /\ name = Len(maps)
  BY <1>0, <1>1, NewestIs DEF Newcomers
<1>4. /\ Len(maps') = Len(maps)
      /\ \A g \in 1..Len(maps) :
            /\ maps'[g].size = maps[g].size /\ maps'[g].body = maps[g].body
            /\ g # Len(maps) => maps'[g].status = maps[g].status
  BY <1>0, <1>1, <1>3, StatusWritten
<1>5. Newest'.size = Newest.size /\ Newest'.body = Newest.body
  BY <1>3, <1>4 DEF Newest
<1>6. /\ pc'[p] \in {"restore", "write", "broken", "fail", "release", "leave"}
      /\ pc'[p] \in {"restore", "write"} => pc[p] \in {"stamp", "restore"}
      /\ pc'[p] = "release" => pc[p] = "flag"
      /\ \A q \in Party : q # p => pc'[q] = pc[q]
  BY <1>0, <1>1 DEF TypeOK
<1>20. CriticalArea'
  BY <1>1, <1>2, <1>6 DEF CriticalArea
<1>21. Growing' /\ OldInvalid'
  BY <1>0, <1>4 DEF Growing, OldInvalid
<1>22. Found' /\ Newcomers'
  BY <1>0, <1>1, <1>2, <1>3, <1>4, <1>6 DEF Found, Newcomers
<1>23. Replaced'
  BY <1>0, <1>1, <1>2, <1>5, <1>6 DEF Replaced
<1>24. Quiet' /\ Replies'
  BY <1>0, <1>1, <1>4, <1>5, <1>6 DEF Quiet, Replies, Current, Party
<1> QED
  BY <1>20, <1>21, <1>22, <1>23, <1>24 DEF Safe

LEMMA WriteSafe ==
    ASSUME Types, Safe, NEW p \in Party, Write(p)
    PROVE  Safe'
<1> USE DEF Critical, BothPC, Sending, Replacing
<1>0. /\ TypeOK /\ CriticalArea /\ Growing /\ OldInvalid /\ Found
      /\ Newcomers /\ Replaced /\ Quiet /\ Replies
  BY DEF Safe, Types
<1>1. /\ pc[p] = "write" /\ pc' = [pc EXCEPT ![p] = "flag"]
      /\ SetBody(p, out[p]) /\ out[p] \in Message
      /\ UNCHANGED <<owner, name, handle, out, outcome, answer>>
  BY <1>0 DEF Write, Goto, callVars, TypeOK
<1>2. owner = p /\ \A q \in Party : q # p => pc[q] \notin Critical
  BY <1>0, <1>1, Alone
<1>3. handle[p] = Len(maps) /\ handle[p] \in 1..Len(maps) /\ name = Len(maps)
  BY <1>0, <1>1, NewestIs DEF Newcomers
<1>4. /\ Len(maps') = Len(maps)
      /\ \A g \in 1..Len(maps) :
            /\ maps'[g].size = maps[g].size /\ maps'[g].status = maps[g].status
            /\ g = Len(maps) => maps'[g].body = out[p]
  BY <1>0, <1>1, <1>3, BodyWritten
<1>5. /\ Newest'.size = Newest.size /\ Newest'.status = Newest.status
      /\ Newest'.body = out[p]
  BY <1>3, <1>4 DEF Newest
<1>6. pc'[p] = "flag" /\ \A q \in Party : q # p => pc'[q] = pc[q]
  BY <1>0, <1>1 DEF TypeOK
<1>20. CriticalArea'
  BY <1>1, <1>2, <1>6 DEF CriticalArea
<1>21. Growing' /\ OldInvalid'
  BY <1>0, <1>4 DEF Growing, OldInvalid
<1>22. Found' /\ Newcomers'
  BY <1>0, <1>1, <1>2, <1>3, <1>4, <1>6 DEF Found, Newcomers
<1>23. Replaced'
  BY <1>0, <1>1, <1>2, <1>5, <1>6 DEF Replaced
<1>24. Quiet'
  BY <1>0, <1>1, <1>4, <1>5, <1>6 DEF Quiet, Party
<1>25. Replies'
  BY <1>0, <1>1, <1>5, <1>6 DEF Replies, Current, Party
<1> QED
  BY <1>20, <1>21, <1>22, <1>23, <1>24, <1>25 DEF Safe

\* Steps of p that change no map and no message: what they must respect.
LEMMA MoveSafe ==
    ASSUME Types, Safe, NEW p \in Party, NEW l,
           l \notin Sending \cup {"connect"},
           pc' = [pc EXCEPT ![p] = l],
           \A q \in Party : q # p => handle'[q] = handle[q],
           owner' = owner \/ owner = Nobody \/ owner = p,
           l \in Critical => owner' = p,
           l \in {"idle", "release", "read", "load"} =>
               handle'[p] = Len(maps) /\ name = Len(maps),
           l = "load" => Newest.status = "SERVER",
           p = Client =>
               pc[p] \in {"connect", "release", "lock", "check", "reconnect"},
           UNCHANGED <<maps, name, out, outcome, answer>>
    PROVE  Safe'
<1> USE DEF Critical, BothPC, Sending, Replacing
<1>0. /\ TypeOK /\ CriticalArea /\ Growing /\ OldInvalid /\ Found
      /\ Newcomers /\ Replaced /\ Quiet /\ Replies
  BY DEF Safe, Types
<1>1. Newest' = Newest /\ Growing' /\ OldInvalid' /\ Found'
  BY MapsKept
<1>2. pc'[p] = l /\ \A q \in Party : q # p => pc'[q] = pc[q]
  BY <1>0 DEF TypeOK
<1>3. CriticalArea'
  BY <1>0, <1>2, ChannelAssumption DEF CriticalArea, Party
<1>4. Newcomers'
  BY <1>0, <1>2 DEF Newcomers
<1>5. Replaced'
  BY <1>0, <1>1, <1>2 DEF Replaced
<1>6. Quiet'
  BY <1>0, <1>1, <1>2 DEF Quiet, Party
<1>7. Replies'
  BY <1>0, <1>1, <1>2 DEF Replies, Current, Party
<1> QED
  BY <1>1, <1>3, <1>4, <1>5, <1>6, <1>7 DEF Safe

\* Taking the lock, which nobody has, looking at the map, and letting go.
LEMMA ClientSafe ==
    ASSUME Types, Safe, spare = 0, ~astray',
           ClientConnect \/ ClientRelease \/ ClientLock \/ ClientCheck
    PROVE  Safe'
<1> USE DEF Critical, BothPC, Sending, Replacing
<1>0. /\ CriticalArea /\ Newcomers /\ Quiet /\ Client \in Party
  BY DEF Safe, Party
<1>1. UNCHANGED <<maps, name, handle, out, outcome, answer>>
      /\ Client # Nobody
  BY ChannelAssumption
     DEF ClientConnect, ClientRelease, ClientLock, ClientCheck, callVars
<1>2. CASE ClientConnect
  BY <1>0, <1>1, <1>2, MoveSafe DEF ClientConnect, Goto, Lock, Quiet
<1>3. CASE ClientRelease
  <2>1. owner = Client
    BY <1>0, <1>3 DEF ClientRelease, CriticalArea
  <2> QED
    BY <1>0, <1>1, <1>3, <2>1, MoveSafe
       DEF ClientRelease, Goto, Unlock, UnlockRaises
<1>4. CASE ClientLock
  BY <1>0, <1>1, <1>4, MoveSafe DEF ClientLock, Goto, Lock
<1>5. CASE ClientCheck
  <2>1. pc[Client] = "check" /\ owner = Client
    BY <1>0, <1>5 DEF ClientCheck, CriticalArea
  <2>2. CASE Open(Client).status = "CLIENT"
    <3>1. handle[Client] = Len(maps) /\ name = Len(maps)
      BY <1>0, <2>1, <2>2, ValidIsNewest DEF Closed
    <3> QED
      BY <1>0, <1>1, <1>5, <2>1, <2>2, <3>1, MoveSafe DEF ClientCheck, Goto
  <2>3. CASE Open(Client).status = "INVALID"
    BY <1>0, <1>1, <1>5, <2>1, <2>3, MoveSafe DEF ClientCheck, Goto
  <2>4. CASE Open(Client).status = "SERVER"
    <3>1. ~retried
      BY <1>1, <1>5, <2>1, <2>4 DEF ClientCheck, UnlockRaises
    <3> QED
      BY <1>0, <1>1, <1>5, <2>1, <2>4, <3>1, MoveSafe
         DEF ClientCheck, Goto, Unlock, UnlockRaises
  <2> QED
    BY <1>5, <2>2, <2>3, <2>4 DEF ClientCheck
<1> QED
  BY <1>2, <1>3, <1>4, <1>5

\* Opening the map the name leads to.
LEMMA ReconnectSafe ==
    ASSUME Types, Safe, NEW p \in Party, Reconnect(p)
    PROVE  Safe'
<1> USE DEF Critical, BothPC, Sending, Replacing
<1>0. TypeOK /\ CriticalArea
  BY DEF Safe, Types
<1>1. /\ pc[p] = "reconnect" /\ owner = p
      /\ \E h : handle' = [handle EXCEPT ![p] = h]
      /\ UNCHANGED <<owner, maps, name, out, outcome, answer>>
  BY <1>0 DEF Reconnect, callVars, CriticalArea
<1>2. PICK l \in {"check", "broken", "fail"} :
         pc' = [pc EXCEPT ![p] = l] /\ (l = "fail" => p # Client)
  BY DEF Reconnect, Goto, Failed
<1>3. \A q \in Party : q # p => handle'[q] = handle[q]
  BY <1>0, <1>1 DEF TypeOK
<1> QED
  BY <1>1, <1>2, <1>3, MoveSafe

\* The workers' moves.
LEMMA WorkerSafe ==
    ASSUME Types, Safe, spare = 0, NEW w \in Worker,
           WorkerOpen(w) \/ WorkerLock(w) \/ WorkerCheck(w) \/ WorkerLeave(w)
    PROVE  Safe'
<1> USE DEF Critical, BothPC, Sending, Replacing
<1>0. /\ TypeOK /\ CriticalArea /\ w \in Party /\ w # Client
  BY ChannelAssumption DEF Safe, Types, Party
<1>1. /\ UNCHANGED <<maps, name, out, outcome, answer>>
      /\ \A q \in Party : q # w => handle'[q] = handle[q]
  BY <1>0 DEF WorkerOpen, WorkerLock, WorkerCheck, WorkerLeave, callVars, TypeOK
<1>2. CASE WorkerOpen(w)
  <2>1. /\ owner' = owner
        /\ \E l \in {"poll", "gone"} : pc' = [pc EXCEPT ![w] = l]
    BY <1>2 DEF WorkerOpen, Goto
  <2> QED
    BY <1>0, <1>1, <2>1, MoveSafe
<1>3. CASE WorkerLock(w)
  BY <1>0, <1>1, <1>3, MoveSafe DEF WorkerLock, Goto, Lock
<1>4. CASE WorkerCheck(w)
  <2>1. pc[w] = "check" /\ owner = w /\ owner' = owner
    BY <1>0, <1>4 DEF WorkerCheck, CriticalArea
  <2>2. CASE Open(w).status = "SERVER"
    <3>1. /\ handle[w] = Len(maps) /\ name = Len(maps)
          /\ Newest.status = "SERVER"
      BY <1>0, <2>1, <2>2, ValidIsNewest DEF Closed
    <3>2. pc' = [pc EXCEPT ![w] = "load"] /\ handle' = handle
      BY <1>4, <2>2 DEF WorkerCheck, Goto
    <3> QED
      BY <1>0, <1>1, <2>1, <3>1, <3>2, MoveSafe
  <2>3. CASE Open(w).status \in {"CLIENT", "INVALID"}
    <3>1. \E l \in {"leave", "reconnect"} : pc' = [pc EXCEPT ![w] = l]
      BY <1>4, <2>3 DEF WorkerCheck, Goto
    <3> QED
      BY <1>0, <1>1, <2>1, <3>1, MoveSafe
  <2> QED
    BY <1>0, <2>1, <2>2, <2>3, OpenIs DEF Closed, Status
<1>5. CASE WorkerLeave(w)
  <2>1. pc[w] \in {"leave", "fail"} /\ owner = w
    BY <1>0, <1>5 DEF WorkerLeave, CriticalArea
  <2>2. \E l \in {"poll", "gone"} : pc' = [pc EXCEPT ![w] = l]
    BY <1>5 DEF WorkerLeave, Goto, Unlock
  <2> QED
    BY <1>0, <1>1, <2>1, <2>2, MoveSafe
<1> QED
  BY <1>2, <1>3, <1>4, <1>5

\* Kills and new servers.
LEMMA KillSafe ==
    ASSUME Types, Safe, NEW w \in Worker, Kill(w) \/ Respawn(w)
    PROVE  Safe'
<1> USE DEF Critical, BothPC, Sending, Replacing
<1>0. /\ TypeOK /\ CriticalArea /\ w \in Party /\ Client # w
  BY ChannelAssumption DEF Safe, Types, Party
<1>1. /\ \E l \in {"killed", "start"} : pc' = [pc EXCEPT ![w] = l]
      /\ \E h : handle' = [handle EXCEPT ![w] = h] \/ handle' = handle
      /\ UNCHANGED <<owner, maps, name, out, outcome, answer>>
  BY DEF Kill, Respawn, Goto, callVars
<1>2. \A q \in Party : q # w => handle'[q] = handle[q]
  BY <1>0, <1>1 DEF TypeOK
<1> QED
  BY <1>0, <1>1, <1>2, MoveSafe

\* Steps that touch nothing but the lock, and that only if nobody uses it.
LEMMA LockSafe ==
    ASSUME Safe, UNCHANGED <<maps, name, handle, pc, out, outcome, answer>>,
           owner' = owner \/ \A p \in Party : pc[p] \notin Critical
    PROVE  Safe'
<1>1. CriticalArea'
  BY DEF Safe, CriticalArea
<1> QED
  BY <1>1 DEF Safe, Growing, OldInvalid, Found, Newest, Newcomers, Replaced,
              Quiet, Replies, Current

(* The pid word, and the manager: it takes a lock that is free, and gives  *)
(* back its own or, as long as nobody is robbed, that of somebody dead.    *)
LEMMA ManagerSafe ==
    ASSUME Safe, spare = 0, ~robbed', ManagerStep \/ \E p \in Party : Record(p)
    PROVE  Safe'
<1>0. CriticalArea
  BY DEF Safe
<1>1. UNCHANGED <<maps, name, handle, pc, out, outcome, answer>>
  BY DEF Record, ManagerStep, ManagerLook, ManagerJudge, ManagerPost,
     ManagerLock, ManagerLockFails, ManagerUnlock, connection, callVars
<1>2. CASE owner' # owner
  <2>1. ManagerPost \/ ManagerLock
    BY <1>2 DEF Record, ManagerStep, ManagerLook, ManagerJudge,
       ManagerLockFails, ManagerUnlock
  <2>2. owner \in {Manager, Nobody} \/ Dead(owner)
    BY <2>1 DEF ManagerPost, ManagerLock, Lock, LeftBehind
  <2>3. \A p \in Party : pc[p] \notin Critical
    BY <1>0, <2>2, ChannelAssumption
       DEF CriticalArea, Critical, BothPC, Dead, Party
  <2> QED
    BY <1>1, <2>3, LockSafe
<1> QED
  BY <1>1, <1>2, LockSafe

\* A new call: what stands in the map is nobody's reply until it is overwritten.
LEMMA CallSafe ==
    ASSUME Types, Safe, NEW r \in Request, NEW n \in RequestSize, Call(r, n)
    PROVE  Safe'
<1> USE DEF Critical, BothPC, Sending, Replacing
<1>0. /\ TypeOK /\ CriticalArea /\ Growing /\ OldInvalid /\ Found
      /\ Newcomers /\ Replaced /\ Quiet /\ Replies
      /\ Client \in Party /\ Client \notin Worker
  BY ChannelAssumption DEF Safe, Types, Party
<1>1. /\ pc[Client] = "idle" /\ outcome' = NoReply /\ answer' = NoReply
      /\ out' = [out EXCEPT ![Client] = RequestMsg(r, n)]
      /\ pc' = [pc EXCEPT ![Client] = IF Fits(n, Client) THEN "write"
                                      ELSE "invalidate"]
      /\ UNCHANGED <<owner, maps, name, handle>>
  BY DEF Call, Goto
<1>2. /\ owner = Client /\ \A q \in Party : q # Client => pc[q] \notin Critical
  BY <1>0, <1>1, Alone
<1>3. handle[Client] = Len(maps) /\ name = Len(maps) /\ Open(Client) = Newest
  BY <1>0, <1>1 DEF Newcomers, Open, Newest
<1>4. Newest' = Newest /\ Growing' /\ OldInvalid' /\ Found'
  BY <1>1, MapsKept
<1>5. ~Fits(n, Client) => n >= Newest.size - 1
  BY <1>0, <1>3, NewestIs, ChannelAssumption DEF Fits
<1>6. /\ pc'[Client] \in {"write", "invalidate"}
      /\ pc'[Client] = "invalidate" => n >= Newest.size - 1
      /\ \A q \in Party : q # Client => pc'[q] = pc[q]
  BY <1>0, <1>1, <1>5 DEF TypeOK
<1>7. out'[Client].is = "request" /\ out'[Client].size = n
  <2>1. RequestMsg(r, n).is = "request" /\ RequestMsg(r, n).size = n
    BY MessageParts
  <2> QED
    BY <1>0, <1>1, <2>1 DEF TypeOK
<1>20. CriticalArea' /\ Newcomers'
  BY <1>0, <1>1, <1>2, <1>3, <1>6 DEF CriticalArea, Newcomers
<1>21. Replaced'
  BY <1>2, <1>4, <1>6, <1>7 DEF Replaced
<1>22. Quiet' /\ Replies'
  BY <1>0, <1>1, <1>2, <1>6, <1>7 DEF Quiet, Replies, Party
<1> QED
  BY <1>4, <1>20, <1>21, <1>22 DEF Safe

\* The reply is returned.
LEMMA ClientReadSafe ==
    ASSUME Types, Safe, ClientRead
    PROVE  Safe'
<1> USE DEF Critical, BothPC, Sending, Replacing
<1>0. /\ TypeOK /\ CriticalArea /\ Growing /\ OldInvalid /\ Found
      /\ Newcomers /\ Replaced /\ Quiet /\ Replies
      /\ Client \in Party /\ Client \notin Worker
  BY ChannelAssumption DEF Safe, Types, Party
<1>1. /\ pc[Client] = "read" /\ pc' = [pc EXCEPT ![Client] = "idle"]
      /\ answer' = IF Open(Client).body.is = "reply"
                   THEN Open(Client).body.what ELSE NoReply
      /\ UNCHANGED <<owner, maps, name, handle, out, outcome>>
  BY DEF ClientRead, Goto
<1>2. /\ owner = Client /\ \A q \in Party : q # Client => pc[q] \notin Critical
  BY <1>0, <1>1, Alone
<1>3. handle[Client] = Len(maps) /\ name = Len(maps) /\ Open(Client) = Newest
  BY <1>0, <1>1 DEF Newcomers, Open, Newest
<1>4. Newest' = Newest /\ Growing' /\ OldInvalid' /\ Found'
  BY <1>1, MapsKept
<1>5. answer' \in {NoReply, outcome}
  BY <1>0, <1>1, <1>3 DEF Replies, Current
<1>6. pc'[Client] = "idle" /\ \A q \in Party : q # Client => pc'[q] = pc[q]
  BY <1>0, <1>1 DEF TypeOK
<1>20. CriticalArea' /\ Newcomers'
  BY <1>0, <1>1, <1>2, <1>3, <1>6 DEF CriticalArea, Newcomers
<1>21. Replaced'
  BY <1>2, <1>4, <1>6 DEF Replaced
<1>22. Quiet' /\ Replies'
  BY <1>1, <1>2, <1>4, <1>5, <1>6 DEF Quiet, Replies, Party
<1> QED
  BY <1>4, <1>20, <1>21, <1>22 DEF Safe

\* The method runs, for a request, or does not, for anything else.
LEMMA RunMethodSafe ==
    ASSUME Types, Safe, NEW w \in Worker, RunMethod(w)
    PROVE  Safe'
<1> USE DEF Critical, BothPC, Sending, Replacing
<1>0. /\ TypeOK /\ CriticalArea /\ Growing /\ OldInvalid /\ Found
      /\ Newcomers /\ Replaced /\ Quiet /\ Replies
      /\ w \in Party /\ w # Client /\ Client \in Party
  BY ChannelAssumption DEF Safe, Types, Party
<1>1. pc[w] = "load" /\ UNCHANGED <<owner, maps, name, handle, answer>>
  BY DEF RunMethod
<1>2. /\ owner = w /\ \A q \in Party : q # w => pc[q] \notin Critical
  BY <1>0, <1>1, Alone
<1>3. handle[w] = Len(maps) /\ name = Len(maps) /\ Open(w) = Newest
  BY <1>0, <1>1 DEF Newcomers, Open, Newest
<1>4. Newest' = Newest /\ Growing' /\ OldInvalid' /\ Found'
  BY <1>1, MapsKept
<1>5. CASE /\ outcome' = outcome /\ out' = out /\ pc' = [pc EXCEPT ![w] = "fail"]
  BY <1>0, <1>1, <1>2, <1>3, <1>5, MoveSafe
<1>6. CASE \E n \in ReplySize, r \in Reply \cup {NoReply} :
             /\ out' = [out EXCEPT ![w] = ReplyMsg(r, n)]
             /\ pc' = [pc EXCEPT ![w] = IF Fits(n, w) THEN "write"
                                        ELSE "invalidate"]
             /\ \/ Newest.body.is = "request" /\ outcome' = r
                \/ r = NoReply /\ outcome' = outcome
  <2>1. PICK n \in ReplySize, r \in Reply \cup {NoReply} :
             /\ out' = [out EXCEPT ![w] = ReplyMsg(r, n)]
             /\ pc' = [pc EXCEPT ![w] = IF Fits(n, w) THEN "write"
                                        ELSE "invalidate"]
             /\ \/ Newest.body.is = "request" /\ outcome' = r
                \/ r = NoReply /\ outcome' = outcome
    BY <1>6
  <2>2. ~Fits(n, w) => n >= Newest.size - 1
    BY <1>0, <1>3, NewestIs, ChannelAssumption DEF Fits
  <2>3. /\ ReplyMsg(r, n).is = "reply" /\ ReplyMsg(r, n).what = r
        /\ ReplyMsg(r, n).size = n
    BY MessageParts
  <2>4. /\ pc'[w] \in {"write", "invalidate"}
        /\ pc'[w] = "invalidate" => n >= Newest.size - 1
        /\ \A q \in Party : q # w => pc'[q] = pc[q]
    BY <1>0, <2>1, <2>2 DEF TypeOK
  <2>4a. /\ out'[w].is = "reply" /\ out'[w].size = n /\ out'[w].what = r
         /\ \A q \in Party : q # w => out'[q] = out[q]
    BY <1>0, <2>1, <2>3 DEF TypeOK
  <2>5. pc[Client] \notin Sending \cup {"idle", "connect"}
    BY <1>0, <1>1, <1>2 DEF Quiet
  <2>6. CriticalArea' /\ Newcomers'
    BY <1>0, <1>1, <1>2, <1>3, <2>4 DEF CriticalArea, Newcomers
  <2>7. Replaced'
    BY <1>2, <1>4, <2>4, <2>4a DEF Replaced
  <2>8. Quiet'
    BY <1>0, <2>4, <2>5 DEF Quiet
  <2>9. Replies'
    BY <1>0, <1>1, <1>2, <1>4, <2>1, <2>4, <2>5, <2>4a
       DEF Replies, Current, Party
  <2> QED
    BY <1>4, <2>6, <2>7, <2>8, <2>9 DEF Safe
<1>7. Newest.body.is = "request" => Newest.body.what \in Request
  BY <1>0, <1>1, <1>3, OpenIs DEF Message, Empty, RequestMsg, ReplyMsg, Closed
<1>8. CASE Newest.body.is = "request"
  <2>1. PICK k \in {"+", "-"}, n \in ReplySize :
          /\ out' = [out EXCEPT
                       ![w] = ReplyMsg([to |-> Newest.body.what, kind |-> k], n)]
          /\ outcome' = [to |-> Newest.body.what, kind |-> k]
          /\ pc' = [pc EXCEPT ![w] = IF Fits(n, w) THEN "write" ELSE "invalidate"]
    BY <1>3, <1>8 DEF RunMethod, Goto
  <2>2. [to |-> Newest.body.what, kind |-> k] \in Reply
    BY <1>7, <1>8 DEF Reply
  <2> QED
    BY <1>6, <1>8, <2>1, <2>2
<1>9. CASE Newest.body.is # "request"
  BY <1>3, <1>5, <1>6, <1>9 DEF RunMethod, Goto
<1> QED
  BY <1>8, <1>9

\* Nobody has done anything yet.
LEMMA InitSafe == Init => Safe
<1> SUFFICES ASSUME Init PROVE Safe
  OBVIOUS
<1>1. maps = <<[status |-> "CLIENT", body |-> Empty, size |-> PageSize]>>
      /\ name = 1 /\ answer = NoReply
  BY DEF Init
<1>2. /\ Len(maps) = 1 /\ Newest.status = "CLIENT" /\ Newest.body = Empty
      /\ maps[1].size = PageSize /\ PageSize \in Nat
  BY <1>1, ChannelAssumption DEF Newest
<1>3. /\ handle[Client] = 1 /\ pc[Client] = "connect"
      /\ \A p \in Party : pc[p] \in {"connect", "start", "poll"}
  <2>1. Client \in Party /\ Client \notin Late
    BY ChannelAssumption DEF Party
  <2>2. /\ handle = [p \in Party |-> IF p \in Late THEN 0 ELSE 1]
        /\ pc = [p \in Party |-> IF p = Client THEN "connect"
                                 ELSE IF p \in Late THEN "start" ELSE "poll"]
    BY DEF Init
  <2> QED
    BY <2>1, <2>2
<1>4. CriticalArea /\ Newcomers /\ Replaced
  BY <1>3 DEF CriticalArea, Newcomers, Replaced, Critical, BothPC, Sending,
              Replacing
<1>5. Growing /\ OldInvalid /\ Found
  BY <1>1, <1>2 DEF Growing, OldInvalid, Found
<1>6. Quiet /\ Replies
  BY <1>1, <1>2, <1>3
     DEF Quiet, Replies, Current, Sending, Replacing, Party, Empty
<1> QED
  BY <1>4, <1>5, <1>6 DEF Safe

(* As long as the client has not gone astray, and the manager has robbed   *)
(* nobody, the channel is safe.                                            *)
SInv ==
    /\ Types
    /\ ~robbed => spare = 0
    /\ ~astray /\ ~robbed => Safe

\* History remembers.
LEMMA NotUndone ==
    ASSUME astray \in BOOLEAN, robbed \in BOOLEAN, [Next]_vars
    PROVE  (astray => astray') /\ (robbed => robbed')
<1>1. CASE ManagerStep
  BY <1>1 DEF ManagerStep, ManagerLook, ManagerJudge, ManagerPost, ManagerLock,
     ManagerLockFails, ManagerUnlock, Record, connection, callVars
<1>2. CASE ClientStep
  BY <1>2 DEF ClientStep, Resize, Invalidate, UnlinkOld, Create, Stamp, Restore,
     Reconnect, Write, Flag, ClientConnect, ClientRelease, ClientLock,
     ClientCheck, ClientRead, Record, callVars
<1>3. ASSUME NEW w \in Worker, WorkerStep(w)
      PROVE  UNCHANGED <<astray, robbed>>
  <2>1. CASE RunMethod(w)
    BY <2>1 DEF RunMethod
  <2> QED
    BY <1>3, <2>1 DEF WorkerStep, Resize, Invalidate, UnlinkOld, Create, Stamp,
       Restore, Reconnect, Write, Flag, WorkerOpen, WorkerLock, WorkerCheck,
       WorkerLeave, Record, callVars
<1> QED
  BY <1>1, <1>2, <1>3 DEF Next, Call, Kill, Respawn, vars, callVars

\* A second permit comes from an unlock() that came too late.
LEMMA OnePermit ==
    ASSUME TypeOK, [Next]_vars, ~robbed => spare = 0, ~robbed'
    PROVE  spare' = 0
<1>1. spare = 0
  BY NotUndone DEF TypeOK
<1>2. ASSUME NEW p, Lock(p)
      PROVE  spare' = 0
  BY <1>1, <1>2 DEF Lock
<1>3. CASE ManagerPost
  <2>1. owner # Nobody
    BY <1>3, ChannelAssumption DEF ManagerPost, LeftBehind, Dead
  <2> QED
    BY <1>1, <1>3, <2>1 DEF ManagerPost
<1> QED
  BY <1>1, <1>2, <1>3
     DEF Next, ClientStep, WorkerStep, Resize, Invalidate, UnlinkOld,
     Create, Stamp, Restore, Reconnect, Write, Flag, Call, ClientConnect,
     ClientRelease, ClientLock, ClientCheck, ClientRead, WorkerOpen,
     WorkerLock, WorkerCheck, RunMethod, WorkerLeave, Kill, Respawn, Record,
     ManagerStep, ManagerLook, ManagerJudge, ManagerLock,
     ManagerLockFails, ManagerUnlock, vars

LEMMA StepSInv == SInv /\ [Next]_vars => SInv'
<1> SUFFICES ASSUME SInv, [Next]_vars PROVE SInv'
  OBVIOUS
<1>0. Types /\ Types' /\ Client \in Party /\ Worker \subseteq Party
  BY StepTypes DEF SInv, Party
<1>1. ~robbed' => spare' = 0
  BY <1>0, OnePermit DEF SInv, Types
<1> SUFFICES ASSUME ~astray', ~robbed' PROVE Safe'
  BY <1>0, <1>1 DEF SInv
<1>2. Safe /\ spare = 0
  BY <1>0, NotUndone DEF SInv, Types, TypeOK
<1>3. ASSUME NEW p \in Party, Resize(p) \/ Reconnect(p) \/ Write(p) \/ Flag(p)
      PROVE  Safe'
  BY <1>0, <1>2, <1>3, InvalidateSafe, UnlinkOldSafe, CreateSafe, StampSafe,
     ReconnectSafe, WriteSafe
     DEF Resize
<1>4. CASE \E r \in Request, n \in RequestSize : Call(r, n)
  BY <1>0, <1>2, <1>4, CallSafe
<1>5. CASE ClientStep
  BY <1>0, <1>2, <1>3, <1>5, ClientSafe, ClientReadSafe, ManagerSafe
     DEF ClientStep
<1>6. ASSUME NEW w \in Worker, WorkerStep(w)
      PROVE  Safe'
  BY <1>0, <1>2, <1>3, <1>6, WorkerSafe, RunMethodSafe, ManagerSafe
     DEF WorkerStep
<1>7. CASE UNCHANGED vars
  BY <1>2, <1>7, LockSafe DEF vars, callVars
<1> QED
  BY <1>0, <1>2, <1>4, <1>5, <1>6, <1>7, KillSafe, ManagerSafe DEF Next

LEMMA SafeInvariant == Spec => []SInv
<1>1. Init => SInv
  BY InitTypes, InitSafe DEF SInv, Init
<1> QED
  BY <1>1, StepSInv, PTL DEF Spec

\* The two properties of the runs that follow from it.
LEMMA SafeIsNewest == ASSUME Safe PROVE MessagesUseTheNewestMap
  BY DEF Safe, Newcomers, MessagesUseTheNewestMap, Sending, Replacing

LEMMA SafeIsTold == ASSUME Safe PROVE OldMapsAreInvalid
<1> SUFFICES ASSUME NEW g \in 1..Len(maps) - 1
             PROVE  maps[g].status = "INVALID" /\ maps[g].size < maps[g + 1].size
  BY DEF OldMapsAreInvalid
<1>1. /\ g \in 1..Len(maps) /\ g + 1 \in 1..Len(maps)
      /\ g # Len(maps) /\ g < g + 1
  BY DEF Safe, Growing
<1> QED
  BY <1>1 DEF Safe, Growing, OldInvalid

\* Every reachable state is well typed, whoever is killed wherever.
THEOREM TypeCorrect == Spec => []TypeOK
<1>1. SInv => TypeOK
  BY DEF SInv, Types
<1> QED
  BY <1>1, SafeInvariant, PTL

(* Any number of servers may be killed, at any step, and come back, and    *)
(* the manager may look and unlock at any time: until the client goes on   *)
(* without the lock (SHMClient.py:141-160), or the manager frees the lock  *)
(* of somebody alive or a lock that is free (MultiProcessManager.py:       *)
(* 430-446), an answer that is a result is that of the last run of the     *)
(* method, and that run was for this call.                                 *)
THEOREM AnswersSurviveKills == Spec => []AnswerIsLastOutcome
<1>1. SInv => AnswerIsLastOutcome
  BY DEF SInv, Safe, Replies, AnswerIsLastOutcome
<1> QED
  BY <1>1, SafeInvariant, PTL

(* And until then the owner of the lock alone reads, writes and replaces   *)
(* maps, uses the newest, and all older ones are marked and smaller: a     *)
(* killed server leaves a half-done replacement, but not two maps in use.  *)
THEOREM KillsSpareTheMaps ==
    Spec => [](~astray /\ ~robbed =>
                 CriticalArea /\ MessagesUseTheNewestMap /\ OldMapsAreInvalid)
<1>1. SInv => (~astray /\ ~robbed =>
                 CriticalArea /\ MessagesUseTheNewestMap /\ OldMapsAreInvalid)
  BY SafeIsNewest, SafeIsTold DEF SInv, Safe
<1> QED
  BY <1>1, SafeInvariant, PTL

-----------------------------------------------------------------------------
\* What the status byte says while p may write.
Own(p) == IF p = Client THEN "CLIENT" ELSE "SERVER"

\* The name leads to the newest map, except between its two halves of get_mmap.
Named ==
    /\ (\A p \in Party : pc[p] # "create") => name = Len(maps)
    /\ \A p \in Party : pc[p] = "create" => name = 0

NewestValid ==
    (\A p \in Party : pc[p] \notin Replacing) => Newest.status # "INVALID"

Handles ==
    /\ \A p \in Party :
        /\ pc[p] \in {"release", "read", "load", "invalidate", "stamp",
                      "restore", "write", "flag"} => handle[p] = Len(maps)
        /\ pc[p] \in {"poll", "check", "reconnect", "leave", "lock"} =>
               handle[p] \in 1..Len(maps)
        /\ pc[p] = "reconnect" => handle[p] # Len(maps)
    /\ pc[Client] \in {"connect", "idle"} => handle[Client] = Len(maps)

\* How far the replacement of a map has got, and what it will put back.
Replacement ==
    \A p \in Party :
        /\ pc[p] \in {"unlink", "create"} => saved[p].size = Newest.size
        /\ pc[p] \in Replacing \cup {"restore"} => saved[p].status = Own(p)
        /\ pc[p] = "stamp" => saved[p].size < Newest.size
        /\ pc[p] \in Replacing => Newest.status = "INVALID"
        /\ pc[p] = "restore" => Newest.status = "CLIENT"
        /\ pc[p] \in {"invalidate", "write", "flag"} => Newest.status = Own(p)
        /\ pc[p] = "flag" => Newest.body = out[p]

Posted ==
    /\ Newest.status = "SERVER"
    /\ Newest.body.is = "request"
    /\ Newest.body.what = call

Answered ==
    /\ Newest.status = "CLIENT"
    /\ Newest.body.is = "reply"
    /\ Newest.body.what = outcome

\* Where a call is, from the client's side.
ClientSide ==
    /\ pc[Client] \in ClientPC \cup BothPC
    /\ call = NoRequest <=> pc[Client] \in {"connect", "idle"}
    /\ pc[Client] \in {"connect", "idle"} => Newest.status = "CLIENT"
    /\ pc[Client] \in Sending =>
         outcome = NoReply /\ out[Client].is = "request" /\ out[Client].what = call
    /\ pc[Client] = "release" => Posted /\ outcome = NoReply
    /\ pc[Client] \in Sending \cup {"release", "lock"} => ~retried
    /\ pc[Client] = "check" /\ retried => outcome # NoReply
    /\ pc[Client] \in {"lock", "check", "reconnect"} =>
         /\ outcome = NoReply => Posted /\ handle[Client] = Len(maps)
         /\ outcome # NoReply => Answered \/ \E w \in Worker : pc[w] \in Sending
    /\ pc[Client] = "read" => Answered /\ outcome # NoReply

\* And from that of the worker that has it.
WorkerSide ==
    \A w \in Worker :
        /\ pc[w] \in {"load"} \cup Sending => pc[Client] = "lock"
        /\ pc[w] = "load" => outcome = NoReply
        /\ pc[w] \in Sending =>
             outcome # NoReply /\ out[w].is = "reply" /\ out[w].what = outcome

Survives == ConnectionSurvives /\ \A w \in Worker : pc[w] # "killed"

\* What the first part has shown of a channel whose client is not astray, and
\* that the manager has nothing to do.
Kept == Types /\ Safe /\ ~astray /\ spare = 0 /\ mgr = "rest" /\ ~robbed

IInv ==
    /\ Kept /\ Survives /\ Named /\ NewestValid /\ Handles /\ Replacement
    /\ ClientSide /\ WorkerSide

-----------------------------------------------------------------------------
\* The old map is marked and closed.
LEMMA InvalidateKeeps ==
    ASSUME IInv, Kept', NEW p \in Party, Invalidate(p)
    PROVE  IInv'
<1> USE DEF Critical, BothPC, Sending, Replacing
<1>0. /\ TypeOK /\ CriticalArea /\ Survives /\ Growing
      /\ OldInvalid /\ Named /\ NewestValid /\ Handles
      /\ Replacement /\ ClientSide /\ WorkerSide
  BY DEF IInv, Kept, Types, Safe
<1>1. /\ pc[p] = "invalidate" /\ pc' = [pc EXCEPT ![p] = "unlink"]
      /\ handle' = [handle EXCEPT ![p] = 0]
      /\ saved' = [saved EXCEPT ![p] = [status |-> Open(p).status,
                                        size |-> Open(p).size]]
      /\ SetStatus(p, "INVALID")
      /\ UNCHANGED <<owner, name, out, retried, call, outcome, answer, kills>>
  BY DEF Invalidate, Goto, callVars
<1>2. owner = p /\ \A q \in Party : q # p => pc[q] \notin Critical
  BY <1>0, <1>1, Alone
<1>3. handle[p] = Len(maps) /\ handle[p] \in 1..Len(maps)
  BY <1>0, <1>1 DEF Handles, Growing
<1>4. /\ maps' \in Seq(Map) /\ Len(maps') = Len(maps)
      /\ \A g \in 1..Len(maps) :
            /\ maps'[g].size = maps[g].size
            /\ maps'[g].body = maps[g].body
            /\ maps'[g].status = IF g = Len(maps) THEN "INVALID"
                                                  ELSE maps[g].status
  BY <1>0, <1>1, <1>3, StatusWritten DEF Status
<1>5. Open(p) = Newest /\ Newest \in Map
  <2>1. maps \in Seq(Map)
    BY <1>0 DEF TypeOK, Map
  <2> QED
    BY <1>3, <2>1 DEF Open, Newest
<1>6. /\ pc'[p] = "unlink" /\ handle'[p] = 0
      /\ saved'[p].status = Newest.status /\ saved'[p].size = Newest.size
      /\ \A q \in Party : q # p =>
            pc'[q] = pc[q] /\ handle'[q] = handle[q] /\ saved'[q] = saved[q]
  BY <1>0, <1>1, <1>5 DEF TypeOK
<1>7. /\ Newest'.size = Newest.size /\ Newest'.body = Newest.body
      /\ Newest'.status = "INVALID"
  BY <1>0, <1>4 DEF Newest, Growing
<1>22. Survives'
  BY <1>0, <1>1 DEF Survives, ConnectionSurvives
<1>25. Named'
  BY <1>0, <1>1, <1>4 DEF Named
<1>26. NewestValid'
  BY <1>6 DEF NewestValid
<1>27. Handles'
  BY <1>0, <1>1, <1>4, <1>6 DEF Handles
<1>28. Replacement'
  BY <1>0, <1>1, <1>2, <1>6, <1>7 DEF Replacement
<1>29. ClientSide'
  BY <1>0, <1>1 DEF ClientSide, WorkerSide, Party
<1>30. WorkerSide'
  BY <1>0, <1>1 DEF WorkerSide
<1> QED
  BY <1>22, <1>25, <1>26, <1>27, <1>28, <1>29, <1>30 DEF IInv

\* Its name is removed.
LEMMA UnlinkOldKeeps ==
    ASSUME IInv, Kept', NEW p \in Party, UnlinkOld(p)
    PROVE  IInv'
<1> USE DEF Critical, BothPC, Sending, Replacing
<1>0. /\ TypeOK /\ CriticalArea /\ Survives /\ Growing
      /\ OldInvalid /\ Named /\ NewestValid /\ Handles
      /\ Replacement /\ ClientSide /\ WorkerSide
  BY DEF IInv, Kept, Types, Safe
<1>1. /\ pc[p] = "unlink" /\ pc' = [pc EXCEPT ![p] = "create"] /\ name' = 0
      /\ UNCHANGED <<owner, maps, handle, saved, out, retried, call, outcome,
                     answer, kills>>
  BY DEF UnlinkOld, Goto, callVars
<1>2. owner = p /\ \A q \in Party : q # p => pc[q] \notin Critical
  BY <1>0, <1>1, Alone
<1>3. pc'[p] = "create" /\ \A q \in Party : q # p => pc'[q] = pc[q]
  BY <1>0, <1>1 DEF TypeOK
<1>4. Newest' = Newest
  BY <1>1 DEF Newest
<1>22. Survives'
  BY <1>0, <1>1 DEF Survives, ConnectionSurvives
<1>25. Named'
  BY <1>1, <1>3 DEF Named
<1>26. NewestValid'
  BY <1>3 DEF NewestValid
<1>27. Handles'
  BY <1>0, <1>1 DEF Handles
<1>28. Replacement'
  BY <1>0, <1>1, <1>4 DEF Replacement
<1>29. ClientSide'
  BY <1>0, <1>1, <1>4 DEF ClientSide, Posted, Answered
<1>30. WorkerSide'
  BY <1>0, <1>1 DEF WorkerSide
<1> QED
  BY <1>22, <1>25, <1>26, <1>27, <1>28, <1>29, <1>30 DEF IInv

\* A larger map is made: twice a message that does not fit is more than a map.
LEMMA CreateKeeps ==
    ASSUME IInv, Kept', NEW p \in Party, Create(p)
    PROVE  IInv'
<1> USE DEF Critical, BothPC, Sending, Replacing
<1>0. /\ TypeOK /\ CriticalArea /\ Survives /\ Growing
      /\ OldInvalid /\ Named /\ NewestValid /\ Handles
      /\ Replacement /\ ClientSide /\ WorkerSide
  BY DEF IInv, Kept, Types, Safe
<1>1. pc[p] = "create" /\ name = 0
  BY <1>0 DEF Create, Named
<1>2. owner = p /\ \A q \in Party : q # p => pc[q] \notin Critical
  BY <1>0, <1>1, Alone
<1>3. PICK s \in MapSize :
         /\ SizeFor(s, out[p].size)
         /\ maps' = Append(maps, [status |-> "INVALID", body |-> Empty, size |-> s])
  BY <1>1 DEF Create
<1>4. /\ pc' = [pc EXCEPT ![p] = "stamp"] /\ name' = Len(maps) + 1
      /\ handle' = [handle EXCEPT ![p] = Len(maps) + 1]
      /\ UNCHANGED <<owner, saved, out, retried, call, outcome, answer, kills>>
  BY <1>1 DEF Create, Goto, callVars
<1>5. /\ maps' \in Seq(Map) /\ Len(maps') = Len(maps) + 1
      /\ \A g \in 1..Len(maps) : maps'[g] = maps[g]
      /\ Newest'.status = "INVALID" /\ Newest'.size = s
  <2> DEFINE m == [status |-> "INVALID", body |-> Empty, size |-> s]
  <2>1. m \in Map
    BY MessageParts DEF Map, Status
  <2>2. /\ maps' \in Seq(Map) /\ Len(maps') = Len(maps) + 1
        /\ \A g \in 1..Len(maps) : maps'[g] = maps[g]
        /\ maps'[Len(maps) + 1] = m
    BY <1>0, <1>3, <2>1, MapAdded
  <2> QED
    BY <2>2 DEF Newest
<1>6. /\ pc'[p] = "stamp" /\ handle'[p] = Len(maps) + 1
      /\ \A q \in Party : q # p => pc'[q] = pc[q] /\ handle'[q] = handle[q]
  BY <1>0, <1>4 DEF TypeOK
<1>7. s > Newest.size /\ Newest.size >= PageSize /\ Newest.size \in Nat
  <2>1. Growing' /\ Len(maps) \in 1..(Len(maps) + 1)
        /\ Len(maps) + 1 \in 1..(Len(maps) + 1) /\ Len(maps) < Len(maps) + 1
    BY <1>0 DEF Kept, Safe, Growing
  <2>2. maps'[Len(maps)].size < maps'[Len(maps) + 1].size
    BY <1>5, <2>1 DEF Growing
  <2>3. maps'[Len(maps)] = Newest /\ maps'[Len(maps) + 1].size = s
    BY <1>0, <1>5, NewestIs DEF Newest
  <2>4. s \in Nat /\ Newest.size \in Nat /\ Newest.size >= PageSize
    BY <1>0, NewestIs, ChannelAssumption
  <2> QED
    BY <2>2, <2>3, <2>4
<1>8. Newest.size \in Nat /\ s \in Nat /\ Newest.status = "INVALID"
      /\ saved[p].size = Newest.size
  BY <1>0, <1>1, <1>7, ChannelAssumption DEF Replacement
<1>22. Survives'
  BY <1>0, <1>6 DEF Survives, ConnectionSurvives, Party
<1>25. Named'
  BY <1>2, <1>4, <1>5, <1>6 DEF Named
<1>26. NewestValid'
  BY <1>6 DEF NewestValid
<1>27. Handles'
  BY <1>0, <1>1, <1>2, <1>5, <1>6 DEF Handles, WorkerSide, Party
<1>28. Replacement'
  BY <1>0, <1>1, <1>2, <1>4, <1>5, <1>6, <1>7 DEF Replacement
<1>29. ClientSide'
  BY <1>0, <1>1, <1>4 DEF ClientSide, Posted, Answered, Replacement
<1>30. WorkerSide'
  BY <1>0, <1>1, <1>4 DEF WorkerSide
<1> QED
  BY <1>22, <1>25, <1>26, <1>27, <1>28, <1>29, <1>30 DEF IInv

\* create_pid_mmap stamps the new map; it is larger than the old one.
LEMMA StampKeeps ==
    ASSUME IInv, Kept', NEW p \in Party, Stamp(p)
    PROVE  IInv'
<1> USE DEF Critical, BothPC, Sending, Replacing
<1>0. /\ TypeOK /\ CriticalArea /\ Survives /\ Growing
      /\ OldInvalid /\ Named /\ NewestValid /\ Handles
      /\ Replacement /\ ClientSide /\ WorkerSide
  BY DEF IInv, Kept, Types, Safe
<1>0a. pc[p] = "stamp"
  BY DEF Stamp
<1>3. handle[p] = Len(maps) /\ handle[p] \in 1..Len(maps)
  BY <1>0, <1>0a DEF Handles, Growing
<1>5. Open(p) = Newest /\ Newest \in Map
  <2>1. maps \in Seq(Map)
    BY <1>0 DEF TypeOK, Map
  <2> QED
    BY <1>3, <2>1 DEF Open, Newest
<1>1. /\ pc[p] = "stamp" /\ pc' = [pc EXCEPT ![p] = "restore"]
      /\ SetStatus(p, "CLIENT")
      /\ UNCHANGED <<owner, name, handle, saved, out, retried, call, outcome,
                     answer, kills>>
  <2>1. saved[p].size < Newest.size /\ saved[p].size \in Nat /\ Newest.size \in Nat
    BY <1>0, <1>0a, <1>5, ChannelAssumption DEF Replacement, TypeOK, Map
  <2> QED
    BY <1>5, <2>1 DEF Stamp, Goto, callVars
<1>2. owner = p /\ \A q \in Party : q # p => pc[q] \notin Critical
  BY <1>0, <1>1, Alone
<1>4. /\ maps' \in Seq(Map) /\ Len(maps') = Len(maps)
      /\ \A g \in 1..Len(maps) :
            /\ maps'[g].size = maps[g].size
            /\ maps'[g].body = maps[g].body
            /\ maps'[g].status = IF g = Len(maps) THEN "CLIENT"
                                                  ELSE maps[g].status
  BY <1>0, <1>1, <1>3, StatusWritten DEF Status
<1>6. pc'[p] = "restore" /\ \A q \in Party : q # p => pc'[q] = pc[q]
  BY <1>0, <1>1 DEF TypeOK
<1>7. /\ Newest'.size = Newest.size /\ Newest'.body = Newest.body
      /\ Newest'.status = "CLIENT"
  BY <1>0, <1>4 DEF Newest, Growing
<1>22. Survives'
  BY <1>0, <1>1 DEF Survives, ConnectionSurvives
<1>25. Named'
  BY <1>0, <1>1, <1>4 DEF Named
<1>26. NewestValid'
  BY <1>7 DEF NewestValid
<1>27. Handles'
  BY <1>0, <1>1, <1>4 DEF Handles
<1>28. Replacement'
  BY <1>0, <1>1, <1>2, <1>6, <1>7 DEF Replacement
<1>29. ClientSide'
  BY <1>0, <1>1 DEF ClientSide, WorkerSide, Party
<1>30. WorkerSide'
  BY <1>0, <1>1 DEF WorkerSide
<1> QED
  BY <1>22, <1>25, <1>26, <1>27, <1>28, <1>29, <1>30 DEF IInv

\* The old status is put back.
LEMMA RestoreKeeps ==
    ASSUME IInv, Kept', NEW p \in Party, Restore(p)
    PROVE  IInv'
<1> USE DEF Critical, BothPC, Sending, Replacing
<1>0. /\ TypeOK /\ CriticalArea /\ Survives /\ Growing
      /\ OldInvalid /\ Named /\ NewestValid /\ Handles
      /\ Replacement /\ ClientSide /\ WorkerSide
  BY DEF IInv, Kept, Types, Safe
<1>1. /\ pc[p] = "restore" /\ pc' = [pc EXCEPT ![p] = "write"]
      /\ SetStatus(p, Own(p))
      /\ UNCHANGED <<owner, name, handle, saved, out, retried, call, outcome,
                     answer, kills>>
  BY <1>0 DEF Restore, Goto, callVars, Replacement, Own
<1>2. owner = p /\ \A q \in Party : q # p => pc[q] \notin Critical
  BY <1>0, <1>1, Alone
<1>3. handle[p] = Len(maps) /\ handle[p] \in 1..Len(maps)
  BY <1>0, <1>1 DEF Handles, Growing
<1>5. Open(p) = Newest /\ Newest \in Map
  <2>1. maps \in Seq(Map)
    BY <1>0 DEF TypeOK, Map
  <2> QED
    BY <1>3, <2>1 DEF Open, Newest
<1>4. /\ maps' \in Seq(Map) /\ Len(maps') = Len(maps)
      /\ \A g \in 1..Len(maps) :
            /\ maps'[g].size = maps[g].size
            /\ maps'[g].body = maps[g].body
            /\ maps'[g].status = IF g = Len(maps) THEN Own(p)
                                                  ELSE maps[g].status
  BY <1>0, <1>1, <1>3, StatusWritten DEF Status, Own
<1>6. pc'[p] = "write" /\ \A q \in Party : q # p => pc'[q] = pc[q]
  BY <1>0, <1>1 DEF TypeOK
<1>7. /\ Newest'.size = Newest.size /\ Newest'.body = Newest.body
      /\ Newest'.status = Own(p)
  BY <1>0, <1>4 DEF Newest, Growing
<1>22. Survives'
  BY <1>0, <1>1 DEF Survives, ConnectionSurvives
<1>25. Named'
  BY <1>0, <1>1, <1>4 DEF Named
<1>26. NewestValid'
  BY <1>7 DEF NewestValid, Own
<1>27. Handles'
  BY <1>0, <1>1, <1>4 DEF Handles
<1>28. Replacement'
  BY <1>2, <1>6, <1>7 DEF Replacement
<1>29. ClientSide'
  BY <1>0, <1>1 DEF ClientSide, WorkerSide, Party
<1>30. WorkerSide'
  BY <1>0, <1>1 DEF WorkerSide
<1> QED
  BY <1>22, <1>25, <1>26, <1>27, <1>28, <1>29, <1>30 DEF IInv

\* The message is written.
LEMMA WriteKeeps ==
    ASSUME IInv, Kept', NEW p \in Party, Write(p)
    PROVE  IInv'
<1> USE DEF Critical, BothPC, Sending, Replacing
<1>0. /\ TypeOK /\ CriticalArea /\ Survives /\ Growing
      /\ OldInvalid /\ Named /\ NewestValid /\ Handles
      /\ Replacement /\ ClientSide /\ WorkerSide
  BY DEF IInv, Kept, Types, Safe
<1>1. /\ pc[p] = "write" /\ pc' = [pc EXCEPT ![p] = "flag"]
      /\ SetBody(p, out[p]) /\ out[p] \in Message
      /\ UNCHANGED <<owner, name, handle, saved, out, retried, call, outcome,
                     answer, kills>>
  BY <1>0 DEF Write, Goto, callVars, TypeOK
<1>2. owner = p /\ \A q \in Party : q # p => pc[q] \notin Critical
  BY <1>0, <1>1, Alone
<1>3. handle[p] = Len(maps) /\ handle[p] \in 1..Len(maps)
  BY <1>0, <1>1 DEF Handles, Growing
<1>5. Open(p) = Newest /\ Newest \in Map
  <2>1. maps \in Seq(Map)
    BY <1>0 DEF TypeOK, Map
  <2> QED
    BY <1>3, <2>1 DEF Open, Newest
<1>4. /\ maps' \in Seq(Map) /\ Len(maps') = Len(maps)
      /\ \A g \in 1..Len(maps) :
            /\ maps'[g].size = maps[g].size
            /\ maps'[g].status = maps[g].status
            /\ maps'[g].body = IF g = Len(maps) THEN out[p] ELSE maps[g].body
  BY <1>0, <1>1, <1>3, BodyWritten
<1>6. pc'[p] = "flag" /\ \A q \in Party : q # p => pc'[q] = pc[q]
  BY <1>0, <1>1 DEF TypeOK
<1>7. /\ Newest'.size = Newest.size /\ Newest'.status = Newest.status
      /\ Newest'.body = out[p]
  BY <1>0, <1>4 DEF Newest, Growing
<1>22. Survives'
  BY <1>0, <1>1 DEF Survives, ConnectionSurvives
<1>25. Named'
  BY <1>0, <1>1, <1>4 DEF Named
<1>26. NewestValid'
  BY <1>0, <1>1, <1>7 DEF NewestValid
<1>27. Handles'
  BY <1>0, <1>1, <1>4 DEF Handles
<1>28. Replacement'
  BY <1>0, <1>1, <1>2, <1>7 DEF Replacement
<1>29. ClientSide'
  BY <1>0, <1>1 DEF ClientSide, WorkerSide, Party
<1>30. WorkerSide'
  BY <1>0, <1>1 DEF WorkerSide
<1> QED
  BY <1>22, <1>25, <1>26, <1>27, <1>28, <1>29, <1>30 DEF IInv

\* The status byte hands it over.
LEMMA FlagKeeps ==
    ASSUME IInv, Kept', NEW p \in Party, Flag(p)
    PROVE  IInv'
<1> USE DEF Critical, BothPC, Sending, Replacing
<1>0. /\ TypeOK /\ CriticalArea /\ Survives /\ Growing
      /\ OldInvalid /\ Named /\ NewestValid /\ Handles
      /\ Replacement /\ ClientSide /\ WorkerSide
  BY DEF IInv, Kept, Types, Safe
<1> DEFINE s == IF p = Client THEN "SERVER" ELSE "CLIENT"
           l == IF p = Client THEN "release" ELSE "leave"
<1>1. /\ pc[p] = "flag" /\ pc' = [pc EXCEPT ![p] = l] /\ SetStatus(p, s)
      /\ UNCHANGED <<owner, name, handle, saved, out, retried, call, outcome,
                     answer, kills>>
  BY DEF Flag, Goto, callVars
<1>2. owner = p /\ \A q \in Party : q # p => pc[q] \notin Critical
  BY <1>0, <1>1, Alone
<1>3. handle[p] = Len(maps) /\ handle[p] \in 1..Len(maps)
  BY <1>0, <1>1 DEF Handles, Growing
<1>5. Open(p) = Newest /\ Newest \in Map
  <2>1. maps \in Seq(Map)
    BY <1>0 DEF TypeOK, Map
  <2> QED
    BY <1>3, <2>1 DEF Open, Newest
<1>4. /\ maps' \in Seq(Map) /\ Len(maps') = Len(maps)
      /\ \A g \in 1..Len(maps) :
            /\ maps'[g].size = maps[g].size
            /\ maps'[g].body = maps[g].body
            /\ maps'[g].status = IF g = Len(maps) THEN s
                                                  ELSE maps[g].status
  BY <1>0, <1>1, <1>3, StatusWritten DEF Status
<1>6. pc'[p] = l /\ \A q \in Party : q # p => pc'[q] = pc[q]
  BY <1>0, <1>1 DEF TypeOK
<1>7. /\ Newest'.size = Newest.size /\ Newest'.body = Newest.body
      /\ Newest'.status = s
  BY <1>0, <1>4 DEF Newest, Growing
<1>22. Survives'
  BY <1>0, <1>1 DEF Survives, ConnectionSurvives
<1>25. Named'
  BY <1>0, <1>1, <1>4 DEF Named
<1>26. NewestValid'
  BY <1>7 DEF NewestValid
<1>27. Handles'
  BY <1>0, <1>1, <1>3, <1>4 DEF Handles
<1>28. Replacement'
  BY <1>2, <1>6 DEF Replacement
<1>29. ClientSide'
  BY <1>0, <1>1, <1>7
     DEF ClientSide, Posted, Answered, ClientPC, WorkerSide, Replacement,
         Party
<1>30. WorkerSide'
  BY <1>0, <1>1 DEF WorkerSide
<1> QED
  BY <1>22, <1>25, <1>26, <1>27, <1>28, <1>29, <1>30 DEF IInv

\* The client takes its lock.
LEMMA ClientConnectKeeps ==
    ASSUME IInv, Kept', ClientConnect
    PROVE  IInv'
<1> USE DEF Critical, BothPC, Sending, Replacing
<1>0. /\ TypeOK /\ CriticalArea /\ Survives /\ Growing
      /\ OldInvalid /\ Named /\ NewestValid /\ Handles
      /\ Replacement /\ ClientSide /\ WorkerSide
  BY DEF IInv, Kept, Types, Safe
<1>1. /\ pc[Client] = "connect" /\ pc' = [pc EXCEPT ![Client] = "idle"]
      /\ owner = Nobody /\ owner' = Client
      /\ UNCHANGED <<maps, name, handle, saved, out, retried, call, outcome, answer,
                     kills>>
  BY DEF ClientConnect, Lock, Goto, callVars, IInv, Kept
<1>2. \A q \in Party : pc[q] \notin Critical
  BY <1>0, <1>1, Vacant
<1>3. pc'[Client] = "idle" /\ \A q \in Party : q # Client => pc'[q] = pc[q]
  BY <1>0, <1>1 DEF TypeOK, Party
<1>4. Newest' = Newest
  BY <1>1 DEF Newest
<1>5. Client \in Party /\ Client \notin Worker
  BY ChannelAssumption DEF Party
<1>22. Survives'
  BY <1>0, <1>1 DEF Survives, ConnectionSurvives
<1>25. Named'
  BY <1>0, <1>1 DEF Named
<1>26. NewestValid'
  BY <1>0, <1>1, <1>4 DEF NewestValid
<1>27. Handles'
  BY <1>0, <1>1 DEF Handles
<1>28. Replacement'
  BY <1>2, <1>3 DEF Replacement
<1>29. ClientSide'
  BY <1>0, <1>1, <1>4 DEF ClientSide, ClientPC
<1>30. WorkerSide'
  BY <1>2, <1>3 DEF WorkerSide, Party
<1> QED
  BY <1>22, <1>25, <1>26, <1>27, <1>28, <1>29, <1>30 DEF IInv

\* A call begins.
LEMMA CallKeeps ==
    ASSUME IInv, Kept', NEW r \in Request, NEW n \in RequestSize, Call(r, n)
    PROVE  IInv'
<1> USE DEF Critical, BothPC, Sending, Replacing
<1>0. /\ TypeOK /\ CriticalArea /\ Survives /\ Growing
      /\ OldInvalid /\ Named /\ NewestValid /\ Handles
      /\ Replacement /\ ClientSide /\ WorkerSide
  BY DEF IInv, Kept, Types, Safe
<1> DEFINE l == IF Fits(n, Client) THEN "write" ELSE "invalidate"
<1>5. Client \in Party /\ Client \notin Worker
  BY ChannelAssumption DEF Party
<1>1. /\ pc[Client] = "idle" /\ pc' = [pc EXCEPT ![Client] = l]
      /\ call' = r /\ outcome' = NoReply /\ answer' = NoReply /\ retried' = FALSE
      /\ out' = [out EXCEPT ![Client] = RequestMsg(r, n)]
      /\ UNCHANGED <<owner, maps, name, handle, saved, kills>>
  BY DEF Call, Goto
<1>2. owner = Client /\ \A q \in Party : q # Client => pc[q] \notin Critical
  BY <1>0, <1>1, <1>5, Alone
<1>3. /\ pc'[Client] = l /\ out'[Client] = RequestMsg(r, n)
      /\ \A q \in Party : q # Client => pc'[q] = pc[q] /\ out'[q] = out[q]
  BY <1>0, <1>1, <1>5 DEF TypeOK
<1>4. Newest' = Newest
  BY <1>1 DEF Newest
<1>6. /\ RequestMsg(r, n) \in Message /\ RequestMsg(r, n).is = "request"
      /\ RequestMsg(r, n).what = r /\ RequestMsg(r, n).size = n
      /\ r # NoRequest
  BY MessageParts, ChannelAssumption
<1>8. Newest.status = "CLIENT"
  BY <1>0, <1>1 DEF ClientSide
<1>22. Survives'
  BY <1>0, <1>1 DEF Survives, ConnectionSurvives
<1>25. Named'
  BY <1>0, <1>1 DEF Named
<1>26. NewestValid'
  BY <1>4, <1>8 DEF NewestValid
<1>27. Handles'
  BY <1>0, <1>1 DEF Handles
<1>28. Replacement'
  BY <1>2, <1>3, <1>4, <1>6, <1>8 DEF Replacement, Own
<1>29. ClientSide'
  BY <1>1, <1>3, <1>6 DEF ClientSide
<1>30. WorkerSide'
  BY <1>2, <1>3, <1>5 DEF WorkerSide, Party
<1> QED
  BY <1>22, <1>25, <1>26, <1>27, <1>28, <1>29, <1>30 DEF IInv

\* The client lets the workers in.
LEMMA ClientReleaseKeeps ==
    ASSUME IInv, Kept', ClientRelease
    PROVE  IInv'
<1> USE DEF Critical, BothPC, Sending, Replacing
<1>0. /\ TypeOK /\ CriticalArea /\ Survives /\ Growing
      /\ OldInvalid /\ Named /\ NewestValid /\ Handles
      /\ Replacement /\ ClientSide /\ WorkerSide
  BY DEF IInv, Kept, Types, Safe
<1>1. /\ pc[Client] = "release" /\ pc' = [pc EXCEPT ![Client] = "lock"]
      /\ owner' = Nobody
      /\ UNCHANGED <<maps, name, handle, saved, out, retried, call, outcome, answer,
                     kills>>
  <2>1. owner = Client /\ Client # Nobody
    BY <1>0, ChannelAssumption DEF ClientRelease, CriticalArea, Party
  <2> QED
    BY <2>1 DEF ClientRelease, Unlock, UnlockRaises, Goto, callVars
<1>2. owner = Client /\ \A q \in Party : q # Client => pc[q] \notin Critical
  BY <1>0, <1>1, Alone DEF Party
<1>3. pc'[Client] = "lock" /\ \A q \in Party : q # Client => pc'[q] = pc[q]
  BY <1>0, <1>1 DEF TypeOK, Party
<1>4. Newest' = Newest
  BY <1>1 DEF Newest
<1>5. Client \in Party /\ Client \notin Worker
  BY ChannelAssumption DEF Party
<1>22. Survives'
  BY <1>0, <1>1 DEF Survives, ConnectionSurvives
<1>25. Named'
  BY <1>0, <1>1 DEF Named
<1>26. NewestValid'
  BY <1>0, <1>1, <1>4 DEF NewestValid
<1>27. Handles'
  BY <1>0, <1>1 DEF Handles, Growing
<1>28. Replacement'
  BY <1>2, <1>3 DEF Replacement
<1>29. ClientSide'
  BY <1>0, <1>1, <1>4, <1>5 DEF ClientSide, Posted, ClientPC, Handles
<1>30. WorkerSide'
  BY <1>2, <1>3 DEF WorkerSide, Party
<1> QED
  BY <1>22, <1>25, <1>26, <1>27, <1>28, <1>29, <1>30 DEF IInv

\* It takes the lock again.
LEMMA ClientLockKeeps ==
    ASSUME IInv, Kept', ClientLock
    PROVE  IInv'
<1> USE DEF Critical, BothPC, Sending, Replacing
<1>0. /\ TypeOK /\ CriticalArea /\ Survives /\ Growing
      /\ OldInvalid /\ Named /\ NewestValid /\ Handles
      /\ Replacement /\ ClientSide /\ WorkerSide
  BY DEF IInv, Kept, Types, Safe
<1>1. /\ pc[Client] = "lock" /\ pc' = [pc EXCEPT ![Client] = "check"]
      /\ owner = Nobody /\ owner' = Client
      /\ UNCHANGED <<maps, name, handle, saved, out, retried, call, outcome, answer,
                     kills>>
  BY DEF ClientLock, Lock, Goto, callVars, IInv, Kept
<1>2. \A q \in Party : pc[q] \notin Critical
  BY <1>0, <1>1, Vacant
<1>3. pc'[Client] = "check" /\ \A q \in Party : q # Client => pc'[q] = pc[q]
  BY <1>0, <1>1 DEF TypeOK, Party
<1>4. Newest' = Newest
  BY <1>1 DEF Newest
<1>5. Client \in Party /\ Client \notin Worker
  BY ChannelAssumption DEF Party
<1>22. Survives'
  BY <1>0, <1>1 DEF Survives, ConnectionSurvives
<1>25. Named'
  BY <1>0, <1>1 DEF Named
<1>26. NewestValid'
  BY <1>0, <1>1, <1>4 DEF NewestValid
<1>27. Handles'
  BY <1>0, <1>1 DEF Handles
<1>28. Replacement'
  BY <1>2, <1>3 DEF Replacement
<1>29. ClientSide'
  BY <1>0, <1>1, <1>4 DEF ClientSide, Posted, Answered
<1>30. WorkerSide'
  BY <1>2, <1>3 DEF WorkerSide, Party
<1> QED
  BY <1>22, <1>25, <1>26, <1>27, <1>28, <1>29, <1>30 DEF IInv

\* Nothing yet, an answer, or a map that was replaced since.
LEMMA ClientCheckKeeps ==
    ASSUME IInv, Kept', ClientCheck
    PROVE  IInv'
<1> USE DEF Critical, BothPC, Sending, Replacing
<1>0. /\ TypeOK /\ CriticalArea /\ Survives /\ Growing
      /\ OldInvalid /\ Named /\ NewestValid /\ Handles
      /\ Replacement /\ ClientSide /\ WorkerSide
  BY DEF IInv, Kept, Types, Safe
<1>1. /\ pc[Client] = "check" /\ Client # Nobody
      /\ ~(owner = Nobody /\ UnlockRaises)
      /\ UNCHANGED <<maps, name, handle, saved, out, retried, call, outcome, answer,
                     kills>>
  <2>1. pc[Client] = "check" /\ owner = Client /\ Client # Nobody
    BY <1>0, ChannelAssumption DEF ClientCheck, CriticalArea, Party
  <2> QED
    BY <2>1 DEF ClientCheck, UnlockRaises, callVars
<1>2. owner = Client /\ \A q \in Party : q # Client => pc[q] \notin Critical
  BY <1>0, <1>1, Alone DEF Party
<1>3. handle[Client] \in 1..Len(maps) /\ Newest.status # "INVALID"
  BY <1>0, <1>1, <1>2 DEF Handles, NewestValid, Party
<1>4. Newest' = Newest
  BY <1>1 DEF Newest
<1>5. Client \in Party /\ Client \notin Worker
  BY ChannelAssumption DEF Party
<1>6. /\ Open(Client).status = "CLIENT" \/ Open(Client).status = "SERVER" =>
           handle[Client] = Len(maps) /\ Open(Client) = Newest
      /\ Open(Client).status = "INVALID" => handle[Client] # Len(maps)
  BY <1>0, <1>3 DEF OldInvalid, Open, Newest
<1>7. /\ outcome = NoReply => Posted /\ handle[Client] = Len(maps)
      /\ outcome # NoReply => Answered
  BY <1>0, <1>1, <1>2 DEF ClientSide, Party
<1>8. \/ /\ pc' = [pc EXCEPT ![Client] = "read"] /\ owner' = owner
         /\ Answered /\ outcome # NoReply /\ handle[Client] = Len(maps)
      \/ /\ pc' = [pc EXCEPT ![Client] = "reconnect"] /\ owner' = owner
         /\ handle[Client] # Len(maps)
      \/ /\ pc' = [pc EXCEPT ![Client] = "lock"] /\ owner' = Nobody
         /\ ~retried /\ outcome = NoReply
  <2>1. retried => outcome # NoReply
    BY <1>0, <1>1 DEF ClientSide
  <2>2. CASE Open(Client).status = "CLIENT"
    BY <1>6, <1>7, <2>2 DEF ClientCheck, Goto, Posted
  <2>3. CASE Open(Client).status = "INVALID"
    BY <1>6, <2>3 DEF ClientCheck, Goto
  <2>4. CASE Open(Client).status = "SERVER"
    BY <1>1, <1>6, <1>7, <2>1, <2>4
       DEF ClientCheck, Goto, Unlock, UnlockRaises, Answered
  <2> QED
    BY <2>2, <2>3, <2>4 DEF ClientCheck
<1>9. /\ \/ /\ pc'[Client] = "read" /\ owner' = owner
            /\ Answered /\ outcome # NoReply /\ handle[Client] = Len(maps)
         \/ /\ pc'[Client] = "reconnect" /\ owner' = owner
            /\ handle[Client] # Len(maps)
         \/ /\ pc'[Client] = "lock" /\ owner' = Nobody
            /\ ~retried /\ outcome = NoReply
      /\ \A q \in Party : q # Client => pc'[q] = pc[q]
  BY <1>0, <1>5, <1>8 DEF TypeOK
<1>22. Survives'
  BY <1>0, <1>9 DEF Survives, ConnectionSurvives, Party
<1>25. Named'
  BY <1>0, <1>1, <1>9 DEF Named
<1>26. NewestValid'
  BY <1>3, <1>4 DEF NewestValid
<1>27. Handles'
  BY <1>0, <1>1, <1>9 DEF Handles
<1>28. Replacement'
  <2>1. \A q \in Party : q # Client => pc'[q] = pc[q]
    BY <1>9
  <2>2. pc'[Client] \notin Sending
    BY <1>9
  <2> QED
    BY <1>0, <1>1, <1>4, <2>1, <2>2 DEF Replacement
<1>29. ClientSide'
  BY <1>0, <1>1, <1>4, <1>7, <1>9 DEF ClientSide, Posted, Answered, ClientPC
<1>30. WorkerSide'
  BY <1>2, <1>9 DEF WorkerSide, Party
<1> QED
  BY <1>22, <1>25, <1>26, <1>27, <1>28, <1>29, <1>30 DEF IInv

\* The reply is returned.
LEMMA ClientReadKeeps ==
    ASSUME IInv, Kept', ClientRead
    PROVE  IInv'
<1> USE DEF Critical, BothPC, Sending, Replacing
<1>0. /\ TypeOK /\ CriticalArea /\ Survives /\ Growing
      /\ OldInvalid /\ Named /\ NewestValid /\ Handles
      /\ Replacement /\ ClientSide /\ WorkerSide
  BY DEF IInv, Kept, Types, Safe
<1>1. /\ pc[Client] = "read" /\ pc' = [pc EXCEPT ![Client] = "idle"]
      /\ call' = NoRequest
      /\ UNCHANGED <<owner, maps, name, handle, saved, out, retried, outcome,
                     kills>>
  BY DEF ClientRead, Goto
<1>2. owner = Client /\ \A q \in Party : q # Client => pc[q] \notin Critical
  BY <1>0, <1>1, Alone DEF Party
<1>3. pc'[Client] = "idle" /\ \A q \in Party : q # Client => pc'[q] = pc[q]
  BY <1>0, <1>1 DEF TypeOK, Party
<1>4. Newest' = Newest
  BY <1>1 DEF Newest
<1>5. Client \in Party /\ Client \notin Worker
  BY ChannelAssumption DEF Party
<1>6. answer' = outcome
  BY <1>0, <1>5 DEF ClientRead, ClientSide, Answered, Handles, Open, Newest
<1>22. Survives'
  BY <1>0, <1>1 DEF Survives, ConnectionSurvives
<1>25. Named'
  BY <1>0, <1>1 DEF Named
<1>26. NewestValid'
  BY <1>0, <1>1, <1>4 DEF NewestValid
<1>27. Handles'
  BY <1>0, <1>1, <1>5 DEF Handles
<1>28. Replacement'
  BY <1>1, <1>2 DEF Replacement
<1>29. ClientSide'
  BY <1>0, <1>1, <1>3, <1>4 DEF ClientSide, Answered, ClientPC
<1>30. WorkerSide'
  BY <1>0, <1>1 DEF WorkerSide
<1> QED
  BY <1>22, <1>25, <1>26, <1>27, <1>28, <1>29, <1>30 DEF IInv

\* The name leads to a larger map.
LEMMA ReconnectKeeps ==
    ASSUME IInv, Kept', NEW p \in Party, Reconnect(p)
    PROVE  IInv'
<1> USE DEF Critical, BothPC, Sending, Replacing
<1>0. /\ TypeOK /\ CriticalArea /\ Survives /\ Growing
      /\ OldInvalid /\ Named /\ NewestValid /\ Handles
      /\ Replacement /\ ClientSide /\ WorkerSide
  BY DEF IInv, Kept, Types, Safe
<1>0a. pc[p] = "reconnect"
  BY DEF Reconnect
<1>2. owner = p /\ \A q \in Party : q # p => pc[q] \notin Critical
  BY <1>0, <1>0a, Alone
<1>3. /\ handle[p] \in 1..Len(maps) /\ handle[p] # Len(maps)
      /\ name = Len(maps) /\ Len(maps) \in Nat \ {0}
  BY <1>0, <1>0a, <1>2 DEF Handles, Named
<1>6. maps[name].size > Open(p).size
  <2>1. handle[p] \in 1..Len(maps) /\ name \in 1..Len(maps) /\ handle[p] < name
    BY <1>3
  <2>2. maps[handle[p]].size < maps[name].size
    BY <1>0, <2>1 DEF Growing
  <2>3. maps \in Seq(Map)
    BY <1>0 DEF TypeOK, Map
  <2>4. maps[handle[p]] \in Map /\ maps[name] \in Map
    BY <2>1, <2>3, ElementOfSeq
  <2> QED
    BY <2>2 DEF Open
<1>1. /\ handle' = [handle EXCEPT ![p] = Len(maps)]
      /\ pc' = [pc EXCEPT ![p] = "check"]
      /\ retried' = IF p = Client THEN TRUE ELSE retried
      /\ UNCHANGED <<owner, maps, name, saved, out, call, outcome, answer, kills>>
  BY <1>3, <1>6 DEF Reconnect, Goto, callVars
<1>7. /\ pc'[p] = "check" /\ handle'[p] = Len(maps)
      /\ \A q \in Party : q # p => pc'[q] = pc[q] /\ handle'[q] = handle[q]
  BY <1>0, <1>1 DEF TypeOK
<1>4. Newest' = Newest
  BY <1>1 DEF Newest
<1>5. Client \in Party /\ Client \notin Worker
  BY ChannelAssumption DEF Party
<1>22. Survives'
  BY <1>0, <1>1 DEF Survives, ConnectionSurvives
<1>25. Named'
  BY <1>0, <1>0a, <1>1 DEF Named
<1>26. NewestValid'
  BY <1>0, <1>0a, <1>2, <1>4 DEF NewestValid
<1>27. Handles'
  BY <1>0, <1>0a, <1>1, <1>7 DEF Handles
<1>28. Replacement'
  BY <1>2, <1>7 DEF Replacement
<1>29. ClientSide'
  BY <1>0, <1>0a, <1>1, <1>3, <1>4 DEF ClientSide, Posted, Answered
<1>30. WorkerSide'
  BY <1>2, <1>7 DEF WorkerSide, Party
<1> QED
  BY <1>22, <1>25, <1>26, <1>27, <1>28, <1>29, <1>30 DEF IInv

\* A worker that comes late opens the newest map, or finds none.
LEMMA WorkerOpenKeeps ==
    ASSUME IInv, Kept', NEW w \in Worker, WorkerOpen(w)
    PROVE  IInv'
<1> USE DEF Critical, BothPC, Sending, Replacing
<1>0. /\ TypeOK /\ CriticalArea /\ Survives /\ Growing
      /\ OldInvalid /\ Named /\ NewestValid /\ Handles
      /\ Replacement /\ ClientSide /\ WorkerSide
  BY DEF IInv, Kept, Types, Safe
<1>1. /\ pc[w] = "start"
      /\ UNCHANGED <<owner, maps, name, saved, out, retried, call, outcome,
                     answer, kills>>
  BY DEF WorkerOpen, callVars
<1>2. name = 0 \/ name = Len(maps)
  BY <1>0 DEF Named
<1>3. \/ /\ handle' = [handle EXCEPT ![w] = Len(maps)] /\ name # 0
         /\ pc' = [pc EXCEPT ![w] = "poll"]
      \/ handle' = handle /\ pc' = [pc EXCEPT ![w] = "gone"]
  BY <1>2 DEF WorkerOpen, Goto
<1>4. Newest' = Newest
  BY <1>1 DEF Newest
<1>5. Client \in Party /\ Client \notin Worker
  BY ChannelAssumption DEF Party
<1>6. /\ \/ pc'[w] = "poll" /\ handle'[w] = Len(maps)
         \/ pc'[w] = "gone" /\ handle'[w] = handle[w]
      /\ \A q \in Party : q # w => pc'[q] = pc[q] /\ handle'[q] = handle[q]
  BY <1>0, <1>3 DEF TypeOK, Party
<1>7. w \in Party /\ w # Client
  BY <1>5 DEF Party
<1>22. Survives'
  BY <1>0, <1>6 DEF Survives, ConnectionSurvives, Party
<1>25. Named'
  BY <1>0, <1>1, <1>6 DEF Named
<1>26. NewestValid'
  BY <1>0, <1>1, <1>4, <1>6 DEF NewestValid
<1>27. Handles'
  BY <1>0, <1>1, <1>5, <1>6 DEF Handles, Growing
<1>28. Replacement'
  BY <1>0, <1>1, <1>4, <1>6 DEF Replacement
<1>29. ClientSide'
  BY <1>0, <1>1, <1>4, <1>6 DEF ClientSide, Posted, Answered, ClientPC, Party
<1>30. WorkerSide'
  BY <1>0, <1>1, <1>6 DEF WorkerSide, Party
<1> QED
  BY <1>22, <1>25, <1>26, <1>27, <1>28, <1>29, <1>30 DEF IInv

\* A worker takes the lock.
LEMMA WorkerLockKeeps ==
    ASSUME IInv, Kept', NEW w \in Worker, WorkerLock(w)
    PROVE  IInv'
<1> USE DEF Critical, BothPC, Sending, Replacing
<1>0. /\ TypeOK /\ CriticalArea /\ Survives /\ Growing
      /\ OldInvalid /\ Named /\ NewestValid /\ Handles
      /\ Replacement /\ ClientSide /\ WorkerSide
  BY DEF IInv, Kept, Types, Safe
<1>5. w \in Party /\ w # Client /\ Client \in Party
  BY ChannelAssumption DEF Party
<1>1. /\ pc[w] = "poll" /\ pc' = [pc EXCEPT ![w] = "check"]
      /\ owner = Nobody /\ owner' = w
      /\ UNCHANGED <<maps, name, handle, saved, out, retried, call, outcome, answer,
                     kills>>
  BY DEF WorkerLock, Lock, Goto, callVars, IInv, Kept
<1>2. \A q \in Party : pc[q] \notin Critical
  BY <1>0, <1>1, Vacant
<1>3. pc'[w] = "check" /\ \A q \in Party : q # w => pc'[q] = pc[q]
  BY <1>0, <1>1, <1>5 DEF TypeOK
<1>4. Newest' = Newest
  BY <1>1 DEF Newest
<1>22. Survives'
  BY <1>0, <1>1 DEF Survives, ConnectionSurvives
<1>25. Named'
  BY <1>0, <1>1 DEF Named
<1>26. NewestValid'
  BY <1>0, <1>1, <1>4 DEF NewestValid
<1>27. Handles'
  BY <1>0, <1>1 DEF Handles
<1>28. Replacement'
  BY <1>2, <1>3 DEF Replacement
<1>29. ClientSide'
  BY <1>0, <1>1, <1>4 DEF ClientSide, Posted, Answered, ClientPC
<1>30. WorkerSide'
  BY <1>2, <1>3 DEF WorkerSide, Party
<1> QED
  BY <1>22, <1>25, <1>26, <1>27, <1>28, <1>29, <1>30 DEF IInv

\* It finds nothing, a request, or a map that was replaced since.
LEMMA WorkerCheckKeeps ==
    ASSUME IInv, Kept', NEW w \in Worker, WorkerCheck(w)
    PROVE  IInv'
<1> USE DEF Critical, BothPC, Sending, Replacing
<1>0. /\ TypeOK /\ CriticalArea /\ Survives /\ Growing
      /\ OldInvalid /\ Named /\ NewestValid /\ Handles
      /\ Replacement /\ ClientSide /\ WorkerSide
  BY DEF IInv, Kept, Types, Safe
<1>5. w \in Party /\ w # Client /\ Client \in Party
  BY ChannelAssumption DEF Party
<1>1. /\ pc[w] = "check"
      /\ UNCHANGED <<owner, maps, name, handle, saved, out, retried, call, outcome, answer,
                     kills>>
  BY DEF WorkerCheck, callVars
<1>2. owner = w /\ \A q \in Party : q # w => pc[q] \notin Critical
  BY <1>0, <1>1, <1>5, Alone
<1>4. Newest' = Newest
  BY <1>1 DEF Newest
<1>3. handle[w] \in 1..Len(maps) /\ Newest.status # "INVALID"
  BY <1>0, <1>1, <1>2, <1>5 DEF Handles, NewestValid
<1>6. /\ Open(w).status = "SERVER" => handle[w] = Len(maps) /\ Open(w) = Newest
      /\ Open(w).status = "INVALID" => handle[w] # Len(maps)
      /\ Open(w).status \in Status
  <2>1. maps \in Seq(Map)
    BY <1>0 DEF TypeOK, Map
  <2>2. maps[handle[w]] \in Map
    BY <1>3, <2>1, ElementOfSeq
  <2> QED
    BY <1>0, <1>3, <2>2 DEF OldInvalid, Open, Newest, Map
<1>7. Newest.status = "SERVER" => pc[Client] = "lock" /\ outcome = NoReply
  <2>1. pc[Client] \in {"connect", "lock", "broken"}
    BY <1>0, <1>2, <1>5 DEF ClientSide, ClientPC
  <2>2. \A v \in Worker : pc[v] \notin Sending
    BY <1>1, <1>2 DEF Party
  <2> QED
    BY <1>0, <2>1, <2>2 DEF ClientSide, Answered, Survives, ConnectionSurvives
<1>8. \/ pc' = [pc EXCEPT ![w] = "leave"]
      \/ /\ pc' = [pc EXCEPT ![w] = "load"] /\ Newest.status = "SERVER"
         /\ handle[w] = Len(maps)
      \/ pc' = [pc EXCEPT ![w] = "reconnect"] /\ handle[w] # Len(maps)
  <2>1. CASE Open(w).status = "CLIENT"
    BY <2>1 DEF WorkerCheck, Goto
  <2>2. CASE Open(w).status = "SERVER"
    BY <1>6, <2>2 DEF WorkerCheck, Goto
  <2>3. CASE Open(w).status = "INVALID"
    BY <1>6, <2>3 DEF WorkerCheck, Goto
  <2> QED
    BY <1>6, <2>1, <2>2, <2>3 DEF Status
<1>9. /\ \/ pc'[w] = "leave"
         \/ pc'[w] = "load" /\ Newest.status = "SERVER" /\ handle[w] = Len(maps)
         \/ pc'[w] = "reconnect" /\ handle[w] # Len(maps)
      /\ \A q \in Party : q # w => pc'[q] = pc[q]
  BY <1>0, <1>5, <1>8 DEF TypeOK
<1>22. Survives'
  BY <1>0, <1>9 DEF Survives, ConnectionSurvives, Party
<1>25. Named'
  BY <1>0, <1>1, <1>9 DEF Named
<1>26. NewestValid'
  BY <1>3, <1>4 DEF NewestValid
<1>27. Handles'
  BY <1>0, <1>1, <1>5, <1>9 DEF Handles
<1>28. Replacement'
  <2>1. \A q \in Party : q # w => pc'[q] = pc[q]
    BY <1>9
  <2>2. pc'[w] \notin Sending
    BY <1>9
  <2> QED
    BY <1>0, <1>1, <1>4, <2>1, <2>2 DEF Replacement
<1>29. ClientSide'
  BY <1>0, <1>1, <1>4, <1>5, <1>9 DEF ClientSide, Posted, Answered, Party
<1>30. WorkerSide'
  BY <1>1, <1>2, <1>7, <1>9 DEF WorkerSide, Party
<1> QED
  BY <1>22, <1>25, <1>26, <1>27, <1>28, <1>29, <1>30 DEF IInv

\* The method runs.
LEMMA RunMethodKeeps ==
    ASSUME IInv, Kept', NEW w \in Worker, RunMethod(w)
    PROVE  IInv'
<1> USE DEF Critical, BothPC, Sending, Replacing
<1>0. /\ TypeOK /\ CriticalArea /\ Survives /\ Growing
      /\ OldInvalid /\ Named /\ NewestValid /\ Handles
      /\ Replacement /\ ClientSide /\ WorkerSide
  BY DEF IInv, Kept, Types, Safe
<1>5. w \in Party /\ w # Client /\ Client \in Party
  BY ChannelAssumption DEF Party
<1>0a. pc[w] = "load"
  BY DEF RunMethod
<1>2. owner = w /\ \A q \in Party : q # w => pc[q] \notin Critical
  BY <1>0, <1>0a, <1>5, Alone
<1>6. /\ handle[w] = Len(maps) /\ Open(w) = Newest
      /\ pc[Client] = "lock" /\ outcome = NoReply /\ Posted
      /\ call \in Request
  BY <1>0, <1>0a, <1>5 DEF Handles, WorkerSide, ClientSide, Open, Newest, TypeOK
<1>1. PICK k \in {"+", "-"}, n \in ReplySize :
         LET r == [to |-> call, kind |-> k]
         IN  /\ out' = [out EXCEPT ![w] = ReplyMsg(r, n)]
             /\ outcome' = r
             /\ pc' = [pc EXCEPT ![w] = IF Fits(n, w) THEN "write" ELSE "invalidate"]
  BY <1>6 DEF RunMethod, Posted, Goto
<1>3. UNCHANGED <<owner, maps, name, handle, saved, retried, call, answer, kills>>
  BY DEF RunMethod
<1> DEFINE r == [to |-> call, kind |-> k]
<1>7. /\ r \in Reply /\ r # NoReply /\ ReplyMsg(r, n) \in Message
      /\ ReplyMsg(r, n).is = "reply" /\ ReplyMsg(r, n).what = r
      /\ ReplyMsg(r, n).size = n
  <2>1. r \in Reply /\ r # NoReply
    BY <1>6, ChannelAssumption DEF Reply
  <2> QED
    BY <2>1, MessageParts
<1>4. Newest' = Newest
  BY <1>3 DEF Newest
<1>9. /\ pc'[w] \in {"write", "invalidate"}
      /\ outcome' = r /\ outcome' # NoReply
      /\ out'[w] \in Message /\ out'[w].is = "reply" /\ out'[w].what = r
      /\ \A q \in Party : q # w => pc'[q] = pc[q] /\ out'[q] = out[q]
  BY <1>0, <1>1, <1>5, <1>7 DEF TypeOK
<1> HIDE DEF r
<1>22. Survives'
  BY <1>0, <1>9 DEF Survives, ConnectionSurvives, Party
<1>25. Named'
  BY <1>0, <1>0a, <1>3, <1>9 DEF Named
<1>26. NewestValid'
  BY <1>0, <1>0a, <1>4, <1>9 DEF NewestValid
<1>27. Handles'
  BY <1>0, <1>3, <1>5, <1>6, <1>9 DEF Handles
<1>28. Replacement'
  BY <1>2, <1>4, <1>5, <1>6, <1>9 DEF Replacement, Own, Posted
<1>29. ClientSide'
  BY <1>0, <1>3, <1>5, <1>6, <1>9 DEF ClientSide
<1>30. WorkerSide'
  BY <1>0a, <1>2, <1>6, <1>9 DEF WorkerSide, Party
<1> QED
  BY <1>22, <1>25, <1>26, <1>27, <1>28, <1>29, <1>30 DEF IInv

\* The worker gives the lock back.
LEMMA WorkerLeaveKeeps ==
    ASSUME IInv, Kept', NEW w \in Worker, WorkerLeave(w)
    PROVE  IInv'
<1> USE DEF Critical, BothPC, Sending, Replacing
<1>0. /\ TypeOK /\ CriticalArea /\ Survives /\ Growing
      /\ OldInvalid /\ Named /\ NewestValid /\ Handles
      /\ Replacement /\ ClientSide /\ WorkerSide
  BY DEF IInv, Kept, Types, Safe
<1>5. w \in Party /\ w # Client /\ Client \in Party
  BY ChannelAssumption DEF Party
<1>1. /\ pc[w] = "leave" /\ pc' = [pc EXCEPT ![w] = "poll"]
      /\ owner' = Nobody
      /\ UNCHANGED <<maps, name, handle, saved, out, retried, call, outcome, answer,
                     kills>>
  <2>1. pc[w] = "leave" /\ owner = w /\ w # Nobody
    BY <1>0, <1>5, ChannelAssumption
       DEF WorkerLeave, CriticalArea, Survives, ConnectionSurvives
  <2> QED
    BY <2>1 DEF WorkerLeave, Unlock, UnlockRaises, Goto, callVars
<1>2. owner = w /\ \A q \in Party : q # w => pc[q] \notin Critical
  BY <1>0, <1>1, <1>5, Alone
<1>3. pc'[w] = "poll" /\ \A q \in Party : q # w => pc'[q] = pc[q]
  BY <1>0, <1>1, <1>5 DEF TypeOK
<1>4. Newest' = Newest
  BY <1>1 DEF Newest
<1>22. Survives'
  BY <1>0, <1>1 DEF Survives, ConnectionSurvives
<1>25. Named'
  BY <1>0, <1>1 DEF Named
<1>26. NewestValid'
  BY <1>0, <1>1, <1>4 DEF NewestValid
<1>27. Handles'
  BY <1>0, <1>1 DEF Handles
<1>28. Replacement'
  BY <1>2, <1>3 DEF Replacement
<1>29. ClientSide'
  BY <1>0, <1>1, <1>4 DEF ClientSide, Posted, Answered, ClientPC
<1>30. WorkerSide'
  BY <1>2, <1>3 DEF WorkerSide, Party
<1> QED
  BY <1>22, <1>25, <1>26, <1>27, <1>28, <1>29, <1>30 DEF IInv

\* Nobody is killed, so nobody comes back, and the manager removes nobody.
LEMMA NoKills ==
    ASSUME Mortal = {}, IInv
    PROVE  /\ ~\E w \in Worker : Kill(w) \/ Respawn(w)
           /\ ~ManagerLook /\ ~ManagerJudge /\ ~ManagerPost /\ ~ManagerLock
           /\ ~ManagerLockFails /\ ~ManagerUnlock
  BY DEF IInv, Kept, Survives, Kill, Respawn, ManagerLook, ManagerJudge,
         ManagerPost, ManagerLock, ManagerLockFails, ManagerUnlock

\* The pid word tells the manager only.
LEMMA RecordKeeps ==
    ASSUME IInv, Kept',
           UNCHANGED <<owner, maps, name, handle, pc, saved, out, retried,
                       callVars>>
    PROVE  IInv'
<1>1. Newest' = Newest
  BY DEF Newest
<1> USE <1>1 DEF IInv, callVars
<1>3. Survives' /\ Named' /\ NewestValid'
  BY DEF Survives, ConnectionSurvives, Named, NewestValid
<1>5. Handles' /\ Replacement'
  BY DEF Handles, Replacement
<1>6. ClientSide' /\ WorkerSide'
  BY DEF ClientSide, WorkerSide, Posted, Answered
<1> QED
  BY <1>3, <1>5, <1>6

\* The first map, and everybody who is there has it open.
LEMMA InitIInv == Init => IInv
<1> SUFFICES ASSUME Init PROVE IInv
  OBVIOUS
<1>1. Kept
  BY InitTypes, InitSafe DEF Kept, Init
<1>2. Len(maps) = 1 /\ Newest.status = "CLIENT" /\ name = 1
  BY DEF Init, Newest
<1>3. /\ handle[Client] = 1 /\ pc[Client] = "connect"
      /\ \A p \in Party : pc[p] \in {"connect", "start", "poll"}
      /\ \A p \in Party : pc[p] = "poll" => handle[p] = 1
  <2>1. Client \in Party /\ Client \notin Late
    BY ChannelAssumption DEF Party
  <2>2. /\ handle = [p \in Party |-> IF p \in Late THEN 0 ELSE 1]
        /\ pc = [p \in Party |-> IF p = Client THEN "connect"
                                 ELSE IF p \in Late THEN "start" ELSE "poll"]
    BY DEF Init
  <2> QED
    BY <2>1, <2>2
<1>4. Survives
  BY <1>3 DEF Survives, ConnectionSurvives, Party
<1>5. Named /\ NewestValid /\ Handles
  BY <1>2, <1>3 DEF Named, NewestValid, Handles
<1>6. Replacement
  BY <1>3 DEF Replacement, Replacing
<1>7. ClientSide
  BY <1>2, <1>3 DEF ClientSide, Sending, Replacing, ClientPC, Init
<1>8. WorkerSide
  BY <1>3 DEF WorkerSide, Sending, Replacing, Party
<1> QED
  BY <1>1, <1>4, <1>5, <1>6, <1>7, <1>8 DEF IInv

\* After a reconnection the reply is there: the client does not poll again.
LEMMA NotAstray ==
    ASSUME Mortal = {}, IInv, [Next]_vars
    PROVE  ~astray'
<1>1. CASE astray' = astray
  BY <1>1 DEF IInv, Kept
<1>2. CASE ClientCheck /\ Open(Client).status = "SERVER"
  <2>1. /\ Types /\ Safe /\ ~astray /\ CriticalArea /\ ClientSide
        /\ pc[Client] = "check" /\ Client \in Party
    BY <1>2 DEF IInv, Kept, Safe, ClientCheck, Party
  <2>2. \A w \in Worker : pc[w] \notin Sending
    BY <2>1, Alone, ChannelAssumption
       DEF Critical, BothPC, Sending, Replacing, Party
  <2>3. Newest.status = "SERVER"
    BY <1>2, <2>1, ValidIsNewest DEF Closed
  <2>4. ~retried
    BY <2>1, <2>2, <2>3 DEF ClientSide, Answered
  <2> QED
    BY <1>2, <2>1, <2>4 DEF ClientCheck
<1> QED
  BY <1>1, <1>2, NoKills DEF Next, ClientStep, WorkerStep, Resize, Invalidate, UnlinkOld,
     Create, Stamp, Restore, Reconnect, Write, Flag, Call, ClientConnect,
     ClientRelease, ClientLock, ClientCheck, ClientRead, WorkerOpen, WorkerLock,
     WorkerCheck, RunMethod, WorkerLeave, Record, ManagerStep, vars,
     callVars

\* The manager rests.
LEMMA NotManaged ==
    ASSUME Mortal = {}, IInv, [Next]_vars
    PROVE  UNCHANGED manager
  BY NoKills DEF Next, ClientStep, WorkerStep, Resize, Invalidate, UnlinkOld,
     Create, Stamp, Restore, Reconnect, Write, Flag, Call, ClientConnect,
     ClientRelease, ClientLock, ClientCheck, ClientRead, WorkerOpen, WorkerLock,
     WorkerCheck, RunMethod, WorkerLeave, Record, ManagerStep, vars

\* The invariant is inductive.
LEMMA StepIInv == ASSUME Mortal = {} PROVE IInv /\ [Next]_vars => IInv'
<1> SUFFICES ASSUME IInv, [Next]_vars PROVE IInv'
  OBVIOUS
<1>0. Client \in Party /\ Worker \subseteq Party
  BY DEF Party
<1>9. Kept'
  BY NotAstray, NotManaged, StepSInv DEF IInv, Kept, SInv
<1>10. ASSUME NEW p \in Holder, Record(p)
       PROVE  IInv'
  BY <1>9, <1>10, RecordKeeps DEF Record
<1>1. ASSUME NEW p \in Party, Resize(p) \/ Reconnect(p) \/ Write(p) \/ Flag(p)
      PROVE  IInv'
  BY <1>1, <1>9, InvalidateKeeps, UnlinkOldKeeps, CreateKeeps, StampKeeps,
     RestoreKeeps, ReconnectKeeps, WriteKeeps, FlagKeeps
     DEF Resize
<1>2. ASSUME NEW r \in Request, NEW n \in RequestSize, Call(r, n)
      PROVE  IInv'
  BY <1>2, <1>9, CallKeeps
<1>3. CASE ClientStep
  BY <1>0, <1>1, <1>3, <1>9, <1>10, ClientConnectKeeps, ClientReleaseKeeps,
     ClientLockKeeps, ClientCheckKeeps, ClientReadKeeps
     DEF ClientStep, Holder
<1>4. ASSUME NEW w \in Worker, WorkerStep(w)
      PROVE  IInv'
  BY <1>0, <1>1, <1>4, <1>9, <1>10, WorkerOpenKeeps, WorkerLockKeeps,
     WorkerCheckKeeps, RunMethodKeeps, WorkerLeaveKeeps
     DEF WorkerStep, Holder
<1>5. CASE UNCHANGED vars
  <2>1. UNCHANGED <<owner, maps, name, handle, pc, saved, out, retried, callVars>>
    BY <1>5 DEF vars, callVars
  <2> QED
    BY <1>9, <2>1, RecordKeeps
<1>6. CASE ManagerStep
  BY <1>6, <1>10, NoKills DEF ManagerStep, Holder
<1> QED
  BY <1>2, <1>3, <1>4, <1>5, <1>6, NoKills DEF Next

\* Every reachable state satisfies it.
LEMMA Invariant == ASSUME Mortal = {} PROVE Spec => []IInv
<1>1. IInv /\ [Next]_vars => IInv'
  BY StepIInv
<1> QED
  BY <1>1, InitIInv, PTL DEF Spec

-----------------------------------------------------------------------------
(* Only a kill can lead the client astray: without one, the loop of _send  *)
(* never sees SERVER after a reconnection (SHMClient.py:141-160).          *)
THEOREM NeverAstray == ASSUME Mortal = {} PROVE Spec => []~astray
<1>1. IInv => ~astray
  BY DEF IInv, Kept
<1> QED
  BY <1>1, Invariant, PTL

(* Requests are written, replies read and maps replaced by the owner of    *)
(* the lock only (SHMClient.py:118, 161), for any number of servers.       *)
THEOREM CriticalAreaIsOwned == ASSUME Mortal = {} PROVE Spec => []CriticalArea
<1>1. IInv => CriticalArea
  BY DEF IInv, Kept, Safe
<1> QED
  BY <1>1, Invariant, PTL

(* Whoever exchanges a message does so in the newest map, however often    *)
(* the map was replaced while it waited (SHMServer.py:175-199).            *)
THEOREM NewestMapIsUsed ==
    ASSUME Mortal = {}
    PROVE  Spec => []MessagesUseTheNewestMap
<1>1. IInv => MessagesUseTheNewestMap
  BY SafeIsNewest DEF IInv, Kept
<1> QED
  BY <1>1, Invariant, PTL

(* Every map but the newest is INVALID and smaller than its successor, for *)
(* all lengths of messages: the doubling in get_mmap (shared_params.py:32) *)
(* makes a map that is larger than the one the message did not fit into.   *)
THEOREM OldMapsAreTold == ASSUME Mortal = {} PROVE Spec => []OldMapsAreInvalid
<1>1. IInv => OldMapsAreInvalid
  BY SafeIsTold DEF IInv, Kept
<1> QED
  BY <1>1, Invariant, PTL

(* A request stays posted until it is served: replacing the map, by        *)
(* whoever, never swallows it.                                             *)
THEOREM RequestIsKept == ASSUME Mortal = {} PROVE Spec => []RequestStaysPosted
<1>1. IInv => RequestStaysPosted
  <2> SUFFICES ASSUME IInv, pc[Client] = "lock", outcome = NoReply
               PROVE  /\ name # 0 /\ maps[name].status = "SERVER"
                      /\ maps[name].body.is = "request"
                      /\ maps[name].body.what = call
    BY DEF RequestStaysPosted
  <2>1. Posted
    BY DEF IInv, ClientSide
  <2>2. \A p \in Party : pc[p] # "create"
    BY DEF IInv, WorkerSide, Sending, Replacing, Party
  <2>3. name = Len(maps) /\ Len(maps) \in Nat \ {0}
    BY <2>2 DEF IInv, Kept, Safe, Named, Growing
  <2> QED
    BY <2>1, <2>3 DEF Posted, Newest
<1> QED
  BY <1>1, Invariant, PTL

(* No assertion about lengths or statuses fails, no map is missing or in   *)
(* the way: a connection that is up stays up.                              *)
THEOREM ConnectionIsKept == ASSUME Mortal = {} PROVE Spec => []ConnectionSurvives
<1>1. IInv => ConnectionSurvives
  BY DEF IInv, Survives
<1> QED
  BY <1>1, Invariant, PTL

-----------------------------------------------------------------------------
\* The start of the method is Run, the reading of the reply Return.
LEMMA StepRefines ==
    ASSUME Mortal = {}
    PROVE  IInv /\ [Next]_vars => [Abstract!Next]_Abstract!vars
<1> SUFFICES ASSUME IInv, [Next]_vars PROVE [Abstract!Next]_Abstract!vars
  OBVIOUS
<1>1. ASSUME NEW r \in Request, NEW n \in RequestSize, Call(r, n)
      PROVE  Abstract!Next
  <2>1. call = NoRequest
    BY <1>1 DEF Call, IInv, ClientSide
  <2>2. Abstract!Call(r)
    BY <1>1, <2>1 DEF Call, Abstract!Call
  <2> QED
    BY <2>2 DEF Abstract!Next
<1>2. ASSUME NEW w \in Worker, RunMethod(w)
      PROVE  Abstract!Next
  <2>1. /\ pc[w] = "load" /\ w \in Party
        /\ UNCHANGED <<call, answer>>
    BY <1>2 DEF RunMethod, Party
  <2>2. /\ Open(w) = Newest /\ pc[Client] = "lock" /\ outcome = NoReply
        /\ Posted /\ call # NoRequest
    BY <2>1 DEF IInv, Handles, WorkerSide, ClientSide, Open, Newest
  <2>3. PICK k \in {"+", "-"} : outcome' = [to |-> call, kind |-> k]
    BY <1>2, <2>2 DEF RunMethod, Posted
  <2>4. Abstract!Run(k)
    BY <2>1, <2>2, <2>3 DEF Abstract!Run
  <2> QED
    BY <2>4 DEF Abstract!Next
<1>3. CASE ClientRead
  <2>1. /\ pc[Client] = "read" /\ Client \in Party
        /\ call' = NoRequest /\ outcome' = outcome
    BY <1>3 DEF ClientRead, Party
  <2>2. /\ Open(Client) = Newest /\ Answered /\ outcome # NoReply
        /\ call # NoRequest
    BY <2>1 DEF IInv, Handles, ClientSide, Open, Newest
  <2>3. answer' = outcome
    BY <1>3, <2>2 DEF ClientRead, Answered
  <2>4. Abstract!Return
    BY <2>1, <2>2, <2>3 DEF Abstract!Return
  <2> QED
    BY <2>4 DEF Abstract!Next
<1>4. ASSUME NEW p \in Party, Resize(p) \/ Reconnect(p) \/ Write(p) \/ Flag(p)
      PROVE  UNCHANGED callVars
  BY <1>4
     DEF Resize, Invalidate, UnlinkOld, Create, Stamp, Restore, Reconnect,
         Write, Flag
<1>9. ASSUME NEW p \in Holder, Record(p)
      PROVE  UNCHANGED callVars
  BY <1>9 DEF Record
<1>5. CASE ClientStep /\ ~ClientRead
  <2>1. pc[Client] \in Critical => owner = Client /\ Client # Nobody
    BY ChannelAssumption DEF IInv, Kept, Safe, CriticalArea, Party
  <2>2. ClientRelease \/ ClientCheck => ~UnlockRaises /\ UNCHANGED call
    BY <2>1 DEF ClientRelease, ClientCheck, UnlockRaises, Critical, BothPC
  <2> QED
    BY <1>4, <1>5, <1>9, <2>2
       DEF ClientStep, ClientConnect, ClientRelease, ClientLock, ClientCheck,
           Party, Holder, callVars, Abstract!vars
<1>6. ASSUME NEW w \in Worker, WorkerStep(w), ~RunMethod(w)
      PROVE  UNCHANGED callVars
  BY <1>4, <1>6, <1>9
     DEF WorkerStep, WorkerOpen, WorkerLock, WorkerCheck, WorkerLeave, Party,
         Holder
<1>10. ASSUME ManagerStep
       PROVE  UNCHANGED callVars
  <2>1. Record(Manager) /\ Manager \in Holder
    BY <1>10, NoKills DEF ManagerStep, Holder
  <2> QED
    BY <1>9, <2>1
<1>7. CASE UNCHANGED vars
  BY <1>7 DEF vars, Abstract!vars
<1>8. UNCHANGED callVars => UNCHANGED Abstract!vars
  BY DEF callVars, Abstract!vars
<1> QED
  BY <1>1, <1>2, <1>3, <1>5, <1>6, <1>7, <1>8, <1>10, NoKills DEF Next

(* As long as no server is killed the method runs once for each call, and  *)
(* the call returns what that run produced: for any number of servers,     *)
(* requests, lengths and replacements of the map.                          *)
THEOREM Refinement == ASSUME Mortal = {} PROVE Spec => ImplementsRpcCall
<1>1. Init => Abstract!Init
  BY DEF Init, Abstract!Init
<1>2. IInv /\ [Next]_vars => [Abstract!Next]_Abstract!vars
  BY StepRefines
<1> QED
  BY <1>1, <1>2, Invariant, PTL DEF Spec, ImplementsRpcCall, Abstract!Spec

=============================================================================
