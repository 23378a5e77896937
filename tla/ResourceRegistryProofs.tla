----------------------- MODULE ResourceRegistryProofs -----------------------
(* ResourceRegistry for any number of processes, threads and deaths: under *)
(* its lock, the two writes of an operation are one atomic operation.      *)
EXTENDS ResourceRegistry, FiniteSetTheorems, TLAPS

\* A live thread between lock() and unlock() is the one that has the lock.
Critical(t) ==
    /\ Home[t] \in alive
    /\ pc[t] \in {"sign", "flag", "decode", "encode", "data", "unlock"}

HolderOwns == \A t \in Thread : Critical(t) => owner = t

\* The lists that t is about to encode are its operation applied to the data.
Applied(t) ==
    /\ data # Zeros
    /\ LET S == data.servers
           C == data.clients
       IN \/ buf[t] = [servers |-> S \cup {Home[t]}, clients |-> C]
          \/ buf[t] = [servers |-> S \ {Home[t]}, clients |-> C]
          \/ buf[t] = [servers |-> S, clients |-> C \cup {t}]
          \/ \E found \in SUBSET Proc :
                /\ alive \subseteq found
                /\ buf[t] = [servers |-> S \cap found,
                             clients |-> {c \in C : Home[c] \in found}]
          \/ buf[t] = [servers |-> {}, clients |-> C]

\* Between _decode() and the two writes of _encode().
Encoding ==
    \A t \in Thread : At(t, "encode") =>
        IF op[t] = "init" THEN ~Readable /\ buf[t] = EmptyLists
                          ELSE Readable /\ Applied(t)

Writing ==
    \A t \in Thread : At(t, "data") =>
        /\ length = Size(buf[t])
        /\ IF op[t] = "init" THEN buf[t] = EmptyLists ELSE Applied(t)

(* All of this holds until a process that starts unlocks for somebody who  *)
(* is alive; from then on two threads may write at once.                   *)
Sound == spare = 0 /\ HolderOwns /\ Encoding /\ Writing

IInv == TypeOK /\ (~robbed => Sound)

-----------------------------------------------------------------------------
\* Lists of processes that exist have a length within the type.
LEMMA SizeType ==
    ASSUME NEW l \in Lists
    PROVE  Size(l) \in 0..(1 + Cardinality(Proc) + Cardinality(Thread))
<1>1. l.servers \subseteq Proc /\ l.clients \subseteq Thread
  BY DEF Lists
<1>2. /\ Cardinality(l.servers) <= Cardinality(Proc)
      /\ Cardinality(l.clients) <= Cardinality(Thread)
  BY <1>1, FS_Subset, RegistryAssumption
<1>3. /\ Cardinality(l.servers) \in Nat /\ Cardinality(Proc) \in Nat
      /\ Cardinality(l.clients) \in Nat /\ Cardinality(Thread) \in Nat
  BY <1>1, FS_Subset, FS_CardinalityType, RegistryAssumption
<1> QED
  BY <1>2, <1>3 DEF Size

\* Only empty lists are as short as empty lists.
LEMMA SizeOne ==
    ASSUME NEW l \in Lists
    PROVE  Size(l) = Size(EmptyLists) <=> l = EmptyLists
<1>1. l = [servers |-> l.servers, clients |-> l.clients]
  BY DEF Lists
<1>2. IsFiniteSet(l.servers) /\ IsFiniteSet(l.clients)
  <2>1. l.servers \subseteq Proc /\ l.clients \subseteq Thread
    BY DEF Lists
  <2> QED
    BY <2>1, FS_Subset, RegistryAssumption
<1>3. Cardinality(l.servers) \in Nat /\ Cardinality(l.clients) \in Nat
  BY <1>2, FS_CardinalityType
<1>4. /\ Cardinality(l.servers) = 0 <=> l.servers = {}
      /\ Cardinality(l.clients) = 0 <=> l.clients = {}
      /\ Cardinality({}) = 0
  BY <1>2, FS_EmptySet
<1>5. Size(EmptyLists) = 1
  BY <1>4 DEF Size, EmptyLists
<1>6. Size(l) = 1 <=> l.servers = {} /\ l.clients = {}
  BY <1>3, <1>4 DEF Size
<1> QED
  BY <1>1, <1>5, <1>6 DEF EmptyLists

\* What __init_value() writes is a pair of lists.
LEMMA EmptyType == EmptyLists \in Lists
  BY DEF EmptyLists, Lists

\* What an operation makes of lists: its result is one that Applied allows.
LEMMA ChangedType ==
    ASSUME NEW t \in Thread, NEW l \in Lists, alive \subseteq Proc,
           op[t] \in Op \ {"look"}
    PROVE  Changed(t, l) \in Lists
<1>0. l.servers \subseteq Proc /\ l.clients \subseteq Thread /\ Home[t] \in Proc
  BY RegistryAssumption DEF Lists
<1>1. CASE op[t] = "addServer"
  BY <1>0, <1>1 DEF Changed, Lists
<1>2. CASE op[t] = "delServer"
  BY <1>0, <1>2 DEF Changed, Lists
<1>3. CASE op[t] = "addClient"
  BY <1>0, <1>3 DEF Changed, Lists
<1>4. CASE op[t] = "check"
  BY <1>0, <1>4 DEF Changed, Lists
<1>5. CASE op[t] = "reset"
  BY <1>0, <1>5 DEF Changed, Lists
<1> QED
  BY <1>1, <1>2, <1>3, <1>4, <1>5 DEF Op

\* Every step keeps the variables in their types.
LEMMA StepTypeOK == TypeOK /\ [Next]_vars => TypeOK'
<1> SUFFICES ASSUME TypeOK, [Next]_vars PROVE TypeOK'
  OBVIOUS
<1> USE DEF TypeOK, PC, At, Goto, local, lock, sem
<1>0. Home \in [Thread -> Proc]
  BY RegistryAssumption
<1> USE <1>0
<1>1. ASSUME NEW t \in Thread, NEW o \in Op, Begin(t, o)
      PROVE  TypeOK'
  BY <1>1 DEF Begin, Op
<1>2. ASSUME NEW t \in Thread, Look(t)
      PROVE  TypeOK'
  BY <1>2 DEF Look
<1>3. ASSUME NEW t \in Thread, Judge(t)
      PROVE  TypeOK'
  BY <1>3 DEF Judge
<1>4. ASSUME NEW t \in Thread, TimeOut(t)
      PROVE  TypeOK'
  BY <1>4 DEF TimeOut
<1>5. ASSUME NEW t \in Thread, Lock(t)
      PROVE  TypeOK'
  BY <1>5 DEF Lock
<1>6. ASSUME NEW t \in Thread, SetFlag(t)
      PROVE  TypeOK'
  BY <1>6 DEF SetFlag
<1>7. ASSUME NEW t \in Thread, Decode(t)
      PROVE  TypeOK'
  <2>1. CASE Readable /\ op[t] \notin {"look", "init"}
    <3>1. data \in Lists
      BY <2>1 DEF Readable
    <3>2. op[t] \in Op \ {"look"}
      BY <2>1
    <3>3. Changed(t, data) \in Lists
      BY <3>1, <3>2, ChangedType
    <3>4. buf' \in [Thread -> Lists]
      BY <1>7, <2>1, <3>3 DEF Decode
    <3>5. doomed' \in SUBSET Proc
      BY <1>7, <2>1, <3>1 DEF Decode, Lists
    <3> QED
      BY <1>7, <2>1, <3>4, <3>5 DEF Decode
  <2>2. CASE ~(Readable /\ op[t] \notin {"look", "init"})
    <3>1. buf' \in [Thread -> Lists] /\ doomed' = doomed
      BY <1>7, <2>2, EmptyType DEF Decode
    <3>2. pc' \in [Thread -> PC]
      BY <1>7, <2>2 DEF Decode
    <3> QED
      BY <1>7, <3>1, <3>2 DEF Decode
  <2> QED
    BY <2>1, <2>2
<1>8. ASSUME NEW t \in Thread, Encode(t)
      PROVE  TypeOK'
  BY <1>8, SizeType DEF Encode
<1>9. ASSUME NEW t \in Thread, WriteData(t)
      PROVE  TypeOK'
  BY <1>9, EmptyType DEF WriteData
<1>10. ASSUME NEW t \in Thread, Unlock(t)
       PROVE  TypeOK'
  BY <1>10, EmptyType DEF Unlock
<1>11. ASSUME NEW t \in Thread, Clear(t)
       PROVE  TypeOK'
  BY <1>11 DEF Clear, Op
<1>12. ASSUME NEW p \in Proc, Kill(p)
       PROVE  TypeOK'
  BY <1>12 DEF Kill
<1>13. CASE UNCHANGED vars
  BY <1>13 DEF vars
<1>14. ASSUME NEW t \in Thread, Post(t)
       PROVE  TypeOK'
  BY <1>14 DEF Post
<1>15. ASSUME NEW t \in Thread, Sign(t)
       PROVE  TypeOK'
  BY <1>15 DEF Sign
<1> QED
  BY <1>1, <1>2, <1>3, <1>4, <1>5, <1>6, <1>7, <1>8, <1>9, <1>10,
     <1>11, <1>12, <1>13, <1>14, <1>15
     DEF Next, Step

(* The lock goes to a thread that waits for it when nobody has it, and a   *)
(* forced unlock that robs nobody meets no live holder.                    *)
LEMMA StepOwns ==
    TypeOK /\ spare = 0 /\ HolderOwns /\ ~robbed' /\ [Next]_vars
        => (spare = 0 /\ HolderOwns)'
<1> SUFFICES ASSUME TypeOK, spare = 0, HolderOwns, ~robbed', [Next]_vars
             PROVE (spare = 0 /\ HolderOwns)'
  OBVIOUS
<1> USE DEF TypeOK, HolderOwns, Critical, LeftBehind, At, Goto, local, PC, lock, sem
<1>0. Nobody \notin Thread /\ Home \in [Thread -> Proc]
  BY RegistryAssumption
<1> USE <1>0
<1>1. ASSUME NEW t \in Thread, NEW o \in Op, Begin(t, o)
      PROVE  (spare = 0 /\ HolderOwns)'
  BY <1>1 DEF Begin
<1>2. ASSUME NEW t \in Thread, Look(t)
      PROVE  (spare = 0 /\ HolderOwns)'
  BY <1>2 DEF Look
<1>3. ASSUME NEW t \in Thread, Judge(t)
      PROVE  (spare = 0 /\ HolderOwns)'
  BY <1>3 DEF Judge
<1>4. ASSUME NEW t \in Thread, TimeOut(t)
      PROVE  (spare = 0 /\ HolderOwns)'
  BY <1>4 DEF TimeOut
<1>5. ASSUME NEW t \in Thread, Lock(t)
      PROVE  (spare = 0 /\ HolderOwns)'
  BY <1>5 DEF Lock
<1>6. ASSUME NEW t \in Thread, SetFlag(t)
      PROVE  (spare = 0 /\ HolderOwns)'
  BY <1>6 DEF SetFlag
<1>7. ASSUME NEW t \in Thread, Decode(t)
      PROVE  (spare = 0 /\ HolderOwns)'
  BY <1>7 DEF Decode
<1>8. ASSUME NEW t \in Thread, Encode(t)
      PROVE  (spare = 0 /\ HolderOwns)'
  BY <1>8 DEF Encode
<1>9. ASSUME NEW t \in Thread, WriteData(t)
      PROVE  (spare = 0 /\ HolderOwns)'
  BY <1>9 DEF WriteData
<1>10. ASSUME NEW t \in Thread, Unlock(t)
       PROVE  (spare = 0 /\ HolderOwns)'
  BY <1>10 DEF Unlock
<1>11. ASSUME NEW t \in Thread, Clear(t)
       PROVE  (spare = 0 /\ HolderOwns)'
  BY <1>11 DEF Clear
<1>12. ASSUME NEW p \in Proc, Kill(p)
       PROVE  (spare = 0 /\ HolderOwns)'
  BY <1>12 DEF Kill
<1>13. CASE UNCHANGED vars
  BY <1>13 DEF vars
<1>14. ASSUME NEW t \in Thread, Post(t)
       PROVE  (spare = 0 /\ HolderOwns)'
  BY <1>14 DEF Post
<1>15. ASSUME NEW t \in Thread, Sign(t)
       PROVE  (spare = 0 /\ HolderOwns)'
  BY <1>15 DEF Sign
<1> QED
  BY <1>1, <1>2, <1>3, <1>4, <1>5, <1>6, <1>7, <1>8, <1>9, <1>10,
     <1>11, <1>12, <1>13, <1>14, <1>15
     DEF Next, Step

\* u is not where it encodes after this step, or was, with the same lists.
Undisturbed(u) ==
    \A l \in {"encode", "data"} :
        At(u, l)' => At(u, l) /\ op'[u] = op[u] /\ buf'[u] = buf[u]

\* A step that touches neither the map nor what a writer is doing.
LEMMA Frame ==
    ASSUME Encoding /\ Writing, UNCHANGED <<length, data, alive>>,
           \A u \in Thread : Undisturbed(u)
    PROVE  (Encoding /\ Writing)'
<1>1. Readable' = Readable
  BY DEF Readable, Size
<1>2. \A u \in Thread : buf'[u] = buf[u] /\ Applied(u) => Applied(u)'
  BY DEF Applied
<1> QED
  BY <1>1, <1>2 DEF Encoding, Writing, Size, Undisturbed

(* Only the thread that has the lock decodes and encodes, so that nothing *)
(* changes the lists between its two halves.                               *)
LEMMA StepWriting ==
    TypeOK /\ HolderOwns /\ Encoding /\ Writing /\ [Next]_vars => (Encoding /\ Writing)'
<1> SUFFICES ASSUME TypeOK, HolderOwns, Encoding, Writing, [Next]_vars
             PROVE (Encoding /\ Writing)'
  OBVIOUS
<1>0. \A t, u \in Thread : Critical(t) /\ Critical(u) => t = u
  BY DEF HolderOwns
<1>1. ASSUME NEW t \in Thread, NEW o \in Op, Begin(t, o)
      PROVE  (Encoding /\ Writing)'
  <2>1. UNCHANGED <<length, data, alive>>
    BY <1>1 DEF Begin
  <2>2. \A u \in Thread : Undisturbed(u)
    BY <1>1 DEF Begin, Undisturbed, At, Goto, TypeOK
  <2> QED
    BY <2>1, <2>2, Frame
<1>2. ASSUME NEW t \in Thread, Look(t)
      PROVE  (Encoding /\ Writing)'
  <2>1. UNCHANGED <<length, data, alive>>
    BY <1>2 DEF Look
  <2>2. \A u \in Thread : Undisturbed(u)
    BY <1>2 DEF Look, Undisturbed, At, Goto, TypeOK
  <2> QED
    BY <2>1, <2>2, Frame
<1>3. ASSUME NEW t \in Thread, Judge(t)
      PROVE  (Encoding /\ Writing)'
  <2>1. UNCHANGED <<length, data, alive>>
    BY <1>3 DEF Judge
  <2>2. \A u \in Thread : Undisturbed(u)
    BY <1>3 DEF Judge, Undisturbed, At, Goto, TypeOK
  <2> QED
    BY <2>1, <2>2, Frame
<1>4. ASSUME NEW t \in Thread, TimeOut(t)
      PROVE  (Encoding /\ Writing)'
  <2>1. UNCHANGED <<length, data, alive>>
    BY <1>4 DEF TimeOut
  <2>2. \A u \in Thread : Undisturbed(u)
    BY <1>4 DEF TimeOut, Undisturbed, At, Goto, TypeOK
  <2> QED
    BY <2>1, <2>2, Frame
<1>5. ASSUME NEW t \in Thread, Lock(t)
      PROVE  (Encoding /\ Writing)'
  <2>1. UNCHANGED <<length, data, alive>>
    BY <1>5 DEF Lock
  <2>2. \A u \in Thread : Undisturbed(u)
    BY <1>5 DEF Lock, Undisturbed, At, Goto, TypeOK
  <2> QED
    BY <2>1, <2>2, Frame
<1>6. ASSUME NEW t \in Thread, SetFlag(t)
      PROVE  (Encoding /\ Writing)'
  <2>1. UNCHANGED <<length, data, alive>>
    BY <1>6 DEF SetFlag
  <2>2. \A u \in Thread : Undisturbed(u)
    BY <1>6 DEF SetFlag, Undisturbed, At, Goto, TypeOK
  <2> QED
    BY <2>1, <2>2, Frame
<1>7. ASSUME NEW t \in Thread, Decode(t)
      PROVE  (Encoding /\ Writing)'
  <2>0. \A u \in Thread : u # t => ~At(u, "encode") /\ ~At(u, "data")
    BY <1>7, <1>0 DEF Decode, At, Critical
  <2>1. \A u \in Thread : u # t => ~At(u, "encode")' /\ ~At(u, "data")'
    BY <1>7, <2>0 DEF Decode, At, Goto, TypeOK
  <2>2. CASE Readable /\ op[t] \notin {"look", "init"} /\ flag[Home[t]]
    <3>1. /\ buf' = [buf EXCEPT ![t] = Changed(t, data)]
          /\ pc' = [pc EXCEPT ![t] = "encode"]
          /\ UNCHANGED <<data, length, op, alive>>
      BY <1>7, <2>2 DEF Decode, Goto
    <3>2. data \in Lists /\ data # Zeros
      BY <2>2 DEF Readable, TypeOK
    <3>3. buf'[t] = Changed(t, data) /\ pc'[t] = "encode"
      BY <3>1 DEF TypeOK
    <3>4. Applied(t)'
      <4>0. data = [servers |-> data.servers, clients |-> data.clients] 
        BY <3>2 DEF Lists
      <4>1. CASE op[t] = "addServer"
        BY <3>1, <3>2, <3>3, <4>0, <4>1 DEF Applied, Changed
      <4>2. CASE op[t] = "delServer"
        BY <3>1, <3>2, <3>3, <4>0, <4>2 DEF Applied, Changed
      <4>3. CASE op[t] = "addClient"
        BY <3>1, <3>2, <3>3, <4>0, <4>3 DEF Applied, Changed
      <4>4. CASE op[t] = "check"
        BY <3>1, <3>2, <3>3, <4>4 DEF Applied, Changed, TypeOK
      <4>5. CASE op[t] = "reset"
        BY <3>1, <3>2, <3>3, <4>0, <4>5 DEF Applied, Changed
      <4> QED
        BY <2>2, <4>1, <4>2, <4>3, <4>4, <4>5 DEF TypeOK, Op
    <3>5. Readable'
      BY <2>2, <3>1 DEF Readable, Size
    <3> QED
      BY <2>1, <2>2, <3>1, <3>3, <3>4, <3>5 DEF Encoding, Writing, At
  <2>3. CASE ~Readable /\ op[t] = "init" /\ flag[Home[t]]
    <3>1. /\ buf' = [buf EXCEPT ![t] = EmptyLists]
          /\ pc' = [pc EXCEPT ![t] = "encode"]
          /\ UNCHANGED <<data, length, op, alive>>
      BY <1>7, <2>3 DEF Decode, Goto
    <3>2. buf'[t] = EmptyLists /\ pc'[t] = "encode" /\ ~Readable'
      BY <2>3, <3>1 DEF TypeOK, Readable, Size
    <3> QED
      BY <2>1, <2>3, <3>1, <3>2 DEF Encoding, Writing, At
  <2>4. CASE \/ ~flag[Home[t]]
             \/ Readable /\ op[t] \in {"look", "init"}
             \/ ~Readable /\ op[t] # "init"
    <3>1. pc' = [pc EXCEPT ![t] = "unlock"]
      BY <1>7, <2>4 DEF Decode, Goto
    <3> QED
      BY <2>1, <3>1 DEF Encoding, Writing, At, TypeOK
  <2> QED
    BY <2>2, <2>3, <2>4
<1>8. ASSUME NEW t \in Thread, Encode(t)
      PROVE  (Encoding /\ Writing)'
  <2>0. \A u \in Thread : u # t => ~At(u, "encode")' /\ ~At(u, "data")'
    BY <1>8, <1>0 DEF Encode, At, Goto, TypeOK, Critical
  <2>1. ~At(t, "encode")'
    BY <1>8 DEF Encode, At, Goto, TypeOK
  <2>2. CASE flag[Home[t]]
    <3>1. length' = Size(buf[t]) /\ UNCHANGED <<data, op, alive, buf>>
      BY <1>8, <2>2 DEF Encode
    <3>2. IF op[t] = "init" THEN buf[t] = EmptyLists ELSE Applied(t)
      BY <1>8 DEF Encode, Encoding
    <3> QED
      BY <2>0, <2>1, <3>1, <3>2 DEF Encoding, Writing, Applied, Size
  <2>3. CASE ~flag[Home[t]]
    <3>1. ~At(t, "data")'
      BY <1>8, <2>3 DEF Encode, At, Goto, TypeOK
    <3> QED
      BY <2>0, <2>1, <3>1 DEF Encoding, Writing
  <2> QED
    BY <2>2, <2>3
<1>9. ASSUME NEW t \in Thread, WriteData(t)
      PROVE  (Encoding /\ Writing)'
  <2>0. \A u \in Thread : ~At(u, "encode")' /\ ~At(u, "data")'
    BY <1>9, <1>0 DEF WriteData, At, Goto, TypeOK, Critical
  <2> QED
    BY <2>0 DEF Encoding, Writing
<1>10. ASSUME NEW t \in Thread, Unlock(t)
       PROVE  (Encoding /\ Writing)'
  <2>1. UNCHANGED <<length, data, alive>>
    BY <1>10 DEF Unlock
  <2>2. \A u \in Thread : Undisturbed(u)
    BY <1>10 DEF Unlock, Undisturbed, At, Goto, TypeOK
  <2> QED
    BY <2>1, <2>2, Frame
<1>11. ASSUME NEW t \in Thread, Clear(t)
       PROVE  (Encoding /\ Writing)'
  <2>1. UNCHANGED <<length, data, alive>>
    BY <1>11 DEF Clear
  <2>2. \A u \in Thread : Undisturbed(u)
    BY <1>11 DEF Clear, Undisturbed, At, Goto, TypeOK
  <2> QED
    BY <2>1, <2>2, Frame
<1>12. ASSUME NEW p \in Proc, Kill(p)
       PROVE  (Encoding /\ Writing)'
  <2>1. \A u \in Thread : Applied(u) => Applied(u)'
    BY <1>12 DEF Kill, Applied, local
  <2>2. /\ \A u \in Thread : At(u, "encode")' => At(u, "encode")
        /\ \A u \in Thread : At(u, "data")' => At(u, "data")
        /\ Readable' = Readable
        /\ \A u \in Thread : Size(buf[u])' = Size(buf[u])
        /\ UNCHANGED <<length, op, buf>>
    BY <1>12 DEF Kill, At, local, Readable, Size
  <2> QED
    BY <2>1, <2>2 DEF Encoding, Writing
<1>13. CASE UNCHANGED vars
  <2>1. UNCHANGED <<length, data, alive>>
    BY <1>13 DEF vars
  <2>2. \A u \in Thread : Undisturbed(u)
    BY <1>13 DEF vars, local, Undisturbed, At, Goto, TypeOK
  <2> QED
    BY <2>1, <2>2, Frame
<1>14. ASSUME NEW t \in Thread, Post(t)
       PROVE  (Encoding /\ Writing)'
  <2>1. UNCHANGED <<length, data, alive>>
    BY <1>14 DEF Post
  <2>2. \A u \in Thread : Undisturbed(u)
    BY <1>14 DEF Post, Undisturbed, At, Goto, TypeOK
  <2> QED
    BY <2>1, <2>2, Frame
<1>15. ASSUME NEW t \in Thread, Sign(t)
       PROVE  (Encoding /\ Writing)'
  <2>1. UNCHANGED <<length, data, alive>>
    BY <1>15 DEF Sign
  <2>2. \A u \in Thread : Undisturbed(u)
    BY <1>15 DEF Sign, Undisturbed, At, Goto, TypeOK
  <2> QED
    BY <2>1, <2>2, Frame
<1> QED
  BY <1>1, <1>2, <1>3, <1>4, <1>5, <1>6, <1>7, <1>8, <1>9, <1>10,
     <1>11, <1>12, <1>13, <1>14, <1>15
     DEF Next, Step

-----------------------------------------------------------------------------
\* A step that changes nothing the abstract registry sees.
LEMMA Stutter ==
    ASSUME UNCHANGED <<length, data, alive, robbed>>,
           \A u \in Thread :
              (At(u, "data") /\ op[u] # "init")' <=> At(u, "data") /\ op[u] # "init"
    PROVE  [Abstract!Next]_Abstract!vars
<1>1. Readable' = Readable
  BY DEF Readable, Size
<1>2. Unreadable' = Unreadable
  BY <1>1 DEF Unreadable
<1> QED
  BY <1>2 DEF Abstract!vars

(* Writing the data is where an operation takes effect; the first write of *)
(* __init_value() is, when it makes lists readable that were empty anyway. *)
LEMMA StepRefines ==
    TypeOK /\ HolderOwns /\ Encoding /\ Writing /\ UNCHANGED robbed /\ [Next]_vars
        => [Abstract!Next]_Abstract!vars
<1> SUFFICES ASSUME TypeOK, HolderOwns, Encoding, Writing, UNCHANGED robbed,
                    [Next]_vars
             PROVE [Abstract!Next]_Abstract!vars
  OBVIOUS
<1>0. \A t, u \in Thread : Critical(t) /\ Critical(u) => t = u
  BY DEF HolderOwns
<1>1. ASSUME NEW t \in Thread, NEW o \in Op, Begin(t, o)
      PROVE  [Abstract!Next]_Abstract!vars
  <2>1. UNCHANGED <<length, data, alive>>
    BY <1>1 DEF Begin
  <2>2. \A u \in Thread : (At(u, "data") /\ op[u] # "init")' <=> At(u, "data") /\ op[u] # "init"
    BY <1>1 DEF Begin, At, Goto, TypeOK
  <2> QED
    BY <2>1, <2>2, Stutter
<1>2. ASSUME NEW t \in Thread, Look(t)
      PROVE  [Abstract!Next]_Abstract!vars
  <2>1. UNCHANGED <<length, data, alive>>
    BY <1>2 DEF Look
  <2>2. \A u \in Thread : (At(u, "data") /\ op[u] # "init")' <=> At(u, "data") /\ op[u] # "init"
    BY <1>2 DEF Look, At, Goto, TypeOK
  <2> QED
    BY <2>1, <2>2, Stutter
<1>3. ASSUME NEW t \in Thread, Judge(t)
      PROVE  [Abstract!Next]_Abstract!vars
  <2>1. UNCHANGED <<length, data, alive>>
    BY <1>3 DEF Judge
  <2>2. \A u \in Thread : (At(u, "data") /\ op[u] # "init")' <=> At(u, "data") /\ op[u] # "init"
    BY <1>3 DEF Judge, At, Goto, TypeOK
  <2> QED
    BY <2>1, <2>2, Stutter
<1>4. ASSUME NEW t \in Thread, TimeOut(t)
      PROVE  [Abstract!Next]_Abstract!vars
  <2>1. UNCHANGED <<length, data, alive>>
    BY <1>4 DEF TimeOut
  <2>2. \A u \in Thread : (At(u, "data") /\ op[u] # "init")' <=> At(u, "data") /\ op[u] # "init"
    BY <1>4 DEF TimeOut, At, Goto, TypeOK
  <2> QED
    BY <2>1, <2>2, Stutter
<1>5. ASSUME NEW t \in Thread, Lock(t)
      PROVE  [Abstract!Next]_Abstract!vars
  <2>1. UNCHANGED <<length, data, alive>>
    BY <1>5 DEF Lock
  <2>2. \A u \in Thread : (At(u, "data") /\ op[u] # "init")' <=> At(u, "data") /\ op[u] # "init"
    BY <1>5 DEF Lock, At, Goto, TypeOK
  <2> QED
    BY <2>1, <2>2, Stutter
<1>6. ASSUME NEW t \in Thread, SetFlag(t)
      PROVE  [Abstract!Next]_Abstract!vars
  <2>1. UNCHANGED <<length, data, alive>>
    BY <1>6 DEF SetFlag
  <2>2. \A u \in Thread : (At(u, "data") /\ op[u] # "init")' <=> At(u, "data") /\ op[u] # "init"
    BY <1>6 DEF SetFlag, At, Goto, TypeOK
  <2> QED
    BY <2>1, <2>2, Stutter
<1>7. ASSUME NEW t \in Thread, Decode(t)
      PROVE  [Abstract!Next]_Abstract!vars
  <2>1. UNCHANGED <<length, data, alive>>
    BY <1>7 DEF Decode
  <2>2. \A u \in Thread : (At(u, "data") /\ op[u] # "init")' <=> At(u, "data") /\ op[u] # "init"
    BY <1>7 DEF Decode, At, Goto, TypeOK
  <2> QED
    BY <2>1, <2>2, Stutter
<1>8. ASSUME NEW t \in Thread, Encode(t)
      PROVE  [Abstract!Next]_Abstract!vars
  <2>0. \A u \in Thread : u # t => ~At(u, "data")
    BY <1>8, <1>0 DEF Encode, At, Critical
  <2>1. \A u \in Thread : u # t => ~At(u, "data")'
    BY <1>8, <2>0 DEF Encode, At, Goto, TypeOK
  <2>2. UNCHANGED <<data, alive, op, buf>> /\ At(t, "encode")
    BY <1>8 DEF Encode
  <2>3. ~At(t, "data")
    BY <2>2 DEF At
  <2>4. CASE flag[Home[t]] /\ op[t] = "init"
    <3>1. ~Readable /\ buf[t] = EmptyLists
      BY <2>2, <2>4 DEF Encoding
    <3>2. length' = Size(EmptyLists)
      BY <1>8, <2>4, <3>1 DEF Encode
    <3>3. Unreadable /\ Unreadable' = ~Readable'
      BY <2>0, <2>1, <2>2, <2>3, <2>4, <3>1 DEF Unreadable
    <3>4. CASE Readable'
      <4>1. data # Zeros /\ length' = Size(data)
        BY <2>2, <3>4 DEF Readable, Size
      <4>2. data = EmptyLists
        BY <3>2, <4>1, SizeOne DEF TypeOK
      <4> QED
        BY <2>2, <3>3, <3>4, <4>1, <4>2
           DEF Abstract!Next, Abstract!Reset, EmptyLists
    <3>5. CASE ~Readable'
      BY <2>2, <3>3, <3>5 DEF Abstract!vars
    <3> QED
      BY <3>4, <3>5
  <2>5. CASE flag[Home[t]] /\ op[t] # "init"
    <3>1. Readable
      BY <2>2, <2>5 DEF Encoding
    <3>2. At(t, "data")'
      BY <1>8, <2>5 DEF Encode, At, Goto, TypeOK
    <3>3. ~Unreadable /\ ~Unreadable'
      BY <2>2, <2>5, <3>1, <3>2 DEF Unreadable
    <3> QED
      BY <2>2, <3>3 DEF Abstract!vars, Unreadable
  <2>6. CASE ~flag[Home[t]]
    <3>1. length' = length /\ ~At(t, "data")'
      BY <1>8, <2>6 DEF Encode, At, Goto, TypeOK
    <3> QED
      BY <2>0, <2>1, <2>2, <2>3, <3>1, Stutter
  <2> QED
    BY <2>4, <2>5, <2>6
<1>9. ASSUME NEW t \in Thread, WriteData(t)
      PROVE  [Abstract!Next]_Abstract!vars
  <2>0. \A u \in Thread : u # t => ~At(u, "data")
    BY <1>9, <1>0 DEF WriteData, At, Critical
  <2>1. \A u \in Thread : ~At(u, "data")'
    BY <1>9, <2>0 DEF WriteData, At, Goto, TypeOK
  <2>2. /\ data' = buf[t] /\ data' # Zeros
        /\ UNCHANGED <<length, alive, op>> /\ At(t, "data")
    BY <1>9, RegistryAssumption DEF WriteData, TypeOK
  <2>3. length = Size(buf[t])
    BY <2>2 DEF Writing
  <2>4. Readable' /\ Unreadable' = FALSE
    BY <2>2, <2>3 DEF Readable, Size, Unreadable
  <2>5. CASE op[t] = "init"
    <3>1. buf[t] = EmptyLists /\ length = Size(EmptyLists)
      BY <2>2, <2>3, <2>5 DEF Writing
    <3>2. Unreadable = ~Readable
      BY <2>0, <2>5 DEF Unreadable
    <3>3. CASE Readable
      <4>1. data \in Lists /\ length = Size(data)
        BY <3>3 DEF Readable, TypeOK
      <4>2. data = EmptyLists
        BY <3>1, <4>1, SizeOne
      <4>3. data' = data /\ Unreadable = FALSE /\ Unreadable' = FALSE
        BY <2>2, <2>4, <3>1, <3>2, <3>3, <4>2 DEF Unreadable
      <4> QED
        BY <2>2, <4>3 DEF Abstract!vars
    <3>4. CASE ~Readable
      <4>1. Unreadable /\ alive' = alive
        BY <2>2, <3>2, <3>4
      <4>2. Unreadable' = FALSE
        BY <2>4 DEF Unreadable
      <4>3. data' = EmptyLists /\ EmptyLists # Zeros
        BY <2>2, <3>1
      <4>4. Abstract!Reset
        BY <4>1, <4>2, <4>3 DEF Abstract!Reset, EmptyLists
      <4> QED
        BY <4>4 DEF Abstract!Next
    <3> QED
      BY <3>3, <3>4
  <2>6. CASE op[t] # "init"
    <3>1. Applied(t)
      BY <2>2, <2>6 DEF Writing
    <3>2. ~Unreadable /\ UNCHANGED Unreadable
      BY <2>2, <2>4, <2>6 DEF Unreadable
    <3> DEFINE S == IF data = Zeros THEN {} ELSE data.servers
               C == IF data = Zeros THEN {} ELSE data.clients
    <3>3. S = data.servers /\ C = data.clients
      BY <3>1 DEF Applied
    <3>4. (IF data' = Zeros THEN {} ELSE data'.servers) = buf[t].servers
      BY <2>2
    <3>5. (IF data' = Zeros THEN {} ELSE data'.clients) = buf[t].clients
      BY <2>2
    <3>6. Home[t] \in Proc
      BY RegistryAssumption
    <3>7. CASE buf[t] = [servers |-> S \cup {Home[t]}, clients |-> C]
      <4>1. Abstract!Replace(S \cup {Home[t]}, C)
        BY <2>2, <3>2, <3>4, <3>5, <3>7 DEF Abstract!Replace
      <4> QED
        BY <3>6, <4>1 DEF Abstract!Next
    <3>8. CASE buf[t] = [servers |-> S \ {Home[t]}, clients |-> C]
      <4>1. Abstract!Replace(S \ {Home[t]}, C)
        BY <2>2, <3>2, <3>4, <3>5, <3>8 DEF Abstract!Replace
      <4> QED
        BY <3>6, <4>1 DEF Abstract!Next
    <3>9. CASE buf[t] = [servers |-> S, clients |-> C \cup {t}]
      <4>1. Abstract!Replace(S, C \cup {t})
        BY <2>2, <3>2, <3>4, <3>5, <3>9 DEF Abstract!Replace
      <4> QED
        BY <4>1 DEF Abstract!Next
    <3>10. ASSUME NEW found \in SUBSET Proc, alive \subseteq found,
                  buf[t] = [servers |-> S \cap found,
                            clients |-> {c \in C : Home[c] \in found}]
           PROVE  Abstract!Next
      <4>1. Abstract!CheckForMissingPids(found)
        <5>1. Abstract!Replace(S \cap found, {c \in C : Home[c] \in found})
          BY <2>2, <3>2, <3>4, <3>5, <3>10 DEF Abstract!Replace
        <5> QED
          BY <3>10, <5>1 DEF Abstract!CheckForMissingPids
      <4> QED
        BY <4>1 DEF Abstract!Next
    <3>11. CASE buf[t] = [servers |-> {}, clients |-> C]
      <4>1. Abstract!Replace({}, C)
        BY <2>2, <3>2, <3>4, <3>5, <3>11 DEF Abstract!Replace
      <4> QED
        BY <4>1 DEF Abstract!Next
    <3> QED
      BY <3>1, <3>3, <3>7, <3>8, <3>9, <3>10, <3>11 DEF Applied
  <2> QED
    BY <2>5, <2>6
<1>10. ASSUME NEW t \in Thread, Unlock(t)
       PROVE  [Abstract!Next]_Abstract!vars
  <2>1. UNCHANGED <<length, data, alive>>
    BY <1>10 DEF Unlock
  <2>2. \A u \in Thread : (At(u, "data") /\ op[u] # "init")' <=> At(u, "data") /\ op[u] # "init"
    BY <1>10 DEF Unlock, At, Goto, TypeOK
  <2> QED
    BY <2>1, <2>2, Stutter
<1>11. ASSUME NEW t \in Thread, Clear(t)
       PROVE  [Abstract!Next]_Abstract!vars
  <2>1. UNCHANGED <<length, data, alive>>
    BY <1>11 DEF Clear
  <2>2. \A u \in Thread : (At(u, "data") /\ op[u] # "init")' <=> At(u, "data") /\ op[u] # "init"
    BY <1>11 DEF Clear, At, Goto, TypeOK
  <2> QED
    BY <2>1, <2>2, Stutter
<1>12. ASSUME NEW p \in Proc, Kill(p)
       PROVE  [Abstract!Next]_Abstract!vars
  <2>1. /\ UNCHANGED <<length, data, op, pc>> /\ alive' = alive \ {p}
    BY <1>12 DEF Kill, local
  <2>2. Readable' = Readable
    BY <2>1 DEF Readable, Size
  <2>3. \A u \in Thread : At(u, "data")' => At(u, "data")
    BY <2>1 DEF At
  <2>4. Unreadable => Unreadable'
    BY <2>1, <2>2, <2>3 DEF Unreadable
  <2>5. Unreadable' \in {Unreadable, TRUE}
    BY <2>4 DEF Unreadable
  <2>6. Abstract!Die(p)
    BY <2>1, <2>5 DEF Abstract!Die
  <2> QED
    BY <2>6 DEF Abstract!Next
<1>13. CASE UNCHANGED vars
  <2>1. UNCHANGED <<length, data, alive>>
    BY <1>13 DEF vars
  <2>2. \A u \in Thread : (At(u, "data") /\ op[u] # "init")' <=> At(u, "data") /\ op[u] # "init"
    BY <1>13 DEF vars, local, At, Goto, TypeOK
  <2> QED
    BY <2>1, <2>2, Stutter
<1>14. ASSUME NEW t \in Thread, Post(t)
       PROVE  [Abstract!Next]_Abstract!vars
  <2>1. UNCHANGED <<length, data, alive>>
    BY <1>14 DEF Post
  <2>2. \A u \in Thread : (At(u, "data") /\ op[u] # "init")' <=> At(u, "data") /\ op[u] # "init"
    BY <1>14 DEF Post, At, Goto, TypeOK
  <2> QED
    BY <2>1, <2>2, Stutter
<1>15. ASSUME NEW t \in Thread, Sign(t)
       PROVE  [Abstract!Next]_Abstract!vars
  <2>1. UNCHANGED <<length, data, alive>>
    BY <1>15 DEF Sign
  <2>2. \A u \in Thread : (At(u, "data") /\ op[u] # "init")' <=> At(u, "data") /\ op[u] # "init"
    BY <1>15 DEF Sign, At, Goto, TypeOK
  <2> QED
    BY <2>1, <2>2, Stutter
<1> QED
  BY <1>1, <1>2, <1>3, <1>4, <1>5, <1>6, <1>7, <1>8, <1>9, <1>10,
     <1>11, <1>12, <1>13, <1>14, <1>15
     DEF Next, Step

\* The lock and the map were just created.
LEMMA InitIInv == Init => IInv
<1> SUFFICES ASSUME Init PROVE IInv
  OBVIOUS
<1>1. 0 \in 0..(1 + Cardinality(Proc) + Cardinality(Thread))
  BY FS_CardinalityType, RegistryAssumption
<1>2. TypeOK
  BY <1>1, EmptyType, RegistryAssumption DEF Init, TypeOK, PC, Op
<1> QED
  BY <1>2 DEF Init, IInv, HolderOwns, Critical, Sound, Encoding,
                 Writing, At

\* A lock that was robbed stays so.
LEMMA StepRobbed == TypeOK /\ robbed /\ [Next]_vars => robbed'
<1> SUFFICES ASSUME TypeOK, robbed, [Next]_vars PROVE robbed'
  OBVIOUS
<1>1. ASSUME NEW t \in Thread, Step(t)
      PROVE  robbed'
  BY <1>1 DEF Step, Look, Judge, Post, TimeOut, Lock, Sign, SetFlag, Decode,
              Encode, WriteData, Unlock, Clear, lock
<1> QED
  BY <1>1 DEF Next, Begin, Kill, vars, lock

\* The invariant is inductive.
LEMMA StepIInv == IInv /\ [Next]_vars => IInv'
<1> SUFFICES ASSUME IInv, [Next]_vars PROVE IInv'
  OBVIOUS
<1>1. TypeOK'
  BY StepTypeOK DEF IInv
<1>2. ASSUME ~robbed'
      PROVE  Sound'
  <2>1. ~robbed
    BY <1>2, StepRobbed DEF IInv
  <2> QED
    BY <1>2, <2>1, StepOwns, StepWriting DEF IInv, Sound
<1> QED
  BY <1>1, <1>2 DEF IInv

\* Every reachable state satisfies it.
LEMMA Invariant == Spec => []IInv
  BY InitIInv, StepIInv, PTL DEF Spec

(* Every reachable state is well typed, in particular every length in the  *)
(* map is one that lists of processes and connections can have             *)
(* (JSONMMapBase.py:36-45), whatever forced unlocks do.                    *)
THEOREM TypeCorrect == Spec => []TypeOK
<1>1. Init => TypeOK
  BY InitIInv DEF IInv
<1>2. TypeOK /\ [Next]_vars => TypeOK'
  BY StepTypeOK
<1> QED
  BY <1>1, <1>2, PTL DEF Spec

(* Until a process that starts unlocks for somebody who is alive (at      *)
(* SHMResourceManager.py:101-109, after a stale look or a pid not yet      *)
(* written), a live thread between lock_fn's lock() and unlock() has the   *)
(* lock: no other one decodes or encodes meanwhile (23-39).                *)
THEOREM OneHolder ==
    Spec => [](~robbed => \A t, u \in Thread :
                             /\ At(t, "encode") \/ At(t, "data")
                             /\ At(u, "encode") \/ At(u, "data")
                             => t = u)
<1>1. IInv => (~robbed => \A t, u \in Thread :
                             /\ At(t, "encode") \/ At(t, "data")
                             /\ At(u, "encode") \/ At(u, "data")
                             => t = u)
  BY DEF IInv, Sound, HolderOwns, Critical, At
<1> QED
  BY <1>1, Invariant, PTL

(* The two-write updates under the lock implement the atomic operations of *)
(* Registry, with threads that fail anywhere, processes that die anywhere  *)
(* and processes that start at any time, whoever has the lock then; the    *)
(* forced unlock that robs a live thread is the step Break of Registry,    *)
(* after which nothing is promised.                                        *)
THEOREM Refinement == Spec => ImplementsRegistry
<1>1. Init => Abstract!Init
  BY DEF Init, Abstract!Init, Unreadable, Readable, At
<1>2. IInv /\ IInv' /\ [Next]_vars => [Abstract!Next]_Abstract!vars
  <2> SUFFICES ASSUME IInv, IInv', [Next]_vars
               PROVE  [Abstract!Next]_Abstract!vars
    OBVIOUS
  <2>1. CASE robbed'
    BY <2>1 DEF Abstract!Next, Abstract!Break, IInv, TypeOK
  <2>2. CASE ~robbed'
    <3>1. ~robbed
      BY <2>2, StepRobbed DEF IInv
    <3>2. UNCHANGED robbed
      BY <2>2, <3>1 DEF IInv, TypeOK
    <3> QED
      BY <3>1, <3>2, StepRefines DEF IInv, Sound
  <2> QED
    BY <2>1, <2>2
<1> QED
  BY <1>1, <1>2, Invariant, PTL DEF Spec, ImplementsRegistry, Abstract!Spec

=============================================================================
