----------------------- MODULE CircularLogLineProofs ------------------------
(* What a page of the log is given, as lines: the bytes that               *)
(* CircularLogProofs shows it to read, split at the newlines.              *)
EXTENDS CircularLogProofs, FiniteSetTheorems, WellFoundedInduction

Lines == (booted + 1)..Len(file)

\* at[n] is where line n begins in what was logged, with its newline.
LinesAt(at) ==
    /\ at \in [(booted + 1)..(Len(file) + 1) -> 1..(Len(logged) + 1)]
    /\ at[booted + 1] = 1
    /\ at[Len(file) + 1] = Len(logged) + 1
    /\ \A j, k \in (booted + 1)..(Len(file) + 1) : j < k => at[j] < at[k]
    /\ \A n \in Lines : at[n + 1] = at[n] + file[n] + 1
    /\ \A n \in Lines : \A b \in 0..file[n] : logged[at[n] + b] = <<n, b>>
    /\ \A i \in 1..Len(logged) : \E n \in Lines : at[n] <= i /\ i < at[n + 1]

(* What a reader was given ends with a line: the next one begins where the *)
(* reader is.                                                              *)
ReadersAt(at) ==
    \A r \in Reader :
        /\ r \notin current => read[r] <= booted
        /\ r \in current /\ offset[r] = Start => since[r] = 0 /\ read[r] = 0
        /\ r \in current /\ offset[r] # Start =>
             read[r] >= booted /\ since[r] = at[read[r] + 1] - 1

LInv == IInv /\ \E at : LinesAt(at) /\ ReadersAt(at)

-----------------------------------------------------------------------------
LEMMA Minimum ==
    ASSUME NEW T \in SUBSET Nat, T # {}
    PROVE  \E x \in T : \A y \in T : x <= y
<1>1. IsWellFoundedOn(OpToRel(<, Nat), Nat)
  BY NatLessThanWellFounded
<1>2. PICK x \in T : \A y \in T : ~(<<y, x>> \in OpToRel(<, Nat))
  BY <1>1, WFMin
<1>3. ASSUME NEW y \in T PROVE x <= y
  <2>1. ~(y < x)
    BY <1>2 DEF OpToRel
  <2> QED
    BY <2>1
<1> QED
  BY <1>3

Increasing(f) == \A j, k \in DOMAIN f : j < k => f[j] < f[k]

\* There is one way to put a set of numbers in order.
LEMMA OneOrder ==
    ASSUME NEW S \in SUBSET Nat, NEW K \in Nat,
           NEW e \in [1..K -> S], Increasing(e),
           NEW f \in [1..K -> S], Increasing(f),
           \A s \in S : \E k \in 1..K : e[k] = s,
           \A s \in S : \E k \in 1..K : f[k] = s
    PROVE  f = e
<1>1. SUFFICES ASSUME f # e PROVE FALSE
  OBVIOUS
<1> DEFINE T == {k \in 1..K : f[k] # e[k]}
<1>2. T # {} /\ T \in SUBSET Nat
  BY <1>1
<1>3. PICK p \in T : \A y \in T : p <= y
  BY <1>2, Minimum
<1>4. /\ p \in 1..K /\ f[p] # e[p]
      /\ \A q \in 1..K : q < p => f[q] = e[q]
  BY <1>3
<1>5. e[p] \in Nat /\ f[p] \in Nat /\ e[p] \in S /\ f[p] \in S
  BY <1>4
<1>6. CASE f[p] < e[p]
  <2>1. PICK q \in 1..K : e[q] = f[p]
    BY <1>5
  <2>2. q < p
    <3>1. q # p
      BY <1>6, <2>1, <1>5
    <3>2. ~(p < q)
      BY <1>4, <1>5, <1>6, <2>1 DEF Increasing
    <3> QED
      BY <1>4, <3>1, <3>2
  <2>3. f[q] < f[p]
    BY <1>4, <2>2 DEF Increasing
  <2> QED
    BY <1>4, <1>5, <2>1, <2>2, <2>3
<1>7. CASE e[p] < f[p]
  <2>1. PICK q \in 1..K : f[q] = e[p]
    BY <1>5
  <2>2. q < p
    <3>1. q # p
      BY <1>7, <2>1, <1>5
    <3>2. ~(p < q)
      BY <1>4, <1>5, <1>7, <2>1 DEF Increasing
    <3> QED
      BY <1>4, <3>1, <3>2
  <2>3. e[q] < e[p]
    BY <1>4, <2>2 DEF Increasing
  <2> QED
    BY <1>4, <1>5, <2>1, <2>2, <2>3
<1> QED
  BY <1>4, <1>5, <1>6, <1>7

\* A sequence that puts a set in order has as many elements as the set.
LEMMA OrderCounts ==
    ASSUME NEW S \in SUBSET Nat, NEW K \in Nat,
           NEW e \in [1..K -> S], Increasing(e),
           \A s \in S : \E k \in 1..K : e[k] = s
    PROVE  IsFiniteSet(S) /\ Cardinality(S) = K
<1>1. ASSUME NEW j \in 1..K, NEW k \in 1..K, j # k PROVE e[j] # e[k]
  <2>1. e[j] \in Nat /\ e[k] \in Nat
    OBVIOUS
  <2>2. j < k \/ k < j
    BY <1>1
  <2> QED
    BY <2>1, <2>2 DEF Increasing
<1>2. e \in Bijection(1..K, S)
  BY <1>1 DEF Bijection, Injection, Surjection, IsInjective
<1>3. IsFiniteSet(1..K) /\ Cardinality(1..K) = K
  BY FS_Interval
<1>4. ExistsBijection(1..K, S)
  BY <1>2 DEF ExistsBijection
<1> QED
  BY <1>3, <1>4, FS_Bijection

LEMMA OrderIsOnto ==
    ASSUME NEW S \in SUBSET Nat, NEW K \in Nat, IsFiniteSet(S),
           Cardinality(S) = K, NEW f \in [1..K -> S], Increasing(f)
    PROVE  \A s \in S : \E k \in 1..K : f[k] = s
<1>1. ASSUME NEW j \in 1..K, NEW k \in 1..K, j # k PROVE f[j] # f[k]
  <2>1. f[j] \in Nat /\ f[k] \in Nat
    OBVIOUS
  <2>2. j < k \/ k < j
    BY <1>1
  <2> QED
    BY <2>1, <2>2 DEF Increasing
<1>2. f \in Injection(1..K, S)
  BY <1>1 DEF Injection, IsInjective
<1>3. IsFiniteSet(1..K) /\ Cardinality(1..K) = K
  BY FS_Interval
<1>4. f \in Surjection(1..K, S)
  BY <1>2, <1>3, FS_Injection
<1> QED
  BY <1>4 DEF Surjection

\* Newlines returns the only sequence that lists them in their order.
LEMMA NewlinesAre ==
    ASSUME NEW data, DOMAIN data \in SUBSET Nat, NEW K \in Nat,
           NEW e \in [1..K -> {i \in DOMAIN data : data[i][2] = 0}],
           Increasing(e),
           \A i \in DOMAIN data : data[i][2] = 0 => \E k \in 1..K : e[k] = i
    PROVE  Newlines(data) = e
<1> DEFINE found == {i \in DOMAIN data : data[i][2] = 0}
           f     == CHOOSE f \in [1..Cardinality(found) -> found] :
                        \A j, k \in DOMAIN f : j < k => f[j] < f[k]
<1>1. /\ found \in SUBSET Nat
      /\ \A s \in found : \E k \in 1..K : e[k] = s
      /\ e \in [1..K -> found]
  OBVIOUS
<1>2. Newlines(data) = f
  BY DEF Newlines
<1> HIDE DEF found
<1>3. IsFiniteSet(found) /\ Cardinality(found) = K
  BY <1>1, OrderCounts
<1>4. \E g \in [1..Cardinality(found) -> found] :
         \A j, k \in DOMAIN g : j < k => g[j] < g[k]
  BY <1>1, <1>3 DEF Increasing
<1>5. f \in [1..K -> found] /\ Increasing(f)
  BY <1>3, <1>4 DEF Increasing
<1> HIDE DEF f
<1>6. \A s \in found : \E k \in 1..K : f[k] = s
  BY <1>1, <1>3, <1>5, OrderIsOnto
<1>7. f = e
  BY <1>1, <1>5, <1>6, OneOrder
<1> QED
  BY <1>2, <1>7

-----------------------------------------------------------------------------
\* The ends of the parts that Split returns.
Ends(data, e) == <<0>> \o e \o <<Len(data) + 1>>

LEMMA EndsAre ==
    ASSUME NEW data \in Seq(Byte), NEW K \in Nat, NEW e \in [1..K -> Nat]
    PROVE  /\ Ends(data, e) \in Seq(Nat) /\ Len(Ends(data, e)) = K + 2
           /\ \A k \in 1..K : Ends(data, e)[k + 1] = e[k]
           /\ Ends(data, e)[K + 2] = Len(data) + 1
<1> DEFINE a == <<0>>
           c == <<Len(data) + 1>>
<1>1. /\ a \in Seq(Nat) /\ Len(a) = 1 /\ c \in Seq(Nat) /\ Len(c) = 1
      /\ c[1] = Len(data) + 1
  OBVIOUS
<1>2. e \in Seq(Nat) /\ Len(e) = K
  OBVIOUS
<1> HIDE DEF a, c
<1>3. /\ a \o e \o c \in Seq(Nat)
      /\ Len(a \o e \o c) = Len(a) + Len(e) + Len(c)
      /\ \A i \in 1..Len(e) : (a \o e \o c)[Len(a) + i] = e[i]
      /\ \A i \in 1..Len(c) : (a \o e \o c)[Len(a) + Len(e) + i] = c[i]
  <2>1. a \in Seq(Nat) /\ e \in Seq(Nat) /\ c \in Seq(Nat)
    BY <1>1, <1>2
  <2> QED
    BY <2>1, ThreeParts
<1>4. Ends(data, e) = a \o e \o c
  BY DEF Ends, a, c
<1>5. ASSUME NEW k \in 1..K PROVE (a \o e \o c)[k + 1] = e[k]
  <2>1. 1 + k = k + 1 /\ k \in 1..Len(e)
    BY <1>2
  <2> QED
    BY <1>1, <1>3, <2>1
<1>6. (a \o e \o c)[K + 2] = Len(data) + 1
  <2>1. 1 + K + 1 = K + 2 /\ 1 \in 1..Len(c)
    BY <1>1
  <2> QED
    BY <1>1, <1>2, <1>3, <2>1
<1> QED
  BY <1>1, <1>2, <1>3, <1>4, <1>5, <1>6

\* All but the first of what Split returns: the parts that a newline begins.
LEMMA AfterNewlines ==
    ASSUME NEW data \in Seq(Byte), NEW K \in Nat,
           NEW e \in [1..K -> {i \in DOMAIN data : data[i][2] = 0}],
           Increasing(e),
           \A i \in DOMAIN data : data[i][2] = 0 => \E k \in 1..K : e[k] = i
    PROVE  Tail(Split(data)) =
              [k \in 1..K |->
                 SubSeq(data, e[k] + 1,
                        (IF k = K THEN Len(data) + 1 ELSE e[k + 1]) - 1)]
<1> DEFINE ends == Ends(data, e)
           part(k) == SubSeq(data, ends[k] + 1, ends[k + 1] - 1)
           parts == [k \in 1..(K + 1) |-> part(k)]
<1>1. DOMAIN data \in SUBSET Nat
  OBVIOUS
<1>2. Newlines(data) = e
  BY <1>1, NewlinesAre
<1>3. e \in [1..K -> Nat]
  BY <1>1
<1>4. /\ ends \in Seq(Nat) /\ Len(ends) = K + 2
      /\ \A k \in 1..K : ends[k + 1] = e[k]
      /\ ends[K + 2] = Len(data) + 1
  BY <1>3, EndsAre
<1>5. Split(data) = [k \in 1..(Len(ends) - 1) |-> part(k)]
  BY <1>2 DEF Split, Ends
<1> HIDE DEF ends
<1>6. Split(data) = parts
  BY <1>4, <1>5
<1> DEFINE S == {part(k) : k \in 1..(K + 1)}
<1>7. /\ parts \in Seq(S) /\ Len(parts) = K + 1 /\ parts # <<>>
      /\ \A k \in 1..(K + 1) : parts[k] = part(k)
  <2>1. \A k \in 1..(K + 1) : part(k) \in S
    OBVIOUS
  <2> HIDE DEF S, part
  <2> QED
    BY <2>1
<1> HIDE DEF parts, S
<1>8. /\ Tail(parts) \in Seq(S) /\ Len(Tail(parts)) = Len(parts) - 1
      /\ \A i \in 1..Len(Tail(parts)) : Tail(parts)[i] = parts[i + 1]
  BY <1>7, HeadTailProperties
<1>9. /\ DOMAIN Tail(parts) = 1..K /\ Tail(parts) \in Seq(S)
      /\ \A k \in 1..K : Tail(parts)[k] = part(k + 1)
  <2> HIDE DEF part
  <2> QED
    BY <1>7, <1>8
<1>10. \A k \in 1..K :
          part(k + 1) =
             SubSeq(data, e[k] + 1,
                    (IF k = K THEN Len(data) + 1 ELSE e[k + 1]) - 1)
  <2> TAKE k \in 1..K
  <2>1. ends[k + 1] = e[k]
    BY <1>4
  <2>2. ends[k + 1 + 1] = IF k = K THEN Len(data) + 1 ELSE e[k + 1]
    <3>1. CASE k = K
      BY <1>4, <3>1
    <3>2. CASE k # K
      <4>1. k + 1 \in 1..K
        BY <3>2
      <4> QED
        BY <1>4, <3>2, <4>1
    <3> QED
      BY <3>1, <3>2
  <2> QED
    BY <2>1, <2>2
<1> HIDE DEF part
<1>11. Tail(parts) = [k \in 1..K |-> part(k + 1)]
  <2>1. Tail(parts) \in [1..K -> S]
    BY <1>9, LenProperties
  <2> QED
    BY <1>9, <2>1
<1> QED
  BY <1>6, <1>10, <1>11

-----------------------------------------------------------------------------
LEMMA LineTypes ==
    ASSUME IInv, NEW at, LinesAt(at)
    PROVE  /\ Len(logged) \in Nat /\ Len(file) \in Nat
           /\ booted \in Nat /\ booted <= Len(file)
           /\ \A j \in (booted + 1)..(Len(file) + 1) :
                 at[j] \in Nat /\ at[j] > 0 /\ at[j] <= Len(logged) + 1
           /\ \A n \in Lines : file[n] \in Nat /\ n \in Nat
<1>1. /\ Len(logged) \in Nat /\ Len(file) \in Nat
      /\ booted \in Nat /\ booted <= Len(file)
      /\ file \in Seq(Length) /\ Length \subseteq Nat
  BY LogAssumption DEF IInv, TypeOK
<1>2. ASSUME NEW j \in (booted + 1)..(Len(file) + 1)
      PROVE  at[j] \in Nat /\ at[j] > 0 /\ at[j] <= Len(logged) + 1
  <2>1. at \in [(booted + 1)..(Len(file) + 1) -> 1..(Len(logged) + 1)]
    BY DEF LinesAt
  <2>2. at[j] \in 1..(Len(logged) + 1)
    BY <2>1
  <2> QED
    BY <1>1, <2>2
<1>3. ASSUME NEW n \in Lines PROVE file[n] \in Nat /\ n \in Nat
  <2>1. n \in 1..Len(file) /\ n \in Nat
    BY <1>1 DEF Lines
  <2> QED
    BY <1>1, <2>1, ElementOfSeq
<1> QED
  BY <1>1, <1>2, <1>3

\* The first line that begins behind a byte.
LEMMA FirstLine ==
    ASSUME IInv, NEW at, LinesAt(at), NEW m \in 0..Len(logged)
    PROVE  \E first \in (booted + 1)..(Len(file) + 1) :
              /\ at[first] > m
              /\ \A j \in (booted + 1)..(Len(file) + 1) :
                    j < first => at[j] <= m
<1>1. CASE m = 0
  <2>0. booted \in Nat /\ Len(file) \in Nat /\ booted <= Len(file)
    BY LineTypes
  <2>1. booted + 1 \in (booted + 1)..(Len(file) + 1) /\ at[booted + 1] = 1
    BY <2>0 DEF LinesAt
  <2>2. \A j \in (booted + 1)..(Len(file) + 1) : ~(j < booted + 1)
    BY <2>0
  <2> QED
    BY <1>1, <2>1, <2>2
<1>2. CASE m # 0
  <2>1. m \in 1..Len(logged)
    BY <1>2
  <2>2. PICK n \in Lines : at[n] <= m /\ m < at[n + 1]
    BY <2>1 DEF LinesAt
  <2>3. /\ n \in (booted + 1)..(Len(file) + 1)
        /\ n + 1 \in (booted + 1)..(Len(file) + 1)
        /\ n \in Nat /\ at[n] \in Nat /\ at[n + 1] \in Nat
    <3>1. booted \in Nat /\ Len(file) \in Nat /\ booted <= Len(file)
      BY LineTypes
    <3>2. /\ n \in (booted + 1)..(Len(file) + 1) /\ n \in Nat
          /\ n + 1 \in (booted + 1)..(Len(file) + 1)
      BY <3>1 DEF Lines
    <3> QED
      BY <3>2, LineTypes
  <2>4. ASSUME NEW j \in (booted + 1)..(Len(file) + 1), j < n + 1
        PROVE  at[j] <= m
    <3>1. j = n \/ j < n
      BY <2>3, <2>4
    <3>2. at[j] <= at[n] /\ at[j] \in Nat
      <4>1. j < n => at[j] < at[n]
        BY <2>3 DEF LinesAt
      <4>2. at[j] \in Nat
        BY LineTypes
      <4> QED
        BY <2>3, <3>1, <4>1, <4>2
    <3> QED
      BY <2>2, <2>3, <3>2
  <2> QED
    BY <2>2, <2>3, <2>4
<1> QED
  BY <1>1, <1>2

\* The bytes between two newlines are the line.
LEMMA PartIsLine ==
    ASSUME NEW data \in Seq(Byte), NEW p \in Nat, NEW len \in Nat, NEW n,
           \A b \in 1..len : p + b \in 1..Len(data) /\ data[p + b] = <<n, b>>
    PROVE  SubSeq(data, p + 1, p + len) = Tail(Line(n, len))
<1> DEFINE first == p + 1
           last  == p + len
           part  == SubSeq(data, first, last)
           line  == Line(n, len)
           S     == {<<n, b>> : b \in 0..len}
<1>1. /\ first \in Int /\ last \in Int /\ last - first + 1 = len
      /\ first <= last => last - first + 1 = len
      /\ ~(first <= last) => len = 0
      /\ \A b \in Int : first + b - 1 = p + b
  OBVIOUS
<1>2. ASSUME NEW i \in first..last PROVE data[i] \in S
  <2>1. i - p \in 1..len /\ p + (i - p) = i
    BY <1>1
  <2>2. data[i] = <<n, i - p>>
    BY <2>1
  <2> QED
    BY <2>1, <2>2
<1> HIDE DEF S, first, last
<1>3. /\ part \in Seq(S)
      /\ Len(part) = IF first <= last THEN last - first + 1 ELSE 0
      /\ \A i \in 1..(last - first + 1) : part[i] = data[first + i - 1]
  BY <1>1, <1>2, SubSeqProperties
<1>4. Len(part) = len
  BY <1>1, <1>3
<1>5. ASSUME NEW b \in 1..len PROVE part[b] = <<n, b>>
  <2>1. first + b - 1 = p + b /\ b \in 1..(last - first + 1)
    BY <1>1
  <2>2. part[b] = data[first + b - 1]
    BY <1>3, <2>1
  <2> QED
    BY <2>1, <2>2
<1>6. /\ line \in Seq(S) /\ Len(line) = len + 1 /\ line # <<>>
      /\ \A i \in 1..(len + 1) : line[i] = <<n, i - 1>>
  <2> DEFINE byte(i) == <<n, i - 1>>
  <2>1. \A i \in 1..(len + 1) : byte(i) \in S
    BY DEF S
  <2>2. line = [i \in 1..(len + 1) |-> byte(i)]
    BY DEF Line
  <2>3. \A i : byte(i) = <<n, i - 1>>
    OBVIOUS
  <2> HIDE DEF line, byte
  <2>4. /\ line \in Seq(S) /\ Len(line) = len + 1
        /\ \A i \in 1..(len + 1) : line[i] = byte(i)
    BY <2>1, <2>2
  <2>5. line # <<>>
    BY <2>4
  <2> QED
    BY <2>3, <2>4, <2>5
<1> HIDE DEF line, part
<1>7. /\ Tail(line) \in Seq(S) /\ Len(Tail(line)) = Len(line) - 1
      /\ \A i \in 1..Len(Tail(line)) : Tail(line)[i] = line[i + 1]
  BY <1>6, HeadTailProperties
<1>8. Len(Tail(line)) = len
  BY <1>6, <1>7
<1>9. ASSUME NEW b \in 1..len PROVE Tail(line)[b] = <<n, b>>
  <2>1. b + 1 \in 1..(len + 1) /\ b + 1 - 1 = b
    OBVIOUS
  <2> QED
    BY <1>6, <1>7, <1>8, <2>1
<1>10. part = Tail(line)
  BY <1>3, <1>4, <1>5, <1>7, <1>8, <1>9, SeqEqual
<1> QED
  BY <1>10 DEF part, line, first, last

\* What is split out of the end of what was logged are the lines in it.
LEMMA SuffixLines ==
    ASSUME IInv, NEW at, LinesAt(at), NEW m \in 0..Len(logged),
           NEW data \in Seq(Byte), Len(data) = Len(logged) - m,
           \A i \in 1..Len(data) : data[i] = logged[m + i],
           NEW first \in (booted + 1)..(Len(file) + 1), at[first] > m,
           \A j \in (booted + 1)..(Len(file) + 1) : j < first => at[j] <= m
    PROVE  Tail(Split(data)) = LinesFrom(first)
<1> DEFINE K == Len(file) + 1 - first
           e == [k \in 1..K |-> at[first + k - 1] - m]
           found == {i \in DOMAIN data : data[i][2] = 0}
<1>1. /\ Len(logged) \in Nat /\ Len(file) \in Nat
      /\ booted \in Nat /\ booted <= Len(file) /\ m \in Nat /\ first \in Nat
      /\ DOMAIN data = 1..Len(data) /\ Len(data) \in Nat /\ K \in Nat
  BY LineTypes
<1>2. ASSUME NEW n \in Lines
      PROVE  /\ n \in (booted + 1)..(Len(file) + 1) /\ n \in Nat
             /\ n + 1 \in (booted + 1)..(Len(file) + 1)
             /\ at[n] \in Nat /\ at[n + 1] \in Nat /\ file[n] \in Nat
             /\ at[n] > 0 /\ at[n + 1] = at[n] + file[n] + 1
             /\ at[n + 1] <= Len(logged) + 1
             /\ n >= first => at[n] > m
             /\ n < first => at[n] <= m
  <2>1. /\ n \in (booted + 1)..(Len(file) + 1) /\ n \in Nat
        /\ n + 1 \in (booted + 1)..(Len(file) + 1)
    BY <1>1 DEF Lines
  <2>2. /\ at[n] \in Nat /\ at[n + 1] \in Nat /\ file[n] \in Nat
        /\ at[n] > 0 /\ at[n + 1] <= Len(logged) + 1
    BY <2>1, LineTypes
  <2>3. at[n + 1] = at[n] + file[n] + 1
    BY DEF LinesAt
  <2>4. n >= first => at[n] > m
    <3>1. CASE n = first
      BY <3>1
    <3>2. CASE n > first
      <4>1. at[first] < at[n]
        BY <1>1, <2>1, <3>2 DEF LinesAt
      <4> QED
        BY <1>1, <2>2, <4>1, LineTypes
    <3> QED
      BY <1>1, <2>1, <3>1, <3>2
  <2> QED
    BY <2>1, <2>2, <2>3, <2>4
<1>3. ASSUME NEW n \in Lines, n >= first, NEW b \in 0..file[n]
      PROVE  /\ at[n] - m + b \in 1..Len(data)
             /\ data[at[n] - m + b] = <<n, b>>
  <2> DEFINE a == at[n]
  <2>0. /\ a \in Nat /\ a > m /\ b \in Nat /\ a + b <= Len(logged)
        /\ a + file[n] <= Len(logged)
    <3>1. /\ a \in Nat /\ file[n] \in Nat /\ at[n + 1] = a + file[n] + 1
          /\ at[n + 1] <= Len(logged) + 1
          /\ n >= first => a > m
      BY <1>2
    <3>2. a > m
      BY <1>3, <3>1
    <3>3. a + file[n] + 1 <= Len(logged) + 1
      BY <3>1
    <3> HIDE DEF a
    <3>4. b \in Nat /\ b <= file[n]
      BY <1>3, <3>1
    <3> QED
      BY <1>1, <3>1, <3>2, <3>3, <3>4, SMTT(30)
  <2> HIDE DEF a
  <2>1. a - m + b \in 1..Len(data) /\ m + (a - m + b) = a + b
    BY <1>1, <2>0
  <2>2. logged[at[n] + b] = <<n, b>>
    BY DEF LinesAt
  <2>3. data[a - m + b] = logged[m + (a - m + b)]
    BY <2>1
  <2> QED
    BY <2>1, <2>2, <2>3 DEF a
<1>4. ASSUME NEW k \in 1..K
      PROVE  /\ first + k - 1 \in Lines /\ first + k - 1 >= first
             /\ e[k] = at[first + k - 1] - m
  BY <1>1 DEF Lines
<1> HIDE DEF e, K
<1>5. ASSUME NEW k \in 1..K PROVE e[k] \in found
  <2> DEFINE n == first + k - 1
  <2>1. n \in Lines /\ n >= first /\ e[k] = at[n] - m
    BY <1>4
  <2> HIDE DEF n
  <2>2. 0 \in 0..file[n] /\ at[n] - m + 0 = at[n] - m
    BY <1>1, <1>2, <2>1, SMTT(30)
  <2>3. at[n] - m \in 1..Len(data) /\ data[at[n] - m] = <<n, 0>>
    BY <1>3, <2>1, <2>2
  <2> QED
    BY <1>1, <2>1, <2>3
<1>6. e \in [1..K -> found]
  BY <1>5 DEF e
<1>7. Increasing(e)
  <2> SUFFICES ASSUME NEW j \in 1..K, NEW k \in 1..K, j < k
               PROVE  e[j] < e[k]
    BY DEF Increasing, e
  <2> DEFINE x == first + j - 1
             y == first + k - 1
  <2>1. x \in Lines /\ y \in Lines /\ x < y
    <3>1. x \in Lines /\ y \in Lines
      BY <1>4
    <3>2. j \in Nat /\ k \in Nat
      OBVIOUS
    <3> QED
      BY <1>1, <3>1, <3>2
  <2>2. e[j] = at[x] - m /\ e[k] = at[y] - m
    BY <1>4
  <2> HIDE DEF x, y
  <2>3. at[x] < at[y] /\ at[x] \in Nat /\ at[y] \in Nat
    BY <1>2, <2>1 DEF LinesAt
  <2> QED
    BY <1>1, <2>2, <2>3
<1>8. ASSUME NEW i \in DOMAIN data, data[i][2] = 0
      PROVE  \E k \in 1..K : e[k] = i
  <2>1. i \in 1..Len(data) /\ m + i \in 1..Len(logged)
    BY <1>1
  <2>2. PICK n \in Lines : at[n] <= m + i /\ m + i < at[n + 1]
    BY <2>1 DEF LinesAt
  <2> DEFINE from == at[n]
             len  == file[n]
             b    == m + i - from
             k    == n - first + 1
  <2>3. /\ from \in Nat /\ len \in Nat /\ n \in Nat
        /\ from <= m + i /\ m + i < from + len + 1
        /\ n < first => from <= m
    BY <1>2, <2>2
  <2> HIDE DEF from, len
  <2>4. b \in 0..len /\ from + b = m + i
    BY <1>1, <2>1, <2>3, SMTT(30)
  <2> HIDE DEF b
  <2>5. logged[from + b] = <<n, b>>
    BY <2>2, <2>4 DEF LinesAt, from, len
  <2>6. b = 0
    <3>1. data[i] = <<n, b>>
      BY <2>1, <2>4, <2>5
    <3> QED
      BY <1>8, <3>1
  <2>7. from = m + i
    BY <1>1, <2>1, <2>3, <2>4, <2>6
  <2>8. n >= first
    BY <1>1, <2>1, <2>3, <2>7
  <2>9. k \in 1..K /\ first + k - 1 = n
    BY <1>1, <2>2, <2>3, <2>8 DEF K, Lines
  <2> HIDE DEF k
  <2>10. e[k] = from - m
    BY <1>4, <2>9 DEF from
  <2>11. e[k] = i
    BY <1>1, <2>1, <2>7, <2>10
  <2> QED
    BY <2>9, <2>11
<1>9. Tail(Split(data)) =
          [k \in 1..K |->
             SubSeq(data, e[k] + 1,
                    (IF k = K THEN Len(data) + 1 ELSE e[k + 1]) - 1)]
  BY <1>1, <1>6, <1>7, <1>8, AfterNewlines
<1>10. ASSUME NEW k \in 1..K
       PROVE  SubSeq(data, e[k] + 1,
                     (IF k = K THEN Len(data) + 1 ELSE e[k + 1]) - 1)
                 = Tail(Line(first + k - 1, file[first + k - 1]))
  <2> DEFINE n    == first + k - 1
             next == IF k = K THEN Len(data) + 1 ELSE e[k + 1]
             p    == e[k]
             len  == file[n]
             from == at[n]
             to   == at[n + 1]
  <2>1. n \in Lines /\ n >= first /\ p = from - m
    BY <1>4
  <2>2. next = to - m
    <3>1. CASE k = K
      <4>1. n + 1 = Len(file) + 1
        BY <1>1, <3>1 DEF K
      <4> QED
        BY <1>1, <3>1, <4>1 DEF LinesAt
    <3>2. CASE k # K
      <4>1. k + 1 \in 1..K /\ first + (k + 1) - 1 = n + 1
        BY <1>1, <3>2
      <4> QED
        BY <1>4, <3>2, <4>1
    <3> QED
      BY <3>1, <3>2
  <2>3. /\ from \in Nat /\ len \in Nat /\ to = from + len + 1
        /\ from > m
    <3> HIDE DEF n
    <3> QED
      BY <1>2, <2>1
  <2>4. ASSUME NEW b \in 1..len
        PROVE  from - m + b \in 1..Len(data) /\ data[from - m + b] = <<n, b>>
    <3> HIDE DEF n
    <3>1. b \in 0..file[n]
      BY <2>3
    <3> QED
      BY <1>3, <2>1, <3>1
  <2> HIDE DEF n, next, p, len, from, to
  <2>5. p \in Nat /\ next - 1 = p + len
    <3>1. m \in Nat
      BY <1>1
    <3>2. from - m \in Nat /\ to - m - 1 = from - m + len
      BY <2>3, <3>1
    <3> QED
      BY <2>1, <2>2, <3>2
  <2>6. \A b \in 1..len : p + b \in 1..Len(data) /\ data[p + b] = <<n, b>>
    BY <2>1, <2>4
  <2>7. SubSeq(data, p + 1, p + len) = Tail(Line(n, len))
    BY <2>3, <2>5, <2>6, PartIsLine
  <2>8. SubSeq(data, p + 1, next - 1) = Tail(Line(n, len))
    BY <2>5, <2>7
  <2> QED
    BY <2>8 DEF n, next, p, len
<1>11. LinesFrom(first) =
          [k \in 1..K |-> Tail(Line(first + k - 1, file[first + k - 1]))]
  BY DEF LinesFrom, K
<1> QED
  BY <1>9, <1>10, <1>11

-----------------------------------------------------------------------------
\* The lines that a poll is answered with.
LEMMA AnswerIs ==
    ASSUME IInv, NEW at, LinesAt(at),
           NEW o \in 0..MaxCache \cup {Start}, o # spindle,
           NEW first \in (booted + 1)..(Len(file) + 1),
           at[first] > Skipped(o),
           \A j \in (booted + 1)..(Len(file) + 1) :
              j < first => at[j] <= Skipped(o)
    PROVE  Answer(o) = LinesFrom(first)
<1> DEFINE m    == Skipped(o)
           data == Data(o)
<1>1. m \in 0..Len(logged) /\ data = SubSeq(logged, m + 1, Len(logged))
  BY DataIsEnd
<1>2. /\ at[first] > m
      /\ \A j \in (booted + 1)..(Len(file) + 1) : j < first => at[j] <= m
  OBVIOUS
<1>3. logged \in Seq(Byte)
  BY DEF IInv, TypeOK
<1>4. Answer(o) = Tail(Split(data))
  BY DEF Answer
<1> HIDE DEF m, data
<1>5. /\ data \in Seq(Byte) /\ Len(data) = Len(logged) - m
      /\ \A i \in 1..(Len(logged) - m) : data[i] = logged[m + i]
  BY <1>1, <1>3, EndOf
<1>6. Tail(Split(data)) = LinesFrom(first)
  BY <1>1, <1>2, <1>5, SuffixLines
<1> QED
  BY <1>4, <1>6

LEMMA NoLines ==
    ASSUME IInv
    PROVE  LinesFrom(Len(file) + 1) = <<>>
<1>1. Len(file) \in Nat
  BY DEF IInv, TypeOK
<1>2. Len(file) + 1 - (Len(file) + 1) = 0
  BY <1>1
<1> QED
  BY <1>2 DEF LinesFrom

LEMMA ReaderTypes ==
    ASSUME IInv, NEW r \in Reader
    PROVE  /\ offset[r] \in 0..MaxCache \cup {Start}
           /\ since[r] \in Nat /\ since[r] <= Len(logged)
           /\ read[r] \in Nat /\ read[r] <= Len(file)
           /\ MaxCache \in Nat /\ spindle \in Nat /\ Start \notin Nat
           /\ Len(logged) \in Nat /\ Len(file) \in Nat
           /\ current \subseteq Reader
  BY LogAssumption DEF IInv, TypeOK

LEMMA LInvWholeNewLines == LInv => WholeNewLines
<1> SUFFICES ASSUME IInv, NEW at, LinesAt(at), ReadersAt(at),
                    NEW r \in Reader
             PROVE  \E n \in (read[r] + 1)..(Len(file) + 1) :
                       Answer(offset[r]) = LinesFrom(n)
  BY DEF LInv, WholeNewLines
<1> DEFINE o == offset[r]
           m == Skipped(o)
<1>1. /\ o \in 0..MaxCache \cup {Start}
      /\ since[r] \in Nat /\ since[r] <= Len(logged)
      /\ read[r] \in Nat /\ read[r] <= Len(file)
      /\ MaxCache \in Nat /\ Len(logged) \in Nat /\ Len(file) \in Nat
      /\ booted \in Nat
  BY ReaderTypes, LineTypes
<1>2. CASE o = spindle
  <2>1. Answer(o) = LinesFrom(Len(file) + 1)
    BY <1>2, NoLines DEF Answer
  <2>2. Len(file) + 1 \in (read[r] + 1)..(Len(file) + 1)
    BY <1>1
  <2> QED
    BY <2>1, <2>2
<1>3. CASE o # spindle
  <2>1. /\ m \in 0..Len(logged) /\ Len(logged) - m <= MaxCache
    BY <1>1, DataIsEnd
  <2> HIDE DEF m
  <2>2. PICK first \in (booted + 1)..(Len(file) + 1) :
           /\ at[first] > m
           /\ \A j \in (booted + 1)..(Len(file) + 1) :
                 j < first => at[j] <= m
    BY <2>1, FirstLine
  <2>3. Answer(o) = LinesFrom(first)
    <3> HIDE DEF o
    <3> QED
      BY <1>1, <1>3, <2>2, AnswerIs DEF m
  <2>4. first >= read[r] + 1
    <3>1. CASE r \notin current
      <4>1. read[r] <= booted
        BY <3>1 DEF ReadersAt
      <4> QED
        BY <1>1, <2>2, <4>1
    <3>2. CASE r \in current /\ o = Start
      <4>1. read[r] = 0
        BY <3>2 DEF ReadersAt
      <4> QED
        BY <1>1, <2>2, <4>1
    <3>3. CASE r \in current /\ o # Start
      <4> DEFINE n    == read[r] + 1
                 from == at[n]
      <4>1. read[r] >= booted /\ since[r] = from - 1
        BY <3>3 DEF ReadersAt
      <4>2. n \in (booted + 1)..(Len(file) + 1)
        BY <1>1, <4>1
      <4>3. from \in Nat
        BY <4>2, LineTypes
      <4> HIDE DEF n, from
      <4>4. m >= since[r]
        <5>1. CASE Len(logged) - since[r] < MaxCache
          <6>1. m = since[r]
            BY <3>3, <5>1, ReadsOn DEF m
          <6> QED
            BY <1>1, <6>1
        <5>2. CASE ~(Len(logged) - since[r] < MaxCache)
          <6>1. m \in Nat
            BY <2>1
          <6> QED
            BY <1>1, <2>1, <5>2, <6>1
        <5> QED
          BY <5>1, <5>2
      <4>5. ~(n <= first) => FALSE
        <5> SUFFICES ASSUME ~(n <= first) PROVE FALSE
          OBVIOUS
        <5>1. first < n
          BY <1>1, <2>2, <4>2
        <5>2. at[first] < from /\ at[first] \in Nat
          BY <2>2, <4>2, <5>1, LineTypes DEF LinesAt, from
        <5>3. m \in Nat
          BY <2>1
        <5> QED
          BY <1>1, <2>2, <4>1, <4>3, <4>4, <5>2, <5>3
      <4> QED
        BY <1>1, <2>2, <4>5 DEF n
    <3> QED
      BY <3>1, <3>2, <3>3
  <2>5. first \in (read[r] + 1)..(Len(file) + 1)
    BY <1>1, <2>2, <2>4
  <2> QED
    BY <2>3, <2>5
<1> QED
  BY <1>2, <1>3

LEMMA LInvNothingMissed == LInv => NothingMissed
<1> SUFFICES ASSUME IInv, NEW at, LinesAt(at), ReadersAt(at),
                    NEW r \in current,
                    \/ Len(logged) - since[r] < MaxCache
                    \/ /\ offset[r] = Start
                       /\ Len(logged) - since[r] = MaxCache
             PROVE  Answer(offset[r]) =
                       LinesFrom(IF offset[r] = Start THEN booted + 1
                                                      ELSE read[r] + 1)
  BY DEF LInv, NothingMissed
<1> DEFINE o == offset[r]
           m == Skipped(o)
<1>0. r \in Reader
  BY DEF IInv, TypeOK
<1>1. /\ o \in 0..MaxCache \cup {Start}
      /\ since[r] \in Nat /\ since[r] <= Len(logged)
      /\ read[r] \in Nat /\ read[r] <= Len(file)
      /\ MaxCache \in Nat /\ spindle \in Nat /\ Start \notin Nat
      /\ Len(logged) \in Nat /\ Len(file) \in Nat
      /\ booted \in Nat /\ booted <= Len(file)
  BY <1>0, ReaderTypes, LineTypes
<1>2. CASE o = Start
  <2>1. since[r] = 0
    BY <1>0, <1>2 DEF ReadersAt
  <2>2. m = 0
    BY <1>1, <1>2, <2>1 DEF Skipped, SkippedAround
  <2>3. booted + 1 \in (booted + 1)..(Len(file) + 1) /\ at[booted + 1] = 1
    BY <1>1 DEF LinesAt
  <2>4. ~(\E j \in (booted + 1)..(Len(file) + 1) : j < booted + 1)
    BY <1>1
  <2>5. o # spindle
    BY <1>1, <1>2
  <2> HIDE DEF o
  <2>6. Answer(o) = LinesFrom(booted + 1)
    BY <1>1, <2>2, <2>3, <2>4, <2>5, AnswerIs
  <2> QED
    BY <1>2, <2>6 DEF o
<1>3. CASE o # Start
  <2> DEFINE n    == read[r] + 1
             from == at[n]
  <2>1. read[r] >= booted /\ since[r] = from - 1
    BY <1>0, <1>3 DEF ReadersAt
  <2>2. n \in (booted + 1)..(Len(file) + 1)
    BY <1>1, <2>1
  <2>3. from \in Nat /\ from > 0
    BY <2>2, LineTypes
  <2>4. Len(logged) - since[r] < MaxCache
    BY <1>3
  <2>5. m = since[r]
    BY <1>3, <2>4, ReadsOn
  <2>6. CASE o = spindle
    <3>1. since[r] = Len(logged)
      <4>1. \/ o = spindle - (Len(logged) - since[r])
            \/ o = spindle - (Len(logged) - since[r]) + MaxCache
        BY <1>3, <2>4 DEF IInv, Offsets
      <4> QED
        BY <1>1, <2>4, <2>6, <4>1
    <3>2. from = at[Len(file) + 1]
      BY <1>1, <2>1, <2>3, <3>1, SMTT(30) DEF LinesAt
    <3>3. n = Len(file) + 1
      <4>1. CASE n < Len(file) + 1
        <5>1. Len(file) + 1 \in (booted + 1)..(Len(file) + 1)
          BY <1>1
        <5> HIDE DEF n
        <5>2. at[n] < at[Len(file) + 1]
          BY <2>2, <4>1, <5>1 DEF LinesAt
        <5> QED
          BY <2>3, <3>2, <5>2
      <4> QED
        BY <1>1, <4>1
    <3>4. Answer(o) = <<>>
      BY <2>6 DEF Answer
    <3> QED
      BY <1>3, <3>3, <3>4, NoLines
  <2>7. CASE o # spindle
    <3>1. from > m
      BY <1>1, <2>1, <2>3, <2>5
    <3>2. ASSUME NEW j \in (booted + 1)..(Len(file) + 1), j < n
          PROVE  at[j] <= m
      <4> HIDE DEF n
      <4>1. at[j] < from
        BY <2>2, <3>2 DEF LinesAt
      <4>2. at[j] \in Nat
        BY LineTypes
      <4> QED
        BY <1>1, <2>1, <2>3, <2>5, <4>1, <4>2
    <3>3. /\ at[n] > Skipped(o)
          /\ \A j \in (booted + 1)..(Len(file) + 1) :
                j < n => at[j] <= Skipped(o)
      BY <3>1, <3>2
    <3> HIDE DEF o, n
    <3>4. Answer(o) = LinesFrom(n)
      BY <1>1, <2>2, <2>7, <3>3, AnswerIs
    <3> QED
      BY <1>3, <3>4 DEF o, n
  <2> QED
    BY <2>6, <2>7
<1> QED
  BY <1>2, <1>3

-----------------------------------------------------------------------------
\* Where the lines begin when another one is logged.
Extended(at, length) ==
    [n \in (booted + 1)..(Len(file) + 2) |->
       IF n = Len(file) + 2 THEN Len(logged) + 1 + length + 1 ELSE at[n]]

LEMMA WriteLines ==
    ASSUME IInv, NEW at, LinesAt(at), NEW length \in Length, WriteLine(length),
           NEW new, new = Extended(at, length)
    PROVE  LinesAt(new)'
<1> DEFINE F   == Len(file)
           n   == Len(logged)
           s   == Line(F + 1, length)
<1>1. /\ n \in Nat /\ F \in Nat /\ booted \in Nat /\ booted <= F
      /\ length \in Nat /\ file \in Seq(Length) /\ logged \in Seq(Byte)
  <2>1. length \in Nat
    BY LogAssumption
  <2>2. file \in Seq(Length) /\ logged \in Seq(Byte)
    BY DEF IInv, TypeOK
  <2> QED
    BY <2>1, <2>2, LineTypes
<1>2. /\ file' \in Seq(Length) /\ Len(file') = F + 1
      /\ \A i \in 1..F : file'[i] = file[i]
      /\ file'[F + 1] = length
  <2>1. file' = Append(file, length)
    BY DEF WriteLine
  <2> QED
    BY <1>1, <2>1, AppendProperties
<1>3. s \in Seq(Byte) /\ Len(s) = length + 1
      /\ \A b \in 0..length : s[b + 1] = <<F + 1, b>>
  <2>1. F + 1 \in 1..MaxLines /\ length + 1 < MaxCache
    BY <1>1, LogAssumption DEF WriteLine, IInv, TypeOK
  <2>2. s \in Seq(Byte) /\ Len(s) = length + 1
    BY <1>1, <2>1, LineBytes
  <2>3. \A b \in 0..length : s[b + 1] = <<F + 1, b>>
    <3> TAKE b \in 0..length
    <3>1. b + 1 \in 1..(length + 1) /\ b + 1 - 1 = b
      BY <1>1
    <3> QED
      BY <3>1 DEF Line
  <2> QED
    BY <2>2, <2>3
<1>4. booted' = booted /\ logged' = logged \o s
  BY DEF WriteLine
<1> HIDE DEF s
<1>5. /\ logged' \in Seq(Byte) /\ Len(logged') = n + length + 1
      /\ \A i \in 1..n : logged'[i] = logged[i]
      /\ \A b \in 0..length : logged'[n + 1 + b] = <<F + 1, b>>
  <2>1. /\ logged' \in Seq(Byte) /\ Len(logged') = n + Len(s)
        /\ \A i \in 1..(n + Len(s)) :
              logged'[i] = IF i <= n THEN logged[i] ELSE s[i - n]
    BY <1>1, <1>3, <1>4, ConcatProperties
  <2>2. ASSUME NEW i \in 1..n PROVE logged'[i] = logged[i]
    BY <1>1, <1>3, <2>1
  <2>3. ASSUME NEW b \in 0..length PROVE logged'[n + 1 + b] = <<F + 1, b>>
    <3>1. /\ n + 1 + b \in 1..(n + Len(s)) /\ ~(n + 1 + b <= n)
          /\ n + 1 + b - n = b + 1
      BY <1>1, <1>3
    <3>2. logged'[n + 1 + b] = s[b + 1]
      BY <2>1, <3>1
    <3> QED
      BY <1>3, <3>2
  <2>4. Len(logged') = n + length + 1
    BY <1>1, <1>3, <2>1
  <2> QED
    BY <2>1, <2>2, <2>3, <2>4
<1>6. /\ new \in [(booted + 1)..(F + 2) -> Int]
      /\ new[F + 2] = n + length + 2 /\ new[F + 1] = n + 1
      /\ at[F + 1] = n + 1
      /\ \A j \in (booted + 1)..(F + 1) :
            new[j] = at[j] /\ at[j] \in Nat /\ at[j] > 0 /\ at[j] <= n + 1
  <2>1. \A j \in (booted + 1)..(F + 1) :
           at[j] \in Nat /\ at[j] > 0 /\ at[j] <= n + 1
    BY LineTypes
  <2>2. F + 2 \in (booted + 1)..(F + 2)
    BY <1>1
  <2>3. \A j \in (booted + 1)..(F + 1) :
           j \in (booted + 1)..(F + 2) /\ j # F + 2
    BY <1>1
  <2>4. F + 1 \in (booted + 1)..(F + 1) /\ at[F + 1] = n + 1
    BY <1>1 DEF LinesAt
  <2>5. \A j \in (booted + 1)..(F + 2) :
           j = F + 2 \/ j \in (booted + 1)..(F + 1)
    BY <1>1
  <2>6. \A j \in (booted + 1)..(F + 2) :
           (IF j = F + 2 THEN n + 1 + length + 1 ELSE at[j]) \in Int
    BY <1>1, <2>1, <2>5
  <2>7. new[F + 2] = n + length + 2
    BY <1>1, <2>2 DEF Extended
  <2>8. \A j \in (booted + 1)..(F + 1) : new[j] = at[j]
    BY <2>3 DEF Extended
  <2>9. new \in [(booted + 1)..(F + 2) -> Int]
    BY <2>6 DEF Extended
  <2> QED
    BY <2>1, <2>4, <2>7, <2>8, <2>9
<1> HIDE DEF n, F
<1>7. ASSUME NEW j \in (booted + 1)..(F + 2)
      PROVE  /\ j \in Nat /\ new[j] \in Nat /\ new[j] > 0
             /\ new[j] <= n + length + 2
             /\ j = F + 2 \/ j \in (booted + 1)..(F + 1)
  <2>1. j = F + 2 \/ j \in (booted + 1)..(F + 1)
    BY <1>1
  <2>2. CASE j = F + 2
    BY <1>1, <1>6, <2>2
  <2>3. CASE j \in (booted + 1)..(F + 1)
    <3> DEFINE a == at[j]
    <3>1. new[j] = a /\ a \in Nat /\ a > 0 /\ a <= n + 1
      BY <1>6, <2>3
    <3> HIDE DEF a
    <3> QED
      BY <1>1, <2>1, <3>1
  <2> QED
    BY <2>1, <2>2, <2>3
<1>8. new \in [(booted + 1)..(F + 2) -> 1..(n + length + 2)]
  <2>1. \A j \in (booted + 1)..(F + 2) : new[j] \in 1..(n + length + 2)
    BY <1>1, <1>7
  <2> QED
    BY <1>6, <2>1
<1>9. new[booted + 1] = 1
  <2>1. booted + 1 \in (booted + 1)..(F + 1) /\ at[booted + 1] = 1
    BY <1>1 DEF LinesAt, F
  <2> QED
    BY <1>6, <2>1
<1>10. ASSUME NEW j \in (booted + 1)..(F + 2), NEW k \in (booted + 1)..(F + 2),
              j < k
       PROVE  new[j] < new[k]
  <2>1. j \in (booted + 1)..(F + 1)
    BY <1>1, <1>10
  <2>2. CASE k = F + 2
    <3> DEFINE a == at[j]
    <3>1. new[j] = a /\ a \in Nat /\ a <= n + 1
      BY <1>6, <2>1
    <3> HIDE DEF a
    <3> QED
      BY <1>1, <1>6, <2>2, <3>1
  <2>3. CASE k # F + 2
    <3>1. k \in (booted + 1)..(F + 1)
      BY <1>7, <2>3
    <3>2. at[j] < at[k]
      BY <1>10, <2>1, <3>1 DEF LinesAt, F
    <3> QED
      BY <1>6, <2>1, <3>1, <3>2
  <2> QED
    BY <2>2, <2>3
<1>11. ASSUME NEW l \in (booted + 1)..(F + 1)
       PROVE  \/ l = F + 1
              \/ /\ l \in (booted + 1)..F /\ l \in 1..F /\ l \in Lines
                 /\ l + 1 \in (booted + 1)..(F + 1)
  BY <1>1 DEF Lines, F
<1>12. ASSUME NEW l \in (booted + 1)..(F + 1)
       PROVE  new[l + 1] = new[l] + file'[l] + 1
  <2>1. CASE l = F + 1
    <3>1. l + 1 = F + 2 /\ file'[l] = length
      BY <1>1, <1>2, <2>1 DEF F
    <3> QED
      BY <1>1, <1>6, <2>1, <3>1
  <2>2. CASE l # F + 1
    <3>1. l \in Lines /\ l \in 1..F /\ l + 1 \in (booted + 1)..(F + 1)
      BY <1>11, <2>2
    <3>2. at[l + 1] = at[l] + file[l] + 1
      BY <3>1 DEF LinesAt
    <3>3. file'[l] = file[l]
      BY <1>2, <3>1 DEF F
    <3> QED
      BY <1>6, <3>1, <3>2, <3>3
  <2> QED
    BY <2>1, <2>2
<1>13. ASSUME NEW l \in (booted + 1)..(F + 1), NEW b \in 0..file'[l]
       PROVE  logged'[new[l] + b] = <<l, b>>
  <2>1. CASE l = F + 1
    <3>1. file'[l] = length /\ new[l] = n + 1
      BY <1>2, <1>6, <2>1 DEF F
    <3> QED
      BY <1>5, <2>1, <3>1
  <2>2. CASE l # F + 1
    <3> DEFINE from == at[l]
               len  == file[l]
               to   == at[l + 1]
    <3>1. l \in Lines /\ l \in 1..F /\ l + 1 \in (booted + 1)..(F + 1)
      BY <1>11, <2>2
    <3>2. new[l] = from /\ b \in 0..len
      BY <1>2, <1>6, <3>1 DEF F
    <3>3. logged[from + b] = <<l, b>> /\ to = from + len + 1
      BY <3>1, <3>2 DEF LinesAt
    <3>4. from \in Nat /\ from > 0 /\ len \in Nat /\ to <= n + 1
      <4>1. len \in Nat
        BY <3>1, LineTypes
      <4> QED
        BY <1>6, <3>1, <4>1
    <3> HIDE DEF from, len, to
    <3>5. from + b \in 1..n
      BY <1>1, <3>2, <3>3, <3>4
    <3> QED
      BY <1>5, <3>2, <3>3, <3>5
  <2> QED
    BY <2>1, <2>2
<1>14. ASSUME NEW i \in 1..(n + length + 1)
       PROVE  \E l \in (booted + 1)..(F + 1) : new[l] <= i /\ i < new[l + 1]
  <2>1. CASE i <= n
    <3>1. i \in 1..Len(logged)
      BY <1>1, <2>1 DEF n
    <3>2. PICK l \in Lines : at[l] <= i /\ i < at[l + 1]
      BY <3>1 DEF LinesAt
    <3>3. l \in (booted + 1)..(F + 1) /\ l + 1 \in (booted + 1)..(F + 1)
      BY <1>1 DEF Lines, F
    <3> QED
      BY <1>6, <3>2, <3>3
  <2>2. CASE i > n
    <3>1. F + 1 \in (booted + 1)..(F + 1) /\ F + 1 + 1 = F + 2
      BY <1>1
    <3>2. n + 1 <= i /\ i < n + length + 2
      BY <1>1, <2>2
    <3> QED
      BY <1>6, <3>1, <3>2
  <2> QED
    BY <1>1, <2>1, <2>2
<1>15. /\ Lines' = (booted + 1)..(F + 1)
       /\ Len(file') + 1 = F + 2 /\ Len(logged') = n + length + 1
       /\ Len(logged') + 1 = n + length + 2 /\ booted' = booted
  BY <1>1, <1>2, <1>4, <1>5 DEF Lines, F, n
<1>16. LinesAt(new)' = 
         /\ new \in [(booted + 1)..(F + 2) -> 1..(n + length + 2)]
         /\ new[booted + 1] = 1
         /\ new[F + 2] = n + length + 2
         /\ \A j, k \in (booted + 1)..(F + 2) : j < k => new[j] < new[k]
         /\ \A l \in (booted + 1)..(F + 1) : new[l + 1] = new[l] + file'[l] + 1
         /\ \A l \in (booted + 1)..(F + 1) :
               \A b \in 0..file'[l] : logged'[new[l] + b] = <<l, b>>
         /\ \A i \in 1..(n + length + 1) :
               \E l \in (booted + 1)..(F + 1) :
                  new[l] <= i /\ i < new[l + 1]
  BY <1>15 DEF LinesAt
<1> QED
  BY <1>6, <1>8, <1>9, <1>10, <1>12, <1>13, <1>14, <1>16

LEMMA WriteReaders ==
    ASSUME IInv, NEW at, LinesAt(at), ReadersAt(at),
           NEW length \in Length, WriteLine(length),
           NEW new, new = Extended(at, length)
    PROVE  ReadersAt(new)'
<1>1. UNCHANGED <<offset, since, booted, read, current>>
  BY DEF WriteLine
<1>2. ASSUME NEW r \in Reader, read[r] >= booted
      PROVE  new[read[r] + 1] = at[read[r] + 1]
  <2>1. /\ read[r] \in Nat /\ read[r] <= Len(file)
        /\ booted \in Nat /\ Len(file) \in Nat
    BY ReaderTypes, LineTypes
  <2>2. read[r] + 1 \in (booted + 1)..(Len(file) + 2)
        /\ read[r] + 1 # Len(file) + 2
    BY <1>2, <2>1
  <2> QED
    BY <2>2 DEF Extended
<1> QED
  BY <1>1, <1>2 DEF ReadersAt

LEMMA InitLInv == Init => LInv
<1> SUFFICES ASSUME Init PROVE LInv
  OBVIOUS
<1>1. IInv
  BY InitIInv
<1> DEFINE at == [n \in 1..1 |-> 1]
<1>2. booted = 0 /\ file = <<>> /\ logged = <<>> /\ Len(file) = 0
      /\ Len(logged) = 0
  BY DEF Init
<1>3. LinesAt(at)
  BY <1>2 DEF LinesAt, Lines
<1>4. ReadersAt(at)
  BY DEF Init, ReadersAt
<1> QED
  BY <1>1, <1>3, <1>4 DEF LInv

LEMMA StepLInv == LInv /\ [Next]_vars => LInv'
<1> SUFFICES ASSUME IInv, NEW at, LinesAt(at), ReadersAt(at), [Next]_vars
             PROVE  LInv'
  BY DEF LInv
<1>1. IInv'
  BY StepIInv
<1>2. SUFFICES \E new : LinesAt(new)' /\ ReadersAt(new)'
  BY <1>1 DEF LInv
<1>3. ASSUME NEW l \in Length, WriteLine(l)
      PROVE  \E new : LinesAt(new)' /\ ReadersAt(new)'
  <2>1. PICK new : new = Extended(at, l)
    OBVIOUS
  <2>2. LinesAt(new)'
    BY <1>3, <2>1, WriteLines
  <2>3. ReadersAt(new)'
    BY <1>3, <2>1, WriteReaders
  <2> QED
    BY <2>2, <2>3
<1>4. ASSUME NEW r \in Reader, Poll(r)
      PROVE  \E new : LinesAt(new)' /\ ReadersAt(new)'
  <2>1. UNCHANGED <<file, logged, booted>>
    BY <1>4 DEF Poll
  <2>2. LinesAt(at)'
    BY <2>1 DEF LinesAt, Lines
  <2>3. /\ offset' = [offset EXCEPT ![r] = spindle]
        /\ since' = [since EXCEPT ![r] = Len(logged)]
        /\ read' = [read EXCEPT ![r] = Len(file)]
        /\ current' = current \cup {r}
    BY <1>4 DEF Poll
  <2>4. /\ offset \in [Reader -> 0..MaxCache \cup {Start}]
        /\ since \in [Reader -> 0..Len(logged)]
        /\ read \in [Reader -> 0..Len(file)]
        /\ spindle \in Nat /\ Start \notin Nat
    BY LogAssumption DEF IInv, TypeOK
  <2>5. /\ booted <= Len(file) /\ Len(logged) \in Nat
        /\ at[Len(file) + 1] = Len(logged) + 1
    BY LineTypes DEF LinesAt
  <2>6. ASSUME NEW q \in Reader
        PROVE  /\ q \notin current' => read'[q] <= booted
               /\ q \in current' /\ offset'[q] = Start =>
                     since'[q] = 0 /\ read'[q] = 0
               /\ q \in current' /\ offset'[q] # Start =>
                     /\ read'[q] >= booted
                     /\ since'[q] = at[read'[q] + 1] - 1
    <3>1. CASE q = r
      <4>1. /\ offset'[q] = spindle /\ since'[q] = Len(logged)
            /\ read'[q] = Len(file) /\ q \in current'
        BY <2>3, <2>4, <3>1
      <4> QED
        BY <2>4, <2>5, <4>1
    <3>2. CASE q # r
      <4>1. /\ offset'[q] = offset[q] /\ since'[q] = since[q]
            /\ read'[q] = read[q]
            /\ q \in current' <=> q \in current
        BY <2>3, <2>4, <3>2
      <4> QED
        BY <4>1 DEF ReadersAt
    <3> QED
      BY <3>1, <3>2
  <2>7. ReadersAt(at)'
    BY <2>1, <2>6 DEF ReadersAt
  <2> QED
    BY <2>2, <2>7
<1>5. ASSUME NEW r \in Reader, Reload(r)
      PROVE  \E new : LinesAt(new)' /\ ReadersAt(new)'
  <2>1. UNCHANGED <<file, logged, booted>>
    BY <1>5 DEF Reload
  <2>2. LinesAt(at)'
    BY <2>1 DEF LinesAt, Lines
  <2>3. /\ offset' = [offset EXCEPT ![r] = Start]
        /\ since' = [since EXCEPT ![r] = 0]
        /\ read' = [read EXCEPT ![r] = 0]
        /\ current' = current \cup {r}
    BY <1>5 DEF Reload
  <2>4. /\ offset \in [Reader -> 0..MaxCache \cup {Start}]
        /\ since \in [Reader -> 0..Len(logged)]
        /\ read \in [Reader -> 0..Len(file)]
    BY DEF IInv, TypeOK
  <2>5. ASSUME NEW q \in Reader
        PROVE  /\ q \notin current' => read'[q] <= booted
               /\ q \in current' /\ offset'[q] = Start =>
                     since'[q] = 0 /\ read'[q] = 0
               /\ q \in current' /\ offset'[q] # Start =>
                     /\ read'[q] >= booted
                     /\ since'[q] = at[read'[q] + 1] - 1
    <3>1. CASE q = r
      BY <2>3, <2>4, <3>1
    <3>2. CASE q # r
      <4>1. /\ offset'[q] = offset[q] /\ since'[q] = since[q]
            /\ read'[q] = read[q]
            /\ q \in current' <=> q \in current
        BY <2>3, <2>4, <3>2
      <4> QED
        BY <4>1 DEF ReadersAt
    <3> QED
      BY <3>1, <3>2
  <2>6. ReadersAt(at)'
    BY <2>1, <2>5 DEF ReadersAt
  <2> QED
    BY <2>2, <2>6
<1>6. CASE Restart
  <2>1. PICK new : new = [n \in (Len(file) + 1)..(Len(file) + 1) |-> 1]
    OBVIOUS
  <2>2. /\ booted' = Len(file) /\ logged' = <<>> /\ file' = file
        /\ Len(logged') = 0 /\ Len(file) \in Nat
    BY <1>6, LineTypes DEF Restart
  <2>3. LinesAt(new)'
    BY <2>1, <2>2 DEF LinesAt, Lines
  <2>4. /\ since' = [r \in Reader |-> 0] /\ offset' = offset /\ read' = read
        /\ current' = {r \in current : offset[r] = Start}
    BY <1>6 DEF Restart
  <2>5. ASSUME NEW q \in Reader PROVE read[q] <= Len(file)
    BY ReaderTypes
  <2>6. ReadersAt(new)'
    BY <2>2, <2>4, <2>5 DEF ReadersAt
  <2> QED
    BY <2>3, <2>6
<1>7. CASE UNCHANGED vars
  <2>1. LinesAt(at)' /\ ReadersAt(at)'
    BY <1>7 DEF LinesAt, Lines, ReadersAt, vars
  <2> QED
    BY <2>1
<1> QED
  BY <1>3, <1>4, <1>5, <1>6, <1>7 DEF Next

LEMMA LineInvariant == Spec => []LInv
  BY InitLInv, StepLInv, PTL DEF Spec

(* What a poll returns are complete lines, the last ones there are, and    *)
(* none the reader was given before, whatever its offset: that of an       *)
(* earlier process, or one the cache has been written past                 *)
(* (MemoryCachedLog.py:53-91).                                             *)
THEOREM LinesAreWhole == Spec => []WholeNewLines
  BY LineInvariant, LInvWholeNewLines, PTL

(* A page that polls before MaxCache bytes were logged since its last poll *)
(* is given every line logged since, and a page that is loaded every line  *)
(* there is as long as they fit, for any size of the cache and any lengths *)
(* of lines.                                                               *)
THEOREM NothingIsMissed == Spec => []NothingMissed
  BY LineInvariant, LInvNothingMissed, PTL

=============================================================================
