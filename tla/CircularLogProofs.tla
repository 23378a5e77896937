------------------------- MODULE CircularLogProofs -------------------------
(* CircularLog for any size of the cache, any lengths of lines, any number *)
(* of lines and readers.                                                   *)
EXTENDS CircularLog, SequenceTheorems, TLAPS

(* Where the bytes logged are in the cache: at the beginning until it is   *)
(* full, then in a ring that ends at the spindle.                          *)
Ring ==
    LET n == Len(logged)
    IN  /\ n <= MaxCache => cache = logged /\ spindle = n
        /\ n > MaxCache =>
             /\ Len(cache) = MaxCache
             /\ spindle > 0
             /\ \A i \in 1..MaxCache :
                  cache[i] = IF i <= spindle
                             THEN logged[n - spindle + i]
                             ELSE logged[n - spindle - MaxCache + i]

\* Readers move the file position, and put it back.
AtSpindle == position = spindle

(* An offset is where the spindle was when it was handed out, so many      *)
(* bytes back, round the end of the cache or not.                          *)
Offsets ==
    \A r \in current :
        LET news == Len(logged) - since[r]
        IN  offset[r] # Start /\ news < MaxCache =>
                \/ offset[r] = spindle - news
                \/ offset[r] = spindle - news + MaxCache /\ Len(logged) > MaxCache

IInv == TypeOK /\ AtSpindle /\ Ring /\ Offsets

-----------------------------------------------------------------------------
\* What ReadAt and WrittenAt return, for files of whatever they hold.
LEMMA Reading ==
    ASSUME NEW S, NEW f \in Seq(S), NEW p \in 0..Len(f), NEW n \in Nat
    PROVE  /\ ReadAt(f, p, n) \in Seq(S)
           /\ Len(ReadAt(f, p, n)) = Smaller(n, Len(f) - p)
           /\ \A i \in 1..Len(ReadAt(f, p, n)) : ReadAt(f, p, n)[i] = f[p + i]
<1> DEFINE first == p + 1
           last == Smaller(p + n, Len(f))
<1>1. /\ first \in Int /\ last \in Int /\ Len(f) \in Nat
      /\ last <= Len(f) /\ last >= p
      /\ last - p = Smaller(n, Len(f) - p)
  BY DEF Smaller
<1>2. \A i \in first..last : f[i] \in S
  BY <1>1, ElementOfSeq
<1>3. ReadAt(f, p, n) = SubSeq(f, first, last)
  BY DEF ReadAt
<1>4. first = p + 1
  OBVIOUS
<1> HIDE DEF first, last
<1>5. /\ SubSeq(f, first, last) \in Seq(S)
      /\ Len(SubSeq(f, first, last)) =
            IF first <= last THEN last - first + 1 ELSE 0
      /\ \A i \in 1..(last - first + 1) :
            SubSeq(f, first, last)[i] = f[first + i - 1]
  BY <1>1, <1>2, SubSeqProperties
<1>6. Len(ReadAt(f, p, n)) = last - p
  BY <1>1, <1>3, <1>4, <1>5
<1> QED
  BY <1>1, <1>3, <1>4, <1>5, <1>6

\* The same from the beginning of a file that is long enough.
LEMMA ReadingFirst ==
    ASSUME NEW S, NEW f \in Seq(S), NEW n \in Nat, n <= Len(f)
    PROVE  /\ ReadAt(f, 0, n) \in Seq(S)
           /\ Len(ReadAt(f, 0, n)) = n
           /\ \A i \in 1..n : ReadAt(f, 0, n)[i] = f[i]
<1>1. Len(f) \in Nat /\ 0 \in 0..Len(f) /\ Smaller(n, Len(f) - 0) = n
  BY DEF Smaller
<1>2. /\ ReadAt(f, 0, n) \in Seq(S)
      /\ Len(ReadAt(f, 0, n)) = Smaller(n, Len(f) - 0)
      /\ \A i \in 1..Len(ReadAt(f, 0, n)) : ReadAt(f, 0, n)[i] = f[0 + i]
  BY <1>1, Reading
<1> QED
  BY <1>1, <1>2

LEMMA ThreeParts ==
    ASSUME NEW S, NEW a \in Seq(S), NEW b \in Seq(S), NEW c \in Seq(S)
    PROVE  /\ a \o b \o c \in Seq(S)
           /\ Len(a \o b \o c) = Len(a) + Len(b) + Len(c)
           /\ \A i \in 1..Len(a) : (a \o b \o c)[i] = a[i]
           /\ \A i \in 1..Len(b) : (a \o b \o c)[Len(a) + i] = b[i]
           /\ \A i \in 1..Len(c) : (a \o b \o c)[Len(a) + Len(b) + i] = c[i]
<1> DEFINE ab == a \o b
<1>1. Len(a) \in Nat /\ Len(b) \in Nat /\ Len(c) \in Nat
  OBVIOUS
<1>2. /\ ab \in Seq(S) /\ Len(ab) = Len(a) + Len(b)
      /\ \A i \in 1..Len(a) : ab[i] = a[i]
      /\ \A i \in 1..Len(b) : ab[Len(a) + i] = b[i]
  BY <1>1, ConcatProperties
<1>3. a \o b \o c = ab \o c
  BY DEF ab
<1> HIDE DEF ab
<1>4. ab \in Seq(S)
  BY <1>2
<1>5. /\ ab \o c \in Seq(S) /\ Len(ab \o c) = Len(ab) + Len(c)
      /\ \A i \in 1..Len(ab) : (ab \o c)[i] = ab[i]
      /\ \A i \in 1..Len(c) : (ab \o c)[Len(ab) + i] = c[i]
  BY <1>4, ConcatProperties
<1> QED
  BY <1>1, <1>2, <1>3, <1>5

LEMMA Writing ==
    ASSUME NEW S, NEW f \in Seq(S), NEW s \in Seq(S), NEW p \in 0..Len(f)
    PROVE  /\ WrittenAt(f, p, s) \in Seq(S)
           /\ p + Len(s) <= Len(f) => Len(WrittenAt(f, p, s)) = Len(f)
           /\ p + Len(s) >= Len(f) => Len(WrittenAt(f, p, s)) = p + Len(s)
           /\ \A i \in 1..p : WrittenAt(f, p, s)[i] = f[i]
           /\ \A i \in 1..Len(s) : WrittenAt(f, p, s)[p + i] = s[i]
           /\ \A i \in (p + Len(s) + 1)..Len(f) : WrittenAt(f, p, s)[i] = f[i]
<1> DEFINE at    == p + Len(s)
           front == ReadAt(f, 0, p)
           back  == ReadAt(f, at, Len(f))
<1>1. Len(f) \in Nat /\ Len(s) \in Nat /\ p \in Nat /\ p <= Len(f)
  OBVIOUS
<1>2. /\ front \in Seq(S) /\ Len(front) = p
      /\ \A i \in 1..p : front[i] = f[i]
  BY <1>1, ReadingFirst
<1>3. at = p + Len(s) /\ at \in Nat
  BY <1>1
<1>4. WrittenAt(f, p, s) = front \o s \o back
  BY DEF WrittenAt
<1> HIDE DEF at
<1>5. /\ back \in Seq(S)
      /\ at <= Len(f) => Len(back) = Len(f) - at
      /\ at >= Len(f) => Len(back) = 0
      /\ \A i \in 1..Len(back) : back[i] = f[at + i]
  <2>1. CASE at <= Len(f)
    <3>1. at \in 0..Len(f) /\ Smaller(Len(f), Len(f) - at) = Len(f) - at
      BY <1>1, <1>3, <2>1 DEF Smaller
    <3>2. /\ back \in Seq(S)
          /\ Len(back) = Len(f) - at
          /\ \A i \in 1..Len(back) : back[i] = f[at + i]
      BY <1>1, <3>1, Reading
    <3> QED
      BY <1>1, <1>3, <2>1, <3>2
  <2>2. CASE at > Len(f)
    <3>1. Smaller(at + Len(f), Len(f)) = Len(f)
      BY <1>1, <1>3, <2>2 DEF Smaller
    <3>2. SubSeq(f, at + 1, Len(f)) = <<>>
      BY <1>1, <1>3, <2>2, SubSeqEmpty
    <3>3. back = <<>>
      BY <3>1, <3>2 DEF ReadAt
    <3> HIDE DEF back
    <3> QED
      BY <1>1, <1>3, <2>2, <3>3
  <2> QED
    BY <1>1, <1>3, <2>1, <2>2
<1> HIDE DEF front, back
<1> DEFINE all == front \o s \o back
<1>6. /\ all \in Seq(S)
      /\ Len(all) = Len(front) + Len(s) + Len(back)
      /\ \A i \in 1..Len(front) : all[i] = front[i]
      /\ \A i \in 1..Len(s) : all[Len(front) + i] = s[i]
      /\ \A i \in 1..Len(back) : all[Len(front) + Len(s) + i] = back[i]
  <2>1. front \in Seq(S) /\ back \in Seq(S)
    BY <1>2, <1>5
  <2> QED
    BY <2>1, ThreeParts
<1>7. WrittenAt(f, p, s) = all
  BY <1>4
<1> HIDE DEF all
<1>8. ASSUME NEW i \in (at + 1)..Len(f)
      PROVE  all[i] = f[i]
  <2>1. i - at \in 1..Len(back)
    BY <1>1, <1>3, <1>5
  <2>2. all[at + (i - at)] = back[i - at] /\ back[i - at] = f[at + (i - at)]
    BY <1>2, <1>3, <1>5, <1>6, <2>1
  <2> QED
    BY <1>3, <2>2
<1>9. /\ at <= Len(f) => Len(all) = Len(f)
      /\ at >= Len(f) => Len(all) = at
  <2>1. Len(all) = at + Len(back) /\ Len(back) \in Nat
    BY <1>2, <1>3, <1>5, <1>6
  <2> QED
    BY <1>1, <1>3, <1>5, <2>1, SMTT(30)
<1>10. \A i \in 1..Len(s) : all[p + i] = s[i]
  BY <1>2, <1>6
<1>11. \A i \in 1..p : all[i] = f[i]
  BY <1>2, <1>6
<1> QED
  BY <1>3, <1>6, <1>7, <1>8, <1>9, <1>10, <1>11

\* A line is one byte longer than its length, for the newline.
LEMMA LineBytes ==
    ASSUME NEW n \in 1..MaxLines, NEW length \in Nat, length + 1 < MaxCache
    PROVE  Line(n, length) \in Seq(Byte) /\ Len(Line(n, length)) = length + 1
<1>1. MaxLines \in Nat /\ MaxCache \in Nat
  BY LogAssumption
<1>2. \A i \in 1..(length + 1) : <<n, i - 1>> \in Byte
  BY <1>1 DEF Byte
<1> QED
  BY <1>2 DEF Line
-----------------------------------------------------------------------------
\* What a line leaves behind, wherever in the cache it is cut.
LEMMA Wrapping ==
    ASSUME IInv, NEW s \in Seq(Byte), NEW room \in Nat,
           room = MaxCache - spindle, Len(s) < MaxCache, Len(s) > room
    PROVE  LET fore == WrittenAt(cache, position, ReadAt(s, 0, room))
               new  == WrittenAt(fore, 0, ReadAt(s, room, Len(s)))
           IN  /\ new \in Seq(Byte)
               /\ Len(new) = MaxCache
               /\ \A i \in 1..(Len(s) - room) : new[i] = s[room + i]
               /\ \A i \in 1..room : new[spindle + i] = s[i]
               /\ \A i \in (Len(s) - room + 1)..spindle : new[i] = cache[i]
<1> DEFINE one  == ReadAt(s, 0, room)
           two  == ReadAt(s, room, Len(s))
           fore == WrittenAt(cache, position, one)
           new  == WrittenAt(fore, 0, two)
<1>1. /\ MaxCache \in Nat /\ spindle \in Nat /\ spindle <= MaxCache
      /\ position = spindle /\ cache \in Seq(Byte) /\ Len(s) \in Nat
      /\ Len(cache) \in Nat /\ Len(cache) <= MaxCache /\ spindle <= Len(cache)
  BY LogAssumption DEF IInv, TypeOK, AtSpindle, Ring
<1>2. /\ one \in Seq(Byte) /\ Len(one) = room
      /\ \A i \in 1..room : one[i] = s[i]
  <2>1. room <= Len(s)
    BY <1>1
  <2> QED
    BY <2>1, ReadingFirst
<1>3. /\ two \in Seq(Byte) /\ Len(two) = Len(s) - room
      /\ \A i \in 1..(Len(s) - room) : two[i] = s[room + i]
  <2>1. room \in 0..Len(s) /\ Smaller(Len(s), Len(s) - room) = Len(s) - room
    BY <1>1 DEF Smaller
  <2>2. Len(s) \in Nat
    OBVIOUS
  <2>3. /\ two \in Seq(Byte) /\ Len(two) = Smaller(Len(s), Len(s) - room)
        /\ \A i \in 1..Len(two) : two[i] = s[room + i]
    BY <2>1, <2>2, Reading
  <2> QED
    BY <2>1, <2>3
<1> HIDE DEF one, two
<1>4. /\ fore \in Seq(Byte) /\ Len(fore) = MaxCache
      /\ \A i \in 1..spindle : fore[i] = cache[i]
      /\ \A i \in 1..room : fore[spindle + i] = s[i]
  <2>1. /\ fore \in Seq(Byte)
        /\ spindle + Len(one) >= Len(cache) => Len(fore) = spindle + Len(one)
        /\ \A i \in 1..spindle : fore[i] = cache[i]
        /\ \A i \in 1..Len(one) : fore[spindle + i] = one[i]
    <3>1. position \in 0..Len(cache) /\ one \in Seq(Byte) /\ cache \in Seq(Byte)
      BY <1>1, <1>2
    <3> QED
      BY <1>1, <3>1, Writing
  <2> QED
    BY <1>1, <1>2, <2>1
<1> HIDE DEF fore
<1>5. /\ new \in Seq(Byte)
      /\ 0 + Len(two) <= Len(fore) => Len(new) = Len(fore)
      /\ \A i \in 1..Len(two) : new[0 + i] = two[i]
      /\ \A i \in (0 + Len(two) + 1)..Len(fore) : new[i] = fore[i]
  <2>1. 0 \in 0..Len(fore) /\ two \in Seq(Byte) /\ fore \in Seq(Byte)
    BY <1>1, <1>3, <1>4
  <2> QED
    BY <2>1, Writing
<1> HIDE DEF new
<1>6. Len(new) = MaxCache
  BY <1>1, <1>3, <1>4, <1>5
<1>7. \A i \in 1..(Len(s) - room) : new[i] = s[room + i]
  BY <1>1, <1>3, <1>5
<1>8. ASSUME NEW i \in 1..room PROVE new[spindle + i] = s[i]
  <2>1. spindle + i \in (0 + Len(two) + 1)..Len(fore)
    BY <1>1, <1>3, <1>4
  <2>2. new[spindle + i] = fore[spindle + i]
    BY <1>5, <2>1
  <2> QED
    BY <1>4, <2>2
<1>9. ASSUME NEW i \in (Len(s) - room + 1)..spindle PROVE new[i] = cache[i]
  <2>1. i \in (0 + Len(two) + 1)..Len(fore) /\ i \in 1..spindle
    BY <1>1, <1>3, <1>4, SMTT(30)
  <2> QED
    BY <1>4, <1>5, <2>1
<1> QED
  BY <1>5, <1>6, <1>7, <1>8, <1>9 DEF new, fore, one, two

LEMMA NoWrapping ==
    ASSUME IInv, NEW s \in Seq(Byte), NEW room \in Nat,
           room = MaxCache - spindle, Len(s) <= room
    PROVE  LET new == WrittenAt(cache, position, ReadAt(s, 0, room))
           IN  /\ new \in Seq(Byte)
               /\ spindle + Len(s) <= Len(cache) => Len(new) = Len(cache)
               /\ spindle + Len(s) >= Len(cache) => Len(new) = spindle + Len(s)
               /\ \A i \in 1..spindle : new[i] = cache[i]
               /\ \A i \in 1..Len(s) : new[spindle + i] = s[i]
               /\ \A i \in (spindle + Len(s) + 1)..Len(cache) :
                     new[i] = cache[i]
<1>1. /\ MaxCache \in Nat /\ spindle \in Nat /\ spindle <= MaxCache
      /\ position = spindle /\ cache \in Seq(Byte) /\ Len(s) \in Nat
      /\ Len(cache) \in Nat /\ Len(cache) <= MaxCache /\ spindle <= Len(cache)
  BY LogAssumption DEF IInv, TypeOK, AtSpindle, Ring
<1> DEFINE one == ReadAt(s, 0, room)
<1>2. /\ one \in Seq(Byte) /\ Len(one) = Len(s)
      /\ \A i \in 1..Len(s) : one[i] = s[i]
  <2>1. 0 \in 0..Len(s) /\ Smaller(room, Len(s) - 0) = Len(s)
    BY <1>1 DEF Smaller
  <2> QED
    BY <1>1, <2>1, Reading
<1>3. one = s
  BY <1>2, SeqEqual
<1>4. position \in 0..Len(cache)
  BY <1>1
<1> QED
  BY <1>1, <1>3, <1>4, Writing

\* What the cache holds in front of the spindle, full or not.
LEMMA InFront ==
    ASSUME IInv
    PROVE  /\ \A i \in 1..spindle : cache[i] = logged[Len(logged) - spindle + i]
           /\ spindle <= Len(logged)
           /\ Len(logged) <= MaxCache => spindle = Len(logged)
           /\ Len(logged) <= MaxCache => Len(cache) = spindle
<1>1. /\ MaxCache \in Nat /\ spindle \in Nat /\ spindle <= MaxCache
      /\ Len(logged) \in Nat
  BY LogAssumption DEF IInv, TypeOK
<1>2. CASE Len(logged) <= MaxCache
  <2>1. cache = logged /\ spindle = Len(logged)
    BY <1>2 DEF IInv, Ring
  <2>2. \A i \in 1..spindle : Len(logged) - spindle + i = i
    BY <1>1, <2>1
  <2> QED
    BY <1>1, <2>1, <2>2
<1>3. CASE Len(logged) > MaxCache
  <2>1. \A i \in 1..MaxCache : i <= spindle =>
            cache[i] = logged[Len(logged) - spindle + i]
    BY <1>3 DEF IInv, Ring
  <2> QED
    BY <1>1, <1>3, <2>1
<1> QED
  BY <1>1, <1>2, <1>3

LEMMA StepRing ==
    ASSUME IInv, NEW length \in Length, WriteLine(length)
    PROVE  /\ cache' \in Seq(Byte) /\ Len(cache') <= MaxCache
           /\ logged' \in Seq(Byte) /\ spindle' \in 0..MaxCache
           /\ AtSpindle' /\ Ring'
<1> DEFINE s    == Line(Len(file) + 1, length)
           room == MaxCache - spindle
           n    == Len(logged)
           k    == Len(s)
<1>1. /\ MaxCache \in Nat /\ spindle \in Nat /\ spindle <= MaxCache
      /\ position = spindle /\ cache \in Seq(Byte) /\ logged \in Seq(Byte)
      /\ n \in Nat /\ Len(cache) \in Nat /\ Len(cache) <= MaxCache
  BY LogAssumption DEF IInv, TypeOK, AtSpindle
<1>2. s \in Seq(Byte) /\ k \in Nat /\ k < MaxCache
  <2>1. Len(file) + 1 \in 1..MaxLines /\ length \in Nat /\ length + 1 < MaxCache
    BY LogAssumption DEF WriteLine, IInv, TypeOK
  <2> QED
    BY <2>1, LineBytes
<1>3. room \in Nat /\ room = MaxCache - spindle
  BY <1>1
<1>4. logged' = logged \o s
  BY DEF WriteLine
<1>5. /\ spindle + k > MaxCache =>
            /\ cache' = WrittenAt(WrittenAt(cache, position, ReadAt(s, 0, room)),
                                  0, ReadAt(s, room, k))
            /\ spindle' = k - room /\ position' = k - room
      /\ ~(spindle + k > MaxCache) =>
            /\ cache' = WrittenAt(cache, position, ReadAt(s, 0, room))
            /\ spindle' = spindle + k /\ position' = position + k
  BY DEF WriteLine
<1> HIDE DEF s, room
<1>6. /\ logged' \in Seq(Byte) /\ Len(logged') = n + k
      /\ \A i \in 1..n : logged'[i] = logged[i]
      /\ \A i \in 1..k : logged'[n + i] = s[i]
  BY <1>1, <1>2, <1>4, ConcatProperties
<1>7. /\ spindle <= n
      /\ n <= MaxCache => spindle = n
      /\ n <= MaxCache => Len(cache) = spindle
      /\ \A i \in 1..spindle : cache[i] = logged[n - spindle + i]
  BY InFront
<1>8. /\ n > MaxCache => Len(cache) = MaxCache
      /\ n > MaxCache => \A i \in 1..MaxCache : i > spindle =>
            cache[i] = logged[n - spindle - MaxCache + i]
  BY <1>1 DEF IInv, Ring
<1> HIDE DEF n, k
<1>9. CASE spindle + k > MaxCache
  <2>1. /\ cache' \in Seq(Byte) /\ Len(cache') = MaxCache
        /\ \A i \in 1..(k - room) : cache'[i] = s[room + i]
        /\ \A i \in 1..room : cache'[spindle + i] = s[i]
        /\ \A i \in (k - room + 1)..spindle : cache'[i] = cache[i]
    <3>1. k > room
      BY <1>1, <1>2, <1>3, <1>9
    <3>2. cache' = WrittenAt(WrittenAt(cache, position, ReadAt(s, 0, room)), 0,
                             ReadAt(s, room, Len(s)))
      BY <1>5, <1>9 DEF k
    <3> QED
      BY <1>2, <1>3, <3>1, <3>2, Wrapping DEF k
  <2>2. n + k > MaxCache /\ spindle' = k - room /\ spindle' > 0
        /\ spindle' \in 0..MaxCache /\ position' = spindle'
    BY <1>1, <1>2, <1>3, <1>5, <1>7, <1>9
  <2>3. ASSUME NEW i \in 1..MaxCache, i <= spindle'
        PROVE  cache'[i] = logged'[(n + k) - spindle' + i]
    <3>1. room + i \in 1..k /\ (n + k) - spindle' + i = n + (room + i)
      BY <1>1, <1>2, <1>3, <2>2, <2>3
    <3> QED
      BY <1>6, <2>1, <2>2, <2>3, <3>1
  <2>4. ASSUME NEW i \in 1..MaxCache, i > spindle', i <= spindle
        PROVE  cache'[i] = logged'[(n + k) - spindle' - MaxCache + i]
    <3>1. /\ (n + k) - spindle' - MaxCache + i = n - spindle + i
          /\ n - spindle + i \in 1..n
          /\ i \in (k - room + 1)..spindle /\ i \in 1..spindle
      BY <1>1, <1>2, <1>3, <1>7, <2>2, <2>4
    <3> QED
      BY <1>6, <1>7, <2>1, <3>1
  <2>5. ASSUME NEW i \in 1..MaxCache, i > spindle', i > spindle
        PROVE  cache'[i] = logged'[(n + k) - spindle' - MaxCache + i]
    <3>1. /\ (n + k) - spindle' - MaxCache + i = n + (i - spindle)
          /\ i - spindle \in 1..k /\ i - spindle \in 1..room
          /\ spindle + (i - spindle) = i
      BY <1>1, <1>2, <1>3, <1>9, <2>2, <2>5
    <3> QED
      BY <1>6, <2>1, <3>1
  <2>6. Ring'
    <3>1. \A i \in 1..MaxCache :
             cache'[i] = IF i <= spindle' THEN logged'[(n + k) - spindle' + i]
                         ELSE logged'[(n + k) - spindle' - MaxCache + i]
      <4> TAKE i \in 1..MaxCache
      <4>1. CASE i <= spindle'
        BY <2>3, <4>1
      <4>2. CASE i > spindle' /\ i <= spindle
        BY <2>2, <2>4, <4>2
      <4>3. CASE i > spindle' /\ i > spindle
        BY <2>2, <2>5, <4>3
      <4> QED
        BY <1>1, <2>2, <4>1, <4>2, <4>3
    <3> QED
      BY <1>1, <1>2, <1>6, <2>1, <2>2, <3>1 DEF Ring
  <2> QED
    BY <1>1, <1>6, <2>1, <2>2, <2>6 DEF AtSpindle
<1>10. CASE spindle + k <= MaxCache
  <2>1. /\ cache' \in Seq(Byte)
        /\ spindle + k <= Len(cache) => Len(cache') = Len(cache)
        /\ spindle + k >= Len(cache) => Len(cache') = spindle + k
        /\ \A i \in 1..spindle : cache'[i] = cache[i]
        /\ \A i \in 1..k : cache'[spindle + i] = s[i]
        /\ \A i \in (spindle + k + 1)..Len(cache) : cache'[i] = cache[i]
    <3>1. k <= room /\ ~(spindle + k > MaxCache)
      BY <1>1, <1>2, <1>3, <1>10
    <3> QED
      BY <1>2, <1>3, <1>5, <3>1, NoWrapping DEF k
  <2>2. spindle' = spindle + k /\ position' = spindle' /\ spindle' \in 0..MaxCache
    BY <1>1, <1>2, <1>5, <1>10
  <2>3. Len(cache') <= MaxCache
    BY <1>1, <1>2, <1>10, <2>1
  <2>4. CASE n <= MaxCache
    <3>1. n = spindle /\ Len(cache') = n + k
      BY <1>1, <1>2, <1>7, <2>1, <2>4
    <3>2. ASSUME NEW i \in 1..(n + k) PROVE cache'[i] = logged'[i]
      <4>1. CASE i <= n
        <5>1. i \in 1..spindle /\ i \in 1..n /\ n - spindle + i = i
          BY <1>1, <3>1, <4>1
        <5> QED
          BY <1>6, <1>7, <2>1, <5>1
      <4>2. CASE i > n
        <5>1. i - n \in 1..k /\ n + (i - n) = i /\ spindle + (i - n) = i
          BY <1>1, <1>2, <3>1, <4>2
        <5> QED
          BY <1>6, <2>1, <5>1
      <4> QED
        BY <1>1, <1>2, <4>1, <4>2
    <3>3. cache' = logged'
      BY <1>1, <1>6, <2>1, <3>1, <3>2, SeqEqual
    <3>4. n + k <= MaxCache /\ spindle' = n + k
      BY <1>10, <2>2, <3>1
    <3> QED
      BY <1>1, <1>2, <1>6, <2>1, <2>2, <2>3, <3>3, <3>4 DEF AtSpindle, Ring
  <2>5. CASE n > MaxCache
    <3>1. Len(cache') = MaxCache /\ n + k > MaxCache /\ spindle > 0
      BY <1>1, <1>2, <1>8, <1>10, <2>1, <2>5 DEF IInv, Ring, n
    <3>2. ASSUME NEW i \in 1..MaxCache, i <= spindle'
          PROVE  cache'[i] = logged'[(n + k) - spindle' + i]
      <4>0. (n + k) - spindle' + i = n - spindle + i
        BY <1>1, <1>2, <2>2
      <4>1. CASE i <= spindle
        <5>1. i \in 1..spindle /\ n - spindle + i \in 1..n
          BY <1>1, <2>5, <4>1
        <5> QED
          BY <1>6, <1>7, <2>1, <4>0, <5>1
      <4>2. CASE i > spindle
        <5>1. /\ i - spindle \in 1..k /\ spindle + (i - spindle) = i
              /\ n - spindle + i = n + (i - spindle)
          BY <1>1, <1>2, <2>2, <3>2, <4>2
        <5> QED
          BY <1>6, <2>1, <4>0, <5>1
      <4> QED
        BY <1>1, <4>1, <4>2
    <3>3. ASSUME NEW i \in 1..MaxCache, i > spindle'
          PROVE  cache'[i] = logged'[(n + k) - spindle' - MaxCache + i]
      <4>1. /\ (n + k) - spindle' - MaxCache + i = n - spindle - MaxCache + i
            /\ n - spindle - MaxCache + i \in 1..n
            /\ i > spindle /\ i \in (spindle + k + 1)..Len(cache)
        BY <1>1, <1>2, <1>8, <2>2, <2>5, <3>3
      <4> QED
        BY <1>6, <1>8, <2>1, <2>5, <4>1
    <3>4. \A i \in 1..MaxCache :
             cache'[i] = IF i <= spindle' THEN logged'[(n + k) - spindle' + i]
                         ELSE logged'[(n + k) - spindle' - MaxCache + i]
      <4> TAKE i \in 1..MaxCache
      <4>1. CASE i <= spindle'
        BY <3>2, <4>1
      <4>2. CASE i > spindle'
        BY <1>1, <2>2, <3>3, <4>2
      <4> QED
        BY <1>1, <2>2, <4>1, <4>2
    <3>5. Ring'
      BY <1>1, <1>2, <1>6, <2>2, <3>1, <3>4 DEF Ring
    <3> QED
      BY <1>1, <1>6, <2>1, <2>2, <2>3, <3>5 DEF AtSpindle
  <2> QED
    BY <1>1, <2>4, <2>5
<1> QED
  BY <1>1, <1>2, <1>9, <1>10

-----------------------------------------------------------------------------
LEMMA InitIInv == Init => IInv
<1> SUFFICES ASSUME Init PROVE IInv
  OBVIOUS
<1>1. TypeOK
  BY LogAssumption DEF Init, TypeOK
<1>2. AtSpindle /\ Ring
  BY LogAssumption DEF Init, AtSpindle, Ring
<1>3. Offsets
  BY DEF Init, Offsets
<1> QED
  BY <1>1, <1>2, <1>3 DEF IInv

LEMMA StepOffsets ==
    ASSUME IInv, NEW length \in Length, WriteLine(length)
    PROVE  Offsets'
<1> DEFINE n == Len(logged)
           k == length + 1
<1>1. /\ MaxCache \in Nat /\ spindle \in Nat /\ spindle <= MaxCache
      /\ n \in Nat /\ k \in Nat /\ k < MaxCache
  BY LogAssumption DEF IInv, TypeOK, WriteLine
<1>2. /\ Line(Len(file) + 1, length) \in Seq(Byte)
      /\ Len(Line(Len(file) + 1, length)) = k
  <2>1. Len(file) + 1 \in 1..MaxLines /\ length \in Nat
    BY LogAssumption DEF WriteLine, IInv, TypeOK
  <2> QED
    BY <1>1, <2>1, LineBytes
<1>3. Len(logged') = n + k
  <2> DEFINE line == Line(Len(file) + 1, length)
  <2>1. logged' = logged \o line /\ logged \in Seq(Byte)
    BY DEF WriteLine, IInv, TypeOK
  <2>2. line \in Seq(Byte) /\ Len(line) = k
    BY <1>2
  <2> HIDE DEF line, k
  <2>3. Len(logged \o line) = n + Len(line)
    BY <2>1, <2>2, ConcatProperties
  <2> QED
    BY <2>1, <2>2, <2>3
<1>4. n <= MaxCache => spindle = n
  BY InFront
<1>5. UNCHANGED <<offset, since, current>>
  BY DEF WriteLine
<1>6. /\ spindle + k > MaxCache => spindle' = k - (MaxCache - spindle)
      /\ ~(spindle + k > MaxCache) => spindle' = spindle + k
  BY <1>2 DEF WriteLine
<1> HIDE DEF n, k
<1> SUFFICES ASSUME NEW r \in current', offset'[r] # Start,
                    Len(logged') - since'[r] < MaxCache
             PROVE  \/ offset'[r] = spindle' - (Len(logged') - since'[r])
                    \/ /\ offset'[r] = spindle' - (Len(logged') - since'[r])
                                       + MaxCache
                       /\ Len(logged') > MaxCache
  BY DEF Offsets
<1>7. /\ r \in current /\ offset'[r] = offset[r] /\ since'[r] = since[r]
      /\ offset[r] # Start
  BY <1>5
<1>8. since[r] \in Nat /\ offset[r] \in Nat /\ offset[r] <= MaxCache
  BY <1>1, <1>7 DEF IInv, TypeOK
<1>9. n + k - since[r] < MaxCache
  BY <1>1, <1>3, <1>7, <1>8
<1>10. \/ offset[r] = spindle - (n - since[r])
       \/ offset[r] = spindle - (n - since[r]) + MaxCache /\ n > MaxCache
  <2>1. n - since[r] < MaxCache
    BY <1>1, <1>8, <1>9
  <2> QED
    BY <1>7, <2>1 DEF IInv, Offsets, n
<1>11. CASE ~(spindle + k > MaxCache)
  BY <1>1, <1>3, <1>6, <1>7, <1>8, <1>10, <1>11
<1>12. CASE spindle + k > MaxCache
  <2>1. n + k > MaxCache
    BY <1>1, <1>4, <1>12
  <2>2. ~(offset[r] = spindle - (n - since[r]) + MaxCache)
    BY <1>1, <1>8, <1>9, <1>12
  <2> QED
    BY <1>1, <1>3, <1>6, <1>7, <1>8, <1>10, <1>12, <2>1, <2>2
<1> QED
  BY <1>11, <1>12

LEMMA StepIInv == IInv /\ [Next]_vars => IInv'
<1> SUFFICES ASSUME IInv, [Next]_vars PROVE IInv'
  OBVIOUS
<1> USE LogAssumption
<1>0. TypeOK /\ AtSpindle /\ Ring /\ Offsets
  BY DEF IInv
<1>1. ASSUME NEW l \in Length, WriteLine(l) PROVE IInv'
  <2>1. /\ cache' \in Seq(Byte) /\ Len(cache') <= MaxCache
        /\ logged' \in Seq(Byte) /\ spindle' \in 0..MaxCache
        /\ AtSpindle' /\ Ring'
    BY <1>1, StepRing
  <2>2. /\ file' \in Seq(Length) /\ Len(file') = Len(file) + 1
        /\ Len(file') <= MaxLines
    BY <1>0, <1>1 DEF TypeOK, WriteLine
  <2>3. UNCHANGED <<offset, since, booted, read, current>>
    BY <1>1 DEF WriteLine
  <2>4. Len(file) \in Nat /\ position' \in 0..MaxCache
    BY <1>0, <2>1 DEF TypeOK, AtSpindle
  <2>5. booted' \in 0..Len(file') /\ read' \in [Reader -> 0..Len(file')]
    BY <1>0, <2>2, <2>3, <2>4 DEF TypeOK
  <2>6. since' \in [Reader -> 0..Len(logged')]
    <3>1. Len(logged) \in Nat /\ Len(logged') \in Nat
      BY <1>0, <2>1 DEF TypeOK
    <3>2. Len(logged') >= Len(logged)
      <4>1. Line(Len(file) + 1, l) \in Seq(Byte)
        <5>1. Len(file) + 1 \in 1..MaxLines /\ l \in Nat /\ l + 1 < MaxCache
          BY <1>0, <1>1 DEF WriteLine, TypeOK
        <5> QED
          BY <5>1, LineBytes
      <4>2. logged' = logged \o Line(Len(file) + 1, l) /\ logged \in Seq(Byte)
        BY <1>0, <1>1 DEF WriteLine, TypeOK
      <4>3. Len(logged') = Len(logged) + Len(Line(Len(file) + 1, l))
        BY <4>1, <4>2, ConcatProperties
      <4> QED
        BY <3>1, <4>1, <4>3
    <3> QED
      BY <1>0, <2>3, <3>1, <3>2 DEF TypeOK
  <2>7. TypeOK'
    BY <1>0, <2>1, <2>2, <2>3, <2>4, <2>5, <2>6 DEF TypeOK
  <2>8. Offsets'
    BY <1>1, StepOffsets
  <2> QED
    BY <2>1, <2>7, <2>8 DEF IInv
<1>2. ASSUME NEW r \in Reader, Poll(r) PROVE IInv'
  <2>1. TypeOK'
    BY <1>0, <1>2 DEF TypeOK, Poll
  <2>2. AtSpindle' /\ Ring'
    BY <1>0, <1>2 DEF AtSpindle, Ring, Poll
  <2>3. Offsets'
    <3>1. UNCHANGED <<logged, spindle>> /\ Len(logged) \in Nat /\ spindle \in Nat
      BY <1>0, <1>2 DEF Poll, TypeOK
    <3>2. ASSUME NEW q \in current', q # r
          PROVE  q \in current /\ offset'[q] = offset[q] /\ since'[q] = since[q]
      BY <1>0, <1>2, <3>2 DEF Poll, TypeOK
    <3>3. offset'[r] = spindle /\ since'[r] = Len(logged)
      BY <1>0, <1>2 DEF Poll, TypeOK
    <3> QED
      BY <1>0, <3>1, <3>2, <3>3 DEF Offsets
  <2> QED
    BY <2>1, <2>2, <2>3 DEF IInv
<1>3. ASSUME NEW r \in Reader, Reload(r) PROVE IInv'
  <2>1. TypeOK'
    BY <1>0, <1>3 DEF TypeOK, Reload
  <2>2. AtSpindle' /\ Ring'
    BY <1>0, <1>3 DEF AtSpindle, Ring, Reload
  <2>3. Offsets'
    <3>1. ASSUME NEW q \in current', q # r
          PROVE  q \in current /\ offset'[q] = offset[q] /\ since'[q] = since[q]
      BY <1>0, <1>3, <3>1 DEF Reload, TypeOK
    <3>2. offset'[r] = Start /\ UNCHANGED <<logged, spindle>>
      BY <1>0, <1>3 DEF Reload, TypeOK
    <3> QED
      BY <1>0, <3>1, <3>2 DEF Offsets
  <2> QED
    BY <2>1, <2>2, <2>3 DEF IInv
<1>4. CASE Restart
  <2>1. TypeOK'
    BY <1>0, <1>4 DEF TypeOK, Restart
  <2>2. AtSpindle' /\ Ring'
    BY <1>4 DEF AtSpindle, Ring, Restart
  <2>3. Offsets'
    BY <1>4 DEF Offsets, Restart
  <2> QED
    BY <2>1, <2>2, <2>3 DEF IInv
<1>5. CASE UNCHANGED vars
  BY <1>0, <1>5 DEF IInv, TypeOK, AtSpindle, Ring, Offsets, vars
<1> QED
  BY <1>1, <1>2, <1>3, <1>4, <1>5 DEF Next

LEMMA Invariant == Spec => []IInv
  BY InitIInv, StepIInv, PTL DEF Spec

(* Every reachable state of the log is well typed: the cache never         *)
(* outgrows MaxCache, the spindle and the offsets handed out stay within   *)
(* it (MemoryCachedLog.py:93-116).                                         *)
THEOREM TypeCorrect == Spec => []TypeOK
  BY Invariant, PTL DEF IInv

(* A line is written where the last one ended, whatever readers did with   *)
(* the file position in between (MemoryCachedLog.py:87, 107).              *)
THEOREM WritesFollow == Spec => [](position = spindle)
  BY Invariant, PTL DEF IInv, AtSpindle

-----------------------------------------------------------------------------
\* The end of a file, from behind byte m.
LEMMA EndOf ==
    ASSUME NEW S, NEW f \in Seq(S), NEW m \in 0..Len(f)
    PROVE  /\ SubSeq(f, m + 1, Len(f)) \in Seq(S)
           /\ Len(SubSeq(f, m + 1, Len(f))) = Len(f) - m
           /\ \A i \in 1..(Len(f) - m) : SubSeq(f, m + 1, Len(f))[i] = f[m + i]
<1> DEFINE first == m + 1
           n     == Len(f)
           tail  == SubSeq(f, first, n)
<1>1. /\ first \in Int /\ n \in Int /\ n - first + 1 = n - m
      /\ first <= n => n - first + 1 = n - m
      /\ ~(first <= n) => n - m = 0
      /\ \A i \in Int : first + i - 1 = m + i
  OBVIOUS
<1>2. \A i \in first..n : f[i] \in S
  BY ElementOfSeq
<1> HIDE DEF first, n
<1>3. /\ tail \in Seq(S)
      /\ Len(tail) = IF first <= n THEN n - first + 1 ELSE 0
      /\ \A i \in 1..(n - first + 1) : tail[i] = f[first + i - 1]
  BY <1>1, <1>2, SubSeqProperties
<1> HIDE DEF tail
<1>4. Len(tail) = n - m
  BY <1>1, <1>3
<1>5. ASSUME NEW i \in 1..(n - m) PROVE tail[i] = f[m + i]
  <2>1. first + i - 1 = m + i /\ i \in 1..(n - first + 1)
    BY <1>1
  <2> QED
    BY <1>3, <2>1
<1> QED
  BY <1>3, <1>4, <1>5 DEF tail, first, n

\* How many bytes were logged before those from q round to the spindle.
SkippedAround(q) ==
    IF Len(logged) > MaxCache THEN Len(logged) - (MaxCache - q) - spindle
                              ELSE 0

\* What is read from q, at or behind the spindle, round to the spindle.
LEMMA Around ==
    ASSUME IInv, NEW q \in spindle..MaxCache
    PROVE  /\ SkippedAround(q) \in 0..Len(logged)
           /\ Len(logged) - SkippedAround(q) <= MaxCache
           /\ ReadAt(cache, q, MaxCache - q) \o ReadAt(cache, 0, spindle)
                 = SubSeq(logged, SkippedAround(q) + 1, Len(logged))
<1> DEFINE n      == Len(logged)
           m      == SkippedAround(q)
           behind == ReadAt(cache, q, MaxCache - q)
           front  == ReadAt(cache, 0, spindle)
           data   == behind \o front
           tail   == SubSeq(logged, m + 1, n)
           length == IF n > MaxCache THEN MaxCache - q ELSE 0
<1>1. /\ MaxCache \in Nat /\ spindle \in Nat /\ spindle <= MaxCache
      /\ cache \in Seq(Byte) /\ logged \in Seq(Byte) /\ n \in Nat
      /\ Len(cache) \in Nat /\ Len(cache) <= MaxCache
  BY LogAssumption DEF IInv, TypeOK
<1>2. /\ spindle <= n /\ spindle <= Len(cache)
      /\ n <= MaxCache => spindle = n /\ Len(cache) = spindle
      /\ n > MaxCache => Len(cache) = MaxCache
      /\ \A i \in 1..spindle : cache[i] = logged[n - spindle + i]
  BY <1>1, InFront DEF IInv, Ring
<1>3. n > MaxCache => \A i \in 1..MaxCache : i > spindle =>
          cache[i] = logged[n - spindle - MaxCache + i]
  BY <1>1 DEF IInv, Ring
<1>4. /\ q \in Nat /\ q <= MaxCache /\ q >= spindle /\ length \in Nat
      /\ m \in 0..n /\ n - m <= MaxCache /\ n - m = length + spindle
  BY <1>1, <1>2 DEF SkippedAround
<1> HIDE DEF m
<1>5. /\ behind \in Seq(Byte) /\ Len(behind) = length
      /\ \A i \in 1..length : behind[i] = cache[q + i]
  <2>1. CASE n > MaxCache
    <3>1. /\ q \in 0..Len(cache) /\ MaxCache - q \in Nat
          /\ Smaller(MaxCache - q, Len(cache) - q) = MaxCache - q
          /\ length = MaxCache - q
      BY <1>1, <1>2, <1>4, <2>1 DEF Smaller
    <3>2. /\ behind \in Seq(Byte)
          /\ Len(behind) = Smaller(MaxCache - q, Len(cache) - q)
          /\ \A i \in 1..Len(behind) : behind[i] = cache[q + i]
      BY <1>1, <3>1, Reading
    <3> QED
      BY <3>1, <3>2
  <2>2. CASE n <= MaxCache
    <3>1. /\ length = 0 /\ Len(cache) \in Int /\ q + 1 \in Int
          /\ Len(cache) < q + 1
          /\ Smaller(q + (MaxCache - q), Len(cache)) = Len(cache)
      BY <1>1, <1>2, <1>4, <2>2 DEF Smaller
    <3>2. behind = <<>>
      BY <3>1, SubSeqEmpty DEF ReadAt
    <3> HIDE DEF behind, length
    <3>3. behind \in Seq(Byte) /\ Len(behind) = 0
      BY <3>2
    <3> QED
      BY <3>1, <3>3
  <2> QED
    BY <1>1, <2>1, <2>2
<1>6. /\ front \in Seq(Byte) /\ Len(front) = spindle
      /\ \A i \in 1..spindle : front[i] = cache[i]
  BY <1>1, <1>2, ReadingFirst
<1> HIDE DEF behind, front
<1>7. /\ data \in Seq(Byte) /\ Len(data) = Len(behind) + Len(front)
      /\ \A i \in 1..Len(behind) : data[i] = behind[i]
      /\ \A i \in 1..Len(front) : data[Len(behind) + i] = front[i]
  <2>1. behind \in Seq(Byte) /\ front \in Seq(Byte)
    BY <1>5, <1>6
  <2> QED
    BY <2>1, ConcatProperties
<1>8. /\ tail \in Seq(Byte) /\ Len(tail) = n - m
      /\ \A i \in 1..(n - m) : tail[i] = logged[m + i]
  BY <1>1, <1>4, EndOf
<1>9. /\ n > MaxCache => length = MaxCache - q
      /\ ~(n > MaxCache) => length = 0
  OBVIOUS
<1> HIDE DEF data, tail, length
<1>10. ASSUME NEW i \in 1..(n - m) PROVE data[i] = tail[i]
  <2>1. tail[i] = logged[m + i]
    BY <1>8
  <2>2. CASE i <= length
    <3>1. n > MaxCache /\ i \in 1..length
      BY <1>1, <1>4, <1>9, <2>2
    <3>2. /\ q + i \in 1..MaxCache /\ q + i > spindle
          /\ n - spindle - MaxCache + (q + i) = m + i
      BY <1>1, <1>4, <1>9, <3>1
    <3> QED
      BY <1>3, <1>5, <1>7, <2>1, <3>1, <3>2
  <2>3. CASE i > length
    <3> DEFINE j == i - length
    <3>0. i \in Nat /\ m \in Nat /\ i <= n - m
      BY <1>1, <1>4
    <3>1. j \in 1..spindle /\ length + j = i /\ n - spindle + j = m + i
      BY <1>1, <1>4, <2>3, <3>0
    <3> HIDE DEF j
    <3>2. data[i] = front[j] /\ front[j] = cache[j]
      BY <1>5, <1>6, <1>7, <3>1
    <3> QED
      BY <1>2, <2>1, <3>1, <3>2
  <2> QED
    BY <1>4, <2>2, <2>3
<1>11. data = tail
  BY <1>4, <1>5, <1>6, <1>7, <1>8, <1>10, SeqEqual
<1> QED
  BY <1>4, <1>11 DEF data, tail, behind, front, m

\* How many bytes were logged before those that Data(o) returns.
Skipped(o) ==
    IF o = Start THEN SkippedAround(spindle)
    ELSE IF o > spindle THEN SkippedAround(o)
    ELSE Len(logged) - (spindle - o)

\* Whatever the offset, what is read is the end of what was logged.
LEMMA DataIsEnd ==
    ASSUME IInv, NEW o \in 0..MaxCache \cup {Start}
    PROVE  /\ Skipped(o) \in 0..Len(logged)
           /\ Len(logged) - Skipped(o) <= MaxCache
           /\ Data(o) = SubSeq(logged, Skipped(o) + 1, Len(logged))
<1> DEFINE n == Len(logged)
           m == Skipped(o)
<1>1. /\ MaxCache \in Nat /\ spindle \in Nat /\ spindle <= MaxCache
      /\ cache \in Seq(Byte) /\ logged \in Seq(Byte) /\ n \in Nat
      /\ Len(cache) \in Nat /\ Start \notin Nat
  BY LogAssumption DEF IInv, TypeOK
<1>2. CASE o = Start
  <2>1. spindle \in spindle..MaxCache /\ m = SkippedAround(spindle)
    BY <1>1, <1>2 DEF Skipped
  <2>2. Data(o) = ReadAt(cache, spindle, MaxCache - spindle)
                  \o ReadAt(cache, 0, spindle)
    BY <1>2 DEF Data
  <2> HIDE DEF m
  <2> QED
    BY <2>1, <2>2, Around DEF m
<1>3. CASE o # Start /\ o > spindle
  <2>1. o \in spindle..MaxCache /\ m = SkippedAround(o)
    BY <1>1, <1>3 DEF Skipped
  <2>2. Data(o) = ReadAt(cache, o, MaxCache - o) \o ReadAt(cache, 0, spindle)
    BY <1>3 DEF Data
  <2> HIDE DEF m
  <2> QED
    BY <2>1, <2>2, Around DEF m
<1>4. CASE o # Start /\ o <= spindle
  <2> DEFINE data == ReadAt(cache, o, spindle - o)
             tail == SubSeq(logged, m + 1, n)
  <2>1. /\ spindle <= n /\ spindle <= Len(cache)
        /\ \A i \in 1..spindle : cache[i] = logged[n - spindle + i]
    BY <1>1, InFront DEF IInv, Ring
  <2>2. /\ o \in Nat /\ o <= spindle /\ m = n - (spindle - o)
        /\ m \in 0..n /\ n - m <= MaxCache /\ n - m = spindle - o
    BY <1>1, <1>4, <2>1 DEF Skipped
  <2>3. Data(o) = data
    BY <1>1, <1>4, <2>2 DEF Data
  <2> HIDE DEF m
  <2>4. /\ data \in Seq(Byte) /\ Len(data) = spindle - o
        /\ \A i \in 1..(spindle - o) : data[i] = cache[o + i]
    <3>1. /\ o \in 0..Len(cache) /\ spindle - o \in Nat
          /\ Smaller(spindle - o, Len(cache) - o) = spindle - o
      BY <1>1, <2>1, <2>2 DEF Smaller
    <3>2. /\ data \in Seq(Byte)
          /\ Len(data) = Smaller(spindle - o, Len(cache) - o)
          /\ \A i \in 1..Len(data) : data[i] = cache[o + i]
      BY <1>1, <3>1, Reading
    <3> QED
      BY <3>1, <3>2
  <2>5. /\ tail \in Seq(Byte) /\ Len(tail) = n - m
        /\ \A i \in 1..(n - m) : tail[i] = logged[m + i]
    BY <1>1, <2>2, EndOf
  <2> HIDE DEF data, tail
  <2>6. ASSUME NEW i \in 1..(n - m) PROVE data[i] = tail[i]
    <3>1. /\ i \in 1..(spindle - o) /\ o + i \in 1..spindle
          /\ n - spindle + (o + i) = m + i
      BY <1>1, <2>2
    <3> QED
      BY <2>1, <2>4, <2>5, <3>1
  <2>7. data = tail
    BY <2>2, <2>4, <2>5, <2>6, SeqEqual
  <2> QED
    BY <2>2, <2>3, <2>7 DEF m, tail
<1> QED
  BY <1>1, <1>2, <1>3, <1>4

(* Read from the spindle on, the cache is the end of what this process has *)
(* logged, for any size of the cache and any lengths of lines.             *)
THEOREM TailIsKept == Spec => []CacheIsTail
<1>1. IInv => CacheIsTail
  <2> SUFFICES ASSUME IInv PROVE CacheIsTail
    OBVIOUS
  <2>1. /\ MaxCache \in Nat /\ Len(logged) \in Nat
        /\ Start \in 0..MaxCache \cup {Start}
    BY LogAssumption DEF IInv, TypeOK
  <2>2. Skipped(Start) = Len(logged) - Smaller(MaxCache, Len(logged))
    BY <2>1 DEF Skipped, SkippedAround, Smaller, IInv, TypeOK
  <2>3. Data(Start) = SubSeq(logged, Skipped(Start) + 1, Len(logged))
    BY <2>1, DataIsEnd
  <2> QED
    BY <2>2, <2>3 DEF CacheIsTail
<1> QED
  BY <1>1, Invariant, PTL

(* A page that polls before MaxCache bytes were logged since its last poll *)
(* of this process reads those bytes, all of them and no others, from      *)
(* wherever its offset is in the ring.                                     *)
PollReadsTheNews ==
    \A r \in current :
        offset[r] # Start /\ Len(logged) - since[r] < MaxCache =>
            Data(offset[r]) = SubSeq(logged, since[r] + 1, Len(logged))

\* A page whose offset was not overrun reads on from where it was.
LEMMA ReadsOn ==
    ASSUME IInv, NEW r \in current, offset[r] # Start,
           Len(logged) - since[r] < MaxCache
    PROVE  Skipped(offset[r]) = since[r]
<1>1. /\ MaxCache \in Nat /\ spindle \in Nat /\ spindle <= MaxCache
      /\ Len(logged) \in Nat /\ since[r] \in Nat /\ since[r] <= Len(logged)
      /\ offset[r] \in Nat /\ offset[r] <= MaxCache
  BY LogAssumption DEF IInv, TypeOK
<1>2. \/ offset[r] = spindle - (Len(logged) - since[r])
      \/ /\ offset[r] = spindle - (Len(logged) - since[r]) + MaxCache
         /\ Len(logged) > MaxCache
  BY DEF IInv, Offsets
<1> QED
  BY <1>1, <1>2 DEF Skipped, SkippedAround

THEOREM PollGetsTheNews == Spec => []PollReadsTheNews
<1>1. IInv => PollReadsTheNews
  <2> SUFFICES ASSUME IInv, NEW r \in current, offset[r] # Start,
                      Len(logged) - since[r] < MaxCache
               PROVE  Data(offset[r]) =
                         SubSeq(logged, since[r] + 1, Len(logged))
    BY DEF PollReadsTheNews
  <2>1. offset[r] \in 0..MaxCache \cup {Start}
    BY DEF IInv, TypeOK
  <2>2. Data(offset[r]) =
           SubSeq(logged, Skipped(offset[r]) + 1, Len(logged))
    BY <2>1, DataIsEnd
  <2> QED
    BY <2>2, ReadsOn
<1> QED
  BY <1>1, Invariant, PTL

=============================================================================
