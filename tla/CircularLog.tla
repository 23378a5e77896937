----------------------------- MODULE CircularLog ----------------------------
(* The log of a service in its manager (logger/std_logging/                *)
(* MemoryCachedLog.py, FIFOJSONLog.py): every line is appended to a file,  *)
(* and the last MaxCache bytes are also kept in a BytesIO that is written  *)
(* round and round.  A page of the web monitor polls for the lines since   *)
(* the spindle it was told last.                                           *)
(*                                                                         *)
(* Each operation runs under the lock of the log, hence is one action.     *)
(* Offsets are counted from 0, as in the code.                             *)
EXTENDS Naturals, Sequences, FiniteSets

CONSTANTS
    MaxCache,   \* bytes in the cache
    Length,     \* the lengths of lines that programs log
    Reader,     \* pages that show the log
    Start,      \* the offset of a page that has nothing yet
    MaxLines    \* bound on the number of lines

ASSUME LogAssumption ==
    /\ MaxCache \in Nat \ {0}
    /\ Length \subseteq Nat \ {0}
    /\ Start \notin Nat
    /\ MaxLines \in Nat

VARIABLES
    file,       \* the lengths of the lines in the file
    cache,      \* the contents of the BytesIO
    position,   \* its file position
    spindle,    \* where the next line begins
    offset,     \* the offset each reader will poll from
    logged,     \* history: the bytes this process has put into the cache
    since,      \* history: how many they were when each reader polled
    booted,     \* history: the lines in the file when the process started
    read,       \* history: the lines in the file when each reader polled
    current     \* history: readers whose offset is from this process

vars ==
    <<file, cache, position, spindle, offset, logged, since, booted, read,
      current>>

\* The byte i of line n; byte 0 is the newline in front of it.
Byte == (1..MaxLines) \X (0..MaxCache)

TypeOK ==
    /\ file \in Seq(Length) /\ Len(file) <= MaxLines
    /\ cache \in Seq(Byte) /\ Len(cache) <= MaxCache
    /\ position \in 0..MaxCache
    /\ spindle \in 0..MaxCache
    /\ offset \in [Reader -> 0..MaxCache \cup {Start}]
    /\ logged \in Seq(Byte)
    /\ since \in [Reader -> 0..Len(logged)]
    /\ booted \in 0..Len(file)
    /\ read \in [Reader -> 0..Len(file)]
    /\ current \in SUBSET Reader

Init ==
    /\ file = <<>>
    /\ cache = <<>>
    /\ position = 0
    /\ spindle = 0
    /\ offset = [r \in Reader |-> Start]
    /\ logged = <<>>
    /\ since = [r \in Reader |-> 0]
    /\ booted = 0
    /\ read = [r \in Reader |-> 0]
    /\ current = Reader

-----------------------------------------------------------------------------
Smaller(m, n) == IF m < n THEN m ELSE n

\* n bytes of f from position p, or as many as there are.
ReadAt(f, p, n) == SubSeq(f, p + 1, Smaller(p + n, Len(f)))

\* f after s was written at position p.
WrittenAt(f, p, s) ==
    ReadAt(f, 0, p) \o s \o ReadAt(f, p + Len(s), Len(f))

\* Line n as it is written to the cache.
Line(n, length) == [i \in 1..(length + 1) |-> <<n, i - 1>>]

\* Variant: lines of any length.
WriteAnyLine(length) ==
    LET s     == Line(Len(file) + 1, length)
        room  == MaxCache - spindle
        wraps == spindle + Len(s) > MaxCache
        head  == WrittenAt(cache, position, ReadAt(s, 0, room))
    IN  /\ Len(file) < MaxLines
        /\ file' = Append(file, length)
        /\ logged' = logged \o s
        /\ cache' = IF wraps THEN WrittenAt(head, 0, ReadAt(s, room, Len(s)))
                             ELSE head
        /\ spindle' = IF wraps THEN Len(s) - room ELSE spindle + Len(s)
        /\ position' = IF wraps THEN Len(s) - room
                                ELSE position + Len(s)
        /\ UNCHANGED <<offset, since, booted, read, current>>

\* Variant: a line that does not fit goes to the beginning as a whole.
WriteUnsplit(length) ==
    LET s     == Line(Len(file) + 1, length)
        wraps == spindle + Len(s) > MaxCache
        at    == IF wraps THEN 0 ELSE position
    IN  /\ length + 1 < MaxCache
        /\ Len(file) < MaxLines
        /\ file' = Append(file, length)
        /\ logged' = logged \o s
        /\ cache' = WrittenAt(cache, at, s)
        /\ spindle' = at + Len(s)
        /\ position' = at + Len(s)
        /\ UNCHANGED <<offset, since, booted, read, current>>

(* _write_line(): what does not fit before the end of the cache goes to    *)
(* its beginning.  A line that is too long raises OverflowError.           *)
WriteLine(length) ==
    LET s     == Line(Len(file) + 1, length)
        room  == MaxCache - spindle
        wraps == spindle + Len(s) > MaxCache
        head  == WrittenAt(cache, position, ReadAt(s, 0, room))
    IN  /\ length + 1 < MaxCache
        /\ Len(file) < MaxLines
        /\ file' = Append(file, length)
        /\ logged' = logged \o s
        /\ cache' = IF wraps THEN WrittenAt(head, 0, ReadAt(s, room, Len(s)))
                             ELSE head
        /\ spindle' = IF wraps THEN Len(s) - room ELSE spindle + Len(s)
        /\ position' = IF wraps THEN Len(s) - room
                                ELSE position + Len(s)
        /\ UNCHANGED <<offset, since, booted, read, current>>

-----------------------------------------------------------------------------
\* Variant: what was written before the wrap is forgotten.
DataAfterWrap(o) ==
    IF o = Start THEN ReadAt(cache, spindle, MaxCache - spindle)
                      \o ReadAt(cache, 0, spindle)
    ELSE IF o > spindle THEN ReadAt(cache, 0, spindle)
    ELSE ReadAt(cache, o, spindle - o)

\* The bytes from an offset to the spindle; nothing if they are equal.
Data(o) ==
    IF o = Start THEN ReadAt(cache, spindle, MaxCache - spindle)
                      \o ReadAt(cache, 0, spindle)
    ELSE IF o > spindle THEN ReadAt(cache, o, MaxCache - o)
                             \o ReadAt(cache, 0, spindle)
    ELSE ReadAt(cache, o, spindle - o)

\* Where the newlines are, in their order.
Newlines(data) ==
    LET found == {i \in DOMAIN data : data[i][2] = 0}
    IN  CHOOSE f \in [1..Cardinality(found) -> found] :
            \A j, k \in DOMAIN f : j < k => f[j] < f[k]

\* data.split('\n').
Split(data) ==
    LET ends == <<0>> \o Newlines(data) \o <<Len(data) + 1>>
    IN  [k \in 1..(Len(ends) - 1) |-> SubSeq(data, ends[k] + 1, ends[k + 1] - 1)]

\* Variant: the part before the first newline counts as a line.
AnswerAll(o) == IF o = spindle THEN <<>> ELSE Split(Data(o))

\* _iter_from_cache(): all but what comes before the first newline.
Answer(o) == IF o = spindle THEN <<>> ELSE Tail(Split(Data(o)))

(* get_html_log(): the reader is given Answer(offset[r]) and the spindle,  *)
(* which it passes with its next poll.                                     *)
Poll(r) ==
    /\ position' = IF offset[r] = spindle THEN position ELSE spindle
    /\ offset' = [offset EXCEPT ![r] = spindle]
    /\ since' = [since EXCEPT ![r] = Len(logged)]
    /\ read' = [read EXCEPT ![r] = Len(file)]
    /\ current' = current \cup {r}
    /\ UNCHANGED <<file, cache, spindle, logged, booted>>

\* The page is loaded again.
Reload(r) ==
    /\ offset' = [offset EXCEPT ![r] = Start]
    /\ since' = [since EXCEPT ![r] = 0]
    /\ read' = [read EXCEPT ![r] = 0]
    /\ current' = current \cup {r}
    /\ UNCHANGED <<file, cache, position, spindle, logged, booted>>

(* The process starts again and goes on with the same file; the pages keep *)
(* their offsets.                                                          *)
Restart ==
    /\ booted < Len(file)
    /\ booted' = Len(file)
    /\ logged' = <<>>
    /\ since' = [r \in Reader |-> 0]
    /\ cache' = <<>>
    /\ position' = 0
    /\ spindle' = 0
    /\ current' = {r \in current : offset[r] = Start}
    /\ UNCHANGED <<file, offset, read>>

Next ==
    \/ \E l \in Length : WriteLine(l)
    \/ \E r \in Reader : Poll(r) \/ Reload(r)
    \/ Restart

Spec == Init /\ [][Next]_vars

-----------------------------------------------------------------------------
\* The lines from line n on, as a reader is given them.
LinesFrom(n) ==
    [i \in 1..(Len(file) + 1 - n) |-> Tail(Line(n + i - 1, file[n + i - 1]))]

(* However often the cache was written round, at whichever byte a line was *)
(* cut, and wherever readers have left the file position: read from the    *)
(* spindle on, the cache is the end of what this process has logged.       *)
CacheIsTail ==
    LET kept == Smaller(MaxCache, Len(logged))
    IN  Data(Start) = SubSeq(logged, Len(logged) - kept + 1, Len(logged))

(* What a poll returns are complete lines, the last ones there are, and    *)
(* none the reader was given before, also when its offset was overrun or   *)
(* is that of an earlier process.                                          *)
WholeNewLines ==
    \A r \in Reader :
        \E n \in (read[r] + 1)..(Len(file) + 1) : Answer(offset[r]) = LinesFrom(n)

(* A reader that polls before MaxCache bytes were logged since its last    *)
(* poll of this process misses nothing; one that loads the page gets every *)
(* line there is as long as they all fit.                                  *)
NothingMissed ==
    \A r \in current :
        LET new   == offset[r] = Start
            first == IF new THEN booted + 1 ELSE read[r] + 1
            news  == Len(logged) - since[r]
        IN  news < MaxCache \/ (new /\ news = MaxCache)
              => Answer(offset[r]) = LinesFrom(first)
=============================================================================
