--------------------------- MODULE LocalPartsProofs ---------------------------
(* Theorems about the event queue, the buffered writer, the semaphore on   *)
(* Windows and the parsers of the system information: they hold for any    *)
(* number of events, any capacity, any processes and any text.             *)
EXTENDS EventQueue, FileBuffer, Win32Semaphore, SystemInfo, CommonLemmas

-----------------------------------------------------------------------------
(* The event queue.                                                        *)

EventSpec == EventInit /\ [][EventNext]_eventVars

\* An entry only links to a later one, the front is behind what was popped, and
\* tail links to nothing or to the newest.
LinksForward ==
  /\ next \in Seq(Nat) /\ popped \in Nat /\ crashed \in BOOLEAN
  /\ head \in 0 .. Len(next) /\ tail \in 0 .. Len(next) /\ popped \in 0 .. Len(next)
  /\ \A i \in 1 .. Len(next) : next[i] = Nullptr \/ next[i] \in i + 1 .. Len(next)
  /\ head # Nullptr => head > popped /\ tail # Nullptr
  /\ tail # Nullptr => next[tail] \in {Nullptr, Len(next)}

\* push_event links a new entry behind tail (event.cpp:6-16).
LEMMA PushLinksForward ==
  ASSUME LinksForward, PushEvent PROVE LinksForward'
<1> DEFINE entry == Len(next) + 1
           longer == Append(next, Nullptr)
<1>1. longer \in Seq(Nat) /\ Len(longer) = entry /\ longer[entry] = Nullptr
      /\ \A i \in 1 .. Len(next) : longer[i] = next[i]
  BY DEF LinksForward, Nullptr
<1>2. CASE head = Nullptr
  <2>1. next' = longer /\ head' = entry /\ tail' = entry /\ popped' = popped /\ crashed' = crashed
    BY <1>2 DEF PushEvent
  <2> QED BY <1>1, <2>1 DEF LinksForward, Nullptr
<1>3. CASE head # Nullptr
  <2>1. next' = [longer EXCEPT ![tail] = entry] /\ UNCHANGED <<head, tail, popped, crashed>>
    BY <1>3 DEF PushEvent
  <2>2. tail \in 1 .. Len(next)
    BY <1>3 DEF LinksForward, Nullptr
  <2>3. next' \in Seq(Nat) /\ Len(next') = entry /\ next'[tail] = entry
        /\ \A i \in 1 .. entry : i # tail => next'[i] = longer[i]
    <3>1. longer \in [1 .. entry -> Nat] /\ entry \in Nat /\ tail \in 1 .. entry
      <4> HIDE DEF longer
      <4>1. longer \in [1 .. Len(longer) -> Nat]
        BY <1>1
      <4>2. Len(next) \in Nat
        BY DEF LinksForward
      <4> QED BY <1>1, <2>2, <4>1, <4>2
    <3>2. next' \in [1 .. entry -> Nat] /\ next'[tail] = entry
      BY <2>1, <3>1
    <3>3. \A i \in 1 .. entry : i # tail => next'[i] = longer[i]
      BY <2>1, <3>1
    <3>4. next' \in Seq(Nat) /\ Len(next') = entry
      BY <3>1, <3>2
    <3> QED BY <3>2, <3>3, <3>4
  <2>4. \A i \in 1 .. Len(next') : next'[i] = Nullptr \/ next'[i] \in i + 1 .. Len(next')
    <3> SUFFICES ASSUME NEW i \in 1 .. entry
                 PROVE next'[i] = Nullptr \/ next'[i] \in i + 1 .. entry
      BY <2>3
    <3>1. CASE i = tail
      BY <2>2, <2>3, <3>1 DEF LinksForward
    <3>2. CASE i # tail /\ i = entry
      BY <1>1, <2>3, <3>2
    <3>3. CASE i # tail /\ i \in 1 .. Len(next)
      <4>1. next'[i] = next[i]
        BY <1>1, <2>3, <3>3
      <4>2. next[i] = Nullptr \/ next[i] \in i + 1 .. Len(next)
        BY <3>3 DEF LinksForward
      <4>3. Len(next) \in Nat
        BY DEF LinksForward
      <4> QED BY <4>1, <4>2, <4>3
    <3>4. i = entry \/ i \in 1 .. Len(next)
      BY DEF LinksForward
    <3> QED BY <3>1, <3>2, <3>3, <3>4
  <2> QED BY <1>3, <2>1, <2>2, <2>3, <2>4 DEF LinksForward, Nullptr
<1> QED BY <1>2, <1>3

\* No call links an entry backwards (event.cpp:6-30).
LEMMA QueueLinksForward == EventSpec => []LinksForward
<1>1. EventInit => LinksForward
  <2> SUFFICES ASSUME EventInit PROVE LinksForward
    OBVIOUS
  <2>1. next = <<>> /\ next \in Seq(Nat) /\ Len(next) = 0
    BY DEF EventInit
  <2>2. head = 0 /\ tail = 0 /\ popped = 0 /\ crashed = FALSE
    BY DEF EventInit, Nullptr
  <2>3. 1 .. Len(next) = {} /\ 0 \in 0 .. Len(next)
    BY <2>1
  <2> QED BY <2>1, <2>2, <2>3 DEF LinksForward, Nullptr
<1>2. LinksForward /\ [EventNext]_eventVars => LinksForward'
  <2> SUFFICES ASSUME LinksForward, [EventNext]_eventVars PROVE LinksForward'
    OBVIOUS
  <2>1. CASE PushEvent
    BY <2>1, PushLinksForward
  <2>2. CASE PopEvent
    <3>1. UNCHANGED <<next, tail>>
      BY <2>2 DEF PopEvent
    <3>2. CASE head = Nullptr
      BY <2>2, <3>1, <3>2 DEF PopEvent, LinksForward
    <3>3. CASE head # Nullptr
      <4>1. popped' = head /\ head' = next[head] /\ crashed' = crashed /\ head \in 1 .. Len(next)
        BY <2>2, <3>3 DEF PopEvent, LinksForward, Nullptr
      <4>2. head' = Nullptr \/ head' \in head + 1 .. Len(next)
        BY <4>1 DEF LinksForward
      <4> QED BY <3>1, <3>3, <4>1, <4>2 DEF LinksForward, Nullptr
    <3> QED BY <3>2, <3>3
  <2>3. CASE GetEvent
    BY <2>3 DEF GetEvent, LinksForward
  <2>4. CASE UNCHANGED eventVars
    BY <2>4 DEF eventVars, LinksForward
  <2> QED BY <2>1, <2>2, <2>3, <2>4 DEF EventNext
<1> QED BY <1>1, <1>2, PTL DEF EventSpec

\* Handlers come out in the order in which they were pushed, however many events
\* there are, although tail is left behind (event.cpp:6-25).
THEOREM HandlersInOrder == EventSpec => PopsInOrder
<1>1. LinksForward /\ [EventNext]_eventVars =>
        [popped' # popped =>
           /\ popped' > popped
           /\ popped' = tail => next[popped'] \in {Nullptr, Len(next)}]_eventVars
  BY DEF LinksForward, EventNext, PushEvent, PopEvent, GetEvent, eventVars, Nullptr
<1> QED BY <1>1, QueueLinksForward, PTL DEF EventSpec, PopsInOrder

-----------------------------------------------------------------------------
(* The buffered writer.                                                    *)

FileSpec == FileInit /\ [][ReaderNext \/ WriterNext]_fileVars

\* What is in the file and in the buffer is what was printed.
WriterInv ==
  /\ out \in Seq(Nat) /\ wdata \in Seq(Nat) /\ printed \in Seq(Nat)
  /\ out \o wdata = printed

\* The reader leaves the writer alone (fs.hpp:105-260).
LEMMA ReaderLeavesWriter == ReaderNext => UNCHANGED writerVars
BY DEF ReaderNext, ReadBuffered, ReadNothing, ReadFetching, Skip, Unread, Scanf, Scan, ScanBlank,
       ScanNumber, ScanString, ScanReturns, writerVars

\* What is printed behind the rest is behind both parts of it.
LEMMA ConcatInTurn ==
  ASSUME NEW s \in Seq(Nat), NEW t \in Seq(Nat), NEW u \in Seq(Nat)
  PROVE (s \o t) \o u = s \o (t \o u)
BY ConcatAssociative

\* However Printf, Write and Flush follow one another, and whatever the capacity, all
\* that was printed arrives once and in order (fs.hpp:73-103).
THEOREM PrintedArrives == FileSpec => []PrintedOnce
<1>1. FileInit => WriterInv
  BY DEF FileInit, WriterInv
<1>2. WriterInv /\ [ReaderNext \/ WriterNext]_fileVars => WriterInv'
  <2> SUFFICES ASSUME WriterInv, [ReaderNext \/ WriterNext]_fileVars PROVE WriterInv'
    OBVIOUS
  <2>1. CASE UNCHANGED writerVars
    BY <2>1 DEF writerVars, WriterInv
  <2>2. ASSUME NEW n \in 1 .. Capacity, Printf(n) PROVE WriterInv'
    <3> DEFINE line == Bytes(Len(printed), n)
    <3>1. line \in Seq(Nat)
      BY FileBufferAssumption DEF Bytes, WriterInv
    <3>2. wdata' = wdata \o line /\ printed' = printed \o line /\ out' = out
      BY <2>2 DEF Printf
    <3> HIDE DEF line
    <3>3. (out \o wdata) \o line = out \o (wdata \o line)
      <4>1. out \in Seq(Nat) /\ wdata \in Seq(Nat)
        BY DEF WriterInv
      <4> QED BY <3>1, <4>1, ConcatInTurn
    <3>4. wdata \o line \in Seq(Nat) /\ printed \o line \in Seq(Nat)
      BY <3>1 DEF WriterInv
    <3> QED BY <3>2, <3>3, <3>4 DEF WriterInv
  <2>3. CASE Flush
    <3>1. out' = out \o wdata /\ wdata' = <<>> /\ printed' = printed
      BY <2>3 DEF Flush
    <3>2. out \o wdata \in Seq(Nat) /\ (out \o wdata) \o <<>> = out \o wdata
      BY DEF WriterInv
    <3> QED BY <3>1, <3>2 DEF WriterInv
  <2>4. ASSUME NEW n \in 1 .. Capacity, Write(n) PROVE WriterInv'
    BY <2>1, <2>4 DEF Write
  <2> QED BY <2>1, <2>2, <2>3, <2>4, ReaderLeavesWriter DEF WriterNext, fileVars
<1>3. WriterInv => PrintedOnce
  BY DEF WriterInv, PrintedOnce
<1> QED BY <1>1, <1>2, <1>3, PTL DEF FileSpec

-----------------------------------------------------------------------------
(* The buffered reader.                                                    *)

\* The buffer holds the last pos of the bytes that were fetched, and neither the read
\* pointer nor Scanf is behind them.
ReaderInv ==
  /\ pos \in 0 .. Capacity /\ fetched \in pos .. FileLength
  /\ data \in [1 .. Capacity -> Nat]
  /\ \A i \in 1 .. pos : data[i] = fetched - pos + i
  /\ read_ptr \in 0 .. pos
  /\ scan = NotScanning \/ scan.in_pos \in 0 .. pos - read_ptr
  /\ scan \in [fmt : Seq({"blank", "%d", "%s", "other"}), pos : Nat, in_pos : Nat]

\* What a sequence is made of, by its two parts.
LEMMA ConcatAt ==
  ASSUME NEW s \in Seq(Nat), NEW t \in Seq(Nat)
  PROVE /\ s \o t \in Seq(Nat) /\ Len(s \o t) = Len(s) + Len(t)
        /\ \A i \in 1 .. Len(s) + Len(t) : (s \o t)[i] = IF i <= Len(s) THEN s[i] ELSE t[i - Len(s)]
OBVIOUS

\* What is behind the first k of a sequence.
LEMMA RestAt ==
  ASSUME NEW s \in Seq(Nat), NEW k \in 0 .. Len(s)
  PROVE SubSeq(s, k + 1, Len(s)) \in Seq(Nat) /\ Len(SubSeq(s, k + 1, Len(s))) = Len(s) - k
OBVIOUS

\* fread returns what it is asked for, or what the file still has (fs.hpp:20-40).
LEMMA FetchedRange ==
  ASSUME NEW size \in Nat, fetched \in 0 .. FileLength
  PROVE Fetched(size) \in 0 .. size /\ Fetched(size) <= FileLength - fetched
BY FileBufferAssumption DEF Fetched, Least

\* What Read has in the buffer when it has moved the rest and fetched more, of which
\* the first byte is at the place (fs.hpp:136-149).
LEMMA MovedFollowsFile ==
  ASSUME ReaderInv, pos = Capacity, NEW n \in 0 .. read_ptr, n <= FileLength - fetched
  PROVE LET rest == pos - read_ptr
            moved == Copied(rest, read_ptr) \o Bytes(fetched, n)
        IN /\ moved \in Seq(Nat) /\ Len(moved) = rest + n
           /\ \A i \in 1 .. rest + n : moved[i] = fetched - rest + i
<1> DEFINE rest == pos - read_ptr
           left == Copied(rest, read_ptr)
           more == Bytes(fetched, n)
<1>1. rest \in 0 .. Capacity /\ fetched \in Nat /\ Capacity \in Nat /\ read_ptr \in Nat /\ fetched >= rest
  BY FileBufferAssumption DEF ReaderInv
<1>2. left \in Seq(Nat) /\ Len(left) = rest
  <2>1. \A i \in 1 .. rest : data[read_ptr + i] \in Nat
    BY <1>1 DEF ReaderInv
  <2> QED BY <1>1, <2>1 DEF Copied
<1>3. \A i \in 1 .. rest : left[i] = fetched - rest + i
  <2> SUFFICES ASSUME NEW i \in 1 .. rest PROVE left[i] = fetched - rest + i
    OBVIOUS
  <2>1. left[i] = data[read_ptr + i] /\ read_ptr + i \in 1 .. pos
    BY <1>1 DEF Copied, ReaderInv
  <2> QED BY <1>1, <2>1 DEF ReaderInv
<1>4. more \in Seq(Nat) /\ Len(more) = n /\ \A i \in 1 .. n : more[i] = fetched + i
  BY <1>1 DEF Bytes
<1> HIDE DEF left, more
<1>5. left \o more \in Seq(Nat) /\ Len(left \o more) = rest + n
      /\ \A i \in 1 .. rest + n : (left \o more)[i] = IF i <= rest THEN left[i] ELSE more[i - rest]
  <2> HIDE DEF rest
  <2>1. left \o more \in Seq(Nat) /\ Len(left \o more) = Len(left) + Len(more)
        /\ \A i \in 1 .. Len(left) + Len(more) :
             (left \o more)[i] = IF i <= Len(left) THEN left[i] ELSE more[i - Len(left)]
    BY <1>2, <1>4, ConcatAt
  <2> QED BY <1>2, <1>4, <2>1
<1>6. \A i \in 1 .. rest + n : (left \o more)[i] = fetched - rest + i
  <2> SUFFICES ASSUME NEW i \in 1 .. rest + n PROVE (left \o more)[i] = fetched - rest + i
    OBVIOUS
  <2> HIDE DEF rest
  <2>1. CASE i <= rest
    <3>1. i \in 1 .. rest
      BY <1>1, <2>1
    <3> QED BY <1>3, <1>5, <2>1, <3>1
  <2>2. CASE i > rest
    <3>1. i - rest \in 1 .. n /\ ~(i <= rest) /\ i \in Nat
      BY <1>1, <2>2
    <3>2. (left \o more)[i] = more[i - rest]
      BY <1>5, <3>1
    <3>3. more[i - rest] = fetched + (i - rest)
      BY <1>4, <3>1
    <3>4. fetched + (i - rest) = fetched - rest + i
      BY <1>1, <3>1
    <3> QED BY <3>2, <3>3, <3>4
  <2>3. i <= rest \/ i > rest
    BY <1>1
  <2> QED BY <2>1, <2>2, <2>3
<1> QED BY <1>5, <1>6 DEF left, more

\* What a read that fetches leaves in the buffer (fs.hpp:136-149).
LEMMA FetchingKeepsReader ==
  ASSUME ReaderInv, NEW size \in 0 .. Capacity, ReadFetching(size)
  PROVE ReaderInv'
<1> DEFINE rest == pos - read_ptr
           n == Fetched(Capacity - rest)
           moved == Copied(rest, read_ptr) \o Bytes(fetched, n)
<1>1. pos = Capacity /\ rest \in 0 .. Capacity /\ Capacity - rest = read_ptr /\ Capacity \in Nat
      /\ read_ptr \in Nat /\ fetched \in Nat
  BY FileBufferAssumption DEF ReaderInv, ReadFetching
<1>2. n \in 0 .. read_ptr /\ n <= FileLength - fetched
  <2>1. fetched \in 0 .. FileLength /\ Capacity - rest \in Nat
    BY <1>1, FileBufferAssumption DEF ReaderInv
  <2> HIDE DEF rest
  <2>2. Fetched(Capacity - rest) \in 0 .. Capacity - rest /\ Fetched(Capacity - rest) <= FileLength - fetched
    BY <2>1, FetchedRange
  <2> QED BY <1>1, <2>2
<1>3. moved \in Seq(Nat) /\ Len(moved) = rest + n /\ \A i \in 1 .. rest + n : moved[i] = fetched - rest + i
  BY <1>1, <1>2, MovedFollowsFile
<1>4. pos' = rest + n /\ fetched' = fetched + n /\ read_ptr' = 0 /\ scan' = scan /\ scan = NotScanning
      /\ data' = moved \o SubSeq(data, rest + n + 1, Capacity)
  BY DEF ReadFetching, Ready
<1> HIDE DEF n, moved
<1>5. rest + n \in 0 .. Capacity /\ fetched + n \in rest + n .. FileLength
  BY <1>1, <1>2, FileBufferAssumption DEF ReaderInv
<1>6. data \in Seq(Nat) /\ Len(data) = Capacity
  BY <1>1 DEF ReaderInv
<1>7. SubSeq(data, rest + n + 1, Capacity) \in Seq(Nat)
      /\ Len(SubSeq(data, rest + n + 1, Capacity)) = Capacity - (rest + n)
  BY <1>5, <1>6, RestAt
<1>8. data' \in [1 .. Capacity -> Nat] /\ \A i \in 1 .. rest + n : data'[i] = moved[i]
  <2> DEFINE behind == SubSeq(data, rest + n + 1, Capacity)
  <2>1. behind \in Seq(Nat) /\ Len(behind) = Capacity - (rest + n) /\ rest + n \in Nat
        /\ Capacity - (rest + n) \in Nat
    BY <1>1, <1>5, <1>7
  <2> HIDE DEF behind, rest
  <2>2. data' \in Seq(Nat) /\ Len(data') = Len(moved) + Len(behind)
        /\ \A i \in 1 .. Len(moved) + Len(behind) :
             data'[i] = IF i <= Len(moved) THEN moved[i] ELSE behind[i - Len(moved)]
    BY <1>3, <1>4, <2>1, ConcatAt DEF behind
  <2>3. Len(moved) + Len(behind) = Capacity
    BY <1>1, <1>3, <2>1
  <2>4. data' \in [1 .. Capacity -> Nat]
    BY <2>2, <2>3
  <2>5. ASSUME NEW i \in 1 .. rest + n PROVE data'[i] = moved[i]
    <3>1. i \in 1 .. Capacity /\ i <= Len(moved)
      BY <1>1, <1>3, <1>5, <2>1
    <3> QED BY <2>2, <2>3, <3>1
  <2> QED BY <2>4, <2>5
<1>9. ASSUME NEW i \in 1 .. pos' PROVE data'[i] = fetched' - pos' + i
  <2>1. data'[i] = fetched - rest + i /\ fetched' - pos' = (fetched + n) - (rest + n)
    BY <1>3, <1>4, <1>8
  <2> HIDE DEF rest
  <2>2. (fetched + n) - (rest + n) = fetched - rest
    BY <1>1, <1>2
  <2> QED BY <2>1, <2>2
<1>10. pos' \in 0 .. Capacity /\ fetched' \in pos' .. FileLength /\ read_ptr' \in 0 .. pos'
  BY <1>1, <1>4, <1>5
<1> QED BY <1>4, <1>8, <1>9, <1>10 DEF ReaderInv

\* FileInit: the constructor fetches what fits (fs.hpp:120-127).
LEMMA InitKeepsReader == FileInit => ReaderInv
<1> SUFFICES ASSUME FileInit PROVE ReaderInv
  OBVIOUS
<1> DEFINE rest == [i \in 1 .. Capacity - pos |-> 0]
<1>1. pos \in 0 .. Capacity /\ pos <= FileLength /\ fetched = pos /\ read_ptr = 0 /\ scan = NotScanning
      /\ Capacity \in Nat /\ FileLength \in Nat
  BY FileBufferAssumption DEF FileInit, Least
<1>2. Bytes(0, pos) \in Seq(Nat) /\ Len(Bytes(0, pos)) = pos /\ \A i \in 1 .. pos : Bytes(0, pos)[i] = i
  BY <1>1 DEF Bytes
<1>3. rest \in Seq(Nat) /\ Len(rest) = Capacity - pos
  BY <1>1
<1>4. data = Bytes(0, pos) \o rest
  BY DEF FileInit
<1> HIDE DEF rest
<1>5. data \in Seq(Nat) /\ Len(data) = Len(Bytes(0, pos)) + Len(rest)
      /\ \A i \in 1 .. Len(Bytes(0, pos)) + Len(rest) :
           data[i] = IF i <= Len(Bytes(0, pos)) THEN Bytes(0, pos)[i] ELSE rest[i - Len(Bytes(0, pos))]
  BY <1>2, <1>3, <1>4, ConcatAt
<1>6. Len(Bytes(0, pos)) + Len(rest) = Capacity
  BY <1>1, <1>2, <1>3
<1>7. data \in [1 .. Capacity -> Nat]
  BY <1>5, <1>6
<1>8. ASSUME NEW i \in 1 .. pos PROVE data[i] = fetched - pos + i
  <2>1. i \in 1 .. Capacity /\ i <= Len(Bytes(0, pos))
    BY <1>1, <1>2
  <2>2. data[i] = i
    BY <1>2, <1>5, <1>6, <2>1
  <2> QED BY <1>1, <2>2
<1> QED BY <1>1, <1>7, <1>8 DEF ReaderInv, NotScanning

\* The writer, and what moves the read pointer or Scanf only (fs.hpp:73-127, 152-248).
LEMMA StepKeepsReader ==
  ASSUME ReaderInv, [ReaderNext \/ WriterNext]_fileVars
  PROVE ReaderInv'
<1>1. CASE UNCHANGED <<fetched, data, pos, read_ptr, scan>>
  BY <1>1 DEF ReaderInv
<1>2. CASE WriterNext \/ UNCHANGED fileVars
  BY <1>1, <1>2 DEF WriterNext, Printf, Write, Flush, fileVars, readerVars
<1>3. ASSUME NEW n \in 0 .. Capacity, ReadBuffered(n) \/ ReadNothing(n) PROVE ReaderInv'
  BY <1>1, <1>3 DEF ReadBuffered, ReadNothing
<1>4. ASSUME NEW n \in 0 .. Capacity, ReadFetching(n) PROVE ReaderInv'
  BY <1>4, FetchingKeepsReader
<1> DEFINE Numbers == /\ pos \in Nat /\ Capacity \in Nat /\ read_ptr \in 0 .. pos /\ PtrRange \in Nat \ {0}
<1>5. Numbers
  BY FileBufferAssumption DEF ReaderInv
<1>6. ASSUME NEW k \in Nat, k <= pos PROVE k % PtrRange \in 0 .. pos
  BY <1>5, <1>6
<1>7. ASSUME NEW n \in 0 .. Capacity, Skip(n) PROVE ReaderInv'
  <2>1. read_ptr + n \in Nat /\ read_ptr + n <= pos
    BY <1>5, <1>7 DEF Skip
  <2>2. read_ptr' \in 0 .. pos
    BY <1>6, <1>7, <2>1 DEF Skip
  <2> QED BY <1>7, <2>2 DEF Skip, Ready, ReaderInv
<1>8. ASSUME NEW n \in 0 .. Capacity, Unread(n) PROVE ReaderInv'
  <2>1. read_ptr' \in 0 .. pos
    BY <1>5, <1>8 DEF Unread
  <2> QED BY <1>8, <2>1 DEF Unread, Ready, ReaderInv
<1>9. ASSUME NEW fmt \in Formats, Scanf(fmt) PROVE ReaderInv'
  <2>1. scan' = [fmt |-> fmt, pos |-> 1, in_pos |-> 0] /\ fmt \in Seq({"blank", "%d", "%s", "other"})
    BY <1>9, FileBufferAssumption DEF Scanf
  <2>2. scan'.in_pos \in 0 .. pos - read_ptr
    BY <1>5, <2>1
  <2> QED BY <1>9, <2>1, <2>2 DEF Scanf, ReaderInv
<1>10. ASSUME ScanBlank \/ ScanString \/ ScanNumber PROVE ReaderInv'
  <2>1. scan # NotScanning /\ UNCHANGED <<fetched, data, pos, read_ptr>>
    BY <1>10 DEF ScanBlank, ScanString, ScanNumber, At, InFormat
  <2>2. scan.in_pos \in 0 .. pos - read_ptr
        /\ scan \in [fmt : Seq({"blank", "%d", "%s", "other"}), pos : Nat, in_pos : Nat]
    BY <2>1 DEF ReaderInv
  <2>3. CASE scan' = [scan EXCEPT !.pos = @ + 1] \/ UNCHANGED scan
    BY <2>1, <2>2, <2>3 DEF ReaderInv
  <2>4. ASSUME NEW n \in 1 .. pos - read_ptr - scan.in_pos,
               scan' = [scan EXCEPT !.pos = @ + 1, !.in_pos = @ + n]
        PROVE ReaderInv'
    <3>1. scan'.in_pos = scan.in_pos + n /\ scan'.in_pos \in 0 .. pos - read_ptr
      BY <1>5, <2>2, <2>4
    <3>2. scan' \in [fmt : Seq({"blank", "%d", "%s", "other"}), pos : Nat, in_pos : Nat]
      <4>1. scan.pos + 1 \in Nat /\ scan.in_pos + n \in Nat
        BY <1>5, <2>2
      <4>2. scan' = [fmt |-> scan.fmt, pos |-> scan.pos + 1, in_pos |-> scan.in_pos + n]
        BY <2>2, <2>4
      <4> QED BY <2>2, <4>1, <4>2
    <3> QED BY <2>1, <3>1, <3>2 DEF ReaderInv
  <2> QED BY <1>10, <2>3, <2>4 DEF ScanBlank, ScanString, ScanNumber
<1>11. CASE ScanReturns
  <2>1. read_ptr + scan.in_pos \in Nat /\ read_ptr + scan.in_pos <= pos
    <3>1. scan.in_pos \in 0 .. pos - read_ptr
      BY <1>11 DEF ScanReturns, ReaderInv
    <3> QED BY <1>5, <3>1
  <2>2. read_ptr' \in 0 .. pos
    BY <1>6, <1>11, <2>1 DEF ScanReturns
  <2> QED BY <1>11, <2>2 DEF ScanReturns, NotScanning, ReaderInv
<1> QED BY <1>2, <1>3, <1>4, <1>7, <1>8, <1>9, <1>10, <1>11 DEF ReaderNext, Scan

\* The buffer always holds the part of the file that was fetched last (fs.hpp:105-150).
LEMMA ReaderFollowsFile == FileSpec => []ReaderInv
BY InitKeepsReader, StepKeepsReader, PTL DEF FileSpec

\* Read gives the bytes at the place in the file and leaves the place, for any capacity,
\* any file and any range of the read pointer, wherever Skip and Unread have moved it
\* (fs.hpp:129-150).
THEOREM ReadsFollowFile == FileSpec => ReadsAtPlace
<1>1. ReaderInv /\ [ReaderNext \/ WriterNext]_fileVars =>
        [got' # got /\ got' # <<>> => Place' = Place /\ got' = Bytes(Place, Len(got'))]_fileVars
  <2> SUFFICES ASSUME ReaderInv, ReaderNext \/ WriterNext, got' # got, got' # <<>>
               PROVE Place' = Place /\ got' = Bytes(Place, Len(got'))
    BY DEF fileVars, readerVars
  <2>1. \E size \in 0 .. Capacity : ReadBuffered(size) \/ ReadFetching(size)
    BY DEF ReaderNext, WriterNext, Printf, Write, Flush, ReadNothing, Skip, Unread, Scanf, Scan,
         ScanBlank, ScanNumber, ScanString, ScanReturns, readerVars
  <2>2. PICK size \in 0 .. Capacity : ReadBuffered(size) \/ ReadFetching(size)
    BY <2>1
  <2>3. pos \in Nat /\ fetched \in Nat /\ fetched >= pos /\ read_ptr \in 0 .. pos /\ Capacity \in Nat
    BY FileBufferAssumption DEF ReaderInv
  <2>4. CASE ReadBuffered(size)
    <3>1. got' = Copied(size, read_ptr) /\ UNCHANGED <<fetched, pos, read_ptr>> /\ size < pos - read_ptr
      BY <2>4 DEF ReadBuffered
    <3>2. \A i \in 1 .. size : data[read_ptr + i] = Place + i
      <4> SUFFICES ASSUME NEW i \in 1 .. size PROVE data[read_ptr + i] = Place + i
        OBVIOUS
      <4>1. read_ptr + i \in 1 .. pos
        BY <2>3, <3>1
      <4>2. data[read_ptr + i] = fetched - pos + (read_ptr + i)
        BY <4>1 DEF ReaderInv
      <4> QED BY <2>3, <4>2 DEF Place
    <3>3. Len(got') = size
      BY <3>1 DEF Copied
    <3> QED BY <3>1, <3>2, <3>3 DEF Copied, Bytes, Place
  <2>5. CASE ReadFetching(size)
    <3> DEFINE rest == pos - read_ptr
               n == Fetched(Capacity - rest)
               moved == Copied(rest, read_ptr) \o Bytes(fetched, n)
    <3>1. pos = Capacity /\ rest \in Nat /\ Capacity - rest = read_ptr
      BY <2>3, <2>5 DEF ReadFetching
    <3>2. fetched \in 0 .. FileLength /\ Capacity - rest \in Nat
      BY <2>3, <3>1, FileBufferAssumption DEF ReaderInv
    <3>3. n \in 0 .. read_ptr /\ n <= FileLength - fetched
      <4> HIDE DEF rest
      <4>1. Fetched(Capacity - rest) \in 0 .. Capacity - rest /\ Fetched(Capacity - rest) <= FileLength - fetched
        BY <3>2, FetchedRange
      <4> QED BY <3>1, <4>1
    <3>4. moved \in Seq(Nat) /\ Len(moved) = rest + n /\ \A i \in 1 .. rest + n : moved[i] = fetched - rest + i
      BY <3>1, <3>3, MovedFollowsFile
    <3>5. pos' = rest + n /\ fetched' = fetched + n /\ read_ptr' = 0
          /\ got' = SubSeq(moved, 1, size) /\ size < rest + n
      BY <2>5 DEF ReadFetching
    <3> HIDE DEF n, moved
    <3>6. Place' = fetched - rest /\ Place = fetched - rest
      BY <2>3, <3>3, <3>5 DEF Place
    <3>7. got' = [i \in 1 .. size |-> moved[i]] /\ Len(got') = size
      BY <3>1, <3>3, <3>4, <3>5
    <3>8. \A i \in 1 .. size : moved[i] = fetched - rest + i
      BY <3>1, <3>3, <3>4, <3>5
    <3> HIDE DEF rest
    <3> QED BY <3>6, <3>7, <3>8 DEF Bytes
  <2> QED BY <2>2, <2>4, <2>5
<1> QED BY <1>1, ReaderFollowsFile, PTL DEF FileSpec, ReadsAtPlace

-----------------------------------------------------------------------------
(* The semaphore on Windows.                                               *)

Win32SemSpec == Win32SemInit /\ [][Win32SemNext]_win32SemVars

\* A unit is free only when nobody is inside, and who is inside is alone.
UnitWithOne ==
  /\ count \in {0, 1}
  /\ place \in [Users -> {"absent", "idle", "waiting", "inside"}]
  /\ count = 1 => Inside = {}
  /\ \A p, q \in Inside : p = q

\* The count of the object never exceeds what nobody holds (semaphore.hpp:23-71).
LEMMA OneUnit == Win32SemSpec => []UnitWithOne
<1>1. Win32SemInit => UnitWithOne
  BY DEF Win32SemInit, UnitWithOne, Inside
<1>2. UnitWithOne /\ [Win32SemNext]_win32SemVars => UnitWithOne'
  <2> SUFFICES ASSUME UnitWithOne, [Win32SemNext]_win32SemVars PROVE UnitWithOne'
    OBVIOUS
  <2>1. CASE UNCHANGED win32SemVars
    BY <2>1 DEF win32SemVars, UnitWithOne, Inside
  <2>2. ASSUME NEW p \in Users, CreateSemaphore(p) PROVE UnitWithOne'
    BY <2>2 DEF CreateSemaphore, Move, UnitWithOne, Inside, Handles
  <2>3. ASSUME NEW p \in Users, LockSucceeds(p) PROVE UnitWithOne'
    BY <2>3 DEF LockSucceeds, Move, UnitWithOne, Inside
  <2>4. ASSUME NEW p \in Users, LockWaits(p) PROVE UnitWithOne'
    BY <2>4 DEF LockWaits, Move, UnitWithOne, Inside
  <2>5. ASSUME NEW p \in Users, Unlock(p) PROVE UnitWithOne'
    BY <2>5 DEF Unlock, Move, UnitWithOne, Inside
  <2>6. ASSUME NEW p \in Users, CloseHandle(p) PROVE UnitWithOne'
    BY <2>6 DEF CloseHandle, Move, UnitWithOne, Inside
  <2> QED BY <2>1, <2>2, <2>3, <2>4, <2>5, <2>6 DEF Win32SemNext
<1> QED BY <1>1, <1>2, PTL DEF Win32SemSpec

\* lock and unlock give the critical region to one process at a time, for any
\* processes that start, end and die in any order (semaphore.hpp:23-71).
THEOREM Win32SemaphoreIsRegion == Win32SemSpec => Win32ImplementsRegion
<1>1. Win32SemInit => Region!RegionInit
  BY DEF Win32SemInit, Region!RegionInit, Inside
<1>2. UnitWithOne /\ [Win32SemNext]_win32SemVars => [Region!RegionNext \/ FALSE']_<<Inside, FALSE>>
  <2> SUFFICES ASSUME UnitWithOne, [Win32SemNext]_win32SemVars
               PROVE Region!RegionNext \/ Inside' = Inside
    OBVIOUS
  <2>1. CASE UNCHANGED win32SemVars
    BY <2>1 DEF win32SemVars, Inside
  <2>2. ASSUME NEW p \in Users, LockSucceeds(p) PROVE Region!RegionNext
    <3>1. Inside = {} /\ Inside' = {p}
      BY <2>2 DEF LockSucceeds, Move, UnitWithOne, Inside
    <3> QED BY <3>1 DEF Region!RegionNext, Region!Enter
  <2>3. ASSUME NEW p \in Users, CreateSemaphore(p) \/ LockWaits(p)
        PROVE Inside' = Inside
    BY <2>3 DEF CreateSemaphore, LockWaits, Move, UnitWithOne, Inside
  <2>4. ASSUME NEW p \in Users, Unlock(p) \/ CloseHandle(p)
        PROVE Region!RegionNext \/ Inside' = Inside
    <3>1. Inside' = Inside \ {p}
      BY <2>4 DEF Unlock, CloseHandle, Move, UnitWithOne, Inside
    <3>2. CASE p \in Inside
      BY <3>1, <3>2 DEF Region!RegionNext, Region!LeaveRegion
    <3>3. CASE p \notin Inside
      BY <3>1, <3>3
    <3> QED BY <3>2, <3>3
  <2> QED BY <2>1, <2>2, <2>3, <2>4 DEF Win32SemNext
<1> QED BY <1>1, <1>2, OneUnit, PTL DEF Win32SemSpec, Win32ImplementsRegion, Region!RegionSpec

-----------------------------------------------------------------------------
(* The parsers of the system information.  What a text says is a recursive *)
(* function of its places.                                                 *)

\* The recursion behind Said has a solution on every sequence of tokens.
LEMMA SaidExists ==
  ASSUME NEW words, NEW s, Len(s) \in Nat
  PROVE  SaidUpTo(words, s) = [i \in 0 .. Len(s) |->
           IF i = 0 THEN <<>>
           ELSE IF EndsAt(Faced(words), s, i) THEN Append(SaidUpTo(words, s)[i - 1], s[i].value)
           ELSE SaidUpTo(words, s)[i - 1]]
<1> DEFINE More(q, i) == IF EndsAt(Faced(words), s, i) THEN Append(q, s[i].value) ELSE q
           Solves(k, g) == g = [i \in 0 .. k |-> IF i = 0 THEN <<>> ELSE More(g[i - 1], i)]
           P == {k \in Nat : \E g : Solves(k, g)}
<1> HIDE DEF More
<1>1. 0 \in P
  <2> DEFINE g == [i \in 0 .. 0 |-> <<>>]
  <2>1. Solves(0, g)
    OBVIOUS
  <2> QED
    BY <2>1
<1>2. ASSUME NEW k \in Nat, k \in P PROVE k + 1 \in P
  <2>1. PICK f : Solves(k, f)
    BY <1>2
  <2>2. f[0] = <<>> /\ \A i \in 0 .. k : i # 0 => f[i] = More(f[i - 1], i)
    <3>1. \A i \in 0 .. k : i # 0 => f[i] = More(f[i - 1], i)
      BY <2>1, Zenon
    <3> QED
      BY <2>1, <3>1
  <2> DEFINE g == [i \in 0 .. k + 1 |-> IF i = k + 1 THEN More(f[k], k + 1) ELSE f[i]]
             Value(i) == IF i = 0 THEN <<>> ELSE More(g[i - 1], i)
  <2>4. g[k + 1] = More(f[k], k + 1) /\ \A i \in 0 .. k : g[i] = f[i]
    OBVIOUS
  <2>5. ASSUME NEW i \in 0 .. k + 1 PROVE g[i] = Value(i)
    <3> HIDE DEF g
    <3>1. CASE i = k + 1
      <4>1. i - 1 = k /\ k \in 0 .. k /\ i # 0
        BY <3>1
      <4>2. g[i - 1] = f[k]
        BY <2>4, <4>1, Zenon
      <4> QED
        BY <2>4, <3>1, <4>1, <4>2, Zenon
    <3>2. CASE i \in 1 .. k
      <4>1. i \in 0 .. k /\ i - 1 \in 0 .. k /\ i # 0
        BY <3>2
      <4>2. g[i] = f[i] /\ g[i - 1] = f[i - 1]
        BY <2>4, <4>1, Zenon
      <4> QED
        BY <2>2, <4>1, <4>2, Zenon
    <3>3. CASE i = 0
      <4>1. 0 \in 0 .. k
        OBVIOUS
      <4> QED
        BY <2>2, <2>4, <3>3, <4>1, Zenon
    <3> QED
      BY <3>1, <3>2, <3>3
  <2>3. Solves(k + 1, g)
    <3>1. g = [i \in 0 .. k + 1 |-> g[i]]
      OBVIOUS
    <3> HIDE DEF g
    <3> QED
      BY <2>5, <3>1, Zenon
  <2> HIDE DEF g, Solves
  <2> QED
    BY <2>3
<1> HIDE DEF P
<1>3. Nat \subseteq P
  BY <1>1, <1>2, NatSteps
<1>4. \E g : Solves(Len(s), g)
  BY <1>3 DEF P
<1> QED
  BY <1>4 DEF SaidUpTo, More

\* Its values, one token after the other.
LEMMA SaidValues ==
  ASSUME NEW words, NEW s, Len(s) \in Nat
  PROVE  /\ SaidUpTo(words, s)[0] = <<>>
         /\ \A k \in Nat : k + 1 <= Len(s) =>
              SaidUpTo(words, s)[k + 1] =
                IF EndsAt(Faced(words), s, k + 1)
                THEN Append(SaidUpTo(words, s)[k], s[k + 1].value) ELSE SaidUpTo(words, s)[k]
<1> DEFINE N == SaidUpTo(words, s)
           More(q, i) == IF EndsAt(Faced(words), s, i) THEN Append(q, s[i].value) ELSE q
<1>1. N = [i \in 0 .. Len(s) |-> IF i = 0 THEN <<>> ELSE More(N[i - 1], i)]
  BY SaidExists
<1> HIDE DEF N, More
<1>2. N[0] = <<>>
  BY <1>1
<1>3. ASSUME NEW k \in Nat, k + 1 <= Len(s) PROVE N[k + 1] = More(N[k], k + 1)
  <2>1. \A i \in 0 .. Len(s) : i # 0 => N[i] = More(N[i - 1], i)
    BY <1>1, Zenon
  <2>2. PICK i \in 0 .. Len(s) : i = k + 1 /\ i # 0 /\ i - 1 = k
    BY <1>3
  <2>3. N[i] = More(N[i - 1], i)
    BY <2>1, <2>2, Zenon
  <2> QED
    BY <2>2, <2>3, Zenon
<1> QED
  BY <1>2, <1>3 DEF N, More

\* They are numbers.
LEMMA SaidType ==
  ASSUME NEW words, NEW s \in Seq(Tokens), NEW p \in 0 .. Len(s)
  PROVE  SaidUpTo(words, s)[p] \in Seq(Nat)
<1> DEFINE P == {k \in Nat : k <= Len(s) => SaidUpTo(words, s)[k] \in Seq(Nat)}
<1>n. Len(s) \in Nat
  OBVIOUS
<1>1. 0 \in P
  <2>1. SaidUpTo(words, s)[0] = <<>>
    BY <1>n, SaidValues, Zenon
  <2>2. <<>> \in Seq(Nat) /\ 0 \in Nat
    OBVIOUS
  <2> QED
    BY <2>1, <2>2, Zenon
<1>2. ASSUME NEW k \in Nat, k \in P PROVE k + 1 \in P
  <2> SUFFICES ASSUME k + 1 <= Len(s) PROVE SaidUpTo(words, s)[k + 1] \in Seq(Nat)
    OBVIOUS
  <2>1. SaidUpTo(words, s)[k + 1] =
          IF EndsAt(Faced(words), s, k + 1)
          THEN Append(SaidUpTo(words, s)[k], s[k + 1].value) ELSE SaidUpTo(words, s)[k]
    BY <1>n, SaidValues, Zenon
  <2>2. SaidUpTo(words, s)[k] \in Seq(Nat) /\ s[k + 1] \in Tokens
    BY <1>2
  <2>3. s[k + 1].value \in Nat
    BY <2>2 DEF Tokens
  <2>4. Append(SaidUpTo(words, s)[k], s[k + 1].value) \in Seq(Nat)
    BY <2>2, <2>3
  <2> QED
    BY <2>1, <2>2, <2>4, Zenon
<1>3. Nat \subseteq P
  <2> HIDE DEF P
  <2> QED
    BY <1>1, <1>2, NatSteps
<1> QED
  BY <1>3

\* Where no line ends, nothing is said.
LEMMA SaidNothing ==
  ASSUME NEW words, NEW s, Len(s) \in Nat, NEW p \in Nat, NEW q \in Nat, p <= q, q <= Len(s),
         \A i \in p + 1 .. q : ~EndsAt(Faced(words), s, i)
  PROVE  SaidUpTo(words, s)[q] = SaidUpTo(words, s)[p]
<1> DEFINE P == {k \in Nat : p + k <= q => SaidUpTo(words, s)[p + k] = SaidUpTo(words, s)[p]}
<1>1. 0 \in P
  OBVIOUS
<1>2. ASSUME NEW k \in Nat, k \in P PROVE k + 1 \in P
  <2> SUFFICES ASSUME p + (k + 1) <= q
               PROVE SaidUpTo(words, s)[p + (k + 1)] = SaidUpTo(words, s)[p]
    OBVIOUS
  <2>1. p + k \in Nat /\ p + (k + 1) = (p + k) + 1 /\ (p + k) + 1 <= Len(s) /\ (p + k) + 1 \in p + 1 .. q
        /\ p + k <= q
    OBVIOUS
  <2>2. SaidUpTo(words, s)[(p + k) + 1] = SaidUpTo(words, s)[p + k]
    BY <2>1, SaidValues, Zenon
  <2>3. SaidUpTo(words, s)[p + k] = SaidUpTo(words, s)[p]
    BY <1>2, <2>1
  <2> QED
    BY <2>1, <2>2, <2>3, Zenon
<1>3. Nat \subseteq P
  <2> HIDE DEF P
  <2> QED
    BY <1>1, <1>2, NatSteps
<1>4. q - p \in Nat /\ p + (q - p) = q
  OBVIOUS
<1>5. q - p \in P
  BY <1>3, <1>4
<1> QED
  BY <1>4, <1>5

\* Texts that begin with the same tokens say the same there.
LEMMA SaidSame ==
  ASSUME NEW words, NEW s, NEW u, Len(s) \in Nat, Len(u) \in Nat,
         NEW n \in Nat, n <= Len(s), n <= Len(u), \A i \in 1 .. n : s[i] = u[i],
         \A i \in 1 .. n : EndsAt(Faced(words), s, i) <=> EndsAt(Faced(words), u, i)
  PROVE  SaidUpTo(words, s)[n] = SaidUpTo(words, u)[n]
<1> DEFINE P == {k \in Nat : k <= n => SaidUpTo(words, s)[k] = SaidUpTo(words, u)[k]}
<1>1. 0 \in P
  <2>1. SaidUpTo(words, s)[0] = <<>> /\ SaidUpTo(words, u)[0] = <<>> /\ 0 \in Nat
    BY SaidValues, Zenon
  <2> QED
    BY <2>1, Zenon
<1>2. ASSUME NEW k \in Nat, k \in P PROVE k + 1 \in P
  <2> SUFFICES ASSUME k + 1 <= n PROVE SaidUpTo(words, s)[k + 1] = SaidUpTo(words, u)[k + 1]
    OBVIOUS
  <2>1. k + 1 <= Len(s) /\ k + 1 <= Len(u) /\ k <= n /\ k + 1 \in 1 .. n
    OBVIOUS
  <2>2. SaidUpTo(words, s)[k] = SaidUpTo(words, u)[k]
    BY <1>2, <2>1
  <2>3. s[k + 1] = u[k + 1] /\ (EndsAt(Faced(words), s, k + 1) <=> EndsAt(Faced(words), u, k + 1))
    BY <2>1, Zenon
  <2>4. SaidUpTo(words, s)[k + 1] =
          IF EndsAt(Faced(words), s, k + 1)
          THEN Append(SaidUpTo(words, s)[k], s[k + 1].value) ELSE SaidUpTo(words, s)[k]
    BY <2>1, SaidValues, Zenon
  <2>5. SaidUpTo(words, u)[k + 1] =
          IF EndsAt(Faced(words), u, k + 1)
          THEN Append(SaidUpTo(words, u)[k], u[k + 1].value) ELSE SaidUpTo(words, u)[k]
    BY <2>1, SaidValues, Zenon
  <2> QED
    BY <2>2, <2>3, <2>4, <2>5, Zenon
<1>3. Nat \subseteq P
  <2> HIDE DEF P
  <2> QED
    BY <1>1, <1>2, NatSteps
<1> QED
  BY <1>3

\* The words of the lines that are looked for, of which only the first is cpu.
LineWords == {<<"cpu", "mhz">>, <<"cpu", "max", "mhz">>}

LEMMA FacedWords ==
  ASSUME NEW w \in LineWords
  PROVE  /\ Len(w) \in Nat /\ Len(w) > 1 /\ Len(Faced(w)) = Len(w) + 2
         /\ DOMAIN w = 1 .. Len(w) /\ DOMAIN Faced(w) = 1 .. Len(w) + 2
         /\ \A k \in 1 .. Len(w) : Faced(w)[k] = w[k]
         /\ Faced(w)[Len(w) + 1] = "colon" /\ Faced(w)[Len(w) + 2] = "number"
         /\ Faced(w)[1] = "cpu" /\ \A k \in 2 .. Len(w) + 2 : Faced(w)[k] # "cpu"
         /\ \A k \in 1 .. Len(w) + 2 : Faced(w)[k] \in TokenTypes
         /\ \A k \in 1 .. Len(w) : w[k] \in {"cpu", "max", "mhz"}
<1> DEFINE end == <<"colon", "number">>
           F == w \o end
<1>1. Len(end) = 2 /\ end[1] = "colon" /\ end[2] = "number" /\ end \in Seq(TokenTypes)
  BY DEF TokenTypes
<1>2. /\ w \in Seq(TokenTypes) /\ Len(w) \in {2, 3}
      /\ w[1] = "cpu" /\ \A k \in 2 .. Len(w) : w[k] # "cpu"
      /\ \A k \in 1 .. Len(w) : w[k] \in {"cpu", "max", "mhz"}
  <2>1. CASE w = <<"cpu", "mhz">>
    <3>1. w \in Seq(TokenTypes) /\ Len(w) = 2 /\ w[1] = "cpu" /\ w[2] = "mhz"
      BY <2>1 DEF TokenTypes
    <3> QED
      BY <3>1
  <2>2. CASE w = <<"cpu", "max", "mhz">>
    <3>1. w \in Seq(TokenTypes) /\ Len(w) = 3 /\ w[1] = "cpu" /\ w[2] = "max" /\ w[3] = "mhz"
      BY <2>2 DEF TokenTypes
    <3> QED
      BY <3>1
  <2> QED
    BY <2>1, <2>2 DEF LineWords
<1> HIDE DEF end
<1>3. /\ F \in Seq(TokenTypes) /\ Len(F) = Len(w) + 2
      /\ \A k \in 1 .. Len(w) : F[k] = w[k]
      /\ F[Len(w) + 1] = end[1] /\ F[Len(w) + 2] = end[2]
  <2>1. /\ F \in Seq(TokenTypes) /\ Len(F) = Len(w) + Len(end)
        /\ \A k \in 1 .. Len(w) + Len(end) : F[k] = IF k <= Len(w) THEN w[k] ELSE end[k - Len(w)]
    BY <1>1, <1>2, ConcatProperties, Zenon
  <2> HIDE DEF F
  <2> QED
    BY <1>1, <1>2, <2>1
<1> HIDE DEF F
<1>4. \A k \in 2 .. Len(w) + 2 : F[k] # "cpu"
  <2> SUFFICES ASSUME NEW k \in 2 .. Len(w) + 2 PROVE F[k] # "cpu"
    OBVIOUS
  <2>1. k \in 2 .. Len(w) \/ k = Len(w) + 1 \/ k = Len(w) + 2
    BY <1>2
  <2> QED
    BY <1>1, <1>2, <1>3, <2>1
<1>5. F = Faced(w)
  BY DEF F, end, Faced
<1>6. \A k \in 1 .. Len(w) + 2 : F[k] \in TokenTypes
  BY <1>2, <1>3
<1>7. DOMAIN w = 1 .. Len(w) /\ DOMAIN F = 1 .. Len(w) + 2
  BY <1>2, <1>3
<1>8. F[1] = "cpu"
  BY <1>2, <1>3
<1> QED
  BY <1>1, <1>2, <1>3, <1>4, <1>5, <1>6, <1>7, <1>8

\* No complete line that starts before a place goes beyond it.
Unbroken(w, s, p) == \A i \in 1 .. p - 1 : WordsAt(Faced(w), s, i) => i + Len(w) + 2 <= p

\* A step of the parser over n tokens, of which only the first can be cpu: the
\* line that starts at the first is said when the step is over all of it.
LEMMA StepOver ==
  ASSUME NEW w \in LineWords, NEW s \in Seq(Tokens), NEW p \in Nat, NEW n \in Nat,
         p >= 1, n >= 1, p + n <= Len(s) + 1, n <= Len(w) + 2, Unbroken(w, s, p),
         \A j \in p + 1 .. p + n - 1 : s[j].type # "cpu",
         WordsAt(Faced(w), s, p) <=> n = Len(w) + 2
  PROVE  /\ Unbroken(w, s, p + n)
         /\ SaidUpTo(w, s)[p + n - 1] =
              IF n = Len(w) + 2 THEN Append(SaidUpTo(w, s)[p - 1], s[p + n - 1].value)
              ELSE SaidUpTo(w, s)[p - 1]
<1> DEFINE F == Faced(w)
           L == Len(w) + 2
<1>1. Len(s) \in Nat /\ L \in Nat /\ L > 3 /\ Len(F) = L /\ 1 \in DOMAIN F /\ F[1] = "cpu"
  BY FacedWords
<1>2. ASSUME NEW i \in Nat, i >= 1, WordsAt(F, s, i) PROVE s[i].type = "cpu"
  <2>1. s[i + 1 - 1].type = "cpu"
    BY <1>1, <1>2 DEF WordsAt
  <2> QED
    BY <2>1
<1>3. ASSUME NEW i \in Nat, i >= 1, i < p + n, WordsAt(F, s, i)
      PROVE  i + L <= p \/ (i = p /\ n = L)
  <2>1. CASE i < p
    BY <1>3, <2>1 DEF Unbroken
  <2>2. CASE i = p
    BY <1>3, <2>2
  <2>3. CASE i > p
    <3>1. i \in p + 1 .. p + n - 1
      BY <1>3, <2>3
    <3> QED
      BY <1>2, <1>3, <3>1
  <2> QED
    BY <2>1, <2>2, <2>3
<1> HIDE DEF F, L
<1>4. Unbroken(w, s, p + n)
  <2> SUFFICES ASSUME NEW i \in 1 .. (p + n) - 1, WordsAt(F, s, i) PROVE i + L <= p + n
    BY <1>1 DEF Unbroken, F, L
  <2>1. i \in Nat /\ i >= 1 /\ i < p + n
    OBVIOUS
  <2> QED
    BY <1>1, <1>3, <2>1
<1>5. ASSUME NEW e \in p .. p + n - 1, EndsAt(F, s, e) PROVE n = L /\ e = p + n - 1
  <2>1. e \in Nat /\ e >= L /\ WordsAt(F, s, e - L + 1)
    BY <1>1, <1>5 DEF EndsAt
  <2>2. e - L + 1 \in Nat /\ e - L + 1 >= 1 /\ e - L + 1 < p + n
    BY <1>1, <2>1
  <2>3. (e - L + 1) + L <= p \/ (e - L + 1 = p /\ n = L)
    BY <1>3, <2>1, <2>2
  <2> QED
    BY <1>1, <2>1, <2>3
<1>6. CASE n # L
  <2>1. \A i \in (p - 1) + 1 .. p + n - 1 : ~EndsAt(F, s, i)
    BY <1>5, <1>6
  <2>2. p - 1 \in Nat /\ p + n - 1 \in Nat /\ p - 1 <= p + n - 1 /\ p + n - 1 <= Len(s)
    BY <1>1
  <2>3. SaidUpTo(w, s)[p + n - 1] = SaidUpTo(w, s)[p - 1]
    BY <1>1, <2>1, <2>2, SaidNothing DEF F
  <2> QED
    BY <1>4, <1>6, <2>3 DEF L
<1>7. CASE n = L
  <2> DEFINE q == p + n - 2
  <2>1. q \in Nat /\ p - 1 \in Nat /\ p - 1 <= q /\ q <= Len(s) /\ q + 1 = p + n - 1 /\ q + 1 <= Len(s)
    BY <1>1, <1>7
  <2>2. \A i \in (p - 1) + 1 .. q : ~EndsAt(F, s, i)
    BY <1>5, <2>1
  <2>3. EndsAt(F, s, q + 1)
    <3>1. (q + 1) - L + 1 = p /\ q + 1 >= L
      BY <1>1, <1>7
    <3> QED
      BY <1>1, <1>7, <3>1 DEF EndsAt, F, L
  <2> HIDE DEF q
  <2>4. SaidUpTo(w, s)[q] = SaidUpTo(w, s)[p - 1]
    BY <1>1, <2>1, <2>2, SaidNothing DEF F
  <2>5. SaidUpTo(w, s)[q + 1] = Append(SaidUpTo(w, s)[q], s[q + 1].value)
    BY <1>1, <2>1, <2>3, SaidValues DEF F
  <2> QED
    BY <1>4, <1>7, <2>1, <2>4, <2>5, Zenon DEF L
<1> QED
  BY <1>6, <1>7

-----------------------------------------------------------------------------
InfoSpec == InfoInit /\ [][InfoNext]_infoVars

InfoType ==
  /\ of \in {"cpuinfo", "lscpu", "meminfo"} /\ tokens \in Seq(Tokens) /\ text \in Nat
  /\ ptr \in 1 .. Len(tokens) + 1
  /\ is_parsing \in BOOLEAN /\ running \in BOOLEAN /\ skipped \in BOOLEAN

\* What TypeAt returns in the text, and behind it.
LEMMA TypeAtIs ==
  ASSUME InfoType, NEW k \in Nat, k >= 1
  PROVE  /\ k <= Len(tokens) => TypeAt(k) = tokens[k].type /\ TypeAt(k) \in TokenTypes
         /\ k > Len(tokens) => TypeAt(k) = "end"
<1>1. DOMAIN tokens = 1 .. Len(tokens) /\ Len(tokens) \in Nat
  BY DEF InfoType
<1>2. k <= Len(tokens) => tokens[k].type \in TokenTypes
  <2> SUFFICES ASSUME k <= Len(tokens) PROVE tokens[k].type \in TokenTypes
    OBVIOUS
  <2>1. tokens[k] \in Tokens
    BY <1>1 DEF InfoType
  <2> QED
    BY <2>1 DEF Tokens
<1> QED
  BY <1>1, <1>2 DEF TypeAt

\* Accepted returns the longest part of the pattern that stands at ptr.
LEMMA AcceptedIs ==
  ASSUME InfoType, NEW F, NEW L \in Nat, Len(F) = L, DOMAIN F = 1 .. L,
         \A k \in 1 .. L : F[k] \in TokenTypes
  PROVE  /\ Accepted(F) \in 0 .. L /\ ptr + Accepted(F) <= Len(tokens) + 1
         /\ \A k \in 1 .. Accepted(F) : tokens[ptr + k - 1].type = F[k]
         /\ Accepted(F) < L => TypeAt(ptr + Accepted(F)) # F[Accepted(F) + 1]
         /\ WordsAt(F, tokens, ptr) <=> Accepted(F) = L
<1> DEFINE S == {n \in 0 .. Len(F) : \A k \in 1 .. n : TypeAt(ptr + k - 1) = F[k]}
           n == Max(S)
<1>0. ptr \in Nat /\ ptr >= 1 /\ ptr <= Len(tokens) + 1 /\ Len(tokens) \in Nat
  BY DEF InfoType
<1>1. S \in SUBSET Nat /\ 0 \in S /\ \A x \in S : x <= L
  OBVIOUS
<1>2. n \in S /\ \A y \in S : y <= n
  <2> HIDE DEF S
  <2> QED
    BY <1>1, MaxOfNats
<1>3. n \in 0 .. L /\ \A k \in 1 .. n : TypeAt(ptr + k - 1) = F[k]
  BY <1>2
<1>4. ASSUME n < L PROVE TypeAt(ptr + n) # F[n + 1]
  <2> SUFFICES ASSUME TypeAt(ptr + n) = F[n + 1] PROVE FALSE
    OBVIOUS
  <2>1. \A k \in 1 .. n + 1 : TypeAt(ptr + k - 1) = F[k]
    <3> SUFFICES ASSUME NEW k \in 1 .. n + 1 PROVE TypeAt(ptr + k - 1) = F[k]
      OBVIOUS
    <3>1. k \in 1 .. n \/ k = n + 1
      BY <1>3
    <3>2. ptr + (n + 1) - 1 = ptr + n
      BY <1>0, <1>3
    <3> QED
      BY <1>3, <3>1, <3>2
  <2>2. n + 1 \in S /\ ~(n + 1 <= n)
    BY <1>3, <1>4, <2>1
  <2> HIDE DEF n, S
  <2> QED
    BY <1>2, <2>2
<1> HIDE DEF n, S
<1>5. ASSUME NEW k \in 1 .. n PROVE ptr + k - 1 <= Len(tokens) /\ tokens[ptr + k - 1].type = F[k]
  <2>1. ptr + k - 1 \in Nat /\ ptr + k - 1 >= 1
    BY <1>0, <1>3
  <2>2. TypeAt(ptr + k - 1) = F[k] /\ F[k] \in TokenTypes
    BY <1>3
  <2>3. F[k] # "end"
    BY <2>2 DEF TokenTypes
  <2>4. ~(ptr + k - 1 > Len(tokens))
    BY <2>1, <2>2, <2>3, TypeAtIs
  <2> QED
    BY <1>0, <2>1, <2>2, <2>4, TypeAtIs
<1>6. ptr + n <= Len(tokens) + 1
  <2>1. CASE n = 0
    BY <1>0, <2>1
  <2>2. CASE n # 0
    <3>1. n \in 1 .. n /\ n \in Nat
      BY <1>3, <2>2
    <3>2. ptr + n - 1 <= Len(tokens)
      BY <1>5, <3>1
    <3> QED
      BY <1>0, <3>1, <3>2
  <2> QED
    BY <2>1, <2>2
<1>7. ASSUME WordsAt(F, tokens, ptr) PROVE n = L
  <2> SUFFICES ASSUME n < L PROVE FALSE
    BY <1>3
  <2>1. n + 1 \in 1 .. L /\ ptr + (n + 1) - 1 = ptr + n /\ ptr + n \in Nat /\ ptr + n >= 1
    BY <1>0, <1>3
  <2>2. ptr + L - 1 <= Len(tokens) /\ tokens[ptr + (n + 1) - 1].type = F[n + 1]
    BY <1>7, <2>1 DEF WordsAt
  <2>3. ptr + n <= Len(tokens)
    BY <1>0, <1>3, <2>2
  <2>4. TypeAt(ptr + n) = tokens[ptr + n].type
    BY <2>1, <2>3, TypeAtIs
  <2> QED
    BY <1>4, <2>1, <2>2, <2>4
<1>8. ASSUME n = L PROVE WordsAt(F, tokens, ptr)
  <2>1. ptr + Len(F) - 1 <= Len(tokens)
    BY <1>0, <1>6, <1>8
  <2>2. \A k \in DOMAIN F : tokens[ptr + k - 1].type = F[k]
    BY <1>5, <1>8
  <2> QED
    BY <2>1, <2>2 DEF WordsAt
<1>9. n = Accepted(F)
  BY DEF n, S, Accepted
<1>10. \A k \in 1 .. n : tokens[ptr + k - 1].type = F[k]
  BY <1>5
<1>11. n < L => TypeAt(ptr + n) # F[n + 1]
  BY <1>4
<1>12. WordsAt(F, tokens, ptr) <=> n = L
  BY <1>7, <1>8
<1> HIDE DEF n
<1> QED
  BY <1>3, <1>6, <1>9, <1>10, <1>11, <1>12

\* The value behind a number is its own.
LEMMA ValueOfNumber ==
  ASSUME InfoType, NEW k \in 1 .. Len(tokens), tokens[k].type = "number"
  PROVE  ValuesAt(k) = {tokens[k].value}
<1> DEFINE S == {i \in DOMAIN tokens : i <= k /\ tokens[i].type = "number"}
<1>1. k \in S /\ S \in SUBSET Nat /\ k \in Nat /\ \A x \in S : x <= k
  BY DEF InfoType
<1> HIDE DEF S
<1>2. Max(S) \in S /\ \A y \in S : y <= Max(S)
  BY <1>1, MaxOfNats
<1>3. Max(S) = k
  <2> DEFINE m == Max(S)
  <2>1. m \in S /\ k <= m
    BY <1>1, <1>2
  <2> HIDE DEF m
  <2>2. m \in Nat /\ m <= k
    BY <1>1, <2>1
  <2>3. m = k
    BY <1>1, <2>1, <2>2
  <2> QED
    BY <2>3 DEF m
<1>4. S # {}
  BY <1>1
<1> QED
  BY <1>3, <1>4 DEF ValuesAt, S

LEMMA BetweenWordsAndAll ==
  ASSUME NEW n \in Nat, NEW l \in Nat, n <= l + 2, n \notin 0 .. l - 1, n # l + 2
  PROVE  n \in {l, l + 1}
OBVIOUS

\* A line is stepped over up to where it stops being one, and said when it is whole.
LEMMA LineStep ==
  ASSUME InfoType, NEW w \in LineWords, Unbroken(w, tokens, ptr), Line(w)
  PROVE  LET n == Accepted(Faced(w)) IN
         /\ n \in 1 .. Len(w) + 2 /\ ptr' = ptr + n /\ ptr' \in 1 .. Len(tokens) + 1
         /\ UNCHANGED <<of, tokens, text, running, skipped>>
         /\ is_parsing' \in BOOLEAN
         /\ ~is_parsing' => n \in {Len(w), Len(w) + 1}
         /\ n \in {Len(w), Len(w) + 1} =>
              WordsAt(w, tokens, ptr) /\ ~WordsAt(Faced(w), tokens, ptr) /\ TypeAt(ptr') # Faced(w)[n + 1]
         /\ n > Len(w) => tokens[ptr + Len(w)].type = "colon"
         /\ n = Len(w) + 2 => tokens[ptr' - 1].type = "number"
         /\ Unbroken(w, tokens, ptr')
         /\ SaidUpTo(w, tokens)[ptr' - 1] =
              IF n = Len(w) + 2 THEN Append(SaidUpTo(w, tokens)[ptr - 1], tokens[ptr' - 1].value)
              ELSE SaidUpTo(w, tokens)[ptr - 1]
<1> DEFINE F == Faced(w)
           n == Accepted(F)
           L == Len(w) + 2
<1>0. ptr \in Nat /\ ptr >= 1 /\ ptr <= Len(tokens) + 1 /\ Len(tokens) \in Nat /\ tokens \in Seq(Tokens)
  BY DEF InfoType
<1>1. /\ Len(w) \in Nat /\ Len(w) > 1 /\ L \in Nat /\ Len(F) = L
      /\ DOMAIN w = 1 .. Len(w) /\ DOMAIN F = 1 .. L
      /\ \A k \in 1 .. Len(w) : F[k] = w[k]
      /\ F[Len(w) + 1] = "colon" /\ F[Len(w) + 2] = "number"
      /\ F[1] = "cpu" /\ \A k \in 2 .. L : F[k] # "cpu"
      /\ \A k \in 1 .. L : F[k] \in TokenTypes
  BY FacedWords
<1> HIDE DEF F, n, L
<1>2. /\ n \in 0 .. L /\ ptr + n <= Len(tokens) + 1
      /\ \A k \in 1 .. n : tokens[ptr + k - 1].type = F[k]
      /\ n < L => TypeAt(ptr + n) # F[n + 1]
      /\ WordsAt(F, tokens, ptr) <=> n = L
  BY <1>1, AcceptedIs DEF n
<1>3. TypeAt(ptr) = "cpu" /\ ptr' = ptr + n /\ is_parsing' = Expected(w)
      /\ UNCHANGED <<of, tokens, text, running, skipped>>
  BY DEF Line, Is, GoTo, n, F
<1>4. n >= 1
  <2> SUFFICES ASSUME n = 0 PROVE FALSE
    BY <1>2
  <2>1. TypeAt(ptr + 0) # F[1] /\ ptr + 0 = ptr
    BY <1>0, <1>1, <1>2 DEF L
  <2> QED
    BY <1>1, <1>3, <2>1
<1>5. ptr' \in 1 .. Len(tokens) + 1 /\ n \in Nat /\ n <= L
  BY <1>0, <1>2, <1>3
<1>6. is_parsing' \in BOOLEAN /\ (~is_parsing' => n \in {Len(w), Len(w) + 1})
  <2>1. is_parsing' = (n \in 0 .. Len(w) - 1 \cup {Len(w) + 2})
    BY <1>3 DEF Expected, n, F
  <2>2. is_parsing' \in BOOLEAN
    BY <2>1
  <2>3. n \notin 0 .. Len(w) - 1 /\ n # Len(w) + 2 => n \in {Len(w), Len(w) + 1}
    <3>1. n <= Len(w) + 2
      BY <1>5 DEF L
    <3>2. n \in Nat /\ Len(w) \in Nat
      BY <1>1, <1>5
    <3> QED
      BY <3>1, <3>2, BetweenWordsAndAll, Zenon
  <2>4. ~is_parsing' => n \notin 0 .. Len(w) - 1 /\ n # Len(w) + 2
    BY <2>1, Zenon
  <2> QED
    BY <2>2, <2>3, <2>4, Zenon
<1>7. ASSUME n \in {Len(w), Len(w) + 1}
      PROVE  WordsAt(w, tokens, ptr) /\ ~WordsAt(F, tokens, ptr) /\ TypeAt(ptr') # F[n + 1]
  <2>1. n < L /\ Len(w) <= n
    BY <1>1, <1>7 DEF L
  <2>2. ptr + Len(w) - 1 <= Len(tokens)
    BY <1>0, <1>1, <1>2, <1>5, <2>1
  <2>3. ASSUME NEW k \in DOMAIN w PROVE tokens[ptr + k - 1].type = w[k]
    <3>1. k \in 1 .. n /\ k \in 1 .. Len(w)
      BY <1>1, <1>5, <2>1
    <3> QED
      BY <1>1, <1>2, <3>1
  <2> QED
    BY <1>2, <1>3, <2>1, <2>2, <2>3 DEF WordsAt
<1>8. n > Len(w) => tokens[ptr + Len(w)].type = "colon"
  <2> SUFFICES ASSUME n > Len(w) PROVE tokens[ptr + Len(w)].type = "colon"
    OBVIOUS
  <2>1. Len(w) + 1 \in 1 .. n /\ ptr + (Len(w) + 1) - 1 = ptr + Len(w)
    BY <1>0, <1>1, <1>5
  <2>2. tokens[ptr + (Len(w) + 1) - 1].type = F[Len(w) + 1]
    BY <1>2, <2>1
  <2> QED
    BY <1>1, <2>1, <2>2
<1>9. n = L => tokens[ptr' - 1].type = "number"
  <2> SUFFICES ASSUME n = L PROVE tokens[ptr' - 1].type = "number"
    OBVIOUS
  <2>1. L \in 1 .. n
    BY <1>1, <1>4
  <2>2. tokens[ptr + L - 1].type = F[L]
    BY <1>2, <2>1
  <2>3. F[L] = "number"
    BY <1>1 DEF L
  <2>4. ptr' - 1 = ptr + L - 1
    BY <1>0, <1>1, <1>3
  <2> QED
    BY <2>2, <2>3, <2>4, Zenon
<1>10. \A j \in ptr + 1 .. ptr + n - 1 : tokens[j].type # "cpu"
  <2> SUFFICES ASSUME NEW j \in ptr + 1 .. ptr + n - 1 PROVE tokens[j].type # "cpu"
    OBVIOUS
  <2> DEFINE k == j - ptr + 1
  <2>1. k \in 1 .. n /\ k \in 2 .. L /\ ptr + k - 1 = j
    BY <1>0, <1>1, <1>5
  <2> HIDE DEF k
  <2>2. tokens[ptr + k - 1].type = F[k] /\ F[k] # "cpu"
    BY <1>1, <1>2, <2>1
  <2> QED
    BY <2>1, <2>2
<1>11. /\ Unbroken(w, tokens, ptr + n)
       /\ SaidUpTo(w, tokens)[ptr + n - 1] =
            IF n = Len(w) + 2 THEN Append(SaidUpTo(w, tokens)[ptr - 1], tokens[ptr + n - 1].value)
            ELSE SaidUpTo(w, tokens)[ptr - 1]
  BY <1>0, <1>2, <1>4, <1>5, <1>10, StepOver DEF F, L
<1>12. n \in 1 .. L
  BY <1>2, <1>4
<1>13. n = L <=> n = Len(w) + 2
  BY DEF L
<1>14. /\ n \in 1 .. Len(w) + 2 /\ ptr' = ptr + n /\ ptr' \in 1 .. Len(tokens) + 1
       /\ Unbroken(w, tokens, ptr')
       /\ SaidUpTo(w, tokens)[ptr' - 1] =
            IF n = Len(w) + 2 THEN Append(SaidUpTo(w, tokens)[ptr - 1], tokens[ptr' - 1].value)
            ELSE SaidUpTo(w, tokens)[ptr - 1]
  <2>1. n \in 1 .. Len(w) + 2
    BY <1>12 DEF L
  <2>2. Unbroken(w, tokens, ptr')
    BY <1>3, <1>11, Zenon
  <2>3. SaidUpTo(w, tokens)[ptr' - 1] = SaidUpTo(w, tokens)[ptr + n - 1]
        /\ tokens[ptr' - 1] = tokens[ptr + n - 1]
    <3>1. ptr' - 1 = ptr + n - 1
      BY <1>0, <1>3, <1>5
    <3> QED
      BY <3>1, Zenon
  <2> QED
    BY <1>3, <1>5, <1>11, <2>1, <2>2, <2>3, Zenon
<1> QED
  BY <1>3, <1>6, <1>7, <1>8, <1>9, <1>13, <1>14, Zenon DEF n, F

-----------------------------------------------------------------------------
\* What the parsers have found is what the text says up to where they are, and no
\* line is broken there; when one of them stops in a line, the text ends with it.

CpuMhz == <<"cpu", "mhz">>
MaxMhz == <<"cpu", "max", "mhz">>

\* Behind the words stand a colon and a number, as far as the text goes.
Regular(w, s) ==
  \A i \in 1 .. Len(s) : WordsAt(w, s, i) =>
    /\ i + Len(w) <= Len(s) => s[i + Len(w)].type = "colon"
    /\ i + Len(w) + 1 <= Len(s) => s[i + Len(w) + 1].type = "number"

CpuFound ==
  of = "cpuinfo" =>
    /\ Regular(CpuMhz, tokens) /\ Unbroken(CpuMhz, tokens, ptr)
    /\ current_mhz = SaidUpTo(CpuMhz, tokens)[ptr - 1]
    /\ ~is_parsing => ptr = Len(tokens) + 1
    /\ WholeLines(CpuMhz, tokens) => is_parsing

MaxFound ==
  of = "lscpu" /\ ~skipped =>
    /\ WholeLines(MaxMhz, tokens) /\ Unbroken(MaxMhz, tokens, ptr)
    /\ SaidUpTo(MaxMhz, tokens)[ptr - 1] # <<>> => figure = Last(SaidUpTo(MaxMhz, tokens)[ptr - 1])
    /\ is_parsing

OnceAvailable(s) ==
  \A i, j \in DOMAIN s : s[i].type = "MemAvailable" /\ s[j].type = "MemAvailable" => i = j

MemFound ==
  of = "meminfo" =>
    /\ OnceAvailable(tokens)
    /\ is_parsing => ptr = 1
    /\ ~is_parsing /\ Said(<<"MemAvailable">>, tokens) # <<>> =>
         figure = Last(Said(<<"MemAvailable">>, tokens))

InfoInv ==
  /\ InfoType
  /\ text = Len(tokens) => CpuFound /\ MaxFound /\ MemFound
  /\ skipped => of = "lscpu" /\ figure = 0 /\ ~is_parsing
  /\ ~running /\ is_parsing => ptr = Len(tokens) + 1

\* What is left of a token is none, or one that is neither a word nor a colon.
LEMMA CutToken ==
  ASSUME NEW x \in Tokens, NEW cut \in CutIn(x)
  PROVE  /\ cut \in Seq(Tokens) /\ Len(cut) \in {0, 1}
         /\ Len(cut) = 1 => x.type # "colon" /\ cut[1].type \in {"number", "id"}
         /\ Len(cut) = 1 /\ x.type = "number" => cut[1].type = "number"
         /\ Len(cut) = 1 /\ cut[1].type = "number" => x.type = "number" /\ cut[1].value = x.value \div 10
<1>1. x.type \in TokenTypes /\ x.value \in Nat
  BY DEF Tokens
<1>2. \A v \in Nat : /\ Token("number", v) \in Tokens /\ Token("number", v).type = "number"
                    /\ Token("number", v).value = v
  BY DEF Tokens, Token, TokenTypes
<1>3. Token("id", 0) \in Tokens /\ Token("id", 0).type = "id"
  BY DEF Tokens, Token, TokenTypes
<1>4. x.value \div 10 \in Nat
  BY <1>1
<1>n. <<>> \in Seq(Tokens) /\ Len(<<>>) = 0
  OBVIOUS
<1>o. ASSUME NEW y \in Tokens PROVE <<y>> \in Seq(Tokens) /\ Len(<<y>>) = 1 /\ <<y>>[1] = y
  OBVIOUS
<1>5. CASE x.type = "number"
  <2> DEFINE y == Token("number", x.value \div 10)
  <2>1. cut \in {<<>>, <<Token("number", x.value \div 10)>>}
    BY <1>5 DEF CutIn
  <2>2. y \in Tokens /\ y.type = "number" /\ y.value = x.value \div 10
    BY <1>2, <1>4
  <2> HIDE DEF y
  <2>3. cut = <<>> \/ cut = <<y>>
    BY <2>1 DEF y
  <2>4. <<y>> \in Seq(Tokens) /\ Len(<<y>>) = 1 /\ <<y>>[1] = y
    BY <1>o, <2>2
  <2>5. CASE cut = <<y>>
    BY <1>5, <2>2, <2>4, <2>5
  <2>6. CASE cut = <<>>
    BY <1>n, <2>6
  <2> QED
    BY <2>3, <2>5, <2>6
<1>6. CASE x.type = "colon"
  <2>1. cut = <<>>
    BY <1>6 DEF CutIn
  <2> QED
    BY <2>1
<1>7. CASE x.type # "number" /\ x.type # "colon"
  <2> DEFINE y == Token("id", 0)
  <2>1. cut \in {<<>>, <<Token("id", 0)>>}
    BY <1>7 DEF CutIn
  <2> HIDE DEF y
  <2>3. cut = <<>> \/ cut = <<y>>
    BY <2>1 DEF y
  <2>2. y \in Tokens /\ y.type = "id"
    BY <1>3 DEF y
  <2>4. <<y>> \in Seq(Tokens) /\ Len(<<y>>) = 1 /\ <<y>>[1] = y
    BY <1>o, <2>2
  <2>5. CASE cut = <<y>>
    BY <1>7, <2>2, <2>4, <2>5
  <2>6. CASE cut = <<>>
    BY <1>n, <2>6
  <2> QED
    BY <2>3, <2>5, <2>6
<1> QED
  BY <1>5, <1>6, <1>7

\* Whole lines are regular, and stay so when they are cut.
LEMMA WholeRegular ==
  ASSUME NEW s \in Seq(Tokens), WholeLines(CpuMhz, s)
  PROVE  Regular(CpuMhz, s)
<1> SUFFICES ASSUME NEW i \in 1 .. Len(s), WordsAt(CpuMhz, s, i)
             PROVE  s[i + Len(CpuMhz)].type = "colon" /\ s[i + Len(CpuMhz) + 1].type = "number"
  BY DEF Regular
<1>1. WordsAt(Faced(CpuMhz), s, i)
  BY DEF WholeLines
<1>2. CpuMhz \in LineWords /\ Len(CpuMhz) = 2
  BY DEF CpuMhz, LineWords
<1>3. /\ DOMAIN Faced(CpuMhz) = 1 .. 4
      /\ Faced(CpuMhz)[3] = "colon" /\ Faced(CpuMhz)[4] = "number"
  <2>1. /\ DOMAIN Faced(CpuMhz) = 1 .. Len(CpuMhz) + 2
        /\ Faced(CpuMhz)[Len(CpuMhz) + 1] = "colon" /\ Faced(CpuMhz)[Len(CpuMhz) + 2] = "number"
    BY <1>2, FacedWords, Zenon
  <2>2. 2 + 1 = 3 /\ 2 + 2 = 4
    OBVIOUS
  <2> QED
    BY <1>2, <2>1, <2>2, Zenon
<1>4. s[i + 3 - 1].type = "colon" /\ s[i + 4 - 1].type = "number"
  BY <1>1, <1>3 DEF WordsAt
<1> QED
  BY <1>2, <1>4

LEMMA BeforeOrCut ==
  ASSUME NEW n \in Nat, NEW l \in {0, 1}, NEW j \in Nat, j <= n + l
  PROVE  j <= n \/ (j = n + 1 /\ l = 1)
OBVIOUS

LEMMA CutRegular ==
  ASSUME NEW t \in Seq(Tokens), WholeLines(CpuMhz, t), NEW n \in 1 .. Len(t) - 1, NEW cut \in CutIn(t[n + 1])
  PROVE  SubSeq(t, 1, n) \o cut \in Seq(Tokens) /\ Regular(CpuMhz, SubSeq(t, 1, n) \o cut)
<1> DEFINE a == SubSeq(t, 1, n)
           s == a \o cut
<1>1. t[n + 1] \in Tokens /\ n \in Nat /\ Len(t) \in Nat
  OBVIOUS
<1>2. a \in Seq(Tokens) /\ Len(a) = n /\ \A i \in 1 .. n : a[i] = t[i]
  OBVIOUS
<1>3. /\ cut \in Seq(Tokens) /\ Len(cut) \in {0, 1}
      /\ Len(cut) = 1 => t[n + 1].type # "colon" /\ cut[1].type \in {"number", "id"}
      /\ Len(cut) = 1 /\ t[n + 1].type = "number" => cut[1].type = "number"
  BY <1>1, CutToken
<1> HIDE DEF a
<1>4. /\ s \in Seq(Tokens) /\ Len(s) = n + Len(cut) /\ \A i \in 1 .. n : s[i] = t[i]
      /\ Len(cut) = 1 => s[n + 1] = cut[1]
  <2>1. /\ s \in Seq(Tokens) /\ Len(s) = Len(a) + Len(cut)
        /\ \A i \in 1 .. Len(a) + Len(cut) : s[i] = IF i <= Len(a) THEN a[i] ELSE cut[i - Len(a)]
    BY <1>2, <1>3, ConcatProperties, Zenon
  <2> HIDE DEF s
  <2> QED
    BY <1>1, <1>2, <1>3, <2>1
<1> HIDE DEF s
<1>5. CpuMhz \in LineWords /\ Len(CpuMhz) = 2 /\ DOMAIN CpuMhz = 1 .. 2
      /\ \A k \in 1 .. 2 : CpuMhz[k] \in {"cpu", "mhz"}
  BY DEF CpuMhz, LineWords
<1>6. Regular(CpuMhz, t)
  BY WholeRegular
<1>7. ASSUME NEW i \in 1 .. Len(s), WordsAt(CpuMhz, s, i)
      PROVE  /\ i + Len(CpuMhz) <= Len(s) => s[i + Len(CpuMhz)].type = "colon"
             /\ i + Len(CpuMhz) + 1 <= Len(s) => s[i + Len(CpuMhz) + 1].type = "number"
  <2>1. i + 1 <= Len(s) /\ s[i + 1 - 1].type = CpuMhz[1] /\ s[i + 2 - 1].type = CpuMhz[2]
    BY <1>5, <1>7 DEF WordsAt
  <2>2. i \in Nat /\ i >= 1 /\ s[i].type = CpuMhz[1] /\ s[i + 1].type = CpuMhz[2]
        /\ s[i + 1].type \in {"cpu", "mhz"}
    BY <1>5, <2>1
  <2>3. i + 1 <= n
    <3> SUFFICES ASSUME i + 1 > n PROVE FALSE
      BY <1>1
    <3>1. Len(cut) = 1 /\ i + 1 = n + 1
      <4>1. i + 1 \in Nat /\ i + 1 <= n + Len(cut) /\ ~(i + 1 <= n)
        BY <1>1, <1>4, <2>1, <2>2
      <4> QED
        BY <1>1, <1>3, <4>1, BeforeOrCut, Zenon
    <3>2. cut[1].type \in {"cpu", "mhz"}
      BY <1>4, <2>2, <3>1
    <3> QED
      BY <1>3, <3>1, <3>2
  <2>4. t[i] = s[i] /\ t[i + 1] = s[i + 1] /\ i \in 1 .. Len(t)
    BY <1>1, <1>4, <2>2, <2>3
  <2>5. WordsAt(CpuMhz, t, i)
    <3>1. i + 2 - 1 <= Len(t)
      BY <1>1, <2>2, <2>3
    <3>2. ASSUME NEW k \in 1 .. 2 PROVE t[i + k - 1].type = CpuMhz[k]
      BY <2>2, <2>4
    <3> QED
      BY <1>5, <3>1, <3>2 DEF WordsAt
  <2>6. /\ i + 2 <= Len(t) => t[i + 2].type = "colon"
        /\ i + 3 <= Len(t) => t[i + 3].type = "number"
    <3>1. i + 2 + 1 = i + 3
      BY <2>2
    <3> QED
      BY <1>5, <1>6, <2>4, <2>5, <3>1 DEF Regular
  <2>7. ASSUME i + 2 <= Len(s) PROVE s[i + 2].type = "colon" /\ i + 2 <= n
    <3>1. i + 2 <= n \/ (i + 2 = n + 1 /\ Len(cut) = 1)
      <4>1. i + 2 \in Nat /\ i + 2 <= n + Len(cut)
        BY <1>4, <2>2, <2>7
      <4> QED
        BY <1>1, <1>3, <4>1, BeforeOrCut, Zenon
    <3>2. CASE i + 2 <= n
      <4>1. s[i + 2] = t[i + 2] /\ i + 2 <= Len(t)
        BY <1>1, <1>4, <2>2, <3>2
      <4> QED
        BY <2>6, <3>2, <4>1
    <3>3. CASE i + 2 = n + 1 /\ Len(cut) = 1
      <4>1. i + 2 <= Len(t)
        BY <1>1, <3>3
      <4>2. t[n + 1].type = "colon"
        BY <2>6, <3>3, <4>1
      <4> QED
        BY <1>3, <3>3, <4>2
    <3> QED
      BY <3>1, <3>2, <3>3
  <2>8. ASSUME i + 3 <= Len(s) PROVE s[i + 3].type = "number"
    <3>1. i + 3 <= n \/ (i + 3 = n + 1 /\ Len(cut) = 1)
      <4>1. i + 3 \in Nat /\ i + 3 <= n + Len(cut)
        BY <1>4, <2>2, <2>8
      <4> QED
        BY <1>1, <1>3, <4>1, BeforeOrCut, Zenon
    <3>2. CASE i + 3 <= n
      <4>1. s[i + 3] = t[i + 3] /\ i + 3 <= Len(t)
        BY <1>1, <1>4, <2>2, <3>2
      <4> QED
        BY <2>6, <4>1
    <3>3. CASE i + 3 = n + 1 /\ Len(cut) = 1
      <4>1. i + 3 <= Len(t)
        BY <1>1, <3>3
      <4>2. t[n + 1].type = "number"
        BY <2>6, <3>3, <4>1
      <4> QED
        BY <1>3, <1>4, <3>3, <4>2
    <3> QED
      BY <3>1, <3>2, <3>3
  <2>9. i + 2 + 1 = i + 3
    BY <2>2
  <2> QED
    BY <1>5, <2>7, <2>8, <2>9
<1>8. Regular(CpuMhz, s)
  BY <1>7 DEF Regular
<1> QED
  BY <1>4, <1>8 DEF s, a

\* The text that Start puts into the buffer.
LEMMA StartInv ==
  ASSUME InfoInv, Start PROVE InfoInv'
<1> USE SystemInfoAssumption
<1>0. of \in {"cpuinfo", "lscpu", "meminfo"} /\ is_parsing \in BOOLEAN
  BY DEF InfoInv, InfoType
<1>1. /\ ptr' = 1 /\ running' = TRUE /\ current_mhz' = <<>> /\ figure' = 0
      /\ is_parsing' = (of = "cpuinfo" => is_parsing) /\ skipped' = ~is_parsing'
  BY DEF Start, GoTo
<1>2. PICK t \in Texts :
        /\ of' = t.of /\ (of = "cpuinfo" <=> t.of = "lscpu")
        /\ \/ \E g \in Leftovers :
                tokens' = t.tokens \o g /\ text' = Len(t.tokens) /\ whole' = Len(t.tokens)
           \/ \E n \in 1 .. Len(t.tokens) - 1 : \E cut \in CutIn(t.tokens[n + 1]) :
                /\ t.of = "cpuinfo"
                /\ tokens' = SubSeq(t.tokens, 1, n) \o cut /\ text' = Len(tokens') /\ whole' = n
  BY DEF Start
<1>3. /\ t.of \in {"cpuinfo", "lscpu", "meminfo"} /\ t.tokens \in Seq(Tokens)
      /\ t.of = "cpuinfo" => WholeLines(CpuMhz, t.tokens)
      /\ t.of = "lscpu" => WholeLines(MaxMhz, t.tokens)
      /\ t.of = "meminfo" => OnceAvailable(t.tokens)
  BY DEF CpuMhz, MaxMhz, OnceAvailable
<1>4. /\ tokens' \in Seq(Tokens) /\ text' \in Nat
      /\ text' = Len(tokens') =>
           tokens' = t.tokens \/ (of' = "cpuinfo" /\ Regular(CpuMhz, tokens'))
  <2>1. ASSUME NEW g \in Leftovers, tokens' = t.tokens \o g, text' = Len(t.tokens)
        PROVE  tokens' \in Seq(Tokens) /\ text' \in Nat /\ (text' = Len(tokens') => tokens' = t.tokens)
    <3>1. g \in Seq(Tokens)
      OBVIOUS
    <3>2. tokens' \in Seq(Tokens) /\ Len(tokens') = Len(t.tokens) + Len(g)
      BY <1>3, <2>1, <3>1, ConcatProperties
    <3>3. text' \in Nat /\ Len(g) \in Nat
      BY <1>3, <2>1, <3>1
    <3>4. ASSUME Len(g) = 0 PROVE tokens' = t.tokens
      <4>1. g = <<>>
        BY <3>1, <3>4
      <4> QED
        BY <1>3, <2>1, <4>1
    <3> QED
      BY <2>1, <3>2, <3>3, <3>4
  <2>2. ASSUME NEW n \in 1 .. Len(t.tokens) - 1, NEW cut \in CutIn(t.tokens[n + 1]), t.of = "cpuinfo",
               tokens' = SubSeq(t.tokens, 1, n) \o cut, text' = Len(tokens')
        PROVE  tokens' \in Seq(Tokens) /\ text' \in Nat /\ Regular(CpuMhz, tokens')
    <3>1. tokens' \in Seq(Tokens) /\ Regular(CpuMhz, tokens')
      BY <1>3, <2>2, CutRegular
    <3> QED
      BY <2>2, <3>1
  <2> QED
    BY <1>2, <2>1, <2>2
<1>5. Len(tokens') \in Nat /\ 1 \in 1 .. Len(tokens') + 1 /\ 1 - 1 = 0
  BY <1>4
<1>6. \A w : Unbroken(w, tokens', 1)
  BY DEF Unbroken
<1>7. \A w : SaidUpTo(w, tokens')[0] = <<>>
  BY <1>5, SaidValues
<1>8. InfoType'
  BY <1>0, <1>1, <1>2, <1>3, <1>4, <1>5 DEF InfoType
<1>9. ASSUME text' = Len(tokens') PROVE CpuFound'
  <2> SUFFICES ASSUME t.of = "cpuinfo"
               PROVE  /\ Regular(CpuMhz, tokens') /\ Unbroken(CpuMhz, tokens', 1)
                      /\ current_mhz' = SaidUpTo(CpuMhz, tokens')[0] /\ is_parsing' = TRUE
    BY <1>1, <1>2, <1>5 DEF CpuFound
  <2>1. Regular(CpuMhz, tokens')
    BY <1>3, <1>4, <1>9, WholeRegular
  <2>2. is_parsing' = TRUE
    BY <1>1, <1>2
  <2> QED
    BY <1>1, <1>6, <1>7, <2>1, <2>2, Zenon
<1>10. ASSUME text' = Len(tokens') PROVE MaxFound'
  <2> SUFFICES ASSUME t.of = "lscpu", is_parsing'
               PROVE  /\ WholeLines(MaxMhz, tokens') /\ Unbroken(MaxMhz, tokens', 1)
                      /\ SaidUpTo(MaxMhz, tokens')[0] = <<>> /\ is_parsing'
    BY <1>1, <1>2, <1>5 DEF MaxFound
  <2>1. tokens' = t.tokens
    BY <1>2, <1>4, <1>10
  <2> QED
    BY <1>3, <1>6, <1>7, <2>1, Zenon
<1>11. ASSUME text' = Len(tokens') PROVE MemFound'
  <2> SUFFICES ASSUME t.of = "meminfo" PROVE OnceAvailable(tokens') /\ is_parsing' = TRUE
    BY <1>1, <1>2 DEF MemFound
  <2>1. tokens' = t.tokens
    BY <1>2, <1>4, <1>11
  <2> QED
    BY <1>1, <1>2, <1>3, <2>1
<1>12. skipped' => of' = "lscpu" /\ figure' = 0 /\ ~is_parsing'
  BY <1>1, <1>2
<1> QED
  BY <1>1, <1>8, <1>9, <1>10, <1>11, <1>12 DEF InfoInv

\* Wherever a line starts, it is stepped over inside of the text.
LEMMA LineType ==
  ASSUME InfoType, NEW w \in LineWords, Line(w)
  PROVE  InfoType'
<1> DEFINE n == Accepted(Faced(w))
           L == Len(w) + 2
<1>1. ptr' = ptr + n /\ UNCHANGED <<of, tokens, text, running, skipped>> /\ is_parsing' = Expected(w)
  BY DEF Line, GoTo
<1>2. is_parsing' \in BOOLEAN
  BY <1>1 DEF Expected
<1>3. /\ L \in Nat /\ Len(Faced(w)) = L /\ DOMAIN Faced(w) = 1 .. L
      /\ \A k \in 1 .. L : Faced(w)[k] \in TokenTypes
  BY FacedWords
<1> HIDE DEF L
<1>4. n \in 0 .. L /\ ptr + n <= Len(tokens) + 1
  BY <1>3, AcceptedIs
<1> HIDE DEF n
<1>5. ptr \in Nat /\ ptr >= 1 /\ Len(tokens) \in Nat
  BY DEF InfoType
<1>6. ptr' \in 1 .. Len(tokens) + 1
  BY <1>1, <1>3, <1>4, <1>5
<1> QED
  BY <1>1, <1>2, <1>6 DEF InfoType

\* parse_cpu_info on a line (parser_cpuinfo.cpp:126-137).
LEMMA CpuLineInv ==
  ASSUME InfoInv, CpuLine PROVE InfoInv'
<1> DEFINE n == Accepted(Faced(CpuMhz))
<1>0. InfoType /\ of = "cpuinfo" /\ Line(CpuMhz) /\ CpuMhz \in LineWords /\ Len(CpuMhz) = 2
  BY DEF InfoInv, CpuLine, CpuMhz, LineWords
<1>1. /\ running /\ is_parsing /\ ~skipped
      /\ UNCHANGED <<of, tokens, text, running, skipped, figure>>
  BY <1>0 DEF Line, InLoop, CpuLine, InfoInv
<1>2. /\ InfoType' /\ of' = "cpuinfo" /\ ~skipped' /\ running'
  BY <1>0, <1>1, LineType
<1>3. ASSUME text' = Len(tokens') PROVE CpuFound'
  <2>1. /\ Regular(CpuMhz, tokens) /\ Unbroken(CpuMhz, tokens, ptr)
        /\ current_mhz = SaidUpTo(CpuMhz, tokens)[ptr - 1]
    BY <1>0, <1>1, <1>3 DEF InfoInv, CpuFound
  <2>2. /\ n \in 1 .. 4 /\ ptr' = ptr + n /\ ptr' \in 1 .. Len(tokens) + 1
        /\ ~is_parsing' => n \in {2, 3}
        /\ n \in {2, 3} => WordsAt(CpuMhz, tokens, ptr) /\ TypeAt(ptr') # Faced(CpuMhz)[n + 1]
        /\ n \in {2, 3} => ~WordsAt(Faced(CpuMhz), tokens, ptr)
        /\ is_parsing' \in BOOLEAN
        /\ n = 4 => tokens[ptr' - 1].type = "number"
        /\ Unbroken(CpuMhz, tokens, ptr')
        /\ SaidUpTo(CpuMhz, tokens)[ptr' - 1] =
             IF n = 4 THEN Append(SaidUpTo(CpuMhz, tokens)[ptr - 1], tokens[ptr' - 1].value)
             ELSE SaidUpTo(CpuMhz, tokens)[ptr - 1]
    <3>1. Len(CpuMhz) + 1 = 3 /\ Len(CpuMhz) + 2 = 4
      BY <1>0
    <3> QED
      BY <1>0, <2>1, <3>1, LineStep DEF n
  <2>3. Faced(CpuMhz)[3] = "colon" /\ Faced(CpuMhz)[4] = "number"
    <3>1. Len(CpuMhz) + 1 = 3 /\ Len(CpuMhz) + 2 = 4
      BY <1>0
    <3>2. Faced(CpuMhz)[Len(CpuMhz) + 1] = "colon" /\ Faced(CpuMhz)[Len(CpuMhz) + 2] = "number"
      BY <1>0, FacedWords, Zenon
    <3> QED
      BY <3>1, <3>2, Zenon
  <2>p. ptr \in Nat /\ ptr >= 1 /\ Len(tokens) \in Nat
    BY <1>0 DEF InfoType
  <2>m. /\ n = 4 => current_mhz' \in {Append(current_mhz, v) : v \in ValuesAt(ptr + 3)}
        /\ n # 4 => current_mhz' \in {current_mhz}
    <3>1. Found(CpuMhz) <=> n = 4
      BY <1>0 DEF Found, n
    <3> QED
      BY <3>1 DEF CpuLine, CpuMhz
  <2> HIDE DEF n
  <2>4. ASSUME ~is_parsing' PROVE ptr' = Len(tokens) + 1
    <3> SUFFICES ASSUME ptr' <= Len(tokens) PROVE FALSE
      BY <2>2, <2>p
    <3>1. ptr \in 1 .. Len(tokens) /\ n \in {2, 3} /\ ptr' = ptr + n
      BY <2>2, <2>4, <2>p
    <3>2. TypeAt(ptr') = tokens[ptr'].type
      BY <1>0, <2>2, TypeAtIs
    <3>3. /\ ptr + 2 <= Len(tokens) => tokens[ptr + 2].type = "colon"
          /\ ptr + 3 <= Len(tokens) => tokens[ptr + 3].type = "number"
      <4>1. ptr + 2 + 1 = ptr + 3
        BY <2>p
      <4> QED
        BY <1>0, <2>1, <2>2, <3>1, <4>1 DEF Regular
    <3>4. CASE n = 2
      BY <2>2, <2>3, <3>1, <3>2, <3>3, <3>4
    <3>5. CASE n = 3
      BY <2>2, <2>3, <3>1, <3>2, <3>3, <3>5
    <3> QED
      BY <3>1, <3>4, <3>5
  <2>5. current_mhz' = SaidUpTo(CpuMhz, tokens)[ptr' - 1]
    <3>1. CASE n = 4
      <4>1. ptr + 3 \in 1 .. Len(tokens) /\ ptr' - 1 = ptr + 3
        BY <2>2, <2>p, <3>1
      <4>2. ValuesAt(ptr + 3) = {tokens[ptr + 3].value}
        BY <1>0, <2>2, <3>1, <4>1, ValueOfNumber
      <4>3. current_mhz' = Append(current_mhz, tokens[ptr + 3].value)
        BY <2>m, <3>1, <4>2
      <4> QED
        BY <2>1, <2>2, <3>1, <4>1, <4>3, Zenon
    <3>2. CASE n # 4
      BY <2>1, <2>2, <2>m, <3>2
    <3> QED
      BY <3>1, <3>2
  <2>6. ASSUME WholeLines(CpuMhz, tokens) PROVE is_parsing'
    <3> SUFFICES ASSUME n \in {2, 3} PROVE FALSE
      BY <2>2
    <3>1. ptr \in DOMAIN tokens
      BY <1>0, <2>2, <2>p DEF InfoType
    <3> QED
      BY <2>2, <2>6, <3>1 DEF WholeLines
  <2> QED
    BY <1>1, <2>1, <2>2, <2>4, <2>5, <2>6 DEF CpuFound
<1>4. MaxFound' /\ MemFound'
  BY <1>2 DEF MaxFound, MemFound
<1> QED
  BY <1>2, <1>3, <1>4 DEF InfoInv

\* parse_maximum_cpu_hz on a line (parser_cpuinfo.cpp:154-166).
LEMMA MaxLineInv ==
  ASSUME InfoInv, MaxLine PROVE InfoInv'
<1> DEFINE n == Accepted(Faced(MaxMhz))
<1>0. InfoType /\ of = "lscpu" /\ Line(MaxMhz) /\ MaxMhz \in LineWords /\ Len(MaxMhz) = 3
  BY DEF InfoInv, MaxLine, MaxMhz, LineWords
<1>1. /\ running /\ is_parsing /\ ~skipped
      /\ UNCHANGED <<of, tokens, text, running, skipped>>
  BY <1>0 DEF Line, InLoop, InfoInv
<1>2. /\ InfoType' /\ of' = "lscpu" /\ ~skipped' /\ running'
  BY <1>0, <1>1, LineType
<1>3. ASSUME text' = Len(tokens') PROVE MaxFound'
  <2>1. /\ WholeLines(MaxMhz, tokens) /\ Unbroken(MaxMhz, tokens, ptr)
        /\ SaidUpTo(MaxMhz, tokens)[ptr - 1] # <<>> => figure = Last(SaidUpTo(MaxMhz, tokens)[ptr - 1])
    BY <1>0, <1>1, <1>3 DEF InfoInv, MaxFound
  <2>2. /\ n \in 1 .. 5 /\ ptr' = ptr + n /\ ptr' \in 1 .. Len(tokens) + 1
        /\ is_parsing' \in BOOLEAN /\ (~is_parsing' => n \in {3, 4})
        /\ n \in {3, 4} => WordsAt(MaxMhz, tokens, ptr) /\ ~WordsAt(Faced(MaxMhz), tokens, ptr)
        /\ n = 5 => tokens[ptr' - 1].type = "number"
        /\ Unbroken(MaxMhz, tokens, ptr')
        /\ SaidUpTo(MaxMhz, tokens)[ptr' - 1] =
             IF n = 5 THEN Append(SaidUpTo(MaxMhz, tokens)[ptr - 1], tokens[ptr' - 1].value)
             ELSE SaidUpTo(MaxMhz, tokens)[ptr - 1]
    <3>1. Len(MaxMhz) + 1 = 4 /\ Len(MaxMhz) + 2 = 5
      BY <1>0
    <3> QED
      BY <1>0, <2>1, <3>1, LineStep DEF n
  <2>p. ptr \in Nat /\ ptr >= 1 /\ Len(tokens) \in Nat /\ tokens \in Seq(Tokens)
    BY <1>0 DEF InfoType
  <2>m. /\ n > 3 => figure' \in ValuesAt(ptr + 4)
        /\ ~(n > 3) => figure' \in {figure}
    BY DEF MaxLine, MaxMhz, n
  <2> HIDE DEF n
  <2>3. n \notin {3, 4}
    <3> SUFFICES ASSUME n \in {3, 4} PROVE FALSE
      OBVIOUS
    <3>1. ptr \in DOMAIN tokens
      BY <2>2, <2>p
    <3> QED
      BY <2>1, <2>2, <3>1 DEF WholeLines
  <2>4. is_parsing'
    BY <2>2, <2>3
  <2>5. ASSUME SaidUpTo(MaxMhz, tokens)[ptr' - 1] # <<>>
        PROVE  figure' = Last(SaidUpTo(MaxMhz, tokens)[ptr' - 1])
    <3>1. CASE n = 5
      <4>1. ptr + 4 \in 1 .. Len(tokens) /\ ptr' - 1 = ptr + 4
        BY <2>2, <2>p, <3>1
      <4>2. ValuesAt(ptr + 4) = {tokens[ptr + 4].value}
        BY <1>0, <2>2, <3>1, <4>1, ValueOfNumber
      <4>3. figure' = tokens[ptr + 4].value
        BY <2>m, <3>1, <4>2
      <4> DEFINE s == SaidUpTo(MaxMhz, tokens)[ptr - 1]
                 v == tokens[ptr + 4].value
      <4>4. SaidUpTo(MaxMhz, tokens)[ptr' - 1] = Append(s, v)
        BY <2>2, <3>1, <4>1, Zenon
      <4>5. s \in Seq(Nat) /\ v \in Nat
        <5>1. ptr - 1 \in 0 .. Len(tokens)
          BY <2>2, <2>p, <3>1
        <5>2. tokens[ptr + 4] \in Tokens
          BY <2>p, <4>1
        <5> QED
          BY <2>p, <5>1, <5>2, SaidType DEF Tokens
      <4> HIDE DEF s, v
      <4>6. Last(Append(s, v)) = v
        BY <4>5 DEF Last
      <4> QED
        BY <4>3, <4>4, <4>6 DEF v
    <3>2. CASE n # 5
      <4>1. ~(n > 3)
        BY <2>2, <2>3, <3>2
      <4> QED
        BY <2>1, <2>2, <2>5, <2>m, <3>2, <4>1
    <3> QED
      BY <3>1, <3>2
  <2> QED
    BY <1>1, <2>1, <2>2, <2>4, <2>5 DEF MaxFound
<1>4. CpuFound' /\ MemFound'
  BY <1>2 DEF CpuFound, MemFound
<1> QED
  BY <1>2, <1>3, <1>4 DEF InfoInv

\* A token that no line starts with is stepped over (parser_cpuinfo.cpp:138-143).
LEMMA OtherTokenInv ==
  ASSUME InfoInv, OtherToken PROVE InfoInv'
<1>1. /\ running /\ is_parsing /\ of # "meminfo" /\ ptr' = ptr + 1
      /\ UNCHANGED <<of, tokens, text, is_parsing, running, current_mhz, figure, skipped>>
  BY DEF OtherToken, InLoop, GoTo
<1>0. InfoType /\ ~skipped
  BY <1>1 DEF InfoInv
<1>2. ptr \in Nat /\ ptr >= 1 /\ ptr <= Len(tokens) /\ Len(tokens) \in Nat /\ tokens \in Seq(Tokens)
      /\ tokens[ptr].type # "cpu"
  <2>1. ptr \in Nat /\ ptr >= 1 /\ Len(tokens) \in Nat /\ tokens \in Seq(Tokens)
    BY <1>0 DEF InfoType
  <2>2. TypeAt(ptr) \in {"id", "colon", "number"}
    BY DEF OtherToken
  <2>3. ptr <= Len(tokens) /\ tokens[ptr].type = TypeAt(ptr)
    BY <1>0, <2>1, <2>2, TypeAtIs
  <2> QED
    BY <2>1, <2>2, <2>3
<1>3. InfoType'
  BY <1>0, <1>1, <1>2 DEF InfoType
<1>4. ASSUME NEW w \in LineWords, Unbroken(w, tokens, ptr)
      PROVE  Unbroken(w, tokens, ptr + 1)
             /\ SaidUpTo(w, tokens)[(ptr + 1) - 1] = SaidUpTo(w, tokens)[ptr - 1]
  <2>1. Len(w) \in Nat /\ Len(w) > 1 /\ DOMAIN Faced(w) = 1 .. Len(w) + 2 /\ Faced(w)[1] = "cpu"
    BY FacedWords
  <2>2. ~WordsAt(Faced(w), tokens, ptr)
    <3> SUFFICES ASSUME WordsAt(Faced(w), tokens, ptr) PROVE FALSE
      OBVIOUS
    <3>1. 1 \in DOMAIN Faced(w) /\ ptr + 1 - 1 = ptr
      BY <1>2, <2>1
    <3>2. tokens[ptr + 1 - 1].type = Faced(w)[1]
      BY <3>1 DEF WordsAt
    <3> QED
      BY <1>2, <2>1, <3>1, <3>2
  <2> DEFINE n == 1
  <2>3. n \in Nat /\ n >= 1 /\ ptr + n <= Len(tokens) + 1 /\ n <= Len(w) + 2 /\ n # Len(w) + 2
        /\ ptr + n - 1 = ptr
    BY <1>2, <2>1
  <2>4. \A j \in ptr + n .. ptr + n - 1 : tokens[j].type # "cpu"
    BY <1>2
  <2>5. \A j \in ptr + 1 .. ptr + n - 1 : tokens[j].type # "cpu"
    BY <2>4 DEF n
  <2> HIDE DEF n
  <2>6. Unbroken(w, tokens, ptr + n)
        /\ SaidUpTo(w, tokens)[ptr + n - 1] =
             IF n = Len(w) + 2 THEN Append(SaidUpTo(w, tokens)[ptr - 1], tokens[ptr + n - 1].value)
             ELSE SaidUpTo(w, tokens)[ptr - 1]
    BY <1>2, <1>4, <2>2, <2>3, <2>5, StepOver
  <2>7. SaidUpTo(w, tokens)[ptr + n - 1] = SaidUpTo(w, tokens)[ptr - 1]
    BY <2>3, <2>6, Zenon
  <2>8. ptr + n = ptr + 1 /\ (ptr + 1) - 1 = ptr + n - 1
    BY <1>2 DEF n
  <2> QED
    BY <2>6, <2>7, <2>8, Zenon
<1>5. CpuMhz \in LineWords /\ MaxMhz \in LineWords
  BY DEF CpuMhz, MaxMhz, LineWords
<1>6. ASSUME text' = Len(tokens') PROVE CpuFound'
  <2> SUFFICES ASSUME of = "cpuinfo" PROVE CpuFound'
    BY <1>1 DEF CpuFound
  <2>1. /\ Regular(CpuMhz, tokens) /\ Unbroken(CpuMhz, tokens, ptr)
        /\ current_mhz = SaidUpTo(CpuMhz, tokens)[ptr - 1]
    BY <1>1, <1>6 DEF InfoInv, CpuFound
  <2>2. Unbroken(CpuMhz, tokens, ptr + 1)
        /\ SaidUpTo(CpuMhz, tokens)[(ptr + 1) - 1] = SaidUpTo(CpuMhz, tokens)[ptr - 1]
    BY <1>4, <1>5, <2>1
  <2> QED
    BY <1>1, <2>1, <2>2 DEF CpuFound
<1>7. ASSUME text' = Len(tokens') PROVE MaxFound'
  <2> SUFFICES ASSUME of = "lscpu" PROVE MaxFound'
    BY <1>1 DEF MaxFound
  <2>1. /\ WholeLines(MaxMhz, tokens) /\ Unbroken(MaxMhz, tokens, ptr)
        /\ SaidUpTo(MaxMhz, tokens)[ptr - 1] # <<>> => figure = Last(SaidUpTo(MaxMhz, tokens)[ptr - 1])
    BY <1>0, <1>1, <1>7 DEF InfoInv, MaxFound
  <2>2. Unbroken(MaxMhz, tokens, ptr + 1)
        /\ SaidUpTo(MaxMhz, tokens)[(ptr + 1) - 1] = SaidUpTo(MaxMhz, tokens)[ptr - 1]
    BY <1>4, <1>5, <2>1
  <2> QED
    BY <1>1, <2>1, <2>2 DEF MaxFound
<1>8. MemFound'
  BY <1>1 DEF MemFound
<1> QED
  BY <1>0, <1>1, <1>3, <1>6, <1>7, <1>8 DEF InfoInv

\* What a line of meminfo says.
MemFaced == <<"MemAvailable", "colon", "number">>

LEMMA FacedMem == Faced(<<"MemAvailable">>) = MemFaced
<1> DEFINE a == <<"MemAvailable">>
           b == <<"colon", "number">>
<1>1. a \in Seq(TokenTypes) /\ b \in Seq(TokenTypes) /\ Len(a) = 1 /\ Len(b) = 2
      /\ a[1] = "MemAvailable" /\ b[1] = "colon" /\ b[2] = "number"
  BY DEF TokenTypes
<1>2. MemFaced \in Seq(TokenTypes) /\ Len(MemFaced) = 3 /\ MemFaced[1] = "MemAvailable"
      /\ MemFaced[2] = "colon" /\ MemFaced[3] = "number"
  BY DEF MemFaced, TokenTypes
<1> HIDE DEF a, b
<1>3. /\ a \o b \in Seq(TokenTypes) /\ Len(a \o b) = Len(a) + Len(b)
      /\ \A i \in 1 .. Len(a) + Len(b) : (a \o b)[i] = IF i <= Len(a) THEN a[i] ELSE b[i - Len(a)]
  BY <1>1, ConcatProperties, Zenon
<1>4. Len(a \o b) = 3 /\ (a \o b)[1] = "MemAvailable" /\ (a \o b)[2] = "colon" /\ (a \o b)[3] = "number"
  BY <1>1, <1>3
<1> DEFINE c == a \o b
<1> HIDE DEF c
<1>5. c \in Seq(TokenTypes) /\ Len(c) = Len(MemFaced) /\ \A i \in 1 .. Len(c) : c[i] = MemFaced[i]
  <2>1. c \in Seq(TokenTypes) /\ Len(c) = 3 /\ c[1] = "MemAvailable" /\ c[2] = "colon" /\ c[3] = "number"
    BY <1>3, <1>4 DEF c
  <2> QED
    BY <1>2, <2>1
<1>6. c = MemFaced
  BY <1>2, <1>5, SeqEqual
<1> QED
  BY <1>6 DEF c, a, b, Faced

\* A text with the word once, at its start, says what stands there.
LEMMA MemSaid ==
  ASSUME NEW s \in Seq(Tokens), OnceAvailable(s), s # <<>>, s[1].type = "MemAvailable",
         Said(<<"MemAvailable">>, s) # <<>>
  PROVE  /\ WordsAt(MemFaced, s, 1) /\ Said(<<"MemAvailable">>, s) = <<s[3].value>>
<1> DEFINE w == <<"MemAvailable">>
<1>0. Faced(w) = MemFaced /\ Len(MemFaced) = 3 /\ DOMAIN MemFaced = 1 .. 3
      /\ MemFaced[1] = "MemAvailable"
  BY FacedMem DEF MemFaced
<1>n. Len(s) \in Nat /\ Len(s) >= 1
  OBVIOUS
<1> HIDE DEF w
<1>1. ASSUME NEW e \in 1 .. Len(s), EndsAt(Faced(w), s, e)
      PROVE  e = 3 /\ WordsAt(MemFaced, s, 1)
  <2>1. e >= 3 /\ WordsAt(MemFaced, s, e - 3 + 1)
    BY <1>0, <1>1 DEF EndsAt
  <2>2. e - 3 + 1 \in 1 .. Len(s) /\ (e - 3 + 1) + 1 - 1 = e - 3 + 1
    BY <1>n, <2>1
  <2>3. s[(e - 3 + 1) + 1 - 1].type = "MemAvailable"
    BY <1>0, <2>1 DEF WordsAt
  <2>4. 1 \in DOMAIN s /\ e - 3 + 1 \in DOMAIN s
    BY <1>n, <2>2
  <2>5. e - 3 + 1 = 1
    BY <2>2, <2>3, <2>4 DEF OnceAvailable
  <2> QED
    BY <2>1, <2>5
<1>2. SaidUpTo(w, s)[0] = <<>> /\ SaidUpTo(w, s)[Len(s)] # <<>>
  BY <1>n, SaidValues DEF Said, w
<1>3. \E e \in 1 .. Len(s) : EndsAt(Faced(w), s, e)
  <2> SUFFICES ASSUME \A e \in 0 + 1 .. Len(s) : ~EndsAt(Faced(w), s, e) PROVE FALSE
    OBVIOUS
  <2>1. 0 \in Nat /\ 0 <= Len(s) /\ Len(s) <= Len(s)
    BY <1>n
  <2>2. SaidUpTo(w, s)[Len(s)] = SaidUpTo(w, s)[0]
    BY <1>n, <2>1, SaidNothing
  <2> QED
    BY <1>2, <2>2
<1>4. 3 \in 1 .. Len(s) /\ EndsAt(Faced(w), s, 3) /\ WordsAt(MemFaced, s, 1)
  BY <1>1, <1>3
<1>5. SaidUpTo(w, s)[2] = SaidUpTo(w, s)[0]
  <2>1. \A e \in 0 + 1 .. 2 : ~EndsAt(Faced(w), s, e)
    BY <1>1, <1>4
  <2>2. 2 \in Nat /\ 0 \in Nat /\ 0 <= 2 /\ 2 <= Len(s)
    BY <1>4, <1>n
  <2> QED
    BY <1>n, <2>1, <2>2, SaidNothing
<1>6. SaidUpTo(w, s)[2 + 1] = Append(SaidUpTo(w, s)[2], s[2 + 1].value)
  <2>1. 2 + 1 = 3 /\ 2 + 1 <= Len(s) /\ 2 \in Nat
    BY <1>4, <1>n
  <2> QED
    BY <1>4, <1>n, <2>1, SaidValues
<1>7. SaidUpTo(w, s)[Len(s)] = SaidUpTo(w, s)[3]
  <2>1. \A e \in 3 + 1 .. Len(s) : ~EndsAt(Faced(w), s, e)
    BY <1>1, <1>n
  <2>2. 3 \in Nat /\ 3 <= Len(s) /\ Len(s) <= Len(s)
    BY <1>4, <1>n
  <2> QED
    BY <1>n, <2>1, <2>2, SaidNothing
<1>8. SaidUpTo(w, s)[3] = <<s[3].value>>
  <2>1. 2 + 1 = 3 /\ Append(<<>>, s[3].value) = <<s[3].value>>
    OBVIOUS
  <2> QED
    BY <1>2, <1>5, <1>6, <2>1, Zenon
<1> QED
  BY <1>4, <1>7, <1>8, Zenon DEF Said, w

\* parse_memory_free_space on the word (parser_cpuinfo.cpp:229-236).
LEMMA MemLineInv ==
  ASSUME InfoInv, MemLine PROVE InfoInv'
<1> DEFINE F == <<"MemAvailable", "colon">>
           n == Accepted(F)
<1>1. /\ running /\ is_parsing /\ of = "meminfo" /\ TypeAt(ptr) = "MemAvailable"
      /\ ptr' = ptr + n /\ is_parsing' = FALSE
      /\ n = 2 => figure' \in ValuesAt(ptr + 2)
      /\ UNCHANGED <<of, tokens, text, running, current_mhz, skipped>>
  BY DEF MemLine, InLoop, Is, GoTo
<1>0. InfoType /\ ~skipped
  BY <1>1 DEF InfoInv
<1>2. Len(F) = 2 /\ 2 \in Nat /\ DOMAIN F = 1 .. 2 /\ F[1] = "MemAvailable" /\ F[2] = "colon"
      /\ \A k \in 1 .. 2 : F[k] \in TokenTypes
  BY DEF TokenTypes
<1> HIDE DEF F
<1>3. /\ n \in 0 .. 2 /\ ptr + n <= Len(tokens) + 1
      /\ \A k \in 1 .. n : tokens[ptr + k - 1].type = F[k]
      /\ WordsAt(F, tokens, ptr) <=> n = 2
  BY <1>0, <1>2, AcceptedIs
<1> HIDE DEF n
<1>4. ptr \in Nat /\ ptr >= 1 /\ Len(tokens) \in Nat /\ tokens \in Seq(Tokens)
  BY <1>0 DEF InfoType
<1>5. InfoType'
  <2>1. ptr' \in 1 .. Len(tokens) + 1
    BY <1>1, <1>3, <1>4
  <2> QED
    BY <1>0, <1>1, <2>1 DEF InfoType
<1>6. ASSUME text' = Len(tokens') PROVE MemFound'
  <2>1. OnceAvailable(tokens) /\ ptr = 1
    BY <1>1, <1>6 DEF InfoInv, MemFound
  <2>2. ASSUME Said(<<"MemAvailable">>, tokens) # <<>>
        PROVE  figure' = Last(Said(<<"MemAvailable">>, tokens))
    <3>1. 1 <= Len(tokens) /\ tokens[1].type = "MemAvailable"
      <4>1. "MemAvailable" # "end"
        OBVIOUS
      <4> QED
        BY <1>0, <1>1, <1>4, <2>1, <4>1, TypeAtIs
    <3>2. tokens # <<>>
      BY <1>4, <3>1
    <3>3. WordsAt(MemFaced, tokens, 1) /\ Said(<<"MemAvailable">>, tokens) = <<tokens[3].value>>
      BY <1>4, <2>1, <2>2, <3>1, <3>2, MemSaid
    <3>4. Len(MemFaced) = 3 /\ DOMAIN MemFaced = 1 .. 3
          /\ MemFaced[1] = "MemAvailable" /\ MemFaced[2] = "colon" /\ MemFaced[3] = "number"
      BY DEF MemFaced
    <3>5. 1 + 3 - 1 <= Len(tokens) /\ \A k \in 1 .. 3 : tokens[1 + k - 1].type = MemFaced[k]
      BY <3>3, <3>4 DEF WordsAt
    <3>6. 3 <= Len(tokens) /\ tokens[2].type = "colon" /\ tokens[3].type = "number"
      BY <1>4, <3>4, <3>5
    <3>7. WordsAt(F, tokens, ptr)
      <4>1. ptr + Len(F) - 1 <= Len(tokens)
        BY <1>2, <1>4, <2>1, <3>6
      <4>2. \A k \in 1 .. 2 : tokens[ptr + k - 1].type = F[k]
        BY <1>2, <2>1, <3>1, <3>6
      <4> QED
        BY <1>2, <4>1, <4>2 DEF WordsAt
    <3>8. ptr + 2 = 3 /\ 3 \in 1 .. Len(tokens)
      BY <1>4, <2>1, <3>6
    <3>9. figure' = tokens[3].value
      <4>1. ValuesAt(3) = {tokens[3].value}
        BY <1>0, <3>6, <3>8, ValueOfNumber
      <4> QED
        BY <1>1, <1>3, <3>7, <3>8, <4>1
    <3>10. Last(<<tokens[3].value>>) = tokens[3].value
      BY DEF Last
    <3> QED
      BY <3>3, <3>9, <3>10
  <2> QED
    BY <1>1, <2>1, <2>2 DEF MemFound
<1>7. CpuFound' /\ MaxFound'
  BY <1>1 DEF CpuFound, MaxFound
<1> QED
  BY <1>0, <1>1, <1>5, <1>6, <1>7 DEF InfoInv

\* The loop ends at the end of the text, or where is_parsing was cleared.
LEMMA EndOfTextInv ==
  ASSUME InfoInv, EndOfText PROVE InfoInv'
<1>1. /\ running' = FALSE /\ (is_parsing => TypeAt(ptr) = "end")
      /\ UNCHANGED <<of, tokens, text, ptr, is_parsing, current_mhz, figure, skipped>>
  BY DEF EndOfText, Is
<1>0. InfoType
  BY DEF InfoInv
<1>2. InfoType'
  BY <1>0, <1>1 DEF InfoType
<1>3. ASSUME is_parsing PROVE ptr = Len(tokens) + 1
  <2>1. ptr \in Nat /\ ptr >= 1 /\ ptr <= Len(tokens) + 1 /\ Len(tokens) \in Nat
    BY <1>0 DEF InfoType
  <2>2. ~(ptr <= Len(tokens))
    <3>1. "end" \notin TokenTypes
      BY DEF TokenTypes
    <3> QED
      BY <1>0, <1>1, <1>3, <2>1, <3>1, TypeAtIs
  <2> QED
    BY <2>1, <2>2
<1> QED
  BY <1>1, <1>2, <1>3 DEF InfoInv, CpuFound, MaxFound, MemFound

LEMMA InfoInvHolds == InfoSpec => []InfoInv
<1>1. InfoInit => InfoInv
  <2> SUFFICES ASSUME InfoInit PROVE InfoInv
    OBVIOUS
  <2>1. of = "meminfo" /\ tokens = <<>> /\ text = 0 /\ ptr = 1 /\ is_parsing = TRUE /\ running = FALSE
        /\ skipped = FALSE
    BY DEF InfoInit
  <2>2. tokens \in Seq(Tokens) /\ Len(tokens) = 0 /\ DOMAIN tokens = {}
    BY <2>1
  <2>3. InfoType
    <3>1. text \in Nat /\ ptr \in 1 .. Len(tokens) + 1
      BY <2>1, <2>2
    <3>2. is_parsing \in BOOLEAN /\ running \in BOOLEAN /\ skipped \in BOOLEAN
      BY <2>1
    <3> QED
      BY <2>1, <2>2, <3>1, <3>2 DEF InfoType
  <2>4. CpuFound /\ MaxFound /\ MemFound
    BY <2>1, <2>2 DEF CpuFound, MaxFound, MemFound, OnceAvailable
  <2> QED
    BY <2>1, <2>2, <2>3, <2>4 DEF InfoInv
<1>2. InfoInv /\ [InfoNext]_infoVars => InfoInv'
  <2> SUFFICES ASSUME InfoInv, [InfoNext]_infoVars PROVE InfoInv'
    OBVIOUS
  <2>1. CASE UNCHANGED infoVars
    BY <2>1 DEF infoVars, InfoInv, InfoType, CpuFound, MaxFound, MemFound
  <2> QED
    BY <2>1, StartInv, CpuLineInv, MaxLineInv, OtherTokenInv, MemLineInv, EndOfTextInv DEF InfoNext, Parse
<1> QED
  BY <1>1, <1>2, PTL DEF InfoSpec

\* What is in the buffer is what was printed, all of it or a part, of which the last
\* token may be cut.
OutputInv ==
  /\ output \in Seq(Tokens) /\ whole \in 0 .. Len(output)
  /\ of = "cpuinfo" => WholeLines(CpuMhz, output)
  /\ text = Len(tokens) =>
       \/ tokens = output /\ whole = Len(output)
       \/ /\ of = "cpuinfo" /\ whole < Len(output)
          /\ \E cut \in CutIn(output[whole + 1]) : tokens = SubSeq(output, 1, whole) \o cut

LEMMA StartOutput ==
  ASSUME Start PROVE OutputInv'
<1>1. PICK t \in Texts :
        /\ of' = t.of /\ output' = t.tokens
        /\ \/ \E g \in Leftovers :
                tokens' = t.tokens \o g /\ text' = Len(t.tokens) /\ whole' = Len(t.tokens)
           \/ \E n \in 1 .. Len(t.tokens) - 1 : \E cut \in CutIn(t.tokens[n + 1]) :
                /\ t.of = "cpuinfo"
                /\ tokens' = SubSeq(t.tokens, 1, n) \o cut /\ text' = Len(tokens') /\ whole' = n
  BY DEF Start
<1>2. t.tokens \in Seq(Tokens) /\ (t.of = "cpuinfo" => WholeLines(CpuMhz, t.tokens)) /\ Len(t.tokens) \in Nat
  BY SystemInfoAssumption DEF CpuMhz
<1>3. ASSUME NEW g \in Leftovers, tokens' = t.tokens \o g, text' = Len(t.tokens), whole' = Len(t.tokens)
      PROVE  OutputInv'
  <2>1. g \in Seq(Tokens)
    BY SystemInfoAssumption
  <2>2. Len(tokens') = Len(t.tokens) + Len(g) /\ Len(g) \in Nat
    BY <1>2, <1>3, <2>1, ConcatProperties
  <2>3. ASSUME text' = Len(tokens') PROVE tokens' = t.tokens
    <3>1. g = <<>>
      BY <1>2, <1>3, <2>1, <2>2, <2>3
    <3> QED
      BY <1>2, <1>3, <3>1
  <2>4. Len(t.tokens) \in 0 .. Len(t.tokens)
    BY <1>2
  <2> QED
    BY <1>1, <1>2, <1>3, <2>3, <2>4, Zenon DEF OutputInv
<1>4. ASSUME NEW n \in 1 .. Len(t.tokens) - 1, NEW cut \in CutIn(t.tokens[n + 1]), t.of = "cpuinfo",
             tokens' = SubSeq(t.tokens, 1, n) \o cut, whole' = n
      PROVE  OutputInv'
  <2>1. n \in 0 .. Len(t.tokens) /\ n < Len(t.tokens)
    BY <1>2
  <2> QED
    BY <1>1, <1>2, <1>4, <2>1, Zenon DEF OutputInv
<1>5. CASE \E g \in Leftovers :
             tokens' = t.tokens \o g /\ text' = Len(t.tokens) /\ whole' = Len(t.tokens)
  BY <1>3, <1>5, Zenon
<1>6. CASE \E n \in 1 .. Len(t.tokens) - 1 : \E cut \in CutIn(t.tokens[n + 1]) :
             /\ t.of = "cpuinfo"
             /\ tokens' = SubSeq(t.tokens, 1, n) \o cut /\ text' = Len(tokens') /\ whole' = n
  BY <1>4, <1>6, Zenon
<1> QED
  BY <1>1, <1>5, <1>6, Zenon

LEMMA OutputInvHolds == InfoSpec => []OutputInv
<1>1. InfoInit => OutputInv
  <2> SUFFICES ASSUME InfoInit PROVE OutputInv
    OBVIOUS
  <2>1. output = <<>> /\ tokens = <<>> /\ whole = 0 /\ of = "meminfo"
    BY DEF InfoInit
  <2> QED
    BY <2>1 DEF OutputInv
<1>2. OutputInv /\ [InfoNext]_infoVars => OutputInv'
  <2> SUFFICES ASSUME OutputInv, [InfoNext]_infoVars PROVE OutputInv'
    OBVIOUS
  <2>1. ASSUME Parse \/ UNCHANGED infoVars PROVE UNCHANGED <<of, tokens, text, output, whole>>
    BY <2>1 DEF Parse, CpuLine, MaxLine, Line, OtherToken, MemLine, EndOfText, infoVars
  <2>2. ASSUME UNCHANGED <<of, tokens, text, output, whole>> PROVE OutputInv'
    BY <2>2 DEF OutputInv
  <2> QED
    BY <2>1, <2>2, StartOutput DEF InfoNext
<1> QED
  BY <1>1, <1>2, PTL DEF InfoSpec

\* What a text says of which the last token was cut.
LEMMA CutSaid ==
  ASSUME NEW t \in Seq(Tokens), NEW n \in Nat, n < Len(t), NEW cut \in CutIn(t[n + 1])
  PROVE  LET u == SubSeq(t, 1, n) IN
           \/ Said(CpuMhz, u \o cut) = Said(CpuMhz, u)
           \/ /\ EndsAt(Faced(CpuMhz), t, n + 1)
              /\ Said(CpuMhz, u \o cut) = Append(Said(CpuMhz, u), t[n + 1].value \div 10)
<1> DEFINE u == SubSeq(t, 1, n)
           s == u \o cut
           F == Faced(CpuMhz)
<1>1. t[n + 1] \in Tokens /\ Len(t) \in Nat
  OBVIOUS
<1>2. u \in Seq(Tokens) /\ Len(u) = n /\ \A i \in 1 .. n : u[i] = t[i]
  OBVIOUS
<1>3. /\ cut \in Seq(Tokens) /\ Len(cut) \in {0, 1}
      /\ Len(cut) = 1 /\ cut[1].type = "number" =>
           t[n + 1].type = "number" /\ cut[1].value = t[n + 1].value \div 10
  BY <1>1, CutToken
<1> HIDE DEF u
<1>4. /\ Len(s) = n + Len(cut) /\ \A i \in 1 .. n : s[i] = u[i]
      /\ Len(cut) = 1 => s[n + 1] = cut[1]
  <2>1. /\ s \in Seq(Tokens) /\ Len(s) = Len(u) + Len(cut)
        /\ \A i \in 1 .. Len(u) + Len(cut) : s[i] = IF i <= Len(u) THEN u[i] ELSE cut[i - Len(u)]
    BY <1>2, <1>3, ConcatProperties, Zenon
  <2> HIDE DEF s
  <2> QED
    BY <1>2, <1>3, <2>1
<1>5. CASE Len(cut) = 0
  <2>1. cut = <<>>
    BY <1>3, <1>5
  <2>2. s = u
    BY <1>2, <2>1
  <2> QED
    BY <2>2 DEF s, u
<1>6. CASE Len(cut) = 1
  <2> HIDE DEF s
  <2>1. Len(s) = n + 1 /\ Len(s) \in Nat /\ Len(u) \in Nat /\ n <= Len(s) /\ n <= Len(u) /\ n + 1 <= Len(s)
    BY <1>2, <1>4, <1>6
  <2>2. Len(F) = 4 /\ DOMAIN F = 1 .. 4 /\ F[4] = "number"
    <3>1. CpuMhz \in LineWords /\ Len(CpuMhz) = 2 /\ 2 + 2 = 4
      BY DEF CpuMhz, LineWords
    <3>2. /\ Len(F) = Len(CpuMhz) + 2 /\ DOMAIN F = 1 .. Len(CpuMhz) + 2
          /\ F[Len(CpuMhz) + 2] = "number"
      BY <3>1, FacedWords, Zenon
    <3> QED
      BY <3>1, <3>2, Zenon
  <2> HIDE DEF F
  <2>3. ASSUME NEW i \in 1 .. n PROVE EndsAt(F, s, i) <=> EndsAt(F, u, i)
    <3>1. i - 4 + 1 + 4 - 1 = i /\ i <= Len(s) /\ i <= Len(u)
      BY <2>1
    <3>2. ASSUME i >= 4, NEW k \in 1 .. 4
          PROVE  s[(i - 4 + 1) + k - 1].type = F[k] <=> u[(i - 4 + 1) + k - 1].type = F[k]
      <4>1. (i - 4 + 1) + k - 1 \in 1 .. n
        BY <3>2
      <4> QED
        BY <1>4, <4>1
    <3> QED
      BY <2>2, <3>1, <3>2 DEF EndsAt, WordsAt
  <2>4. SaidUpTo(CpuMhz, s)[n] = SaidUpTo(CpuMhz, u)[n]
    BY <1>4, <2>1, <2>3, SaidSame DEF F
  <2>5. SaidUpTo(CpuMhz, u)[n] = Said(CpuMhz, u)
    BY <1>2 DEF Said
  <2>6. Said(CpuMhz, s) =
          IF EndsAt(F, s, n + 1) THEN Append(SaidUpTo(CpuMhz, s)[n], s[n + 1].value)
          ELSE SaidUpTo(CpuMhz, s)[n]
    <3>1. SaidUpTo(CpuMhz, s)[n + 1] =
            IF EndsAt(Faced(CpuMhz), s, n + 1) THEN Append(SaidUpTo(CpuMhz, s)[n], s[n + 1].value)
            ELSE SaidUpTo(CpuMhz, s)[n]
      BY <2>1, SaidValues, Zenon
    <3> QED
      BY <2>1, <3>1, Zenon DEF Said, F
  <2>7. ASSUME EndsAt(F, s, n + 1)
        PROVE  EndsAt(F, t, n + 1) /\ s[n + 1].value = t[n + 1].value \div 10
    <3>1. n + 1 >= 4 /\ \A k \in 1 .. 4 : s[(n + 1 - 4 + 1) + k - 1].type = F[k]
      <4>1. n + 1 >= Len(F) /\ WordsAt(F, s, n + 1 - Len(F) + 1)
        BY <2>7 DEF EndsAt
      <4>2. n + 1 >= 4 /\ WordsAt(F, s, n + 1 - 4 + 1)
        BY <2>2, <4>1, Zenon
      <4> QED
        BY <2>2, <4>2, Zenon DEF WordsAt
    <3>2. (n + 1 - 4 + 1) + 4 - 1 = n + 1
      OBVIOUS
    <3>3. s[n + 1].type = "number"
      BY <2>2, <3>1, <3>2
    <3>4. t[n + 1].type = "number" /\ s[n + 1].value = t[n + 1].value \div 10
      BY <1>3, <1>4, <1>6, <3>3
    <3>5. ASSUME NEW k \in 1 .. 4 PROVE t[(n + 1 - 4 + 1) + k - 1].type = F[k]
      <4>1. CASE k = 4
        BY <2>2, <3>2, <3>4, <4>1
      <4>2. CASE k # 4
        <5>1. (n + 1 - 4 + 1) + k - 1 \in 1 .. n
          BY <3>1, <4>2
        <5> QED
          BY <1>2, <1>4, <3>1, <5>1
      <4> QED
        BY <4>1, <4>2
    <3>6. n + 1 <= Len(t)
      BY <1>1
    <3> QED
      BY <2>2, <3>1, <3>2, <3>4, <3>5, <3>6 DEF EndsAt, WordsAt
  <2> QED
    BY <2>4, <2>5, <2>6, <2>7, Zenon DEF s, u, F
<1> QED
  BY <1>3, <1>5, <1>6

\* Whatever the commands print, and wherever the read of cpuinfo ends, the parsers
\* find the figures of every line that was read as far as its number, and one more
\* only of a number that was cut; lscpu is passed over only behind a cut cpuinfo
\* (parser_cpuinfo.cpp:122-179, 191-213, 225-244).
THEOREM ParsersFindAll == InfoSpec => []FindsAll
<1>1. InfoInv /\ OutputInv => FindsAll
  <2> SUFFICES ASSUME InfoInv, OutputInv, ~running, text = Len(tokens)
      PROVE  /\ of = "cpuinfo" =>
                  \/ current_mhz = ReadWhole(CpuMhz)
                  \/ /\ CutInNumber(CpuMhz)
                     /\ current_mhz = Append(ReadWhole(CpuMhz), output[whole + 1].value \div 10)
             /\ of = "cpuinfo" /\ ~is_parsing => whole < Len(output)
             /\ of = "lscpu" /\ ~skipped /\ ReadWhole(MaxMhz) # <<>> => figure = Last(ReadWhole(MaxMhz))
             /\ of = "meminfo" /\ ReadWhole(<<"MemAvailable">>) # <<>> =>
                  figure = Last(ReadWhole(<<"MemAvailable">>))
             /\ skipped => of = "lscpu" /\ figure = 0
    BY DEF FindsAll, CpuMhz, MaxMhz
  <2>1. /\ InfoType /\ CpuFound /\ MaxFound /\ MemFound
        /\ skipped => of = "lscpu" /\ figure = 0 /\ ~is_parsing
        /\ is_parsing => ptr = Len(tokens) + 1
    BY DEF InfoInv
  <2>2. Len(tokens) \in Nat /\ (Len(tokens) + 1) - 1 = Len(tokens) /\ is_parsing \in BOOLEAN
        /\ tokens \in Seq(Tokens)
    BY <2>1 DEF InfoType
  <2>o. output \in Seq(Tokens) /\ whole \in Nat /\ (of = "cpuinfo" => WholeLines(CpuMhz, output))
        /\ SubSeq(output, 1, Len(output)) = output
    BY DEF OutputInv
  <2>w. ASSUME tokens = output, whole = Len(output), NEW w PROVE ReadWhole(w) = Said(w, tokens)
    BY <2>o, <2>w DEF ReadWhole
  <2>a. of # "cpuinfo" => tokens = output /\ whole = Len(output)
    BY DEF OutputInv
  <2>3. of = "cpuinfo" =>
          \/ current_mhz = ReadWhole(CpuMhz)
          \/ /\ CutInNumber(CpuMhz)
             /\ current_mhz = Append(ReadWhole(CpuMhz), output[whole + 1].value \div 10)
    <3> SUFFICES ASSUME of = "cpuinfo"
                 PROVE  \/ current_mhz = ReadWhole(CpuMhz)
                        \/ /\ CutInNumber(CpuMhz)
                           /\ current_mhz = Append(ReadWhole(CpuMhz), output[whole + 1].value \div 10)
      OBVIOUS
    <3>1. ptr = Len(tokens) + 1
      BY <2>1, <2>2 DEF CpuFound
    <3>2. current_mhz = SaidUpTo(CpuMhz, tokens)[ptr - 1]
      BY <2>1 DEF CpuFound
    <3>3. current_mhz = Said(CpuMhz, tokens)
      BY <2>2, <3>1, <3>2 DEF Said
    <3>4. CASE tokens = output /\ whole = Len(output)
      BY <2>w, <3>3, <3>4
    <3>5. ASSUME whole < Len(output),
                 NEW cut \in CutIn(output[whole + 1]), tokens = SubSeq(output, 1, whole) \o cut
          PROVE  \/ current_mhz = ReadWhole(CpuMhz)
                 \/ /\ CutInNumber(CpuMhz)
                    /\ current_mhz = Append(ReadWhole(CpuMhz), output[whole + 1].value \div 10)
      <4>1. \/ Said(CpuMhz, tokens) = ReadWhole(CpuMhz)
            \/ /\ EndsAt(Faced(CpuMhz), output, whole + 1)
               /\ Said(CpuMhz, tokens) = Append(ReadWhole(CpuMhz), output[whole + 1].value \div 10)
        BY <2>o, <3>5, CutSaid DEF ReadWhole
      <4> QED
        BY <3>3, <3>5, <4>1 DEF CutInNumber
    <3> QED
      BY <3>4, <3>5 DEF OutputInv
  <2>6. ASSUME of = "cpuinfo", ~is_parsing PROVE whole < Len(output)
    <3> SUFFICES ASSUME tokens = output PROVE FALSE
      BY <2>6 DEF OutputInv
    <3> QED
      BY <2>1, <2>o, <2>6 DEF CpuFound
  <2>4. of = "lscpu" /\ ~skipped /\ ReadWhole(MaxMhz) # <<>> => figure = Last(ReadWhole(MaxMhz))
    <3> SUFFICES ASSUME of = "lscpu", ~skipped, ReadWhole(MaxMhz) # <<>>
                 PROVE figure = Last(ReadWhole(MaxMhz))
      OBVIOUS
    <3>1. ptr = Len(tokens) + 1
      BY <2>1 DEF MaxFound
    <3>2. SaidUpTo(MaxMhz, tokens)[ptr - 1] # <<>> => figure = Last(SaidUpTo(MaxMhz, tokens)[ptr - 1])
      BY <2>1 DEF MaxFound
    <3>3. Said(MaxMhz, tokens) = SaidUpTo(MaxMhz, tokens)[ptr - 1]
      BY <2>2, <3>1 DEF Said
    <3>4. ReadWhole(MaxMhz) = Said(MaxMhz, tokens)
      BY <2>a, <2>w
    <3> QED
      BY <3>2, <3>3, <3>4
  <2>5. of = "meminfo" /\ ReadWhole(<<"MemAvailable">>) # <<>> => figure = Last(ReadWhole(<<"MemAvailable">>))
    <3> DEFINE w == <<"MemAvailable">>
    <3> SUFFICES ASSUME of = "meminfo", Said(w, tokens) # <<>> PROVE figure = Last(Said(w, tokens))
      BY <2>a, <2>w
    <3>1. CASE ~is_parsing
      BY <2>1, <3>1 DEF MemFound
    <3>2. CASE is_parsing
      <4>1. Len(tokens) = 0
        BY <2>1, <2>2, <3>2 DEF MemFound
      <4>2. Said(w, tokens) = <<>>
        BY <4>1, <2>2, SaidValues DEF Said
      <4> QED
        BY <4>2
    <3> QED
      BY <3>1, <3>2
  <2> QED
    BY <2>1, <2>3, <2>4, <2>5, <2>6
<1> QED
  BY <1>1, InfoInvHolds, OutputInvHolds, PTL
=============================================================================
