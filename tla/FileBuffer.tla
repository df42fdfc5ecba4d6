----------------------------- MODULE FileBuffer ------------------------------
(***************************************************************************)
(* FileBufReader and FileBufWriter (src/src/filesystem/fs.hpp), each over  *)
(* one OSFile.  The bytes of the file that is read are numbered, so that   *)
(* what the buffer holds says where it is from; 0 is memory that was never *)
(* written.                                                                *)
(***************************************************************************)
EXTENDS Integers, SequencesExt

CONSTANTS
  Capacity,   \* DEFAULT_BUFFER_SIZE: 4096 in the code
  PtrRange,   \* values of read_ptr: 256 in the code, which is a byte
  FileLength, \* bytes of the file that is read
  Formats,    \* formats of Scanf
  MaxWritten  \* bound: bytes printed

ASSUME FileBufferAssumption ==
  /\ Capacity \in Nat /\ PtrRange \in Nat \ {0} /\ FileLength \in Nat /\ MaxWritten \in Nat
  /\ \A f \in Formats : f \in Seq({"blank", "%d", "%s", "other"})

VARIABLES
  fetched,   \* bytes of the file that fread has returned
  data,      \* Buffer::data of the reader
  pos,       \* Buffer::pos: bytes that are valid
  read_ptr,
  got,       \* what Read has copied last
  scan,      \* Scanf: the format, the place in it, the bytes consumed; or not in Scanf
  out,       \* bytes of the file that is written
  wdata,     \* Buffer::data of the writer, up to its pos
  printed,   \* history: what Printf was given
  fileStatus \* "ok", or what a call has ended in

readerVars == <<fetched, data, pos, read_ptr, got, scan>>
writerVars == <<out, wdata, printed>>
fileVars == <<readerVars, writerVars, fileStatus>>

NotScanning == [fmt |-> <<>>, pos |-> 0, in_pos |-> 0]
Bytes(from, n) == [i \in 1 .. n |-> from + i]
Least(a, b) == IF a < b THEN a ELSE b

\* FetchBlockWithSize: fread.
Fetched(size) == Least(size, FileLength - fetched)

\* The constructors.
FileInit ==
  /\ fetched = Least(Capacity, FileLength) /\ pos = fetched
  /\ data = Bytes(0, pos) \o [i \in 1 .. Capacity - pos |-> 0]
  /\ read_ptr = 0 /\ got = <<>> /\ scan = NotScanning
  /\ out = <<>> /\ wdata = <<>> /\ printed = <<>>
  /\ fileStatus = "ok"

Ready == fileStatus = "ok" /\ scan = NotScanning

-----------------------------------------------------------------------------
(* The reader.                                                             *)

Copied(size, from) == [i \in 1 .. size |-> data[from + i]]

\* There is enough in the buffer.  Read has no return statement then.
ReadBuffered(size) ==
  /\ Ready /\ size < pos - read_ptr
  /\ got' = Copied(size, read_ptr)
  /\ UNCHANGED <<fetched, data, pos, read_ptr, scan, writerVars, fileStatus>>

\* The buffer was not filled: the end of the file, nothing is copied.
ReadNothing(size) ==
  /\ Ready /\ size >= pos - read_ptr /\ pos # Capacity
  /\ got' = <<>>
  /\ UNCHANGED <<fetched, data, pos, read_ptr, scan, writerVars, fileStatus>>

\* Faulty variant: the read pointer stays where it was.
ReadFetchingAhead(size) ==
  /\ Ready /\ size < Capacity /\ size >= pos - read_ptr /\ pos = Capacity
  /\ LET rest == pos - read_ptr
         n == Fetched(Capacity - rest)
         moved == Copied(rest, read_ptr) \o Bytes(fetched, n)
     IN /\ pos' = rest + n /\ fetched' = fetched + n
        /\ data' = moved \o SubSeq(data, rest + n + 1, Capacity)
        /\ IF size < rest + n
           THEN got' = [i \in 1 .. size |-> data'[read_ptr + i]] /\ UNCHANGED fileStatus
           ELSE fileStatus' = "assert_read" /\ UNCHANGED got
        /\ UNCHANGED read_ptr
  /\ UNCHANGED <<scan, writerVars>>

\* What is left is moved to the start and the rest is fetched; the assertion fails
\* when the file has no more.
ReadFetching(size) ==
  /\ Ready /\ size < Capacity /\ size >= pos - read_ptr /\ pos = Capacity
  /\ LET rest == pos - read_ptr
         n == Fetched(Capacity - rest)
         moved == Copied(rest, read_ptr) \o Bytes(fetched, n)
     IN /\ pos' = rest + n /\ fetched' = fetched + n /\ read_ptr' = 0
        /\ data' = moved \o SubSeq(data, rest + n + 1, Capacity)
        /\ IF size < rest + n
           THEN got' = SubSeq(moved, 1, size) /\ UNCHANGED fileStatus
           ELSE fileStatus' = "assert_read" /\ UNCHANGED got
  /\ UNCHANGED <<scan, writerVars>>

\* The sum is assigned to a byte.
Skip(n) ==
  /\ Ready /\ read_ptr + n < pos
  /\ read_ptr' = (read_ptr + n) % PtrRange
  /\ UNCHANGED <<fetched, data, pos, got, scan, writerVars, fileStatus>>

Unread(n) ==
  /\ Ready
  /\ read_ptr' = IF read_ptr < n THEN 0 ELSE read_ptr - n
  /\ UNCHANGED <<fetched, data, pos, got, scan, writerVars, fileStatus>>

Scanf(fmt) ==
  /\ Ready
  /\ scan' = [fmt |-> fmt, pos |-> 1, in_pos |-> 0]
  /\ UNCHANGED <<fetched, data, pos, read_ptr, got, writerVars, fileStatus>>

\* A conversion is two characters of the format, the rest one.
Characters(fmt, from) ==
  FoldLeft(LAMBDA n, c : n + (IF c \in {"%d", "%s"} THEN 2 ELSE 1), 0, SubSeq(fmt, from, Len(fmt)))

\* pos < fmt_len - 1, unsigned: of the empty format that is the greatest number.  A
\* character of no action below is not stepped over: the loop goes on for ever.
InFormat ==
  /\ scan # NotScanning /\ fileStatus = "ok"
  /\ scan.fmt = <<>> \/ Characters(scan.fmt, scan.pos) > 1
At(c) == InFormat /\ scan.pos \in DOMAIN scan.fmt /\ scan.fmt[scan.pos] = c

ScanBlank ==
  /\ At("blank")
  /\ scan' = [scan EXCEPT !.pos = @ + 1]
  /\ UNCHANGED <<fetched, data, pos, read_ptr, got, writerVars, fileStatus>>

\* %d and %f: strtol finds a number in the buffer, or the assertion fails.  Of what
\* is in the buffer: the file does not end in a number.
ScanNumber ==
  /\ At("%d")
  /\ \/ /\ \E n \in 1 .. pos - read_ptr - scan.in_pos :
             scan' = [scan EXCEPT !.pos = @ + 1, !.in_pos = @ + n]
        /\ UNCHANGED fileStatus
     \/ fileStatus' = "assert_scan" /\ UNCHANGED scan
  /\ UNCHANGED <<fetched, data, pos, read_ptr, got, writerVars>>

\* Faulty variant: the format is not stepped over.
ScanStringAgain ==
  /\ At("%s")
  /\ UNCHANGED fileVars

\* %s, and %c, which falls through to it: nothing is consumed.
ScanString ==
  /\ At("%s")
  /\ scan' = [scan EXCEPT !.pos = @ + 1]
  /\ UNCHANGED <<fetched, data, pos, read_ptr, got, writerVars, fileStatus>>

ScanReturns ==
  /\ scan # NotScanning /\ ~InFormat /\ fileStatus = "ok"
  /\ read_ptr' = (read_ptr + scan.in_pos) % PtrRange
  /\ scan' = NotScanning
  /\ UNCHANGED <<fetched, data, pos, got, writerVars, fileStatus>>

-----------------------------------------------------------------------------
(* The writer.                                                             *)

\* vsprintf and its terminator; the assertion is compiled with _DEBUG only.
Printf(n) ==
  /\ Ready /\ Len(printed) + n <= MaxWritten
  /\ LET text == Bytes(Len(printed), n) IN
       /\ wdata' = wdata \o text /\ printed' = printed \o text
       /\ fileStatus' = IF Len(wdata) + n < Capacity THEN fileStatus ELSE "overrun"
  /\ UNCHANGED <<readerVars, out>>

\* Write copies to data + pos, and leaves pos: nothing of it counts.
Write(n) ==
  /\ Ready
  /\ fileStatus' = IF n < Capacity - Len(wdata) THEN fileStatus ELSE "assert_write"
  /\ UNCHANGED <<readerVars, writerVars>>

\* Faulty variant: pos is kept.
FlushAgain ==
  /\ Ready /\ out' = out \o wdata
  /\ UNCHANGED <<readerVars, wdata, printed, fileStatus>>

Flush ==
  /\ Ready /\ out' = out \o wdata /\ wdata' = <<>>
  /\ UNCHANGED <<readerVars, printed, fileStatus>>

\* Scanf is a loop in one thread.
Scan == ScanBlank \/ ScanNumber \/ ScanString \/ ScanReturns

ReaderNext ==
  \/ \E n \in 0 .. Capacity : ReadBuffered(n) \/ ReadNothing(n) \/ ReadFetching(n) \/ Skip(n) \/ Unread(n)
  \/ \E fmt \in Formats : Scanf(fmt)
  \/ Scan

WriterNext ==
  \/ \E n \in 1 .. Capacity : Printf(n) \/ Write(n)
  \/ Flush

\* The place in the file that is read next.
Place == fetched - pos + read_ptr

\* Read gives the bytes at the place in the file, and leaves the place, also when
\* it moves what is left and fetches more (fs.hpp:129-150).
ReadsAtPlace ==
  [][got' # got /\ got' # <<>> => Place' = Place /\ got' = Bytes(Place, Len(got'))]_fileVars

\* All that was printed arrives in the file once and in order, Write between or not
\* (fs.hpp:73-103).
PrintedOnce == fileStatus # "overrun" => out \o wdata = printed

\* What Scanf can step over: there is a format, and in it, before its last place,
\* nothing but blanks and conversions.
Steppable(fmt) == fmt # <<>> /\ \A i \in DOMAIN fmt : fmt[i] = "other" => i = Len(fmt)

\* Scanf returns from such a format, unless an assertion fails (fs.hpp:195-251).  From
\* the empty one it does not: fmt_len - 1 is then the greatest number (fs.hpp:195).
ScanEnds ==
  scan # NotScanning /\ Steppable(scan.fmt) ~> scan = NotScanning \/ fileStatus # "ok"
=============================================================================
