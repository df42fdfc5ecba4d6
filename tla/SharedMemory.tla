---------------------------- MODULE SharedMemory -----------------------------
(***************************************************************************)
(* struct SharedMemory as built on Linux (src/src/shared_memory/shm.h and  *)
(* shm.cpp), ThreadInformation, which pairs it with a Semaphore, and the   *)
(* thread read_shm that watches the segment (src/src/core/                 *)
(* read_sharedmemory.hpp).  Writers are in the critical region, the reader *)
(* never is.                                                               *)
(*                                                                         *)
(* dirty, cut and stirred are history: segments in the middle of a write,  *)
(* segments whose writer died in it and that were not written since, and   *)
(* readers under whose eyes a write went on.                               *)
(*                                                                         *)
(* The position write_data is given is 0: nothing in the repository calls  *)
(* it with another (main.cpp:76).                                          *)
(***************************************************************************)
EXTENDS Semaphore, Sequences

CONSTANTS
  Messages,  \* what is written: bytes, the first MESSAGE_FILESYSTEM
  Readers,   \* processes that run the thread read_shm
  MaxSegs    \* bound: segments created over time

ASSUME SharedMemoryAssumption ==
  /\ MaxSegs \in Nat \ {0} /\ Readers \subseteq Procs
  /\ \A m \in Messages : m \in Seq(Nat) /\ m # <<>>

VARIABLES
  segment, segments, \* kernel: the segment that has the key or 0, how many were made
  memory,            \* segment -> count, flag (buff[0]) and bytes (the rest)
  attached,          \* the segment each process has attached, or 0
  job,               \* what write_data has still to do in each process
  rpc, rcount,       \* read_shm of each process: next step, its copy of count
  dirty, cut, stirred

memVars == <<segment, segments, memory, attached, job, rpc, rcount, dirty, cut, stirred>>
allVars == <<semVars, memVars>>

Segs == 1 .. MaxSegs
NoJob == <<>>
Mem(p) == memory[attached[p]]
Running(p) == pc[p] \in {"idle", "waiting", "inside"}
Quiet(p) == job[p] = NoJob

\* read_shm is at the start of its loop.
ReadAgain(p) ==
  /\ rpc' = [rpc EXCEPT ![p] = "count"] /\ rcount' = [rcount EXCEPT ![p] = 0]
  /\ stirred' = stirred \ {p}

-----------------------------------------------------------------------------
(* ThreadInformation: SharedMemory is constructed before Semaphore and      *)
(* destroyed after it.                                                      *)

\* shmget and shmat.  A new segment is zeroed.
Attach(p) ==
  /\ pc[p] = "absent" /\ attached[p] = 0
  /\ IF segment # 0
     THEN attached' = [attached EXCEPT ![p] = segment] /\ UNCHANGED <<segment, segments>>
     ELSE /\ segments < MaxSegs
          /\ segments' = segments + 1 /\ segment' = segments + 1
          /\ attached' = [attached EXCEPT ![p] = segments + 1]
  /\ UNCHANGED <<semVars, memory, job, rpc, rcount, dirty, cut, stirred>>

\* Faulty variant: unlocks while write_data is at work.
UseSemaphoreEarly(p) ==
  /\ attached[p] # 0
  /\ \/ SemGet(p) \/ SemGetFails(p) \/ SemCtl(p)
     \/ Acquire(p) \/ Block(p) \/ LockFails(p) \/ LockInvalid(p) \/ Unlock(p)
  /\ UNCHANGED memVars

\* The constructor and the calls of the semaphore.
UseSemaphore(p) ==
  /\ attached[p] # 0 /\ Quiet(p)
  /\ \/ SemGet(p) \/ SemGetFails(p) \/ SemCtl(p)
     \/ Acquire(p) \/ Block(p) \/ LockFails(p) \/ LockInvalid(p) \/ Unlock(p)
  /\ UNCHANGED memVars

\* ~Semaphore; the reader ends with the process.
EndProcess(p) ==
  /\ Quiet(p) /\ Destroy(p)
  /\ ReadAgain(p)
  /\ UNCHANGED <<segment, segments, memory, attached, job, dirty, cut>>

\* ~SharedMemory: the key is free again although others are attached, who keep
\* a segment nobody else will find.
Detach(p) ==
  /\ pc[p] = "absent" /\ attached[p] # 0
  /\ attached' = [attached EXCEPT ![p] = 0]
  /\ segment' = IF attached[p] = segment THEN 0 ELSE segment
  /\ UNCHANGED <<semVars, segments, memory, job, rpc, rcount, dirty, cut, stirred>>

\* A signal, or a failed assertion: detached, not removed.
Vanish(p) ==
  /\ attached' = [attached EXCEPT ![p] = 0]
  /\ job' = [job EXCEPT ![p] = NoJob]
  /\ cut' = IF Quiet(p) THEN cut ELSE cut \cup {attached[p]}
  /\ ReadAgain(p)
  /\ UNCHANGED <<segment, segments, memory, dirty>>

Killed(p) ==
  \/ Die(p) /\ Vanish(p)
  \/ pc[p] = "absent" /\ attached[p] # 0 /\ Vanish(p) /\ UNCHANGED semVars

-----------------------------------------------------------------------------
(* write_data.                                                             *)

\* A process that runs is in the middle of a write to the segment.
BeingWritten(s) == \E p \in Procs : ~Quiet(p) /\ attached[p] = s

\* The readers of p's segment see a write go on.
Stir(p) == stirred' = stirred \cup {q \in Readers : attached[q] = attached[p] /\ rpc[q] # "count"}

\* strlen(data + 1): the last character is left out.
StringCount(m) == Len(m) - 1

\* count is set first, from size or from the string.
WriteCount(p, m, isString) ==
  /\ pc[p] = "inside" /\ Quiet(p)
  /\ LET n == IF isString THEN StringCount(m) ELSE Len(m) IN
       /\ memory' = [memory EXCEPT ![attached[p]].count = n]
       /\ job' = [job EXCEPT ![p] = <<"flag", SubSeq(m, 1, n)>>]
  /\ dirty' = dirty \cup {attached[p]} /\ Stir(p)
  /\ UNCHANGED <<semVars, segment, segments, attached, rpc, rcount, cut>>

\* buff[0] = '0'.
WriteFlag(p) ==
  /\ job[p] # NoJob /\ job[p][1] = "flag"
  /\ memory' = [memory EXCEPT ![attached[p]].flag = "0"]
  /\ job' = [job EXCEPT ![p][1] = "copy"]
  /\ Stir(p)
  /\ UNCHANGED <<semVars, segment, segments, attached, rpc, rcount, dirty, cut>>

\* Bytes of a longer message before stay behind the new ones.
Over(new, old) == new \o SubSeq(old, Len(new) + 1, Len(old))

\* memcpy to buff + 1.
WriteBytes(p) ==
  /\ job[p] # NoJob /\ job[p][1] = "copy"
  /\ memory' = [memory EXCEPT ![attached[p]].bytes = Over(job[p][2], @)]
  /\ job' = [job EXCEPT ![p] = NoJob]
  /\ dirty' = dirty \ {attached[p]} /\ cut' = cut \ {attached[p]} /\ Stir(p)
  /\ UNCHANGED <<semVars, segment, segments, attached, rpc, rcount>>

\* The other side of the segment, written at once: the flag '1' is its own.
Publish(p, m) ==
  /\ pc[p] = "inside" /\ Quiet(p)
  /\ memory' = [memory EXCEPT ![attached[p]] =
                  [count |-> Len(m), flag |-> "1", bytes |-> Over(m, @.bytes)]]
  /\ dirty' = dirty \ {attached[p]} /\ cut' = cut \ {attached[p]} /\ Stir(p)
  /\ UNCHANGED <<semVars, segment, segments, attached, job, rpc, rcount>>

-----------------------------------------------------------------------------
(* read_shm.                                                               *)

ReadCount(p) ==
  /\ Running(p) /\ rpc[p] = "count"
  /\ rcount' = [rcount EXCEPT ![p] = Mem(p).count]
  /\ rpc' = [rpc EXCEPT ![p] = "flag"]
  /\ stirred' = IF BeingWritten(attached[p]) THEN stirred \cup {p} ELSE stirred \ {p}
  /\ UNCHANGED <<semVars, segment, segments, memory, attached, job, dirty, cut>>

\* data[0], and the type of a message that is not empty.
ReadFlag(p) ==
  /\ Running(p) /\ rpc[p] = "flag"
  /\ IF Mem(p).flag = "1" /\ rcount[p] >= 1
     THEN rpc' = [rpc EXCEPT ![p] = "copy"] /\ UNCHANGED <<rcount, stirred>>
     ELSE ReadAgain(p)
  /\ UNCHANGED <<semVars, segment, segments, memory, attached, job, dirty, cut>>

\* What is behind the bytes written so far is zero.
Content(s, n) ==
  [i \in 1 .. n |-> IF i <= Len(memory[s].bytes) THEN memory[s].bytes[i] ELSE 0]

\* Faulty variant: one byte too many.
ReadTooFar(p) == Content(attached[p], rcount[p] + 1)

\* data[1] to data[count].
ReadBytes(p) == Content(attached[p], rcount[p])

\* The message is deserialized; the assertion ends the process if it is none.
Take(p) ==
  /\ Running(p) /\ rpc[p] = "copy"
  /\ ReadBytes(p) \in Messages
  /\ ReadAgain(p)
  /\ UNCHANGED <<semVars, segment, segments, memory, attached, job, dirty, cut>>

AbortReading(p) ==
  /\ Running(p) /\ rpc[p] = "copy"
  /\ ReadBytes(p) \notin Messages
  /\ Die(p) /\ Vanish(p)

-----------------------------------------------------------------------------
Writer(p) ==
  \/ \E m \in Messages : Publish(p, m) \/ \E isString \in BOOLEAN : WriteCount(p, m, isString)
  \/ WriteFlag(p) \/ WriteBytes(p)
Reader(p) == ReadCount(p) \/ ReadFlag(p) \/ Take(p) \/ AbortReading(p)

MemNext ==
  \E p \in Procs :
    \/ Attach(p) \/ UseSemaphore(p) \/ EndProcess(p) \/ Detach(p) \/ Killed(p)
    \/ Writer(p)
    \/ p \in Readers /\ Reader(p)

MemInit ==
  /\ SemInit
  /\ segment = 0 /\ segments = 0
  /\ memory = [s \in Segs |-> [count |-> 0, flag |-> "", bytes |-> <<>>]]
  /\ attached = [p \in Procs |-> 0] /\ job = [p \in Procs |-> NoJob]
  /\ rpc = [p \in Procs |-> "count"] /\ rcount = [p \in Procs |-> 0]
  /\ dirty = {} /\ cut = {} /\ stirred = {}

MemSpec == MemInit /\ [][MemNext]_allVars

-----------------------------------------------------------------------------
(* Properties.                                                             *)

\* Every variable has its type.
MemTypeOK ==
  /\ segment \in 0 .. MaxSegs /\ segments \in 0 .. MaxSegs
  /\ memory \in [Segs -> [count : Nat, flag : {"", "0", "1"}, bytes : Seq(Nat)]]
  /\ attached \in [Procs -> 0 .. MaxSegs]
  /\ job \in [Procs -> {NoJob} \cup ({"flag", "copy"} \X Seq(Nat))]
  /\ rpc \in [Procs -> {"count", "flag", "copy"}] /\ rcount \in [Procs -> Nat]
  /\ dirty \subseteq Segs /\ cut \subseteq Segs /\ stirred \subseteq Readers

\* What write_data leaves behind is one message, or a string without its last
\* character, never a mixture of two, as long as the critical region is one
\* process's and no writer dies (shm.cpp:8-16, semaphore.hpp:114-140).
Written(s) == Content(s, memory[s].count)
WholeWhenFree ==
  spoiled = {} /\ ~(\E p \in Procs : pc[p] = "inside") =>
    \A s \in Segs \ cut :
      \/ memory[s].count = 0
      \/ \E m \in Messages : Written(s) \in {m, SubSeq(m, 1, Len(m) - 1)}

\* The reader's assertion only fails on a message that is being written, by a process
\* that runs, between the reader's look at the count and its copy of the bytes, or in
\* a segment whose last writer died in its write: it reads count, flag and bytes one
\* after the other and without the semaphore (read_sharedmemory.hpp:50-61).
TornOnlyUnderWrite ==
  spoiled = {} => \A p \in Procs :
    rpc[p] = "copy" /\ ReadBytes(p) \notin Messages => p \in stirred \/ attached[p] \in cut

\* A process that runs is attached, one that writes is in the critical region,
\* and only the thread read_shm of a running process reads.
PlacesInv ==
  \A p \in Procs :
    /\ pc[p] # "absent" => attached[p] # 0
    /\ ~Quiet(p) => pc[p] = "inside"
    /\ rpc[p] # "count" => p \in Readers /\ Running(p)

\* A write under way: the count is there already, the flag from its step on.
WritingInv ==
  \A p \in Procs : ~Quiet(p) =>
    /\ attached[p] \in dirty
    /\ Mem(p).count = Len(job[p][2])
    /\ \E m \in Messages : job[p][2] \in {m, SubSeq(m, 1, Len(m) - 1)}
    /\ job[p][1] = "copy" => Mem(p).flag = "0"

DirtyInv == \A s \in dirty : s \in cut \/ BeingWritten(s)

CleanInv ==
  \A s \in Segs \ dirty :
    /\ memory[s].count = 0 \/ \E m \in Messages : Written(s) \in {m, SubSeq(m, 1, Len(m) - 1)}
    /\ memory[s].flag = "1" => Written(s) \in Messages

\* What a reader has seen is still there, if no write went on since; what was half
\* written is a dead writer's.
UnstirredInv ==
  \A p \in Procs \ stirred : rpc[p] # "count" =>
    /\ attached[p] \in dirty => attached[p] \in cut
    /\ rcount[p] = Mem(p).count
    /\ rpc[p] = "copy" => Mem(p).flag = "1"

\* Why: a segment nobody writes in, and in which no writer died, holds one
\* message, and the message is whole if the flag says that it is the other
\* side's; this needs the writers to be one at a time.
SegmentsInv == WritingInv /\ DirtyInv /\ CleanInv /\ UnstirredInv
MemInv == PlacesInv /\ (spoiled = {} => SegmentsInv)
=============================================================================
