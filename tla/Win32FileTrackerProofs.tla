----------------------- MODULE Win32FileTrackerProofs -----------------------
(* For any directories: the poll stays inside its arrays, what is reported  *)
(* names the directory it is of, and the tracker implements the change feed. *)
EXTENDS Win32FileTracker, CommonLemmas

\* What the invariant speaks of.
boundsVars == <<tracked_directory, todo, index, dir_count, cdir, lpc, reset_tracking,
                lost, DOMAIN overlap>>

LEMMA BoundsUnchanged ==
  ASSUME BoundsInv, UNCHANGED boundsVars
  PROVE  BoundsInv'
BY DEF BoundsInv, boundsVars, PollInBounds, Locked

\* A read that is done, or begun, leaves the slots as they are.
LEMMA CompleteKeepsSlots ==
  ASSUME NEW j, NEW entries, Complete(j, entries)
  PROVE  DOMAIN overlap' = DOMAIN overlap
BY DEF Complete

LEMMA ReadKeepsSlots ==
  ASSUME NEW d, NEW j, ReadDirectoryChanges(d, j)
  PROVE  DOMAIN overlap' = DOMAIN overlap
BY CompleteKeepsSlots DEF ReadDirectoryChanges

LEMMA WriteKeepsBounds ==
  ASSUME BoundsInv, NEW d \in Dirs, NEW n \in Names, Write(d, n)
  PROVE  BoundsInv'
<1>1. DOMAIN overlap' = DOMAIN overlap
  BY CompleteKeepsSlots DEF Write, WriteHeld, WriteRead, WriteStray, arrayVars
<1> QED
  BY <1>1, BoundsUnchanged DEF Write, boundsVars, mapVars, flagVars, callerVars, iterVars,
     WriteHeld, WriteRead, WriteStray, arrayVars

\* The caller's steps.
LEMMA CallerKeepsBounds ==
  ASSUME Win32Assumption, BoundsInv, Caller
  PROVE  BoundsInv'
<1>1. SomeDir \in Dirs
  BY DEF Win32Assumption, SomeDir
<1>2. ASSUME NEW d \in Dirs, NEW n \in Requested, TrackFile(d, n)
      PROVE  BoundsInv'
  BY <1>2 DEF TrackFile, BoundsInv, PollInBounds, Locked, mapVars, flagVars, iterVars, arrayVars
<1>3. CASE AddToDirectory
  BY <1>1, <1>3 DEF AddToDirectory, CallerReturns, BoundsInv, PollInBounds, Locked, Polling,
     Allocated, iterVars, arrayVars
<1>4. CASE AddDirectory
  <2>1. /\ tracked_directory' \in Seq(Dirs)
        /\ Len(tracked_directory') = Len(tracked_directory) + 1
    <3>1. PICK i \in 1 .. Len(tracked_directory) + 1 :
            tracked_directory' = InsertAt(tracked_directory, i, cdir)
      BY <1>4 DEF AddDirectory, InsertDirectory
    <3> QED
      BY <3>1, InsertAtElements DEF BoundsInv
  <2>2. todo' \in Seq(Dirs)
    <3>1. CASE UNCHANGED todo
      BY <3>1 DEF BoundsInv
    <3>2. CASE \E i \in 2 .. Len(todo) + 1 : todo' = InsertAt(todo, i, cdir)
      BY <3>2, InsertAtElements DEF BoundsInv
    <3> QED
      BY <1>4, <3>1, <3>2 DEF AddDirectory, InsertDirectory
  <2>3. /\ reset_tracking' = TRUE /\ cdir' = SomeDir
        /\ lost' = (lost \/ lpc = "allocate")
        /\ UNCHANGED <<lpc, index, dir_count, overlap>>
    BY <1>4 DEF AddDirectory, CallerReturns, arrayVars
  <2>4. ~Locked
    BY <1>4 DEF AddDirectory
  <2>5. PollInBounds'
    BY <2>3, <2>4 DEF PollInBounds, Locked
  <2>6. Len(tracked_directory) \in Nat
    BY DEF BoundsInv
  <2>7. /\ index' \in Nat \ {0} /\ dir_count' \in Nat /\ cdir' \in Dirs
        /\ lpc' = "allocate" => lost'
        /\ lpc' # "parse"
    BY <1>1, <2>3, <2>4 DEF BoundsInv, Locked, Polling
  <2>8. lpc' = "allocate" \/ lpc' \in Allocated => dir_count' <= Len(tracked_directory')
    BY <2>1, <2>3, <2>6 DEF BoundsInv
  <2>9. lpc' \in Allocated => DOMAIN overlap' = 1 .. dir_count'
    BY <2>3 DEF BoundsInv
  <2> QED
    BY <2>1, <2>2, <2>3, <2>4, <2>5, <2>7, <2>8, <2>9 DEF BoundsInv, Locked
<1>5. CASE TryPopChangeInfo
  BY <1>5, BoundsUnchanged DEF TryPopChangeInfo, boundsVars, mapVars, flagVars, callerVars,
     iterVars, arrayVars
<1>6. CASE StopListening
  BY <1>6, BoundsUnchanged DEF StopListening, boundsVars, mapVars, callerVars, iterVars, arrayVars
<1> QED
  BY <1>2, <1>3, <1>4, <1>5, <1>6 DEF Caller

\* The listener's steps outside the poll.
LEMMA OuterLoopKeepsBounds ==
  ASSUME BoundsInv,
         \/ Begin \/ Check \/ Leave \/ CountDirectories \/ Allocate
         \/ Iterate \/ ListenDirectory \/ ListenPast \/ EndListen
  PROVE  BoundsInv'
<1> USE DEF BoundsInv, PollInBounds, Locked, Polling, Allocated
<1>1. CASE Begin
  BY <1>1 DEF Begin, mapVars, callerVars, iterVars, arrayVars
<1>2. CASE Check
  BY <1>2 DEF Check, mapVars, flagVars, callerVars, iterVars, arrayVars
<1>3. CASE Leave
  BY <1>3 DEF Leave, FreeArrays, mapVars, flagVars, callerVars, iterVars
<1>4. CASE CountDirectories
  BY <1>4 DEF CountDirectories, FreeArrays, mapVars, flagVars, callerVars, iterVars
<1>5. CASE Allocate
  <2>1. DOMAIN overlap' = 1 .. dir_count'
    BY <1>5 DEF Allocate
  <2> QED
    BY <1>5, <2>1 DEF Allocate, mapVars, callerVars, iterVars
<1>6. CASE Iterate
  BY <1>6 DEF Iterate, mapVars, flagVars, callerVars, arrayVars
<1>7. CASE ListenDirectory
  <2>1. DOMAIN overlap' = DOMAIN overlap
    BY <1>7, ReadKeepsSlots DEF ListenDirectory
  <2>2. todo' \in Seq(Dirs) /\ Len(todo') = Len(todo) - 1 /\ index' = index + 1
    BY <1>7 DEF ListenDirectory, NextDirectory
  <2> QED
    BY <1>7, <2>1, <2>2 DEF ListenDirectory, mapVars, flagVars, callerVars
<1>8. CASE EndListen
  BY <1>8 DEF EndListen, mapVars, flagVars, callerVars, iterVars, arrayVars
<1>9. CASE ListenPast
  <2>1. todo' \in Seq(Dirs) /\ Len(todo') = Len(todo) - 1 /\ index' = index + 1
    BY <1>9 DEF ListenPast, NextDirectory
  <2> QED
    BY <1>9, <2>1 DEF ListenPast, mapVars, flagVars, callerVars, arrayVars
<1> QED
  BY <1>1, <1>2, <1>3, <1>4, <1>5, <1>6, <1>7, <1>8, <1>9

\* On to the next directory of a poll.
LEMMA NextKeepsBounds ==
  ASSUME BoundsInv, Locked, todo # <<>>, NextDirectory, lpc' = "poll",
         UNCHANGED <<tracked_directory, dir_count, cdir, reset_tracking, lost, DOMAIN overlap>>
  PROVE  BoundsInv'
<1>1. /\ todo' \in Seq(Dirs) /\ Len(todo') = Len(todo) - 1
      /\ \A i \in 1 .. Len(todo') : todo'[i] = todo[i + 1]
  BY DEF BoundsInv, NextDirectory
<1>2. index' = index + 1
  BY DEF NextDirectory
<1>3. \A i \in 1 .. Len(todo') : todo'[i] = tracked_directory[i + index' - 1]
  <2> TAKE i \in 1 .. Len(todo')
  <2>1. todo[i + 1] = tracked_directory[(i + 1) + index - 1] /\ i + 1 \in 1 .. Len(todo)
    BY <1>1 DEF BoundsInv, PollInBounds
  <2>2. (i + 1) + index - 1 = i + index' - 1
    BY <1>2 DEF BoundsInv
  <2>3. todo'[i] = todo[i + 1]
    BY <1>1
  <2> QED
    BY <2>1, <2>2, <2>3
<1>4. /\ ~lost => dir_count = Len(tracked_directory)
      /\ DOMAIN overlap = 1 .. dir_count
      /\ index = 1 + Len(tracked_directory) - Len(todo)
      /\ dir_count \in Nat /\ index \in Nat \ {0} /\ Len(todo) \in Nat
      /\ Len(tracked_directory) \in Nat /\ dir_count <= Len(tracked_directory)
      /\ ~reset_tracking
  BY DEF BoundsInv, PollInBounds, Allocated, Locked
<1>5. index' \in Nat \ {0} /\ index' = 1 + Len(tracked_directory) - Len(todo')
  BY <1>1, <1>2, <1>4
<1>6. PollInBounds'
  BY <1>3, <1>4, <1>5 DEF PollInBounds
<1> QED
  BY <1>1, <1>4, <1>5, <1>6 DEF BoundsInv, Allocated, Polling

\* The listener's steps in the poll.
LEMMA PollKeepsBounds ==
  ASSUME BoundsInv,
         \/ Wait \/ PollPending \/ PollPast \/ PollComplete \/ EndPoll
         \/ ReportEntry \/ SkipEntry \/ SkipFresh
  PROVE  BoundsInv'
<1>1. CASE Wait
  BY <1>1 DEF Wait, BoundsInv, PollInBounds, Locked, Polling, Allocated, mapVars, flagVars,
     callerVars, arrayVars
<1>2. CASE PollPending \/ PollPast
  BY <1>2, NextKeepsBounds DEF PollPending, PollPast, Locked, Polling, mapVars, flagVars, callerVars,
     arrayVars
<1>3. CASE PollComplete
  BY <1>3 DEF PollComplete, BoundsInv, PollInBounds, Locked, Polling, Allocated, mapVars, flagVars,
     callerVars, arrayVars
<1>4. CASE EndPoll
  BY <1>4 DEF EndPoll, BoundsInv, PollInBounds, Locked, Polling, Allocated, mapVars, flagVars,
     callerVars, arrayVars
<1>5. ASSUME lpc = "parse", AfterEntry \/ EntriesDone,
             UNCHANGED <<tracked_directory, dir_count, cdir, reset_tracking, lost>>
      PROVE  BoundsInv'
  <2>1. Locked /\ todo # <<>>
    BY <1>5 DEF BoundsInv, Locked, Polling
  <2>2. CASE EntriesDone
    <3>1. DOMAIN overlap' = DOMAIN overlap
      BY <2>2 DEF EntriesDone
    <3> QED
      BY <1>5, <2>1, <2>2, <3>1, NextKeepsBounds DEF EntriesDone
  <2>3. CASE UNCHANGED <<lpc, todo, index, relisten, overlap>>
    BY <1>5, <2>3, BoundsUnchanged DEF boundsVars
  <2> QED
    BY <1>5, <2>2, <2>3 DEF AfterEntry
<1>6. CASE ReportEntry
  BY <1>5, <1>6 DEF ReportEntry, ParseEntry, mapVars, flagVars, callerVars
<1>7. CASE SkipEntry
  BY <1>5, <1>7 DEF SkipEntry, ParseEntry, mapVars, flagVars, callerVars
<1>8. CASE SkipFresh
  BY <1>5, <1>8 DEF SkipFresh, mapVars, flagVars, callerVars
<1> QED
  BY <1>1, <1>2, <1>3, <1>4, <1>6, <1>7, <1>8

LEMMA BoundsInit ==
  ASSUME Win32Assumption, Init
  PROVE  BoundsInv
<1>1. SomeDir \in Dirs
  BY DEF Win32Assumption, SomeDir
<1> QED
  BY <1>1 DEF Init, BoundsInv, PollInBounds, Locked, Polling, Allocated

\* BoundsInv is inductive.
LEMMA BoundsStep ==
  ASSUME Win32Assumption, BoundsInv, [Next]_vars
  PROVE  BoundsInv'
<1>1. CASE UNCHANGED vars
  BY <1>1, BoundsUnchanged DEF vars, boundsVars, mapVars, flagVars, callerVars, iterVars, arrayVars
<1>2. CASE DataRace
  BY <1>2, BoundsUnchanged DEF DataRace, boundsVars, mapVars, flagVars, callerVars, iterVars, arrayVars
<1>3. CASE Environment
  BY <1>3, WriteKeepsBounds DEF Environment
<1>4. CASE Caller
  BY <1>4, CallerKeepsBounds
<1>5. CASE Listener
  BY <1>5, OuterLoopKeepsBounds, PollKeepsBounds DEF Listener
<1> QED
  BY <1>1, <1>2, <1>3, <1>4, <1>5 DEF Next

\* Between the count of the directories and the poll of them, every directory
\* that is added asks for a reset that keeps the listener out of the poll, unless it
\* is added between the count and the clearing of the flag (file_track.cpp:162-211).
THEOREM CountedBeforePoll == Spec => []BoundsInv
<1>1. Init => BoundsInv
  BY BoundsInit, Win32Assumption
<1>2. BoundsInv /\ [Next]_vars => BoundsInv'
  BY BoundsStep, Win32Assumption
<1> QED
  BY <1>1, <1>2, PTL DEF Spec

\* For any directories and files and wherever a new directory comes in the
\* iteration, the poll under the lock is at the slot of the directory it visits, and
\* has one for each of them, if none was added between the count of the directories
\* and the clearing of the flag: then its reset is lost, and the poll goes on behind
\* the arrays (file_track.cpp:162-181, 210-293).
THEOREM PollStaysInBounds == Spec => []PollInBounds
<1>1. BoundsInv => PollInBounds
  BY DEF BoundsInv
<1> QED
  BY <1>1, CountedBeforePoll, PTL
-----------------------------------------------------------------------------
(* Types.                                                                  *)

\* The entries in a buffer are new ones, or those that were in the same place.
LEMMA FillType ==
  ASSUME NEW old \in Seq(Entries), NEW new \in Seq(Changes)
  PROVE  /\ Fill(old, new) \in Seq(Entries)
         /\ \A i \in 1 .. Len(Fill(old, new)) :
              \/ i \in 1 .. Len(new) /\ Fill(old, new)[i].change = new[i]
              \/ i \in 1 .. Len(old) /\ Fill(old, new)[i] = old[i]
<1> DEFINE n == IF Len(new) > Len(old) THEN Len(new) ELSE Len(old)
<1>1. n \in Nat /\ DOMAIN Fill(old, new) = 1 .. n
  BY DEF Fill
<1>2. ASSUME NEW i \in 1 .. n
      PROVE  /\ Fill(old, new)[i] \in Entries
             /\ \/ i \in 1 .. Len(new) /\ Fill(old, new)[i].change = new[i]
                \/ i \in 1 .. Len(old) /\ Fill(old, new)[i] = old[i]
  <2>1. CASE i <= Len(new)
    <3>1. Fill(old, new)[i] = [change |-> new[i], more |-> i < Len(new)]
      BY <2>1 DEF Fill
    <3>2. new[i] \in Changes /\ (i < Len(new)) \in BOOLEAN /\ i \in 1 .. Len(new)
      BY <2>1
    <3> QED
      BY <3>1, <3>2 DEF Entries
  <2>2. CASE ~(i <= Len(new))
    <3>1. Fill(old, new)[i] = old[i] /\ i \in 1 .. Len(old)
      BY <2>2 DEF Fill
    <3>2. old[i] \in Entries
      BY <3>1
    <3> QED
      BY <3>1, <3>2
  <2> QED
    BY <2>1, <2>2
<1>3. Fill(old, new) = [i \in 1 .. n |-> Fill(old, new)[i]]
  BY DEF Fill
<1>4. Fill(old, new) \in Seq(Entries) /\ Len(Fill(old, new)) = n
  <2> DEFINE f == Fill(old, new)
  <2> HIDE DEF f, n
  <2> SUFFICES f \in Seq(Entries) /\ Len(f) = n
    BY DEF f
  <2>1. n \in Nat /\ f = [i \in 1 .. n |-> f[i]] /\ \A i \in 1 .. n : f[i] \in Entries
    BY <1>1, <1>2, <1>3 DEF f
  <2> QED
    BY <2>1
<1> QED
  BY <1>1, <1>2, <1>4

LEMMA CompleteType ==
  ASSUME ArraysTypeOK, NEW j \in DOMAIN overlap, NEW entries \in Seq(Changes),
         Complete(j, entries), UNCHANGED dir_count
  PROVE  ArraysTypeOK' /\ DOMAIN overlap' = DOMAIN overlap
<1>1. Fill(read_buffer[j], entries) \in Seq(Entries)
  BY FillType DEF ArraysTypeOK
<1> QED
  BY <1>1 DEF ArraysTypeOK, Complete

\* A change of a file.
LEMMA WriteType ==
  ASSUME ArraysTypeOK, KernelTypeOK, status = "running", NEW d \in Dirs, NEW n \in Names,
         WriteHeld(d, n) \/ WriteRead(d, n) \/ WriteStray(d, n)
  PROVE  /\ ArraysTypeOK' /\ KernelTypeOK'
         /\ status' \in {"running", "heap_corrupted"}
<1>1. Change(d, n) \in Changes
  BY DEF Change, Changes
<1>2. reads[d] \in Seq({Stray} \cup DOMAIN overlap) /\ held[d] \in Seq(Changes)
  BY DEF KernelTypeOK
<1>3. CASE WriteHeld(d, n)
  <2>1. held' \in [Dirs -> Seq(Changes)]
    <3>1. Append(held[d], Change(d, n)) \in Seq(Changes) /\ <<>> \in Seq(Changes)
      BY <1>1, <1>2
    <3> QED
      BY <1>3, <3>1 DEF WriteHeld, KernelTypeOK
  <2> QED
    BY <1>3, <2>1 DEF WriteHeld, arrayVars, ArraysTypeOK, KernelTypeOK
<1>4. CASE WriteRead(d, n)
  <2>1. Head(reads[d]) \in DOMAIN overlap /\ Tail(reads[d]) \in Seq({Stray} \cup DOMAIN overlap)
    BY <1>2, <1>4 DEF WriteRead
  <2>2. <<Change(d, n)>> \in Seq(Changes)
    BY <1>1
  <2>3. ArraysTypeOK' /\ DOMAIN overlap' = DOMAIN overlap
    BY <1>4, <2>1, <2>2, CompleteType DEF WriteRead
  <2> QED
    BY <1>4, <2>1, <2>3 DEF WriteRead, KernelTypeOK
<1>5. CASE WriteStray(d, n)
  <2>1. Tail(reads[d]) \in Seq({Stray} \cup DOMAIN overlap)
    BY <1>2, <1>5 DEF WriteStray
  <2> QED
    BY <1>5, <2>1 DEF WriteStray, arrayVars, ArraysTypeOK, KernelTypeOK
<1> QED
  BY <1>3, <1>4, <1>5

\* A read that is started.
LEMMA ReadType ==
  ASSUME ArraysTypeOK, KernelTypeOK, NEW d \in Dirs, NEW j \in DOMAIN overlap,
         ReadDirectoryChanges(d, j), UNCHANGED dir_count
  PROVE  ArraysTypeOK' /\ KernelTypeOK'
<1>1. reads[d] \in Seq({Stray} \cup DOMAIN overlap) /\ held[d] \in Seq(Changes)
  BY DEF KernelTypeOK
<1>2. CASE held[d] # <<>> \/ d \in overflown
  <2>1. ArraysTypeOK' /\ DOMAIN overlap' = DOMAIN overlap
    BY <1>1, <1>2, CompleteType DEF ReadDirectoryChanges
  <2>2. held' \in [Dirs -> Seq(Changes)]
    <3>1. <<>> \in Seq(Changes)
      OBVIOUS
    <3> QED
      BY <1>2, <3>1 DEF ReadDirectoryChanges, KernelTypeOK
  <2> QED
    BY <1>2, <2>1, <2>2 DEF ReadDirectoryChanges, KernelTypeOK
<1>3. CASE ~(held[d] # <<>> \/ d \in overflown)
  <2>1. Append(reads[d], j) \in Seq({Stray} \cup DOMAIN overlap)
    BY <1>1
  <2>2. ArraysTypeOK' /\ DOMAIN overlap' = DOMAIN overlap
    BY <1>3 DEF ReadDirectoryChanges, ArraysTypeOK
  <2> QED
    BY <1>3, <2>1, <2>2 DEF ReadDirectoryChanges, KernelTypeOK
<1> QED
  BY <1>2, <1>3

\* A read that is started behind the arrays, if one is.
LEMMA StrayReadType ==
  ASSUME KernelTypeOK, ListenPast, Head(todo) \in Dirs
  PROVE  KernelTypeOK'
<1> DEFINE d == Head(todo)
<1>1. reads[d] \in Seq({Stray} \cup DOMAIN overlap) /\ held[d] \in Seq(Changes)
  BY DEF KernelTypeOK
<1>2. Append(reads[d], Stray) \in Seq({Stray} \cup DOMAIN overlap) /\ <<>> \in Seq(Changes)
  BY <1>1
<1>3. /\ reads' = reads \/ reads' = [reads EXCEPT ![d] = Append(@, Stray)]
      /\ held' = held \/ held' = [held EXCEPT ![d] = <<>>]
      /\ overflown' \subseteq overflown /\ started' \subseteq started \cup {d}
      /\ UNCHANGED overlap
  BY DEF ListenPast, arrayVars
<1> HIDE DEF d
<1>4. d \in Dirs
  BY DEF d
<1> QED
  BY <1>2, <1>3, <1>4 DEF KernelTypeOK

\* The arrays are freed: the reads that are under way lose their slots.
LEMMA FreeType ==
  ASSUME KernelTypeOK, FreeArrays, dir_count' \in Nat, UNCHANGED <<held, overflown, started>>
  PROVE  ArraysTypeOK' /\ KernelTypeOK'
<1>1. ArraysTypeOK'
  BY DEF FreeArrays, ArraysTypeOK
<1>2. ASSUME NEW d \in Dirs
      PROVE  [i \in 1 .. Len(reads[d]) |-> Stray] \in Seq({Stray} \cup DOMAIN overlap')
  <2>1. Len(reads[d]) \in Nat
    BY DEF KernelTypeOK
  <2> QED
    BY <2>1
<1> QED
  BY <1>1, <1>2 DEF FreeArrays, KernelTypeOK

\* A step that leaves all of a group of variables as they are keeps its types.
LEMMA ArraysUnchanged ==
  ASSUME ArraysTypeOK, KernelTypeOK, UNCHANGED <<arrayVars, kernelVars>>
  PROVE  ArraysTypeOK' /\ KernelTypeOK'
BY DEF ArraysTypeOK, KernelTypeOK, arrayVars, kernelVars

LEMMA TypeInit ==
  ASSUME Win32Assumption, Init
  PROVE  Win32TypeOK
<1>1. SomeDir \in Dirs /\ SomeName \in Requested
  BY DEF Win32Assumption, SomeDir, SomeName
<1>2. \A T : <<>> \in Seq(T)
  OBVIOUS
<1>3. ArraysTypeOK /\ KernelTypeOK
  BY <1>2 DEF Init, ArraysTypeOK, KernelTypeOK
<1>4. ListenerTypeOK
  <2>1. todo \in Seq(Dirs) /\ index \in Nat \ {0} /\ consumed \in Nat
    BY <1>2 DEF Init
  <2> QED
    BY <2>1, Zenon DEF Init, ListenerTypeOK
<1>5. DOMAIN files_tracked_within_directory = {}
  BY DEF Init
<1> QED
  BY <1>1, <1>2, <1>3, <1>4, <1>5 DEF Init, Win32TypeOK

LEMMA CallerKeepsType ==
  ASSUME Win32Assumption, Win32TypeOK, Caller
  PROVE  Win32TypeOK'
<1>1. SomeDir \in Dirs /\ SomeName \in Requested
  BY DEF Win32Assumption, SomeDir, SomeName
<1>2. ArraysTypeOK' /\ KernelTypeOK'
  <2>1. UNCHANGED <<arrayVars, kernelVars>>
    BY DEF Caller, TrackFile, AddToDirectory, AddDirectory, TryPopChangeInfo, StopListening
  <2> QED
    BY <2>1, ArraysUnchanged DEF Win32TypeOK
<1>3. ASSUME NEW d \in Dirs, NEW n \in Requested, TrackFile(d, n)
      PROVE  Win32TypeOK'
  BY <1>2, <1>3 DEF TrackFile, Win32TypeOK, ListenerTypeOK, mapVars, flagVars, iterVars
<1>4. CASE AddToDirectory
  BY <1>1, <1>2, <1>4 DEF AddToDirectory, CallerReturns, Win32TypeOK, ListenerTypeOK, iterVars
<1>5. CASE AddDirectory
  <2>1. tracked_directory' \in Seq(Dirs)
    BY <1>5, InsertAtElements DEF AddDirectory, InsertDirectory, Win32TypeOK
  <2>2. todo' \in Seq(Dirs)
    <3>1. CASE UNCHANGED todo
      BY <3>1 DEF Win32TypeOK, ListenerTypeOK
    <3>2. CASE \E i \in 2 .. Len(todo) + 1 : todo' = InsertAt(todo, i, cdir)
      BY <3>2, InsertAtElements DEF Win32TypeOK, ListenerTypeOK
    <3> QED
      BY <1>5, <3>1, <3>2 DEF AddDirectory, InsertDirectory
  <2>3. /\ DOMAIN files_tracked_within_directory' \subseteq Dirs
        /\ \A d \in DOMAIN files_tracked_within_directory' :
             files_tracked_within_directory'[d] \subseteq Requested
    BY <1>5 DEF AddDirectory, Win32TypeOK
  <2>4. ListenerTypeOK'
    BY <1>5, <2>2 DEF AddDirectory, Win32TypeOK, ListenerTypeOK
  <2> QED
    BY <1>1, <1>2, <1>5, <2>1, <2>3, <2>4 DEF AddDirectory, CallerReturns, Win32TypeOK
<1>6. CASE TryPopChangeInfo
  <2>1. change_info' \in Seq([directory : Dirs, file : Requested, origin : SUBSET Dirs])
    BY <1>6 DEF TryPopChangeInfo, Win32TypeOK
  <2> QED
    BY <1>2, <1>6, <2>1 DEF TryPopChangeInfo, Win32TypeOK, ListenerTypeOK, mapVars, flagVars,
       callerVars, iterVars
<1>7. CASE StopListening
  BY <1>2, <1>7 DEF StopListening, Win32TypeOK, ListenerTypeOK, mapVars, callerVars, iterVars
<1> QED
  BY <1>3, <1>4, <1>5, <1>6, <1>7 DEF Caller

LEMMA OuterLoopKeepsType ==
  ASSUME Win32TypeOK, BoundsInv,
         \/ Begin \/ Check \/ Leave \/ CountDirectories \/ Allocate
         \/ Iterate \/ ListenDirectory \/ ListenPast \/ EndListen
  PROVE  Win32TypeOK'
<1> USE DEF Win32TypeOK
<1>1. CASE Begin \/ Check \/ Iterate \/ EndListen
  <2>1. UNCHANGED <<arrayVars, kernelVars, mapVars, callerVars, change_info, stop_listening,
                    consumed, relisten>>
    BY <1>1 DEF Begin, Check, Iterate, EndListen, flagVars, iterVars
  <2>2. ArraysTypeOK' /\ KernelTypeOK'
    BY <2>1, ArraysUnchanged
  <2>3. ListenerTypeOK'
    BY <1>1, <2>1 DEF Begin, Check, Iterate, EndListen, ListenerTypeOK, iterVars
  <2>4. /\ reset_tracking' \in BOOLEAN
        /\ status' \in {"running", "data_race", "overrun", "heap_corrupted"}
    BY <1>1 DEF Begin, Check, Iterate, EndListen, flagVars
  <2> QED
    BY <2>1, <2>2, <2>3, <2>4 DEF mapVars, callerVars
<1>2. CASE Leave \/ CountDirectories
  <2>1. dir_count' \in Nat /\ FreeArrays /\ UNCHANGED <<held, overflown, started>>
    BY <1>2 DEF Leave, CountDirectories
  <2>2. ArraysTypeOK' /\ KernelTypeOK'
    BY <2>1, FreeType
  <2>3. ListenerTypeOK'
    BY <1>2 DEF Leave, CountDirectories, ListenerTypeOK, iterVars
  <2> QED
    BY <1>2, <2>2, <2>3 DEF Leave, CountDirectories, mapVars, flagVars, callerVars
<1>3. CASE Allocate
  <2>1. DOMAIN overlap' = 1 .. dir_count /\ DOMAIN read_buffer' = 1 .. dir_count /\ dir_count' = dir_count
    BY <1>3 DEF Allocate
  <2>2. ArraysTypeOK'
    BY <1>3, <2>1 DEF Allocate, ArraysTypeOK
  <2>3. KernelTypeOK'
    <3>1. ASSUME NEW d \in Dirs
          PROVE  reads[d] \in Seq({Stray} \cup DOMAIN overlap')
      <4>1. reads[d] \in Seq({Stray} \cup DOMAIN overlap)
        BY DEF KernelTypeOK
      <4>2. DOMAIN overlap \subseteq DOMAIN overlap'
        BY <2>1 DEF ArraysTypeOK
      <4> QED
        BY <4>1, <4>2
    <3> QED
      BY <1>3, <3>1 DEF Allocate, KernelTypeOK, kernelVars
  <2> QED
    BY <1>3, <2>2, <2>3 DEF Allocate, ListenerTypeOK, mapVars, callerVars, iterVars
<1>4. CASE ListenDirectory
  <2>1. Head(todo) \in Dirs /\ index \in DOMAIN overlap
    BY <1>4 DEF ListenDirectory, BoundsInv, Allocated, ListenerTypeOK
  <2>2. ArraysTypeOK' /\ KernelTypeOK'
    BY <1>4, <2>1, ReadType DEF ListenDirectory
  <2>3. ListenerTypeOK'
    BY <1>4 DEF ListenDirectory, NextDirectory, ListenerTypeOK
  <2> QED
    BY <1>4, <2>2, <2>3 DEF ListenDirectory, mapVars, flagVars, callerVars
<1>5. CASE ListenPast
  <2>1. Head(todo) \in Dirs /\ todo' \in Seq(Dirs) /\ index' \in Nat \ {0}
    BY <1>5 DEF ListenPast, NextDirectory, ListenerTypeOK
  <2>2. KernelTypeOK'
    BY <1>5, <2>1, StrayReadType DEF ListenPast
  <2>3. ArraysTypeOK' /\ ListenerTypeOK'
    BY <1>5, <2>1 DEF ListenPast, ArraysTypeOK, ListenerTypeOK, arrayVars
  <2>4. status' \in {"running", "overrun"}
    BY <1>5 DEF ListenPast, Outside
  <2> QED
    BY <1>5, <2>2, <2>3, <2>4 DEF ListenPast, mapVars, flagVars, callerVars
<1> QED
  BY <1>1, <1>2, <1>3, <1>4, <1>5

\* The listener is done with the entries of a directory.
LEMMA EntriesDoneType ==
  ASSUME Win32TypeOK, BoundsInv, lpc = "parse", AfterEntry \/ EntriesDone,
         UNCHANGED <<dir_count, read_buffer, kernelVars>>
  PROVE  ListenerTypeOK' /\ ArraysTypeOK' /\ KernelTypeOK'
<1>1. todo # <<>>
  BY DEF BoundsInv
<1>2. CASE EntriesDone
  <2>1. DOMAIN overlap' = DOMAIN overlap
    BY <1>2 DEF EntriesDone
  <2> QED
    BY <1>1, <1>2, <2>1 DEF EntriesDone, NextDirectory, Win32TypeOK, ListenerTypeOK, ArraysTypeOK,
       KernelTypeOK, kernelVars
<1>3. CASE consumed' = consumed + 1 /\ UNCHANGED <<lpc, todo, index, relisten, overlap>>
  BY <1>3 DEF Win32TypeOK, ListenerTypeOK, ArraysTypeOK, KernelTypeOK, kernelVars
<1> QED
  BY <1>2, <1>3 DEF AfterEntry

\* The entry that is parsed is one of those in the buffer of a directory.
LEMMA EntryType ==
  ASSUME Win32TypeOK, BoundsInv, ParseEntry
  PROVE  /\ index \in DOMAIN read_buffer
         /\ consumed + 1 \in 1 .. Len(read_buffer[index])
         /\ Entry \in Entries
         /\ todo # <<>> /\ Head(todo) \in Dirs
<1>1. index \in DOMAIN overlap /\ todo # <<>>
  BY DEF ParseEntry, BoundsInv, PollInBounds, Allocated, Locked, Polling
<1>2. index \in DOMAIN read_buffer /\ read_buffer[index] \in Seq(Entries) /\ consumed \in Nat
  BY <1>1 DEF Win32TypeOK, ArraysTypeOK, ListenerTypeOK
<1>3. consumed + 1 \in 1 .. Len(read_buffer[index])
  BY <1>2 DEF ParseEntry
<1>4. Head(todo) \in Dirs
  BY <1>1 DEF BoundsInv
<1> QED
  BY <1>1, <1>2, <1>3, <1>4 DEF Entry

\* The directory the listener polls is one of those tracked: there are files to
\* look for in it.
LEMMA CurrentIsTracked ==
  ASSUME BoundsInv, FeedInv, Locked, todo # <<>>
  PROVE  /\ index \in 1 .. Len(tracked_directory)
         /\ Head(todo) = tracked_directory[index]
         /\ Head(todo) \in DOMAIN files_tracked_within_directory
<1>1. /\ todo \in Seq(Dirs) /\ Len(todo) \in Nat \ {0} /\ Head(todo) = todo[1]
      /\ tracked_directory \in Seq(Dirs) /\ index \in Nat \ {0}
  BY DEF BoundsInv
<1>2. /\ index = 1 + Len(tracked_directory) - Len(todo)
      /\ \A i \in 1 .. Len(todo) : todo[i] = tracked_directory[i + index - 1]
  BY DEF BoundsInv, PollInBounds
<1>3. index \in 1 .. Len(tracked_directory) /\ 1 + index - 1 = index /\ 1 \in 1 .. Len(todo)
  BY <1>1, <1>2
<1>4. todo[1] = tracked_directory[index]
  BY <1>2, <1>3
<1> QED
  BY <1>1, <1>3, <1>4 DEF FeedInv

LEMMA FeedInvStep ==
  ASSUME BoundsInv, FeedInv, [Next]_vars
  PROVE  FeedInv'
<1>1. CASE UNCHANGED <<tracked_directory, files_tracked_within_directory>>
  BY <1>1 DEF FeedInv
<1>2. CASE AddToDirectory
  BY <1>2 DEF AddToDirectory, FeedInv
<1>3. CASE AddDirectory
  <2>1. DOMAIN files_tracked_within_directory' = DOMAIN files_tracked_within_directory \cup {cdir}
    BY <1>3 DEF AddDirectory
  <2>2. PICK i \in 1 .. Len(tracked_directory) + 1 :
          tracked_directory' = InsertAt(tracked_directory, i, cdir)
    BY <1>3 DEF AddDirectory, InsertDirectory
  <2>3. tracked_directory \in Seq(Dirs) /\ cdir \in Dirs
    BY DEF BoundsInv
  <2>4. /\ Len(tracked_directory') = Len(tracked_directory) + 1
        /\ \A k \in 1 .. Len(tracked_directory) + 1 :
             tracked_directory'[k] = IF k < i THEN tracked_directory[k]
                                     ELSE IF k = i THEN cdir ELSE tracked_directory[k - 1]
    <3>1. /\ Len(InsertAt(tracked_directory, i, cdir)) = Len(tracked_directory) + 1
          /\ \A k \in 1 .. Len(tracked_directory) + 1 :
               InsertAt(tracked_directory, i, cdir)[k] =
                 IF k < i THEN tracked_directory[k]
                 ELSE IF k = i THEN cdir ELSE tracked_directory[k - 1]
      BY <2>3, InsertAtElements
    <3> QED
      BY <2>2, <3>1, Zenon
  <2>5. ASSUME NEW k \in 1 .. Len(tracked_directory')
        PROVE  tracked_directory'[k] \in DOMAIN files_tracked_within_directory'
    <3>1. CASE k < i
      BY <2>1, <2>3, <2>4, <3>1 DEF FeedInv
    <3>2. CASE k = i
      BY <2>1, <2>4, <3>2
    <3>3. CASE k > i
      <4>1. k - 1 \in 1 .. Len(tracked_directory) /\ tracked_directory'[k] = tracked_directory[k - 1]
        BY <2>3, <2>4, <3>3
      <4> QED
        BY <2>1, <4>1 DEF FeedInv
    <3> QED
      BY <2>3, <2>4, <3>1, <3>2, <3>3
  <2> QED
    BY <2>5 DEF FeedInv
<1>4. ASSUME [Next]_vars, ~AddToDirectory, ~AddDirectory
      PROVE  UNCHANGED <<tracked_directory, files_tracked_within_directory>>
  BY <1>4 DEF Next, Caller, Listener, Environment, vars, mapVars, TrackFile, TryPopChangeInfo,
     StopListening, DataRace, Write, Begin, Check, Leave, CountDirectories, Allocate, Iterate,
     ListenDirectory, ListenPast, EndListen, Wait, PollPending, PollPast, PollComplete, EndPoll,
     ReportEntry, SkipEntry, SkipFresh
<1> QED
  BY <1>1, <1>2, <1>3, <1>4

LEMMA PollKeepsType ==
  ASSUME Win32TypeOK, BoundsInv, FeedInv,
         \/ Wait \/ PollPending \/ PollPast \/ PollComplete \/ EndPoll
         \/ ReportEntry \/ SkipEntry \/ SkipFresh
  PROVE  Win32TypeOK'
<1> USE DEF Win32TypeOK
<1>1. CASE Wait \/ PollPending \/ PollComplete \/ EndPoll
  <2>1. UNCHANGED <<arrayVars, kernelVars, mapVars, callerVars, change_info, flagVars, status>>
    BY <1>1 DEF Wait, PollPending, PollComplete, EndPoll
  <2>2. ArraysTypeOK' /\ KernelTypeOK'
    BY <2>1, ArraysUnchanged
  <2>3. ListenerTypeOK'
    <3>1. CASE Wait
      <4>1. lpc' \in {"check", "poll"} /\ todo' \in Seq(Dirs) /\ index' \in Nat \ {0}
        BY <3>1 DEF Wait, ListenerTypeOK
      <4>2. relisten' \in BOOLEAN /\ consumed' \in Nat
        BY <3>1, Zenon DEF Wait, ListenerTypeOK
      <4> QED
        BY <4>1, <4>2, Zenon DEF ListenerTypeOK
    <3>2. CASE PollPending
      <4>1. lpc' = "poll" /\ todo' \in Seq(Dirs) /\ index' \in Nat \ {0}
        BY <3>2 DEF PollPending, NextDirectory, ListenerTypeOK
      <4>2. relisten' \in BOOLEAN /\ consumed' \in Nat
        BY <3>2, Zenon DEF PollPending, ListenerTypeOK
      <4> QED
        BY <4>1, <4>2, Zenon DEF ListenerTypeOK
    <3>3. CASE PollComplete \/ EndPoll
      <4>1. lpc' \in {"parse", "check", "wait"} /\ consumed' \in Nat
        BY <3>3 DEF PollComplete, EndPoll, ListenerTypeOK
      <4>2. relisten' \in BOOLEAN /\ todo' \in Seq(Dirs) /\ index' \in Nat \ {0}
        BY <3>3, Zenon DEF PollComplete, EndPoll, ListenerTypeOK
      <4> QED
        BY <4>1, <4>2, Zenon DEF ListenerTypeOK
    <3> QED
      BY <1>1, <3>1, <3>2, <3>3
  <2> QED
    BY <2>1, <2>2, <2>3 DEF mapVars, callerVars, flagVars
<1>2. CASE ReportEntry
  <2>1. ListenerTypeOK' /\ ArraysTypeOK' /\ KernelTypeOK'
    BY <1>2, EntriesDoneType DEF ReportEntry, ParseEntry
  <2>2. Entry \in Entries /\ Head(todo) \in Dirs
    BY <1>2, EntryType DEF ReportEntry
  <2>3. Entry.change.file \in Requested
    <3>1. Head(todo) \in DOMAIN files_tracked_within_directory
      BY <1>2, CurrentIsTracked, EntryType DEF ReportEntry, ParseEntry, Locked, Polling
    <3> QED
      BY <1>2, <3>1 DEF ReportEntry, IsTracked
  <2> QED
    BY <1>2, <2>1, <2>2, <2>3 DEF ReportEntry, Entries, Changes, mapVars, flagVars, callerVars
<1>3. CASE SkipEntry \/ SkipFresh
  <2>1. ListenerTypeOK' /\ ArraysTypeOK' /\ KernelTypeOK'
    BY <1>3, EntriesDoneType DEF SkipEntry, SkipFresh, ParseEntry
  <2> QED
    BY <1>3, <2>1 DEF SkipEntry, SkipFresh, mapVars, flagVars, callerVars
<1>4. CASE PollPast
  <2>1. /\ Head(todo) \in Dirs /\ todo' \in Seq(Dirs) /\ index' \in Nat \ {0}
        /\ lpc' = "poll" /\ consumed' \in Nat
    BY <1>4 DEF PollPast, NextDirectory, ListenerTypeOK
  <2>2. relisten' \in BOOLEAN
    BY <1>4, Zenon DEF PollPast, ListenerTypeOK
  <2>3. ListenerTypeOK'
    BY <2>1, <2>2, Zenon DEF ListenerTypeOK
  <2>4. ArraysTypeOK' /\ KernelTypeOK'
    BY <1>4, ArraysUnchanged DEF PollPast
  <2>5. status' \in {"running", "overrun"}
    BY <1>4 DEF PollPast, Outside
  <2>6. change_info' \in Seq([directory : Dirs, file : Requested, origin : SUBSET Dirs])
    <3>1. Head(todo) \in DOMAIN files_tracked_within_directory
      BY <1>4, CurrentIsTracked DEF PollPast, Locked, Polling
    <3>2. ASSUME NEW n \in files_tracked_within_directory[Head(todo)],
                 change_info' = Append(change_info,
                   [directory |-> Head(todo), file |-> n, origin |-> {}])
          PROVE  change_info' \in Seq([directory : Dirs, file : Requested, origin : SUBSET Dirs])
      BY <2>1, <3>1, <3>2
    <3>3. CASE UNCHANGED change_info
      BY <3>3
    <3> QED
      BY <1>4, <3>2, <3>3, Zenon DEF PollPast
  <2> QED
    BY <1>4, <2>3, <2>4, <2>5, <2>6 DEF PollPast, mapVars, flagVars, callerVars
<1> QED
  BY <1>1, <1>2, <1>3, <1>4

LEMMA TypeStep ==
  ASSUME Win32Assumption, Win32TypeOK, BoundsInv, FeedInv, [Next]_vars
  PROVE  Win32TypeOK'
<1>1. CASE UNCHANGED vars
  <2>1. ArraysTypeOK' /\ KernelTypeOK'
    BY <1>1, ArraysUnchanged DEF vars, Win32TypeOK
  <2> QED
    BY <1>1, <2>1 DEF vars, Win32TypeOK, ListenerTypeOK, mapVars, flagVars, callerVars, iterVars
<1>2. CASE DataRace
  <2>1. ArraysTypeOK' /\ KernelTypeOK'
    BY <1>2, ArraysUnchanged DEF DataRace, Win32TypeOK
  <2> QED
    BY <1>2, <2>1 DEF DataRace, Win32TypeOK, ListenerTypeOK, mapVars, flagVars, callerVars, iterVars
<1>3. ASSUME NEW d \in Dirs, NEW n \in Names, Write(d, n)
      PROVE  Win32TypeOK'
  <2>1. ArraysTypeOK' /\ KernelTypeOK' /\ status' \in {"running", "heap_corrupted"}
    BY <1>3, WriteType DEF Write, Win32TypeOK
  <2> QED
    BY <1>3, <2>1 DEF Write, Win32TypeOK, ListenerTypeOK, mapVars, flagVars, callerVars, iterVars
<1>4. CASE Caller
  BY <1>4, CallerKeepsType
<1>5. CASE Listener
  BY <1>5, OuterLoopKeepsType, PollKeepsType DEF Listener
<1> QED
  BY <1>1, <1>2, <1>3, <1>4, <1>5 DEF Next, Environment

LEMMA FeedInvInit ==
  ASSUME Init
  PROVE  FeedInv
BY DEF Init, FeedInv

\* What is known of every state of the tracker: types, bounds, tracked files.
TrackerInv == Win32TypeOK /\ BoundsInv /\ FeedInv

LEMMA TrackerInvariant == Spec => []TrackerInv
<1>1. Init => TrackerInv
  BY TypeInit, BoundsInit, FeedInvInit, Win32Assumption DEF TrackerInv
<1>2. TrackerInv /\ [Next]_vars => TrackerInv'
  BY TypeStep, BoundsStep, FeedInvStep, Win32Assumption DEF TrackerInv
<1> QED
  BY <1>1, <1>2, PTL DEF Spec

\* Every variable keeps its type, for any directories: a reported name is one
\* that was asked for, and every read under way has a slot of the arrays or memory
\* that is not the listener's.
THEOREM Win32TypeCorrect == Spec => []Win32TypeOK
<1>1. TrackerInv => Win32TypeOK
  BY DEF TrackerInv
<1> QED
  BY <1>1, TrackerInvariant, PTL
-----------------------------------------------------------------------------
(* What is in a slot is of the directory the slot is for.                   *)

\* Nothing the slots are filled with is touched.
LEMMA SlotsKept ==
  ASSUME SlotsInv,
         UNCHANGED <<tracked_directory, dir_count, reads, read_buffer, held, change_info>>,
         lpc' = "allocate" => lpc = "allocate",
         Aligned' => Aligned,
         Aligned' /\ lpc' = "listen" => WalkInPlace'
  PROVE  SlotsInv'
BY DEF SlotsInv, HeldHere, ReadsStray, ReadsInPlace, BuffersInPlace, ReportedWhereWritten

LEMMA SlotsUnchanged ==
  ASSUME SlotsInv,
         UNCHANGED <<tracked_directory, dir_count, reads, read_buffer, held, change_info,
                     lpc, todo, index, reset_tracking>>
  PROVE  SlotsInv'
BY SlotsKept DEF SlotsInv, Aligned, WalkInPlace

\* A read is done with changes of the directory its slot is for.
LEMMA CompleteInPlace ==
  ASSUME ArraysTypeOK, BuffersInPlace, NEW j \in DOMAIN overlap, NEW entries \in Seq(Changes),
         Complete(j, entries), UNCHANGED tracked_directory,
         \A i \in 1 .. Len(entries) : entries[i].directory = tracked_directory[j]
  PROVE  BuffersInPlace'
<1>1. j \in DOMAIN read_buffer /\ read_buffer[j] \in Seq(Entries)
  BY DEF ArraysTypeOK
<1>2. \A i \in 1 .. Len(Fill(read_buffer[j], entries)) :
        Fill(read_buffer[j], entries)[i].change.directory = tracked_directory[j]
  <2> TAKE i \in 1 .. Len(Fill(read_buffer[j], entries))
  <2>1. \/ i \in 1 .. Len(entries) /\ Fill(read_buffer[j], entries)[i].change = entries[i]
        \/ i \in 1 .. Len(read_buffer[j]) /\ Fill(read_buffer[j], entries)[i] = read_buffer[j][i]
    BY <1>1, FillType
  <2> QED
    BY <1>1, <2>1 DEF BuffersInPlace
<1>3. read_buffer' = [read_buffer EXCEPT ![j] = Fill(read_buffer[j], entries)]
  BY DEF Complete
<1> QED
  BY <1>1, <1>2, <1>3 DEF BuffersInPlace

LEMMA WriteKeepsSlots ==
  ASSUME TrackerInv, SlotsInv, NEW d \in Dirs, NEW n \in Names, Write(d, n)
  PROVE  SlotsInv'
<1> USE DEF TrackerInv, Win32TypeOK
<1>1. /\ UNCHANGED <<tracked_directory, dir_count, change_info, lpc, todo, index, reset_tracking>>
      /\ Aligned' <=> Aligned
  BY DEF Write, WriteHeld, WriteRead, WriteStray, mapVars, flagVars, iterVars, arrayVars, Aligned
<1>2. reads[d] \in Seq({Stray} \cup DOMAIN overlap) /\ held[d] \in Seq(Changes)
  BY DEF KernelTypeOK
<1>3. CASE WriteHeld(d, n)
  <2>1. held' \in [Dirs -> Seq(Changes)]
    BY <1>3, WriteType DEF KernelTypeOK, Write
  <2>2. HeldHere'
    <3>1. ASSUME NEW e \in Dirs, NEW i \in 1 .. Len(held'[e])
          PROVE  held'[e][i].directory = e
      <4>1. CASE held' = [held EXCEPT ![d] = Append(held[d], Change(d, n))]
        <5>1. CASE e = d
          <6>1. held'[d] = Append(held[d], Change(d, n)) /\ Change(d, n).directory = d
            BY <4>1 DEF KernelTypeOK, Change
          <6>2. i \in 1 .. Len(held[d]) => held[d][i].directory = d
            BY DEF SlotsInv, HeldHere
          <6> QED
            BY <1>2, <5>1, <6>1, <6>2
        <5>2. CASE e # d
          BY <4>1, <5>2 DEF KernelTypeOK, SlotsInv, HeldHere
        <5> QED
          BY <5>1, <5>2
      <4>2. CASE held' = [held EXCEPT ![d] = <<>>]
        BY <4>2 DEF KernelTypeOK, SlotsInv, HeldHere
      <4> QED
        BY <1>3, <4>1, <4>2 DEF WriteHeld
    <3> QED
      BY <3>1 DEF HeldHere
  <2>3. UNCHANGED <<reads, read_buffer>>
    BY <1>3 DEF WriteHeld, arrayVars
  <2> QED
    BY <1>1, <2>2, <2>3 DEF SlotsInv, ReadsStray, ReadsInPlace, BuffersInPlace, WalkInPlace,
       ReportedWhereWritten, Locked
<1>4. CASE WriteRead(d, n) \/ WriteStray(d, n)
  <2>1. reads' = [reads EXCEPT ![d] = Tail(@)] /\ reads[d] # <<>> /\ UNCHANGED held
    BY <1>4 DEF WriteRead, WriteStray
  <2>2. ASSUME NEW e \in Dirs, NEW i \in 1 .. Len(reads'[e])
        PROVE  \E k \in 1 .. Len(reads[e]) : reads'[e][i] = reads[e][k]
    <3>1. CASE e = d
      <4>1. reads'[d] = Tail(reads[d])
        BY <2>1 DEF KernelTypeOK
      <4> QED
        BY <1>2, <2>1, <3>1, <4>1
    <3>2. CASE e # d
      BY <2>1, <3>2 DEF KernelTypeOK
    <3> QED
      BY <3>1, <3>2
  <2>3. ReadsStray' /\ HeldHere' /\ ReportedWhereWritten'
    <3>1. HeldHere' /\ ReportedWhereWritten'
      BY <1>1, <2>1 DEF SlotsInv, HeldHere, ReportedWhereWritten
    <3>2. ASSUME lpc = "allocate", NEW e \in Dirs, NEW i \in 1 .. Len(reads'[e])
          PROVE  reads'[e][i] = Stray
      <4>1. PICK k \in 1 .. Len(reads[e]) : reads'[e][i] = reads[e][k]
        BY <2>2
      <4> QED
        BY <3>2, <4>1 DEF SlotsInv, ReadsStray
    <3> QED
      BY <1>1, <3>1, <3>2 DEF ReadsStray
  <2>4. ASSUME Aligned
        PROVE  ReadsInPlace' /\ BuffersInPlace'
    <3>1. ReadsInPlace'
      <4>1. ASSUME NEW e \in Dirs, NEW i \in 1 .. Len(reads'[e]), reads'[e][i] # Stray
            PROVE  tracked_directory[reads'[e][i]] = e
        <5>1. PICK k \in 1 .. Len(reads[e]) : reads'[e][i] = reads[e][k]
          BY <2>2
        <5> QED
          BY <2>4, <4>1, <5>1 DEF SlotsInv, ReadsInPlace
      <4> QED
        BY <1>1, <4>1 DEF ReadsInPlace
    <3>2. CASE WriteRead(d, n)
      <4>1. Head(reads[d]) \in DOMAIN overlap /\ Head(reads[d]) = reads[d][1] /\ 1 \in 1 .. Len(reads[d])
        BY <1>2, <2>1, <3>2 DEF WriteRead
      <4>2. tracked_directory[Head(reads[d])] = d
        BY <2>4, <3>2, <4>1 DEF SlotsInv, ReadsInPlace, WriteRead
      <4>3. /\ <<Change(d, n)>> \in Seq(Changes)
            /\ \A i \in 1 .. Len(<<Change(d, n)>>) : <<Change(d, n)>>[i].directory = d
        BY DEF Change, Changes
      <4> QED
        BY <1>1, <2>4, <3>1, <3>2, <4>1, <4>2, <4>3, CompleteInPlace DEF SlotsInv, WriteRead
    <3>3. CASE WriteStray(d, n)
      BY <1>1, <2>4, <3>1, <3>3 DEF WriteStray, arrayVars, SlotsInv, BuffersInPlace
    <3> QED
      BY <1>4, <3>2, <3>3
  <2> QED
    BY <1>1, <2>3, <2>4 DEF SlotsInv, WalkInPlace, Locked
<1> QED
  BY <1>3, <1>4 DEF Write

LEMMA CallerKeepsSlots ==
  ASSUME TrackerInv, SlotsInv, Caller
  PROVE  SlotsInv'
<1>1. ASSUME NEW d \in Dirs, NEW n \in Requested, TrackFile(d, n)
      PROVE  SlotsInv'
  BY <1>1, SlotsUnchanged DEF TrackFile, mapVars, flagVars, iterVars, arrayVars, kernelVars
<1>2. CASE AddToDirectory \/ AddDirectory
  <2>1. /\ reset_tracking' = TRUE /\ ~Locked
        /\ UNCHANGED <<lpc, reads, held, change_info>>
    BY <1>2 DEF AddToDirectory, AddDirectory, kernelVars
  <2> QED
    BY <2>1 DEF SlotsInv, HeldHere, ReadsStray, Aligned, Locked, ReportedWhereWritten
<1>3. CASE TryPopChangeInfo
  <2>1. /\ change_info # <<>> /\ change_info' = Tail(change_info)
        /\ change_info \in Seq([directory : Dirs, file : Requested, origin : SUBSET Dirs])
    BY <1>3 DEF TryPopChangeInfo, TrackerInv, Win32TypeOK
  <2>2. \A i \in 1 .. Len(change_info') :
          i + 1 \in 1 .. Len(change_info) /\ change_info'[i] = change_info[i + 1]
    BY <2>1
  <2>3. ReportedWhereWritten'
    BY <2>2 DEF SlotsInv, ReportedWhereWritten
  <2> QED
    BY <1>3, <2>3 DEF TryPopChangeInfo, SlotsInv, HeldHere, ReadsStray, Aligned, Locked, ReadsInPlace,
       BuffersInPlace, WalkInPlace, mapVars, flagVars, iterVars, arrayVars, kernelVars
<1>4. CASE StopListening
  BY <1>4, SlotsUnchanged DEF StopListening, mapVars, iterVars, arrayVars, kernelVars
<1> QED
  BY <1>1, <1>2, <1>3, <1>4 DEF Caller

\* A read is started into the slot of its directory.
LEMMA ListenKeepsSlots ==
  ASSUME TrackerInv, SlotsInv, ListenDirectory
  PROVE  SlotsInv'
<1> USE DEF TrackerInv, Win32TypeOK
<1>1. /\ UNCHANGED <<tracked_directory, dir_count, change_info, lpc, reset_tracking>>
      /\ lpc = "listen" /\ todo # <<>> /\ ~Locked
      /\ ReadDirectoryChanges(Head(todo), index)
      /\ todo' = Tail(todo) /\ index' = index + 1
      /\ Aligned' <=> Aligned
  BY DEF ListenDirectory, NextDirectory, mapVars, flagVars, Aligned, Locked, Polling
<1> DEFINE d == Head(todo)
<1>2. d \in Dirs /\ d = todo[1] /\ 1 \in 1 .. Len(todo) /\ index \in DOMAIN overlap
  BY <1>1 DEF ListenDirectory, BoundsInv, Allocated
<1> HIDE DEF d
<1>3. reads[d] \in Seq({Stray} \cup DOMAIN overlap) /\ held[d] \in Seq(Changes)
  BY <1>2 DEF KernelTypeOK
<1>4. Aligned => WalkInPlace /\ tracked_directory[index] = d
  BY <1>1, <1>2 DEF SlotsInv, WalkInPlace, ListenerTypeOK
<1>5. Aligned => WalkInPlace'
  <2>1. /\ Len(Tail(todo)) = Len(todo) - 1 /\ Len(todo) \in Nat /\ index \in Nat
        /\ Len(tracked_directory) \in Nat
        /\ \A i \in 1 .. Len(Tail(todo)) : i + 1 \in 1 .. Len(todo) /\ Tail(todo)[i] = todo[i + 1]
    BY <1>1 DEF ListenerTypeOK
  <2>2. Aligned => \A i \in 1 .. Len(Tail(todo)) :
                      Tail(todo)[i] = tracked_directory[i + (index + 1) - 1]
    BY <1>4, <2>1 DEF WalkInPlace
  <2>3. Aligned => index + 1 = 1 + Len(tracked_directory) - Len(Tail(todo))
    <3> DEFINE before == Len(todo)
               after == Len(Tail(todo))
               all == Len(tracked_directory)
    <3>1. Aligned => index = 1 + all - before
      BY <1>4 DEF WalkInPlace
    <3>2. after = before - 1 /\ before \in Nat /\ index \in Nat /\ all \in Nat
      BY <2>1
    <3> HIDE DEF before, after, all
    <3>3. Aligned => index + 1 = 1 + all - after
      BY <3>1, <3>2
    <3> QED
      BY <3>3 DEF after, all
  <2> QED
    BY <1>1, <2>2, <2>3 DEF WalkInPlace
<1>6. HeldHere' /\ (Aligned => ReadsInPlace' /\ BuffersInPlace')
  <2>0. ReadDirectoryChanges(d, index)
    BY <1>1 DEF d
  <2>1. CASE held[d] # <<>> \/ d \in overflown
    <3>1. /\ Complete(index, held[d]) /\ UNCHANGED reads
          /\ held' = [held EXCEPT ![d] = <<>>]
      BY <2>0, <2>1 DEF ReadDirectoryChanges
    <3>2. HeldHere'
      BY <3>1 DEF KernelTypeOK, SlotsInv, HeldHere
    <3>3. \A i \in 1 .. Len(held[d]) : held[d][i].directory = d
      BY <1>2 DEF SlotsInv, HeldHere
    <3>4. Aligned => BuffersInPlace'
      BY <1>1, <1>2, <1>3, <1>4, <3>1, <3>3, CompleteInPlace DEF SlotsInv
    <3>5. Aligned => ReadsInPlace'
      BY <1>1, <3>1 DEF SlotsInv, ReadsInPlace
    <3> QED
      BY <3>2, <3>4, <3>5
  <2>2. CASE ~(held[d] # <<>> \/ d \in overflown)
    <3>1. reads' = [reads EXCEPT ![d] = Append(reads[d], index)] /\ UNCHANGED <<held, read_buffer>>
      BY <2>0, <2>2 DEF ReadDirectoryChanges
    <3>2. HeldHere' /\ (Aligned => BuffersInPlace')
      BY <1>1, <3>1 DEF SlotsInv, HeldHere, BuffersInPlace
    <3>3. ASSUME Aligned, NEW e \in Dirs, NEW i \in 1 .. Len(reads'[e]), reads'[e][i] # Stray
          PROVE  tracked_directory[reads'[e][i]] = e
      <4>1. CASE e = d
        <5>1. reads'[d] = Append(reads[d], index)
          BY <1>2, <3>1 DEF KernelTypeOK
        <5>2. CASE i \in 1 .. Len(reads[d])
          <6>1. reads'[d][i] = reads[d][i]
            BY <1>3, <5>1, <5>2
          <6> QED
            BY <3>3, <4>1, <5>2, <6>1 DEF SlotsInv, ReadsInPlace
        <5>3. CASE i \notin 1 .. Len(reads[d])
          <6>1. reads'[d][i] = index
            BY <1>3, <4>1, <5>1, <5>3
          <6> QED
            BY <1>4, <3>3, <4>1, <6>1
        <5> QED
          BY <5>2, <5>3
      <4>2. CASE e # d
        BY <3>1, <3>3, <4>2 DEF KernelTypeOK, SlotsInv, ReadsInPlace
      <4> QED
        BY <4>1, <4>2
    <3> QED
      BY <1>1, <3>2, <3>3 DEF ReadsInPlace
  <2> QED
    BY <2>1, <2>2
<1> QED
  BY <1>1, <1>5, <1>6 DEF SlotsInv, ReadsStray, Locked, ReportedWhereWritten

LEMMA OuterLoopKeepsSlots ==
  ASSUME TrackerInv, SlotsInv,
         \/ Begin \/ Check \/ Leave \/ CountDirectories \/ Allocate
         \/ Iterate \/ EndListen
  PROVE  SlotsInv'
<1>1. CASE Begin
  BY <1>1, SlotsKept DEF Begin, Aligned, Locked, Polling, mapVars, arrayVars, kernelVars
<1>2. CASE Check
  BY <1>2, SlotsKept DEF Check, Aligned, Allocated, Locked, Polling, mapVars, flagVars, arrayVars,
     kernelVars
<1>3. CASE Leave \/ CountDirectories
  <2>1. /\ reads' = [d \in Dirs |-> [i \in 1 .. Len(reads[d]) |-> Stray]]
        /\ lpc' \in {"done", "allocate"} /\ UNCHANGED <<held, change_info>>
    BY <1>3 DEF Leave, CountDirectories, FreeArrays
  <2>2. \A d \in Dirs : Len(reads[d]) \in Nat
    BY DEF TrackerInv, Win32TypeOK, KernelTypeOK
  <2>3. ReadsStray'
    <3>1. ASSUME NEW d \in Dirs, NEW i \in 1 .. Len(reads'[d])
          PROVE  reads'[d][i] = Stray
      <4>1. reads'[d] = [k \in 1 .. Len(reads[d]) |-> Stray] /\ Len(reads[d]) \in Nat
        BY <2>1, <2>2
      <4>2. i \in 1 .. Len(reads[d])
        BY <4>1
      <4> QED
        BY <4>1, <4>2
    <3> QED
      BY <3>1 DEF ReadsStray
  <2>4. ~Aligned' /\ ~Locked'
    BY <2>1 DEF Aligned, Allocated, Locked, Polling
  <2> QED
    BY <2>1, <2>3, <2>4 DEF SlotsInv, HeldHere, ReportedWhereWritten
<1>4. CASE Allocate
  <2>1. /\ read_buffer' = [j \in 1 .. dir_count |-> <<>>] /\ lpc = "allocate" /\ lpc' = "iterate"
        /\ UNCHANGED <<tracked_directory, dir_count, change_info, reads, held>>
    BY <1>4 DEF Allocate, mapVars, kernelVars
  <2>2. ReadsInPlace'
    BY <2>1 DEF SlotsInv, ReadsStray, ReadsInPlace
  <2>3. BuffersInPlace'
    <3>1. \A j \in DOMAIN read_buffer' : Len(read_buffer'[j]) = 0
      BY <2>1
    <3> QED
      BY <3>1 DEF BuffersInPlace
  <2> QED
    BY <2>1, <2>2, <2>3 DEF SlotsInv, HeldHere, ReadsStray, Locked, Polling, ReportedWhereWritten
<1>5. CASE Iterate
  <2>1. Aligned' => WalkInPlace'
    BY <1>5 DEF Iterate, Aligned, WalkInPlace, mapVars, arrayVars, TrackerInv, Win32TypeOK
  <2> QED
    BY <1>5, <2>1, SlotsKept DEF Iterate, Aligned, Allocated, Locked, Polling, mapVars, flagVars,
       arrayVars, kernelVars
<1>6. CASE EndListen
  BY <1>6, SlotsKept DEF EndListen, Aligned, Allocated, Locked, Polling, mapVars, flagVars,
     arrayVars, kernelVars
<1> QED
  BY <1>1, <1>2, <1>3, <1>4, <1>5, <1>6

\* A walk that goes on behind the arrays, and reads that are started there, leave the
\* slots alone.
LEMMA PastKeepsSlots ==
  ASSUME TrackerInv, SlotsInv, ListenPast
  PROVE  SlotsInv'
<1> USE DEF TrackerInv, Win32TypeOK
<1>1. /\ UNCHANGED <<tracked_directory, read_buffer, change_info, lpc, reset_tracking>>
      /\ lpc = "listen" /\ todo # <<>> /\ Head(todo) \in Dirs
      /\ todo' = Tail(todo) /\ index' = index + 1
      /\ Aligned' <=> Aligned
  BY DEF ListenPast, NextDirectory, ListenerTypeOK, mapVars, flagVars, arrayVars, Aligned
<1> DEFINE d == Head(todo)
<1>2. /\ reads' = reads \/ reads' = [reads EXCEPT ![d] = Append(@, Stray)]
      /\ held' = held \/ held' = [held EXCEPT ![d] = <<>>]
  BY DEF ListenPast
<1>3. d \in Dirs /\ reads[d] \in Seq({Stray} \cup DOMAIN overlap)
  BY <1>1 DEF KernelTypeOK
<1> HIDE DEF d
<1>4. HeldHere'
  BY <1>2, <1>3 DEF KernelTypeOK, SlotsInv, HeldHere
<1>5. ASSUME NEW e \in Dirs, NEW i \in 1 .. Len(reads'[e])
      PROVE  reads'[e][i] = Stray \/ (i \in 1 .. Len(reads[e]) /\ reads'[e][i] = reads[e][i])
  <2>1. CASE reads' = reads \/ e # d
    BY <1>2, <2>1 DEF KernelTypeOK
  <2>2. CASE reads' # reads /\ e = d
    <3>1. reads'[d] = Append(reads[d], Stray)
      BY <1>2, <1>3, <2>2 DEF KernelTypeOK
    <3> QED
      BY <1>3, <2>2, <3>1
  <2> QED
    BY <2>1, <2>2
<1>6. Aligned => ReadsInPlace' /\ BuffersInPlace'
  BY <1>1, <1>5 DEF SlotsInv, ReadsInPlace, BuffersInPlace
<1>7. Aligned => WalkInPlace'
  <2>1. /\ Len(todo') = Len(todo) - 1 /\ Len(todo) \in Nat /\ index \in Nat
        /\ Len(tracked_directory) \in Nat
        /\ \A i \in 1 .. Len(todo') : i + 1 \in 1 .. Len(todo) /\ todo'[i] = todo[i + 1]
    BY <1>1 DEF ListenerTypeOK
  <2>2. Aligned => WalkInPlace
    BY <1>1 DEF SlotsInv
  <2>3. Aligned => index' = 1 + Len(tracked_directory) - Len(todo')
    BY <1>1, <2>1, <2>2 DEF WalkInPlace
  <2>4. Aligned => \A i \in 1 .. Len(todo') : todo'[i] = tracked_directory[i + index' - 1]
    BY <1>1, <2>1, <2>2 DEF WalkInPlace
  <2> QED
    BY <1>1, <2>3, <2>4 DEF WalkInPlace
<1> QED
  BY <1>1, <1>4, <1>6, <1>7 DEF SlotsInv, ReadsStray, ReportedWhereWritten

\* Under the lock no reset is asked for: nothing was added since the arrays were built.
LEMMA AlignedUnderLock ==
  ASSUME TrackerInv, SlotsInv, Locked
  PROVE  Aligned
BY DEF TrackerInv, BoundsInv, PollInBounds, SlotsInv, Aligned, Allocated, Locked

LEMMA PollKeepsSlots ==
  ASSUME TrackerInv, SlotsInv,
         \/ Wait \/ PollPending \/ PollPast \/ PollComplete \/ EndPoll
         \/ ReportEntry \/ SkipEntry \/ SkipFresh
  PROVE  SlotsInv'
<1>1. CASE Wait
  BY <1>1, SlotsKept DEF Wait, Aligned, Allocated, Locked, Polling, mapVars, flagVars, arrayVars,
     kernelVars
<1>2. CASE PollPending \/ PollComplete \/ EndPoll
  <2>1. /\ UNCHANGED <<mapVars, flagVars, change_info, arrayVars, kernelVars>>
        /\ lpc' \in {"poll", "parse", "check", "wait"} /\ Locked
    BY <1>2 DEF PollPending, PollComplete, EndPoll, Locked, Polling
  <2> QED
    BY <2>1, AlignedUnderLock, SlotsKept DEF Aligned, Allocated, Locked, Polling, mapVars, flagVars,
       arrayVars, kernelVars
<1>6. CASE PollPast
  <2>1. /\ UNCHANGED <<mapVars, flagVars, arrayVars, kernelVars>>
        /\ lpc = "poll" /\ lpc' = "poll" /\ Locked
    BY <1>6 DEF PollPast, Locked, Polling
  <2>2. ReportedWhereWritten'
    <3>1. change_info \in Seq([directory : Dirs, file : Requested, origin : SUBSET Dirs])
      BY DEF TrackerInv, Win32TypeOK
    <3>2. ASSUME NEW n, change_info' = Append(change_info,
                          [directory |-> Head(todo), file |-> n, origin |-> {}])
          PROVE  ReportedWhereWritten'
      <4>1. \A i \in 1 .. Len(change_info') :
              \/ i \in 1 .. Len(change_info) /\ change_info'[i] = change_info[i]
              \/ change_info'[i] = [directory |-> Head(todo), file |-> n, origin |-> {}]
        BY <3>1, <3>2
      <4> QED
        BY <4>1 DEF SlotsInv, ReportedWhereWritten
    <3>3. CASE UNCHANGED change_info
      BY <3>3 DEF SlotsInv, ReportedWhereWritten
    <3> QED
      BY <1>6, <3>2, <3>3, Zenon DEF PollPast
  <2>3. Aligned
    BY <2>1, AlignedUnderLock
  <2> QED
    BY <2>1, <2>2, <2>3 DEF SlotsInv, HeldHere, ReadsStray, ReadsInPlace, BuffersInPlace,
       mapVars, flagVars, arrayVars, kernelVars
<1>3. ASSUME lpc = "parse", AfterEntry \/ EntriesDone
      PROVE  lpc' \in {"poll", "parse"}
  BY <1>3 DEF AfterEntry, EntriesDone
<1>4. CASE SkipEntry \/ SkipFresh
  <2>1. /\ UNCHANGED <<mapVars, flagVars, change_info, dir_count, read_buffer, kernelVars>>
        /\ lpc' \in {"poll", "parse"} /\ Locked
    BY <1>3, <1>4 DEF SkipEntry, SkipFresh, ParseEntry, Locked, Polling
  <2> QED
    BY <2>1, AlignedUnderLock, SlotsKept DEF Aligned, Allocated, Locked, Polling, mapVars, flagVars,
       kernelVars
<1>5. CASE ReportEntry
  <2>1. /\ UNCHANGED <<mapVars, flagVars, dir_count, read_buffer, kernelVars>>
        /\ lpc' \in {"poll", "parse"} /\ Locked
        /\ change_info' = Append(change_info,
             [directory |-> Head(todo), file |-> Entry.change.file,
              origin |-> {Entry.change.directory}])
    BY <1>3, <1>5 DEF ReportEntry, ParseEntry, Locked, Polling
  <2>2. Entry.change.directory = Head(todo)
    <3>1. /\ index \in DOMAIN read_buffer /\ consumed + 1 \in 1 .. Len(read_buffer[index])
          /\ todo # <<>>
      BY <1>5, EntryType DEF ReportEntry, TrackerInv
    <3>2. Head(todo) = tracked_directory[index]
      BY <2>1, <3>1, CurrentIsTracked DEF TrackerInv
    <3>3. BuffersInPlace
      BY <2>1, AlignedUnderLock DEF SlotsInv
    <3> QED
      BY <3>1, <3>2, <3>3 DEF BuffersInPlace, Entry
  <2>3. ReportedWhereWritten'
    <3>1. change_info \in Seq([directory : Dirs, file : Requested, origin : SUBSET Dirs])
      BY DEF TrackerInv, Win32TypeOK
    <3>2. \A i \in 1 .. Len(change_info') :
            \/ i \in 1 .. Len(change_info) /\ change_info'[i] = change_info[i]
            \/ change_info'[i].origin = {change_info'[i].directory}
      BY <2>1, <2>2, <3>1
    <3> QED
      BY <3>2 DEF SlotsInv, ReportedWhereWritten
  <2>4. Aligned /\ ~(lpc' \in {"allocate", "listen"})
    BY <2>1, AlignedUnderLock
  <2> QED
    BY <2>1, <2>3, <2>4 DEF SlotsInv, HeldHere, ReadsStray, ReadsInPlace, BuffersInPlace, Locked,
       mapVars, flagVars, kernelVars
<1> QED
  BY <1>1, <1>2, <1>4, <1>5, <1>6

LEMMA SlotsInit ==
  ASSUME Init
  PROVE  SlotsInv
<1>1. reset_tracking = FALSE /\ lpc = "begin" /\ held = [d \in Dirs |-> <<>>] /\ change_info = <<>>
  BY DEF Init
<1> QED
  BY <1>1 DEF SlotsInv, HeldHere, ReadsStray, Aligned, Allocated, Locked, Polling,
     ReportedWhereWritten

LEMMA SlotsStep ==
  ASSUME TrackerInv, SlotsInv, [Next]_vars
  PROVE  SlotsInv'
<1>1. CASE UNCHANGED vars
  BY <1>1, SlotsUnchanged DEF vars, mapVars, flagVars, iterVars, arrayVars, kernelVars
<1>2. CASE DataRace
  BY <1>2, SlotsUnchanged DEF DataRace, mapVars, flagVars, iterVars, arrayVars, kernelVars
<1>3. CASE Environment
  BY <1>3, WriteKeepsSlots DEF Environment
<1>4. CASE Caller
  BY <1>4, CallerKeepsSlots
<1>5. CASE Listener
  BY <1>5, ListenKeepsSlots, PastKeepsSlots, OuterLoopKeepsSlots, PollKeepsSlots DEF Listener
<1> QED
  BY <1>1, <1>2, <1>3, <1>4, <1>5 DEF Next

\* A notification of a read names the directory the file was written in, for any number
\* of directories, wherever a new one comes in the iteration and whatever the
\* reads are at when it does (file_track.cpp:150-293).
THEOREM ReportsNameTheirDirectory == Spec => []ReportedWhereWritten
<1>1. Init => SlotsInv
  BY SlotsInit
<1>2. TrackerInv /\ SlotsInv /\ [Next]_vars => SlotsInv'
  BY SlotsStep
<1>3. SlotsInv => ReportedWhereWritten
  BY DEF SlotsInv
<1> QED
  BY <1>1, <1>2, <1>3, TrackerInvariant, PTL DEF Spec
-----------------------------------------------------------------------------
(* The tracker implements the feed.                                         *)

\* The state of the feed.
TrackedPairs ==
  UNION {{d} \X files_tracked_within_directory[d] : d \in DOMAIN files_tracked_within_directory}
PendingPairs == [i \in 1 .. Len(change_info) |-> <<change_info[i].directory, change_info[i].file>>]

LEMMA TrackedPair ==
  ASSUME NEW d, NEW n
  PROVE  <<d, n>> \in TrackedPairs <=>
           d \in DOMAIN files_tracked_within_directory /\ n \in files_tracked_within_directory[d]
BY DEF TrackedPairs

\* A notification that is reported, or taken, is so in the feed.
LEMMA PendingAppend ==
  ASSUME NEW S, change_info \in Seq(S), NEW r \in S, change_info' = Append(change_info, r)
  PROVE  PendingPairs' = Append(PendingPairs, <<r.directory, r.file>>)
<1> DEFINE n == Len(change_info)
           p == <<r.directory, r.file>>
<1>1. n \in Nat /\ Len(change_info') = n + 1
      /\ change_info'[n + 1] = r /\ \A i \in 1 .. n : change_info'[i] = change_info[i]
  OBVIOUS
<1>2. /\ DOMAIN PendingPairs = 1 .. n
      /\ \A i \in 1 .. n : PendingPairs[i] = <<change_info[i].directory, change_info[i].file>>
  BY DEF PendingPairs
<1>3. PendingPairs' = [i \in 1 .. n + 1 |-> <<change_info'[i].directory, change_info'[i].file>>]
  BY <1>1 DEF PendingPairs
<1>4. Len(PendingPairs) = n
  BY <1>1 DEF PendingPairs
<1>5. Append(PendingPairs, p) = [i \in 1 .. n + 1 |-> IF i = n + 1 THEN p ELSE PendingPairs[i]]
  BY <1>4
<1> HIDE DEF n
<1>6. \A i \in 1 .. n + 1 :
        <<change_info'[i].directory, change_info'[i].file>> = IF i = n + 1 THEN p ELSE PendingPairs[i]
  <2> TAKE i \in 1 .. n + 1
  <2>1. i \in 1 .. n \/ i = n + 1
    BY <1>1
  <2>2. i \in 1 .. n => i # n + 1
    BY <1>1
  <2> QED
    BY <1>1, <1>2, <2>1, <2>2
<1> QED
  BY <1>3, <1>5, <1>6

LEMMA PendingTail ==
  ASSUME NEW S, change_info \in Seq(S), change_info # <<>>, change_info' = Tail(change_info)
  PROVE  PendingPairs # <<>> /\ PendingPairs' = Tail(PendingPairs)
<1> DEFINE n == Len(change_info)
<1>1. n \in Nat \ {0} /\ Len(change_info') = n - 1
      /\ \A i \in 1 .. n - 1 : change_info'[i] = change_info[i + 1]
  OBVIOUS
<1>2. Len(PendingPairs) = n
  BY <1>1 DEF PendingPairs
<1>3. Tail(PendingPairs) = [i \in 1 .. n - 1 |-> PendingPairs[i + 1]]
  <2> DEFINE q == PendingPairs
             R == {q[i] : i \in 1 .. n}
  <2>1. n \in Nat /\ q = [i \in 1 .. n |-> q[i]] /\ \A i \in 1 .. n : q[i] \in R
    BY <1>1 DEF PendingPairs
  <2> HIDE DEF n, q, R
  <2>2. q \in Seq(R) /\ Len(q) = n
    BY <2>1
  <2> QED
    BY <2>1, <2>2 DEF q
<1>4. \A i \in 1 .. n - 1 :
        PendingPairs[i + 1] = <<change_info[i + 1].directory, change_info[i + 1].file>>
  BY <1>1 DEF PendingPairs
<1>5. PendingPairs' = [i \in 1 .. n - 1 |-> <<change_info'[i].directory, change_info'[i].file>>]
  BY <1>1 DEF PendingPairs
<1>6. PendingPairs # <<>>
  BY <1>1, <1>2
<1> HIDE DEF n
<1> QED
  BY <1>1, <1>3, <1>4, <1>5, <1>6

LEMMA FeedUnchanged ==
  ASSUME UNCHANGED <<files_tracked_within_directory, change_info>>, lpc' = "done" <=> lpc = "done"
  PROVE  UNCHANGED Feed!feedVars
BY DEF Feed!feedVars

\* What is asked for is tracked from then on.
LEMMA AddTracks ==
  ASSUME TrackerInv, AddToDirectory \/ AddDirectory
  PROVE  Feed!FeedNext
<1>1. cdir \in Dirs /\ cfile \in Requested
  BY DEF TrackerInv, Win32TypeOK
<1>2. UNCHANGED <<change_info, lpc>>
  BY DEF AddToDirectory, AddDirectory
<1>3. /\ DOMAIN files_tracked_within_directory' = DOMAIN files_tracked_within_directory \cup {cdir}
      /\ files_tracked_within_directory'[cdir] =
           (IF cdir \in DOMAIN files_tracked_within_directory
            THEN files_tracked_within_directory[cdir] ELSE {}) \cup {cfile}
      /\ \A d \in DOMAIN files_tracked_within_directory \ {cdir} :
           files_tracked_within_directory'[d] = files_tracked_within_directory[d]
  BY DEF AddToDirectory, AddDirectory
<1>4. TrackedPairs' = TrackedPairs \cup {<<cdir, cfile>>}
  <2>1. ASSUME NEW p \in TrackedPairs'
        PROVE  p \in TrackedPairs \cup {<<cdir, cfile>>}
    <3>1. PICK d \in DOMAIN files_tracked_within_directory' :
            \E n \in files_tracked_within_directory'[d] : p = <<d, n>>
      BY <2>1 DEF TrackedPairs
    <3>2. PICK n \in files_tracked_within_directory'[d] : p = <<d, n>>
      BY <3>1
    <3> QED
      BY <1>3, <3>2, TrackedPair
  <2>2. ASSUME NEW p \in TrackedPairs \cup {<<cdir, cfile>>}
        PROVE  p \in TrackedPairs'
    <3>1. CASE p = <<cdir, cfile>>
      BY <1>3, <3>1 DEF TrackedPairs
    <3>2. CASE p \in TrackedPairs
      <4>1. PICK d \in DOMAIN files_tracked_within_directory :
              \E n \in files_tracked_within_directory[d] : p = <<d, n>>
        BY <3>2 DEF TrackedPairs
      <4>2. PICK n \in files_tracked_within_directory[d] : p = <<d, n>>
        BY <4>1
      <4>3. d \in DOMAIN files_tracked_within_directory' /\ n \in files_tracked_within_directory'[d]
        BY <1>3, <4>2
      <4> QED
        BY <4>2, <4>3 DEF TrackedPairs
    <3> QED
      BY <2>2, <3>1, <3>2
  <2> QED
    BY <2>1, <2>2
<1>5. PICK s \in Dirs \X Requested : s = <<cdir, cfile>>
  BY <1>1
<1>6. Feed!Track(s)
  BY <1>2, <1>4, <1>5 DEF Feed!Track, TrackedPairs
<1> QED
  BY <1>6 DEF Feed!FeedNext

\* What is reported is tracked.
LEMMA ReportReports ==
  ASSUME TrackerInv, ReportEntry
  PROVE  Feed!FeedNext
<1> DEFINE r == [directory |-> Head(todo), file |-> Entry.change.file,
                 origin |-> {Entry.change.directory}]
           p == <<Head(todo), Entry.change.file>>
<1>1. /\ Entry \in Entries /\ todo # <<>> /\ Head(todo) \in Dirs
      /\ lpc = "parse" /\ Locked
  BY EntryType DEF TrackerInv, ReportEntry, ParseEntry, Locked, Polling
<1>2. Head(todo) \in DOMAIN files_tracked_within_directory
  BY <1>1, CurrentIsTracked DEF TrackerInv
<1>3. Entry.change.file \in files_tracked_within_directory[Head(todo)]
  BY DEF ReportEntry, IsTracked
<1>4. Entry.change.file \in Requested /\ Entry.change.directory \in Dirs
  BY <1>1, <1>2, <1>3 DEF TrackerInv, Win32TypeOK, Entries, Changes
<1>5. p \in TrackedPairs
  BY <1>2, <1>3, TrackedPair
<1>6. change_info' = Append(change_info, r)
      /\ change_info \in Seq([directory : Dirs, file : Requested, origin : SUBSET Dirs])
      /\ r \in [directory : Dirs, file : Requested, origin : SUBSET Dirs]
  BY <1>1, <1>4 DEF ReportEntry, TrackerInv, Win32TypeOK
<1>7. PendingPairs' = Append(PendingPairs, p)
  <2>1. r.directory = Head(todo) /\ r.file = Entry.change.file
    OBVIOUS
  <2> HIDE DEF r
  <2>2. PendingPairs' = Append(PendingPairs, <<r.directory, r.file>>)
    BY <1>6, PendingAppend
  <2> QED
    BY <2>1, <2>2
<1>8. lpc' # "done" /\ UNCHANGED files_tracked_within_directory
  BY <1>1 DEF ReportEntry, AfterEntry, EntriesDone, mapVars
<1>9. PICK s \in Dirs \X Requested : s = p
  BY <1>1, <1>4
<1>10. Feed!Report(s)
  <2>1. s \in TrackedPairs /\ PendingPairs' = Append(PendingPairs, s)
    BY <1>5, <1>7, <1>9
  <2>2. /\ (lpc # "done") = TRUE /\ (lpc # "done")' = TRUE
        /\ UNCHANGED files_tracked_within_directory
    BY <1>1, <1>8
  <2> HIDE DEF r, p
  <2> QED
    BY <2>1, <2>2 DEF Feed!Report, TrackedPairs, PendingPairs
<1> QED
  BY <1>10 DEF Feed!FeedNext

\* So is what is reported from behind the arrays.
LEMMA PastReports ==
  ASSUME TrackerInv, PollPast, change_info' # change_info
  PROVE  Feed!FeedNext
<1>1. PICK n \in files_tracked_within_directory[Head(todo)] :
        change_info' = Append(change_info, [directory |-> Head(todo), file |-> n, origin |-> {}])
  BY DEF PollPast
<1>2. Head(todo) \in DOMAIN files_tracked_within_directory /\ Head(todo) \in Dirs
  BY CurrentIsTracked DEF PollPast, Locked, Polling, TrackerInv, Win32TypeOK, ListenerTypeOK
<1>3. n \in Requested
  BY <1>1, <1>2 DEF TrackerInv, Win32TypeOK
<1> DEFINE r == [directory |-> Head(todo), file |-> n, origin |-> {}]
<1>4. /\ r \in [directory : Dirs, file : Requested, origin : SUBSET Dirs]
      /\ change_info \in Seq([directory : Dirs, file : Requested, origin : SUBSET Dirs])
      /\ r.directory = Head(todo) /\ r.file = n
  BY <1>2, <1>3 DEF TrackerInv, Win32TypeOK
<1>5. change_info' = Append(change_info, r)
  BY <1>1
<1> HIDE DEF r
<1>6. PendingPairs' = Append(PendingPairs, <<r.directory, r.file>>)
  BY <1>4, <1>5, PendingAppend
<1>7. PICK s \in Dirs \X Requested : s = <<Head(todo), n>>
  BY <1>2, <1>3
<1>8. s \in TrackedPairs /\ PendingPairs' = Append(PendingPairs, s)
  BY <1>1, <1>2, <1>4, <1>6, <1>7, TrackedPair
<1>9. /\ (lpc # "done") = TRUE /\ (lpc # "done")' = TRUE
      /\ UNCHANGED files_tracked_within_directory
  BY DEF PollPast, mapVars
<1>10. Feed!Report(s)
  BY <1>8, <1>9 DEF Feed!Report, TrackedPairs, PendingPairs
<1> QED
  BY <1>10 DEF Feed!FeedNext

LEMMA TakeTakes ==
  ASSUME TrackerInv, TryPopChangeInfo
  PROVE  Feed!FeedNext
<1>1. PendingPairs # <<>> /\ PendingPairs' = Tail(PendingPairs)
  BY PendingTail DEF TryPopChangeInfo, TrackerInv, Win32TypeOK
<1>2. UNCHANGED <<files_tracked_within_directory, lpc>>
  BY DEF TryPopChangeInfo, mapVars
<1>3. Feed!Take
  BY <1>1, <1>2 DEF Feed!Take, PendingPairs
<1> QED
  BY <1>3 DEF Feed!FeedNext

LEMMA FeedStep ==
  ASSUME TrackerInv, [Next]_vars
  PROVE  Feed!FeedNext \/ UNCHANGED Feed!feedVars
<1>1. CASE AddToDirectory \/ AddDirectory
  BY <1>1, AddTracks
<1>2. CASE TryPopChangeInfo
  BY <1>2, TakeTakes
<1>3. CASE ReportEntry
  BY <1>3, ReportReports
<1>4. CASE Leave
  <2>1. lpc' = "done" /\ UNCHANGED <<files_tracked_within_directory, change_info>>
    BY <1>4 DEF Leave, mapVars
  <2>2. Feed!End
    BY <2>1 DEF Feed!End
  <2> QED
    BY <2>2 DEF Feed!FeedNext
<1>5. CASE \/ \E d \in Dirs, n \in Requested : TrackFile(d, n)
           \/ StopListening \/ DataRace \/ Environment \/ UNCHANGED vars
  BY <1>5, FeedUnchanged DEF TrackFile, StopListening, DataRace, Environment, Write, vars, mapVars
<1>6. CASE \/ Begin \/ Check \/ CountDirectories \/ Allocate
           \/ Iterate \/ ListenDirectory \/ ListenPast \/ EndListen
  BY <1>6, FeedUnchanged DEF Begin, Check, CountDirectories, Allocate, Iterate, ListenDirectory,
     ListenPast, EndListen, mapVars
<1>7. CASE Wait \/ PollPending \/ PollComplete \/ EndPoll
  BY <1>7, FeedUnchanged DEF Wait, PollPending, PollComplete, EndPoll, mapVars
<1>8. CASE SkipEntry \/ SkipFresh
  BY <1>8, FeedUnchanged DEF SkipEntry, SkipFresh, ParseEntry, AfterEntry, EntriesDone, mapVars
<1>9. CASE PollPast
  BY <1>9, PastReports, FeedUnchanged DEF PollPast, mapVars
<1> QED
  BY <1>1, <1>2, <1>3, <1>4, <1>5, <1>6, <1>7, <1>8, <1>9 DEF Next, Caller, Listener

\* The threads, maps, arrays and queue of the Windows FileTracker implement
\* the feed the Linux one implements, without the races of its maps: a report
\* is of a file that was asked for, and is taken once, in order
\* (file_track.cpp:31-88, 126-299).
THEOREM Win32TrackerImplementsFeed == Spec => ImplementsChangeFeed
<1>1. Init => Feed!FeedInit
  <2>1. ASSUME Init PROVE PendingPairs = <<>> /\ TrackedPairs = {}
    BY <2>1 DEF Init, PendingPairs, TrackedPairs
  <2> QED
    BY <2>1 DEF Init, Feed!FeedInit, PendingPairs, TrackedPairs
<1>2. TrackerInv /\ [Next]_vars => [Feed!FeedNext \/ FALSE']_(Feed!feedVars)
  BY FeedStep
<1> QED
  BY <1>1, <1>2, TrackerInvariant, PTL DEF Spec, ImplementsChangeFeed, Feed!FeedSpec
=============================================================================
