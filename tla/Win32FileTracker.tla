-------------------------- MODULE Win32FileTracker --------------------------
(***************************************************************************)
(* struct FileTracker as built on Windows (src/src/filesystem/             *)
(* file_track.cpp and file_track.hpp).  TrackFile adds a file to the       *)
(* directory it is in; the listener keeps one asynchronous read per        *)
(* directory under way and polls them for completion.  tracker_lock guards *)
(* the maps, but not every use of them.                                    *)
(*                                                                         *)
(* A directory stands for its handle, which is opened once.  The arrays of *)
(* the listener are indexed by the place of a directory in the iteration   *)
(* of tracked_directory; completed, once allocated, is TRUE everywhere and *)
(* for ever, so it is not a variable.  TrackFolder is left out.            *)
(***************************************************************************)
EXTENDS Naturals, SequencesExt

CONSTANTS
  Dirs,        \* directories, and the handles they are opened as
  Names,       \* file names, without the directory
  Requested,   \* those that are asked for: the others only change
  MaxHeld,     \* bound: changes of a directory the kernel keeps between reads
  MaxReads,    \* bound: reads of one directory under way at once
  MaxPending   \* bound: notifications that wait in change_info

ASSUME Win32Assumption ==
  /\ Dirs # {} /\ Requested # {} /\ Requested \subseteq Names
  /\ MaxHeld \in Nat \ {0} /\ MaxReads \in Nat \ {0} /\ MaxPending \in Nat \ {0}

VARIABLES
  tracked_directory,              \* its keys, in the order of the iteration
  files_tracked_within_directory, \* directory -> names
  lost,                           \* history: a directory was added after the
                                  \* count and before the flag was cleared
  reset_tracking, stop_listening,
  change_info,                    \* queue of [directory, file, origin]; origin is
                                  \* history: where the file was written, if it was
  cpc, cdir, cfile,               \* caller: idle, or about to take the lock
  lpc,                            \* listener: its next step
  todo, index,                    \* listener: directories left of an iteration
  dir_count,                      \* listener: size of the arrays
  overlap, read_buffer,           \* listener: the arrays
  consumed, relisten,             \* listener: entries parsed, leave the poll
  reads,                          \* kernel: directory -> slots of its reads
  held, overflown,                \* kernel: changes not handed to a read yet
  started,                        \* kernel: directories it keeps changes of
  status                          \* "running", or how the process died

mapVars == <<tracked_directory, files_tracked_within_directory, lost>>
callerVars == <<cpc, cdir, cfile>>
arrayVars == <<dir_count, overlap, read_buffer>>
iterVars == <<todo, index, consumed, relisten>>
kernelVars == <<reads, held, overflown, started>>
flagVars == <<reset_tracking, stop_listening>>
vars == <<mapVars, flagVars, change_info, callerVars, lpc, iterVars, arrayVars,
          kernelVars, status>>

SomeDir == CHOOSE d \in Dirs : TRUE
SomeName == CHOOSE n \in Requested : TRUE

\* The listener holds tracker_lock: from the poll of the first directory to
\* the end of the loop's body, yield() included.
Polling == {"poll", "parse"}
Locked == lpc \in Polling

-----------------------------------------------------------------------------
(* The kernel: asynchronous reads of a directory, in the order they came.  *)

\* The slot of a read whose OVERLAPPED and buffer are not the listener's: they have
\* been freed, or lie behind its arrays.
Stray == 0

Changes == [directory : Dirs, file : Names]
Change(d, n) == [directory |-> d, file |-> n]

\* Entries are written from the start of the buffer; what a longer content
\* left behind them stays.
Fill(old, entries) ==
  [i \in 1 .. (IF Len(entries) > Len(old) THEN Len(entries) ELSE Len(old)) |->
     IF i <= Len(entries) THEN [change |-> entries[i], more |-> i < Len(entries)]
     ELSE old[i]]

\* A read into slot j is done.
Complete(j, entries) ==
  /\ overlap' = [overlap EXCEPT ![j] = "done"]
  /\ read_buffer' = [read_buffer EXCEPT ![j] = Fill(@, entries)]

\* Another program writes file n in directory d.
WriteHeld(d, n) ==
  /\ d \in started /\ reads[d] = <<>>
  /\ IF Len(held[d]) < MaxHeld /\ d \notin overflown
     THEN held' = [held EXCEPT ![d] = Append(@, Change(d, n))] /\ UNCHANGED overflown
     ELSE held' = [held EXCEPT ![d] = <<>>] /\ overflown' = overflown \cup {d}
  /\ UNCHANGED <<arrayVars, reads, started, status>>

WriteRead(d, n) ==
  /\ reads[d] # <<>> /\ Head(reads[d]) # Stray
  /\ Complete(Head(reads[d]), <<Change(d, n)>>)
  /\ reads' = [reads EXCEPT ![d] = Tail(@)]
  /\ UNCHANGED <<dir_count, held, overflown, started, status>>

\* The change goes to memory that is not the listener's: it is lost, or worse.
WriteStray(d, n) ==
  /\ reads[d] # <<>> /\ Head(reads[d]) = Stray
  /\ reads' = [reads EXCEPT ![d] = Tail(@)]
  /\ status' \in {"running", "heap_corrupted"}
  /\ UNCHANGED <<arrayVars, held, overflown, started>>

Write(d, n) ==
  /\ status = "running"
  /\ WriteHeld(d, n) \/ WriteRead(d, n) \/ WriteStray(d, n)
  /\ UNCHANGED <<mapVars, flagVars, change_info, callerVars, lpc, iterVars>>

\* ReadDirectoryChangesW(d, read_buffer[j], overlap[j]); after an overflow it
\* is done at once and leaves the buffer as it is.
ReadDirectoryChanges(d, j) ==
  /\ started' = started \cup {d}
  /\ IF held[d] # <<>> \/ d \in overflown
     THEN /\ Complete(j, held[d])
          /\ held' = [held EXCEPT ![d] = <<>>]
          /\ overflown' = overflown \ {d}
          /\ UNCHANGED reads
     ELSE /\ reads' = [reads EXCEPT ![d] = Append(@, j)]
          /\ overlap' = [overlap EXCEPT ![j] = "pending"]
          /\ UNCHANGED <<held, overflown, read_buffer>>

-----------------------------------------------------------------------------
(* The caller's thread.                                                    *)

\* Up to the lock: the directory is looked up, or opened.
TrackFile(d, n) ==
  /\ status = "running" /\ cpc = "idle"
  /\ cpc' = "lock" /\ cdir' = d /\ cfile' = n
  /\ UNCHANGED <<mapVars, flagVars, change_info, lpc, iterVars, arrayVars,
                 kernelVars, status>>

CallerReturns == cpc' = "idle" /\ cdir' = SomeDir /\ cfile' = SomeName

\* The directory is tracked already.
AddToDirectory ==
  /\ status = "running" /\ cpc = "lock" /\ ~Locked
  /\ cdir \in DOMAIN files_tracked_within_directory
  /\ files_tracked_within_directory' =
       [files_tracked_within_directory EXCEPT ![cdir] = @ \cup {cfile}]
  /\ reset_tracking' = TRUE
  /\ CallerReturns
  /\ UNCHANGED <<tracked_directory, lost, stop_listening, change_info, lpc, iterVars,
                 arrayVars, kernelVars, status>>

\* Where an unordered_map puts a key is not specified: anywhere.  An iteration
\* that is under way meets it if it is behind the iterator.
InsertDirectory(d) ==
  /\ \E i \in 1 .. Len(tracked_directory) + 1 :
       tracked_directory' = InsertAt(tracked_directory, i, d)
  /\ \/ UNCHANGED todo
     \/ \E i \in 2 .. Len(todo) + 1 : lpc = "listen" /\ todo' = InsertAt(todo, i, d)

\* The directory is new.  Once the directories have been counted, the arrays
\* are too short for it; before the flag is cleared (file_track.cpp:163-181), the
\* reset is lost too.
AddDirectory ==
  /\ status = "running" /\ cpc = "lock" /\ ~Locked
  /\ cdir \notin DOMAIN files_tracked_within_directory
  /\ InsertDirectory(cdir)
  /\ files_tracked_within_directory' =
       [d \in DOMAIN files_tracked_within_directory \cup {cdir} |->
          IF d = cdir THEN {cfile} ELSE files_tracked_within_directory[d]]
  /\ lost' = (lost \/ lpc = "allocate")
  /\ reset_tracking' = TRUE
  /\ CallerReturns
  /\ UNCHANGED <<stop_listening, change_info, lpc, index, consumed, relisten,
                 arrayVars, kernelVars, status>>

\* The map is changed under the lock and iterated without it.
DataRace ==
  /\ status = "running" /\ cpc = "lock" /\ lpc = "listen" /\ todo # <<>>
  /\ cdir \notin DOMAIN files_tracked_within_directory
  /\ status' = "data_race"
  /\ UNCHANGED <<mapVars, flagVars, change_info, callerVars, lpc, iterVars,
                 arrayVars, kernelVars>>

TryPopChangeInfo ==
  /\ status = "running" /\ cpc = "idle" /\ change_info # <<>>
  /\ change_info' = Tail(change_info)
  /\ UNCHANGED <<mapVars, flagVars, callerVars, lpc, iterVars, arrayVars,
                 kernelVars, status>>

StopListening ==
  /\ status = "running" /\ cpc = "idle" /\ ~stop_listening
  /\ stop_listening' = TRUE
  /\ UNCHANGED <<mapVars, reset_tracking, change_info, callerVars, lpc, iterVars,
                 arrayVars, kernelVars, status>>

-----------------------------------------------------------------------------
(* ListenForChanges.                                                       *)

Begin ==
  /\ status = "running" /\ lpc = "begin"
  /\ reset_tracking' = TRUE
  /\ lpc' = "check"
  /\ UNCHANGED <<mapVars, stop_listening, change_info, callerVars, iterVars,
                 arrayVars, kernelVars, status>>

\* delete[] of the buffers, whatever is still being read into them.
FreeArrays ==
  /\ reads' = [d \in Dirs |-> [i \in 1 .. Len(reads[d]) |-> Stray]]
  /\ overlap' = <<>> /\ read_buffer' = <<>>

\* The head of the outer loop.
Check ==
  /\ status = "running" /\ lpc = "check" /\ ~stop_listening
  /\ lpc' = IF reset_tracking THEN "count" ELSE "iterate"
  /\ UNCHANGED <<mapVars, flagVars, change_info, callerVars, iterVars, arrayVars,
                 kernelVars, status>>

Leave ==
  /\ status = "running" /\ lpc = "check" /\ stop_listening
  /\ FreeArrays
  /\ dir_count' = 0
  /\ lpc' = "done"
  /\ UNCHANGED <<mapVars, flagVars, change_info, callerVars, iterVars, held,
                 overflown, started, status>>

\* Free, and count the directories under the lock.
CountDirectories ==
  /\ status = "running" /\ lpc = "count"
  /\ FreeArrays
  /\ dir_count' = Len(tracked_directory)
  /\ lost' = FALSE
  /\ lpc' = "allocate"
  /\ UNCHANGED <<tracked_directory, files_tracked_within_directory, flagVars,
                 change_info, callerVars, iterVars, held, overflown, started, status>>

Allocate ==
  /\ status = "running" /\ lpc = "allocate"
  /\ overlap' = [j \in 1 .. dir_count |-> "idle"]
  /\ read_buffer' = [j \in 1 .. dir_count |-> <<>>]
  /\ reset_tracking' = FALSE
  /\ lpc' = "iterate"
  /\ UNCHANGED <<mapVars, stop_listening, change_info, callerVars, iterVars,
                 dir_count, kernelVars, status>>

\* for (auto const &[handle, dir_info] : tracked_directory), without the lock.
Iterate ==
  /\ status = "running" /\ lpc = "iterate"
  /\ todo' = tracked_directory /\ index' = 1
  /\ lpc' = "listen"
  /\ UNCHANGED <<mapVars, flagVars, change_info, callerVars, consumed, relisten,
                 arrayVars, kernelVars, status>>

\* Using memory outside the arrays may end the process, and does when there are none:
\* completed and overlap are null then.  Damage done to other parts of the heap is
\* not followed any further.
Outside == status' \in {"running", "overrun"} /\ (dir_count = 0 => status' = "overrun")

NextDirectory == todo' = Tail(todo) /\ index' = index + 1

ListenDirectory ==
  /\ status = "running" /\ lpc = "listen"
  /\ todo # <<>> /\ index <= dir_count
  /\ Len(reads[Head(todo)]) < MaxReads
  /\ ReadDirectoryChanges(Head(todo), index)
  /\ NextDirectory
  /\ UNCHANGED <<mapVars, flagVars, change_info, callerVars, lpc, consumed,
                 relisten, dir_count, status>>

\* completed[c] is whatever lies behind the array: no read is started for the
\* directory, or one into memory that is not the listener's.
ListenPast ==
  /\ status = "running" /\ lpc = "listen"
  /\ todo # <<>> /\ index > dir_count
  /\ Outside
  /\ \/ UNCHANGED <<reads, held, overflown, started>>
     \/ /\ started' = started \cup {Head(todo)}
        /\ IF held[Head(todo)] # <<>> \/ Head(todo) \in overflown
           THEN /\ held' = [held EXCEPT ![Head(todo)] = <<>>]
                /\ overflown' = overflown \ {Head(todo)}
                /\ UNCHANGED reads
           ELSE /\ Len(reads[Head(todo)]) < MaxReads
                /\ reads' = [reads EXCEPT ![Head(todo)] = Append(@, Stray)]
                /\ UNCHANGED <<held, overflown>>
  /\ NextDirectory
  /\ UNCHANGED <<mapVars, flagVars, change_info, callerVars, lpc, consumed,
                 relisten, arrayVars>>

EndListen ==
  /\ status = "running" /\ lpc = "listen" /\ todo = <<>>
  /\ lpc' = "wait"
  /\ UNCHANGED <<mapVars, flagVars, change_info, callerVars, iterVars, arrayVars,
                 kernelVars, status>>

\* Faulty variant: the reset is not looked at again under the lock.
WaitAnyway ==
  /\ status = "running" /\ lpc = "wait"
  /\ IF stop_listening
     THEN lpc' = "check" /\ UNCHANGED <<todo, index, relisten>>
     ELSE lpc' = "poll" /\ todo' = tracked_directory /\ index' = 1 /\ relisten' = FALSE
  /\ UNCHANGED <<mapVars, flagVars, change_info, callerVars, consumed, arrayVars,
                 kernelVars, status>>

\* Take the lock; a reset sends the listener back to the outer loop.
Wait ==
  /\ status = "running" /\ lpc = "wait"
  /\ IF stop_listening \/ reset_tracking
     THEN lpc' = "check" /\ UNCHANGED <<todo, index, relisten>>
     ELSE lpc' = "poll" /\ todo' = tracked_directory /\ index' = 1 /\ relisten' = FALSE
  /\ UNCHANGED <<mapVars, flagVars, change_info, callerVars, consumed, arrayVars,
                 kernelVars, status>>

\* GetOverlappedResult says the read is not complete.
PollPending ==
  /\ status = "running" /\ lpc = "poll"
  /\ todo # <<>> /\ index <= dir_count
  /\ overlap[index] = "pending"
  /\ NextDirectory
  /\ UNCHANGED <<mapVars, flagVars, change_info, callerVars, lpc, consumed,
                 relisten, arrayVars, kernelVars, status>>

\* The OVERLAPPED and the buffer behind the arrays are whatever lies there: not
\* complete, or complete with anything in the buffer, also the name of a file that
\* is tracked; the slot behind the arrays is then written to.
PollPast ==
  /\ status = "running" /\ lpc = "poll"
  /\ todo # <<>> /\ index > dir_count
  /\ Outside
  /\ \/ UNCHANGED <<change_info, relisten>>
     \/ /\ relisten' = TRUE
        /\ \/ UNCHANGED change_info
           \/ \E n \in files_tracked_within_directory[Head(todo)] :
                /\ Len(change_info) < MaxPending
                /\ change_info' = Append(change_info,
                     [directory |-> Head(todo), file |-> n, origin |-> {}])
  /\ NextDirectory
  /\ UNCHANGED <<mapVars, flagVars, callerVars, lpc, consumed, arrayVars,
                 kernelVars>>

PollComplete ==
  /\ status = "running" /\ lpc = "poll"
  /\ todo # <<>> /\ index <= dir_count
  /\ overlap[index] # "pending"
  /\ lpc' = "parse" /\ consumed' = 0
  /\ UNCHANGED <<mapVars, flagVars, change_info, callerVars, todo, index,
                 relisten, arrayVars, kernelVars, status>>

\* Faulty variant: every poll is followed by new reads.
EndPollRelisten ==
  /\ status = "running" /\ lpc = "poll" /\ todo = <<>>
  /\ lpc' = "check"
  /\ relisten' = FALSE
  /\ UNCHANGED <<mapVars, flagVars, change_info, callerVars, todo, index,
                 consumed, arrayVars, kernelVars, status>>

\* Another turn of the outer loop when something was reported, or another poll.
EndPoll ==
  /\ status = "running" /\ lpc = "poll" /\ todo = <<>>
  /\ lpc' = IF relisten THEN "check" ELSE "wait"
  /\ relisten' = FALSE
  /\ UNCHANGED <<mapVars, flagVars, change_info, callerVars, todo, index,
                 consumed, arrayVars, kernelVars, status>>

Entry == read_buffer[index][consumed + 1]

\* Faulty variant: as if whole directories were tracked.
IsTrackedAnyway == Entry.change \in Changes

\* The file is one of those tracked in the directory the listener is at.
IsTracked == Entry.change.file \in files_tracked_within_directory[Head(todo)]

\* The listener is at an entry it can act on.  A fresh buffer, read nothing
\* into, is one entry without a name.
ParseEntry == status = "running" /\ lpc = "parse" /\ consumed < Len(read_buffer[index])

\* Reset the OVERLAPPED and go on with the next directory.
EntriesDone ==
  /\ overlap' = [overlap EXCEPT ![index] = "idle"]
  /\ relisten' = TRUE /\ consumed' = 0
  /\ lpc' = "poll"
  /\ NextDirectory

AfterEntry ==
  IF Entry.more
  THEN consumed' = consumed + 1 /\ UNCHANGED <<lpc, todo, index, relisten, overlap>>
  ELSE EntriesDone

ReportEntry ==
  /\ ParseEntry
  /\ IsTracked
  /\ Len(change_info) < MaxPending
  /\ change_info' = Append(change_info,
       [directory |-> Head(todo), file |-> Entry.change.file,
        origin |-> {Entry.change.directory}])
  /\ AfterEntry
  /\ UNCHANGED <<mapVars, flagVars, callerVars, dir_count, read_buffer,
                 kernelVars, status>>

SkipEntry ==
  /\ ParseEntry
  /\ ~IsTracked
  /\ AfterEntry
  /\ UNCHANGED <<mapVars, flagVars, change_info, callerVars, dir_count,
                 read_buffer, kernelVars, status>>

SkipFresh ==
  /\ status = "running" /\ lpc = "parse" /\ read_buffer[index] = <<>>
  /\ EntriesDone
  /\ UNCHANGED <<mapVars, flagVars, change_info, callerVars, dir_count,
                 read_buffer, kernelVars, status>>

-----------------------------------------------------------------------------
Caller ==
  \/ \E d \in Dirs, n \in Requested : TrackFile(d, n)
  \/ AddToDirectory \/ AddDirectory
  \/ TryPopChangeInfo \/ StopListening

Listener ==
  \/ Begin \/ Check \/ Leave \/ CountDirectories \/ Allocate
  \/ Iterate \/ ListenDirectory \/ ListenPast \/ EndListen
  \/ Wait \/ PollPending \/ PollPast \/ PollComplete \/ EndPoll
  \/ ReportEntry \/ SkipEntry \/ SkipFresh

Environment == \E d \in Dirs, n \in Names : Write(d, n)

Next == Caller \/ Listener \/ DataRace \/ Environment

Init ==
  /\ tracked_directory = <<>>
  /\ files_tracked_within_directory = [d \in {} |-> {}]
  /\ lost = FALSE
  /\ reset_tracking = FALSE /\ stop_listening = FALSE
  /\ change_info = <<>>
  /\ cpc = "idle" /\ cdir = SomeDir /\ cfile = SomeName
  /\ lpc = "begin"
  /\ todo = <<>> /\ index = 1 /\ consumed = 0 /\ relisten = FALSE
  /\ dir_count = 0 /\ overlap = <<>> /\ read_buffer = <<>>
  /\ reads = [d \in Dirs |-> <<>>] /\ held = [d \in Dirs |-> <<>>]
  /\ overflown = {} /\ started = {}
  /\ status = "running"

Spec == Init /\ [][Next]_vars

\* The listener's thread runs.  std::mutex promises the caller nothing: the
\* listener gives tracker_lock back only to take it again.
FairSpec == Spec /\ WF_vars(Listener)

-----------------------------------------------------------------------------
(* Properties.                                                             *)

Entries == [change : Changes, more : BOOLEAN]

ArraysTypeOK ==
  /\ dir_count \in Nat
  /\ DOMAIN overlap = DOMAIN read_buffer /\ DOMAIN overlap \subseteq 1 .. dir_count
  /\ \A j \in DOMAIN overlap :
       overlap[j] \in {"idle", "pending", "done"} /\ read_buffer[j] \in Seq(Entries)

KernelTypeOK ==
  /\ reads \in [Dirs -> Seq({Stray} \cup DOMAIN overlap)]
  /\ held \in [Dirs -> Seq(Changes)]
  /\ overflown \subseteq Dirs /\ started \subseteq Dirs

ListenerTypeOK ==
  /\ lpc \in {"begin", "check", "count", "allocate", "iterate", "listen", "wait",
               "poll", "parse", "done"}
  /\ todo \in Seq(Dirs) /\ index \in Nat \ {0}
  /\ consumed \in Nat /\ relisten \in BOOLEAN

\* Every variable has its type; every slot in use of the arrays is in both.
Win32TypeOK ==
  /\ tracked_directory \in Seq(Dirs)
  /\ DOMAIN files_tracked_within_directory \subseteq Dirs
  /\ \A d \in DOMAIN files_tracked_within_directory :
       files_tracked_within_directory[d] \subseteq Requested
  /\ lost \in BOOLEAN /\ reset_tracking \in BOOLEAN /\ stop_listening \in BOOLEAN
  /\ change_info \in Seq([directory : Dirs, file : Requested, origin : SUBSET Dirs])
  /\ cpc \in {"idle", "lock"} /\ cdir \in Dirs /\ cfile \in Requested
  /\ ListenerTypeOK /\ ArraysTypeOK /\ KernelTypeOK
  /\ status \in {"running", "data_race", "overrun", "heap_corrupted"}

\* While the listener polls (file_track.cpp:210-293) it is at the slot of the
\* directory it is at, and its arrays have one slot for every tracked directory: the
\* reset read under the lock keeps it out otherwise, unless that reset was cleared
\* together with the one before, because the directory was added between the count
\* and the clearing of the flag (163-181).  Then it polls behind its arrays.
PollInBounds ==
  Locked =>
    /\ DOMAIN overlap = 1 .. dir_count
    /\ ~lost => dir_count = Len(tracked_directory)
    /\ index = 1 + Len(tracked_directory) - Len(todo)
    /\ \A i \in 1 .. Len(todo) : todo[i] = tracked_directory[i + index - 1]

Allocated == {"iterate", "listen", "wait"} \cup Polling

\* Why: between the count and the poll directories are only added, and each asks for
\* a reset that is not cleared before the poll, or is lost (file_track.cpp:162-211).
BoundsInv ==
  /\ tracked_directory \in Seq(Dirs) /\ todo \in Seq(Dirs)
  /\ index \in Nat \ {0} /\ dir_count \in Nat /\ cdir \in Dirs
  /\ lpc \in Allocated \/ (lpc = "check" /\ ~reset_tracking) =>
       DOMAIN overlap = 1 .. dir_count /\ dir_count <= Len(tracked_directory)
  /\ lpc = "allocate" =>
       dir_count <= Len(tracked_directory) /\ (~lost => dir_count = Len(tracked_directory))
  /\ lpc \in {"check"} \cup Allocated /\ ~reset_tracking /\ ~lost =>
       dir_count = Len(tracked_directory)
  /\ lpc = "parse" => todo # <<>> /\ index <= dir_count
  /\ Locked => ~reset_tracking
  /\ PollInBounds

\* A notification that comes from a read names the directory in which the file was
\* written: a read started for one directory is never taken for another's, although
\* inserting a directory moves the slots of the others (file_track.cpp:213-265).
ReportedWhereWritten ==
  \A i \in 1 .. Len(change_info) : change_info[i].origin \subseteq {change_info[i].directory}

\* Nothing was added since the arrays were built.
Aligned == lpc \in {"check"} \cup Allocated /\ ~reset_tracking

HeldHere == \A d \in Dirs : \A i \in 1 .. Len(held[d]) : held[d][i].directory = d

ReadsStray ==
  lpc = "allocate" => \A d \in Dirs : \A i \in 1 .. Len(reads[d]) : reads[d][i] = Stray

ReadsInPlace ==
  \A d \in Dirs : \A i \in 1 .. Len(reads[d]) :
    reads[d][i] # Stray => tracked_directory[reads[d][i]] = d

BuffersInPlace ==
  \A j \in DOMAIN read_buffer : \A i \in 1 .. Len(read_buffer[j]) :
    read_buffer[j][i].change.directory = tracked_directory[j]

\* The walk that starts the reads is at the slot of the directory it is at.
WalkInPlace ==
  /\ index = 1 + Len(tracked_directory) - Len(todo)
  /\ \A i \in 1 .. Len(todo) : todo[i] = tracked_directory[i + index - 1]

\* Why: as long as no reset is asked for, every read into a slot, and every entry in
\* its buffer, is of the directory whose place the slot has; when the arrays are built
\* anew, the reads of the old ones go to memory that is freed.
SlotsInv ==
  /\ HeldHere
  /\ ReadsStray
  /\ Aligned => ReadsInPlace /\ BuffersInPlace
  /\ Aligned /\ lpc = "listen" => WalkInPlace
  /\ ReportedWhereWritten

\* The feed of what TryPopChangeInfo returns.
Feed == INSTANCE ChangeFeed WITH
  Subjects <- Dirs \X Requested,
  tracked <- UNION {{d} \X files_tracked_within_directory[d] :
                      d \in DOMAIN files_tracked_within_directory},
  pending <- [i \in 1 .. Len(change_info) |-> <<change_info[i].directory, change_info[i].file>>],
  listening <- lpc # "done",
  corrupt <- FALSE
ImplementsChangeFeed == Feed!FeedSpec

\* Why: the directories that are iterated have files to look for.
FeedInv ==
  \A i \in 1 .. Len(tracked_directory) :
    tracked_directory[i] \in DOMAIN files_tracked_within_directory

\* The bounds of the model hold the listener up: a queue nobody empties, or
\* reads nobody completes.
AtBound ==
  \/ Len(change_info) = MaxPending
  \/ \E d \in Dirs : Len(reads[d]) = MaxReads

\* Every reset TrackFile asks for comes to its end: the flag is cleared by building the
\* arrays anew, be it for the directory before (lost), or the listener stops
\* (file_track.cpp:150-183, 211).
ResetServed ==
  reset_tracking ~> ~reset_tracking \/ stop_listening \/ status # "running" \/ AtBound

\* With one directory tracked, a completed read of a tracked file is reported,
\* unless a reset or a stop throws it away.  (With two, the listener starts the
\* read of a directory again when only the other's is complete, and the change
\* completed in between is lost.)
CompletedRead(d, n) ==
  /\ tracked_directory = <<d>> /\ n \in files_tracked_within_directory[d]
  /\ overlap = <<"done">> /\ read_buffer[1] # <<>> /\ read_buffer[1][1].change = Change(d, n)
CompletedReadReported ==
  \A d \in Dirs, n \in Requested :
    CompletedRead(d, n) ~>
      \/ \E i \in 1 .. Len(change_info) :
           change_info[i] = [directory |-> d, file |-> n, origin |-> {d}]
      \/ reset_tracking \/ stop_listening \/ status # "running" \/ AtBound
=============================================================================
