---------------------------- MODULE FileTracker -----------------------------
(***************************************************************************)
(* struct FileTracker as built on Linux (src/src/filesystem/               *)
(* file_track_linux.cpp and file_track.hpp), shared by two threads:        *)
(*                                                                         *)
(*   the caller    TrackFile, TrackFolder, TryPopChangeInfo, StopListening *)
(*   the listener  ListenForChanges, which blocks in read() on the inotify *)
(*                 descriptor and walks the events it was handed           *)
(*                                                                         *)
(* queue_lock makes each push and pop of change_info one step.  Nothing    *)
(* guards the maps, so each access to one of them is a step of its own,    *)
(* and two threads inside the same std::unordered_map are a data race.     *)
(***************************************************************************)
EXTENDS Inotify

CONSTANTS
  Names,         \* the names files are tracked under (FileContent::name)
  PathOf,        \* PathOf[n]: what realpath() makes of n; two names may agree
  FileOptions,   \* the sets of TrackFor flags a caller asks for with a file,
  FolderOptions, \* and with a folder
  BufUnits,      \* sizeof(Buffer) in 16-byte units (1024 / 16 = 64 in the code)
  MaxPending     \* bound: notifications that wait in change_info

TrackFor == {"NameChange", "AttrChange", "SizeChange", "WriteChange"}

ASSUME FileTrackerAssumption ==
  /\ Names # {} /\ Names \cap Folders = {}
  /\ PathOf \in [Names -> Paths]
  /\ FileOptions \cup FolderOptions \subseteq (SUBSET TrackFor) \ {{}}
  /\ BufUnits \in Nat \ {0, 1}
  /\ MaxPending \in Nat \ {0}

VARIABLES
  name_to_file_handle,
  handle_to_file_name,
  tracked_directory,    \* handle -> dir_name
  name_to_dir_handle,
  change_info,          \* std::queue of the names reported
  stop_listening,
  cpc, cname, cwd,      \* caller: next step, name and handle it is inserting
  lpc, storage, pos,    \* listener: next step, units read, offset in units
  file_name,            \* listener: the name the event was about
  change_handle,        \* listener: what the re-registration returned
  status,               \* "running", or how the process died
  raced,                \* history: a data race has lost or missed an entry
  late,                 \* history: handles inserted after their watch was gone
  resolved              \* history: handle -> paths add_watch returned it for

mapVars      == <<name_to_file_handle, handle_to_file_name, tracked_directory,
                  name_to_dir_handle>>
callerVars   == <<cpc, cname, cwd>>
listenerVars == <<lpc, storage, pos, file_name, change_handle>>
historyVars  == <<raced, late, resolved>>
vars == <<inotifyVars, mapVars, change_info, stop_listening, callerVars,
          listenerVars, status, historyVars>>

\* The value of a name that is not in use.
SomeName == CHOOSE n \in Names : TRUE

\* The event reinterpret_cast at storage.buffer + pos.
Current == storage[pos + 1]

-----------------------------------------------------------------------------
(* Both threads are about to use the same map.                             *)

Racing ==
  \/ cpc = "insert_name"   /\ lpc = "relink"
  \/ cpc = "insert_handle" /\ lpc \in {"scan", "erase", "relink"}
  \/ cpc = "insert_folder" /\ lpc = "scan"

\* What an unsynchronised unordered_map can do: crash in a half-built bucket...
DataRace ==
  /\ status = "running"
  /\ Racing
  /\ status' = "data_race"
  /\ UNCHANGED <<inotifyVars, mapVars, change_info, stop_listening, callerVars,
                 listenerVars, historyVars>>

\* ... or lose the entry being inserted.
InsertRaced(map, k, v, new) ==
  \/ new = Insert(map, k, v) /\ UNCHANGED raced
  \/ Racing /\ new = map /\ raced' = TRUE

-----------------------------------------------------------------------------
(* The caller's thread.                                                    *)

FilterMask(option) ==
  {IF change = "WriteChange" THEN "modify" ELSE "attrib" : change \in option}

Resolve(wd, p) ==
  [w \in DOMAIN resolved \cup {wd} |->
     (IF w \in DOMAIN resolved THEN resolved[w] ELSE {})
     \cup (IF w = wd THEN {p} ELSE {})]

\* The file does not exist: assert(change_handle >= 0) aborts the process.
TrackMissingFile(n) ==
  /\ status = "running" /\ cpc = "idle"
  /\ inode[PathOf[n]] = NoInode
  /\ status' = "assert_track"
  /\ UNCHANGED <<inotifyVars, mapVars, change_info, stop_listening, callerVars,
                 listenerVars, historyVars>>

\* Faulty variant: the name is never registered.
TrackFileNoName(n, option) ==
  /\ status = "running" /\ cpc = "idle"
  /\ inode[PathOf[n]] # NoInode
  /\ \E wd \in 1 .. last_wd + 1 :
       /\ AddWatch(inode[PathOf[n]], FilterMask(option), wd)
       /\ cwd' = wd
       /\ resolved' = Resolve(wd, PathOf[n])
  /\ cname' = n
  /\ cpc' = "insert_handle"
  /\ UNCHANGED <<kernel_queue, mapVars, change_info, stop_listening,
                 listenerVars, status, raced, late>>

TrackFile(n, option) ==
  /\ status = "running" /\ cpc = "idle"
  /\ inode[PathOf[n]] # NoInode
  /\ \E wd \in 1 .. last_wd + 1 :
       /\ AddWatch(inode[PathOf[n]], FilterMask(option), wd)
       /\ cwd' = wd
       /\ resolved' = Resolve(wd, PathOf[n])
  /\ cname' = n
  /\ cpc' = "insert_name"
  /\ UNCHANGED <<kernel_queue, mapVars, change_info, stop_listening,
                 listenerVars, status, raced, late>>

\* Locals of a function that is over are reset, to keep the states few.
CallerReturns == cpc' = "idle" /\ cname' = SomeName /\ cwd' = 0

InsertName ==
  /\ status = "running" /\ cpc = "insert_name"
  /\ InsertRaced(name_to_file_handle, cname, cwd, name_to_file_handle')
  /\ cpc' = "insert_handle"
  /\ UNCHANGED <<inotifyVars, handle_to_file_name, tracked_directory,
                 name_to_dir_handle, change_info, stop_listening, cname, cwd,
                 listenerVars, status, late, resolved>>

\* Faulty variant: both functions keep their change_handle in one member.
InsertHandleShared ==
  /\ status = "running" /\ cpc = "insert_handle"
  /\ LET wd == IF change_handle # 0 THEN change_handle ELSE cwd
     IN  /\ InsertRaced(handle_to_file_name, wd, cname, handle_to_file_name')
         /\ late' = IF wd \in DOMAIN watch THEN late ELSE late \cup {wd}
  /\ CallerReturns
  /\ UNCHANGED <<inotifyVars, name_to_file_handle, tracked_directory,
                 name_to_dir_handle, change_info, stop_listening,
                 listenerVars, status, resolved>>

InsertHandle ==
  /\ status = "running" /\ cpc = "insert_handle"
  /\ InsertRaced(handle_to_file_name, cwd, cname, handle_to_file_name')
  /\ late' = IF cwd \in DOMAIN watch THEN late ELSE late \cup {cwd}
  /\ CallerReturns
  /\ UNCHANGED <<inotifyVars, name_to_file_handle, tracked_directory,
                 name_to_dir_handle, change_info, stop_listening,
                 listenerVars, status, resolved>>

TrackFolder(f, option) ==
  /\ status = "running" /\ cpc = "idle"
  /\ \E wd \in 1 .. last_wd + 1 :
       /\ AddWatch(f, FilterMask(option), wd)
       /\ cwd' = wd
  /\ cname' = f
  /\ cpc' = "insert_folder"
  /\ UNCHANGED <<kernel_queue, mapVars, change_info, stop_listening,
                 listenerVars, status, historyVars>>

\* The caller alone uses name_to_dir_handle: both inserts are one step.
InsertFolder ==
  /\ status = "running" /\ cpc = "insert_folder"
  /\ InsertRaced(tracked_directory, cwd, cname, tracked_directory')
  /\ name_to_dir_handle' = Insert(name_to_dir_handle, cname, cwd)
  /\ CallerReturns
  /\ UNCHANGED <<inotifyVars, name_to_file_handle, handle_to_file_name,
                 change_info, stop_listening, listenerVars, status,
                 late, resolved>>

TryPopChangeInfo ==
  /\ status = "running" /\ cpc = "idle"
  /\ change_info # <<>>
  /\ change_info' = Tail(change_info)
  /\ UNCHANGED <<inotifyVars, mapVars, stop_listening, callerVars,
                 listenerVars, status, historyVars>>

StopListening ==
  /\ status = "running" /\ cpc = "idle"
  /\ ~stop_listening
  /\ stop_listening' = TRUE
  /\ UNCHANGED <<inotifyVars, mapVars, change_info, callerVars, listenerVars,
                 status, historyVars>>

-----------------------------------------------------------------------------
(* ListenForChanges.                                                       *)

\* Faulty variant: the flag is looked at before the loop only.
CheckStopOnce ==
  /\ status = "running" /\ lpc = "check"
  /\ lpc' = "read"
  /\ UNCHANGED <<inotifyVars, mapVars, change_info, stop_listening, callerVars,
                 storage, pos, file_name, change_handle, status, historyVars>>

CheckStop ==
  /\ status = "running" /\ lpc = "check"
  /\ lpc' = IF stop_listening THEN "done" ELSE "read"
  /\ UNCHANGED <<inotifyVars, mapVars, change_info, stop_listening, callerVars,
                 storage, pos, file_name, change_handle, status, historyVars>>

\* The units one read() returns: as many whole events as fit in the buffer.
Fitting(q) ==
  IF Len(q) <= BufUnits THEN Len(q)
  ELSE IF Named(q[BufUnits]) THEN BufUnits - 1 ELSE BufUnits

\* read() blocks while nothing is queued; assert(bytes_read < 1024).
ReadEvents ==
  /\ status = "running" /\ lpc = "read"
  /\ kernel_queue # <<>>
  /\ LET k == Fitting(kernel_queue)
     IN  /\ storage' = SubSeq(kernel_queue, 1, k)
         /\ kernel_queue' = SubSeq(kernel_queue, k + 1, Len(kernel_queue))
         /\ status' = IF k < BufUnits THEN "running" ELSE "assert_read"
  /\ pos' = 0
  /\ lpc' = "scan"
  /\ UNCHANGED <<inode, last_inode, watch, last_wd, dropped, mapVars,
                 change_info, stop_listening, callerVars, file_name,
                 change_handle, historyVars>>

\* pos = sizeof(*event) + event->len
NextPos(event) == IF Named(event) THEN 2 ELSE 1

InBatch == status = "running" /\ lpc = "scan" /\ pos < Len(storage)

EndOfBatch ==
  /\ status = "running" /\ lpc = "scan"
  /\ pos >= Len(storage)
  /\ lpc' = "check"
  /\ storage' = <<>> /\ pos' = 0
  /\ UNCHANGED <<inotifyVars, mapVars, change_info, stop_listening, callerVars,
                 file_name, change_handle, status, historyVars>>

\* An event about an entry of a folder is only printed.
ScanNamed ==
  /\ InBatch
  /\ Named(Current)
  /\ pos' = NextPos(Current)
  /\ UNCHANGED <<inotifyVars, mapVars, change_info, stop_listening, callerVars,
                 lpc, storage, file_name, change_handle, status, historyVars>>

\* Faulty variant: IN_IGNORED is filtered out.
ScanFileNotIgnored ==
  /\ InBatch
  /\ ~Named(Current) /\ Current.what # "ignored"
  /\ Current.wd \in DOMAIN handle_to_file_name
  /\ file_name' = handle_to_file_name[Current.wd]
  /\ lpc' = "readd"
  /\ UNCHANGED <<inotifyVars, mapVars, change_info, stop_listening, callerVars,
                 storage, pos, change_handle, status, historyVars>>

ScanFile ==
  /\ InBatch
  /\ ~Named(Current)
  /\ Current.wd \in DOMAIN handle_to_file_name
  /\ file_name' = handle_to_file_name[Current.wd]
  /\ lpc' = "readd"
  /\ UNCHANGED <<inotifyVars, mapVars, change_info, stop_listening, callerVars,
                 storage, pos, change_handle, status, historyVars>>

ScanFolder ==
  /\ InBatch
  /\ ~Named(Current)
  /\ Current.wd \notin DOMAIN handle_to_file_name
  /\ Current.wd \in DOMAIN tracked_directory
  /\ Len(change_info) < MaxPending
  /\ change_info' = Append(change_info, tracked_directory[Current.wd])
  /\ pos' = NextPos(Current)
  /\ UNCHANGED <<inotifyVars, mapVars, stop_listening, callerVars, lpc, storage,
                 file_name, change_handle, status, historyVars>>

\* Neither find() succeeds; a find() that races with an insert may miss.
ScanUnknown ==
  /\ InBatch
  /\ ~Named(Current)
  /\ \/ /\ Current.wd \notin DOMAIN handle_to_file_name \cup DOMAIN tracked_directory
        /\ UNCHANGED raced
     \/ Racing /\ raced' = TRUE
  /\ pos' = NextPos(Current)
  /\ UNCHANGED <<inotifyVars, mapVars, change_info, stop_listening, callerVars,
                 lpc, storage, file_name, change_handle, status, late, resolved>>

\* Re-register the name; no file there: assert(change_handle >= 0) aborts.
ReAddMissing ==
  /\ status = "running" /\ lpc = "readd"
  /\ inode[PathOf[file_name]] = NoInode
  /\ status' = "assert_readd"
  /\ UNCHANGED <<inotifyVars, mapVars, change_info, stop_listening, callerVars,
                 listenerVars, historyVars>>

\* Faulty variant: what add_watch returned is not kept.
ReAddForgets ==
  /\ status = "running" /\ lpc = "readd"
  /\ inode[PathOf[file_name]] # NoInode
  /\ \E wd \in 1 .. last_wd + 1 :
       /\ AddWatch(inode[PathOf[file_name]], {"modify"}, wd)
       /\ resolved' = Resolve(wd, PathOf[file_name])
  /\ lpc' = "push"
  /\ UNCHANGED <<kernel_queue, mapVars, change_info, stop_listening, callerVars,
                 storage, pos, file_name, change_handle, status, raced, late>>

ReAdd ==
  /\ status = "running" /\ lpc = "readd"
  /\ inode[PathOf[file_name]] # NoInode
  /\ \E wd \in 1 .. last_wd + 1 :
       /\ AddWatch(inode[PathOf[file_name]], {"modify"}, wd)
       /\ change_handle' = wd
       /\ resolved' = Resolve(wd, PathOf[file_name])
  /\ lpc' = "push"
  /\ UNCHANGED <<kernel_queue, mapVars, change_info, stop_listening, callerVars,
                 storage, pos, file_name, status, raced, late>>

\* Faulty variant: no notification.
PushNothing ==
  /\ status = "running" /\ lpc = "push"
  /\ lpc' = "erase"
  /\ UNCHANGED <<inotifyVars, mapVars, change_info, stop_listening, callerVars,
                 storage, pos, file_name, change_handle, status, historyVars>>

Push ==
  /\ status = "running" /\ lpc = "push"
  /\ Len(change_info) < MaxPending
  /\ change_info' = Append(change_info, file_name)
  /\ lpc' = "erase"
  /\ UNCHANGED <<inotifyVars, mapVars, stop_listening, callerVars, storage, pos,
                 file_name, change_handle, status, historyVars>>

\* Faulty variant: the old handle stays in the map.
EraseNothing ==
  /\ status = "running" /\ lpc = "erase"
  /\ lpc' = "relink"
  /\ UNCHANGED <<inotifyVars, mapVars, change_info, stop_listening, callerVars,
                 storage, pos, file_name, change_handle, status, historyVars>>

EraseHandle ==
  /\ status = "running" /\ lpc = "erase"
  /\ handle_to_file_name' = Erase(handle_to_file_name, Current.wd)
  /\ lpc' = "relink"
  /\ UNCHANGED <<inotifyVars, name_to_file_handle, tracked_directory,
                 name_to_dir_handle, change_info, stop_listening, callerVars,
                 storage, pos, file_name, change_handle, status, historyVars>>

Relink ==
  /\ status = "running" /\ lpc = "relink"
  /\ \/ /\ name_to_file_handle' = Insert(name_to_file_handle, file_name, change_handle)
        /\ handle_to_file_name' = Insert(handle_to_file_name, change_handle, file_name)
        /\ UNCHANGED raced
     \/ /\ Racing
        /\ \/ name_to_file_handle' = Insert(name_to_file_handle, file_name, change_handle)
           \/ UNCHANGED name_to_file_handle
        /\ UNCHANGED handle_to_file_name
        /\ raced' = TRUE
  /\ pos' = NextPos(Current)
  /\ lpc' = "scan"
  /\ file_name' = SomeName /\ change_handle' = 0
  /\ UNCHANGED <<inotifyVars, tracked_directory, name_to_dir_handle, change_info,
                 stop_listening, callerVars, storage, status, late, resolved>>

-----------------------------------------------------------------------------
Environment ==
  /\ status = "running"
  /\ FilesChange
  /\ UNCHANGED <<mapVars, change_info, stop_listening, callerVars, listenerVars,
                 status, historyVars>>

Caller ==
  \/ \E n \in Names : TrackMissingFile(n)
  \/ \E n \in Names, option \in FileOptions : TrackFile(n, option)
  \/ \E f \in Folders, option \in FolderOptions : TrackFolder(f, option)
  \/ TryPopChangeInfo
  \/ StopListening

\* What a TrackFile or TrackFolder already under way has left to do.
CallerInside == InsertName \/ InsertHandle \/ InsertFolder

Listener ==
  \/ CheckStop \/ ReadEvents
  \/ EndOfBatch \/ ScanNamed \/ ScanFile \/ ScanFolder \/ ScanUnknown
  \/ ReAddMissing \/ ReAdd \/ Push \/ EraseHandle \/ Relink

Next == Caller \/ CallerInside \/ Listener \/ DataRace \/ Environment

Init ==
  /\ InotifyInit
  /\ name_to_file_handle = EmptyMap
  /\ handle_to_file_name = EmptyMap
  /\ tracked_directory = EmptyMap
  /\ name_to_dir_handle = EmptyMap
  /\ change_info = <<>>
  /\ stop_listening = FALSE
  /\ cpc = "idle" /\ cname = SomeName /\ cwd = 0
  /\ lpc = "check" /\ storage = <<>> /\ pos = 0
  /\ file_name = SomeName /\ change_handle = 0
  /\ status = "running"
  /\ raced = FALSE /\ late = {} /\ resolved = EmptyMap

Spec == Init /\ [][Next]_vars

\* Both threads are scheduled, and the caller polls TryPopChangeInfo in a loop
\* whatever else it does there.
FairSpec == Spec /\ WF_vars(Listener) /\ WF_vars(CallerInside)
                 /\ SF_vars(TryPopChangeInfo)

-----------------------------------------------------------------------------
(* Properties.                                                             *)

Status == {"running", "assert_track", "assert_readd", "assert_read", "data_race"}
Handles == 1 .. last_wd

\* The maps relate the names and handles that exist, and every thread is at
\* one of the steps of its function.
TypeOK ==
  /\ InotifyTypeOK
  /\ IsMap(name_to_file_handle, Names, Handles)
  /\ IsMap(handle_to_file_name, Handles, Names)
  /\ IsMap(tracked_directory, Handles, Folders)
  /\ IsMap(name_to_dir_handle, Folders, Handles)
  /\ change_info \in Seq(Names \cup Folders)
  /\ stop_listening \in BOOLEAN
  /\ cpc \in {"idle", "insert_name", "insert_handle", "insert_folder"}
  /\ cname \in IF cpc = "insert_folder" THEN Folders ELSE Names
  /\ cwd \in 0 .. last_wd
  /\ cpc # "idle" => cwd # 0
  /\ lpc \in {"check", "read", "scan", "readd", "push", "erase", "relink", "done"}
  /\ storage \in Seq(Unit)
  /\ pos \in Nat
  /\ file_name \in Names
  /\ change_handle \in 0 .. last_wd
  /\ lpc \in {"push", "erase", "relink"} => change_handle # 0
  /\ status \in Status
  /\ raced \in BOOLEAN
  /\ late \subseteq Handles
  /\ IsMap(resolved, Handles, SUBSET Paths)

\* The IN_IGNORED of handle h is still to be handled by the listener.
IgnoredPending(h) ==
  \/ Occurs(Ignored(h), kernel_queue)
  \/ \E i \in 1 .. Len(storage) : i > pos /\ storage[i] = Ignored(h)

\* A handle whose watch the kernel has removed never stays in
\* handle_to_file_name unnoticed: the event that makes ListenForChanges replace
\* it is still queued or in the buffer, unless the kernel dropped that event,
\* TrackFile inserted the handle too late, or a data race ate an entry.
DeadHandleAccounted ==
  \A h \in DOMAIN handle_to_file_name \ DOMAIN watch :
    raced \/ h \in dropped \/ h \in late \/ IgnoredPending(h)

\* add_watch returned h for the path of n.
ResolvedAs(h, n) == h \in DOMAIN resolved /\ PathOf[n] \in resolved[h]

\* A change is reported under a name of the file that changed: each handle is
\* mapped to a name whose path that very handle was returned for, although name
\* and handle travel through several steps of two threads before they meet.
HandleNamesItsFile ==
  \A h \in DOMAIN handle_to_file_name : ResolvedAs(h, handle_to_file_name[h])

\* Its strengthening: a name and a handle on their way into the maps match.
MatchInv ==
  /\ HandleNamesItsFile
  /\ cpc \in {"insert_name", "insert_handle"} => ResolvedAs(cwd, cname)
  /\ lpc \in {"push", "erase", "relink"} => ResolvedAs(change_handle, file_name)

\* The strengthening of DeadHandleAccounted.  Read in turn: an IN_IGNORED is of
\* a watch that is gone; names follow their events; a batch is there only while
\* it is walked; an event being handled has no name; the handle that is about
\* to be linked is watched or its end is still to be read; and the handle whose
\* event is being handled stays out of the map once it was erased.
DeadHandleInv ==
  /\ DeadHandleAccounted
  /\ OnlyGone(kernel_queue) /\ OnlyGone(storage)
  /\ Paired(kernel_queue) /\ Paired(storage)
  /\ lpc \in {"check", "read", "done"} => storage = <<>>
  /\ lpc \in {"readd", "push", "erase", "relink"} =>
       pos < Len(storage) /\ ~Named(Current)
  /\ lpc \in {"push", "erase", "relink"} =>
       \/ change_handle \in DOMAIN watch \cup dropped
       \/ Occurs(Ignored(change_handle), kernel_queue)
  /\ lpc = "relink" =>
       \A h \in DOMAIN handle_to_file_name \ DOMAIN watch :
         Current = Ignored(h) => raced \/ h \in late

\* The batch read last holds more than one event.
MultiEvent == storage # <<>> /\ Len(storage) > NextPos(storage[1])

\* Nothing more is promised: the process died, is stopping, or the listener
\* will not leave the batch it is walking.
Interrupted == status # "running" \/ stop_listening \/ MultiEvent \/ raced

\* ListenForChanges replaces a handle whose file is gone ("that file would have
\* been replaced by another one"), unless its IN_IGNORED cannot reach it.
DeadHandleReplaced ==
  \A h \in 1 .. MaxInodes + Cardinality(Folders) :
    (h \in DOMAIN handle_to_file_name \ (DOMAIN watch \cup dropped \cup late))
      ~> (h \notin DOMAIN handle_to_file_name \/ Interrupted)

\* A write seen by the kernel while the listener waits for events ends up as a
\* notification of the name the file was tracked under.
WriteReported ==
  \A n \in Names :
    (/\ lpc = "read"
     /\ \E h \in DOMAIN handle_to_file_name :
          /\ handle_to_file_name[h] = n
          /\ Occurs(Event(h, "modify", {}), kernel_queue))
      ~> (Occurs(n, change_info) \/ Interrupted)

\* StopListening ends the listener although files go on changing: every event that
\* wakes it makes it look at the flag, so that it does not end only if it waits in
\* read for ever, for an event that nobody causes any more, or is caught in a batch
\* for ever: the join that follows (main.cpp:96-99, runtime.cpp:154-158) then never
\* returns.
StopServed ==
  stop_listening ~>
    \/ lpc = "done" \/ status # "running"
    \/ []MultiEvent
    \/ [](lpc = "read" /\ kernel_queue = <<>>)

\* The abstract feed: what TrackFile and TrackFolder have registered by name,
\* and the queue.
Feed == INSTANCE ChangeFeed WITH
  Subjects  <- Names \cup Folders,
  tracked   <- DOMAIN name_to_file_handle \cup DOMAIN name_to_dir_handle,
  pending   <- change_info,
  listening <- status = "running" /\ lpc # "done",
  corrupt   <- raced

\* The two threads and their maps implement the feed: above all, no event can
\* be reported under a name before TrackFile has registered that name, because
\* it fills name_to_file_handle before handle_to_file_name.
ImplementsChangeFeed == Feed!FeedSpec

\* Why it does: every name on its way to a report is registered by then.
FeedInv ==
  raced \/
  /\ \A h \in DOMAIN handle_to_file_name : handle_to_file_name[h] \in DOMAIN name_to_file_handle
  /\ \A h \in DOMAIN tracked_directory : tracked_directory[h] \in DOMAIN name_to_dir_handle
  /\ cpc = "insert_handle" => cname \in DOMAIN name_to_file_handle
  /\ lpc \in {"readd", "push", "erase", "relink"} => file_name \in DOMAIN name_to_file_handle
=============================================================================
