# Guthi-Core in TLA+

Guthi-Core is the local runtime of a distributed file system: a daemon that
tracks files for a client and tells it when they change, a cache of remote
files, a tree of the files of all nodes, and shared memory towards the rest of
the system. This directory models what it does, concurrently and on one
machine after the other, checks the models with TLC on small instances, and
proves the main safety properties with TLAPS for all instances.

## Inventory

Paths are relative to `src/src/`; bitsery is in `src/include/serializer/bitsery`.

| Component | State | Operations | Interacts with |
| --- | --- | --- | --- |
| File tracker, Linux: `filesystem/file_track_linux.cpp`, `file_track.hpp` | three maps between names and inotify handles, a queue of changes, a stop flag | `TrackFile`, `TrackFolder`, `TryPopChangeInfo`, `StopListening`, and `ListenForChanges` in a thread of its own | the kernel (inotify), other programs that write, delete and rename the files, the daemon |
| Daemon: `daemon/runtime.cpp` | the tracker, one client, one buffer | accept, poll and read, dispatch of a request, forwarding of a change, shutdown | tracker, transport, client |
| Transport: `daemon/linux_pipe.cpp`, `daemon/win32_daemon_impl.cpp` | a stream socket, or a named pipe | connect, read, write, poll | daemon, client library |
| Message framing: `daemon/runtime.cpp` | three buffers of 512 bytes | prepare, verify, dispatch | daemon |
| Client library: `daemon/daemon_lib.cpp`, `runtime_client.cpp` | none | wrappers of the transport | transport |
| File tracker, Windows: `filesystem/file_track.cpp` | directory handles, overlapped reads, two locks, a reset flag | as on Linux | the kernel, the daemon |
| Event queue: `event/` | a linked list with head and tail | push, pop, get | none (compiled into no target) |
| File cache and C API: `filesystem/cache.cpp`, `core/c_api.cpp` | a multimap from file name to entry, files on disk | add, remove, query, get | system information (memory load), the Go or C side |
| Network file system: `filesystem/network_fs.hpp`, `serialize_fs.cpp` | a tree of shared nodes | add, remove, serialize, deserialize, merge, list | bitsery, shared memory |
| Buffered files: `filesystem/fs.hpp`, `fs.cpp` | a buffer with write and read positions | read, skip, unread, scan; print, write, flush | the operating system |
| Shared memory: `shared_memory/`, `core/read_sharedmemory.hpp` | a System V segment and semaphore, or their Windows counterparts | create, lock, unlock, write, read, destroy | other processes |
| System information: `runtime/` | none | a tokenizer and three parsers, counters | the operating system |
| bitsery | an adapter's buffer, a scratch of bits, contexts of pointers and base classes | write and read values, bits, sizes, containers, optional and versioned parts, pointers, base classes | network file system |
| Error texts, trial program, Windows header | none of their own | | |

The hard behaviours are these. Two threads of the Linux tracker share unordered
maps without a lock, and a watch dies with its file while its handle is in a
local variable of either. The kernel merges and drops events. The Windows
tracker walks a map without the lock it takes elsewhere, and its asynchronous
reads outlive the arrays they write to. The stream cuts messages anywhere, and a
change passes four queues before the client sees it. Processes set and remove
the semaphore others hold, and die between any two steps. The segment is read
without the semaphore. Bytes that were written by one machine are read by
another, of another byte order or version, perhaps damaged.

What makes each component correct:

* tracker: a change is reported under a name of the file that changed, never
  under one that was not registered; the handle of a file that was replaced does
  not stay unnoticed; writes are reported; the listener ends when it is told to;
* daemon: the client is told of the files it asked for, in the order the tracker
  reported them, nothing lost or repeated; the end of the connection is noticed;
* framing: what the daemon sends is a message as it would read one itself;
* Windows pipe: everything the client wrote is read before its end is noticed;
* Windows tracker: the poll stays inside its arrays but for one named race, a
  report names the directory that changed, resets are served and completed reads
  reported;
* event queue: all unhandled events are stored, and handlers come out in the order
  they went in, none twice;
* cache: what is found and removed is the entry of that file of that node, and
  what is said to be on the disk is there;
* network file system: a tree arrives as it was, damage is noticed, a merge loses
  no file;
* buffered files: what is read is what stands at that place of the file, what is
  printed arrives once and in order, `Scanf` returns;
* shared memory: at most one process is in the critical region, its unit is
  neither lost nor doubled by a crash, who waits is served, what is in the
  segment outside a write is whole;
* system information: the parsers find the figures of all lines that were read as
  far as their number, whatever is left in the memory behind the text, and end;
* bitsery: what was written is read back, by a reader of another version as far
  as it knows it; missing bytes are noticed and limits kept; pointers are linked
  as they were.

## Modules

| Module | What it is |
| --- | --- |
| `UnorderedMap` | `insert` (keeps the value a key has) and `erase` of `std::unordered_map` |
| `Inotify` | the kernel's side: files, watches, the event queue with merging, dropping and `IN_IGNORED`; and what other programs do to the files |
| `FileTracker` | `FileTracker` on Linux: the caller's thread and the listener's thread over `Inotify` |
| `ChangeFeed` | abstract specification of the trackers: subjects are tracked, reported in a queue, taken |
| `Daemon` | the daemon: main thread, socket and client; it extends `FileTracker`, whose caller is the main thread |
| `Framing` | the bytes of the daemon's messages, cut into reads anywhere, and the sizes of its buffers |
| `Win32FileTracker` | `FileTracker` as built on Windows: two threads, one lock, asynchronous reads of directories into arrays |
| `Win32Pipe` | the transport on Windows and the main loop over it |
| `CriticalRegion` | abstract specification of lock and unlock |
| `Semaphore` | the System V semaphore of any number of processes that start, end and die |
| `SharedMemory` | the segment, its writers inside the critical region and its reader outside; it extends `Semaphore` |
| `Win32Semaphore` | the semaphore on Windows |
| `FileCache` | the cache of files of other nodes and the calls of the C API on it |
| `EventQueue` | the linked list of handlers |
| `FileBuffer` | the buffered reader, with `Scanf`, and the buffered writer |
| `SystemInfo` | the tokenizer and the parsers of processors and memory |
| `Bitsery` | adapters, packing of bits, sizes, the numbering of pointers |
| `BitseryFormat` | the calls and extensions of the serializer and deserializer; it extends `Bitsery` |
| `NetworkFS` | trees with shared nodes, their serialization (over `Bitsery`), damage on the way, merging and listing |
| `MCFileTracker`, `MCDaemon`, `MCWin32FileTracker`, `MCSharedMemory` | instances for TLC |
| `MCCallers` | the tracker under one of two callers: the daemon, and a program that also tracks folders |
| `MCFormat` | the formats and values that are serialized |
| `MCLocalParts` | the parts that share nothing, one of which runs at a time |
| `FileTrackerClaims`, `DaemonClaims`, `EventClaims`, and the end of `MCFileCache` and `MCNetworkFS` | what comments, headers and an assertion say and the code does not do |
| `FileTrackerProofs`, `DaemonProofs`, `Win32FileTrackerProofs`, `FileCacheProofs`, `SemaphoreProofs`, `LocalPartsProofs`, `TransportProofs` | theorems (`LocalPartsProofs` is about `EventQueue`, `FileBuffer`, `Win32Semaphore` and `SystemInfo`, `TransportProofs` about `Framing` and `Win32Pipe`) |
| `CommonLemmas` | facts on numbers and sequences that several of them need |

`Daemon` composes the tracker, the kernel, the transport and a client;
`SharedMemory` composes the segment, the semaphore and the reader's thread;
`NetworkFS` composes two machines, the serializer and what lies between them.

Definitions whose comment begins with "Faulty variant" are not part of a
specification: each is a plausible mistake in the definition after it, and shows
that a property would notice it.

### FileTracker and the code

`TrackFile` is three actions: `TrackFile` itself resolves the path and calls
`inotify_add_watch` (lines 42-91), `InsertName` and `InsertHandle` are the two
inserts (93, 94). A missing file fails the assertion of line 91
(`TrackMissingFile`). `TrackFolder` likewise ends in `InsertFolder`. The
listener's `lpc` names the place it has reached in `ListenForChanges`:

| `lpc` | Code | Actions |
| --- | --- | --- |
| `check` | 109, the stop flag | `CheckStop` |
| `read` | 112, 113, the blocking read and its assertion | `ReadEvents` |
| `scan` | 119-135, 156-179, the event at `pos` | `ScanFile`, `ScanFolder`, `ScanNamed`, `ScanUnknown`, `EndOfBatch` |
| `readd` | 136-141 | `ReAdd`, `ReAddMissing` |
| `push` | 143-150 | `Push` |
| `erase` | 152 | `EraseHandle` |
| `relink` | 153, 154, 179 | `Relink` |

Each access to a map is a step. When both threads are about to use the same map
(`Racing`), the race is resolved in every way the build can: the process crashes
(`DataRace`), an insert is lost (`InsertRaced`), a find misses (`ScanUnknown`).
The buffer is counted in units of 16 bytes, the size of an event without a name;
an event with a name takes two.

`raced`, `late` and `resolved` are history: an entry was lost to a race, a handle
was inserted after its watch was gone, and for which paths each handle was
returned. `dropped` (in `Inotify`) is history of the `IN_IGNORED` the kernel
dropped.

### Daemon, Framing and the code

`dpc` is the place in `main`: `accept`, `poll` (line 128), `dispatch` (135),
`track` (inside the call of line 78), `pop` (141), `notify` (148), `stop` (154)
and `join` (157). A name is a sequence of `Characters`, and a message of magic
bytes, type with length, and the characters of its content. A read takes what is
there up to `ReadMax` units, so messages are cut, also inside of a name, and run
together as in the code. The content of a tracking request is all that was read
behind the head (lines 55-57; the length of line 53 is not used): if that is the
name of a file, be it only the beginning of the name that was sent, the file is
tracked (`TrackContent`); otherwise `realpath` fails, which `TrackFile` does not
look at (`DispatchTrackGarbled`). The client connects, sends up to `MaxRequests`
requests, each of which a single `write` puts into the socket whole, reads, and may close at any time; a write after that raises SIGPIPE
(`BrokenPipe`).

`Framing` opens the unit: a client prepares messages of any type byte by byte
into one stream, a read (`Receive`) takes any number of the bytes that are there,
the end of one message and the start of the next among them, and `Ignore`,
`Echo`, `TrackName` and `Unknown` are the branches of `DispatchMessage`;
`Announce` prepares the notice of a change. `Into` notices a buffer that is too
short.

### Win32FileTracker, Win32Pipe and the code

A directory stands for its handle. `tracked_directory` is kept as the sequence
in which the code iterates over it, because the arrays `overlap` and
`read_buffer` are indexed by the place in that iteration; a new directory is
inserted anywhere, as an `unordered_map` may. `TrackFile` reaches the lock (lines
86-120), and `AddToDirectory` or `AddDirectory` is what it does under it. The
listener's `lpc`:

| `lpc` | Code | Actions |
| --- | --- | --- |
| `begin` | 144 | `Begin` |
| `check` | 148, 150, 295-299 | `Check`, `Leave` |
| `count` | 152-163 | `CountDirectories` |
| `allocate` | 166-182, the lock is free again | `Allocate` |
| `iterate`, `listen` | 185-202, without the lock | `Iterate`, `ListenDirectory`, `ListenPast`, `EndListen`, `DataRace` |
| `wait` | 206-212, until the lock is held | `Wait` |
| `poll`, `parse` | 213-293, with the lock | `PollPending`, `PollPast`, `PollComplete`, `ReportEntry`, `SkipEntry`, `SkipFresh`, `EndPoll` |

The kernel has a queue of reads for each directory; each read holds the slot it
writes to, or `Stray` when the memory it writes to is not the listener's: the
arrays were deleted under it (`FreeArrays`), or it was started behind them. A
change completes the first read, or is kept until the next one; when too many
are kept they are dropped and the next read completes with nothing. A buffer
keeps the entries a shorter content does not overwrite. `origin` in a change is
history: the directories in which the write was. `lost` is history too: a
directory was added between the count and the clearing of the flag, so that its
reset was cleared with the one before. The arrays are then too short, and the
code goes on behind them as the heap lets it: `ListenPast` (line 189) starts a
read into memory that is not the listener's, or none, `PollPast` (213-215) finds
anything there; either may end the process. What else a write into foreign
memory damages is not followed. A change in a subdirectory has a name no file is
tracked under, and is like one of the `Names` that are not `Requested`.

In `Win32Pipe`, `server` is the place of the daemon: `CreatePipe` fails when
another daemon runs, `WaitForConnection` returns also for a client that has gone
already, `ReadAvailable` takes no more than was there when it was asked and ends
the daemon on a message of unknown type (`runtime.cpp:84-86`), and `PeekBroken`
is how the main loop ends.

### Semaphore, SharedMemory, Win32Semaphore and the code

One action per system call, because other processes run between any two:
`SemGet` and `SemCtl` are the constructor, `Acquire`, `Block`, `LockFails` and
`LockInvalid` the outcomes of `lock`, `Destroy` the destructor, `Die` a signal.
Two things are undefined and so chosen freely: `lock` has no return statement on
success, so that the caller may find another value than 0 and stay outside with
the semaphore; and `sem_flg` of `unlock` is not initialized, so that `SEM_UNDO`
may be in it. `spoiled` records the four ways in which the critical region stops
being one process's; what is promised is promised until then.

`SharedMemory` adds the segment. `WriteCount`, `WriteFlag` and `WriteBytes` are
the three stores of `write_data`, `Publish` stands for the process on the other
side, whose writes carry the flag '1'. `ReadCount`, `ReadFlag` and `Take` or
`AbortReading` are the thread `read_shm`, which never takes the semaphore.
`ThreadInformation` constructs the segment before the semaphore and destroys it
after: `Attach`, `UseSemaphore`, `EndProcess`, `Detach` keep that order.
`dirty`, `cut` and `stirred` are history: segments being written, segments whose
writer died in a write, and readers under which a running process has written.
The place `write_data` is told to write at is left out, because the one call of
the repository (`main.cpp:76`) gives 0.

`Win32Semaphore` has no value to set: the object keeps its count while a process
has a handle of it, and a process that ends inside does not give its unit back.

### NetworkFS, Bitsery, BitseryFormat and the code

An object of type `FileContent` is a number in a heap, so that trees share
nodes as the `shared_ptr`s do. `SerializeLocalFS` and
`DeserializeToFileContent` go down to bytes. The message may be cut or extended
between the processes, because the count of the shared segment may be that of
another message. `MergeDiff` and `MergeTotal` merge what was accepted; a walk
over a vector that grows meanwhile is undefined and ends in `status`. A list of
files is what the formatter would print.

In `Bitsery` a serializer is a record: the buffer, the stream, or the measure it
writes to, the scratch of the bits not yet written, and the pointers it has met;
a deserializer also has, for each number of a pointer, the observers that wait for
its owner (`ProcessOwner`, `ProcessObserver`).
Each operator is a member function and returns the next record. `BitseryFormat`
replaces the templates: what a program writes as calls on a serializer is a
format, a record whose `is` names the call or extension, and `Serialize` and
`Deserialize` walk it. `WriteCase`, `CutBytes`, `ChangeByte` and `ReadCase` are
one exchange: a value is written, bytes are lost or changed, and a reader of the
same or of another version reads it, from a buffer, a stream, or a stream with a
buffer.

### FileCache and the code

One action per call. `AddRawFile` is `AddFileToCache` as a C++ caller uses it
(`main.cpp:67`), `AddToFileCache` the call of the C API, which leaves `file_size`
at 0 and appends to `local_fs` whatever happened to the file. Both use the disk
or the memory as the memory load says, or fail to create the file. The multimap
is the sequence in which it is walked. Names are numbers in the order of
`std::string`: the walk from `lower_bound` goes on past the entries of the name,
so the order of names decides what it finds. `CachedEntry` and `EntryToRemove`
differ in the `!` before `memcmp`, as the functions they stand for do.
`GetCachedFile` reads from the disk under the name, which is all a copy is known
by, and may fail to open it. A short `fwrite`, which the code does not notice,
and the timestamps, which it never reads, are left out.

### EventQueue, FileBuffer, SystemInfo and the code

`EventQueue` numbers the entries in the order they are pushed; `next`, `head`
and `tail` are the pointers of the code, and `crashed` says that `head` was
followed although there is none.

`FileBuffer` numbers the bytes of the file, so that what is in the buffer says
where it is from. The branches of `Read` are actions (`ReadBuffered`,
`ReadNothing`, `ReadFetchingAhead`, `ReadFetching`); `Scanf` is a loop with one
action per character of the format. `PtrRange` is the width of `read_ptr`. A
number of `Scanf` ends inside the valid bytes, as it does when the file does not
end in a digit; otherwise `strtol` reads on in a buffer that nothing terminates.

`SystemInfo` starts where the tokenizer has made tokens of a text. The memory
behind the text is not cleared (`Leftovers`), and a text that is longer than the
buffer is cut in the middle of a token (`CutIn`). Each parser is one action per
turn of its loop. `GetSystemInfo` parses cpuinfo and then lscpu with one `Parser`:
`is_parsing` is set before the first (line 195) and not again before the second
(209), so `Start` keeps what it is; `skipped` is history, that a parser was entered
with it cleared. `SystemInfoAssumption` says what the commands print: `grep`
leaves whole lines, a colon and a number behind the words looked for, and of
`/proc/meminfo` one line. `output` and `whole` are history: what the command
printed, and how many tokens of it the read took whole. `ReadWhole` is what the
lines say that were read as far as their number, with which `FindsAll` and
`LeftoversAddOnly` compare what the parsers found.

## Runs

| Run | Question | Bounds |
| --- | --- | --- |
| `tracker_callers` | Under the daemon or under a program of its own, are the maps well formed (`TypeOK`), and do the threads implement `ChangeFeed`? Is the client only told of files it asked for, whatever the cuts of the stream (`NotificationsWereRequested`)? | two names of one file, of which one is the beginning of the other, so that a cut name is one that exists; its folder, which the program tracks for attribute changes because a folder's own events are those; one inode, two queued events; every type of request, two requests, reads of at most three units, so that a read ends inside a message, inside its name, at its end, and in the next one |
| `tracker_names` | Is no dead handle left unnoticed (`DeadHandleAccounted`), and is a handle mapped to a name of its own file (`HandleNamesItsFile`)? | two files under two names, renamed over each other: two inodes, one queued event, so that events are dropped |
| `tracker_live` | Are dead handles replaced and writes reported, and does the listener end after `StopListening` (`StopServed`)? | one file that is deleted and created again (two inodes), two queued events, so that a batch holds more than one |
| `daemon_feed` | Do the notices reach the client as the feed (`ImplementsClientFeed`), does every write reach it (`WriteForwarded`)? | two names, two pending changes, so that order matters; writes only |
| `win32_tracker` | Does the poll stay inside the arrays (`PollInBounds`), do reports name the directory that changed (`ReportedWhereWritten`), does the tracker implement `ChangeFeed`, is every reset served (`ResetServed`), is a completed read reported (`CompletedReadReported`)? | two directories, so that slots move; a tracked and an untracked file in each; two reads of a directory at once, one change kept, one pending |
| `shared_region` | Is the unit of the semaphore with one process or in the set (`UnitAccounted`), is the region one process's (`ImplementsCriticalRegion`), is who waits served (`WaiterServed`); is the segment whole when nobody writes it (`WholeWhenFree`), and is what `read_shm` takes torn only if a running process wrote under it or a writer died in its write (`TornOnlyUnderWrite`)? | two processes, one of which also reads; two sets, so that one is removed and made anew; values up to 2, so that a doubled unit shows; one segment; two messages of different length, of which the longer does not begin with the shorter; each history up to the first thing that spoils the region |
| `local_parts` | The parts that share nothing, one of them in each behaviour. Cache: `OnDiskHasFile`, `RemoveTakesAsked`. Events: `PopsInOrder`. Buffers: `ReadsAtPlace`, `ScanEnds`, `PrintedOnce`. Parsers: `FindsAll`, `LeftoversAddOnly`, `ParserEnds`. Frames: `RepliesAreMessages`. Pipe: `EndsWithClient`. Windows semaphore: `Win32ImplementsRegion`. Serializer: `RoundTrip`, `VersionsAgree`, `DamageRefused`, `LinksRestored`. Trees: does a whole message arrive as the sender's tree (`WholeArrives`), is damage noticed (`DamageNoticed`), do merges lose nothing (`MergesLoseNothing`)? | two names, nodes and entries; five events; a buffer of six bytes over a file of nine, with a read pointer of four values, so that it wraps and the buffer moves; a stream of messages of contents with a zero inside and of the whole buffer (16 bytes), cut at every byte; four bytes through a pipe that is read by two; three processes; fifteen formats (see below); trees of machines of the same and of another byte order, with names of one byte, of two and of more than are allowed, three objects in any sharing, two contents of a directory, two merges, so that a merge meets shared nodes, and a buffer of 4 bytes, so that it grows inside a tree |
| `claim_*` | One statement of the repository each, violated (see Findings) | the smallest instance that shows it |

The bounds are small, and enough for what the properties tell apart: a handle's
life is create, watch, die, replace, which needs two inodes; a dropped
event needs one more event than the queue holds; a batch that is walked wrongly
needs two events in it; order needs two changes; a cut message needs a read
shorter than two messages; a torn message needs two of different length; a merge
that goes wrong needs a node in two trees. The theorems do not depend on the
bounds. `CHECK_DEADLOCK FALSE` is set because the system does stop: a process
aborts or returns, the listener ends when it is told to, and in `local_parts` a
part has done all that is allowed.

The formats of `MCFormat` hold every call and extension at the sizes where it
does something else: sizes of one and two bytes; compact numbers at the borders
of seven bits and of their type; bits before, between and behind whole bytes,
with and without alignment; more than a stream holds back; sets, maps, variants,
clock values; two versions of a growable part that holds another one; an object
that has a base twice, once if it is virtual; owners, observers and shared
pointers in every order, a ring of nodes, and polymorphic objects two levels
deep. Bytes are changed to the values at which sizes and indexes change their
meaning, at every place of a message.

Restricted next-state relations are in the MC modules: `FilesOnly` (the caller
tracks no folder, as in `runtime.cpp`), `Once` (each name is tracked once),
`OnlyWrites` (other programs only write), and `UntilSpoiled` (nothing is promised
once the region is spoiled). They make the instances small; the first three are
lifted in `tracker_callers`.

### Fairness

`ListenForChanges` and `main` are threads the operating system schedules:
weak fairness of `Listener` and of `Main`. In `FileTracker` the caller is weakly
fair inside `TrackFile` (it returns) and strongly fair for `TryPopChangeInfo`,
because the caller's loop comes back to it after everything else it does
(`runtime.cpp:141`); between two calls it is disabled. In `Daemon` that loop is
modelled and needs no more than weak fairness of `Main`. The client is assumed
to read what it is sent: `write` blocks, and with it the whole loop, if it does
not. Nothing is assumed of other programs. In `Win32FileTracker` only the
listener is weakly fair: a `std::mutex` does not promise the caller that it ever
gets the lock, which the listener gives back only to take it again. Its liveness
properties except the states in which a bound of the model holds the listener up
(`AtBound`).

In `shared_region` a process that waits in `semop` is strongly fair, because the
kernel serves waiters in their order, and so is leaving the region, which is
disabled while a write goes on; a wait for a set that is gone fails, and a write
that was begun goes on (weak fairness). Nobody has to start, lock or die. In
`local_parts` the loop of `Scanf`, the loop of a parser and the daemon's loop
over the pipe are weakly fair: each is one thread that waits for nothing else.

## Proved

All theorems hold for any set of names, paths and folders, any resolution of
names to paths, any number of processes, and any bounds.

* `FileTrackerProofs!TypeCorrect`: `Spec => []TypeOK`.
* `NamesMatch`: `Spec => []HandleNamesItsFile`. The invariant is not inductive
  alone, because name and handle travel apart: `MatchInv` adds that the pair in
  the caller's and the pair in the listener's locals match too.
* `DeadHandlesNoticed`: `Spec => []DeadHandleAccounted`, by `DeadHandleInv`
  (`DeadHandlesTraced`). It needs that every `IN_IGNORED` in the queue is of a
  watch that is gone, that the batch is empty outside the walk, that the handle
  about to be linked is watched or its `IN_IGNORED` is still queued, and that the
  handle just erased does not come back. The facts about the kernel are the first
  lemmas of `FileTrackerProofs`.
* `TrackerImplementsFeed`: `Spec => ImplementsChangeFeed`, by `FeedInv`
  (`ReportsAreRegistered`): every name that can be reported is registered,
  because `TrackFile` fills `name_to_file_handle` before `handle_to_file_name`.
* `DaemonProofs!DaemonKeepsTrackerSafe`: the tracker's invariants hold in the
  daemon, because each of its steps is a step of the tracker or leaves it alone
  (the lemma `DaemonUsesTracker`); the daemon's `cpc` and `dpc` agree by
  `DaemonTypeCorrect`: the main thread is inside the tracker only where it has
  called it, and its own variables keep their types.
* `OnlyRequestedAreNotified`: `DaemonSpec => []NotificationsWereRequested`, by
  `RequestedInv` (`HeldNamesAreRequested`): every name the daemon and the tracker
  hold was requested, or is what a full read took of a requested one. In the
  stream (`StreamInv`) the head of a tracking request has a requested name behind
  it and then, if anything, the next message; a read that begins there has no less
  of the name unless it was full. What follows in the same read has magic bytes,
  which no name has, so that a name run into it is none.
* `DaemonImplementsFeed`: `DaemonSpec => ImplementsClientFeed`; what is pending in
  the client's feed is the notices in the socket, the one in the main thread's
  hands, and the tracker's queue, in a row (`RowOfThree`). A step of the tracker
  only moves the last stretch, and is a step of its own feed (`FeedInv`, which
  the lemma `DaemonUsesTracker` carries over); a pop and a write move a notice one stretch
  forward and are stutters, as long as it is the oldest one that moves; a
  received echo is a stutter too. `Noticed`, which filters the socket, is a
  recursive function: that it exists, and what it gives when a message comes
  last or leaves first, is shown by the set of the lengths for which it holds
  (`NatSteps`), in place of induction over an operator. `NoFolders` keeps the
  feed's subjects to names.
* `Win32FileTrackerProofs!PollStaysInBounds`: `Spec => []PollInBounds` on
  Windows, by `BoundsInv` (`CountedBeforePoll`): directories are only added, and
  one that was added after the count has its reset seen under the lock, or lost
  together with the one before (`lost`). Only then is the poll behind its arrays,
  and `ListenPast` and `PollPast`, which go on there, keep what the invariant says
  of the arrays themselves. `Win32TypeCorrect`: `Spec => []Win32TypeOK`.
* `ReportsNameTheirDirectory`: `Spec => []ReportedWhereWritten`, by `SlotsInv`. A
  report takes its directory from the place in the iteration and its name from the
  buffer at that place, so that the two only belong together while the arrays
  fit the iteration: `Aligned` says when they do. The invariant then adds that every
  read under way, every entry in a buffer and the walk that starts the reads are
  at the place of their directory, that a reset leaves no read with a slot, and that the lock
  is not given to the poll while a reset is asked for.
* `Win32TrackerImplementsFeed`: `Spec => ImplementsChangeFeed` on Windows, by
  `FeedInv` with types and bounds (`TrackerInv`): the directory the poll is at
  has files to look for, and a name that is reported is one of them.
* `FileCacheProofs!DiskBacksEntries`: `Spec => []OnDiskHasFile`,
  `RemovalIsExact`: `Spec => RemoveTakesAsked`, and `CacheTypeCorrect`. They rest
  on `CacheInv`, which adds that the entries are in order: the first entry of the
  node at or behind the name is then the first of that name, when there is one.
  `InsertAtElements` (in `CommonLemmas`) and `RemoveAtElements` say where insertion
  and removal leave the elements of any sequence.
* `SemaphoreProofs!UnitNeverLost`: `SemSpec => []UnitAccounted`,
  `RegionIsExclusive`, and `SemaphoreIsRegion`: `SemSpec =>
  ImplementsCriticalRegion`. They rest on `SemInv` (`UnitsFollowHolders`): what
  is undone at a death is at least what the process holds, a set that has no
  value yet is held by nobody, and who is inside holds the set that has the key.
  `SemTypeCorrect` comes first.
* `SegmentsAreWhole`: `MemSpec => []WholeWhenFree` and `ReaderTornByWriteOnly`:
  `MemSpec => []TornOnlyUnderWrite`, by `MemInv`, over `MemTypeCorrect`. Neither
  is inductive: a write is three stores, so `WritingInv` says what is in the
  segment between them, `DirtyInv` that a segment is only half written while its writer is
  inside or since it died there, `CleanInv` what is in the others, and
  `UnstirredInv` that what a reader has seen is still there unless a write went
  on, or the last writer died in its write. The steps of the segment are steps of the
  semaphore or leave it alone (the lemma `MemoryStepsSemaphore`). They hold because
  writers are one at a time, which is `SemInv`, and until the region is spoiled.
* `TransportProofs!RepliesWellFormed`: `FrameSpec => []RepliesAreMessages`, for
  any contents, type numbers, magic bytes and size of the buffers, and wherever
  the reads cut the stream of the client's messages. The invariant adds that what
  was read is a piece of the stream (`before`, `taken`) and fits the buffer, and so
  does the name that is tracked. `PreparedIsMessage` is the lemma: what
  `PrepareMessage` makes of any content is complete, and its length modulo 65536
  is the length that is written in the head.
* `PipeLosesNothing`: `PipeSpec => []EndsWithEverything`, the safe half of
  `EndsWithClient`, by `PipeInv`: what was dispatched and what is in the pipe are,
  in a row, what the client wrote.
* `LocalPartsProofs!HandlersInOrder`: `EventSpec => PopsInOrder`, by
  `LinksForward`: a link goes to a later entry, and `head` is behind what was
  popped.
* `PrintedArrives` and `ReadsFollowFile`: `FileSpec => []PrintedOnce` and
  `FileSpec => ReadsAtPlace`, by `WriterInv` and `ReaderInv`: the valid part of
  the buffer is the piece of the file that ends where `fread` has come to.
* `ParsersFindAll`: `InfoSpec => []FindsAll`, for any lines the commands print, any
  place where the read ends and any memory behind it. `InfoInv` says that what was
  found is what the text says up to the place of the parser (`SaidUpTo`, a
  recursive function, of which `SaidExists` and `SaidValues` are shown by
  `NatSteps`), and it needs three things besides. No line goes on across that
  place (`Unbroken`), since a turn of the loop takes a line whole (`LineStep`). A
  text that was cut has behind the words a colon and a number as far as it goes
  (`Regular`, by `CutRegular`), so that a parser stops only where the text does:
  of a text with another token there, the lines behind it would not be found. And
  `is_parsing` is cleared by then, or the end was reached, so that lscpu is either
  parsed from its beginning or not at all. `OutputInv` then ties the text to what
  was printed: it is the whole tokens and, behind them, at most one cut token, so
  that the text says what the lines say that were read as far as their number, and
  a figure more only if that token is the number of a line (`CutSaid`).
* `Win32SemaphoreIsRegion`: `Win32SemSpec => Win32ImplementsRegion`, by
  `UnitWithOne`: the count is 0 while a process is inside, and 1 at most.

The assumptions are the named `ASSUME`s of the modules (`InotifyAssumption`,
`FileTrackerAssumption` and so on), which TLC evaluates in the runs.

Only model-checked: the liveness properties (`DeadHandleReplaced`,
`WriteReported`, `StopServed`, `WriteForwarded`, `ResetServed`,
`CompletedReadReported`, `WaiterServed`, `ScanEnds`, `ParserEnds`,
`EndsWithClient`), since TLAPS has no rules for fairness here; the claims; and
the following, which are about data of any depth.

* `RoundTrip`, `VersionsAgree`, `DamageRefused` and `LinksRestored` of
  `BitseryFormat`, and `WholeArrives`, `DamageNoticed` and `MergesLoseNothing` of
  `NetworkFS`: the operators walk formats and trees by recursion, as the templates and
  functions of the code do. What they return for every format or tree needs
  induction over it, and the provers do not see through a `RECURSIVE` operator.

## Findings

Each is a violated run; `PROJECT.json` quotes the text it contradicts.

* `EachEventOnce`: `pos = sizeof(*event) + event->len` (`file_track_linux.cpp:179`)
  should be `+=`. With two events in a batch the second is handled for ever.
* `DisconnectEndsLoop`: a closed connection looks like one with nothing to read.
* `TellsIfCached`: `memcmp` is not negated (`cache.cpp:22`), so a file that only
  this node has is said not to be cached, and one that only another has is.
* `EventsStored`: `push_event` links a new event behind `tail` and does not move
  `tail` (`event.cpp:16`), so that of the events pushed behind the first only the
  newest is in the queue that "Stores all the unhandled events" (`event.h:93`).
* `WholeIsSet`: `SetFilesystem` reserves its vector (`c_api.cpp:24`), whose size
  stays 0, so that the assertion of line 29 fails for every tree, also for one that
  was sent whole.

One more has no run of its own, because the code it contradicts is not exact
enough to be a property: `network_fs.hpp:150-151` says "If the folders aren't same
at that level, create seperate directory", and the merge of a directory into a
level that has a file of its name appends its files to that file, which
`FileFormatter` does not look into. They are in memory and no listing has them;
`MergesLoseNothing` excepts what is listed below a file.

The passing runs also go through states that are worth knowing of.

Tracker and daemon, Linux. A file that is deleted before line 94 has inserted its
handle leaves a handle that no event will replace (`late`, which
`DeadHandleAccounted` names). Deleting a tracked file aborts the process when
there is nothing to re-register (`ReAddMissing`). The stop flag is not looked at
while the listener waits in `read`: it ends once anything happens to a watched
file, which is why `StopServed` excepts a listener that waits for ever. A tracking
request whose name is longer than a read tracks the file whose name the read
took, if there is one, and notifies the client of it (`AskedFor`). Two echo
requests in one read get one reply, which holds the second message as its
content, because the length of a message is not used, and would be wrong if it
were: in `runtime.cpp:53` the shift binds weaker than the sum. On a batch of
several events the liveness properties promise nothing (`MultiEvent`), which is
what `EachEventOnce` shows.

Tracker, Windows. Tracking a file of a new directory while the listener starts
its reads makes it go on behind its arrays or races on the map (`ListenPast`,
`PollPast`, `DataRace`); every reset frees buffers that are still being read into
(`WriteStray`); and with two directories a completed read is lost when the other
directory's is reported first, which is why `CompletedReadReported` speaks of one.

Shared memory. Besides the four ways of `spoiled`: `lock` on a set that was
removed says 0; a caller that `lock` does not tell of its success keeps the
semaphore for ever. On Windows a unit that is lost with a process is never given
back. A reader of the segment aborts on a message it sees half written, also on
one that a writer left when it died, however long ago that was.

Cache, trees and buffers. A file added through the C API is cached empty. The
disk copy of one node's file is overwritten by that of another, and a removal
without an entry to remove takes another file's. A merge shares nodes between
trees; merging such a tree again can append a directory to what is below it, so
that a listing does not end, or to the vector that is being walked; it does not
happen while no object has two places. `Skip` wraps a read pointer that is a byte
wide in a buffer of 4096. `Scanf` with an empty format never returns, because
`fmt_len - 1` is then the largest number (`fs.hpp:195`).

System information. The buffer holds 1024 bytes of `/proc/cpuinfo`, so a machine
of many processors has some of them missing, and the last one that was read may
have only the first digits of its number. When the read ends between the words and
the number of a line, `is_parsing` stays cleared (`parser_cpuinfo.cpp:209`), the
parser of lscpu is not entered, and the maximum of every processor is 0
(`skipped`). What is left in the memory behind a text can add a processor, change
the figure of lscpu, or make a parser spin. `/proc/meminfo` is parsed with an
expectation no token meets (line 232), which ends the loop after the value was
taken.

bitsery. A variant takes an index that is one too large and then reads nothing.
A growable part that begins inside a byte mixes its size with the bits before
it, so the formats keep it at a byte's start. What only measures counts a bit for
a truth value also where a byte is written, so `RoundTrip` compares the measure
of packed formats. An object that is written twice through one context of base
classes has its virtual bases once.

## Not modelled

* `TrackFolder` on Windows: it opens the directory without overlapped reads, so
  that its reads block the listener, and nothing calls it. The segment on
  Windows, which nothing reads there. `Pdh.h`, a header of the system.
* Opening, closing and asking for the attributes of files, creating and binding
  the socket, `sys_info`, which reads counters: input and output, without state
  of the program's own. Error texts and logging. The trial program, which calls
  the components one after the other.
* bitsery: the traits that the compiler evaluates, the brief syntax, which only
  names calls, memory resources, ranges of floats and of enumerations, texts of
  fixed size with a zero inside, configurations without the checks of errors, and
  reading into objects that are there already.
* A daemon over the Windows tracker and pipe as one composition: `Win32Pipe` has
  the main loop, `Win32FileTracker` the two threads; what passes between them is
  `TryPopChangeInfo`, as in `Daemon`.

What could come next: the merge of `NetworkFS` with recursive functions in place of
recursive operators, to prove that it loses nothing for trees of any size; the
composition of the last point above.
