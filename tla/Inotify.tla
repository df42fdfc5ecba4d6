------------------------------ MODULE Inotify -------------------------------
(***************************************************************************)
(* The operating system's side of file tracking on Linux: the files other  *)
(* programs write, rename and delete, and the inotify instance that        *)
(* FileTracker opens (inotify_init).  It is external to the repository and *)
(* is modelled from how src/src/filesystem/file_track_linux.cpp uses it.   *)
(*                                                                         *)
(* The event queue is kept in the units in which it is read: every event   *)
(* is one 16-byte header (struct inotify_event), and an event about a      *)
(* child of a watched directory is followed by one 16-byte block holding   *)
(* the child's name (event->len = 16, for names of at most 11 characters). *)
(***************************************************************************)
EXTENDS Naturals, Sequences, FiniteSets, UnorderedMap

CONSTANTS
  Paths,       \* canonical paths of regular files, as realpath() returns them
  Folders,     \* directories; none is removed or renamed
  FolderOf,    \* FolderOf[p]: the directory that holds p
  MaxInodes,   \* bound: files ever created
  MaxQueued    \* fs.inotify.max_queued_events: events an instance may hold

NoInode == 0

ASSUME InotifyAssumption ==
  /\ FolderOf \in [Paths -> Folders]
  /\ MaxInodes \in Nat
  /\ MaxQueued \in Nat \ {0}

VARIABLES
  inode,         \* inode[p]: the file p names now, or NoInode
  last_inode,    \* the newest file
  watch,         \* live watches: descriptor -> [obj: file or folder, mask]
  last_wd,       \* descriptors are handed out in increasing order, never reused
  kernel_queue,  \* the units not yet read from the inotify descriptor
  dropped        \* history: descriptors whose IN_IGNORED fell to a full queue

inotifyVars == <<inode, last_inode, watch, last_wd, kernel_queue, dropped>>

Masks == {"modify", "attrib"}

Unit == [wd: Nat, what: Masks \cup {"ignored", "overflow", "name"},
         child: SUBSET Paths]

\* child is the name an event about an entry of a folder carries, or {}.
Event(w, what, child) == [wd |-> w, what |-> what, child |-> child]
NameUnit == Event(0, "name", {})
Overflow == Event(0, "overflow", {})
Ignored(w) == Event(w, "ignored", {})

Named(u) == u.child # {}

Occurs(u, q) == \E i \in 1 .. Len(q) : q[i] = u

Full(q) == Cardinality({i \in 1 .. Len(q) : q[i] # NameUnit}) >= MaxQueued

\* An event equal to the newest one that is still unread is merged with it.
Merges(q, e) ==
  LET last == IF Named(e) THEN Len(q) - 1 ELSE Len(q)
  IN  last >= 1 /\ q[last] = e

\* Queue event e: at the limit one overflow event is queued and e is lost.
Post(q, e) ==
  IF Full(q)
  THEN IF Occurs(Overflow, q) THEN q ELSE Append(q, Overflow)
  ELSE IF Merges(q, e) THEN q
       ELSE IF Named(e) THEN q \o <<e, NameUnit>> ELSE Append(q, e)

Listens(w, obj, what) == watch[w].obj = obj /\ what \in watch[w].mask

\* Tell the watch on obj, when there is one whose mask selects what.
Notify(q, obj, what, child) ==
  IF \E w \in DOMAIN watch : Listens(w, obj, what)
  THEN Post(q, Event(CHOOSE w \in DOMAIN watch : Listens(w, obj, what), what, child))
  ELSE q

-----------------------------------------------------------------------------
(* What other programs do to the files.                                    *)

Write(p) ==
  /\ inode[p] # NoInode
  /\ kernel_queue' = Notify(Notify(kernel_queue, FolderOf[p], "modify", {p}),
                            inode[p], "modify", {})
  /\ UNCHANGED <<inode, last_inode, watch, last_wd, dropped>>

Chmod(p) ==
  /\ inode[p] # NoInode
  /\ kernel_queue' = Notify(Notify(kernel_queue, FolderOf[p], "attrib", {p}),
                            inode[p], "attrib", {})
  /\ UNCHANGED <<inode, last_inode, watch, last_wd, dropped>>

ChmodFolder(f) ==
  /\ kernel_queue' = Notify(kernel_queue, f, "attrib", {})
  /\ UNCHANGED <<inode, last_inode, watch, last_wd, dropped>>

Create(p) ==
  /\ inode[p] = NoInode
  /\ last_inode < MaxInodes
  /\ last_inode' = last_inode + 1
  /\ inode' = [inode EXCEPT ![p] = last_inode']
  /\ UNCHANGED <<watch, last_wd, kernel_queue, dropped>>

\* The name goes at once; the file itself goes in Release, which waits for
\* the programs that still have it open.
Unlink(p) ==
  /\ inode[p] # NoInode
  /\ inode' = [inode EXCEPT ![p] = NoInode]
  /\ kernel_queue' = Notify(kernel_queue, inode[p], "attrib", {})
  /\ UNCHANGED <<last_inode, watch, last_wd, dropped>>

\* rename(p, q): the way an editor replaces the file q by a new version.
Rename(p, q) ==
  /\ p # q /\ inode[p] # NoInode
  /\ inode' = [inode EXCEPT ![p] = NoInode, ![q] = inode[p]]
  /\ kernel_queue' = IF inode[q] = NoInode THEN kernel_queue
                     ELSE Notify(kernel_queue, inode[q], "attrib", {})
  /\ UNCHANGED <<last_inode, watch, last_wd, dropped>>

\* A watched file with no name left is freed: its watch goes with it, and
\* IN_IGNORED says so whatever the mask is.
Release(w) ==
  /\ w \in DOMAIN watch
  /\ watch[w].obj \notin Folders
  /\ \A p \in Paths : inode[p] # watch[w].obj
  /\ watch' = Erase(watch, w)
  /\ kernel_queue' = Post(kernel_queue, Ignored(w))
  /\ dropped' = IF Full(kernel_queue) THEN dropped \cup {w} ELSE dropped
  /\ UNCHANGED <<inode, last_inode, last_wd>>

FilesChange ==
  \/ \E p \in Paths : Write(p) \/ Chmod(p) \/ Create(p) \/ Unlink(p)
  \/ \E p, q \in Paths : Rename(p, q)
  \/ \E f \in Folders : ChmodFolder(f)
  \/ \E w \in DOMAIN watch : Release(w)

-----------------------------------------------------------------------------
(* inotify_add_watch on an existing file or folder: the descriptor of an   *)
(* object that is watched already is returned again and its mask replaced. *)

AddWatch(obj, mask, wd) ==
  /\ \/ /\ wd \in DOMAIN watch
        /\ watch[wd].obj = obj
        /\ watch' = [watch EXCEPT ![wd] = [obj |-> obj, mask |-> mask]]
        /\ UNCHANGED last_wd
     \/ /\ \A w \in DOMAIN watch : watch[w].obj # obj
        /\ wd = last_wd + 1
        /\ watch' = Insert(watch, wd, [obj |-> obj, mask |-> mask])
        /\ last_wd' = wd
  /\ UNCHANGED <<inode, last_inode, dropped>>

InotifyInit ==
  /\ last_inode \in 0 .. MaxInodes
  /\ inode \in [Paths -> 0 .. last_inode]
  /\ \A p, q \in Paths : inode[p] = inode[q] => p = q \/ inode[p] = NoInode
  /\ watch = EmptyMap
  /\ last_wd = 0
  /\ kernel_queue = <<>>
  /\ dropped = {}

InotifyTypeOK ==
  /\ inode \in [Paths -> Nat]
  /\ last_inode \in Nat
  /\ last_wd \in Nat
  /\ IsMap(watch, 1 .. last_wd, [obj: Nat \cup Folders, mask: SUBSET Masks])
  /\ kernel_queue \in Seq(Unit)
  /\ dropped \subseteq 1 .. last_wd

\* Every event about a child is followed by its name.
Paired(q) ==
  \A i \in 1 .. Len(q) : Named(q[i]) => i + 1 <= Len(q) /\ q[i + 1] = NameUnit

\* IN_IGNORED is about descriptors that were given out and are gone.
OnlyGone(q) ==
  \A i \in 1 .. Len(q) :
    q[i].what = "ignored" => q[i].wd \in (1 .. last_wd) \ DOMAIN watch
=============================================================================
