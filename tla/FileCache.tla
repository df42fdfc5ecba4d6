----------------------------- MODULE FileCache ------------------------------
(***************************************************************************)
(* FileSystem::FileCache (src/src/filesystem/cache.cpp), the cache of      *)
(* files of other nodes, and the calls of the C API that reach it          *)
(* (src/src/core/c_api.cpp).  One call at a time: nothing in the code      *)
(* guards the cache.                                                       *)
(***************************************************************************)
EXTENDS Naturals, SequencesExt

CONSTANTS
  Names,     \* file names, numbered in the order of std::string
  Nodes,     \* addresses of nodes
  Contents,  \* what files hold: sequences of bytes
  MaxEntries \* bound: entries of the cache

ASSUME FileCacheAssumption ==
  /\ Names \subseteq Nat
  /\ Contents \subseteq Seq(Nat)
  /\ MaxEntries \in Nat

VARIABLES
  OfflineCache,   \* the multimap, in the order in which it is walked
  local_fs,       \* names that occur in GFS.local_fs
  disk,           \* name -> bytes, of the files in the working directory
  answer          \* what the last call returned, and to which call

vars == <<OfflineCache, local_fs, disk, answer>>

Location == {"OnRAM", "OnDisk"}
Entry == [name : Names, node : Nodes, size : Nat, location : Location, data : Contents]

NoAnswer == [call |-> "none"]
Answer(call, n, a, v) == [call |-> call, name |-> n, node |-> a, value |-> v]

-----------------------------------------------------------------------------
(* The multimap.                                                           *)

\* Where a key goes: behind the entries that have it already.
UpperBound(n) ==
  {i \in 1 .. Len(OfflineCache) + 1 :
     /\ \A j \in 1 .. i - 1 : OfflineCache[j].name <= n
     /\ \A j \in i .. Len(OfflineCache) : OfflineCache[j].name > n}

Insert(e) == \E i \in UpperBound(e.name) : OfflineCache' = InsertAt(OfflineCache, i, e)

HasName(n) == \E i \in DOMAIN OfflineCache : OfflineCache[i].name = n

\* The walk of the three queries: from lower_bound(n) to the end of the map,
\* beyond the entries of that name.  0 when nothing is found.
FirstFrom(n, nodes) ==
  LET hits == {i \in DOMAIN OfflineCache :
                 OfflineCache[i].name >= n /\ OfflineCache[i].node \in nodes}
  IN IF HasName(n) /\ hits # {} THEN Min(hits) ELSE 0

\* memcmp(ip_addr, iter->second.ip_addr) without a negation: another node's.
CachedEntry(n, a) == FirstFrom(n, Nodes \ {a})

\* Faulty variant: without lower_bound.
EntryToRemoveAnyName(n, a) ==
  IF HasName(n) THEN SelectInSeq(OfflineCache, LAMBDA e : e.node = a) ELSE 0

\* !memcmp: this node's.
EntryToRemove(n, a) == FirstFrom(n, {a})

-----------------------------------------------------------------------------
(* The calls.                                                              *)

\* A pointer to the bytes of a file, or to nothing.
NullPointer == <<>>
Pointer(bytes) == <<bytes>>

\* fread, fwrite and memcpy of size bytes.
Read(bytes, size) == SubSeq(bytes, 1, Min({size, Len(bytes)}))

RawFile(n, size, c) == [file_name |-> n, file_size |-> size, data |-> c]

EntryOf(file, a, location) ==
  [name |-> file.file_name, node |-> a, size |-> file.file_size,
   location |-> location, data |-> file.data]

\* The file is created in the working directory under its own name, whichever
\* node it is of.
AddOnDisk(file, a) ==
  /\ disk' = [n \in DOMAIN disk \cup {file.file_name} |->
                IF n = file.file_name THEN Read(file.data, file.file_size) ELSE disk[n]]
  /\ Insert(EntryOf(file, a, "OnDisk"))

AddOnRAM(file, a) ==
  /\ Insert(EntryOf(file, a, "OnRAM"))
  /\ UNCHANGED disk

\* Faulty variant: the error is reported and the entry kept.
CreationErrorIgnored(file, a) ==
  /\ Insert(EntryOf(file, a, "OnDisk"))
  /\ UNCHANGED disk

\* fopen fails: not cached.
CreationError(file, a) == UNCHANGED <<OfflineCache, disk>>

\* memory_load is a percentage, compared with 0.75: the disk is used unless no
\* memory at all is in use.
AddFileToCache(file, a) == AddOnDisk(file, a) \/ CreationError(file, a) \/ AddOnRAM(file, a)

\* A caller in C++ sets the size.
AddRawFile(n, a, c) ==
  /\ Len(OfflineCache) < MaxEntries
  /\ AddFileToCache(RawFile(n, Len(c), c), a)
  /\ answer' = NoAnswer
  /\ UNCHANGED local_fs

\* The C API does not: the file is cached empty.  It is listed in local_fs, also
\* when it could not be cached.
AddToFileCache(n, a, c) ==
  /\ Len(OfflineCache) < MaxEntries
  /\ AddFileToCache(RawFile(n, 0, c), a)
  /\ local_fs' = local_fs \cup {n}
  /\ answer' = NoAnswer

\* Not in the C API.  Neither the file on the disk nor local_fs is touched.
RemoveFromCache(n, a) ==
  LET i == EntryToRemove(n, a) IN
  /\ OfflineCache' = IF i = 0 THEN OfflineCache ELSE RemoveAt(OfflineCache, i)
  /\ answer' = Answer("RemoveFromCache", n, a, i # 0)
  /\ UNCHANGED <<local_fs, disk>>

IsFileCached(n, a) ==
  /\ answer' = Answer("IsFileCached", n, a, CachedEntry(n, a) # 0)
  /\ UNCHANGED <<OfflineCache, local_fs, disk>>

\* What the caller may get.  What is on the disk is looked for under the name
\* that was asked for, and may not open.
Loaded(n, e) ==
  IF e.location = "OnRAM" THEN {Pointer(Read(e.data, e.size))}
  ELSE {NullPointer} \cup {Pointer(Read(disk[m], e.size)) : m \in DOMAIN disk \cap {n}}

GetCachedFile(n, a) ==
  LET i == CachedEntry(n, a) IN
  /\ \E v \in IF i = 0 THEN {NullPointer} ELSE Loaded(n, OfflineCache[i]) :
       answer' = Answer("GetCachedFile", n, a, v)
  /\ UNCHANGED <<OfflineCache, local_fs, disk>>

-----------------------------------------------------------------------------
Init ==
  /\ OfflineCache = <<>> /\ local_fs = {}
  /\ disk = [n \in {} |-> <<>>]
  /\ answer = NoAnswer

Next ==
  \E n \in Names, a \in Nodes :
    \/ \E c \in Contents : AddRawFile(n, a, c) \/ AddToFileCache(n, a, c)
    \/ RemoveFromCache(n, a)
    \/ IsFileCached(n, a)
    \/ GetCachedFile(n, a)

Spec == Init /\ [][Next]_vars

-----------------------------------------------------------------------------
(* Properties.                                                             *)

\* The entries are in the order of their names, on which lower_bound relies.
Sorted ==
  \A i, j \in DOMAIN OfflineCache : i <= j => OfflineCache[i].name <= OfflineCache[j].name

CacheTypeOK ==
  /\ OfflineCache \in Seq(Entry)
  /\ Sorted
  /\ local_fs \subseteq Names
  /\ DOMAIN disk \subseteq Names /\ \A n \in DOMAIN disk : disk[n] \in Seq(Nat)
  /\ answer = NoAnswer \/ (answer.name \in Names /\ answer.node \in Nodes)

\* The entries of file n of node a.
Of(n, a) == {i \in DOMAIN OfflineCache : OfflineCache[i].name = n /\ OfflineCache[i].node = a}

\* RemoveFromCache takes the oldest entry of that file of that node and no
\* other, although its walk does not end with the entries of the name; of a
\* file no node has cached it takes nothing (cache.cpp:84-101).  When only other
\* nodes have the file, the walk may reach another file of the node.
RemovalOf(n, a) ==
  answer'.call = "RemoveFromCache" /\ answer'.name = n /\ answer'.node = a
RemoveTakesAsked ==
  [][\A n \in Names, a \in Nodes : RemovalOf(n, a) =>
       /\ Of(n, a) # {} => answer'.value /\ OfflineCache' = RemoveAt(OfflineCache, Min(Of(n, a)))
       /\ ~HasName(n) => ~answer'.value /\ UNCHANGED OfflineCache]_vars

\* What the cache says is on the disk has been written there: an entry is
\* inserted only behind its file, and nothing the cache does takes the file
\* from the other entries of that name (cache.cpp:52-67, 84-101).
OnDiskHasFile ==
  \A i \in DOMAIN OfflineCache :
    OfflineCache[i].location = "OnDisk" => OfflineCache[i].name \in DOMAIN disk
=============================================================================
