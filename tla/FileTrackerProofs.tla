------------------------- MODULE FileTrackerProofs --------------------------
(***************************************************************************)
(* Theorems about FileTracker and the maps and the kernel under it, for any *)
(* files, names, limits and buffer.                                        *)
(***************************************************************************)
EXTENDS FileTracker, TLAPS

-----------------------------------------------------------------------------
(* UnorderedMap.                                                             *)

\* insert keeps a map's type.
LEMMA InsertType ==
  ASSUME NEW K, NEW V, NEW map, IsMap(map, K, V), NEW k \in K, NEW v \in V
  PROVE  IsMap(Insert(map, k, v), K, V)
BY DEF Insert, IsMap

\* erase keeps a map's type.
LEMMA EraseType ==
  ASSUME NEW K, NEW V, NEW map, IsMap(map, K, V), NEW k
  PROVE  IsMap(Erase(map, k), K, V)
BY DEF Erase, IsMap

\* A map stays one when more keys and values are allowed.
LEMMA IsMapWiden ==
  ASSUME NEW K, NEW V, NEW L, NEW W, NEW map, IsMap(map, K, V), K \subseteq L, V \subseteq W
  PROVE  IsMap(map, L, W)
BY DEF IsMap

\* The empty map has every type.
LEMMA EmptyMapType ==
  ASSUME NEW K, NEW V
  PROVE  IsMap(EmptyMap, K, V)
BY DEF IsMap, EmptyMap

-----------------------------------------------------------------------------
(* The kernel's queue.                                                       *)

\* The units events are made of.
LEMMA EventTypes ==
  /\ \A w \in Nat, what \in Masks, c \in SUBSET Paths : Event(w, what, c) \in Unit
  /\ \A w \in Nat : Ignored(w) \in Unit /\ ~Named(Ignored(w))
  /\ Overflow \in Unit /\ ~Named(Overflow)
  /\ NameUnit \in Unit /\ ~Named(NameUnit)
BY DEF Event, Ignored, Overflow, NameUnit, Unit, Named, Masks

\* The four outcomes of Post.
LEMMA PostCases ==
  ASSUME NEW q, NEW e
  PROVE  \/ Post(q, e) = q /\ (~Full(q) => Merges(q, e))
         \/ Post(q, e) = Append(q, Overflow) /\ Full(q)
         \/ Post(q, e) = Append(q, e) /\ ~Named(e)
         \/ Post(q, e) = q \o <<e, NameUnit>> /\ Named(e)
BY DEF Post

\* The queue stays a sequence of units.
LEMMA PostType ==
  ASSUME NEW q \in Seq(Unit), NEW e \in Unit
  PROVE  Post(q, e) \in Seq(Unit)
<1>1. <<e, NameUnit>> \in Seq(Unit)
  BY EventTypes
<1>2. q \o <<e, NameUnit>> \in Seq(Unit)
  BY <1>1
<1>3. Append(q, Overflow) \in Seq(Unit) /\ Append(q, e) \in Seq(Unit)
  BY EventTypes
<1> QED
  BY <1>2, <1>3, PostCases

\* No unread unit is lost.
LEMMA PostKeeps ==
  ASSUME NEW q \in Seq(Unit), NEW e \in Unit
  PROVE  /\ Len(q) <= Len(Post(q, e))
         /\ \A i \in 1 .. Len(q) : Post(q, e)[i] = q[i]
<1>1. CASE Post(q, e) = q
  BY <1>1
<1>2. ASSUME NEW x, Post(q, e) = Append(q, x)
      PROVE  /\ Len(q) <= Len(Post(q, e))
             /\ \A i \in 1 .. Len(q) : Post(q, e)[i] = q[i]
  BY <1>2
<1>3. CASE Post(q, e) = q \o <<e, NameUnit>>
  BY <1>3
<1> QED
  BY <1>1, <1>2, <1>3, PostCases

\* What occurred in the queue still does.
LEMMA PostOccurs ==
  ASSUME NEW q \in Seq(Unit), NEW e \in Unit, NEW u, Occurs(u, q)
  PROVE  Occurs(u, Post(q, e))
<1> DEFINE r == Post(q, e)
<1>1. PICK i \in 1 .. Len(q) : q[i] = u
  BY DEF Occurs
<1>2. Len(q) <= Len(r) /\ r[i] = q[i]
  BY PostKeeps, Zenon
<1>3. r \in Seq(Unit)
  BY PostType
<1> HIDE DEF r
<1>4. i \in 1 .. Len(r)
  BY <1>2, <1>3
<1>5. Occurs(u, r)
  BY <1>1, <1>2, <1>4 DEF Occurs
<1> QED
  BY <1>5 DEF r

\* Below the limit the event is among the unread units afterwards.
LEMMA PostAdds ==
  ASSUME NEW q \in Seq(Unit), NEW e \in Unit, ~Full(q), ~Named(e)
  PROVE  Occurs(e, Post(q, e))
<1>1. CASE Post(q, e) = Append(q, e)
  <2>1. Len(Append(q, e)) = Len(q) + 1 /\ Append(q, e)[Len(q) + 1] = e
    OBVIOUS
  <2> QED
    BY <1>1, <2>1 DEF Occurs
<1>2. CASE Post(q, e) = q /\ Merges(q, e)
  <2>1. Len(q) >= 1 /\ q[Len(q)] = e
    BY <1>2 DEF Merges
  <2> QED
    BY <1>2, <2>1 DEF Occurs
<1> QED
  BY <1>1, <1>2, PostCases

\* Nothing else appears.
LEMMA PostOnly ==
  ASSUME NEW q \in Seq(Unit), NEW e \in Unit, NEW u, Occurs(u, Post(q, e))
  PROVE  Occurs(u, q) \/ u \in {e, Overflow, NameUnit}
<1>1. PICK i \in 1 .. Len(Post(q, e)) : Post(q, e)[i] = u
  BY DEF Occurs
<1>2. CASE i \in 1 .. Len(q)
  BY <1>1, <1>2, PostKeeps DEF Occurs
<1>3. CASE i \notin 1 .. Len(q)
  <2>1. ASSUME NEW x, Post(q, e) = Append(q, x) PROVE u = x
    BY <1>1, <1>3, <2>1
  <2>2. CASE Post(q, e) = q \o <<e, NameUnit>>
    <3>1. i \in {Len(q) + 1, Len(q) + 2}
      BY <1>3, <2>2
    <3> QED
      BY <1>1, <2>2, <3>1
  <2> QED
    BY <1>1, <1>3, <2>1, <2>2, PostCases
<1> QED
  BY <1>2, <1>3

\* Names still follow the events they belong to.
LEMMA PostPaired ==
  ASSUME NEW q \in Seq(Unit), NEW e \in Unit, Paired(q)
  PROVE  Paired(Post(q, e))
<1>1. ASSUME NEW x, ~Named(x) PROVE Paired(Append(q, x))
  <2>1. Len(Append(q, x)) = Len(q) + 1
    OBVIOUS
  <2>2. \A i \in 1 .. Len(q) : Append(q, x)[i] = q[i]
    OBVIOUS
  <2>3. Append(q, x)[Len(q) + 1] = x
    OBVIOUS
  <2> QED
    BY <1>1, <2>1, <2>2, <2>3 DEF Paired
<1>2. Paired(q \o <<e, NameUnit>>)
  <2> DEFINE r == q \o <<e, NameUnit>>
  <2>1. Len(r) = Len(q) + 2
    OBVIOUS
  <2>2. \A i \in 1 .. Len(q) : r[i] = q[i]
    OBVIOUS
  <2>3. r[Len(q) + 1] = e /\ r[Len(q) + 2] = NameUnit
    OBVIOUS
  <2>4. Len(q) \in Nat
    OBVIOUS
  <2> HIDE DEF r
  <2>5. Paired(r)
    BY <2>1, <2>2, <2>3, <2>4, EventTypes DEF Paired
  <2> QED
    BY <2>5 DEF r
<1> QED
  BY <1>1, <1>2, PostCases, EventTypes

\* Notify queues one event of some watch, or nothing.
LEMMA NotifyPosts ==
  ASSUME NEW q, NEW obj, NEW what, NEW child
  PROVE  \/ Notify(q, obj, what, child) = q
         \/ \E w \in DOMAIN watch : Notify(q, obj, what, child) = Post(q, Event(w, what, child))
BY DEF Notify

\* Notify keeps the type of the queue.
LEMMA NotifyType ==
  ASSUME InotifyTypeOK, NEW q \in Seq(Unit), NEW obj, NEW what \in Masks,
         NEW child \in SUBSET Paths
  PROVE  Notify(q, obj, what, child) \in Seq(Unit)
<1>1. \A w \in DOMAIN watch : Event(w, what, child) \in Unit
  BY EventTypes DEF InotifyTypeOK, IsMap
<1> QED
  BY <1>1, NotifyPosts, PostType

\* Whatever happens to the files, the inotify state keeps its type.
LEMMA FilesChangeType ==
  ASSUME InotifyTypeOK, FilesChange
  PROVE  InotifyTypeOK' /\ last_wd' = last_wd
<1> USE DEF InotifyTypeOK
<1>m. Masks = {"modify", "attrib"}
  BY DEF Masks
<1>1. ASSUME NEW p \in Paths, Write(p) PROVE InotifyTypeOK' /\ last_wd' = last_wd
  <2>1. kernel_queue' \in Seq(Unit)
    BY <1>1, <1>m, NotifyType, Zenon DEF Write
  <2> QED
    BY <1>1, <2>1 DEF Write, IsMap
<1>2. ASSUME NEW p \in Paths, Chmod(p) PROVE InotifyTypeOK' /\ last_wd' = last_wd
  <2>1. kernel_queue' \in Seq(Unit)
    BY <1>2, <1>m, NotifyType, Zenon DEF Chmod
  <2> QED
    BY <1>2, <2>1 DEF Chmod, IsMap
<1>3. ASSUME NEW p \in Paths, Create(p) PROVE InotifyTypeOK' /\ last_wd' = last_wd
  BY <1>3 DEF Create, IsMap
<1>4. ASSUME NEW p \in Paths, Unlink(p) PROVE InotifyTypeOK' /\ last_wd' = last_wd
  <2>1. kernel_queue' \in Seq(Unit)
    BY <1>4, <1>m, NotifyType, Zenon DEF Unlink
  <2> QED
    BY <1>4, <2>1 DEF Unlink, IsMap, NoInode
<1>5. ASSUME NEW p \in Paths, NEW q \in Paths, Rename(p, q)
      PROVE InotifyTypeOK' /\ last_wd' = last_wd
  <2>1. kernel_queue' \in Seq(Unit)
    BY <1>5, <1>m, NotifyType, Zenon DEF Rename
  <2> QED
    BY <1>5, <2>1 DEF Rename, IsMap, NoInode
<1>6. ASSUME NEW f \in Folders, ChmodFolder(f) PROVE InotifyTypeOK' /\ last_wd' = last_wd
  <2>1. kernel_queue' \in Seq(Unit)
    BY <1>6, <1>m, NotifyType, Zenon DEF ChmodFolder
  <2> QED
    BY <1>6, <2>1 DEF ChmodFolder, IsMap
<1>7. ASSUME NEW w \in DOMAIN watch, Release(w) PROVE InotifyTypeOK' /\ last_wd' = last_wd
  <2>1. kernel_queue' \in Seq(Unit)
    BY <1>7, EventTypes, PostType DEF Release, IsMap
  <2>2. IsMap(watch', 1 .. last_wd, [obj: Nat \cup Folders, mask: SUBSET Masks])
    BY <1>7, EraseType DEF Release
  <2> QED
    BY <1>7, <2>1, <2>2 DEF Release, IsMap
<1> QED
  BY <1>1, <1>2, <1>3, <1>4, <1>5, <1>6, <1>7 DEF FilesChange

\* So does registering a watch, which returns a descriptor handed out by now.
LEMMA AddWatchType ==
  ASSUME InotifyTypeOK, UNCHANGED kernel_queue,
         NEW obj \in Nat \cup Folders, NEW mask \in SUBSET Masks, NEW wd,
         AddWatch(obj, mask, wd)
  PROVE  InotifyTypeOK' /\ last_wd' >= last_wd /\ wd \in 1 .. last_wd'
<1> USE DEF InotifyTypeOK
<1> DEFINE W == [obj: Nat \cup Folders, mask: SUBSET Masks]
<1>1. [obj |-> obj, mask |-> mask] \in W
  OBVIOUS
<1>2. CASE wd \in DOMAIN watch
  <2>1. watch' = [watch EXCEPT ![wd] = [obj |-> obj, mask |-> mask]] /\ last_wd' = last_wd
    BY <1>2 DEF AddWatch, IsMap
  <2>2. IsMap(watch', 1 .. last_wd, W)
    BY <1>1, <1>2, <2>1 DEF IsMap
  <2> QED
    BY <1>2, <2>1, <2>2 DEF AddWatch, IsMap
<1>3. CASE wd \notin DOMAIN watch
  <2>1. /\ wd = last_wd + 1 /\ last_wd' = wd
        /\ watch' = Insert(watch, wd, [obj |-> obj, mask |-> mask])
    BY <1>3 DEF AddWatch
  <2>2. IsMap(watch, 1 .. wd, W)
    BY <2>1, IsMapWiden
  <2>3. IsMap(watch', 1 .. wd, W)
    <3>1. wd \in 1 .. wd
      BY <2>1
    <3> HIDE DEF W
    <3> QED
      BY <1>1, <2>1, <2>2, <3>1, InsertType
  <2> QED
    BY <2>1, <2>3 DEF AddWatch
<1> QED
  BY <1>2, <1>3

-----------------------------------------------------------------------------
(* What other programs do to the queue, apart from freeing a file.         *)

\* r holds all that q held, and no IN_IGNORED besides.
Extends(q, r) ==
  /\ \A u : Occurs(u, q) => Occurs(u, r)
  /\ \A i \in 1 .. Len(r) : r[i].what = "ignored" => Occurs(r[i], q)
  /\ Paired(q) => Paired(r)

\* Queueing an event that is no IN_IGNORED extends the queue.
LEMMA PostExtends ==
  ASSUME NEW q \in Seq(Unit), NEW e \in Unit, e.what # "ignored"
  PROVE  Extends(q, Post(q, e))
<1>1. \A u : Occurs(u, q) => Occurs(u, Post(q, e))
  BY PostOccurs
<1>2. ASSUME NEW i \in 1 .. Len(Post(q, e)), Post(q, e)[i].what = "ignored"
      PROVE Occurs(Post(q, e)[i], q)
  <2>1. Occurs(Post(q, e)[i], Post(q, e))
    BY DEF Occurs
  <2>2. Overflow.what # "ignored" /\ NameUnit.what # "ignored"
    BY DEF Overflow, NameUnit, Event
  <2> QED
    BY <1>2, <2>1, <2>2, PostOnly
<1> QED
  BY <1>1, <1>2, PostPaired DEF Extends

\* One extension after another is an extension.
LEMMA ExtendsTransitive ==
  ASSUME NEW q, NEW r, NEW s, Extends(q, r), Extends(r, s)
  PROVE  Extends(q, s)
<1>1. ASSUME NEW i \in 1 .. Len(s), s[i].what = "ignored" PROVE Occurs(s[i], q)
  <2>1. PICK j \in 1 .. Len(r) : r[j] = s[i]
    BY <1>1 DEF Extends, Occurs
  <2> QED
    BY <1>1, <2>1 DEF Extends
<1> QED
  BY <1>1 DEF Extends

\* Notify extends the queue.
LEMMA NotifyExtends ==
  ASSUME InotifyTypeOK, NEW q \in Seq(Unit), NEW obj, NEW what \in Masks,
         NEW child \in SUBSET Paths
  PROVE  Extends(q, Notify(q, obj, what, child))
<1>1. \A w \in DOMAIN watch : /\ Event(w, what, child) \in Unit
                             /\ Event(w, what, child).what # "ignored"
  BY EventTypes DEF InotifyTypeOK, IsMap, Event, Masks
<1>2. Extends(q, q)
  BY DEF Extends, Occurs
<1> QED
  BY <1>1, <1>2, NotifyPosts, PostExtends

\* Everything but the end of a watch leaves the watches alone and extends the
\* queue.
LEMMA FilesChangeExtends ==
  ASSUME InotifyTypeOK, FilesChange
  PROVE  \/ \E w \in DOMAIN watch : Release(w)
         \/ /\ UNCHANGED <<watch, last_wd, dropped>>
            /\ Extends(kernel_queue, kernel_queue')
<1> DEFINE Goal == /\ UNCHANGED <<watch, last_wd, dropped>>
                   /\ Extends(kernel_queue, kernel_queue')
<1>m. Masks = {"modify", "attrib"} /\ kernel_queue \in Seq(Unit)
  BY DEF Masks, InotifyTypeOK
<1>0. Extends(kernel_queue, kernel_queue)
  BY DEF Extends, Occurs
<1>n. ASSUME NEW a, NEW b, NEW what \in Masks, NEW child \in SUBSET Paths
      PROVE  Extends(kernel_queue, Notify(Notify(kernel_queue, a, what, child), b, what, {}))
  <2>1. {} \in SUBSET Paths
    OBVIOUS
  <2>2. Notify(kernel_queue, a, what, child) \in Seq(Unit)
    BY <1>m, NotifyType
  <2>3. Extends(kernel_queue, Notify(kernel_queue, a, what, child))
    BY <1>m, NotifyExtends
  <2>4. Extends(Notify(kernel_queue, a, what, child),
                Notify(Notify(kernel_queue, a, what, child), b, what, {}))
    BY <2>1, <2>2, NotifyExtends
  <2> QED
    BY <2>3, <2>4, ExtendsTransitive
<1>1. ASSUME NEW p \in Paths, Write(p) PROVE Goal
  BY <1>1, <1>m, <1>n, Zenon DEF Write
<1>2. ASSUME NEW p \in Paths, Chmod(p) PROVE Goal
  BY <1>2, <1>m, <1>n, Zenon DEF Chmod
<1>3. ASSUME NEW p \in Paths, Create(p) PROVE Goal
  BY <1>3, <1>0, Zenon DEF Create
<1>4. ASSUME NEW p \in Paths, Unlink(p) PROVE Goal
  BY <1>4, <1>m, NotifyExtends, Zenon DEF Unlink
<1>5. ASSUME NEW p \in Paths, NEW q \in Paths, Rename(p, q) PROVE Goal
  BY <1>5, <1>0, <1>m, NotifyExtends, Zenon DEF Rename
<1>6. ASSUME NEW f \in Folders, ChmodFolder(f) PROVE Goal
  BY <1>6, <1>m, NotifyExtends, Zenon DEF ChmodFolder
<1> QED
  BY <1>1, <1>2, <1>3, <1>4, <1>5, <1>6 DEF FilesChange

USE FileTrackerAssumption, InotifyAssumption

-----------------------------------------------------------------------------
(* Type correctness.                                                       *)

\* The part of the type that grows with the handles the kernel has given out.
HandleTypes ==
  /\ IsMap(name_to_file_handle, Names, Handles)
  /\ IsMap(handle_to_file_name, Handles, Names)
  /\ IsMap(tracked_directory, Handles, Folders)
  /\ IsMap(name_to_dir_handle, Folders, Handles)
  /\ late \subseteq Handles
  /\ IsMap(resolved, Handles, SUBSET Paths)

\* More handles do no harm to the maps.
LEMMA HandlesGrow ==
  ASSUME HandleTypes, last_wd \in Nat, last_wd' \in Nat, last_wd' >= last_wd
  PROVE  /\ Handles \subseteq Handles'
         /\ IsMap(name_to_file_handle, Names, Handles')
         /\ IsMap(handle_to_file_name, Handles', Names)
         /\ IsMap(tracked_directory, Handles', Folders)
         /\ IsMap(name_to_dir_handle, Folders, Handles')
         /\ late \subseteq Handles'
         /\ IsMap(resolved, Handles', SUBSET Paths)
<1>1. Handles \subseteq Handles'
  BY DEF Handles
<1> QED
  BY <1>1, IsMapWiden DEF HandleTypes

\* resolved stays a map from handles to sets of paths.
LEMMA ResolveType ==
  ASSUME NEW H, IsMap(resolved, H, SUBSET Paths), NEW wd \in H, NEW p \in Paths
  PROVE  /\ IsMap(Resolve(wd, p), H, SUBSET Paths)
         /\ wd \in DOMAIN Resolve(wd, p) /\ p \in Resolve(wd, p)[wd]
         /\ \A w \in DOMAIN resolved :
              w \in DOMAIN Resolve(wd, p) /\ resolved[w] \subseteq Resolve(wd, p)[w]
BY DEF Resolve, IsMap

\* An insert that may lose its entry adds it or leaves the map alone.
LEMMA InsertRacedType ==
  ASSUME NEW K, NEW V, NEW map, IsMap(map, K, V), NEW k \in K, NEW v \in V,
         NEW new \in {Insert(map, k, v), map}
  PROVE  IsMap(new, K, V)
BY InsertType

\* The value of an unused name is a name.
LEMMA SomeNameType == SomeName \in Names
BY DEF SomeName

\* The masks the tracker asks for.
LEMMA FilterMaskType ==
  ASSUME NEW option PROVE FilterMask(option) \in SUBSET Masks
BY DEF FilterMask, Masks

\* The queue's front and rest are sequences of units.
LEMMA ReadType ==
  ASSUME NEW q \in Seq(Unit), q # <<>>
  PROVE  /\ Fitting(q) \in 1 .. Len(q)
         /\ SubSeq(q, 1, Fitting(q)) \in Seq(Unit)
         /\ SubSeq(q, Fitting(q) + 1, Len(q)) \in Seq(Unit)
         /\ Len(SubSeq(q, 1, Fitting(q))) = Fitting(q)
         /\ \A i \in 1 .. Fitting(q) : SubSeq(q, 1, Fitting(q))[i] = q[i]
         /\ Len(SubSeq(q, Fitting(q) + 1, Len(q))) = Len(q) - Fitting(q)
         /\ \A i \in 1 .. Len(q) - Fitting(q) :
              SubSeq(q, Fitting(q) + 1, Len(q))[i] = q[Fitting(q) + i]
<1>1. Fitting(q) \in 1 .. Len(q)
  BY DEF Fitting
<1> QED
  BY <1>1

\* The initial states have the type.
LEMMA TypeInit == Init => TypeOK
<1> SUFFICES ASSUME Init PROVE TypeOK
  OBVIOUS
<1>1. \A K, V : IsMap(EmptyMap, K, V)
  BY EmptyMapType
<1>2. <<>> \in Seq(Unit) /\ <<>> \in Seq(Names \cup Folders)
  OBVIOUS
<1>3. InotifyTypeOK
  BY <1>1, <1>2 DEF Init, InotifyInit, InotifyTypeOK
<1>4. /\ IsMap(name_to_file_handle, Names, Handles)
      /\ IsMap(handle_to_file_name, Handles, Names)
      /\ IsMap(tracked_directory, Handles, Folders)
      /\ IsMap(name_to_dir_handle, Folders, Handles)
      /\ IsMap(resolved, Handles, SUBSET Paths)
  BY <1>1 DEF Init
<1>5. last_wd = 0
  BY DEF Init, InotifyInit
<1>6. cwd \in 0 .. last_wd /\ change_handle \in 0 .. last_wd /\ late \subseteq Handles
  BY <1>5 DEF Init
<1>7. change_info \in Seq(Names \cup Folders) /\ storage \in Seq(Unit)
  BY <1>2 DEF Init
<1>8. /\ stop_listening \in BOOLEAN /\ raced \in BOOLEAN
      /\ pos \in Nat /\ file_name \in Names /\ status \in Status
  BY SomeNameType DEF Init, Status
<1>9. cpc = "idle" /\ cname \in Names /\ lpc = "check"
  BY SomeNameType DEF Init
<1> QED
  BY <1>3, <1>4, <1>6, <1>7, <1>8, <1>9 DEF TypeOK

\* TrackFile, TrackFolder and what they have left to do keep the type.
LEMMA CallerType ==
  ASSUME TypeOK, Caller \/ CallerInside
  PROVE  TypeOK'
<1>t. HandleTypes /\ InotifyTypeOK /\ last_wd \in Nat
  BY DEF TypeOK, HandleTypes, InotifyTypeOK
<1>1. ASSUME NEW n \in Names, TrackMissingFile(n) PROVE TypeOK'
  BY <1>1 DEF TrackMissingFile, TypeOK, InotifyTypeOK, Handles, Status, IsMap,
              inotifyVars, mapVars, callerVars, listenerVars, historyVars
<1>2. ASSUME NEW n \in Names, NEW option \in FileOptions, TrackFile(n, option) PROVE TypeOK'
  <2>1. PICK wd \in 1 .. last_wd + 1 :
          /\ AddWatch(inode[PathOf[n]], FilterMask(option), wd)
          /\ cwd' = wd
          /\ resolved' = Resolve(wd, PathOf[n])
    BY <1>2 DEF TrackFile
  <2>2. /\ inode[PathOf[n]] \in Nat \cup Folders /\ UNCHANGED kernel_queue
        /\ PathOf[n] \in Paths
    BY <1>2, <1>t DEF TrackFile, InotifyTypeOK
  <2>3. InotifyTypeOK' /\ last_wd' >= last_wd /\ wd \in 1 .. last_wd'
    BY <2>1, <2>2, <1>t, FilterMaskType, AddWatchType
  <2>4. last_wd' \in Nat
    BY <2>3 DEF InotifyTypeOK
  <2>5. /\ Handles \subseteq Handles'
        /\ IsMap(name_to_file_handle, Names, Handles')
        /\ IsMap(handle_to_file_name, Handles', Names)
        /\ IsMap(tracked_directory, Handles', Folders)
        /\ IsMap(name_to_dir_handle, Folders, Handles')
        /\ late \subseteq Handles'
        /\ IsMap(resolved, Handles', SUBSET Paths)
    BY <1>t, <2>3, <2>4, HandlesGrow
  <2>6. IsMap(resolved', Handles', SUBSET Paths)
    BY <2>1, <2>2, <2>3, <2>5, ResolveType DEF Handles
  <2>7. cwd' \in 1 .. last_wd' /\ change_handle \in 0 .. last_wd'
    BY <2>1, <2>3, <2>4, <1>t DEF TypeOK
  <2> QED
    BY <1>2, <2>3, <2>5, <2>6, <2>7
    DEF TrackFile, TypeOK, mapVars, listenerVars
<1>3. ASSUME NEW f \in Folders, NEW option \in FolderOptions, TrackFolder(f, option) PROVE TypeOK'
  <2>1. PICK wd \in 1 .. last_wd + 1 : AddWatch(f, FilterMask(option), wd) /\ cwd' = wd
    BY <1>3 DEF TrackFolder
  <2>2. f \in Nat \cup Folders /\ UNCHANGED kernel_queue
    BY <1>3 DEF TrackFolder
  <2>3. InotifyTypeOK' /\ last_wd' >= last_wd /\ wd \in 1 .. last_wd'
    BY <2>1, <2>2, <1>t, FilterMaskType, AddWatchType
  <2>4. last_wd' \in Nat
    BY <2>3 DEF InotifyTypeOK
  <2>5. /\ Handles \subseteq Handles'
        /\ IsMap(name_to_file_handle, Names, Handles')
        /\ IsMap(handle_to_file_name, Handles', Names)
        /\ IsMap(tracked_directory, Handles', Folders)
        /\ IsMap(name_to_dir_handle, Folders, Handles')
        /\ late \subseteq Handles'
        /\ IsMap(resolved, Handles', SUBSET Paths)
    BY <1>t, <2>3, <2>4, HandlesGrow
  <2>6. cwd' \in 1 .. last_wd' /\ change_handle \in 0 .. last_wd'
    BY <2>1, <2>3, <2>4, <1>t DEF TypeOK
  <2> QED
    BY <1>3, <2>3, <2>5, <2>6
    DEF TrackFolder, TypeOK, mapVars, listenerVars, historyVars
<1>u. ASSUME UNCHANGED inotifyVars PROVE InotifyTypeOK' /\ last_wd' = last_wd /\ Handles' = Handles
  BY <1>u, <1>t DEF inotifyVars, InotifyTypeOK, Handles, IsMap
<1>4. CASE TryPopChangeInfo
  <2>1. change_info' \in Seq(Names \cup Folders)
    BY <1>4 DEF TryPopChangeInfo, TypeOK
  <2> QED
    BY <1>4, <1>u, <2>1 DEF TryPopChangeInfo, TypeOK, mapVars, callerVars,
                            listenerVars, historyVars
<1>5. CASE StopListening
  BY <1>5, <1>u DEF StopListening, TypeOK, mapVars, callerVars, listenerVars,
                    historyVars
<1>6. CASE InsertName
  <2>1. cname \in Names /\ cwd \in Handles
    BY <1>6, <1>t DEF InsertName, TypeOK, Handles
  <2>2. /\ name_to_file_handle' \in {Insert(name_to_file_handle, cname, cwd), name_to_file_handle}
        /\ raced' \in BOOLEAN
    BY <1>6 DEF InsertName, InsertRaced, TypeOK
  <2>i. IsMap(name_to_file_handle', Names, Handles)
    BY <2>1, <2>2, InsertRacedType DEF TypeOK
  <2> QED
    BY <1>6, <1>u, <2>1, <2>2, <2>i DEF InsertName, TypeOK, listenerVars
<1>7. CASE InsertHandle
  <2>1. cname \in Names /\ cwd \in Handles
    BY <1>7, <1>t DEF InsertHandle, TypeOK, Handles
  <2>2. /\ handle_to_file_name' \in {Insert(handle_to_file_name, cwd, cname), handle_to_file_name}
        /\ raced' \in BOOLEAN
    BY <1>7 DEF InsertHandle, InsertRaced, TypeOK
  <2>i. IsMap(handle_to_file_name', Handles, Names)
    BY <2>1, <2>2, InsertRacedType DEF TypeOK
  <2>3. late' \subseteq Handles
    BY <1>7, <2>1 DEF InsertHandle, TypeOK
  <2> QED
    BY <1>7, <1>u, <1>t, <2>1, <2>2, <2>i, <2>3, SomeNameType
    DEF InsertHandle, CallerReturns, TypeOK, listenerVars
<1>8. CASE InsertFolder
  <2>1. cname \in Folders /\ cwd \in Handles
    BY <1>8, <1>t DEF InsertFolder, TypeOK, Handles
  <2>2. /\ tracked_directory' \in {Insert(tracked_directory, cwd, cname), tracked_directory}
        /\ raced' \in BOOLEAN
    BY <1>8 DEF InsertFolder, InsertRaced, TypeOK
  <2>i. IsMap(tracked_directory', Handles, Folders)
    BY <2>1, <2>2, InsertRacedType DEF TypeOK
  <2>3. IsMap(name_to_dir_handle', Folders, Handles)
    BY <1>8, <2>1, InsertType, Zenon DEF InsertFolder, TypeOK
  <2> QED
    BY <1>8, <1>u, <1>t, <2>1, <2>2, <2>i, <2>3, SomeNameType
    DEF InsertFolder, CallerReturns, TypeOK, listenerVars
<1> QED
  BY <1>1, <1>2, <1>3, <1>4, <1>5, <1>6, <1>7, <1>8 DEF Caller, CallerInside

\* Every step of ListenForChanges keeps the type.
LEMMA ListenerType ==
  ASSUME TypeOK, Listener
  PROVE  TypeOK'
<1>t. HandleTypes /\ InotifyTypeOK /\ last_wd \in Nat
  BY DEF TypeOK, HandleTypes, InotifyTypeOK
<1>u. ASSUME UNCHANGED inotifyVars PROVE InotifyTypeOK' /\ last_wd' = last_wd /\ Handles' = Handles
  BY <1>u, <1>t DEF inotifyVars, InotifyTypeOK, Handles, IsMap
<1>p. NextPos(Current) \in Nat
  BY DEF NextPos
<1>1. CASE CheckStop
  BY <1>1, <1>u, <1>p DEF CheckStop, TypeOK, mapVars, callerVars, listenerVars,
     historyVars
<1>2. CASE ReadEvents
  <2>1. kernel_queue' \in Seq(Unit) /\ storage' \in Seq(Unit)
    BY <1>2, ReadType DEF ReadEvents, TypeOK, InotifyTypeOK
  <2>2. InotifyTypeOK' /\ Handles' = Handles /\ last_wd' = last_wd
    BY <1>2, <1>t, <2>1 DEF ReadEvents, InotifyTypeOK, IsMap, Handles
  <2>3. pos' \in Nat /\ status' \in Status /\ lpc' = "scan"
    BY <1>2 DEF ReadEvents, Status
  <2> QED
    BY <1>2, <2>1, <2>2, <2>3 DEF ReadEvents, TypeOK, mapVars, callerVars, historyVars
<1>3. CASE EndOfBatch
  BY <1>3, <1>u, <1>p DEF EndOfBatch, TypeOK, mapVars, callerVars, listenerVars,
     historyVars
<1>4. CASE ScanNamed
  BY <1>4, <1>u, <1>p DEF ScanNamed, TypeOK, mapVars, callerVars, listenerVars,
     historyVars
<1>5. CASE ScanFile
  <2>1. file_name' \in Names
    BY <1>5 DEF ScanFile, TypeOK, IsMap
  <2> QED
    BY <1>5, <1>u, <2>1 DEF ScanFile, TypeOK, mapVars, callerVars, historyVars
<1>6. CASE ScanFolder
  <2>1. tracked_directory[Current.wd] \in Names \cup Folders
    BY <1>6 DEF ScanFolder, TypeOK, IsMap
  <2>2. change_info' \in Seq(Names \cup Folders)
    BY <1>6, <2>1 DEF ScanFolder, TypeOK
  <2> QED
    BY <1>6, <1>u, <1>p, <2>2 DEF ScanFolder, TypeOK, mapVars, callerVars, historyVars
<1>7. CASE ScanUnknown
  BY <1>7, <1>u, <1>p DEF ScanUnknown, TypeOK, mapVars, callerVars, listenerVars,
     historyVars
<1>8. CASE ReAddMissing
  BY <1>8, <1>u DEF ReAddMissing, TypeOK, mapVars, callerVars, listenerVars,
     historyVars, Status
<1>9. CASE ReAdd
  <2>1. PICK wd \in 1 .. last_wd + 1 :
          /\ AddWatch(inode[PathOf[file_name]], {"modify"}, wd)
          /\ change_handle' = wd
          /\ resolved' = Resolve(wd, PathOf[file_name])
    BY <1>9 DEF ReAdd
  <2>2. /\ PathOf[file_name] \in Paths /\ UNCHANGED kernel_queue
        /\ inode[PathOf[file_name]] \in Nat \cup Folders
    BY <1>9, <1>t DEF ReAdd, TypeOK, InotifyTypeOK
  <2>3. InotifyTypeOK' /\ last_wd' >= last_wd /\ wd \in 1 .. last_wd'
    <3>1. {"modify"} \in SUBSET Masks
      BY DEF Masks
    <3> QED
      BY <2>1, <2>2, <3>1, <1>t, AddWatchType
  <2>4. last_wd' \in Nat
    BY <2>3 DEF InotifyTypeOK
  <2>5. /\ Handles \subseteq Handles'
        /\ IsMap(name_to_file_handle, Names, Handles')
        /\ IsMap(handle_to_file_name, Handles', Names)
        /\ IsMap(tracked_directory, Handles', Folders)
        /\ IsMap(name_to_dir_handle, Folders, Handles')
        /\ late \subseteq Handles'
        /\ IsMap(resolved, Handles', SUBSET Paths)
    BY <1>t, <2>3, <2>4, HandlesGrow
  <2>6. IsMap(resolved', Handles', SUBSET Paths)
    BY <2>1, <2>2, <2>3, <2>5, ResolveType DEF Handles
  <2>7. cwd \in 0 .. last_wd' /\ change_handle' \in 1 .. last_wd'
    BY <2>1, <2>3, <2>4, <1>t DEF TypeOK
  <2> QED
    BY <1>9, <2>3, <2>5, <2>6, <2>7 DEF ReAdd, TypeOK, mapVars, callerVars
<1>10. CASE Push
  <2>1. change_info' \in Seq(Names \cup Folders)
    BY <1>10 DEF Push, TypeOK
  <2> QED
    BY <1>10, <1>u, <2>1 DEF Push, TypeOK, mapVars, callerVars, historyVars
<1>11. CASE EraseHandle
  <2>1. IsMap(handle_to_file_name', Handles, Names)
    BY <1>11, EraseType DEF EraseHandle, TypeOK
  <2> QED
    BY <1>11, <1>u, <2>1 DEF EraseHandle, TypeOK, callerVars, historyVars
<1>12. CASE Relink
  <2>1. file_name \in Names /\ change_handle \in Handles
    BY <1>12, <1>t DEF Relink, TypeOK, Handles
  <2>2. /\ name_to_file_handle'
             \in {Insert(name_to_file_handle, file_name, change_handle), name_to_file_handle}
        /\ handle_to_file_name'
             \in {Insert(handle_to_file_name, change_handle, file_name), handle_to_file_name}
        /\ raced' \in BOOLEAN
    BY <1>12 DEF Relink, TypeOK
  <2>3. IsMap(name_to_file_handle', Names, Handles)
    BY <2>1, <2>2, InsertRacedType DEF TypeOK
  <2>4. IsMap(handle_to_file_name', Handles, Names)
    BY <2>1, <2>2, InsertRacedType DEF TypeOK
  <2>5. file_name' \in Names /\ change_handle' \in 0 .. last_wd /\ pos' \in Nat
    BY <1>12, <1>p, <1>t, SomeNameType DEF Relink
  <2> QED
    BY <1>12, <1>u, <2>2, <2>3, <2>4, <2>5 DEF Relink, TypeOK, callerVars
<1> QED
  BY <1>1, <1>2, <1>3, <1>4, <1>5, <1>6, <1>7, <1>8, <1>9, <1>10, <1>11, <1>12 DEF Listener

\* So does a crash in a race, and whatever other programs do.
LEMMA OtherType ==
  ASSUME TypeOK, DataRace \/ Environment \/ UNCHANGED vars
  PROVE  TypeOK'
<1>t. InotifyTypeOK
  BY DEF TypeOK
<1>u. ASSUME UNCHANGED inotifyVars PROVE InotifyTypeOK' /\ last_wd' = last_wd /\ Handles' = Handles
  BY <1>u, <1>t DEF inotifyVars, InotifyTypeOK, Handles, IsMap
<1>1. CASE DataRace
  BY <1>1, <1>u DEF DataRace, TypeOK, mapVars, callerVars, listenerVars,
     historyVars, Status
<1>2. CASE Environment
  <2>1. InotifyTypeOK' /\ last_wd' = last_wd /\ Handles' = Handles
    BY <1>2, <1>t, FilesChangeType DEF Environment, Handles
  <2> QED
    BY <1>2, <2>1 DEF Environment, TypeOK, mapVars, callerVars, listenerVars, historyVars
<1>3. CASE UNCHANGED vars
  BY <1>3, <1>u DEF vars, TypeOK, mapVars, callerVars, listenerVars, historyVars
<1> QED
  BY <1>1, <1>2, <1>3

\* Whatever the two threads and the kernel do, every map relates names and
\* handles that exist and every thread stays at a step of its function.
THEOREM TypeCorrect == Spec => []TypeOK
<1>1. TypeOK /\ [Next]_vars => TypeOK'
  BY CallerType, ListenerType, OtherType DEF Next
<1> QED
  BY <1>1, TypeInit, PTL DEF Spec

-----------------------------------------------------------------------------
(* A handle is mapped to a name of its own file.                           *)

\* Resolving one more path takes nothing away from what was resolved before.
LEMMA ResolvedGrows ==
  ASSUME TypeOK, NEW wd \in 1 .. last_wd + 1, NEW p \in Paths, resolved' = Resolve(wd, p)
  PROVE  /\ \A h \in DOMAIN resolved : h \in DOMAIN resolved' /\ resolved[h] \subseteq resolved'[h]
         /\ wd \in DOMAIN resolved' /\ p \in resolved'[wd]
<1>1. 1 .. last_wd \subseteq 1 .. last_wd + 1
  BY DEF TypeOK, InotifyTypeOK
<1>2. IsMap(resolved, 1 .. last_wd + 1, SUBSET Paths)
  BY <1>1 DEF TypeOK, Handles, IsMap
<1> QED
  BY <1>2 DEF Resolve, IsMap

\* MatchInv is inductive.
LEMMA MatchStep ==
  ASSUME TypeOK, MatchInv, [Next]_vars
  PROVE  MatchInv'
<1> USE DEF MatchInv, HandleNamesItsFile, ResolvedAs
<1>t. IsMap(handle_to_file_name, Handles, Names)
  BY DEF TypeOK
<1>1. ASSUME NEW n \in Names, NEW option \in FileOptions, TrackFile(n, option) PROVE MatchInv'
  <2>1. PICK wd \in 1 .. last_wd + 1 : cwd' = wd /\ resolved' = Resolve(wd, PathOf[n])
    BY <1>1 DEF TrackFile
  <2>2. /\ \A h \in DOMAIN resolved : h \in DOMAIN resolved' /\ resolved[h] \subseteq resolved'[h]
        /\ wd \in DOMAIN resolved' /\ PathOf[n] \in resolved'[wd]
    BY <2>1, ResolvedGrows
  <2> QED
    BY <1>1, <2>1, <2>2 DEF TrackFile, mapVars, listenerVars
<1>2. CASE InsertName
  BY <1>2 DEF InsertName, listenerVars
<1>3. CASE InsertHandle
  <2>1. handle_to_file_name' \in {Insert(handle_to_file_name, cwd, cname), handle_to_file_name}
    BY <1>3 DEF InsertHandle, InsertRaced
  <2>2. ResolvedAs(cwd, cname)
    BY <1>3 DEF InsertHandle
  <2>3. ASSUME NEW h \in DOMAIN handle_to_file_name'
        PROVE  /\ h \in DOMAIN resolved
               /\ PathOf[handle_to_file_name'[h]] \in resolved[h]
    <3>1. CASE h \in DOMAIN handle_to_file_name
      <4>1. handle_to_file_name'[h] = handle_to_file_name[h]
        BY <2>1, <3>1 DEF Insert
      <4> QED
        BY <3>1, <4>1
    <3>2. CASE h \notin DOMAIN handle_to_file_name
      <4>1. h = cwd /\ handle_to_file_name'[h] = cname
        BY <2>1, <3>2 DEF Insert
      <4> QED
        BY <2>2, <4>1
    <3> QED
      BY <3>1, <3>2
  <2> QED
    BY <1>3, <2>3 DEF InsertHandle, CallerReturns, listenerVars
<1>4. ASSUME NEW f \in Folders, NEW option \in FolderOptions, TrackFolder(f, option) PROVE MatchInv'
  BY <1>4 DEF TrackFolder, mapVars, listenerVars, historyVars
<1>5. CASE InsertFolder
  BY <1>5 DEF InsertFolder, CallerReturns, listenerVars
<1>6. CASE ReAdd
  <2>1. PICK wd \in 1 .. last_wd + 1 :
          change_handle' = wd /\ resolved' = Resolve(wd, PathOf[file_name])
    BY <1>6 DEF ReAdd
  <2>2. PathOf[file_name] \in Paths
    BY DEF TypeOK
  <2>3. /\ \A h \in DOMAIN resolved : h \in DOMAIN resolved' /\ resolved[h] \subseteq resolved'[h]
        /\ wd \in DOMAIN resolved' /\ PathOf[file_name] \in resolved'[wd]
    BY <2>1, <2>2, ResolvedGrows
  <2> QED
    BY <1>6, <2>1, <2>3 DEF ReAdd, mapVars, callerVars
<1>7. CASE EraseHandle
  <2>1. \A h \in DOMAIN handle_to_file_name' :
          h \in DOMAIN handle_to_file_name /\ handle_to_file_name'[h] = handle_to_file_name[h]
    BY <1>7 DEF EraseHandle, Erase
  <2> QED
    BY <1>7, <2>1 DEF EraseHandle, callerVars, historyVars
<1>8. CASE Relink
  <2>1. handle_to_file_name' \in {Insert(handle_to_file_name, change_handle, file_name),
                                 handle_to_file_name}
    BY <1>8 DEF Relink
  <2>2. ResolvedAs(change_handle, file_name)
    BY <1>8 DEF Relink
  <2>3. ASSUME NEW h \in DOMAIN handle_to_file_name'
        PROVE  /\ h \in DOMAIN resolved
               /\ PathOf[handle_to_file_name'[h]] \in resolved[h]
    <3>1. CASE h \in DOMAIN handle_to_file_name
      <4>1. handle_to_file_name'[h] = handle_to_file_name[h]
        BY <2>1, <3>1 DEF Insert
      <4> QED
        BY <3>1, <4>1
    <3>2. CASE h \notin DOMAIN handle_to_file_name
      <4>1. h = change_handle /\ handle_to_file_name'[h] = file_name
        BY <2>1, <3>2 DEF Insert
      <4> QED
        BY <2>2, <4>1
    <3> QED
      BY <3>1, <3>2
  <2> QED
    BY <1>8, <2>3 DEF Relink, callerVars
\* The other steps touch neither the map nor a name or handle on its way.
<1>9. ASSUME /\ UNCHANGED <<handle_to_file_name, resolved, cpc, cname, cwd>>
             /\ \/ UNCHANGED <<lpc, file_name, change_handle>>
                \/ lpc' \notin {"push", "erase", "relink"}
                \/ lpc = "push" /\ UNCHANGED <<file_name, change_handle>>
      PROVE  MatchInv'
  BY <1>9
<1>10. CASE \/ \E n \in Names : TrackMissingFile(n)
            \/ TryPopChangeInfo \/ StopListening \/ DataRace \/ Environment \/ UNCHANGED vars
  BY <1>9, <1>10 DEF TrackMissingFile, TryPopChangeInfo, StopListening, DataRace, Environment,
                     vars, mapVars, callerVars, listenerVars, historyVars
<1>11. CASE CheckStop \/ ReadEvents \/ EndOfBatch \/ ScanNamed \/ ScanFile
  BY <1>9, <1>11 DEF CheckStop, ReadEvents, EndOfBatch, ScanNamed, ScanFile,
                     mapVars, callerVars, listenerVars, historyVars
<1>12. CASE ScanFolder \/ ScanUnknown \/ ReAddMissing \/ Push
  BY <1>9, <1>12 DEF ScanFolder, ScanUnknown, ReAddMissing, Push,
                     mapVars, callerVars, listenerVars, historyVars
<1> QED
  BY <1>1, <1>2, <1>3, <1>4, <1>5, <1>6, <1>7, <1>8, <1>10, <1>11, <1>12
  DEF Next, Caller, CallerInside, Listener

\* A notification carries a name whose file the handle was given out for, for
\* any number of files, names, aliases and any interleaving of the threads.
THEOREM NamesMatch == Spec => []HandleNamesItsFile
<1>1. Init => MatchInv
  BY DEF Init, MatchInv, HandleNamesItsFile, EmptyMap
<1>2. TypeOK /\ MatchInv /\ [Next]_vars => MatchInv'
  BY MatchStep
<1>3. MatchInv => HandleNamesItsFile
  BY DEF MatchInv
<1> QED
  BY <1>1, <1>2, <1>3, TypeCorrect, PTL DEF Spec

-----------------------------------------------------------------------------
(* No handle of a deleted file is forgotten.                               *)

\* Steps that touch nothing the invariant is about.
LEMMA DeadFrame ==
  ASSUME DeadHandleInv,
         UNCHANGED <<handle_to_file_name, watch, last_wd, kernel_queue, dropped, storage,
                     pos, change_handle, late>>,
         raced => raced',
         \/ UNCHANGED lpc
         \/ lpc = "check" /\ lpc' \in {"read", "done"}
         \/ lpc = "push" /\ lpc' = "erase"
         \/ lpc = "scan" /\ lpc' = "readd" /\ pos < Len(storage) /\ ~Named(Current)
  PROVE  DeadHandleInv'
BY DEF DeadHandleInv, DeadHandleAccounted, IgnoredPending, OnlyGone, Paired, Occurs, Current

\* A watch is added under a descriptor that is live or was never given out.
LEMMA AddWatchDomain ==
  ASSUME TypeOK, NEW obj, NEW mask, NEW wd, AddWatch(obj, mask, wd)
  PROVE  /\ DOMAIN watch \subseteq DOMAIN watch' /\ wd \in DOMAIN watch'
         /\ DOMAIN watch' \subseteq DOMAIN watch \cup {last_wd + 1}
         /\ last_wd' \in Nat /\ last_wd' >= last_wd
         /\ UNCHANGED dropped
<1>1. last_wd \in Nat
  BY DEF TypeOK, InotifyTypeOK
<1> QED
  BY <1>1 DEF AddWatch, Insert

\* Adding a watch forgets no handle.
LEMMA AddWatchDead ==
  ASSUME TypeOK, DeadHandleInv,
         DOMAIN watch \subseteq DOMAIN watch',
         DOMAIN watch' \subseteq DOMAIN watch \cup {last_wd + 1},
         last_wd' \in Nat, last_wd' >= last_wd,
         UNCHANGED <<handle_to_file_name, kernel_queue, dropped, storage, pos, raced, late>>,
         \/ UNCHANGED <<lpc, change_handle>>
         \/ lpc = "readd" /\ lpc' = "push" /\ change_handle' \in DOMAIN watch'
  PROVE  DeadHandleInv'
<1>1. last_wd \in Nat
  BY DEF TypeOK, InotifyTypeOK
<1>2. ASSUME NEW q, OnlyGone(q) PROVE \A i \in 1 .. Len(q) :
        q[i].what = "ignored" => q[i].wd \in (1 .. last_wd') \ DOMAIN watch'
  BY <1>1, <1>2 DEF OnlyGone
<1>3. OnlyGone(kernel_queue)' /\ OnlyGone(storage)'
  BY <1>2 DEF OnlyGone, DeadHandleInv
<1>4. DeadHandleAccounted'
  BY DEF DeadHandleInv, DeadHandleAccounted, IgnoredPending, Occurs
<1> QED
  BY <1>3, <1>4 DEF DeadHandleInv, Paired, Occurs, Current

\* TrackFile and TrackFolder forget no handle: one that comes too late is late.
LEMMA DeadCaller ==
  ASSUME TypeOK, DeadHandleInv, Caller \/ CallerInside
  PROVE  DeadHandleInv'
<1>1. ASSUME NEW n \in Names, TrackMissingFile(n) PROVE DeadHandleInv'
  BY <1>1, DeadFrame DEF TrackMissingFile, inotifyVars, mapVars, listenerVars, historyVars
<1>2. ASSUME NEW n \in Names, NEW option \in FileOptions, TrackFile(n, option)
      PROVE  DeadHandleInv'
  <2>1. PICK wd \in 1 .. last_wd + 1 : AddWatch(inode[PathOf[n]], FilterMask(option), wd)
    BY <1>2 DEF TrackFile
  <2> QED
    BY <1>2, <2>1, AddWatchDomain, AddWatchDead DEF TrackFile, mapVars, listenerVars
<1>3. ASSUME NEW f \in Folders, NEW option \in FolderOptions, TrackFolder(f, option)
      PROVE  DeadHandleInv'
  <2>1. PICK wd \in 1 .. last_wd + 1 : AddWatch(f, FilterMask(option), wd)
    BY <1>3 DEF TrackFolder
  <2> QED
    BY <1>3, <2>1, AddWatchDomain, AddWatchDead DEF TrackFolder, mapVars, listenerVars, historyVars
<1>4. CASE TryPopChangeInfo
  BY <1>4, DeadFrame DEF TryPopChangeInfo, inotifyVars, mapVars, listenerVars, historyVars
<1>5. CASE StopListening
  BY <1>5, DeadFrame DEF StopListening, inotifyVars, mapVars, listenerVars, historyVars
<1>6. CASE InsertName
  BY <1>6, DeadFrame DEF InsertName, InsertRaced, inotifyVars, listenerVars
<1>7. CASE InsertFolder
  BY <1>7, DeadFrame DEF InsertFolder, InsertRaced, inotifyVars, listenerVars
<1>8. CASE InsertHandle
  <2>1. /\ DOMAIN handle_to_file_name' \subseteq DOMAIN handle_to_file_name \cup {cwd}
        /\ cwd \notin DOMAIN watch => cwd \in late'
        /\ late \subseteq late'
        /\ raced => raced'
    BY <1>8 DEF InsertHandle, InsertRaced, Insert
  <2>2. UNCHANGED <<watch, last_wd, kernel_queue, dropped, storage, pos, lpc, change_handle>>
    BY <1>8 DEF InsertHandle, inotifyVars, listenerVars
  <2>3. ASSUME NEW h \in DOMAIN handle_to_file_name' \ DOMAIN watch'
        PROVE  \/ h \in DOMAIN handle_to_file_name \ DOMAIN watch
               \/ h \in late'
    BY <2>1, <2>2
  <2>a. \A h : IgnoredPending(h)' = IgnoredPending(h)
    BY <2>2 DEF IgnoredPending, Occurs
  <2>4. ASSUME NEW h \in DOMAIN handle_to_file_name' \ DOMAIN watch'
        PROVE  raced' \/ h \in dropped' \/ h \in late' \/ IgnoredPending(h)'
    BY <2>1, <2>2, <2>3, <2>4, <2>a DEF DeadHandleInv, DeadHandleAccounted
  <2>b. Current' = Current
    BY <2>2 DEF Current
  <2>5. ASSUME lpc' = "relink", NEW h \in DOMAIN handle_to_file_name' \ DOMAIN watch',
               Current' = Ignored(h)
        PROVE  raced' \/ h \in late'
    BY <2>1, <2>2, <2>3, <2>5, <2>b DEF DeadHandleInv
  <2>6. OnlyGone(kernel_queue)' /\ OnlyGone(storage)'
    BY <2>2 DEF DeadHandleInv, OnlyGone
  <2>7. Paired(kernel_queue)' /\ Paired(storage)'
    BY <2>2 DEF DeadHandleInv, Paired
  <2> QED
    BY <2>2, <2>b, <2>4, <2>5, <2>6, <2>7 DEF DeadHandleInv, DeadHandleAccounted, Occurs
<1> QED
  BY <1>1, <1>2, <1>3, <1>4, <1>5, <1>6, <1>7, <1>8 DEF Caller, CallerInside

\* Whatever happens to the files: a watch that ends leaves an IN_IGNORED
\* behind, unless the queue is full.
LEMMA DeadEnvironment ==
  ASSUME TypeOK, DeadHandleInv, Environment
  PROVE  DeadHandleInv'
<1>e. /\ FilesChange
      /\ UNCHANGED <<handle_to_file_name, storage, pos, lpc, change_handle, raced, late>>
  BY DEF Environment, mapVars, listenerVars, historyVars
<1>t. InotifyTypeOK /\ kernel_queue \in Seq(Unit) /\ last_wd \in Nat
  BY DEF TypeOK, InotifyTypeOK
<1>1. CASE UNCHANGED <<watch, last_wd, dropped>> /\ Extends(kernel_queue, kernel_queue')
  <2>1. OnlyGone(kernel_queue)' /\ OnlyGone(storage)'
    BY <1>1, <1>e DEF DeadHandleInv, OnlyGone, Extends, Occurs
  <2>2. DeadHandleAccounted'
    BY <1>1, <1>e DEF DeadHandleInv, DeadHandleAccounted, IgnoredPending, Extends, Occurs
  <2>3. Paired(kernel_queue)' /\ Paired(storage)'
    BY <1>1, <1>e DEF DeadHandleInv, Extends, Paired
  <2>4. lpc' \in {"push", "erase", "relink"} =>
          \/ change_handle' \in DOMAIN watch' \cup dropped'
          \/ Occurs(Ignored(change_handle), kernel_queue)'
    BY <1>1, <1>e DEF DeadHandleInv, Extends, Occurs
  <2> QED
    BY <1>1, <1>e, <2>1, <2>2, <2>3, <2>4 DEF DeadHandleInv, Current
<1>2. ASSUME NEW w \in DOMAIN watch, Release(w) PROVE DeadHandleInv'
  <2>1. /\ DOMAIN watch' = DOMAIN watch \ {w}
        /\ kernel_queue' = Post(kernel_queue, Ignored(w))
        /\ w \in 1 .. last_wd /\ UNCHANGED last_wd
        /\ dropped \subseteq dropped' /\ (Full(kernel_queue) => w \in dropped')
    BY <1>2, <1>t DEF Release, Erase, InotifyTypeOK, IsMap
  <2>2. Ignored(w) \in Unit /\ ~Named(Ignored(w))
    BY <2>1, EventTypes
  <2>3. kernel_queue' \in Seq(Unit)
    BY <1>t, <2>1, <2>2, PostType
  <2>4. w \in dropped' \/ Occurs(Ignored(w), kernel_queue')
    BY <1>t, <2>1, <2>2, PostAdds
  <2>5. \A u : Occurs(u, kernel_queue) => Occurs(u, kernel_queue')
    BY <1>t, <2>1, <2>2, PostOccurs
  <2>6. ASSUME NEW i \in 1 .. Len(kernel_queue'), kernel_queue'[i].what = "ignored"
        PROVE  kernel_queue'[i].wd \in (1 .. last_wd) \ DOMAIN watch'
    <3>1. Occurs(kernel_queue'[i], kernel_queue')
      BY DEF Occurs
    <3>2. Overflow.what # "ignored" /\ NameUnit.what # "ignored" /\ Ignored(w).wd = w
      BY DEF Overflow, NameUnit, Event, Ignored
    <3>3. Occurs(kernel_queue'[i], kernel_queue) \/ kernel_queue'[i] = Ignored(w)
      BY <1>t, <2>1, <2>2, <2>6, <3>1, <3>2, PostOnly
    <3> QED
      BY <2>1, <2>6, <3>2, <3>3 DEF DeadHandleInv, OnlyGone, Occurs
  <2>7. OnlyGone(kernel_queue)' /\ OnlyGone(storage)'
    BY <1>e, <2>1, <2>6 DEF DeadHandleInv, OnlyGone
  <2>8. Paired(kernel_queue)' /\ Paired(storage)'
    BY <1>t, <1>e, <2>1, <2>2, PostPaired DEF DeadHandleInv
  <2>9. DeadHandleAccounted'
    BY <1>e, <2>1, <2>4, <2>5 DEF DeadHandleInv, DeadHandleAccounted, IgnoredPending
  <2>10. lpc' \in {"push", "erase", "relink"} =>
           \/ change_handle' \in DOMAIN watch' \cup dropped'
           \/ Occurs(Ignored(change_handle), kernel_queue)'
    BY <1>e, <2>1, <2>4, <2>5 DEF DeadHandleInv
  <2>11. lpc' = "relink" =>
           \A h \in DOMAIN handle_to_file_name' \ DOMAIN watch' :
             Current' = Ignored(h) => raced' \/ h \in late'
    <3> SUFFICES ASSUME lpc = "relink", Current = Ignored(w) PROVE FALSE
      BY <1>e, <2>1 DEF DeadHandleInv, Current
    <3>1. /\ pos + 1 \in 1 .. Len(storage)
          /\ storage[pos + 1].what = "ignored" /\ storage[pos + 1].wd = w
      BY DEF DeadHandleInv, TypeOK, Current, Ignored, Event
    <3> QED
      BY <3>1 DEF DeadHandleInv, OnlyGone
  <2> QED
    BY <1>e, <2>7, <2>8, <2>9, <2>10, <2>11 DEF DeadHandleInv, Current
<1> QED
  BY <1>1, <1>2, <1>e, <1>t, FilesChangeExtends

\* ListenForChanges lets go of an IN_IGNORED only once its handle is erased.
LEMMA DeadListener ==
  ASSUME TypeOK, DeadHandleInv, Listener
  PROVE  DeadHandleInv'
<1> DEFINE Still == UNCHANGED <<watch, last_wd, kernel_queue, dropped, late>>
<1>t. /\ kernel_queue \in Seq(Unit) /\ storage \in Seq(Unit) /\ pos \in Nat
      /\ Len(storage) \in Nat
  BY DEF TypeOK, InotifyTypeOK
<1>n. NextPos(Current) = IF Named(Current) THEN 2 ELSE 1
  BY DEF NextPos
<1>i. \A h : Ignored(h).what = "ignored" /\ Ignored(h).wd = h /\ ~Named(Ignored(h))
             /\ Ignored(h) # NameUnit
  BY DEF Ignored, Event, Named, NameUnit
<1>1. CASE CheckStop
  BY <1>1, DeadFrame DEF CheckStop, inotifyVars, mapVars, historyVars
<1>2. CASE ReadEvents
  <2> DEFINE q == kernel_queue
             k == Fitting(q)
  <2>1. /\ q # <<>> /\ storage = <<>> /\ lpc' = "scan" /\ pos' = 0
        /\ storage' = SubSeq(q, 1, k) /\ kernel_queue' = SubSeq(q, k + 1, Len(q))
        /\ UNCHANGED <<handle_to_file_name, watch, last_wd, dropped, raced, late>>
    BY <1>2 DEF ReadEvents, DeadHandleInv, mapVars, historyVars
  <2>2. /\ k \in 1 .. Len(q)
        /\ Len(storage') = k /\ Len(kernel_queue') = Len(q) - k
        /\ \A i \in 1 .. k : storage'[i] = q[i]
        /\ \A i \in 1 .. Len(q) - k : kernel_queue'[i] = q[k + i]
    BY <1>t, <2>1, ReadType
  <2>3. ASSUME NEW u, Occurs(u, q)
        PROVE  \/ Occurs(u, kernel_queue')
               \/ \E i \in 1 .. Len(storage') : i > 0 /\ storage'[i] = u
    <3>1. PICK i \in 1 .. Len(q) : q[i] = u
      BY <2>3 DEF Occurs
    <3>2. CASE i <= k
      BY <2>2, <3>1, <3>2
    <3>3. CASE i > k
      <4>1. i - k \in 1 .. Len(q) - k /\ q[k + (i - k)] = u
        BY <1>t, <2>2, <3>1, <3>3
      <4> QED
        BY <2>2, <4>1 DEF Occurs
    <3> QED
      BY <1>t, <2>2, <3>2, <3>3
  <2>4. ASSUME NEW h \in DOMAIN handle_to_file_name' \ DOMAIN watch'
        PROVE  raced' \/ h \in dropped' \/ h \in late' \/ IgnoredPending(h)'
    <3>1. raced \/ h \in dropped \/ h \in late \/ IgnoredPending(h)
      BY <2>1, <2>4 DEF DeadHandleInv, DeadHandleAccounted
    <3>2. IgnoredPending(h) => Occurs(Ignored(h), q)
      BY <2>1 DEF IgnoredPending
    <3> QED
      BY <2>1, <2>3, <3>1, <3>2 DEF IgnoredPending
  <2>o. \A j \in 1 .. Len(q) :
          q[j].what = "ignored" => q[j].wd \in (1 .. last_wd') \ DOMAIN watch'
    BY <2>1 DEF DeadHandleInv, OnlyGone
  <2>p. \A i \in 1 .. Len(q) - k : k + i \in 1 .. Len(q)
    BY <1>t, <2>2
  <2>5. OnlyGone(kernel_queue)'
    BY <2>2, <2>o, <2>p DEF OnlyGone
  <2>r. OnlyGone(storage)'
    <3>1. \A i \in 1 .. Len(storage') : i \in 1 .. Len(q) /\ storage'[i] = q[i]
      BY <1>t, <2>2
    <3> QED
      BY <2>o, <3>1 DEF OnlyGone
  <2>6. Paired(storage)'
    <3> SUFFICES ASSUME NEW i \in 1 .. k, Named(q[i])
                 PROVE  i + 1 <= k /\ q[i + 1] = NameUnit
      BY <1>t, <2>2 DEF Paired
    <3>1. i + 1 <= Len(q) /\ q[i + 1] = NameUnit
      BY <1>t, <2>2 DEF DeadHandleInv, Paired
    <3>2. ~Named(q[i + 1])
      BY <3>1, EventTypes
    <3> QED
      BY <1>t, <2>2, <3>1, <3>2 DEF Fitting
  <2>7. Paired(kernel_queue)'
    <3> SUFFICES ASSUME NEW i \in 1 .. Len(kernel_queue'), Named(kernel_queue'[i])
                 PROVE  i + 1 <= Len(kernel_queue') /\ kernel_queue'[i + 1] = NameUnit
      BY DEF Paired
    <3>1. k + i \in 1 .. Len(q) /\ kernel_queue'[i] = q[k + i]
      BY <2>2, <2>p
    <3>2. k + i + 1 <= Len(q) /\ q[k + i + 1] = NameUnit
      BY <3>1 DEF DeadHandleInv, Paired
    <3>3. i + 1 \in 1 .. Len(q) - k /\ k + (i + 1) = k + i + 1
      BY <1>t, <2>2, <3>2
    <3> QED
      BY <2>2, <3>2, <3>3
  <2> QED
    BY <2>1, <2>4, <2>5, <2>r, <2>6, <2>7 DEF DeadHandleInv, DeadHandleAccounted
<1>3. CASE EndOfBatch
  <2>1. ~ \E i \in 1 .. Len(storage) : i > pos
    BY <1>3, <1>t DEF EndOfBatch
  <2> QED
    BY <1>3, <2>1 DEF EndOfBatch, DeadHandleInv, DeadHandleAccounted, IgnoredPending,
       OnlyGone, Paired, Occurs, inotifyVars, mapVars, historyVars
\* The listener moves on: nothing pending is skipped.
<1>m. ASSUME Still, UNCHANGED <<storage, handle_to_file_name>>, lpc' = "scan",
             pos' \in Nat, raced => raced',
             \A h \in DOMAIN handle_to_file_name \ DOMAIN watch :
               \A i \in 1 .. Len(storage) :
                 i > pos /\ storage[i] = Ignored(h) => i > pos' \/ raced'
      PROVE  DeadHandleInv'
  BY <1>m DEF DeadHandleInv, DeadHandleAccounted, IgnoredPending, OnlyGone, Paired, Occurs
<1>4. CASE ScanNamed
  <2>1. pos' = 2 /\ pos + 1 \in 1 .. Len(storage) /\ Named(storage[pos + 1])
    BY <1>4, <1>n, <1>t DEF ScanNamed, InBatch, Current
  <2>2. pos + 2 <= Len(storage) /\ storage[pos + 2] = NameUnit
    BY <1>t, <2>1 DEF DeadHandleInv, Paired
  <2>3. ASSUME NEW h, NEW i \in 1 .. Len(storage), i > pos, storage[i] = Ignored(h)
        PROVE  i > pos'
    BY <1>t, <1>i, <2>1, <2>2, <2>3
  <2> QED
    BY <1>4, <1>m, <2>1, <2>3 DEF ScanNamed, InBatch, inotifyVars, mapVars, historyVars
<1>5. CASE ScanFile
  BY <1>5, DeadFrame DEF ScanFile, InBatch, inotifyVars, mapVars, historyVars
\* An event nobody is tracked under is passed over.
<1>p. ASSUME NEW h \in DOMAIN handle_to_file_name, Current.wd # h, pos' = 1,
             NEW i \in 1 .. Len(storage), i > pos, storage[i] = Ignored(h)
      PROVE  i > pos'
  BY <1>p, <1>t, <1>i DEF Current
<1>6. CASE ScanFolder
  <2>1. pos' = 1 /\ Current.wd \notin DOMAIN handle_to_file_name
    BY <1>6, <1>n DEF ScanFolder
  <2> QED
    BY <1>6, <1>m, <1>p, <2>1 DEF ScanFolder, InBatch, inotifyVars, mapVars, historyVars
<1>7. CASE ScanUnknown
  <2>1. pos' = 1 /\ (Current.wd \notin DOMAIN handle_to_file_name \/ raced')
        /\ (raced => raced')
    BY <1>7, <1>n DEF ScanUnknown
  <2> QED
    BY <1>7, <1>m, <1>p, <2>1 DEF ScanUnknown, InBatch, inotifyVars, mapVars
<1>8. CASE ReAddMissing
  BY <1>8, DeadFrame DEF ReAddMissing, inotifyVars, mapVars, listenerVars, historyVars
<1>9. CASE ReAdd
  <2>1. PICK wd \in 1 .. last_wd + 1 :
          AddWatch(inode[PathOf[file_name]], {"modify"}, wd) /\ change_handle' = wd
    BY <1>9 DEF ReAdd
  <2> QED
    BY <1>9, <2>1, AddWatchDomain, AddWatchDead DEF ReAdd, mapVars
<1>10. CASE Push
  BY <1>10, DeadFrame DEF Push, inotifyVars, mapVars, historyVars
<1>11. CASE EraseHandle
  <2>1. /\ lpc = "erase" /\ lpc' = "relink"
        /\ DOMAIN handle_to_file_name' = DOMAIN handle_to_file_name \ {Current.wd}
        /\ UNCHANGED <<watch, last_wd, kernel_queue, dropped, storage, pos, change_handle,
                       raced, late>>
    BY <1>11 DEF EraseHandle, Erase, inotifyVars, historyVars
  <2>2. DeadHandleAccounted'
    BY <2>1 DEF DeadHandleInv, DeadHandleAccounted, IgnoredPending, Occurs
  <2>3. \A h \in DOMAIN handle_to_file_name' : Current' # Ignored(h)
    BY <1>i, <2>1 DEF Current
  <2> QED
    BY <2>1, <2>2, <2>3 DEF DeadHandleInv, OnlyGone, Paired, Occurs, Current
<1>12. CASE Relink
  <2>1. /\ lpc = "relink" /\ lpc' = "scan" /\ pos' = 1
        /\ DOMAIN handle_to_file_name' \subseteq DOMAIN handle_to_file_name \cup {change_handle}
        /\ raced => raced'
        /\ UNCHANGED <<watch, last_wd, kernel_queue, dropped, storage, late>>
    BY <1>12, <1>n DEF Relink, Insert, inotifyVars, DeadHandleInv
  <2>2. ASSUME NEW h \in DOMAIN handle_to_file_name' \ DOMAIN watch'
        PROVE  raced' \/ h \in dropped' \/ h \in late' \/ IgnoredPending(h)'
    <3>1. CASE h = change_handle
      BY <2>1, <2>2, <3>1 DEF DeadHandleInv, IgnoredPending, Occurs
    <3>2. CASE h # change_handle
      <4>1. raced \/ h \in dropped \/ h \in late \/ IgnoredPending(h)
        BY <2>1, <2>2, <3>2 DEF DeadHandleInv, DeadHandleAccounted
      <4>2. ASSUME NEW i \in 1 .. Len(storage), i > pos, storage[i] = Ignored(h)
            PROVE  i > pos' \/ raced' \/ h \in late'
        <5>1. CASE i > 1
          BY <2>1, <5>1
        <5>2. CASE i = 1
          <6>1. Current = Ignored(h)
            BY <1>t, <4>2, <5>2 DEF Current
          <6> QED
            BY <2>1, <2>2, <3>2, <6>1 DEF DeadHandleInv
        <5> QED
          BY <5>1, <5>2
      <4> QED
        BY <2>1, <4>1, <4>2 DEF IgnoredPending, Occurs
    <3> QED
      BY <3>1, <3>2
  <2>3. DeadHandleAccounted'
    BY <2>2 DEF DeadHandleAccounted
  <2> QED
    BY <2>1, <2>3 DEF DeadHandleInv, OnlyGone, Paired
<1> QED
  BY <1>1, <1>2, <1>3, <1>4, <1>5, <1>6, <1>7, <1>8, <1>9, <1>10, <1>11, <1>12 DEF Listener

\* The invariant behind the accounting of dead handles holds: IN_IGNORED only
\* names watches that are gone, and the handle in the listener's locals is
\* watched, or its IN_IGNORED is still to come (file_track_linux.cpp:136-154).
THEOREM DeadHandlesTraced == Spec => []DeadHandleInv
<1>1. Init => DeadHandleInv
  BY DEF Init, InotifyInit, DeadHandleInv, DeadHandleAccounted, EmptyMap, OnlyGone, Paired
<1>2. TypeOK /\ DeadHandleInv /\ [Next]_vars => DeadHandleInv'
  <2> SUFFICES ASSUME TypeOK, DeadHandleInv, [Next]_vars PROVE DeadHandleInv'
    OBVIOUS
  <2>1. CASE DataRace
    BY <2>1, DeadFrame DEF DataRace, inotifyVars, mapVars, listenerVars, historyVars
  <2>2. CASE UNCHANGED vars
    BY <2>2, DeadFrame DEF vars, inotifyVars, mapVars, listenerVars, historyVars
  <2> QED
    BY <2>1, <2>2, DeadCaller, DeadListener, DeadEnvironment DEF Next
<1> QED
  BY <1>1, <1>2, TypeCorrect, PTL DEF Spec

\* However the files are deleted and replaced, and however the threads
\* interleave, a handle whose watch is gone is either about to be noticed, or
\* lost in one of the three ways DeadHandleAccounted names.
THEOREM DeadHandlesNoticed == Spec => []DeadHandleAccounted
<1>1. DeadHandleInv => DeadHandleAccounted
  BY DEF DeadHandleInv
<1> QED
  BY <1>1, DeadHandlesTraced, PTL

-----------------------------------------------------------------------------
(* The tracker implements the feed.                                        *)

\* The names registered only ever grow in number, and a report is always about
\* one of them, until a race has corrupted the maps.
LEMMA FeedStep ==
  ASSUME TypeOK, FeedInv, [Next]_vars
  PROVE  /\ FeedInv'
         /\ Feed!FeedNext \/ raced' \/ UNCHANGED Feed!feedVars
<1> DEFINE Step == Feed!FeedNext \/ raced' \/ UNCHANGED Feed!feedVars
           Goal == FeedInv' /\ Step
\* Steps that change neither the maps nor the queue, nor end the listener.
<1>q. ASSUME UNCHANGED <<mapVars, change_info, raced, cpc, cname, file_name>>,
             \/ UNCHANGED lpc
             \/ lpc' \notin {"readd", "push", "erase", "relink"}
             \/ lpc \in {"readd", "push"} /\ lpc' \in {"push", "erase"}
      PROVE  FeedInv'
  BY <1>q DEF FeedInv, mapVars
<1>s. ASSUME UNCHANGED <<name_to_file_handle, name_to_dir_handle, change_info, raced, status>>,
             lpc' = "done" <=> lpc = "done"
      PROVE  Step
  BY <1>s DEF Feed!feedVars
<1>e. ASSUME UNCHANGED <<name_to_file_handle, name_to_dir_handle, change_info, raced>>,
             status' # "running" \/ lpc' = "done"
      PROVE  Step
  BY <1>e DEF Feed!FeedNext, Feed!End
<1>1. ASSUME NEW n \in Names, TrackMissingFile(n) PROVE Goal
  BY <1>1, <1>q, <1>e DEF TrackMissingFile, mapVars, callerVars, listenerVars, historyVars
<1>2. ASSUME NEW n \in Names, NEW option \in FileOptions, TrackFile(n, option) PROVE Goal
  <2>1. FeedInv'
    BY <1>2 DEF TrackFile, FeedInv, mapVars, listenerVars
  <2> QED
    BY <1>2, <1>s, <2>1 DEF TrackFile, mapVars, listenerVars
<1>3. ASSUME NEW f \in Folders, NEW option \in FolderOptions, TrackFolder(f, option) PROVE Goal
  <2>1. FeedInv'
    BY <1>3 DEF TrackFolder, FeedInv, mapVars, listenerVars, historyVars
  <2> QED
    BY <1>3, <1>s, <2>1 DEF TrackFolder, mapVars, listenerVars, historyVars
<1>4. CASE TryPopChangeInfo
  <2>1. FeedInv'
    BY <1>4 DEF TryPopChangeInfo, FeedInv, mapVars, callerVars, listenerVars, historyVars
  <2>2. Feed!Take
    BY <1>4 DEF TryPopChangeInfo, Feed!Take, mapVars, listenerVars, historyVars
  <2> QED
    BY <2>1, <2>2 DEF Feed!FeedNext
<1>5. CASE StopListening
  BY <1>5, <1>q, <1>s DEF StopListening, mapVars, callerVars, listenerVars, historyVars
<1>6. CASE InsertName
  <2>1. \/ raced'
        \/ /\ UNCHANGED raced
           /\ DOMAIN name_to_file_handle' = DOMAIN name_to_file_handle \cup {cname}
    BY <1>6 DEF InsertName, InsertRaced, Insert
  <2>2. FeedInv'
    BY <1>6, <2>1 DEF InsertName, FeedInv, listenerVars
  <2>3. cname \in Names \cup Folders
    BY <1>6 DEF InsertName, TypeOK
  <2>4. raced' \/ Feed!Track(cname)
    BY <1>6, <2>1 DEF InsertName, Feed!Track, listenerVars
  <2> QED
    BY <2>2, <2>3, <2>4 DEF Feed!FeedNext
<1>7. CASE InsertHandle
  <2>1. raced => raced'
    BY <1>7 DEF InsertHandle, InsertRaced
  <2>2. FeedInv'
    <3>1. CASE raced'
      BY <3>1 DEF FeedInv
    <3>2. CASE ~raced'
      <4>1. handle_to_file_name' \in {Insert(handle_to_file_name, cwd, cname), handle_to_file_name}
        BY <1>7 DEF InsertHandle, InsertRaced
      <4>2. ASSUME NEW h \in DOMAIN handle_to_file_name'
            PROVE  handle_to_file_name'[h] \in DOMAIN name_to_file_handle
        BY <1>7, <2>1, <3>2, <4>1 DEF InsertHandle, FeedInv, Insert
      <4> QED
        BY <1>7, <2>1, <3>2, <4>2 DEF InsertHandle, CallerReturns, FeedInv, listenerVars
    <3> QED
      BY <3>1, <3>2
  <2>3. raced' \/ UNCHANGED raced
    BY <1>7 DEF InsertHandle, InsertRaced
  <2> QED
    BY <1>7, <1>s, <2>2, <2>3 DEF InsertHandle, listenerVars
<1>8. CASE InsertFolder
  <2>1. \/ raced'
        \/ /\ UNCHANGED raced
           /\ tracked_directory' = Insert(tracked_directory, cwd, cname)
    BY <1>8 DEF InsertFolder, InsertRaced
  <2>2. DOMAIN name_to_dir_handle' = DOMAIN name_to_dir_handle \cup {cname}
    BY <1>8 DEF InsertFolder, Insert
  <2>3. FeedInv'
    BY <1>8, <2>1, <2>2 DEF InsertFolder, CallerReturns, FeedInv, Insert, listenerVars
  <2>4. cname \in Names \cup Folders
    BY <1>8 DEF InsertFolder, TypeOK
  <2>5. raced' \/ Feed!Track(cname)
    BY <1>8, <2>1, <2>2 DEF InsertFolder, Feed!Track, listenerVars
  <2> QED
    BY <2>3, <2>4, <2>5 DEF Feed!FeedNext
<1>9. CASE CheckStop
  BY <1>9, <1>q, <1>s, <1>e DEF CheckStop, mapVars, callerVars, historyVars
<1>10. CASE ReadEvents
  BY <1>10, <1>q, <1>s, <1>e DEF ReadEvents, mapVars, callerVars, historyVars
<1>11. CASE EndOfBatch \/ ScanNamed
  BY <1>11, <1>q, <1>s DEF EndOfBatch, ScanNamed, InBatch, mapVars, callerVars, historyVars
<1>12. CASE ScanFile
  <2>1. FeedInv'
    BY <1>12 DEF ScanFile, FeedInv, mapVars, callerVars, historyVars
  <2> QED
    BY <1>12, <1>s, <2>1 DEF ScanFile, InBatch, mapVars, historyVars
<1>13. CASE ScanFolder
  <2>1. FeedInv'
    BY <1>13 DEF ScanFolder, InBatch, FeedInv, mapVars, callerVars, historyVars
  <2>2. tracked_directory[Current.wd] \in Names \cup Folders
    BY <1>13 DEF ScanFolder, TypeOK, IsMap
  <2>3. raced' \/ Feed!Report(tracked_directory[Current.wd])
    BY <1>13 DEF ScanFolder, InBatch, FeedInv, Feed!Report, mapVars, historyVars
  <2> QED
    BY <2>1, <2>2, <2>3 DEF Feed!FeedNext
<1>14. CASE ScanUnknown
  <2>1. raced' \/ UNCHANGED raced
    BY <1>14 DEF ScanUnknown
  <2>2. FeedInv'
    BY <1>14, <2>1 DEF ScanUnknown, InBatch, FeedInv, mapVars, callerVars
  <2> QED
    BY <1>14, <1>s, <2>1, <2>2 DEF ScanUnknown, InBatch, mapVars
<1>15. CASE ReAddMissing
  BY <1>15, <1>q, <1>e DEF ReAddMissing, mapVars, callerVars, listenerVars, historyVars
<1>16. CASE ReAdd
  BY <1>16, <1>q, <1>s DEF ReAdd, mapVars, callerVars
<1>17. CASE Push
  <2>1. FeedInv'
    BY <1>17 DEF Push, FeedInv, mapVars, callerVars, historyVars
  <2>2. file_name \in Names \cup Folders
    BY DEF TypeOK
  <2>3. raced' \/ Feed!Report(file_name)
    BY <1>17 DEF Push, FeedInv, Feed!Report, mapVars, historyVars
  <2> QED
    BY <2>1, <2>2, <2>3 DEF Feed!FeedNext
<1>18. CASE EraseHandle
  <2>1. FeedInv'
    BY <1>18 DEF EraseHandle, Erase, FeedInv, callerVars, historyVars
  <2> QED
    BY <1>18, <1>s, <2>1 DEF EraseHandle, historyVars
<1>19. CASE Relink
  <2>1. CASE raced'
    BY <2>1 DEF FeedInv
  <2>2. CASE ~raced'
    <3>1. /\ name_to_file_handle' = Insert(name_to_file_handle, file_name, change_handle)
          /\ handle_to_file_name' = Insert(handle_to_file_name, change_handle, file_name)
          /\ UNCHANGED raced
      BY <1>19, <2>2 DEF Relink
    <3>2. file_name \in DOMAIN name_to_file_handle
      BY <1>19, <2>2, <3>1 DEF Relink, FeedInv
    <3>3. name_to_file_handle' = name_to_file_handle
      BY <3>1, <3>2 DEF Insert
    <3>4. ASSUME NEW h \in DOMAIN handle_to_file_name'
          PROVE  handle_to_file_name'[h] \in DOMAIN name_to_file_handle
      BY <2>2, <3>1, <3>2 DEF FeedInv, Insert
    <3>5. FeedInv'
      BY <1>19, <2>2, <3>1, <3>3, <3>4 DEF Relink, FeedInv, callerVars
    <3> QED
      BY <1>19, <1>s, <3>1, <3>3, <3>5 DEF Relink
  <2> QED
    BY <2>1, <2>2
<1>20. CASE DataRace
  BY <1>20, <1>q, <1>e DEF DataRace, mapVars, callerVars, listenerVars, historyVars
<1>21. CASE Environment
  BY <1>21, <1>q, <1>s DEF Environment, mapVars, callerVars, listenerVars, historyVars
<1>22. CASE UNCHANGED vars
  BY <1>22, <1>q, <1>s DEF vars, mapVars, callerVars, listenerVars, historyVars
<1> QED
  BY <1>1, <1>2, <1>3, <1>4, <1>5, <1>6, <1>7, <1>8, <1>9, <1>10, <1>11, <1>12, <1>13, <1>14,
     <1>15, <1>16, <1>17, <1>18, <1>19, <1>20, <1>21, <1>22
  DEF Next, Caller, CallerInside, Listener

\* Every name a handle, a local variable or the queue can report has been
\* registered first, although the two inserts of TrackFile are two steps
\* (file_track_linux.cpp:93-94, 147-154).
THEOREM ReportsAreRegistered == Spec => []FeedInv
<1>1. Init => FeedInv
  BY DEF Init, FeedInv, EmptyMap
<1>2. TypeOK /\ FeedInv /\ [Next]_vars => FeedInv'
  BY FeedStep
<1> QED
  BY <1>1, <1>2, TypeCorrect, PTL DEF Spec

\* The threads, maps and queue of FileTracker implement the abstract feed.
THEOREM TrackerImplementsFeed == Spec => ImplementsChangeFeed
<1>1. Init => Feed!FeedInit
  BY DEF Init, EmptyMap, Feed!FeedInit
<1>2. TypeOK /\ FeedInv /\ [Next]_vars => [Feed!FeedNext \/ raced']_(Feed!feedVars)
  BY FeedStep
<1> QED
  BY <1>1, <1>2, TypeCorrect, ReportsAreRegistered, PTL
  DEF Spec, ImplementsChangeFeed, Feed!FeedSpec
=============================================================================
