-------------------------- MODULE FileCacheProofs ---------------------------
(* The cache stays in order, so removal takes what it was asked for, and   *)
(* what it says is on the disk is there.                                   *)
EXTENDS FileCache, CommonLemmas

\* Where the elements are after a removal.
LEMMA RemoveAtElements ==
  ASSUME NEW S, NEW s \in Seq(S), NEW i \in 1 .. Len(s)
  PROVE  /\ RemoveAt(s, i) \in Seq(S)
         /\ Len(RemoveAt(s, i)) = Len(s) - 1
         /\ \A k \in 1 .. Len(s) - 1 : RemoveAt(s, i)[k] = IF k < i THEN s[k] ELSE s[k + 1]
<1> DEFINE a == SubSeq(s, 1, i - 1)
           b == SubSeq(s, i + 1, Len(s))
<1>1. a \in Seq(S) /\ Len(a) = i - 1 /\ \A k \in 1 .. i - 1 : a[k] = s[k]
  OBVIOUS
<1>2. b \in Seq(S) /\ Len(b) = Len(s) - i
      /\ \A k \in 1 .. Len(s) - i : b[k] = s[i + k]
  OBVIOUS
<1> HIDE DEF a, b
<1>3. /\ a \o b \in Seq(S) /\ Len(a \o b) = Len(a) + Len(b)
      /\ \A k \in 1 .. Len(a) + Len(b) :
           (a \o b)[k] = IF k <= Len(a) THEN a[k] ELSE b[k - Len(a)]
  BY <1>1, <1>2, ConcatProperties, Zenon
<1>4. i <= Len(s) /\ i \in Nat /\ Len(s) \in Nat
  OBVIOUS
<1>5. Len(a) + Len(b) = Len(s) - 1
  BY <1>1, <1>2, <1>4
<1>6. ASSUME NEW k \in 1 .. Len(s) - 1
      PROVE  (a \o b)[k] = IF k < i THEN s[k] ELSE s[k + 1]
  <2>1. CASE k < i
    <3>1. k \in 1 .. Len(a) + Len(b) /\ k <= Len(a) /\ k \in 1 .. i - 1
      BY <1>1, <1>4, <1>5, <2>1
    <3>2. (a \o b)[k] = a[k] /\ a[k] = s[k]
      BY <1>1, <1>3, <3>1, Zenon
    <3> QED
      BY <1>4, <2>1, <3>2
  <2>2. CASE k >= i
    <3>1. (a \o b)[k] = b[k - (i - 1)] /\ k - (i - 1) \in 1 .. Len(s) - i
      BY <1>1, <1>3, <1>4, <1>5, <2>2
    <3>2. b[k - (i - 1)] = s[i + (k - (i - 1))]
      BY <1>2, <3>1
    <3> QED
      BY <1>4, <2>2, <3>1, <3>2
  <2>3. k < i \/ k >= i
    BY <1>4
  <2> QED
    BY <2>1, <2>2, <2>3, Zenon
<1> QED
  BY <1>3, <1>5, <1>6 DEF RemoveAt, a, b

-----------------------------------------------------------------------------
CacheInv == OfflineCache \in Seq(Entry) /\ Sorted /\ OnDiskHasFile

\* What the entries are, and that their names are ordered.
LEMMA EntryFields ==
  ASSUME OfflineCache \in Seq(Entry), NEW k \in DOMAIN OfflineCache
  PROVE  OfflineCache[k] \in Entry /\ OfflineCache[k].name \in Nat
<1>1. OfflineCache[k] \in Entry
  OBVIOUS
<1> QED
  BY <1>1, FileCacheAssumption DEF Entry

\* Behind the equal names is a place that keeps the order.
LEMMA InsertKeepsOrder ==
  ASSUME OfflineCache \in Seq(Entry), Sorted, NEW e \in Entry, Insert(e)
  PROVE  /\ OfflineCache' \in Seq(Entry)
         /\ Sorted'
         /\ \A k \in DOMAIN OfflineCache' :
              \/ OfflineCache'[k] = e
              \/ \E j \in DOMAIN OfflineCache : OfflineCache'[k] = OfflineCache[j]
<1> DEFINE s == OfflineCache
           N == Len(s)
<1>1. PICK i \in UpperBound(e.name) : s' = InsertAt(s, i, e)
  BY DEF Insert
<1>2. /\ i \in 1 .. N + 1 /\ N \in Nat
      /\ \A j \in 1 .. i - 1 : s[j].name <= e.name
      /\ \A j \in i .. N : s[j].name > e.name
  BY <1>1 DEF UpperBound
<1>3. /\ s' \in Seq(Entry) /\ Len(s') = N + 1
      /\ \A k \in 1 .. N + 1 :
           s'[k] = IF k < i THEN s[k] ELSE IF k = i THEN e ELSE s[k - 1]
  <2>1. InsertAt(s, i, e) = s' /\ s \in Seq(Entry) /\ e \in Entry /\ i \in 1 .. Len(s) + 1
    BY <1>1, <1>2
  <2>2. ASSUME NEW u \in Seq(Entry), NEW x \in Entry, NEW j \in 1 .. Len(u) + 1
        PROVE  /\ InsertAt(u, j, x) \in Seq(Entry)
               /\ Len(InsertAt(u, j, x)) = Len(u) + 1
               /\ \A k \in 1 .. Len(u) + 1 :
                    InsertAt(u, j, x)[k] =
                      IF k < j THEN u[k] ELSE IF k = j THEN x ELSE u[k - 1]
    BY InsertAtElements
  <2>3. /\ InsertAt(s, i, e) \in Seq(Entry)
        /\ Len(InsertAt(s, i, e)) = Len(s) + 1
        /\ \A k \in 1 .. Len(s) + 1 :
             InsertAt(s, i, e)[k] =
               IF k < i THEN s[k] ELSE IF k = i THEN e ELSE s[k - 1]
    BY <2>1, <2>2, Zenon
  <2> QED
    BY <2>1, <2>3
<1>4. e.name \in Nat /\ \A k \in 1 .. N : s[k].name \in Nat
  <2>1. e.name \in Nat
    BY FileCacheAssumption DEF Entry
  <2> QED
    BY <2>1, EntryFields
<1>5. ASSUME NEW p \in 1 .. N + 1, NEW q \in 1 .. N + 1, p <= q
      PROVE  s'[p].name <= s'[q].name
  <2>1. \A j, k \in 1 .. N : j <= k => s[j].name <= s[k].name
    BY <1>2 DEF Sorted
  <2>2. CASE q < i
    <3>1. s'[p] = s[p] /\ s'[q] = s[q] /\ p \in 1 .. N /\ q \in 1 .. N
      BY <1>2, <1>3, <1>5, <2>2
    <3> QED
      BY <1>5, <2>1, <3>1
  <2>3. CASE q = i
    <3>1. s'[q] = e
      BY <1>2, <1>3, <2>3
    <3>2. CASE p = i
      BY <1>4, <2>3, <3>1, <3>2
    <3>3. CASE p < i
      <4>1. s'[p] = s[p] /\ p \in 1 .. i - 1
        BY <1>2, <1>3, <3>3
      <4> QED
        BY <1>2, <3>1, <4>1
    <3> QED
      BY <1>2, <1>5, <2>3, <3>2, <3>3
  <2>4. CASE q > i /\ p < i
    <3>1. s'[p] = s[p] /\ s'[q] = s[q - 1] /\ p \in 1 .. N /\ q - 1 \in 1 .. N /\ p <= q - 1
      BY <1>2, <1>3, <2>4
    <3> QED
      BY <2>1, <3>1
  <2>5. CASE q > i /\ p = i
    <3>1. s'[p] = e /\ s'[q] = s[q - 1] /\ q - 1 \in i .. N
      BY <1>2, <1>3, <2>5
    <3>2. s[q - 1].name > e.name /\ s[q - 1].name \in Nat /\ e.name \in Nat
      BY <1>2, <1>4, <3>1
    <3> QED
      BY <3>1, <3>2
  <2>6. CASE q > i /\ p > i
    <3>1. /\ s'[p] = s[p - 1] /\ s'[q] = s[q - 1]
          /\ p - 1 \in 1 .. N /\ q - 1 \in 1 .. N /\ p - 1 <= q - 1
      BY <1>2, <1>3, <1>5, <2>6
    <3> QED
      BY <2>1, <3>1
  <2> QED
    BY <1>2, <2>2, <2>3, <2>4, <2>5, <2>6
<1>6. ASSUME NEW k \in 1 .. N + 1
      PROVE  s'[k] = e \/ \E j \in 1 .. N : s'[k] = s[j]
  <2>1. CASE k < i
    BY <1>2, <1>3, <2>1
  <2>2. CASE k = i
    BY <1>2, <1>3, <2>2
  <2>3. CASE k > i
    BY <1>2, <1>3, <2>3
  <2> QED
    BY <1>2, <2>1, <2>2, <2>3
<1>7. DOMAIN s' = 1 .. N + 1 /\ DOMAIN s = 1 .. N
  BY <1>3
<1> QED
  BY <1>3, <1>5, <1>6, <1>7 DEF Sorted

\* A removal leaves the others as they were.
LEMMA RemoveKeepsOrder ==
  ASSUME OfflineCache \in Seq(Entry), Sorted,
         NEW i \in DOMAIN OfflineCache, OfflineCache' = RemoveAt(OfflineCache, i)
  PROVE  /\ OfflineCache' \in Seq(Entry)
         /\ Sorted'
         /\ \A k \in DOMAIN OfflineCache' :
              \E j \in DOMAIN OfflineCache : OfflineCache'[k] = OfflineCache[j]
<1> DEFINE s == OfflineCache
           N == Len(s)
<1>1. i \in 1 .. N /\ N \in Nat /\ DOMAIN s = 1 .. N
  OBVIOUS
<1>2. /\ s' \in Seq(Entry) /\ Len(s') = N - 1
      /\ \A k \in 1 .. N - 1 : s'[k] = IF k < i THEN s[k] ELSE s[k + 1]
  BY <1>1, RemoveAtElements
<1>3. DOMAIN s' = 1 .. N - 1
  BY <1>1, <1>2
<1>4. ASSUME NEW k \in 1 .. N - 1
      PROVE  \E j \in 1 .. N : s'[k] = s[j]
  BY <1>1, <1>2
<1>5. ASSUME NEW p \in 1 .. N - 1, NEW q \in 1 .. N - 1, p <= q
      PROVE  s'[p].name <= s'[q].name
  <2>1. \A j, k \in 1 .. N : j <= k => s[j].name <= s[k].name
    BY <1>1 DEF Sorted
  <2>2. CASE q < i
    BY <1>1, <1>2, <1>5, <2>1, <2>2
  <2>3. CASE q >= i /\ p < i
    BY <1>1, <1>2, <1>5, <2>1, <2>3
  <2>4. CASE q >= i /\ p >= i
    BY <1>1, <1>2, <1>5, <2>1, <2>4
  <2> QED
    BY <1>1, <2>2, <2>3, <2>4
<1> QED
  BY <1>1, <1>2, <1>3, <1>4, <1>5 DEF Sorted

-----------------------------------------------------------------------------
\* An insertion behind a file that is on the disk keeps the invariant.
LEMMA AddKeeps ==
  ASSUME CacheInv, NEW file, NEW a \in Nodes, file.file_name \in Names,
         file.file_size \in Nat, file.data \in Contents, AddFileToCache(file, a)
  PROVE  CacheInv'
<1> USE DEF CacheInv
<1>1. \A loc \in Location : EntryOf(file, a, loc) \in Entry
  BY DEF EntryOf, Entry
<1>2. CASE AddOnDisk(file, a)
  <2>1. DOMAIN disk' = DOMAIN disk \cup {file.file_name}
    BY <1>2 DEF AddOnDisk
  <2> DEFINE e == EntryOf(file, a, "OnDisk")
  <2>2. e \in Entry /\ Insert(e) /\ e.name = file.file_name
    BY <1>1, <1>2 DEF AddOnDisk, Location, EntryOf
  <2> HIDE DEF e
  <2> QED
    BY <2>1, <2>2, InsertKeepsOrder DEF OnDiskHasFile
<1>3. CASE AddOnRAM(file, a)
  <2> DEFINE e == EntryOf(file, a, "OnRAM")
  <2>1. e \in Entry /\ Insert(e) /\ e.location = "OnRAM" /\ disk' = disk
    BY <1>1, <1>3 DEF AddOnRAM, Location, EntryOf
  <2> HIDE DEF e
  <2> QED
    BY <2>1, InsertKeepsOrder DEF OnDiskHasFile
<1>4. CASE CreationError(file, a)
  BY <1>4 DEF CreationError, Sorted, OnDiskHasFile
<1> QED
  BY <1>2, <1>3, <1>4 DEF AddFileToCache

\* What the walk of the removal finds.
LEMMA RemovedEntry ==
  ASSUME CacheInv, NEW n \in Names, NEW a \in Nodes
  PROVE  /\ EntryToRemove(n, a) \in DOMAIN OfflineCache \cup {0}
         /\ Of(n, a) # {} =>
              EntryToRemove(n, a) \in DOMAIN OfflineCache /\ EntryToRemove(n, a) = Min(Of(n, a))
         /\ ~HasName(n) => EntryToRemove(n, a) = 0
<1> DEFINE hits == {i \in DOMAIN OfflineCache :
                      OfflineCache[i].name >= n /\ OfflineCache[i].node = a}
<1>1. EntryToRemove(n, a) = IF HasName(n) /\ hits # {} THEN Min(hits) ELSE 0
  BY DEF EntryToRemove, FirstFrom
<1>2. DOMAIN OfflineCache \subseteq Nat /\ n \in Nat
  BY FileCacheAssumption DEF CacheInv
<1>3. hits # {} => Min(hits) \in hits /\ \A y \in hits : Min(hits) <= y
  <2> HIDE DEF hits
  <2>1. hits \in SUBSET Nat
    BY <1>2 DEF hits
  <2> QED
    BY <2>1, MinOfNats
<1>4. ASSUME Of(n, a) # {}
      PROVE  HasName(n) /\ hits # {} /\ Min(hits) = Min(Of(n, a))
  <2> DEFINE h == Min(hits)
             o == Min(Of(n, a))
  <2>1. Of(n, a) \in SUBSET Nat
    BY <1>2 DEF Of
  <2>2. o \in Of(n, a) /\ \A y \in Of(n, a) : o <= y
    BY <1>4, <2>1, MinOfNats
  <2>3. Of(n, a) \subseteq hits /\ HasName(n)
    BY <1>2, <1>4 DEF Of, HasName
  <2>4. h \in hits /\ h <= o
    BY <1>3, <1>4, <2>2, <2>3
  <2>5. o \in DOMAIN OfflineCache /\ OfflineCache[o].name = n
    BY <2>2 DEF Of
  <2>6. h \in DOMAIN OfflineCache /\ OfflineCache[h].name >= n /\ OfflineCache[h].node = a
    BY <2>4
  <2> HIDE DEF h, o
  <2>7. OfflineCache[h].name <= n
    BY <2>4, <2>5, <2>6 DEF CacheInv, Sorted
  <2>8. OfflineCache[h].name = n
    BY <1>2, <2>6, <2>7, EntryFields DEF CacheInv
  <2>9. o <= h
    BY <2>2, <2>6, <2>8 DEF Of
  <2>10. h = o
    BY <1>2, <2>4, <2>5, <2>6, <2>9
  <2> QED
    BY <1>4, <2>3, <2>10 DEF h, o
<1> QED
  BY <1>1, <1>3, <1>4

\* The invariant holds: the entries are in order, and behind what is on the disk
\* according to the cache is a file.
LEMMA InvariantHolds == Spec => []CacheInv
<1>1. Init => CacheInv
  BY DEF Init, CacheInv, Sorted, OnDiskHasFile
<1>2. CacheInv /\ [Next]_vars => CacheInv'
  <2> SUFFICES ASSUME CacheInv, [Next]_vars PROVE CacheInv'
    OBVIOUS
  <2>1. CASE UNCHANGED vars
    BY <2>1 DEF vars, CacheInv, Sorted, OnDiskHasFile
  <2>2. CASE Next
    <3>1. PICK n \in Names, a \in Nodes :
            \/ \E c \in Contents : AddRawFile(n, a, c) \/ AddToFileCache(n, a, c)
            \/ RemoveFromCache(n, a)
            \/ IsFileCached(n, a)
            \/ GetCachedFile(n, a)
      BY <2>2 DEF Next
    <3>2. ASSUME NEW c \in Contents, AddRawFile(n, a, c)
          PROVE  CacheInv'
      <4>1. Len(c) \in Nat
        BY FileCacheAssumption
      <4> QED
        BY <3>2, <4>1, AddKeeps DEF AddRawFile, RawFile
    <3>3. ASSUME NEW c \in Contents, AddToFileCache(n, a, c)
          PROVE  CacheInv'
      BY <3>3, AddKeeps DEF AddToFileCache, RawFile
    <3>4. CASE RemoveFromCache(n, a)
      <4> DEFINE i == EntryToRemove(n, a)
      <4>1. i \in DOMAIN OfflineCache \cup {0} /\ 0 \notin DOMAIN OfflineCache
        BY RemovedEntry DEF CacheInv
      <4>2. disk' = disk /\ OfflineCache' = IF i = 0 THEN OfflineCache ELSE RemoveAt(OfflineCache, i)
        BY <3>4 DEF RemoveFromCache
      <4> HIDE DEF i
      <4>3. CASE i = 0
        BY <4>2, <4>3 DEF CacheInv, Sorted, OnDiskHasFile
      <4>4. CASE i # 0
        BY <4>1, <4>2, <4>4, RemoveKeepsOrder DEF CacheInv, OnDiskHasFile
      <4> QED
        BY <4>3, <4>4
    <3>5. CASE IsFileCached(n, a)
      BY <3>5 DEF IsFileCached, CacheInv, Sorted, OnDiskHasFile
    <3>6. CASE GetCachedFile(n, a)
      BY <3>6 DEF GetCachedFile, CacheInv, Sorted, OnDiskHasFile
    <3> QED
      BY <3>1, <3>2, <3>3, <3>4, <3>5, <3>6
  <2> QED
    BY <2>1, <2>2
<1> QED
  BY <1>1, <1>2, PTL DEF Spec

\* Whatever is added and removed, in any order and with any file that cannot be
\* created, an entry that says OnDisk has its file.
THEOREM DiskBacksEntries == Spec => []OnDiskHasFile
<1>1. CacheInv => OnDiskHasFile
  BY DEF CacheInv
<1> QED
  BY <1>1, InvariantHolds, PTL

\* For any names, nodes and contents, a removal takes the oldest entry of the
\* file and the node it was asked for when there is one.
THEOREM RemovalIsExact == Spec => RemoveTakesAsked
<1> DEFINE Exact ==
      \A n \in Names, a \in Nodes : RemovalOf(n, a) =>
        /\ Of(n, a) # {} => answer'.value /\ OfflineCache' = RemoveAt(OfflineCache, Min(Of(n, a)))
        /\ ~HasName(n) => ~answer'.value /\ UNCHANGED OfflineCache
<1>1. CacheInv /\ [Next]_vars => [Exact]_vars
  <2> SUFFICES ASSUME CacheInv, Next, NEW n \in Names, NEW a \in Nodes, RemovalOf(n, a)
               PROVE  /\ Of(n, a) # {} => /\ answer'.value
                                          /\ OfflineCache' = RemoveAt(OfflineCache, Min(Of(n, a)))
                      /\ ~HasName(n) => ~answer'.value /\ UNCHANGED OfflineCache
    OBVIOUS
  <2>1. RemoveFromCache(n, a)
    <3>1. answer'.call = "RemoveFromCache" /\ answer'.name = n /\ answer'.node = a
      BY DEF RemovalOf
    <3>2. PICK m \in Names, b \in Nodes :
            \/ \E c \in Contents : AddRawFile(m, b, c) \/ AddToFileCache(m, b, c)
            \/ RemoveFromCache(m, b)
            \/ IsFileCached(m, b)
            \/ GetCachedFile(m, b)
      BY DEF Next
    <3>3. ~ \E c \in Contents : AddRawFile(m, b, c) \/ AddToFileCache(m, b, c)
      BY <3>1 DEF AddRawFile, AddToFileCache, NoAnswer
    <3>4. ~ IsFileCached(m, b) /\ ~ GetCachedFile(m, b)
      BY <3>1 DEF IsFileCached, GetCachedFile, Answer
    <3>5. RemoveFromCache(m, b)
      BY <3>2, <3>3, <3>4
    <3>6. m = n /\ b = a
      BY <3>1, <3>5 DEF RemoveFromCache, Answer
    <3> QED
      BY <3>5, <3>6
  <2> DEFINE i == EntryToRemove(n, a)
  <2>2. /\ answer'.value = (i # 0)
        /\ OfflineCache' = IF i = 0 THEN OfflineCache ELSE RemoveAt(OfflineCache, i)
    BY <2>1 DEF RemoveFromCache, Answer
  <2>3. 0 \notin DOMAIN OfflineCache
    BY DEF CacheInv
  <2> HIDE DEF i
  <2>4. /\ Of(n, a) # {} => i \in DOMAIN OfflineCache /\ i = Min(Of(n, a))
        /\ ~HasName(n) => i = 0
    BY RemovedEntry DEF i
  <2> QED
    BY <2>2, <2>3, <2>4
<1> QED
  BY <1>1, InvariantHolds, PTL DEF Spec, RemoveTakesAsked

-----------------------------------------------------------------------------
\* What is written to the disk is bytes, however short the file says it is.
LEMMA ReadBytes ==
  ASSUME NEW bytes \in Seq(Nat), NEW size \in Nat
  PROVE  Read(bytes, size) \in Seq(Nat)
<1>1. Len(bytes) \in Nat
  OBVIOUS
<1>2. Min({size, Len(bytes)}) \in {size, Len(bytes)}
  BY <1>1, MinOfNats
<1>3. Min({size, Len(bytes)}) \in Nat
  BY <1>1, <1>2
<1>4. Min({size, Len(bytes)}) <= Len(bytes)
  BY <1>1, MinOfNats
<1>5. ASSUME NEW k \in Nat, k <= Len(bytes)
      PROVE  SubSeq(bytes, 1, k) \in Seq(Nat)
  BY <1>5
<1> QED
  BY <1>3, <1>4, <1>5, Zenon DEF Read

\* An addition writes at most one file, under its own name.
LEMMA AddKeepsDisk ==
  ASSUME CacheTypeOK, NEW file, NEW a \in Nodes, file.file_name \in Names,
         file.file_size \in Nat, file.data \in Contents, AddFileToCache(file, a)
  PROVE  DOMAIN disk' \subseteq Names /\ \A n \in DOMAIN disk' : disk'[n] \in Seq(Nat)
<1>1. CASE AddOnDisk(file, a)
  <2>1. Read(file.data, file.file_size) \in Seq(Nat)
    BY ReadBytes, FileCacheAssumption
  <2> QED
    BY <1>1, <2>1 DEF AddOnDisk, CacheTypeOK
<1>2. CASE AddOnRAM(file, a) \/ CreationError(file, a)
  BY <1>2 DEF AddOnRAM, CreationError, CacheTypeOK
<1> QED
  BY <1>1, <1>2 DEF AddFileToCache

\* The answer to a call names what was asked for.
LEMMA AnswerFields ==
  ASSUME NEW call, NEW n \in Names, NEW a \in Nodes, NEW v, answer' = Answer(call, n, a, v)
  PROVE  answer'.name \in Names /\ answer'.node \in Nodes
BY DEF Answer

\* For any names, nodes and contents the entries stay well typed and in order,
\* the disk holds bytes under the names of files, and answers name what was
\* asked for (cache.cpp:32-162).
THEOREM CacheTypeCorrect == Spec => []CacheTypeOK
<1>1. Init => CacheTypeOK
  BY DEF Init, CacheTypeOK, Sorted
<1>2. CacheInv /\ CacheInv' /\ CacheTypeOK /\ [Next]_vars => CacheTypeOK'
  <2> SUFFICES ASSUME CacheInv, CacheInv', CacheTypeOK, [Next]_vars PROVE CacheTypeOK'
    OBVIOUS
  <2>i. OfflineCache' \in Seq(Entry) /\ Sorted'
    BY DEF CacheInv
  <2>1. CASE UNCHANGED vars
    BY <2>1, <2>i DEF vars, CacheTypeOK
  <2>2. CASE Next
    <3>1. PICK n \in Names, a \in Nodes :
            \/ \E c \in Contents : AddRawFile(n, a, c) \/ AddToFileCache(n, a, c)
            \/ RemoveFromCache(n, a)
            \/ IsFileCached(n, a)
            \/ GetCachedFile(n, a)
      BY <2>2 DEF Next
    <3>2. ASSUME NEW c \in Contents, AddRawFile(n, a, c)
          PROVE  CacheTypeOK'
      <4>1. Len(c) \in Nat
        BY FileCacheAssumption
      <4>2. DOMAIN disk' \subseteq Names /\ \A m \in DOMAIN disk' : disk'[m] \in Seq(Nat)
        BY <3>2, <4>1, AddKeepsDisk DEF AddRawFile, RawFile
      <4> QED
        BY <2>i, <3>2, <4>2 DEF AddRawFile, CacheTypeOK
    <3>3. ASSUME NEW c \in Contents, AddToFileCache(n, a, c)
          PROVE  CacheTypeOK'
      <4>1. DOMAIN disk' \subseteq Names /\ \A m \in DOMAIN disk' : disk'[m] \in Seq(Nat)
        BY <3>3, AddKeepsDisk DEF AddToFileCache, RawFile
      <4> QED
        BY <2>i, <3>3, <4>1 DEF AddToFileCache, CacheTypeOK
    <3>4. ASSUME RemoveFromCache(n, a) \/ IsFileCached(n, a) \/ GetCachedFile(n, a)
          PROVE  CacheTypeOK'
      <4>1. \E call, v : answer' = Answer(call, n, a, v)
        BY <3>4 DEF RemoveFromCache, IsFileCached, GetCachedFile
      <4>2. answer'.name \in Names /\ answer'.node \in Nodes
        BY <4>1, AnswerFields
      <4>3. UNCHANGED <<local_fs, disk>>
        BY <3>4 DEF RemoveFromCache, IsFileCached, GetCachedFile
      <4> QED
        BY <2>i, <4>2, <4>3 DEF CacheTypeOK
    <3> QED
      BY <3>1, <3>2, <3>3, <3>4
  <2> QED
    BY <2>1, <2>2
<1> QED
  BY <1>1, <1>2, InvariantHolds, PTL DEF Spec
=============================================================================
