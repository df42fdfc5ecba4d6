------------------------------ MODULE NetworkFS ------------------------------
(***************************************************************************)
(* The network file system (src/src/filesystem/network_fs.hpp): trees of   *)
(* directories and files, serialized on one machine, deserialized on       *)
(* another and merged into what is known of all machines.                  *)
(*                                                                         *)
(* A heap is the sequence of the FileContent objects of a process, a       *)
(* pointer the number of one.  Object 1 of the sender is its local_fs,     *)
(* object 1 of the receiver its GFS_root; contents are shared_ptr's, so    *)
(* an object may be in several directories.                                *)
(***************************************************************************)
EXTENDS Bitsery, FiniteSets
LOCAL INSTANCE SequencesExt
LOCAL INSTANCE Functions

CONSTANTS
  Names,         \* the names of files, as sequences of bytes
  RootNames,     \* the names local_fs may have
  Nodes,         \* the addresses of machines
  MaxName,       \* bytes of a name that is serialized (64 in the code)
  MaxContents,   \* MAX_FILE_CAPACITY
  MaxObjects,    \* bound: objects of the sender
  MaxMerges      \* bound: messages taken by the receiver

\* What the constants are; the module that gives them values assumes it.
NetworkFSAssumption ==
  /\ MaxName \in Nat /\ MaxContents \in Nat /\ MaxObjects \in Nat /\ MaxMerges \in Nat
  /\ \A name \in Names \cup RootNames : name \in Seq(0 .. 255)
  /\ \A ipv4 \in Nodes : ipv4 \in [1 .. 4 -> 0 .. 255]

Directory == 0
File == 1

\* FileContent: name, address and contents are initialised, the type of an object on
\* the heap by who makes it, and to zero by bitsery.
FileContent(type, ipv4, name) == [type |-> type, ipv4 |-> ipv4, name |-> name, contents |-> <<>>]
NoNode == <<0, 0, 0, 0>>

-----------------------------------------------------------------------------
(* serialize(S&, FileContent&), for both directions, and StdSmartPtr.      *)

RECURSIVE WriteContent(_, _, _)

WritePointer(s, heap, p) ==
  LET info == InfoByPtr(s, p, "sharedOwner")
      t == WriteSize(info.ser, info.id)
  IN IF info.isSharedProcessed THEN t ELSE WriteContent(t, heap, p)

WriteContent(s, heap, p) ==
  LET c == heap[p]
      ip == FoldLeft(LAMBDA t, byte : WriteBytes(t, byte, 1), WriteBytes(s, c.type, 2), c.ipv4)
      head == WriteContainerSize(WriteText(ip, c.name, MaxName), Len(c.contents), MaxContents)
  IN FoldLeft(LAMBDA t, q : WritePointer(t, heap, q), head, c.contents)

\* SerializeLocalFS: the bytes written, of a serializer that no assertion stopped.
SerializeLocalFS(heap, big) == WriteContent(MakeSerializer(big), heap, 1)

RECURSIVE ReadContent(_, _)

\* The place i of the contents of p gets the object of the number id, which is read
\* here when it is met first.
LinkContent(met, id, p, i) ==
  LET known == HasSharedState(met, id)
      t == IF known THEN met ELSE CreateShared(met, id, FileContent(Directory, NoNode, <<>>))
      linked == [t EXCEPT !.heap[p].contents[i] = t.infos[id].ptr]
  IN IF known THEN linked ELSE ReadContent(linked, t.infos[id].ptr)

ReadPointer(d, p, i) ==
  Then(ReadSize(d), LAMBDA e, id :
    IF id = Null THEN e ELSE LinkContent(InfoById(e, id, "sharedOwner"), id, p, i))

ReadContents(d, p, size) ==
  FoldLeft(LAMBDA t, i : ReadPointer(t, p, i), d, [i \in 1 .. size |-> i])

ReadContent(d, p) ==
  Then(ReadBytes(d, 2), LAMBDA d1, type :
    Then(ReadTimes(d1, 4, LAMBDA e : ReadBytes(e, 1)), LAMBDA d2, ipv4 :
      Then(ReadText(d2, MaxName), LAMBDA d3, name :
        Then(ReadContainerSize(d3, MaxContents), LAMBDA d4, size :
          LET c == [FileContent(type, ipv4, name) EXCEPT !.contents = Zeros(size)] IN
            ReadContents([d4 EXCEPT !.heap[p] = c], p, size)))))

\* Into the object p of the heap: the heap at the end, and what is returned.
Accepted(d) == [heap |-> d.heap, ok |-> ErrorOf(d) = NoError /\ IsCompletedSuccessfully(d)]
DeserializeToFileContent(data, big, heap, p) == Accepted(ReadContent(MakeDeserializer(data, big, heap), p))

-----------------------------------------------------------------------------
(* Merging.  m is the heap, and whether a vector has grown while it was    *)
(* walked, or a walk has come back to where it is, which C++ leaves        *)
(* undefined; walked are the objects whose contents are being walked.      *)

FirstOfName(heap, dir, name) ==
  LET i == SelectInSeq(heap[dir].contents, LAMBDA f1 : heap[f1].name = name) IN
    IF i = 0 THEN Null ELSE heap[dir].contents[i]

PushBack(m, dir, x, walked) ==
  [heap |-> [m.heap EXCEPT ![dir].contents = Append(@, x)], undefined |-> m.undefined \/ dir \in walked]

RECURSIVE MergeContents(_, _, _, _)

\* Faulty variant: files of one name are taken for one.
MergeFileByName(m, file1, x, walked) ==
  LET found == FirstOfName(m.heap, file1, m.heap[x].name) IN
    IF m.undefined THEN m
    ELSE IF found = Null THEN PushBack(m, file1, x, walked)
    ELSE IF x \in walked THEN [m EXCEPT !.undefined = TRUE]
    ELSE MergeContents(m, found, x, walked)

\* The body of the loop of MergeSingleFileContent.
MergeFile(m, file1, x, walked) ==
  LET found == FirstOfName(m.heap, file1, m.heap[x].name) IN
    IF m.undefined THEN m
    ELSE IF found = Null \/ m.heap[x].type = File THEN PushBack(m, file1, x, walked)
    ELSE IF x \in walked THEN [m EXCEPT !.undefined = TRUE]
    ELSE MergeContents(m, found, x, walked)

MergeContents(m, file1, file2, walked) ==
  FoldLeft(LAMBDA n, x : MergeFile(n, file1, x, walked \cup {file2}), m, m.heap[file2].contents)

MergeSingleFileContent(m, file1, file2) == MergeContents(m, file1, file2, {})

\* The body of the loops of AddAsChildDirectory and of MergeTotalFileContent.
AddAsChild(m, root, dir) ==
  LET found == FirstOfName(m.heap, root, m.heap[dir].name) IN
    IF m.undefined THEN m
    ELSE IF found = Null THEN PushBack(m, root, dir, {}) ELSE MergeSingleFileContent(m, found, dir)

Root == <<0>>  \* stands for "Guthi File System"

\* The new root is the last object.
MergeTotalFileContent(heap, files) ==
  LET dfs == Append(heap, FileContent(Directory, NoNode, Root)) IN
    FoldLeft(LAMBDA m, dir : AddAsChild(m, Len(dfs), dir), [heap |-> dfs, undefined |-> FALSE], files)

-----------------------------------------------------------------------------

VARIABLES
  theirs,     \* the heap of the sender
  message,    \* the bytes of the message, and what has become of them
  ours,       \* the heap of the receiver
  received,   \* the trees that the receiver has accepted
  answer,     \* the object a message was read into, and whether it was accepted
  big,        \* are the machines big-endian?
  status      \* "running", or what an assertion or a walk has ended in

vars == <<theirs, message, ours, received, answer, big, status>>

NoMessage == [bytes |-> <<>>, damage |-> "none"]
NoAnswer == [content |-> Null, ok |-> FALSE]

Init ==
  /\ theirs \in {<<FileContent(Directory, NoNode, name)>> : name \in RootNames}
  /\ message = NoMessage
  /\ ours = <<FileContent(Directory, NoNode, <<>>)>>
  /\ received = <<>>
  /\ answer = NoAnswer
  /\ big \in {[sender |-> FALSE, receiver |-> FALSE], [sender |-> TRUE, receiver |-> FALSE]}
  /\ status = "running"

-----------------------------------------------------------------------------
(* The sender.                                                             *)

Preparing == status = "running" /\ message = NoMessage /\ answer = NoAnswer /\ Len(received) < MaxMerges

Directories == {p \in DOMAIN theirs : theirs[p].type = Directory}

\* AddFile, and AddToFileCache, which adds a file without an address to local_fs.
AddFile(dir, file) == Append([theirs EXCEPT ![dir].contents = Append(@, Len(theirs) + 1)], file)

AddNew ==
  /\ Preparing /\ Len(theirs) < MaxObjects
  /\ \E dir \in Directories, type \in {Directory, File}, ipv4 \in Nodes, name \in Names :
       theirs' = AddFile(dir, FileContent(type, ipv4, name))
  /\ UNCHANGED <<message, ours, received, answer, big, status>>

AddToFileCache ==
  /\ Preparing /\ Len(theirs) < MaxObjects
  /\ \E name \in Names : theirs' = AddFile(1, FileContent(File, NoNode, name))
  /\ UNCHANGED <<message, ours, received, answer, big, status>>

\* AddFile of an object that is there; a directory that contains itself has no listing.
AddAgain ==
  /\ Preparing
  /\ \E dir \in Directories, p \in DOMAIN theirs :
       /\ p > dir
       /\ Len(theirs[dir].contents) <= MaxContents
       /\ theirs' = [theirs EXCEPT ![dir].contents = Append(@, p)]
  /\ UNCHANGED <<message, ours, received, answer, big, status>>

\* RemoveFile: the first object that has the name of the one given.
RemoveFile ==
  /\ Preparing
  /\ \E dir \in Directories, name \in Names :
       LET i == SelectInSeq(theirs[dir].contents, LAMBDA f1 : theirs[f1].name = name) IN
         i # 0 /\ theirs' = [theirs EXCEPT ![dir].contents = RemoveAt(@, i)]
  /\ UNCHANGED <<message, ours, received, answer, big, status>>

\* GetLocalFileMetadata.
Serialize ==
  /\ Preparing
  /\ \E s \in {SerializeLocalFS(theirs, big.sender)} :
       IF s.aborted
       THEN status' = "aborted" /\ UNCHANGED message
       ELSE message' = [bytes |-> Written(s), damage |-> "whole"] /\ UNCHANGED status
  /\ UNCHANGED <<theirs, ours, received, answer, big>>

-----------------------------------------------------------------------------
(* What may become of the bytes between the processes: the count of the    *)
(* shared segment may be an older or a newer one than its bytes.           *)

\* Bound: only the first message is damaged.
Underway == status = "running" /\ message.damage = "whole" /\ answer = NoAnswer /\ received = <<>>

Cut ==
  /\ Underway
  /\ \E n \in 0 .. Len(message.bytes) - 1 :
       message' = [bytes |-> SubSeq(message.bytes, 1, n), damage |-> "cut"]
  /\ UNCHANGED <<theirs, ours, received, answer, big, status>>

Extend ==
  /\ Underway
  /\ message' = [bytes |-> Append(message.bytes, 1), damage |-> "extended"]
  /\ UNCHANGED <<theirs, ours, received, answer, big, status>>

-----------------------------------------------------------------------------
(* The receiver.                                                           *)

\* Into a new object.
Received(bytes) ==
  DeserializeToFileContent(bytes, big.receiver, Append(ours, FileContent(Directory, NoNode, <<>>)), Len(ours) + 1)

Deserialize ==
  /\ status = "running" /\ message # NoMessage /\ answer = NoAnswer
  /\ \E r \in {Received(message.bytes)} :
       ours' = r.heap /\ answer' = [content |-> Len(ours) + 1, ok |-> r.ok]
  /\ UNCHANGED <<theirs, message, received, big, status>>

\* SetFilesystem: the vector has the capacity for the bytes and the size 0.
SetFilesystem ==
  /\ status = "running" /\ message.damage = "whole" /\ answer = NoAnswer
  /\ \E r \in {Received(<<>>)} :
       /\ ours' = r.heap
       /\ status' = IF r.ok THEN status ELSE "aborted"
       /\ answer' = IF r.ok THEN [content |-> Len(ours) + 1, ok |-> TRUE] ELSE answer
  /\ UNCHANGED <<theirs, message, received, big>>

\* Bound: the receiver merges every tree into GFS_root, or keeps them all.
MergeDiff ==
  /\ status = "running" /\ answer.ok
  /\ received = <<>> \/ ours[1].contents # <<>>
  /\ LET m == AddAsChild([heap |-> ours, undefined |-> FALSE], 1, answer.content) IN
       ours' = m.heap /\ status' = IF m.undefined THEN "undefined" ELSE status
  /\ received' = Append(received, answer.content)
  /\ message' = NoMessage /\ answer' = NoAnswer
  /\ UNCHANGED <<theirs, big>>

\* The caller keeps the tree for MergeTotalFileContent and does not merge it into GFS_root.
Keep ==
  /\ status = "running" /\ answer.ok
  /\ received = <<>> \/ ours[1].contents = <<>>
  /\ received' = Append(received, answer.content)
  /\ message' = NoMessage /\ answer' = NoAnswer
  /\ UNCHANGED <<theirs, ours, big, status>>

\* The assertion on what DeserializeToFileContent returns.
Refuse ==
  /\ status = "running" /\ answer.content # Null /\ ~answer.ok
  /\ status' = "aborted"
  /\ UNCHANGED <<theirs, message, ours, received, answer, big>>

\* One tree of all that was received; the process then ends.
MergeTotal ==
  /\ status = "running" /\ answer = NoAnswer /\ Len(received) = MaxMerges
  /\ LET m == MergeTotalFileContent(ours, received) IN
       ours' = m.heap /\ status' = IF m.undefined THEN "undefined" ELSE "merged"
  /\ UNCHANGED <<theirs, message, received, answer, big>>

Next ==
  \/ AddNew \/ AddToFileCache \/ AddAgain \/ RemoveFile \/ Serialize
  \/ Cut \/ Extend
  \/ Deserialize \/ SetFilesystem \/ MergeDiff \/ Keep \/ Refuse \/ MergeTotal

Spec == Init /\ [][Next]_vars

-----------------------------------------------------------------------------
(* FileFormatter lists a tree, and does not look into what is a file.      *)

RECURSIVE Listed(_, _, _)
Listed(heap, p, path) ==
  LET here == Append(path, heap[p].name) IN
    IF heap[p].type = File THEN <<[path |-> here, ipv4 |-> heap[p].ipv4]>>
    ELSE FoldLeft(LAMBDA list, q : list \o Listed(heap, q, here), <<>>, heap[p].contents)

Count(list, entry) == Cardinality({i \in DOMAIN list : list[i] = entry})

\* Pairs of objects at the same place of two trees.
RECURSIVE Paired(_, _, _, _)
Paired(heap1, p, heap2, q) ==
  {<<p, q>>} \cup UNION {Paired(heap1, heap1[p].contents[i], heap2, heap2[q].contents[i]) :
                          i \in DOMAIN heap1[p].contents \cap DOMAIN heap2[q].contents}

\* What was sent whole, and given to DeserializeToFileContent whole, is accepted, and is
\* the sender's tree: the same objects, shared where the sender shares them, whatever
\* the machines' byte order and however often the buffer has grown (serialize,
\* SerializeLocalFS, DeserializeToFileContent).  SetFilesystem gives it no bytes at all.
WholeArrives ==
  (message.damage = "whole" /\ answer # NoAnswer) =>
    /\ answer.ok
    /\ LET pairs == Paired(theirs, 1, ours, answer.content) IN
         /\ \A a \in pairs, b \in pairs : a[1] = b[1] <=> a[2] = b[2]
         /\ \A a \in pairs :
              LET c1 == theirs[a[1]]
                  c2 == ours[a[2]]
              IN /\ c1.type = c2.type /\ c1.ipv4 = c2.ipv4 /\ c1.name = c2.name
                 /\ Len(c1.contents) = Len(c2.contents)

\* A message that has lost its end, or has bytes behind it, is never accepted,
\* wherever it was cut (the value of DeserializeToFileContent).
DamageNoticed == message.damage \in {"cut", "extended"} => ~answer.ok

\* What was listed is, as often, but for what is listed below a file: a directory that
\* is merged into a file of its name is not listed any more.
BelowFile(list, e) == \E i \in DOMAIN list : IsStrictPrefix(list[i].path, e.path)
Kept(list, after) ==
  \A i \in DOMAIN list : BelowFile(list, list[i]) \/ Count(after, list[i]) >= Count(list, list[i])

\* No object is at two places.
OnePlaceEach(heap) == IsInjective(FlattenSeq([p \in DOMAIN heap |-> heap[p].contents]))

\* A directory is below itself, so that FileFormatter does not end: there is a way down
\* that is longer than the heap.
RECURSIVE WayDown(_, _, _)
WayDown(heap, p, n) == n = 0 \/ \E i \in DOMAIN heap[p].contents : WayDown(heap, heap[p].contents[i], n - 1)
Loops(heap) == \E p \in DOMAIN heap : WayDown(heap, p, Len(heap))

\* Trees in which no object has two places are merged without undefined behaviour, and
\* without a directory getting below itself.  Merging loses no file, of such trees and
\* of all others that it does not break so: the listing after a tree was merged has each
\* as often, under its path and with its address, as the two listings together, and
\* that of the total as often as those of all the trees it is made of, but for files of
\* a directory that is merged into a file (MergeDiff, MergeSingleFileContent,
\* MergeTotalFileContent).
MergesLoseNothing ==
  [][/\ MergeDiff =>
          IF status' = "undefined" \/ Loops(ours') THEN ~OnePlaceEach(ours)
          ELSE Kept(Listed(ours, 1, <<>>) \o Listed(ours, answer.content, <<ours[1].name>>),
                    Listed(ours', 1, <<>>))
     /\ MergeTotal =>
          IF status' = "undefined" \/ Loops(ours') THEN ~OnePlaceEach(ours)
          ELSE Kept(FlattenSeq([k \in DOMAIN received |-> Listed(ours, received[k], <<Root>>)]),
                    Listed(ours', Len(ours'), <<>>))]_vars
=============================================================================
