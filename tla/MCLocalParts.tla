---------------------------- MODULE MCLocalParts -----------------------------
(* The sequential parts of the system for TLC.  They share nothing, so that *)
(* one of them runs at a time: which one is chosen in the beginning.        *)
EXTENDS FileCache, EventQueue, FileBuffer, SystemInfo, Framing, Win32Pipe, Win32Semaphore, MCFormat

CONSTANTS a1, a2, p1, p2, p3

VARIABLES
  part,
  theirs, message, ours, received, treeAnswer, big, status  \* of NetworkFS

treeVars == <<theirs, message, ours, received, treeAnswer, big, status>>
partVars == <<part, vars, eventVars, fileVars, infoVars, frameVars, pipeVars, win32SemVars, formatVars, treeVars>>

Parts == {"cache", "events", "reader", "writer", "info", "frames", "pipe", "semaphore", "format", "tree"}

\* One sender and one receiver of trees; names of one and two bytes and one that is
\* too long.
TreeNames == {<<1>>, <<2, 3>>, <<1, 2, 3>>}
TreeRootNames == {<<>>, <<1>>}
TreeNodes == {<<192, 168, 0, 1>>}
Tree == INSTANCE NetworkFS WITH
  Names <- TreeNames, RootNames <- TreeRootNames, Nodes <- TreeNodes, MaxName <- 2,
  MaxContents <- 2, MaxObjects <- 3, MaxMerges <- 2, answer <- treeAnswer
ASSUME TreeAssumption == Tree!NetworkFSAssumption

WholeArrives == Tree!WholeArrives
DamageNoticed == Tree!DamageNoticed
MergesLoseNothing == Tree!MergesLoseNothing

\* Bounds: the local_fs of a big-endian machine has a name, another has none, and what a
\* big-endian machine sends is not merged.
TreeInit == Tree!Init /\ big.sender = (theirs[1].name # <<>>) /\ (big.sender => part = "tree")

\* Values of the constants.
CacheBytes == {<<7>>}
ScanFormats ==
  {<<>>, <<"%d", "blank", "%d", "other">>, <<"%s", "blank", "blank">>, <<"%d", "other", "%d">>}
HutiJ == <<72, 85, 84, 73, 74>>
MessageTypes == [echo |-> 6, track |-> 5, get |-> 0, changed |-> 4]
ShortContents == {<<>>, <<66, 0, 67>>, <<65, 66, 67, 68, 69, 70, 71, 72>>}

LineOf(words, n) == words \o <<Token("colon", 0), Token("number", n), Token("number", 0)>>
CpuWords == <<Token("cpu", 0), Token("mhz", 0)>>
MaxWords == <<Token("cpu", 0), Token("max", 0), Token("mhz", 0)>>
Printed ==
  {[of |-> "cpuinfo", tokens |-> LineOf(CpuWords, 24) \o LineOf(CpuWords, 12)],
   [of |-> "lscpu", tokens |-> LineOf(MaxWords, 47)],
   [of |-> "meminfo", tokens |-> <<Token("MemAvailable", 0), Token("colon", 0), Token("number", 31), Token("id", 0)>>],
   [of |-> "meminfo", tokens |-> <<>>]}
LeftInMemory == {<<>>, <<Token("mhz", 0)>>, <<Token("cpu", 0), Token("mhz", 0), Token("colon", 0), Token("number", 9)>>}

PartsInit ==
  /\ part \in Parts
  /\ Init /\ EventInit /\ FileInit /\ InfoInit /\ FrameInit /\ PipeInit /\ Win32SemInit /\ FormatInit /\ TreeInit

PartsNext ==
  \/ part = "cache" /\ Next
     /\ UNCHANGED <<part, eventVars, fileVars, infoVars, frameVars, pipeVars, win32SemVars, formatVars, treeVars>>
  \/ part = "events" /\ EventNext
     /\ UNCHANGED <<part, vars, fileVars, infoVars, frameVars, pipeVars, win32SemVars, formatVars, treeVars>>
  \/ part = "reader" /\ ReaderNext
     /\ UNCHANGED <<part, vars, eventVars, infoVars, frameVars, pipeVars, win32SemVars, formatVars, treeVars>>
  \/ part = "writer" /\ WriterNext
     /\ UNCHANGED <<part, vars, eventVars, infoVars, frameVars, pipeVars, win32SemVars, formatVars, treeVars>>
  \/ part = "info" /\ InfoNext
     /\ UNCHANGED <<part, vars, eventVars, fileVars, frameVars, pipeVars, win32SemVars, formatVars, treeVars>>
  \/ part = "frames" /\ FrameNext
     /\ UNCHANGED <<part, vars, eventVars, fileVars, infoVars, pipeVars, win32SemVars, formatVars, treeVars>>
  \/ part = "pipe" /\ PipeNext
     /\ UNCHANGED <<part, vars, eventVars, fileVars, infoVars, frameVars, win32SemVars, formatVars, treeVars>>
  \/ part = "semaphore" /\ Win32SemNext
     /\ UNCHANGED <<part, vars, eventVars, fileVars, infoVars, frameVars, pipeVars, formatVars, treeVars>>
  \/ part = "format" /\ FormatNext
     /\ UNCHANGED <<part, vars, eventVars, fileVars, infoVars, frameVars, pipeVars, win32SemVars, treeVars>>
  \/ part = "tree" /\ Tree!Next /\ (big.sender => received' = <<>>)
     /\ UNCHANGED <<part, vars, eventVars, fileVars, infoVars, frameVars, pipeVars, win32SemVars, formatVars>>

\* The threads run on.
RunSpec ==
  /\ PartsInit /\ [][PartsNext]_partVars
  /\ WF_fileVars(part = "reader" /\ Scan)
  /\ WF_infoVars(part = "info" /\ Parse)
  /\ WF_pipeVars(part = "pipe" /\ Serve)
=============================================================================
