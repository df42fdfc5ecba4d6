---------------------------- MODULE DaemonProofs ----------------------------
(* The daemon drives the tracker as FileTracker says, so the tracker's      *)
(* theorems hold in it; and it only notifies of files that were asked for.  *)
EXTENDS Daemon, FileTrackerProofs, CommonLemmas

USE DaemonAssumption

-----------------------------------------------------------------------------
(* The daemon and the tracker.                                             *)

\* Each step of the daemon is one call or one step of the tracker, or none.
LEMMA DaemonStepsTracker == [DaemonNext]_allVars => [Next]_vars
<1> SUFFICES ASSUME [DaemonNext]_allVars, vars' # vars PROVE Next
  OBVIOUS
<1>1. CASE Client
  BY <1>1 DEF Client, Connect, Send, Receive, Close
<1>2. CASE Main
  <2>1. CASE InsideTrack
    BY <2>1 DEF InsideTrack, Next
  <2>2. CASE PopChange
    BY <2>2 DEF PopChange, Next, Caller
  <2>3. CASE Stop
    BY <2>3 DEF Stop, Next, Caller
  <2>4. CASE DispatchTrack
    <3>1. PICK n \in Names : TrackFile(n, {"WriteChange"}) \/ TrackMissingFile(n)
      BY <2>4 DEF DispatchTrack, TrackContent
    <3> QED
      BY <3>1 DEF Next, Caller
  <2> QED
    BY <1>2, <2>1, <2>2, <2>3, <2>4 DEF Main, MainLoop, WaitForConnection, PollNothing,
       PollRead, PollFails, Dispatch, DispatchRejected, DispatchEcho, DispatchTrackGarbled,
       DispatchGetFile, DispatchUnknown, BrokenPipe, TrackReturns, PopNothing,
       SendNotification, Join
<1>3. CASE ListenerThread
  BY <1>3 DEF ListenerThread, Next
<1>4. CASE Surroundings
  BY <1>4 DEF Surroundings, Next
<1>5. CASE UNCHANGED allVars
  BY <1>5 DEF allVars
<1> QED
  BY <1>1, <1>2, <1>3, <1>4, <1>5 DEF DaemonNext

\* The daemon is a behaviour of the tracker with the main thread as its caller.
LEMMA DaemonUsesTracker == DaemonSpec => Spec
<1>1. DaemonInit => Init
  BY DEF DaemonInit
<1> QED
  BY <1>1, DaemonStepsTracker, PTL DEF DaemonSpec, Spec

\* So what was proved of the tracker holds in the daemon: its maps keep their
\* types, its handles name their files and dead handles are noticed.
THEOREM DaemonKeepsTrackerSafe ==
  DaemonSpec => [](TypeOK /\ HandleNamesItsFile /\ DeadHandleAccounted)
BY DaemonUsesTracker, TypeCorrect, NamesMatch, DeadHandlesNoticed, PTL

-----------------------------------------------------------------------------
(* Type correctness of the daemon's own state.                             *)

\* A frame is the magic bytes, the type and the content.
LEMMA FrameUnits ==
  ASSUME NEW S, NEW type \in S, NEW content \in Seq(S), "magic" \in S
  PROVE  /\ Frame(type, content) \in Seq(S)
         /\ Len(Frame(type, content)) = 2 + Len(content)
         /\ Frame(type, content)[1] = "magic" /\ Frame(type, content)[2] = type
         /\ \A i \in 1 .. Len(content) : Frame(type, content)[2 + i] = content[i]
BY DEF Frame

\* Appending and concatenating keep a sequence's type.
LEMMA SeqGrows ==
  ASSUME NEW S, NEW q \in Seq(S)
  PROVE  /\ \A r \in Seq(S) : q \o r \in Seq(S)
         /\ \A x \in S : Append(q, x) \in Seq(S)
OBVIOUS

\* Where the units of a concatenation are.
LEMMA ConcatUnits ==
  ASSUME NEW S, NEW q \in Seq(S), NEW r \in Seq(S)
  PROVE  /\ Len(q \o r) = Len(q) + Len(r) /\ Len(q) \in Nat
         /\ \A i \in 1 .. Len(q) : (q \o r)[i] = q[i]
         /\ \A i \in 1 .. Len(r) : (q \o r)[Len(q) + i] = r[i]
OBVIOUS

\* The types the daemon writes and reads are stream units.
LEMMA UnitTypes ==
  /\ "magic" \in StreamUnit /\ Characters \subseteq StreamUnit /\ EMessage \subseteq StreamUnit
  /\ Requests \subseteq EMessage
  /\ {"TrackedFileChanged", "EchoMessage", "TrackThisFile"} \subseteq EMessage
  /\ \A t \in EMessage : t # "magic"
BY DEF StreamUnit, EMessage

\* A name is characters, of which none is the magic bytes.
LEMMA NameUnits ==
  ASSUME NEW n \in Names
  PROVE  /\ n \in Seq(Characters) /\ n \in Seq(StreamUnit)
         /\ Len(n) \in Nat /\ Len(n) > 0
         /\ \A i \in 1 .. Len(n) : n[i] # "magic" /\ n[i] \in Characters
<1>1. n \in Seq(Characters) /\ n # <<>> /\ "magic" \notin Characters
  BY NamesAssumption
<1>2. \A i \in 1 .. Len(n) : n[i] \in Characters
  BY <1>1
<1>3. n \in Seq(StreamUnit)
  BY <1>1 DEF StreamUnit
<1> QED
  BY <1>1, <1>2, <1>3

\* A notice tells of the name it was made for.
LEMMA NoticeName ==
  ASSUME NEW n \in Names
  PROVE  /\ Notice(n) \in Seq(StreamUnit)
         /\ Notice(n)[2] = "TrackedFileChanged"
         /\ SubSeq(Notice(n), 3, Len(Notice(n))) = n
         /\ NameIn(Notice(n)) = <<n>>
<1> DEFINE f == Notice(n)
<1>1. n \in Seq(StreamUnit) /\ Len(n) \in Nat
  BY NameUnits
<1>2. /\ f \in Seq(StreamUnit) /\ Len(f) = 2 + Len(n) /\ f[2] = "TrackedFileChanged"
      /\ \A i \in 1 .. Len(n) : f[2 + i] = n[i]
  BY <1>1, UnitTypes, FrameUnits DEF Notice
<1> HIDE DEF f
<1>3. /\ SubSeq(f, 3, Len(f)) \in Seq(StreamUnit) /\ Len(SubSeq(f, 3, Len(f))) = Len(n)
      /\ \A i \in 1 .. Len(n) : SubSeq(f, 3, Len(f))[i] = n[i]
  BY <1>1, <1>2
<1>4. SubSeq(f, 3, Len(f)) = n
  BY <1>1, <1>3, SeqEqual
<1> QED
  BY <1>2, <1>4 DEF f, NameIn

\* No step disturbs the type of the daemon's state.
LEMMA DaemonTypeStep ==
  ASSUME TypeOK, HeldInv, DaemonTypeOK, [DaemonNext]_allVars
  PROVE  DaemonTypeOK'
<1> USE DEF DaemonTypeOK
<1>1. CASE Client
  <2>1. CASE \E type \in Requests, n \in Names : Send(type, n)
    <3>1. PICK type \in Requests, n \in Names : Send(type, n)
      BY <2>1
    <3>2. n \in Seq(StreamUnit) /\ type \in StreamUnit
      BY UnitTypes, NameUnits
    <3>f. Frame(type, n) \in Seq(StreamUnit)
      BY <3>2, UnitTypes, FrameUnits
    <3>3. inbox' \in Seq(StreamUnit)
      BY <3>1, <3>f, SeqGrows DEF Send
    <3>4. sent' \in Seq(Requests \X Names)
      BY <3>1 DEF Send
    <3> QED
      BY <3>1, <3>3, <3>4 DEF Send, vars, callerVars
  <2>2. CASE Receive
    BY <2>2 DEF Receive, vars, callerVars
  <2>3. CASE Connect \/ Close
    BY <2>3 DEF Connect, Close, vars, callerVars
  <2> QED
    BY <1>1, <2>1, <2>2, <2>3 DEF Client
<1>2. CASE Main
  <2>1. CASE PollRead
    <3>1. PICK k \in 1 .. Len(inbox) :
            msg' = SubSeq(inbox, 1, k) /\ inbox' = SubSeq(inbox, k + 1, Len(inbox))
      <4> DEFINE k == IF Len(inbox) < ReadMax THEN Len(inbox) ELSE ReadMax
      <4>1. k \in 1 .. Len(inbox)
        BY <2>1 DEF PollRead
      <4>2. msg' = SubSeq(inbox, 1, k) /\ inbox' = SubSeq(inbox, k + 1, Len(inbox))
        BY <2>1 DEF PollRead
      <4> QED
        BY <4>1, <4>2
    <3>2. msg' \in Seq(StreamUnit) /\ inbox' \in Seq(StreamUnit)
      BY <3>1
    <3> QED
      BY <2>1, <3>2 DEF PollRead, vars, callerVars
  <2>2. CASE DispatchEcho
    <3>1. Content \in Seq(StreamUnit)
      BY <2>2 DEF DispatchEcho, Dispatching, Complete, Content
    <3>2. Frame("EchoMessage", Content) \in Seq(StreamUnit)
      BY <3>1, UnitTypes, FrameUnits
    <3>3. outbox' \in Seq(Seq(StreamUnit))
      BY <2>2, <3>2, SeqGrows DEF DispatchEcho, WriteMessage
    <3>4. msg' \in Seq(StreamUnit)
      BY <2>2 DEF DispatchEcho
    <3> QED
      BY <2>2, <3>3, <3>4 DEF DispatchEcho, Dispatching, WriteMessage, vars, callerVars
  <2>3. CASE DispatchTrack
    BY <2>3 DEF DispatchTrack, TrackContent, connVars
  <2>4. CASE InsideTrack
    BY <2>4 DEF InsideTrack, CallerInside, InsertName, InsertHandle, InsertFolder,
       CallerReturns, daemonVars, connVars
  <2>5. CASE PopChange
    <3>1. Head(change_info) \in Names
      <4>1. Head(change_info) = change_info[1] /\ 1 \in 1 .. Len(change_info)
        BY <2>5 DEF PopChange, TryPopChangeInfo, TypeOK
      <4> QED
        BY <4>1 DEF HeldInv
    <3>2. Head(change_info) \in Seq(StreamUnit)
      BY <3>1, NameUnits
    <3>3. msg' \in Seq(StreamUnit)
      BY <2>5, <3>2, UnitTypes, FrameUnits DEF PopChange
    <3> QED
      BY <2>5, <3>3 DEF PopChange, TryPopChangeInfo, callerVars, connVars
  <2>6. CASE SendNotification
    BY <2>6 DEF SendNotification, WriteMessage, vars, callerVars
  <2>7. CASE WaitForConnection \/ PollNothing \/ PollFails \/ BrokenPipe \/ TrackReturns
    BY <2>7 DEF WaitForConnection, PollNothing, PollFails, BrokenPipe, TrackReturns, connVars,
       vars, callerVars
  <2>8. CASE DispatchRejected \/ DispatchTrackGarbled \/ DispatchGetFile \/ DispatchUnknown
    <3>1. /\ dpc = "dispatch" /\ dpc' \in {"dispatch", "pop"}
          /\ exited' \in {exited, "assert_track", "unknown_request"}
          /\ UNCHANGED <<connVars, cpc>>
      BY <2>8, Zenon DEF DispatchRejected, DispatchTrackGarbled, DispatchGetFile,
         DispatchUnknown, Dispatching, vars, callerVars
    <3>2. msg' \in Seq(StreamUnit)
      <4>1. msg' = msg \/ msg' = <<>>
        BY <2>8, Zenon DEF DispatchRejected, DispatchTrackGarbled, DispatchGetFile,
           DispatchUnknown
      <4>2. <<>> \in Seq(StreamUnit) /\ msg \in Seq(StreamUnit)
        OBVIOUS
      <4> QED
        BY <4>1, <4>2, Zenon
    <3>3. dpc' # dpc \/ exited' # exited => cpc = "idle"
      BY <3>1
    <3> QED
      BY <3>1, <3>2, <3>3 DEF connVars
  <2>9. CASE PopNothing \/ Join
    BY <2>9 DEF PopNothing, Join, connVars, vars, callerVars
  <2>10. CASE Stop
    BY <2>10 DEF Stop, StopListening, connVars, callerVars
  <2> QED
    BY <1>2, <2>1, <2>2, <2>3, <2>4, <2>5, <2>6, <2>7, <2>8, <2>9, <2>10
       DEF Main, MainLoop, Dispatch
<1>3. CASE ListenerThread
  <2>1. UNCHANGED callerVars
    BY <1>3 DEF ListenerThread, Listener, CheckStop, ReadEvents, EndOfBatch, ScanNamed,
       ScanFile, ScanFolder, ScanUnknown, ReAddMissing, ReAdd, Push, EraseHandle, Relink
  <2> QED
    BY <1>3, <2>1 DEF ListenerThread, daemonVars, connVars, callerVars
<1>4. CASE Surroundings
  BY <1>4 DEF Surroundings, DataRace, Environment, daemonVars, connVars, callerVars
<1>5. CASE UNCHANGED allVars
  BY <1>5 DEF allVars, daemonVars, connVars, vars, callerVars
<1> QED
  BY <1>1, <1>2, <1>3, <1>4, <1>5 DEF DaemonNext

-----------------------------------------------------------------------------
(* Notifications were requested.                                           *)

\* A request that was sent stays sent, and what is asked for by it.
LEMMA RequestedStays ==
  ASSUME sent \in Seq(Requests \X Names), NEW x,
         \/ UNCHANGED sent
         \/ \E r \in Requests \X Names : sent' = Append(sent, r)
  PROVE  /\ Requested(x) => Requested(x)'
         /\ AskedFor(x) => AskedFor(x)'
<1>1. ASSUME NEW y, Requested(y) PROVE Requested(y)'
  <2>1. PICK i \in 1 .. Len(sent) : sent[i] = <<"TrackThisFile", y>>
    BY <1>1 DEF Requested
  <2>2. i \in 1 .. Len(sent') /\ sent'[i] = sent[i]
    BY <2>1
  <2> QED
    BY <2>1, <2>2 DEF Requested
<1> QED
  BY <1>1 DEF AskedFor

\* Nothing more is asked for while nothing is sent.
LEMMA AskedSame ==
  ASSUME UNCHANGED sent, NEW x
  PROVE  Requested(x)' = Requested(x) /\ AskedFor(x)' = AskedFor(x)
<1>1. \A y : Requested(y)' = Requested(y)
  BY DEF Requested
<1> QED
  BY <1>1 DEF AskedFor

\* What is sent is requested.
LEMMA SentIsRequested ==
  ASSUME sent \in Seq(Requests \X Names), NEW n \in Names, "TrackThisFile" \in Requests,
         sent' = Append(sent, <<"TrackThisFile", n>>)
  PROVE  Requested(n)'
<1>1. Len(sent) + 1 \in 1 .. Len(sent') /\ sent'[Len(sent) + 1] = <<"TrackThisFile", n>>
  OBVIOUS
<1> QED
  BY <1>1 DEF Requested

\* The client's steps keep the tracker's names requested.
LEMMA HeldClient ==
  ASSUME DaemonTypeOK, HeldInv, UNCHANGED vars,
         \/ UNCHANGED sent
         \/ \E r \in Requests \X Names : sent' = Append(sent, r)
  PROVE  HeldInv'
<1>1. \A x : AskedFor(x) => AskedFor(x)'
  BY RequestedStays DEF DaemonTypeOK
<1> QED
  BY <1>1 DEF HeldInv, vars, mapVars, callerVars, listenerVars

\* insert into handle_to_file_name brings in no name but the new one.
LEMMA InsertHeld ==
  ASSUME NEW map, \A h \in DOMAIN map : AskedFor(map[h]), NEW wd, NEW x, AskedFor(x)
  PROVE  \A h \in DOMAIN Insert(map, wd, x) : AskedFor(Insert(map, wd, x)[h])
BY DEF Insert

\* A call under way puts into the maps what it was called with.
LEMMA HeldInside ==
  ASSUME HeldInv, CallerInside, UNCHANGED sent
  PROVE  HeldInv'
<1>1. \A x : AskedFor(x)' = AskedFor(x)
  BY AskedSame
<1>2. CASE InsertName
  BY <1>1, <1>2 DEF InsertName, HeldInv, listenerVars
<1>3. CASE InsertHandle
  <2>1. /\ handle_to_file_name' \in {Insert(handle_to_file_name, cwd, cname), handle_to_file_name}
        /\ AskedFor(cname) /\ cpc' = "idle"
        /\ UNCHANGED <<lpc, file_name, change_info, tracked_directory>>
    BY <1>3 DEF InsertHandle, InsertRaced, CallerReturns, HeldInv, listenerVars
  <2>2. \A h \in DOMAIN handle_to_file_name' : AskedFor(handle_to_file_name'[h])
    BY <2>1, InsertHeld DEF HeldInv
  <2> QED
    BY <1>1, <2>1, <2>2 DEF HeldInv
<1>4. CASE InsertFolder
  BY <1>4 DEF InsertFolder, HeldInv
<1> QED
  BY <1>2, <1>3, <1>4 DEF CallerInside

\* The listener passes on names it found in the map.
LEMMA HeldListener ==
  ASSUME TypeOK, HeldInv, Listener, UNCHANGED sent
  PROVE  HeldInv'
<1>1. \A x : AskedFor(x)' = AskedFor(x)
  BY AskedSame
<1>2. CASE CheckStop \/ ReadEvents \/ EndOfBatch \/ ScanNamed \/ ScanUnknown
  BY <1>1, <1>2 DEF CheckStop, ReadEvents, EndOfBatch, ScanNamed, ScanUnknown, InBatch,
     HeldInv, mapVars, callerVars
<1>3. CASE ScanFile
  BY <1>1, <1>3 DEF ScanFile, HeldInv, mapVars, callerVars
<1>4. CASE ScanFolder
  BY <1>4 DEF ScanFolder, HeldInv
<1>5. CASE ReAddMissing \/ ReAdd
  BY <1>1, <1>5 DEF ReAddMissing, ReAdd, HeldInv, mapVars, callerVars, listenerVars
<1>6. CASE Push
  <2>1. change_info' = Append(change_info, file_name) /\ AskedFor(file_name)
    BY <1>6 DEF Push, HeldInv
  <2>2. change_info \in Seq(Names \cup Folders)
    BY DEF TypeOK
  <2>f. file_name \in Names
    BY DEF TypeOK
  <2>3. \A i \in 1 .. Len(change_info') : change_info'[i] \in Names /\ AskedFor(change_info'[i])
    BY <2>1, <2>2, <2>f DEF HeldInv
  <2> QED
    BY <1>1, <1>6, <2>3 DEF Push, HeldInv, mapVars, callerVars
<1>7. CASE EraseHandle
  <2>1. /\ handle_to_file_name' = Erase(handle_to_file_name, Current.wd)
        /\ lpc \in {"erase"} /\ lpc' = "relink"
        /\ UNCHANGED <<cpc, cname, file_name, change_info, tracked_directory>>
    BY <1>7 DEF EraseHandle, callerVars
  <2>2. \A h \in DOMAIN handle_to_file_name' : AskedFor(handle_to_file_name'[h])
    BY <2>1 DEF Erase, HeldInv
  <2> QED
    BY <1>1, <2>1, <2>2 DEF HeldInv
<1>8. CASE Relink
  <2>1. /\ handle_to_file_name' \in {Insert(handle_to_file_name, change_handle, file_name),
                                      handle_to_file_name}
        /\ AskedFor(file_name) /\ lpc' = "scan"
        /\ UNCHANGED <<cpc, cname, change_info, tracked_directory>>
    BY <1>8 DEF Relink, HeldInv, callerVars
  <2>2. \A h \in DOMAIN handle_to_file_name' : AskedFor(handle_to_file_name'[h])
    BY <2>1, InsertHeld DEF HeldInv
  <2> QED
    BY <1>1, <2>1, <2>2 DEF HeldInv
<1> QED
  BY <1>2, <1>3, <1>4, <1>5, <1>6, <1>7, <1>8 DEF Listener

\* The content of a tracking request that is a name was asked for: the magic bytes
\* of a next message are in no name, and a shorter one was cut by a full read.
LEMMA ContentIsRequested ==
  ASSUME DaemonTypeOK, StreamInv, Dispatching("TrackThisFile"), NEW n \in Names, Content = n
  PROVE  AskedFor(n)
<1>1. /\ msg \in Seq(StreamUnit) /\ Len(msg) >= 2 /\ Complete
      /\ msg[2] = "TrackThisFile" /\ dpc = "dispatch"
  BY DEF DaemonTypeOK, Dispatching, Complete
<1>2. PICK m \in Names :
        /\ Requested(m) /\ Spelled(msg, 2, m)
        /\ Len(msg) < 2 + Len(m) => Len(msg) = ReadMax
        /\ Len(msg) > 2 + Len(m) => msg[3 + Len(m)] = "magic"
  BY <1>1 DEF StreamInv
<1>3. /\ n \in Seq(Characters) /\ m \in Seq(Characters)
      /\ Len(n) \in Nat /\ Len(m) \in Nat
      /\ \A i \in 1 .. Len(n) : n[i] # "magic"
  BY NameUnits
<1>4. /\ Len(n) = Len(msg) - 2 /\ Len(n) + 2 = Len(msg) /\ Len(msg) \in Nat
      /\ \A i \in 1 .. Len(n) : 2 + i \in 1 .. Len(msg) /\ n[i] = msg[2 + i]
  BY <1>1 DEF Content
<1>5. Len(n) <= Len(m)
  <2> SUFFICES ASSUME Len(n) > Len(m) PROVE FALSE
    BY <1>3
  <2>1. Len(m) + 1 \in 1 .. Len(n) /\ 2 + (Len(m) + 1) = 3 + Len(m)
    BY <1>3
  <2>2. n[Len(m) + 1] = msg[3 + Len(m)]
    BY <1>4, <2>1
  <2>3. msg[3 + Len(m)] = "magic"
    BY <1>2, <1>3, <1>4
  <2> QED
    BY <1>3, <2>1, <2>2, <2>3
<1>6. \A i \in 1 .. Len(n) : n[i] = m[i]
  <2> SUFFICES ASSUME NEW i \in 1 .. Len(n) PROVE n[i] = m[i]
    OBVIOUS
  <2>1. i \in 1 .. Len(m) /\ 2 + i <= Len(msg)
    BY <1>3, <1>4, <1>5
  <2> QED
    BY <1>2, <1>4, <2>1 DEF Spelled
<1>7. CASE Len(n) = Len(m)
  <2>1. n = m
    BY <1>3, <1>6, <1>7, SeqEqual
  <2> QED
    BY <1>2, <2>1 DEF AskedFor
<1>8. CASE Len(n) < Len(m)
  <2>1. Len(n) = ReadMax - 2 /\ ReadMax - 2 \in 0 .. Len(m) /\ Len(m) + 2 > ReadMax
    BY <1>2, <1>3, <1>4, <1>8
  <2>2. /\ SubSeq(m, 1, ReadMax - 2) \in Seq(Characters)
        /\ Len(SubSeq(m, 1, ReadMax - 2)) = ReadMax - 2
        /\ \A i \in 1 .. ReadMax - 2 : SubSeq(m, 1, ReadMax - 2)[i] = m[i]
    BY <1>3, <2>1
  <2>3. n = SubSeq(m, 1, ReadMax - 2)
    BY <1>3, <1>6, <2>1, <2>2, SeqEqual
  <2> QED
    BY <1>2, <2>1, <2>3 DEF AskedFor
<1> QED
  BY <1>3, <1>5, <1>7, <1>8

\* The main thread hands the tracker no name but one it read from the stream.
LEMMA HeldMain ==
  ASSUME TypeOK, DaemonTypeOK, RequestedInv, Main
  PROVE  HeldInv'
<1> USE DEF RequestedInv
<1>s. UNCHANGED sent
  BY DEF Main, MainLoop, WaitForConnection, PollNothing, PollRead, PollFails, Dispatch,
     DispatchRejected, DispatchEcho, DispatchTrack, TrackContent, DispatchTrackGarbled,
     DispatchGetFile, DispatchUnknown, BrokenPipe, InsideTrack, TrackReturns, PopNothing,
     PopChange, SendNotification, WriteMessage, Stop, Join, daemonVars, connVars
<1>r. \A x : AskedFor(x)' = AskedFor(x)
  BY <1>s, AskedSame
<1>1. CASE InsideTrack
  BY <1>1, <1>s, HeldInside DEF InsideTrack
<1>2. CASE DispatchTrack
  <2>1. PICK n \in Names : Content = n /\ (TrackFile(n, {"WriteChange"}) \/ TrackMissingFile(n))
    BY <1>2 DEF DispatchTrack, TrackContent
  <2>2. AskedFor(n)
    BY <1>2, <2>1, ContentIsRequested DEF DispatchTrack
  <2>3. CASE TrackFile(n, {"WriteChange"})
    BY <1>r, <2>2, <2>3 DEF TrackFile, HeldInv, mapVars, listenerVars
  <2>4. CASE TrackMissingFile(n)
    BY <1>r, <2>4 DEF TrackMissingFile, HeldInv, mapVars, callerVars, listenerVars
  <2> QED
    BY <2>1, <2>3, <2>4
<1>3. CASE PopChange
  <2>1. /\ change_info \in Seq(Names \cup Folders) /\ change_info # <<>>
        /\ change_info' = Tail(change_info)
        /\ UNCHANGED <<mapVars, callerVars, listenerVars>>
    BY <1>3 DEF PopChange, TryPopChangeInfo, TypeOK
  <2>2. \A i \in 1 .. Len(change_info') : change_info'[i] \in Names /\ AskedFor(change_info'[i])
    BY <2>1 DEF HeldInv
  <2> QED
    BY <1>r, <2>1, <2>2 DEF HeldInv, mapVars, callerVars, listenerVars
<1>4. CASE Stop
  BY <1>r, <1>4 DEF Stop, StopListening, HeldInv, mapVars, callerVars, listenerVars
<1>5. CASE UNCHANGED vars
  BY <1>5, <1>s, HeldClient
<1> QED
  BY <1>1, <1>2, <1>3, <1>4, <1>5 DEF Main, MainLoop, WaitForConnection, PollNothing,
     PollRead, PollFails, Dispatch, DispatchRejected, DispatchEcho, DispatchTrackGarbled,
     DispatchGetFile, DispatchUnknown, BrokenPipe, TrackReturns, PopNothing,
     SendNotification, Join

\* What the client sends arrives in whole frames, and stays apart from what
\* was sent before.
LEMMA StreamSend ==
  ASSUME DaemonTypeOK, StreamInv, NEW type \in Requests, NEW n \in Names, Send(type, n)
  PROVE  StreamInv'
<1> DEFINE f == Frame(type, n)
<1>f. /\ n \in Seq(StreamUnit) /\ Len(n) \in Nat /\ Len(n) > 0
      /\ \A i \in 1 .. Len(n) : n[i] # "magic"
      /\ type # "magic" /\ type \in StreamUnit
  BY NameUnits, UnitTypes
<1>g. /\ f \in Seq(StreamUnit) /\ Len(f) = 2 + Len(n) /\ f[1] = "magic" /\ f[2] = type
      /\ \A i \in 1 .. Len(n) : f[2 + i] = n[i]
  BY <1>f, UnitTypes, FrameUnits
<1>1. /\ inbox \in Seq(StreamUnit) /\ inbox' = inbox \o f
      /\ sent \in Seq(Requests \X Names) /\ sent' = Append(sent, <<type, n>>)
      /\ UNCHANGED <<dpc, msg>>
  BY DEF Send, DaemonTypeOK
<1> HIDE DEF f
<1>3. \A x : (Requested(x) => Requested(x)') /\ (AskedFor(x) => AskedFor(x)')
  BY <1>1, RequestedStays
<1>4. type = "TrackThisFile" => Requested(n)'
  BY <1>1, SentIsRequested
<1>5. /\ Len(inbox') = Len(inbox) + 2 + Len(n) /\ Len(inbox) \in Nat
      /\ \A i \in 1 .. Len(inbox) : inbox'[i] = inbox[i]
      /\ inbox'[Len(inbox) + 1] = "magic" /\ inbox'[Len(inbox) + 2] = type
      /\ \A i \in 1 .. Len(n) : inbox'[Len(inbox) + 2 + i] = n[i]
  <2>1. /\ Len(inbox') = Len(inbox) + Len(f) /\ Len(inbox) \in Nat
        /\ \A i \in 1 .. Len(inbox) : inbox'[i] = inbox[i]
        /\ \A i \in 1 .. Len(f) : inbox'[Len(inbox) + i] = f[i]
    <3>1. PICK q \in Seq(StreamUnit), r \in Seq(StreamUnit) : q = inbox /\ r = f
      BY <1>1, <1>g
    <3>2. /\ Len(q \o r) = Len(q) + Len(r) /\ Len(q) \in Nat
          /\ \A i \in 1 .. Len(q) : (q \o r)[i] = q[i]
          /\ \A i \in 1 .. Len(r) : (q \o r)[Len(q) + i] = r[i]
      BY ConcatUnits
    <3> QED
      BY <1>1, <3>1, <3>2, Zenon
  <2>2. \A i \in 1 .. Len(n) : 2 + i \in 1 .. Len(f) /\ Len(inbox) + (2 + i) = Len(inbox) + 2 + i
    BY <1>f, <1>g, <2>1
  <2>3. 1 \in 1 .. Len(f) /\ 2 \in 1 .. Len(f)
    BY <1>f, <1>g
  <2>4. \A i \in 1 .. Len(n) : inbox'[Len(inbox) + 2 + i] = n[i]
    BY <1>g, <2>1, <2>2
  <2> QED
    BY <1>f, <1>g, <2>1, <2>3, <2>4
<1>6. ASSUME NEW i \in 1 .. Len(inbox'), inbox'[i] = "magic"
      PROVE  /\ i < Len(inbox')
             /\ inbox'[i + 1] = "TrackThisFile" =>
                  \E m \in Names :
                    /\ Requested(m)' /\ Spelled(inbox', i + 1, m)
                    /\ i + 1 + Len(m) <= Len(inbox')
                    /\ i + 1 + Len(m) < Len(inbox') => inbox'[i + 2 + Len(m)] = "magic"
  <2>1. CASE i \in 1 .. Len(inbox)
    <3>1. /\ inbox[i] = "magic" /\ i < Len(inbox)
          /\ i + 1 \in 1 .. Len(inbox) /\ inbox'[i + 1] = inbox[i + 1]
      BY <1>5, <1>6, <2>1 DEF StreamInv
    <3>2. ASSUME inbox[i + 1] = "TrackThisFile"
          PROVE  \E m \in Names :
                    /\ Requested(m)' /\ Spelled(inbox', i + 1, m)
                    /\ i + 1 + Len(m) <= Len(inbox')
                    /\ i + 1 + Len(m) < Len(inbox') => inbox'[i + 2 + Len(m)] = "magic"
      <4>1. PICK m \in Names :
              /\ Requested(m) /\ Spelled(inbox, i + 1, m)
              /\ i + 1 + Len(m) <= Len(inbox)
              /\ i + 1 + Len(m) < Len(inbox) => inbox[i + 2 + Len(m)] = "magic"
        BY <2>1, <3>1, <3>2 DEF StreamInv
      <4>2. Len(m) \in Nat
        BY NameUnits
      <4>3. Spelled(inbox', i + 1, m)
        <5> SUFFICES ASSUME NEW j \in 1 .. Len(m) PROVE inbox'[i + 1 + j] = m[j]
          BY DEF Spelled
        <5>1. i + 1 + j \in 1 .. Len(inbox)
          BY <2>1, <4>1, <4>2
        <5> QED
          BY <1>5, <4>1, <5>1 DEF Spelled
      <4>4. inbox'[i + 2 + Len(m)] = "magic"
        <5>1. CASE i + 1 + Len(m) < Len(inbox)
          BY <1>5, <2>1, <4>1, <4>2, <5>1
        <5>2. CASE i + 1 + Len(m) = Len(inbox)
          <6>1. i + 2 + Len(m) = Len(inbox) + 1
            BY <2>1, <4>2, <5>2
          <6> QED
            BY <1>5, <6>1
        <5> QED
          BY <1>5, <2>1, <4>1, <4>2, <5>1, <5>2
      <4>5. i + 1 + Len(m) <= Len(inbox')
        BY <1>f, <1>5, <2>1, <4>1, <4>2
      <4> QED
        BY <1>3, <4>1, <4>3, <4>4, <4>5
    <3> QED
      BY <1>f, <1>5, <3>1, <3>2
  <2>2. CASE i \notin 1 .. Len(inbox)
    <3>1. i = Len(inbox) + 1
      <4>1. i \in Nat /\ i > Len(inbox) /\ i <= Len(inbox) + 2 + Len(n)
        BY <1>f, <1>5, <2>2
      <4>2. i # Len(inbox) + 2
        BY <1>f, <1>5, <1>6
      <4>3. ASSUME i > Len(inbox) + 2 PROVE FALSE
        <5>1. PICK j \in 1 .. Len(n) : Len(inbox) + 2 + j = i
          <6>1. i - (Len(inbox) + 2) \in 1 .. Len(n) /\ Len(inbox) + 2 + (i - (Len(inbox) + 2)) = i
            BY <1>f, <1>5, <4>1, <4>3
          <6> QED
            BY <6>1
        <5>2. inbox'[i] = n[j] /\ n[j] # "magic"
          BY <1>f, <1>5, <5>1
        <5> QED
          BY <1>6, <5>2
      <4> QED
        BY <1>5, <4>1, <4>2, <4>3
    <3>2. /\ i + 1 = Len(inbox) + 2 /\ i + 1 + Len(n) = Len(inbox')
      BY <1>f, <1>5, <3>1
    <3>3. Spelled(inbox', i + 1, n)
      BY <1>5, <3>2 DEF Spelled
    <3>4. inbox'[i + 1] = type /\ i < Len(inbox')
      BY <1>f, <1>5, <3>1, <3>2
    <3>5. i + 1 + Len(n) <= Len(inbox') /\ ~(i + 1 + Len(n) < Len(inbox'))
      BY <1>f, <1>5, <3>2
    <3> QED
      BY <1>4, <3>3, <3>4, <3>5
  <2> QED
    BY <2>1, <2>2
<1>7. dpc = "dispatch" /\ Complete /\ msg[2] = "TrackThisFile" =>
       \E m \in Names :
         /\ Requested(m)' /\ Spelled(msg, 2, m)
         /\ Len(msg) < 2 + Len(m) => Len(msg) = ReadMax
         /\ Len(msg) > 2 + Len(m) => msg[3 + Len(m)] = "magic"
  BY <1>3 DEF StreamInv
<1>8. dpc = "notify" => \E x \in Names : msg = Notice(x) /\ AskedFor(x)'
  BY <1>3 DEF StreamInv
<1> QED
  BY <1>1, <1>6, <1>7, <1>8 DEF StreamInv, Complete, Notice, Frame, Spelled

\* A read cuts the stream anywhere: what is left still ends in whole frames, and
\* behind the head of a request is what was read of its name.
LEMMA StreamRead ==
  ASSUME DaemonTypeOK, StreamInv, PollRead
  PROVE  StreamInv'
<1> DEFINE k == IF Len(inbox) < ReadMax THEN Len(inbox) ELSE ReadMax
<1>1. /\ inbox \in Seq(StreamUnit) /\ inbox # <<>>
      /\ msg' = SubSeq(inbox, 1, k) /\ inbox' = SubSeq(inbox, k + 1, Len(inbox))
      /\ dpc' = "dispatch" /\ UNCHANGED sent
  BY DEF PollRead, DaemonTypeOK
<1>2. k \in 1 .. Len(inbox) /\ (k < Len(inbox) => k = ReadMax)
  BY <1>1
<1> HIDE DEF k
<1>3. \A x : Requested(x)' = Requested(x)
  BY <1>1, AskedSame
<1>4. /\ Len(inbox) \in Nat /\ Len(inbox') = Len(inbox) - k /\ Len(msg') = k
      /\ \A i \in 1 .. k : msg'[i] = inbox[i]
      /\ \A i \in 1 .. Len(inbox) - k : inbox'[i] = inbox[k + i]
  BY <1>1, <1>2
<1>5. ASSUME NEW i \in 1 .. Len(inbox'), inbox'[i] = "magic"
      PROVE  /\ i < Len(inbox')
             /\ inbox'[i + 1] = "TrackThisFile" =>
                  \E m \in Names :
                    /\ Requested(m) /\ Spelled(inbox', i + 1, m)
                    /\ i + 1 + Len(m) <= Len(inbox')
                    /\ i + 1 + Len(m) < Len(inbox') => inbox'[i + 2 + Len(m)] = "magic"
  <2>1. k + i \in 1 .. Len(inbox) /\ inbox[k + i] = "magic"
    BY <1>2, <1>4, <1>5
  <2>2. k + i < Len(inbox)
    BY <2>1 DEF StreamInv
  <2>3. i < Len(inbox') /\ i + 1 \in 1 .. Len(inbox) - k /\ k + (i + 1) = k + i + 1
    BY <1>2, <1>4, <2>2
  <2>4. inbox'[i + 1] = inbox[k + i + 1]
    BY <1>4, <2>3
  <2>5. ASSUME inbox[k + i + 1] = "TrackThisFile"
        PROVE  \E m \in Names :
                 /\ Requested(m) /\ Spelled(inbox', i + 1, m)
                 /\ i + 1 + Len(m) <= Len(inbox')
                 /\ i + 1 + Len(m) < Len(inbox') => inbox'[i + 2 + Len(m)] = "magic"
    <3>1. PICK m \in Names :
            /\ Requested(m) /\ Spelled(inbox, k + i + 1, m)
            /\ k + i + 1 + Len(m) <= Len(inbox)
            /\ k + i + 1 + Len(m) < Len(inbox) => inbox[k + i + 2 + Len(m)] = "magic"
      BY <2>1, <2>5 DEF StreamInv
    <3>2. Len(m) \in Nat
      BY NameUnits
    <3>3. Spelled(inbox', i + 1, m)
      <4> SUFFICES ASSUME NEW j \in 1 .. Len(m) PROVE inbox'[i + 1 + j] = m[j]
        BY DEF Spelled
      <4>1. /\ i + 1 + j \in 1 .. Len(inbox) - k /\ k + (i + 1 + j) = k + i + 1 + j
            /\ k + i + 1 + j <= Len(inbox)
        BY <1>2, <1>4, <3>1, <3>2
      <4>2. inbox'[i + 1 + j] = inbox[k + i + 1 + j]
        BY <1>4, <4>1
      <4> QED
        BY <3>1, <4>1, <4>2 DEF Spelled
    <3>4. i + 1 + Len(m) <= Len(inbox')
      BY <1>2, <1>4, <3>1, <3>2
    <3>5. ASSUME i + 1 + Len(m) < Len(inbox') PROVE inbox'[i + 2 + Len(m)] = "magic"
      <4>1. /\ i + 2 + Len(m) \in 1 .. Len(inbox) - k
            /\ k + (i + 2 + Len(m)) = k + i + 2 + Len(m)
            /\ k + i + 1 + Len(m) < Len(inbox)
        BY <1>2, <1>4, <3>2, <3>5
      <4> QED
        BY <1>4, <3>1, <4>1
    <3> QED
      BY <3>1, <3>3, <3>4, <3>5
  <2> QED
    BY <2>3, <2>4, <2>5
<1>6. ASSUME Len(msg') >= 2, msg'[1] = "magic", msg'[2] = "TrackThisFile"
      PROVE  \E m \in Names :
               /\ Requested(m) /\ Spelled(msg', 2, m)
               /\ Len(msg') < 2 + Len(m) => Len(msg') = ReadMax
               /\ Len(msg') > 2 + Len(m) => msg'[3 + Len(m)] = "magic"
  <2>1. 1 \in 1 .. Len(inbox) /\ inbox[1] = "magic" /\ inbox[1 + 1] = "TrackThisFile"
    BY <1>2, <1>4, <1>6
  <2>2. PICK m \in Names :
          /\ Requested(m) /\ Spelled(inbox, 1 + 1, m)
          /\ 1 + 1 + Len(m) <= Len(inbox)
          /\ 1 + 1 + Len(m) < Len(inbox) => inbox[1 + 2 + Len(m)] = "magic"
    BY <2>1 DEF StreamInv
  <2>3. Len(m) \in Nat
    BY NameUnits
  <2>4. Spelled(msg', 2, m)
    <3> SUFFICES ASSUME NEW j \in 1 .. Len(m), 2 + j <= Len(msg') PROVE msg'[2 + j] = m[j]
      BY DEF Spelled
    <3>1. 2 + j \in 1 .. k /\ 1 + 1 + j = 2 + j /\ 2 + j <= Len(inbox)
      BY <1>2, <1>4, <2>3
    <3>2. inbox[2 + j] = m[j]
      BY <2>2, <3>1 DEF Spelled
    <3> QED
      BY <1>4, <3>1, <3>2
  <2>5. Len(msg') < 2 + Len(m) => Len(msg') = ReadMax
    BY <1>2, <1>4, <2>2, <2>3
  <2>6. ASSUME Len(msg') > 2 + Len(m) PROVE msg'[3 + Len(m)] = "magic"
    <3>1. /\ 3 + Len(m) \in 1 .. k /\ 1 + 2 + Len(m) = 3 + Len(m)
          /\ 1 + 1 + Len(m) < Len(inbox)
      BY <1>2, <1>4, <2>3, <2>6
    <3> QED
      BY <1>4, <2>2, <3>1
  <2> QED
    BY <2>2, <2>4, <2>5, <2>6
<1> QED
  BY <1>1, <1>3, <1>5, <1>6 DEF StreamInv, Complete, Spelled

\* A notification that is being built is about a name the tracker holds.
LEMMA StreamPop ==
  ASSUME TypeOK, DaemonTypeOK, RequestedInv, PopChange
  PROVE  StreamInv'
<1> DEFINE n == Head(change_info)
<1>1. /\ change_info \in Seq(Names \cup Folders) /\ change_info # <<>>
      /\ msg' = Notice(n) /\ dpc' = "notify"
      /\ UNCHANGED <<inbox, sent>>
  BY DEF PopChange, TryPopChangeInfo, TypeOK, connVars, Notice
<1>2. n \in Names /\ AskedFor(n)
  <2>1. 1 \in 1 .. Len(change_info) /\ n = change_info[1]
    BY <1>1
  <2> QED
    BY <2>1 DEF RequestedInv, HeldInv
<1>3. \A x : Requested(x)' = Requested(x) /\ AskedFor(x)' = AskedFor(x)
  BY <1>1, AskedSame
<1>4. \E x \in Names : msg' = Notice(x) /\ AskedFor(x)'
  BY <1>1, <1>2, <1>3
<1> HIDE DEF n
<1> QED
  BY <1>1, <1>3, <1>4 DEF RequestedInv, StreamInv, Spelled, Notice, Frame

\* The other steps neither read nor build a message.
LEMMA StreamFrame ==
  ASSUME StreamInv, UNCHANGED <<inbox, sent>>,
         dpc' \notin {"dispatch", "notify"} \/ UNCHANGED <<dpc, msg>>
  PROVE  StreamInv'
BY AskedSame DEF StreamInv, Complete, Spelled, Notice, Frame

\* The stream carries requests that were sent, whoever moves.
LEMMA StreamStep ==
  ASSUME TypeOK, DaemonTypeOK, RequestedInv, [DaemonNext]_allVars
  PROVE  StreamInv'
<1>i. StreamInv
  BY DEF RequestedInv
<1>1. CASE PollRead
  BY <1>i, <1>1, StreamRead
<1>2. CASE PopChange
  BY <1>2, StreamPop
<1>3. ASSUME NEW type \in Requests, NEW n \in Names, Send(type, n) PROVE StreamInv'
  BY <1>i, <1>3, StreamSend
<1>4. CASE Connect \/ Receive \/ Close \/ UNCHANGED daemonVars
  BY <1>i, <1>4, StreamFrame DEF Connect, Receive, Close, daemonVars, connVars
<1>5. CASE WaitForConnection \/ PollNothing \/ PollFails \/ BrokenPipe \/ TrackReturns
           \/ PopNothing \/ Stop \/ Join
  BY <1>i, <1>5, StreamFrame DEF WaitForConnection, PollNothing, PollFails, BrokenPipe,
     TrackReturns, PopNothing, Stop, Join, connVars
<1>6. CASE Dispatch
  BY <1>i, <1>6, StreamFrame DEF Dispatch, DispatchRejected, DispatchEcho, WriteMessage,
     DispatchTrack, TrackContent, DispatchTrackGarbled, DispatchGetFile, DispatchUnknown,
     connVars
<1>7. CASE SendNotification
  BY <1>i, <1>7, StreamFrame DEF SendNotification, WriteMessage
<1> QED
  BY <1>1, <1>2, <1>3, <1>4, <1>5, <1>6, <1>7 DEF DaemonNext, Client, Main, MainLoop,
     InsideTrack, ListenerThread, Surroundings, allVars

\* Only a notification of a requested name is appended to the socket, and an
\* echo reply is none.
LEMMA NotificationsStep ==
  ASSUME DaemonTypeOK, RequestedInv, [DaemonNext]_allVars
  PROVE  NotificationsWereRequested'
<1>t. outbox \in Seq(Seq(StreamUnit)) /\ sent \in Seq(Requests \X Names)
  BY DEF DaemonTypeOK
<1>i. \A i \in 1 .. Len(outbox) : \A n \in Names : outbox[i] = Notice(n) => AskedFor(n)
  BY DEF RequestedInv, NotificationsWereRequested
<1>n. \A n \in Names : Notice(n)[2] = "TrackedFileChanged"
  BY NoticeName
<1>1. CASE UNCHANGED <<outbox, sent>>
  BY <1>1, <1>i, AskedSame DEF NotificationsWereRequested, Notice, Frame
<1>2. ASSUME NEW type \in Requests, NEW n \in Names, Send(type, n)
      PROVE  NotificationsWereRequested'
  <2>1. UNCHANGED outbox /\ \A x : AskedFor(x) => AskedFor(x)'
    BY <1>2, <1>t, RequestedStays DEF Send
  <2> QED
    BY <2>1, <1>i DEF NotificationsWereRequested, Notice, Frame
<1>3. CASE Receive
  <2>1. outbox # <<>> /\ outbox' = Tail(outbox) /\ UNCHANGED sent
    BY <1>3 DEF Receive
  <2>2. \A i \in 1 .. Len(outbox') : i + 1 \in 1 .. Len(outbox) /\ outbox'[i] = outbox[i + 1]
    BY <1>t, <2>1
  <2>3. \A x : AskedFor(x)' = AskedFor(x)
    BY <2>1, AskedSame
  <2> QED
    BY <1>i, <2>2, <2>3 DEF NotificationsWereRequested, Notice, Frame
\* One more message is written.
<1>a. ASSUME NEW m, WriteMessage(m), \A n \in Names : m = Notice(n) => AskedFor(n)
      PROVE  NotificationsWereRequested'
  <2>1. outbox' = Append(outbox, m) /\ UNCHANGED sent
    BY <1>a DEF WriteMessage
  <2>2. \A i \in 1 .. Len(outbox') : outbox'[i] = m \/ (i \in 1 .. Len(outbox) /\ outbox'[i] = outbox[i])
    BY <1>t, <2>1
  <2>3. \A x : AskedFor(x)' = AskedFor(x)
    BY <2>1, AskedSame
  <2>4. \A i \in 1 .. Len(outbox') : \A n \in Names : outbox'[i] = Notice(n) => AskedFor(n)
    BY <1>i, <1>a, <2>2
  <2> QED
    BY <2>3, <2>4 DEF NotificationsWereRequested, Notice, Frame
<1>4. CASE DispatchEcho
  <2>1. Content \in Seq(StreamUnit) /\ WriteMessage(Frame("EchoMessage", Content))
    BY <1>4 DEF DispatchEcho, Dispatching, Complete, Content, DaemonTypeOK
  <2>2. Frame("EchoMessage", Content)[2] = "EchoMessage"
    BY <2>1, UnitTypes, FrameUnits
  <2> QED
    BY <1>a, <1>n, <2>1, <2>2
<1>5. CASE SendNotification
  <2>1. dpc = "notify" /\ WriteMessage(msg)
    BY <1>5 DEF SendNotification
  <2>2. PICK x \in Names : msg = Notice(x) /\ AskedFor(x)
    BY <2>1 DEF RequestedInv, StreamInv
  <2>3. \A n \in Names : msg = Notice(n) => n = x
    BY <2>2, NoticeName
  <2> QED
    BY <1>a, <2>1, <2>2, <2>3
<1>6. CASE Connect \/ Close \/ UNCHANGED daemonVars
  BY <1>1, <1>6 DEF Connect, Close, daemonVars, connVars
<1>7. CASE Main /\ ~DispatchEcho /\ ~SendNotification
  BY <1>1, <1>7 DEF Main, MainLoop, WaitForConnection, PollNothing, PollRead, PollFails,
     Dispatch, DispatchRejected, DispatchTrack, TrackContent, DispatchTrackGarbled,
     DispatchGetFile, DispatchUnknown, BrokenPipe, InsideTrack, TrackReturns, PopNothing,
     PopChange, Stop, Join, daemonVars, connVars
<1> QED
  BY <1>2, <1>3, <1>4, <1>5, <1>6, <1>7 DEF DaemonNext, Client, ListenerThread,
     Surroundings, allVars

\* The tracker's names were requested, whoever moves.
LEMMA HeldStep ==
  ASSUME TypeOK, DaemonTypeOK, RequestedInv, [DaemonNext]_allVars
  PROVE  HeldInv'
<1>i. HeldInv
  BY DEF RequestedInv
<1>1. CASE Main
  BY <1>1, HeldMain
<1>2. CASE Client
  <2>1. UNCHANGED vars
    BY <1>2 DEF Client, Connect, Receive, Close, Send
  <2>2. UNCHANGED sent \/ \E r \in Requests \X Names : sent' = Append(sent, r)
    BY <1>2 DEF Client, Connect, Receive, Close, Send
  <2> QED
    BY <1>i, <2>1, <2>2, HeldClient
<1>3. CASE ListenerThread
  BY <1>i, <1>3, HeldListener DEF ListenerThread, daemonVars, connVars
<1>4. CASE Surroundings
  <2>1. UNCHANGED <<mapVars, change_info, callerVars, listenerVars, sent>>
    BY <1>4 DEF Surroundings, DataRace, Environment, daemonVars, connVars
  <2>2. \A x : AskedFor(x)' = AskedFor(x)
    BY <2>1, AskedSame
  <2> QED
    BY <1>i, <2>1, <2>2 DEF HeldInv, mapVars, callerVars, listenerVars
<1>5. CASE UNCHANGED allVars
  <2>1. UNCHANGED vars /\ UNCHANGED sent
    BY <1>5 DEF allVars, daemonVars, connVars
  <2> QED
    BY <1>i, <2>1, HeldClient
<1> QED
  BY <1>1, <1>2, <1>3, <1>4, <1>5 DEF DaemonNext

\* The inductive invariant holds at the start.
LEMMA DaemonStart == DaemonInit => DaemonTypeOK /\ RequestedInv
<1> SUFFICES ASSUME DaemonInit PROVE DaemonTypeOK /\ RequestedInv
  OBVIOUS
<1>1. DaemonTypeOK
  BY DEF DaemonInit, Init, DaemonTypeOK
<1>2. RequestedInv
  BY DEF DaemonInit, Init, RequestedInv, NotificationsWereRequested, StreamInv, Complete, HeldInv,
     EmptyMap
<1> QED
  BY <1>1, <1>2

\* The type invariant and the inductive invariant hold together: each needs the
\* other, and the tracker's types.
LEMMA DaemonInvariants == DaemonSpec => [](DaemonTypeOK /\ RequestedInv)
<1>1. DaemonSpec => []TypeOK
  BY DaemonKeepsTrackerSafe, PTL
<1>2. TypeOK /\ DaemonTypeOK /\ RequestedInv /\ [DaemonNext]_allVars
        => (DaemonTypeOK /\ RequestedInv)'
  <2>1. RequestedInv => HeldInv
    BY DEF RequestedInv
  <2>2. HeldInv' /\ StreamInv' /\ NotificationsWereRequested' => RequestedInv'
    BY DEF RequestedInv
  <2> QED
    BY <2>1, <2>2, DaemonTypeStep, HeldStep, StreamStep, NotificationsStep
<1> QED
  BY <1>1, <1>2, DaemonStart, PTL DEF DaemonSpec

\* The daemon's variables keep their types, and the main thread is inside the
\* tracker only where it has called it (runtime.cpp:78, 126-151).
THEOREM DaemonTypeCorrect == DaemonSpec => []DaemonTypeOK
BY DaemonInvariants, PTL

\* Every name the tracker holds, and every tracking request that is still in
\* the stream or in the buffer, was asked for by the client.
THEOREM HeldNamesAreRequested == DaemonSpec => []RequestedInv
BY DaemonInvariants, PTL

\* The client is only told of files it has asked to be tracked: whatever it
\* sends, wherever a read cuts the stream, and whichever way the listener, the
\* files and the main thread interleave.
THEOREM OnlyRequestedAreNotified == DaemonSpec => []NotificationsWereRequested
<1>1. RequestedInv => NotificationsWereRequested
  BY DEF RequestedInv
<1> QED
  BY <1>1, HeldNamesAreRequested, PTL
-----------------------------------------------------------------------------
(* The notices reach the client as the abstract feed.                      *)

\* The recursion behind Noticed has a solution on every sequence of messages.
LEMMA NoticedExists ==
  ASSUME NEW s, Len(s) \in Nat
  PROVE  NoticedUpTo(s) = [i \in 0 .. Len(s) |->
           IF i = 0 THEN <<>> ELSE NoticedUpTo(s)[i - 1] \o NameIn(s[i])]
<1> DEFINE Solves(k, g) ==
             g = [i \in 0 .. k |-> IF i = 0 THEN <<>> ELSE g[i - 1] \o NameIn(s[i])]
           P == {k \in Nat : \E g : Solves(k, g)}
<1>1. 0 \in P
  <2> DEFINE g == [i \in 0 .. 0 |-> <<>>]
  <2>1. Solves(0, g)
    OBVIOUS
  <2> QED
    BY <2>1
<1>2. ASSUME NEW k \in Nat, k \in P PROVE k + 1 \in P
  <2>1. PICK f : Solves(k, f)
    BY <1>2
  <2>2. f[0] = <<>> /\ \A i \in 0 .. k : i # 0 => f[i] = f[i - 1] \o NameIn(s[i])
    <3>1. \A i \in 0 .. k : i # 0 => f[i] = f[i - 1] \o NameIn(s[i])
      BY <2>1, Zenon
    <3> QED
      BY <2>1, <3>1
  <2> DEFINE g == [i \in 0 .. k + 1 |-> IF i = k + 1 THEN f[k] \o NameIn(s[k + 1]) ELSE f[i]]
             Value(i) == IF i = 0 THEN <<>> ELSE g[i - 1] \o NameIn(s[i])
  <2>4. g[k + 1] = f[k] \o NameIn(s[k + 1]) /\ \A i \in 0 .. k : g[i] = f[i]
    OBVIOUS
  <2>5. ASSUME NEW i \in 0 .. k + 1 PROVE g[i] = Value(i)
    <3> HIDE DEF g
    <3>1. CASE i = k + 1
      <4>1. i - 1 = k /\ k \in 0 .. k /\ i # 0
        BY <3>1
      <4>2. g[i - 1] = f[k]
        BY <2>4, <4>1, Zenon
      <4> QED
        BY <2>4, <3>1, <4>1, <4>2, Zenon
    <3>2. CASE i \in 1 .. k
      <4>1. i \in 0 .. k /\ i - 1 \in 0 .. k /\ i # 0
        BY <3>2
      <4>2. g[i] = f[i] /\ g[i - 1] = f[i - 1]
        BY <2>4, <4>1, Zenon
      <4> QED
        BY <2>2, <4>1, <4>2, Zenon
    <3>3. CASE i = 0
      <4>1. 0 \in 0 .. k
        OBVIOUS
      <4> QED
        BY <2>2, <2>4, <3>3, <4>1, Zenon
    <3> QED
      BY <3>1, <3>2, <3>3
  <2>3. Solves(k + 1, g)
    <3>1. g = [i \in 0 .. k + 1 |-> g[i]]
      OBVIOUS
    <3> HIDE DEF g
    <3> QED
      BY <2>5, <3>1, Zenon
  <2> HIDE DEF g, Solves
  <2> QED
    BY <2>3
<1> HIDE DEF P
<1>3. Nat \subseteq P
  BY <1>1, <1>2, NatSteps
<1>4. \E g : Solves(Len(s), g)
  BY <1>3 DEF P
<1> QED
  BY <1>4 DEF NoticedUpTo

\* Its values, one message after the other.
LEMMA NoticedValues ==
  ASSUME NEW s, Len(s) \in Nat
  PROVE  /\ NoticedUpTo(s)[0] = <<>>
         /\ \A k \in Nat : k + 1 <= Len(s) =>
              NoticedUpTo(s)[k + 1] = NoticedUpTo(s)[k] \o NameIn(s[k + 1])
<1> DEFINE N == NoticedUpTo(s)
<1>1. N = [i \in 0 .. Len(s) |-> IF i = 0 THEN <<>> ELSE N[i - 1] \o NameIn(s[i])]
  BY NoticedExists
<1> HIDE DEF N
<1>2. N[0] = <<>>
  BY <1>1
<1>3. ASSUME NEW k \in Nat, k + 1 <= Len(s) PROVE N[k + 1] = N[k] \o NameIn(s[k + 1])
  <2>1. \A i \in 0 .. Len(s) : i # 0 => N[i] = N[i - 1] \o NameIn(s[i])
    BY <1>1, Zenon
  <2>2. PICK i \in 0 .. Len(s) : i = k + 1 /\ i # 0 /\ i - 1 = k
    BY <1>3
  <2>3. N[i] = N[i - 1] \o NameIn(s[i])
    BY <2>1, <2>2, Zenon
  <2> QED
    BY <2>2, <2>3, Zenon
<1> QED
  BY <1>2, <1>3 DEF N

\* Whatever a message is, NameIn is a sequence of what may stand in its place.
Told(M) == {SubSeq(m, 3, Len(m)) : m \in M}

LEMMA NameInType ==
  ASSUME NEW M, NEW m \in M
  PROVE  NameIn(m) \in Seq(Told(M))
<1>1. SubSeq(m, 3, Len(m)) \in Told(M)
  BY DEF Told
<1> QED
  BY <1>1 DEF NameIn

\* All the notices of a sequence form one.
LEMMA NoticedType ==
  ASSUME NEW M, NEW s \in Seq(M)
  PROVE  /\ Noticed(s) \in Seq(Told(M))
         /\ \A i \in 0 .. Len(s) : NoticedUpTo(s)[i] \in Seq(Told(M))
<1> DEFINE P == {k \in Nat : k <= Len(s) => NoticedUpTo(s)[k] \in Seq(Told(M))}
<1>n. Len(s) \in Nat
  OBVIOUS
<1>1. 0 \in P
  <2>1. NoticedUpTo(s)[0] = <<>>
    BY <1>n, NoticedValues, Zenon
  <2>2. <<>> \in Seq(Told(M)) /\ 0 \in Nat
    OBVIOUS
  <2> QED
    BY <2>1, <2>2, Zenon
<1>2. ASSUME NEW k \in Nat, k \in P PROVE k + 1 \in P
  <2> SUFFICES ASSUME k + 1 <= Len(s) PROVE NoticedUpTo(s)[k + 1] \in Seq(Told(M))
    OBVIOUS
  <2>1. NoticedUpTo(s)[k + 1] = NoticedUpTo(s)[k] \o NameIn(s[k + 1])
    BY <1>n, NoticedValues, Zenon
  <2>2. NoticedUpTo(s)[k] \in Seq(Told(M)) /\ NameIn(s[k + 1]) \in Seq(Told(M))
    BY <1>2, NameInType
  <2> QED
    BY <2>1, <2>2
<1>3. Nat \subseteq P
  <2> HIDE DEF P
  <2> QED
    BY <1>1, <1>2, NatSteps
<1> QED
  BY <1>3 DEF Noticed

\* A message that is written comes last among the notices...
LEMMA NoticedAppend ==
  ASSUME NEW M, NEW s \in Seq(M), NEW m \in M
  PROVE  Noticed(Append(s, m)) = Noticed(s) \o NameIn(m)
<1> DEFINE t == Append(s, m)
           P == {k \in Nat : k <= Len(s) => NoticedUpTo(t)[k] = NoticedUpTo(s)[k]}
<1>1. /\ Len(s) \in Nat /\ Len(t) \in Nat /\ Len(t) = Len(s) + 1 /\ t[Len(s) + 1] = m
      /\ \A i \in 1 .. Len(s) : t[i] = s[i]
  OBVIOUS
<1> HIDE DEF t
<1>2. 0 \in P
  <2>1. NoticedUpTo(s)[0] = <<>> /\ NoticedUpTo(t)[0] = <<>>
    BY <1>1, NoticedValues, Zenon
  <2> QED
    BY <2>1
<1>3. ASSUME NEW k \in Nat, k \in P PROVE k + 1 \in P
  <2> SUFFICES ASSUME k + 1 <= Len(s) PROVE NoticedUpTo(t)[k + 1] = NoticedUpTo(s)[k + 1]
    OBVIOUS
  <2>n. Len(s) \in Nat /\ Len(t) \in Nat /\ k + 1 <= Len(t) /\ k + 1 \in 1 .. Len(s) /\ k <= Len(s)
    BY <1>1
  <2>1. NoticedUpTo(t)[k + 1] = NoticedUpTo(t)[k] \o NameIn(t[k + 1])
    BY <2>n, NoticedValues, Zenon
  <2>2. NoticedUpTo(s)[k + 1] = NoticedUpTo(s)[k] \o NameIn(s[k + 1])
    BY <2>n, NoticedValues, Zenon
  <2>3. NoticedUpTo(t)[k] = NoticedUpTo(s)[k] /\ t[k + 1] = s[k + 1]
    BY <1>1, <1>3, <2>n, Zenon
  <2> QED
    BY <2>1, <2>2, <2>3, Zenon
<1>4. Nat \subseteq P
  <2> HIDE DEF P
  <2> QED
    BY <1>2, <1>3, NatSteps
<1>5. NoticedUpTo(t)[Len(s)] = NoticedUpTo(s)[Len(s)]
  BY <1>1, <1>4
<1>6. NoticedUpTo(t)[Len(s) + 1] = NoticedUpTo(t)[Len(s)] \o NameIn(m)
  <2>1. Len(t) \in Nat /\ Len(s) + 1 <= Len(t)
    BY <1>1
  <2> QED
    BY <1>1, <2>1, NoticedValues, Zenon
<1> QED
  BY <1>1, <1>5, <1>6, Zenon DEF Noticed, t

\* ... and the message that is read first comes first.
LEMMA NoticedTail ==
  ASSUME NEW M, NEW s \in Seq(M), s # <<>>
  PROVE  Noticed(s) = NameIn(Head(s)) \o Noticed(Tail(s))
<1> DEFINE t == Tail(s)
           a == NameIn(Head(s))
           P == {k \in Nat : k <= Len(t) => NoticedUpTo(s)[k + 1] = a \o NoticedUpTo(t)[k]}
<1>1. /\ t \in Seq(M) /\ Len(t) \in Nat /\ Len(s) = Len(t) + 1
      /\ \A i \in 1 .. Len(t) : t[i] = s[i + 1]
      /\ Head(s) = s[1] /\ s[1] \in M
  OBVIOUS
<1>a. a \in Seq(Told(M)) /\ a = NameIn(s[1])
  BY <1>1, NameInType
<1> HIDE DEF t, a
<1>2. 0 \in P
  <2>n. Len(s) \in Nat /\ 0 \in Nat /\ 0 + 1 <= Len(s)
    BY <1>1
  <2>1. NoticedUpTo(s)[0 + 1] = NoticedUpTo(s)[0] \o NameIn(s[0 + 1])
    BY <2>n, NoticedValues, Zenon
  <2>2. NoticedUpTo(t)[0] = <<>> /\ NoticedUpTo(s)[0] = <<>>
    BY <1>1, <2>n, NoticedValues, Zenon
  <2>3. <<>> \o a = a \o <<>>
    BY <1>a, ConcatEmptySeq
  <2>4. s[0 + 1] = s[1]
    OBVIOUS
  <2>5. NoticedUpTo(s)[0 + 1] = a \o NoticedUpTo(t)[0]
    BY <1>a, <2>1, <2>2, <2>3, <2>4, Zenon
  <2> QED
    BY <2>5
<1>3. ASSUME NEW k \in Nat, k \in P PROVE k + 1 \in P
  <2> SUFFICES ASSUME k + 1 <= Len(t)
               PROVE  NoticedUpTo(s)[k + 1 + 1] = a \o NoticedUpTo(t)[k + 1]
    OBVIOUS
  <2>n. /\ Len(s) \in Nat /\ k + 1 \in Nat /\ k + 1 + 1 <= Len(s)
        /\ k + 1 \in 1 .. Len(t) /\ k <= Len(t) /\ k \in 0 .. Len(t)
    BY <1>1
  <2>1. NoticedUpTo(s)[k + 1 + 1] = NoticedUpTo(s)[k + 1] \o NameIn(s[k + 1 + 1])
    BY <2>n, NoticedValues, Zenon
  <2>2. NoticedUpTo(t)[k + 1] = NoticedUpTo(t)[k] \o NameIn(t[k + 1])
    BY <1>1, NoticedValues, Zenon
  <2>3. t[k + 1] = s[k + 1 + 1]
    BY <1>1, <2>n, Zenon
  <2>m. t[k + 1] \in M
    BY <1>1, <2>n
  <2>4. NoticedUpTo(s)[k + 1] = a \o NoticedUpTo(t)[k]
    BY <1>3, <2>n
  <2>5. NoticedUpTo(t)[k] \in Seq(Told(M)) /\ NameIn(t[k + 1]) \in Seq(Told(M))
    BY <1>1, <2>n, <2>m, NoticedType, NameInType, Zenon
  <2>6. (a \o NoticedUpTo(t)[k]) \o NameIn(t[k + 1]) = a \o (NoticedUpTo(t)[k] \o NameIn(t[k + 1]))
    <3>1. \A x, y, z \in Seq(Told(M)) : (x \o y) \o z = x \o (y \o z)
      <4> TAKE x, y, z \in Seq(Told(M))
      <4> QED
        BY ConcatAssociative
    <3> QED
      BY <1>a, <2>5, <3>1, Zenon
  <2> QED
    BY <2>1, <2>2, <2>3, <2>4, <2>6, Zenon
<1>4. Nat \subseteq P
  <2> HIDE DEF P
  <2> QED
    BY <1>2, <1>3, NatSteps
<1>5. NoticedUpTo(s)[Len(t) + 1] = a \o NoticedUpTo(t)[Len(t)]
  BY <1>1, <1>4
<1> QED
  BY <1>1, <1>5 DEF Noticed, t, a

\* No message, no notice.
LEMMA NoticedNothing == Noticed(<<>>) = <<>>
<1>1. Len(<<>>) = 0 /\ 0 \in Nat
  OBVIOUS
<1> QED
  BY <1>1, NoticedValues, Zenon DEF Noticed

\* Sequences in a row: what the steps of the feed do to them.
LEMMA RowOfThree ==
  ASSUME NEW V, NEW x \in Seq(V), NEW y \in Seq(V), NEW z \in Seq(V)
  PROVE  /\ (x \o y) \o z \in Seq(V)
         /\ (x \o y) \o z = x \o (y \o z)
         /\ \A v \in V : (x \o y) \o Append(z, v) = Append((x \o y) \o z, v)
         /\ \A v \in V : <<v>> \o z # <<>> /\ Tail(<<v>> \o z) = z
<1>1. x \o y \in Seq(V) /\ (x \o y) \o z \in Seq(V)
  BY ConcatProperties
<1>2. (x \o y) \o z = x \o (y \o z)
  BY ConcatAssociative
<1>3. ASSUME NEW v \in V
      PROVE  /\ (x \o y) \o Append(z, v) = Append((x \o y) \o z, v)
             /\ <<v>> \o z # <<>> /\ Tail(<<v>> \o z) = z
  <2> DEFINE w == x \o y
             one == <<v>>
  <2>1. one \in Seq(V) /\ w \in Seq(V)
    BY <1>1
  <2>2. Append(z, v) = z \o one /\ Append(w \o z, v) = (w \o z) \o one
    BY <1>1, AppendIsConcat
  <2>3. (w \o z) \o one = w \o (z \o one)
    <3>1. \A a \in Seq(V) : (a \o z) \o one = a \o (z \o one)
      <4> TAKE a \in Seq(V)
      <4> HIDE DEF one
      <4> QED
        BY <2>1, ConcatAssociative
    <3> QED
      BY <2>1, <3>1, Zenon
  <2>4. <<v>> \o z # <<>> /\ Tail(<<v>> \o z) = z
    <3>1. /\ <<v>> \o z \in Seq(V) /\ Len(<<v>> \o z) = Len(z) + 1
          /\ \A i \in 1 .. Len(z) : (<<v>> \o z)[i + 1] = z[i]
      OBVIOUS
    <3>2. <<v>> \o z # <<>>
      BY <3>1
    <3>3. /\ Tail(<<v>> \o z) \in Seq(V) /\ Len(Tail(<<v>> \o z)) = Len(z)
          /\ \A i \in 1 .. Len(z) : Tail(<<v>> \o z)[i] = z[i]
      <4> DEFINE r == <<v>> \o z
      <4>1. r \in Seq(V) /\ r # <<>> /\ Len(r) = Len(z) + 1
            /\ \A i \in 1 .. Len(z) : r[i + 1] = z[i]
        BY <3>1, <3>2
      <4> HIDE DEF r
      <4>2. /\ Tail(r) \in Seq(V) /\ Len(Tail(r)) = Len(z)
            /\ \A i \in 1 .. Len(z) : Tail(r)[i] = z[i]
        BY <4>1
      <4> QED
        BY <4>2 DEF r
    <3> QED
      BY <3>2, <3>3, SeqEqual
  <2> QED
    BY <2>2, <2>3, <2>4
<1> QED
  BY <1>1, <1>2, <1>3

\* The name the main thread is about to tell the client.
Telling == IF dpc = "notify" THEN NameIn(msg) ELSE <<>>

\* What stands in the client's feed.
Subject == Told(Seq(StreamUnit)) \cup Names \cup Folders

\* The three stretches of the client's feed, now and after the step.
LEMMA FeedTypes ==
  ASSUME TypeOK, DaemonTypeOK
  PROVE  /\ Noticed(outbox) \in Seq(Subject)
         /\ Telling \in Seq(Subject)
         /\ change_info \in Seq(Subject)
         /\ \A m \in Seq(StreamUnit) : NameIn(m) \in Seq(Subject)
<1>w. \A S \in SUBSET Subject : Seq(S) \subseteq Seq(Subject)
  OBVIOUS
<1>1. Told(Seq(StreamUnit)) \in SUBSET Subject /\ Names \cup Folders \in SUBSET Subject
  BY DEF Subject
<1>2. Noticed(outbox) \in Seq(Told(Seq(StreamUnit)))
  <2>1. outbox \in Seq(Seq(StreamUnit))
    BY DEF DaemonTypeOK
  <2> QED
    BY <2>1, NoticedType
<1>3. \A m \in Seq(StreamUnit) : NameIn(m) \in Seq(Subject)
  BY <1>w, <1>1, NameInType, Zenon
<1>4. msg \in Seq(StreamUnit) /\ change_info \in Seq(Names \cup Folders)
  BY DEF DaemonTypeOK, TypeOK
<1>5. <<>> \in Seq(Subject)
  OBVIOUS
<1>6. Telling \in Seq(Subject)
  BY <1>3, <1>4, <1>5, Zenon DEF Telling
<1> QED
  BY <1>w, <1>1, <1>2, <1>3, <1>4, <1>6, Zenon

\* The listener and the caller inside TrackFile move, the daemon's own part of
\* the feed does not: a step of the tracker's feed is one of the client's.
LEMMA ClientFeedTracker ==
  ASSUME TypeOK, DaemonTypeOK, TypeOK', FeedInv, [Next]_vars, exited = "no",
         DOMAIN name_to_dir_handle = {}, DOMAIN name_to_dir_handle' = {},
         UNCHANGED <<outbox, exited>>, Telling' = Telling,
         \/ UNCHANGED change_info
         \/ \E x \in Names \cup Folders : change_info' = Append(change_info, x)
  PROVE  ClientFeed!FeedNext \/ raced' \/ UNCHANGED ClientFeed!feedVars
<1> DEFINE before == Noticed(outbox) \o Telling
<1>t. /\ Noticed(outbox) \in Seq(Subject) /\ Telling \in Seq(Subject)
      /\ change_info \in Seq(Subject)
  BY FeedTypes
<1>n. Noticed(outbox)' = Noticed(outbox)
  BY DEF Noticed, NoticedUpTo
<1>b. before' = before
  BY <1>n
<1>d. DOMAIN name_to_file_handle' \subseteq Names
  BY DEF TypeOK, IsMap
<1>l. /\ (Alive /\ lpc # "done") = (status = "running" /\ lpc # "done")
      /\ (Alive' /\ lpc' # "done") = (status' = "running" /\ lpc' # "done")
  BY DEF Alive
<1>1. Feed!FeedNext \/ raced' \/ UNCHANGED Feed!feedVars
  BY FeedStep
<1>2. CASE UNCHANGED Feed!feedVars
  <2>1. /\ UNCHANGED <<change_info, raced>>
        /\ DOMAIN name_to_file_handle' = DOMAIN name_to_file_handle
        /\ (status' = "running" /\ lpc' # "done") = (status = "running" /\ lpc # "done")
    BY <1>2 DEF Feed!feedVars
  <2> QED
    BY <1>b, <1>l, <2>1 DEF ClientFeed!feedVars, Telling
<1>3. ASSUME NEW s \in Names \cup Folders, Feed!Track(s) PROVE ClientFeed!FeedNext
  <2>1. /\ UNCHANGED <<change_info, raced>>
        /\ DOMAIN name_to_file_handle' = DOMAIN name_to_file_handle \cup {s}
        /\ (status' = "running" /\ lpc' # "done") = (status = "running" /\ lpc # "done")
    BY <1>3 DEF Feed!Track
  <2>2. s \in Names
    BY <1>d, <2>1
  <2>3. ClientFeed!Track(s)
    BY <1>b, <1>l, <2>1 DEF ClientFeed!Track, Telling
  <2> QED
    BY <2>2, <2>3 DEF ClientFeed!FeedNext
<1>4. ASSUME NEW s \in Names \cup Folders, Feed!Report(s) PROVE ClientFeed!FeedNext
  <2>1. /\ UNCHANGED raced
        /\ change_info' = Append(change_info, s)
        /\ DOMAIN name_to_file_handle' = DOMAIN name_to_file_handle
        /\ (status' = "running" /\ lpc' # "done") = (status = "running" /\ lpc # "done")
        /\ status = "running" /\ lpc # "done"
        /\ s \in DOMAIN name_to_file_handle
    BY <1>4 DEF Feed!Report
  <2>2. s \in Names
    BY <2>1 DEF TypeOK, IsMap
  <2>3. before \o Append(change_info, s) = Append(before \o change_info, s)
    <3>1. PICK x \in Seq(Subject), y \in Seq(Subject), z \in Seq(Subject), v \in Subject :
            x = Noticed(outbox) /\ y = Telling /\ z = change_info /\ v = s
      BY <1>t, Zenon DEF Subject
    <3>2. (x \o y) \o Append(z, v) = Append((x \o y) \o z, v)
      BY RowOfThree
    <3> QED
      BY <3>1, <3>2, Zenon
  <2>4. (before \o change_info)' = Append(before \o change_info, s)
    BY <1>b, <2>1, <2>3
  <2>5. ClientFeed!Report(s)
    BY <1>l, <2>1, <2>4 DEF ClientFeed!Report, Telling
  <2> QED
    BY <2>2, <2>5 DEF ClientFeed!FeedNext
<1>5. CASE Feed!Take
  <2>1. change_info # <<>> /\ change_info' = Tail(change_info)
    BY <1>5 DEF Feed!Take
  <2>2. Len(change_info') = Len(change_info) - 1 /\ Len(change_info) \in Nat
    BY <1>t, <2>1
  <2>3. Len(change_info') >= Len(change_info)
    BY <1>t, <2>2
  <2> QED
    BY <2>2, <2>3
<1>6. CASE Feed!End
  <2>1. /\ UNCHANGED <<change_info, raced>>
        /\ DOMAIN name_to_file_handle' = DOMAIN name_to_file_handle
        /\ ~(status' = "running" /\ lpc' # "done")
    BY <1>6 DEF Feed!End
  <2>2. ClientFeed!End
    BY <1>b, <1>l, <2>1 DEF ClientFeed!End, Telling
  <2> QED
    BY <2>2 DEF ClientFeed!FeedNext
<1> QED
  BY <1>1, <1>2, <1>3, <1>4, <1>5, <1>6 DEF Feed!FeedNext

\* A step that leaves the tracker and the socket alone.
LEMMA ClientFeedStays ==
  ASSUME UNCHANGED <<vars, outbox, exited>>, Telling' = Telling
  PROVE  UNCHANGED ClientFeed!feedVars
<1>1. Noticed(outbox)' = Noticed(outbox)
  BY DEF Noticed, NoticedUpTo
<1>2. /\ UNCHANGED <<change_info, raced, status, lpc>>
      /\ DOMAIN name_to_file_handle' = DOMAIN name_to_file_handle
  BY DEF vars, mapVars, listenerVars, historyVars
<1> QED
  BY <1>1, <1>2 DEF ClientFeed!feedVars, Telling, Alive

\* The process ends: nothing is reported any more.
LEMMA ClientFeedEnds ==
  ASSUME UNCHANGED <<vars, dpc, msg, outbox>>, exited' # "no"
  PROVE  ClientFeed!End
<1>1. Noticed(outbox)' = Noticed(outbox)
  BY DEF Noticed, NoticedUpTo
<1>2. /\ UNCHANGED <<change_info, raced>>
      /\ DOMAIN name_to_file_handle' = DOMAIN name_to_file_handle
  BY DEF vars, mapVars, historyVars
<1> QED
  BY <1>1, <1>2 DEF ClientFeed!End, Telling, Alive

\* The client takes a message: a notice is taken from the feed, an echo is not.
LEMMA ClientFeedReceive ==
  ASSUME TypeOK, DaemonTypeOK, Receive
  PROVE  ClientFeed!Take \/ UNCHANGED ClientFeed!feedVars
<1> DEFINE rest == Noticed(Tail(outbox)) \o Telling
           now == (Noticed(outbox) \o Telling) \o change_info
           next == (Noticed(Tail(outbox)) \o Telling) \o change_info
<1>1. /\ outbox # <<>> /\ outbox' = Tail(outbox) /\ outbox \in Seq(Seq(StreamUnit))
      /\ UNCHANGED <<vars, dpc, msg, exited>>
  BY DEF Receive, DaemonTypeOK
<1>2. /\ UNCHANGED <<change_info, raced, status, lpc>>
      /\ DOMAIN name_to_file_handle' = DOMAIN name_to_file_handle
  BY <1>1 DEF vars, mapVars, listenerVars, historyVars
<1>3. Noticed(outbox) = NameIn(Head(outbox)) \o Noticed(Tail(outbox))
  BY <1>1, NoticedTail
<1>4. Noticed(outbox)' = Noticed(Tail(outbox)) /\ Telling' = Telling
  BY <1>1 DEF Noticed, NoticedUpTo, Telling
<1>t. /\ Telling \in Seq(Subject) /\ change_info \in Seq(Subject)
      /\ Noticed(Tail(outbox)) \in Seq(Subject)
  <2>1. Tail(outbox) \in Seq(Seq(StreamUnit))
    BY <1>1
  <2>2. Noticed(Tail(outbox)) \in Seq(Told(Seq(StreamUnit)))
    BY <2>1, NoticedType
  <2>3. Told(Seq(StreamUnit)) \subseteq Subject
    BY DEF Subject
  <2>4. Seq(Told(Seq(StreamUnit))) \subseteq Seq(Subject)
    BY <2>3
  <2> QED
    BY <2>2, <2>4, FeedTypes
<1>5. CASE NameIn(Head(outbox)) = <<>>
  <2>1. <<>> \o Noticed(Tail(outbox)) = Noticed(Tail(outbox))
    BY <1>t, ConcatEmptySeq
  <2>2. now = next
    BY <1>3, <1>5, <2>1
  <2> QED
    BY <1>1, <1>2, <1>4, <2>2 DEF ClientFeed!feedVars, Telling, Alive
<1>6. CASE NameIn(Head(outbox)) # <<>>
  <2>1. PICK v \in Subject : NameIn(Head(outbox)) = <<v>>
    <3>1. Head(outbox) \in Seq(StreamUnit)
      BY <1>1
    <3>2. SubSeq(Head(outbox), 3, Len(Head(outbox))) \in Subject
      BY <3>1 DEF Subject, Told
    <3> QED
      BY <1>6, <3>2 DEF NameIn
  <2>2. now = <<v>> \o next
    <3> DEFINE n == Noticed(Tail(outbox))
               one == <<v>>
    <3>1. one \in Seq(Subject) /\ n \in Seq(Subject) /\ n \o Telling \in Seq(Subject)
      BY <1>t, ConcatProperties
    <3> HIDE DEF n, one
    <3>2. (one \o n) \o Telling = one \o (n \o Telling)
      BY <1>t, <3>1, ConcatAssociative
    <3>3. (one \o (n \o Telling)) \o change_info = one \o ((n \o Telling) \o change_info)
      <4>1. PICK x \in Seq(Subject), y \in Seq(Subject), z \in Seq(Subject) :
              x = one /\ y = n \o Telling /\ z = change_info
        BY <1>t, <3>1, Zenon
      <4>2. (x \o y) \o z = x \o (y \o z)
        BY ConcatAssociative
      <4> QED
        BY <4>1, <4>2, Zenon
    <3>4. now = ((one \o n) \o Telling) \o change_info
      BY <1>3, <2>1 DEF n, one
    <3> QED
      BY <3>2, <3>3, <3>4 DEF n, one
  <2>3. next \in Seq(Subject)
    BY <1>t, ConcatProperties
  <2>4. now # <<>> /\ next = Tail(now)
    <3> HIDE DEF now, next
    <3> QED
      BY <2>2, <2>3, RowOfThree
  <2> HIDE DEF rest
  <2> QED
    BY <1>1, <1>2, <1>4, <2>4 DEF ClientFeed!Take, Telling, Alive
<1> QED
  BY <1>5, <1>6

\* The main thread takes the oldest change and builds its notice.
LEMMA ClientFeedPop ==
  ASSUME TypeOK, DaemonTypeOK, HeldInv, PopChange
  PROVE  UNCHANGED ClientFeed!feedVars
<1>1. /\ dpc = "pop" /\ dpc' = "notify" /\ UNCHANGED <<outbox, exited>>
      /\ change_info # <<>> /\ change_info' = Tail(change_info)
      /\ UNCHANGED <<mapVars, status, raced, lpc>>
      /\ msg' = Notice(Head(change_info))
  BY DEF PopChange, TryPopChangeInfo, connVars, listenerVars, historyVars, Notice
<1>2. Telling = <<>> /\ Telling' = <<Head(change_info)>>
  <2>1. change_info[1] \in Names /\ Head(change_info) = change_info[1]
    BY <1>1 DEF TypeOK, HeldInv
  <2> QED
    BY <1>1, <2>1, NoticeName DEF Telling
<1>3. Noticed(outbox)' = Noticed(outbox)
  BY <1>1 DEF Noticed, NoticedUpTo
<1>t. Noticed(outbox) \in Seq(Subject) /\ change_info \in Seq(Subject)
  BY FeedTypes
<1>4. /\ Head(change_info) \in Subject /\ Tail(change_info) \in Seq(Subject)
      /\ change_info = <<Head(change_info)>> \o Tail(change_info)
  <2>1. Head(change_info) \in Subject /\ Tail(change_info) \in Seq(Subject)
    BY <1>t, <1>1
  <2>2. change_info = <<Head(change_info)>> \o Tail(change_info)
    <3>1. <<Head(change_info)>> \o Tail(change_info) \in Seq(Subject)
      BY <2>1
    <3>2. /\ Len(<<Head(change_info)>> \o Tail(change_info)) = Len(change_info)
          /\ \A i \in 1 .. Len(change_info) :
               (<<Head(change_info)>> \o Tail(change_info))[i] = change_info[i]
      BY <1>t, <1>1
    <3> QED
      BY <1>t, <3>1, <3>2, SeqEqual
  <2> QED
    BY <2>1, <2>2
<1>5. (Noticed(outbox) \o <<Head(change_info)>>) \o Tail(change_info)
        = (Noticed(outbox) \o <<>>) \o change_info
  <2> DEFINE one == <<Head(change_info)>>
             tl == Tail(change_info)
  <2>1. one \in Seq(Subject) /\ tl \in Seq(Subject) /\ change_info = one \o tl
    BY <1>4
  <2> HIDE DEF one, tl
  <2>2. (Noticed(outbox) \o one) \o tl = Noticed(outbox) \o change_info
    BY <1>t, <2>1, ConcatAssociative
  <2>3. Noticed(outbox) \o <<>> = Noticed(outbox)
    BY <1>t, ConcatEmptySeq
  <2> QED
    BY <2>2, <2>3 DEF one, tl
<1>6. ((Noticed(outbox) \o Telling) \o change_info)' = (Noticed(outbox) \o Telling) \o change_info
  BY <1>1, <1>2, <1>3, <1>5
<1> QED
  BY <1>1, <1>6 DEF ClientFeed!feedVars, Telling, Alive, mapVars

\* The main thread writes a message: a notice moves from its hands into the
\* socket, an echo adds nothing to the feed.
LEMMA ClientFeedWrite ==
  ASSUME TypeOK, DaemonTypeOK, NEW m \in Seq(StreamUnit), WriteMessage(m), UNCHANGED vars,
         NameIn(m) = Telling, Telling' = <<>>
  PROVE  UNCHANGED ClientFeed!feedVars
<1>1. /\ outbox \in Seq(Seq(StreamUnit)) /\ outbox' = Append(outbox, m) /\ UNCHANGED exited
      /\ UNCHANGED <<change_info, raced, status, lpc>>
      /\ DOMAIN name_to_file_handle' = DOMAIN name_to_file_handle
  BY DEF WriteMessage, DaemonTypeOK, vars, mapVars, listenerVars, historyVars
<1>2. Noticed(outbox)' = Noticed(Append(outbox, m))
  BY <1>1 DEF Noticed, NoticedUpTo
<1>3. Noticed(Append(outbox, m)) = Noticed(outbox) \o Telling
  BY <1>1, NoticedAppend
<1>4. (Noticed(outbox) \o Telling) \o <<>> = Noticed(outbox) \o Telling
  <2>1. Noticed(outbox) \o Telling \in Seq(Subject)
    BY FeedTypes, ConcatProperties
  <2> QED
    BY <2>1, ConcatEmptySeq
<1>5. (Noticed(outbox) \o Telling)' = Noticed(outbox) \o Telling
  BY <1>2, <1>3, <1>4
<1> QED
  BY <1>1, <1>5 DEF ClientFeed!feedVars, Telling, Alive

\* What the daemon tells its client is, step by step, a behaviour of the feed.
LEMMA ClientFeedStep ==
  ASSUME TypeOK, DaemonTypeOK, HeldInv, FeedInv, TypeOK', [DaemonNext]_allVars,
         DOMAIN name_to_dir_handle = {}, DOMAIN name_to_dir_handle' = {}
  PROVE  ClientFeed!FeedNext \/ raced' \/ UNCHANGED ClientFeed!feedVars
<1>n. [Next]_vars
  BY DaemonStepsTracker
<1>1. CASE Client
  <2>1. CASE Receive
    BY <2>1, ClientFeedReceive DEF ClientFeed!FeedNext
  <2>2. CASE ~Receive
    BY <1>1, <2>2, ClientFeedStays DEF Client, Connect, Close, Send, Telling
  <2> QED
    BY <2>1, <2>2
<1>2. CASE WaitForConnection \/ PollNothing \/ PollRead \/ PollFails \/ TrackReturns \/ PopNothing
           \/ DispatchRejected \/ DispatchGetFile
  <2>1. UNCHANGED <<vars, outbox, exited>> /\ dpc # "notify" /\ dpc' # "notify"
    BY <1>2 DEF WaitForConnection, PollNothing, PollRead, PollFails, TrackReturns, PopNothing,
       DispatchRejected, DispatchGetFile, Dispatching, connVars
  <2> QED
    BY <2>1, ClientFeedStays DEF Telling
<1>3. CASE DispatchTrackGarbled \/ DispatchUnknown \/ BrokenPipe \/ Join
  <2>1. UNCHANGED <<vars, dpc, msg, outbox>> /\ exited' # "no"
    BY <1>3 DEF DispatchTrackGarbled, DispatchUnknown, BrokenPipe, Join, connVars
  <2> QED
    BY <2>1, ClientFeedEnds DEF ClientFeed!FeedNext
<1>4. CASE DispatchEcho
  <2>1. Content \in Seq(StreamUnit) /\ WriteMessage(Frame("EchoMessage", Content))
        /\ UNCHANGED vars /\ dpc = "dispatch" /\ dpc' = "pop"
    BY <1>4 DEF DispatchEcho, Dispatching, Complete, Content, DaemonTypeOK
  <2>2. Frame("EchoMessage", Content) \in Seq(StreamUnit)
        /\ Frame("EchoMessage", Content)[2] = "EchoMessage"
    BY <2>1, UnitTypes, FrameUnits
  <2>3. NameIn(Frame("EchoMessage", Content)) = <<>>
    BY <2>2 DEF NameIn
  <2>4. Telling = <<>> /\ Telling' = <<>>
    BY <2>1 DEF Telling
  <2> QED
    BY <2>1, <2>2, <2>3, <2>4, ClientFeedWrite
<1>5. CASE SendNotification
  <2>1. /\ msg \in Seq(StreamUnit) /\ WriteMessage(msg) /\ UNCHANGED vars
        /\ NameIn(msg) = Telling /\ Telling' = <<>>
    BY <1>5 DEF SendNotification, DaemonTypeOK, Telling
  <2> QED
    BY <2>1, ClientFeedWrite
<1>6. CASE PopChange
  BY <1>6, ClientFeedPop
<1>7. CASE InsideTrack
  <2>1. /\ UNCHANGED <<outbox, exited, change_info>> /\ Telling' = Telling /\ exited = "no"
    BY <1>7 DEF InsideTrack, CallerInside, InsertName, InsertHandle, InsertFolder, daemonVars,
       connVars, Alive, Telling
  <2> QED
    BY <1>n, <2>1, ClientFeedTracker
<1>8. CASE DispatchTrack
  <2>1. /\ UNCHANGED <<outbox, exited, change_info>> /\ exited = "no"
        /\ dpc = "dispatch" /\ dpc' = "track"
    BY <1>8 DEF DispatchTrack, Dispatching, TrackContent, TrackFile, TrackMissingFile, connVars,
       Alive
  <2>2. Telling' = Telling
    BY <2>1 DEF Telling
  <2> QED
    BY <1>n, <2>1, <2>2, ClientFeedTracker
<1>9. CASE Stop
  <2>1. UNCHANGED <<outbox, exited, change_info>> /\ Telling' = Telling /\ exited = "no"
    BY <1>9 DEF Stop, StopListening, connVars, Alive, Telling
  <2> QED
    BY <1>n, <2>1, ClientFeedTracker
<1>10. CASE ListenerThread
  <2>1. UNCHANGED <<outbox, exited>> /\ Telling' = Telling /\ exited = "no"
    BY <1>10 DEF ListenerThread, daemonVars, connVars, Alive, Telling
  <2>2. \/ UNCHANGED change_info
        \/ \E x \in Names \cup Folders : change_info' = Append(change_info, x)
    <3>1. CASE Push
      BY <3>1 DEF Push, TypeOK
    <3>2. CASE ScanFolder
      BY <3>2 DEF ScanFolder, TypeOK, IsMap
    <3> QED
      BY <1>10, <3>1, <3>2 DEF ListenerThread, Listener, CheckStop, ReadEvents, EndOfBatch,
         ScanNamed, ScanFile, ScanUnknown, ReAddMissing, ReAdd, EraseHandle, Relink
  <2> QED
    BY <1>n, <2>1, <2>2, ClientFeedTracker
<1>11. CASE Surroundings
  <2>1. UNCHANGED <<outbox, exited, change_info>> /\ Telling' = Telling /\ exited = "no"
    BY <1>11 DEF Surroundings, DataRace, Environment, daemonVars, connVars, Alive, Telling
  <2> QED
    BY <1>n, <2>1, ClientFeedTracker
<1>12. CASE UNCHANGED allVars
  BY <1>12, ClientFeedStays DEF allVars, daemonVars, connVars, Telling
<1> QED
  BY <1>1, <1>2, <1>3, <1>4, <1>5, <1>6, <1>7, <1>8, <1>9, <1>10, <1>11, <1>12
     DEF DaemonNext, Main, MainLoop, Dispatch

\* The daemon never tracks a folder, so the feed's subjects are names.
LEMMA NoFolders == DaemonSpec => [](DOMAIN name_to_dir_handle = {})
<1>1. DaemonInit => DOMAIN name_to_dir_handle = {}
  BY DEF DaemonInit, Init, EmptyMap
<1>2. RequestedInv /\ DOMAIN name_to_dir_handle = {} /\ [DaemonNext]_allVars
        => (DOMAIN name_to_dir_handle = {})'
  <2> SUFFICES ASSUME cpc # "insert_folder", [Next]_vars PROVE UNCHANGED name_to_dir_handle
    BY DaemonStepsTracker DEF RequestedInv, HeldInv
  <2>1. CASE Caller \/ CallerInside
    BY <2>1 DEF Caller, CallerInside, TrackMissingFile, TrackFile, TrackFolder, TryPopChangeInfo,
       StopListening, InsertName, InsertHandle, InsertFolder, mapVars
  <2>2. CASE Listener
    BY <2>2 DEF Listener, CheckStop, ReadEvents, EndOfBatch, ScanNamed, ScanFile, ScanFolder,
       ScanUnknown, ReAddMissing, ReAdd, Push, EraseHandle, Relink, mapVars
  <2>3. CASE DataRace \/ Environment \/ UNCHANGED vars
    BY <2>3 DEF DataRace, Environment, vars, mapVars
  <2> QED
    BY <2>1, <2>2, <2>3 DEF Next
<1> QED
  BY <1>1, <1>2, HeldNamesAreRequested, PTL DEF DaemonSpec

\* Through the tracker's queue, the main thread and the socket, and with echo
\* replies in between, the client receives what the listener reported: nothing
\* is lost, repeated or overtaken.
THEOREM DaemonImplementsFeed == DaemonSpec => ImplementsClientFeed
<1>1. DaemonInit => ClientFeed!FeedInit
  <2> SUFFICES ASSUME DaemonInit PROVE ClientFeed!FeedInit
    OBVIOUS
  <2>1. Noticed(outbox) = <<>> /\ Telling = <<>> /\ change_info = <<>>
    BY NoticedNothing DEF DaemonInit, Init, Telling
  <2>2. (<<>> \o <<>>) \o <<>> = <<>>
    OBVIOUS
  <2> QED
    BY <2>1, <2>2 DEF DaemonInit, Init, EmptyMap, ClientFeed!FeedInit, Telling, Alive
<1>2. /\ TypeOK /\ DaemonTypeOK /\ RequestedInv /\ FeedInv /\ TypeOK' /\ [DaemonNext]_allVars
      /\ DOMAIN name_to_dir_handle = {} /\ (DOMAIN name_to_dir_handle = {})'
      => [ClientFeed!FeedNext \/ raced']_(ClientFeed!feedVars)
  BY ClientFeedStep DEF RequestedInv
<1>3. DaemonSpec => [](TypeOK /\ FeedInv)
  BY DaemonUsesTracker, TypeCorrect, ReportsAreRegistered, PTL
<1> QED
  BY <1>1, <1>2, <1>3, DaemonInvariants, NoFolders, PTL
     DEF DaemonSpec, ImplementsClientFeed, ClientFeed!FeedSpec
=============================================================================
