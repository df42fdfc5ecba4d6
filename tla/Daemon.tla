------------------------------- MODULE Daemon -------------------------------
(***************************************************************************)
(* The runtime daemon on Linux (src/src/daemon/runtime.cpp over            *)
(* linux_pipe.cpp), with the FileTracker it owns.  The main thread is the  *)
(* caller of the tracker: it accepts one client, then polls the socket,    *)
(* dispatches what it read, and forwards one notification per turn.        *)
(*                                                                         *)
(* The stream is kept in units: the five magic bytes, the three bytes of   *)
(* type and length, and the characters of the content.  Content is a file  *)
(* name, also for an echo.  The length field is decoded but never used     *)
(* (msg_length), so a unit does not carry it, and a read may end anywhere  *)
(* in a name.                                                              *)
(***************************************************************************)
EXTENDS FileTracker

CONSTANTS
  Characters,    \* of which names are made; no name holds the magic bytes
  ReadMax,       \* units one read() takes at most (512 bytes in the code)
  InCap, OutCap, \* units, and messages, a socket buffer holds before write() blocks
  MaxRequests,   \* bound: requests the client sends
  Requests,      \* the message types the client sends
  IoctlMayFail   \* whether ioctl(FIONREAD) can fail

EMessage == {"GetFile", "CheckIfInCache", "RequestFileMetadata", "NoSuchResourceExists",
             "TrackedFileChanged", "TrackThisFile", "EchoMessage", "Continuation",
             "InvalidRequest", "GetCachedFile", "ResetConnection"}

ASSUME DaemonAssumption ==
  /\ ReadMax \in Nat \ {0} /\ InCap \in Nat \ {0} /\ OutCap \in Nat \ {0}
  /\ MaxRequests \in Nat
  /\ Requests \subseteq EMessage
  /\ IoctlMayFail \in BOOLEAN
  /\ {"WriteChange"} \in FileOptions

ASSUME NamesAssumption ==
  /\ Names \subseteq Seq(Characters) \ {<<>>}
  /\ Characters \cap (EMessage \cup {"magic"}) = {}

VARIABLES
  dpc,          \* main thread: "accept", "poll", "dispatch", "track", "pop",
                \* "notify", "stop", "join"
  msg,          \* the units read last, or the message to send
  inbox,        \* client -> daemon, not yet read: units
  outbox,       \* daemon -> client, not yet read: messages
  client,       \* "absent", "connected" or "closed"
  exited,       \* why the daemon is gone, or "no"
  sent          \* history: the requests sent, oldest first

connVars == <<inbox, outbox, client, sent>>
daemonVars == <<dpc, msg, connVars, exited>>
allVars == <<vars, daemonVars>>

\* PrepareMessage
Frame(type, content) == <<"magic", type>> \o content

Alive == exited = "no" /\ status = "running"

-----------------------------------------------------------------------------
(* The client, and the stream socket between the two (external).           *)

Connect ==
  /\ client = "absent"
  /\ client' = "connected"
  /\ UNCHANGED <<vars, dpc, msg, inbox, outbox, exited, sent>>

Send(type, n) ==
  /\ client = "connected" /\ Len(sent) < MaxRequests /\ Len(inbox) + 2 + Len(n) <= InCap
  /\ inbox' = inbox \o Frame(type, n)
  /\ sent' = Append(sent, <<type, n>>)
  /\ UNCHANGED <<vars, dpc, msg, outbox, client, exited>>

Receive ==
  /\ exited = "no" /\ client = "connected" /\ outbox # <<>>
  /\ outbox' = Tail(outbox)
  /\ UNCHANGED <<vars, dpc, msg, inbox, client, exited, sent>>

\* What it has not read by then stays unread.
Close ==
  /\ client = "connected"
  /\ client' = "closed"
  /\ UNCHANGED <<vars, dpc, msg, inbox, outbox, exited, sent>>

Client ==
  /\ exited = "no"
  /\ \/ Connect \/ Receive \/ Close
     \/ \E type \in Requests, n \in Names : Send(type, n)

-----------------------------------------------------------------------------
(* The main thread.                                                        *)

\* accept() returns and the listener's thread is started.
WaitForConnection ==
  /\ Alive /\ dpc = "accept" /\ client # "absent"
  /\ dpc' = "poll"
  /\ UNCHANGED <<vars, msg, connVars, exited>>

\* FIONREAD says 0, also when the client has closed the connection.
PollNothing ==
  /\ Alive /\ dpc = "poll" /\ inbox = <<>>
  /\ dpc' = "pop"
  /\ UNCHANGED <<vars, msg, connVars, exited>>

\* Take what is there, whatever the message boundaries are: FIONREAD tells only
\* that something is.
PollRead ==
  /\ Alive /\ dpc = "poll" /\ inbox # <<>>
  /\ LET k == IF Len(inbox) < ReadMax THEN Len(inbox) ELSE ReadMax
     IN  /\ msg' = SubSeq(inbox, 1, k)
         /\ inbox' = SubSeq(inbox, k + 1, Len(inbox))
  /\ dpc' = "dispatch"
  /\ UNCHANGED <<vars, outbox, client, sent, exited>>

\* ReadNonBlocking returns -1 and main leaves its loop.
PollFails ==
  /\ Alive /\ dpc = "poll" /\ IoctlMayFail
  /\ dpc' = "stop"
  /\ UNCHANGED <<vars, msg, connVars, exited>>

\* MessageVerified, and room for type and length behind the magic bytes.
Complete == Len(msg) >= 2 /\ msg[1] = "magic"

Content == SubSeq(msg, 3, Len(msg))

Dispatching(type) == Alive /\ dpc = "dispatch" /\ Complete /\ msg[2] = type

DispatchRejected ==
  /\ Alive /\ dpc = "dispatch" /\ ~Complete
  /\ dpc' = "pop" /\ msg' = <<>>
  /\ UNCHANGED <<vars, connVars, exited>>

\* write() blocks while the client's buffer is full...
WriteMessage(message) ==
  /\ client = "connected"
  /\ Len(outbox) < OutCap
  /\ outbox' = Append(outbox, message)
  /\ UNCHANGED <<inbox, client, sent, exited>>

\* ... and raises SIGPIPE, which nothing handles, once the client has closed.
BrokenPipe ==
  /\ Alive /\ client = "closed"
  /\ dpc = "notify" \/ Dispatching("EchoMessage")
  /\ exited' = "sigpipe"
  /\ UNCHANGED <<vars, dpc, msg, connVars>>

\* Whatever was read behind the header is echoed, as one message.
DispatchEcho ==
  /\ Dispatching("EchoMessage")
  /\ WriteMessage(Frame("EchoMessage", Content))
  /\ dpc' = "pop" /\ msg' = <<>>
  /\ UNCHANGED vars

\* What was read names a file, be it the beginning of a longer name: TrackFile is
\* called and the thread is inside it.
TrackContent ==
  /\ \E n \in Names :
       /\ Content = n
       /\ TrackFile(n, {"WriteChange"}) \/ TrackMissingFile(n)
  /\ dpc' = "track" /\ msg' = <<>>
  /\ UNCHANGED <<connVars, exited>>

\* Faulty variant: the case of EchoMessage has no break.
DispatchTrackFallThrough ==
  /\ Dispatching("TrackThisFile") \/ Dispatching("EchoMessage")
  /\ TrackContent

DispatchTrack == Dispatching("TrackThisFile") /\ TrackContent

\* All that was read is the name, the next message too, and no such file is among
\* Names: an assertion of TrackFile aborts the process.
DispatchTrackGarbled ==
  /\ Dispatching("TrackThisFile")
  /\ Content \notin Names
  /\ exited' = "assert_track"
  /\ UNCHANGED <<vars, dpc, msg, connVars>>

DispatchGetFile ==
  /\ Dispatching("GetFile")
  /\ dpc' = "pop" /\ msg' = <<>>
  /\ UNCHANGED <<vars, connVars, exited>>

\* exit(-2), also when what follows the magic bytes is no type at all.
DispatchUnknown ==
  /\ Alive /\ dpc = "dispatch" /\ Complete
  /\ msg[2] \notin {"EchoMessage", "TrackThisFile", "GetFile"}
  /\ exited' = "unknown_request"
  /\ UNCHANGED <<vars, dpc, msg, connVars>>

\* The inserts of TrackFile, then back in the loop.
InsideTrack == Alive /\ CallerInside /\ UNCHANGED daemonVars

TrackReturns ==
  /\ Alive /\ dpc = "track" /\ cpc = "idle"
  /\ dpc' = "pop"
  /\ UNCHANGED <<vars, msg, connVars, exited>>

PopNothing ==
  /\ Alive /\ dpc = "pop" /\ change_info = <<>>
  /\ dpc' = "poll"
  /\ UNCHANGED <<vars, msg, connVars, exited>>

\* Faulty variant: TryPopChangeInfo looks at the front and does not pop it.
PopForgets ==
  /\ Alive /\ dpc = "pop" /\ cpc = "idle" /\ change_info # <<>>
  /\ msg' = Frame("TrackedFileChanged", Head(change_info))
  /\ dpc' = "notify"
  /\ UNCHANGED <<vars, connVars, exited>>

PopChange ==
  /\ Alive /\ dpc = "pop"
  /\ TryPopChangeInfo
  /\ msg' = Frame("TrackedFileChanged", Head(change_info))
  /\ dpc' = "notify"
  /\ UNCHANGED <<connVars, exited>>

\* Faulty variant: the notification is built and not sent.
NotifyNobody ==
  /\ Alive /\ dpc = "notify"
  /\ dpc' = "poll" /\ msg' = <<>>
  /\ UNCHANGED <<vars, connVars, exited>>

SendNotification ==
  /\ Alive /\ dpc = "notify"
  /\ WriteMessage(msg)
  /\ dpc' = "poll" /\ msg' = <<>>
  /\ UNCHANGED <<vars>>

Stop ==
  /\ Alive /\ dpc = "stop"
  /\ StopListening
  /\ dpc' = "join"
  /\ UNCHANGED <<msg, connVars, exited>>

\* join() waits for the listener to leave its loop.
Join ==
  /\ Alive /\ dpc = "join" /\ lpc = "done"
  /\ exited' = "returned"
  /\ UNCHANGED <<vars, dpc, msg, connVars>>

-----------------------------------------------------------------------------
Dispatch ==
  \/ DispatchRejected \/ DispatchEcho \/ DispatchTrack \/ DispatchTrackGarbled
  \/ DispatchGetFile \/ DispatchUnknown

MainLoop ==
  \/ PollNothing \/ PollRead \/ PollFails \/ Dispatch \/ BrokenPipe
  \/ InsideTrack \/ TrackReturns \/ PopNothing \/ PopChange \/ SendNotification

Main == WaitForConnection \/ MainLoop \/ Stop \/ Join

ListenerThread == Alive /\ dpc # "accept" /\ Listener /\ UNCHANGED daemonVars

\* Races of the two threads, and what other programs do to the files.
Surroundings == Alive /\ (DataRace \/ Environment) /\ UNCHANGED daemonVars

DaemonNext == Client \/ Main \/ ListenerThread \/ Surroundings

DaemonInit ==
  /\ Init
  /\ dpc = "accept" /\ msg = <<>>
  /\ inbox = <<>> /\ outbox = <<>>
  /\ client = "absent" /\ exited = "no"
  /\ sent = <<>>

DaemonSpec == DaemonInit /\ [][DaemonNext]_allVars

\* Both threads are scheduled, and the client reads what it is sent.
FairDaemonSpec == DaemonSpec /\ WF_allVars(Main) /\ WF_allVars(ListenerThread)
                             /\ WF_allVars(Receive)

-----------------------------------------------------------------------------
(* Properties.                                                             *)

StreamUnit == EMessage \cup {"magic"} \cup Characters

\* The daemon's own state: above all, the steps inside TrackFile are those of
\* a main thread that has called it.
DaemonTypeOK ==
  /\ dpc \in {"accept", "poll", "dispatch", "track", "pop", "notify", "stop", "join"}
  /\ msg \in Seq(StreamUnit)
  /\ inbox \in Seq(StreamUnit)
  /\ outbox \in Seq(Seq(StreamUnit))
  /\ client \in {"absent", "connected", "closed"}
  /\ exited \in {"no", "sigpipe", "assert_track", "unknown_request", "returned"}
  /\ sent \in Seq(Requests \X Names)
  /\ cpc # "idle" => dpc = "track"

Requested(n) == \E i \in 1 .. Len(sent) : sent[i] = <<"TrackThisFile", n>>

\* n is a requested name, or what a read that was full took of a longer one.
AskedFor(n) ==
  \/ Requested(n)
  \/ \E m \in Names : Requested(m) /\ Len(m) + 2 > ReadMax /\ n = SubSeq(m, 1, ReadMax - 2)

Notice(n) == Frame("TrackedFileChanged", n)

\* The client is only told of files it has asked to be tracked, whether messages run
\* into one another or one is read in two pieces; only of a name too long for one
\* read the file is another: the one whose name the first read took.
NotificationsWereRequested ==
  \A i \in 1 .. Len(outbox) : \A n \in Names : outbox[i] = Notice(n) => AskedFor(n)

\* Its strengthening in the tracker: every name it holds was asked for, and it
\* holds no folder.
HeldInv ==
  /\ \A h \in DOMAIN handle_to_file_name : AskedFor(handle_to_file_name[h])
  /\ cpc \in {"insert_name", "insert_handle"} => AskedFor(cname)
  /\ lpc \in {"readd", "push", "erase", "relink"} => AskedFor(file_name)
  /\ \A i \in 1 .. Len(change_info) : change_info[i] \in Names /\ AskedFor(change_info[i])
  /\ DOMAIN tracked_directory = {} /\ cpc # "insert_folder"

\* The units of s behind place i begin with the name n.
Spelled(s, i, n) == \A j \in 1 .. Len(n) : i + j <= Len(s) => s[i + j] = n[j]

\* Its strengthening in the stream: behind the head of a tracking request is a
\* requested name and then, if anything, the next message; what was read of it has
\* no less of the name unless the read was full.
StreamInv ==
  /\ \A i \in 1 .. Len(inbox) : inbox[i] = "magic" =>
       /\ i < Len(inbox)
       /\ inbox[i + 1] = "TrackThisFile" =>
            \E m \in Names :
              /\ Requested(m) /\ Spelled(inbox, i + 1, m)
              /\ i + 1 + Len(m) <= Len(inbox)
              /\ i + 1 + Len(m) < Len(inbox) => inbox[i + 2 + Len(m)] = "magic"
  /\ dpc = "dispatch" /\ Complete /\ msg[2] = "TrackThisFile" =>
       \E m \in Names :
         /\ Requested(m) /\ Spelled(msg, 2, m)
         /\ Len(msg) < 2 + Len(m) => Len(msg) = ReadMax
         /\ Len(msg) > 2 + Len(m) => msg[3 + Len(m)] = "magic"
  /\ dpc = "notify" => \E n \in Names : msg = Notice(n) /\ AskedFor(n)

RequestedInv == NotificationsWereRequested /\ StreamInv /\ HeldInv

\* The name a message tells of, if it is a notice.
NameIn(message) ==
  IF message[2] = "TrackedFileChanged" THEN <<SubSeq(message, 3, Len(message))>> ELSE <<>>

\* The names the first messages of a sequence tell of, in order.
NoticedUpTo(messages) ==
  LET names[i \in 0 .. Len(messages)] ==
        IF i = 0 THEN <<>> ELSE names[i - 1] \o NameIn(messages[i])
  IN  names

Noticed(messages) == NoticedUpTo(messages)[Len(messages)]

\* The feed as the client sees it: what is on its way through the tracker's
\* queue, the main thread and the socket.
ClientFeed == INSTANCE ChangeFeed WITH
  Subjects  <- Names,
  tracked   <- DOMAIN name_to_file_handle,
  pending   <- Noticed(outbox) \o (IF dpc = "notify" THEN NameIn(msg) ELSE <<>>)
                 \o change_info,
  listening <- Alive /\ lpc # "done",
  corrupt   <- raced

\* No notice is lost, repeated or overtaken between the listener and the
\* client, echo replies in between or not.
ImplementsClientFeed == ClientFeed!FeedSpec

\* The client is gone, the process is, or its main loop was left.
Over == client = "closed" \/ ~Alive \/ dpc \in {"stop", "join"}

\* A write the kernel has seen reaches the client as a notice, through both
\* threads and the socket.
WriteForwarded ==
  \A n \in Names :
    (/\ lpc = "read"
     /\ \E h \in DOMAIN handle_to_file_name :
          /\ handle_to_file_name[h] = n
          /\ Occurs(Event(h, "modify", {}), kernel_queue))
      ~> ((\E i \in 1 .. Len(outbox) : outbox[i] = Notice(n)) \/ Over \/ Interrupted)
=============================================================================
