------------------------------ MODULE Win32Pipe ------------------------------
(***************************************************************************)
(* The transport of the daemon on Windows (src/src/daemon/                 *)
(* win32_daemon_impl.cpp): one instance of a named pipe, one client, and   *)
(* the daemon's main loop over it.  Messages are numbered.                 *)
(***************************************************************************)
EXTENDS Naturals, Sequences

CONSTANTS
  MaxBytes,  \* bound: bytes the client writes
  MaxRead    \* bytes the main loop asks for (512 in the code)

ASSUME Win32PipeAssumption == MaxBytes \in Nat /\ MaxRead \in Nat \ {0}

VARIABLES
  server,     \* the daemon: launching, waiting for a client, in the main loop, or at its end
  pipe,       \* bytes on their way to the daemon
  written,    \* bytes the client has written
  open,       \* the client has its end open
  read        \* bytes given to DispatchMessage

pipeVars == <<server, pipe, written, open, read>>

PipeInit == server = "launching" /\ pipe = <<>> /\ written = 0 /\ open = FALSE /\ read = <<>>

\* InitProcessCommunication: CreateNamedPipe, which fails when there is a daemon.
CreatePipe ==
  /\ server = "launching"
  /\ server' \in {"waiting", "exit -11"}
  /\ UNCHANGED <<pipe, written, open, read>>

\* CreateFile: there is one instance.
ConnectAsClient ==
  /\ server \in {"waiting", "loop"} /\ ~open /\ written = 0
  /\ open' = TRUE
  /\ UNCHANGED <<server, pipe, written, read>>

\* ConnectNamedPipe returns when a client is there, or was there already and is gone.
WaitForConnection ==
  /\ server = "waiting" /\ (open \/ written > 0)
  /\ server' = "loop"
  /\ UNCHANGED <<pipe, written, open, read>>

WriteMessage ==
  /\ open /\ written < MaxBytes /\ server # "exit -2"
  /\ pipe' = Append(pipe, written + 1) /\ written' = written + 1
  /\ UNCHANGED <<server, open, read>>

CloseClient ==
  /\ open /\ written > 0
  /\ open' = FALSE
  /\ UNCHANGED <<server, pipe, written, read>>

\* Faulty variant: a broken pipe is an empty one, as a closed socket is on Linux.
PeekBrokenIsEmpty ==
  /\ server = "loop" /\ pipe = <<>>
  /\ UNCHANGED pipeVars

\* PeekNamedPipe fails on a pipe that is closed at the other end and empty: -1, and
\* the main loop breaks.
PeekBroken ==
  /\ server = "loop" /\ pipe = <<>> /\ ~open /\ written > 0
  /\ server' = "ended"
  /\ UNCHANGED <<pipe, written, open, read>>

\* bytes_available may be less than has come since.  DispatchMessage exits on a
\* request it does not know.
ReadAvailable ==
  /\ server = "loop" /\ pipe # <<>>
  /\ \E n \in 1 .. Len(pipe) :
       LET to_read == IF n < MaxRead THEN n ELSE MaxRead IN
         read' = read \o SubSeq(pipe, 1, to_read) /\ pipe' = SubSeq(pipe, to_read + 1, Len(pipe))
  /\ server' \in {"loop", "exit -2"}
  /\ UNCHANGED <<written, open>>

\* The daemon is a thread.
Serve == CreatePipe \/ WaitForConnection \/ PeekBroken \/ ReadAvailable

PipeNext == Serve \/ ConnectAsClient \/ WriteMessage \/ CloseClient

\* The daemon ends when its client has gone, and has dispatched everything the client
\* wrote before, or has met a request it does not know and is gone at once
\* (win32_daemon_impl.cpp:119-134, runtime.cpp:84-86, 128-136).
EndsWithClient ==
  written > 0 /\ ~open ~>
    server = "exit -2" \/ (server = "ended" /\ read = [i \in 1 .. written |-> i])
=============================================================================
