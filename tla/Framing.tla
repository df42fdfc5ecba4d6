------------------------------- MODULE Framing -------------------------------
(***************************************************************************)
(* The bytes of the daemon's messages (src/src/daemon/runtime.cpp): magic  *)
(* bytes, a type, the length of the content in two bytes, the content.     *)
(* Daemon has the head of a message as a whole; here the client's messages *)
(* are bytes behind each other, a read takes any piece of them, the end of *)
(* one message and the start of the next included, and is dispatched as    *)
(* one message, and a change of the file it named is announced.            *)
(***************************************************************************)
EXTENDS Naturals, SequencesExt

CONSTANTS
  BufferSize, \* msg, send_buffer and buffer: 512 bytes each
  Magic,      \* MagicBytes
  Types,      \* [echo, track, get, changed |-> a number], of EMessage
  FrameContents, \* contents of messages
  MaxStream   \* bound: bytes the client sends

Byte == 0 .. 255

Range16 == 65536 \* values of a uint16_t, the length of a content

ASSUME BufferAssumption == BufferSize \in 1 .. Range16 - 1 /\ MaxStream \in Nat

ASSUME MagicAssumption == Magic \in Seq(Byte) /\ Len(Magic) = 5

ASSUME TypesAssumption == Types \in [{"echo", "track", "get", "changed"} -> Byte]

ASSUME ContentsAssumption == FrameContents \subseteq Seq(Byte)

VARIABLES
  stream,   \* the bytes the client has sent, read or not
  before, taken, \* how many were read, without the last read and with it
  msg,      \* the bytes that were read, until they are dispatched
  tracked,  \* the name given to TrackFile last, as a sequence; empty before
  reply,    \* what was prepared last
  frameEnd  \* "ok", or what it ended in

streamVars == <<stream, before, taken>>
frameVars == <<streamVars, msg, tracked, reply, frameEnd>>

FrameInit ==
  /\ stream = <<>> /\ before = 0 /\ taken = 0
  /\ msg = <<>> /\ tracked = <<>> /\ reply = <<>> /\ frameEnd = "ok"

\* Faulty variant: the length in big endian.
PrepareMessageSwapped(type, content) ==
  LET length == Len(content) % Range16 IN
    Magic \o <<type, length \div 256, length % 256>> \o SubSeq(content, 1, length)

PrepareMessage(type, content) ==
  LET length == Len(content) % Range16 IN
    Magic \o <<type, length % 256, length \div 256>> \o SubSeq(content, 1, length)

\* The client sends a message, read or not what it sent before.
Send ==
  /\ frameEnd = "ok"
  /\ \E t \in DOMAIN Types, content \in FrameContents :
       stream' = stream \o PrepareMessage(Types[t], content)
  /\ Len(stream') <= MaxStream
  /\ UNCHANGED <<before, taken, msg, tracked, reply, frameEnd>>

\* The bytes of the last read.
LastRead == SubSeq(stream, before + 1, taken)

\* A read returns any number of the bytes that are there, up to the size of the buffer.
Receive ==
  /\ frameEnd = "ok" /\ msg = <<>>
  /\ \E n \in 1 .. Len(stream) - taken :
       /\ n <= BufferSize
       /\ before' = taken /\ taken' = taken + n
       /\ msg' = SubSeq(stream, taken + 1, taken + n)
  /\ reply' = <<>>
  /\ UNCHANGED <<stream, tracked, frameEnd>>

MessageVerified(m) == Len(m) > 5 /\ SubSeq(m, 1, 5) = Magic

\* A type and a length at least.
Complete(m) == MessageVerified(m) /\ Len(m) - 5 >= 3

MsgContent(m) == SubSeq(m, 9, Len(m))

\* Bytes written into a buffer.
Into(bytes) == frameEnd' = IF Len(bytes) <= BufferSize THEN frameEnd ELSE "overrun"

Ignore ==
  /\ frameEnd = "ok" /\ msg # <<>>
  /\ Complete(msg) => msg[6] = Types["get"]
  /\ msg' = <<>>
  /\ UNCHANGED <<streamVars, tracked, reply, frameEnd>>

Echo ==
  /\ frameEnd = "ok" /\ Complete(msg) /\ msg[6] = Types["echo"]
  /\ reply' = PrepareMessage(Types["echo"], MsgContent(msg))
  /\ Into(reply') /\ msg' = <<>>
  /\ UNCHANGED <<streamVars, tracked>>

TrackName ==
  /\ frameEnd = "ok" /\ Complete(msg) /\ msg[6] = Types["track"]
  /\ tracked' = <<MsgContent(msg)>>
  /\ Into(MsgContent(msg)) /\ msg' = <<>>
  /\ UNCHANGED <<streamVars, reply>>

Unknown ==
  /\ frameEnd = "ok" /\ Complete(msg) /\ msg[6] \notin {Types[t] : t \in {"echo", "track", "get"}}
  /\ frameEnd' = "exit" /\ msg' = <<>>
  /\ UNCHANGED <<streamVars, tracked, reply>>

\* c_str and strlen: the bytes up to the first zero.
Strlen(bytes) ==
  LET zeros == {i \in DOMAIN bytes : bytes[i] = 0} IN
    SubSeq(bytes, 1, (CHOOSE n \in 0 .. Len(bytes) :
                        (n = Len(bytes) \/ n + 1 \in zeros) /\ \A i \in 1 .. n : i \notin zeros))

\* TryPopChangeInfo gave a file: strlen bytes of its name.
Announce ==
  /\ frameEnd = "ok" /\ msg = <<>> /\ tracked # <<>>
  /\ reply' = PrepareMessage(Types["changed"], Strlen(tracked[1]))
  /\ Into(reply')
  /\ UNCHANGED <<streamVars, msg, tracked>>

FrameNext == Send \/ Receive \/ Ignore \/ Echo \/ TrackName \/ Unknown \/ Announce

\* What the daemon sends is a message as the daemon itself reads one, however the
\* client's bytes were cut into reads: verified, complete, with its length in the two
\* bytes of the head.  An echo has the bytes the read held behind the head of an echo
\* message, no more and no less (the end of that message may be missing, and the start
\* of the next one may be among them); an announcement has the name that was tracked.
\* All fits into the buffers (runtime.cpp:20-72, 93-105, 128-149).
RepliesAreMessages ==
  /\ frameEnd # "overrun"
  /\ reply # <<>> =>
       /\ Complete(reply)
       /\ reply[7] + 256 * reply[8] = Len(MsgContent(reply))
       /\ \/ /\ reply[6] = Types["echo"]
             /\ Complete(LastRead) /\ LastRead[6] = Types["echo"]
             /\ MsgContent(reply) = MsgContent(LastRead)
          \/ /\ reply[6] = Types["changed"]
             /\ MsgContent(reply) = Strlen(tracked[1])
=============================================================================
