---------------------------- MODULE TransportProofs ---------------------------
(* What travels between the daemon and its client is whole: every reply is *)
(* a message, and the pipe on Windows loses nothing.                       *)
EXTENDS Framing, Win32Pipe, CommonLemmas

-----------------------------------------------------------------------------
(* The bytes of a message.                                                 *)

FrameSpec == FrameInit /\ [][FrameNext]_frameVars

\* A sequence of bytes that begins with a head, and what is behind it.
LEMMA HeadAndRest ==
  ASSUME NEW m \in Seq(Byte), NEW n \in Nat, n <= Len(m)
  PROVE  /\ SubSeq(m, 1, n) \in Seq(Byte) /\ Len(SubSeq(m, 1, n)) = n
         /\ \A i \in 1 .. n : SubSeq(m, 1, n)[i] = m[i]
OBVIOUS

\* The places of two parts in a row.
LEMMA TwoParts ==
  ASSUME NEW a \in Seq(Byte), NEW b \in Seq(Byte)
  PROVE  /\ a \o b \in Seq(Byte) /\ Len(a \o b) = Len(a) + Len(b)
         /\ \A i \in 1 .. Len(a) : (a \o b)[i] = a[i]
         /\ \A i \in 1 .. Len(b) : (a \o b)[Len(a) + i] = b[i]
<1> DEFINE h == a \o b
<1>1. h \in Seq(Byte) /\ Len(h) = Len(a) + Len(b)
  BY ConcatProperties
<1>2. \A i \in 1 .. Len(a) + Len(b) : h[i] = IF i <= Len(a) THEN a[i] ELSE b[i - Len(a)]
  BY ConcatProperties
<1> HIDE DEF h
<1>3. ASSUME NEW i \in 1 .. Len(a) PROVE h[i] = a[i]
  BY <1>2
<1>4. ASSUME NEW i \in 1 .. Len(b) PROVE h[Len(a) + i] = b[i]
  BY <1>2
<1> QED
  BY <1>1, <1>3, <1>4 DEF h

\* The places of three parts in a row, of which the first two are a head.
LEMMA PartsInRow ==
  ASSUME NEW a \in Seq(Byte), NEW b \in Seq(Byte), NEW c \in Seq(Byte), Len(a) = 5, Len(b) = 3
  PROVE  /\ (a \o b) \o c \in Seq(Byte) /\ Len((a \o b) \o c) = 8 + Len(c)
         /\ \A i \in 1 .. 5 : ((a \o b) \o c)[i] = a[i]
         /\ \A i \in 1 .. 3 : ((a \o b) \o c)[5 + i] = b[i]
         /\ \A i \in 1 .. Len(c) : ((a \o b) \o c)[8 + i] = c[i]
<1> DEFINE h == a \o b
           m == h \o c
<1>1. /\ h \in Seq(Byte) /\ Len(h) = Len(a) + Len(b)
      /\ \A i \in 1 .. Len(a) : h[i] = a[i]
      /\ \A i \in 1 .. Len(b) : h[Len(a) + i] = b[i]
  BY TwoParts
<1> HIDE DEF h
<1>2. /\ m \in Seq(Byte) /\ Len(m) = Len(h) + Len(c)
      /\ \A i \in 1 .. Len(h) : m[i] = h[i]
      /\ \A i \in 1 .. Len(c) : m[Len(h) + i] = c[i]
  BY <1>1, TwoParts
<1> HIDE DEF m
<1>3. Len(h) = 8
  BY <1>1
<1>4. \A i \in 1 .. 5 : m[i] = a[i]
  BY <1>1, <1>2, <1>3
<1>5. \A i \in 1 .. 3 : m[5 + i] = b[i]
  BY <1>1, <1>2, <1>3
<1> QED
  BY <1>2, <1>3, <1>4, <1>5 DEF h, m

\* The head's two bytes of the length.
LEMMA LengthBytes ==
  ASSUME NEW n \in Nat
  PROVE  /\ n % Range16 \in 0 .. n /\ (n < Range16 => n % Range16 = n)
         /\ (n % Range16) % 256 \in Byte /\ (n % Range16) \div 256 \in Byte
         /\ ((n % Range16) % 256) + 256 * ((n % Range16) \div 256) = n % Range16
BY DEF Byte, Range16

\* The buffers are shorter than a length can say.
LEMMA BufferFits == Range16 \in Nat /\ BufferSize \in Nat /\ BufferSize >= 1 /\ BufferSize < Range16
BY BufferAssumption DEF Range16

\* The types of messages are bytes.
LEMMA TypesAreBytes ==
  /\ DOMAIN Types = {"echo", "track", "get", "changed"}
  /\ \A t \in DOMAIN Types : Types[t] \in Byte
BY TypesAssumption

\* A prepared message is bytes, whatever its content.
LEMMA PreparedIsBytes ==
  ASSUME NEW type \in Byte, NEW content \in Seq(Byte)
  PROVE  PrepareMessage(type, content) \in Seq(Byte)
<1> DEFINE length == Len(content) % Range16
           low == length % 256
           high == length \div 256
           head == <<type, low, high>>
           rest == SubSeq(content, 1, length)
<1>1. length \in 0 .. Len(content) /\ low \in Byte /\ high \in Byte
  BY LengthBytes
<1>2. PrepareMessage(type, content) = (Magic \o head) \o rest
  BY DEF PrepareMessage
<1> HIDE DEF low, high, length
<1>3. rest \in Seq(Byte)
  BY <1>1, HeadAndRest
<1>4. head \in Seq(Byte) /\ Len(head) = 3
  BY <1>1
<1> HIDE DEF head, rest
<1>5. (Magic \o head) \o rest \in Seq(Byte)
  BY <1>3, <1>4, MagicAssumption, PartsInRow
<1> QED
  BY <1>2, <1>5

\* Where the parts of a prepared message are, of a content whose length fits.
LEMMA PreparedBytes ==
  ASSUME NEW type \in Byte, NEW content \in Seq(Byte), Len(content) < Range16
  PROVE  \E m \in Seq(Byte) :
           /\ m = PrepareMessage(type, content) /\ Len(m) = 8 + Len(content)
           /\ \A i \in 1 .. 5 : m[i] = Magic[i]
           /\ m[6] = type /\ m[7] + 256 * m[8] = Len(content)
           /\ \A i \in 1 .. Len(content) : m[8 + i] = content[i]
<1> DEFINE length == Len(content) % Range16
           low == length % 256
           high == length \div 256
           head == <<type, low, high>>
           rest == SubSeq(content, 1, length)
           m == (Magic \o head) \o rest
<1>1. length = Len(content) /\ low \in Byte /\ high \in Byte /\ low + 256 * high = length
  BY LengthBytes
<1>2. PrepareMessage(type, content) = m
  BY DEF PrepareMessage
<1> HIDE DEF low, high, length
<1>3. rest \in Seq(Byte) /\ Len(rest) = length /\ \A i \in 1 .. length : rest[i] = content[i]
  BY <1>1, HeadAndRest
<1>4. head \in Seq(Byte) /\ Len(head) = 3 /\ head[1] = type /\ head[2] = low /\ head[3] = high
  BY <1>1
<1> HIDE DEF head, rest
<1>6. /\ m \in Seq(Byte) /\ Len(m) = 8 + Len(rest)
      /\ \A i \in 1 .. 5 : m[i] = Magic[i]
      /\ \A i \in 1 .. 3 : m[5 + i] = head[i]
      /\ \A i \in 1 .. Len(rest) : m[8 + i] = rest[i]
  BY <1>3, <1>4, MagicAssumption, PartsInRow
<1> HIDE DEF m
<1>7. m[6] = head[1] /\ m[7] = head[2] /\ m[8] = head[3]
  BY <1>6
<1>8. m[6] = type /\ m[7] + 256 * m[8] = Len(content)
  BY <1>1, <1>4, <1>7
<1>9. Len(m) = 8 + Len(content) /\ \A i \in 1 .. Len(content) : m[8 + i] = content[i]
  BY <1>1, <1>3, <1>6
<1> QED
  BY <1>2, <1>6, <1>8, <1>9, Zenon

\* A message the daemon prepares is one it would itself read, with the length of
\* its content in the head.
LEMMA PreparedIsMessage ==
  ASSUME NEW type \in Byte, NEW content \in Seq(Byte), Len(content) < Range16
  PROVE  \E m \in Seq(Byte) :
           /\ m = PrepareMessage(type, content) /\ Complete(m)
           /\ m[6] = type /\ m[7] + 256 * m[8] = Len(MsgContent(m))
           /\ MsgContent(m) = content /\ Len(m) = 8 + Len(content)
<1>1. PICK m \in Seq(Byte) :
        /\ m = PrepareMessage(type, content) /\ Len(m) = 8 + Len(content)
        /\ \A i \in 1 .. 5 : m[i] = Magic[i]
        /\ m[6] = type /\ m[7] + 256 * m[8] = Len(content)
        /\ \A i \in 1 .. Len(content) : m[8 + i] = content[i]
  BY PreparedBytes, Zenon
<1>2. /\ m \in Seq(Byte) /\ Len(m) = 8 + Len(content)
      /\ \A i \in 1 .. 5 : m[i] = Magic[i]
      /\ \A i \in 1 .. Len(content) : m[8 + i] = content[i]
  BY <1>1
<1>3. SubSeq(m, 1, 5) = Magic
  <2>1. SubSeq(m, 1, 5) \in Seq(Byte) /\ Len(SubSeq(m, 1, 5)) = 5
        /\ \A i \in 1 .. 5 : SubSeq(m, 1, 5)[i] = m[i]
    BY <1>2, HeadAndRest
  <2>2. \A i \in 1 .. 5 : SubSeq(m, 1, 5)[i] = Magic[i]
    BY <1>2, <2>1
  <2> QED
    BY <2>1, <2>2, MagicAssumption, SeqEqual, Zenon
<1>4. Complete(m)
  BY <1>2, <1>3 DEF Complete, MessageVerified
<1>5. PICK c \in Seq(Byte) :
        c = MsgContent(m) /\ Len(c) = Len(content) /\ \A i \in 1 .. Len(content) : c[i] = content[i]
  <2>1. /\ SubSeq(m, 9, Len(m)) \in Seq(Byte) /\ Len(SubSeq(m, 9, Len(m))) = Len(content)
        /\ \A i \in 1 .. Len(content) : SubSeq(m, 9, Len(m))[i] = m[8 + i]
    BY <1>2
  <2>2. \A i \in 1 .. Len(content) : SubSeq(m, 9, Len(m))[i] = content[i]
    BY <1>2, <2>1
  <2> QED
    BY <2>1, <2>2, Zenon DEF MsgContent
<1>6. MsgContent(m) = content
  BY <1>5, SeqEqual, Zenon
<1> QED
  BY <1>1, <1>4, <1>6, Zenon

\* The content of what was read of a message.
LEMMA ContentOfRead ==
  ASSUME NEW m \in Seq(Byte), Complete(m)
  PROVE  /\ MsgContent(m) \in Seq(Byte) /\ Len(MsgContent(m)) = Len(m) - 8 /\ Len(m) >= 8
         /\ \A i \in 1 .. Len(m) - 8 : MsgContent(m)[i] = m[8 + i]
<1>1. Len(m) >= 8
  BY DEF Complete
<1>2. PICK n \in Nat : n = Len(m) - 8
  BY <1>1
<1>3. /\ SubSeq(m, 9, Len(m)) \in Seq(Byte) /\ Len(SubSeq(m, 9, Len(m))) = n
      /\ \A i \in 1 .. n : SubSeq(m, 9, Len(m))[i] = m[8 + i]
  BY <1>2
<1> QED
  BY <1>1, <1>2, <1>3 DEF MsgContent

\* There is a first zero or none: strlen returns, and no more than there is.
LEMMA StrlenFits ==
  ASSUME NEW bytes \in Seq(Byte)
  PROVE  Strlen(bytes) \in Seq(Byte) /\ Len(Strlen(bytes)) <= Len(bytes)
<1> DEFINE zeros == {i \in DOMAIN bytes : bytes[i] = 0}
           Ends(n) == (n = Len(bytes) \/ n + 1 \in zeros) /\ \A i \in 1 .. n : i \notin zeros
           S == {n \in 0 .. Len(bytes) : n = Len(bytes) \/ n + 1 \in zeros}
           k == CHOOSE n \in 0 .. Len(bytes) : Ends(n)
<1>1. Len(bytes) \in S /\ S \in SUBSET Nat
  OBVIOUS
<1>2. PICK x \in S : \A y \in S : x <= y
  <2> HIDE DEF S
  <2> QED
    BY <1>1, LeastOf
<1>3. ASSUME NEW i \in 1 .. x PROVE i \notin zeros
  <2>1. i - 1 \in 0 .. Len(bytes) /\ i - 1 < x /\ (i - 1) + 1 = i
    BY <1>3
  <2>2. i - 1 \notin S
    <3> HIDE DEF S
    <3> QED
      BY <1>1, <1>2, <2>1
  <2> HIDE DEF zeros
  <2> QED
    BY <2>1, <2>2
<1>4. x \in 0 .. Len(bytes) /\ Ends(x)
  BY <1>2, <1>3
<1>5. k \in 0 .. Len(bytes)
  <2> HIDE DEF Ends
  <2> QED
    BY <1>4
<1>6. Strlen(bytes) = SubSeq(bytes, 1, k)
  BY Zenon DEF Strlen
<1> HIDE DEF k
<1> QED
  BY <1>5, <1>6, HeadAndRest

\* A piece of what is there.
LEMMA PieceOf ==
  ASSUME NEW s \in Seq(Byte), NEW a \in Nat, NEW b \in Nat, a <= b, b <= Len(s)
  PROVE  /\ SubSeq(s, a + 1, b) \in Seq(Byte) /\ Len(SubSeq(s, a + 1, b)) = b - a
         /\ \A i \in 1 .. b - a : SubSeq(s, a + 1, b)[i] = s[a + i]
<1>1. \A i \in a + 1 .. b : i \in 1 .. Len(s)
  OBVIOUS
<1>2. SubSeq(s, a + 1, b) = [i \in 1 .. b - a |-> s[a + i]]
  OBVIOUS
<1>3. \A i \in 1 .. b - a : s[a + i] \in Byte
  <2>1. ASSUME NEW i \in 1 .. b - a PROVE a + i \in 1 .. Len(s)
    OBVIOUS
  <2> QED
    BY <2>1
<1> QED
  BY <1>2, <1>3

\* What was read is still what the next message of the client comes behind.
LEMMA ReadBefore ==
  ASSUME NEW s \in Seq(Byte), NEW m \in Seq(Byte), NEW a \in Nat, NEW b \in a .. Len(s)
  PROVE  /\ SubSeq(s, a + 1, b) \in Seq(Byte) /\ Len(SubSeq(s, a + 1, b)) = b - a
         /\ SubSeq(s \o m, a + 1, b) = SubSeq(s, a + 1, b)
<1> DEFINE old == SubSeq(s, a + 1, b)
           new == SubSeq(s \o m, a + 1, b)
<1>1. old \in Seq(Byte) /\ Len(old) = b - a /\ \A i \in 1 .. b - a : old[i] = s[a + i]
  BY PieceOf
<1>q. s \o m \in Seq(Byte) /\ \A i \in 1 .. Len(s) : (s \o m)[i] = s[i]
  BY TwoParts
<1>r. Len(s \o m) >= Len(s)
  <2>1. Len(s \o m) = Len(s) + Len(m)
    BY TwoParts
  <2> QED
    BY <2>1
<1>2. PICK t \in Seq(Byte) : t = s \o m /\ Len(t) >= Len(s) /\ \A i \in 1 .. Len(s) : t[i] = s[i]
  BY <1>q, <1>r, Zenon
<1>p. a <= b /\ b \in Nat /\ b <= Len(t)
  BY <1>2
<1>3. SubSeq(t, a + 1, b) \in Seq(Byte) /\ Len(SubSeq(t, a + 1, b)) = b - a
      /\ \A i \in 1 .. b - a : SubSeq(t, a + 1, b)[i] = t[a + i]
  BY <1>p, PieceOf
<1>4. new \in Seq(Byte) /\ Len(new) = b - a /\ \A i \in 1 .. b - a : new[i] = t[a + i]
  BY <1>2, <1>3, Zenon
<1> HIDE DEF old, new
<1>5. \A i \in 1 .. b - a : new[i] = old[i]
  BY <1>1, <1>2, <1>4
<1>6. new = old
  BY <1>1, <1>4, <1>5, SeqEqual
<1> QED
  BY <1>1, <1>6 DEF old, new

\* The last read is of the client's bytes, and fits the buffer.
ReadsInv ==
  /\ stream \in Seq(Byte) /\ before \in Nat /\ taken \in before .. Len(stream)
  /\ taken - before <= BufferSize

\* The name that is tracked fits a message.
NameInv == tracked = <<>> \/ \E c \in Seq(Byte) : tracked = <<c>> /\ 8 + Len(c) <= BufferSize

\* What waits to be dispatched is the last read, and nothing is prepared before that.
FrameInv ==
  /\ ReadsInv /\ NameInv
  /\ msg = <<>> \/ (msg = LastRead /\ reply = <<>>)
  /\ RepliesAreMessages

\* What is left alone stays as it is.
LEMMA SameReads ==
  ASSUME ReadsInv, UNCHANGED streamVars PROVE ReadsInv' /\ LastRead' = LastRead
BY DEF ReadsInv, LastRead, streamVars

LEMMA SameName ==
  ASSUME NameInv, UNCHANGED tracked PROVE NameInv'
BY DEF NameInv

LEMMA SameReplies ==
  ASSUME RepliesAreMessages, UNCHANGED <<tracked, reply>>, LastRead' = LastRead, frameEnd' # "overrun"
  PROVE  RepliesAreMessages'
BY DEF RepliesAreMessages

LEMMA NoReply ==
  ASSUME reply' = <<>>, frameEnd' # "overrun" PROVE RepliesAreMessages'
BY DEF RepliesAreMessages

\* The last read is a sequence of bytes, no longer than the buffer.
LEMMA ReadFits ==
  ASSUME ReadsInv PROVE LastRead \in Seq(Byte) /\ Len(LastRead) <= BufferSize
<1>1. stream \in Seq(Byte) /\ before \in Nat /\ taken \in before .. Len(stream)
  BY DEF ReadsInv
<1>2. LastRead \in Seq(Byte) /\ Len(LastRead) = taken - before
  BY <1>1, ReadBefore DEF LastRead
<1> QED
  BY <1>2 DEF ReadsInv

\* What is dispatched as a complete message is the last read, and its content leaves
\* room for a head.
LEMMA Dispatched ==
  ASSUME FrameInv, Complete(msg)
  PROVE  /\ msg = LastRead /\ reply = <<>>
         /\ MsgContent(msg) \in Seq(Byte) /\ 8 + Len(MsgContent(msg)) <= BufferSize
<1>1. ~Complete(<<>>)
  BY DEF Complete, MessageVerified
<1>2. msg = LastRead /\ reply = <<>> /\ ReadsInv
  BY <1>1 DEF FrameInv
<1>3. msg \in Seq(Byte) /\ Len(msg) <= BufferSize
  BY <1>2, ReadFits
<1>4. MsgContent(msg) \in Seq(Byte) /\ Len(MsgContent(msg)) = Len(msg) - 8 /\ Len(msg) >= 8
  BY <1>3, ContentOfRead
<1>5. 8 + Len(MsgContent(msg)) <= BufferSize
  <2>1. Len(msg) \in Nat
    BY <1>3
  <2> QED
    BY <1>3, <1>4, <2>1, BufferFits
<1> QED
  BY <1>2, <1>4, <1>5

\* A message that is sent leaves the last read, and what was said of it, as they were.
LEMMA SendKeepsReads ==
  ASSUME FrameInv, Send
  PROVE  FrameInv'
<1>1. PICK t \in DOMAIN Types, content \in FrameContents :
        stream' = stream \o PrepareMessage(Types[t], content)
  BY DEF Send
<1>2. Types[t] \in Byte /\ content \in Seq(Byte)
  BY TypesAreBytes, ContentsAssumption
<1>3. PICK m \in Seq(Byte) : m = PrepareMessage(Types[t], content)
  BY <1>2, PreparedIsBytes
<1>4. UNCHANGED <<before, taken, msg, tracked, reply, frameEnd>> /\ stream' = stream \o m
  BY <1>1, <1>3 DEF Send
<1>5. /\ stream \in Seq(Byte) /\ before \in Nat /\ taken \in before .. Len(stream)
      /\ taken - before <= BufferSize
  BY DEF FrameInv, ReadsInv
<1>6. stream' \in Seq(Byte) /\ Len(stream') = Len(stream) + Len(m)
  BY <1>4, <1>5, TwoParts
<1>7. ReadsInv'
  BY <1>4, <1>5, <1>6 DEF ReadsInv
<1>8. LastRead' = LastRead
  BY <1>4, <1>5, ReadBefore DEF LastRead
<1>9. frameEnd' # "overrun"
  BY DEF Send
<1> QED
  BY <1>4, <1>7, <1>8, <1>9, SameName, SameReplies DEF FrameInv

\* A prepared reply is a message of its type with its content, and fits the buffer when
\* the content leaves room for a head.
LEMMA ReplyFits ==
  ASSUME NEW type \in Byte, NEW c \in Seq(Byte), 8 + Len(c) <= BufferSize, frameEnd = "ok",
         reply' = PrepareMessage(type, c), Into(reply')
  PROVE  /\ Complete(reply') /\ reply'[7] + 256 * reply'[8] = Len(MsgContent(reply'))
         /\ reply'[6] = type /\ MsgContent(reply') = c /\ frameEnd' = "ok"
<1>1. Len(c) < Range16
  BY BufferFits
<1>3. PICK m \in Seq(Byte) :
        /\ m = PrepareMessage(type, c) /\ Complete(m)
        /\ m[6] = type /\ m[7] + 256 * m[8] = Len(MsgContent(m))
        /\ MsgContent(m) = c /\ Len(m) = 8 + Len(c)
  BY <1>1, PreparedIsMessage, Zenon
<1>4. reply' = m
  BY <1>3
<1>5. Len(m) <= BufferSize
  BY <1>3
<1>6. frameEnd' = "ok"
  BY <1>4, <1>5 DEF Into
<1> QED
  BY <1>3, <1>4, <1>6

\* However the client's messages are cut into reads or run together in them, every
\* reply is a message, an echo has what the read held behind its head, an announcement
\* the name that is tracked (runtime.cpp:20-150).
THEOREM RepliesWellFormed == FrameSpec => []RepliesAreMessages
<1>1. FrameInit => FrameInv
  <2> SUFFICES ASSUME FrameInit PROVE FrameInv
    OBVIOUS
  <2>1. ReadsInv
    BY BufferFits DEF FrameInit, ReadsInv
  <2> QED
    BY <2>1 DEF FrameInit, FrameInv, NameInv, RepliesAreMessages
<1>2. FrameInv /\ [FrameNext]_frameVars => FrameInv'
  <2> SUFFICES ASSUME FrameInv, [FrameNext]_frameVars PROVE FrameInv'
    OBVIOUS
  <2>i. ReadsInv /\ NameInv /\ RepliesAreMessages
    BY DEF FrameInv
  <2>1. CASE Send
    BY <2>1, SendKeepsReads
  <2>2. CASE Receive
    <3>1. PICK n \in 1 .. Len(stream) - taken :
            /\ n <= BufferSize
            /\ before' = taken /\ taken' = taken + n
            /\ msg' = SubSeq(stream, taken + 1, taken + n)
      BY <2>2 DEF Receive
    <3>2. reply' = <<>> /\ UNCHANGED <<stream, tracked>> /\ frameEnd' # "overrun"
      BY <2>2 DEF Receive
    <3>3. msg' = LastRead'
      BY <3>1, <3>2 DEF LastRead
    <3>4. ReadsInv'
      BY <2>i, <3>1, <3>2 DEF ReadsInv
    <3> QED
      BY <2>i, <3>2, <3>3, <3>4, SameName, NoReply DEF FrameInv
  <2>3. CASE Ignore
    <3>1. UNCHANGED <<streamVars, tracked, reply>> /\ msg' = <<>> /\ frameEnd' # "overrun"
      BY <2>3 DEF Ignore
    <3> QED
      BY <2>i, <3>1, SameReads, SameName, SameReplies DEF FrameInv
  <2>4. CASE Echo
    <3>1. /\ frameEnd = "ok" /\ Complete(msg) /\ msg[6] = Types["echo"]
          /\ reply' = PrepareMessage(Types["echo"], MsgContent(msg)) /\ Into(reply')
          /\ msg' = <<>> /\ UNCHANGED <<streamVars, tracked>>
      BY <2>4 DEF Echo
    <3>2. msg = LastRead /\ MsgContent(msg) \in Seq(Byte) /\ 8 + Len(MsgContent(msg)) <= BufferSize
      BY <3>1, Dispatched
    <3>3. Types["echo"] \in Byte
      BY TypesAreBytes
    <3>4. /\ Complete(reply') /\ reply'[7] + 256 * reply'[8] = Len(MsgContent(reply'))
          /\ reply'[6] = Types["echo"] /\ MsgContent(reply') = MsgContent(msg) /\ frameEnd' = "ok"
      BY <3>1, <3>2, <3>3, ReplyFits
    <3>5. ReadsInv' /\ LastRead' = LastRead /\ NameInv'
      BY <2>i, <3>1, SameReads, SameName
    <3>6. RepliesAreMessages'
      BY <3>1, <3>2, <3>4, <3>5 DEF RepliesAreMessages
    <3> QED
      BY <3>1, <3>5, <3>6 DEF FrameInv
  <2>5. CASE TrackName
    <3>1. /\ frameEnd = "ok" /\ Complete(msg) /\ Into(MsgContent(msg))
          /\ tracked' = <<MsgContent(msg)>> /\ msg' = <<>> /\ UNCHANGED <<streamVars, reply>>
      BY <2>5 DEF TrackName
    <3>2. PICK c \in Seq(Byte) : c = MsgContent(msg) /\ reply = <<>> /\ 8 + Len(c) <= BufferSize
      BY <3>1, Dispatched
    <3>3. Len(c) <= BufferSize
      BY <3>2, BufferFits
    <3>4. frameEnd' = "ok"
      BY <3>1, <3>2, <3>3 DEF Into
    <3>5. NameInv'
      BY <3>1, <3>2 DEF NameInv
    <3>6. RepliesAreMessages'
      BY <3>1, <3>2, <3>4, NoReply
    <3> QED
      BY <2>i, <3>1, <3>5, <3>6, SameReads DEF FrameInv
  <2>6. CASE Unknown
    <3>1. UNCHANGED <<streamVars, tracked, reply>> /\ msg' = <<>> /\ frameEnd' # "overrun"
      BY <2>6 DEF Unknown
    <3> QED
      BY <2>i, <3>1, SameReads, SameName, SameReplies DEF FrameInv
  <2>7. CASE Announce
    <3>1. /\ frameEnd = "ok" /\ msg = <<>> /\ tracked # <<>>
          /\ reply' = PrepareMessage(Types["changed"], Strlen(tracked[1])) /\ Into(reply')
          /\ UNCHANGED <<streamVars, msg, tracked>>
      BY <2>7 DEF Announce
    <3>2. PICK c \in Seq(Byte) : tracked[1] = c /\ 8 + Len(c) <= BufferSize
      BY <2>i, <3>1 DEF NameInv
    <3>3. PICK name \in Seq(Byte) : name = Strlen(tracked[1]) /\ Len(name) <= Len(c)
      BY <3>2, StrlenFits
    <3>4. Types["changed"] \in Byte /\ 8 + Len(name) <= BufferSize
      BY <3>2, <3>3, BufferFits, TypesAreBytes
    <3>5. /\ Complete(reply') /\ reply'[7] + 256 * reply'[8] = Len(MsgContent(reply'))
          /\ reply'[6] = Types["changed"] /\ MsgContent(reply') = name /\ frameEnd' = "ok"
      BY <3>1, <3>3, <3>4, ReplyFits
    <3>6. ReadsInv' /\ NameInv'
      BY <2>i, <3>1, SameReads, SameName
    <3>7. RepliesAreMessages'
      BY <3>1, <3>3, <3>5 DEF RepliesAreMessages
    <3> QED
      BY <3>1, <3>6, <3>7 DEF FrameInv
  <2>8. CASE UNCHANGED frameVars
    BY <2>8 DEF frameVars, streamVars, FrameInv, ReadsInv, NameInv, RepliesAreMessages, LastRead
  <2> QED
    BY <2>1, <2>2, <2>3, <2>4, <2>5, <2>6, <2>7, <2>8 DEF FrameNext
<1>3. FrameInv => RepliesAreMessages
  BY DEF FrameInv
<1> QED
  BY <1>1, <1>2, <1>3, PTL DEF FrameSpec

-----------------------------------------------------------------------------
(* The pipe on Windows.                                                    *)

PipeSpec == PipeInit /\ [][PipeNext]_pipeVars

\* The bytes the client has written, in order: what was dispatched, and behind it
\* what is in the pipe; the daemon ends on an empty pipe that nobody can write to.
PipeInv ==
  /\ written \in Nat /\ read \in Seq(Nat) /\ pipe \in Seq(Nat)
  /\ read \o pipe = [i \in 1 .. written |-> i]
  /\ server = "ended" => pipe = <<>> /\ ~open /\ written > 0

\* The bytes written so far are a sequence, and one more is behind them.
LEMMA OneMoreWritten ==
  ASSUME NEW n \in Nat
  PROVE  /\ [i \in 1 .. n |-> i] \in Seq(Nat)
         /\ [i \in 1 .. n + 1 |-> i] = Append([i \in 1 .. n |-> i], n + 1)
<1> DEFINE s == [i \in 1 .. n |-> i]
           t == [i \in 1 .. n + 1 |-> i]
<1>1. s \in Seq(Nat) /\ Len(s) = n /\ \A i \in 1 .. n : s[i] = i
  OBVIOUS
<1>2. t \in Seq(Nat) /\ Len(t) = n + 1 /\ \A i \in 1 .. n + 1 : t[i] = i
  OBVIOUS
<1> HIDE DEF s, t
<1>3. /\ Append(s, n + 1) \in Seq(Nat) /\ Len(Append(s, n + 1)) = n + 1
      /\ \A i \in 1 .. n + 1 : Append(s, n + 1)[i] = i
  BY <1>1
<1>4. t = Append(s, n + 1)
  BY <1>2, <1>3, SeqEqual
<1> QED
  BY <1>1, <1>4 DEF s, t

\* Three runs of bytes in a row are one sequence however they are put together.
LEMMA BytesInARow ==
  ASSUME NEW r \in Seq(Nat), NEW a \in Seq(Nat), NEW b \in Seq(Nat)
  PROVE  (r \o a) \o b = r \o (a \o b)
<1> DEFINE Left == (r \o a) \o b
           Right == r \o (a \o b)
<1>1. r \o a \in Seq(Nat) /\ a \o b \in Seq(Nat)
  BY ConcatProperties
<1>2. /\ Left \in Seq(Nat) /\ Len(Left) = Len(r) + Len(a) + Len(b)
      /\ Right \in Seq(Nat) /\ Len(Right) = Len(r) + Len(a) + Len(b)
  BY <1>1
<1>3. \A i \in 1 .. Len(Left) : Left[i] = Right[i]
  BY <1>1
<1> HIDE DEF Left, Right
<1>4. Left = Right
  BY <1>2, <1>3, SeqEqual
<1> QED
  BY <1>4 DEF Left, Right

\* A byte more behind what is in the pipe is a byte more behind all of it.
LEMMA WriteBehind ==
  ASSUME NEW r \in Seq(Nat), NEW p \in Seq(Nat), NEW x \in Nat
  PROVE  Append(p, x) \in Seq(Nat) /\ r \o Append(p, x) = Append(r \o p, x)
<1> DEFINE one == <<x>>
<1>1. one \in Seq(Nat) /\ r \o p \in Seq(Nat) /\ Append(p, x) \in Seq(Nat)
  OBVIOUS
<1>2. Append(p, x) = p \o one /\ Append(r \o p, x) = (r \o p) \o one
  BY <1>1, AppendIsConcat
<1> HIDE DEF one
<1>3. (r \o p) \o one = r \o (p \o one)
  BY <1>1, BytesInARow, Zenon
<1> QED
  BY <1>1, <1>2, <1>3, Zenon

\* Moving the first bytes of the pipe to what was read leaves the whole as it was.
LEMMA ReadAhead ==
  ASSUME NEW r \in Seq(Nat), NEW p \in Seq(Nat), NEW k \in 1 .. Len(p)
  PROVE  /\ r \o SubSeq(p, 1, k) \in Seq(Nat) /\ SubSeq(p, k + 1, Len(p)) \in Seq(Nat)
         /\ (r \o SubSeq(p, 1, k)) \o SubSeq(p, k + 1, Len(p)) = r \o p
<1> DEFINE a == SubSeq(p, 1, k)
           b == SubSeq(p, k + 1, Len(p))
<1>1. a \in Seq(Nat) /\ b \in Seq(Nat)
  OBVIOUS
<1>2. a \o b = p
  <2>1. 1 \in 1 .. Len(p) + 1 /\ k \in 1 - 1 .. Len(p) /\ Len(p) \in k .. Len(p)
    OBVIOUS
  <2>2. a \o b = SubSeq(p, 1, Len(p))
    BY <2>1, ConcatAdjacentSubSeq
  <2>3. SubSeq(p, 1, Len(p)) = p
    OBVIOUS
  <2> QED
    BY <2>2, <2>3, Zenon
<1> HIDE DEF a, b
<1>3. r \o a \in Seq(Nat)
  BY <1>1, ConcatProperties
<1>4. (r \o a) \o b = r \o (a \o b)
  BY <1>1, BytesInARow, Zenon
<1> QED
  BY <1>1, <1>2, <1>3, <1>4, Zenon DEF a, b

\* The daemon only ends when it has dispatched, in order, every byte the client
\* wrote: neither a read that takes less than there is nor bytes that come behind
\* PeekNamedPipe's answer lose any (win32_daemon_impl.cpp:119-134).
EndsWithEverything == server = "ended" => read = [i \in 1 .. written |-> i]

THEOREM PipeLosesNothing == PipeSpec => []EndsWithEverything
<1>1. PipeInit => PipeInv
  <2> SUFFICES ASSUME PipeInit PROVE PipeInv
    OBVIOUS
  <2>1. [i \in 1 .. 0 |-> i] = <<>>
    OBVIOUS
  <2> QED
    BY <2>1 DEF PipeInit, PipeInv
<1>2. PipeInv /\ [PipeNext]_pipeVars => PipeInv'
  <2> SUFFICES ASSUME PipeInv, [PipeNext]_pipeVars PROVE PipeInv'
    OBVIOUS
  <2>i. /\ written \in Nat /\ read \in Seq(Nat) /\ pipe \in Seq(Nat)
        /\ read \o pipe = [i \in 1 .. written |-> i]
        /\ server = "ended" => pipe = <<>> /\ ~open /\ written > 0
    BY DEF PipeInv
  <2>1. CASE CreatePipe \/ WaitForConnection \/ CloseClient \/ PeekBroken \/ UNCHANGED pipeVars
    <3>1. UNCHANGED <<written, read, pipe>>
      BY <2>1 DEF CreatePipe, WaitForConnection, CloseClient, PeekBroken, pipeVars
    <3>2. server' = "ended" => pipe' = <<>> /\ ~open' /\ written' > 0
      BY <2>i, <2>1 DEF CreatePipe, WaitForConnection, CloseClient, PeekBroken, pipeVars
    <3> QED
      BY <2>i, <3>1, <3>2 DEF PipeInv
  <2>2. CASE ConnectAsClient
    <3>1. UNCHANGED <<written, read, pipe, server>> /\ server # "ended"
      BY <2>2 DEF ConnectAsClient
    <3> QED
      BY <2>i, <3>1 DEF PipeInv
  <2>3. CASE WriteMessage
    <3>1. /\ pipe' = Append(pipe, written + 1) /\ written' = written + 1
          /\ read' = read /\ server' = server /\ server # "ended"
      BY <2>i, <2>3 DEF WriteMessage
    <3>2. /\ Append(pipe, written + 1) \in Seq(Nat)
          /\ read \o Append(pipe, written + 1) = Append(read \o pipe, written + 1)
      <4>1. written + 1 \in Nat
        BY <2>i
      <4> QED
        BY <2>i, <4>1, WriteBehind, Zenon
    <3>3. [i \in 1 .. written + 1 |-> i] = Append([i \in 1 .. written |-> i], written + 1)
      BY <2>i, OneMoreWritten
    <3>4. read' \o pipe' = [i \in 1 .. written' |-> i]
      BY <2>i, <3>1, <3>2, <3>3, Zenon
    <3>5. written' \in Nat /\ read' \in Seq(Nat) /\ pipe' \in Seq(Nat) /\ server' # "ended"
      BY <2>i, <3>1, <3>2
    <3> QED
      BY <3>4, <3>5 DEF PipeInv
  <2>4. CASE ReadAvailable
    <3>1. /\ server' # "ended" /\ UNCHANGED <<written, open>>
          /\ \E n \in 1 .. Len(pipe) :
               LET to_read == IF n < MaxRead THEN n ELSE MaxRead IN
                 /\ read' = read \o SubSeq(pipe, 1, to_read)
                 /\ pipe' = SubSeq(pipe, to_read + 1, Len(pipe))
      BY <2>4 DEF ReadAvailable
    <3>2. PICK n \in 1 .. Len(pipe) :
            /\ read' = read \o SubSeq(pipe, 1, IF n < MaxRead THEN n ELSE MaxRead)
            /\ pipe' = SubSeq(pipe, (IF n < MaxRead THEN n ELSE MaxRead) + 1, Len(pipe))
      BY <3>1, Zenon
    <3> DEFINE k == IF n < MaxRead THEN n ELSE MaxRead
    <3>3. Len(pipe) \in Nat /\ k \in 1 .. Len(pipe)
      BY <2>i, Win32PipeAssumption
    <3>4. read' = read \o SubSeq(pipe, 1, k) /\ pipe' = SubSeq(pipe, k + 1, Len(pipe))
      BY <3>2, Zenon
    <3> HIDE DEF k
    <3>5. /\ read \o SubSeq(pipe, 1, k) \in Seq(Nat) /\ SubSeq(pipe, k + 1, Len(pipe)) \in Seq(Nat)
          /\ (read \o SubSeq(pipe, 1, k)) \o SubSeq(pipe, k + 1, Len(pipe)) = read \o pipe
      BY <2>i, <3>3, ReadAhead
    <3>6. /\ read' \in Seq(Nat) /\ pipe' \in Seq(Nat) /\ read' \o pipe' = read \o pipe
      BY <3>4, <3>5, Zenon
    <3> QED
      BY <2>i, <3>1, <3>6 DEF PipeInv
  <2> QED
    BY <2>1, <2>2, <2>3, <2>4 DEF PipeNext, Serve
<1>3. PipeInv => EndsWithEverything
  <2> SUFFICES ASSUME PipeInv, server = "ended" PROVE read = [i \in 1 .. written |-> i]
    BY DEF EndsWithEverything
  <2>1. read \o <<>> = read
    BY DEF PipeInv
  <2> QED
    BY <2>1 DEF PipeInv
<1> QED
  BY <1>1, <1>2, <1>3, PTL DEF PipeSpec
=============================================================================
