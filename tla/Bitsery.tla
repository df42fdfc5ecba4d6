------------------------------- MODULE Bitsery -------------------------------
(***************************************************************************)
(* The core of the vendored bitsery library (src/include/serializer/       *)
(* bitsery): adapters that take and give bytes, the wrapper that packs     *)
(* bits, sizes in one, two or four bytes, and pointers that are numbered,  *)
(* so that what is shared is written once.                                 *)
(*                                                                         *)
(* A serializer is the record of its output adapter, the packing wrapper   *)
(* and its context, a deserializer that of its input side; each operator   *)
(* returns the next one, a read [des |-> the next one, v |-> what is read].*)
(***************************************************************************)
EXTENDS Integers, Sequences, TLC
LOCAL INSTANCE SequencesExt
LOCAL INSTANCE Functions

CONSTANTS
  InitialBuffer,  \* bytes of the vector a serializer starts with (512 in the code)
  StreamBuffer    \* bytes a buffered stream adapter holds back (256 in the code, at least 16)

ASSUME BitseryAssumption == InitialBuffer \in Nat /\ StreamBuffer \in Nat \ (0 .. 15)

NoError == 0
DataOverflow == 2
InvalidData == 3
InvalidPointer == 4

Zeros(n) == [i \in 1 .. n |-> 0]

\* What a read gives, what is read behind it, and so n times.
Got(d, v) == [des |-> d, v |-> v]
Then(r, Read(_, _)) == Read(r.des, r.v)
ReadTimes(d, n, Read(_)) ==
  FoldLeft(LAMBDA r, i : Then(Read(r.des), LAMBDA e, v : Got(e, Append(r.v, v))), Got(d, <<>>), Zeros(n))

-----------------------------------------------------------------------------
(* Integers.  big says that a machine is big-endian; streams never are.    *)

\* How a machine keeps v in n bytes.
InMemory(v, n, big) ==
  LET little == [i \in 1 .. n |-> (v \div (256 ^ (i - 1))) % 256] IN
    IF big THEN Reverse(little) ELSE little

FromMemory(bytes, big) ==
  LET little == IF big THEN Reverse(bytes) ELSE bytes IN
    FoldRight(LAMBDA byte, v : v * 256 + byte, little, 0)

Swap(bytes) == Reverse(bytes)

\* ShouldSwap: Config::Endianness is LittleEndian.
SwapIfNeeded(bytes, big) == IF big THEN Swap(bytes) ELSE bytes

-----------------------------------------------------------------------------
(* The output adapters: OutputBufferAdapter, the stream adapters, and the  *)
(* one that only measures.  curr is the place in the buffer, or, measured, *)
(* the number of bits.                                                     *)

\* By a half and 128, in cache lines of 64.
IncreasedSize(size) ==
  LET new == (size * 3) \div 2 + 128 IN new - (new % 64)

IncreaseBufferSize(s) ==
  [s EXCEPT !.buffer = @ \o Zeros(IncreasedSize(Len(@)) - Len(@))]

MakeSerializer(big) ==
  LET s == [out |-> "buffer", buffer |-> Zeros(InitialBuffer), curr |-> 0, biggest |-> 0, stream |-> <<>>,
            big |-> big, packed |-> FALSE, scratch |-> 0, scratchBits |-> 0,
            ptrs |-> <<>>, aborted |-> FALSE]
  IN IF InitialBuffer = 0 THEN IncreaseBufferSize(s) ELSE s

\* To a stream, to a stream with a buffer before it, or to be measured.
SerializerTo(out) == [MakeSerializer(FALSE) EXCEPT !.out = out, !.buffer = IF out = "buffer" THEN @ ELSE <<>>]

RECURSIVE GrownTo(_, _)
GrownTo(s, size) == IF size <= Len(s.buffer) THEN s ELSE GrownTo(IncreaseBufferSize(s), size)

WriteInternal(s, bytes) ==
  LET t == GrownTo(s, s.curr + Len(bytes)) IN
    [t EXCEPT !.buffer = [i \in DOMAIN @ |-> IF i - s.curr \in DOMAIN bytes THEN bytes[i - s.curr] ELSE @[i]],
              !.curr = @ + Len(bytes)]

PutToStream(s, bytes) == [s EXCEPT !.stream = @ \o bytes]

BufferToStream(s) == [PutToStream(s, s.buffer) EXCEPT !.buffer = <<>>]

\* A value fits into an empty buffer.
BufferedValue(s, bytes) ==
  LET t == IF Len(s.buffer) + Len(bytes) > StreamBuffer THEN BufferToStream(s) ELSE s IN
    [t EXCEPT !.buffer = @ \o bytes]

\* A run that does not fit goes to the stream, behind what was held back.
BufferedRun(s, bytes) ==
  IF Len(s.buffer) + Len(bytes) <= StreamBuffer THEN [s EXCEPT !.buffer = @ \o bytes]
  ELSE PutToStream(BufferToStream(s), bytes)

Measure(s, bits) == [s EXCEPT !.curr = @ + bits]

\* buffered is what a buffered stream becomes.
PutTo(s, bytes, buffered) ==
  CASE s.out = "buffer" -> WriteInternal(s, bytes)
    [] s.out = "stream" -> PutToStream(s, bytes)
    [] s.out = "buffered" -> buffered
    [] s.out = "measure" -> Measure(s, 8 * Len(bytes))

\* writeBytes of the adapter.
PutValue(s, v, n) ==
  LET bytes == SwapIfNeeded(InMemory(v, n, s.big), s.big) IN PutTo(s, bytes, BufferedValue(s, bytes))

\* writeBuffer of the adapter, of single bytes.
PutRun(s, bytes) == PutTo(s, bytes, BufferedRun(s, bytes))

-----------------------------------------------------------------------------
(* The wrapper that packs bits: the lowest first, in a scratch that is     *)
(* written a byte at a time.                                               *)

EmitByte(s) ==
  IF s.scratchBits < 8 THEN s
  ELSE [PutValue(s, s.scratch % 256, 1) EXCEPT !.scratch = @ \div 256, !.scratchBits = @ - 8]

RECURSIVE WriteBitsInternal(_, _, _)
WriteBitsInternal(s, v, size) ==
  LET bits == IF size < 8 THEN size ELSE 8
      t == [s EXCEPT !.scratch = @ + (v % (2 ^ bits)) * 2 ^ s.scratchBits, !.scratchBits = @ + bits]
  IN IF size = 0 THEN s ELSE WriteBitsInternal(EmitByte(t), v \div (2 ^ bits), size - bits)

WriteBits(s, v, bits) == IF s.out = "measure" THEN Measure(s, bits) ELSE WriteBitsInternal(s, v, bits)

AlignMeasure(s) == Measure(s, (8 - (s.curr % 8)) % 8)

\* Without the wrapper align does nothing.
Align(s) ==
  IF s.out = "measure" THEN AlignMeasure(s) ELSE WriteBitsInternal(s, 0, (8 - s.scratchBits) % 8)

WriteBytes(s, v, n) == IF s.scratchBits = 0 THEN PutValue(s, v, n) ELSE WriteBitsInternal(s, v, 8 * n)

WriteBuffer(s, bytes) ==
  IF s.scratchBits = 0 THEN PutRun(s, bytes)
  ELSE FoldLeft(LAMBDA t, byte : WriteBitsInternal(t, byte, 8), s, bytes)

CurrentWritePos(s) == IF s.out = "measure" THEN s.curr \div 8 ELSE s.curr

MeasurePos(s, pos) ==
  LET t == AlignMeasure(s) IN
    [t EXCEPT !.biggest = IF t.curr > 8 * pos THEN t.curr ELSE @, !.curr = 8 * pos]

Larger(a, b) == IF a > b THEN a ELSE b

\* What is behind the position stays, and counts as written.
SetBufferPos(s, pos) == [GrownTo(s, pos) EXCEPT !.biggest = Larger(@, Larger(s.curr, pos)), !.curr = pos]

SetWritePos(s, pos) == IF s.out = "measure" THEN MeasurePos(s, pos) ELSE SetBufferPos(Align(s), pos)

\* flush, and the bytes that are there then.
Written(s) ==
  LET t == Align(s) IN
    IF t.out = "buffer" THEN SubSeq(t.buffer, 1, Larger(t.curr, t.biggest))
    ELSE BufferToStream(t).stream

Measured(s) ==
  LET t == Align(s) IN Larger(t.curr, t.biggest) \div 8

WriteSize(s, size) ==
  IF size < 128
  THEN WriteBytes(s, size, 1)
  ELSE IF size < 16384
  THEN WriteBytes(WriteBytes(s, 128 + (size \div 256), 1), size % 256, 1)
  ELSE WriteBytes(WriteBytes(WriteBytes(s, 192 + (size \div (2 ^ 24)), 1), (size \div (2 ^ 16)) % 256, 1),
                  size % (2 ^ 16), 2)

Asserted(s, condition) == IF condition THEN s ELSE [s EXCEPT !.aborted = TRUE]

\* The head of container: the size and its assertion.
WriteContainerSize(s, size, maxSize) == Asserted(WriteSize(s, size), size <= maxSize)

\* procContainer of a contiguous container, as one run.
WriteContiguous(s, text) == IF text = <<>> THEN s ELSE WriteBuffer(s, text)

WriteText(s, text, maxSize) == WriteContiguous(WriteContainerSize(s, Len(text), maxSize), text)

-----------------------------------------------------------------------------
(* The input adapters.                                                     *)

MakeDeserializer(data, big, heap) ==
  [from |-> "buffer", data |-> data, curr |-> 0, end |-> Len(data), size |-> Len(data),
   overflowAtEnd |-> TRUE, err |-> NoError, big |-> big,
   packed |-> FALSE, scratch |-> 0, scratchBits |-> 0,
   infos |-> <<>>, observed |-> <<>>, heap |-> heap, aborted |-> FALSE]

\* An error of a buffer is kept as the distance of curr from an end of 0.
ErrorOf(d) ==
  IF d.from = "stream" THEN d.err ELSE IF d.curr <= d.end THEN NoError ELSE d.curr - d.end

SetStreamError(d, e) == IF d.err = NoError THEN [d EXCEPT !.err = e] ELSE d

SetError(d, e) ==
  IF d.from = "stream" THEN SetStreamError(d, e)
  ELSE IF d.curr <= d.end THEN [d EXCEPT !.end = 0, !.size = 0, !.curr = e] ELSE d

IsCompletedSuccessfully(d) ==
  IF d.from = "stream" THEN d.err = NoError /\ d.curr = Len(d.data) ELSE d.curr = d.size

\* Faulty variant: the end is not an error.
ReadInternalShort(d, n) ==
  IF d.curr + n <= d.end
  THEN [des |-> [d EXCEPT !.curr = @ + n], v |-> SubSeq(d.data, d.curr + 1, d.curr + n)]
  ELSE [des |-> [d EXCEPT !.curr = d.size], v |-> Zeros(n)]

\* Behind the end everything is zero, and an error unless the end is that of a part.
ReadInternal(d, n) ==
  IF d.curr + n <= d.end
  THEN [des |-> [d EXCEPT !.curr = @ + n], v |-> SubSeq(d.data, d.curr + 1, d.curr + n)]
  ELSE [des |-> IF d.overflowAtEnd THEN SetError(d, DataOverflow) ELSE d, v |-> Zeros(n)]

\* sgetn.  Once there was an error, and when there is too little, the first byte is
\* zeroed; what was not read, of which nobody looks at anything then, is taken as zero.
ReadStream(d, n) ==
  LET left == Len(d.data) - d.curr
      got == IF n < left THEN n ELSE left
      bytes == SubSeq(d.data, d.curr + 1, d.curr + got) \o Zeros(n - got)
      next == [d EXCEPT !.curr = @ + got]
  IN IF d.err = NoError /\ got = n THEN [des |-> next, v |-> bytes]
     ELSE [des |-> SetStreamError(next, DataOverflow), v |-> [bytes EXCEPT ![1] = 0]]

ReadRun(d, n) == IF d.from = "stream" THEN ReadStream(d, n) ELSE ReadInternal(d, n)

\* readBytes of the adapter.
GetValue(d, n) ==
  Then(ReadRun(d, n), LAMBDA e, bytes : Got(e, FromMemory(SwapIfNeeded(bytes, d.big), d.big)))

-----------------------------------------------------------------------------
(* The wrapper that unpacks bits.                                          *)

\* Another byte, when there are too few bits.
FillScratch(d, bits) ==
  IF d.scratchBits >= bits THEN d
  ELSE Then(GetValue(d, 1), LAMBDA e, byte :
              [e EXCEPT !.scratch = @ + byte * 2 ^ d.scratchBits, !.scratchBits = @ + 8])

DropBits(d, bits) == [d EXCEPT !.scratch = @ \div (2 ^ bits), !.scratchBits = @ - bits]

RECURSIVE ReadBits(_, _)
TakeBits(full, bits, size) ==
  Then(ReadBits(DropBits(full, bits), size - bits), LAMBDA e, rest :
    Got(e, (full.scratch % (2 ^ bits)) + rest * 2 ^ bits))

ReadBits(d, size) ==
  LET bits == IF size < 8 THEN size ELSE 8 IN
    IF size = 0 THEN Got(d, 0) ELSE TakeBits(FillScratch(d, bits), bits, size)

\* The bits that are skipped have to be zero.
AlignRead(d) ==
  Then(ReadBits(d, d.scratchBits), LAMBDA e, skipped : IF skipped = 0 THEN e ELSE SetError(e, InvalidData))

ReadBytes(d, n) == IF d.scratchBits = 0 THEN GetValue(d, n) ELSE ReadBits(d, 8 * n)

\* readBuffer, of single bytes.
ReadBuffer(d, n) ==
  IF d.scratchBits = 0 THEN ReadRun(d, n)
  ELSE ReadTimes(d, n, LAMBDA e : ReadBits(e, 8))

CurrentReadPos(d) == IF ErrorOf(d) = NoError THEN d.curr ELSE 0

SetBufferReadPos(d, pos) ==
  IF d.size >= pos /\ ErrorOf(d) = NoError THEN [d EXCEPT !.curr = pos] ELSE SetError(d, DataOverflow)

SetReadPos(d, pos) == SetBufferReadPos(AlignRead(d), pos)

CurrentReadEndPos(d) == IF d.overflowAtEnd THEN 0 ELSE d.end

SetReadEndPos(d, pos) ==
  IF d.size >= pos /\ ErrorOf(d) = NoError
  THEN [d EXCEPT !.overflowAtEnd = (pos = 0), !.end = IF pos = 0 THEN d.size ELSE pos]
  ELSE SetError(d, DataOverflow)

\* handleReadMaxSize.
CheckMaxSize(r, maxSize) ==
  IF r.v > maxSize THEN [des |-> SetError(r.des, InvalidData), v |-> 0] ELSE r

ReadSize(d) ==
  Then(ReadBytes(d, 1), LAMBDA e, hb :
    IF hb < 128 THEN Got(e, hb)
    ELSE Then(ReadBytes(e, 1), LAMBDA g, lb :
      IF hb < 192 THEN Got(g, (hb - 128) * 256 + lb)
      ELSE Then(ReadBytes(g, 2), LAMBDA h, lw : Got(h, ((hb - 192) * 256 + lb) * (2 ^ 16) + lw))))

ReadContainerSize(d, maxSize) == CheckMaxSize(ReadSize(d), maxSize)

ReadContiguous(d, n) == IF n = 0 THEN Got(d, <<>>) ELSE ReadBuffer(d, n)

ReadText(d, maxSize) == Then(ReadContainerSize(d, maxSize), ReadContiguous)

-----------------------------------------------------------------------------
(* Pointer linking.  Owners are "owner", "sharedOwner" and                 *)
(* "sharedObserver"; an "observer" only has the number of its object.      *)

Null == 0

NewInfo(own, p) ==
  [own |-> own, isSharedProcessed |-> FALSE, ptr |-> p, sharedState |-> FALSE,
   ownerPtr |-> Null, observersList |-> {}]

\* Faulty variant: what was observed before counts as written.
UpdatedAsProcessed(info, own) ==
  IF own = "observer" THEN info
  ELSE [info EXCEPT !.own = IF @ = "observer" \/ own = "sharedOwner" THEN own ELSE @, !.isSharedProcessed = TRUE]

\* PLCInfo::update: the object of the pointer is met again.
Updated(info, own) ==
  IF own = "observer" THEN info
  ELSE IF info.own = "observer" THEN [info EXCEPT !.own = own]
  ELSE [info EXCEPT !.own = IF own = "sharedOwner" THEN own ELSE @, !.isSharedProcessed = TRUE]

\* Its assertion: only shared ownership comes there twice.
MayUpdate(info, own) == "observer" \in {own, info.own} \/ own \in {"sharedOwner", "sharedObserver"}

\* getInfoByPtr: a pointer is numbered when it is met first.
InfoByPtr(s, p, own) ==
  LET known == {i \in DOMAIN s.ptrs : s.ptrs[i].ptr = p}
      id == IF known = {} THEN Len(s.ptrs) + 1 ELSE CHOOSE i \in known : TRUE
      t == IF known = {} THEN [s EXCEPT !.ptrs = Append(@, NewInfo(own, p))]
           ELSE Asserted([s EXCEPT !.ptrs[id] = Updated(@, own)], MayUpdate(s.ptrs[id], own))
  IN [ser |-> t, id |-> id, isSharedProcessed |-> t.ptrs[id].isSharedProcessed]

\* getInfoById.
InfoById(d, id, own) ==
  IF id \in DOMAIN d.infos
  THEN Asserted([d EXCEPT !.infos[id] = Updated(@, own)], MayUpdate(d.infos[id], own))
  ELSE [d EXCEPT !.infos = @ @@ (id :> NewInfo(own, Null))]

\* Is there an object of that number, shared with who read it first?
HasSharedState(d, id) == d.infos[id].sharedState

\* A new object, zeroed, which its owner has.
CreateOwned(d, id, zeroed) ==
  [d EXCEPT !.heap = Append(@, zeroed), !.infos[id].ptr = Len(d.heap) + 1]

\* createShared: with its shared state.
CreateShared(d, id, zeroed) == [CreateOwned(d, id, zeroed) EXCEPT !.infos[id].sharedState = TRUE]

\* Faulty variant: who waits is forgotten.
ProcessOwnerAlone(d, id, p) == [d EXCEPT !.infos[id].ownerPtr = p, !.infos[id].observersList = {}]

\* processOwner: the observers that wait for the owner get its address.
ProcessOwner(d, id, p) ==
  [d EXCEPT !.infos[id].ownerPtr = p, !.infos[id].observersList = {},
            !.observed = [n \in DOMAIN @ |-> IF n \in d.infos[id].observersList THEN p ELSE @[n]]]

\* processObserver: the address of the owner, or the place (negative) where it will be.
ProcessObserver(d, id) ==
  LET place == Len(d.observed) + 1 IN
    IF d.infos[id].ownerPtr # Null THEN Got(d, d.infos[id].ownerPtr)
    ELSE Got([d EXCEPT !.observed = Append(@, Null), !.infos[id].observersList = @ \cup {place}], -place)

\* Every object has an owner, on either side.
AllOwned(infos) == \A i \in DOMAIN infos : infos[i].own \in {"owner", "sharedOwner"}
=============================================================================
