---------------------------- MODULE BitseryFormat ----------------------------
(***************************************************************************)
(* Serializer, Deserializer and the extensions of the vendored bitsery     *)
(* library (src/include/serializer/bitsery).  What a program writes as     *)
(* calls on a serializer is here a format: a record whose field "is" names *)
(* the call.  Serialize and Deserialize walk a format as the two sides of the code do.*)
(*                                                                         *)
(* A pointer is the number of an object in the heap of its side, an object *)
(* [type |-> its dynamic type, v |-> its value]; an observer that was read *)
(* before its owner is minus the place in "observed" that gets the address *)
(* when the owner has been read.                                           *)
(***************************************************************************)
EXTENDS Bitsery, FiniteSets
LOCAL INSTANCE SequencesExt
LOCAL INSTANCE FiniteSetsExt
LOCAL INSTANCE Functions

CONSTANTS
  Cases,     \* a sequence of what is written: [format, values, heap, readAs |-> the formats
             \* of the readers, adapters, tried |-> bytes that may arrive instead of another]
  Objects,   \* the formats of objects behind pointers, by their types
  Childs,    \* the types derived from each polymorphic type, in their order
  Abstract,  \* the types of which there are no objects
  Bases,     \* the types registered
  Classes    \* [bases |-> a sequence of [name, virtual], own |-> a format], by their names

VARIABLES
  stage,   \* "idle", "written", "aborted" or "read"
  case,    \* the number of the case
  value,
  damage,  \* "none", "cut" or "changed"
  bytes,
  ptrs,    \* the pointers that were written
  readAs,
  result   \* of the reader

formatVars == <<stage, case, value, damage, bytes, ptrs, readAs, result>>

NoResult ==
  [v |-> <<>>, error |-> NoError, completed |-> FALSE, heap |-> <<>>, infos |-> <<>>, observed |-> <<>>]

FormatInit ==
  /\ stage = "idle" /\ case = 1 /\ value = <<>> /\ damage = "none" /\ bytes = <<>>
  /\ ptrs = <<>> /\ readAs = <<>> /\ result = NoResult

-----------------------------------------------------------------------------
(* Numbers.                                                                *)

Unsigned(v, n) == v % (256 ^ n)
Signed(u, n) == IF u >= 256 ^ n \div 2 THEN u - 256 ^ n ELSE u

ZigZagEncode(v) == IF v >= 0 THEN 2 * v ELSE -2 * v - 1
ZigZagDecode(u) == IF u % 2 = 0 THEN u \div 2 ELSE -(u \div 2) - 1

RECURSIVE WriteSevens(_, _)
WriteSevens(s, val) ==
  IF val > 127 THEN WriteSevens(WriteBytes(s, 128 + (val % 128), 1), val \div 128)
  ELSE WriteBytes(s, val, 1)

\* tmp of the bytes so far, of which b1 is the last.
RECURSIVE ReadSevens(_, _, _, _, _)
ReadSevens(d, bits, i, b1, tmp) ==
  IF i < bits /\ b1 > 127
  THEN Then(ReadBytes(d, 1), LAMBDA e, b : ReadSevens(e, bits, i + 7, b, tmp + (b % 128) * 2 ^ i))
  ELSE [des |-> d, i |-> i, b1 |-> b1, v |-> tmp]

WriteCompact(s, f, v) ==
  IF f.size = 1 THEN WriteBytes(s, Unsigned(v, 1), 1)
  ELSE WriteSevens(s, IF f.signed THEN ZigZagEncode(v) ELSE v)

\* CompactValueAsObject: the bits of the last byte that are behind the type.
ReadOverflows(r, bits) == r.i > bits /\ r.b1 \div 2 ^ (bits + 7 - r.i) # 0

FromSevens(r, f) ==
  LET u == r.v % (256 ^ f.size) IN
    Got(IF f.checked /\ ReadOverflows(r, 8 * f.size) THEN SetError(r.des, InvalidData) ELSE r.des,
        IF f.signed THEN ZigZagDecode(u) ELSE u)

ReadCompact(d, f) ==
  IF f.size = 1 THEN Then(ReadBytes(d, 1), LAMBDA e, u : Got(e, IF f.signed THEN Signed(u, 1) ELSE u))
  ELSE FromSevens(ReadSevens(d, 8 * f.size, 0, 128, 0), f)

RequiredBits(f) == CHOOSE n \in 0 .. 30 : f.max - f.min < 2 ^ n /\ (n = 0 \/ f.max - f.min >= 2 ^ (n - 1))

IsRangeValid(v, f) == v \in f.min .. f.max

WriteRange(s, f, v) == WriteBits(Asserted(s, IsRangeValid(v, f)), v - f.min, RequiredBits(f))

\* Faulty variant: what is out of the range is given to the program.
ReadRangeUnchecked(d, f) == Then(ReadBits(d, RequiredBits(f)), LAMBDA e, v : Got(e, v + f.min))

ReadRange(d, f) ==
  Then(ReadBits(d, RequiredBits(f)), LAMBDA e, v :
    IF IsRangeValid(v + f.min, f) THEN Got(e, v + f.min) ELSE Got(SetError(e, InvalidData), f.min))

\* The wrapper packs, and so does who only measures.
BitPackingEnabled(s) == s.packed \/ s.out = "measure"

WriteBool(s, v) ==
  LET bit == IF v THEN 1 ELSE 0 IN IF BitPackingEnabled(s) THEN WriteBits(s, bit, 1) ELSE WriteBytes(s, bit, 1)

ReadBool(d) ==
  Then(IF d.packed THEN ReadBits(d, 1) ELSE ReadBytes(d, 1), LAMBDA e, v :
    Got(IF v > 1 THEN SetError(e, InvalidData) ELSE e, v = 1))

\* A number as that many bits, the lowest first, and back.
BitsOf(v, n) == [i \in 1 .. n |-> (v \div 2 ^ (i - 1)) % 2 = 1]
FromBits(bits) == FoldRight(LAMBDA bit, v : 2 * v + (IF bit THEN 1 ELSE 0), bits, 0)

\* Whole bytes, then what is left over.
WriteLeftBits(s, left) ==
  IF left = <<>> THEN s
  ELSE IF BitPackingEnabled(s) THEN FoldLeft(LAMBDA t, bit : WriteBits(t, IF bit THEN 1 ELSE 0, 1), s, left)
  ELSE WriteBytes(s, FromBits(left), 1)

WriteBitset(s, f, v) ==
  WriteLeftBits(FoldLeft(LAMBDA t, i : WriteBytes(t, FromBits(SubSeq(v, 8 * i - 7, 8 * i)), 1),
                         s, [i \in 1 .. f.count \div 8 |-> i]),
                SubSeq(v, f.count - (f.count % 8) + 1, f.count))

ReadBitset(d, f) ==
  LET n == f.count % 8 IN
    Then(ReadTimes(d, f.count \div 8, LAMBDA e : ReadBytes(e, 1)), LAMBDA e, whole :
      LET bits == FlattenSeq([i \in DOMAIN whole |-> BitsOf(whole[i], 8)]) IN
        IF n = 0 THEN Got(e, bits)
        ELSE Then(IF e.packed THEN ReadBits(e, n) ELSE ReadBytes(e, 1), LAMBDA g, left :
                    Got(g, bits \o BitsOf(left, n))))

-----------------------------------------------------------------------------
(* What holds other values.                                                *)

RECURSIVE Serialize(_, _, _)
RECURSIVE Deserialize(_, _)

\* procContainer with a function.
WriteEach(s, f, vs) == FoldLeft(LAMBDA t, v : Serialize(t, f, v), s, vs)

ReadEach(d, f, n) == ReadTimes(d, n, LAMBDA e : Deserialize(e, f))

WriteContainer(s, f, vs) == WriteEach(WriteContainerSize(s, Len(vs), f.max), f.of, vs)

ReadContainer(d, f) == Then(ReadContainerSize(d, f.max), LAMBDA e, n : ReadEach(e, f.of, n))

\* A fixed number of elements, and no size.
WriteArray(s, f, vs) == WriteEach(s, f.of, vs)
ReadArray(d, f) == ReadEach(d, f.of, f.count)

\* Of an unordered set in any order, of which one stands here for all.
WriteStdSet(s, f, v) == WriteEach(WriteContainerSize(s, Cardinality(v), f.max), f.of, SetToSeq(v))

ReadStdSet(d, f) == Then(ReadContainer(d, f), LAMBDA e, vs : Got(e, Range(vs)))

Pairs(f) == [is |-> "tuple", parts |-> <<f.key, f.of>>]

WriteStdMap(s, f, v) ==
  WriteEach(WriteContainerSize(s, Cardinality(DOMAIN v), f.max), Pairs(f),
            [i \in 1 .. Cardinality(DOMAIN v) |-> LET k == SetToSeq(DOMAIN v)[i] IN <<k, v[k]>>])

\* emplace_hint keeps the first of one key.
ReadStdMap(d, f) ==
  Then(ReadContainer(d, [max |-> f.max, of |-> Pairs(f)]), LAMBDA e, pairs :
    Got(e, FoldLeft(LAMBDA m, p : m @@ (p[1] :> p[2]), <<>>, pairs)))

WriteTuple(s, f, v) == FoldLeft(LAMBDA t, i : Serialize(t, f.parts[i], v[i]), s, [i \in DOMAIN v |-> i])

ReadTuple(d, f) ==
  FoldLeft(LAMBDA r, g : Then(Deserialize(r.des, g), LAMBDA e, v : Got(e, Append(r.v, v))), Got(d, <<>>), f.parts)

Aligned(s, f) == IF f.align THEN Align(s) ELSE s
AlignedRead(d, f) == IF f.align THEN AlignRead(d) ELSE d

\* An optional is a sequence of at most one.
WriteOptional(s, f, v) == WriteEach(Aligned(WriteBool(s, v # <<>>), f), f.of, v)

ReadOptional(d, f) ==
  Then(ReadBool(d), LAMBDA e, exists : ReadEach(AlignedRead(e, f), f.of, IF exists THEN 1 ELSE 0))

\* A variant is the index of an alternative, from zero, and its value.
WriteVariant(s, f, v) == Serialize(WriteSize(s, v.index), f.of[v.index + 1], v.v)

Untouched == [index |-> -1, v |-> 0]

\* The index is compared with the number of alternatives, so that one more is
\* accepted, and nothing is read.
ReadVariant(d, f) ==
  Then(ReadContainerSize(d, Len(f.of)), LAMBDA e, index :
    IF index = Len(f.of) THEN Got(e, Untouched)
    ELSE Then(Deserialize(e, f.of[index + 1]), LAMBDA g, v : Got(g, [index |-> index, v |-> v])))

\* Faulty variant: the common values are numbered from zero.
FindEntropyIndexFromZero(v, common) ==
  IF v \in Range(common) THEN (CHOOSE i \in DOMAIN common : common[i] = v) - 1 ELSE 0

FindEntropyIndex(v, common) ==
  IF v \in Range(common)
  THEN CHOOSE i \in DOMAIN common : common[i] = v /\ \A j \in 1 .. i - 1 : common[j] # v
  ELSE 0

EntropyRange(f) == [min |-> 0, max |-> Len(f.common)]

WriteEntropy(s, f, v) ==
  LET index == FindEntropyIndex(v, f.common) IN
    WriteEach(Aligned(WriteRange(s, EntropyRange(f), index), f), f.of, IF index = 0 THEN <<v>> ELSE <<>>)

ReadEntropy(d, f) ==
  Then(ReadRange(d, EntropyRange(f)), LAMBDA e, index :
    IF index = 0 THEN Deserialize(AlignedRead(e, f), f.of) ELSE Got(AlignedRead(e, f), f.common[index]))

\* Four bytes before it say how long it is, with them.
SizeBefore(s, startPos, endPos) ==
  SetWritePos(WriteBytes(SetWritePos(s, startPos), endPos - startPos, 4), endPos)

WriteGrowable(s, f, v) ==
  LET Sized(t) == SizeBefore(t, CurrentWritePos(s), CurrentWritePos(t)) IN
    Sized(Serialize(WriteBytes(s, 0, 4), f.of, v))

\* Faulty variant: what is not known is not jumped over.
ReadGrowableStaying(d, f) ==
  Then(ReadBytes(d, 4), LAMBDA e, size :
    Then(Deserialize(SetReadEndPos(e, CurrentReadPos(d) + size), f.of), LAMBDA g, v :
      Got(SetReadEndPos(g, CurrentReadEndPos(d)), v)))

ReadGrowable(d, f) ==
  Then(ReadBytes(d, 4), LAMBDA e, size :
    Then(Deserialize(SetReadEndPos(e, CurrentReadPos(d) + size), f.of), LAMBDA g, v :
      Got(SetReadEndPos(SetReadPos(g, CurrentReadPos(d) + size), CurrentReadEndPos(d)), v)))

\* The wrapper lives as long as the function runs, and aligns at its end.
WritePacked(s, f, v) ==
  IF BitPackingEnabled(s) THEN Serialize(s, f.of, v)
  ELSE [Align(Serialize([s EXCEPT !.packed = TRUE], f.of, v)) EXCEPT !.packed = FALSE]

ReadPacked(d, f) ==
  IF d.packed THEN Deserialize(d, f.of)
  ELSE Then(Deserialize([d EXCEPT !.packed = TRUE], f.of), LAMBDA e, v :
              Got([AlignRead(e) EXCEPT !.packed = FALSE], v))

\* Extensions whose value is that of another format, in both directions.
QueueAs(f) == [is |-> "container", of |-> f.of, max |-> f.max]
StackAs(f) == [is |-> "container", of |-> f.of, max |-> f.max]
DurationAs(f) == f.of
TimePointAs(f) == f.of
AtomicAs(f) == f.of

As(f) ==
  CASE f.is = "queue" -> QueueAs(f)
    [] f.is = "stack" -> StackAs(f)
    [] f.is = "duration" -> DurationAs(f)
    [] f.is = "time_point" -> TimePointAs(f)
    [] f.is = "atomic" -> AtomicAs(f)

-----------------------------------------------------------------------------
(* Base classes.  An object is the value of its own part for each of its   *)
(* classes.                                                                *)

NewInheritance == [depth |-> 0, parent |-> 0, virtualBases |-> {}, objects |-> 0]

\* s is either side.
BeginBase(s, object) ==
  LET c == s.inheritance
      cleared == [c EXCEPT !.virtualBases = IF c.parent = object THEN @ ELSE {}, !.parent = object]
  IN [s EXCEPT !.inheritance = [IF c.depth = 0 THEN cleared ELSE c EXCEPT !.depth = @ + 1]]

BeginVirtualBase(s, object, name) ==
  LET t == BeginBase(s, object) IN [t EXCEPT !.inheritance.virtualBases = @ \cup {<<object, name>>}]

\* A virtual base is new to the context once.
IsNewBase(s, object, b) == ~b.virtual \/ <<object, b.name>> \notin BeginBase(s, object).inheritance.virtualBases

EndBase(s) == [s EXCEPT !.inheritance.depth = @ - 1]

EnterBase(s, b, object) == IF b.virtual THEN BeginVirtualBase(s, object, b.name) ELSE BeginBase(s, object)

RECURSIVE WriteClass(_, _, _, _)

WriteBase(s, b, v, object) ==
  LET t == EnterBase(s, b, object) IN
    EndBase(IF IsNewBase(s, object, b) THEN WriteClass(t, b.name, v, object) ELSE t)

WriteClass(s, name, v, object) ==
  Serialize(FoldLeft(LAMBDA t, b : WriteBase(t, b, v, object), s, Classes[name].bases), Classes[name].own, v[name])

RECURSIVE ReadClass(_, _, _)

ReadBase(d, b, object) ==
  Then(IF IsNewBase(d, object, b) THEN ReadClass(EnterBase(d, b, object), b.name, object)
       ELSE Got(EnterBase(d, b, object), <<>>),
       LAMBDA e, v : Got(EndBase(e), v))

ReadBases(d, bases, object) ==
  FoldLeft(LAMBDA r, b : Then(ReadBase(r.des, b, object), LAMBDA e, v : Got(e, v @@ r.v)), Got(d, <<>>), bases)

ReadClass(d, name, object) ==
  Then(ReadBases(d, Classes[name].bases, object), LAMBDA e, bases :
    Then(Deserialize(e, Classes[name].own), LAMBDA g, own : Got(g, (name :> own) @@ bases)))

\* An object has an address of its own.
Met(s) == [s EXCEPT !.inheritance.objects = @ + 1]

-----------------------------------------------------------------------------
(* Pointers, and the types behind them.                                    *)

\* A type is numbered under every base it is registered for.
AddToMap(map, base, derived) ==
  IF derived \in Abstract \cup Range(map[base]) THEN map ELSE [map EXCEPT ![base] = Append(@, derived)]

RECURSIVE AddType(_, _, _)
RECURSIVE AddChilds(_, _, _)

AddType(map, base, derived) == AddChilds(AddToMap(map, base, derived), base, Childs[derived])

AddChilds(map, base, childs) ==
  IF childs = <<>> THEN map
  ELSE AddType(AddChilds(AddType(map, base, Head(childs)), base, Tail(childs)), Head(childs), Head(childs))

RegisterBasesList(bases) ==
  FoldLeft(LAMBDA map, base : AddType(map, base, base), [t \in DOMAIN Childs |-> <<>>], bases)

Derived == RegisterBasesList(Bases)

\* Who observes has no types, and neither has what is not behind a pointer.
IsPolymorphic(f) == f.of \in DOMAIN Childs /\ f.own \notin {"observer", "referenced"}

\* An object that a pointer refers to is its own owner.
Ownership(f) == IF f.own = "referenced" THEN "owner" ELSE f.own

WriteObject(s, f, p) ==
  LET o == s.heap[p]
      index == (CHOOSE i \in DOMAIN Derived[f.of] : Derived[f.of][i] = o.type) - 1
  IN Serialize(IF IsPolymorphic(f) THEN WriteSize(s, index) ELSE s, Objects[o.type], o.v)

WriteNumbered(info, f, p) ==
  LET t == WriteSize(info.ser, info.id) IN
    IF f.own = "observer" \/ info.isSharedProcessed THEN t ELSE WriteObject(t, f, p)

WritePointer(s, f, p) ==
  IF p = Null THEN WriteSize(Asserted(s, f.nullable), 0) ELSE WriteNumbered(InfoByPtr(s, p, Ownership(f)), f, p)

\* The object is made, then its value is read.
ReadInto(d, id, f, type) ==
  LET t == IF f.own = "owner" \/ f.own = "referenced" THEN CreateOwned(d, id, [type |-> type, v |-> <<>>])
           ELSE CreateShared(d, id, [type |-> type, v |-> <<>>])
      p == t.infos[id].ptr
  IN Then(Deserialize(t, Objects[type]), LAMBDA e, v : Got([e EXCEPT !.heap[p].v = v], p))

ReadObject(d, id, f) ==
  IF ~IsPolymorphic(f) THEN ReadInto(d, id, f, f.of)
  ELSE Then(ReadSize(d), LAMBDA e, index :
         IF index < Len(Derived[f.of]) THEN ReadInto(e, id, f, Derived[f.of][index + 1])
         ELSE Got(SetError(e, InvalidPointer), Null))

ReadNumbered(d, id, f) ==
  IF d.aborted THEN Got(d, Null)
  ELSE IF f.own = "observer" THEN ProcessObserver(d, id)
  ELSE Then(IF HasSharedState(d, id) THEN Got(d, d.infos[id].ptr) ELSE ReadObject(d, id, f),
            LAMBDA e, p : Got(ProcessOwner(e, id, p), p))

ReadPointer(d, f) ==
  Then(ReadSize(d), LAMBDA e, id :
    IF id = Null THEN Got(IF f.nullable THEN e ELSE SetError(e, InvalidPointer), Null)
    ELSE ReadNumbered(InfoById(e, id, Ownership(f)), id, f))

-----------------------------------------------------------------------------
\* ext of the two sides.
WriteExtension(s, f, v) ==
  CASE f.is = "range" -> WriteRange(s, f, v)
    [] f.is = "compact" -> WriteCompact(s, f, v)
    [] f.is = "bitset" -> WriteBitset(s, f, v)
    [] f.is = "set" -> WriteStdSet(s, f, v)
    [] f.is = "map" -> WriteStdMap(s, f, v)
    [] f.is = "tuple" -> WriteTuple(s, f, v)
    [] f.is = "optional" -> WriteOptional(s, f, v)
    [] f.is = "variant" -> WriteVariant(s, f, v)
    [] f.is = "entropy" -> WriteEntropy(s, f, v)
    [] f.is = "growable" -> WriteGrowable(s, f, v)
    [] f.is = "object" -> WriteClass(Met(s), f.class, v, s.inheritance.objects + 1)
    [] f.is = "pointer" -> WritePointer(s, f, v)
    [] OTHER -> Serialize(s, As(f), v)

ReadExtension(d, f) ==
  CASE f.is = "range" -> ReadRange(d, f)
    [] f.is = "compact" -> ReadCompact(d, f)
    [] f.is = "bitset" -> ReadBitset(d, f)
    [] f.is = "set" -> ReadStdSet(d, f)
    [] f.is = "map" -> ReadStdMap(d, f)
    [] f.is = "tuple" -> ReadTuple(d, f)
    [] f.is = "optional" -> ReadOptional(d, f)
    [] f.is = "variant" -> ReadVariant(d, f)
    [] f.is = "entropy" -> ReadEntropy(d, f)
    [] f.is = "growable" -> ReadGrowable(d, f)
    [] f.is = "object" -> ReadClass(Met(d), f.class, d.inheritance.objects + 1)
    [] f.is = "pointer" -> ReadPointer(d, f)
    [] OTHER -> Deserialize(d, As(f))

\* Their other calls, value1b and the like.
Serialize(s, f, v) ==
  CASE f.is = "value" -> WriteBytes(s, v, f.size)
    [] f.is = "bool" -> WriteBool(s, v)
    [] f.is = "text" -> WriteText(s, v, f.max)
    [] f.is = "container" -> WriteContainer(s, f, v)
    [] f.is = "array" -> WriteArray(s, f, v)
    [] f.is = "packed" -> WritePacked(s, f, v)
    [] OTHER -> WriteExtension(s, f, v)

Deserialize(d, f) ==
  CASE f.is = "value" -> ReadBytes(d, f.size)
    [] f.is = "bool" -> ReadBool(d)
    [] f.is = "text" -> ReadText(d, f.max)
    [] f.is = "container" -> ReadContainer(d, f)
    [] f.is = "array" -> ReadArray(d, f)
    [] f.is = "packed" -> ReadPacked(d, f)
    [] OTHER -> ReadExtension(d, f)

-----------------------------------------------------------------------------
\* quickSerialization with a context.
Serialized(k, v, out) ==
  Serialize(SerializerTo(out) @@ [heap |-> Cases[k].heap, inheritance |-> NewInheritance], Cases[k].format, v)

WriteCase ==
  /\ stage = "idle"
  /\ \E k \in DOMAIN Cases : \E v \in Cases[k].values, out \in Cases[k].adapters :
       \E s \in {Serialized(k, v, out)} :
         /\ case' = k /\ value' = v /\ ptrs' = s.ptrs /\ bytes' = Written(s)
         /\ stage' = IF s.aborted THEN "aborted" ELSE "written"
  /\ UNCHANGED <<damage, readAs, result>>

\* What arrives is shorter, or a byte of it another.
CutBytes ==
  /\ stage = "written" /\ damage = "none"
  /\ \E n \in 0 .. Len(bytes) - 1 : bytes' = SubSeq(bytes, 1, n)
  /\ damage' = "cut"
  /\ UNCHANGED <<stage, case, value, ptrs, readAs, result>>

ChangeByte ==
  /\ stage = "written" /\ damage = "none"
  /\ \E i \in DOMAIN bytes, b \in Cases[case].tried : b # bytes[i] /\ bytes' = [bytes EXCEPT ![i] = b]
  /\ damage' = "changed"
  /\ UNCHANGED <<stage, case, value, ptrs, readAs, result>>

\* quickDeserialization with a context.
Deserialized(format, from) ==
  Deserialize([MakeDeserializer(bytes, FALSE, <<>>) EXCEPT !.from = from] @@ [inheritance |-> NewInheritance], format)

ReadCase ==
  /\ stage = "written"
  /\ \E i \in DOMAIN Cases[case].readAs, from \in Cases[case].adapters \cap {"buffer", "stream"} :
       \E r \in {Deserialized(Cases[case].readAs[i], from)} :
         /\ readAs' = Cases[case].readAs[i]
         /\ result' = [v |-> r.v, error |-> ErrorOf(r.des), completed |-> IsCompletedSuccessfully(r.des),
                       heap |-> r.des.heap, infos |-> r.des.infos, observed |-> r.des.observed]
         /\ stage' = IF r.des.aborted THEN "aborted" ELSE "read"
  /\ UNCHANGED <<case, value, damage, bytes, ptrs>>

FormatNext == WriteCase \/ CutBytes \/ ChangeByte \/ ReadCase

-----------------------------------------------------------------------------
ReadWell == result.error = NoError /\ result.completed

WholeRead == stage = "read" /\ damage = "none"

HasPointers == Cases[case].heap # <<>>

\* Whatever is written is read back as it was, from a buffer and from streams, with
\* bits packed or not, and nothing is left over; and as many bytes are there as
\* MeasureSize says, of what packs its bits (serializer.h, deserializer.h,
\* adapter/stream.h, adapter/measure_size.h).
RoundTrip ==
  /\ WholeRead /\ ~HasPointers /\ readAs = Cases[case].format => ReadWell /\ result.v = value
  /\ stage = "written" /\ damage = "none" /\ Cases[case].format.is = "packed" =>
       Measured(Serialized(case, value, "measure")) = Len(bytes)

\* Without what was added, and with zeros for what was not there.
RECURSIVE AsSeenBy(_, _, _)
AsSeenBy(g, f, v) ==
  CASE f.is = "growable" -> AsSeenBy(g.of, f.of, v)
    [] f.is = "tuple" -> [i \in DOMAIN g.parts |->
                            IF i \in DOMAIN f.parts THEN AsSeenBy(g.parts[i], f.parts[i], v[i]) ELSE 0]
    [] OTHER -> v

\* A reader that knows fewer fields of what is Growable, or more of them, reads the
\* fields both know, zeros for the others, and everything behind (ext/growable.h:32-36).
VersionsAgree ==
  WholeRead /\ readAs # Cases[case].format => ReadWell /\ result.v = AsSeenBy(readAs, Cases[case].format, value)

\* The values that a format lets through; of a variant also the one that was there.
RECURSIVE Fits(_, _)
Fits(f, v) ==
  CASE f.is = "range" -> v \in f.min .. f.max
    [] f.is = "text" -> Len(v) <= f.max
    [] f.is \in {"container", "queue", "stack"} -> Len(v) <= f.max /\ \A i \in DOMAIN v : Fits(f.of, v[i])
    [] f.is = "set" -> Cardinality(v) <= f.max
    [] f.is = "map" -> Cardinality(DOMAIN v) <= f.max /\ \A k \in DOMAIN v : Fits(f.of, v[k])
    [] f.is = "tuple" -> \A i \in DOMAIN v : Fits(f.parts[i], v[i])
    [] f.is = "optional" -> \A i \in DOMAIN v : Fits(f.of, v[i])
    [] f.is = "variant" -> v = Untouched \/ Fits(f.of[v.index + 1], v.v)
    [] f.is = "compact" -> v \in IF f.signed THEN -(256 ^ f.size \div 2) .. 256 ^ f.size \div 2 - 1 ELSE 0 .. 256 ^ f.size - 1
    [] f.is \in {"growable", "packed"} -> Fits(f.of, v)
    [] f.is = "pointer" -> v = Null => f.nullable
    [] OTHER -> TRUE

\* Bytes that are missing are noticed, whatever they were of; and however a byte
\* is changed, what is accepted keeps the limits of its format (CheckDataErrors and
\* CheckAdapterErrors of common.h).
DamageRefused ==
  stage = "read" =>
    /\ damage = "cut" => result.error # NoError
    /\ result.error = NoError =>
         /\ Fits(readAs, result.v)
         /\ \A p \in DOMAIN result.heap : Fits(Objects[result.heap[p].type], result.heap[p].v)

\* What a pointer that was read holds in the end.
AddressOf(v) == IF v < 0 THEN result.observed[-v] ELSE v

\* w is v, with the objects of the reader in the place of those of the writer.
RECURSIVE Same(_, _, _, _)
Same(f, v, w, m) ==
  CASE f.is = "pointer" -> AddressOf(w) = (IF v = Null THEN Null ELSE m[v])
    [] f.is = "tuple" -> \A i \in DOMAIN v : Same(f.parts[i], v[i], w[i], m)
    [] f.is = "container" -> Len(v) = Len(w) /\ \A i \in DOMAIN v : Same(f.of, v[i], w[i], m)
    [] OTHER -> v = w

\* When every pointer that was written has an owner, the reader has as many objects,
\* of the same types and linked as they were, observers read before their owners
\* too; and it can tell whether that was so (ext/utils/pointer_utils.h:179-233).
LinksRestored ==
  WholeRead /\ HasPointers =>
    /\ ReadWell /\ (AllOwned(ptrs) <=> AllOwned(result.infos))
    /\ AllOwned(ptrs) =>
         LET heap == Cases[case].heap
             written == {ptrs[i].ptr : i \in DOMAIN ptrs}
         IN \E m \in [written -> DOMAIN result.heap] :
              /\ \A p, q \in written : m[p] = m[q] => p = q
              /\ Cardinality(written) = Len(result.heap)
              /\ Same(readAs, value, result.v, m)
              /\ \A p \in written :
                   /\ result.heap[m[p]].type = heap[p].type
                   /\ Same(Objects[heap[p].type], heap[p].v, result.heap[m[p]].v, m)
=============================================================================
