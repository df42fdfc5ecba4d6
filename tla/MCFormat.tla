------------------------------ MODULE MCFormat ------------------------------
(* What is serialized, for TLC: every call and extension of the library at *)
(* the sizes, limits and orders where it does something else.              *)
EXTENDS BitseryFormat

Number(n) == [is |-> "value", size |-> n]
Bool == [is |-> "bool"]
Digit == [is |-> "range", min |-> 3, max |-> 9]
Text == [is |-> "text", max |-> 3]
Tuple(parts) == [is |-> "tuple", parts |-> parts]
Container(f) == [is |-> "container", of |-> f, max |-> 3]
Packed(f) == [is |-> "packed", of |-> f]
Growable(f) == [is |-> "growable", of |-> f]
Optional(f, align) == [is |-> "optional", of |-> f, align |-> align]
Entropy(f, align) == [is |-> "entropy", of |-> f, common |-> <<5, 9, 5>>, align |-> align]
Compact(signed, checked) == [is |-> "compact", size |-> 2, signed |-> signed, checked |-> checked]
PointerTo(type, own, nullable) == [is |-> "pointer", of |-> type, own |-> own, nullable |-> nullable]

AllAdapters == {"buffer", "stream", "buffered"}
AnyByte == {0, 1, 2, 127, 128, 255}

\* A case whose readers know its format as it is.
Plain(f, values) ==
  [format |-> f, values |-> values, heap |-> <<>>, readAs |-> <<f>>, adapters |-> AllAdapters, tried |-> AnyByte]

Numbers == Tuple(<<Number(2), Compact(FALSE, TRUE), Compact(TRUE, TRUE), Compact(TRUE, FALSE),
                   [is |-> "compact", size |-> 1, signed |-> TRUE, checked |-> FALSE]>>)
NumberValues == {<<258, 0, 0, -1, -128>>, <<0, 127, -64, 63, 127>>, <<65535, 128, 64, -65, 0>>,
                 <<1, 16384, 8192, -8193, -1>>, <<1, 65535, -32768, 32767, 5>>}

\* Its size is written in two bytes.
LongText == [is |-> "text", max |-> 200]
LongTextValues == {[i \in 1 .. 130 |-> i]}

Mixed == Tuple(<<Bool, Text, Optional(Number(2), TRUE), Optional(Bool, FALSE), [is |-> "bitset", count |-> 11],
                 Entropy(Number(1), TRUE)>>)
Eleven == [i \in 1 .. 11 |-> i \in {2, 8, 9, 11}]
Eight == [i \in 1 .. 11 |-> i = 8]
MixedValues == {<<TRUE, <<65, 0, 66>>, <<258>>, <<>>, Eleven, 5>>, <<FALSE, <<>>, <<>>, <<TRUE>>, Eight, 7>>}

PackedMixed ==
  Packed(Tuple(<<Bool, Digit, Optional(Number(1), FALSE), Entropy(Digit, FALSE), Text, Number(2),
                 [is |-> "bitset", count |-> 11], Optional(Digit, TRUE), Packed(Bool), Entropy(Number(1), TRUE), Digit>>))
PackedValues ==
  {<<TRUE, 9, <<200>>, 5, <<65>>, 513, Eleven, <<>>, TRUE, 9, 3>>,
   <<FALSE, 3, <<>>, 4, <<>>, 65535, Eight, <<4>>, FALSE, 77, 9>>,
   <<TRUE, 6, <<>>, 9, <<1, 2, 3>>, 0, Eleven, <<9>>, TRUE, 5, 6>>}

\* More than a stream holds back.
Lists == Tuple(<<Container(Number(2)), [is |-> "array", of |-> Text, count |-> 2],
                 [is |-> "queue", of |-> Number(1), max |-> 2], [is |-> "stack", of |-> Bool, max |-> 2]>>)
ListValues == {<< <<1, 2, 300>>, << <<65, 0, 66>>, <<67>> >>, <<7, 8>>, <<TRUE, FALSE>> >>,
               << <<>>, << <<>>, <<1, 2, 3>> >>, <<>>, <<FALSE>> >>}
PackedLists == Packed(Tuple(<<Bool, Container(Digit), Container(Text)>>))
PackedListValues == {<<TRUE, <<3, 9, 4>>, << <<1>>, <<2, 3>> >> >>, <<FALSE, <<5>>, <<>> >>}

Keyed == Tuple(<<[is |-> "set", of |-> Number(1), max |-> 2],
                 [is |-> "map", key |-> Number(1), of |-> Text, max |-> 2],
                 [is |-> "duration", of |-> Number(2)], [is |-> "time_point", of |-> Number(2)],
                 [is |-> "atomic", of |-> Number(1)]>>)
KeyedValues == {<<{1, 2}, (1 :> <<65>>) @@ (2 :> <<>>), 512, 3, 9>>, <<{}, <<>>, 0, 65535, 0>>}

Either == Tuple(<<[is |-> "variant", of |-> <<Number(2), Number(1), Compact(TRUE, TRUE)>>], Number(1)>>)
EitherValues == {<<[index |-> i, v |-> v], 7>> : i \in 0 .. 2, v \in {0, 100}}

\* Three versions of what grows, the second one growing itself; what is behind it stays.
Versions(n) == Tuple(<<Growable(Tuple(SubSeq(<<Number(1), Growable(Tuple(SubSeq(<<Number(1), Number(2)>>, 1, n))), Number(1)>>, 1, n + 1))),
                       Number(2)>>)
Grown == [format |-> Versions(1), values |-> {<< <<5, <<6>> >>, 300>>}, heap |-> <<>>,
          readAs |-> <<Versions(1), Versions(2)>>, adapters |-> {"buffer"}, tried |-> {0, 1, 6, 127}]
Shrunk == [format |-> Versions(2), values |-> {<< <<5, <<6, 7>>, 8>>, 300>>}, heap |-> <<>>,
           readAs |-> <<Versions(2), Versions(1)>>, adapters |-> {"buffer"}, tried |-> {0, 1, 6, 127}]

\* "both" has "base" by "left" and by "right", once if they inherit it virtually.
Base(name, virtual) == [name |-> name, virtual |-> virtual]
MCClasses ==
  [base |-> [bases |-> <<>>, own |-> Number(1)],
   left |-> [bases |-> <<Base("base", TRUE)>>, own |-> Number(1)],
   right |-> [bases |-> <<Base("base", TRUE)>>, own |-> Number(1)],
   both |-> [bases |-> <<Base("left", FALSE), Base("right", FALSE)>>, own |-> Text]]
Object(class) == [is |-> "object", class |-> class]
Both(n) == [base |-> n, left |-> n + 1, right |-> 2, both |-> <<n>>]

\* Types behind pointers: "circle" and "square" are shapes, and "disc" a circle.
MCChilds == [shape |-> <<"circle", "square">>, circle |-> <<"disc">>, square |-> <<>>, disc |-> <<>>]
MCAbstract == {"shape"}
MCBases == <<"shape">>
MCObjects ==
  [number |-> Number(1), circle |-> Number(1), square |-> Text, disc |-> Tuple(<<Number(1), Bool>>),
   node |-> Tuple(<<Number(1), PointerTo("node", "sharedOwner", TRUE), PointerTo("node", "sharedObserver", TRUE)>>)]

Linked(f, values, heap) ==
  [format |-> f, values |-> values, heap |-> heap, readAs |-> <<f>>, adapters |-> AllAdapters, tried |-> {0, 1, 2, 3}]

Shapes == Container(PointerTo("shape", "owner", FALSE))
ShapeHeap == <<[type |-> "circle", v |-> 9], [type |-> "square", v |-> <<65>>], [type |-> "disc", v |-> <<1, TRUE>>]>>
NumberHeap == <<[type |-> "number", v |-> 41], [type |-> "number", v |-> 42]>>
Observed == Tuple(<<PointerTo("number", "observer", TRUE), PointerTo("number", "owner", TRUE),
                    PointerTo("number", "observer", TRUE), PointerTo("number", "referenced", FALSE)>>)
Shared == Tuple(<<PointerTo("number", "observer", TRUE), PointerTo("number", "sharedObserver", TRUE),
                  PointerTo("number", "sharedOwner", TRUE), PointerTo("number", "sharedOwner", TRUE)>>)
\* A ring of nodes: each owns the next one, and knows the one before.
NodeHeap == <<[type |-> "node", v |-> <<1, 2, 2>>], [type |-> "node", v |-> <<2, 1, 1>>]>>

MCCases ==
  <<Plain(Numbers, NumberValues), [Plain(LongText, LongTextValues) EXCEPT !.tried = {72}],
    Plain(Mixed, MixedValues), Plain(PackedMixed, PackedValues), Plain(Lists, ListValues), Plain(PackedLists, PackedListValues),
    Plain(Keyed, KeyedValues), Plain(Either, EitherValues), Grown, Shrunk,
    Plain(Container(Object("both")), {<<Both(1)>>, <<Both(3), Both(4)>>}),
    Linked(Shapes, {<<1, 2, 3>>, <<3>>, <<>>}, ShapeHeap),
    Linked(Observed, {<<1, 1, 0, 2>>, <<2, 1, 1, 2>>, <<0, 0, 2, 2>>, <<1, 0, 1, 2>>}, NumberHeap),
    Linked(Shared, {<<1, 2, 1, 2>>, <<0, 1, 1, 1>>, <<2, 2, 0, 2>>, <<0, 1, 2, 0>>}, NumberHeap),
    Linked(PointerTo("node", "sharedOwner", FALSE), {1}, NodeHeap)>>
=============================================================================
