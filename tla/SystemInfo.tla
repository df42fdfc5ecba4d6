------------------------------ MODULE SystemInfo -----------------------------
(***************************************************************************)
(* The parsers of what the commands print of the machine (src/src/runtime/ *)
(* parser_cpuinfo.cpp): /proc/cpuinfo, lscpu and /proc/meminfo.  A text is *)
(* the sequence of its tokens.                                             *)
(***************************************************************************)
EXTENDS Naturals, SequencesExt

CONSTANTS
  Texts,     \* what is printed: [of |-> the command, tokens |-> a sequence]
  Leftovers  \* sequences of tokens in the memory behind it, which is not cleared

Token(type, value) == [type |-> type, value |-> value]
TokenTypes == {"cpu", "mhz", "max", "MemAvailable", "id", "colon", "number"}
Tokens == [type : TokenTypes, value : Nat]

\* The words stand at place i of a sequence of tokens, and what they stand before.
WordsAt(words, s, i) ==
  i + Len(words) - 1 <= Len(s) /\ \A k \in DOMAIN words : s[i + k - 1].type = words[k]
Faced(words) == words \o <<"colon", "number">>

\* What the commands print: grep leaves whole lines, and of meminfo one.
WholeLines(words, s) == \A i \in DOMAIN s : WordsAt(words, s, i) => WordsAt(Faced(words), s, i)

ASSUME SystemInfoAssumption ==
  /\ \A t \in Texts :
       /\ t.of \in {"cpuinfo", "lscpu", "meminfo"} /\ t.tokens \in Seq(Tokens)
       /\ t.of = "cpuinfo" => WholeLines(<<"cpu", "mhz">>, t.tokens)
       /\ t.of = "lscpu" => WholeLines(<<"cpu", "max", "mhz">>, t.tokens)
       /\ t.of = "meminfo" => \A i, j \in DOMAIN t.tokens :
            t.tokens[i].type = "MemAvailable" /\ t.tokens[j].type = "MemAvailable" => i = j
  /\ Leftovers \subseteq Seq(Tokens)

VARIABLES
  of,          \* whose output is parsed
  tokens,      \* in the buffer
  text,        \* how many of them were read; the others were there before
  ptr,          \* of the current token
  is_parsing,
  running,     \* in the loop of the parser
  current_mhz, \* of the processors found
  figure,      \* total_mhz, or available_ram
  skipped,     \* history: the parser was entered with is_parsing cleared
  output,     \* history: all that the command printed
  whole        \* history: how many tokens of that were read uncut

infoVars == <<of, tokens, text, ptr, is_parsing, running, current_mhz, figure, skipped, output, whole>>

InfoInit ==
  /\ of = "meminfo" /\ tokens = <<>> /\ text = 0 /\ ptr = 1
  /\ is_parsing = TRUE /\ running = FALSE
  /\ current_mhz = <<>> /\ figure = 0 /\ skipped = FALSE
  /\ output = <<>> /\ whole = 0

-----------------------------------------------------------------------------
\* tokenize.  Behind the end of the buffer lies, here, another end.
TypeAt(k) == IF k \in DOMAIN tokens THEN tokens[k].type ELSE "end"

Is(type) == TypeAt(ptr) = type

\* Only a number sets the value: it may be an older one, or was never set.
ValuesAt(k) ==
  LET numbers == {i \in DOMAIN tokens : i <= k /\ tokens[i].type = "number"} IN
    IF numbers = {} THEN {0, 1} ELSE {tokens[Max(numbers)].value}

\* Faulty variant: the mark is left behind the token.
GoToWrong(k) == ptr' = k + 1

GoTo(k) == ptr' = k

\* acceptToken and expectToken of one after the other, from the current token on:
\* how many of them are there.
Accepted(pattern) ==
  Max({n \in 0 .. Len(pattern) : \A k \in 1 .. n : TypeAt(ptr + k - 1) = pattern[k]})

\* What is left of a token when the buffer ends in it.
CutIn(t) ==
  IF t.type = "number" THEN {<<>>, <<Token("number", t.value \div 10)>>}
  ELSE IF t.type = "colon" THEN {<<>>} ELSE {<<>>, <<Token("id", 0)>>}

\* The new buffer is not cleared.  What is printed fills a part of it; of many
\* processors there is more than it holds.  lscpu comes behind cpuinfo, with what
\* that left in is_parsing.
Start ==
  /\ ~running
  /\ \E t \in Texts :
       /\ of' = t.of /\ (of = "cpuinfo" <=> t.of = "lscpu")
       /\ output' = t.tokens
       /\ \/ \E g \in Leftovers :
               tokens' = t.tokens \o g /\ text' = Len(t.tokens) /\ whole' = Len(t.tokens)
          \/ \E n \in 1 .. Len(t.tokens) - 1 : \E cut \in CutIn(t.tokens[n + 1]) :
               /\ t.of = "cpuinfo"
               /\ tokens' = SubSeq(t.tokens, 1, n) \o cut /\ text' = Len(tokens') /\ whole' = n
  /\ is_parsing' = (of = "cpuinfo" => is_parsing) /\ skipped' = ~is_parsing'
  /\ GoTo(1) /\ running' = TRUE /\ current_mhz' = <<>> /\ figure' = 0

InLoop == running /\ is_parsing

\* Words, of which the first is there; a colon and a number have to follow.  More
\* than the words says that the colon was there, all that it was a number.

\* Faulty variant: a whole line, too, clears is_parsing.
ExpectedMore(words) == Accepted(Faced(words)) < Len(words)

\* What is_parsing is after the line.
Expected(words) == Accepted(Faced(words)) \in 0 .. Len(words) - 1 \cup {Len(words) + 2}

\* Faulty variant: the value is taken before there is a number.
FoundColon(words) == Accepted(Faced(words)) > Len(words)

Found(words) == Accepted(Faced(words)) = Len(words) + 2

Line(words) ==
  /\ InLoop /\ Is("cpu")
  /\ GoTo(ptr + Accepted(Faced(words)))
  /\ is_parsing' = Expected(words)
  /\ UNCHANGED <<of, tokens, text, running, skipped, output, whole>>

\* parse_cpu_info.
CpuLine ==
  /\ of = "cpuinfo" /\ Line(<<"cpu", "mhz">>)
  /\ current_mhz' \in IF Found(<<"cpu", "mhz">>) THEN {Append(current_mhz, v) : v \in ValuesAt(ptr + 3)}
                     ELSE {current_mhz}
  /\ UNCHANGED figure

\* parse_maximum_cpu_hz.
MaxLine ==
  /\ of = "lscpu" /\ Line(<<"cpu", "max", "mhz">>)
  /\ figure' \in IF Accepted(Faced(<<"cpu", "max", "mhz">>)) > 3 THEN ValuesAt(ptr + 4) ELSE {figure}
  /\ UNCHANGED current_mhz

\* The branches of both that only accept.
OtherToken ==
  /\ InLoop /\ of # "meminfo" /\ TypeAt(ptr) \in {"id", "colon", "number"}
  /\ GoTo(ptr + 1)
  /\ UNCHANGED <<of, tokens, text, is_parsing, running, current_mhz, figure, skipped, output, whole>>

\* parse_memory_free_space: behind the colon it expects an integer, which no
\* token is, and so ends.
MemLine ==
  /\ InLoop /\ of = "meminfo" /\ Is("MemAvailable")
  /\ GoTo(ptr + Accepted(<<"MemAvailable", "colon">>))
  /\ is_parsing' = FALSE
  /\ figure' \in IF Accepted(<<"MemAvailable", "colon">>) = 2 THEN ValuesAt(ptr + 2) ELSE {figure}
  /\ UNCHANGED <<of, tokens, text, running, current_mhz, skipped, output, whole>>

\* The end is accepted, or is_parsing was cleared.
EndOfText ==
  /\ running /\ (is_parsing => Is("end"))
  /\ running' = FALSE
  /\ UNCHANGED <<of, tokens, text, ptr, is_parsing, current_mhz, figure, skipped, output, whole>>

\* The parser is a loop in one thread.
Parse == CpuLine \/ MaxLine \/ OtherToken \/ MemLine \/ EndOfText

InfoNext == Start \/ Parse

-----------------------------------------------------------------------------
\* The numbers that stand behind the words and a colon, in their order: up to each
\* place of a sequence of tokens, and in all of it.
EndsAt(pattern, s, i) == i >= Len(pattern) /\ WordsAt(pattern, s, i - Len(pattern) + 1)

SaidUpTo(words, s) ==
  LET said[i \in 0 .. Len(s)] ==
        IF i = 0 THEN <<>>
        ELSE IF EndsAt(Faced(words), s, i) THEN Append(said[i - 1], s[i].value)
        ELSE said[i - 1]
  IN said

Said(words, s) == SaidUpTo(words, s)[Len(s)]

\* What the lines say that were read as far as their number.
ReadWhole(words) == Said(words, SubSeq(output, 1, whole))

\* The read ended inside of the number of a line.
CutInNumber(words) == whole < Len(output) /\ EndsAt(Faced(words), output, whole + 1)

\* Of what was printed, the parser finds the figures of every line that was read as
\* far as its number, in their order.  It finds one more only when the read ended
\* inside of a number: then the last processor has what its first digits say.  lscpu,
\* whose parser is entered with the is_parsing of the one before, is passed over only
\* behind a cut cpuinfo (parser_cpuinfo.cpp:122-179, 191-213, 225-244).
FindsAll ==
  ~running /\ text = Len(tokens) =>
    /\ of = "cpuinfo" =>
         \/ current_mhz = ReadWhole(<<"cpu", "mhz">>)
         \/ /\ CutInNumber(<<"cpu", "mhz">>)
            /\ current_mhz = Append(ReadWhole(<<"cpu", "mhz">>), output[whole + 1].value \div 10)
    /\ of = "cpuinfo" /\ ~is_parsing => whole < Len(output)
    /\ of = "lscpu" /\ ~skipped /\ ReadWhole(<<"cpu", "max", "mhz">>) # <<>> =>
         figure = Last(ReadWhole(<<"cpu", "max", "mhz">>))
    /\ of = "meminfo" /\ ReadWhole(<<"MemAvailable">>) # <<>> =>
         figure = Last(ReadWhole(<<"MemAvailable">>))
    /\ skipped => of = "lscpu" /\ figure = 0

\* What is left in the memory behind a text, which is not cleared, takes nothing away
\* from what the text says: a processor may be added, and lscpu may be passed over or
\* say another figure, but every processor printed is found, before any other, and of
\* meminfo the figure that was printed (parser_cpuinfo.cpp:125-137, 187-192, 225-236).
LeftoversAddOnly ==
  ~running =>
    /\ of = "cpuinfo" => IsPrefix(ReadWhole(<<"cpu", "mhz">>), current_mhz)
    /\ of = "meminfo" /\ ReadWhole(<<"MemAvailable">>) # <<>> =>
         figure = Last(ReadWhole(<<"MemAvailable">>))

\* A parser comes to its end; only on what is left in the memory behind the text may
\* it meet a word that no branch consumes, and spin (parser_cpuinfo.cpp:125, 153, 228).
ParserEnds == running ~> ~running \/ text < Len(tokens)
=============================================================================
