-------------------------------- MODULE Prompt --------------------------------
(***************************************************************************)
(* How cli/Console.cpp reads the answer to a confirmation prompt: a line   *)
(* typed at a console comes in pieces of at most a buffer's size, one from *)
(* redirected input byte by byte.  Both answer with the line, without its  *)
(* end, and what is left of the input, or with the empty line if it was    *)
(* too long.  Characters are one-letter strings.                           *)
(***************************************************************************)
EXTENDS Naturals, Sequences
LOCAL INSTANCE FiniteSetsExt
LOCAL INSTANCE SequencesExt

CONSTANTS
  BufferSize,               \* of readLineFromConsole(): 1024 in the code
  kMaxRedirectedLineBytes,
  NoLine                    \* nullopt: end of input, or a failed read

Text == Seq(STRING)

ASSUME PromptAssumption == /\ BufferSize \in Nat \ {0}
                           /\ kMaxRedirectedLineBytes \in Nat
                           /\ NoLine \notin Text

LineFeed       == "\n"
CarriageReturn == "\r"

\* Position of the first line feed, or of the last character without one.
LineEnd(input) == Min({Len(input)} \cup {i \in DOMAIN input : input[i] = LineFeed})

From(input, i) == SubSeq(input, i, Len(input))

\* The text without the trailing characters of a set.
TrimEnd(text, chars) == SubSeq(text, 1, Max({0} \cup {i \in DOMAIN text : text[i] \notin chars}))

Answer(line, rest) == [line |-> line, rest |-> rest]

-------------------------------------------------------------------------------
\* ReadConsoleW() with ENABLE_LINE_INPUT: up to the end of the line, or as
\* much of it as the buffer holds.
Chunk(queue) == SubSeq(queue, 1, Min({BufferSize, LineEnd(queue)}))

\* Chunks are read until one ends the line, or there is none.
Drained(queue) ==
  LET rest[i \in 1 .. Len(queue) + 1] ==
        IF i > Len(queue) THEN << >>
        ELSE LET chunk == Chunk(From(queue, i))
             IN  IF Last(chunk) = LineFeed THEN From(queue, i + Len(chunk))
                 ELSE rest[i + Len(chunk)]
  IN  rest[1]

Truncated(chunk) == Len(chunk) = BufferSize /\ Last(chunk) # LineFeed

\* Mutant of readLineFromConsole: the rest of a long line stays in the queue.
readLineUndrained(queue) ==
  IF queue = << >> THEN Answer(NoLine, queue)
  ELSE LET rest == From(queue, Len(Chunk(queue)) + 1)
       IN  IF Truncated(Chunk(queue)) THEN Answer(<< >>, rest)
           ELSE Answer(TrimEnd(Chunk(queue), {LineFeed, CarriageReturn}), rest)

readLineFromConsole(queue) ==
  IF queue = << >> THEN Answer(NoLine, queue)
  ELSE LET rest == From(queue, Len(Chunk(queue)) + 1)
       IN  IF Truncated(Chunk(queue)) THEN Answer(<< >>, Drained(rest))
           ELSE Answer(TrimEnd(Chunk(queue), {LineFeed, CarriageReturn}), rest)

\* The bytes up to a line feed or the end of the stream; those past the limit
\* are read and not kept.  One carriage return goes with the line feed.
readLineFromRedirectedStream(stream) ==
  IF stream = << >> THEN Answer(NoLine, stream)
  ELSE LET bytes == TrimEnd(SubSeq(stream, 1, LineEnd(stream)), {LineFeed})
           rest  == From(stream, LineEnd(stream) + 1)
       IN  IF Len(bytes) > kMaxRedirectedLineBytes THEN Answer(<< >>, rest)
           ELSE IF bytes # << >> /\ Last(bytes) = CarriageReturn THEN Answer(Front(bytes), rest)
           ELSE Answer(bytes, rest)

-------------------------------------------------------------------------------
AsciiSpace == {" ", "\t", LineFeed, CarriageReturn}

trimAsciiWhitespace(text) == Reverse(TrimEnd(Reverse(TrimEnd(text, AsciiSpace)), AsciiSpace))

Lower(c) == CASE c = "Y" -> "y" [] c = "E" -> "e" [] c = "S" -> "s" [] OTHER -> c

isAffirmative(line) ==
  /\ line # NoLine
  /\ LET word == trimAsciiWhitespace(line)
     IN  [i \in DOMAIN word |-> Lower(word[i])] \in {<<"y">>, <<"y", "e", "s">>}

-------------------------------------------------------------------------------
\* What a prompt promises, for every input: one line is taken from it, whole,
\* and a yes is the answer just when that line says so and is no longer than
\* the reader keeps.
TakesOneLine(answer, input, limit) ==
  LET line == SubSeq(input, 1, LineEnd(input))
  IN  /\ answer.rest = From(input, LineEnd(input) + 1)
      /\ isAffirmative(answer.line) <=> Len(line) <= limit /\ isAffirmative(line)

\* A console's input ends with the end of a line.
ConsoleReadsLines(queue) ==
  Last(queue) = LineFeed => TakesOneLine(readLineFromConsole(queue), queue, BufferSize)

\* The line feed does not count towards the redirected reader's limit.
RedirectedReadsLines(stream) ==
  TakesOneLine(readLineFromRedirectedStream(stream), stream,
               IF stream[LineEnd(stream)] = LineFeed THEN kMaxRedirectedLineBytes + 1
                                                     ELSE kMaxRedirectedLineBytes)
===============================================================================
