------------------------------- MODULE TextProofs -------------------------------
(***************************************************************************)
(* The texts a process takes in and hands on, of any length.               *)
(*                                                                         *)
(*   ConsoleCorrect, RedirectedCorrect   the line readers of Prompt, for   *)
(*       any buffer and any limit, take one whole line, also when it comes *)
(*       in many chunks, and a yes is the answer just when the line says   *)
(*       so and is no longer than the reader keeps                         *)
(*   QuotingExact   the command line that Relaunch puts together is taken  *)
(*       apart into the arguments it was made of, if none is fragile       *)
(*   JsonReadsBackExactly   any text at all comes out of a JSON document   *)
(*       as it went in, each character read in one way only                *)
(***************************************************************************)
EXTENDS Prompt, Relaunch, JsonText, DataInduction, SequenceTheorems
LOCAL INSTANCE FiniteSetsExt
LOCAL INSTANCE SequencesExt

LEMMA MinIs ==
  ASSUME NEW T, T \subseteq Nat, T # {}
  PROVE  Min(T) \in T /\ \A m \in T : Min(T) <= m
  <1>1. \E n \in T : \A m \in T : n <= m
    BY LeastElement
  <1> QED
    BY <1>1 DEF Min

LEMMA MaxIs ==
  ASSUME NEW n \in Nat, NEW T, T \subseteq 0 .. n, T # {}
  PROVE  Max(T) \in T /\ \A m \in T : m <= Max(T)
  <1> DEFINE U == {n - t : t \in T}
  <1>1. U \subseteq Nat /\ U # {}
    <2>1. \A t \in T : n - t \in Nat
      OBVIOUS
    <2> QED
      BY <2>1
  <1>2. PICK u \in U : \A m \in U : u <= m
    <2> HIDE DEF U
    <2> QED
      BY <1>1, LeastElement
  <1>3. PICK t \in T : u = n - t
    BY <1>2
  <1>4. \A m \in T : m <= t
    <2> SUFFICES ASSUME NEW m \in T PROVE m <= t
      OBVIOUS
    <2>1. n - m \in U
      OBVIOUS
    <2>2. n - t <= n - m
      BY <1>2, <1>3, <2>1
    <2> QED
      BY <2>2
  <1>5. \E x \in T : \A y \in T : x >= y
    BY <1>4
  <1>6. Max(T) \in T /\ \A y \in T : Max(T) >= y
    BY <1>5 DEF Max
  <1> QED
    BY <1>6

-------------------------------------------------------------------------------
(* Lines. *)

LEMMA LineEndOf ==
  ASSUME NEW input \in Text, input # << >>
  PROVE  /\ LineEnd(input) \in 1 .. Len(input)
         /\ \A i \in 1 .. LineEnd(input) - 1 : input[i] # LineFeed
         /\ input[LineEnd(input)] = LineFeed \/ LineEnd(input) = Len(input)
  <1> DEFINE T == {Len(input)} \cup {i \in DOMAIN input : input[i] = LineFeed}
  <1>1. Len(input) \in Nat \ {0} /\ DOMAIN input = 1 .. Len(input)
    BY DEF Text
  <1>2. T \subseteq 1 .. Len(input) /\ T # {}
    BY <1>1
  <1>3. PICK e : e = Min(T)
    OBVIOUS
  <1>4. LineEnd(input) = e
    BY <1>3 DEF LineEnd
  <1>5. e \in T /\ \A m \in T : e <= m
    <2>1. T \subseteq Nat /\ T # {}
      BY <1>1, <1>2
    <2> HIDE DEF T
    <2> QED
      BY <1>3, <2>1, MinIs, Zenon
  <1>6. e \in 1 .. Len(input)
    BY <1>2, <1>5
  <1>7. ASSUME NEW i \in 1 .. e - 1, input[i] = LineFeed PROVE FALSE
    <2>1. i \in 1 .. Len(input) /\ i < e
      BY <1>1, <1>6
    <2>2. i \in T
      BY <1>1, <1>7, <2>1
    <2>3. e <= i
      BY <1>5, <2>2
    <2> QED
      BY <1>1, <1>6, <2>1, <2>3
  <1>8. input[e] = LineFeed \/ e = Len(input)
    BY <1>5
  <1> QED
    BY <1>4, <1>6, <1>7, <1>8

LEMMA LineEndIs ==
  ASSUME NEW input \in Text, NEW e \in 1 .. Len(input),
         \A i \in 1 .. e - 1 : input[i] # LineFeed,
         input[e] = LineFeed \/ e = Len(input)
  PROVE  LineEnd(input) = e
  <1>1. Len(input) \in Nat /\ input # << >>
    BY DEF Text
  <1>2. LineEnd(input) \in 1 .. Len(input)
    BY <1>1, LineEndOf
  <1>3. ~ (e < LineEnd(input))
    BY <1>1, <1>2, LineEndOf
  <1>4. ~ (LineEnd(input) < e)
    BY <1>1, <1>2, LineEndOf
  <1> QED
    BY <1>1, <1>2, <1>3, <1>4

LEMMA FromIs ==
  ASSUME NEW input \in Text, NEW i \in 1 .. Len(input) + 1
  PROVE  /\ From(input, i) \in Text
         /\ Len(From(input, i)) = Len(input) - i + 1
         /\ \A j \in 1 .. Len(input) - i + 1 : From(input, i)[j] = input[i - 1 + j]
  BY DEF From, Text

LEMMA FromFrom ==
  ASSUME NEW input \in Text, NEW i \in 1 .. Len(input) + 1, NEW j \in Nat \ {0},
         i + j <= Len(input) + 2
  PROVE  From(From(input, i), j) = From(input, i + j - 1)
  BY DEF From, Text

LEMMA FromNone ==
  ASSUME NEW input \in Text
  PROVE  From(input, Len(input) + 1) = << >>
  BY DEF From, Text

LEMMA ChunkIs ==
  ASSUME NEW queue \in Text, queue # << >>
  PROVE  /\ Chunk(queue) \in Text
         /\ Len(Chunk(queue)) \in 1 .. LineEnd(queue)
         /\ Len(Chunk(queue)) <= BufferSize
         /\ Len(Chunk(queue)) = BufferSize \/ Len(Chunk(queue)) = LineEnd(queue)
         /\ Last(Chunk(queue)) = queue[Len(Chunk(queue))]
         /\ Chunk(queue) = SubSeq(queue, 1, Len(Chunk(queue)))
  <1>1. PICK k : k = Min({BufferSize, LineEnd(queue)})
    OBVIOUS
  <1>2. LineEnd(queue) \in 1 .. Len(queue) /\ Len(queue) \in Nat
    BY LineEndOf DEF Text
  <1>3. BufferSize \in Nat \ {0}
    BY PromptAssumption
  <1>4. k \in {BufferSize, LineEnd(queue)} /\ k <= BufferSize /\ k <= LineEnd(queue)
    <2>1. {BufferSize, LineEnd(queue)} \subseteq Nat
      BY <1>2, <1>3
    <2> QED
      BY <1>1, <2>1, MinIs
  <1>5. k \in 1 .. LineEnd(queue) /\ k \in 1 .. Len(queue)
    BY <1>2, <1>3, <1>4
  <1>6. Chunk(queue) = SubSeq(queue, 1, k)
    BY <1>1 DEF Chunk
  <1>7. /\ SubSeq(queue, 1, k) \in Text /\ Len(SubSeq(queue, 1, k)) = k
        /\ SubSeq(queue, 1, k)[k] = queue[k]
    BY <1>2, <1>5 DEF Text
  <1> QED
    BY <1>2, <1>3, <1>4, <1>5, <1>6, <1>7 DEF Last

\* The position after the line that i is in.
After(queue, i) == i + LineEnd(From(queue, i))

\* A chunk that does not end the line leaves the rest of the same line.
LEMMA AfterChunk ==
  ASSUME NEW queue \in Text, queue # << >>, Last(queue) = LineFeed,
         NEW i \in 1 .. Len(queue), NEW k, k = Len(Chunk(From(queue, i)))
  PROVE  /\ k \in Nat \ {0} /\ i + k <= After(queue, i)
         /\ After(queue, i) \in i + 1 .. Len(queue) + 1
         /\ Last(Chunk(From(queue, i))) = LineFeed => After(queue, i) = i + k
         /\ Last(Chunk(From(queue, i))) # LineFeed =>
              i + k \in 1 .. Len(queue) /\ After(queue, i + k) = After(queue, i)
  <1> DEFINE rest == From(queue, i)
             e == LineEnd(rest)
             n == Len(queue)
  <1>1. n \in Nat /\ i \in Nat \ {0} /\ i <= n /\ queue[n] = LineFeed
    BY DEF Text, Last
  <1>2. rest \in Text /\ Len(rest) = n - i + 1 /\ \A j \in 1 .. n - i + 1 : rest[j] = queue[i - 1 + j]
    BY <1>1, FromIs
  <1>3. rest # << >>
    BY <1>1, <1>2
  <1>4. rest[n - i + 1] = LineFeed
    BY <1>1, <1>2
  <1>5. /\ e \in 1 .. n - i + 1
        /\ \A j \in 1 .. e - 1 : rest[j] # LineFeed
        /\ rest[e] = LineFeed
    <2> HIDE DEF rest
    <2> QED
      BY <1>2, <1>3, <1>4, LineEndOf
  <1>6. k \in 1 .. e /\ Last(Chunk(rest)) = rest[k]
    <2> HIDE DEF rest
    <2>1. Len(Chunk(rest)) \in 1 .. e /\ Last(Chunk(rest)) = rest[Len(Chunk(rest))]
      BY <1>2, <1>3, ChunkIs
    <2> QED
      BY <2>1 DEF rest
  <1>7. After(queue, i) = i + e
    BY DEF After
  <1> HIDE DEF rest, e, n
  <1>8. ASSUME rest[k] = LineFeed PROVE k = e
    BY <1>1, <1>5, <1>6, <1>8
  <1>9. ASSUME rest[k] # LineFeed PROVE i + k \in 1 .. n /\ After(queue, i + k) = i + e
    <2>1. k < e /\ k \in Nat /\ e \in Nat
      BY <1>1, <1>5, <1>6, <1>9
    <2>2. i + k \in 1 .. n
      BY <1>1, <1>5, <2>1
    <2> DEFINE tail == From(queue, i + k)
    <2>3. /\ tail \in Text /\ Len(tail) = n - (i + k) + 1
          /\ \A j \in 1 .. n - (i + k) + 1 : tail[j] = queue[i + k - 1 + j]
      BY <1>1, <2>2, FromIs DEF n
    <2> HIDE DEF tail
    <2>4. \A j \in 1 .. n - (i + k) + 1 : tail[j] = rest[k + j]
      <3> SUFFICES ASSUME NEW j \in 1 .. n - (i + k) + 1 PROVE tail[j] = rest[k + j]
        OBVIOUS
      <3>1. k + j \in 1 .. n - i + 1 /\ i - 1 + (k + j) = i + k - 1 + j
        BY <1>1, <2>1, <2>2
      <3> QED
        BY <1>2, <2>3, <3>1
    <2>5. e - k \in 1 .. Len(tail)
      BY <1>1, <1>5, <2>1, <2>2, <2>3
    <2>6. tail[e - k] = LineFeed
      <3>1. k + (e - k) = e
        BY <2>1
      <3> QED
        BY <1>5, <2>3, <2>4, <2>5, <3>1
    <2>7. \A j \in 1 .. (e - k) - 1 : tail[j] # LineFeed
      <3> SUFFICES ASSUME NEW j \in 1 .. (e - k) - 1 PROVE tail[j] # LineFeed
        OBVIOUS
      <3>1. k + j \in 1 .. e - 1 /\ j \in 1 .. n - (i + k) + 1
        BY <1>1, <1>5, <2>1, <2>2
      <3> QED
        BY <1>5, <2>4, <3>1
    <2>8. LineEnd(tail) = e - k
      BY <2>3, <2>5, <2>6, <2>7, LineEndIs
    <2> QED
      BY <1>1, <2>1, <2>2, <2>8 DEF After, tail
  <1> QED
    BY <1>1, <1>5, <1>6, <1>7, <1>8, <1>9 DEF rest, n

\* Draining stops at the end of the line, in however many chunks it comes.
LEMMA DrainedIs ==
  ASSUME NEW queue \in Text, queue # << >>, Last(queue) = LineFeed
  PROVE  Drained(queue) = From(queue, LineEnd(queue) + 1)
  <1> DEFINE n == Len(queue)
             Value(f, i) == IF i > n THEN << >>
                            ELSE LET chunk == Chunk(From(queue, i))
                                 IN  IF Last(chunk) = LineFeed THEN From(queue, i + Len(chunk))
                                     ELSE f[i + Len(chunk)]
             Equation(f) == f = [i \in 1 .. n + 1 |-> Value(f, i)]
             closed == [i \in 1 .. n + 1 |->
                          IF i > n THEN << >> ELSE From(queue, After(queue, i))]
             rest == CHOOSE f : Equation(f)
  <1>1. n \in Nat \ {0}
    BY DEF Text
  <1>2. \A i \in 1 .. n : closed[i] = Value(closed, i)
    <2> SUFFICES ASSUME NEW i \in 1 .. n PROVE closed[i] = Value(closed, i)
      OBVIOUS
    <2> DEFINE k == Len(Chunk(From(queue, i)))
    <2>1. closed[i] = From(queue, After(queue, i))
      BY <1>1
    <2>2. Value(closed, i) = IF Last(Chunk(From(queue, i))) = LineFeed
                               THEN From(queue, i + k) ELSE closed[i + k]
      <3>1. ~ (i > n)
        BY <1>1
      <3> HIDE DEF closed
      <3> QED
        BY <3>1
    <2>3. CASE Last(Chunk(From(queue, i))) = LineFeed
      <3> HIDE DEF closed
      <3> QED
        BY <2>1, <2>2, <2>3, AfterChunk
    <2>4. CASE Last(Chunk(From(queue, i))) # LineFeed
      <3>1. i + k \in 1 .. n /\ After(queue, i + k) = After(queue, i)
        BY <2>4, AfterChunk
      <3>2. closed[i + k] = From(queue, After(queue, i + k))
        BY <1>1, <3>1
      <3> HIDE DEF closed
      <3> QED
        BY <2>1, <2>2, <2>4, <3>1, <3>2
    <2> QED
      BY <2>3, <2>4
  <1>3. Equation(closed)
    <2>1. closed[n + 1] = << >> /\ Value(closed, n + 1) = << >>
      BY <1>1
    <2> HIDE DEF Value
    <2>2. \A i \in 1 .. n + 1 : closed[i] = Value(closed, i)
      <3> HIDE DEF closed
      <3> QED
        BY <1>1, <1>2, <2>1
    <2> QED
      BY <2>2
  <1>4. Equation(rest)
    <2> HIDE DEF Equation
    <2> QED
      BY <1>3
  <1>5. /\ \A i \in 1 .. n : rest[i] = Value(rest, i)
         /\ rest[n + 1] = closed[n + 1]
    <2>1. \A i \in 1 .. n + 1 : rest[i] = Value(rest, i)
      <3> HIDE DEF rest, Value
      <3> QED
        BY <1>4
    <2> HIDE DEF rest
    <2> QED
      BY <1>1, <2>1
  <1>6. \A i \in 1 .. n + 1 : rest[i] = closed[i]
    <2> DEFINE T == {d \in 0 .. n : rest[n + 1 - d] # closed[n + 1 - d]}
    <2>1. T = {}
      <3> SUFFICES ASSUME T # {} PROVE FALSE
        OBVIOUS
      <3>1. PICK d \in T : \A m \in T : d <= m
        <4>1. T \subseteq Nat
          BY <1>1
        <4> HIDE DEF T
        <4> QED
          BY <4>1, LeastElement
      <3> DEFINE i == n + 1 - d
                 k == Len(Chunk(From(queue, i)))
      <3>2. i \in 1 .. n + 1 /\ rest[i] # closed[i] /\ d \in 0 .. n
        BY <1>1, <3>1
      <3>3. i \in 1 .. n
        <4> HIDE DEF rest, closed
        <4> QED
          BY <1>1, <1>5, <3>2
      <3> HIDE DEF rest, closed
      <3>4. CASE Last(Chunk(From(queue, i))) = LineFeed
        BY <1>2, <1>5, <3>2, <3>3, <3>4
      <3>5. CASE Last(Chunk(From(queue, i))) # LineFeed
        <4>1. k \in Nat \ {0} /\ i + k \in 1 .. n
          BY <3>3, <3>5, AfterChunk
        <4>2. rest[i] = rest[i + k] /\ closed[i] = closed[i + k]
          BY <1>1, <1>2, <1>5, <3>3, <3>5
        <4>3. n + 1 - (d - k) = i + k /\ d - k \in 0 .. n
          BY <1>1, <3>2, <4>1
        <4>4. d - k \in T
          BY <3>2, <4>2, <4>3
        <4> QED
          BY <1>1, <3>1, <3>2, <4>1, <4>4
      <3> QED
        BY <3>4, <3>5
    <2> SUFFICES ASSUME NEW i \in 1 .. n + 1 PROVE rest[i] = closed[i]
      OBVIOUS
    <2>2. n + 1 - i \in 0 .. n /\ n + 1 - (n + 1 - i) = i
      BY <1>1
    <2> HIDE DEF rest, closed
    <2> QED
      BY <2>1, <2>2
  <1>7. Drained(queue) = rest[1]
    BY DEF Drained
  <1>8. closed[1] = From(queue, After(queue, 1))
    BY <1>1
  <1>9. From(queue, 1) = queue
    BY DEF From, Text
  <1>10. After(queue, 1) = LineEnd(queue) + 1
    <2>1. LineEnd(queue) \in Nat
      BY <1>1, LineEndOf
    <2> QED
      BY <1>9, <2>1 DEF After
  <1> QED
    BY <1>1, <1>6, <1>7, <1>8, <1>10

\* readLineFromConsole() takes the line it is at, whatever the buffer.
LEMMA ConsoleTakesLine ==
  ASSUME NEW queue \in Text, queue # << >>, Last(queue) = LineFeed
  PROVE  readLineFromConsole(queue).rest = From(queue, LineEnd(queue) + 1)
  <1> DEFINE chunk == Chunk(queue)
             k     == Len(chunk)
             rest  == From(queue, k + 1)
             n     == Len(queue)
  <1>1. n \in Nat \ {0} /\ queue[n] = LineFeed
    BY DEF Text, Last
  <1>2. From(queue, 1) = queue
    BY DEF From, Text
  <1>3. /\ k \in Nat \ {0} /\ After(queue, 1) = 1 + LineEnd(queue)
        /\ LineEnd(queue) \in 1 .. n
        /\ Last(chunk) = LineFeed => After(queue, 1) = 1 + k
        /\ Last(chunk) # LineFeed => 1 + k \in 1 .. n /\ After(queue, 1 + k) = After(queue, 1)
    <2>1. 1 \in 1 .. n /\ k = Len(Chunk(From(queue, 1))) /\ chunk = Chunk(From(queue, 1))
      BY <1>1, <1>2
    <2>2. After(queue, 1) = 1 + LineEnd(queue)
      BY <1>2 DEF After
    <2>3. LineEnd(queue) \in 1 .. n
      BY LineEndOf
    <2> HIDE DEF chunk, k
    <2> QED
      BY <2>1, <2>2, <2>3, AfterChunk
  <1>4. k = BufferSize \/ k = LineEnd(queue)
    BY ChunkIs
  <1>5. Last(chunk) = queue[k]
    BY ChunkIs
  <1>6. readLineFromConsole(queue).rest = IF Truncated(chunk) THEN Drained(rest) ELSE rest
    BY DEF readLineFromConsole, Answer
  <1> HIDE DEF chunk, k, rest, n
  <1>7. CASE ~Truncated(chunk)
    <2>1. Last(chunk) = LineFeed \/ k = LineEnd(queue)
      BY <1>4, <1>7 DEF Truncated, k
    <2>2. k = LineEnd(queue)
      BY <1>3, <2>1
    <2> QED
      BY <1>6, <1>7, <2>2 DEF rest
  <1>8. CASE Truncated(chunk)
    <2>1. Last(chunk) # LineFeed
      BY <1>8 DEF Truncated
    <2>2. 1 + k \in 1 .. n /\ After(queue, 1 + k) = 1 + LineEnd(queue)
      BY <1>3, <2>1
    <2>3. rest \in Text /\ Len(rest) = n - k /\ \A j \in 1 .. n - k : rest[j] = queue[k + j]
      <3>1. PICK i : i = k + 1
        OBVIOUS
      <3>2. i \in 1 .. Len(queue) + 1 /\ n - i + 1 = n - k /\ i - 1 = k
        BY <1>1, <1>3, <2>2, <3>1 DEF n
      <3>3. rest = From(queue, i)
        BY <3>1 DEF rest
      <3>4. /\ rest \in Text /\ Len(rest) = Len(queue) - i + 1
            /\ \A j \in 1 .. Len(queue) - i + 1 : rest[j] = queue[i - 1 + j]
        BY <3>2, <3>3, FromIs
      <3>5. Len(queue) = n
        BY DEF n
      <3> QED
        BY <3>2, <3>4, <3>5
    <2>4. n - k \in Nat \ {0} /\ k + (n - k) = n
      BY <1>1, <1>3, <2>2
    <2>5. rest # << >> /\ Last(rest) = LineFeed
      BY <1>1, <2>3, <2>4 DEF Last
    <2>6. Drained(rest) = From(rest, LineEnd(rest) + 1)
      BY <2>3, <2>5, DrainedIs
    <2>7. LineEnd(rest) \in 1 .. n - k
      BY <2>3, <2>5, LineEndOf
    <2>8. From(rest, LineEnd(rest) + 1) = From(queue, (1 + k) + (LineEnd(rest) + 1) - 1)
      <3>1. rest = From(queue, 1 + k)
        BY <1>1, <1>3 DEF rest
      <3>2. LineEnd(rest) + 1 \in Nat \ {0} /\ (1 + k) + (LineEnd(rest) + 1) <= n + 2
        BY <1>1, <1>3, <2>4, <2>7
      <3> QED
        BY <2>2, <3>1, <3>2, FromFrom DEF n
    <2>9. After(queue, 1 + k) = 1 + k + LineEnd(rest)
      <3>1. rest = From(queue, 1 + k)
        BY <1>1, <1>3 DEF rest
      <3> QED
        BY <3>1 DEF After
    <2>10. (1 + k) + (LineEnd(rest) + 1) - 1 = LineEnd(queue) + 1
      BY <1>1, <1>3, <2>2, <2>4, <2>7, <2>9
    <2> QED
      BY <1>6, <1>8, <2>6, <2>8, <2>10
  <1> QED
    BY <1>7, <1>8

\* readLineFromRedirectedStream() too, whatever the limit.
LEMMA RedirectedTakesLine ==
  ASSUME NEW stream \in Text, stream # << >>
  PROVE  readLineFromRedirectedStream(stream).rest = From(stream, LineEnd(stream) + 1)
  BY DEF readLineFromRedirectedStream, Answer

-------------------------------------------------------------------------------
(* Answers. *)

\* What TrimEnd() leaves ends at the last character it does not trim.
Trimmed(text, chars, m) ==
  /\ m \in 0 .. Len(text)
  /\ m # 0 => text[m] \notin chars
  /\ \A i \in m + 1 .. Len(text) : text[i] \in chars

LEMMA TrimEndOf ==
  ASSUME NEW text \in Text, NEW chars
  PROVE  \E m : Trimmed(text, chars, m) /\ TrimEnd(text, chars) = SubSeq(text, 1, m)
  <1> DEFINE T == {0} \cup {i \in DOMAIN text : text[i] \notin chars}
             n == Len(text)
  <1>1. n \in Nat /\ DOMAIN text = 1 .. n
    BY DEF Text
  <1>2. PICK m : m = Max(T)
    OBVIOUS
  <1>3. T \subseteq 0 .. n /\ 0 \in T
    BY <1>1
  <1>4. m \in T /\ \A i \in T : i <= m
    <2> HIDE DEF T
    <2> QED
      BY <1>1, <1>2, <1>3, MaxIs
  <1>5. m \in 0 .. n /\ (m # 0 => text[m] \notin chars)
    BY <1>3, <1>4
  <1>6. ASSUME NEW i \in m + 1 .. n PROVE text[i] \in chars
    <2>1. i \in 1 .. n /\ ~ (i <= m)
      BY <1>1, <1>5
    <2>2. i \notin T
      BY <1>4, <2>1
    <2> QED
      BY <1>1, <2>1, <2>2
  <1>7. TrimEnd(text, chars) = SubSeq(text, 1, m)
    BY <1>2 DEF TrimEnd
  <1> QED
    BY <1>5, <1>6, <1>7 DEF Trimmed

LEMMA TrimEndIs ==
  ASSUME NEW text \in Text, NEW chars, NEW m, Trimmed(text, chars, m)
  PROVE  TrimEnd(text, chars) = SubSeq(text, 1, m)
  <1>1. PICK k : Trimmed(text, chars, k) /\ TrimEnd(text, chars) = SubSeq(text, 1, k)
    BY TrimEndOf
  <1>2. Len(text) \in Nat
    BY DEF Text
  <1>3. ~ (k < m) /\ ~ (m < k)
    BY <1>1, <1>2 DEF Trimmed
  <1>4. k = m
    BY <1>1, <1>2, <1>3 DEF Trimmed
  <1> QED
    BY <1>1, <1>4

\* Trimming from where only trimmed characters follow changes nothing.
LEMMA TrimAgain ==
  ASSUME NEW text \in Text, NEW chars, NEW k \in 0 .. Len(text),
         \A i \in k + 1 .. Len(text) : text[i] \in chars
  PROVE  TrimEnd(SubSeq(text, 1, k), chars) = TrimEnd(text, chars)
  <1>1. PICK m : Trimmed(text, chars, m) /\ TrimEnd(text, chars) = SubSeq(text, 1, m)
    BY TrimEndOf
  <1>2. Len(text) \in Nat
    BY DEF Text
  <1>3. m \in 0 .. k
    BY <1>1, <1>2 DEF Trimmed
  <1>4. PICK short : short = SubSeq(text, 1, k)
    OBVIOUS
  <1>5. short \in Text /\ Len(short) = k /\ \A i \in 1 .. k : short[i] = text[i]
    BY <1>2, <1>4 DEF Text
  <1>6. Trimmed(short, chars, m)
    <2>1. m # 0 => short[m] \notin chars
      BY <1>1, <1>3, <1>5 DEF Trimmed
    <2>2. ASSUME NEW i \in m + 1 .. k PROVE short[i] \in chars
      <3>1. i \in m + 1 .. Len(text) /\ i \in 1 .. k
        BY <1>2, <1>3
      <3> QED
        BY <1>1, <1>5, <3>1 DEF Trimmed
    <2> QED
      BY <1>3, <1>5, <2>1, <2>2 DEF Trimmed
  <1>7. TrimEnd(short, chars) = SubSeq(short, 1, m)
    BY <1>5, <1>6, TrimEndIs
  <1>8. SubSeq(short, 1, m) = SubSeq(text, 1, m)
    BY <1>2, <1>3, <1>4 DEF Text
  <1> QED
    BY <1>1, <1>4, <1>7, <1>8

\* An answer means the same without the blanks at its end.
LEMMA SameMeaning ==
  ASSUME NEW text \in Text, NEW k \in 0 .. Len(text),
         \A i \in k + 1 .. Len(text) : text[i] \in AsciiSpace
  PROVE  isAffirmative(SubSeq(text, 1, k)) <=> isAffirmative(text)
  <1>1. SubSeq(text, 1, k) \in Text
    BY DEF Text
  <1>2. trimAsciiWhitespace(SubSeq(text, 1, k)) = trimAsciiWhitespace(text)
    BY TrimAgain DEF trimAsciiWhitespace
  <1>3. SubSeq(text, 1, k) # NoLine /\ text # NoLine
    BY <1>1, PromptAssumption
  <1> QED
    BY <1>2, <1>3 DEF isAffirmative

LEMMA NothingIsNo == ~isAffirmative(<< >>)
  <1>1. << >> \in Text /\ Len(<< >>) = 0
    BY DEF Text
  <1>2. TrimEnd(<< >>, AsciiSpace) = << >>
    <2>1. Trimmed(<< >>, AsciiSpace, 0)
      BY <1>1 DEF Trimmed
    <2>2. TrimEnd(<< >>, AsciiSpace) = SubSeq(<< >>, 1, 0)
      BY <1>1, <2>1, TrimEndIs
    <2> QED
      BY <2>2
  <1>3. Reverse(<< >>) = << >>
    BY DEF Reverse
  <1>4. trimAsciiWhitespace(<< >>) = << >>
    BY <1>2, <1>3 DEF trimAsciiWhitespace
  <1>5. [i \in DOMAIN << >> |-> Lower(<< >>[i])] \notin {<<"y">>, <<"y", "e", "s">>}
    <2> DEFINE f == [i \in DOMAIN << >> |-> Lower(<< >>[i])]
    <2>1. DOMAIN f = {}
      OBVIOUS
    <2>2. 1 \in DOMAIN <<"y">> /\ 1 \in DOMAIN <<"y", "e", "s">>
      OBVIOUS
    <2> HIDE DEF f
    <2> QED
      BY <2>1, <2>2
  <1> QED
    BY <1>4, <1>5 DEF isAffirmative

-------------------------------------------------------------------------------
\* readLineFromConsole(), on whatever was typed up to the end of a line, takes one
\* line, however long, and confirms just what that line says: a line longer than
\* the buffer is a no.
THEOREM ConsoleCorrect == \A queue \in Text \ {<< >>} : ConsoleReadsLines(queue)
  <1> SUFFICES ASSUME NEW queue \in Text, queue # << >>, Last(queue) = LineFeed
               PROVE  TakesOneLine(readLineFromConsole(queue), queue, BufferSize)
    BY DEF ConsoleReadsLines
  <1> DEFINE answer == readLineFromConsole(queue)
             chunk  == Chunk(queue)
  <1>1. PICK e, line : e = LineEnd(queue) /\ line = SubSeq(queue, 1, e)
    OBVIOUS
  <1>2. answer.rest = From(queue, LineEnd(queue) + 1)
    BY ConsoleTakesLine
  <1>3. /\ e \in 1 .. Len(queue) /\ \A i \in 1 .. e - 1 : queue[i] # LineFeed
        /\ queue[e] = LineFeed \/ e = Len(queue)
    BY <1>1, LineEndOf
  <1>4. /\ Len(chunk) \in 1 .. e /\ Len(chunk) <= BufferSize
        /\ Len(chunk) = BufferSize \/ Len(chunk) = e
        /\ Last(chunk) = queue[Len(chunk)] /\ chunk = SubSeq(queue, 1, Len(chunk))
    BY <1>1, ChunkIs
  <1>5. BufferSize \in Nat \ {0} /\ Len(queue) \in Nat
    BY PromptAssumption DEF Text
  <1>6. line \in Text /\ Len(line) = e
    BY <1>1, <1>3, <1>5 DEF Text
  <1>7. answer.line = IF Truncated(chunk) THEN << >>
                      ELSE TrimEnd(chunk, {LineFeed, CarriageReturn})
    BY DEF readLineFromConsole, Answer
  <1> HIDE DEF answer, chunk
  <1>8. CASE Truncated(chunk)
    <2>1. Len(chunk) = BufferSize /\ queue[Len(chunk)] # LineFeed
      BY <1>4, <1>8 DEF Truncated
    <2>2. Len(chunk) # e
      BY <1>3, <2>1 DEF Last
    <2>3. ~ (Len(line) <= BufferSize)
      BY <1>3, <1>4, <1>5, <1>6, <2>1, <2>2
    <2>4. ~isAffirmative(answer.line)
      BY <1>7, <1>8, NothingIsNo
    <2> QED
      BY <1>1, <1>2, <2>3, <2>4 DEF TakesOneLine, answer
  <1>9. CASE ~Truncated(chunk)
    <2>1. Len(chunk) = e
      <3>1. CASE Len(chunk) = BufferSize
        <4>1. queue[Len(chunk)] = LineFeed
          BY <1>4, <1>9, <3>1 DEF Truncated
        <4>2. PICK k : k = Len(chunk)
          OBVIOUS
        <4>3. k \in 1 .. e /\ queue[k] = LineFeed
          BY <1>4, <4>1, <4>2
        <4> QED
          BY <1>3, <1>5, <4>2, <4>3
      <3> QED
        BY <1>4, <3>1
    <2>2. chunk = line /\ Len(line) <= BufferSize
      BY <1>1, <1>4, <1>6, <2>1
    <2>3. PICK m : Trimmed(line, {LineFeed, CarriageReturn}, m)
                   /\ TrimEnd(line, {LineFeed, CarriageReturn}) = SubSeq(line, 1, m)
      BY <1>6, TrimEndOf
    <2>4. isAffirmative(SubSeq(line, 1, m)) <=> isAffirmative(line)
      <3>1. m \in 0 .. Len(line) /\ \A i \in m + 1 .. Len(line) : line[i] \in AsciiSpace
        BY <2>3 DEF Trimmed, AsciiSpace
      <3> QED
        BY <1>6, <3>1, SameMeaning
    <2>5. isAffirmative(answer.line) <=> isAffirmative(line)
      BY <1>7, <1>9, <2>2, <2>3, <2>4
    <2> QED
      BY <1>1, <1>2, <2>2, <2>5 DEF TakesOneLine, answer
  <1> QED
    BY <1>8, <1>9

\* readLineFromRedirectedStream(), on any bytes, takes one line, with or without a
\* line feed at its end, and confirms just what that line says: one longer than
\* the limit is a no.
THEOREM RedirectedCorrect == \A stream \in Text \ {<< >>} : RedirectedReadsLines(stream)
  <1> SUFFICES ASSUME NEW stream \in Text, stream # << >>
               PROVE  RedirectedReadsLines(stream)
    OBVIOUS
  <1> DEFINE answer == readLineFromRedirectedStream(stream)
  <1>1. PICK e, line : e = LineEnd(stream) /\ line = SubSeq(stream, 1, e)
    OBVIOUS
  <1>2. answer.rest = From(stream, LineEnd(stream) + 1)
    BY RedirectedTakesLine
  <1>3. /\ e \in 1 .. Len(stream) /\ \A i \in 1 .. e - 1 : stream[i] # LineFeed
        /\ stream[e] = LineFeed \/ e = Len(stream)
    BY <1>1, LineEndOf
  <1>4. Len(stream) \in Nat
    BY DEF Text
  <1>5. line \in Text /\ Len(line) = e /\ \A i \in 1 .. e : line[i] = stream[i]
    BY <1>1, <1>3, <1>4 DEF Text
  <1>6. PICK k : k = IF stream[e] = LineFeed THEN e - 1 ELSE e
    OBVIOUS
  <1>7. /\ k \in 0 .. Len(line)
        /\ \A i \in k + 1 .. Len(line) : line[i] = LineFeed
        /\ k # 0 => line[k] # LineFeed
    BY <1>3, <1>4, <1>5, <1>6
  <1>8. PICK bytes : bytes = SubSeq(line, 1, k)
    OBVIOUS
  <1>9. bytes \in Text /\ Len(bytes) = k /\ \A i \in 1 .. k : bytes[i] = line[i]
    BY <1>3, <1>4, <1>5, <1>7, <1>8 DEF Text
  <1>10. TrimEnd(line, {LineFeed}) = bytes
    <2>1. Trimmed(line, {LineFeed}, k)
      BY <1>7 DEF Trimmed
    <2> QED
      BY <1>5, <1>8, <2>1, TrimEndIs
  <1>11. answer.line = IF Len(bytes) > kMaxRedirectedLineBytes THEN << >>
                       ELSE IF bytes # << >> /\ Last(bytes) = CarriageReturn THEN Front(bytes)
                       ELSE bytes
    BY <1>1, <1>10 DEF readLineFromRedirectedStream, Answer
  <1>12. isAffirmative(bytes) <=> isAffirmative(line)
    <2>1. \A i \in k + 1 .. Len(line) : line[i] \in AsciiSpace
      BY <1>7 DEF AsciiSpace
    <2> QED
      BY <1>5, <1>7, <1>8, <2>1, SameMeaning
  <1> HIDE DEF answer
  <1>13. isAffirmative(answer.line) <=> k <= kMaxRedirectedLineBytes /\ isAffirmative(line)
    <2>1. k \in Nat /\ kMaxRedirectedLineBytes \in Nat
      BY <1>3, <1>4, <1>5, <1>7, PromptAssumption
    <2>2. CASE k > kMaxRedirectedLineBytes
      BY <1>9, <1>11, <2>1, <2>2, NothingIsNo
    <2>3. CASE k <= kMaxRedirectedLineBytes /\ bytes # << >> /\ Last(bytes) = CarriageReturn
      <3>1. answer.line = Front(bytes)
        BY <1>9, <1>11, <2>1, <2>3
      <3>2. k - 1 \in 0 .. Len(bytes)
        BY <1>9, <2>1, <2>3
      <3>3. \A i \in (k - 1) + 1 .. Len(bytes) : bytes[i] \in AsciiSpace
        <4>1. bytes[k] \in AsciiSpace
          BY <1>9, <2>3 DEF Last, AsciiSpace
        <4>2. \A i \in (k - 1) + 1 .. Len(bytes) : i = k
          BY <1>9, <2>1
        <4> QED
          BY <4>1, <4>2
      <3>4. isAffirmative(SubSeq(bytes, 1, k - 1)) <=> isAffirmative(bytes)
        BY <1>9, <3>2, <3>3, SameMeaning
      <3> QED
        BY <1>9, <1>12, <2>3, <3>1, <3>4 DEF Front
    <2>4. CASE k <= kMaxRedirectedLineBytes /\ ~(bytes # << >> /\ Last(bytes) = CarriageReturn)
      <3>1. answer.line = bytes
        BY <1>9, <1>11, <2>1, <2>4
      <3> QED
        BY <1>12, <2>4, <3>1
    <2> QED
      BY <2>1, <2>2, <2>3, <2>4
  <1>14. Len(line) <= (IF stream[e] = LineFeed THEN kMaxRedirectedLineBytes + 1
                       ELSE kMaxRedirectedLineBytes)
           <=> k <= kMaxRedirectedLineBytes
    BY <1>3, <1>4, <1>5, <1>6, PromptAssumption
  <1> QED
    BY <1>1, <1>2, <1>13, <1>14 DEF RedirectedReadsLines, TakesOneLine, answer

-------------------------------------------------------------------------------
(* Several lines typed in a row. *)

LEMMA FlattenIs ==
  ASSUME NEW D, NEW lines \in Seq(Seq(D)), lines # << >>
  PROVE  \E g \in [1 .. Len(lines) -> Seq(D)] :
           /\ g[1] = lines[1]
           /\ \A i \in 2 .. Len(lines) : g[i] = g[i - 1] \o lines[i]
           /\ FlattenSeq(lines) = g[Len(lines)]
  <1> DEFINE n == Len(lines)
             Value(f, i) == IF i = 1 THEN lines[i] ELSE f[i - 1] \o lines[i]
             Equation(f) == f = [i \in 1 .. n |-> Value(f, i)]
             flatten == CHOOSE f : Equation(f)
             append == [i \in 1 .. n |-> [d \in Seq(D) |-> d \o lines[i]]]
  <1>1. n \in Nat \ {0} /\ \A i \in 1 .. n : lines[i] \in Seq(D)
    OBVIOUS
  <1>2. IsLoop(append, n, Seq(D))
    <2>1. \A i \in 1 .. n : \A d \in Seq(D) : d \o lines[i] \in Seq(D)
      BY <1>1
    <2> QED
      BY <2>1 DEF IsLoop
  <1>3. << >> \in Seq(D)
    OBVIOUS
  <1>4. PICK f : ValuesOfLoop(f, append, n, Seq(D), << >>)
    <2> HIDE DEF append, n
    <2> QED
      BY <1>1, <1>2, <1>3, LoopExists
  <1>5. /\ f \in [0 .. n -> Seq(D)] /\ f[0] = << >>
        /\ \A i \in 1 .. n : f[i] = f[i - 1] \o lines[i]
    <2>1. /\ f \in [0 .. n -> Seq(D)] /\ f[0] = << >>
          /\ \A i \in 1 .. n : f[i] = append[i][f[i - 1]]
      BY <1>4 DEF ValuesOfLoop
    <2>2. ASSUME NEW i \in 1 .. n PROVE f[i] = f[i - 1] \o lines[i]
      <3>1. PICK d : d = f[i - 1]
        OBVIOUS
      <3>2. d \in Seq(D)
        BY <1>1, <2>1, <3>1
      <3>3. append[i][d] = d \o lines[i]
        BY <3>2
      <3> QED
        BY <2>1, <3>1, <3>3
    <2> QED
      BY <2>1, <2>2
  <1> DEFINE g == [i \in 1 .. n |-> f[i]]
  <1>6. g \in [1 .. n -> Seq(D)]
    BY <1>1, <1>5
  <1>7. \A i \in 1 .. n : g[i] = Value(g, i)
    <2> SUFFICES ASSUME NEW i \in 1 .. n PROVE g[i] = Value(g, i)
      OBVIOUS
    <2>1. CASE i = 1
      <3>1. f[1] = f[0] \o lines[1] /\ lines[1] \in Seq(D)
        <4>1. 1 \in 1 .. n /\ 1 - 1 = 0
          BY <1>1
        <4> HIDE DEF n
        <4> QED
          BY <1>1, <1>5, <4>1
      <3>2. f[1] = lines[1]
        BY <1>5, <3>1, ConcatEmptySeq
      <3> QED
        BY <1>1, <2>1, <3>2
    <2>2. CASE i # 1
      <3>1. i - 1 \in 1 .. n
        BY <1>1, <2>2
      <3> QED
        BY <1>1, <1>5, <2>2, <3>1
    <2> QED
      BY <2>1, <2>2
  <1>8. Equation(g)
    <2> HIDE DEF Value
    <2> QED
      BY <1>7
  <1>9. Equation(flatten)
    <2> HIDE DEF Equation, g
    <2> QED
      BY <1>8
  <1>10. \A i \in 1 .. n : flatten[i] = Value(flatten, i)
    <2> HIDE DEF flatten, Value
    <2> QED
      BY <1>9
  <1> DEFINE S == {i \in Nat : i \in 1 .. n => flatten[i] \in Seq(D)}
  <1>11. \A i \in 1 .. n : flatten[i] \in Seq(D)
    <2>1. 0 \in S
      OBVIOUS
    <2>2. ASSUME NEW i \in Nat, i \in S PROVE i + 1 \in S
      <3> SUFFICES ASSUME i + 1 \in 1 .. n PROVE flatten[i + 1] \in Seq(D)
        OBVIOUS
      <3> HIDE DEF flatten
      <3>1. CASE i = 0
        BY <1>1, <1>10, <3>1
      <3>2. CASE i # 0
        <4>1. i \in 1 .. n /\ (i + 1) - 1 = i /\ i + 1 # 1
          BY <1>1, <3>2
        <4>2. flatten[i] \in Seq(D) /\ lines[i + 1] \in Seq(D)
          BY <1>1, <2>2, <4>1
        <4>3. flatten[i + 1] = flatten[i] \o lines[i + 1]
          BY <1>10, <4>1
        <4> QED
          BY <4>2, <4>3, ConcatProperties
      <3> QED
        BY <3>1, <3>2
    <2>3. \A i \in Nat : i \in S
      <3> HIDE DEF S
      <3> QED
        BY <2>1, <2>2, SetInduction
    <2> HIDE DEF flatten
    <2> QED
      BY <1>1, <2>3
  <1>12. FlattenSeq(lines) = flatten[n]
    BY <1>1 DEF FlattenSeq
  <1>13. flatten \in [1 .. n -> Seq(D)]
    <2> HIDE DEF flatten, Value
    <2> QED
      BY <1>9, <1>11
  <1>14. flatten[1] = lines[1] /\ \A i \in 2 .. n : flatten[i] = flatten[i - 1] \o lines[i]
    <2>1. 1 \in 1 .. n /\ \A i \in 2 .. n : i \in 1 .. n /\ i # 1
      BY <1>1
    <2> HIDE DEF flatten, n
    <2> QED
      BY <1>10, <2>1
  <1> HIDE DEF flatten
  <1> QED
    BY <1>12, <1>13, <1>14

\* The first line is at the front, followed by the others, and the last character
\* is that of the last line.
LEMMA FlattenHead ==
  ASSUME NEW D, NEW lines \in Seq(Seq(D)), lines # << >>
  PROVE  /\ FlattenSeq(lines) = Head(lines) \o FlattenSeq(Tail(lines))
         /\ FlattenSeq(lines) \in Seq(D) /\ FlattenSeq(Tail(lines)) \in Seq(D)
  <1>1. PICK n, rest, head : n = Len(lines) /\ rest = Tail(lines) /\ head = Head(lines)
    OBVIOUS
  <1>2. n \in Nat \ {0} /\ head = lines[1] /\ \A i \in 1 .. n : lines[i] \in Seq(D)
    BY <1>1
  <1>3. /\ rest \in Seq(Seq(D)) /\ Len(rest) = n - 1
        /\ \A i \in 1 .. n - 1 : rest[i] = lines[i + 1]
    BY <1>1, HeadTailProperties
  <1>4. PICK g \in [1 .. n -> Seq(D)] :
          /\ g[1] = lines[1]
          /\ \A i \in 2 .. n : g[i] = g[i - 1] \o lines[i]
          /\ FlattenSeq(lines) = g[n]
    BY <1>1, FlattenIs
  <1>5. 1 \in 1 .. n /\ n \in 1 .. n /\ head \in Seq(D) /\ g[n] \in Seq(D)
    BY <1>2, <1>4
  <1>6. CASE n = 1
    <2>1. rest = << >>
      BY <1>3, <1>6
    <2>2. FlattenSeq(rest) = << >>
      BY <2>1 DEF FlattenSeq
    <2>3. head \o << >> = head /\ << >> \in Seq(D)
      BY <1>5, ConcatEmptySeq
    <2> QED
      BY <1>1, <1>2, <1>4, <1>5, <1>6, <2>2, <2>3
  <1>7. CASE n # 1
    <2>1. rest # << >> /\ n - 1 \in Nat \ {0}
      BY <1>2, <1>3, <1>7
    <2>2. PICK h \in [1 .. n - 1 -> Seq(D)] :
            /\ h[1] = rest[1]
            /\ \A i \in 2 .. n - 1 : h[i] = h[i - 1] \o rest[i]
            /\ FlattenSeq(rest) = h[n - 1]
      <3>1. PICK h \in [1 .. Len(rest) -> Seq(D)] :
              /\ h[1] = rest[1]
              /\ \A i \in 2 .. Len(rest) : h[i] = h[i - 1] \o rest[i]
              /\ FlattenSeq(rest) = h[Len(rest)]
        BY <1>3, <2>1, FlattenIs
      <3> QED
        BY <1>3, <3>1
    <2> DEFINE S == {i \in Nat : i \in 1 .. n - 1 => g[i + 1] = head \o h[i]}
    <2>3. 0 \in S
      OBVIOUS
    <2>4. ASSUME NEW i \in Nat, i \in S PROVE i + 1 \in S
      <3>1. ASSUME i + 1 \in 1 .. n - 1 PROVE g[(i + 1) + 1] = head \o h[i + 1]
        <4>1. PICK j : j = (i + 1) + 1
          OBVIOUS
        <4>2. j \in 2 .. n /\ j - 1 = i + 1 /\ j \in 1 .. n
          BY <1>2, <2>1, <3>1, <4>1
        <4>3. g[j] = g[i + 1] \o lines[j]
          BY <1>4, <4>2
        <4>4. rest[i + 1] = lines[j] /\ lines[j] \in Seq(D)
          BY <1>2, <1>3, <3>1, <4>1, <4>2
        <4>5. CASE i = 0
          <5>1. h[1] = lines[j] /\ g[1] = head
            BY <1>2, <1>4, <2>2, <4>4, <4>5
          <5>2. i + 1 = 1
            BY <4>5
          <5> QED
            BY <4>1, <4>3, <5>1, <5>2
        <4>6. CASE i # 0
          <5>1. i \in 1 .. n - 1 /\ i + 1 \in 2 .. n - 1 /\ (i + 1) - 1 = i
            BY <2>1, <3>1, <4>6
          <5>2. h[i + 1] = h[i] \o rest[i + 1] /\ g[i + 1] = head \o h[i] /\ h[i] \in Seq(D)
            BY <2>2, <2>4, <5>1
          <5>3. (head \o h[i]) \o lines[j] = head \o (h[i] \o lines[j])
            <6>1. \A a, b, c \in Seq(D) : (a \o b) \o c = a \o (b \o c)
              BY ConcatAssociative, SMTT(30)
            <6>2. head \in Seq(D) /\ h[i] \in Seq(D) /\ lines[j] \in Seq(D)
              BY <1>5, <4>4, <5>2
            <6> QED
              BY <6>1, <6>2, Zenon
          <5> QED
            BY <4>1, <4>3, <4>4, <5>2, <5>3
        <4> QED
          BY <4>5, <4>6
      <3> QED
        BY <3>1
    <2>5. \A i \in Nat : i \in S
      <3> HIDE DEF S
      <3> QED
        BY <2>3, <2>4, SetInduction
    <2>6. g[n] = head \o h[n - 1] /\ h[n - 1] \in Seq(D)
      <3>1. (n - 1) + 1 = n /\ n - 1 \in 1 .. n - 1 /\ n - 1 \in Nat
        BY <1>2, <2>1
      <3>2. g[(n - 1) + 1] = head \o h[n - 1]
        BY <2>5, <3>1
      <3> QED
        BY <2>2, <3>1, <3>2
    <2> QED
      BY <1>1, <1>4, <1>5, <2>2, <2>6
  <1> QED
    BY <1>6, <1>7

LEMMA FlattenLast ==
  ASSUME NEW D, NEW lines \in Seq(Seq(D)), lines # << >>, lines[Len(lines)] # << >>
  PROVE  FlattenSeq(lines) # << >> /\ Last(FlattenSeq(lines)) = Last(lines[Len(lines)])
  <1>1. PICK n, last : n = Len(lines) /\ last = lines[Len(lines)]
    OBVIOUS
  <1>2. n \in Nat \ {0} /\ last \in Seq(D) /\ last # << >> /\ Len(last) \in Nat \ {0}
    BY <1>1
  <1>3. PICK g \in [1 .. n -> Seq(D)] :
          /\ g[1] = lines[1]
          /\ \A i \in 2 .. n : g[i] = g[i - 1] \o lines[i]
          /\ FlattenSeq(lines) = g[n]
    BY <1>1, FlattenIs
  <1>4. CASE n = 1
    BY <1>1, <1>2, <1>3, <1>4
  <1>5. CASE n # 1
    <2>1. n \in 2 .. n /\ n - 1 \in 1 .. n
      BY <1>2, <1>5
    <2>2. PICK before : before = g[n - 1]
      OBVIOUS
    <2>3. before \in Seq(D) /\ FlattenSeq(lines) = before \o last
      BY <1>1, <1>3, <2>1, <2>2
    <2>4. PICK all : all = before \o last
      OBVIOUS
    <2>5. /\ all \in Seq(D) /\ Len(all) = Len(before) + Len(last)
          /\ \A i \in 1 .. Len(before) + Len(last) : all[i] =
                  IF i <= Len(before) THEN before[i] ELSE last[i - Len(before)]
      BY <1>2, <2>3, <2>4, ConcatProperties
    <2>6. /\ Len(all) \in 1 .. Len(before) + Len(last) /\ ~ (Len(all) <= Len(before))
          /\ Len(all) - Len(before) = Len(last)
      BY <1>2, <2>3, <2>5
    <2>7. all # << >> /\ all[Len(all)] = last[Len(last)]
      BY <1>2, <2>5, <2>6
    <2> QED
      BY <1>1, <2>3, <2>4, <2>7 DEF Last
  <1> QED
    BY <1>4, <1>5

-------------------------------------------------------------------------------
(* The command line of the elevated process. *)

\* The states of the scan, for pieces of a set D.
ScanState(D) == [done : Seq(Seq(D)), begun : BOOLEAN, text : Seq(D), slashes : Nat,
                 inQuotes : BOOLEAN, closed : BOOLEAN]

LEMMA RepeatIs ==
  ASSUME NEW n \in Nat, NEW D, NEW piece \in D
  PROVE  /\ Repeat(piece, n) \in Seq(D) /\ Len(Repeat(piece, n)) = n
         /\ \A i \in 1 .. n : Repeat(piece, n)[i] = piece
         /\ n = 0 => Repeat(piece, n) = << >>
  BY DEF Repeat

LEMMA OutsideIs == ASSUME NEW D PROVE Outside \in ScanState(D)
  BY DEF Outside, ScanState

LEMMA SettledIs ==
  ASSUME NEW D, Backslash \in D, NEW s \in ScanState(D)
  PROVE  /\ Settled(s) \in ScanState(D)
         /\ Settled(s).done = s.done /\ Settled(s).begun = s.begun
         /\ Settled(s).text = s.text \o Repeat(Backslash, s.slashes) /\ Settled(s).slashes = 0
         /\ Settled(s).inQuotes = s.inQuotes /\ Settled(s).closed = FALSE
  <1>1. s.text \in Seq(D) /\ s.slashes \in Nat
    BY DEF ScanState
  <1>2. PICK t : t = s.text \o Repeat(Backslash, s.slashes)
    OBVIOUS
  <1>3. t \in Seq(D)
    BY <1>1, <1>2, RepeatIs, ConcatProperties
  <1>4. PICK r : r = [s EXCEPT !.text = t, !.slashes = 0, !.closed = FALSE]
    OBVIOUS
  <1>5. Settled(s) = r
    BY <1>2, <1>4 DEF Settled
  <1>6. r \in ScanState(D)
    BY <1>3, <1>4 DEF ScanState
  <1>7. /\ r.done = s.done /\ r.begun = s.begun /\ r.text = t /\ r.slashes = 0
        /\ r.inQuotes = s.inQuotes /\ r.closed = FALSE
    BY <1>4 DEF ScanState
  <1> QED
    BY <1>2, <1>5, <1>6, <1>7

LEMMA EmittedIs ==
  ASSUME NEW D, Backslash \in D, NEW s \in ScanState(D)
  PROVE  /\ Emitted(s) \in ScanState(D)
         /\ s.begun => /\ Emitted(s).done = Append(s.done, s.text \o Repeat(Backslash, s.slashes))
                       /\ Emitted(s).begun = FALSE /\ Emitted(s).text = << >>
                       /\ Emitted(s).slashes = 0
                       /\ Emitted(s).inQuotes = FALSE /\ Emitted(s).closed = FALSE
  <1> SUFFICES ASSUME s.begun
               PROVE  /\ Emitted(s) \in ScanState(D)
                      /\ Emitted(s).done = Append(s.done, s.text \o Repeat(Backslash, s.slashes))
                      /\ Emitted(s).begun = FALSE /\ Emitted(s).text = << >>
                      /\ Emitted(s).slashes = 0
                      /\ Emitted(s).inQuotes = FALSE /\ Emitted(s).closed = FALSE
    BY DEF Emitted
  <1>1. Settled(s).text = s.text \o Repeat(Backslash, s.slashes) /\ Settled(s).text \in Seq(D)
    BY SettledIs DEF ScanState
  <1>2. PICK d : d = Append(s.done, Settled(s).text)
    OBVIOUS
  <1>3. Emitted(s) = [Outside EXCEPT !.done = d]
    BY <1>2 DEF Emitted
  <1>4. d \in Seq(Seq(D))
    BY <1>1, <1>2 DEF ScanState
  <1>5. PICK r : r = [Outside EXCEPT !.done = d]
    OBVIOUS
  <1>6. /\ r.done = d /\ r.begun = FALSE /\ r.text = << >> /\ r.slashes = 0
        /\ r.inQuotes = FALSE /\ r.closed = FALSE
    BY <1>5 DEF Outside
  <1>7. r \in ScanState(D)
    BY <1>4, <1>5, OutsideIs DEF ScanState
  <1> QED
    BY <1>1, <1>2, <1>3, <1>5, <1>6, <1>7

\* What a quote does: part of the argument, or the end of quoting, or its start.
LEMMA AtQuoteIs ==
  ASSUME NEW D, Backslash \in D, Quote \in D, NEW s \in ScanState(D)
  PROVE  /\ AtQuote(s) \in ScanState(D)
         /\ AtQuote(s).done = s.done /\ AtQuote(s).begun = TRUE /\ AtQuote(s).slashes = 0
         /\ s.slashes = 1 => /\ AtQuote(s).text = Append(s.text, Quote)
                             /\ AtQuote(s).inQuotes = s.inQuotes /\ AtQuote(s).closed = FALSE
         /\ s.slashes = 0 /\ ~s.closed => /\ AtQuote(s).text = s.text
                                          /\ AtQuote(s).inQuotes = ~s.inQuotes
                                          /\ AtQuote(s).closed = s.inQuotes
  <1>1. s.text \in Seq(D) /\ s.slashes \in Nat /\ s.slashes \div 2 \in Nat
    BY DEF ScanState
  <1>2. PICK t : t = s.text \o Repeat(Backslash, s.slashes \div 2)
    OBVIOUS
  <1>3. t \in Seq(D)
    BY <1>1, <1>2, RepeatIs, ConcatProperties
  <1>4. s.slashes \in {0, 1} => t = s.text
    <2>1. ASSUME s.slashes \in {0, 1} PROVE t = s.text
      <3>1. s.slashes \div 2 = 0
        BY <2>1
      <3>2. Repeat(Backslash, s.slashes \div 2) = << >>
        BY <3>1, RepeatIs
      <3> QED
        BY <1>1, <1>2, <3>2, ConcatEmptySeq
    <2> QED
      BY <2>1
  <1>5. PICK h : h = [s EXCEPT !.text = t, !.slashes = 0, !.begun = TRUE, !.closed = FALSE]
    OBVIOUS
  <1>6. h \in ScanState(D)
    BY <1>3, <1>5 DEF ScanState
  <1>7. /\ h.done = s.done /\ h.begun = TRUE /\ h.text = t /\ h.slashes = 0
        /\ h.inQuotes = s.inQuotes /\ h.closed = FALSE
    BY <1>5 DEF ScanState
  <1>8. PICK u : u = Append(t, Quote)
    OBVIOUS
  <1>9. u \in Seq(D)
    BY <1>3, <1>8
  <1>10. AtQuote(s) = IF s.slashes % 2 = 1 THEN [h EXCEPT !.text = u]
                      ELSE IF s.closed THEN [h EXCEPT !.text = u, !.inQuotes = TRUE]
                      ELSE [h EXCEPT !.inQuotes = ~@, !.closed = s.inQuotes]
    BY <1>2, <1>5, <1>7, <1>8 DEF AtQuote
  <1>11. CASE s.slashes % 2 = 1
    <2>1. PICK r : r = [h EXCEPT !.text = u]
      OBVIOUS
    <2>2. /\ r \in ScanState(D) /\ r.done = h.done /\ r.begun = h.begun /\ r.text = u
          /\ r.slashes = h.slashes /\ r.inQuotes = h.inQuotes /\ r.closed = h.closed
      BY <1>6, <1>9, <2>1 DEF ScanState
    <2>3. AtQuote(s) = r /\ s.slashes # 0
      BY <1>1, <1>10, <1>11, <2>1
    <2> QED
      BY <1>4, <1>7, <1>8, <2>2, <2>3
  <1>12. CASE s.slashes % 2 # 1 /\ s.closed
    <2>1. PICK r : r = [h EXCEPT !.text = u, !.inQuotes = TRUE]
      OBVIOUS
    <2>2. r \in ScanState(D) /\ r.done = h.done /\ r.begun = h.begun /\ r.slashes = h.slashes
      BY <1>6, <1>9, <2>1 DEF ScanState
    <2>3. AtQuote(s) = r /\ s.slashes # 1
      BY <1>1, <1>10, <1>12, <2>1
    <2> QED
      BY <1>7, <1>12, <2>2, <2>3
  <1>13. CASE s.slashes % 2 # 1 /\ ~s.closed
    <2>1. PICK r, q : q = ~s.inQuotes /\ r = [h EXCEPT !.inQuotes = q, !.closed = s.inQuotes]
      OBVIOUS
    <2>2. q \in BOOLEAN /\ s.inQuotes \in BOOLEAN
      BY <2>1 DEF ScanState
    <2>3. /\ r \in ScanState(D) /\ r.done = h.done /\ r.begun = h.begun /\ r.text = h.text
          /\ r.slashes = h.slashes /\ r.inQuotes = q /\ r.closed = s.inQuotes
      BY <1>6, <2>1, <2>2 DEF ScanState
    <2>4. AtQuote(s) = r /\ s.slashes # 1
      BY <1>1, <1>7, <1>10, <1>13, <2>1
    <2> QED
      BY <1>4, <1>7, <2>1, <2>3, <2>4
  <1> QED
    BY <1>11, <1>12, <1>13

LEMMA ScanBackslash ==
  ASSUME NEW D, NEW s \in ScanState(D)
  PROVE  /\ Scan(s, Backslash) \in ScanState(D)
         /\ Scan(s, Backslash).done = s.done /\ Scan(s, Backslash).begun = TRUE
         /\ Scan(s, Backslash).text = s.text /\ Scan(s, Backslash).slashes = s.slashes + 1
         /\ Scan(s, Backslash).inQuotes = s.inQuotes /\ Scan(s, Backslash).closed = FALSE
  <1>1. PICK k : k = s.slashes + 1
    OBVIOUS
  <1>2. k \in Nat
    BY <1>1 DEF ScanState
  <1>3. PICK r : r = [s EXCEPT !.slashes = k, !.begun = TRUE, !.closed = FALSE]
    OBVIOUS
  <1>4. r \in ScanState(D)
    BY <1>2, <1>3 DEF ScanState
  <1>6. /\ r.done = s.done /\ r.begun = TRUE /\ r.text = s.text
        /\ r.slashes = k /\ r.inQuotes = s.inQuotes /\ r.closed = FALSE
    BY <1>3 DEF ScanState
  <1>5. Scan(s, Backslash) = r
    BY <1>1, <1>3 DEF Scan, Backslash, Quote, Blank
  <1> QED
    BY <1>1, <1>4, <1>5, <1>6

LEMMA ScanQuote == ASSUME NEW s PROVE Scan(s, Quote) = AtQuote(s)
  BY DEF Scan, Backslash, Quote, Blank

LEMMA ScanBlank == ASSUME NEW s, ~s.inQuotes PROVE Scan(s, Blank) = Emitted(s)
  BY DEF Scan, Backslash, Quote, Blank

LEMMA ScanOther ==
  ASSUME NEW D, Backslash \in D, NEW s \in ScanState(D), NEW piece \in D,
         piece # Backslash, piece # Quote, ~(piece = Blank /\ ~s.inQuotes)
  PROVE  /\ Scan(s, piece) \in ScanState(D)
         /\ Scan(s, piece).done = s.done /\ Scan(s, piece).begun = TRUE
         /\ \E t : /\ t = s.text \o Repeat(Backslash, s.slashes)
                  /\ Scan(s, piece).text = Append(t, piece)
         /\ Scan(s, piece).slashes = 0
         /\ Scan(s, piece).inQuotes = s.inQuotes /\ Scan(s, piece).closed = FALSE
  <1>1. PICK h : h = Settled(s)
    OBVIOUS
  <1>2. PICK t : t = Append(h.text, piece)
    OBVIOUS
  <1>3. /\ h \in ScanState(D) /\ h.done = s.done
        /\ h.text = s.text \o Repeat(Backslash, s.slashes) /\ h.slashes = 0
        /\ h.inQuotes = s.inQuotes /\ h.closed = FALSE
    BY <1>1, SettledIs
  <1>4. t \in Seq(D)
    <2>1. h.text \in Seq(D)
      BY <1>3 DEF ScanState
    <2> QED
      BY <1>2, <2>1
  <1>5. PICK r : r = [h EXCEPT !.text = t, !.begun = TRUE]
    OBVIOUS
  <1>6. /\ r \in ScanState(D) /\ r.done = h.done /\ r.begun = TRUE /\ r.text = t
        /\ r.slashes = h.slashes /\ r.inQuotes = h.inQuotes /\ r.closed = h.closed
    BY <1>3, <1>4, <1>5 DEF ScanState
  <1>7. Scan(s, piece) = r
    BY <1>1, <1>2, <1>5 DEF Scan
  <1> QED
    BY <1>2, <1>3, <1>6, <1>7

LEMMA ScanIs ==
  ASSUME NEW D, Backslash \in D, Quote \in D, NEW s \in ScanState(D), NEW piece \in D
  PROVE  Scan(s, piece) \in ScanState(D)
  <1>1. CASE piece = Backslash
    BY <1>1, ScanBackslash
  <1>2. CASE piece = Quote
    <2>1. Scan(s, Quote) = AtQuote(s)
      BY ScanQuote
    <2>2. AtQuote(s) \in ScanState(D)
      BY AtQuoteIs
    <2> QED
      BY <1>2, <2>1, <2>2
  <1>3. CASE piece = Blank /\ ~s.inQuotes
    BY <1>3, ScanBlank, EmittedIs
  <1>4. CASE piece # Backslash /\ piece # Quote /\ ~(piece = Blank /\ ~s.inQuotes)
    BY <1>4, ScanOther
  <1> QED
    BY <1>1, <1>2, <1>3, <1>4

LEMMA ScansIs ==
  ASSUME NEW D, Backslash \in D, Quote \in D, NEW text \in Seq(D)
  PROVE  /\ Scans(text) \in [0 .. Len(text) -> ScanState(D)]
         /\ Scans(text)[0] = Outside
         /\ \A i \in 1 .. Len(text) : Scans(text)[i] = Scan(Scans(text)[i - 1], text[i])
  <1> DEFINE n == Len(text)
             Value(f, i) == IF i = 0 THEN Outside ELSE Scan(f[i - 1], text[i])
             Equation(f) == f = [i \in 0 .. n |-> Value(f, i)]
             step == [i \in 1 .. n |-> [s \in ScanState(D) |-> Scan(s, text[i])]]
             g == CHOOSE f : Equation(f)
  <1>1. n \in Nat /\ \A i \in 1 .. n : text[i] \in D
    OBVIOUS
  <1>2. \A i \in 1 .. n : \A s \in ScanState(D) : Scan(s, text[i]) \in ScanState(D)
    BY <1>1, ScanIs
  <1>3. /\ IsLoop(step, n, ScanState(D))
        /\ \A i \in 1 .. n : \A s \in ScanState(D) : step[i][s] = Scan(s, text[i])
    BY <1>2 DEF IsLoop
  <1> HIDE DEF step, n
  <1>4. PICK f : ValuesOfLoop(f, step, n, ScanState(D), Outside)
    BY <1>1, <1>3, LoopExists, OutsideIs
  <1>5. /\ f \in [0 .. n -> ScanState(D)] /\ f[0] = Outside
        /\ \A i \in 1 .. n : f[i] = step[i][f[i - 1]]
    BY <1>4 DEF ValuesOfLoop
  <1>6. \A i \in 0 .. n : f[i] = Value(f, i)
    <2>1. ASSUME NEW i \in 1 .. n PROVE f[i] = Value(f, i)
      <3>1. f[i - 1] \in ScanState(D) /\ i # 0
        BY <1>1, <1>5
      <3> QED
        BY <1>3, <1>5, <3>1
    <2>2. f[0] = Value(f, 0)
      BY <1>5
    <2> HIDE DEF Value
    <2> QED
      BY <1>1, <2>1, <2>2
  <1>7. Equation(f)
    <2> HIDE DEF Value
    <2> QED
      BY <1>5, <1>6
  <1>8. Equation(g)
    <2> HIDE DEF Equation
    <2> QED
      BY <1>7
  <1>9. Scans(text) = g
    BY DEF Scans, n
  <1> HIDE DEF g
  <1>10. \A i \in 0 .. n : g[i] = Value(g, i)
    <2> HIDE DEF Value
    <2> QED
      BY <1>8
  <1>11. g[0] = Outside /\ \A i \in 1 .. n : g[i] = Scan(g[i - 1], text[i])
    <2>1. 0 \in 0 .. n /\ \A i \in 1 .. n : i \in 0 .. n /\ i # 0
      BY <1>1
    <2> QED
      BY <1>10, <2>1
  <1>12. \A i \in 0 .. n : g[i] \in ScanState(D)
    <2> DEFINE S == {i \in 0 .. n : g[i] \in ScanState(D)}
    <2>1. 0 \in S
      BY <1>1, <1>11, OutsideIs
    <2>2. ASSUME NEW i \in 0 .. n, i \in S, i < n PROVE i + 1 \in S
      <3>1. i + 1 \in 1 .. n /\ i + 1 \in 0 .. n /\ (i + 1) - 1 = i
        BY <1>1, <2>2
      <3>2. g[i + 1] = Scan(g[i], text[i + 1])
        BY <1>11, <3>1
      <3> QED
        BY <1>2, <2>2, <3>1, <3>2
    <2> HIDE DEF S
    <2>3. \A i \in 0 .. n : i \in S
      BY <1>1, <2>1, <2>2, BoundedInduction
    <2> QED
      BY <2>3 DEF S
  <1>13. g \in [0 .. n -> ScanState(D)]
    <2> HIDE DEF Value
    <2> QED
      BY <1>8, <1>12
  <1> QED
    BY <1>9, <1>11, <1>13 DEF n
\* A text with a piece more: the state after it.
ScannedTo(text) == Scans(text)[Len(text)]

LEMMA ScannedToIs ==
  ASSUME NEW D, Backslash \in D, Quote \in D, NEW text \in Seq(D)
  PROVE  ScannedTo(text) \in ScanState(D) /\ (text = << >> => ScannedTo(text) = Outside)
  BY ScansIs DEF ScannedTo

LEMMA ScannedToNext ==
  ASSUME NEW D, Backslash \in D, Quote \in D, NEW text \in Seq(D), NEW piece \in D
  PROVE  ScannedTo(Append(text, piece)) = Scan(ScannedTo(text), piece)
  <1>1. PICK n, longer : n = Len(text) /\ longer = Append(text, piece)
    OBVIOUS
  <1>2. /\ n \in Nat /\ longer \in Seq(D) /\ Len(longer) = n + 1 /\ longer[n + 1] = piece
        /\ \A i \in 1 .. n : longer[i] = text[i]
    BY <1>1
  <1>3. PICK f : f = Scans(text)
    OBVIOUS
  <1>4. PICK g : g = Scans(longer)
    OBVIOUS
  <1>5. f[0] = Outside /\ \A i \in 1 .. n : f[i] = Scan(f[i - 1], text[i])
    BY <1>1, <1>3, ScansIs
  <1>6. g[0] = Outside /\ \A i \in 1 .. n + 1 : g[i] = Scan(g[i - 1], longer[i])
    BY <1>2, <1>4, ScansIs
  <1> DEFINE S == {i \in 0 .. n : g[i] = f[i]}
  <1>7. 0 \in S
    BY <1>2, <1>5, <1>6
  <1>8. ASSUME NEW i \in 0 .. n, i \in S, i < n PROVE i + 1 \in S
    <2>1. i + 1 \in 1 .. n /\ i + 1 \in 1 .. n + 1 /\ i + 1 \in 0 .. n /\ (i + 1) - 1 = i
      BY <1>2, <1>8
    <2>2. g[i + 1] = Scan(g[i], longer[i + 1]) /\ f[i + 1] = Scan(f[i], text[i + 1])
      BY <1>5, <1>6, <2>1
    <2> QED
      BY <1>2, <1>8, <2>1, <2>2
  <1>9. \A i \in 0 .. n : i \in S
    <2> HIDE DEF S
    <2> QED
      BY <1>2, <1>7, <1>8, BoundedInduction
  <1>10. g[n] = f[n]
    BY <1>2, <1>9
  <1>11. n + 1 \in 1 .. n + 1 /\ (n + 1) - 1 = n
    BY <1>2
  <1>12. g[n + 1] = Scan(g[n], piece)
    BY <1>2, <1>6, <1>11
  <1> QED
    BY <1>1, <1>2, <1>3, <1>4, <1>10, <1>12 DEF ScannedTo

\* A joined text, as it grows line by line from nothing.
LEMMA FlattenGrows ==
  ASSUME NEW D, NEW lines \in Seq(Seq(D))
  PROVE  \E g \in [0 .. Len(lines) -> Seq(D)] :
           /\ g[0] = << >>
           /\ \A i \in 1 .. Len(lines) : g[i] = g[i - 1] \o lines[i]
           /\ FlattenSeq(lines) = g[Len(lines)]
  <1>1. PICK n : n = Len(lines)
    OBVIOUS
  <1>2. n \in Nat /\ \A i \in 1 .. n : lines[i] \in Seq(D)
    BY <1>1
  <1>3. CASE lines = << >>
    <2>1. n = 0 /\ FlattenSeq(lines) = << >>
      BY <1>1, <1>3 DEF FlattenSeq
    <2> DEFINE g == [i \in 0 .. 0 |-> << >>]
    <2>2. g \in [0 .. 0 -> Seq(D)] /\ g[0] = << >>
      OBVIOUS
    <2>3. \A i \in 1 .. 0 : g[i] = g[i - 1] \o lines[i]
      OBVIOUS
    <2> HIDE DEF g
    <2> QED
      BY <1>1, <2>1, <2>2, <2>3
  <1>4. CASE lines # << >>
    <2>1. PICK f \in [1 .. n -> Seq(D)] :
            /\ f[1] = lines[1]
            /\ \A i \in 2 .. n : f[i] = f[i - 1] \o lines[i]
            /\ FlattenSeq(lines) = f[n]
      BY <1>1, <1>4, FlattenIs
    <2> DEFINE g == [i \in 0 .. n |-> IF i = 0 THEN << >> ELSE f[i]]
    <2>2. n \in 1 .. n /\ n # 0 /\ 0 \in 0 .. n /\ 1 \in 1 .. n
      BY <1>1, <1>2, <1>4
    <2>3. g[0] = << >> /\ \A i \in 1 .. n : g[i] = f[i]
      BY <1>2, <2>2
    <2>4. g \in [0 .. n -> Seq(D)]
      BY <1>2, <2>1
    <2> HIDE DEF g
    <2>5. ASSUME NEW i \in 1 .. n PROVE g[i] = g[i - 1] \o lines[i]
      <3>1. CASE i = 1
        <4>1. i - 1 = 0 /\ lines[1] \in Seq(D)
          BY <1>2, <2>2, <3>1
        <4>2. << >> \o lines[1] = lines[1]
          BY <4>1, ConcatEmptySeq
        <4> QED
          BY <2>1, <2>3, <3>1, <4>1, <4>2
      <3>2. CASE i # 1
        <4>1. i \in 2 .. n /\ i - 1 \in 1 .. n
          BY <1>2, <3>2
        <4> QED
          BY <2>1, <2>3, <4>1
      <3> QED
        BY <3>1, <3>2
    <2> QED
      BY <1>1, <2>1, <2>2, <2>3, <2>4, <2>5
  <1> QED
    BY <1>3, <1>4

\* An argument in quotes, taken apart after a blank or at the beginning.
Between(s, done) ==
  /\ s.done = done /\ s.begun = FALSE /\ s.text = << >> /\ s.slashes = 0
  /\ s.inQuotes = FALSE /\ s.closed = FALSE

LEMMA AtTheStart == Between(ScannedTo(<< >>), << >>)
  <1> DEFINE D == {Backslash, Quote}
  <1>1. << >> \in Seq(D) /\ Backslash \in D /\ Quote \in D
    OBVIOUS
  <1>2. ScannedTo(<< >>) = Outside
    BY <1>1, ScannedToIs
  <1> QED
    BY <1>2 DEF Between, Outside

\* The state behind the closing quote of the argument.
Closed(s, done, argument) ==
  /\ s.done = done /\ s.begun = TRUE /\ s.text = argument /\ s.slashes = 0
  /\ s.inQuotes = FALSE /\ s.closed = TRUE

\* The state between the quotes, behind k pieces of the argument, the last m of
\* them backslashes that are not yet known to stand for themselves.
Within(s, done, argument, k, m) ==
  /\ s.done = done /\ s.begun = TRUE /\ s.inQuotes = TRUE /\ s.closed = FALSE
  /\ s.slashes = m /\ m \in 0 .. k
  /\ s.text = SubSeq(argument, 1, k - m)
  /\ \A i \in k - m + 1 .. k : argument[i] = Backslash

LEMMA WithinSettled ==
  ASSUME NEW D, NEW argument \in Seq(D), NEW k \in 0 .. Len(argument), NEW m \in 0 .. k,
         \A i \in k - m + 1 .. k : argument[i] = Backslash
  PROVE  SubSeq(argument, 1, k - m) \o Repeat(Backslash, m) = SubSeq(argument, 1, k)
  <1>1. PICK n, a, b, c : /\ n = Len(argument)
                          /\ a = SubSeq(argument, 1, k - m)
                          /\ b = Repeat(Backslash, m)
                          /\ c = SubSeq(argument, 1, k)
    OBVIOUS
  <1>2. n \in Nat /\ k - m \in 0 .. n /\ k \in 0 .. n /\ m \in Nat /\ k \in Nat /\ k - m \in Nat
    BY <1>1
  <1>3. /\ a \in Seq(D) /\ Len(a) = k - m
        /\ \A i \in 1 .. k - m : a[i] = argument[i]
    BY <1>1, <1>2
  <1>4. /\ c \in Seq(D) /\ Len(c) = k
        /\ \A i \in 1 .. k : c[i] = argument[i]
    BY <1>1, <1>2
  <1>5. b \in Seq({Backslash}) /\ Len(b) = m /\ \A i \in 1 .. m : b[i] = Backslash
    BY <1>1, <1>2, RepeatIs
  <1> DEFINE E == D \cup {Backslash}
  <1>6. a \in Seq(E) /\ b \in Seq(E) /\ c \in Seq(E)
    BY <1>3, <1>4, <1>5
  <1> HIDE DEF E
  <1>7. /\ a \o b \in Seq(E) /\ Len(a \o b) = (k - m) + m
        /\ \A i \in 1 .. (k - m) + m :
             (a \o b)[i] = IF i <= k - m THEN a[i] ELSE b[i - (k - m)]
    <2>1. /\ a \o b \in Seq(E) /\ Len(a \o b) = Len(a) + Len(b)
          /\ \A i \in 1 .. Len(a) + Len(b) :
               (a \o b)[i] = IF i <= Len(a) THEN a[i] ELSE b[i - Len(a)]
      BY <1>6, ConcatProperties
    <2>2. Len(a) = k - m /\ Len(b) = m
      BY <1>3, <1>5
    <2> QED
      BY <2>1, <2>2
  <1>8. (k - m) + m = k
    BY <1>2
  <1>9. PICK d : d = a \o b
    OBVIOUS
  <1>10. ASSUME NEW i \in 1 .. k PROVE d[i] = c[i]
    <2>1. CASE i <= k - m
      <3>1. i \in 1 .. k - m
        BY <1>2, <2>1
      <3> QED
        BY <1>3, <1>4, <1>7, <1>8, <1>9, <2>1, <3>1
    <2>2. CASE ~(i <= k - m)
      <3>1. i \in k - m + 1 .. k /\ i - (k - m) \in 1 .. m
        BY <1>2, <2>2
      <3>2. d[i] = b[i - (k - m)] /\ b[i - (k - m)] = Backslash
        BY <1>5, <1>7, <1>8, <1>9, <2>2, <3>1
      <3> QED
        BY <1>4, <3>1, <3>2
    <2> QED
      BY <2>1, <2>2
  <1>11. d = c
    BY <1>4, <1>6, <1>7, <1>8, <1>9, <1>10, SeqEqual
  <1> QED
    BY <1>1, <1>9, <1>11

\* One piece of the argument, escaped, keeps the scan within the quotes.
AsWritten(piece) == IF piece = Quote THEN <<Backslash, Quote>> ELSE <<piece>>

LEMMA WithinStep ==
  ASSUME NEW D, Backslash \in D, Quote \in D,
         NEW argument \in Seq(D), ~Fragile(argument), NEW done,
         NEW k \in 0 .. Len(argument), k < Len(argument), NEW m,
         NEW before \in Seq(D), Within(ScannedTo(before), done, argument, k, m)
  PROVE  \E next : Within(ScannedTo(before \o AsWritten(argument[k + 1])), done, argument, k + 1,
                          next)
  <1>1. PICK n, p, s : n = Len(argument) /\ p = argument[k + 1] /\ s = ScannedTo(before)
    OBVIOUS
  <1>2. /\ n \in Nat /\ k \in 0 .. n /\ k + 1 \in 1 .. n /\ k \in Nat /\ p \in D
        /\ \A i \in 1 .. n : argument[i] \in D
    BY <1>1
  <1>3. s \in ScanState(D) /\ Within(s, done, argument, k, m)
    BY <1>1, ScannedToIs
  <1>4. /\ s.done = done /\ s.begun = TRUE /\ s.inQuotes = TRUE /\ s.closed = FALSE
        /\ s.slashes = m /\ m \in 0 .. k /\ m \in Nat
        /\ s.text = SubSeq(argument, 1, k - m) /\ s.text \in Seq(D)
        /\ \A i \in k - m + 1 .. k : argument[i] = Backslash
    BY <1>2, <1>3 DEF Within, ScanState
  <1>5. SubSeq(argument, 1, k - m) \o Repeat(Backslash, m) = SubSeq(argument, 1, k)
    BY <1>1, <1>2, <1>4, WithinSettled
  <1>6. SubSeq(argument, 1, k + 1) = Append(SubSeq(argument, 1, k), p)
    BY <1>1, <1>2
  <1>7. \A q \in D : before \o <<q>> = Append(before, q) /\ Append(before, q) \in Seq(D)
    OBVIOUS
  <1>8. CASE p = Backslash
    <2>1. PICK r : r = Scan(s, Backslash)
      OBVIOUS
    <2>2. /\ r.done = done /\ r.begun = TRUE /\ r.inQuotes = TRUE /\ r.closed = FALSE
          /\ r.slashes = m + 1 /\ r.text = SubSeq(argument, 1, k - m)
      BY <1>3, <1>4, <2>1, ScanBackslash
    <2>3. m + 1 \in 0 .. k + 1 /\ (k + 1) - (m + 1) = k - m
      BY <1>2, <1>4
    <2>4. ASSUME NEW i \in k - m + 1 .. k + 1 PROVE argument[i] = Backslash
      <3>1. CASE i = k + 1
        BY <1>1, <1>8, <3>1
      <3>2. CASE i # k + 1
        <4>1. i \in k - m + 1 .. k
          BY <1>2, <1>4, <3>2
        <4> QED
          BY <1>4, <4>1
      <3> QED
        BY <3>1, <3>2
    <2>5. Within(r, done, argument, k + 1, m + 1)
      <3>1. \A i \in (k + 1) - (m + 1) + 1 .. k + 1 : argument[i] = Backslash
        BY <2>3, <2>4
      <3> QED
        BY <2>2, <2>3, <3>1 DEF Within
    <2>6. AsWritten(p) = <<Backslash>> /\ Backslash # Quote
      BY <1>8 DEF AsWritten, Backslash, Quote
    <2>7. ScannedTo(before \o AsWritten(p)) = r
      BY <1>1, <1>7, <2>1, <2>6, ScannedToNext
    <2> QED
      BY <1>1, <2>5, <2>7
  <1>9. CASE p = Quote
    <2>1. m = 0
      <3>1. ASSUME m # 0 PROVE FALSE
        <4>1. k \in k - m + 1 .. k /\ k \in 1 .. n /\ k # n
          BY <1>2, <1>4, <3>1
        <4>2. argument[k] = Backslash /\ argument[k + 1] = Quote /\ k \in DOMAIN argument
          BY <1>1, <1>4, <1>9, <4>1
        <4> QED
          BY <4>2 DEF Fragile
      <3> QED
        BY <3>1
    <2>2. PICK h : h = Scan(s, Backslash)
      OBVIOUS
    <2>3. /\ h \in ScanState(D) /\ h.done = done /\ h.begun = TRUE
          /\ h.text = SubSeq(argument, 1, k) /\ h.slashes = 1
          /\ h.inQuotes = TRUE /\ h.closed = FALSE
      <3>1. k - m = k /\ m + 1 = 1
        BY <1>2, <2>1
      <3> QED
        BY <1>3, <1>4, <2>2, <3>1, ScanBackslash
    <2>4. PICK r : r = Scan(h, Quote)
      OBVIOUS
    <2>5. /\ r.done = done /\ r.begun = TRUE /\ r.slashes = 0
          /\ r.text = Append(SubSeq(argument, 1, k), Quote)
          /\ r.inQuotes = TRUE /\ r.closed = FALSE
      <3>1. r = AtQuote(h)
        BY <2>4, ScanQuote
      <3> QED
        BY <2>3, <3>1, AtQuoteIs
    <2>6. Within(r, done, argument, k + 1, 0)
      <3>1. (k + 1) - 0 = k + 1 /\ 0 \in 0 .. k + 1 /\ (k + 1) - 0 + 1 .. k + 1 = {}
        BY <1>2
      <3> QED
        BY <1>6, <1>9, <2>5, <3>1 DEF Within
    <2>7. AsWritten(p) = <<Backslash, Quote>>
      BY <1>9 DEF AsWritten
    <2>8. before \o <<Backslash, Quote>> = Append(Append(before, Backslash), Quote)
      OBVIOUS
    <2>9. ScannedTo(Append(before, Backslash)) = h /\ Append(before, Backslash) \in Seq(D)
      BY <1>1, <2>2, ScannedToNext
    <2>10. ScannedTo(before \o AsWritten(p)) = r
      BY <2>4, <2>7, <2>8, <2>9, ScannedToNext
    <2> QED
      BY <1>1, <2>6, <2>10
  <1>10. CASE p # Backslash /\ p # Quote
    <2>1. PICK r : r = Scan(s, p)
      OBVIOUS
    <2>2. /\ r.done = done /\ r.begun = TRUE /\ r.slashes = 0
          /\ r.inQuotes = TRUE /\ r.closed = FALSE
          /\ \E t : t = s.text \o Repeat(Backslash, s.slashes) /\ r.text = Append(t, p)
      <3>1. ~(p = Blank /\ ~s.inQuotes)
        BY <1>4
      <3>2. p \in D /\ s \in ScanState(D) /\ p # Backslash /\ p # Quote
        BY <1>2, <1>3, <1>10
      <3>3. /\ r.done = s.done /\ r.begun = TRUE /\ r.slashes = 0
            /\ \E t : t = s.text \o Repeat(Backslash, s.slashes) /\ r.text = Append(t, p)
            /\ r.inQuotes = s.inQuotes /\ r.closed = FALSE
        BY <2>1, <3>1, <3>2, ScanOther
      <3> QED
        BY <1>4, <3>3
    <2>3. r.text = SubSeq(argument, 1, k + 1)
      <3>1. PICK t : t = s.text \o Repeat(Backslash, s.slashes) /\ r.text = Append(t, p)
        BY <2>2
      <3>2. t = SubSeq(argument, 1, k)
        BY <1>4, <1>5, <3>1
      <3> QED
        BY <1>6, <3>1, <3>2
    <2>4. Within(r, done, argument, k + 1, 0)
      <3>1. (k + 1) - 0 = k + 1 /\ 0 \in 0 .. k + 1 /\ (k + 1) - 0 + 1 .. k + 1 = {}
        BY <1>2
      <3> QED
        BY <2>2, <2>3, <3>1 DEF Within
    <2>5. AsWritten(p) = <<p>>
      BY <1>10 DEF AsWritten
    <2>6. ScannedTo(before \o AsWritten(p)) = r
      BY <1>1, <1>2, <1>7, <2>1, <2>5, ScannedToNext
    <2> QED
      BY <1>1, <2>4, <2>6
  <1> QED
    BY <1>8, <1>9, <1>10

LEMMA FlattenType ==
  ASSUME NEW D, NEW lines \in Seq(Seq(D))
  PROVE  FlattenSeq(lines) \in Seq(D)
  <1>1. PICK g \in [0 .. Len(lines) -> Seq(D)] : FlattenSeq(lines) = g[Len(lines)]
    <2>1. \E g \in [0 .. Len(lines) -> Seq(D)] : FlattenSeq(lines) = g[Len(lines)]
      BY FlattenGrows
    <2> QED
      BY <2>1
  <1>2. Len(lines) \in 0 .. Len(lines)
    OBVIOUS
  <1> QED
    BY <1>1, <1>2

LEMMA AsWrittenType ==
  ASSUME NEW D, Backslash \in D, NEW argument \in Seq(D), NEW blocks,
         blocks = [i \in DOMAIN argument |-> AsWritten(argument[i])]
  PROVE  /\ Len(blocks) = Len(argument) /\ blocks \in Seq(Seq(D))
         /\ \A i \in 1 .. Len(argument) : /\ blocks[i] = AsWritten(argument[i])
                                         /\ blocks[i] \in Seq(D)
  <1>1. PICK n : n = Len(argument)
    OBVIOUS
  <1>2. \A q \in D : <<q>> \in Seq(D) /\ <<Backslash, q>> \in Seq(D)
    OBVIOUS
  <1>3. \A q \in D : AsWritten(q) \in Seq(D)
    BY <1>2 DEF AsWritten
  <1>4. DOMAIN argument = 1 .. n /\ n \in Nat /\ \A i \in 1 .. n : argument[i] \in D
    BY <1>1
  <1>5. blocks = [i \in 1 .. n |-> AsWritten(argument[i])]
    BY <1>4
  <1>6. \A i \in 1 .. n : AsWritten(argument[i]) \in Seq(D)
    BY <1>3, <1>4
  <1> QED
    BY <1>1, <1>4, <1>5, <1>6

LEMMA QuotedType ==
  ASSUME NEW D, Backslash \in D, Quote \in D, NEW argument \in Seq(D)
  PROVE  Quoted(argument) \in Seq(D)
  <1>1. PICK blocks : blocks = [i \in DOMAIN argument |-> AsWritten(argument[i])]
    OBVIOUS
  <1>2. blocks \in Seq(Seq(D))
    BY <1>1, AsWrittenType
  <1>3. PICK flat : flat = FlattenSeq(blocks)
    OBVIOUS
  <1>4. flat \in Seq(D)
    BY <1>2, <1>3, FlattenType
  <1>5. Quoted(argument) = <<Quote>> \o flat \o <<Quote>>
    BY <1>1, <1>3 DEF Quoted, AsWritten
  <1>6. <<Quote>> \in Seq(D)
    OBVIOUS
  <1>7. \A u, v \in Seq(D) : u \o v \in Seq(D)
    BY ConcatProperties
  <1>8. <<Quote>> \o flat \in Seq(D)
    BY <1>4, <1>6, <1>7, Zenon
  <1>9. (<<Quote>> \o flat) \o <<Quote>> \in Seq(D)
    BY <1>6, <1>7, <1>8, Zenon
  <1> QED
    BY <1>5, <1>9

\* An argument in quotes, taken apart, is the argument.
LEMMA QuotedIs ==
  ASSUME NEW D, Backslash \in D, Quote \in D,
         NEW argument \in Seq(D), ~Fragile(argument), NEW done,
         NEW before \in Seq(D), Between(ScannedTo(before), done)
  PROVE  Closed(ScannedTo(before \o Quoted(argument)), done, argument)
  <1>1. PICK n, blocks : /\ n = Len(argument)
                         /\ blocks = [i \in DOMAIN argument |-> AsWritten(argument[i])]
    OBVIOUS
  <1>2. /\ n \in Nat /\ Len(blocks) = n /\ blocks \in Seq(Seq(D))
        /\ \A i \in 1 .. n : blocks[i] = AsWritten(argument[i]) /\ blocks[i] \in Seq(D)
    <2>1. n \in Nat
      BY <1>1
    <2>2. /\ Len(blocks) = Len(argument) /\ blocks \in Seq(Seq(D))
          /\ \A i \in 1 .. Len(argument) : blocks[i] = AsWritten(argument[i]) /\ blocks[i] \in Seq(D)
      <3>1. blocks = [i \in DOMAIN argument |-> AsWritten(argument[i])]
        BY <1>1
      <3> QED
        BY <3>1, AsWrittenType
    <2> QED
      BY <1>1, <2>1, <2>2
  <1>3. PICK g \in [0 .. n -> Seq(D)] :
          /\ g[0] = << >>
          /\ \A i \in 1 .. n : g[i] = g[i - 1] \o blocks[i]
          /\ FlattenSeq(blocks) = g[n]
    <2>1. PICK g \in [0 .. Len(blocks) -> Seq(D)] :
            /\ g[0] = << >>
            /\ \A i \in 1 .. Len(blocks) : g[i] = g[i - 1] \o blocks[i]
            /\ FlattenSeq(blocks) = g[Len(blocks)]
      BY <1>2, FlattenGrows
    <2> QED
      BY <1>2, <2>1
  <1>4. PICK open : open = Append(before, Quote)
    OBVIOUS
  <1>5. open \in Seq(D) /\ open = before \o <<Quote>> /\ <<Quote>> \in Seq(D)
    BY <1>4
  <1>6. Within(ScannedTo(open), done, argument, 0, 0)
    <2>1. PICK s, r : s = ScannedTo(before) /\ r = Scan(s, Quote)
      OBVIOUS
    <2>2. s \in ScanState(D) /\ Between(s, done)
      BY <2>1, ScannedToIs
    <2>3. r = AtQuote(s)
      BY <2>1, ScanQuote
    <2>4. /\ r.done = done /\ r.begun = TRUE /\ r.slashes = 0 /\ r.text = << >>
          /\ r.inQuotes = TRUE /\ r.closed = FALSE
      BY <2>2, <2>3, AtQuoteIs DEF Between
    <2>5. /\ SubSeq(argument, 1, 0 - 0) = << >> /\ 0 \in 0 .. 0
          /\ \A i \in 0 - 0 + 1 .. 0 : argument[i] = Backslash
      OBVIOUS
    <2>6. ScannedTo(open) = r
      BY <1>4, <2>1, ScannedToNext
    <2> QED
      BY <2>4, <2>5, <2>6 DEF Within
  <1> DEFINE S == {k \in 0 .. n : \E m : Within(ScannedTo(open \o g[k]), done, argument, k, m)}
  <1>7. 0 \in S
    <2>1. open \o << >> = open
      BY <1>5, ConcatEmptySeq
    <2>2. 0 \in 0 .. n
      BY <1>2
    <2> QED
      BY <1>3, <1>6, <2>1, <2>2
  <1>8. ASSUME NEW k \in 0 .. n, k \in S, k < n PROVE k + 1 \in S
    <2>1. PICK m : Within(ScannedTo(open \o g[k]), done, argument, k, m)
      BY <1>8
    <2>2. k + 1 \in 1 .. n /\ k + 1 \in 0 .. n /\ (k + 1) - 1 = k /\ g[k] \in Seq(D)
      BY <1>2, <1>3, <1>8
    <2>3. g[k + 1] = g[k] \o AsWritten(argument[k + 1]) /\ AsWritten(argument[k + 1]) \in Seq(D)
      BY <1>2, <1>3, <2>2
    <2>4. PICK b : b = open \o g[k]
      OBVIOUS
    <2>5. b \in Seq(D)
      BY <1>5, <2>2, <2>4, ConcatProperties
    <2>6. \E next : Within(ScannedTo(b \o AsWritten(argument[k + 1])), done, argument, k + 1, next)
      BY <1>1, <1>8, <2>1, <2>4, <2>5, WithinStep
    <2>7. open \o g[k + 1] = b \o AsWritten(argument[k + 1])
      <3>1. \A x, y, z \in Seq(D) : (x \o y) \o z = x \o (y \o z)
        BY ConcatAssociative, SMTT(30)
      <3>2. (open \o g[k]) \o AsWritten(argument[k + 1]) = open \o (g[k] \o AsWritten(argument[k + 1]))
        BY <1>5, <2>2, <2>3, <3>1, ZenonT(30)
      <3> QED
        BY <2>3, <2>4, <3>2
    <2> QED
      BY <2>2, <2>6, <2>7
  <1>9. n \in S
    <2> HIDE DEF S
    <2>1. \A k \in 0 .. n : k \in S
      BY <1>2, <1>7, <1>8, BoundedInduction
    <2> QED
      BY <1>2, <2>1
  <1>10. PICK m : Within(ScannedTo(open \o g[n]), done, argument, n, m)
    BY <1>9
  <1>11. m = 0
    <2>1. ASSUME m # 0 PROVE FALSE
      <3>1. m \in 0 .. n /\ \A i \in n - m + 1 .. n : argument[i] = Backslash
        BY <1>10 DEF Within
      <3>2. n \in n - m + 1 .. n /\ n \in 1 .. n
        BY <1>2, <2>1, <3>1
      <3>3. argument[n] = Backslash /\ n \in DOMAIN argument /\ n = Len(argument)
        BY <1>1, <3>1, <3>2
      <3> QED
        BY <3>3 DEF Fragile
    <2> QED
      BY <2>1
  <1>12. PICK inner : inner = open \o g[n]
    OBVIOUS
  <1>13. n \in 0 .. n /\ g[n] \in Seq(D) /\ inner \in Seq(D)
    <2>1. n \in 0 .. n /\ g[n] \in Seq(D)
      BY <1>2, <1>3
    <2> QED
      BY <1>5, <1>12, <2>1, ConcatProperties
  <1>14. Closed(ScannedTo(Append(inner, Quote)), done, argument)
    <2>1. PICK s, r : s = ScannedTo(inner) /\ r = Scan(s, Quote)
      OBVIOUS
    <2>2. s \in ScanState(D) /\ Within(s, done, argument, n, 0)
      BY <1>10, <1>11, <1>12, <1>13, <2>1, ScannedToIs
    <2>3. SubSeq(argument, 1, n - 0) = argument
      BY <1>1, <1>2
    <2>4. /\ s.done = done /\ s.slashes = 0 /\ s.text = argument
          /\ s.inQuotes = TRUE /\ s.closed = FALSE
      BY <2>2, <2>3 DEF Within
    <2>5. r = AtQuote(s)
      BY <2>1, ScanQuote
    <2>6. /\ r.done = done /\ r.begun = TRUE /\ r.slashes = 0 /\ r.text = argument
          /\ r.inQuotes = FALSE /\ r.closed = TRUE
      BY <2>2, <2>4, <2>5, AtQuoteIs
    <2>7. ScannedTo(Append(inner, Quote)) = r
      BY <1>13, <2>1, ScannedToNext
    <2> QED
      BY <2>6, <2>7 DEF Closed
  <1>15. Quoted(argument) = <<Quote>> \o g[n] \o <<Quote>>
    BY <1>1, <1>3 DEF Quoted, AsWritten
  <1>16. before \o Quoted(argument) = Append(inner, Quote)
    <2>1. PICK q, x : q = <<Quote>> /\ x = g[n]
      OBVIOUS
    <2>2. q \in Seq(D) /\ x \in Seq(D)
      BY <1>5, <1>13, <2>1
    <2>3. \A u, v, w \in Seq(D) : (u \o v) \o w = u \o (v \o w) /\ u \o v \in Seq(D)
      BY ConcatAssociative, ConcatProperties, SMTT(30)
    <2>4. before \o ((q \o x) \o q) = ((before \o q) \o x) \o q
      <3>1. q \o x \in Seq(D) /\ before \o q \in Seq(D)
        BY <2>2, <2>3, Zenon
      <3>2. before \o ((q \o x) \o q) = (before \o (q \o x)) \o q
        BY <2>2, <2>3, <3>1, Zenon
      <3>3. before \o (q \o x) = (before \o q) \o x
        BY <2>2, <2>3, Zenon
      <3> QED
        BY <3>2, <3>3
    <2>5. inner = (before \o q) \o x
      BY <1>5, <1>12, <2>1
    <2>6. inner \o q = Append(inner, Quote)
      BY <1>13, <2>1
    <2> QED
      BY <1>15, <2>1, <2>4, <2>5, <2>6
  <1> QED
    BY <1>14, <1>16

\* What the text that is passed on consists of: an argument, or one behind a blank.
Block(arguments, i) ==
  IF i = 1 THEN Quoted(arguments[i]) ELSE <<Blank>> \o Quoted(arguments[i])

LEMMA BlocksType ==
  ASSUME NEW D, Backslash \in D, Quote \in D, Blank \in D, NEW arguments \in Seq(Seq(D)),
         NEW blocks, blocks = [i \in DOMAIN arguments |-> Block(arguments, i)]
  PROVE  /\ blocks \in Seq(Seq(D)) /\ Len(blocks) = Len(arguments)
         /\ \A i \in 1 .. Len(arguments) : blocks[i] = Block(arguments, i)
         /\ Parameters(arguments) = FlattenSeq(blocks)
  <1>1. PICK n : n = Len(arguments)
    OBVIOUS
  <1>2. n \in Nat /\ DOMAIN arguments = 1 .. n /\ \A i \in 1 .. n : arguments[i] \in Seq(D)
    BY <1>1
  <1>3. \A i \in 1 .. n : Block(arguments, i) \in Seq(D)
    <2>1. <<Blank>> \in Seq(D) /\ \A i \in 1 .. n : Quoted(arguments[i]) \in Seq(D)
      BY <1>2, QuotedType
    <2>2. \A u, v \in Seq(D) : u \o v \in Seq(D)
      BY ConcatProperties
    <2>3. \A i \in 1 .. n : <<Blank>> \o Quoted(arguments[i]) \in Seq(D)
      BY <2>1, <2>2, Zenon
    <2> QED
      BY <2>1, <2>3 DEF Block
  <1>4. Parameters(arguments) = FlattenSeq(blocks)
    BY DEF Parameters, Block
  <1>5. blocks = [i \in 1 .. n |-> Block(arguments, i)]
    BY <1>2
  <1>6. blocks \in Seq(Seq(D)) /\ Len(blocks) = n
    BY <1>2, <1>3, <1>5
  <1>7. \A i \in 1 .. n : blocks[i] = Block(arguments, i)
    BY <1>5
  <1> QED
    BY <1>1, <1>4, <1>6, <1>7

\* What the elevated process finds is made of the same pieces.
LEMMA ArgumentsType ==
  ASSUME NEW D, Backslash \in D, Quote \in D, Blank \in D, NEW arguments \in Seq(Seq(D))
  PROVE  Arguments(Parameters(arguments)) \in Seq(Seq(D))
  <1>1. PICK blocks : blocks = [i \in DOMAIN arguments |-> Block(arguments, i)]
    OBVIOUS
  <1>2. blocks \in Seq(Seq(D)) /\ Parameters(arguments) = FlattenSeq(blocks)
    BY <1>1, BlocksType
  <1>3. PICK text : text = Parameters(arguments)
    OBVIOUS
  <1>4. text \in Seq(D)
    BY <1>2, <1>3, FlattenType
  <1>5. Emitted(ScannedTo(text)) \in ScanState(D)
    BY <1>4, ScannedToIs, EmittedIs
  <1>6. Arguments(text) = Emitted(ScannedTo(text)).done
    BY DEF Arguments, ScannedTo
  <1> QED
    BY <1>3, <1>5, <1>6 DEF ScanState

\* relaunchElevated(): the elevated process finds the arguments this one was
\* given, as many and each as it was, unless one of them is Fragile.
Undisturbed(arguments) == Arguments(Parameters(arguments)) = arguments

THEOREM QuotingExact ==
  ASSUME NEW D, Backslash \in D, Quote \in D, Blank \in D,
         NEW arguments \in Seq(Seq(D)), \A i \in DOMAIN arguments : ~Fragile(arguments[i])
  PROVE  Undisturbed(arguments)
  <1>1. PICK n, blocks : /\ n = Len(arguments)
                         /\ blocks = [i \in DOMAIN arguments |-> Block(arguments, i)]
    OBVIOUS
  <1>2. /\ n \in Nat /\ DOMAIN arguments = 1 .. n
        /\ \A i \in 1 .. n : arguments[i] \in Seq(D) /\ ~Fragile(arguments[i])
    <2>1. n \in Nat /\ DOMAIN arguments = 1 .. n /\ \A i \in 1 .. n : arguments[i] \in Seq(D)
      BY <1>1
    <2> QED
      BY <2>1
  <1>3. \A i \in 1 .. n : Quoted(arguments[i]) \in Seq(D)
    BY <1>2, QuotedType
  <1>4. /\ blocks \in Seq(Seq(D)) /\ Len(blocks) = n
        /\ \A i \in 1 .. n : blocks[i] = Block(arguments, i)
        /\ Parameters(arguments) = FlattenSeq(blocks)
    BY <1>1, BlocksType
  <1>5. PICK g \in [0 .. n -> Seq(D)] :
          /\ g[0] = << >>
          /\ \A i \in 1 .. n : g[i] = g[i - 1] \o blocks[i]
          /\ FlattenSeq(blocks) = g[n]
    <2>1. PICK g \in [0 .. Len(blocks) -> Seq(D)] :
            /\ g[0] = << >>
            /\ \A i \in 1 .. Len(blocks) : g[i] = g[i - 1] \o blocks[i]
            /\ FlattenSeq(blocks) = g[Len(blocks)]
      BY <1>4, FlattenGrows
    <2> QED
      BY <1>4, <2>1
  <1>6. Parameters(arguments) = g[n]
    BY <1>4, <1>5
  <1> DEFINE Done(k) == Closed(ScannedTo(g[k]), SubSeq(arguments, 1, k - 1), arguments[k])
             S == {k \in 0 .. n : k = 0 \/ Done(k)}
  <1>7. 0 \in S
    BY <1>2
  <1>8. ASSUME NEW k \in 0 .. n, k \in S, k < n PROVE k + 1 \in S
    <2>1. /\ k + 1 \in 1 .. n /\ k + 1 \in 0 .. n /\ (k + 1) - 1 = k /\ g[k] \in Seq(D)
          /\ k \in Nat /\ k + 1 # 0
      BY <1>2, <1>5, <1>8
    <2>2. PICK a, b : a = arguments[k + 1] /\ b = g[k]
      OBVIOUS
    <2>3. a \in Seq(D) /\ ~Fragile(a) /\ Quoted(a) \in Seq(D) /\ b \in Seq(D)
      BY <1>2, <1>3, <2>1, <2>2
    <2>4. g[k + 1] = b \o Block(arguments, k + 1)
      BY <1>4, <1>5, <2>1, <2>2
    <2>5. \E before \in Seq(D) : /\ Between(ScannedTo(before), SubSeq(arguments, 1, k))
                                 /\ g[k + 1] = before \o Quoted(a)
      <3>1. CASE k = 0
        <4>1. b = << >> /\ SubSeq(arguments, 1, k) = << >> /\ k + 1 = 1
          BY <1>5, <2>2, <3>1
        <4>2. Between(ScannedTo(b), SubSeq(arguments, 1, k))
          BY <4>1, AtTheStart
        <4>3. g[k + 1] = b \o Quoted(a)
          BY <2>2, <2>4, <4>1 DEF Block
        <4> QED
          BY <2>3, <4>2, <4>3
      <3>2. CASE k # 0
        <4>1. k \in 1 .. n /\ k + 1 # 1
          BY <2>1, <3>2
        <4>2. PICK s, r, before : /\ s = ScannedTo(b) /\ r = Scan(s, Blank)
                                 /\ before = Append(b, Blank)
          OBVIOUS
        <4>3. Closed(s, SubSeq(arguments, 1, k - 1), arguments[k])
          BY <1>8, <2>2, <3>2, <4>2
        <4>4. /\ s \in ScanState(D) /\ s.done = SubSeq(arguments, 1, k - 1) /\ s.begun = TRUE
              /\ s.text = arguments[k] /\ s.slashes = 0 /\ s.inQuotes = FALSE
          BY <2>3, <4>2, <4>3, ScannedToIs DEF Closed
        <4>5. r = Emitted(s)
          BY <4>2, <4>4, ScanBlank
        <4>6. s.text \o Repeat(Backslash, s.slashes) = arguments[k]
          <5>1. Repeat(Backslash, s.slashes) = << >>
            BY <4>4, RepeatIs
          <5> QED
            BY <1>2, <4>1, <4>4, <5>1, ConcatEmptySeq
        <4>7. SubSeq(arguments, 1, k) = Append(SubSeq(arguments, 1, k - 1), arguments[k])
          BY <1>1, <1>2, <4>1
        <4>8. Between(r, SubSeq(arguments, 1, k))
          <5>1. /\ r.done = Append(SubSeq(arguments, 1, k - 1), arguments[k])
                /\ r.begun = FALSE /\ r.text = << >> /\ r.slashes = 0
                /\ r.inQuotes = FALSE /\ r.closed = FALSE
            BY <4>4, <4>5, <4>6, EmittedIs
          <5> QED
            BY <4>7, <5>1 DEF Between
        <4>9. ScannedTo(before) = r /\ before \in Seq(D)
          BY <2>3, <4>2, ScannedToNext
        <4>10. g[k + 1] = before \o Quoted(a)
          <5>1. PICK q, t : q = Quoted(a) /\ t = <<Blank>>
            OBVIOUS
          <5>2. q \in Seq(D) /\ t \in Seq(D)
            BY <2>3, <5>1
          <5>3. g[k + 1] = b \o (t \o q)
            BY <2>2, <2>4, <4>1, <5>1 DEF Block
          <5>4. before = b \o t
            <6>1. Append(b, Blank) = b \o <<Blank>>
              BY <2>3
            <6> QED
              BY <4>2, <5>1, <6>1
          <5>5. \A u, v, w \in Seq(D) : (u \o v) \o w = u \o (v \o w)
            BY ConcatAssociative, SMTT(30)
          <5>6. (b \o t) \o q = b \o (t \o q)
            BY <2>3, <5>2, <5>5, Zenon
          <5> QED
            BY <5>1, <5>3, <5>4, <5>6
        <4> QED
          BY <4>8, <4>9, <4>10
      <3> QED
        BY <3>1, <3>2
    <2>6. PICK before \in Seq(D) : /\ Between(ScannedTo(before), SubSeq(arguments, 1, k))
                                   /\ g[k + 1] = before \o Quoted(a)
      BY <2>5
    <2>7. Closed(ScannedTo(before \o Quoted(a)), SubSeq(arguments, 1, k), a)
      BY <2>3, <2>6, QuotedIs
    <2>8. Done(k + 1)
      BY <2>1, <2>2, <2>6, <2>7
    <2> HIDE DEF Done
    <2> QED
      BY <2>1, <2>8
  <1>9. n \in S
    <2> HIDE DEF S
    <2>1. \A k \in 0 .. n : k \in S
      BY <1>2, <1>7, <1>8, BoundedInduction
    <2> QED
      BY <1>2, <2>1
  <1>10. PICK s : s = ScannedTo(g[n])
    OBVIOUS
  <1>11. Arguments(Parameters(arguments)) = Emitted(s).done
    BY <1>6, <1>10 DEF Arguments, ScannedTo
  <1>12. CASE n = 0
    <2>1. s = Outside
      BY <1>5, <1>10, <1>12, ScannedToIs
    <2>2. Emitted(s).done = << >>
      BY <2>1 DEF Emitted, Outside
    <2>3. arguments = << >>
      <3>1. Len(arguments) = 0
        BY <1>1, <1>12
      <3> QED
        BY <3>1
    <2> QED
      BY <1>11, <2>2, <2>3 DEF Undisturbed
  <1>13. CASE n # 0
    <2>1. n \in 1 .. n /\ g[n] \in Seq(D)
      BY <1>2, <1>5, <1>13
    <2>2. Closed(s, SubSeq(arguments, 1, n - 1), arguments[n])
      BY <1>9, <1>10, <1>13
    <2>3. /\ s \in ScanState(D) /\ s.done = SubSeq(arguments, 1, n - 1) /\ s.begun = TRUE
          /\ s.text = arguments[n] /\ s.slashes = 0
      BY <1>10, <2>1, <2>2, ScannedToIs DEF Closed
    <2>4. s.text \o Repeat(Backslash, s.slashes) = arguments[n]
      <3>1. Repeat(Backslash, s.slashes) = << >>
        BY <2>3, RepeatIs
      <3> QED
        BY <1>2, <2>1, <2>3, <3>1, ConcatEmptySeq
    <2>5. Emitted(s).done = Append(SubSeq(arguments, 1, n - 1), arguments[n])
      BY <2>3, <2>4, EmittedIs
    <2>6. arguments = Append(SubSeq(arguments, 1, n - 1), arguments[n])
      BY <1>1, <1>2, <2>1
    <2> QED
      BY <1>11, <2>5, <2>6 DEF Undisturbed
  <1> QED
    BY <1>12, <1>13

-------------------------------------------------------------------------------
(***************************************************************************)
(* JsonText: what escapeJsonString() writes is what a reader gets.         *)
(***************************************************************************)
\* What a std::wstring may hold, and the code points there are.
CodeUnit  == {u \in Nat : u < 65536}
CodePoint == {c \in Nat : c < 17 * 65536}

LEMMA ContinuationIs ==
  ASSUME NEW n \in Nat
  PROVE  /\ Continuation(n) \in Nat /\ Continuation(n) >= 128 /\ Continuation(n) <= 191
         /\ Shift(n) \in Nat
         /\ n = 64 * Shift(n) + (Continuation(n) - 128)
  BY DEF Continuation, Shift

\* The bytes of a code point are its UTF-8, unless it is a surrogate.
LEMMA AppendsUtf8 ==
  ASSUME NEW c \in CodePoint, ~isSurrogate(c)
  PROVE  appendUtf8(c) \in Seq(Nat) /\ Utf8Of(appendUtf8(c), c)
  <1>1. c \in Nat
    BY SMT DEF CodePoint
  <1> DEFINE s == Shift(c)
             r == Shift(s)
             q == Shift(r)
  <1>2. /\ s \in Nat /\ r \in Nat /\ q \in Nat
        /\ c = 64 * s + (Continuation(c) - 128)
        /\ s = 64 * r + (Continuation(s) - 128)
        /\ r = 64 * q + (Continuation(r) - 128)
        /\ Continuation(c) \in Nat /\ Continuation(c) >= 128 /\ Continuation(c) <= 191
        /\ Continuation(s) \in Nat /\ Continuation(s) >= 128 /\ Continuation(s) <= 191
        /\ Continuation(r) \in Nat /\ Continuation(r) >= 128 /\ Continuation(r) <= 191
    BY <1>1, ContinuationIs
  <1> HIDE DEF s, r, q
  <1> USE SMT
  <1>3. CASE c <= 127
    <2>1. appendUtf8(c) = <<c>>
      BY <1>1, <1>3 DEF appendUtf8
    <2> QED
      BY <1>1, <1>3, <2>1 DEF Utf8Of, Follows
  <1>4. CASE ~(c <= 127) /\ c <= 2047
    <2>1. appendUtf8(c) = <<192 + s, Continuation(c)>>
      BY <1>1, <1>4 DEF appendUtf8, s
    <2> QED
      BY <1>1, <1>2, <1>4, <2>1 DEF Utf8Of, Follows
  <1>5. CASE ~(c <= 2047) /\ c <= 65535
    <2>1. appendUtf8(c) = <<224 + r, Continuation(s), Continuation(c)>>
      BY <1>1, <1>5 DEF appendUtf8, r, s
    <2>2. c = (r * 64 + (Continuation(s) - 128)) * 64 + (Continuation(c) - 128)
      BY <1>1, <1>2, <1>5
    <2> QED
      BY <1>1, <1>2, <1>5, <2>1, <2>2 DEF Utf8Of, Follows
  <1>6. CASE ~(c <= 65535)
    <2>1. appendUtf8(c) = <<240 + q, Continuation(r), Continuation(s), Continuation(c)>>
      BY <1>1, <1>6 DEF appendUtf8, q, r, s
    <2> QED
      BY <1>1, <1>2, <1>6, <2>1 DEF Utf8Of, Follows, CodePoint
  <1> QED
    BY <1>1, <1>3, <1>4, <1>5, <1>6

\* A pair of surrogates stands for a code point past 65535.
LEMMA CombinedIs ==
  ASSUME NEW high \in Nat, NEW low \in Nat, isHighSurrogate(high), isLowSurrogate(low)
  PROVE  Combined(high, low) \in Nat /\ Combined(high, low) > 65535 /\ Combined(high, low) < 17 * 65536
  BY SMT DEF Combined, isHighSurrogate, isLowSurrogate

\* What is written for a character is a representation of it.
LEMMA EscapedIs ==
  ASSUME NEW text \in Seq(CodeUnit), NEW i \in 1 .. Len(text)
  PROVE  /\ Escaped(text, i) \in Seq(Nat)
         /\ JsonCharacter(Escaped(text, i), Character(text, i))
  <1> DEFINE unit == text[i]
             pair == isHighSurrogate(unit) /\ i < Len(text) /\ isLowSurrogate(text[i + 1])
  <1>1. unit \in CodeUnit /\ unit \in Nat
    <2>1. unit \in CodeUnit
      BY ElementOfSeq
    <2> HIDE DEF unit
    <2> QED
      BY <2>1, SMT DEF CodeUnit
  <1>2. pair <=> i \in Pairs(text)
    BY DEF Pairs
  <1>3. CASE unit \in DOMAIN ShortEscape
    <2>1. Escaped(text, i) = <<ReverseSolidus, ShortEscape[unit]>>
      BY <1>3 DEF Escaped
    <2>2. ShortEscape[unit] \in Nat /\ ReverseSolidus \in Nat
      BY <1>3 DEF ShortEscape, ReverseSolidus, QuotationMark
    <2>3. ~isSurrogate(unit)
      BY <1>3 DEF ShortEscape, ReverseSolidus, QuotationMark, isSurrogate, isHighSurrogate, isLowSurrogate
    <2>4. Character(text, i) = unit
      BY <1>2, <2>3 DEF Character, isSurrogate
    <2> QED
      BY <1>3, <2>1, <2>2, <2>4 DEF JsonCharacter
  <1>4. CASE unit \notin DOMAIN ShortEscape /\ unit <= 31
    <2>1. Escaped(text, i) = <<ReverseSolidus, 117, 48, 48, HexDigit(unit \div 16), HexDigit(unit % 16)>>
      BY <1>4 DEF Escaped
    <2>2. unit \div 16 \in Nat /\ unit % 16 \in Nat
      BY <1>1
    <2>3. HexDigit(unit \div 16) \in Nat /\ HexDigit(unit % 16) \in Nat
      BY <2>2 DEF HexDigit
    <2>4. Character(text, i) = unit
      BY <1>1, <1>2, <1>4 DEF Character, isSurrogate, isHighSurrogate, isLowSurrogate
    <2> QED
      BY <1>1, <1>4, <2>1, <2>3, <2>4 DEF JsonCharacter, ReverseSolidus
  <1>5. CASE unit \notin DOMAIN ShortEscape /\ ~(unit <= 31) /\ pair
    <2>1. Escaped(text, i) = appendUtf8(Combined(unit, text[i + 1]))
      BY <1>5 DEF Escaped
    <2>2. Character(text, i) = Combined(unit, text[i + 1])
      BY <1>2, <1>5 DEF Character
    <2> DEFINE c == Combined(unit, text[i + 1])
    <2>3. c \in Nat /\ c > 65535 /\ c < 17 * 65536
      <3>1. i < Len(text) /\ i + 1 \in 1 .. Len(text)
        BY <1>5
      <3>2. text[i + 1] \in Nat
        BY <3>1, ElementOfSeq, SMT DEF CodeUnit
      <3> QED
        BY <1>1, <1>5, <3>2, CombinedIs
    <2> HIDE DEF c
    <2>4. c \in CodePoint /\ ~isSurrogate(c)
      BY <2>3 DEF CodePoint, isSurrogate, isHighSurrogate, isLowSurrogate
    <2> QED
      BY <2>1, <2>2, <2>3, <2>4, AppendsUtf8 DEF c, JsonCharacter, ReverseSolidus, QuotationMark
  <1>6. CASE unit \notin DOMAIN ShortEscape /\ ~(unit <= 31) /\ ~pair /\ isSurrogate(unit)
    <2>1. Escaped(text, i) = appendUtf8(kReplacementCharacter)
      BY <1>6 DEF Escaped
    <2>2. Character(text, i) = kReplacementCharacter
      BY <1>2, <1>6 DEF Character
    <2>3. /\ kReplacementCharacter \in CodePoint /\ ~isSurrogate(kReplacementCharacter)
          /\ kReplacementCharacter > 31 /\ kReplacementCharacter \notin {QuotationMark, ReverseSolidus}
      BY DEF kReplacementCharacter, CodePoint, isSurrogate, isHighSurrogate, isLowSurrogate,
             QuotationMark, ReverseSolidus
    <2> QED
      BY <2>1, <2>2, <2>3, AppendsUtf8 DEF JsonCharacter
  <1>7. CASE unit \notin DOMAIN ShortEscape /\ ~(unit <= 31) /\ ~pair /\ ~isSurrogate(unit)
    <2>1. Escaped(text, i) = appendUtf8(unit) /\ Character(text, i) = unit
      BY <1>2, <1>7 DEF Escaped, Character
    <2>2. unit \in CodePoint /\ unit > 31 /\ unit \notin {QuotationMark, ReverseSolidus}
      BY <1>1, <1>7 DEF CodeUnit, CodePoint, ShortEscape
    <2> QED
      BY <1>7, <2>1, <2>2, AppendsUtf8 DEF JsonCharacter
  <1> QED
    BY <1>3, <1>4, <1>5, <1>6, <1>7

\* The three forms of a character in a JSON string.
Short(bytes) == /\ Len(bytes) = 2 /\ bytes[1] = ReverseSolidus
                /\ bytes[2] \in {34, 92, 98, 116, 110, 102, 114}
Long(bytes)  == Len(bytes) = 6 /\ bytes[1] = ReverseSolidus /\ bytes[2] = 117
Plain(bytes, point) == Utf8Of(bytes, point) /\ point # ReverseSolidus

LEMMA ThreeForms ==
  ASSUME NEW point, NEW b \in Seq(Nat), JsonCharacter(b, point)
  PROVE  Short(b) \/ Long(b) \/ Plain(b, point)
  <1> USE SMT DEF Short, Long, Plain
  <1>1. CASE /\ Len(b) = 2 /\ b[1] = ReverseSolidus /\ point \in DOMAIN ShortEscape
             /\ b[2] = ShortEscape[point]
    BY <1>1 DEF ShortEscape, QuotationMark, ReverseSolidus
  <1>2. CASE Len(b) = 6 /\ <<b[1], b[2], b[3], b[4]>> = <<ReverseSolidus, 117, 48, 48>>
    BY <1>2
  <1> QED
    BY <1>1, <1>2 DEF JsonCharacter

LEMMA EscapeStarts ==
  ASSUME NEW b \in Seq(Nat), Short(b) \/ Long(b)
  PROVE  /\ Len(b) >= 2 /\ b[1] = ReverseSolidus
         /\ b[2] \in Nat /\ b[2] < 128
         /\ b[2] = 117 => Len(b) = 6
         /\ b[2] # 117 => Len(b) = 2
  <1>1. b[2] \in Nat
    BY ElementOfSeq, SMT DEF Short, Long
  <1>2. CASE Short(b)
    <2>1. b[2] < 128 /\ b[2] # 117
      BY <1>2, SMT DEF Short
    <2>2. Len(b) = 2 /\ Len(b) >= 2 /\ b[1] = ReverseSolidus
      BY <1>2 DEF Short
    <2> QED
      BY <1>1, <2>1, <2>2, Zenon
  <1>3. CASE Long(b)
    BY <1>1, <1>3, SMT DEF Long
  <1> QED
    BY <1>2, <1>3

SizeOf(point) == IF point <= 127 THEN 1 ELSE IF point <= 2047 THEN 2 ELSE IF point <= 65535 THEN 3 ELSE 4

LEMMA PlainStarts ==
  ASSUME NEW point, NEW b \in Seq(Nat), Plain(b, point)
  PROVE  /\ point \in Nat /\ Len(b) = SizeOf(point) /\ Len(b) >= 1
         /\ Len(b) = 1 => b[1] # ReverseSolidus
         /\ Len(b) # 1 => b[2] \in Nat /\ b[2] >= 128
  <1> USE SMT DEF Plain, SizeOf
  <1>1. \A k \in 1 .. Len(b) : b[k] \in Nat
    BY ElementOfSeq
  <1>2. CASE Len(b) = 1 /\ point <= 127 /\ point = b[1]
    BY <1>1, <1>2
  <1>3. CASE Len(b) = 2 /\ point > 127 /\ point <= 2047 /\ point = (b[1] - 192) * 64 + (b[2] - 128)
    <2>1. /\ b[1] \in Nat /\ b[2] \in Nat /\ b[2] >= 128 /\ b[2] <= 191
      BY <1>1, <1>3 DEF Utf8Of, Follows
    <2> QED
      BY <1>3, <2>1
  <1>4. CASE /\ Len(b) = 3 /\ point > 2047 /\ point <= 65535
             /\ point = ((b[1] - 224) * 64 + (b[2] - 128)) * 64 + (b[3] - 128)
    <2>1. /\ b[1] \in Nat /\ b[2] \in Nat /\ b[2] >= 128 /\ b[2] <= 191
          /\ b[3] \in Nat /\ b[3] >= 128 /\ b[3] <= 191
      BY <1>1, <1>4 DEF Utf8Of, Follows
    <2> QED
      BY <1>4, <2>1
  <1>5. CASE /\ Len(b) = 4 /\ point > 65535
             /\ point = (((b[1] - 240) * 64 + (b[2] - 128)) * 64 + (b[3] - 128)) * 64 + (b[4] - 128)
    <2>1. /\ b[1] \in Nat /\ b[2] \in Nat /\ b[2] >= 128 /\ b[2] <= 191
          /\ b[3] \in Nat /\ b[3] >= 128 /\ b[3] <= 191
          /\ b[4] \in Nat /\ b[4] >= 128 /\ b[4] <= 191
      BY <1>1, <1>5 DEF Utf8Of, Follows
    <2>2. point \in Int
      BY <1>5, <2>1
    <2>3. point \in Nat /\ SizeOf(point) = 4
      BY <1>5, <2>2
    <2> QED
      BY <1>5, <2>1, <2>3
  <1> QED
    BY <1>2, <1>3, <1>4, <1>5 DEF Utf8Of

\* Of two representations of a character neither goes on where the other ends.
LEMMA OneLength ==
  ASSUME NEW point, NEW s \in Seq(Nat), NEW t \in Seq(Nat),
         JsonCharacter(s, point), JsonCharacter(t, point),
         \A k \in 1 .. Len(s) : k <= Len(t) => s[k] = t[k]
  PROVE  Len(s) = Len(t)
  <1> DEFINE Escape(b) == Short(b) \/ Long(b)
  <1>1. /\ Escape(s) \/ Plain(s, point)
        /\ Escape(t) \/ Plain(t, point)
    BY ThreeForms
  <1>2. Len(s) >= 1 /\ Len(t) >= 1 /\ Len(s) \in Nat /\ Len(t) \in Nat
    BY <1>1, EscapeStarts, PlainStarts, LenProperties, SMT
  <1>3. s[1] = t[1] /\ (Len(s) >= 2 /\ Len(t) >= 2 => s[2] = t[2])
    BY <1>2, SMT
  <1>4. CASE Plain(s, point) /\ Plain(t, point)
    BY <1>4, PlainStarts
  <1>5. ASSUME NEW a \in Seq(Nat), NEW b \in Seq(Nat), Plain(a, point), Escape(b),
               a[1] = b[1], Len(a) >= 2 => a[2] = b[2]
        PROVE  FALSE
    <2>1. b[1] = ReverseSolidus /\ b[2] \in Nat /\ b[2] < 128
      BY <1>5, EscapeStarts
    <2>2. Len(a) \in Nat /\ Len(a) >= 1 /\ Len(a) # 1
      BY <1>5, <2>1, PlainStarts, LenProperties
    <2>3. a[2] \in Nat /\ a[2] >= 128
      BY <1>5, <2>2, PlainStarts
    <2>4. \A n \in Nat : n >= 1 /\ n # 1 => n >= 2
      BY SMT
    <2>5. Len(a) >= 2
      BY <2>2, <2>4, Zenon
    <2> QED
      BY <1>5, <2>1, <2>3, <2>5, SMT
  <1>6. CASE Plain(s, point) /\ Escape(t)
    <2>1. Len(t) >= 2
      BY <1>6, EscapeStarts
    <2> QED
      BY <1>3, <1>5, <1>6, <2>1
  <1>7. CASE Escape(s) /\ Plain(t, point)
    <2>1. Len(s) >= 2
      BY <1>7, EscapeStarts
    <2> QED
      BY <1>3, <1>5, <1>7, <2>1
  <1>8. CASE Escape(s) /\ Escape(t)
    <2>1. Len(s) >= 2 /\ Len(t) >= 2
      BY <1>8, EscapeStarts
    <2>2. s[2] = t[2]
      BY <1>3, <2>1
    <2>3. CASE s[2] = 117
      BY <1>8, <2>2, <2>3, EscapeStarts DEF Escape
    <2>4. CASE s[2] # 117
      BY <1>8, <2>2, <2>4, EscapeStarts DEF Escape
    <2> QED
      BY <2>3, <2>4
  <1> QED
    BY <1>1, <1>4, <1>6, <1>7, <1>8

\* Where the loop of escapeJsonString() goes on after i.
NextAt(text, i) == IF i \in Pairs(text) THEN i + 2 ELSE i + 1

LEMMA NextAtIs ==
  ASSUME NEW text \in Seq(CodeUnit), NEW i \in 1 .. Len(text)
  PROVE  NextAt(text, i) \in i + 1 .. i + 2 /\ NextAt(text, i) \in 1 .. Len(text) + 1
  <1>1. i \in Pairs(text) => i \in 1 .. Len(text) - 1
    BY DEF Pairs
  <1> QED
    BY <1>1 DEF NextAt

\* The second half of a pair begins none.
LEMMA PairsAreApart ==
  ASSUME NEW text \in Seq(CodeUnit), NEW i \in Pairs(text)
  PROVE  i + 1 \notin Pairs(text) /\ i + 1 \in 1 .. Len(text)
  <1>1. i \in 1 .. Len(text) - 1 /\ isLowSurrogate(text[i + 1])
    BY DEF Pairs
  <1>2. i + 1 \in 1 .. Len(text)
    BY <1>1
  <1>3. text[i + 1] \in Nat
    BY <1>2, ElementOfSeq, SMT DEF CodeUnit
  <1>4. ~isHighSurrogate(text[i + 1])
    BY <1>1, <1>3, SMT DEF isHighSurrogate, isLowSurrogate
  <1> QED
    BY <1>2, <1>4 DEF Pairs

\* The loop: what it writes from each place on.
LEMMA WrittenFrom ==
  ASSUME NEW text \in Seq(CodeUnit)
  PROVE  \E from \in [1 .. Len(text) + 2 -> Seq(Nat)] :
           /\ escapeJsonString(text) = from[1]
           /\ from[Len(text) + 1] = << >>
           /\ \A i \in 1 .. Len(text) : from[i] = Escaped(text, i) \o from[NextAt(text, i)]
  <1> DEFINE n == Len(text)
             Value(f, i) == IF i > n THEN << >>
                            ELSE LET next == IF /\ isHighSurrogate(text[i]) /\ i < n
                                                /\ isLowSurrogate(text[i + 1])
                                             THEN i + 2 ELSE i + 1
                                 IN  Escaped(text, i) \o f[next]
             Equation(f) == f = [i \in 1 .. n + 2 |-> Value(f, i)]
             step == [i \in 1 .. n |-> [p \in Seq(Nat) \X Seq(Nat) |->
                        Escaped(text, i) \o (IF i \in Pairs(text) THEN p[2] ELSE p[1])]]
             g == CHOOSE f : Equation(f)
  <1>1. n \in Nat
    BY LenProperties
  <1>2. \A i \in 1 .. n : Escaped(text, i) \in Seq(Nat)
    BY EscapedIs
  <1>3. ASSUME NEW i \in 1 .. n, NEW p \in Seq(Nat) \X Seq(Nat)
        PROVE  Escaped(text, i) \o (IF i \in Pairs(text) THEN p[2] ELSE p[1]) \in Seq(Nat)
    BY <1>2, ConcatProperties
  <1>4. IsStride(step, n, Seq(Nat))
    BY <1>3 DEF IsStride
  <1>5. \A i \in 1 .. n : \A p \in Seq(Nat) \X Seq(Nat) :
          step[i][p] = Escaped(text, i) \o (IF i \in Pairs(text) THEN p[2] ELSE p[1])
    OBVIOUS
  <1>6. << >> \in Seq(Nat)
    OBVIOUS
  <1>7. \A i \in 1 .. n :
          (isHighSurrogate(text[i]) /\ i < n /\ isLowSurrogate(text[i + 1])) <=> i \in Pairs(text)
    BY <1>1 DEF Pairs
  <1>8. \A f, i : i \in 1 .. n => Value(f, i) = Escaped(text, i) \o f[NextAt(text, i)]
    <2> SUFFICES ASSUME NEW f, NEW i \in 1 .. n
                 PROVE  Value(f, i) = Escaped(text, i) \o f[NextAt(text, i)]
      OBVIOUS
    <2>1. ~(i > n)
      BY <1>1
    <2>2. (isHighSurrogate(text[i]) /\ i < n /\ isLowSurrogate(text[i + 1])) <=> i \in Pairs(text)
      BY <1>7
    <2> QED
      BY <2>1, <2>2, Zenon DEF NextAt
  <1>9. \A f : \A i \in {n + 1, n + 2} : Value(f, i) = << >>
    BY <1>1
  <1> HIDE DEF step, Value, n
  <1>10. PICK f : ValuesOfStride(f, step, n, Seq(Nat), << >>)
    BY <1>1, <1>4, <1>6, StrideExists
  <1>11. /\ f \in [1 .. n + 2 -> Seq(Nat)]
         /\ f[n + 1] = << >> /\ f[n + 2] = << >>
         /\ \A i \in 1 .. n : f[i] = step[i][<<f[i + 1], f[i + 2]>>]
    BY <1>10 DEF ValuesOfStride
  <1>12. ASSUME NEW i \in 1 .. n PROVE f[i] = Value(f, i)
    <2>1. i + 1 \in 1 .. n + 2 /\ i + 2 \in 1 .. n + 2
      BY <1>1
    <2>2. <<f[i + 1], f[i + 2]>> \in Seq(Nat) \X Seq(Nat)
      BY <1>11, <2>1
    <2>3. f[i] = Escaped(text, i) \o (IF i \in Pairs(text) THEN f[i + 2] ELSE f[i + 1])
      BY <1>5, <1>11, <2>2
    <2> QED
      BY <1>8, <2>3 DEF NextAt
  <1>13. Equation(f)
    <2>1. \A i \in 1 .. n + 2 : f[i] = Value(f, i)
      <3>1. \A i \in 1 .. n + 2 : i \in 1 .. n \/ i = n + 1 \/ i = n + 2
        BY <1>1
      <3> QED
        BY <1>9, <1>11, <1>12, <3>1
    <2> QED
      BY <1>11, <2>1
  <1>14. Equation(g)
    <2> HIDE DEF Equation
    <2> QED
      BY <1>13
  <1>15. escapeJsonString(text) = g[1]
    BY DEF escapeJsonString, n, Value
  <1> HIDE DEF g
  <1>16. \A i \in 1 .. n + 2 : g[i] = Value(g, i)
    BY <1>14
  <1>17. g[n + 1] = << >> /\ g[n + 2] = << >>
    <2>1. n + 1 \in 1 .. n + 2 /\ n + 2 \in 1 .. n + 2
      BY <1>1
    <2> QED
      BY <1>9, <1>16, <2>1
  <1>18. \A i \in 1 .. n : g[i] = Escaped(text, i) \o g[NextAt(text, i)]
    <2>1. \A i \in 1 .. n : i \in 1 .. n + 2
      BY <1>1
    <2> QED
      BY <1>8, <1>16, <2>1
  <1>19. \A i \in 1 .. n + 2 : g[i] \in Seq(Nat)
    <2> DEFINE S == {k \in 0 .. n + 1 : \A i \in (n + 2) - k .. n + 2 : g[i] \in Seq(Nat)}
    <2>1. 0 \in S
      <3>1. 0 \in 0 .. n + 1 /\ \A i \in (n + 2) - 0 .. n + 2 : i = n + 2
        BY <1>1
      <3> QED
        BY <1>6, <1>17, <3>1
    <2>2. ASSUME NEW k \in 0 .. n + 1, k \in S, k < n + 1 PROVE k + 1 \in S
      <3>1. PICK i : i = (n + 2) - (k + 1)
        OBVIOUS
      <3>2. /\ i \in 1 .. n + 1 /\ k + 1 \in 0 .. n + 1
            /\ \A j \in i .. n + 2 : j = i \/ j \in (n + 2) - k .. n + 2
        BY <1>1, <2>2, <3>1
      <3>3. CASE i = n + 1
        <4>1. g[i] \in Seq(Nat)
          BY <1>6, <1>17, <3>3
        <4> QED
          BY <2>2, <3>1, <3>2, <4>1
      <3>4. CASE i # n + 1
        <4>1. i \in 1 .. n
          BY <1>1, <3>2, <3>4
        <4>2. NextAt(text, i) \in (n + 2) - k .. n + 2
          <5>1. NextAt(text, i) \in i + 1 .. i + 2
            BY <4>1, NextAtIs DEF n
          <5> QED
            BY <1>1, <2>2, <3>1, <4>1, <5>1
        <4>3. g[i] \in Seq(Nat)
          <5>1. g[NextAt(text, i)] \in Seq(Nat)
            BY <2>2, <4>2
          <5>2. g[i] = Escaped(text, i) \o g[NextAt(text, i)] /\ Escaped(text, i) \in Seq(Nat)
            BY <1>2, <1>18, <4>1
          <5> QED
            BY <5>1, <5>2, ConcatProperties
        <4> QED
          BY <2>2, <3>1, <3>2, <4>3
      <3> QED
        BY <3>3, <3>4
    <2>3. n + 1 \in S
      <3>1. n + 1 \in Nat
        BY <1>1
      <3> HIDE DEF S
      <3>2. \A k \in 0 .. n + 1 : k \in S
        BY <2>1, <2>2, <3>1, BoundedInduction
      <3> QED
        BY <3>1, <3>2
    <2> QED
      BY <1>1, <2>3
  <1>20. g \in [1 .. n + 2 -> Seq(Nat)]
    BY <1>14, <1>19
  <1> QED
    BY <1>15, <1>17, <1>18, <1>20 DEF n

\* The ends that the reader finds, and that the question is where the last are.
LEMMA EndsAre ==
  ASSUME NEW text \in Seq(CodeUnit), NEW bytes \in Seq(Nat), bytes = escapeJsonString(text)
  PROVE  \E ends :
           /\ ends[0] = {0}
           /\ \A i \in 1 .. Len(text) :
                ends[i] = IF i - 1 \in Pairs(text) THEN ends[i - 1]
                          ELSE Further(bytes, ends[i - 1], Character(text, i))
           /\ ends[Len(text)] = {Len(bytes)} => EscapesReadBack(text)
  <1> DEFINE n == Len(text)
             Value(f, i) == IF i = 0 THEN {0}
                            ELSE IF i - 1 \in Pairs(text) THEN f[i - 1]
                            ELSE Further(bytes, f[i - 1], Character(text, i))
             Equation(f) == f = [i \in 0 .. n |-> Value(f, i)]
             D == SUBSET Nat
             step == [i \in 1 .. n |-> [e \in D |->
                        IF i - 1 \in Pairs(text) THEN e ELSE Further(bytes, e, Character(text, i))]]
             g == CHOOSE f : Equation(f)
  <1>1. n \in Nat
    BY LenProperties
  <1>2. \A e, point : Further(bytes, e, point) \in D
    BY LenProperties DEF Further
  <1>3. IsLoop(step, n, D)
    BY <1>2 DEF IsLoop
  <1>4. \A i \in 1 .. n : \A e \in D :
          step[i][e] = IF i - 1 \in Pairs(text) THEN e ELSE Further(bytes, e, Character(text, i))
    OBVIOUS
  <1>5. {0} \in D
    OBVIOUS
  <1> HIDE DEF step, n, D
  <1>6. PICK f : ValuesOfLoop(f, step, n, D, {0})
    BY <1>1, <1>3, <1>5, LoopExists
  <1>7. /\ f \in [0 .. n -> D] /\ f[0] = {0}
        /\ \A i \in 1 .. n : f[i] = step[i][f[i - 1]]
    BY <1>6 DEF ValuesOfLoop
  <1>8. \A i \in 0 .. n : f[i] = Value(f, i)
    <2>1. ASSUME NEW i \in 1 .. n PROVE f[i] = Value(f, i)
      <3>1. i - 1 \in 0 .. n /\ i # 0
        BY <1>1
      <3>2. f[i - 1] \in D
        BY <1>7, <3>1
      <3> QED
        BY <1>4, <1>7, <3>1, <3>2
    <2>2. f[0] = Value(f, 0)
      BY <1>7
    <2>3. \A i \in 0 .. n : i = 0 \/ i \in 1 .. n
      BY <1>1
    <2> HIDE DEF Value
    <2> QED
      BY <2>1, <2>2, <2>3
  <1>9. Equation(f)
    <2> HIDE DEF Value
    <2> QED
      BY <1>7, <1>8
  <1>10. Equation(g)
    <2> HIDE DEF Equation
    <2> QED
      BY <1>9
  <1>11. EscapesReadBack(text) <=> g[n] = {Len(bytes)}
    BY DEF EscapesReadBack, n
  <1> HIDE DEF g
  <1>12. \A i \in 0 .. n : g[i] = Value(g, i)
    <2> HIDE DEF Value
    <2> QED
      BY <1>10
  <1>13. 0 \in 0 .. n /\ \A i \in 1 .. n : i \in 0 .. n /\ i # 0
    BY <1>1
  <1>14. g[0] = {0}
    BY <1>12, <1>13
  <1>15. \A i \in 1 .. n :
           g[i] = IF i - 1 \in Pairs(text) THEN g[i - 1]
                  ELSE Further(bytes, g[i - 1], Character(text, i))
    BY <1>12, <1>13
  <1> QED
    BY <1>11, <1>14, <1>15 DEF n

LEMMA CutOut ==
  ASSUME NEW D, NEW s \in Seq(D), NEW o \in Nat, NEW j \in o + 1 .. Len(s)
  PROVE  /\ SubSeq(s, o + 1, j) \in Seq(D) /\ Len(SubSeq(s, o + 1, j)) = j - o
         /\ \A i \in 1 .. j - o : SubSeq(s, o + 1, j)[i] = s[o + i]
  <1>1. Len(s) \in Nat /\ o + 1 \in Int /\ j \in Int /\ o + 1 <= j
    BY LenProperties
  <1>2. \A i \in o + 1 .. j : s[i] \in D
    BY <1>1, ElementOfSeq
  <1>3. /\ SubSeq(s, o + 1, j) \in Seq(D)
        /\ Len(SubSeq(s, o + 1, j)) = IF o + 1 <= j THEN j - (o + 1) + 1 ELSE 0
        /\ \A i \in 1 .. j - (o + 1) + 1 : SubSeq(s, o + 1, j)[i] = s[o + 1 + i - 1]
    BY <1>1, <1>2, SubSeqProperties
  <1>4. j - (o + 1) + 1 = j - o /\ \A i \in 1 .. j - o : o + 1 + i - 1 = o + i
    BY <1>1
  <1> QED
    BY <1>1, <1>3, <1>4

\* After a character's bytes the reader is behind them, and nowhere else.
LEMMA OneWayOn ==
  ASSUME NEW before \in Seq(Nat), NEW escaped \in Seq(Nat), NEW after \in Seq(Nat), NEW point,
         JsonCharacter(escaped, point)
  PROVE  Further(before \o (escaped \o after), {Len(before)}, point) = {Len(before) + Len(escaped)}
  <1>1. PICK bytes : bytes = before \o (escaped \o after)
    OBVIOUS
  <1>2. PICK o, k : o = Len(before) /\ k = Len(escaped)
    OBVIOUS
  <1>3. PICK tail : tail = escaped \o after
    OBVIOUS
  <1>4. /\ bytes \in Seq(Nat) /\ o \in Nat /\ k \in Nat /\ Len(bytes) \in Nat /\ DOMAIN bytes = 1 .. Len(bytes)
        /\ Len(bytes) >= o + k
        /\ \A i \in 1 .. k : bytes[o + i] = escaped[i]
    <2>1. /\ tail \in Seq(Nat) /\ Len(tail) = k + Len(after) /\ Len(after) \in Nat
          /\ \A i \in 1 .. k : tail[i] = escaped[i]
      BY <1>2, <1>3, ConcatProperties, LenProperties
    <2>2. bytes \in Seq(Nat) /\ Len(bytes) = o + Len(tail) /\ o \in Nat /\ k \in Nat
      BY <1>1, <1>2, <1>3, <2>1, ConcatProperties, LenProperties
    <2>3. \A i \in 1 .. k : bytes[o + i] = tail[i]
      <3> SUFFICES ASSUME NEW i \in 1 .. k PROVE bytes[o + i] = tail[i]
        OBVIOUS
      <3>1. o + i \in Len(before) + 1 .. Len(before) + Len(tail) /\ (o + i) - Len(before) = i
        BY <1>2, <2>1, <2>2
      <3> QED
        BY <1>1, <1>3, <2>1, <3>1, ConcatProperties, SMTT(30)
    <2>4. \A i \in 1 .. k : bytes[o + i] = escaped[i]
      <3>1. \A i \in 1 .. k : i \in 1 .. Len(tail)
        BY <2>1, <2>2
      <3> QED
        BY <2>1, <2>3
    <2>5. Len(bytes) >= o + k /\ Len(bytes) \in Nat
      BY <2>1, <2>2
    <2> QED
      BY <2>2, <2>4, <2>5, LenProperties
  <1>5. k >= 1
    <2>1. Len(escaped) >= 1
      <3>1. CASE Short(escaped) \/ Long(escaped)
        <4>1. Len(escaped) >= 2 /\ Len(escaped) \in Nat
          BY <3>1, EscapeStarts, LenProperties
        <4> QED
          BY <4>1
      <3>2. CASE Plain(escaped, point)
        BY <3>2, PlainStarts
      <3> QED
        BY <3>1, <3>2, ThreeForms
    <2> QED
      BY <1>2, <2>1
  <1>6. ASSUME NEW j \in o + 1 .. Len(bytes)
        PROVE  /\ SubSeq(bytes, o + 1, j) \in Seq(Nat)
               /\ Len(SubSeq(bytes, o + 1, j)) = j - o
               /\ \A i \in 1 .. j - o : SubSeq(bytes, o + 1, j)[i] = bytes[o + i]
    <2>1. PICK D : D = Nat
      OBVIOUS
    <2>2. bytes \in Seq(D) /\ o \in Nat
      BY <1>4, <2>1
    <2>3. /\ SubSeq(bytes, o + 1, j) \in Seq(D)
          /\ Len(SubSeq(bytes, o + 1, j)) = j - o
          /\ \A i \in 1 .. j - o : SubSeq(bytes, o + 1, j)[i] = bytes[o + i]
      BY <1>6, <2>2, CutOut
    <2> QED
      BY <2>1, <2>3
  <1>7. JsonCharacter(SubSeq(bytes, o + 1, o + k), point)
    <2>1. PICK s : s = SubSeq(bytes, o + 1, o + k)
      OBVIOUS
    <2>2. s \in Seq(Nat) /\ Len(s) = k /\ \A i \in 1 .. k : s[i] = escaped[i]
      <3>1. o + k \in o + 1 .. Len(bytes) /\ (o + k) - o = k
        BY <1>4, <1>5
      <3> QED
        BY <1>4, <1>6, <2>1, <3>1
    <2>3. s = escaped
      BY <1>2, <2>2, SeqEqual
    <2> QED
      BY <2>1, <2>3
  <1>8. ASSUME NEW j \in DOMAIN bytes, o < j, JsonCharacter(SubSeq(bytes, o + 1, j), point)
        PROVE  j = o + k
    <2>1. j \in o + 1 .. Len(bytes)
      BY <1>4, <1>8
    <2>2. PICK s : s = SubSeq(bytes, o + 1, j)
      OBVIOUS
    <2>3. s \in Seq(Nat) /\ Len(s) = j - o /\ \A i \in 1 .. j - o : s[i] = bytes[o + i]
      BY <1>6, <2>1, <2>2
    <2>4. \A i \in 1 .. Len(s) : i <= Len(escaped) => s[i] = escaped[i]
      <3> SUFFICES ASSUME NEW i \in 1 .. Len(s), i <= Len(escaped) PROVE s[i] = escaped[i]
        OBVIOUS
      <3>1. i \in 1 .. j - o
        BY <2>3
      <3>2. i \in 1 .. k
        BY <1>2, <1>4, <2>1, <3>1
      <3> QED
        BY <1>4, <2>3, <3>1, <3>2
    <2>5. Len(s) = Len(escaped)
      BY <1>8, <2>2, <2>3, <2>4, OneLength
    <2>6. j - o = k
      BY <1>2, <2>3, <2>5
    <2>7. j \in Nat
      BY <1>4, <2>1
    <2>8. o \in Nat /\ k \in Nat
      BY <1>4
    <2> QED
      BY <2>6, <2>7, <2>8
  <1>9. o + k \in DOMAIN bytes /\ o < o + k
    BY <1>4, <1>5
  <1>10. Further(bytes, {o}, point) = {o + k}
    BY <1>7, <1>8, <1>9 DEF Further
  <1> QED
    BY <1>1, <1>2, <1>10

\* Any text a file name or an identifier can be, lone surrogates included,
\* comes out of the JSON document as it went in: its reader finds the bytes to
\* be the characters of the text, one after the other, and in one way only.
THEOREM JsonReadsBackExactly == \A text \in Seq(CodeUnit) : EscapesReadBack(text)
  <1> SUFFICES ASSUME NEW text \in Seq(CodeUnit) PROVE EscapesReadBack(text)
    OBVIOUS
  <1>1. PICK n : n = Len(text)
    OBVIOUS
  <1>2. n \in Nat
    BY <1>1, LenProperties
  <1>3. PICK from \in [1 .. n + 2 -> Seq(Nat)] :
          /\ escapeJsonString(text) = from[1]
          /\ from[n + 1] = << >>
          /\ \A i \in 1 .. n : from[i] = Escaped(text, i) \o from[NextAt(text, i)]
    BY <1>1, WrittenFrom
  <1>4. PICK bytes : bytes = from[1]
    OBVIOUS
  <1>5. bytes \in Seq(Nat) /\ bytes = escapeJsonString(text)
    BY <1>2, <1>3, <1>4
  <1>6. PICK ends :
          /\ ends[0] = {0}
          /\ \A i \in 1 .. n :
               ends[i] = IF i - 1 \in Pairs(text) THEN ends[i - 1]
                         ELSE Further(bytes, ends[i - 1], Character(text, i))
          /\ ends[n] = {Len(bytes)} => EscapesReadBack(text)
    BY <1>1, <1>5, EndsAre
  <1> DEFINE Place(i) == IF i \in Pairs(text) THEN i + 2 ELSE i + 1
             S == {i \in 0 .. n : \E before \in Seq(Nat) :
                     bytes = before \o from[Place(i)] /\ ends[i] = {Len(before)}}
  <1>7. \A i \in 0 .. n : Place(i) \in 1 .. n + 1
    <2> SUFFICES ASSUME NEW i \in 0 .. n PROVE Place(i) \in 1 .. n + 1
      OBVIOUS
    <2>1. i \in Pairs(text) => i \in 1 .. n - 1
      BY <1>1 DEF Pairs
    <2> QED
      BY <1>2, <2>1
  <1>8. 0 \in S
    <2>1. 0 \notin Pairs(text)
      BY DEF Pairs
    <2>2. Place(0) = 1 /\ 0 \in 0 .. n /\ << >> \in Seq(Nat) /\ Len(<< >>) = 0
      BY <1>2, <2>1
    <2>3. bytes = << >> \o from[Place(0)]
      BY <1>4, <1>5, <2>2, ConcatEmptySeq
    <2> QED
      BY <1>6, <2>2, <2>3
  <1>9. ASSUME NEW i \in 0 .. n, i \in S, i < n PROVE i + 1 \in S
    <2>1. PICK before \in Seq(Nat) : bytes = before \o from[Place(i)] /\ ends[i] = {Len(before)}
      BY <1>9
    <2>2. i + 1 \in 1 .. n /\ i + 1 \in 0 .. n /\ (i + 1) - 1 = i
      BY <1>2, <1>9
    <2>3. CASE i \in Pairs(text)
      <3>1. i + 1 \notin Pairs(text)
        BY <2>3, PairsAreApart
      <3>2. Place(i + 1) = Place(i)
        BY <2>3, <2>2, <3>1
      <3>3. ends[i + 1] = ends[i]
        BY <1>6, <2>2, <2>3
      <3> QED
        BY <2>1, <2>2, <3>2, <3>3
    <2>4. CASE i \notin Pairs(text)
      <3>1. Place(i) = i + 1
        BY <2>4
      <3>2. PICK escaped : escaped = Escaped(text, i + 1)
        OBVIOUS
      <3>3. escaped \in Seq(Nat) /\ JsonCharacter(escaped, Character(text, i + 1))
        BY <1>1, <2>2, <3>2, EscapedIs
      <3>4. PICK after : after = from[Place(i + 1)]
        OBVIOUS
      <3>5. after \in Seq(Nat)
        BY <1>2, <1>3, <1>7, <2>2, <3>4
      <3>6. from[i + 1] = escaped \o after
        BY <1>3, <2>2, <3>2, <3>4 DEF NextAt
      <3>7. bytes = before \o (escaped \o after)
        BY <2>1, <3>1, <3>6
      <3>8. ends[i + 1] = Further(bytes, {Len(before)}, Character(text, i + 1))
        BY <1>6, <2>1, <2>2, <2>4
      <3>9. ends[i + 1] = {Len(before) + Len(escaped)}
        BY <3>3, <3>5, <3>7, <3>8, OneWayOn
      <3>10. bytes = (before \o escaped) \o after
        <4>1. PICK D : D = Nat
          OBVIOUS
        <4>2. \A x, y, z \in Seq(D) : (x \o y) \o z = x \o (y \o z)
          BY ConcatAssociative, SMTT(30)
        <4>3. before \in Seq(D) /\ escaped \in Seq(D) /\ after \in Seq(D)
          BY <3>3, <3>5, <4>1
        <4> QED
          BY <3>7, <4>2, <4>3, Zenon
      <3>11. before \o escaped \in Seq(Nat) /\ Len(before \o escaped) = Len(before) + Len(escaped)
        BY <3>3, ConcatProperties
      <3> QED
        BY <2>2, <3>4, <3>9, <3>10, <3>11
    <2> QED
      BY <2>3, <2>4
  <1>10. n \in S
    <2> HIDE DEF S
    <2>1. \A i \in 0 .. n : i \in S
      BY <1>2, <1>8, <1>9, BoundedInduction
    <2> QED
      BY <1>2, <2>1
  <1>11. PICK before \in Seq(Nat) : bytes = before \o from[Place(n)] /\ ends[n] = {Len(before)}
    BY <1>10
  <1>12. Place(n) = n + 1
    <2>1. n \notin Pairs(text)
      BY <1>1, <1>2 DEF Pairs
    <2> QED
      BY <2>1
  <1>13. bytes = before
    BY <1>3, <1>11, <1>12, ConcatEmptySeq
  <1> QED
    BY <1>6, <1>11, <1>13
===============================================================================
