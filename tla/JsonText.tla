------------------------------ MODULE JsonText ------------------------------
(***************************************************************************)
(* escapeJsonString() of cli/Json.cpp: UTF-16 text, whatever it holds, as  *)
(* the UTF-8 bytes between the quotes of a JSON string.  Code units, code  *)
(* points and bytes are numbers.                                           *)
(***************************************************************************)
EXTENDS Naturals, Sequences

kReplacementCharacter == 65533   \* U+FFFD
ReverseSolidus        == 92      \* the backslash
QuotationMark         == 34

isHighSurrogate(unit) == unit >= 55296 /\ unit <= 56319   \* D800 .. DBFF
isLowSurrogate(unit)  == unit >= 56320 /\ unit <= 57343   \* DC00 .. DFFF
isSurrogate(unit)     == isHighSurrogate(unit) \/ isLowSurrogate(unit)

\* The code point two surrogates stand for.
Combined(high, low) == 65536 + (high - 55296) * 1024 + (low - 56320)

\* The last six bits, and the bits before them.
Continuation(bits) == 128 + (bits % 64)
Shift(bits)        == bits \div 64

appendUtf8(c) ==
  IF c <= 127        THEN <<c>>
  ELSE IF c <= 2047  THEN <<192 + Shift(c), Continuation(c)>>
  ELSE IF c <= 65535 THEN <<224 + Shift(Shift(c)), Continuation(Shift(c)), Continuation(c)>>
  ELSE <<240 + Shift(Shift(Shift(c))), Continuation(Shift(Shift(c))), Continuation(Shift(c)),
         Continuation(c)>>

\* The code units with an escape of one letter, and the letter: \" \\ \b \t \n \f \r
ShortEscape == [unit \in {QuotationMark, ReverseSolidus, 8, 9, 10, 12, 13} |->
                  CASE unit \in {QuotationMark, ReverseSolidus} -> unit
                    [] unit = 8  -> 98  [] unit = 9  -> 116 [] unit = 10 -> 110
                    [] unit = 12 -> 102 [] unit = 13 -> 114]

HexDigit(n) == IF n < 10 THEN 48 + n ELSE 87 + n

\* What is written for the code unit at i, which is no second half of a pair.
Escaped(text, i) ==
  LET unit == text[i]
      pair == isHighSurrogate(unit) /\ i < Len(text) /\ isLowSurrogate(text[i + 1])
  IN  IF unit \in DOMAIN ShortEscape THEN <<ReverseSolidus, ShortEscape[unit]>>
      ELSE IF unit <= 31
           THEN <<ReverseSolidus, 117, 48, 48, HexDigit(unit \div 16), HexDigit(unit % 16)>>
      ELSE IF pair THEN appendUtf8(Combined(unit, text[i + 1]))
      ELSE IF isSurrogate(unit) THEN appendUtf8(kReplacementCharacter)
      ELSE appendUtf8(unit)

\* The loop; it steps over the second half of a pair.
escapeJsonString(text) ==
  LET from[i \in 1 .. Len(text) + 2] ==
        IF i > Len(text) THEN << >>
        ELSE LET next == IF /\ isHighSurrogate(text[i]) /\ i < Len(text)
                            /\ isLowSurrogate(text[i + 1])
                         THEN i + 2 ELSE i + 1
             IN  Escaped(text, i) \o from[next]
  IN  from[1]

-------------------------------------------------------------------------------
(***************************************************************************)
(* What the bytes mean to a reader, by RFC 8259 and RFC 3629.              *)
(***************************************************************************)
Follows(bytes) == \A i \in 2 .. Len(bytes) : bytes[i] >= 128 /\ bytes[i] <= 191

\* The bytes of one code point in UTF-8, the shortest for it, and no surrogate.
Utf8Of(bytes, point) ==
  /\ Follows(bytes)
  /\ \/ Len(bytes) = 1 /\ point <= 127 /\ point = bytes[1]
     \/ /\ Len(bytes) = 2 /\ point > 127 /\ point <= 2047
        /\ point = (bytes[1] - 192) * 64 + (bytes[2] - 128)
     \/ /\ Len(bytes) = 3 /\ point > 2047 /\ point <= 65535 /\ ~isSurrogate(point)
        /\ point = ((bytes[1] - 224) * 64 + (bytes[2] - 128)) * 64 + (bytes[3] - 128)
     \/ /\ Len(bytes) = 4 /\ point > 65535 /\ point < 17 * 65536
        /\ point = (((bytes[1] - 240) * 64 + (bytes[2] - 128)) * 64 + (bytes[3] - 128)) * 64
                     + (bytes[4] - 128)

\* The bytes of one character of a JSON string.
JsonCharacter(bytes, point) ==
  \/ Utf8Of(bytes, point) /\ point > 31 /\ point \notin {QuotationMark, ReverseSolidus}
  \/ Len(bytes) = 2 /\ bytes[1] = ReverseSolidus /\ point \in DOMAIN ShortEscape
       /\ bytes[2] = ShortEscape[point]
  \/ Len(bytes) = 6 /\ <<bytes[1], bytes[2], bytes[3], bytes[4]>> = <<ReverseSolidus, 117, 48, 48>>
       /\ point <= 255 /\ bytes[5] = HexDigit(point \div 16) /\ bytes[6] = HexDigit(point % 16)

\* Positions of the first halves of surrogate pairs.
Pairs(text) == {i \in 1 .. Len(text) - 1 : isHighSurrogate(text[i]) /\ isLowSurrogate(text[i + 1])}

\* The character that begins at i, one that has no meaning as U+FFFD.
Character(text, i) ==
  IF i \in Pairs(text) THEN Combined(text[i], text[i + 1])
  ELSE IF isSurrogate(text[i]) THEN kReplacementCharacter
  ELSE text[i]

\* Where a character may end in the bytes that begins after one of ends.
Further(bytes, ends, point) ==
  {j \in DOMAIN bytes : \E i \in ends : i < j /\ JsonCharacter(SubSeq(bytes, i + 1, j), point)}

\* A reader of the JSON string finds the characters of the text in it, and
\* nothing but them: the bytes are exactly their representations in a row, and
\* can be taken for them in one way only.  The second half of a pair is no
\* character.
EscapesReadBack(text) ==
  LET bytes == escapeJsonString(text)
      ends[i \in 0 .. Len(text)] ==
        IF i = 0 THEN {0}
        ELSE IF i - 1 \in Pairs(text) THEN ends[i - 1]
        ELSE Further(bytes, ends[i - 1], Character(text, i))
  IN  ends[Len(text)] = {Len(bytes)}
===============================================================================
