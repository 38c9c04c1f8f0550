------------------------------- MODULE Relaunch -------------------------------
(***************************************************************************)
(* The command line relaunchElevated() (cli/Dispatch.cpp) hands to the     *)
(* elevated process, and the arguments that process finds in it: Windows   *)
(* passes one text, which the C run-time library takes apart for wmain().  *)
(*                                                                         *)
(* A text is a sequence of pieces, of which only a backslash, a quote and  *)
(* a blank are told apart from the others.                                 *)
(***************************************************************************)
EXTENDS Naturals, Sequences
LOCAL INSTANCE SequencesExt

Backslash == "\\"
Quote     == "\""
Blank     == " "

Repeat(piece, n) == [i \in 1 .. n |-> piece]

\* The argument in quotes, a quote in it behind a backslash.
Quoted(argument) ==
  <<Quote>>
    \o FlattenSeq([i \in DOMAIN argument |->
                     IF argument[i] = Quote THEN <<Backslash, Quote>> ELSE <<argument[i]>>])
    \o <<Quote>>

\* parameters of relaunchElevated().
Parameters(arguments) ==
  FlattenSeq([i \in DOMAIN arguments |->
                IF i = 1 THEN Quoted(arguments[i]) ELSE <<Blank>> \o Quoted(arguments[i])])

-------------------------------------------------------------------------------
(***************************************************************************)
(* The run-time library's rules, as a scan of the text: backslashes before *)
(* a quote are halved, one left over makes the quote part of the argument; *)
(* a quote turns quoting on or off, and a second one right after it has    *)
(* turned it off is part of the argument and turns it on again.            *)
(***************************************************************************)
Outside == [done |-> << >>, begun |-> FALSE, text |-> << >>, slashes |-> 0,
            inQuotes |-> FALSE, closed |-> FALSE]

\* Backslashes that no quote follows stand for themselves.
Settled(s) == [s EXCEPT !.text = @ \o Repeat(Backslash, s.slashes), !.slashes = 0,
                        !.closed = FALSE]

Emitted(s) == IF s.begun THEN [Outside EXCEPT !.done = Append(s.done, Settled(s).text)] ELSE s

AtQuote(s) ==
  LET halved == [s EXCEPT !.text = @ \o Repeat(Backslash, s.slashes \div 2),
                          !.slashes = 0, !.begun = TRUE, !.closed = FALSE]
  IN  IF s.slashes % 2 = 1 THEN [halved EXCEPT !.text = Append(@, Quote)]
      ELSE IF s.closed THEN [halved EXCEPT !.text = Append(@, Quote), !.inQuotes = TRUE]
      ELSE [halved EXCEPT !.inQuotes = ~@, !.closed = s.inQuotes]

Scan(s, piece) ==
  CASE piece = Backslash -> [s EXCEPT !.slashes = @ + 1, !.begun = TRUE, !.closed = FALSE]
    [] piece = Quote     -> AtQuote(s)
    [] piece = Blank /\ ~s.inQuotes -> Emitted(s)
    [] OTHER -> [Settled(s) EXCEPT !.text = Append(@, piece), !.begun = TRUE]

\* The state before the text and after each of its pieces.
Scans(text) ==
  LET state[i \in 0 .. Len(text)] ==
        IF i = 0 THEN Outside ELSE Scan(state[i - 1], text[i])
  IN  state

\* argv of the process started with this text, without its name.
Arguments(text) == Emitted(Scans(text)[Len(text)]).done

-------------------------------------------------------------------------------
\* An argument that ends with a backslash, or has one before a quote, is the
\* only kind that does not come back as it was.
Fragile(argument) ==
  \E i \in DOMAIN argument : /\ argument[i] = Backslash
                             /\ i = Len(argument) \/ argument[i + 1] = Quote
===============================================================================
