------------------------------ MODULE MCReports ------------------------------
(***************************************************************************)
(* What the modules on texts promise, evaluated by TLC for every short     *)
(* input over the characters that matter: the ASSUMEs below are checked at *)
(* the start of each run of a module that extends this one.                *)
(***************************************************************************)
EXTENDS Naturals, Sequences
LOCAL INSTANCE FiniteSetsExt
LOCAL INSTANCE SequencesExt

\* Code units at every boundary that escapeJsonString() knows: controls with
\* and without an escape of one letter, the quote, the backslash, the limits
\* of each length in UTF-8 and of both halves of the surrogates.
BoundaryUnits == {0, 8, 11, 13, 31, 32, 34, 92, 127, 128, 2047, 2048,
                  55295, 55296, 56319, 56320, 57343, 57344, 65535}

Escapes == INSTANCE JsonText

\* Any text comes out of the JSON document as it went in, lone surrogates
\* apart, and never ends its string or the document early.
ASSUME JsonReadsBack ==
  \A text \in SeqOf(BoundaryUnits, 2) \cup SeqOf({92, 65, 55296, 56320, 57343}, 4) :
    Escapes!EscapesReadBack(text)

-------------------------------------------------------------------------------
Upper == [c \in {"u", "l"} |-> IF c = "u" THEN "U" ELSE "L"]
UpperOf(c) == IF c \in DOMAIN Upper THEN Upper[c] ELSE c

\* A profile, a folder in it, one that is not reported, and a root with a
\* separator at its end, as a drive has.
UserFolders == <<[root |-> <<"U", "\\", "L">>, variable |-> "%LOCAL%"],
                 [root |-> << >>, variable |-> "%APPDATA%"],
                 [root |-> <<"U", "\\">>, variable |-> "%PROFILE%"]>>

Unchanged(path) == path

Display == INSTANCE PathDisplay WITH Reported <- UserFolders, Fold <- UpperOf,
                                     Blocked <- {"bidi"}, Normal <- Unchanged

Plain == SeqOf({"u", "U", "l", "\\"}, 5)

\* A folder's name at the start of another's (alice, alice2) is no folder, the
\* inner of two wins, and \\?\ hides none.
ASSUME InnermostFolderIsNamed ==
  \A path \in Plain : /\ Display!NamesInnermostFolder(path)
                      /\ Display!NamesInnermostFolder(<<Display!Extended>> \o path)

\* In a message, no folder is left before a separator, a quote or the end.
ASSUME MessagesNameNoFolder ==
  \A text \in SeqOf({"u", "l", "\\", "'", "\\\\?\\"}, 5) : Display!LeavesNoFolder(text)

\* A path shown has no character that moves the cursor or turns the text, and
\* without the option is the path itself otherwise.
ASSUME ShownPathsAreClean ==
  \A path \in SeqOf({"u", "l", "\\", "bidi"}, 4), show \in BOOLEAN :
    LET shown == Display!formatPathForDisplay(path, show)
    IN  /\ "bidi" \notin ToSet(shown)
        /\ ~show => shown = SelectSeq(path, LAMBDA c : c # "bidi")

-------------------------------------------------------------------------------
Drive == "C:\\"

\* Every path goes to the system in one form and comes back as it was.
ASSUME PathsComeBack ==
  \A head \in {<<Drive>>, <<Display!Network, "server\\">>, <<Display!Extended, Drive>>,
               <<Display!Device>>, <<Drive, Display!UNC>>},
     rest \in SeqOf({"a\\", "UNC\\"}, 2) : Display!ComesBack(head \o rest)

-------------------------------------------------------------------------------
LinkDecoder == INSTANCE ReparseBuffer

\* Lengths and offsets around every limit of the decoder, and the largest.
Limits == {0, 1, 2, 7, 8, 11, 12, 13, 14, 16, 20, 65535}

ASSUME DecoderStaysInBuffer ==
  \A size \in (0 .. 30) \cup {65543}, symlink \in BOOLEAN, length, offset, nameLength \in Limits :
    LET b == [size |-> size, isSymlink |-> symlink, reparseDataLength |-> length,
              substituteNameOffset |-> offset, substituteNameLength |-> nameLength]
    IN  /\ LinkDecoder!ReadsStayInside(b) /\ LinkDecoder!NameIsInPathBuffer(b)
        /\ LinkDecoder!LastCheckIsRedundant(b) /\ LinkDecoder!AcceptsWellFormed(b)

-------------------------------------------------------------------------------
\* Wide and narrow characters, a wide and a narrow pair, and halves of pairs.
Cells == {<< >>, <<"x">>, <<"wide", "x", "x">>, <<"x", "high">>, <<"high", "low">>,
          <<"low", "high", "narrow">>, <<"wide", "wide">>}

\* Ties in the alias among them, as in a collision.
AliasRank == SetToSeq(Cells)
RankOf(text) == CHOOSE i \in DOMAIN AliasRank : AliasRank[i] = text

Report == INSTANCE ScanReport WITH High <- {"high"}, Low <- {"low", "narrow"},
            WideUnits <- {"wide"}, WidePairs <- {<<"high", "low">>}, Rank <- RankOf

ReportItem == [packageId : {<< >>, <<"wide", "high">>}, status : {"Ok", "Missing", "Mismatch"},
               alias : {<<"x">>, <<"x", "high">>, <<"low", "high", "narrow">>},
               target : {<<"high", "low">>, <<"wide", "wide">>}]

\* What has to be acted on is shown, also by a quiet scan, and stays in line.
ASSUME ReportIsComplete ==
  \A items \in SeqOf(ReportItem, 2) : Report!ShowsWhatToActOn(items) /\ Report!LinesUp(items)

\* The measured width is that of its characters, each counted once.
ASSUME WidthCountsCharacters ==
  \A text \in SeqOf({"x", "wide", "high", "low", "narrow"}, 4) :
    Report!displayWidth(text) =
      Len(text) - Cardinality({i \in DOMAIN text : Report!Pairing(text, i)})
        + Cardinality({i \in DOMAIN text : Report!isWideCodePoint(text, i)})

\* Two scans of the same links print the same report.
ASSUME ReportHasItsOrder ==
  \A items \in SeqOf({item \in ReportItem : item.packageId = << >> /\ item.status # "Mismatch"
                                              /\ item.alias # <<"x">>}, 3) :
    (\A i, j \in DOMAIN items :
       i # j => items[i].alias # items[j].alias \/ items[i].target # items[j].target)
      => Report!OrderOfItsOwn(items)
===============================================================================
