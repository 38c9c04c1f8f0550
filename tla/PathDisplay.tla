------------------------------ MODULE PathDisplay ------------------------------
(***************************************************************************)
(* cli/PathDisplay.cpp: the folders whose path holds the name of the       *)
(* account, replaced by the variable that stands for them.  A text is a    *)
(* sequence of characters, with the prefixes of Paths and the variables as *)
(* one piece each.                                                         *)
(***************************************************************************)
EXTENDS Paths
LOCAL INSTANCE FiniteSetsExt
LOCAL INSTANCE SequencesExt

CONSTANTS
  Reported,      \* what the shell reports: records of root and variable, in order
  Fold(_),       \* a character in its ordinal upper case
  Blocked        \* isDisplayBlocked(): controls and bidirectional marks

isSeparator(c) == c \in {"\\", "/"}

isQuote(c) == c \in {"'", "\""}

stripTrailingSeparators(text) ==
  SubSeq(text, 1, Max({0} \cup {i \in DOMAIN text : ~isSeparator(text[i])}))

\* A folder that is not reported has an empty root.
knownFolderMappings ==
  SelectSeq([i \in DOMAIN Reported |->
               [Reported[i] EXCEPT !.root = stripTrailingSeparators(@)]],
            LAMBDA folder : folder.root # << >>)

Same(text, other) == /\ Len(text) = Len(other)
                     /\ \A i \in DOMAIN text : Fold(text[i]) = Fold(other[i])

startsWithOrdinalIgnoreCase(text, prefix) ==
  /\ prefix # << >> /\ Len(prefix) <= Len(text)
  /\ Same(SubSeq(text, 1, Len(prefix)), prefix)

endsOnABoundary(text, after, quotes) ==
  \/ after > Len(text)
  \/ isSeparator(text[after])
  \/ quotes /\ isQuote(text[after])

\* The folders found at a position of a text, as positions in the table.
FoldersAt(text, at, quotes) ==
  LET rest == SubSeq(text, at, Len(text))
  IN  {f \in DOMAIN knownFolderMappings :
         /\ startsWithOrdinalIgnoreCase(rest, knownFolderMappings[f].root)
         /\ endsOnABoundary(rest, Len(knownFolderMappings[f].root) + 1, quotes)}

\* The first of the longest of them; there is one.
longestMatchAt(text, at, quotes) ==
  LET found  == FoldersAt(text, at, quotes)
      size(f) == Len(knownFolderMappings[f].root)
  IN  knownFolderMappings[Min({f \in found : \A g \in found : size(g) <= size(f)})]

abbreviateKnownFolders(path) ==
  LET plain == fromExtendedLengthPath(path)
      best  == longestMatchAt(plain, 1, FALSE)
  IN  IF FoldersAt(plain, 1, FALSE) = {} THEN path
      ELSE <<best.variable>> \o SubSeq(plain, Len(best.root) + 1, Len(plain))

abbreviateKnownFoldersInText(text) ==
  LET from[i \in 1 .. Len(text) + 1] ==
        IF i > Len(text) THEN << >>
        ELSE IF FoldersAt(text, i, TRUE) = {} THEN <<text[i]>> \o from[i + 1]
        ELSE LET best == longestMatchAt(text, i, TRUE)
             IN  <<best.variable>> \o from[i + Len(best.root)]
  IN  from[1]

sanitizeForDisplay(text) == SelectSeq(text, LAMBDA c : c \notin Blocked)

formatPathForDisplay(path, showSpecialFolders) ==
  sanitizeForDisplay(IF showSpecialFolders THEN abbreviateKnownFolders(path) ELSE path)

-------------------------------------------------------------------------------
(***************************************************************************)
(* What is promised of it, in terms of path components.                    *)
(***************************************************************************)
\* The components of a path, whose separators are all backslashes.
Components(path) ==
  LET cuts == <<0>> \o SelectSeq([i \in DOMAIN path |-> i], LAMBDA i : isSeparator(path[i]))
                    \o <<Len(path) + 1>>
  IN  [k \in 1 .. Len(cuts) - 1 |-> SubSeq(path, cuts[k] + 1, cuts[k + 1] - 1)]

\* Those of a reported folder, whose path may end with separators.
RootComponents(f) == SelectSeq(Components(Reported[f].root), LAMBDA c : c # << >>)

\* The path is that of the folder or of something in it.
Within(path, f) ==
  LET p == Components(path)
      r == RootComponents(f)
  IN  Len(r) <= Len(p) /\ \A k \in DOMAIN r : Same(p[k], r[k])

\* A path in no known folder is left alone; one that is gets the variable of
\* the innermost such folder in place of the folder's components.
NamesInnermostFolder(path) ==
  LET plain  == fromExtendedLengthPath(path)
      inside == {f \in DOMAIN Reported : Reported[f].root # << >> /\ Within(plain, f)}
      result == abbreviateKnownFolders(path)
      depth(f) == Len(RootComponents(f))
  IN  IF inside = {} THEN result = path
      ELSE \E f \in inside :
             /\ \A g \in inside : depth(g) <= depth(f)
             /\ Components(result) = << <<Reported[f].variable>> >>
                     \o SubSeq(Components(plain), depth(f) + 1, Len(Components(plain)))

\* A folder stands in the text at i: nothing goes on with its name.
NamedAt(text, i, folder) ==
  LET after == i + Len(folder.root)
  IN  /\ after <= Len(text) + 1
      /\ Same(SubSeq(text, i, after - 1), folder.root)
      /\ after <= Len(text) => text[after] \in {"\\", "/", "'", "\""}

\* No known folder is left anywhere in a text, and with the folders put back
\* it is the text it was.
LeavesNoFolder(text) ==
  LET folders == ToSet(knownFolderMappings)
      result  == abbreviateKnownFoldersInText(text)
      back(c) == IF \E folder \in folders : folder.variable = c
                 THEN (CHOOSE folder \in folders : folder.variable = c).root
                 ELSE <<c>>
  IN  /\ ~\E i \in DOMAIN result, folder \in folders : NamedAt(result, i, folder)
      /\ Same(FlattenSeq([i \in DOMAIN result |-> back(result[i])]), text)
===============================================================================
