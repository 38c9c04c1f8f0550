-------------------------------- MODULE Paths --------------------------------
(***************************************************************************)
(* The prefixes of Windows paths: core/Paths.cpp and the one that          *)
(* core/LinkInspector.cpp takes off a symbolic link's target.  A path is a *)
(* sequence of pieces, a prefix being one; the other pieces are components *)
(* with their separators.                                                  *)
(***************************************************************************)
EXTENDS Naturals, Sequences

CONSTANTS
  Normal(_)   \* a path without prefix, absolute, normalized and with backslashes

Extended == "\\\\?\\"   \* \\?\
Device   == "\\\\.\\"   \* \\.\
Network  == "\\\\"      \* \\
Nt       == "\\??\\"    \* \??\
UNC      == "UNC\\"
unc      == "unc\\"     \* any other spelling of it

Starts(path, prefix) == /\ Len(prefix) <= Len(path)
                        /\ SubSeq(path, 1, Len(prefix)) = prefix

Without(path, prefix) == SubSeq(path, Len(prefix) + 1, Len(path))

Prefixed(path) == Starts(path, <<Extended>>) \/ Starts(path, <<Device>>)

\* std::invalid_argument for the empty path is left out: none is passed.
toExtendedLengthPath(path) ==
  IF Prefixed(path) THEN path
  ELSE LET normal == Normal(path)
       IN  IF Prefixed(normal) THEN normal
           ELSE IF Starts(normal, <<Network>>) THEN <<Extended, UNC>> \o Without(normal, <<Network>>)
           ELSE <<Extended>> \o normal

fromExtendedLengthPath(path) ==
  IF Starts(path, <<Extended, UNC>>) THEN <<Network>> \o Without(path, <<Extended, UNC>>)
  ELSE IF Starts(path, <<Extended>>) THEN Without(path, <<Extended>>)
  ELSE path

stripNtNamespacePrefix(name) ==
  IF ~Starts(name, <<Nt>>) THEN name
  ELSE IF Starts(name, <<Nt, UNC>>) \/ Starts(name, <<Nt, unc>>)
       THEN <<Network>> \o SubSeq(name, 3, Len(name))
  ELSE Without(name, <<Nt>>)

\* The end of decodeSymbolicLinkTarget(): the target that a substitute name of
\* a link in folder parent means; one that is flagged as relative has no root.
Target(name, isRelative, parent) ==
  Normal(fromExtendedLengthPath(IF isRelative THEN parent \o name ELSE stripNtNamespacePrefix(name)))

-------------------------------------------------------------------------------
\* What CreateSymbolicLinkW stores for the target it is given.
SubstituteName(target) ==
  IF Starts(target, <<Extended>>) THEN <<Nt>> \o Without(target, <<Extended>>)
  ELSE IF Starts(target, <<Network>>) THEN <<Nt, UNC>> \o Without(target, <<Network>>)
  ELSE <<Nt>> \o target

\* A path goes to the system in its extended form only, which for a network path
\* is not \\?\ before the path, and comes back as it was: from a directory walk,
\* and from the link made with it as its target.
ComesBack(path) ==
  LET passed == toExtendedLengthPath(path)
  IN  /\ Prefixed(passed) /\ ~Starts(passed, <<Extended, Network>>)
      /\ toExtendedLengthPath(passed) = passed
      /\ ~Prefixed(path) => /\ fromExtendedLengthPath(passed) = Normal(path)
                            /\ Target(SubstituteName(passed), FALSE, << >>) = Normal(path)
===============================================================================
