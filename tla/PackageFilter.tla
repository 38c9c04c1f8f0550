---------------------------- MODULE PackageFilter ----------------------------
(***************************************************************************)
(* --include and --exclude (core/PackageFilter.cpp): glob patterns over    *)
(* package ids and executable file names, each a sequence of characters.   *)
(***************************************************************************)
EXTENDS Naturals, Sequences

CONSTANTS
  Characters,
  Fold(_)      \* a character's upper case, as CompareStringOrdinal() folds it

ASSUME FoldAssumption == \A c \in Characters : Fold(c) = Fold("*") => c = "*"

equalsOrdinalIgnoreCase(left, right) == Fold(left) = Fold(right)

\* The loop of matchesGlob(): p and v are the positions in pattern and value,
\* star the position of the last '*' passed (0 when there is none), and mark
\* where in the value it was passed.
Positions(pattern, value) ==
  {at \in [p : 1 .. Len(pattern) + 1, v : 1 .. Len(value) + 1,
           star : 0 .. Len(pattern), mark : 1 .. Len(value) + 1] :
     at.star < at.p /\ at.mark <= at.v}

At(p, v, star, mark) == [p |-> p, v |-> v, star |-> star, mark |-> mark]

takes(char, c) == char = "?" \/ equalsOrdinalIgnoreCase(char, c)

matchesGlob(pattern, value) ==
  LET m == Len(pattern)
      n == Len(value)
      loop[at \in Positions(pattern, value)] ==
        IF at.v > n
        THEN \A rest \in at.p .. m : pattern[rest] = "*"
        ELSE IF at.p <= m /\ takes(pattern[at.p], value[at.v])
        THEN loop[At(at.p + 1, at.v + 1, at.star, at.mark)]
        ELSE IF at.p <= m /\ pattern[at.p] = "*"
        THEN loop[At(at.p + 1, at.v, at.p, at.v)]
        ELSE IF at.star # 0
        THEN loop[At(at.star + 1, at.mark + 1, at.star, at.mark + 1)]
        ELSE FALSE
  IN  loop[At(1, 1, 0, 1)]

matchesAnyPattern(patterns, packageId, executableFileName) ==
  \E pattern \in patterns : \/ matchesGlob(pattern, packageId)
                            \/ matchesGlob(pattern, executableFileName)

\* Mutant: what is included cannot be excluded.
includeOverridesExclude(includes, excludes, packageId, executableFileName) ==
  IF includes = {} THEN ~matchesAnyPattern(excludes, packageId, executableFileName)
  ELSE matchesAnyPattern(includes, packageId, executableFileName)

includesExecutable(includes, excludes, packageId, executableFileName) ==
  /\ ~matchesAnyPattern(excludes, packageId, executableFileName)
  /\ includes = {} \/ matchesAnyPattern(includes, packageId, executableFileName)

\* What a glob means: the value can be cut into as many parts as the pattern
\* has characters, a '*' taking any part and the others one character each.
GlobMatches(pattern, value) ==
  \E cut \in [0 .. Len(pattern) -> 0 .. Len(value)] :
    /\ cut[0] = 0
    /\ cut[Len(pattern)] = Len(value)
    /\ \A i \in 1 .. Len(pattern) :
         IF pattern[i] = "*" THEN cut[i - 1] <= cut[i]
         ELSE /\ cut[i] = cut[i - 1] + 1
              /\ takes(pattern[i], value[cut[i]])
===============================================================================
