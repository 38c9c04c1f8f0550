----------------------------- MODULE MCInventory -----------------------------
(* Instance of Inventory for TLC: a portable package with two executables,    *)
(* one that is not portable and not in the Packages directory, and a junction *)
(* there that winget does not list.  Of the two rules the second cannot be    *)
(* evaluated against every name.                                              *)
EXTENDS Inventory, TLC

CONSTANTS tool, suite, shim, tool1, tool2, shim1,
          raw, setup, short, bad, strip, guess, broken, rule1, rule2

Pkgs    == {tool, suite, shim}
Exes    == {tool1, tool2, shim1}
Order   == <<tool, suite>>
LastFirst == <<suite, tool>>
Folders == (tool :> "directory") @@ (suite :> "none") @@ (shim :> "reparse")
Content == (tool :> {tool1, tool2}) @@ (suite :> {}) @@ (shim :> {shim1})
Upper(c) == IF c = "a" THEN "A" ELSE IF c = "b" THEN "B" ELSE c
Id      == (tool :> <<"a", "b">>) @@ (suite :> <<"B">>) @@ (shim :> <<"b", "b">>)
File    == (tool1 :> <<"a", "a", "b">>) @@ (tool2 :> <<"A">>) @@ (shim1 :> <<"a">>)
FileAs  == (tool1 :> raw) @@ (tool2 :> setup) @@ (shim1 :> short)
Globs   == {{}, {<<"?">>}, {<<"*", "a", "b">>}, {<<"A", "*", "B">>, <<"a">>}}
AllNames == {raw, setup, short, bad}
Effects  ==
  [p \in {strip, guess}, n \in AllNames |->
     IF p = strip THEN CASE n = raw -> short [] n = setup -> bad [] OTHER -> NoMatch
                  ELSE CASE n = setup -> RegexError [] n = raw -> setup [] OTHER -> NoMatch]
Rule(n, p) == [name |-> n, pattern |-> p]
Text(large, ok, rs) == [large |-> large, wellFormed |-> ok, rules |-> rs]
Files == {Text(TRUE, TRUE, << >>), Text(FALSE, FALSE, << >>),
          Text(FALSE, TRUE, <<Rule(rule1, strip), Rule(rule2, guess)>>),
          Text(FALSE, TRUE, <<Rule(rule1, guess)>>),
          Text(FALSE, TRUE, <<Rule(rule1, broken)>>)}

\* matchesGlob() against what a glob means, for every short pattern and value.
Words(letters, n) == UNION {[1 .. k -> letters] : k \in 0 .. n}
ASSUME GlobsMatch ==
  \A pattern \in Words({"a", "b", "*", "?"}, 3), value \in Words({"A", "b"}, 3) :
    matchesGlob(pattern, value) = GlobMatches(pattern, value)

Embedded == <<Rule(rule1, strip)>>
===============================================================================
