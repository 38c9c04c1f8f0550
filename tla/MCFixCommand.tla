----------------------------- MODULE MCFixCommand -----------------------------
(* Instance of FixCommand for TLC: two aliases; app1a and app1b collide on   *)
(* the first, app2 has the second, and setup has no valid alias.             *)
EXTENDS FixCommand, TLC

CONSTANTS alias1, alias2, app1a, app1b, app2, setup

Aliases == {alias1, alias2}
Exes    == {app1a, app1b, app2, setup}
Resolve == (app1a :> alias1) @@ (app1b :> alias1) @@ (app2 :> alias2) @@ (setup :> NoAlias)

-------------------------------------------------------------------------------
\* Command lines: all short ones over a few tokens, most of them in error, and
\* one of each kind that comes as far as the inventory.
Words(letters, n) == UNION {[1 .. k -> letters] : k \in 0 .. n}

Links1   == <<"C:", "\\", "links">>
Links2   == <<"C:", "\\", "links", "\\">>
Relative == <<"links">>
Device   == <<"\\", "\\", ".", "\\", "pipe">>
ToolExe  == <<"tool.exe">>

Tokens == {<<"--json">>, <<"--links-dir">>, <<"--help">>, <<"--bogus">>, <<"--">>, Relative}

AcceptedLines ==
  {<< >>, <<<<"--fail-on-missing">>>>, <<<<"scan">>, <<"--json">>>>,
   <<<<"fix">>>>,
   <<<<"fix">>, <<"--tui">>, <<"--quiet">>>>,
   <<<<"fix">>, <<"--tui">>, <<"--dry-run">>, <<"--silent">>>>,
   <<<<"--json">>, <<"--include">>, <<"--dry-run">>, <<"fix">>, <<"-y">>,
     <<"--links-dir">>, Links1>>,
   <<<<"test-rule">>, <<"--">>, ToolExe>>}

RejectedLines ==
  {<<<<"fix">>, <<"--tui">>, <<"--yes">>>>, <<<<"--tui">>>>, <<<<"fix">>, <<"--json">>>>, <<<<"test-rule">>>>,
   <<<<"test-rule">>, Links1>>, <<<<"test-rule">>, ToolExe, ToolExe>>,
   <<<<"--rules">>, Device>>, <<<<"--rules">>, << >>>>,
   <<<<"--source">>, <<"com">>, <<"--source">>, <<"winget">>>>}

ShortLines == Words(Tokens, 2)

Lines == AcceptedLines \cup RejectedLines \cup ShortLines

InteractiveLines == {<<<<"fix">>>>}

\* A directory written with the backslash that the shell completes it with.
HandedLines == {<<<<"fix">>, <<"--links-dir">>, Links2, <<"--yes">>>>}

Devices   == {Device}
ToolNames == {ToolExe}
AllPieces == {"--tui", "--dry-run", "--yes", "-y", "--json", "--fail-on-missing", "--no-color",
              "--showspecialfolder", "-s", "--silent", "--rules", "--packages-dir",
              "--links-dir", "--include", "--exclude", "--verbose", "--quiet", "--source",
              "--help", "-h", "--version", "--", "--bogus", "com", "fs", "auto", "winget",
              "scan", "fix", "test-rule", "C:", "\\", "\"", " ", "links", ".", "pipe", "tool.exe"}
AllDashed == {"--tui", "--dry-run", "--yes", "-y", "--json", "--fail-on-missing", "--no-color",
              "--showspecialfolder", "-s", "--silent", "--rules", "--packages-dir",
              "--links-dir", "--include", "--exclude", "--verbose", "--quiet", "--source",
              "--help", "-h", "--version", "--", "--bogus"}

InDirectory(token) == IF token = << >> \/ token[1] = "C:" THEN token ELSE <<"C:", "\\">> \o token

-------------------------------------------------------------------------------
\* What the user types: a yes, a no with more after it, a line longer than the
\* buffer whose end looks like a yes, and two answers at once.
Yes  == <<"Y", "\r", "\n">>
No   == <<" ", "n", "o", "\n">>
Long == <<"n", "n", "n", "n", "n", "y", "\r", "\n">>
Typed == {<<Yes>>, <<Long>>, <<No, Yes>>}

\* Quoted arguments come back as they were, but for the fragile ones.
ASSUME QuotingIsExact ==
  /\ \A arguments \in Words(Words({"a", "\\", "\"", " "}, 2), 2) :
       \/ Arguments(Parameters(arguments)) = arguments
       \/ \E i \in DOMAIN arguments : Fragile(arguments[i])
  /\ \A argument \in Words({"a", "\\", "\"", " "}, 4) :
       Arguments(Parameters(<<argument, <<"a">>>>)) # <<argument, <<"a">>>> <=> Fragile(argument)
===============================================================================
