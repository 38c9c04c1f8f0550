------------------------------ MODULE Inventory ------------------------------
(***************************************************************************)
(* buildRepairCandidates() (cli/Dispatch.cpp) up to the inspection of the  *)
(* links: the packages of a source (PackageSource), the filter             *)
(* (PackageFilter), the choice and the reading of the rules                *)
(* (rules/RuleSetSelector.cpp), what --verbose says of both, and the alias *)
(* of every executable (RuleSet).  FixCommand has all of it as one step,   *)
(* Enumerate, that yields any inventory or fails.                          *)
(*                                                                         *)
(* Options nothing has read yet are chosen where they are first read.      *)
(***************************************************************************)
EXTENDS PackageSource, PackageFilter, RuleSet

CONSTANTS
  IdOf,         \* a package's id, as characters
  FileName,     \* an executable's file name, as characters
  NameOf,       \* the same, as one of Names
  PatternSets,  \* what --include and --exclude give
  Texts,        \* what a rules file can hold
  Absent,       \* what stands for no file
  DefaultRules,
  MaxEdits      \* bound on changes of the rules file while this process runs

\* No id and no file name has a '*': winget and Windows allow none.
ASSUME GlobAssumption ==
  /\ \A patterns \in PatternSets : patterns \subseteq Seq(Characters)
  /\ IdOf \in [Packages -> Seq(Characters \ {"*"})]
  /\ FileName \in [Executables -> Seq(Characters \ {"*"})]

ASSUME InventoryAssumption ==
  /\ NameOf \in [Executables -> Names]
  /\ {} \in PatternSets
  /\ Absent \notin Texts
  /\ \A text \in Texts : /\ {text.large, text.wellFormed} \subseteq BOOLEAN
                         /\ text.rules \in Seq(AliasRule)
  /\ DefaultRules \in Seq(AliasRule)
  /\ Accepts(DefaultRules)
  /\ MaxEdits \in Nat

VARIABLES
  stage,      \* how far buildRepairCandidates() has come
  includes,   \* --include patterns
  excludes,   \* --exclude patterns
  kept,       \* packages after the filter
  explicit,   \* --rules is given
  rulesFile,  \* what is at its path, or at the path of the user rules file
  edits,      \* changes of that file by another program so far
  exists,     \* what selectRuleSet() found out about the user rules file
  text,       \* what was read of the rules file, Absent before
  rules,      \* the RuleSet in force
  report,     \* what --verbose says
  items,      \* the executables with an alias
  exit        \* the exit code of a failure, "none" otherwise

inventoryVars == <<stage, includes, excludes, kept, explicit, rulesFile, edits,
                   exists, text, rules, report, items, exit>>
allVars == <<sourceVars, inventoryVars>>

Item == [package : Packages, executable : Executables, alias : ValidAliases]

Unreported == [source |-> "none", rules |-> "none"]

TypeOK ==
  /\ SourceTypeOK
  /\ stage \in {"packages", "filter", "select", "preCheck", "open", "read",
                "verbose", "resolve", "done"}
  /\ {includes, excludes} \subseteq PatternSets
  /\ kept \subseteq InstalledPackage
  /\ explicit \in BOOLEAN
  /\ rulesFile \in Texts \cup {Absent}
  /\ edits \in 0 .. MaxEdits
  /\ exists \in {"unasked", "yes", "no", "error"}
  /\ text \in Texts \cup {Absent}
  /\ rules \in Seq(AliasRule)
  /\ report \in [source : {"none", "com", "fs"},
                 rules : {"none", "explicit", "user", "defaults"}]
  /\ items \subseteq Item
  /\ exit \in {"none", "ArgumentError", "PackageEnumerationFailed"}

Init ==
  /\ SourceInit
  /\ stage = "packages"
  /\ includes = {}
  /\ excludes = {}
  /\ kept = {}
  /\ explicit = FALSE
  /\ rulesFile = Absent
  /\ edits = 0
  /\ exists = "unasked"
  /\ text = Absent
  /\ rules = << >>
  /\ report = Unreported
  /\ items = {}
  /\ exit = "none"

-------------------------------------------------------------------------------
Go(next) == /\ stage' = next
            /\ UNCHANGED exit

Fail(code) == /\ stage' = "done"
              /\ exit' = code

Source == /\ stage = "packages"
          /\ SourceStep
          /\ UNCHANGED inventoryVars

\* run() gives every PackageSourceError one exit code, and the std::exception
\* of a profile without a local application data directory another.
Enumerated ==
  /\ stage = "packages"
  /\ outcome # "running"
  /\ CASE outcome = "packages"     -> Go("filter")
       [] outcome = "system_error" -> Fail("ArgumentError")
       [] OTHER                    -> Fail("PackageEnumerationFailed")
  /\ UNCHANGED <<sourceVars, includes, excludes, kept, explicit, rulesFile, edits,
                 exists, text, rules, report, items>>

\* PackageFilter::apply(): without patterns nothing is touched, otherwise a
\* package none of whose executables is left goes too.
apply(list, include, exclude) ==
  LET left(entry) == {e \in entry.executables :
                        includesExecutable(include, exclude, IdOf[entry.package], FileName[e])}
  IN  IF include = {} /\ exclude = {} THEN list
      ELSE {[entry EXCEPT !.executables = left(entry)] :
              entry \in {entry \in list : left(entry) # {}}}

\* The rules file is what it is when the filter has run.
Filter ==
  /\ stage = "filter"
  /\ includes' \in PatternSets
  /\ excludes' \in PatternSets
  /\ kept' = apply(packages, includes', excludes')
  /\ explicit' \in BOOLEAN
  /\ rulesFile' \in Texts \cup {Absent}
  /\ Go("select")
  /\ UNCHANGED <<sourceVars, edits, exists, text, rules, report, items>>

chosen == <<sourceVars, includes, excludes, kept, explicit>>

\* Mutant: a user file whose existence cannot be told counts as absent.
SelectFallsThrough ==
  /\ stage = "select"
  /\ \/ /\ explicit
        /\ Go("preCheck")
        /\ UNCHANGED <<exists, rules>>
     \/ /\ ~explicit
        /\ exists' \in {IF rulesFile = Absent THEN "no" ELSE "yes", "error"}
        /\ IF exists' = "yes" THEN /\ Go("preCheck")
                                   /\ UNCHANGED rules
                              ELSE /\ Go("verbose")
                                   /\ rules' = DefaultRules
  /\ UNCHANGED <<chosen, rulesFile, edits, text, report, items>>

\* selectRuleSet(): the file of --rules, else the user's if there is one, else
\* the embedded rules.  The path of the user's may be unknown and whether there
\* is a file may be impossible to tell; both end the run.
Select ==
  /\ stage = "select"
  /\ \/ /\ explicit
        /\ Go("preCheck")
        /\ UNCHANGED <<exists, rules>>
     \/ /\ ~explicit
        /\ exists' = IF rulesFile = Absent THEN "no" ELSE "yes"
        /\ IF exists' = "yes" THEN /\ Go("preCheck")
                                   /\ UNCHANGED rules
                              ELSE /\ Go("verbose")
                                   /\ rules' = DefaultRules
     \/ /\ ~explicit
        /\ exists' = "error"
        /\ Fail("ArgumentError")
        /\ UNCHANGED rules
  /\ UNCHANGED <<chosen, rulesFile, edits, text, report, items>>

loading == <<chosen, rulesFile, edits, exists, report, items>>

\* loadRuleSetFromFile(): the size, where it can be asked for.
PreCheck ==
  /\ stage = "preCheck"
  /\ \/ Go("open")
     \/ rulesFile # Absent /\ rulesFile.large /\ Fail("ArgumentError")
  /\ UNCHANGED <<loading, text, rules>>

Open ==
  /\ stage = "open"
  /\ \/ rulesFile # Absent /\ Go("read")
     \/ Fail("ArgumentError")
  /\ UNCHANGED <<loading, text, rules>>

\* Mutant: the size that was asked for is relied upon.
ReadUncapped ==
  /\ stage = "read"
  /\ text' = rulesFile
  /\ IF parses(rulesFile) THEN /\ Go("verbose")
                               /\ rules' = rulesFile.rules
                          ELSE /\ Fail("ArgumentError")
                               /\ UNCHANGED rules
  /\ UNCHANGED loading

\* At most one byte more than the limit is read, and parsed if it is not there.
Read ==
  /\ stage = "read"
  /\ \/ /\ ~rulesFile.large
        /\ text' = rulesFile
        /\ IF parses(rulesFile) THEN /\ Go("verbose")
                                     /\ rules' = rulesFile.rules
                                ELSE /\ Fail("ArgumentError")
                                     /\ UNCHANGED rules
     \/ /\ Fail("ArgumentError")   \* too large, or a read error
        /\ UNCHANGED <<text, rules>>
  /\ UNCHANGED loading

\* Mutant: the source is told from --source alone.
VerboseFromOption ==
  /\ stage = "verbose"
  /\ report' = [source |-> IF requested = "FileSystem" THEN "fs" ELSE "com",
                rules  |-> "defaults"]
  /\ Go("resolve")
  /\ UNCHANGED <<chosen, rulesFile, edits, exists, text, rules, items>>

\* reportVerboseDiagnostics(), after getLinksDirectory().  The source is told
\* from --source and from onDegrade having been called; the rules file is looked
\* for again, at a later time than selectRuleSet() did.
Verbose ==
  /\ stage = "verbose"
  /\ \/ /\ report' \in {Unreported,
                        [source |-> IF requested = "FileSystem" \/ degraded # << >>
                                    THEN "fs" ELSE "com",
                         rules  |-> IF explicit THEN "explicit"
                                    ELSE IF rulesFile # Absent THEN "user" ELSE "defaults"]}
        /\ Go("resolve")
     \/ /\ Fail("ArgumentError")
        /\ UNCHANGED report
  /\ UNCHANGED <<chosen, rulesFile, edits, exists, text, rules, items>>

\* resolveAlias() of every executable; one without an alias is warned about, and
\* one a pattern cannot be evaluated against ends the run.
Resolve ==
  /\ stage = "resolve"
  /\ IF \E entry \in kept : \E e \in entry.executables :
          resolveAlias(rules, NameOf[e]) = RegexError
     THEN /\ Fail("ArgumentError")
          /\ UNCHANGED items
     ELSE /\ stage' = "done"
          /\ items' = {item \in UNION {{[package |-> entry.package, executable |-> e,
                                         alias |-> resolveAlias(rules, NameOf[e])] :
                                          e \in entry.executables} : entry \in kept} :
                         item.alias # NoAlias}
          /\ UNCHANGED exit
  /\ UNCHANGED <<chosen, rulesFile, edits, exists, text, rules, report>>

\* Another program writes, replaces or removes the rules file.  An open stream
\* keeps others from removing it, and not from writing it.
Edit ==
  /\ edits < MaxEdits
  /\ stage \in {"select", "preCheck", "open", "read", "verbose"}
  /\ edits' = edits + 1
  /\ rulesFile' \in Texts \cup {Absent}
  /\ stage = "read" => rulesFile' # Absent
  /\ UNCHANGED <<chosen, stage, exists, text, rules, report, items, exit>>

Program == Source \/ Enumerated \/ Filter \/ Select \/ PreCheck \/ Open \/ Read
             \/ Verbose \/ Resolve

World == /\ \/ stage = "packages" /\ ServerGone /\ UNCHANGED inventoryVars
            \/ Edit

Next == Program \/ World

Spec     == Init /\ [][Next]_allVars
\* Every call returns in the end, so a program that can take a step does.
FairSpec == Spec /\ WF_allVars(Program)

-------------------------------------------------------------------------------
Filtered == stage \in {"select", "preCheck", "open", "read", "verbose", "resolve", "done"}
              /\ exit # "PackageEnumerationFailed" /\ outcome = "packages"

\* An executable stays exactly when no --exclude pattern matches its package's
\* id or its file name and, if there are --include patterns, one of them does:
\* matchesGlob()'s backtracking finds a match whenever there is one.
FilterHonoursPatterns ==
  Filtered =>
    \A entry \in packages : \A e \in entry.executables :
      LET any(patterns) == \E pattern \in patterns :
                             \/ GlobMatches(pattern, IdOf[entry.package])
                             \/ GlobMatches(pattern, FileName[e])
      IN  (\E left \in kept : left.package = entry.package /\ e \in left.executables)
            <=> ~any(excludes) /\ (includes = {} \/ any(includes))

\* kMaxRulesFileBytes holds for what is parsed, and not only for what the size
\* was when it was asked for.
OversizeNeverParsed == text # Absent => ~text.large

\* The rules in force are those of the first tier there is: a file that cannot
\* be read or parsed, or whose existence cannot be told, ends the run, and the
\* embedded rules stand in for an absent user file only.
TierIsFinal ==
  stage \in {"verbose", "resolve"} \/ items # {} =>
    IF ~explicit /\ exists = "no"
    THEN rules = DefaultRules
    ELSE /\ exists # "error"
         /\ text # Absent
         /\ parses(text)
         /\ rules = text.rules

\* --verbose names the source the packages are from.
ReportedSource ==
  report.source # "none" =>
    report.source = IF Origin = "Com" THEN "com" ELSE "fs"

\* The inventory, or the exception, comes in the end.
InventoryEnds == <>(stage = "done")
===============================================================================
