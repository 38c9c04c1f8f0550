------------------------------ MODULE ArgParser ------------------------------
(***************************************************************************)
(* parseArguments() of cli/ArgParser.cpp: one step per token of the        *)
(* command line, and one for what is only decided at its end.              *)
(*                                                                         *)
(* A token is a sequence of pieces of text.  An option is one piece; a     *)
(* path has a piece of its own for each backslash, quote and blank, since  *)
(* a token can be put together and taken apart again (Relaunch).           *)
(***************************************************************************)
EXTENDS Naturals, Sequences

CONSTANTS
  Pieces,         \* the text tokens are made of
  Dashed,         \* pieces that begin with a dash
  ValidNames,     \* tokens isValidAliasFileName() accepts
  DevicePaths,    \* tokens that begin with \\.\
  Absolute(_),    \* the path a token names, absolute and normalized
  NoPath          \* an absent path override

Token == Seq(Pieces)

FlagOptions == [useTui |-> {<<"--tui">>}, dryRun |-> {<<"--dry-run">>},
                assumeYes |-> {<<"--yes">>, <<"-y">>}, jsonOutput |-> {<<"--json">>},
                failOnMissing |-> {<<"--fail-on-missing">>}, noColor |-> {<<"--no-color">>},
                showSpecialFolders |-> {<<"--showspecialfolder">>, <<"-s">>},
                silent |-> {<<"--silent">>}]
Flag == DOMAIN FlagOptions

PathOptions    == [rulesPath |-> <<"--rules">>, packagesDirectory |-> <<"--packages-dir">>,
                   linksDirectory |-> <<"--links-dir">>]
PatternOptions == [includePatterns |-> <<"--include">>, excludePatterns |-> <<"--exclude">>]
Levels         == [Verbose |-> <<"--verbose">>, Quiet |-> <<"--quiet">>]
Sources        == [Com |-> <<"com">>, FileSystem |-> <<"fs">>, Auto |-> <<"auto">>]
Commands       == [Scan |-> <<"scan">>, Fix |-> <<"fix">>, TestRule |-> <<"test-rule">>]
GlobalFlags    == [Help |-> {<<"--help">>, <<"-h">>}, Version |-> {<<"--version">>}]

AppCommand == DOMAIN Commands \cup DOMAIN GlobalFlags

ArgParseErrorKind == {"UnknownCommand", "UnknownOption", "MissingOptionValue",
                      "InvalidOptionValue", "InvalidPathOverride", "MissingArgument",
                      "InvalidTestRuleName", "UnexpectedArgument", "ConflictingOptions"}

VARIABLES
  args,           \* the tokens, without the program's name
  argIndex,       \* of the token read next
  sawTerminator,  \* a "--" was read
  positionals,    \* tokens that are neither options nor values of options
  parsed,         \* the AppOptions so far; its Boolean members as the set flags
  parseOutcome    \* "parsing", "accepted", or the ArgParseError thrown

parseVars == <<args, argIndex, sawTerminator, positionals, parsed, parseOutcome>>

DefaultOptions ==
  [command |-> "Scan", source |-> "Auto", logLevel |-> "Normal",
   paths |-> [option \in DOMAIN PathOptions |-> NoPath],
   patterns |-> [option \in DOMAIN PatternOptions |-> << >>],
   testRuleName |-> << >>, flags |-> {}]

ParseTypeOK ==
  /\ args \in Seq(Token)
  /\ argIndex \in 1 .. Len(args) + 1
  /\ sawTerminator \in BOOLEAN
  /\ positionals \in Seq(Token)
  /\ parsed.command \in AppCommand
  /\ parsed.source \in DOMAIN Sources
  /\ parsed.logLevel \in {"Normal"} \cup DOMAIN Levels
  /\ parsed.patterns \in [DOMAIN PatternOptions -> Seq(Token)]
  /\ parsed.testRuleName \in Token
  /\ parsed.flags \subseteq Flag
  /\ parseOutcome \in {"parsing", "accepted"} \cup ArgParseErrorKind

\* A parser that is about to read tokens.
Unread(tokens) ==
  /\ args = tokens
  /\ argIndex = 1
  /\ sawTerminator = FALSE
  /\ positionals = << >>
  /\ parsed = DefaultOptions
  /\ parseOutcome = "parsing"

\* The same, in the next state.
Restart(tokens) ==
  /\ args' = tokens
  /\ argIndex' = 1
  /\ sawTerminator' = FALSE
  /\ positionals' = << >>
  /\ parsed' = DefaultOptions
  /\ parseOutcome' = "parsing"

-------------------------------------------------------------------------------
Reading == parseOutcome = "parsing" /\ argIndex <= Len(args)

arg == args[argIndex]

IsTerminator == ~sawTerminator /\ arg = <<"--">>
IsGlobalFlag == ~sawTerminator /\ \E c \in DOMAIN GlobalFlags : arg \in GlobalFlags[c]
IsOption     == /\ ~sawTerminator /\ ~IsTerminator /\ ~IsGlobalFlag
                /\ arg # << >> /\ arg[1] \in Dashed

\* The exception: options gathered so far are lost with it.
throwError(kind) == /\ parseOutcome' = kind
                    /\ UNCHANGED <<argIndex, parsed>>

Terminator ==
  /\ Reading /\ IsTerminator
  /\ sawTerminator' = TRUE
  /\ argIndex' = argIndex + 1
  /\ UNCHANGED <<args, positionals, parsed, parseOutcome>>

\* tryHandleGlobalFlag(): nothing after the flag is read.
GlobalFlag ==
  /\ Reading /\ IsGlobalFlag
  /\ \E c \in DOMAIN GlobalFlags :
       /\ arg \in GlobalFlags[c]
       /\ parsed' = [parsed EXCEPT !.command = c]
  /\ parseOutcome' = "accepted"
  /\ UNCHANGED <<args, argIndex, sawTerminator, positionals>>

FlagOption ==
  /\ Reading /\ IsOption
  /\ \E flag \in Flag : /\ arg \in FlagOptions[flag]
                        /\ parsed' = [parsed EXCEPT !.flags = @ \cup {flag}]
  /\ argIndex' = argIndex + 1
  /\ UNCHANGED <<args, sawTerminator, positionals, parseOutcome>>

LevelOption ==
  /\ Reading /\ IsOption
  /\ \E level \in DOMAIN Levels : /\ arg = Levels[level]
                                  /\ parsed' = [parsed EXCEPT !.logLevel = level]
  /\ argIndex' = argIndex + 1
  /\ UNCHANGED <<args, sawTerminator, positionals, parseOutcome>>

Spellings(options) == {options[o] : o \in DOMAIN options}
ValueOptions   == {<<"--source">>} \cup Spellings(PathOptions) \cup Spellings(PatternOptions)

\* takeOptionValue() at the end of the command line.
MissingValue ==
  /\ Reading /\ IsOption /\ arg \in ValueOptions
  /\ argIndex = Len(args)
  /\ throwError("MissingOptionValue")
  /\ UNCHANGED <<args, sawTerminator, positionals>>

\* takeOptionValue() takes whatever token is next, one with a dash too.
TakesValue == /\ Reading /\ IsOption
              /\ argIndex < Len(args)
value == args[argIndex + 1]

Accept(options) == /\ parsed' = options
                   /\ argIndex' = argIndex + 2
                   /\ UNCHANGED parseOutcome

SourceOption ==
  /\ TakesValue /\ arg = <<"--source">>
  /\ \/ \E source \in DOMAIN Sources :
          /\ value = Sources[source]
          /\ Accept([parsed EXCEPT !.source = source])
     \/ /\ value \notin Spellings(Sources)
        /\ throwError("InvalidOptionValue")
  /\ UNCHANGED <<args, sawTerminator, positionals>>

\* validatePathOverride(); the current directory, to which a relative path is
\* relative, may be impossible to tell.
PathOption ==
  /\ TakesValue
  /\ \E option \in DOMAIN PathOptions :
       /\ arg = PathOptions[option]
       /\ \/ /\ value # << >> /\ value \notin DevicePaths
             /\ Accept([parsed EXCEPT !.paths[option] = Absolute(value)])
          \/ /\ value = << >> \/ value \in DevicePaths \/ Absolute(value) # value
             /\ throwError("InvalidPathOverride")
  /\ UNCHANGED <<args, sawTerminator, positionals>>

PatternOption ==
  /\ TakesValue
  /\ \E option \in DOMAIN PatternOptions :
       /\ arg = PatternOptions[option]
       /\ Accept([parsed EXCEPT !.patterns[option] = Append(@, value)])
  /\ UNCHANGED <<args, sawTerminator, positionals>>

UnknownOption ==
  /\ Reading /\ IsOption
  /\ arg \notin UNION Spellings(FlagOptions) \cup Spellings(Levels) \cup ValueOptions
  /\ throwError("UnknownOption")
  /\ UNCHANGED <<args, sawTerminator, positionals>>

Positional ==
  /\ Reading /\ ~IsTerminator /\ ~IsGlobalFlag /\ ~IsOption
  /\ positionals' = Append(positionals, arg)
  /\ argIndex' = argIndex + 1
  /\ UNCHANGED <<args, sawTerminator, parsed, parseOutcome>>

-------------------------------------------------------------------------------
\* The first positional as a command, scan without one.
CommandNamed(c) == IF positionals = << >> THEN c = "Scan" ELSE positionals[1] = Commands[c]

\* Positionals a command takes, its own name included.
Taken(c) == IF c = "TestRule" THEN 2 ELSE 1

\* What applyPositionals() throws for command c, in its order, or "none".
PositionalError(c) ==
  IF c = "TestRule" /\ Len(positionals) < 2 THEN "MissingArgument"
  ELSE IF c = "TestRule" /\ positionals[2] \notin ValidNames THEN "InvalidTestRuleName"
  ELSE IF Len(positionals) > Taken(c) THEN "UnexpectedArgument" ELSE "none"

\* Mutant of Conflicting: --json is not checked against fix.
ConflictingTuiOnly(c, flags) ==
  "useTui" \in flags /\ (c # "Fix" \/ "jsonOutput" \in flags \/ "assumeYes" \in flags)

\* A script cannot answer a prompt, nor use the checklist.
Conflicting(c, flags) ==
  \/ "jsonOutput" \in flags /\ c = "Fix" /\ "assumeYes" \notin flags
  \/ "useTui" \in flags /\ (c # "Fix" \/ "jsonOutput" \in flags \/ "assumeYes" \in flags)

UnknownCommand ==
  /\ parseOutcome = "parsing" /\ argIndex > Len(args)
  /\ ~\E c \in DOMAIN Commands : CommandNamed(c)
  /\ throwError("UnknownCommand")
  /\ UNCHANGED <<args, sawTerminator, positionals>>

\* applyPositionals() and the conflicts, once every token was read.
Conclude ==
  /\ parseOutcome = "parsing" /\ argIndex > Len(args)
  /\ \E c \in DOMAIN Commands :
       /\ CommandNamed(c)
       /\ IF PositionalError(c) # "none" THEN throwError(PositionalError(c))
          ELSE IF Conflicting(c, parsed.flags) THEN throwError("ConflictingOptions")
          ELSE /\ parsed' = [parsed EXCEPT !.command = c,
                               !.testRuleName = IF c = "TestRule" THEN positionals[2] ELSE @]
               /\ parseOutcome' = "accepted"
               /\ UNCHANGED argIndex
  /\ UNCHANGED <<args, sawTerminator, positionals>>

ParseStep == \/ Terminator \/ GlobalFlag \/ FlagOption \/ LevelOption
             \/ MissingValue \/ SourceOption \/ PathOption \/ PatternOption
             \/ UnknownOption \/ Positional \/ UnknownCommand \/ Conclude
===============================================================================
