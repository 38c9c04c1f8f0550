------------------------------- MODULE RuleSet -------------------------------
(***************************************************************************)
(* The alias rules (rules/RuleSet.cpp, core/AliasResolver.cpp): what makes *)
(* a rules file acceptable and which rule gives an executable its alias.   *)
(* A regular expression is abstracted to its effect on each executable     *)
(* name: no match, an error of the matcher, or the text it is replaced by. *)
(***************************************************************************)
EXTENDS Naturals, Sequences, FiniteSets

CONSTANTS
  Names,           \* file names, of executables and of aliases
  ValidAliases,    \* those isValidAliasFileName() accepts
  Patterns,        \* those of the rules considered
  CompiledPatterns,\* those std::wregex accepts
  Replace,         \* [CompiledPatterns \X Names -> Names \cup {NoMatch, RegexError}]
  RuleNames,       \* with EmptyName among them
  EmptyName,
  kMaxRuleCount,
  NoMatch,
  RegexError,
  NoAlias

ASSUME RuleAssumption ==
  /\ ValidAliases \subseteq Names
  /\ CompiledPatterns \subseteq Patterns
  /\ Replace \in [CompiledPatterns \X Names -> Names \cup {NoMatch, RegexError}]
  /\ EmptyName \in RuleNames
  /\ {NoMatch, RegexError, NoAlias} \cap Names = {}
  /\ kMaxRuleCount \in Nat

AliasRule == [name : RuleNames, pattern : Patterns]

isValidAliasFileName(name) == name \in ValidAliases

\* The constructor's checks: names there and all different, patterns compile.
Accepts(rules) ==
  /\ Len(rules) <= kMaxRuleCount
  /\ \A i \in DOMAIN rules : /\ rules[i].name # EmptyName
                             /\ rules[i].pattern \in CompiledPatterns
  /\ \A i, j \in DOMAIN rules : i # j => rules[i].name # rules[j].name

\* RuleSet::parse(): a text is either one with a defect in its JSON, or rules.
parses(text) == text.wellFormed /\ Accepts(text.rules)

\* RuleSet::resolve(): the rules are tried in order until one matches or the
\* matcher throws.
Outcomes(rules, name) ==
  {i \in DOMAIN rules : Replace[rules[i].pattern, name] # NoMatch}

FirstOutcome(rules, name) ==
  CHOOSE i \in Outcomes(rules, name) : \A j \in Outcomes(rules, name) : i <= j

resolve(rules, name) ==
  IF Outcomes(rules, name) = {} THEN NoMatch
  ELSE LET alias == Replace[rules[FirstOutcome(rules, name)].pattern, name]
       IN  IF alias = RegexError \/ isValidAliasFileName(alias) THEN alias ELSE NoMatch

\* resolveAlias(): a rule's alias, else the raw file name, else none.
resolveAlias(rules, name) ==
  IF resolve(rules, name) # NoMatch THEN resolve(rules, name)
  ELSE IF isValidAliasFileName(name) THEN name
  ELSE NoAlias
===============================================================================
