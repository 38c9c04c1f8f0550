\* A catalog of two matches, one change of the rules file.
SPECIFICATION FairSpec
CONSTANTS
  tool = tool
  suite = suite
  shim = shim
  tool1 = tool1
  tool2 = tool2
  shim1 = shim1
  raw = raw
  setup = setup
  short = short
  bad = bad
  strip = strip
  guess = guess
  broken = broken
  rule1 = rule1
  rule2 = rule2
  NoMatch = NoMatch
  RegexError = RegexError
  NoAlias = NoAlias
  EmptyName = noName
  Absent = Absent
  Packages <- Pkgs
  Executables <- Exes
  Catalog <- Order
  Installed = {tool, suite, shim}
  Portable = {tool, shim}
  Located = {tool}
  Named = {tool, suite, shim}
  Folder <- Folders
  ExecutablesOf <- Content
  HResults = {"E_FAIL"}
  Characters = {"a", "b", "A", "B", "*", "?"}
  Fold <- Upper
  IdOf <- Id
  FileName <- File
  NameOf <- FileAs
  Names <- AllNames
  ValidAliases = {raw, short}
  Patterns = {strip, guess, broken}
  CompiledPatterns = {strip, guess}
  Replace <- Effects
  RuleNames = {rule1, rule2, noName}
  kMaxRuleCount = 2
  PatternSets <- Globs
  Texts <- Files
  DefaultRules <- Embedded
  MaxEdits = 1
INVARIANTS
  TypeOK SourceAsRequested OnlyFaultsAlter FilterHonoursPatterns
  OversizeNeverParsed TierIsFinal ReportedSource
PROPERTY InventoryEnds
CHECK_DEADLOCK FALSE
