\* Inventories of up to two executables, one change by another process.
SPECIFICATION FairFixSpec
CONSTANTS
  alias1 = alias1
  alias2 = alias2
  app1a = app1a
  app1b = app1b
  app2 = app2
  setup = setup
  NoAlias = NoAlias
  NoPath = NoPath
  NoLine = NoLine
  Links <- Aliases
  Executables <- Exes
  AliasOf <- Resolve
  CommandLines <- Lines
  Pieces <- AllPieces
  Dashed <- AllDashed
  ValidNames <- ToolNames
  DevicePaths <- Devices
  Absolute <- InDirectory
  TypedInputs <- Typed
  StdinIsConsole = TRUE
  BufferSize = 5
  kMaxRedirectedLineBytes = 4
  MaxInventory = 2
  MaxCandidates = 2
  MaxInterference = 1
INVARIANTS
  FixTypeOK CollisionsUntouched ExitCodeReports CommandConsent JsonPure
  AnswersKeepToTheirQuestions
PROPERTY ProcessExits
