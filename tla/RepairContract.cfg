\* One Execute and one DryRun call, every entry and file table, every error.
SPECIFICATION FairSpec
CONSTANTS
  link1 = link1
  link2 = link2
  exe = exe
  other = other
  call1 = call1
  call2 = call2
  call3 = call3
  Paths = {exe, other}
  FileIds = {id1, id2}
  NoPath = NoPath
  NoFile = NoFile
  Links <- ModesLinks
  Calls <- ModesCalls
  LinkOf <- ModesLinkOf
  ExeOf <- SharedExeOf
  ModeOf <- ModesModeOf
  Faults = {"ACCESS_DENIED", "SHARING_VIOLATION"}
  Killable = {}
  Holdable = {}
  MaxInterference = 0
INVARIANT TypeOK
PROPERTIES ImplementsContract EveryCallEnds
