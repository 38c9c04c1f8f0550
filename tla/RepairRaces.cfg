\* Three instances on one link, one change by another process, one of them killed.
SPECIFICATION Spec
CONSTANTS
  link1 = link1
  link2 = link2
  exe = exe
  other = other
  call1 = call1
  call2 = call2
  call3 = call3
  Paths = {exe, other}
  FileIds = {id1, id2}
  NoPath = NoPath
  NoFile = NoFile
  Links <- SharedLinks
  Calls = {call1, call2, call3}
  LinkOf <- SharedLinkOf
  ExeOf <- SharedExeOf
  ModeOf <- SharedModeOf
  Faults = {}
  Killable = {call1}
  Holdable <- SharedLinks
  MaxInterference = 1
INVARIANTS RepairInv NeverInvalidArgument LossIsReported
PROPERTY ForeignEntriesSurvive
