\* One call whose process may end at any point.
SPECIFICATION Spec
CONSTANTS
  link1 = link1
  link2 = link2
  exe = exe
  other = other
  call1 = call1
  call2 = call2
  call3 = call3
  Paths = {exe, other}
  FileIds = {id1, id2}
  NoPath = NoPath
  NoFile = NoFile
  Links <- SharedLinks
  Calls = {call1}
  LinkOf <- SharedLinkOf
  ExeOf <- SharedExeOf
  ModeOf <- SharedModeOf
  Faults = {}
  Killable = {call1}
  Holdable = {}
  MaxInterference = 0
INVARIANT NeverHalfMutated
