\* The whole state space of one session and one close event.
SPECIFICATION FairSpec
INVARIANTS
  TypeOK
  RestoredByOne
  NeverPartial
  HandlerRestores
  NeverUsesFreedState
PROPERTIES
  TeardownReverses
  CloseEnds
