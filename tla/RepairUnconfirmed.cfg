\* A healthy link that changes between the scan and its turn in the batch.
SPECIFICATION Spec
CONSTANTS
  alias1 = alias1
  alias2 = alias2
  NoLine = NoLine
  Links <- Aliases
  MaxCandidates = 1
  MaxInterference = 1
INVARIANT EveryMutationConfirmed
