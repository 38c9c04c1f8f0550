\* Batches of up to three candidates on two aliases, one change by another process.
SPECIFICATION Spec
CONSTANTS
  alias1 = alias1
  alias2 = alias2
  NoLine = NoLine
  Links <- Aliases
  MaxCandidates = 3
  MaxInterference = 1
SYMMETRY Symmetry
INVARIANTS
  TypeOK SummaryMatchesItems ExitCodeIsHonest MutationsAreReported
  MutationsAreApproved StopsAfterCurrentItem
