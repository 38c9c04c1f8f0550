\* Lists of up to three rows in windows of up to five lines, of which two are
\* reserved: no row, one row, and pages shorter than the list all occur.
SPECIFICATION Spec
CONSTANTS
  MaxCandidates = 3
  MaxRows = 5
  MaxPending = 2
INVARIANTS
  TypeOK
  ViewportOK
  ViewportFitsWindow
  CheckedRowsWereShown
PROPERTIES
  ScrollsLeast
