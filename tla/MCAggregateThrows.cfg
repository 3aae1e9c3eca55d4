\* Copying the zero state may throw.
SPECIFICATION Spec
CONSTANTS
  Queries = {q1}
  Calls = {"sum", "max"}
  Values = {1}
  MaxRows = 2
  ZeroThrows = TRUE
INVARIANTS
  FinalHasState
