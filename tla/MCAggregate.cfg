\* Copying the zero state does not throw.
SPECIFICATION FairSpec
CONSTANTS
  Queries = {q1}
  Calls = {"sum", "max"}
  Values = {1, 2}
  MaxRows = 3
  ZeroThrows = FALSE
INVARIANTS
  TypeOK
  ResultOfGroup
  StatesDestroyed
PROPERTIES
  AggregationEnds
