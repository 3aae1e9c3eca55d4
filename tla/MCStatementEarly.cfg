\* Columns are looked up before the statement is run.
SPECIFICATION Spec
CONSTANTS
  Iters = {i1, i2}
  MaxRows = 2
  Schemas <- SmallSchemas
  Names <- ColumnNames
  None = None
  Beyond <- EarlyLookup
INVARIANTS
  ColIndexCorrect
