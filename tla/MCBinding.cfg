\* A statement that is bound, run, iterated and reset as documented.
SPECIFICATION FairBindSpec
CONSTANTS
  Iters = {i1}
  MaxRows = 3
  Schemas <- SmallSchemas
  Names <- ColumnNames
  None = None
  ParamNames <- SmallParams
  ParamNumber <- SmallNumbers
  ParamCount = 2
  BindTypes <- SmallTypes
  Buffers = {b1}
  Contents <- SmallContents
  Beyond <- Contract
INVARIANTS
  TypeOK
  CompletedTruthful
  IteratorAtRow
  IteratorNumbersRows
  ColIndexCorrect
  QuerySeesBound
  ValuesSurvive
PROPERTIES
  LoopSeesAllRows
  LoopEnds
