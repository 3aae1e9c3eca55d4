\* Two iterators and direct steps on one backup, with locks and writes.
SPECIFICATION FairSpec
CONSTANTS
  Iters = {i1, i2}
  PageCount = 3
  Versions = {"a", "b"}
  StepSizes <- Sizes
  MaxDisturbed = 2
  None = None
INVARIANTS
  TypeOK
PROPERTIES
  LoopCompletes
  LoopEnds
